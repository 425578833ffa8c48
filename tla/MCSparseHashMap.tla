--------------------------- MODULE MCSparseHashMap ---------------------------
(***************************************************************************)
(* A small instance of SparseHashMap for TLC: keys 1 to 3 and the deleted  *)
(* key 0, with hash values that collide, tables of 4 to 8 buckets in       *)
(* groups of three, and no more than MaxElements elements, deleted ones    *)
(* included, in all tables.  Object m1 is the target of every call, m2 of  *)
(* those that exchange or copy tables.                                     *)
(***************************************************************************)
EXTENDS SparseHashMap

CONSTANTS
  MaxElements,
  m1, m2,  \* objects
  v0, v1   \* values

MCObj  == {m1, m2}
MCKey  == 0 .. 3
MCVal  == {v0, v1}
MCHash == [k \in MCKey |-> IF k = 3 THEN 2 ELSE 3]

Item(k, v) == [key |-> k, val |-> v]
MCItems   == {Item(1, v1), Item(2, v0), Item(3, v0)}
MCRanges  == {<<Item(1, v1), Item(2, v0), Item(1, v0)>>}
MCFactors == {<<40, 80>>}

BoundedNext ==
  /\ Next
  /\ moving'.obj # m2 /\ (ret'[2] = m1 \/ ret'[1] \in {"swap", "copy"})
  /\ num_nonempty(ht'[m1]) + 2 * num_nonempty(ht'[m2]) <= MaxElements
  /\ bucket_count(ht'[m1]) <= 8 /\ bucket_count(ht'[m2]) <= 4
  /\ ht'[m2].settings.shrink_factor = HT_EMPTY_PCT

\* Fairness, its ENABLED replaced by what it comes to: a step of a move can be
\* taken exactly while there is one, and no other step can.
MoveGoesOn == []<>(moving = NoMove) \/ []<><<moving # NoMove>>_vars

\* What TLC tells states apart by: no action reads ret.
WithoutAnswers == <<ht, moving>>

BoundedSpec == Init /\ [][BoundedNext]_vars /\ MoveGoesOn

=============================================================================
