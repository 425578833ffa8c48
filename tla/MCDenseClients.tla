---------------------------- MODULE MCDenseClients ----------------------------
(***************************************************************************)
(* Two clients of DenseHashMap for TLC.  One makes every call on a single  *)
(* map; the other has several and makes the calls that exchange, copy and  *)
(* compare them, and just enough others to give them different contents,   *)
(* deleted buckets and reserved keys.                                      *)
(***************************************************************************)
EXTENDS MCDenseHashMap

\* The other maps stay new, and E is the empty key.
OneMap ==
  /\ \E o \in Obj : \A p \in Obj \ {o} : ht[p] = new_table(0) /\ UNCHANGED ht[p]
  /\ \A o \in Obj : ht'[o].settings.use_empty => ht'[o].emptykey = E

\* E is no empty key, and no map was constructed for a number of items.
SeveralMaps ==
  /\ \A o \in Obj : IF ht[o].settings.use_empty THEN ht[o].emptykey # E
                                                ELSE ht[o] = new_table(0)
  /\ \E o \in Obj :
       \/ \E obj \in TwoItems : Insert(o, obj)
       \/ \E k \in Key : Erase(o, k)
       \/ \E p \in Obj : Swap(o, p)
       \/ \E p \in Obj : Assign(o, p)
       \/ \E k \in EmptyKeys \ {E} : SetEmptyKey(o, k)
       \/ \E k \in DeletedKeys : SetDeletedKey(o, k)
       \/ ClearDeletedKey(o)

ClientNext ==
  \/ Next /\ OneMap
  \/ SeveralMaps
  \/ \E o \in Obj : \E p \in Obj : CopyConstruct(o, p)

ClientSpec == Init /\ [][ClientNext]_vars

\* No call depends on the answer to the one before.
WithoutAnswers == ht

\* Nothing tells one map from another.
ObjSymmetry == Permutations(Obj)

=============================================================================
