------------------------------ MODULE MCLibcHash ------------------------------
(***************************************************************************)
(* A small instance of LibcHashClient for TLC: bins of four buckets with   *)
(* bitmaps of two words, a table that starts with one and may have four,   *)
(* three keys of which two collide and the third probes their buckets,     *)
(* and a fourth word that begins with one of the keys.                     *)
(***************************************************************************)
EXTENDS LibcHashClient

CONSTANTS k1, k2, k3, w1, v0, v1, MaxBuckets, MaxOccupied

MCKey      == {k1, k2, k3}
MCHash32   == k1 :> 7 @@ k2 :> 7 @@ k3 :> 6
MCGoals    == {-2, 2}
Items      == {<<k1, v0>>, <<k1, v1>>, <<k2, v0>>, <<k3, v1>>}
MCKeyTrunc == k1 :> k1 @@ k2 :> k2 @@ k3 :> k3 @@ w1 :> k1

\* Keys in the buckets, or keys by pointers of which the table makes copies; a
\* table is saved between iterations and finds, and once it is saved, one is loaded.
Bounded ==
  /\ ht'.fSaveKeys # 2 => STORES_PTR(ht') = (ht'.fSaveKeys = 1)
  /\ ret'[1] \in {"HashInsert", "HashFindOrInsert"} => ret'[2] \in Items
  /\ ht'.cBuckets <= MaxBuckets
  /\ Len(Occupied(ht')) <= MaxOccupied
  /\ file # <<>> => loaded'
  /\ ret'[1] \in {"HashSave", "HashSetDeltaGoalSize", "HashFirstBucket"} =>
       walk = NULL /\ last = NULL /\ (ht.cDeltaGoalSize = 0 \/ ret'[1] = "HashFirstBucket")

\* HashFindOrInsert counts an item and does not write it when it comes upon a
\* deleted bucket; HashDelete leaves no bucket when the last item goes from a
\* table that should have shrunk before, had it not been told to wait.
Careful ==
  /\ ret'[1] = "HashFindOrInsert" => ht.cDeletedItems = 0
  /\ ht'.cBuckets # 0

BoundedInit == Init /\ STORES_PTR(ht) = (ht.fSaveKeys = 1)

BoundedSpec == BoundedInit /\ [][Next /\ Bounded]_vars
CarefulSpec == BoundedInit /\ [][Next /\ Bounded /\ Careful]_vars

\* Answers do not tell one state from another.
WithoutAnswers == <<ht, walk, last, loaded, file, saved>>

=============================================================================
