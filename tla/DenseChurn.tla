------------------------------ MODULE DenseChurn ------------------------------
(***************************************************************************)
(* A client that keeps a few objects in a dense_hash_map and replaces the  *)
(* oldest by new ones for ever, as test ResizeWithoutShrink                *)
(* (hashtable_test.cc 1911) does, with the minimum load factor at 0, so    *)
(* that no table ever shrinks.  Keys are numbers, taken in turn.           *)
(***************************************************************************)
EXTENDS DenseHashMap

CONSTANTS
  Count,   \* keys 0 .. Count - 1, then 0 again
  Window,  \* the most objects at a time
  Churned  \* the map

EmptyKey   == Count
DeletedKey == Count + 1

\* No two keys of the window are the same; the default size is at most that of
\* the code, and no limit is in the way of the window.
ASSUME ChurnAssumption ==
  /\ Count \in Nat /\ Window \in 1 .. Count
  /\ 0 .. DeletedKey \subseteq Key
  /\ Churned \in Obj
  /\ HT_DEFAULT_STARTING_BUCKETS <= 32
  /\ Window <= MaxSize /\ 8 * (Window + 8) <= SizeMax

VARIABLES oldest, live  \* the keys in the map are oldest, oldest + 1, ...

churn == <<vars, oldest, live>>

ChurnInit ==
  /\ ht = [o \in Obj |->
             change_resizing_parameters(
               set_deleted_key(set_empty_key(new_table(0), EmptyKey), DeletedKey),
               0, HT_OCCUPANCY_PCT)]
  /\ ret = <<"none">>
  /\ oldest = 0 /\ live = 0

Push ==
  /\ live < Window
  /\ Subscript(Churned, (oldest + live) % Count, DefaultVal)
  /\ live' = live + 1
  /\ UNCHANGED oldest

Pop ==
  /\ live > 0
  /\ Erase(Churned, oldest)
  /\ oldest' = (oldest + 1) % Count
  /\ live' = live - 1

ChurnNext == Push \/ Pop

ChurnSpec == ChurnInit /\ [][ChurnNext]_churn

\* However long the churn, deleted buckets do not make the table double "the
\* bucket count to infinity" (densehashtable.h 602): it doubles only while too
\* few of its buckets are deleted for a rehash in place to last, that is, up
\* to a size that depends on the number of objects alone.
CapacityBounded == ht[Churned].num_buckets < 4 * (Window + 8)

\* The objects of the window are there, and only they.
WindowIsThere ==
  Keys(ht[Churned]) = {(oldest + i) % Count : i \in 0 .. live - 1}

=============================================================================
