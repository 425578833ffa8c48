---------------------------- MODULE MCSparseTable ----------------------------
(***************************************************************************)
(* A small instance of SparseTableClient for TLC: groups of four elements  *)
(* with bitmaps of two chars, tables of up to two groups, and no more than *)
(* MaxAssigned elements assigned at a time.                                *)
(***************************************************************************)
EXTENDS SparseTableClient, TLC

CONSTANT MaxAssigned

BoundedNext ==
  /\ Next
  /\ MapThenSumSet(LAMBDA o : tab'[o].num_buckets, Obj) <= MaxAssigned

BoundedSpec == Init /\ [][BoundedNext]_tab

\* Nothing tells one table from another.
ObjSymmetry == Permutations(Obj)

=============================================================================
