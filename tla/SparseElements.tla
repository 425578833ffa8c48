--------------------------- MODULE SparseElements ---------------------------
(***************************************************************************)
(* What a sparsetable reads as: an array in which a location holds a value *)
(* or nothing.                                                             *)
(***************************************************************************)
EXTENDS SparseTable

CONSTANTS
  Val,        \* the values of value_type
  UNASSIGNED  \* no value

ASSUME ElementsAssumption == default_value \in Val /\ UNASSIGNED \notin Val

Elements(t) ==
  [i \in Locations(t) |-> IF test(t, i) THEN get(t, i) ELSE UNASSIGNED]

=============================================================================
