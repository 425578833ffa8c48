----------------------------- MODULE MCDenseChurn -----------------------------
(***************************************************************************)
(* The churn for TLC: keys hash to themselves, so that each lands in a     *)
(* fresh bucket and leaves a deleted one behind.                           *)
(***************************************************************************)
EXTENDS DenseChurn

MCKey  == 0 .. DeletedKey
MCHash == [k \in MCKey |-> k]

=============================================================================
