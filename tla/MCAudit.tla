------------------------------- MODULE MCAudit -------------------------------
(* Values for TLC. *)
EXTENDS Audit, TLC

Symmetry == Permutations(Sub)

=============================================================================
