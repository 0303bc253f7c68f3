---------------------------- MODULE MCActivation ----------------------------
EXTENDS Activation

CONSTANTS A, B, C, D, E, first, second

(* B and C follow A, D follows B, and E follows B with new keys. *)
Follows(e) == CASE e \in {B, C} -> A [] e \in {D, E} -> B [] e = A -> NULL
KeptIn(e) == IF e = E THEN second ELSE first

=============================================================================
