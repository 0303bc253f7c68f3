---------------------------- MODULE MCInference ----------------------------
EXTENDS Inference

(* Two contracts that carry one nonce, and contracts with one each. *)
SharedNonce == [u \in Sub |-> CHOOSE n \in Nonce : TRUE]
OwnNonce == [u \in Sub |-> u]

=============================================================================
