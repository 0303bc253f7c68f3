------------------------- MODULE MCEvidenceDelivery -------------------------
(* EvidenceDelivery for TLC: the slots of T are interchangeable. *)
EXTENDS EvidenceDelivery, TLC

SlotSymmetry == Permutations(Slot)

=============================================================================
