--------------------------- MODULE AppendOnlyLog ---------------------------
(***************************************************************************)
(* What the third party T promises about its transparency log, with        *)
(* nothing of how it keeps the promise: a durable sequence of entries that *)
(* only grows at its end, and receipts, each of which names an entry that  *)
(* is in the sequence when the receipt is handed out.                      *)
(***************************************************************************)
EXTENDS Naturals, Sequences

CONSTANTS
  Entry,    \* everything that can be registered
  Policy    \* the entry every log starts with

VARIABLES
  ledger,   \* the durable log
  promised  \* the receipts handed out: which entry, at which place

vars == <<ledger, promised>>

Init ==
  /\ ledger = <<Policy>>
  /\ promised = {}

(* A new entry goes to the end, and its receipt may be handed out at once. *)
Add ==
  /\ Len(ledger') = Len(ledger) + 1
  /\ LET e == ledger'[Len(ledger) + 1] IN
       /\ e \in Entry
       /\ ledger' = Append(ledger, e)
       /\ promised' \in {promised, promised \cup {[stmt |-> e, index |-> Len(ledger) + 1]}}

(* A receipt for an entry the log already has. *)
Repeat(i) ==
  /\ promised' = promised \cup {[stmt |-> ledger[i], index |-> i]}
  /\ UNCHANGED ledger

Next ==
  \/ Add
  \/ \E i \in DOMAIN ledger : Repeat(i)

Spec == Init /\ [][Next]_vars

=============================================================================
