------------------------------ MODULE Witness ------------------------------
(***************************************************************************)
(* The witness W (runtime/witness.py) and what U does with its receipts    *)
(* (Agent.witness): U has W countersign the head that T shows it.  T may   *)
(* show a fork of its log and forge proofs, answers may be lost, calls     *)
(* that U gave up are still handled, and W's store may be put back to an   *)
(* older copy.                                                             *)
(*                                                                         *)
(* A head is written as the log it commits to; W and U use only its size   *)
(* and its root.  A fingerprint is written as what it is taken of.         *)
(* Signatures, and heads that are stale or of another log, are left out:   *)
(* such a call ends like one that is dropped.                              *)
(***************************************************************************)
EXTENDS Naturals, FiniteSets, Sequences

CONSTANTS
  Logs,           \* the logs T may show, none of them empty
  Proofs,         \* the proofs a forging T may answer with
  Root(_),        \* the root of a log
  Path(_, _),     \* the honest proof that a log extends its first entries
  Proves(_, _, _, _, _),  \* verify_consistency
  MaxLogEntries,  \* max_log_entries of W
  MaxWaiting,     \* calls waiting at W
  MaxRestores,    \* times W's store is put back
  NULL

ASSUME WitnessAssumption ==
  /\ Logs \subseteq Seq(UNION {{l[i] : i \in DOMAIN l} : l \in Logs}) \ {<<>>}
  /\ MaxLogEntries \in Nat \ {0}

Prefix(a, b) == Len(a) <= Len(b) /\ \A i \in 1 .. Len(a) : a[i] = b[i]

(* Hashes have no collisions, and what the verifier makes of proofs: it    *)
(* accepts none for a log that does not extend the other, and the honest   *)
(* one for a log that does.                                                *)
ASSUME ProofsAssumption ==
  \A a, b \in Logs :
    /\ Len(a) = Len(b) /\ Root(a) = Root(b) => a = b
    /\ Len(a) < Len(b) =>
         /\ \A p \in Proofs : Proves(Len(a), Len(b), Root(a), Root(b), p) => Prefix(a, b)
         /\ Prefix(a, b) => Proves(Len(a), Len(b), Root(a), Root(b), Path(Len(a), b))

VARIABLES
  honest,    \* T keeps one log and shows nothing else
  log,       \* the log of an honest T
  ledger,    \* W's store: its receipts, the last one is `latest'
  waiting,   \* heads in calls that W has yet to handle
  call,      \* U's call: the head it asked about and W's answer
  held,      \* the receipts U has stored
  refused,   \* U was told, or found, that something is wrong
  restores
vars == <<honest, log, ledger, waiting, call, held, refused, restores>>

Latest == ledger[Len(ledger)]
Newest == CHOOSE r \in held : \A q \in held : q.sequence <= r.sequence

Init ==
  /\ honest \in BOOLEAN
  /\ log \in {l \in Logs : Len(l) = 1}
  /\ ledger = <<>> /\ waiting = {} /\ call = NULL /\ held = {}
  /\ refused = FALSE /\ restores = 0

(* An honest T registers an entry. *)
Grow ==
  /\ honest
  /\ log' \in {l \in Logs : Len(l) = Len(log) + 1 /\ Prefix(log, l)}
  /\ UNCHANGED <<honest, ledger, waiting, call, held, refused, restores>>

(* U gets a head from T and sends it to W. *)
Shown == IF honest THEN {log} ELSE Logs

Ask ==
  /\ call = NULL /\ Cardinality(waiting) < MaxWaiting
  /\ \E head \in Shown :
       /\ waiting' = waiting \cup {head}
       /\ call' = [head |-> head, answer |-> NULL]
  /\ UNCHANGED <<honest, log, ledger, held, refused, restores>>

-----------------------------------------------------------------------------
(* handle, under W's lock: the receipt, or an error, for the call that U   *)
(* still waits for, if it is about this head.                              *)

Awaited(head) == call # NULL /\ call.head = head /\ call.answer = NULL

Answer(head, receipt) ==
  /\ call' = IF Awaited(head) THEN [call EXCEPT !.answer = receipt] ELSE call
  /\ UNCHANGED refused

Reject(head) ==
  IF Awaited(head) THEN call' = NULL /\ refused' = TRUE ELSE UNCHANGED <<call, refused>>

SameRoot(head) == Root(head) = Root(Latest.head)

(* What T answers when W asks it for consistency, during the call. *)
Proof(head) ==
  IF honest THEN {Path(Len(Latest.head), head)} ELSE Proofs

Larger(head) == Len(head) > Len(Latest.head)

(* Mutant: a larger tree is taken for an extension. *)
ExtendsBySize(head, proof) == Larger(head)

Extends(head, proof) ==
  Proves(Len(Latest.head), Len(head), Root(Latest.head), Root(head), proof)

Receipt(head) ==
  [sequence |-> Len(ledger) + 1, head |-> head, previous |-> IF ledger = <<>> THEN NULL ELSE Latest]

(* Mutant: an old head is an error even if it is the latest. *)
RepeatRefused(head) ==
  /\ ledger # <<>> /\ Len(head) = Len(Latest.head) /\ SameRoot(head)
  /\ Reject(head)
  /\ UNCHANGED ledger

(* The latest head again: the same receipt. *)
Repeat(head) ==
  /\ ledger # <<>> /\ Len(head) = Len(Latest.head) /\ SameRoot(head)
  /\ Answer(head, Latest)
  /\ UNCHANGED ledger

(* The first head, or one that extends the latest: both keys are written   *)
(* in one transaction.                                                     *)
Countersign(head) ==
  /\ ledger # <<>> => Larger(head) /\ \E proof \in Proof(head) : Extends(head, proof)
  /\ Len(ledger) < MaxLogEntries
  /\ ledger' = Append(ledger, Receipt(head))
  /\ Answer(head, Receipt(head))

(* Rollback, two roots for one size, no proof, or no room. *)
Refuse(head) ==
  /\ ledger # <<>>
  /\ \/ Len(head) < Len(Latest.head)
     \/ Len(head) = Len(Latest.head) /\ ~ SameRoot(head)
     \/ Larger(head) /\ \E proof \in Proof(head) : ~ Extends(head, proof)
     \/ Larger(head) /\ Len(ledger) >= MaxLogEntries
  /\ Reject(head)
  /\ UNCHANGED ledger

Handle(head) ==
  /\ waiting' = waiting \ {head}
  /\ Repeat(head) \/ Countersign(head) \/ Refuse(head)
  /\ UNCHANGED <<honest, log, held, restores>>

(* W stops before it commits, finds the head stale, or cannot reach T. *)
Drop(head) ==
  /\ waiting' = waiting \ {head}
  /\ UNCHANGED <<honest, log, ledger, call, held, refused, restores>>

(* U's timeout passes, or U stops: the answer does not arrive. *)
GiveUp ==
  /\ call # NULL /\ call' = NULL
  /\ UNCHANGED <<honest, log, ledger, waiting, held, refused, restores>>

(* W's store comes back from a copy that knows only the first n receipts. *)
Restore(n) ==
  /\ restores < MaxRestores /\ n < Len(ledger)
  /\ ledger' = SubSeq(ledger, 1, n)
  /\ restores' = restores + 1
  /\ UNCHANGED <<honest, log, waiting, call, held, refused>>

-----------------------------------------------------------------------------
(* Mutant: U compares sequences, not what the receipt is chained to. *)
AcceptableBySequence(receipt) ==
  held # {} => receipt.sequence > Newest.sequence \/ receipt = Newest

(* Agent.witness: the receipt is about U's head and continues its chain. *)
Acceptable(receipt) ==
  /\ Len(receipt.head) = Len(call.head) /\ Root(receipt.head) = Root(call.head)
  /\ held # {} =>
       /\ receipt.sequence > Newest.sequence \/ receipt = Newest
       /\ receipt.sequence = Newest.sequence + 1 => receipt.previous = Newest

Accept ==
  /\ call # NULL /\ call.answer # NULL
  /\ call' = NULL
  /\ IF Acceptable(call.answer)
     THEN held' = held \cup {call.answer} /\ UNCHANGED refused
     ELSE refused' = TRUE /\ UNCHANGED held
  /\ UNCHANGED <<honest, log, ledger, waiting, restores>>

Next ==
  \/ Grow \/ Ask \/ GiveUp \/ Accept
  \/ \E head \in waiting : Handle(head) \/ Drop(head)
  \/ \E n \in 0 .. Len(ledger) : Restore(n)

Spec == Init /\ [][Next]_vars

-----------------------------------------------------------------------------
(* W countersigns one history: each head is of a log that extends the      *)
(* logs of all heads before, however often T forks and forges              *)
(* (witness.py:40-50).                                                     *)
OneHistory ==
  \A i, j \in DOMAIN ledger : i <= j => Prefix(ledger[i].head, ledger[j].head)

(* Receipts that U holds without a gap are about one history, too, even if *)
(* W's store was put back; with a gap they are as long as it was not       *)
(* (agent.py:182-190).                                                     *)
Gapless == \A r \in held : r.sequence > 1 => (\E q \in held : q.sequence = r.sequence - 1)

HeldOneHistory ==
  restores = 0 \/ Gapless =>
    \A q, r \in held : q.sequence <= r.sequence => Prefix(q.head, r.head)

(* U is told of a conflict, a rollback or a broken chain only if T forked, *)
(* W was put back or W is full, whatever calls it gave up and whatever     *)
(* answers it missed (witness.py:38-47).                                   *)
NoFalseRefusal ==
  refused => ~ honest \/ restores > 0 \/ Len(ledger) >= MaxLogEntries

=============================================================================
