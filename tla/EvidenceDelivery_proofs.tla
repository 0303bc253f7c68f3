---------------------- MODULE EvidenceDelivery_proofs ----------------------
(***************************************************************************)
(* For every number of requests, parties, slots and faults: what a party   *)
(* has queued it still has, or T has it (of private evidence: what binds   *)
(* the request); every receipt a party holds is backed by T's durable log; *)
(* and T behaves as an append-only log towards all parties.                *)
(*                                                                         *)
(* The argument: what a party keeps follows from what T answered, and what *)
(* T answered stays true because T's log only grows.  The inductive        *)
(* invariant therefore ties a flush loop to the call it waits on (the call *)
(* carries the head of the party's outbox, FlushInStep) and the answer in  *)
(* a slot to T's state (RepliesTrue).  Calls that nobody waits for any     *)
(* more need no clause: their answers are thrown away.                     *)
(*                                                                         *)
(* From it, with an invariant of their own each: nothing about a request   *)
(* reaches T's log before its contract, every version of private evidence  *)
(* that was queued, and so what every verdict was computed from, is kept   *)
(* at U, and an admitted request never meets a full queue.                 *)
(***************************************************************************)
EXTENDS EvidenceDelivery, Registry_proofs, FiniteSetTheorems

Usable(it) == it \in Item /\ (it.ct = "private" => it.sub \in Sub /\ it.basis \in Private)

ItemsUsable ==
  /\ \A s \in Sender : \A i \in 1 .. Len(outbox[s]) : Usable(outbox[s][i])
  /\ \A s \in Sender : \A it \in issued[s] : Usable(it)
  /\ \A k \in Slot : slot[k] # NULL => Usable(slot[k].item)

InStep(s) ==
  /\ stage[s] # "idle" => 1 <= todo[s] /\ todo[s] <= Len(outbox[s])
  /\ stage[s] = "wait" => /\ call[s] \in Slot
                          /\ slot[call[s]] # NULL
                          /\ slot[call[s]].src = s
                          /\ slot[call[s]].item = outbox[s][1]
  /\ stage[s] = "ack" => Settled(s, outbox[s][1])

FlushInStep == \A s \in Sender : InStep(s)

Truthful(c) ==
  IF c.item.ct = "private"
  THEN private[c.item.sub] # NULL /\ private[c.item.sub].request = c.item.basis.request
  ELSE c.index \in 1 .. Len(journal) /\ journal[c.index] = c.item

RepliesTrue == \A k \in Slot : slot[k] # NULL /\ slot[k].reply = "ok" => Truthful(slot[k])

QueuedOrSettled == \A s \in Sender : \A it \in issued[s] : it \in Queued(s) \/ Settled(s, it)

DeliveryInv ==
  /\ TypeOK
  /\ RegistryInv
  /\ ItemsUsable
  /\ FlushInStep
  /\ RepliesTrue
  /\ HeldReceiptsBacked
  /\ QueuedOrSettled

-----------------------------------------------------------------------------

(* A rebuild, complete or not, leaves a length that is a number. *)
LEMMA RebuiltTyped == RegistryTypeOK => Rebuilt \subseteq Nat /\ Len(journal) \in Nat
  BY DEF RegistryTypeOK, Rebuilt

(* T's state changes by operations of T only. *)
LEMMA NextIsRegistryStep ==
  ASSUME DeliveryInv, [Next]_vars
  PROVE  [RegistryStep]_registryVars
  <1> USE DEF vars
  <1>1. ASSUME NEW k \in Slot, Serve(k) PROVE RegistryStep
    <2> DEFINE it == slot[k].item
               a == slot[k].src
    <2>1. /\ Usable(it) /\ a \in {"U", "R", "M", "T"} /\ a # "T"
      BY <1>1, DeliveryAssumption DEF Serve, Free, DeliveryInv, TypeOK, ItemsUsable, Call, Sender, DeliveryAssumption
    <2>2. \A i \in 0 .. MaxLogEntries : i \in Nat
      BY RegistryAssumption DEF RegistryAssumption
    <2>3. CASE ServeAccepted(k)
      <3>1. CASE it.ct = "private"
        BY <2>1, <2>3, <3>1 DEF ServeAccepted, Usable, RegistryStep
      <3>2. CASE it.ct # "private"
        <4>1. \E i \in 0 .. MaxLogEntries : SubmitAccepted(a, it, i)
          BY <2>3, <3>2 DEF ServeAccepted
        <4> HIDE DEF it, a
        <4> QED BY <2>1, <2>2, <4>1 DEF Usable, RegistryStep
      <3> QED BY <3>1, <3>2
    <2>4. CASE ServeRefused(k)
      <3>1. CASE it.ct = "private"
        BY <2>1, <2>4, <3>1 DEF ServeRefused, Usable, RegistryStep
      <3>2. CASE it.ct # "private"
        <4>1. SubmitRefused(a, it)
          BY <2>4, <3>2 DEF ServeRefused
        <4> HIDE DEF it, a
        <4> QED BY <2>1, <4>1 DEF Usable, RegistryStep
      <3> QED BY <3>1, <3>2
    <2>5. CASE ServeFails(k)
      <3>1. \E kept \in Nat : SubmitFails(a, it, kept)
        BY <2>5, RebuiltTyped DEF ServeFails, DeliveryInv, RegistryInv
      <3> HIDE DEF it, a
      <3> QED BY <2>1, <3>1 DEF Usable, RegistryStep
    <2> QED BY <1>1, <2>3, <2>4, <2>5 DEF Serve
  <1>2. ASSUME NEW u \in Sub, AskVerdict(u) \/ AskVerdictFails(u) PROVE RegistryStep
    <2>1. CASE AskVerdict(u)
      <3>1. \A i \in 1 .. MaxLogEntries : i \in Nat
        BY RegistryAssumption DEF RegistryAssumption
      <3> QED BY <2>1, <3>1 DEF AskVerdict, RegistryStep
    <2>2. CASE AskVerdictFails(u)
      <3>1. \E kept \in Nat : VerdictFails(u, kept)
        BY <2>2, RebuiltTyped DEF AskVerdictFails, DeliveryInv, RegistryInv
      <3> QED BY <3>1 DEF RegistryStep
    <2> QED BY <1>2, <2>1, <2>2
  <1>3. CASE CrashT \/ RetireT
    BY <1>3 DEF CrashT, RetireT, RegistryStep
  <1>4. ASSUME NEW u \in Sub, Admit(u) \/ RequestStep(u) \/ Abandon(u)
        PROVE  UNCHANGED registryVars
    BY <1>4 DEF Admit, RequestStep, Abandon, QueueContract, RememberRequest, QueueRequest, Transmit, Answer,
                RememberResponse, QueueObservation, QueueResponse, Decide, Queue, Remember
  <1>5. ASSUME NEW r \in Services, NEW u \in Sub, NEW v \in {1, 2}, Testify(r, u, v)
        PROVE  UNCHANGED registryVars
    BY <1>5 DEF Testify
  <1>6. ASSUME NEW s \in Sender, FlushStep(s) \/ Timeout(s) \/ CrashSender(s)
        PROVE  UNCHANGED registryVars
    BY <1>6 DEF FlushStep, BeginFlush, Send, Busy, Rejected, Accepted, Ack, Timeout, CrashSender
  <1> QED
    BY <1>1, <1>2, <1>3, <1>4, <1>5, <1>6 DEF Next

-----------------------------------------------------------------------------
(* Types. *)

LEMMA Request1Typed == \A b \in BOOLEAN : PrivateOf(b) \in Private
  BY DeliveryAssumption DEF PrivateOf, Request1, Private, DeliveryAssumption

(* The statements of a request are items. *)
LEMMA ItemsTyped ==
  ASSUME NEW u \in Sub
  PROVE  /\ Usable(Contract(u)) /\ Usable(Observation(u))
         /\ \A b \in BOOLEAN : Usable(PrivateItem(u, PrivateOf(b)))
         /\ \A r \in Services, v \in {1, 2} : Usable(Evidence(r, u, v))
  BY Request1Typed, DeliveryAssumption
  DEF Contract, Observation, Evidence, PrivateItem, Statement, Usable, Item, StatementTypes, DeliveryAssumption

(* U and the services send. *)
LEMMA SendersTyped == "U" \in Sender /\ Services \subseteq Sender
  BY DEF Sender

(* Queueing an item keeps the outboxes typed. *)
LEMMA EnqueueTyped ==
  ASSUME TypeOK, NEW s \in Sender, NEW it \in Item, Enqueue(s, it)
  PROVE  outbox' \in [Sender -> Seq(Item)] /\ issued' \in [Sender -> SUBSET Item]
  BY DEF Enqueue, TypeOK

(* A flush loop that is busy has an item at the head of its outbox. *)
LEMMA HeadTyped ==
  ASSUME TypeOK, FlushInStep, NEW s \in Sender, stage[s] # "idle"
  PROVE  /\ Len(outbox[s]) \in Nat /\ 1 <= Len(outbox[s])
         /\ todo[s] \in Nat /\ 1 <= todo[s] /\ todo[s] <= Len(outbox[s])
         /\ Head(outbox[s]) = outbox[s][1]
         /\ outbox[s][1] \in Item
         /\ Tail(outbox[s]) \in Seq(Item)
         /\ Len(Tail(outbox[s])) = Len(outbox[s]) - 1
         /\ \A i \in 1 .. Len(outbox[s]) - 1 : Tail(outbox[s])[i] = outbox[s][i + 1]
  <1>1. outbox[s] \in Seq(Item) /\ todo[s] \in Nat
    BY DEF TypeOK
  <1>2. 1 <= todo[s] /\ todo[s] <= Len(outbox[s])
    BY DEF FlushInStep, InStep
  <1> DEFINE q == outbox[s]
  <1>3. q \in Seq(Item) /\ Len(q) \in Nat /\ 1 <= Len(q)
    BY <1>1, <1>2
  <1> HIDE DEF q
  <1>4. /\ Head(q) = q[1] /\ q[1] \in Item
        /\ Tail(q) \in Seq(Item) /\ Len(Tail(q)) = Len(q) - 1
        /\ \A i \in 1 .. Len(q) - 1 : Tail(q)[i] = q[i + 1]
    BY <1>3
  <1> QED BY <1>1, <1>2, <1>3, <1>4 DEF q

(* The steps of U's request thread keep the types. *)
LEMMA RequestTyped ==
  ASSUME TypeOK, RegistryTypeOK', NEW u \in Sub, Admit(u) \/ RequestStep(u) \/ Abandon(u)
  PROVE  TypeOK'
  <1> USE DEF flushVars, TypeOK, Advance, Phases
  <1>1. ASSUME NEW from \in Phases, NEW to \in Phases, NEW it \in Item, Queue(u, from, to, it)
        PROVE  TypeOK'
    BY <1>1, EnqueueTyped, SendersTyped DEF Queue
  <1>2. ASSUME NEW from \in Phases, NEW to \in Phases, NEW p \in Private, Remember(u, from, to, p)
        PROVE  TypeOK'
    BY <1>2 DEF Remember
  <1>3. CASE Admit(u) \/ Transmit(u) \/ Answer(u) \/ Decide(u) \/ Abandon(u)
    BY <1>3 DEF Admit, Transmit, Answer, Decide, Abandon
  <1>4. CASE QueueContract(u) \/ QueueRequest(u) \/ QueueObservation(u) \/ QueueResponse(u)
    BY <1>1, <1>4, ItemsTyped DEF QueueContract, QueueRequest, QueueObservation, QueueResponse, Usable
  <1>5. CASE RememberRequest(u) \/ RememberResponse(u)
    BY <1>2, <1>5, Request1Typed DEF RememberRequest, RememberResponse
  <1> QED BY <1>3, <1>4, <1>5 DEF RequestStep

(* The steps of a flush loop keep the types. *)
LEMMA FlushTyped ==
  ASSUME TypeOK, FlushInStep, ItemsUsable, RegistryTypeOK', NEW s \in Sender, FlushStep(s) \/ Timeout(s) \/ CrashSender(s)
  PROVE  TypeOK'
  <1> USE DEF TypeOK, requestVars, FlushInStep, InStep, StopFlush
  <1>1. CASE BeginFlush(s)
    BY <1>1 DEF BeginFlush
  <1>2. CASE Send(s)
    <2>1. Head(outbox[s]) \in Item
      BY <1>2, HeadTyped DEF Send
    <2>2. PICK k \in Slot :
            /\ slot' = [slot EXCEPT ![k] = [src |-> s, item |-> Head(outbox[s]), reply |-> "none", index |-> 0]]
            /\ call' = [call EXCEPT ![s] = k]
      BY <1>2 DEF Send
    <2>3. [src |-> s, item |-> Head(outbox[s]), reply |-> "none", index |-> 0] \in Call
      BY <2>1 DEF Call
    <2> QED BY <1>2, <2>2, <2>3 DEF Send
  <1>3. CASE Busy(s) \/ Rejected(s)
    <2>1. slot' \in [Slot -> Call \cup {NULL}]
      BY <1>3 DEF Busy, Rejected
    <2>2. /\ stage' = [stage EXCEPT ![s] = "idle"]
          /\ todo' = [todo EXCEPT ![s] = 0]
          /\ call' = [call EXCEPT ![s] = NULL]
          /\ UNCHANGED <<requestVars, outbox, held, issued, faults>>
      BY <1>3 DEF Busy, Rejected
    <2> QED BY <2>1, <2>2
  <1>4. CASE Accepted(s)
    <2>1. /\ Head(outbox[s]) \in Item
          /\ slot[call[s]].index \in Nat
      BY <1>4, HeadTyped DEF Accepted, Call
    <2>2. [stmt |-> Head(outbox[s]), index |-> slot[call[s]].index] \in Receipt
      BY <2>1 DEF Receipt
    <2> QED BY <1>4, <2>2 DEF Accepted
  <1>5. CASE Ack(s)
    <2>1. Tail(outbox[s]) \in Seq(Item) /\ todo[s] - 1 \in Nat
      BY <1>5, HeadTyped DEF Ack
    <2> QED BY <1>5, <2>1 DEF Ack
  <1>6. CASE Timeout(s)
    BY <1>6 DEF Timeout, Fault
  <1>7. CASE CrashSender(s)
    BY <1>7 DEF CrashSender, Fault, Phases
  <1> QED BY <1>1, <1>2, <1>3, <1>4, <1>5, <1>6, <1>7 DEF FlushStep

(* What T does with a call keeps the types. *)
LEMMA ServeTyped ==
  ASSUME TypeOK, RegistryTypeOK', NEW k \in Slot, Serve(k)
  PROVE  TypeOK'
  <1> USE DEF TypeOK, requestVars
  <1>1. slot[k] \in Call
    BY DEF Serve, Free
  <1>2. ASSUME NEW outcome \in {"ok", "error"}, NEW i \in Nat, Reply(k, outcome, i)
        PROVE  slot' \in [Slot -> Call \cup {NULL}]
    <2>1. [slot[k] EXCEPT !.reply = outcome, !.index = i] \in Call
      BY <1>1 DEF Call
    <2> QED BY <1>2, <2>1 DEF Reply
  <1>3. \A i \in 0 .. MaxLogEntries : i \in Nat
    BY RegistryAssumption DEF RegistryAssumption
  <1>4. CASE ServeAccepted(k)
    <2>1. PICK i \in 0 .. MaxLogEntries : Reply(k, "ok", i) /\ faults' = faults
      BY <1>4 DEF ServeAccepted
    <2> QED BY <1>2, <1>3, <2>1 DEF Serve
  <1>5. CASE ServeRefused(k)
    <2>1. Reply(k, "error", 0) /\ faults' = faults
      BY <1>5 DEF ServeRefused
    <2> QED BY <1>2, <2>1 DEF Serve
  <1>6. CASE ServeFails(k)
    <2>1. Reply(k, "error", 0) /\ faults' \in {faults, faults + 1}
      BY <1>6 DEF ServeFails, Fault
    <2> QED BY <1>2, <2>1 DEF Serve
  <1> QED BY <1>4, <1>5, <1>6 DEF Serve

(* Every step keeps the types. *)
LEMMA NextTyped ==
  ASSUME TypeOK, FlushInStep, ItemsUsable, RegistryTypeOK', [Next]_vars
  PROVE  TypeOK'
  <1>1. ASSUME NEW u \in Sub, Admit(u) \/ RequestStep(u) \/ Abandon(u)
        PROVE  TypeOK'
    BY <1>1, RequestTyped
  <1>2. ASSUME NEW u \in Sub, AskVerdict(u) \/ AskVerdictFails(u)
        PROVE  TypeOK'
    <2> USE DEF TypeOK, requestVars, flushVars
    <2>1. CASE AskVerdict(u)
      <3>1. PICK i \in 1 .. MaxLogEntries :
              /\ Verdict(u, i)
              /\ held' = [held EXCEPT !["U"] = @ \cup {[stmt |-> VerdictOn(u), index |-> i]}] \/ UNCHANGED held
        BY <2>1 DEF AskVerdict
      <3>2. VerdictOn(u) \in Item
        BY <3>1, VerdictTyped DEF Verdict
      <3>3. i \in Nat
        BY RegistryAssumption DEF RegistryAssumption
      <3> DEFINE rc == [stmt |-> VerdictOn(u), index |-> i]
      <3>4. rc \in Receipt
        BY <3>2, <3>3 DEF Receipt
      <3>5. held' = [held EXCEPT !["U"] = @ \cup {rc}] \/ UNCHANGED held
        BY <3>1
      <3> HIDE DEF rc
      <3>6. held' \in [Sender -> SUBSET Receipt]
        <4>1. held \in [Sender -> SUBSET Receipt] /\ held["U"] \cup {rc} \in SUBSET Receipt
          BY <3>4, SendersTyped
        <4>2. [held EXCEPT !["U"] = held["U"] \cup {rc}] \in [Sender -> SUBSET Receipt]
          BY <4>1, SendersTyped
        <4> QED BY <3>5, <4>1, <4>2
      <3>7. UNCHANGED <<requestVars, outbox, flushVars, issued, faults>>
        BY <2>1 DEF AskVerdict
      <3> QED BY <3>6, <3>7
    <2>2. CASE AskVerdictFails(u)
      <3>1. faults' \in {faults, faults + 1}
        BY <2>2 DEF AskVerdictFails, Fault
      <3>2. UNCHANGED <<requestVars, outbox, flushVars, held, issued>>
        BY <2>2 DEF AskVerdictFails
      <3> QED BY <3>1, <3>2
    <2> QED BY <1>2, <2>1, <2>2
  <1>3. ASSUME NEW r \in Services, NEW u \in Sub, NEW v \in {1, 2}, Testify(r, u, v)
        PROVE  TypeOK'
    <2>1. r \in Sender /\ Evidence(r, u, v) \in Item
      BY ItemsTyped, SendersTyped DEF Usable
    <2>2. outbox' \in [Sender -> Seq(Item)] /\ issued' \in [Sender -> SUBSET Item]
      BY <1>3, <2>1, EnqueueTyped DEF Testify
    <2> QED BY <1>3, <2>2 DEF Testify, TypeOK, requestVars, flushVars
  <1>4. ASSUME NEW s \in Sender, FlushStep(s) \/ Timeout(s) \/ CrashSender(s)
        PROVE  TypeOK'
    BY <1>4, FlushTyped
  <1>5. ASSUME NEW k \in Slot, Serve(k)
        PROVE  TypeOK'
    BY <1>5, ServeTyped
  <1>6. CASE CrashT
    BY <1>6 DEF CrashT, Fault, TypeOK, requestVars
  <1>7. CASE RetireT \/ UNCHANGED vars
    BY <1>7 DEF RetireT, TypeOK, requestVars, flushVars, vars
  <1> QED
    BY <1>1, <1>2, <1>3, <1>4, <1>5, <1>6, <1>7 DEF Next

-----------------------------------------------------------------------------
(* What was true of T's state stays true. *)

LEMMA TruthStays ==
  ASSUME DeliveryInv, [Next]_vars
  PROVE  /\ RegistryInv'
         /\ \A c \in Call : Usable(c.item) /\ Truthful(c) => Truthful(c)'
         /\ \A s \in Sender, it \in Item :
              Usable(it) /\ Settled(s, it) /\ held[s] \subseteq held'[s] => Settled(s, it)'
         /\ \A rc \in Receipt :
              rc.index \in DOMAIN journal /\ journal[rc.index] = rc.stmt
                => rc.index \in DOMAIN journal' /\ journal'[rc.index] = rc.stmt
  <1>1. RegistryInv /\ [RegistryStep]_registryVars
    BY NextIsRegistryStep DEF DeliveryInv
  <1>2. RegistryInv'
    BY <1>1, StepPreserves
  <1>3. /\ \A i \in 1 .. Len(journal) : i \in 1 .. Len(journal') /\ journal'[i] = journal[i]
        /\ \A u \in Sub :
             private[u] # NULL => private'[u] # NULL /\ private'[u].request = private[u].request
    BY <1>1, NothingTakenBack
  <1>4. journal \in Seq(Item) /\ journal' \in Seq(Item)
    BY <1>1, <1>2 DEF RegistryInv, RegistryTypeOK
  <1>5. \A c \in Call : Usable(c.item) /\ Truthful(c) => Truthful(c)'
    BY <1>3 DEF Truthful, Usable
  <1>6. \A s \in Sender, it \in Item :
          Usable(it) /\ Settled(s, it) /\ held[s] \subseteq held'[s] => Settled(s, it)'
    BY <1>3 DEF Settled, Usable
  <1>7. \A rc \in Receipt :
          rc.index \in DOMAIN journal /\ journal[rc.index] = rc.stmt
            => rc.index \in DOMAIN journal' /\ journal'[rc.index] = rc.stmt
    BY <1>3, <1>4
  <1> QED BY <1>2, <1>5, <1>6, <1>7

Rest == ItemsUsable /\ FlushInStep /\ RepliesTrue /\ HeldReceiptsBacked /\ QueuedOrSettled

(* A step that touches neither outboxes, flush loops, slots nor receipts. *)
LEMMA ElsewhereKeeps ==
  ASSUME DeliveryInv, [Next]_vars, UNCHANGED <<outbox, flushVars, held, issued>>
  PROVE  Rest'
  <1> USE DEF DeliveryInv, flushVars
  <1>1. ItemsUsable'
    BY DEF ItemsUsable, Usable
  <1>2. FlushInStep'
    <2> SUFFICES ASSUME NEW s \in Sender, stage[s] = "ack"
                 PROVE  Settled(s, outbox[s][1])'
      BY DEF FlushInStep, InStep
    <2>1. Usable(outbox[s][1]) /\ Settled(s, outbox[s][1])
      BY HeadTyped DEF FlushInStep, InStep, ItemsUsable
    <2> QED BY <2>1, TruthStays DEF Usable
  <1>3. RepliesTrue'
    BY TruthStays DEF RepliesTrue, ItemsUsable, TypeOK
  <1>4. HeldReceiptsBacked'
    BY TruthStays DEF HeldReceiptsBacked, TypeOK
  <1>5. QueuedOrSettled'
    <2> SUFFICES ASSUME NEW s \in Sender, NEW it \in issued[s], Settled(s, it)
                 PROVE  Settled(s, it)'
      BY DEF QueuedOrSettled, Queued
    <2>1. Usable(it)
      BY DEF ItemsUsable
    <2> QED BY <2>1, TruthStays DEF Usable
  <1> QED BY <1>1, <1>2, <1>3, <1>4, <1>5 DEF Rest

(* A party queues an item. *)
LEMMA QueueingKeeps ==
  ASSUME DeliveryInv, [Next]_vars, UNCHANGED <<flushVars, held>>,
         NEW s \in Sender, NEW it, Usable(it), Enqueue(s, it)
  PROVE  Rest'
  <1> USE DEF DeliveryInv, flushVars
  <1>1. /\ issued' = [issued EXCEPT ![s] = @ \cup {it}]
        /\ \/ it \in Queued(s) /\ outbox' = outbox
           \/ outbox' = [outbox EXCEPT ![s] = Append(@, it)]
    BY DEF Enqueue
  <1>2. /\ outbox \in [Sender -> Seq(Item)] /\ issued \in [Sender -> SUBSET Item] /\ it \in Item
    BY DEF TypeOK, Usable
  <1>3. \A x \in Sender :
          /\ Len(outbox[x]) \in Nat /\ Len(outbox'[x]) \in Nat /\ Len(outbox[x]) <= Len(outbox'[x])
          /\ \A i \in 1 .. Len(outbox[x]) : outbox'[x][i] = outbox[x][i]
          /\ \A i \in 1 .. Len(outbox'[x]) : i \in 1 .. Len(outbox[x]) \/ outbox'[x][i] = it
          /\ outbox'[x] \in Seq(Item)
    <2> SUFFICES ASSUME NEW x \in Sender
                 PROVE  /\ Len(outbox[x]) \in Nat /\ Len(outbox'[x]) \in Nat /\ Len(outbox[x]) <= Len(outbox'[x])
                        /\ \A i \in 1 .. Len(outbox[x]) : outbox'[x][i] = outbox[x][i]
                        /\ \A i \in 1 .. Len(outbox'[x]) : i \in 1 .. Len(outbox[x]) \/ outbox'[x][i] = it
                        /\ outbox'[x] \in Seq(Item)
      OBVIOUS
    <2>1. outbox[x] \in Seq(Item)
      BY <1>2
    <2>2. outbox'[x] = outbox[x] \/ outbox'[x] = Append(outbox[x], it)
      BY <1>1, <1>2
    <2> DEFINE q == outbox[x]
               r == outbox'[x]
    <2>3. q \in Seq(Item) /\ (r = q \/ r = Append(q, it))
      BY <2>1, <2>2
    <2> HIDE DEF q, r
    <2>4. /\ Len(q) \in Nat /\ Len(r) \in Nat /\ Len(q) <= Len(r)
          /\ \A i \in 1 .. Len(q) : r[i] = q[i]
          /\ \A i \in 1 .. Len(r) : i \in 1 .. Len(q) \/ r[i] = it
          /\ r \in Seq(Item)
      <3>1. CASE r = q
        BY <2>3, <3>1
      <3>2. CASE r = Append(q, it)
        <4>1. r \in Seq(Item) /\ Len(q) \in Nat /\ Len(r) = Len(q) + 1 /\ r[Len(q) + 1] = it
          BY <1>2, <2>3, <3>2
        <4>2. \A i \in 1 .. Len(q) : r[i] = q[i]
          BY <2>3, <3>2
        <4> QED BY <4>1, <4>2
      <3> QED BY <2>3, <3>1, <3>2
    <2> QED BY <2>4 DEF q, r
  <1>4. \A x \in Sender : Queued(x) \subseteq Queued(x)'
    <2> SUFFICES ASSUME NEW x \in Sender, NEW i \in 1 .. Len(outbox[x])
                 PROVE  \E j \in DOMAIN outbox'[x] : outbox'[x][j] = outbox[x][i]
      BY <1>2 DEF Queued
    <2>1. i \in 1 .. Len(outbox'[x]) /\ outbox'[x][i] = outbox[x][i]
      BY <1>3
    <2> QED BY <1>3, <2>1
  <1>5. it \in Queued(s)'
    <2>1. CASE outbox' = [outbox EXCEPT ![s] = Append(@, it)]
      <3>1. outbox'[s] = Append(outbox[s], it) /\ outbox[s] \in Seq(Item)
        BY <1>2, <2>1
      <3>2. Len(outbox[s]) + 1 \in DOMAIN outbox'[s] /\ outbox'[s][Len(outbox[s]) + 1] = it
        BY <1>2, <3>1
      <3> QED BY <3>2 DEF Queued
    <2> QED BY <1>1, <1>4, <2>1
  <1>6. ItemsUsable'
    <2>1. ASSUME NEW x \in Sender, NEW i \in 1 .. Len(outbox'[x])
          PROVE  Usable(outbox'[x][i])
      <3>1. (i \in 1 .. Len(outbox[x]) /\ outbox'[x][i] = outbox[x][i]) \/ outbox'[x][i] = it
        BY <1>3
      <3> QED BY <1>1, <3>1 DEF ItemsUsable
    <2>2. ASSUME NEW x \in Sender, NEW y \in issued'[x]
          PROVE  Usable(y)
      BY <1>1, <1>2, <2>2 DEF ItemsUsable
    <2> QED BY <1>3, <2>1, <2>2 DEF ItemsUsable, Usable
  <1>7. FlushInStep'
    <2> SUFFICES ASSUME NEW x \in Sender, stage[x] # "idle"
                 PROVE  InStep(x)'
      BY DEF FlushInStep, InStep
    <2> DEFINE it1 == outbox[x][1]
    <2>1. outbox'[x][1] = it1 /\ Usable(it1)
      BY <1>3, HeadTyped DEF ItemsUsable
    <2>2. stage[x] = "ack" => Settled(x, it1)
      BY DEF FlushInStep, InStep
    <2>3. ASSUME stage[x] = "ack" PROVE Settled(x, outbox[x][1])'
      BY <2>1, <2>2, <2>3, TruthStays DEF Usable, Settled
    <2>4. 1 <= todo[x] /\ todo[x] <= Len(outbox'[x])
      BY <1>3, HeadTyped
    <2> QED BY <2>1, <2>3, <2>4 DEF FlushInStep, InStep
  <1>8. RepliesTrue'
    BY TruthStays DEF RepliesTrue, ItemsUsable, TypeOK
  <1>9. HeldReceiptsBacked'
    BY TruthStays DEF HeldReceiptsBacked, TypeOK
  <1>10. QueuedOrSettled'
    <2> SUFFICES ASSUME NEW x \in Sender, NEW y \in issued'[x]
                 PROVE  y \in Queued(x)' \/ Settled(x, y)'
      BY DEF QueuedOrSettled
    <2>1. CASE y \in issued[x]
      <3>1. Usable(y) /\ (y \in Queued(x) \/ Settled(x, y))
        BY <2>1 DEF ItemsUsable, QueuedOrSettled
      <3> QED BY <1>4, <3>1, TruthStays DEF Usable
    <2>2. CASE y \notin issued[x]
      BY <1>1, <1>2, <1>5, <2>2
    <2> QED BY <2>1, <2>2
  <1> QED BY <1>6, <1>7, <1>8, <1>9, <1>10 DEF Rest

(* U keeps the receipt of a verdict. *)
LEMMA VerdictKeeps ==
  ASSUME DeliveryInv, [Next]_vars, NEW u \in Sub, AskVerdict(u)
  PROVE  Rest'
  <1> USE DEF DeliveryInv, flushVars
  <1>1. UNCHANGED <<outbox, stage, todo, call, slot, issued>>
    BY DEF AskVerdict
  <1>2. PICK i \in 1 .. MaxLogEntries :
          /\ Verdict(u, i)
          /\ held' = [held EXCEPT !["U"] = @ \cup {[stmt |-> VerdictOn(u), index |-> i]}] \/ UNCHANGED held
    BY DEF AskVerdict
  <1> DEFINE rc == [stmt |-> VerdictOn(u), index |-> i]
  <1>3. i \in Nat /\ VerdictOn(u) \in Item
    BY <1>2, RegistryAssumption, VerdictTyped DEF RegistryAssumption, Verdict, RegistryInv
  <1>4. rc.index \in DOMAIN journal' /\ journal'[rc.index] = rc.stmt
    <2> DEFINE v == VerdictOn(u)
    <2>1. Register(v, i) /\ v \in Item /\ i \in Nat /\ journal \in Seq(Item)
      BY <1>2, <1>3 DEF Verdict, RegistryInv, RegistryTypeOK
    <2> HIDE DEF v
    <2>2. i \in DOMAIN journal' /\ journal'[i] = v
      BY <2>1 DEF Register
    <2> QED BY <2>2 DEF v
  <1>5. held' = [held EXCEPT !["U"] = @ \cup {rc}] \/ UNCHANGED held
    BY <1>2
  <1> HIDE DEF rc
  <1>6. \A s \in Sender : held[s] \subseteq held'[s] /\ \A x \in held'[s] : x \in held[s] \/ x = rc
    <2>1. DOMAIN held = Sender
      BY DEF TypeOK
    <2>2. CASE held' = [held EXCEPT !["U"] = @ \cup {rc}]
      BY <2>1, <2>2
    <2> QED BY <1>5, <2>2
  <1>7. ItemsUsable'
    BY <1>1 DEF ItemsUsable, Usable
  <1>8. FlushInStep'
    <2> SUFFICES ASSUME NEW s \in Sender, stage[s] = "ack"
                 PROVE  Settled(s, outbox[s][1])'
      BY <1>1 DEF FlushInStep, InStep
    <2>1. Usable(outbox[s][1]) /\ Settled(s, outbox[s][1])
      BY HeadTyped DEF FlushInStep, InStep, ItemsUsable
    <2>2. PICK it \in Item : it = outbox[s][1] /\ Usable(it) /\ Settled(s, it)
      BY <2>1 DEF Usable
    <2>3. Settled(s, it)'
      BY <1>6, <2>2, TruthStays
    <2>4. it = outbox'[s][1]
      BY <1>1, <2>2
    <2> QED BY <2>3, <2>4 DEF Settled
  <1>9. RepliesTrue'
    BY <1>1, TruthStays DEF RepliesTrue, ItemsUsable, TypeOK
  <1>10. HeldReceiptsBacked'
    BY <1>4, <1>6, TruthStays DEF HeldReceiptsBacked, TypeOK
  <1>11. QueuedOrSettled'
    <2> SUFFICES ASSUME NEW s \in Sender, NEW it \in issued[s], Settled(s, it)
                 PROVE  Settled(s, it)'
      BY <1>1 DEF QueuedOrSettled, Queued
    <2>1. Usable(it)
      BY DEF ItemsUsable
    <2> QED BY <1>6, <2>1, TruthStays DEF Usable
  <1> QED BY <1>7, <1>8, <1>9, <1>10, <1>11 DEF Rest

(* T serves a call: its answer, if anybody waits for it, is true. *)
LEMMA ServeKeeps ==
  ASSUME DeliveryInv, [Next]_vars, NEW k \in Slot, Serve(k)
  PROVE  Rest'
  <1> USE DEF DeliveryInv, requestVars
  <1> DEFINE c == slot[k]
             it == slot[k].item
  <1>1. /\ c \in Call /\ c # NULL /\ c.reply = "none" /\ Usable(it)
        /\ UNCHANGED <<outbox, stage, todo, call, held, issued>>
    BY DEF Serve, Free, TypeOK, ItemsUsable
  <1>2. PICK outcome \in {"ok", "error"}, i \in Nat :
          /\ Reply(k, outcome, i)
          /\ outcome = "ok" => IF it.ct = "private" THEN StoreAccepted(it.sub, it.basis)
                               ELSE SubmitAccepted(c.src, it, i)
    <2>1. CASE ServeAccepted(k)
      <3>1. PICK i \in 0 .. MaxLogEntries :
              /\ IF it.ct = "private" THEN i = 0 /\ StoreAccepted(it.sub, it.basis)
                                      ELSE SubmitAccepted(c.src, it, i)
              /\ Reply(k, "ok", i)
        BY <2>1 DEF ServeAccepted
      <3>2. i \in Nat
        BY RegistryAssumption DEF RegistryAssumption
      <3> QED BY <3>1, <3>2
    <2>2. CASE ServeRefused(k) \/ ServeFails(k)
      <3>1. Reply(k, "error", 0)
        BY <2>2 DEF ServeRefused, ServeFails
      <3> QED BY <3>1
    <2> QED BY <2>1, <2>2 DEF Serve
  <1>a. [c EXCEPT !.reply = outcome, !.index = i] \in Call
    BY <1>1 DEF Call
  <1>b. PICK d \in Call : d = [c EXCEPT !.reply = outcome, !.index = i]
    BY <1>a
  <1>3. d \in Call /\ d.src = c.src /\ d.item = it /\ d.reply = outcome /\ d.index = i
    BY <1>1, <1>b DEF Call
  <1>4. slot' = [slot EXCEPT ![k] = IF Awaited(k) THEN d ELSE NULL]
    BY <1>2, <1>b DEF Reply
  <1>5. ASSUME outcome = "ok"
        PROVE  Truthful(d)'
    <2>1. CASE it.ct = "private"
      <3>1. it.sub \in Sub /\ it.basis \in Private
        BY <1>1, <2>1 DEF Usable
      <3>2. private'[it.sub] # NULL /\ private'[it.sub].request = it.basis.request
        BY <1>2, <1>5, <2>1, <3>1, NullOutside DEF StoreAccepted, TypeOK, RegistryTypeOK
      <3> QED BY <1>3, <2>1, <3>2 DEF Truthful
    <2>2. CASE it.ct # "private"
      <3>1. Register(it, i) /\ journal \in Seq(Item) /\ it \in Item
        BY <1>1, <1>2, <1>5, <2>2 DEF SubmitAccepted, Usable, RegistryInv, RegistryTypeOK
      <3>2. PICK st \in Item : st = it
        BY <3>1
      <3>3. Register(st, i)
        BY <3>1, <3>2
      <3>4. i \in 1 .. Len(journal') /\ journal'[i] = st
        BY <3>1, <3>3 DEF Register
      <3> QED BY <1>3, <2>2, <3>2, <3>4 DEF Truthful
    <2> QED BY <2>1, <2>2
  <1>6. ItemsUsable'
    BY <1>1, <1>3, <1>4 DEF ItemsUsable, Usable, TypeOK
  <1>7. FlushInStep'
    <2> SUFFICES ASSUME NEW s \in Sender
                 PROVE  InStep(s)'
      BY DEF FlushInStep
    <2>1. InStep(s)
      BY DEF FlushInStep
    <2>2. ASSUME stage[s] = "wait"
          PROVE  slot'[call[s]] # NULL /\ slot'[call[s]].src = s /\ slot'[call[s]].item = outbox[s][1]
      <3>1. CASE call[s] = k
        <4>1. Awaited(k)
          BY <2>2, <3>1 DEF Awaited
        <4>2. slot'[k] = d
          BY <1>4, <4>1 DEF TypeOK
        <4> QED BY <1>3, <2>1, <2>2, <3>1, <4>2, NullAssumption DEF InStep, NullAssumption
      <3>2. CASE call[s] # k
        BY <1>4, <2>1, <2>2, <3>2 DEF InStep, TypeOK
      <3> QED BY <3>1, <3>2
    <2>3. ASSUME stage[s] = "ack" PROVE Settled(s, outbox[s][1])'
      <3>1. PICK x \in Item : x = outbox[s][1] /\ Usable(x) /\ Settled(s, x)
        BY <2>1, <2>3, HeadTyped DEF InStep, ItemsUsable, Usable
      <3>2. Settled(s, x)'
        BY <1>1, <3>1, TruthStays
      <3>3. x = outbox'[s][1]
        BY <1>1, <3>1
      <3> QED BY <3>2, <3>3 DEF Settled
    <2> QED BY <1>1, <2>1, <2>2, <2>3 DEF InStep
  <1>8. RepliesTrue'
    <2> SUFFICES ASSUME NEW j \in Slot, slot'[j] # NULL, slot'[j].reply = "ok"
                 PROVE  Truthful(slot[j])'
      BY DEF RepliesTrue
    <2>1. CASE j = k
      <3>1. slot'[j] = d
        BY <1>4, <2>1 DEF TypeOK
      <3>2. Truthful(d)'
        BY <1>3, <1>5, <3>1
      <3> QED BY <3>1, <3>2 DEF Truthful
    <2>2. CASE j # k
      <3>1. PICK e \in Call : e = slot[j] /\ e = slot'[j] /\ Usable(e.item) /\ Truthful(e)
        BY <1>4, <2>2 DEF TypeOK, ItemsUsable, RepliesTrue
      <3>2. Truthful(e)'
        BY <3>1, TruthStays
      <3> QED BY <3>1, <3>2 DEF Truthful
    <2> QED BY <2>1, <2>2
  <1>9. HeldReceiptsBacked'
    BY <1>1, TruthStays DEF HeldReceiptsBacked, TypeOK
  <1>10. QueuedOrSettled'
    <2> SUFFICES ASSUME NEW s \in Sender, NEW x \in issued[s], Settled(s, x)
                 PROVE  Settled(s, x)'
      BY <1>1 DEF QueuedOrSettled, Queued
    <2>1. Usable(x)
      BY DEF ItemsUsable
    <2> QED BY <1>1, <2>1, TruthStays DEF Usable
  <1> QED BY <1>6, <1>7, <1>8, <1>9, <1>10 DEF Rest

-----------------------------------------------------------------------------
(* Flush loops. *)

(* Two loops never wait on one call. *)
LEMMA CallsDistinct ==
  ASSUME FlushInStep, NEW s \in Sender, NEW x \in Sender, s # x, stage[s] = "wait", stage[x] = "wait"
  PROVE  call[s] # call[x]
  BY DEF FlushInStep, InStep

(* A loop moves on without touching the outboxes. *)
LEMMA LoopKeeps ==
  ASSUME DeliveryInv, [Next]_vars, UNCHANGED <<outbox, issued>>,
         NEW s \in Sender, InStep(s)',
         \A x \in Sender : held[x] \subseteq held'[x],
         HeldReceiptsBacked',
         \A j \in Slot : \/ slot'[j] = slot[j]
                         \/ slot'[j] = NULL
                         \/ slot'[j].reply # "ok" /\ Usable(slot'[j].item),
         \A x \in Sender : x # s => /\ stage'[x] = stage[x] /\ todo'[x] = todo[x]
                                    /\ stage[x] = "wait" => call'[x] = call[x] /\ slot'[call[x]] = slot[call[x]]
  PROVE  Rest'
  <1> USE DEF DeliveryInv
  <1>1. ItemsUsable'
    BY DEF ItemsUsable, Usable
  <1>2. FlushInStep'
    <2> SUFFICES ASSUME NEW x \in Sender, x # s
                 PROVE  InStep(x)'
      BY DEF FlushInStep
    <2>1. InStep(x)
      BY DEF FlushInStep
    <2>2. ASSUME stage[x] = "ack" PROVE Settled(x, outbox[x][1])'
      <3>1. PICK y \in Item : y = outbox[x][1] /\ Usable(y) /\ Settled(x, y)
        BY <2>1, <2>2, HeadTyped DEF InStep, ItemsUsable, Usable
      <3>2. Settled(x, y)'
        BY <3>1, TruthStays
      <3>3. y = outbox'[x][1]
        BY <3>1
      <3> QED BY <3>2, <3>3 DEF Settled
    <2> QED BY <2>1, <2>2 DEF InStep
  <1>3. RepliesTrue'
    <2> SUFFICES ASSUME NEW j \in Slot, slot'[j] # NULL, slot'[j].reply = "ok"
                 PROVE  Truthful(slot[j])'
      BY DEF RepliesTrue
    <2>1. PICK e \in Call : e = slot[j] /\ e = slot'[j] /\ Usable(e.item) /\ Truthful(e)
      BY DEF TypeOK, ItemsUsable, RepliesTrue
    <2>2. Truthful(e)'
      BY <2>1, TruthStays
    <2> QED BY <2>1, <2>2 DEF Truthful
  <1>4. QueuedOrSettled'
    <2> SUFFICES ASSUME NEW x \in Sender, NEW it \in issued[x], Settled(x, it)
                 PROVE  Settled(x, it)'
      BY DEF QueuedOrSettled, Queued
    <2>1. Usable(it)
      BY DEF ItemsUsable
    <2> QED BY <2>1, TruthStays DEF Usable
  <1> QED BY <1>1, <1>2, <1>3, <1>4 DEF Rest

(* The loop stops. *)
LEMMA StopKeeps ==
  ASSUME DeliveryInv, [Next]_vars, UNCHANGED <<registryVars, outbox, issued, held>>,
         NEW s \in Sender, StopFlush(s),
         slot' = slot \/ (stage[s] = "wait" /\ slot' = [slot EXCEPT ![call[s]] = NULL])
  PROVE  Rest'
  <1> USE DEF DeliveryInv
  <1>1. InStep(s)'
    BY DEF StopFlush, InStep, TypeOK
  <1>2. HeldReceiptsBacked'
    BY DEF HeldReceiptsBacked, registryVars
  <1>3. \A x \in Sender : x # s => /\ stage'[x] = stage[x] /\ todo'[x] = todo[x]
                                   /\ stage[x] = "wait" => call'[x] = call[x] /\ slot'[call[x]] = slot[call[x]]
    BY CallsDistinct DEF StopFlush, FlushInStep, InStep, TypeOK
  <1>4. \A j \in Slot : slot'[j] = slot[j] \/ slot'[j] = NULL
    BY DEF TypeOK
  <1> QED BY <1>1, <1>2, <1>3, <1>4, LoopKeeps

(* The head has been settled and leaves the outbox. *)
LEMMA AckKeeps ==
  ASSUME DeliveryInv, [Next]_vars, NEW s \in Sender, Ack(s)
  PROVE  Rest'
  <1> USE DEF DeliveryInv, requestVars
  <1>1. /\ stage[s] = "ack"
        /\ outbox' = [outbox EXCEPT ![s] = Tail(@)]
        /\ todo' = [todo EXCEPT ![s] = @ - 1]
        /\ stage' = [stage EXCEPT ![s] = IF todo[s] = 1 THEN "idle" ELSE "next"]
        /\ UNCHANGED <<registryVars, call, slot, held, issued>>
    BY DEF Ack
  <1>2. /\ \A x \in Sender : x # s => outbox'[x] = outbox[x]
        /\ outbox'[s] = Tail(outbox[s])
        /\ todo'[s] = todo[s] - 1
        /\ \A x \in Sender : x # s => todo'[x] = todo[x] /\ stage'[x] = stage[x]
    BY <1>1 DEF TypeOK
  <1>3. /\ Len(outbox[s]) \in Nat /\ 1 <= Len(outbox[s])
        /\ todo[s] \in Nat /\ 1 <= todo[s] /\ todo[s] <= Len(outbox[s])
        /\ Tail(outbox[s]) \in Seq(Item)
        /\ Len(Tail(outbox[s])) = Len(outbox[s]) - 1
        /\ \A i \in 1 .. Len(outbox[s]) - 1 : Tail(outbox[s])[i] = outbox[s][i + 1]
    BY <1>1, HeadTyped
  <1>4. Usable(outbox[s][1]) /\ Settled(s, outbox[s][1])
    BY <1>1, <1>3 DEF FlushInStep, InStep, ItemsUsable
  <1>5. ItemsUsable'
    <2>1. ASSUME NEW x \in Sender, NEW i \in 1 .. Len(outbox'[x])
          PROVE  Usable(outbox'[x][i])
      <3>1. CASE x = s
        <4>1. i \in 1 .. Len(outbox[s]) - 1 /\ outbox'[x][i] = outbox[s][i + 1]
          BY <1>2, <1>3, <2>1, <3>1
        <4>2. i + 1 \in 1 .. Len(outbox[s])
          BY <1>3, <4>1
        <4> QED BY <4>1, <4>2 DEF ItemsUsable
      <3>2. CASE x # s
        BY <1>2, <2>1, <3>2 DEF ItemsUsable
      <3> QED BY <3>1, <3>2
    <2> QED BY <1>1, <2>1 DEF ItemsUsable, Usable
  <1>6. FlushInStep'
    <2> SUFFICES ASSUME NEW x \in Sender
                 PROVE  InStep(x)'
      BY DEF FlushInStep
    <2>1. CASE x = s
      <3>1. stage'[s] # "idle" => stage'[s] = "next" /\ todo[s] # 1
        BY <1>1 DEF TypeOK
      <3>2. stage'[s] # "wait" /\ stage'[s] # "ack"
        BY <1>1 DEF TypeOK
      <3>3. stage'[s] # "idle" => 1 <= todo'[s] /\ todo'[s] <= Len(outbox'[s])
        <4>1. Len(outbox'[s]) = Len(outbox[s]) - 1
          BY <1>2, <1>3
        <4> QED BY <1>2, <1>3, <3>1, <4>1
      <3> QED BY <2>1, <3>2, <3>3 DEF InStep
    <2>2. CASE x # s
      BY <1>1, <1>2, <2>2 DEF FlushInStep, InStep, Settled, registryVars
    <2> QED BY <2>1, <2>2
  <1>7. RepliesTrue'
    BY <1>1 DEF RepliesTrue, Truthful, registryVars
  <1>8. HeldReceiptsBacked'
    BY <1>1 DEF HeldReceiptsBacked, registryVars
  <1>9. QueuedOrSettled'
    <2> SUFFICES ASSUME NEW x \in Sender, NEW it \in issued[x]
                 PROVE  it \in Queued(x)' \/ Settled(x, it)'
      BY <1>1 DEF QueuedOrSettled
    <2>1. Settled(x, it) => Settled(x, it)'
      BY <1>1 DEF Settled, registryVars
    <2>2. CASE x # s
      BY <1>2, <2>1, <2>2 DEF QueuedOrSettled, Queued
    <2>3. CASE x = s /\ it \in Queued(s)
      <3>1. outbox[s] \in Seq(Item)
        BY DEF TypeOK
      <3>2. PICK i \in 1 .. Len(outbox[s]) : it = outbox[s][i]
        BY <2>3, <3>1 DEF Queued
      <3>3. CASE i = 1
        BY <1>4, <2>1, <2>3, <3>2, <3>3
      <3>4. CASE i # 1
        <4>1. i - 1 \in 1 .. Len(outbox[s]) - 1 /\ Tail(outbox[s])[i - 1] = it
          BY <1>3, <3>2, <3>4
        <4>2. i - 1 \in DOMAIN outbox'[s] /\ outbox'[s][i - 1] = it
          BY <1>2, <1>3, <4>1
        <4> QED BY <2>3, <4>2 DEF Queued
      <3> QED BY <3>3, <3>4
    <2> QED BY <2>1, <2>2, <2>3 DEF QueuedOrSettled
  <1> QED BY <1>5, <1>6, <1>7, <1>8, <1>9 DEF Rest

(* Every step of a flush loop, and a crash of its party. *)
LEMMA FlushKeeps ==
  ASSUME DeliveryInv, [Next]_vars, NEW s \in Sender, FlushStep(s) \/ Timeout(s) \/ CrashSender(s)
  PROVE  Rest'
  <1> USE DEF DeliveryInv
  <1>1. CASE BeginFlush(s)
    <2>1. /\ stage' = [stage EXCEPT ![s] = "next"] /\ todo' = [todo EXCEPT ![s] = Len(outbox[s])]
          /\ outbox[s] # <<>>
          /\ UNCHANGED <<registryVars, outbox, call, slot, held, issued>>
      BY <1>1 DEF BeginFlush
    <2>2. 1 <= Len(outbox[s])
      <3>1. outbox[s] \in Seq(Item)
        BY DEF TypeOK
      <3> QED BY <2>1, <3>1
    <2>3. InStep(s)'
      BY <2>1, <2>2 DEF InStep, TypeOK
    <2>4. HeldReceiptsBacked'
      BY <2>1 DEF HeldReceiptsBacked, registryVars
    <2>5. \A x \in Sender : x # s => stage'[x] = stage[x] /\ todo'[x] = todo[x]
      BY <2>1 DEF TypeOK
    <2> QED BY <2>1, <2>3, <2>4, <2>5, LoopKeeps
  <1>2. CASE Send(s)
    <2>1. PICK k \in Slot :
            /\ Free(k)
            /\ slot' = [slot EXCEPT ![k] = [src |-> s, item |-> Head(outbox[s]), reply |-> "none", index |-> 0]]
            /\ call' = [call EXCEPT ![s] = k]
      BY <1>2 DEF Send
    <2>2. /\ stage[s] = "next" /\ stage' = [stage EXCEPT ![s] = "wait"]
          /\ UNCHANGED <<registryVars, outbox, todo, held, issued>>
      BY <1>2 DEF Send
    <2>3. PICK c \in Call : /\ c = [src |-> s, item |-> Head(outbox[s]), reply |-> "none", index |-> 0]
                            /\ c.src = s /\ c.item = outbox[s][1] /\ c.reply = "none" /\ c # NULL
      <3>1. Head(outbox[s]) \in Item /\ Head(outbox[s]) = outbox[s][1]
        BY <2>2, HeadTyped
      <3>2. [src |-> s, item |-> Head(outbox[s]), reply |-> "none", index |-> 0] \in Call
        BY <3>1 DEF Call
      <3> QED BY <3>1, <3>2, NullAssumption DEF NullAssumption
    <2>4. slot'[k] = c /\ \A j \in Slot : j # k => slot'[j] = slot[j]
      BY <2>1, <2>3 DEF TypeOK
    <2>5. call'[s] = k /\ stage'[s] = "wait"
      BY <2>1, <2>2 DEF TypeOK
    <2>6. InStep(s)'
      BY <2>2, <2>3, <2>4, <2>5 DEF FlushInStep, InStep
    <2>7. Usable(c.item)
      BY <2>2, <2>3, HeadTyped DEF ItemsUsable
    <2>8. \A x \in Sender : x # s => /\ stage'[x] = stage[x] /\ todo'[x] = todo[x]
                                     /\ stage[x] = "wait" => call'[x] = call[x] /\ slot'[call[x]] = slot[call[x]]
      BY <2>1, <2>2, <2>4 DEF TypeOK, FlushInStep, InStep, Free
    <2>9. HeldReceiptsBacked'
      BY <2>2 DEF HeldReceiptsBacked, registryVars
    <2>10. \A j \in Slot : slot'[j] = slot[j] \/ (slot'[j].reply # "ok" /\ Usable(slot'[j].item))
      <3>1. c.reply # "ok"
        BY <2>3
      <3>2. \A j \in Slot : slot'[j] = slot[j] \/ slot'[j] = c
        BY <2>4
      <3> QED BY <2>7, <3>1, <3>2
    <2> QED BY <2>2, <2>6, <2>8, <2>9, <2>10, LoopKeeps
  <1>3. CASE Busy(s) \/ Rejected(s) \/ Timeout(s) \/ CrashSender(s)
    <2>1. /\ StopFlush(s) /\ UNCHANGED <<registryVars, outbox, issued, held>>
          /\ slot' = slot \/ (stage[s] = "wait" /\ slot' = [slot EXCEPT ![call[s]] = NULL])
      BY <1>3 DEF Busy, Rejected, Timeout, CrashSender
    <2> QED BY <2>1, StopKeeps
  <1>4. CASE Accepted(s)
    <2>1. /\ stage[s] = "wait" /\ slot[call[s]].reply = "ok"
          /\ slot' = [slot EXCEPT ![call[s]] = NULL]
          /\ call' = [call EXCEPT ![s] = NULL]
          /\ stage' = [stage EXCEPT ![s] = "ack"]
          /\ UNCHANGED <<registryVars, outbox, todo, issued>>
      BY <1>4 DEF Accepted
    <2>2. PICK it \in Item : it = Head(outbox[s]) /\ it = outbox[s][1] /\ Usable(it)
      BY <2>1, HeadTyped DEF ItemsUsable
    <2>3. PICK c \in Call : c = slot[call[s]] /\ c.item = it /\ c.reply = "ok" /\ Truthful(c)
      BY <2>1, <2>2 DEF FlushInStep, InStep, TypeOK, RepliesTrue
    <2> DEFINE rc == [stmt |-> it, index |-> c.index]
    <2>4. held' = IF it.ct = "private" THEN held ELSE [held EXCEPT ![s] = @ \cup {rc}]
      BY <1>4, <2>2, <2>3 DEF Accepted
    <2>5. it.ct # "private" => rc.index \in DOMAIN journal /\ journal[rc.index] = rc.stmt
      BY <2>3 DEF Truthful, RegistryInv, RegistryTypeOK
    <2>6. rc.stmt = it
      OBVIOUS
    <2> HIDE DEF rc
    <2>7. \A x \in Sender : held[x] \subseteq held'[x] /\ \A r \in held'[x] : r \in held[x] \/ (it.ct # "private" /\ r = rc)
      BY <2>4 DEF TypeOK
    <2>8. HeldReceiptsBacked'
      BY <2>1, <2>5, <2>7 DEF HeldReceiptsBacked, registryVars
    <2>9. Settled(s, it)'
      <3>1. CASE it.ct = "private"
        BY <2>1, <2>3, <3>1 DEF Truthful, Settled, registryVars
      <3>2. CASE it.ct # "private"
        <4>1. rc \in held'[s]
          BY <2>4, <3>2 DEF TypeOK
        <4> QED BY <2>6, <3>2, <4>1 DEF Settled
      <3> QED BY <3>1, <3>2
    <2>10. InStep(s)'
      <3>1. stage'[s] = "ack" /\ todo'[s] = todo[s] /\ outbox'[s] = outbox[s] /\ it = outbox'[s][1]
        BY <2>1, <2>2 DEF TypeOK
      <3>2. Settled(s, outbox[s][1])'
        BY <2>9, <3>1 DEF Settled
      <3> QED BY <2>1, <3>1, <3>2 DEF FlushInStep, InStep
    <2>11. \A x \in Sender : x # s => /\ stage'[x] = stage[x] /\ todo'[x] = todo[x]
                                      /\ stage[x] = "wait" => call'[x] = call[x] /\ slot'[call[x]] = slot[call[x]]
      BY <2>1, CallsDistinct DEF FlushInStep, InStep, TypeOK
    <2>12. \A j \in Slot : slot'[j] = slot[j] \/ slot'[j] = NULL
      BY <2>1 DEF TypeOK
    <2> QED BY <2>1, <2>7, <2>8, <2>10, <2>11, <2>12, LoopKeeps
  <1>5. CASE Ack(s)
    BY <1>5, AckKeeps
  <1> QED BY <1>1, <1>2, <1>3, <1>4, <1>5 DEF FlushStep

(* A crash of T: its slots are gone, its journal is not. *)
LEMMA CrashTKeeps ==
  ASSUME DeliveryInv, [Next]_vars, CrashT
  PROVE  Rest'
  <1> USE DEF DeliveryInv
  <1>1. /\ UNCHANGED <<journal, private, outbox, held, issued>>
        /\ slot' = [k \in Slot |-> NULL]
        /\ stage' = [s \in Sender |-> IF stage[s] = "wait" THEN "idle" ELSE stage[s]]
        /\ todo' = [s \in Sender |-> IF stage[s] = "wait" THEN 0 ELSE todo[s]]
    BY DEF CrashT, Restart
  <1>2. ItemsUsable'
    BY <1>1 DEF ItemsUsable, Usable
  <1>3. FlushInStep'
    BY <1>1 DEF FlushInStep, InStep, Settled, TypeOK
  <1>4. RepliesTrue'
    BY <1>1 DEF RepliesTrue
  <1>5. HeldReceiptsBacked' /\ QueuedOrSettled'
    BY <1>1 DEF HeldReceiptsBacked, QueuedOrSettled, Queued, Settled
  <1> QED BY <1>2, <1>3, <1>4, <1>5 DEF Rest

-----------------------------------------------------------------------------

(* The invariant holds when nothing has been queued. *)
LEMMA DeliveryInitInv == Init => DeliveryInv
  <1> SUFFICES ASSUME Init PROVE DeliveryInv
    OBVIOUS
  <1>1. RegistryInv
    BY InitInv DEF Init
  <1>2. TypeOK
    <2>1. << >> \in Seq(Item)
      OBVIOUS
    <2> QED BY <1>1, <2>1 DEF Init, TypeOK, RegistryInv, Phases
  <1>3. Rest
    BY DEF Init, Rest, ItemsUsable, FlushInStep, InStep, RepliesTrue, HeldReceiptsBacked, QueuedOrSettled
  <1> QED BY <1>1, <1>2, <1>3 DEF Rest, DeliveryInv

(* Every step keeps the invariant. *)
LEMMA DeliveryStep ==
  ASSUME DeliveryInv, [Next]_vars
  PROVE  DeliveryInv'
  <1>1. RegistryInv'
    BY TruthStays
  <1>2. TypeOK'
    BY <1>1, NextTyped DEF DeliveryInv, RegistryInv
  <1>3. Rest'
    <2>1. ASSUME NEW u \in Sub, NEW from, NEW to, NEW it, Usable(it), Queue(u, from, to, it)
          PROVE  Rest'
      BY <2>1, QueueingKeeps, SendersTyped DEF Queue
    <2>2. ASSUME NEW u \in Sub, Admit(u) \/ RequestStep(u) \/ Abandon(u)
          PROVE  Rest'
      <3>1. CASE QueueContract(u) \/ QueueRequest(u) \/ QueueObservation(u) \/ QueueResponse(u)
        BY <2>1, <3>1, ItemsTyped DEF QueueContract, QueueRequest, QueueObservation, QueueResponse
      <3>2. CASE RememberRequest(u) \/ RememberResponse(u)
        BY <3>2, ElsewhereKeeps DEF RememberRequest, RememberResponse, Remember
      <3>3. CASE Admit(u) \/ Transmit(u) \/ Answer(u) \/ Decide(u) \/ Abandon(u)
        BY <3>3, ElsewhereKeeps DEF Admit, Transmit, Answer, Decide, Abandon
      <3> QED BY <2>2, <3>1, <3>2, <3>3 DEF RequestStep
    <2>3. ASSUME NEW u \in Sub, AskVerdict(u) \/ AskVerdictFails(u)
          PROVE  Rest'
      <3>1. CASE AskVerdictFails(u)
        BY <3>1, ElsewhereKeeps DEF AskVerdictFails
      <3> QED BY <2>3, <3>1, VerdictKeeps
    <2>4. ASSUME NEW r \in Services, NEW u \in Sub, NEW v \in {1, 2}, Testify(r, u, v)
          PROVE  Rest'
      BY <2>4, QueueingKeeps, SendersTyped, ItemsTyped DEF Testify
    <2>5. ASSUME NEW s \in Sender, FlushStep(s) \/ Timeout(s) \/ CrashSender(s)
          PROVE  Rest'
      BY <2>5, FlushKeeps
    <2>6. ASSUME NEW k \in Slot, Serve(k)
          PROVE  Rest'
      BY <2>6, ServeKeeps
    <2>7. CASE CrashT
      BY <2>7, CrashTKeeps
    <2>8. CASE RetireT
      BY <2>8, ElsewhereKeeps DEF RetireT
    <2>9. CASE UNCHANGED vars
      BY <2>9, ElsewhereKeeps DEF vars
    <2> QED BY <2>2, <2>3, <2>4, <2>5, <2>6, <2>7, <2>8, <2>9 DEF Next
  <1> QED BY <1>1, <1>2, <1>3 DEF Rest, DeliveryInv

(* The inductive invariant of the delivery of evidence. *)
THEOREM DeliveryInvariance == Spec => []DeliveryInv
  <1>1. DeliveryInv /\ [Next]_vars => DeliveryInv'
    BY DeliveryStep
  <1> QED
    BY <1>1, DeliveryInitInv, PTL DEF Spec

(* Every variable keeps its type. *)
THEOREM DeliveryTypes == Spec => []TypeOK
  <1>1. DeliveryInv => TypeOK
    BY DEF DeliveryInv
  <1> QED
    BY <1>1, DeliveryInvariance, PTL

(* A receipt that any party holds names an entry of T's durable log: the   *)
(* ground on which a missing entry is evidence against T.                  *)
THEOREM HeldReceiptsStayBacked == Spec => []HeldReceiptsBacked
  <1>1. DeliveryInv => HeldReceiptsBacked
    BY DEF DeliveryInv
  <1> QED
    BY <1>1, DeliveryInvariance, PTL

(* With all parties and faults around it, T is still an append-only log. *)
THEOREM DeliveryImplements == Spec => KeepsPromise
  <1>1. Init => AOL!Init
    BY DEF Init, RegistryInit, AOL!Init
  <1>2. DeliveryInv /\ [Next]_vars => [AOL!Next]_AOL!vars
    BY NextIsRegistryStep, StepImplements DEF DeliveryInv
  <1> QED
    BY <1>1, <1>2, DeliveryInvariance, PTL DEF Spec, KeepsPromise, AOL!Spec

-----------------------------------------------------------------------------

(* Whatever is known about a request, its contract was queued before. *)
AfterContract == Phases \ {"none", "recorded", "closed"}

ContractIssued ==
  /\ \A u \in Sub : phase[u] \in AfterContract => Contract(u) \in issued["U"]
  /\ \A u \in sent : Contract(u) \in issued["U"]
  /\ \A r \in Services : \A it \in issued[r] : Contract(it.sub) \in issued["U"]

(* A step of the request thread, a statement of a service, anything else. *)
LEMMA ContractStays ==
  ASSUME TypeOK, ContractIssued, [Next]_vars
  PROVE  ContractIssued'
  <1> USE DEF AfterContract, Phases, TypeOK, ContractIssued
  <1>0. "U" \in Sender /\ Services \subseteq Sender /\ "U" \notin Services
    BY SendersTyped, DeliveryAssumption DEF DeliveryAssumption
  <1>1. ASSUME NEW u \in Sub, NEW from, NEW to, NEW it, Queue(u, from, to, it),
               to = "contracted" => it = Contract(u), to # "contracted" => from \in AfterContract
        PROVE  ContractIssued'
    <2>1. /\ phase[u] = from /\ phase' = [phase EXCEPT ![u] = to]
          /\ issued' = [issued EXCEPT !["U"] = @ \cup {it}] /\ UNCHANGED sent
      BY <1>1 DEF Queue, Advance, Enqueue
    <2>2. issued'["U"] = issued["U"] \cup {it} /\ \A r \in Services : issued'[r] = issued[r]
      BY <1>0, <2>1
    <2>3. Contract(u) \in issued'["U"]
      BY <1>1, <2>1, <2>2
    <2>4. \A v \in Sub : v # u => phase'[v] = phase[v]
      BY <2>1
    <2> QED BY <2>1, <2>2, <2>3, <2>4
  <1>2. ASSUME NEW u \in Sub, NEW from, NEW to, Advance(u, from, to), from \in AfterContract,
               sent' \subseteq sent \cup {u}, UNCHANGED issued
        PROVE  ContractIssued'
    BY <1>2 DEF Advance
  <1>3. ASSUME sent' = sent, issued' = issued,
               \A u \in Sub : phase'[u] = phase[u] \/ phase'[u] \notin AfterContract
        PROVE  ContractIssued'
    BY <1>3
  <1>4. ASSUME NEW u \in Sub, Admit(u) \/ RequestStep(u) \/ Abandon(u)
        PROVE  ContractIssued'
    <2>1. CASE QueueContract(u)
      BY <1>1, <2>1 DEF QueueContract
    <2>2. CASE QueueRequest(u) \/ QueueObservation(u) \/ QueueResponse(u)
      BY <1>1, <2>2 DEF QueueRequest, QueueObservation, QueueResponse
    <2>3. CASE RememberRequest(u) \/ RememberResponse(u) \/ Transmit(u) \/ Answer(u)
      BY <1>2, <2>3 DEF RememberRequest, RememberResponse, Remember, Transmit, Answer
    <2>4. CASE Admit(u) \/ Decide(u) \/ Abandon(u)
      BY <1>3, <2>4 DEF Admit, Decide, Abandon, Advance
    <2> QED BY <1>4, <2>1, <2>2, <2>3, <2>4 DEF RequestStep
  <1>5. ASSUME NEW r \in Services, NEW u \in Sub, NEW v \in {1, 2}, Testify(r, u, v)
        PROVE  ContractIssued'
    <2>1. /\ u \in sent /\ UNCHANGED <<phase, sent>>
          /\ issued' = [issued EXCEPT ![r] = @ \cup {Evidence(r, u, v)}]
      BY <1>5 DEF Testify, Enqueue, requestVars
    <2>2. Evidence(r, u, v).sub = u
      BY DEF Evidence, Statement
    <2>3. issued'["U"] = issued["U"] /\ \A s \in Services : \A it \in issued'[s] : it \in issued[s] \/ it.sub = u
      BY <1>0, <2>1, <2>2
    <2> QED BY <2>1, <2>3
  <1>6. ASSUME NEW s \in Sender, CrashSender(s)
        PROVE  ContractIssued'
    BY <1>3, <1>6 DEF CrashSender
  <1>7. CASE UNCHANGED <<requestVars, issued>>
    BY <1>3, <1>7 DEF requestVars
  <1>8. ASSUME NEW s \in Sender, FlushStep(s) \/ Timeout(s)
        PROVE  UNCHANGED <<requestVars, issued>>
    BY <1>8 DEF FlushStep, BeginFlush, Send, Busy, Rejected, Accepted, Ack, Timeout
  <1>9. ASSUME NEW u \in Sub, AskVerdict(u) \/ AskVerdictFails(u)
        PROVE  UNCHANGED <<requestVars, issued>>
    BY <1>9 DEF AskVerdict, AskVerdictFails
  <1>10. (\E k \in Slot : Serve(k)) \/ CrashT \/ RetireT \/ UNCHANGED vars => UNCHANGED <<requestVars, issued>>
    BY DEF Serve, CrashT, RetireT, vars
  <1> QED BY <1>4, <1>5, <1>6, <1>7, <1>8, <1>9, <1>10 DEF Next

(* No party has evidence about a request whose contract U could lose: the  *)
(* contract was queued before the request was sent, and nothing is lost.   *)
THEOREM ContractsComeFirst == Spec => []ContractBeforeUse
  <1>1. Init => ContractIssued
    BY SendersTyped DEF Init, ContractIssued, AfterContract, Phases
  <1>2. TypeOK /\ ContractIssued /\ [Next]_vars => ContractIssued'
    BY ContractStays
  <1>3. ContractIssued /\ QueuedOrSettled => ContractBeforeUse
    BY SendersTyped DEF ContractIssued, QueuedOrSettled, ContractBeforeUse
  <1>4. DeliveryInv => TypeOK /\ QueuedOrSettled
    BY DEF DeliveryInv
  <1> QED
    BY <1>1, <1>2, <1>3, <1>4, DeliveryInvariance, PTL DEF Spec

-----------------------------------------------------------------------------
(* What a step does to U's outbox and to T's log, and where the calls in   *)
(* T's slots come from.                                                    *)

Queueing == {"recorded", "versioned", "revised", "observed"}

(* Evidence of the request thread, one item at a time; a statement of a    *)
(* service; or the head that was delivered.                                *)
LEMMA OutboxStep ==
  ASSUME TypeOK, [Next]_vars
  PROVE  \/ UNCHANGED outbox
         \/ \E u \in Sub : /\ phase[u] \in Queueing
                           /\ outbox' = [outbox EXCEPT !["U"] = Append(@, NextItem(u))]
         \/ \E r \in Services, u \in Sub, v \in {1, 2} :
              outbox' = [outbox EXCEPT ![r] = Append(@, Evidence(r, u, v))]
         \/ \E s \in Sender : stage[s] = "ack" /\ outbox' = [outbox EXCEPT ![s] = Tail(@)]
  <1>1. ASSUME NEW u \in Sub, Admit(u) \/ RequestStep(u) \/ Abandon(u)
        PROVE  \/ UNCHANGED outbox
               \/ /\ phase[u] \in Queueing
                  /\ outbox' = [outbox EXCEPT !["U"] = Append(@, NextItem(u))]
    <2>1. CASE QueueContract(u) \/ QueueRequest(u) \/ QueueObservation(u) \/ QueueResponse(u)
      BY <2>1 DEF QueueContract, QueueRequest, QueueObservation, QueueResponse, Queue, Advance, Enqueue,
                  NextItem, Queueing
    <2> QED BY <1>1, <2>1 DEF Admit, RequestStep, RememberRequest, RememberResponse, Remember,
                              Transmit, Answer, Decide, Abandon
  <1>2. ASSUME NEW r \in Services, NEW u \in Sub, NEW v \in {1, 2}, Testify(r, u, v)
        PROVE  UNCHANGED outbox \/ outbox' = [outbox EXCEPT ![r] = Append(@, Evidence(r, u, v))]
    BY <1>2 DEF Testify, Enqueue
  <1>3. ASSUME NEW s \in Sender, FlushStep(s) \/ Timeout(s) \/ CrashSender(s)
        PROVE  UNCHANGED outbox \/ (stage[s] = "ack" /\ outbox' = [outbox EXCEPT ![s] = Tail(@)])
    BY <1>3 DEF FlushStep, BeginFlush, Send, Busy, Rejected, Accepted, Ack, Timeout, CrashSender
  <1>4. ASSUME \/ \E u \in Sub : AskVerdict(u) \/ AskVerdictFails(u)
               \/ \E k \in Slot : Serve(k)
               \/ CrashT \/ RetireT \/ UNCHANGED vars
        PROVE  UNCHANGED outbox
    BY <1>4 DEF AskVerdict, AskVerdictFails, Serve, CrashT, RetireT, vars
  <1> QED BY <1>1, <1>2, <1>3, <1>4 DEF Next

(* What a step adds to the items a party has ever queued. *)
LEMMA IssuedStep ==
  ASSUME [Next]_vars
  PROVE  \/ UNCHANGED issued
         \/ \E u \in Sub : /\ phase[u] \in Queueing
                           /\ issued' = [issued EXCEPT !["U"] = @ \cup {NextItem(u)}]
         \/ \E r \in Services, u \in Sub, v \in {1, 2} :
              issued' = [issued EXCEPT ![r] = @ \cup {Evidence(r, u, v)}]
  <1>1. ASSUME NEW u \in Sub, Admit(u) \/ RequestStep(u) \/ Abandon(u)
        PROVE  \/ UNCHANGED issued
               \/ /\ phase[u] \in Queueing
                  /\ issued' = [issued EXCEPT !["U"] = @ \cup {NextItem(u)}]
    <2>1. CASE QueueContract(u) \/ QueueRequest(u) \/ QueueObservation(u) \/ QueueResponse(u)
      BY <2>1 DEF QueueContract, QueueRequest, QueueObservation, QueueResponse, Queue, Advance, Enqueue,
                  NextItem, Queueing
    <2> QED BY <1>1, <2>1 DEF Admit, RequestStep, RememberRequest, RememberResponse, Remember,
                              Transmit, Answer, Decide, Abandon
  <1>2. ASSUME NEW r \in Services, NEW u \in Sub, NEW v \in {1, 2}, Testify(r, u, v)
        PROVE  issued' = [issued EXCEPT ![r] = @ \cup {Evidence(r, u, v)}]
    BY <1>2 DEF Testify, Enqueue
  <1>3. ASSUME NEW s \in Sender, FlushStep(s) \/ Timeout(s) \/ CrashSender(s)
        PROVE  UNCHANGED issued
    BY <1>3 DEF FlushStep, BeginFlush, Send, Busy, Rejected, Accepted, Ack, Timeout, CrashSender
  <1>4. ASSUME \/ \E u \in Sub : AskVerdict(u) \/ AskVerdictFails(u)
               \/ \E k \in Slot : Serve(k)
               \/ CrashT \/ RetireT \/ UNCHANGED vars
        PROVE  UNCHANGED issued
    BY <1>4 DEF AskVerdict, AskVerdictFails, Serve, CrashT, RetireT, vars
  <1> QED BY <1>1, <1>2, <1>3, <1>4 DEF Next

(* A call in a slot was there before, or carries the head of an outbox.    *)
LEMMA SlotStep ==
  ASSUME DeliveryInv, [Next]_vars, NEW k \in Slot, slot'[k] # NULL
  PROVE  \/ /\ slot[k] # NULL
            /\ slot'[k].src = slot[k].src /\ slot'[k].item = slot[k].item
         \/ \E s \in Sender : /\ outbox[s] # <<>>
                              /\ slot'[k].src = s /\ slot'[k].item = outbox[s][1]
  <1>0. TypeOK /\ FlushInStep
    BY DEF DeliveryInv
  <1>1. ASSUME NEW s \in Sender, Send(s)
        PROVE  \/ slot'[k] = slot[k]
               \/ /\ outbox[s] # <<>>
                  /\ slot'[k].src = s /\ slot'[k].item = outbox[s][1]
    <2>3. stage[s] # "idle"
      BY <1>1 DEF Send
    <2>1. 1 <= Len(outbox[s]) /\ outbox[s] \in Seq(Item)
      BY <1>0, <2>3 DEF FlushInStep, InStep, TypeOK
    <2>2. outbox[s] # <<>> /\ Head(outbox[s]) = outbox[s][1]
      BY <2>1
    <2> QED BY <1>0, <1>1, <2>2 DEF Send, TypeOK
  <1>2. ASSUME NEW s \in Sender, Rejected(s) \/ Accepted(s) \/ Timeout(s) \/ CrashSender(s)
        PROVE  slot'[k] = slot[k]
    <2>1. slot' = slot \/ slot' = [slot EXCEPT ![call[s]] = NULL]
      BY <1>2 DEF Rejected, Accepted, Timeout, CrashSender
    <2>2. slot \in [Slot -> Call \cup {NULL}]
      BY <1>0 DEF TypeOK
    <2> QED BY <2>1, <2>2
  <1>3. ASSUME NEW s \in Sender, BeginFlush(s) \/ Busy(s) \/ Ack(s)
        PROVE  slot'[k] = slot[k]
    BY <1>3 DEF BeginFlush, Busy, Ack
  <1>4. ASSUME NEW j \in Slot, Serve(j)
        PROVE  slot'[k] = slot[k] \/ (slot[k] # NULL /\ slot'[k].src = slot[k].src /\ slot'[k].item = slot[k].item)
    <2>1. \E outcome \in {"ok", "error"} : \E i : Reply(j, outcome, i)
      BY <1>4 DEF Serve, ServeAccepted, ServeRefused, ServeFails
    <2>2. slot[j] # NULL /\ slot[j] \in Call
      BY <1>0, <1>4 DEF Serve, Free, TypeOK
    <2>3. CASE j # k
      BY <1>0, <2>1, <2>3 DEF Reply, TypeOK
    <2>4. CASE j = k
      BY <1>0, <2>1, <2>2, <2>4 DEF Reply, TypeOK, Call
    <2> QED BY <2>3, <2>4
  <1>5. ASSUME \/ \E u \in Sub : Admit(u) \/ RequestStep(u) \/ Abandon(u) \/ AskVerdict(u) \/ AskVerdictFails(u)
               \/ \E r \in Services, u \in Sub, v \in {1, 2} : Testify(r, u, v)
               \/ RetireT \/ UNCHANGED vars
        PROVE  slot'[k] = slot[k]
    BY <1>5 DEF Admit, RequestStep, Abandon, QueueContract, RememberRequest, QueueRequest, Transmit, Answer,
                RememberResponse, QueueObservation, QueueResponse, Decide, Queue, Remember,
                AskVerdict, AskVerdictFails, Testify, RetireT, flushVars, vars
  <1>6. ~ CrashT
    BY DEF CrashT
  <1> QED BY <1>1, <1>2, <1>3, <1>4, <1>5, <1>6 DEF Next, FlushStep

(* T's log grows by a statement in a slot, or by a verdict of T.           *)
LEMMA JournalStep ==
  ASSUME DeliveryInv, [Next]_vars
  PROVE  \/ UNCHANGED journal
         \/ \E k \in Slot : /\ slot[k] # NULL /\ slot[k].item.ct \notin {"private", "verdict"}
                            /\ slot[k].item.iss = slot[k].src
                            /\ journal' = Append(journal, slot[k].item)
         \/ \E u \in Sub : MayJudge(u) /\ journal' = Append(journal, VerdictOn(u))
  <1>1. ASSUME NEW k \in Slot, Serve(k)
        PROVE  \/ UNCHANGED journal
               \/ /\ slot[k] # NULL /\ slot[k].item.ct \notin {"private", "verdict"}
                  /\ slot[k].item.iss = slot[k].src
                  /\ journal' = Append(journal, slot[k].item)
    <2>1. slot[k] # NULL /\ slot[k].src \in {"U", "R", "M"}
      BY <1>1, DeliveryAssumption DEF Serve, Free, DeliveryInv, TypeOK, Call, Sender, DeliveryAssumption
    <2>2. CASE ServeAccepted(k)
      <3>1. CASE slot[k].item.ct = "private"
        BY <2>2, <3>1 DEF ServeAccepted, StoreAccepted
      <3>2. CASE slot[k].item.ct # "private"
        BY <2>1, <2>2, <3>2 DEF ServeAccepted, SubmitAccepted, MayRegister, Types, Register
      <3> QED BY <3>1, <3>2
    <2>3. CASE ServeRefused(k)
      BY <2>3 DEF ServeRefused, StoreRefused, SubmitRefused, RegisterRefused, registryVars
    <2>4. CASE ServeFails(k)
      BY <2>4 DEF ServeFails, SubmitFails, RegisterFails
    <2> QED BY <1>1, <2>2, <2>3, <2>4 DEF Serve
  <1>2. ASSUME NEW u \in Sub, AskVerdict(u)
        PROVE  UNCHANGED journal \/ (MayJudge(u) /\ journal' = Append(journal, VerdictOn(u)))
    BY <1>2 DEF AskVerdict, Verdict, Register
  <1>3. ASSUME NEW u \in Sub, AskVerdictFails(u)
        PROVE  UNCHANGED journal
    BY <1>3 DEF AskVerdictFails, VerdictFails, RegisterFails
  <1>4. ASSUME NEW u \in Sub, Admit(u) \/ RequestStep(u) \/ Abandon(u)
        PROVE  UNCHANGED journal
    BY <1>4 DEF Admit, RequestStep, Abandon, QueueContract, RememberRequest, QueueRequest, Transmit, Answer,
                RememberResponse, QueueObservation, QueueResponse, Decide, Queue, Remember, registryVars
  <1>5. ASSUME \/ \E r \in Services, u \in Sub, v \in {1, 2} : Testify(r, u, v)
               \/ \E s \in Sender : FlushStep(s) \/ Timeout(s) \/ CrashSender(s)
               \/ CrashT \/ RetireT \/ UNCHANGED vars
        PROVE  UNCHANGED journal
    BY <1>5 DEF Testify, FlushStep, BeginFlush, Send, Busy, Rejected, Accepted, Ack, Timeout, CrashSender,
                CrashT, Restart, RetireT, Retire, vars, registryVars
  <1> QED BY <1>1, <1>2, <1>3, <1>4, <1>5 DEF Next

(* Stored evidence changes to what a slot carries. *)
LEMMA PrivateStep ==
  ASSUME DeliveryInv, [Next]_vars
  PROVE  \/ UNCHANGED private
         \/ \E k \in Slot : /\ slot[k] # NULL /\ slot[k].item.ct = "private" /\ slot[k].item.sub \in Sub
                            /\ private' = [private EXCEPT ![slot[k].item.sub] = slot[k].item.basis]
  <1>1. ASSUME NEW k \in Slot, Serve(k)
        PROVE  \/ UNCHANGED private
               \/ /\ slot[k] # NULL /\ slot[k].item.ct = "private" /\ slot[k].item.sub \in Sub
                  /\ private' = [private EXCEPT ![slot[k].item.sub] = slot[k].item.basis]
    <2>1. slot[k] # NULL /\ (slot[k].item.ct = "private" => slot[k].item.sub \in Sub)
      BY <1>1 DEF Serve, Free, DeliveryInv, ItemsUsable, Usable
    <2>2. CASE ServeAccepted(k)
      BY <2>1, <2>2 DEF ServeAccepted, StoreAccepted, SubmitAccepted
    <2>3. CASE ServeRefused(k)
      BY <2>3 DEF ServeRefused, StoreRefused, SubmitRefused, registryVars
    <2>4. CASE ServeFails(k)
      BY <2>4 DEF ServeFails, SubmitFails
    <2> QED BY <1>1, <2>2, <2>3, <2>4 DEF Serve
  <1>2. ASSUME NEW u \in Sub, AskVerdict(u) \/ AskVerdictFails(u)
        PROVE  UNCHANGED private
    BY <1>2 DEF AskVerdict, Verdict, AskVerdictFails, VerdictFails
  <1>3. ASSUME NEW u \in Sub, Admit(u) \/ RequestStep(u) \/ Abandon(u)
        PROVE  UNCHANGED private
    BY <1>3 DEF Admit, RequestStep, Abandon, QueueContract, RememberRequest, QueueRequest, Transmit, Answer,
                RememberResponse, QueueObservation, QueueResponse, Decide, Queue, Remember, registryVars
  <1>4. ASSUME \/ \E r \in Services, u \in Sub, v \in {1, 2} : Testify(r, u, v)
               \/ \E s \in Sender : FlushStep(s) \/ Timeout(s) \/ CrashSender(s)
               \/ CrashT \/ RetireT \/ UNCHANGED vars
        PROVE  UNCHANGED private
    BY <1>4 DEF Testify, FlushStep, BeginFlush, Send, Busy, Rejected, Accepted, Ack, Timeout, CrashSender,
                CrashT, Restart, RetireT, Retire, vars, registryVars
  <1> QED BY <1>1, <1>2, <1>3, <1>4 DEF Next

-----------------------------------------------------------------------------
(* The order of U's evidence: what follows the contract in U's outbox      *)
(* cannot leave it before T has the contract.                              *)

Follows(it) == it.ct \notin {"private", "contract"}

Ahead(i) ==
  LET st == Contract(outbox["U"][i].sub)
  IN  Known(st) \/ \E j \in 1 .. i - 1 : outbox["U"][j] = st

InOrder ==
  /\ \A i \in 1 .. Len(outbox["U"]) : Follows(outbox["U"][i]) => Ahead(i)
  /\ \A k \in Slot : slot[k] # NULL /\ slot[k].src = "U" /\ Follows(slot[k].item)
                      => Known(Contract(slot[k].item.sub))
  /\ ContractFirst

LEMMA LogKept ==
  ASSUME DeliveryInv, [Next]_vars
  PROVE  \A i \in DOMAIN journal : i \in DOMAIN journal' /\ journal'[i] = journal[i]
  <1>1. journal \in Seq(Item) /\ journal' \in Seq(Item)
    BY NextIsRegistryStep, StepPreserves DEF DeliveryInv, RegistryInv, RegistryTypeOK
  <1>2. \A i \in 1 .. Len(journal) : i \in 1 .. Len(journal') /\ journal'[i] = journal[i]
    BY NextIsRegistryStep, NothingTakenBack DEF DeliveryInv
  <1> QED BY <1>1, <1>2

(* What a party got a receipt for is in T's log. *)
LEMMA SettledKnown ==
  ASSUME DeliveryInv, NEW s \in Sender, NEW st, st.ct # "private", Settled(s, st)
  PROVE  Known(st)
  BY DEF DeliveryInv, Settled, HeldReceiptsBacked, Known

LEMMA OrderInOutbox ==
  ASSUME DeliveryInv, ContractIssued, InOrder, [Next]_vars
  PROVE  \A i \in 1 .. Len(outbox'["U"]) : Follows(outbox'["U"][i]) => Ahead(i)'
  <1>0. /\ "U" \in Sender /\ "U" \notin Services
        /\ outbox \in [Sender -> Seq(Item)]
    BY SendersTyped, DeliveryAssumption DEF DeliveryAssumption, DeliveryInv, TypeOK
  <1>1. CASE outbox'["U"] = outbox["U"]
    BY <1>1, LogKept DEF InOrder, Ahead, Known
  <1>2. ASSUME NEW u \in Sub, phase[u] \in Queueing,
               outbox' = [outbox EXCEPT !["U"] = Append(@, NextItem(u))]
        PROVE  \A i \in 1 .. Len(outbox'["U"]) : Follows(outbox'["U"][i]) => Ahead(i)'
    <2> DEFINE q == outbox["U"]
    <2>0. q \in Seq(Item) /\ outbox'["U"] = Append(q, NextItem(u))
      BY <1>0, <1>2
    <2>1. PICK n \in Nat : n = Len(q)
      BY <2>0
    <2>2. /\ Len(outbox'["U"]) = n + 1
          /\ \A j \in 1 .. n : outbox'["U"][j] = q[j]
          /\ outbox'["U"][n + 1] = NextItem(u)
      BY <2>0, <2>1
    <2>3. ASSUME NEW i \in 1 .. n, Follows(q[i]) PROVE Ahead(i)'
      <3>1. Ahead(i)
        BY <2>1, <2>3 DEF InOrder
      <3>2. outbox'["U"][i] = q[i]
        BY <2>2
      <3>3. CASE Known(Contract(q[i].sub))
        BY <3>2, <3>3, LogKept DEF Ahead, Known
      <3>4. ASSUME NEW j \in 1 .. i - 1, q[j] = Contract(q[i].sub) PROVE Ahead(i)'
        <4>1. j \in 1 .. n
          BY <2>1, <3>4
        <4> QED BY <2>2, <3>2, <3>4, <4>1 DEF Ahead
      <3> QED BY <3>1, <3>3, <3>4 DEF Ahead
    <2>4. ASSUME Follows(NextItem(u)) PROVE Ahead(n + 1)'
      <3>1. phase[u] = "revised" /\ NextItem(u) = Observation(u)
        BY <1>2, <2>4 DEF Queueing, NextItem, Follows, Contract, PrivateItem, Statement
      <3>2. Contract(u) \in issued["U"] /\ Contract(u).ct = "contract" /\ NextItem(u).sub = u
        BY <3>1 DEF ContractIssued, AfterContract, Phases, Contract, Observation, Statement
      <3>3. Contract(u) \in Queued("U") \/ Known(Contract(u))
        BY <1>0, <3>2, SettledKnown DEF DeliveryInv, QueuedOrSettled
      <3>4. CASE Known(Contract(u))
        BY <2>2, <3>2, <3>4, LogKept DEF Ahead, Known
      <3>5. CASE Contract(u) \in Queued("U")
        <4>1. PICK j \in 1 .. n : q[j] = Contract(u)
          BY <2>0, <2>1, <3>5 DEF Queued
        <4>2. j \in 1 .. (n + 1) - 1
          BY <2>1
        <4> QED BY <2>2, <3>2, <4>1, <4>2 DEF Ahead
      <3> QED BY <3>3, <3>4, <3>5
    <2>5. \A i \in 1 .. Len(outbox'["U"]) : i \in 1 .. n \/ i = n + 1
      BY <2>1, <2>2
    <2> QED BY <2>2, <2>3, <2>4, <2>5
  <1>3. ASSUME stage["U"] = "ack", outbox' = [outbox EXCEPT !["U"] = Tail(@)]
        PROVE  \A i \in 1 .. Len(outbox'["U"]) : Follows(outbox'["U"][i]) => Ahead(i)'
    <2> DEFINE q == outbox["U"]
    <2>0. InStep("U") /\ todo["U"] \in Nat /\ Len(q) \in Nat
      BY <1>0 DEF DeliveryInv, FlushInStep, TypeOK
    <2>1. Settled("U", q[1]) /\ 1 <= Len(q)
      BY <1>3, <2>0 DEF InStep
    <2>2. q \in Seq(Item) /\ q # <<>> /\ outbox'["U"] = Tail(q)
      BY <1>0, <1>3, <2>1
    <2>3. /\ Len(outbox'["U"]) = Len(q) - 1
          /\ \A i \in 1 .. Len(outbox'["U"]) : i + 1 \in 1 .. Len(q) /\ outbox'["U"][i] = q[i + 1]
      BY <2>2
    <2> SUFFICES ASSUME NEW i \in 1 .. Len(outbox'["U"]), Follows(q[i + 1]) PROVE Ahead(i)'
      BY <2>3
    <2>4. Ahead(i + 1)
      BY <2>3 DEF InOrder
    <2>5. outbox'["U"][i] = q[i + 1]
      BY <2>3
    <2>6. CASE Known(Contract(q[i + 1].sub))
      BY <2>5, <2>6, LogKept DEF Ahead, Known
    <2>7. ASSUME NEW j \in 1 .. (i + 1) - 1, q[j] = Contract(q[i + 1].sub) PROVE Ahead(i)'
      <3>1. CASE j = 1
        <4>1. Contract(q[i + 1].sub).ct # "private"
          BY DEF Contract, Statement
        <4>2. Known(Contract(q[i + 1].sub))
          BY <1>0, <2>1, <2>7, <3>1, <4>1, SettledKnown
        <4> QED BY <2>6, <4>2
      <3>2. CASE j # 1
        <4>1. j - 1 \in 1 .. i - 1 /\ (j - 1) + 1 = j /\ j - 1 \in 1 .. Len(q) - 1
          BY <2>2, <2>3, <2>7, <3>2
        <4>2. outbox'["U"][j - 1] = q[j]
          BY <2>3, <4>1
        <4> QED BY <2>5, <2>7, <4>1, <4>2 DEF Ahead
      <3> QED BY <3>1, <3>2
    <2> QED BY <2>4, <2>6, <2>7 DEF Ahead
  <1>4. CASE UNCHANGED outbox
    BY <1>1, <1>4
  <1>5. ASSUME NEW u \in Sub, NEW r \in Services, NEW v \in {1, 2},
               outbox' = [outbox EXCEPT ![r] = Append(@, Evidence(r, u, v))]
        PROVE  outbox'["U"] = outbox["U"]
    BY <1>0, <1>5
  <1>6. ASSUME NEW s \in Sender, s # "U", outbox' = [outbox EXCEPT ![s] = Tail(@)]
        PROVE  outbox'["U"] = outbox["U"]
    BY <1>0, <1>6
  <1>7. TypeOK
    BY DEF DeliveryInv
  <1> QED BY <1>1, <1>2, <1>3, <1>4, <1>5, <1>6, <1>7, OutboxStep

LEMMA OrderInSlots ==
  ASSUME DeliveryInv, InOrder, [Next]_vars, NEW k \in Slot,
         slot'[k] # NULL, slot'[k].src = "U", Follows(slot'[k].item)
  PROVE  Known(Contract(slot[k].item.sub))'
  <1>1. CASE slot[k] # NULL /\ slot'[k].src = slot[k].src /\ slot'[k].item = slot[k].item
    BY <1>1, LogKept DEF InOrder, Known
  <1>2. CASE outbox["U"] # <<>> /\ slot'[k].item = outbox["U"][1]
    <2>1. 1 \in 1 .. Len(outbox["U"])
      BY <1>2, SendersTyped DEF DeliveryInv, TypeOK
    <2>2. Ahead(1)
      BY <1>2, <2>1 DEF InOrder
    <2> QED BY <1>2, <2>2, LogKept DEF Ahead, Known
  <1> QED BY <1>1, <1>2, SlotStep

LEMMA OrderInLog ==
  ASSUME DeliveryInv, InOrder, [Next]_vars
  PROVE  ContractFirst'
  <1>0. journal \in Seq(Item)
    BY DEF DeliveryInv, RegistryInv, RegistryTypeOK
  <1>1. ASSUME NEW st, journal' = Append(journal, st),
               st.iss = "U" /\ st.ct # "contract" => Known(Contract(st.sub))
        PROVE  ContractFirst'
    <2> DEFINE n == Len(journal)
    <2>1. /\ n \in Nat /\ Len(journal') = n + 1 /\ DOMAIN journal' = 1 .. n + 1
          /\ journal'[n + 1] = st
          /\ \A i \in 1 .. n : journal'[i] = journal[i]
      BY <1>0, <1>1
    <2>2. ASSUME NEW i \in 1 .. n, journal[i].iss = "U", journal[i].ct # "contract"
          PROVE  \E j \in 1 .. i - 1 : journal'[j] = Contract(journal[i].sub)
      <3>1. PICK j \in 1 .. i - 1 : journal[j] = Contract(journal[i].sub)
        BY <1>0, <2>2 DEF InOrder, ContractFirst
      <3>2. j \in 1 .. n
        BY <2>1
      <3> QED BY <2>1, <3>1, <3>2
    <2>3. ASSUME st.iss = "U", st.ct # "contract"
          PROVE  \E j \in 1 .. (n + 1) - 1 : journal'[j] = Contract(st.sub)
      <3>1. PICK j \in 1 .. n : journal[j] = Contract(st.sub)
        BY <1>0, <1>1, <2>3 DEF Known
      <3>2. j \in 1 .. (n + 1) - 1
        BY <2>1
      <3> QED BY <2>1, <3>1, <3>2
    <2>4. \A i \in DOMAIN journal' : i \in 1 .. n \/ i = n + 1
      BY <2>1
    <2> QED BY <2>1, <2>2, <2>3, <2>4 DEF ContractFirst
  <1>2. CASE UNCHANGED journal
    BY <1>2 DEF InOrder, ContractFirst
  <1>3. ASSUME NEW k \in Slot, slot[k] # NULL, slot[k].item.ct \notin {"private", "verdict"},
               slot[k].item.iss = slot[k].src, journal' = Append(journal, slot[k].item)
        PROVE  ContractFirst'
    BY <1>1, <1>3 DEF InOrder, Follows
  <1>4. ASSUME NEW u \in Sub, journal' = Append(journal, VerdictOn(u))
        PROVE  ContractFirst'
    <2>1. VerdictOn(u).iss # "U"
      BY DEF VerdictOn
    <2> QED BY <1>1, <1>4, <2>1
  <1> QED BY <1>2, <1>3, <1>4, JournalStep

(* T's log keeps the order of U, however late a call that was given up is  *)
(* served: an outbox gives up its head only when T has it                  *)
(* (agent.py:55-81, storage.py:97-118).                                    *)
THEOREM OrderIsKept == Spec => []ContractFirst
  <1>1. Init => InOrder
    <2> SUFFICES ASSUME Init PROVE InOrder
      OBVIOUS
    <2>1. outbox["U"] = <<>> /\ journal = <<Policy>> /\ \A k \in Slot : slot[k] = NULL
      BY SendersTyped DEF Init, RegistryInit
    <2>2. \A i \in DOMAIN journal : journal[i].iss = "T"
      BY <2>1 DEF Policy, Statement
    <2> QED BY <2>1, <2>2 DEF InOrder, ContractFirst
  <1>2. DeliveryInv /\ ContractIssued /\ InOrder /\ [Next]_vars => InOrder'
    BY OrderInOutbox, OrderInSlots, OrderInLog DEF InOrder
  <1>3. Init => ContractIssued
    BY SendersTyped DEF Init, ContractIssued, AfterContract, Phases
  <1>4. DeliveryInv /\ ContractIssued /\ [Next]_vars => ContractIssued'
    BY ContractStays DEF DeliveryInv
  <1>5. InOrder => ContractFirst
    BY DEF InOrder
  <1> QED
    BY <1>1, <1>2, <1>3, <1>4, <1>5, DeliveryInvariance, PTL DEF Spec

-----------------------------------------------------------------------------
(* The private evidence of U: whatever goes out was remembered before.     *)

Version(u, p) == [sub |-> u, private |-> p]
Half == PrivateOf(FALSE)
Whole == PrivateOf(TRUE)

BasesKept ==
  /\ \A u \in Sub : /\ phase[u] = "versioned" => Version(u, Half) \in versions
                    /\ phase[u] \in {"revised", "observed"} => Version(u, Whole) \in versions
  /\ \A s \in Sender : \A i \in 1 .. Len(outbox[s]) :
       outbox[s][i].ct = "private" => Version(outbox[s][i].sub, outbox[s][i].basis) \in versions
  /\ \A s \in Sender : \A it \in issued[s] : it.ct = "private" => Version(it.sub, it.basis) \in versions
  /\ \A k \in Slot : slot[k] # NULL /\ slot[k].item.ct = "private"
                      => Version(slot[k].item.sub, slot[k].item.basis) \in versions
  /\ \A u \in Sub : private[u] # NULL => Version(u, private[u]) \in versions
  /\ \A i \in 1 .. Len(journal) :
       journal[i].ct = "verdict" => Version(journal[i].sub, journal[i].basis) \in versions

LEMMA VersionsStep ==
  ASSUME TypeOK, [Next]_vars
  PROVE  /\ versions \subseteq versions'
         /\ \A u \in Sub :
              /\ phase'[u] = "versioned" /\ phase[u] # "versioned" => Version(u, Half) \in versions'
              /\ phase'[u] \in {"revised", "observed"} /\ phase[u] \notin {"revised", "observed"}
                   => Version(u, Whole) \in versions'
  <1> DEFINE Still(v) == \/ phase'[v] = phase[v] \/ phase'[v] \notin {"versioned", "revised", "observed"}
                         \/ phase[v] = "revised" /\ phase'[v] = "observed"
  <1>1. ASSUME NEW u \in Sub, NEW from, NEW to, NEW p, Remember(u, from, to, p)
        PROVE  /\ versions \subseteq versions' /\ Version(u, p) \in versions'
               /\ phase'[u] = to /\ \A v \in Sub : v # u => phase'[v] = phase[v]
    BY <1>1 DEF TypeOK, Remember, Advance, Version
  <1>2. ASSUME NEW u \in Sub, RememberRequest(u)
        PROVE  /\ versions \subseteq versions' /\ Version(u, Half) \in versions'
               /\ phase'[u] = "versioned" /\ \A v \in Sub : v # u => phase'[v] = phase[v]
    <2>1. Remember(u, "contracted", "versioned", Half)
      BY <1>2 DEF RememberRequest, Half
    <2> QED BY <1>1, <2>1
  <1>3. ASSUME NEW u \in Sub, RememberResponse(u)
        PROVE  /\ versions \subseteq versions' /\ Version(u, Whole) \in versions'
               /\ phase'[u] = "revised" /\ \A v \in Sub : v # u => phase'[v] = phase[v]
    <2>1. Remember(u, "answered", "revised", Whole)
      BY <1>3 DEF RememberResponse, Whole
    <2> QED BY <1>1, <2>1
  <1>4. ASSUME NEW u \in Sub, \/ QueueContract(u) \/ QueueRequest(u) \/ Transmit(u) \/ Answer(u)
                              \/ QueueObservation(u) \/ QueueResponse(u) \/ Decide(u)
                              \/ Admit(u) \/ Abandon(u)
        PROVE  versions' = versions /\ \A v \in Sub : Still(v)
    BY <1>4 DEF TypeOK, QueueContract, QueueRequest, Transmit, Answer, QueueObservation, QueueResponse, Decide,
                Admit, Abandon, Queue, Advance
  <1>5. ASSUME NEW s \in Sender, CrashSender(s)
        PROVE  versions' = versions /\ \A v \in Sub : Still(v)
    BY <1>5 DEF TypeOK, CrashSender
  <1>6. ASSUME \/ \E u \in Sub : AskVerdict(u) \/ AskVerdictFails(u)
               \/ \E r \in Services, u \in Sub, v \in {1, 2} : Testify(r, u, v)
               \/ \E s \in Sender : FlushStep(s) \/ Timeout(s)
               \/ \E k \in Slot : Serve(k)
               \/ CrashT \/ RetireT \/ UNCHANGED vars
        PROVE  versions' = versions /\ \A v \in Sub : Still(v)
    <2>1. UNCHANGED <<phase, versions>>
      BY <1>6 DEF AskVerdict, AskVerdictFails, Testify, FlushStep, BeginFlush, Send, Busy, Rejected, Accepted,
                  Ack, Timeout, Serve, CrashT, RetireT, requestVars, vars
    <2> QED BY <2>1
  <1>7. CASE versions' = versions /\ \A v \in Sub : Still(v)
    BY <1>7
  <1>8. CASE \E u \in Sub : RememberRequest(u) \/ RememberResponse(u)
    BY <1>2, <1>3, <1>8
  <1> HIDE DEF Still
  <1> QED BY <1>4, <1>5, <1>6, <1>7, <1>8 DEF Next, RequestStep

LEMMA BasesStay ==
  ASSUME DeliveryInv, BasesKept, [Next]_vars
  PROVE  BasesKept'
  <1>0. /\ "U" \in Sender /\ Services \subseteq Sender
        /\ outbox \in [Sender -> Seq(Item)] /\ journal \in Seq(Item)
        /\ private \in [Sub -> Private \cup {NULL}] /\ TypeOK
    BY SendersTyped DEF DeliveryInv, TypeOK, RegistryTypeOK
  <1>1. versions \subseteq versions'
    BY <1>0, VersionsStep
  <1>2. \A u \in Sub :
          /\ phase'[u] = "versioned" => Version(u, Half) \in versions'
          /\ phase'[u] \in {"revised", "observed"} => Version(u, Whole) \in versions'
    BY <1>0, <1>1, VersionsStep DEF BasesKept
  <1>3. \A s \in Sender : \A i \in 1 .. Len(outbox'[s]) :
          outbox'[s][i].ct = "private" => Version(outbox'[s][i].sub, outbox'[s][i].basis) \in versions'
    <2>1. CASE UNCHANGED outbox
      BY <1>1, <2>1 DEF BasesKept
    <2>2. ASSUME NEW r \in Sender, NEW it, outbox' = [outbox EXCEPT ![r] = Append(@, it)],
                 it.ct = "private" => Version(it.sub, it.basis) \in versions
          PROVE  \A s \in Sender : \A i \in 1 .. Len(outbox'[s]) :
                   outbox'[s][i].ct = "private" => Version(outbox'[s][i].sub, outbox'[s][i].basis) \in versions'
      <3> SUFFICES ASSUME NEW s \in Sender, NEW i \in 1 .. Len(outbox'[s]), outbox'[s][i].ct = "private"
                   PROVE  Version(outbox'[s][i].sub, outbox'[s][i].basis) \in versions'
        OBVIOUS
      <3>1. (i \in 1 .. Len(outbox[s]) /\ outbox'[s][i] = outbox[s][i]) \/ outbox'[s][i] = it
        <4>1. CASE s = r
          <5>1. outbox[s] \in Seq(Item) /\ outbox'[s] = Append(outbox[s], it)
            BY <1>0, <2>2, <4>1
          <5> QED BY <5>1
        <4>2. CASE s # r
          BY <1>0, <2>2, <4>2
        <4> QED BY <4>1, <4>2
      <3> QED BY <1>1, <2>2, <3>1 DEF BasesKept
    <2>3. ASSUME NEW u \in Sub, phase[u] \in Queueing
          PROVE  NextItem(u).ct = "private" => Version(NextItem(u).sub, NextItem(u).basis) \in versions
      BY <2>3 DEF Queueing, NextItem, Contract, Observation, Statement, PrivateItem, BasesKept, Half, Whole
    <2>4. \A r \in Services, u \in Sub, v \in {1, 2} : Evidence(r, u, v).ct # "private"
      BY DEF Evidence, Statement
    <2>5. ASSUME NEW r \in Sender, stage[r] = "ack", outbox' = [outbox EXCEPT ![r] = Tail(@)]
          PROVE  \A s \in Sender : \A i \in 1 .. Len(outbox'[s]) :
                   outbox'[s][i].ct = "private" => Version(outbox'[s][i].sub, outbox'[s][i].basis) \in versions'
      <3> SUFFICES ASSUME NEW s \in Sender, NEW i \in 1 .. Len(outbox'[s]), outbox'[s][i].ct = "private"
                   PROVE  Version(outbox'[s][i].sub, outbox'[s][i].basis) \in versions'
        OBVIOUS
      <3>1. \E j \in 1 .. Len(outbox[s]) : outbox'[s][i] = outbox[s][j]
        <4>1. CASE s = r
          <5>1. InStep(r) /\ todo[r] \in Nat /\ Len(outbox[r]) \in Nat
            BY <1>0 DEF DeliveryInv, FlushInStep, TypeOK
          <5>2. 1 <= Len(outbox[r])
            BY <2>5, <5>1 DEF InStep
          <5>3. outbox[s] \in Seq(Item) /\ outbox[s] # <<>> /\ outbox'[s] = Tail(outbox[s])
            BY <1>0, <2>5, <4>1, <5>2
          <5>4. i + 1 \in 1 .. Len(outbox[s]) /\ outbox'[s][i] = outbox[s][i + 1]
            BY <5>3
          <5> QED BY <5>4
        <4>2. CASE s # r
          BY <1>0, <2>5, <4>2
        <4> QED BY <4>1, <4>2
      <3> QED BY <1>1, <3>1 DEF BasesKept
    <2>6. ASSUME NEW u \in Sub, phase[u] \in Queueing, outbox' = [outbox EXCEPT !["U"] = Append(@, NextItem(u))]
          PROVE  \A s \in Sender : \A i \in 1 .. Len(outbox'[s]) :
                   outbox'[s][i].ct = "private" => Version(outbox'[s][i].sub, outbox'[s][i].basis) \in versions'
      BY <1>0, <2>2, <2>3, <2>6
    <2>7. ASSUME NEW r \in Services, NEW u \in Sub, NEW v \in {1, 2},
                 outbox' = [outbox EXCEPT ![r] = Append(@, Evidence(r, u, v))]
          PROVE  \A s \in Sender : \A i \in 1 .. Len(outbox'[s]) :
                   outbox'[s][i].ct = "private" => Version(outbox'[s][i].sub, outbox'[s][i].basis) \in versions'
      BY <1>0, <2>2, <2>4, <2>7
    <2> QED BY <1>0, <2>1, <2>5, <2>6, <2>7, OutboxStep
  <1>4. ASSUME NEW k \in Slot, slot'[k] # NULL, slot'[k].item.ct = "private"
        PROVE  Version(slot'[k].item.sub, slot'[k].item.basis) \in versions'
    <2>1. CASE slot[k] # NULL /\ slot'[k].src = slot[k].src /\ slot'[k].item = slot[k].item
      BY <1>1, <1>4, <2>1 DEF BasesKept
    <2>2. ASSUME NEW s \in Sender, outbox[s] # <<>>, slot'[k].item = outbox[s][1]
          PROVE  Version(slot'[k].item.sub, slot'[k].item.basis) \in versions'
      <3>1. 1 \in 1 .. Len(outbox[s])
        BY <1>0, <2>2
      <3> QED BY <1>1, <1>4, <2>2, <3>1 DEF BasesKept
    <2> QED BY <1>4, <2>1, <2>2, SlotStep
  <1>5. ASSUME NEW u \in Sub, private'[u] # NULL
        PROVE  Version(u, private'[u]) \in versions'
    <2>1. CASE UNCHANGED private
      BY <1>1, <1>5, <2>1 DEF BasesKept
    <2>2. ASSUME NEW k \in Slot, slot[k] # NULL, slot[k].item.ct = "private", slot[k].item.sub \in Sub,
                 private' = [private EXCEPT ![slot[k].item.sub] = slot[k].item.basis]
          PROVE  Version(u, private'[u]) \in versions'
      BY <1>0, <1>1, <1>5, <2>2 DEF BasesKept
    <2> QED BY <2>1, <2>2, PrivateStep
  <1>6. \A i \in 1 .. Len(journal') :
          journal'[i].ct = "verdict" => Version(journal'[i].sub, journal'[i].basis) \in versions'
    <2>1. ASSUME NEW st, journal' = Append(journal, st),
                 st.ct = "verdict" => Version(st.sub, st.basis) \in versions
          PROVE  \A i \in 1 .. Len(journal') :
                   journal'[i].ct = "verdict" => Version(journal'[i].sub, journal'[i].basis) \in versions'
      <3>1. \A i \in 1 .. Len(journal') :
              (i \in 1 .. Len(journal) /\ journal'[i] = journal[i]) \/ journal'[i] = st
        BY <1>0, <2>1
      <3> QED BY <1>1, <2>1, <3>1 DEF BasesKept
    <2>2. CASE UNCHANGED journal
      BY <1>1, <2>2 DEF BasesKept
    <2>3. ASSUME NEW u \in Sub, MayJudge(u)
          PROVE  Version(VerdictOn(u).sub, VerdictOn(u).basis) \in versions
      BY <2>3 DEF MayJudge, VerdictOn, BasesKept
    <2> QED BY <2>1, <2>2, <2>3, JournalStep
  <1>7. \A s \in Sender : \A it \in issued'[s] : it.ct = "private" => Version(it.sub, it.basis) \in versions'
    <2>1. CASE UNCHANGED issued
      BY <1>1, <2>1 DEF BasesKept
    <2>2. ASSUME NEW r \in Sender, NEW x, issued' = [issued EXCEPT ![r] = @ \cup {x}],
                 x.ct = "private" => Version(x.sub, x.basis) \in versions
          PROVE  \A s \in Sender : \A it \in issued'[s] :
                   it.ct = "private" => Version(it.sub, it.basis) \in versions'
      <3>1. \A s \in Sender : \A it \in issued'[s] : it \in issued[s] \/ it = x
        BY <1>0, <2>2 DEF TypeOK
      <3> QED BY <1>1, <2>2, <3>1 DEF BasesKept
    <2>3. ASSUME NEW u \in Sub, phase[u] \in Queueing
          PROVE  NextItem(u).ct = "private" => Version(NextItem(u).sub, NextItem(u).basis) \in versions
      BY <2>3 DEF Queueing, NextItem, Contract, Observation, Statement, PrivateItem, BasesKept, Half, Whole
    <2>4. \A r \in Services, u \in Sub, v \in {1, 2} : Evidence(r, u, v).ct # "private"
      BY DEF Evidence, Statement
    <2>5. ASSUME NEW u \in Sub, phase[u] \in Queueing, issued' = [issued EXCEPT !["U"] = @ \cup {NextItem(u)}]
          PROVE  \A s \in Sender : \A it \in issued'[s] :
                   it.ct = "private" => Version(it.sub, it.basis) \in versions'
      BY <1>0, <2>2, <2>3, <2>5
    <2>6. ASSUME NEW r \in Services, NEW u \in Sub, NEW v \in {1, 2},
                 issued' = [issued EXCEPT ![r] = @ \cup {Evidence(r, u, v)}]
          PROVE  \A s \in Sender : \A it \in issued'[s] :
                   it.ct = "private" => Version(it.sub, it.basis) \in versions'
      BY <1>0, <2>2, <2>4, <2>6
    <2> QED BY <2>1, <2>5, <2>6, IssuedStep
  <1> QED BY <1>2, <1>3, <1>4, <1>5, <1>6, <1>7 DEF BasesKept

LEMMA BasesInvariance == Spec => []BasesKept
  <1>1. Init => BasesKept
    <2> SUFFICES ASSUME Init PROVE BasesKept
      OBVIOUS
    <2>1. /\ \A s \in Sender : outbox[s] = <<>>
          /\ \A k \in Slot : slot[k] = NULL
          /\ \A s \in Sender : issued[s] = {}
          /\ \A u \in Sub : phase[u] = "none" /\ private[u] = NULL
          /\ journal = <<Policy>> /\ Policy.ct = "policy"
      BY DEF Init, RegistryInit, Policy, Statement
    <2>2. \A i \in 1 .. Len(journal) : journal[i].ct = "policy"
      BY <2>1
    <2>3. \A s \in Sender : 1 .. Len(outbox[s]) = {}
      BY <2>1
    <2> QED BY <2>1, <2>2, <2>3 DEF BasesKept
  <1>2. DeliveryInv /\ BasesKept /\ [Next]_vars => BasesKept'
    BY BasesStay
  <1> QED
    BY <1>1, <1>2, DeliveryInvariance, PTL DEF Spec

(* Whatever crashes, times out, fails or is refused, and whatever is       *)
(* served late: an item that was queued is still queued, or T has given a  *)
(* receipt for it or holds private evidence that binds the same request;   *)
(* and of private evidence U has that very version for good                *)
(* (agent.py:68-77, 127, service.py:114-133, 163-166).                     *)
THEOREM NothingIsLost == Spec => []NothingLost
  <1>1. DeliveryInv /\ BasesKept => NothingLost
    BY DEF DeliveryInv, QueuedOrSettled, BasesKept, Version, NothingLost
  <1> QED
    BY <1>1, DeliveryInvariance, BasesInvariance, PTL

(* Every verdict in T's log can be recomputed: it was computed from the    *)
(* entries before it and from private evidence that U still has, also when *)
(* a late call has put an older version back in place                      *)
(* (service.py:157-185, agent.py:127).                                     *)
THEOREM VerdictsCanBeReplayed == Spec => []VerdictsReplayable
  <1>1. DeliveryInv /\ BasesKept => VerdictsReplayable
    <2> SUFFICES ASSUME DeliveryInv, BasesKept, NEW i \in DOMAIN journal, journal[i].ct = "verdict"
                 PROVE  journal[i].cut = i - 1 /\ Version(journal[i].sub, journal[i].basis) \in versions
      BY DEF VerdictsReplayable, Version
    <2>1. i \in 1 .. Len(journal)
      BY DEF DeliveryInv, RegistryInv, RegistryTypeOK
    <2> QED BY <2>1 DEF DeliveryInv, RegistryInv, VerdictsConsistent, BasesKept
  <1> QED
    BY <1>1, DeliveryInvariance, BasesInvariance, PTL

-----------------------------------------------------------------------------
(* Room: what the request that runs has still to queue fits, and without a *)
(* bound on the backlog four items per request are all there ever are.     *)

ToCome(p) ==
  IF p = "recorded" THEN 4
  ELSE IF p \in {"contracted", "versioned"} THEN 3
  ELSE IF p \in {"ready", "sent", "answered", "revised"} THEN 2
  ELSE IF p = "observed" THEN 1
  ELSE 0

Admitted == {u \in Sub : phase[u] # "none"}

OneActive == \A u, v \in Sub : Active(u) /\ Active(v) => u = v

RoomInQueue ==
  /\ ~ Bounded => /\ Len(outbox["U"]) <= 4 * Cardinality(Admitted)
                  /\ \A u \in Sub : Active(u) =>
                       Len(outbox["U"]) + ToCome(phase[u]) <= 4 * Cardinality(Admitted)
  /\ Bounded => \A u \in Sub : Active(u) => Len(outbox["U"]) + ToCome(phase[u]) <= QueueLimit

Room == OneActive /\ RoomInQueue /\ Cardinality(Admitted) <= MaxRequests

LEMMA AdmittedFinite == IsFiniteSet(Admitted) /\ Cardinality(Admitted) \in Nat
  <1>1. Admitted \subseteq Sub /\ IsFiniteSet(Sub)
    BY DeliveryAssumption DEF Admitted, DeliveryAssumption
  <1>2. IsFiniteSet(Admitted)
    BY <1>1, FS_Subset
  <1> QED BY <1>2, FS_CardinalityType

(* Everything that can happen to the phases and to the length of the queue. *)
LEMMA RoomStep ==
  ASSUME TypeOK, FlushInStep, [Next]_vars
  PROVE  \/ \E u \in Sub : Admit(u)
         \/ \E u \in Sub, p \in Phases :
              /\ Active(u) /\ p # "none" /\ phase' = [phase EXCEPT ![u] = p]
              /\ Len(outbox'["U"]) + ToCome(p) <= Len(outbox["U"]) + ToCome(phase[u])
              /\ p = "closed" => Len(outbox'["U"]) = Len(outbox["U"])
         \/ /\ \A u \in Sub : phase'[u] = phase[u] \/ (phase[u] # "none" /\ phase'[u] = "closed")
            /\ Len(outbox'["U"]) <= Len(outbox["U"])
  <1> DEFINE n == Len(outbox["U"])
  <1>0. /\ "U" \in Sender /\ "U" \notin Services
        /\ outbox \in [Sender -> Seq(Item)] /\ n \in Nat /\ phase \in [Sub -> Phases]
    BY SendersTyped, DeliveryAssumption DEF DeliveryAssumption, TypeOK
  <1> DEFINE Changes(u, p) ==
        /\ Active(u) /\ p \in Phases /\ p # "none" /\ phase' = [phase EXCEPT ![u] = p]
        /\ Len(outbox'["U"]) + ToCome(p) <= n + ToCome(phase[u])
        /\ p = "closed" => Len(outbox'["U"]) = n
  <1>1. ASSUME NEW u \in Sub, NEW from, NEW to, NEW it, Queue(u, from, to, it),
               <<from, to>> \in {<<"recorded", "contracted">>, <<"versioned", "ready">>,
                                <<"revised", "observed">>, <<"observed", "waiting">>}
        PROVE  Changes(u, to)
    <2>1. /\ phase[u] = from /\ phase' = [phase EXCEPT ![u] = to]
          /\ outbox' = outbox \/ outbox' = [outbox EXCEPT !["U"] = Append(@, it)]
      BY <1>1 DEF Queue, Advance, Enqueue
    <2>2. Len(outbox'["U"]) \in {n, n + 1}
      <3>1. outbox["U"] \in Seq(Item)
        BY <1>0
      <3> QED BY <1>0, <2>1, <3>1
    <2>3. ToCome(to) + 1 <= ToCome(from) /\ ToCome(to) \in Nat /\ ToCome(from) \in Nat
      BY <1>1 DEF ToCome
    <2>4. Active(u) /\ to \in Phases /\ to \notin {"none", "closed"}
      BY <1>1, <2>1 DEF Active, Phases
    <2> QED BY <1>0, <2>1, <2>2, <2>3, <2>4
  <1>2. ASSUME NEW u \in Sub, NEW from, NEW to, phase[u] = from, phase' = [phase EXCEPT ![u] = to],
               UNCHANGED outbox,
               <<from, to>> \in {<<"contracted", "versioned">>, <<"ready", "sent">>, <<"sent", "answered">>,
                                <<"answered", "revised">>, <<"waiting", "closed">>}
        PROVE  Changes(u, to)
    <2>1. ToCome(to) <= ToCome(from) /\ ToCome(to) \in Nat /\ ToCome(from) \in Nat
      BY <1>2 DEF ToCome
    <2>2. Active(u) /\ to \in Phases /\ to # "none"
      BY <1>2 DEF Active, Phases
    <2> QED BY <1>0, <1>2, <2>1, <2>2
  <1>3. ASSUME NEW u \in Sub, Abandon(u)
        PROVE  Changes(u, "closed")
    <2>1. ToCome("closed") = 0 /\ ToCome(phase[u]) \in Nat
      BY DEF ToCome
    <2> QED BY <1>0, <1>3, <2>1 DEF Abandon, Phases
  <1>4. ASSUME NEW u \in Sub, RequestStep(u) \/ Abandon(u)
        PROVE  \E p : Changes(u, p)
    <2>1. CASE QueueContract(u) \/ QueueRequest(u) \/ QueueObservation(u) \/ QueueResponse(u)
      <3>1. PICK from, to, it : Queue(u, from, to, it) /\
               <<from, to>> \in {<<"recorded", "contracted">>, <<"versioned", "ready">>,
                                <<"revised", "observed">>, <<"observed", "waiting">>}
        BY <2>1 DEF QueueContract, QueueRequest, QueueObservation, QueueResponse
      <3> HIDE DEF Changes
      <3> QED BY <1>1, <3>1
    <2>2. CASE RememberRequest(u) \/ RememberResponse(u) \/ Transmit(u) \/ Answer(u) \/ Decide(u)
      <3>1. PICK from, to : /\ phase[u] = from /\ phase' = [phase EXCEPT ![u] = to] /\ UNCHANGED outbox
               /\ <<from, to>> \in {<<"contracted", "versioned">>, <<"ready", "sent">>, <<"sent", "answered">>,
                                <<"answered", "revised">>, <<"waiting", "closed">>}
        BY <2>2 DEF RememberRequest, RememberResponse, Remember, Transmit, Answer, Decide, Advance
      <3> HIDE DEF Changes
      <3> QED BY <1>2, <3>1
    <2> HIDE DEF Changes
    <2> QED BY <1>3, <1>4, <2>1, <2>2 DEF RequestStep
  <1>5. ASSUME \/ \E u \in Sub : AskVerdict(u) \/ AskVerdictFails(u)
               \/ \E s \in Sender : BeginFlush(s) \/ Send(s) \/ Busy(s) \/ Rejected(s) \/ Accepted(s) \/ Timeout(s)
               \/ \E k \in Slot : Serve(k)
               \/ CrashT \/ RetireT \/ UNCHANGED vars
        PROVE  UNCHANGED <<phase, outbox>>
    BY <1>5 DEF AskVerdict, AskVerdictFails, BeginFlush, Send, Busy, Rejected, Accepted, Timeout,
                Serve, CrashT, RetireT, requestVars, vars
  <1>6. ASSUME NEW s \in Sender, CrashSender(s)
        PROVE  /\ \A u \in Sub : phase'[u] = phase[u] \/ (phase[u] # "none" /\ phase'[u] = "closed")
               /\ UNCHANGED outbox
    BY <1>0, <1>6 DEF CrashSender, Active
  <1>7. ASSUME NEW r \in Services, NEW u \in Sub, NEW v \in {1, 2}, Testify(r, u, v)
        PROVE  UNCHANGED phase /\ outbox'["U"] = outbox["U"]
    BY <1>0, <1>7 DEF Testify, Enqueue, requestVars
  <1>8. ASSUME NEW s \in Sender, Ack(s)
        PROVE  UNCHANGED phase /\ Len(outbox'["U"]) <= n
    <2>1. UNCHANGED phase /\ stage[s] = "ack" /\ outbox' = [outbox EXCEPT ![s] = Tail(@)]
      BY <1>8 DEF Ack, requestVars
    <2>2. CASE s = "U"
      <3>1. InStep("U") /\ todo["U"] \in Nat
        BY <1>0 DEF FlushInStep, TypeOK
      <3>2. 1 <= n
        BY <1>0, <2>1, <2>2, <3>1 DEF InStep
      <3>3. outbox["U"] \in Seq(Item) /\ outbox["U"] # <<>> /\ outbox'["U"] = Tail(outbox["U"])
        BY <1>0, <2>1, <2>2, <3>2
      <3> QED BY <2>1, <3>3
    <2>3. CASE s # "U"
      BY <1>0, <2>1, <2>3
    <2> QED BY <2>2, <2>3
  <1>9. CASE \E u \in Sub : \E p : Changes(u, p)
    BY <1>9
  <1>10. CASE /\ \A u \in Sub : phase'[u] = phase[u] \/ (phase[u] # "none" /\ phase'[u] = "closed")
              /\ Len(outbox'["U"]) <= n
    BY <1>10
  <1>11. UNCHANGED <<phase, outbox>> =>
              /\ \A u \in Sub : phase'[u] = phase[u]
              /\ Len(outbox'["U"]) <= n
    BY <1>0
  <1> HIDE DEF Changes
  <1>12. CASE \E s \in Sender : FlushStep(s) \/ Timeout(s) \/ CrashSender(s)
    BY <1>0, <1>5, <1>6, <1>8, <1>10, <1>11, <1>12 DEF FlushStep
  <1>13. CASE \E u \in Sub : Admit(u) \/ RequestStep(u) \/ Abandon(u)
    BY <1>4, <1>9, <1>13
  <1>14. CASE \E r \in Services, u \in Sub, v \in {1, 2} : Testify(r, u, v)
    BY <1>0, <1>7, <1>10, <1>14
  <1>15. CASE \/ \E u \in Sub : AskVerdict(u) \/ AskVerdictFails(u)
              \/ \E k \in Slot : Serve(k)
              \/ CrashT \/ RetireT \/ UNCHANGED vars
    BY <1>5, <1>10, <1>11, <1>15
  <1> QED BY <1>12, <1>13, <1>14, <1>15 DEF Next

LEMMA RoomStays ==
  ASSUME DeliveryInv, Room, [Next]_vars
  PROVE  Room'
  <1> DEFINE n == Len(outbox["U"])
             c == Cardinality(Admitted)
  <1>0. /\ TypeOK /\ FlushInStep /\ phase \in [Sub -> Phases]
        /\ n \in Nat /\ outbox'["U"] \in Seq(Item) /\ Len(outbox'["U"]) \in Nat
        /\ c \in Nat /\ IsFiniteSet(Admitted)
        /\ MaxRequests \in Nat /\ QueueLimit \in Nat /\ Bounded \in BOOLEAN
    <2>1. TypeOK /\ FlushInStep /\ TypeOK'
      BY NextTyped, DeliveryStep DEF DeliveryInv
    <2> QED BY <2>1, SendersTyped, AdmittedFinite, DeliveryAssumption DEF TypeOK, DeliveryAssumption
  <1>1. \A p \in Phases : ToCome(p) \in 0 .. 4
    BY DEF ToCome
  <1>2. ASSUME NEW u \in Sub, Admit(u) PROVE Room'
    <2>1. /\ \A v \in Sub : ~ Active(v)
          /\ Cardinality({v \in Sub : phase[v] # "none"}) < MaxRequests
          /\ Bounded => n + 5 <= QueueLimit
          /\ phase[u] = "none" /\ phase' = [phase EXCEPT ![u] = "recorded"] /\ UNCHANGED outbox
      BY <1>2 DEF Admit, Advance
    <2>2. Admitted' = Admitted \cup {u} /\ u \notin Admitted
      BY <1>0, <2>1 DEF Admitted
    <2>3. Cardinality(Admitted') = c + 1
      BY <1>0, <2>2, FS_AddElement
    <2>4. c < MaxRequests
      BY <2>1 DEF Admitted
    <2>5. \A v \in Sub : Active(v)' => v = u
      BY <1>0, <2>1 DEF Active
    <2>6. phase'[u] = "recorded" /\ ToCome("recorded") = 4
      BY <1>0, <2>1 DEF ToCome
    <2>7. RoomInQueue'
      BY <1>0, <2>1, <2>3, <2>5, <2>6 DEF Room, RoomInQueue
    <2> QED BY <1>0, <2>3, <2>4, <2>5, <2>7 DEF Room, OneActive
  <1>3. ASSUME NEW u \in Sub, NEW p \in Phases,
               Active(u), p # "none", phase' = [phase EXCEPT ![u] = p],
               Len(outbox'["U"]) + ToCome(p) <= n + ToCome(phase[u])
        PROVE  Room'
    <2>1. Admitted' = Admitted
      BY <1>0, <1>3 DEF Admitted, Active
    <2>2. \A v \in Sub : Active(v)' => Active(v)
      BY <1>0, <1>3 DEF Active
    <2>3. \A v \in Sub : Active(v) => v = u
      BY <1>3 DEF Room, OneActive
    <2>4. phase'[u] = p /\ ToCome(p) \in 0 .. 4 /\ ToCome(phase[u]) \in 0 .. 4
      BY <1>0, <1>1, <1>3
    <2>5. RoomInQueue'
      <3>1. CASE Bounded
        <4>1. n + ToCome(phase[u]) <= QueueLimit
          BY <1>3, <3>1 DEF Room, RoomInQueue
        <4>2. Len(outbox'["U"]) + ToCome(p) <= QueueLimit
          <5>1. ToCome(p) \in Int /\ ToCome(phase[u]) \in Int
            BY <2>4
          <5> HIDE DEF n
          <5> QED BY <1>0, <1>3, <4>1, <5>1
        <4> QED BY <2>2, <2>3, <2>4, <3>1, <4>2 DEF RoomInQueue
      <3>2. CASE ~ Bounded
        <4>1. n + ToCome(phase[u]) <= 4 * c
          BY <1>3, <3>2 DEF Room, RoomInQueue
        <4>2. /\ Len(outbox'["U"]) + ToCome(p) <= 4 * c
              /\ Len(outbox'["U"]) <= 4 * c
          <5>1. 0 <= ToCome(p) /\ ToCome(p) \in Int /\ ToCome(phase[u]) \in Int /\ 4 * c \in Nat
            BY <1>0, <2>4
          <5> HIDE DEF n, c
          <5>2. Len(outbox'["U"]) + ToCome(p) <= 4 * c
            BY <1>0, <1>3, <4>1, <5>1
          <5> QED BY <1>0, <5>1, <5>2
        <4> QED BY <2>1, <2>2, <2>3, <2>4, <3>2, <4>2 DEF RoomInQueue
      <3> QED BY <1>0, <3>1, <3>2
    <2> QED BY <2>1, <2>2, <2>5 DEF Room, OneActive
  <1>4. ASSUME \A u \in Sub : phase'[u] = phase[u] \/ (phase[u] # "none" /\ phase'[u] = "closed"),
               Len(outbox'["U"]) <= n
        PROVE  Room'
    <2>1. Admitted' = Admitted
      BY <1>4 DEF Admitted
    <2>2. \A u \in Sub : Active(u)' => Active(u) /\ phase'[u] = phase[u]
      BY <1>4 DEF Active
    <2>3. \A u \in Sub : ToCome(phase[u]) \in 0 .. 4
      BY <1>0, <1>1
    <2>4. RoomInQueue'
      <3>1. CASE Bounded
        <4>1. \A u \in Sub : Active(u) => n + ToCome(phase[u]) <= QueueLimit
          BY <3>1 DEF Room, RoomInQueue
        <4>2. \A u \in Sub : Active(u) => Len(outbox'["U"]) + ToCome(phase[u]) <= QueueLimit
          <5>1. \A u \in Sub : ToCome(phase[u]) \in Int
            BY <2>3
          <5> HIDE DEF n
          <5> QED BY <1>0, <1>4, <4>1, <5>1
        <4> QED BY <2>2, <3>1, <4>2 DEF RoomInQueue
      <3>2. CASE ~ Bounded
        <4>1. n <= 4 * c /\ \A u \in Sub : Active(u) => n + ToCome(phase[u]) <= 4 * c
          BY <3>2 DEF Room, RoomInQueue
        <4>2. /\ Len(outbox'["U"]) <= 4 * c
              /\ \A u \in Sub : Active(u) => Len(outbox'["U"]) + ToCome(phase[u]) <= 4 * c
          <5>1. 4 * c \in Nat /\ \A u \in Sub : ToCome(phase[u]) \in Int
            BY <1>0, <2>3
          <5> HIDE DEF n, c
          <5> QED BY <1>0, <1>4, <4>1, <5>1
        <4> QED BY <2>1, <2>2, <3>2, <4>2 DEF RoomInQueue
      <3> QED BY <1>0, <3>1, <3>2
    <2> QED BY <2>1, <2>2, <2>4 DEF Room, OneActive
  <1> QED BY <1>0, <1>2, <1>3, <1>4, RoomStep

(* The admission check of a new request leaves room for all it will queue, *)
(* under both backlog policies (agent.py:98, 216).                         *)
THEOREM AdmittedFits == Spec => []AdmittedNeverFull
  <1>1. Init => Room
    <2> SUFFICES ASSUME Init PROVE Room
      OBVIOUS
    <2>1. \A u \in Sub : phase[u] = "none"
      BY DEF Init
    <2>2. outbox["U"] = <<>> /\ Len(outbox["U"]) = 0
      BY SendersTyped DEF Init
    <2>3. Admitted = {} /\ Cardinality(Admitted) = 0
      BY <2>1, FS_EmptySet DEF Admitted
    <2>4. MaxRequests \in Nat
      BY DeliveryAssumption DEF DeliveryAssumption
    <2> QED BY <2>1, <2>2, <2>3, <2>4 DEF Room, OneActive, RoomInQueue, Active
  <1>2. DeliveryInv /\ Room /\ [Next]_vars => Room'
    BY RoomStays
  <1>3. DeliveryInv /\ Room => AdmittedNeverFull
    <2> SUFFICES ASSUME DeliveryInv, Room, NEW u \in Sub, phase[u] \in Queueing
                 PROVE  Len(outbox["U"]) < Capacity("U")
      <3>1. Len(outbox["U"]) \in Nat /\ Capacity("U") \in Nat
        BY SendersTyped, DeliveryAssumption DEF DeliveryInv, TypeOK, Capacity, DeliveryAssumption
      <3> QED BY <3>1 DEF AdmittedNeverFull, QueueFull, Queueing
    <2>1. Active(u) /\ ToCome(phase[u]) \in Nat /\ 1 <= ToCome(phase[u])
      BY DEF Active, Queueing, ToCome
    <2>2. /\ Len(outbox["U"]) \in Nat /\ Cardinality(Admitted) \in Nat
          /\ MaxRequests \in Nat /\ QueueLimit \in Nat /\ Bounded \in BOOLEAN
      BY SendersTyped, AdmittedFinite, DeliveryAssumption DEF DeliveryInv, TypeOK, DeliveryAssumption
    <2>3. CASE Bounded
      BY <2>1, <2>2, <2>3 DEF Room, RoomInQueue, Capacity
    <2>4. CASE ~ Bounded
      BY <2>1, <2>2, <2>4 DEF Room, RoomInQueue, Capacity
    <2> QED BY <2>2, <2>3, <2>4
  <1> QED
    BY <1>1, <1>2, <1>3, DeliveryInvariance, PTL DEF Spec

=============================================================================
