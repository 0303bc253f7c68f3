-------------------------- MODULE EvidenceDelivery --------------------------
(***************************************************************************)
(* How signed evidence travels from the parties to T: the durable outboxes *)
(* of U, R and M (Store in runtime/common/storage.py), the flush loops     *)
(* that empty them (Agent.flush, Service.flush), the request thread of U   *)
(* that fills U's one (Agent._request), and T's eight server slots         *)
(* (runtime/rpc_server.py), in which a call its caller has given up on     *)
(* stays until T gets to it.                                               *)
(*                                                                         *)
(* What R and M do with a request, the checks of U on the answer and the   *)
(* wait for a verdict are other modules; here a request is the sequence of *)
(* writes and sends that concern evidence.                                 *)
(***************************************************************************)
EXTENDS Registry

CONSTANTS
  Slot,           \* T's request slots (BoundedSemaphore(8))
  Services,       \* which of "R" and "M" take part
  Faulty,         \* services that may sign a second statement for a request
  QueueLimit,     \* queue_capacity of U, 256 by default
  Bounded,        \* whether evidence_backlog_policy is "bounded"
  MaxRequests,    \* max_requests of U
  ServiceLimit,   \* R and M stop taking requests at this backlog (250)
  ServiceQueue,   \* capacity of the outboxes of R and M (256)
  PartialRebuild, \* whether rebuilding T's log after a failed insert may stop early
  MaxFaults       \* how many crashes, timeouts and failed writes may happen

ASSUME DeliveryAssumption ==
  /\ Services \subseteq {"R", "M"}
  /\ Faulty \subseteq Services
  /\ QueueLimit \in Nat
  /\ Bounded \in BOOLEAN
  /\ MaxRequests \in Nat
  /\ ServiceLimit \in Nat /\ ServiceQueue \in Nat /\ ServiceLimit <= ServiceQueue
  /\ PartialRebuild \in BOOLEAN
  /\ MaxFaults \in Nat
  /\ Request # {}
  /\ IsFiniteSet(Sub)

Sender == {"U"} \cup Services

(* A call of a flush loop that T has accepted into a slot. *)
Call == [src : Sender, item : Item, reply : {"none", "ok", "error"}, index : Nat]

ASSUME NullAssumption == NULL \notin Slot /\ NULL \notin Call

VARIABLES
  phase,     \* how far U's request thread is with each request
  sent,      \* the requests U has transmitted to R
  versions,  \* private-version records of U
  outbox,    \* the outbox table of each party
  stage,     \* what the flush loop of each party is doing
  todo,      \* how many items of its snapshot a flush loop has left
  call,      \* the slot a flush loop waits on
  slot,      \* the calls T has accepted
  held,      \* receipt:<hash> records of each party
  issued,    \* history: every item a party has queued
  faults     \* history: how many faults have happened

requestVars == <<phase, sent, versions>>
flushVars == <<stage, todo, call, slot>>
vars == <<registryVars, requestVars, outbox, flushVars, held, issued, faults>>

-----------------------------------------------------------------------------
(* The evidence of a request, in the order U queues it. *)

Request1 == CHOOSE r \in Request : TRUE

PrivateOf(complete) == [request |-> Request1, response |-> complete]

Contract(u) == Statement("U", "contract", u, 1)
Observation(u) == Statement("U", "observation", u, 1)
Evidence(r, u, v) == Statement(r, IF r = "R" THEN "relay" ELSE "receipt", u, v)

Phases == {"none", "recorded", "contracted", "versioned", "ready", "sent",
           "answered", "revised", "observed", "waiting", "closed"}

Active(u) == phase[u] \notin {"none", "closed"}

Advance(u, from, to) ==
  /\ phase[u] = from
  /\ phase' = [phase EXCEPT ![u] = to]

Queued(s) == {outbox[s][i] : i \in DOMAIN outbox[s]}

(* Agent._enqueue: the capacity follows the backlog policy. *)
Capacity(s) ==
  IF s # "U" THEN ServiceQueue ELSE IF Bounded THEN QueueLimit ELSE MaxRequests * 4

(* Store.enqueue: an item that is already queued is not queued twice. *)
Enqueue(s, it) ==
  /\ it \notin Queued(s) => Len(outbox[s]) < Capacity(s)
  /\ outbox' = IF it \in Queued(s) THEN outbox ELSE [outbox EXCEPT ![s] = Append(@, it)]
  /\ issued' = [issued EXCEPT ![s] = @ \cup {it}]

QueueFull(s, it) == it \notin Queued(s) /\ Len(outbox[s]) >= Capacity(s)

Fault ==
  /\ faults < MaxFaults
  /\ faults' = faults + 1

-----------------------------------------------------------------------------
(* U's request thread.  request_lock admits one request at a time.         *)

(* Mutant: the admission check leaves room for one item only. *)
AdmitWithoutRoom(u) ==
  /\ \A v \in Sub : ~ Active(v)
  /\ Cardinality({v \in Sub : phase[v] # "none"}) < MaxRequests
  /\ Bounded => Len(outbox["U"]) + 1 <= QueueLimit
  /\ Advance(u, "none", "recorded")
  /\ UNCHANGED <<registryVars, sent, versions, outbox, flushVars, held, issued, faults>>

Admit(u) ==
  /\ \A v \in Sub : ~ Active(v)
  /\ Cardinality({v \in Sub : phase[v] # "none"}) < MaxRequests
  /\ Bounded => Len(outbox["U"]) + 5 <= QueueLimit
  /\ Advance(u, "none", "recorded")
  /\ UNCHANGED <<registryVars, sent, versions, outbox, flushVars, held, issued, faults>>

Queue(u, from, to, it) ==
  /\ Advance(u, from, to)
  /\ Enqueue("U", it)
  /\ UNCHANGED <<registryVars, sent, versions, flushVars, held, faults>>

(* Mutant: one version of the private evidence per request is kept. *)
RememberLatest(u, from, to, p) ==
  /\ Advance(u, from, to)
  /\ versions' = {v \in versions : v.sub # u} \cup {[sub |-> u, private |-> p]}
  /\ UNCHANGED <<registryVars, sent, outbox, flushVars, held, issued, faults>>

Remember(u, from, to, p) ==
  /\ Advance(u, from, to)
  /\ versions' = versions \cup {[sub |-> u, private |-> p]}
  /\ UNCHANGED <<registryVars, sent, outbox, flushVars, held, issued, faults>>

QueueContract(u) == Queue(u, "recorded", "contracted", Contract(u))
RememberRequest(u) == Remember(u, "contracted", "versioned", PrivateOf(FALSE))
QueueRequest(u) == Queue(u, "versioned", "ready", PrivateItem(u, PrivateOf(FALSE)))

(* Mutant: the request may go out before the contract is queued. *)
TransmitEarly(u) ==
  /\ phase[u] \in {"recorded", "ready"}
  /\ phase' = [phase EXCEPT ![u] = IF @ = "ready" THEN "sent" ELSE @]
  /\ sent' = sent \cup {u}
  /\ UNCHANGED <<registryVars, versions, outbox, flushVars, held, issued, faults>>

Transmit(u) ==
  /\ Advance(u, "ready", "sent")
  /\ sent' = sent \cup {u}
  /\ UNCHANGED <<registryVars, versions, outbox, flushVars, held, issued, faults>>

(* R answers with a body of the expected shape. *)
Answer(u) ==
  /\ Advance(u, "sent", "answered")
  /\ UNCHANGED <<registryVars, sent, versions, outbox, flushVars, held, issued, faults>>

RememberResponse(u) == Remember(u, "answered", "revised", PrivateOf(TRUE))
QueueObservation(u) == Queue(u, "revised", "observed", Observation(u))
QueueResponse(u) == Queue(u, "observed", "waiting", PrivateItem(u, PrivateOf(TRUE)))

(* The decision, whatever it is, ends the request. *)
Decide(u) ==
  /\ Advance(u, "waiting", "closed")
  /\ UNCHANGED <<registryVars, sent, versions, outbox, flushVars, held, issued, faults>>

(* Cancelled before transmission, no or no usable answer, or an exception  *)
(* from any other call: the record is closed and nothing is queued again.  *)
Abandon(u) ==
  /\ Active(u)
  /\ phase' = [phase EXCEPT ![u] = "closed"]
  /\ UNCHANGED <<registryVars, sent, versions, outbox, flushVars, held, issued, faults>>

RequestStep(u) ==
  \/ QueueContract(u) \/ RememberRequest(u) \/ QueueRequest(u) \/ Transmit(u) \/ Answer(u)
  \/ RememberResponse(u) \/ QueueObservation(u) \/ QueueResponse(u) \/ Decide(u)

(* R or M has handled a transmitted request and queues its statement.  An  *)
(* honest service does so once for a request.                              *)
Testify(r, u, v) ==
  /\ u \in sent
  /\ v = 1 \/ r \in Faulty
  /\ Evidence(r, u, v) \notin issued[r]
  /\ Len(outbox[r]) < ServiceLimit
  /\ Enqueue(r, Evidence(r, u, v))
  /\ UNCHANGED <<registryVars, requestVars, flushVars, held, faults>>

-----------------------------------------------------------------------------
(* The flush loop of a party.  flush_lock keeps one loop running; it works *)
(* through a snapshot of the outbox and stops at the first exception.      *)

BeginFlush(s) ==
  /\ stage[s] = "idle"
  /\ outbox[s] # <<>>
  /\ stage' = [stage EXCEPT ![s] = "next"]
  /\ todo' = [todo EXCEPT ![s] = Len(outbox[s])]
  /\ UNCHANGED <<registryVars, requestVars, outbox, call, slot, held, issued, faults>>

Free(k) == slot[k] = NULL

Send(s) ==
  /\ stage[s] = "next"
  /\ \E k \in Slot :
       /\ Free(k)
       /\ slot' = [slot EXCEPT ![k] = [src |-> s, item |-> Head(outbox[s]), reply |-> "none", index |-> 0]]
       /\ call' = [call EXCEPT ![s] = k]
  /\ stage' = [stage EXCEPT ![s] = "wait"]
  /\ UNCHANGED <<registryVars, requestVars, outbox, todo, held, issued, faults>>

(* Mutant: the flush lock is not released after an exception. *)
StopFlushLocked(s) ==
  /\ stage' = [stage EXCEPT ![s] = "locked"]
  /\ todo' = [todo EXCEPT ![s] = 0]
  /\ call' = [call EXCEPT ![s] = NULL]

StopFlush(s) ==
  /\ stage' = [stage EXCEPT ![s] = "idle"]
  /\ todo' = [todo EXCEPT ![s] = 0]
  /\ call' = [call EXCEPT ![s] = NULL]

(* All slots are taken: the server closes the connection. *)
Busy(s) ==
  /\ stage[s] = "next"
  /\ \A k \in Slot : ~ Free(k)
  /\ StopFlush(s)
  /\ UNCHANGED <<registryVars, requestVars, outbox, slot, held, issued, faults>>

(* Mutant: an item that T refuses is dropped. *)
RejectedDropped(s) ==
  /\ stage[s] = "wait"
  /\ slot[call[s]].reply = "error"
  /\ slot' = [slot EXCEPT ![call[s]] = NULL]
  /\ outbox' = [outbox EXCEPT ![s] = Tail(@)]
  /\ StopFlush(s)
  /\ UNCHANGED <<registryVars, requestVars, held, issued, faults>>

(* A negative answer. *)
Rejected(s) ==
  /\ stage[s] = "wait"
  /\ slot[call[s]].reply = "error"
  /\ slot' = [slot EXCEPT ![call[s]] = NULL]
  /\ StopFlush(s)
  /\ UNCHANGED <<registryVars, requestVars, outbox, held, issued, faults>>

(* A positive answer: a receipt is kept before the item leaves the outbox. *)
Accepted(s) ==
  LET it == Head(outbox[s]) IN
  /\ stage[s] = "wait"
  /\ slot[call[s]].reply = "ok"
  /\ held' = IF it.ct = "private" THEN held
             ELSE [held EXCEPT ![s] = @ \cup {[stmt |-> it, index |-> slot[call[s]].index]}]
  /\ slot' = [slot EXCEPT ![call[s]] = NULL]
  /\ call' = [call EXCEPT ![s] = NULL]
  /\ stage' = [stage EXCEPT ![s] = "ack"]
  /\ UNCHANGED <<registryVars, requestVars, outbox, todo, issued, faults>>

Ack(s) ==
  /\ stage[s] = "ack"
  /\ outbox' = [outbox EXCEPT ![s] = Tail(@)]
  /\ todo' = [todo EXCEPT ![s] = @ - 1]
  /\ stage' = [stage EXCEPT ![s] = IF todo[s] = 1 THEN "idle" ELSE "next"]
  /\ UNCHANGED <<registryVars, requestVars, call, slot, held, issued, faults>>

(* Mutant: an item whose call was not answered is tried again after the    *)
(* others.                                                                 *)
TimeoutRequeued(s) ==
  /\ stage[s] = "wait"
  /\ Fault
  /\ slot' = IF slot[call[s]].reply = "none" THEN slot ELSE [slot EXCEPT ![call[s]] = NULL]
  /\ outbox' = [outbox EXCEPT ![s] = Append(Tail(@), Head(@))]
  /\ StopFlush(s)
  /\ UNCHANGED <<registryVars, requestVars, held, issued>>

(* The caller gives up.  A call T has not served stays in its slot; the    *)
(* answer to one it has served is lost.                                    *)
Timeout(s) ==
  /\ stage[s] = "wait"
  /\ Fault
  /\ slot' = IF slot[call[s]].reply = "none" THEN slot ELSE [slot EXCEPT ![call[s]] = NULL]
  /\ StopFlush(s)
  /\ UNCHANGED <<registryVars, requestVars, outbox, held, issued>>

-----------------------------------------------------------------------------
(* T serves the calls it has accepted, in any order.                       *)

Awaited(k) == \E s \in Sender : stage[s] = "wait" /\ call[s] = k

Reply(k, outcome, i) ==
  slot' = [slot EXCEPT ![k] = IF Awaited(k) THEN [@ EXCEPT !.reply = outcome, !.index = i] ELSE NULL]

ServeAccepted(k) ==
  LET it == slot[k].item IN
  \E i \in 0 .. MaxLogEntries :
    /\ IF it.ct = "private" THEN i = 0 /\ StoreAccepted(it.sub, it.basis)
                            ELSE SubmitAccepted(slot[k].src, it, i)
    /\ Reply(k, "ok", i)
    /\ UNCHANGED faults

ServeRefused(k) ==
  LET it == slot[k].item IN
  /\ IF it.ct = "private" THEN StoreRefused(it.sub, it.basis) ELSE SubmitRefused(slot[k].src, it)
  /\ Reply(k, "error", 0)
  /\ UNCHANGED faults

(* How many rows a rebuild reads back after a failed insert. *)
Rebuilt == IF PartialRebuild THEN 1 .. Len(journal) ELSE {Len(journal)}

(* Mutant: the reply to a failed insert is a receipt all the same. *)
ServeFailsSilently(k) ==
  LET it == slot[k].item IN
  /\ it.ct # "private"
  /\ \E kept \in Rebuilt : SubmitFails(slot[k].src, it, kept)
  /\ Fault
  /\ Reply(k, "ok", Len(log) + 1)

(* The insert fails: because the memory copy is short, or as a fault. *)
ServeFails(k) ==
  LET it == slot[k].item IN
  /\ it.ct # "private"
  /\ \/ Len(log) # Len(journal) /\ SubmitFails(slot[k].src, it, Len(journal)) /\ UNCHANGED faults
     \/ \E kept \in Rebuilt : SubmitFails(slot[k].src, it, kept) /\ Fault
  /\ Reply(k, "error", 0)

Serve(k) ==
  /\ ~ Free(k)
  /\ slot[k].reply = "none"
  /\ ServeAccepted(k) \/ ServeRefused(k) \/ ServeFails(k)
  /\ UNCHANGED <<requestVars, outbox, stage, todo, call, held, issued>>

(* U asks for a verdict, while it waits or when the user refreshes a       *)
(* closed request; the answer may come too late to be kept.                *)
AskVerdict(u) ==
  /\ phase[u] \in {"waiting", "closed"}
  /\ \E i \in 1 .. MaxLogEntries :
       /\ Verdict(u, i)
       /\ \/ held' = [held EXCEPT !["U"] = @ \cup {[stmt |-> VerdictOn(u), index |-> i]}]
          \/ UNCHANGED held
  /\ UNCHANGED <<requestVars, outbox, flushVars, issued, faults>>

AskVerdictFails(u) ==
  /\ phase[u] \in {"waiting", "closed"}
  /\ \/ Len(log) # Len(journal) /\ VerdictFails(u, Len(journal)) /\ UNCHANGED faults
     \/ \E kept \in Rebuilt : VerdictFails(u, kept) /\ Fault
  /\ UNCHANGED <<requestVars, outbox, flushVars, held, issued>>

-----------------------------------------------------------------------------
(* Crashes.  A party that starts again finds its tables; U closes the      *)
(* requests that were pending.                                             *)

CrashSender(s) ==
  /\ Fault
  /\ phase' = IF s = "U" THEN [u \in Sub |-> IF Active(u) THEN "closed" ELSE phase[u]] ELSE phase
  /\ slot' = IF stage[s] = "wait" /\ slot[call[s]].reply # "none"
             THEN [slot EXCEPT ![call[s]] = NULL] ELSE slot
  /\ StopFlush(s)
  /\ UNCHANGED <<registryVars, sent, versions, outbox, held, issued>>

CrashT ==
  /\ Fault
  /\ Restart
  /\ slot' = [k \in Slot |-> NULL]
  /\ stage' = [s \in Sender |-> IF stage[s] = "wait" THEN "idle" ELSE stage[s]]
  /\ todo' = [s \in Sender |-> IF stage[s] = "wait" THEN 0 ELSE todo[s]]
  /\ call' = [s \in Sender |-> NULL]
  /\ UNCHANGED <<requestVars, outbox, held, issued>>

RetireT ==
  /\ Retire
  /\ UNCHANGED <<requestVars, outbox, flushVars, held, issued, faults>>

-----------------------------------------------------------------------------

Init ==
  /\ RegistryInit
  /\ phase = [u \in Sub |-> "none"]
  /\ sent = {}
  /\ versions = {}
  /\ outbox = [s \in Sender |-> <<>>]
  /\ stage = [s \in Sender |-> "idle"]
  /\ todo = [s \in Sender |-> 0]
  /\ call = [s \in Sender |-> NULL]
  /\ slot = [k \in Slot |-> NULL]
  /\ held = [s \in Sender |-> {}]
  /\ issued = [s \in Sender |-> {}]
  /\ faults = 0

FlushStep(s) == BeginFlush(s) \/ Send(s) \/ Busy(s) \/ Rejected(s) \/ Accepted(s) \/ Ack(s)

Next ==
  \/ \E u \in Sub : Admit(u) \/ RequestStep(u) \/ Abandon(u) \/ AskVerdict(u) \/ AskVerdictFails(u)
  \/ \E r \in Services, u \in Sub, v \in {1, 2} : Testify(r, u, v)
  \/ \E s \in Sender : FlushStep(s) \/ Timeout(s) \/ CrashSender(s)
  \/ \E k \in Slot : Serve(k)
  \/ CrashT
  \/ RetireT

Spec == Init /\ [][Next]_vars

(* The background threads of the parties and of T keep running. *)
Fairness ==
  /\ \A s \in Sender : WF_vars(FlushStep(s))
  /\ \A k \in Slot : WF_vars(Serve(k))

FairSpec == Spec /\ Fairness

-----------------------------------------------------------------------------
(* Properties. *)

TypeOK ==
  /\ RegistryTypeOK
  /\ phase \in [Sub -> Phases]
  /\ sent \subseteq Sub
  /\ versions \subseteq [sub : Sub, private : Private]
  /\ outbox \in [Sender -> Seq(Item)]
  /\ stage \in [Sender -> {"idle", "next", "wait", "ack"}]
  /\ todo \in [Sender -> Nat]
  /\ call \in [Sender -> Slot \cup {NULL}]
  /\ slot \in [Slot -> Call \cup {NULL}]
  /\ held \in [Sender -> SUBSET Receipt]
  /\ issued \in [Sender -> SUBSET Item]
  /\ faults \in Nat

(* A receipt a party holds names an entry of T's durable log, whatever     *)
(* crashed, failed or was answered late in between: this is what makes a   *)
(* missing entry evidence against T (agent.py:76, service.py:110).         *)
HeldReceiptsBacked ==
  \A s \in Sender : \A rc \in held[s] :
    rc.index \in DOMAIN journal /\ journal[rc.index] = rc.stmt

(* An item leaves the outbox of its party for T: a statement leaves a      *)
(* receipt in the party's own store; of private evidence T has a version   *)
(* that binds the same request, which no later call takes from it          *)
(* (service.py:163-166).  Which version T answers from may still change,   *)
(* see ResponseStays; so U itself keeps every version it ever queued       *)
(* (agent.py:127).                                                         *)
Settled(s, it) ==
  IF it.ct = "private" THEN private[it.sub] # NULL /\ private[it.sub].request = it.basis.request
  ELSE \E rc \in held[s] : rc.stmt = it

NothingLost ==
  \A s \in Sender : \A it \in issued[s] :
    /\ it \in Queued(s) \/ Settled(s, it)
    /\ it.ct = "private" => [sub |-> it.sub, private |-> it.basis] \in versions

(* Once T has the private evidence with the response, it keeps it against  *)
(* every call somebody waits for: only a first copy whose call U had given *)
(* up on may put the first version back (service.py:163-166).  That much   *)
(* "existing evidence is never discarded" (docs/threat-model.md:47).       *)
ResponseStays ==
  [][ \A u \in Sub :
        private[u] = PrivateOf(TRUE) /\ private'[u] # private[u] =>
          \E k \in Slot :
            /\ slot[k] # NULL /\ slot[k].item = PrivateItem(u, PrivateOf(FALSE)) /\ ~ Awaited(k)
            /\ slot'[k] = NULL
    ]_vars

(* The admission check of a new request leaves room for everything it will *)
(* queue, under both backlog policies: an admitted request never meets a   *)
(* full queue (agent.py:216, 98).                                          *)
NextItem(u) ==
  CASE phase[u] = "recorded" -> Contract(u)
    [] phase[u] = "versioned" -> PrivateItem(u, PrivateOf(FALSE))
    [] phase[u] = "revised" -> Observation(u)
    [] phase[u] = "observed" -> PrivateItem(u, PrivateOf(TRUE))

AdmittedNeverFull ==
  \A u \in Sub : phase[u] \in {"recorded", "versioned", "revised", "observed"} => ~ QueueFull("U", NextItem(u))

(* No party can have evidence about a request whose contract U could still *)
(* lose: R and M hear of it after the contract is durably queued           *)
(* (agent.py:239-248).                                                     *)
ContractBeforeUse ==
  \A r \in Services : \A it \in issued[r] :
    Contract(it.sub) \in Queued("U") \/ Settled("U", Contract(it.sub))

(* T's log keeps the order of U: nothing U says about a request is there   *)
(* before its contract, however late an abandoned call is served.          *)
ContractFirst ==
  \A i \in DOMAIN journal : journal[i].iss = "U" /\ journal[i].ct # "contract" =>
    \E j \in 1 .. i - 1 : journal[j] = Contract(journal[i].sub)

(* Every verdict can be recomputed later: it was computed from exactly the *)
(* entries before it, and U still has the private evidence it names, also  *)
(* when a late call has put an older version back in place at T            *)
(* (service.py:166, 181, agent.py:127, audit/replay.py:234-238).           *)
VerdictsReplayable ==
  \A i \in DOMAIN journal : journal[i].ct = "verdict" =>
    /\ journal[i].cut = i - 1
    /\ [sub |-> journal[i].sub, private |-> journal[i].basis] \in versions

(* All evidence gets to T once faults stop, unless T is retired or full, or *)
(* the service itself signed two statements about one request: a party has *)
(* only finitely many items, so an outbox that is empty again and again    *)
(* has lost none of them to a blocked head (service.py:114-133).           *)
SelfBlocked(s) ==
  /\ s \in Faulty /\ outbox[s] # <<>>
  /\ \E i \in DOMAIN journal : journal[i] \in issued[s] \ {outbox[s][1]} /\ journal[i].sub = outbox[s][1].sub

OutboxesDrain ==
  \A s \in Sender : []<>(outbox[s] = <<>> \/ retired \/ Len(journal) >= MaxLogEntries \/ SelfBlocked(s))

(* A retired T still takes the evidence of a request whose contract it has *)
(* ("the previous T serves the settling of evidence and audits, but does   *)
(* not register new contracts", docs/operator-deployment.md:130).          *)
RetiredTSettles ==
  \A u \in Sub : Known(Contract(u)) ~>
    ((\A it \in Queued("U") : it.sub # u) \/ Len(journal) >= MaxLogEntries)

=============================================================================
