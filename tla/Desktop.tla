------------------------------- MODULE Desktop -------------------------------
(***************************************************************************)
(* U's desktop process: its front end, either the line reader with worker  *)
(* threads (desktop/ipc.py) or the HTTP gateway with a thread for each     *)
(* connection (runtime/proxy.py); the controller that shares one Agent     *)
(* among the threads (desktop/controller.py); and the records that refresh *)
(* and retention rewrite (Agent.refresh, runtime/retention.py).            *)
(*                                                                         *)
(* `audit' stands for every operation that only uses the Agent, `status'   *)
(* for status and history.  What runs under self.lock is one step; what    *)
(* runs outside of it is split where it reads and where it writes.  Agents *)
(* are numbered.  All records are old enough to be pruned.                 *)
(***************************************************************************)
EXTENDS Naturals, FiniteSets, Sequences

CONSTANTS
  MaxCalls, \* messages, numbered as they come; a request's record has its number
  Earlier,  \* records of an earlier session
  Workers,  \* max_workers
  Slots,    \* queued and running calls
  NULL

Calls == 1 .. MaxCalls
Operations == {"status", "cancel", "connect", "request", "refresh", "audit", "preview", "apply"}
Records == Calls \cup Earlier
Kept == [done : BOOLEAN, content : BOOLEAN, refreshed : BOOLEAN]

ASSUME DesktopAssumption ==
  /\ MaxCalls \in Nat /\ Workers \in Nat \ {0} /\ Slots \in Nat \ {0}
  /\ NULL \notin Calls \cup Kept

VARIABLES
  front,    \* "lines" or "http"
  phase,    \* of the process: "reading", "stopping", "closed"
  call,     \* of each message: its operation and how far it is
  queue,    \* messages no worker has taken
  owner,    \* the call that holds operation_lock
  turn,     \* the call that holds the gateway's turn
  agent,    \* self.agent; 0 while there is none
  agents,   \* Agents that are open
  active,   \* running requests that may be cancelled
  cancelled,
  record,   \* of each request: NULL, or whether it ended and what it keeps
  pending,  \* requests with evidence in the outbox
  plan,     \* the retention preview: the records as they were, or NULL
  expired   \* requests whose private evidence was deleted
agentVars == <<agent, agents, active, cancelled>>
store == <<record, pending, plan, expired>>
locks == <<owner, turn>>
vars == <<front, phase, call, queue, locks, agentVars, store>>

Sent(op, target, where) == [op |-> op, at |-> where, uses |-> 0, target |-> target, copy |-> NULL]
Over(where) == Sent(NULL, NULL, where)
Placed(cl, where) == [cl EXCEPT !.at = where]
Working(cl, a) == [cl EXCEPT !.at = "using", !.uses = a]
Reading(cl, x) == [cl EXCEPT !.at = "read", !.copy = x]
Held(done) == [done |-> done, content |-> TRUE, refreshed |-> FALSE]

Init ==
  /\ front \in {"lines", "http"}
  /\ phase = "reading" /\ queue = <<>> /\ owner = NULL /\ turn = NULL
  /\ call = [c \in Calls |-> Over("unsent")]
  /\ agent = 0 /\ agents = {} /\ active = {} /\ cancelled = {}
  /\ record = [k \in Records |-> IF k \in Earlier THEN Held(TRUE) ELSE NULL]
  /\ pending \in SUBSET Earlier
  /\ plan = NULL /\ expired = {}

At(c, where) == call[c].at = where
Moved(c, where) == call' = [call EXCEPT ![c] = Placed(@, where)]
Ended == {"answered", "lost"}
Taken == {c \in Calls : call[c].at \notin {"unsent"} \cup Ended}
Running == {c \in Taken : ~ At(c, "queued")}

-----------------------------------------------------------------------------
Comes(c) == phase = "reading" /\ At(c, "unsent") /\ (c > 1 => ~ At(c - 1, "unsent"))

(* _stdio: a line is queued, or refused while all slots are taken. *)
Receive(c, op, target) ==
  /\ front = "lines" /\ Comes(c)
  /\ target \in CASE op = "cancel" -> Calls [] op = "refresh" -> Records [] OTHER -> {NULL}
  /\ LET full == Cardinality(Taken) >= Slots IN
       /\ call' = [call EXCEPT ![c] = Sent(op, target, IF full THEN "answered" ELSE "queued")]
       /\ queue' = IF full THEN queue ELSE Append(queue, c)
  /\ UNCHANGED <<front, phase, locks, agentVars, store>>

(* Mutant: what no worker has taken is dropped. *)
StopReadingDropping ==
  /\ phase = "reading" /\ phase' = "stopping"
  /\ cancelled' = cancelled \cup active
  /\ queue' = <<>>
  /\ UNCHANGED <<front, call, locks, agent, agents, active, store>>

(* End of input, a shutdown line, or a frame that is too long. *)
StopReading ==
  /\ phase = "reading" /\ phase' = "stopping"
  /\ cancelled' = cancelled \cup active
  /\ UNCHANGED <<front, call, queue, locks, agent, agents, active, store>>

(* executor.shutdown(wait=True), then Desktop.close. *)
Close ==
  /\ front = "lines" /\ phase = "stopping" /\ Taken = {}
  /\ phase' = "closed"
  /\ agents' = agents \ {agent}
  /\ UNCHANGED <<front, call, queue, locks, agent, active, cancelled, store>>

Start ==
  /\ queue # <<>> /\ Cardinality(Running) < Workers
  /\ Moved(Head(queue), "started")
  /\ queue' = Tail(queue)
  /\ UNCHANGED <<front, phase, locks, agentVars, store>>

-----------------------------------------------------------------------------
(* The gateway: a completion waits for its turn, a status does not. *)
Post(c) ==
  /\ front = "http" /\ Comes(c)
  /\ call' = [call EXCEPT ![c] = Sent("request", NULL, "waiting")]
  /\ UNCHANGED <<front, phase, queue, locks, agentVars, store>>

Get(c) ==
  /\ front = "http" /\ Comes(c)
  /\ call' = [call EXCEPT ![c] = Sent("status", NULL, "started")]
  /\ UNCHANGED <<front, phase, queue, locks, agentVars, store>>

TurnFree == turn = NULL

TakeTurn(c) ==
  /\ At(c, "waiting") /\ TurnFree
  /\ turn' = c /\ Moved(c, "started")
  /\ UNCHANGED <<front, phase, queue, owner, agentVars, store>>

(* Thirty seconds have passed: 503. *)
Busy(c) ==
  /\ At(c, "waiting") /\ ~ TurnFree
  /\ Moved(c, "answered")
  /\ UNCHANGED <<front, phase, queue, locks, agentVars, store>>

(* Gateway.close, while the threads of connections go on: they end with    *)
(* the process.                                                            *)
CloseGateway ==
  /\ front = "http" /\ phase = "stopping"
  /\ phase' = "closed"
  /\ agents' = agents \ {agent}
  /\ call' = [c \in Calls |-> IF c \in Taken THEN Over("lost") ELSE call[c]]
  /\ owner' = NULL /\ turn' = NULL
  /\ UNCHANGED <<front, queue, agent, active, cancelled, store>>

-----------------------------------------------------------------------------
(* Desktop.execute and _execute. *)

(* Mutant: whatever only looks, or is about one record, need not wait. *)
BypassesAlso(op) == op \in {"status", "cancel", "refresh"}

Bypasses(op) == op \in {"status", "cancel"}

(* Mutant: only requests keep others out. *)
MayEnterBeside(c) == active = {} \/ Bypasses(call[c].op)

MayEnter(c) == owner = NULL \/ Bypasses(call[c].op)

Refuse(c) ==
  /\ At(c, "started") /\ ~ MayEnter(c)
  /\ Moved(c, "answered")
  /\ UNCHANGED <<front, phase, queue, locks, agentVars, store>>

Enter(c) ==
  /\ At(c, "started") /\ MayEnter(c)
  /\ Moved(c, "entered")
  /\ owner' = IF Bypasses(call[c].op) THEN owner ELSE c
  /\ UNCHANGED <<front, phase, queue, turn, agentVars, store>>

(* The end of a call: its locks and its slot are given back. *)
Answer(c) ==
  /\ call' = [call EXCEPT ![c] = Over("answered")]
  /\ owner' = IF owner = c THEN NULL ELSE owner
  /\ turn' = IF turn = c THEN NULL ELSE turn

(* ensure: the Agent of the saved connection, or of the lab. *)
Ensured == IF agent = 0 THEN 1 ELSE agent
Ensure == agent' = Ensured /\ agents' = agents \cup {Ensured}

(* An operation that fails before it did anything: no Agent can be made,   *)
(* the token is taken, the record is unknown or its request still runs.    *)
Fail(c) ==
  /\ At(c, "entered")
  /\ Answer(c)
  /\ UNCHANGED <<front, phase, queue, agentVars, store>>

Status(c) ==
  /\ At(c, "entered") /\ call[c].op = "status"
  /\ Ensure /\ Answer(c)
  /\ UNCHANGED <<front, phase, queue, active, cancelled, store>>

Cancel(c) ==
  /\ At(c, "entered") /\ call[c].op = "cancel"
  /\ cancelled' = cancelled \cup (active \cap {call[c].target})
  /\ Ensure /\ Answer(c)
  /\ UNCHANGED <<front, phase, queue, active, store>>

(* connect and lab: the old Agent is closed, unless it is the same one. *)
Connect(c) ==
  /\ At(c, "entered") /\ call[c].op = "connect" /\ active = {}
  /\ \/ Ensure
     \/ agent' = agent + 1 /\ agents' = (agents \ {agent}) \cup {agent + 1}
  /\ Answer(c)
  /\ UNCHANGED <<front, phase, queue, active, cancelled, store>>

(* The part under self.lock of what then runs outside of it. *)
Use(c) ==
  /\ At(c, "entered") /\ call[c].op \in {"request", "refresh", "audit", "preview", "apply"}
  /\ Ensure
  /\ active' = IF call[c].op = "request" THEN active \cup {c} ELSE active
  /\ call' = [call EXCEPT ![c] = Working(@, Ensured)]
  /\ UNCHANGED <<front, phase, queue, locks, cancelled, store>>

Using(c, op) == At(c, "using") /\ call[c].op = op

-----------------------------------------------------------------------------
(* What becomes of a record. *)
Closed(rec) == [rec EXCEPT !.done = TRUE]
Refreshed(rec) == [rec EXCEPT !.refreshed = TRUE]
Pruned(rec) == [rec EXCEPT !.content = FALSE]

(* Agent.request: the record is there before the evidence, and U's last    *)
(* evidence before the record says that it ended.                          *)
BeginRequest(c) ==
  /\ Using(c, "request") /\ record[c] = NULL
  /\ record' = [record EXCEPT ![c] = Held(FALSE)]
  /\ pending' = pending \cup {c}
  /\ UNCHANGED <<front, phase, call, queue, locks, agentVars, plan, expired>>

EndRequest(c) ==
  /\ Using(c, "request")
  /\ \/ record[c] # NULL /\ record' = [record EXCEPT ![c] = Closed(@)]
     \/ record[c] = NULL /\ UNCHANGED record
  /\ active' = active \ {c}
  /\ Answer(c)
  /\ UNCHANGED <<front, phase, queue, agent, agents, cancelled, pending, plan, expired>>

(* The Agent's flush loop, and the flush of a call. *)
Deliver(k) ==
  /\ k \in pending /\ agents # {}
  /\ pending' = pending \ {k}
  /\ UNCHANGED <<front, phase, call, queue, locks, agentVars, record, plan, expired>>

(* Agent.refresh: the record is read, T is asked, the record is written. *)
ReadRecord(c) ==
  /\ Using(c, "refresh")
  /\ record[call[c].target] # NULL /\ record[call[c].target].done
  /\ call' = [call EXCEPT ![c] = Reading(@, record[call[c].target])]
  /\ UNCHANGED <<front, phase, queue, locks, agentVars, store>>

WriteRecord(c) ==
  /\ At(c, "read") /\ call[c].op = "refresh"
  /\ record' = [record EXCEPT ![call[c].target] = Refreshed(call[c].copy)]
  /\ Answer(c)
  /\ UNCHANGED <<front, phase, queue, agentVars, pending, plan, expired>>

(* retention.preview *)
Prunable == {k \in Records : record[k] # NULL /\ record[k].content /\ record[k].done /\ k \notin pending}

Preview(c) ==
  /\ Using(c, "preview")
  /\ plan' = [k \in Prunable |-> record[k]]
  /\ Answer(c)
  /\ UNCHANGED <<front, phase, queue, agentVars, record, pending, expired>>

(* retention.apply: the plan is checked, then carried out. *)
CheckPlan(c) ==
  /\ Using(c, "apply") /\ plan # NULL
  /\ \A k \in DOMAIN plan : record[k] = plan[k] /\ k \notin pending
  /\ call' = [call EXCEPT ![c] = Reading(@, plan)]
  /\ UNCHANGED <<front, phase, queue, locks, agentVars, store>>

Apply(c) ==
  /\ At(c, "read") /\ call[c].op = "apply"
  /\ LET gone == DOMAIN call[c].copy IN
       /\ record' = [k \in Records |->
                      IF k \in gone THEN Pruned(call[c].copy[k]) ELSE record[k]]
       /\ expired' = expired \cup gone
  /\ plan' = NULL
  /\ Answer(c)
  /\ UNCHANGED <<front, phase, queue, agentVars, pending>>

(* An operation that fails, or that is over, and wrote nothing. *)
Done(c) ==
  /\ (At(c, "using") /\ call[c].op # "request") \/ At(c, "read")
  /\ Answer(c)
  /\ UNCHANGED <<front, phase, queue, agentVars, store>>

Work(c) ==
  \/ TakeTurn(c) \/ Busy(c)
  \/ Refuse(c) \/ Enter(c) \/ Fail(c) \/ Status(c) \/ Cancel(c) \/ Connect(c) \/ Use(c)
  \/ BeginRequest(c) \/ EndRequest(c) \/ ReadRecord(c) \/ WriteRecord(c)
  \/ Preview(c) \/ CheckPlan(c) \/ Apply(c) \/ Done(c)

Next ==
  \/ \E c \in Calls, op \in Operations, target \in Records \cup {NULL} : Receive(c, op, target)
  \/ \E c \in Calls : Post(c) \/ Get(c)
  \/ StopReading \/ Close \/ CloseGateway \/ Start
  \/ \E c \in Calls : Work(c)
  \/ \E k \in Records : Deliver(k)

(* Threads that can run do; calls to other parties end by their timeouts. *)
Fairness == WF_vars(Start) /\ WF_vars(Close \/ CloseGateway) /\ \A c \in Calls : WF_vars(Work(c))

Spec == Init /\ [][Next]_vars /\ Fairness

-----------------------------------------------------------------------------
(* An operation that runs outside self.lock runs alone and has the Agent   *)
(* it began with, open, until it ends; no replaced Agent stays open, though *)
(* status, history and cancel pass operation_lock by; and a completion     *)
(* that has its turn finds the lock free                                   *)
(* (controller.py:44-84, 117-147, ipc.py:52-55, proxy.py:195-206).         *)
ExclusiveUse ==
  /\ \A c, d \in Calls : call[c].uses # 0 /\ call[d].uses # 0 => c = d
  /\ \A c \in Calls : call[c].uses # 0 => call[c].uses \in agents
  /\ agents \subseteq {agent}
  /\ \A c \in Calls : turn = c /\ At(c, "started") => MayEnter(c)

(* Deleted evidence belongs to a request that ended and whose evidence was *)
(* delivered, and its record stays pruned whatever was read before it      *)
(* (retention.py:14-19, 33-43, agent.py:354-363).                          *)
PrunedForGood ==
  \A k \in expired : record[k].done /\ ~ record[k].content /\ k \notin pending

(* A call is answered, at once when all slots are taken and otherwise in   *)
(* the end, also when the input ends while it is queued; a completion is   *)
(* answered unless the gateway closes; and the process then ends           *)
(* (ipc.py:25-32, 46-48, 52-55, proxy.py:195-210).                         *)
CallsEnd ==
  /\ \A c \in Calls :
       call[c].at \in {"queued", "waiting"}
         ~> At(c, "answered") \/ (front = "http" /\ At(c, "lost"))
  /\ (phase = "stopping") ~> (phase = "closed")

=============================================================================
