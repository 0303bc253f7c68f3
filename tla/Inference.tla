----------------------------- MODULE Inference ------------------------------
(***************************************************************************)
(* One request from U through R to M and back: the request thread of U     *)
(* (Agent._request), infer at R and at M (Service.infer), and the decision *)
(* of U on the answer.                                                     *)
(*                                                                         *)
(* A service handles one infer call at a time (service.lock) and writes    *)
(* what it does in separate transactions: the nonce, the execution record, *)
(* the statement it queues, the result.  It may stop between any two.  R   *)
(* holds its lock while it waits for M.  A caller that gives up leaves its *)
(* call behind, and the service still handles it.                          *)
(*                                                                         *)
(* Getting statements to T is EvidenceDelivery; T's verdict is whatever T  *)
(* says.                                                                   *)
(***************************************************************************)
EXTENDS Naturals, FiniteSets

CONSTANTS
  Sub,            \* request identifiers, each for one signed contract
  Nonce,
  NonceOf,        \* the nonce of each contract
  Modes,          \* enforcement modes in use
  Scenarios,      \* what the lab may tell R to do
  PreExecs,       \* settings of pre_exec in use
  RequireRelay,   \* require_relay_statement of U
  Slots,          \* calls a server takes at a time (8)
  MaxExecutions,  \* max_requests of R and M
  BacklogLimit,   \* outbox size at which R and M stop (250)
  MaxCalls,       \* how many calls other than U's own may reach R and M
  MaxFaults,      \* how many crashes, retirements and expiries may happen
  UNKNOWN,        \* the outcome of a request that was taken up and has no result
  ERROR,          \* a reply that is not a result
  NULL

Service == {"R", "M"}

ASSUME InferenceAssumption ==
  /\ NonceOf \in [Sub -> Nonce]
  /\ Modes \subseteq {"observe", "protect", "strict"}
  /\ Scenarios \subseteq {"normal", "response_tamper", "request_tamper", "missing_receipt", "missing_relay"}
  /\ "normal" \in Scenarios
  /\ PreExecs \subseteq BOOLEAN /\ RequireRelay \in BOOLEAN
  /\ Slots \in Nat /\ MaxExecutions \in Nat /\ BacklogLimit \in Nat
  /\ MaxCalls \in Nat /\ MaxFaults \in Nat

VARIABLES
  phase,      \* U's request thread, per request
  mode,       \* the mode and
  scenario,   \* the lab scenario a request was started with
  cancel,     \* the cancellation event of a request
  wire,       \* the answer of R that U has received
  verdict,    \* verdict_status while U waits for T
  outcome,    \* state and response in the memory of the request thread
  stored,     \* the durable record of a request: state, response, last verdict
  consumer,   \* what the application that made the request got
  waiting,    \* calls a service has accepted and not begun
  job,        \* the infer call a service is in
  answer,     \* the reply on its way to U and to R
  execution,  \* execution:<sub> records
  nonces,     \* nonce:<nonce> records
  issued,     \* history: statements a service has queued
  backlog,    \* how many statements are in the outbox of a service
  effect,     \* history: how often R has called M, and M its model
  replies,    \* history: results returned, per service and request
  preExec,    \* pre_exec of M: check the request against the contract first
  retired,    \* whose directory has a retirement.json
  expired,    \* contracts past expires_at
  calls,      \* history: how many calls others have made
  faults      \* history: how many of those have happened

userVars == <<phase, mode, scenario, cancel, wire, verdict, outcome, stored, consumer>>
serviceVars == <<waiting, job, execution, nonces, issued, backlog, effect, replies>>
worldVars == <<preExec, retired, expired, calls, faults>>
vars == <<userVars, serviceVars, answer, worldVars>>

-----------------------------------------------------------------------------
(* Values. *)

Bodies == {"asked", "changed"}
Tampered == [of |-> "tampered", run |-> 0]
Text == [of : Bodies, run : Nat] \cup {Tampered}

Receipt == [iss : {"M"}, sub : Sub, nonce : Nonce, req : Bodies, resp : Text]
Relay == [iss : {"R"}, sub : Sub, nonce : Nonce, reqIn : Bodies, reqOut : Bodies, respIn : Text, respOut : Text]

ResultOf(r) ==
  IF r = "M" THEN [resp : Text, receipt : Receipt]
             ELSE [resp : Text, receipt : Receipt \cup {NULL}, relay : Relay \cup {NULL}]

Statement(r) == IF r = "M" THEN Receipt ELSE Relay

Execution(r) == [body : Bodies, result : {NULL} \cup ResultOf(r)]

(* A call of r and who still waits for it. *)
Caller(r) == IF r = "M" THEN "R" ELSE "U"
Call(r) == [sub : Sub, body : Bodies, scenario : Scenarios, caller : {Caller(r), "none"}]

Job(r) ==
  [call : Call(r), stage : {"claimed", "started", "asking", "worked", "queued"}, result : {NULL} \cup ResultOf(r)]

ASSUME ValuesAssumption ==
  /\ NULL \notin Sub \cup {UNKNOWN, ERROR} \cup Receipt
  /\ \A r \in Service : \A x \in {NULL, UNKNOWN, ERROR} : x \notin ResultOf(r) \cup Execution(r) \cup Job(r)

Gate == INSTANCE UserGate WITH Trusted <- {"M"}, HashOf <- [x \in {"model"} |-> "hash"], AllowTools <- FALSE

-----------------------------------------------------------------------------
(* Calls and replies. *)

Load(r) == Cardinality(waiting[r]) + (IF job[r] = NULL THEN 0 ELSE 1)

(* The server takes a call, or closes the connection when it is full. *)
Place(r, c) == Load(r) < Slots /\ waiting' = [waiting EXCEPT ![r] = @ \cup {c}]

Respond(c, v) == answer' = IF c.caller = "none" THEN answer ELSE [answer EXCEPT ![c.caller] = v]

(* Nobody waits any more for the call that `who' has made to r. *)
Leave(c, who) == IF c.caller = who THEN [c EXCEPT !.caller = "none"] ELSE c
LeaveJob(j, who) == IF j = NULL THEN NULL ELSE [j EXCEPT !.call = Leave(j.call, who)]

Forsake(r, who) ==
  /\ waiting' = [waiting EXCEPT ![r] = {Leave(c, who) : c \in @}]
  /\ job' = [job EXCEPT ![r] = LeaveJob(@, who)]

Fault ==
  /\ faults < MaxFaults
  /\ faults' = faults + 1

-----------------------------------------------------------------------------
(* Service.infer up to the work itself. *)

(* Checks that come before the execution record is looked at. *)
Serves(r, c) == r \notin retired /\ c.sub \notin expired

Reject(r, c) ==
  /\ waiting' = [waiting EXCEPT ![r] = @ \ {c}]
  /\ Respond(c, ERROR)
  /\ UNCHANGED <<userVars, job, execution, nonces, issued, backlog, effect, replies, worldVars>>

(* A request that was taken up before: its result if it has one and the    *)
(* call is the same, else an error.                                        *)
Repeat(r) ==
  \E c \in waiting[r] :
    LET e == execution[r][c.sub] IN
    /\ job[r] = NULL
    /\ Serves(r, c)
    /\ e # NULL
    /\ e.body = c.body
    /\ e.result # NULL
    /\ waiting' = [waiting EXCEPT ![r] = @ \ {c}]
    /\ Respond(c, e.result)
    /\ replies' = [replies EXCEPT ![r][c.sub] = @ \cup {e.result}]
    /\ UNCHANGED <<userVars, job, execution, nonces, issued, backlog, effect, worldVars>>

Executions(r) == {u \in Sub : execution[r][u] # NULL}

(* Mutant: no claim on the nonce. *)
ClaimableAnyNonce(r, c) == execution[r][c.sub] = NULL /\ Cardinality(Executions(r)) < MaxExecutions

(* Mutant: a request whose outcome is unknown is taken up again. *)
ClaimableUnfinished(r, c) ==
  /\ execution[r][c.sub] # NULL => execution[r][c.sub].body = c.body /\ execution[r][c.sub].result = NULL
  /\ nonces[r][NonceOf[c.sub]] \in {NULL, c.sub}

Claimable(r, c) ==
  /\ execution[r][c.sub] = NULL
  /\ Cardinality(Executions(r)) < MaxExecutions
  /\ nonces[r][NonceOf[c.sub]] = NULL

Refuse(r) ==
  \E c \in waiting[r] :
    LET e == execution[r][c.sub] IN
    /\ job[r] = NULL
    /\ \/ ~ Serves(r, c)
       \/ e # NULL /\ (e.body # c.body \/ e.result = NULL)
       \/ e = NULL /\ ~ Claimable(r, c)
    /\ Reject(r, c)

(* A new request: its nonce is claimed. *)
Begin(r) ==
  \E c \in waiting[r] :
    /\ job[r] = NULL
    /\ Serves(r, c)
    /\ Claimable(r, c)
    /\ nonces' = [nonces EXCEPT ![r][NonceOf[c.sub]] = c.sub]
    /\ waiting' = [waiting EXCEPT ![r] = @ \ {c}]
    /\ job' = [job EXCEPT ![r] = [call |-> c, stage |-> "claimed", result |-> NULL]]
    /\ UNCHANGED <<userVars, answer, execution, issued, backlog, effect, replies, worldVars>>

At(r, stage) == job[r] # NULL /\ job[r].stage = stage

SetStage(r, stage) == job' = [job EXCEPT ![r].stage = stage]

Finish(r, x) == job' = [job EXCEPT ![r] = [call |-> @.call, stage |-> "worked", result |-> x]]

Fail(r) ==
  /\ job' = [job EXCEPT ![r] = NULL]
  /\ Respond(job[r].call, ERROR)

(* The execution record is written before anything else happens. *)
Start(r) ==
  LET c == job[r].call IN
  /\ At(r, "claimed")
  /\ execution' = [execution EXCEPT ![r][c.sub] = [body |-> c.body, result |-> NULL]]
  /\ SetStage(r, "started")
  /\ UNCHANGED <<userVars, answer, waiting, nonces, issued, backlog, effect, replies, worldVars>>

(* Too much evidence waits already, or M does not accept the request. *)
GiveUp(r) ==
  /\ At(r, "started")
  /\ backlog[r] >= BacklogLimit \/ (r = "M" /\ preExec /\ job[r].call.body # "asked")
  /\ Fail(r)
  /\ UNCHANGED <<userVars, waiting, execution, nonces, issued, backlog, effect, replies, worldVars>>

-----------------------------------------------------------------------------
(* The work of M: the model runs, and M signs what it received and said.   *)

RunModel ==
  LET c == job["M"].call
      text == [of |-> c.body, run |-> effect["M"][c.sub] + 1]
      receipt == [iss |-> "M", sub |-> c.sub, nonce |-> NonceOf[c.sub], req |-> c.body, resp |-> text]
  IN /\ At("M", "started")
     /\ backlog["M"] < BacklogLimit
     /\ preExec => c.body = "asked"
     /\ effect' = [effect EXCEPT !["M"][c.sub] = @ + 1]
     /\ Finish("M", [resp |-> text, receipt |-> receipt])
     /\ UNCHANGED <<userVars, answer, waiting, execution, nonces, issued, backlog, replies, worldVars>>

(* The model backend raises an error, before or after it has run. *)
ModelFails ==
  /\ At("M", "started")
  /\ backlog["M"] < BacklogLimit
  /\ preExec => job["M"].call.body = "asked"
  /\ effect' \in {effect, [effect EXCEPT !["M"][job["M"].call.sub] = @ + 1]}
  /\ Fail("M")
  /\ UNCHANGED <<userVars, waiting, execution, nonces, issued, backlog, replies, worldVars>>

(* The work of R: it calls M and signs what it passed on in both           *)
(* directions.  In the lab it may be told to misbehave.                    *)

Outgoing(c) == IF c.scenario = "request_tamper" THEN "changed" ELSE c.body

AskModel ==
  LET c == job["R"].call IN
  /\ At("R", "started")
  /\ backlog["R"] < BacklogLimit
  /\ Place("M", [c EXCEPT !.body = Outgoing(c), !.caller = "R"])
  /\ effect' = [effect EXCEPT !["R"][c.sub] = @ + 1]
  /\ SetStage("R", "asking")
  /\ UNCHANGED <<userVars, answer, execution, nonces, issued, backlog, replies, worldVars>>

RelayResult(c, m) ==
  LET text == IF c.scenario = "response_tamper" THEN Tampered ELSE m.resp
      relay == [iss |-> "R", sub |-> c.sub, nonce |-> NonceOf[c.sub], reqIn |-> c.body, reqOut |-> Outgoing(c),
                respIn |-> m.resp, respOut |-> text]
  IN [resp |-> text,
      receipt |-> IF c.scenario = "missing_receipt" THEN NULL ELSE m.receipt,
      relay |-> IF c.scenario = "missing_relay" THEN NULL ELSE relay]

HearModel ==
  LET m == answer["R"] IN
  /\ At("R", "asking")
  /\ m \notin {NULL, ERROR}
  /\ answer' = [answer EXCEPT !["R"] = NULL]
  /\ Finish("R", RelayResult(job["R"].call, m))
  /\ UNCHANGED <<userVars, waiting, execution, nonces, issued, backlog, effect, replies, worldVars>>

(* M is full or answers with an error; it has not answered in 20 s. *)
NoModel ==
  /\ \/ At("R", "started") /\ backlog["R"] < BacklogLimit /\ Load("M") >= Slots
     \/ At("R", "asking") /\ answer["R"] = ERROR
  /\ job' = [job EXCEPT !["R"] = NULL]
  /\ LET c == job["R"].call IN
       answer' = [w \in DOMAIN answer |-> IF w = "R" THEN NULL ELSE IF w = c.caller THEN ERROR ELSE answer[w]]
  /\ UNCHANGED <<userVars, waiting, execution, nonces, issued, backlog, effect, replies, worldVars>>

(* Mutant: R waits for as long as M is at work. *)
UnansweredIdle == answer["R"] = NULL /\ job["M"] = NULL

Unanswered == answer["R"] = NULL

ModelTimeout ==
  /\ At("R", "asking")
  /\ Unanswered
  /\ waiting' = [waiting EXCEPT !["M"] = {Leave(c, "R") : c \in @}]
  /\ job' = [s \in Service |-> IF s = "R" THEN NULL ELSE LeaveJob(job[s], "R")]
  /\ Respond(job["R"].call, ERROR)
  /\ UNCHANGED <<userVars, execution, nonces, issued, backlog, effect, replies, worldVars>>

-----------------------------------------------------------------------------
(* Service.infer after the work. *)

(* Mutant: the statement is left to be queued after the result, if at all. *)
QueueLater(r) ==
  /\ At(r, "worked")
  /\ SetStage(r, "queued")
  /\ UNCHANGED <<userVars, answer, waiting, execution, nonces, issued, backlog, effect, replies, worldVars>>

(* The statement goes into the outbox; a relay told to keep its statement  *)
(* has none.                                                               *)
Queue(r) ==
  LET st == IF r = "M" THEN job[r].result.receipt ELSE job[r].result.relay IN
  /\ At(r, "worked")
  /\ IF st = NULL THEN UNCHANGED <<issued, backlog>>
     ELSE /\ issued' = [issued EXCEPT ![r] = @ \cup {st}]
          /\ backlog' = [backlog EXCEPT ![r] = @ + 1]
  /\ SetStage(r, "queued")
  /\ UNCHANGED <<userVars, answer, waiting, execution, nonces, effect, replies, worldVars>>

(* The result becomes durable and goes to the caller. *)
Complete(r) ==
  LET c == job[r].call IN
  /\ At(r, "queued")
  /\ execution' = [execution EXCEPT ![r][c.sub].result = job[r].result]
  /\ replies' = [replies EXCEPT ![r][c.sub] = @ \cup {job[r].result}]
  /\ Respond(c, job[r].result)
  /\ job' = [job EXCEPT ![r] = NULL]
  /\ UNCHANGED <<userVars, waiting, nonces, issued, backlog, effect, worldVars>>

(* The flush loop has delivered a statement to T. *)
Drain(r) ==
  /\ backlog[r] > 0
  /\ backlog' = [backlog EXCEPT ![r] = @ - 1]
  /\ UNCHANGED <<userVars, answer, waiting, job, execution, nonces, issued, effect, replies, worldVars>>

(* A service stops and starts again with its tables. *)
Dropped(r) == waiting[r] \cup (IF job[r] = NULL THEN {} ELSE {job[r].call})

CrashService(r) ==
  /\ Fault
  /\ answer' = [w \in DOMAIN answer |->
       IF w = r THEN NULL ELSE IF \E c \in Dropped(r) : c.caller = w THEN ERROR ELSE answer[w]]
  /\ waiting' = [s \in Service |-> IF s = r THEN {} ELSE {Leave(c, r) : c \in waiting[s]}]
  /\ job' = [s \in Service |-> IF s = r THEN NULL ELSE LeaveJob(job[s], r)]
  /\ UNCHANGED <<userVars, execution, nonces, issued, backlog, effect, replies, preExec, retired, expired, calls>>

-----------------------------------------------------------------------------
(* The request thread of U. *)

Active(u) == phase[u] \notin {"none", "closed"}

Enter(u, p) == phase' = [phase EXCEPT ![u] = p]

(* The contract is signed and the record written as pending. *)
Ask(u) ==
  /\ phase[u] = "none"
  /\ \A v \in Sub : ~ Active(v)
  /\ "U" \notin retired
  /\ Enter(u, "ready")
  /\ \E x \in Modes, y \in Scenarios : mode' = [mode EXCEPT ![u] = x] /\ scenario' = [scenario EXCEPT ![u] = y]
  /\ stored' = [stored EXCEPT ![u].state = "pending"]
  /\ UNCHANGED <<cancel, wire, verdict, outcome, consumer, serviceVars, answer, worldVars>>

Cancel(u) ==
  /\ Active(u)
  /\ ~ cancel[u]
  /\ cancel' = [cancel EXCEPT ![u] = TRUE]
  /\ UNCHANGED <<phase, mode, scenario, wire, verdict, outcome, stored, consumer, serviceVars, answer, worldVars>>

(* The request ends without a response. *)
Stop(u, state) ==
  /\ outcome' = [outcome EXCEPT ![u] = [state |-> state, response |-> NULL]]
  /\ Enter(u, "decided")

Transmit(u) ==
  /\ phase[u] = "ready"
  /\ ~ cancel[u]
  /\ Place("R", [sub |-> u, body |-> "asked", scenario |-> scenario[u], caller |-> "U"])
  /\ Enter(u, "sent")
  /\ UNCHANGED <<mode, scenario, cancel, wire, verdict, outcome, stored, consumer,
                 job, execution, nonces, issued, backlog, effect, replies, answer, worldVars>>

(* Mutant: after an error of R the request is sent again. *)
OnErrorRetry(u) == Enter(u, "ready") /\ UNCHANGED outcome

OnError(u) == Stop(u, "error")

(* Cancelled before transmission, R full, R answers with an error.         *)
NoAnswer(u) ==
  /\ \/ phase[u] = "ready" /\ cancel[u] /\ Stop(u, "cancelled")
     \/ phase[u] = "ready" /\ ~ cancel[u] /\ Load("R") >= Slots /\ OnError(u)
     \/ phase[u] = "sent" /\ answer["U"] = ERROR /\ OnError(u)
  /\ answer' = [answer EXCEPT !["U"] = NULL]
  /\ UNCHANGED <<mode, scenario, cancel, wire, verdict, stored, consumer, serviceVars, worldVars>>

(* No answer in 23 s. *)
AnswerTimeout(u) ==
  /\ phase[u] = "sent"
  /\ answer["U"] = NULL
  /\ Forsake("R", "U")
  /\ Stop(u, "error")
  /\ UNCHANGED <<mode, scenario, cancel, wire, verdict, stored, consumer,
                 execution, nonces, issued, backlog, effect, replies, answer, worldVars>>

(* The checks of U on an answer: those of the gate, and who signed what.   *)
ContractOf(u) ==
  [nonce |-> NonceOf[u], req |-> "asked", attempt |-> u, requested |-> "model", allowed |-> {"model"},
   fallback |-> "none", transforms |-> {"identity"}]

ReceiptSeen(m) ==
  IF m = NULL THEN NULL
  ELSE [kid |-> m.iss, nonce |-> m.nonce, req |-> m.req, resp |-> m.resp, attempt |-> m.sub,
        model |-> "model", hash |-> "hash"]

Checks(u, w) ==
  LET relay == IF w.relay = NULL THEN NULL ELSE [upstream |-> "model", decision |-> "forwarded"]
      local == Gate!LocalChecks(ContractOf(u), [t \in {} |-> "asked"], u \in expired, FALSE, w.resp,
                                ReceiptSeen(w.receipt), relay)
  IN [k \in DOMAIN local \cup {"M_authority", "R_authority"} |->
        CASE k = "M_authority" -> IF w.receipt = NULL THEN "na" ELSE "pass"
          [] k = "R_authority" -> IF w.relay # NULL THEN "pass" ELSE IF RequireRelay THEN "fail" ELSE "na"
          [] OTHER -> local[k]]

Receive(u) ==
  LET w == answer["U"] IN
  /\ phase[u] = "sent"
  /\ w \notin {NULL, ERROR}
  /\ answer' = [answer EXCEPT !["U"] = NULL]
  /\ wire' = [wire EXCEPT ![u] = w]
  /\ Enter(u, IF mode[u] = "strict" /\ Gate!Failed(Checks(u, w)) = {} THEN "judging" ELSE "checked")
  /\ UNCHANGED <<mode, scenario, cancel, verdict, outcome, stored, consumer, serviceVars, worldVars>>

(* T's verdict in time, or (a verdict that passes) too late to count. *)
Judge(u) ==
  /\ phase[u] = "judging"
  /\ verdict' \in {[verdict EXCEPT ![u] = v] : v \in {"passed", "failed", NULL}}
  /\ Enter(u, "checked")
  /\ UNCHANGED <<mode, scenario, cancel, wire, outcome, stored, consumer, serviceVars, answer, worldVars>>

(* Mutant: what was not rejected is released. *)
ReleasedUnlessRejected(action) == action \notin {"reject", "reject_timeout"}

Released(action) == action \in {"accept", "accept_unverified"}

(* The decision, unless the request was cancelled or U's epoch retired in  *)
(* the meantime; a contract that has run out since counts as a failure.    *)
Conclude(u) ==
  /\ phase[u] = "checked"
  /\ IF cancel[u] THEN Stop(u, "cancelled")
     ELSE IF "U" \in retired THEN Stop(u, "error")
     ELSE LET action == Gate!Decide(mode[u], Checks(u, wire[u]), verdict[u], TRUE) IN
          /\ outcome' = [outcome EXCEPT ![u] =
               [state |-> action, response |-> IF Released(action) THEN wire[u].resp ELSE NULL]]
          /\ Enter(u, "decided")
  /\ UNCHANGED <<mode, scenario, cancel, wire, verdict, stored, consumer, serviceVars, answer, worldVars>>

(* Mutant: the response is handed out before the record is written. *)
SaveReturning(u) ==
  /\ phase[u] = "decided"
  /\ consumer' = [consumer EXCEPT ![u] = outcome[u].response]
  /\ Enter(u, "saved")
  /\ UNCHANGED <<mode, scenario, cancel, wire, verdict, outcome, stored, serviceVars, answer, worldVars>>

Save(u) ==
  /\ phase[u] = "decided"
  /\ stored' = [stored EXCEPT ![u].state = outcome[u].state, ![u].response = outcome[u].response,
                              ![u].verdict = verdict[u]]
  /\ Enter(u, "saved")
  /\ UNCHANGED <<mode, scenario, cancel, wire, verdict, outcome, consumer, serviceVars, answer, worldVars>>

(* The record, and with it the response, goes to the application. *)
Return(u) ==
  /\ phase[u] = "saved"
  /\ consumer' = [consumer EXCEPT ![u] = outcome[u].response]
  /\ Enter(u, "closed")
  /\ UNCHANGED <<mode, scenario, cancel, wire, verdict, outcome, stored, serviceVars, answer, worldVars>>

(* Mutant: a later verdict decides again. *)
RefreshedDeciding(u, v) ==
  [stored[u] EXCEPT !.verdict = v, !.state = IF v = "failed" THEN "reject" ELSE @]

Refreshed(u, v) == [stored[u] EXCEPT !.verdict = v]

(* The user asks for T's verdict on a closed request. *)
Refresh(u) ==
  /\ phase[u] = "closed"
  /\ \E v \in {"passed", "failed"} : stored' = [stored EXCEPT ![u] = Refreshed(u, v)]
  /\ UNCHANGED <<phase, mode, scenario, cancel, wire, verdict, outcome, consumer, serviceVars, answer, worldVars>>

(* U stops; when it starts again it closes what was pending. *)
CrashU ==
  /\ Fault
  /\ phase' = [u \in Sub |-> IF Active(u) THEN "closed" ELSE phase[u]]
  /\ stored' = [u \in Sub |->
       IF stored[u].state = "pending" THEN [stored[u] EXCEPT !.state = "interrupted", !.response = NULL] ELSE stored[u]]
  /\ answer' = [answer EXCEPT !["U"] = NULL]
  /\ Forsake("R", "U")
  /\ UNCHANGED <<mode, scenario, cancel, wire, verdict, outcome, consumer,
                 execution, nonces, issued, backlog, effect, replies, preExec, retired, expired, calls>>

-----------------------------------------------------------------------------
(* The rest of the world. *)

(* A signed request is submitted once more, to R or to M, unchanged or     *)
(* with another body.                                                      *)
Resubmit(r, u) ==
  /\ calls < MaxCalls
  /\ phase[u] \notin {"none", "ready"}
  /\ \E b \in Bodies : Place(r, [sub |-> u, body |-> b, scenario |-> "normal", caller |-> "none"])
  /\ calls' = calls + 1
  /\ UNCHANGED <<userVars, job, execution, nonces, issued, backlog, effect, replies, answer,
                 preExec, retired, expired, faults>>

Retire(p) ==
  /\ Fault
  /\ p \notin retired
  /\ retired' = retired \cup {p}
  /\ UNCHANGED <<userVars, serviceVars, answer, preExec, expired, calls>>

Expire(u) ==
  /\ Fault
  /\ phase[u] # "none"
  /\ u \notin expired
  /\ expired' = expired \cup {u}
  /\ UNCHANGED <<userVars, serviceVars, answer, preExec, retired, calls>>

-----------------------------------------------------------------------------

Init ==
  /\ phase = [u \in Sub |-> "none"]
  /\ mode = [u \in Sub |-> NULL]
  /\ scenario = [u \in Sub |-> NULL]
  /\ cancel = [u \in Sub |-> FALSE]
  /\ wire = [u \in Sub |-> NULL]
  /\ verdict = [u \in Sub |-> NULL]
  /\ outcome = [u \in Sub |-> NULL]
  /\ stored = [u \in Sub |-> [state |-> "none", response |-> NULL, verdict |-> NULL]]
  /\ consumer = [u \in Sub |-> NULL]
  /\ waiting = [r \in Service |-> {}]
  /\ job = [r \in Service |-> NULL]
  /\ answer = [w \in {"U", "R"} |-> NULL]
  /\ execution = [r \in Service |-> [u \in Sub |-> NULL]]
  /\ nonces = [r \in Service |-> [n \in Nonce |-> NULL]]
  /\ issued = [r \in Service |-> {}]
  /\ backlog = [r \in Service |-> 0]
  /\ effect = [r \in Service |-> [u \in Sub |-> 0]]
  /\ replies = [r \in Service |-> [u \in Sub |-> {}]]
  /\ preExec \in PreExecs
  /\ retired = {}
  /\ expired = {}
  /\ calls = 0
  /\ faults = 0

UserStep(u) ==
  Transmit(u) \/ NoAnswer(u) \/ AnswerTimeout(u) \/ Receive(u) \/ Judge(u) \/ Conclude(u) \/ Save(u) \/ Return(u)

JobStep(r) == Start(r) \/ GiveUp(r) \/ Queue(r) \/ Complete(r)

ServiceStep(r) == Repeat(r) \/ Refuse(r) \/ Begin(r) \/ JobStep(r)

ModelStep == RunModel \/ ModelFails \/ AskModel \/ HearModel \/ NoModel \/ ModelTimeout

Next ==
  \/ \E u \in Sub : Ask(u) \/ Cancel(u) \/ UserStep(u) \/ Refresh(u) \/ Expire(u)
  \/ \E r \in Service : ServiceStep(r) \/ Drain(r) \/ CrashService(r)
  \/ ModelStep
  \/ CrashU
  \/ \E r \in Service, u \in Sub : Resubmit(r, u)
  \/ \E p \in {"U", "R", "M"} : Retire(p)

Spec == Init /\ [][Next]_vars

(* U's thread and R's run; nothing is assumed of M. *)
Fairness ==
  /\ \A u \in Sub : WF_vars(UserStep(u))
  /\ WF_vars(ServiceStep("R"))
  /\ WF_vars(AskModel \/ HearModel \/ NoModel \/ ModelTimeout)

FairSpec == Spec /\ Fairness

-----------------------------------------------------------------------------
(* Properties. *)

States == {"none", "pending", "interrupted", "cancelled", "error",
           "accept", "accept_unverified", "quarantine", "reject", "reject_timeout"}
Verdicts == {"passed", "failed", NULL}

UserTypes ==
  /\ phase \in [Sub -> {"none", "ready", "sent", "judging", "checked", "decided", "saved", "closed"}]
  /\ mode \in [Sub -> {NULL} \cup Modes]
  /\ scenario \in [Sub -> {NULL} \cup Scenarios]
  /\ cancel \in [Sub -> BOOLEAN]
  /\ wire \in [Sub -> {NULL} \cup ResultOf("R")]
  /\ verdict \in [Sub -> Verdicts]
  /\ outcome \in [Sub -> {NULL} \cup [state : States, response : {NULL} \cup Text]]
  /\ stored \in [Sub -> [state : States, response : {NULL} \cup Text, verdict : Verdicts]]
  /\ consumer \in [Sub -> {NULL} \cup Text]

ServiceTypes(r) ==
  /\ waiting[r] \subseteq Call(r)
  /\ job[r] \in {NULL} \cup Job(r)
  /\ execution[r] \in [Sub -> {NULL} \cup Execution(r)]
  /\ nonces[r] \in [Nonce -> Sub \cup {NULL}]
  /\ issued[r] \subseteq Statement(r)
  /\ backlog[r] \in Nat
  /\ effect[r] \in [Sub -> Nat]
  /\ replies[r] \in [Sub -> SUBSET ResultOf(r)]

TypeOK ==
  /\ UserTypes
  /\ DOMAIN waiting = Service /\ DOMAIN job = Service /\ DOMAIN execution = Service /\ DOMAIN nonces = Service
  /\ DOMAIN issued = Service /\ DOMAIN backlog = Service /\ DOMAIN effect = Service /\ DOMAIN replies = Service
  /\ \A r \in Service : ServiceTypes(r)
  /\ DOMAIN answer = {"U", "R"}
  /\ answer["U"] \in {NULL, ERROR} \cup ResultOf("R")
  /\ answer["R"] \in {NULL, ERROR} \cup ResultOf("M")
  /\ preExec \in BOOLEAN
  /\ retired \subseteq {"U", "R", "M"}
  /\ expired \subseteq Sub
  /\ calls \in Nat /\ faults \in Nat

(* The model runs at most once for a request and for a nonce, and R calls  *)
(* M at most once for a request, across crashes, repeated and abandoned    *)
(* calls ("a crash cannot establish whether a remote execution completed:  *)
(* never retry it", agent.py:42; service.py:255-265).                      *)
NonceOnce ==
  \A r \in Service : \A u, v \in Sub :
    u # v /\ NonceOf[u] = NonceOf[v] => effect[r][u] = 0 \/ effect[r][v] = 0

OutcomeOf(r) ==
  [u \in Sub |-> IF execution[r][u] = NULL THEN NULL
                 ELSE IF execution[r][u].result = NULL THEN UNKNOWN ELSE execution[r][u].result]

AtRelay == INSTANCE AtMostOnce WITH
  Request <- Sub, NONE <- NULL, UNKNOWN <- UNKNOWN,
  outcome <- OutcomeOf("R"), effect <- effect["R"], replies <- replies["R"]

AtModel == INSTANCE AtMostOnce WITH
  Request <- Sub, NONE <- NULL, UNKNOWN <- UNKNOWN,
  outcome <- OutcomeOf("M"), effect <- effect["M"], replies <- replies["M"]

(* Both services take up a request at most once, call M or run the model   *)
(* at most once for it, and never give two different answers to it.        *)
RelayOnce == AtRelay!Spec
ModelOnce == AtModel!Spec

(* A service signs at most one statement about a request, also when it     *)
(* stops after queueing it: a second one would be refused by T for ever.   *)
OneStatement ==
  \A r \in Service : \A a, b \in issued[r] : a.sub = b.sub => a = b

(* What a service returns is in its evidence first: no caller sees a       *)
(* receipt or a relay statement that could be lost, and the receipt that R *)
(* passes on is the one M has queued (service.py:281, 305, 308).           *)
RepliesBacked ==
  \A u \in Sub :
    /\ \A a \in replies["M"][u] : a.receipt \in issued["M"] /\ a.receipt.resp = a.resp
    /\ \A a \in replies["R"][u] :
         /\ a.receipt # NULL => a.receipt \in issued["M"]
         /\ a.relay # NULL => a.relay \in issued["R"] /\ a.relay.respOut = a.resp
         /\ a.relay # NULL => \E b \in replies["M"][u] : b.resp = a.relay.respIn

(* A response that protect or strict lets through is M's own answer to     *)
(* what the user asked, whatever R does to the request, the response or    *)
(* the statements, and whatever T says (user_gate.py:38, agent.py:326).    *)
ReleasedGenuine ==
  \A u \in Sub : mode[u] \in {"protect", "strict"} /\ stored[u].response # NULL =>
    \E m \in issued["M"] : m.sub = u /\ m.req = "asked" /\ m.resp = stored[u].response

(* Nothing reaches the application without a durable record of it, and     *)
(* nothing is on record for a request that was not decided in its favour   *)
(* (agent.py:326-336, 43-47).                                              *)
ReleasedRecorded ==
  \A u \in Sub :
    /\ consumer[u] # NULL => stored[u].response = consumer[u]
    /\ stored[u].response # NULL => Released(stored[u].state)

(* A decision on record is final: neither a verdict fetched later nor a    *)
(* restart changes it ("a verdict updated afterwards does not change a     *)
(* past acceptance", docs/desktop-runtime-v0.3.md:52).                     *)
DecisionFinal ==
  [][\A u \in Sub : stored[u].state \notin {"none", "pending"} =>
       stored'[u].state = stored[u].state /\ stored'[u].response = stored[u].response]_vars

(* Every request comes to an end, and R is free again and again, whatever  *)
(* M does and whenever services stop (transport.py:41, agent.py:247,       *)
(* service.py:292).                                                        *)
RequestsEnd == \A u \in Sub : phase[u] # "none" ~> phase[u] = "closed"
RelayFrees == []<>(job["R"] = NULL)

=============================================================================
