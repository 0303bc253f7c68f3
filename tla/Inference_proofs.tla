-------------------------- MODULE Inference_proofs --------------------------
(***************************************************************************)
(* For every set of requests and nonces, every bound and every sequence of *)
(* repeated calls, errors, timeouts and restarts: R and M execute a        *)
(* request and a nonce at most once and sign one statement about it, what  *)
(* they return is backed by what they have queued, and what U releases in  *)
(* protect and strict is M's answer to what was asked, is on record, and   *)
(* stays there.                                                            *)
(*                                                                         *)
(* None of this is inductive by itself.  The invariant is in four parts:   *)
(*   Typed       the types, with what each phase and stage has in hand;    *)
(*   AllOnce     the job of a service is the only one at its request, and  *)
(*               its stage says whether the record, the effect and the     *)
(*               statement are there yet;                                  *)
(*   AllOnRecord what the request thread has decided and what it has       *)
(*               written agree, phase by phase;                            *)
(*   Vouched     R waits for one answer of M at a time and what it gets is *)
(*               about the request it asked (Routing), and every result,   *)
(*               from M's job to U's record, has its receipt in M's        *)
(*               outbox.                                                   *)
(***************************************************************************)
EXTENDS Inference, TLAPS

Decisions == {"cancelled", "error", "accept", "accept_unverified", "quarantine", "reject", "reject_timeout"}

Outcome == [state : States, response : {NULL} \cup Text]
Record == [state : States, response : {NULL} \cup Text, verdict : Verdicts]

(* What the request thread has in hand at each phase. *)
InHand(u) ==
  /\ phase[u] # "none" => mode[u] \in Modes /\ scenario[u] \in Scenarios
  /\ phase[u] \in {"judging", "checked"} => wire[u] \in ResultOf("R")
  /\ phase[u] \in {"decided", "saved"} => outcome[u] \in Outcome

(* Work that is done has a result. *)
Worked(r) ==
  job[r] # NULL /\ job[r].stage \in {"worked", "queued"} => job[r].result \in ResultOf(r)

UserTyped == UserTypes /\ \A u \in Sub : InHand(u)
WaitingTyped == DOMAIN waiting = Service /\ \A r \in Service : waiting[r] \subseteq Call(r)
JobTyped == DOMAIN job = Service /\ \A r \in Service : job[r] \in {NULL} \cup Job(r) /\ Worked(r)
AnswerTyped ==
  /\ DOMAIN answer = {"U", "R"}
  /\ answer["U"] \in {NULL, ERROR} \cup ResultOf("R")
  /\ answer["R"] \in {NULL, ERROR} \cup ResultOf("M")
RecordsTyped ==
  /\ DOMAIN execution = Service /\ \A r \in Service : execution[r] \in [Sub -> {NULL} \cup Execution(r)]
  /\ DOMAIN nonces = Service /\ \A r \in Service : nonces[r] \in [Nonce -> Sub \cup {NULL}]
OutboxTyped ==
  /\ DOMAIN issued = Service /\ \A r \in Service : issued[r] \subseteq Statement(r)
  /\ DOMAIN backlog = Service /\ \A r \in Service : backlog[r] \in Nat
HistoryTyped ==
  /\ DOMAIN effect = Service /\ \A r \in Service : effect[r] \in [Sub -> Nat]
  /\ DOMAIN replies = Service /\ \A r \in Service : replies[r] \in [Sub -> SUBSET ResultOf(r)]
WorldTyped ==
  preExec \in BOOLEAN /\ retired \subseteq {"U", "R", "M"} /\ expired \subseteq Sub /\ calls \in Nat /\ faults \in Nat

(* The types, one group of variables after the other. *)
Typed ==
  /\ UserTyped /\ WaitingTyped /\ JobTyped /\ AnswerTyped
  /\ RecordsTyped /\ OutboxTyped /\ HistoryTyped /\ WorldTyped

-----------------------------------------------------------------------------
(* What the values are made of. *)

LEMMA Distinct ==
  ASSUME NEW r \in Service
  PROVE  /\ NULL \notin ResultOf(r) /\ ERROR \notin ResultOf(r) /\ UNKNOWN \notin ResultOf(r)
         /\ NULL \notin Job(r) /\ NULL \notin Execution(r)
         /\ NULL # ERROR /\ NULL # UNKNOWN
  BY ValuesAssumption DEF ValuesAssumption

LEMMA Calls ==
  ASSUME NEW r \in Service, NEW c \in Call(r), NEW w
  PROVE  /\ c.sub \in Sub /\ c.body \in Bodies /\ c.scenario \in Scenarios /\ c.caller \in {Caller(r), "none"}
         /\ Leave(c, w) \in Call(r) /\ Leave(c, w).sub = c.sub /\ Leave(c, w).body = c.body
  BY DEF Call, Leave

LEMMA CallMade ==
  ASSUME NEW r \in Service, NEW u \in Sub, NEW b \in Bodies, NEW y \in Scenarios, NEW w \in {Caller(r), "none"}
  PROVE  [sub |-> u, body |-> b, scenario |-> y, caller |-> w] \in Call(r)
  BY DEF Call

Stages == {"claimed", "started", "asking", "worked", "queued"}

LEMMA Jobs ==
  ASSUME NEW r \in Service, NEW j \in Job(r), NEW w
  PROVE  /\ j.call \in Call(r) /\ j.stage \in Stages /\ j.result \in {NULL} \cup ResultOf(r)
         /\ LeaveJob(j, w) \in Job(r) /\ LeaveJob(j, w) # NULL
         /\ LeaveJob(j, w).call = Leave(j.call, w)
         /\ LeaveJob(j, w).stage = j.stage /\ LeaveJob(j, w).result = j.result
  <1>1. j = [call |-> j.call, stage |-> j.stage, result |-> j.result]
        /\ j.call \in Call(r) /\ j.stage \in Stages /\ j.result \in {NULL} \cup ResultOf(r)
    BY DEF Job, Stages
  <1>2. Leave(j.call, w) \in Call(r)
    BY <1>1, Calls
  <1>3. LeaveJob(j, w) = [call |-> Leave(j.call, w), stage |-> j.stage, result |-> j.result]
    BY <1>1, Distinct DEF LeaveJob
  <1>4. LeaveJob(j, w) \in Job(r)
    BY <1>1, <1>2, <1>3 DEF Job, Stages
  <1> QED BY <1>1, <1>3, <1>4, Distinct

LEMMA JobMade ==
  ASSUME NEW r \in Service, NEW c \in Call(r), NEW s \in Stages, NEW x \in {NULL} \cup ResultOf(r)
  PROVE  [call |-> c, stage |-> s, result |-> x] \in Job(r)
  BY DEF Job, Stages

(* A job that goes on to another stage. *)
LEMMA StageMoves ==
  ASSUME NEW r \in Service, NEW j \in Job(r), NEW s \in Stages
  PROVE  /\ [j EXCEPT !.stage = s] \in Job(r)
         /\ [j EXCEPT !.stage = s].call = j.call /\ [j EXCEPT !.stage = s].stage = s
         /\ [j EXCEPT !.stage = s].result = j.result
  BY DEF Job, Stages

LEMMA Results ==
  ASSUME NEW x
  PROVE  /\ x \in ResultOf("M") => x.resp \in Text /\ x.receipt \in Receipt
         /\ x \in ResultOf("R") =>
              x.resp \in Text /\ x.receipt \in Receipt \cup {NULL} /\ x.relay \in Relay \cup {NULL}
         /\ Statement("M") = Receipt /\ Statement("R") = Relay
  BY DEF ResultOf, Statement

LEMMA ResultMade ==
  ASSUME NEW t \in Text, NEW m \in Receipt \cup {NULL}, NEW l \in Relay \cup {NULL}
  PROVE  /\ m # NULL => [resp |-> t, receipt |-> m] \in ResultOf("M")
         /\ [resp |-> t, receipt |-> m, relay |-> l] \in ResultOf("R")
  BY DEF ResultOf

LEMMA ExecutionMade ==
  ASSUME NEW r \in Service, NEW b \in Bodies, NEW x \in {NULL} \cup ResultOf(r)
  PROVE  /\ [body |-> b, result |-> x] \in Execution(r)
         /\ \A e \in Execution(r) :
              /\ e.body \in Bodies /\ e.result \in {NULL} \cup ResultOf(r)
              /\ [e EXCEPT !.result = x] \in Execution(r) /\ [e EXCEPT !.result = x].result = x
              /\ [e EXCEPT !.result = x].body = e.body
  BY DEF Execution

-----------------------------------------------------------------------------
(* Every step keeps the types. *)

LEMMA TypedTypeOK == Typed => TypeOK
  BY DEF Typed, UserTyped, WaitingTyped, JobTyped, AnswerTyped, RecordsTyped, OutboxTyped, HistoryTyped, WorldTyped,
         TypeOK, ServiceTypes

(* A group whose variables a step leaves alone stays as it is. *)
LEMMA Untouched ==
  ASSUME Typed
  PROVE  /\ UNCHANGED userVars => UserTyped'
         /\ UNCHANGED waiting => WaitingTyped'
         /\ UNCHANGED job => JobTyped'
         /\ UNCHANGED answer => AnswerTyped'
         /\ UNCHANGED <<execution, nonces>> => RecordsTyped'
         /\ UNCHANGED <<issued, backlog>> => OutboxTyped'
         /\ UNCHANGED <<effect, replies>> => HistoryTyped'
         /\ UNCHANGED worldVars => WorldTyped'
  <1>1. UNCHANGED userVars => UserTyped'
    BY DEF Typed, UserTyped, UserTypes, InHand, userVars
  <1>2. UNCHANGED job => JobTyped'
    BY DEF Typed, JobTyped, Worked
  <1> QED BY <1>1, <1>2 DEF Typed, WaitingTyped, AnswerTyped, RecordsTyped, OutboxTyped, HistoryTyped, WorldTyped, worldVars

LEMMA RespondTyped ==
  ASSUME Typed, NEW r \in Service, NEW c \in Call(r), NEW x \in {ERROR} \cup ResultOf(r), Respond(c, x)
  PROVE  AnswerTyped'
  <1>1. c.caller \in {Caller(r), "none"}
    BY Calls
  <1>2. CASE r = "M"
    BY <1>1, <1>2 DEF Respond, Caller, Typed, AnswerTyped
  <1>3. CASE r = "R"
    BY <1>1, <1>3 DEF Respond, Caller, Typed, AnswerTyped
  <1> QED BY <1>2, <1>3 DEF Service

LEMMA RepeatTyped ==
  ASSUME Typed, NEW r \in Service, Repeat(r)
  PROVE  Typed'
  <1>1. PICK c \in waiting[r] :
          /\ execution[r][c.sub] # NULL /\ execution[r][c.sub].result # NULL
          /\ waiting' = [waiting EXCEPT ![r] = @ \ {c}]
          /\ Respond(c, execution[r][c.sub].result)
          /\ replies' = [replies EXCEPT ![r][c.sub] = @ \cup {execution[r][c.sub].result}]
          /\ UNCHANGED <<userVars, job, execution, nonces, issued, backlog, effect, worldVars>>
    BY DEF Repeat
  <1> DEFINE x == execution[r][c.sub].result
  <1>2. c \in Call(r) /\ c.sub \in Sub
    BY Calls DEF Typed, WaitingTyped
  <1>3. execution[r][c.sub] \in Execution(r)
    BY <1>1, <1>2 DEF Typed, RecordsTyped
  <1>4. x \in ResultOf(r)
    BY <1>1, <1>3 DEF Execution
  <1>5. Respond(c, x) /\ replies' = [replies EXCEPT ![r][c.sub] = @ \cup {x}]
    BY <1>1
  <1> HIDE DEF x
  <1>6. AnswerTyped'
    BY <1>2, <1>4, <1>5, RespondTyped
  <1>7. WaitingTyped'
    BY <1>1 DEF Typed, WaitingTyped
  <1>8. HistoryTyped'
    <2>1. replies' = [replies EXCEPT ![r] = [replies[r] EXCEPT ![c.sub] = @ \cup {x}]]
      BY <1>5
    <2>2. [replies[r] EXCEPT ![c.sub] = @ \cup {x}] \in [Sub -> SUBSET ResultOf(r)]
      BY <1>2, <1>4 DEF Typed, HistoryTyped
    <2> QED BY <1>1, <2>1, <2>2 DEF Typed, HistoryTyped
  <1> QED BY <1>1, <1>6, <1>7, <1>8, Untouched DEF Typed

LEMMA RefuseTyped ==
  ASSUME Typed, NEW r \in Service, Refuse(r)
  PROVE  Typed'
  <1>1. PICK c \in waiting[r] : Reject(r, c)
    BY DEF Refuse
  <1>2. AnswerTyped'
    BY <1>1, RespondTyped DEF Reject, Typed, WaitingTyped
  <1>3. WaitingTyped'
    BY <1>1 DEF Reject, Typed, WaitingTyped
  <1> QED BY <1>1, <1>2, <1>3, Untouched DEF Reject, Typed

LEMMA BeginTyped ==
  ASSUME Typed, NEW r \in Service, Begin(r)
  PROVE  Typed'
  <1>1. PICK c \in waiting[r] :
          /\ nonces' = [nonces EXCEPT ![r][NonceOf[c.sub]] = c.sub]
          /\ waiting' = [waiting EXCEPT ![r] = @ \ {c}]
          /\ job' = [job EXCEPT ![r] = [call |-> c, stage |-> "claimed", result |-> NULL]]
          /\ UNCHANGED <<userVars, answer, execution, issued, backlog, effect, replies, worldVars>>
    BY DEF Begin
  <1>2. c \in Call(r) /\ c.sub \in Sub
    BY Calls DEF Typed, WaitingTyped
  <1>3. WaitingTyped'
    BY <1>1 DEF Typed, WaitingTyped
  <1>4. JobTyped'
    <2>1. [call |-> c, stage |-> "claimed", result |-> NULL] \in Job(r)
      BY <1>2, JobMade DEF Stages
    <2>2. Worked(r)'
      BY <1>1 DEF Worked, Typed, JobTyped
    <2>3. \A s \in Service \ {r} : job'[s] = job[s]
      BY <1>1 DEF Typed, JobTyped
    <2> QED BY <1>1, <2>1, <2>2, <2>3 DEF Typed, JobTyped, Worked
  <1>5. RecordsTyped'
    <2>1. nonces' = [nonces EXCEPT ![r] = [nonces[r] EXCEPT ![NonceOf[c.sub]] = c.sub]]
      BY <1>1
    <2>2. [nonces[r] EXCEPT ![NonceOf[c.sub]] = c.sub] \in [Nonce -> Sub \cup {NULL}]
      BY <1>2 DEF Typed, RecordsTyped
    <2> QED BY <1>1, <2>1, <2>2 DEF Typed, RecordsTyped
  <1> QED BY <1>1, <1>3, <1>4, <1>5, Untouched DEF Typed

(* The job of one service changes. *)
LEMMA JobTypedFrom ==
  ASSUME Typed, NEW r \in Service, NEW j \in {NULL} \cup Job(r), job' = [job EXCEPT ![r] = j],
         j # NULL /\ j.stage \in {"worked", "queued"} => j.result \in ResultOf(r)
  PROVE  JobTyped'
  <1>1. job'[r] = j /\ DOMAIN job' = Service /\ \A s \in Service \ {r} : job'[s] = job[s]
    BY DEF Typed, JobTyped
  <1> QED BY <1>1 DEF Typed, JobTyped, Worked

LEMMA AtJob ==
  ASSUME Typed, NEW r \in Service, NEW s, At(r, s)
  PROVE  /\ job[r] # NULL /\ job[r] \in Job(r) /\ job[r].stage = s
         /\ job[r].call \in Call(r) /\ job[r].call.sub \in Sub /\ job[r].call.body \in Bodies
         /\ job[r].call.scenario \in Scenarios
         /\ job[r].result \in {NULL} \cup ResultOf(r)
         /\ s \in {"worked", "queued"} => job[r].result \in ResultOf(r)
  <1>1. job[r] # NULL /\ job[r] \in Job(r) /\ job[r].stage = s
    BY DEF At, Typed, JobTyped
  <1>2. s \in {"worked", "queued"} => job[r].result \in ResultOf(r)
    BY <1>1 DEF Typed, JobTyped, Worked
  <1> QED BY <1>1, <1>2, Jobs, Calls

LEMMA StageTyped ==
  ASSUME Typed, NEW r \in Service, NEW s, At(r, s), NEW t \in Stages, SetStage(r, t),
         t \in {"worked", "queued"} => s \in {"worked", "queued"}
  PROVE  JobTyped'
  <1> DEFINE j == [job[r] EXCEPT !.stage = t]
  <1>1. job' = [job EXCEPT ![r] = j]
    BY DEF SetStage
  <1>2. j \in Job(r) /\ j.stage = t /\ j.result = job[r].result
    BY AtJob, StageMoves
  <1>3. j.stage \in {"worked", "queued"} => j.result \in ResultOf(r)
    BY <1>2, AtJob
  <1> HIDE DEF j
  <1> QED BY <1>1, <1>2, <1>3, JobTypedFrom

LEMMA FailTyped ==
  ASSUME Typed, NEW r \in Service, NEW s, At(r, s), Fail(r)
  PROVE  JobTyped' /\ AnswerTyped'
  BY AtJob, JobTypedFrom, RespondTyped DEF Fail

LEMMA StartTyped ==
  ASSUME Typed, NEW r \in Service, Start(r)
  PROVE  Typed'
  <1> DEFINE c == job[r].call
             e == [body |-> c.body, result |-> NULL]
  <1>1. /\ At(r, "claimed") /\ SetStage(r, "started")
        /\ execution' = [execution EXCEPT ![r] = [execution[r] EXCEPT ![c.sub] = e]]
        /\ UNCHANGED <<userVars, answer, waiting, nonces, issued, backlog, effect, replies, worldVars>>
    BY DEF Start
  <1>2. JobTyped'
    BY <1>1, StageTyped DEF Stages
  <1>3. e \in Execution(r) /\ c.sub \in Sub
    BY <1>1, AtJob DEF Execution
  <1> HIDE DEF c, e
  <1>4. [execution[r] EXCEPT ![c.sub] = e] \in [Sub -> {NULL} \cup Execution(r)]
    BY <1>3 DEF Typed, RecordsTyped
  <1>5. RecordsTyped'
    BY <1>1, <1>4 DEF Typed, RecordsTyped
  <1> QED BY <1>1, <1>2, <1>5, Untouched DEF Typed

LEMMA GiveUpTyped ==
  ASSUME Typed, NEW r \in Service, GiveUp(r)
  PROVE  Typed'
  <1>1. At(r, "started") /\ Fail(r) /\ UNCHANGED <<userVars, waiting, execution, nonces, issued, backlog, effect, replies, worldVars>>
    BY DEF GiveUp
  <1>2. JobTyped' /\ AnswerTyped'
    BY <1>1, FailTyped
  <1> QED BY <1>1, <1>2, Untouched DEF Typed

(* The effect of one request is counted. *)
LEMMA CountTyped ==
  ASSUME Typed, NEW r \in Service, NEW u \in Sub, effect' = [effect EXCEPT ![r][u] = @ + 1], UNCHANGED replies
  PROVE  HistoryTyped'
  <1>1. effect' = [effect EXCEPT ![r] = [effect[r] EXCEPT ![u] = @ + 1]]
    OBVIOUS
  <1>2. [effect[r] EXCEPT ![u] = @ + 1] \in [Sub -> Nat]
    BY DEF Typed, HistoryTyped
  <1> QED BY <1>1, <1>2 DEF Typed, HistoryTyped

LEMMA RunModelTyped ==
  ASSUME Typed, RunModel
  PROVE  Typed'
  <1> DEFINE c == job["M"].call
             text == [of |-> c.body, run |-> effect["M"][c.sub] + 1]
             receipt == [iss |-> "M", sub |-> c.sub, nonce |-> NonceOf[c.sub], req |-> c.body, resp |-> text]
             x == [resp |-> text, receipt |-> receipt]
             j == [call |-> c, stage |-> "worked", result |-> x]
  <1>1. /\ At("M", "started")
        /\ effect' = [effect EXCEPT !["M"][c.sub] = @ + 1]
        /\ job' = [job EXCEPT !["M"] = j]
        /\ UNCHANGED <<userVars, answer, waiting, execution, nonces, issued, backlog, replies, worldVars>>
    BY DEF RunModel, Finish
  <1>2. "M" \in Service
    BY DEF Service
  <1>3. /\ job["M"] \in Job("M") /\ c.sub \in Sub /\ c.body \in Bodies /\ NonceOf[c.sub] \in Nonce
        /\ effect["M"][c.sub] \in Nat
    <2>1. job["M"] \in Job("M") /\ c.sub \in Sub /\ c.body \in Bodies
      BY <1>1, <1>2, AtJob
    <2> QED BY <1>2, <2>1, InferenceAssumption DEF InferenceAssumption, Typed, HistoryTyped
  <1>4. text \in Text
    BY <1>3 DEF Text
  <1>5. x \in ResultOf("M")
    <2> HIDE DEF text
    <2>1. receipt \in Receipt
      BY <1>3, <1>4 DEF Receipt
    <2> HIDE DEF receipt
    <2> QED BY <1>4, <2>1 DEF ResultOf
  <1> HIDE DEF x
  <1>7. j \in Job("M") /\ j.result = x
    BY <1>1, <1>2, <1>5, AtJob, JobMade DEF Stages
  <1> HIDE DEF j
  <1>8. JobTyped'
    BY <1>1, <1>2, <1>5, <1>7, JobTypedFrom
  <1>9. HistoryTyped'
    BY <1>1, <1>2, <1>3, CountTyped
  <1> QED BY <1>1, <1>8, <1>9, Untouched DEF Typed

LEMMA ModelFailsTyped ==
  ASSUME Typed, ModelFails
  PROVE  Typed'
  <1>1. /\ At("M", "started") /\ Fail("M")
        /\ effect' = effect \/ effect' = [effect EXCEPT !["M"][job["M"].call.sub] = @ + 1]
        /\ UNCHANGED <<userVars, waiting, execution, nonces, issued, backlog, replies, worldVars>>
    BY DEF ModelFails
  <1>2. "M" \in Service
    BY DEF Service
  <1>3. JobTyped' /\ AnswerTyped' /\ job["M"].call.sub \in Sub
    BY <1>1, <1>2, FailTyped, AtJob
  <1>4. HistoryTyped'
    BY <1>1, <1>2, <1>3, CountTyped, Untouched
  <1> QED BY <1>1, <1>3, <1>4, Untouched DEF Typed

LEMMA PlaceTyped ==
  ASSUME Typed, NEW r \in Service, NEW c \in Call(r), Place(r, c)
  PROVE  WaitingTyped'
  BY DEF Place, Typed, WaitingTyped

LEMMA AskModelTyped ==
  ASSUME Typed, AskModel
  PROVE  Typed'
  <1> DEFINE c == job["R"].call
             d == [c EXCEPT !.body = Outgoing(c), !.caller = "R"]
  <1>1. /\ At("R", "started") /\ SetStage("R", "asking")
        /\ Place("M", d)
        /\ effect' = [effect EXCEPT !["R"][c.sub] = @ + 1]
        /\ UNCHANGED <<userVars, answer, execution, nonces, issued, backlog, replies, worldVars>>
    BY DEF AskModel
  <1>2. "R" \in Service /\ "M" \in Service
    BY DEF Service
  <1>3. c \in Call("R") /\ c.sub \in Sub
    BY <1>1, <1>2, AtJob
  <1>4. d \in Call("M")
    <2>1. Outgoing(c) \in Bodies
      BY <1>3 DEF Outgoing, Bodies, Call
    <2> QED BY <1>3, <2>1 DEF Call, Caller
  <1>5. JobTyped'
    BY <1>1, <1>2, StageTyped DEF Stages
  <1>6. WaitingTyped' /\ HistoryTyped'
    BY <1>1, <1>2, <1>3, <1>4, PlaceTyped, CountTyped
  <1> QED BY <1>1, <1>5, <1>6, Untouched DEF Typed

LEMMA HearModelTyped ==
  ASSUME Typed, HearModel
  PROVE  Typed'
  <1> DEFINE m == answer["R"]
             x == RelayResult(job["R"].call, m)
             j == [call |-> job["R"].call, stage |-> "worked", result |-> x]
  <1>1. /\ At("R", "asking") /\ m \in ResultOf("M")
        /\ answer' = [answer EXCEPT !["R"] = NULL]
        /\ job' = [job EXCEPT !["R"] = j]
        /\ UNCHANGED <<userVars, waiting, execution, nonces, issued, backlog, effect, replies, worldVars>>
    BY DEF HearModel, Finish, Typed, AnswerTyped
  <1>2. "R" \in Service
    BY DEF Service
  <1>3. /\ job["R"] \in Job("R") /\ job["R"].call \in Call("R") /\ job["R"].call.sub \in Sub
        /\ job["R"].call.body \in Bodies
    BY <1>1, <1>2, AtJob
  <1>4. x \in ResultOf("R")
    <2> DEFINE c == job["R"].call
               text == IF c.scenario = "response_tamper" THEN Tampered ELSE m.resp
               receipt == IF c.scenario = "missing_receipt" THEN NULL ELSE m.receipt
               relay == [iss |-> "R", sub |-> c.sub, nonce |-> NonceOf[c.sub], reqIn |-> c.body, reqOut |-> Outgoing(c),
                         respIn |-> m.resp, respOut |-> text]
    <2>1. m.resp \in Text /\ m.receipt \in Receipt
      BY <1>1, Results
    <2>2. text \in Text /\ receipt \in Receipt \cup {NULL}
      BY <2>1 DEF Text
    <2>3. Outgoing(c) \in Bodies /\ NonceOf[c.sub] \in Nonce
      BY <1>3, InferenceAssumption DEF Outgoing, Bodies, InferenceAssumption
    <2>4. x = [resp |-> text, receipt |-> receipt, relay |-> IF c.scenario = "missing_relay" THEN NULL ELSE relay]
      BY DEF RelayResult
    <2> HIDE DEF text, receipt
    <2>5. relay \in Relay
      BY <1>3, <2>1, <2>2, <2>3 DEF Relay
    <2> HIDE DEF relay, x, m
    <2> QED BY <2>2, <2>4, <2>5, ResultMade
  <1> HIDE DEF x
  <1>5. j \in Job("R") /\ j.result = x
    BY <1>2, <1>3, <1>4, JobMade DEF Stages
  <1> HIDE DEF j
  <1>6. JobTyped'
    BY <1>1, <1>2, <1>4, <1>5, JobTypedFrom
  <1>7. AnswerTyped'
    BY <1>1 DEF Typed, AnswerTyped
  <1> QED BY <1>1, <1>6, <1>7, Untouched DEF Typed

LEMMA NoModelTyped ==
  ASSUME Typed, NoModel
  PROVE  Typed'
  <1>1. /\ At("R", "started") \/ At("R", "asking")
        /\ job' = [job EXCEPT !["R"] = NULL]
        /\ UNCHANGED <<userVars, waiting, execution, nonces, issued, backlog, effect, replies, worldVars>>
        /\ LET c == job["R"].call IN
             answer' = [w \in DOMAIN answer |-> IF w = "R" THEN NULL ELSE IF w = c.caller THEN ERROR ELSE answer[w]]
    BY DEF NoModel
  <1>2. JobTyped'
    BY <1>1, JobTypedFrom DEF Service
  <1>3. AnswerTyped'
    BY <1>1 DEF Typed, AnswerTyped
  <1> QED BY <1>1, <1>2, <1>3, Untouched DEF Typed

(* Nobody waits any more for some of the calls to a service. *)
LEMMA LeaveTyped ==
  ASSUME Typed, NEW r \in Service, NEW w
  PROVE  /\ {Leave(c, w) : c \in waiting[r]} \subseteq Call(r)
         /\ LeaveJob(job[r], w) \in {NULL} \cup Job(r)
         /\ LET j == LeaveJob(job[r], w) IN
              j # NULL /\ j.stage \in {"worked", "queued"} => j.result \in ResultOf(r)
  <1>1. {Leave(c, w) : c \in waiting[r]} \subseteq Call(r)
    BY Calls DEF Typed, WaitingTyped
  <1>2. CASE job[r] = NULL
    BY <1>1, <1>2 DEF LeaveJob
  <1>3. CASE job[r] # NULL
    <2>1. job[r] \in Job(r) /\ (job[r].stage \in {"worked", "queued"} => job[r].result \in ResultOf(r))
      BY <1>3 DEF Typed, JobTyped, Worked
    <2> QED BY <1>1, <2>1, Jobs
  <1> QED BY <1>2, <1>3

LEMMA ModelTimeoutTyped ==
  ASSUME Typed, ModelTimeout
  PROVE  Typed'
  <1>1. /\ At("R", "asking")
        /\ waiting' = [waiting EXCEPT !["M"] = {Leave(c, "R") : c \in waiting["M"]}]
        /\ Respond(job["R"].call, ERROR)
        /\ UNCHANGED <<userVars, execution, nonces, issued, backlog, effect, replies, worldVars>>
    BY DEF ModelTimeout
  <1>2. "R" \in Service /\ "M" \in Service
    BY DEF Service
  <1>3. WaitingTyped'
    BY <1>1, <1>2, LeaveTyped DEF Typed, WaitingTyped
  <1>4. job' = [s \in Service |-> IF s = "R" THEN NULL ELSE LeaveJob(job[s], "R")]
    BY DEF ModelTimeout
  <1>5. JobTyped'
    <2>1. ASSUME NEW s \in Service
          PROVE  job'[s] \in {NULL} \cup Job(s) /\ Worked(s)'
      BY <1>4, LeaveTyped DEF Worked
    <2> QED BY <1>4, <2>1 DEF JobTyped
  <1>6. AnswerTyped'
    BY <1>1, <1>2, AtJob, RespondTyped
  <1> QED BY <1>1, <1>3, <1>5, <1>6, Untouched DEF Typed

LEMMA QueueTyped ==
  ASSUME Typed, NEW r \in Service, Queue(r)
  PROVE  Typed'
  <1> DEFINE st == IF r = "M" THEN job[r].result.receipt ELSE job[r].result.relay
  <1>1. /\ At(r, "worked") /\ SetStage(r, "queued")
        /\ IF st = NULL THEN UNCHANGED <<issued, backlog>>
           ELSE /\ issued' = [issued EXCEPT ![r] = @ \cup {st}]
                /\ backlog' = [backlog EXCEPT ![r] = @ + 1]
        /\ UNCHANGED <<userVars, answer, waiting, execution, nonces, effect, replies, worldVars>>
    BY DEF Queue
  <1>2. JobTyped'
    BY <1>1, StageTyped DEF Stages
  <1>3. st \in Statement(r) \cup {NULL}
    BY <1>1, AtJob, Results DEF Service
  <1> HIDE DEF st
  <1>4. OutboxTyped'
    BY <1>1, <1>3 DEF Typed, OutboxTyped
  <1> QED BY <1>1, <1>2, <1>4, Untouched DEF Typed

LEMMA CompleteTyped ==
  ASSUME Typed, NEW r \in Service, Complete(r), execution[r][job[r].call.sub] # NULL
  PROVE  Typed'
  <1> DEFINE c == job[r].call
             x == job[r].result
             e == [execution[r][c.sub] EXCEPT !.result = x]
  <1>1. /\ At(r, "queued")
        /\ execution' = [execution EXCEPT ![r] = [execution[r] EXCEPT ![c.sub] = e]]
        /\ replies' = [replies EXCEPT ![r] = [replies[r] EXCEPT ![c.sub] = @ \cup {x}]]
        /\ Respond(c, x)
        /\ job' = [job EXCEPT ![r] = NULL]
        /\ UNCHANGED <<userVars, waiting, nonces, issued, backlog, effect, worldVars>>
    BY DEF Complete
  <1>2. c \in Call(r) /\ c.sub \in Sub /\ x \in ResultOf(r)
    BY <1>1, AtJob
  <1>3. execution[r][c.sub] \in Execution(r)
    BY <1>2 DEF Typed, RecordsTyped
  <1>4. e \in Execution(r)
    BY <1>2, <1>3, ExecutionMade DEF Bodies
  <1> HIDE DEF c, x, e
  <1>5. JobTyped' /\ AnswerTyped'
    BY <1>1, <1>2, JobTypedFrom, RespondTyped
  <1>6. [execution[r] EXCEPT ![c.sub] = e] \in [Sub -> {NULL} \cup Execution(r)]
    BY <1>2, <1>4 DEF Typed, RecordsTyped
  <1>7. [replies[r] EXCEPT ![c.sub] = @ \cup {x}] \in [Sub -> SUBSET ResultOf(r)]
    BY <1>2 DEF Typed, HistoryTyped
  <1>8. RecordsTyped'
    BY <1>1, <1>6 DEF Typed, RecordsTyped
  <1>9. HistoryTyped'
    BY <1>1, <1>7 DEF Typed, HistoryTyped
  <1> QED BY <1>1, <1>5, <1>8, <1>9, Untouched DEF Typed

LEMMA DrainTyped ==
  ASSUME Typed, NEW r \in Service, Drain(r)
  PROVE  Typed'
  <1>1. /\ backlog[r] > 0 /\ backlog' = [backlog EXCEPT ![r] = @ - 1]
        /\ UNCHANGED <<userVars, answer, waiting, job, execution, nonces, issued, effect, replies, worldVars>>
    BY DEF Drain
  <1>2. OutboxTyped'
    BY <1>1 DEF Typed, OutboxTyped
  <1> QED BY <1>1, <1>2, Untouched DEF Typed

LEMMA CrashServiceTyped ==
  ASSUME Typed, NEW r \in Service, CrashService(r)
  PROVE  Typed'
  <1>1. /\ waiting' = [s \in Service |-> IF s = r THEN {} ELSE {Leave(c, r) : c \in waiting[s]}]
        /\ job' = [s \in Service |-> IF s = r THEN NULL ELSE LeaveJob(job[s], r)]
        /\ UNCHANGED <<userVars, execution, nonces, issued, backlog, effect, replies, preExec, retired, expired, calls>>
        /\ faults' = faults + 1
    BY DEF CrashService, Fault
  <1>2. AnswerTyped'
    BY DEF CrashService, Typed, AnswerTyped
  <1>3. WaitingTyped'
    BY <1>1, LeaveTyped DEF WaitingTyped
  <1>4. JobTyped'
    <2>1. ASSUME NEW s \in Service
          PROVE  job'[s] \in {NULL} \cup Job(s) /\ Worked(s)'
      BY <1>1, LeaveTyped DEF Worked
    <2> QED BY <1>1, <2>1 DEF JobTyped
  <1>5. WorldTyped'
    BY <1>1 DEF Typed, WorldTyped
  <1> QED BY <1>1, <1>2, <1>3, <1>4, <1>5, Untouched DEF Typed

-----------------------------------------------------------------------------
(* The steps of the user. *)

LEMMA GateDecisions ==
  ASSUME NEW m, NEW k, NEW v
  PROVE  /\ Gate!Decide(m, k, v, TRUE) \in Decisions
         /\ Decisions \subseteq States
  BY DEF Gate!Decide, Decisions, States

LEMMA AskTyped ==
  ASSUME Typed, NEW u \in Sub, Ask(u)
  PROVE  Typed'
  <1>1. PICK x \in Modes, y \in Scenarios :
          /\ phase' = [phase EXCEPT ![u] = "ready"]
          /\ mode' = [mode EXCEPT ![u] = x] /\ scenario' = [scenario EXCEPT ![u] = y]
          /\ stored' = [stored EXCEPT ![u] = [stored[u] EXCEPT !.state = "pending"]]
          /\ UNCHANGED <<cancel, wire, verdict, outcome, consumer, serviceVars, answer, worldVars>>
    BY DEF Ask, Enter
  <1>2. [stored[u] EXCEPT !.state = "pending"] \in Record
    <2>1. stored[u] \in Record
      BY DEF Typed, UserTyped, UserTypes, Record
    <2> QED BY <2>1 DEF Record, States
  <1>3. UserTypes'
    BY <1>1, <1>2 DEF Typed, UserTyped, UserTypes, Record
  <1>4. \A v \in Sub : InHand(v)'
    BY <1>1 DEF Typed, UserTyped, UserTypes, InHand
  <1> QED BY <1>1, <1>3, <1>4, Untouched DEF Typed, UserTyped, serviceVars

LEMMA CancelTyped ==
  ASSUME Typed, NEW u \in Sub, Cancel(u)
  PROVE  Typed'
  <1>1. /\ cancel' = [cancel EXCEPT ![u] = TRUE]
        /\ UNCHANGED <<phase, mode, scenario, wire, verdict, outcome, stored, consumer, serviceVars, answer, worldVars>>
    BY DEF Cancel
  <1>2. UserTyped'
    BY <1>1 DEF Typed, UserTyped, UserTypes, InHand
  <1> QED BY <1>1, <1>2, Untouched DEF Typed, serviceVars

LEMMA TransmitTyped ==
  ASSUME Typed, NEW u \in Sub, Transmit(u)
  PROVE  Typed'
  <1> DEFINE c == [sub |-> u, body |-> "asked", scenario |-> scenario[u], caller |-> "U"]
  <1>1. /\ phase[u] = "ready" /\ Place("R", c) /\ phase' = [phase EXCEPT ![u] = "sent"]
        /\ UNCHANGED <<mode, scenario, cancel, wire, verdict, outcome, stored, consumer,
                       job, execution, nonces, issued, backlog, effect, replies, answer, worldVars>>
    BY DEF Transmit, Enter
  <1>2. c \in Call("R")
    BY <1>1 DEF Typed, UserTyped, InHand, Call, Bodies, Caller
  <1>3. WaitingTyped'
    BY <1>1, <1>2, PlaceTyped DEF Service
  <1>4. UserTyped'
    BY <1>1 DEF Typed, UserTyped, UserTypes, InHand
  <1> QED BY <1>1, <1>3, <1>4, Untouched DEF Typed

LEMMA StopTyped ==
  ASSUME Typed, NEW u \in Sub, NEW s \in Decisions, Stop(u, s),
         UNCHANGED <<mode, scenario, cancel, wire, verdict, stored, consumer>>, phase[u] # "none"
  PROVE  UserTyped'
  <1>1. /\ outcome' = [outcome EXCEPT ![u] = [state |-> s, response |-> NULL]]
        /\ phase' = [phase EXCEPT ![u] = "decided"]
    BY DEF Stop, Enter
  <1>2. [state |-> s, response |-> NULL] \in Outcome
    BY DEF Outcome, Decisions, States
  <1>3. UserTypes'
    BY <1>1, <1>2 DEF Typed, UserTyped, UserTypes, Outcome
  <1>4. \A v \in Sub : InHand(v)'
    BY <1>1, <1>2 DEF Typed, UserTyped, UserTypes, InHand
  <1> QED BY <1>3, <1>4 DEF UserTyped

LEMMA NoAnswerTyped ==
  ASSUME Typed, NEW u \in Sub, NoAnswer(u)
  PROVE  Typed'
  <1>1. /\ phase[u] # "none" /\ (Stop(u, "cancelled") \/ Stop(u, "error"))
        /\ UNCHANGED <<mode, scenario, cancel, wire, verdict, stored, consumer, serviceVars, worldVars>>
        /\ answer' = [answer EXCEPT !["U"] = NULL]
    BY DEF NoAnswer, OnError
  <1>2. UserTyped'
    BY <1>1, StopTyped DEF Decisions
  <1>3. AnswerTyped'
    BY <1>1 DEF Typed, AnswerTyped
  <1> QED BY <1>1, <1>2, <1>3, Untouched DEF Typed, serviceVars

LEMMA ForsakeTyped ==
  ASSUME Typed, NEW r \in Service, NEW w, Forsake(r, w)
  PROVE  WaitingTyped' /\ JobTyped'
  <1> DEFINE j == LeaveJob(job[r], w)
  <1>1. /\ waiting' = [waiting EXCEPT ![r] = {Leave(c, w) : c \in waiting[r]}]
        /\ job' = [job EXCEPT ![r] = j]
    BY DEF Forsake
  <1>2. WaitingTyped'
    BY <1>1, LeaveTyped DEF Typed, WaitingTyped
  <1>3. j \in {NULL} \cup Job(r) /\ (j # NULL /\ j.stage \in {"worked", "queued"} => j.result \in ResultOf(r))
    BY LeaveTyped
  <1> HIDE DEF j
  <1> QED BY <1>1, <1>2, <1>3, JobTypedFrom

LEMMA AnswerTimeoutTyped ==
  ASSUME Typed, NEW u \in Sub, AnswerTimeout(u)
  PROVE  Typed'
  <1>1. /\ phase[u] = "sent" /\ Forsake("R", "U") /\ Stop(u, "error")
        /\ UNCHANGED <<mode, scenario, cancel, wire, verdict, stored, consumer,
                       execution, nonces, issued, backlog, effect, replies, answer, worldVars>>
    BY DEF AnswerTimeout
  <1>2. UserTyped'
    BY <1>1, StopTyped DEF Decisions
  <1>3. WaitingTyped' /\ JobTyped'
    BY <1>1, ForsakeTyped DEF Service
  <1> QED BY <1>1, <1>2, <1>3, Untouched DEF Typed

LEMMA ReceiveTyped ==
  ASSUME Typed, NEW u \in Sub, Receive(u)
  PROVE  Typed'
  <1>1. PICK p \in {"judging", "checked"} :
          /\ phase[u] = "sent" /\ answer["U"] \notin {NULL, ERROR}
          /\ answer' = [answer EXCEPT !["U"] = NULL]
          /\ wire' = [wire EXCEPT ![u] = answer["U"]]
          /\ phase' = [phase EXCEPT ![u] = p]
          /\ UNCHANGED <<mode, scenario, cancel, verdict, outcome, stored, consumer, serviceVars, worldVars>>
    BY DEF Receive, Enter
  <1>2. answer["U"] \in ResultOf("R")
    BY <1>1 DEF Typed, AnswerTyped
  <1>3. AnswerTyped'
    BY <1>1 DEF Typed, AnswerTyped
  <1>4. UserTypes'
    BY <1>1, <1>2 DEF Typed, UserTyped, UserTypes
  <1>5. \A v \in Sub : InHand(v)'
    BY <1>1, <1>2 DEF Typed, UserTyped, UserTypes, InHand
  <1> QED BY <1>1, <1>3, <1>4, <1>5, Untouched DEF Typed, UserTyped, serviceVars

LEMMA JudgeTyped ==
  ASSUME Typed, NEW u \in Sub, Judge(u)
  PROVE  Typed'
  <1>1. PICK v \in Verdicts :
          /\ phase[u] = "judging" /\ phase' = [phase EXCEPT ![u] = "checked"]
          /\ verdict' = [verdict EXCEPT ![u] = v]
          /\ UNCHANGED <<mode, scenario, cancel, wire, outcome, stored, consumer, serviceVars, answer, worldVars>>
    BY DEF Judge, Enter, Verdicts
  <1>2. UserTyped'
    BY <1>1 DEF Typed, UserTyped, UserTypes, InHand
  <1> QED BY <1>1, <1>2, Untouched DEF Typed, serviceVars

LEMMA ConcludeTyped ==
  ASSUME Typed, NEW u \in Sub, Conclude(u)
  PROVE  Typed'
  <1>1. /\ phase[u] = "checked"
        /\ UNCHANGED <<mode, scenario, cancel, wire, verdict, stored, consumer, serviceVars, answer, worldVars>>
    BY DEF Conclude
  <1>2. CASE Stop(u, "cancelled") \/ Stop(u, "error")
    <2>1. UserTyped'
      BY <1>1, <1>2, StopTyped DEF Decisions
    <2> QED BY <1>1, <2>1, Untouched DEF Typed, serviceVars
  <1>3. CASE LET action == Gate!Decide(mode[u], Checks(u, wire[u]), verdict[u], TRUE) IN
               /\ outcome' = [outcome EXCEPT ![u] =
                    [state |-> action, response |-> IF Released(action) THEN wire[u].resp ELSE NULL]]
               /\ Enter(u, "decided")
    <2> DEFINE action == Gate!Decide(mode[u], Checks(u, wire[u]), verdict[u], TRUE)
               o == [state |-> action, response |-> IF Released(action) THEN wire[u].resp ELSE NULL]
    <2>1. outcome' = [outcome EXCEPT ![u] = o] /\ phase' = [phase EXCEPT ![u] = "decided"]
      BY <1>3 DEF Enter
    <2>2. o \in Outcome
      <3>1. action \in States
        BY GateDecisions
      <3>2. wire[u].resp \in Text
        BY <1>1, Results DEF Typed, UserTyped, InHand
      <3> HIDE DEF action
      <3> QED BY <3>1, <3>2 DEF Outcome
    <2> HIDE DEF o
    <2>3. UserTypes'
      BY <1>1, <2>1, <2>2 DEF Typed, UserTyped, UserTypes, Outcome
    <2>4. \A v \in Sub : InHand(v)'
      BY <1>1, <2>1, <2>2 DEF Typed, UserTyped, UserTypes, InHand
    <2> QED BY <1>1, <2>3, <2>4, Untouched DEF Typed, UserTyped, serviceVars
  <1> QED BY <1>2, <1>3 DEF Conclude

LEMMA SaveTyped ==
  ASSUME Typed, NEW u \in Sub, Save(u)
  PROVE  Typed'
  <1> DEFINE o == [stored[u] EXCEPT !.state = outcome[u].state, !.response = outcome[u].response, !.verdict = verdict[u]]
  <1>1. /\ phase[u] = "decided" /\ phase' = [phase EXCEPT ![u] = "saved"]
        /\ stored' = [stored EXCEPT ![u] = o]
        /\ UNCHANGED <<mode, scenario, cancel, wire, verdict, outcome, consumer, serviceVars, answer, worldVars>>
    BY DEF Save, Enter
  <1>2. o \in Record
    <2>1. outcome[u] \in Outcome /\ verdict[u] \in Verdicts /\ stored[u] \in Record
      BY <1>1 DEF Typed, UserTyped, UserTypes, InHand, Record
    <2>2. outcome[u].state \in States /\ outcome[u].response \in {NULL} \cup Text
      BY <2>1 DEF Outcome
    <2> QED BY <2>1, <2>2 DEF Record
  <1> HIDE DEF o
  <1>3. UserTypes'
    BY <1>1, <1>2 DEF Typed, UserTyped, UserTypes, Record
  <1>4. \A v \in Sub : InHand(v)'
    BY <1>1 DEF Typed, UserTyped, UserTypes, InHand
  <1> QED BY <1>1, <1>3, <1>4, Untouched DEF Typed, UserTyped, serviceVars

LEMMA ReturnTyped ==
  ASSUME Typed, NEW u \in Sub, Return(u)
  PROVE  Typed'
  <1>1. /\ phase[u] = "saved" /\ phase' = [phase EXCEPT ![u] = "closed"]
        /\ consumer' = [consumer EXCEPT ![u] = outcome[u].response]
        /\ UNCHANGED <<mode, scenario, cancel, wire, verdict, outcome, stored, serviceVars, answer, worldVars>>
    BY DEF Return, Enter
  <1>2. outcome[u].response \in {NULL} \cup Text
    BY <1>1 DEF Typed, UserTyped, InHand, Outcome
  <1>3. UserTyped'
    BY <1>1, <1>2 DEF Typed, UserTyped, UserTypes, InHand
  <1> QED BY <1>1, <1>3, Untouched DEF Typed, serviceVars

LEMMA RefreshTyped ==
  ASSUME Typed, NEW u \in Sub, Refresh(u)
  PROVE  Typed'
  <1>1. PICK v \in Verdicts :
          /\ stored' = [stored EXCEPT ![u] = [stored[u] EXCEPT !.verdict = v]]
          /\ UNCHANGED <<phase, mode, scenario, cancel, wire, verdict, outcome, consumer, serviceVars, answer, worldVars>>
    BY DEF Refresh, Refreshed, Verdicts
  <1>2. [stored[u] EXCEPT !.verdict = v] \in Record
    BY DEF Typed, UserTyped, UserTypes, Record
  <1>3. UserTyped'
    BY <1>1, <1>2 DEF Typed, UserTyped, UserTypes, InHand, Record
  <1> QED BY <1>1, <1>3, Untouched DEF Typed, serviceVars

LEMMA CrashUTyped ==
  ASSUME Typed, CrashU
  PROVE  Typed'
  <1>1. /\ phase' = [u \in Sub |-> IF Active(u) THEN "closed" ELSE phase[u]]
        /\ stored' = [u \in Sub |->
             IF stored[u].state = "pending" THEN [stored[u] EXCEPT !.state = "interrupted", !.response = NULL] ELSE stored[u]]
        /\ answer' = [answer EXCEPT !["U"] = NULL]
        /\ Forsake("R", "U") /\ faults' = faults + 1
        /\ UNCHANGED <<mode, scenario, cancel, wire, verdict, outcome, consumer,
                       execution, nonces, issued, backlog, effect, replies, preExec, retired, expired, calls>>
    BY DEF CrashU, Fault
  <1>2. WaitingTyped' /\ JobTyped'
    BY <1>1, ForsakeTyped DEF Service
  <1>3. AnswerTyped'
    <2>1. answer' = [answer EXCEPT !["U"] = NULL]
      BY <1>1
    <2> QED BY <2>1 DEF Typed, AnswerTyped
  <1>6. WorldTyped'
    <2>1. faults' = faults + 1 /\ UNCHANGED <<preExec, retired, expired, calls>>
      BY <1>1
    <2> QED BY <2>1 DEF Typed, WorldTyped
  <1>4. UserTypes'
    <2>1. ASSUME NEW u \in Sub
          PROVE  [stored[u] EXCEPT !.state = "interrupted", !.response = NULL] \in Record /\ stored[u] \in Record
      BY DEF Typed, UserTyped, UserTypes, Record, States
    <2> QED BY <1>1, <2>1 DEF Typed, UserTyped, UserTypes, Record
  <1>5. \A v \in Sub : InHand(v)'
    BY <1>1 DEF Typed, UserTyped, UserTypes, InHand, Active
  <1> QED BY <1>1, <1>2, <1>3, <1>4, <1>5, <1>6, Untouched DEF Typed, UserTyped

LEMMA WorldStepTyped ==
  ASSUME Typed,
         \/ \E r \in Service, u \in Sub : Resubmit(r, u)
         \/ \E p \in {"U", "R", "M"} : Retire(p)
         \/ \E u \in Sub : Expire(u)
  PROVE  Typed'
  <1>1. ASSUME NEW r \in Service, NEW u \in Sub, Resubmit(r, u)
        PROVE  Typed'
    <2>1. PICK b \in Bodies : Place(r, [sub |-> u, body |-> b, scenario |-> "normal", caller |-> "none"])
      BY <1>1 DEF Resubmit
    <2>2. [sub |-> u, body |-> b, scenario |-> "normal", caller |-> "none"] \in Call(r)
      BY CallMade, InferenceAssumption DEF InferenceAssumption
    <2>3. WaitingTyped'
      BY <2>1, <2>2, PlaceTyped
    <2>4. WorldTyped'
      BY <1>1 DEF Resubmit, Typed, WorldTyped
    <2> QED BY <1>1, <2>3, <2>4, Untouched DEF Resubmit, Typed
  <1>2. ASSUME NEW p \in {"U", "R", "M"}, Retire(p)
        PROVE  Typed'
    <2>1. WorldTyped'
      BY <1>2 DEF Retire, Fault, Typed, WorldTyped
    <2> QED BY <1>2, <2>1, Untouched DEF Retire, Typed, serviceVars
  <1>3. ASSUME NEW u \in Sub, Expire(u)
        PROVE  Typed'
    <2>1. WorldTyped'
      BY <1>3 DEF Expire, Fault, Typed, WorldTyped
    <2> QED BY <1>3, <2>1, Untouched DEF Expire, Typed, serviceVars
  <1> QED BY <1>1, <1>2, <1>3

-----------------------------------------------------------------------------
(* What a service knows of a request it has taken up. *)

(* About u, and claimed by it: nothing has happened before the record is   *)
(* there.                                                                  *)
TakenUp(r, u) ==
  IF execution[r][u] = NULL
  THEN effect[r][u] = 0 /\ \A a \in issued[r] : a.sub # u
  ELSE /\ nonces[r][NonceOf[u]] = u
       /\ effect[r][u] \in {0, 1}
       /\ execution[r][u].result # NULL => effect[r][u] = 1

(* The job a service is in is the only one that works on its request. *)
Underway(r) ==
  job[r] # NULL =>
    LET u == job[r].call.sub  stage == job[r].stage IN
      /\ nonces[r][NonceOf[u]] = u
      /\ stage = "claimed" <=> execution[r][u] = NULL
      /\ stage # "claimed" => execution[r][u].result = NULL
      /\ stage \in {"asking", "worked", "queued"} <=> effect[r][u] = 1
      /\ stage # "queued" => \A a \in issued[r] : a.sub # u
      /\ stage = "worked" =>
           LET st == IF r = "M" THEN job[r].result.receipt ELSE job[r].result.relay IN st # NULL => st.sub = u

OneEach(r) == \A a, b \in issued[r] : a.sub = b.sub => a = b

Once(r) == (\A u \in Sub : TakenUp(r, u)) /\ Underway(r) /\ OneEach(r)

(* Steps that leave the records of r alone and at most end its job or the  *)
(* wait for it.                                                            *)
Quiet(r) ==
  /\ execution'[r] = execution[r] /\ nonces'[r] = nonces[r] /\ issued'[r] = issued[r] /\ effect'[r] = effect[r]
  /\ job'[r] # NULL =>
       /\ job[r] # NULL
       /\ job'[r].call.sub = job[r].call.sub /\ job'[r].stage = job[r].stage /\ job'[r].result = job[r].result

LEMMA QuietKeeps ==
  ASSUME Typed, NEW r \in Service, Once(r), Quiet(r)
  PROVE  Once(r)'
  <1>1. (\A u \in Sub : TakenUp(r, u))' /\ OneEach(r)'
    BY DEF Once, Quiet, TakenUp, OneEach
  <1>2. Underway(r)'
    BY DEF Once, Quiet, Underway
  <1> QED BY <1>1, <1>2 DEF Once

(* What a crash or a caller that gives up leaves of a job. *)
LEMMA LeftJob ==
  ASSUME Typed, NEW r \in Service, NEW w, LeaveJob(job[r], w) # NULL
  PROVE  LET j == LeaveJob(job[r], w) IN
         /\ job[r] # NULL /\ j.call.sub = job[r].call.sub /\ j.stage = job[r].stage /\ j.result = job[r].result
  <1>1. job[r] # NULL /\ job[r] \in Job(r)
    BY DEF LeaveJob, Typed, JobTyped
  <1>2. LeaveJob(job[r], w).call = Leave(job[r].call, w) /\ job[r].call \in Call(r)
    BY <1>1, Jobs
  <1>3. Leave(job[r].call, w).sub = job[r].call.sub
    BY <1>2, Calls
  <1> QED BY <1>1, <1>2, <1>3, Jobs

AllOnce == \A r \in Service : Once(r)

LEMMA QuietEverywhere ==
  ASSUME Typed, AllOnce, \A r \in Service : Quiet(r)
  PROVE  AllOnce'
  BY QuietKeeps DEF AllOnce

LEMMA OneWorks ==
  ASSUME Typed, AllOnce, NEW r \in Service, Once(r)', \A s \in Service \ {r} : Quiet(s)
  PROVE  AllOnce'
  BY QuietKeeps DEF AllOnce

(* The steps in which no service starts or finishes anything. *)
LEMMA QuietSteps ==
  ASSUME Typed,
         \/ UNCHANGED vars
         \/ \E u \in Sub : Ask(u) \/ Cancel(u) \/ UserStep(u) \/ Refresh(u) \/ Expire(u)
         \/ \E r \in Service : Repeat(r) \/ Refuse(r) \/ GiveUp(r) \/ Drain(r) \/ CrashService(r)
         \/ NoModel \/ ModelTimeout \/ CrashU
         \/ \E r \in Service, u \in Sub : Resubmit(r, u)
         \/ \E p \in {"U", "R", "M"} : Retire(p)
  PROVE  \A s \in Service : Quiet(s)
  <1> SUFFICES ASSUME NEW s \in Service
               PROVE  Quiet(s)
    OBVIOUS
  <1>1. UNCHANGED <<job, execution, nonces, issued, effect>> => Quiet(s)
    BY DEF Quiet
  <1>2. ASSUME NEW r \in Service, NEW w, UNCHANGED <<execution, nonces, issued, effect>>, Forsake(r, w)
        PROVE  Quiet(s)
    <2>1. job'[s] = IF s = r THEN LeaveJob(job[s], w) ELSE job[s]
      BY <1>2 DEF Forsake, Typed, JobTyped
    <2> QED BY <1>2, <2>1, LeftJob DEF Quiet
  <1>3. ASSUME NEW r \in Service, UNCHANGED <<execution, nonces, issued, effect>>, job' = [job EXCEPT ![r] = NULL]
        PROVE  Quiet(s)
    <2>1. job'[s] = IF s = r THEN NULL ELSE job[s]
      BY <1>3 DEF Typed, JobTyped
    <2> QED BY <1>3, <2>1 DEF Quiet
  <1>4. ASSUME NEW r \in Service, NEW w, UNCHANGED <<execution, nonces, issued, effect>>,
               job' = [x \in Service |-> IF x = r THEN NULL ELSE LeaveJob(job[x], w)]
        PROVE  Quiet(s)
    BY <1>4, LeftJob DEF Quiet
  <1>5. CASE UNCHANGED vars
    BY <1>1, <1>5 DEF vars, serviceVars
  <1>6. ASSUME NEW u \in Sub, Ask(u) \/ Cancel(u) \/ UserStep(u) \/ Refresh(u) \/ Expire(u)
        PROVE  Quiet(s)
    <2>1. CASE AnswerTimeout(u)
      BY <1>2, <2>1 DEF AnswerTimeout, Service
    <2>2. CASE Ask(u) \/ Cancel(u) \/ Refresh(u) \/ Expire(u)
      BY <1>1, <2>2 DEF Ask, Cancel, Refresh, Expire, serviceVars
    <2>3. CASE Transmit(u) \/ NoAnswer(u) \/ Receive(u) \/ Judge(u) \/ Conclude(u) \/ Save(u) \/ Return(u)
      BY <1>1, <2>3 DEF Transmit, NoAnswer, Receive, Judge, Conclude, Save, Return, serviceVars
    <2> QED BY <1>6, <2>1, <2>2, <2>3 DEF UserStep
  <1>7. ASSUME NEW r \in Service, Repeat(r) \/ Refuse(r) \/ GiveUp(r) \/ Drain(r) \/ CrashService(r)
        PROVE  Quiet(s)
    <2>1. CASE Repeat(r) \/ Refuse(r) \/ Drain(r)
      BY <1>1, <2>1 DEF Repeat, Refuse, Reject, Drain
    <2>2. CASE GiveUp(r)
      BY <1>3, <2>2 DEF GiveUp, Fail
    <2>3. CASE CrashService(r)
      BY <1>4, <2>3 DEF CrashService
    <2> QED BY <1>7, <2>1, <2>2, <2>3
  <1>8. CASE NoModel
    BY <1>3, <1>8 DEF NoModel, Service
  <1>9. CASE ModelTimeout
    BY <1>4, <1>9 DEF ModelTimeout, Service
  <1>10. CASE CrashU
    <2>1. Forsake("R", "U") /\ UNCHANGED <<execution, nonces, issued, effect>>
      BY <1>10 DEF CrashU
    <2> QED BY <1>2, <2>1 DEF Service
  <1>11. CASE \E r \in Service, u \in Sub : Resubmit(r, u)
    BY <1>1, <1>11 DEF Resubmit
  <1>12. CASE \E p \in {"U", "R", "M"} : Retire(p)
    BY <1>1, <1>12 DEF Retire, serviceVars
  <1> QED BY <1>5, <1>6, <1>7, <1>8, <1>9, <1>10, <1>11, <1>12

LEMMA BeginOnce ==
  ASSUME Typed, AllOnce, NEW r \in Service, Begin(r)
  PROVE  AllOnce'
  <1>1. PICK c \in waiting[r] :
          /\ job[r] = NULL /\ execution[r][c.sub] = NULL /\ nonces[r][NonceOf[c.sub]] = NULL
          /\ nonces' = [nonces EXCEPT ![r] = [nonces[r] EXCEPT ![NonceOf[c.sub]] = c.sub]]
          /\ job' = [job EXCEPT ![r] = [call |-> c, stage |-> "claimed", result |-> NULL]]
          /\ UNCHANGED <<execution, issued, effect>>
    BY DEF Begin, Claimable
  <1> DEFINE u == c.sub
  <1>2. c \in Call(r) /\ u \in Sub /\ NonceOf[u] \in Nonce /\ NULL \notin Sub
    BY Calls, InferenceAssumption, ValuesAssumption DEF InferenceAssumption, ValuesAssumption, Typed, WaitingTyped
  <1>3. job'[r] = [call |-> c, stage |-> "claimed", result |-> NULL]
    BY <1>1 DEF Typed, JobTyped
  <1>4. nonces'[r] = [nonces[r] EXCEPT ![NonceOf[u]] = u]
    BY <1>1 DEF Typed, RecordsTyped
  <1>5. \A v \in Sub : TakenUp(r, v)'
    <2> SUFFICES ASSUME NEW v \in Sub
                 PROVE  TakenUp(r, v)'
      OBVIOUS
    <2>1. TakenUp(r, v)
      BY DEF AllOnce, Once
    <2>2. execution[r][v] # NULL => nonces'[r][NonceOf[v]] = v
      <3>1. execution[r][v] # NULL => nonces[r][NonceOf[v]] = v /\ v # NULL
        BY <1>2, <2>1 DEF TakenUp
      <3>2. NonceOf[v] \in Nonce
        BY InferenceAssumption DEF InferenceAssumption
      <3> QED BY <1>1, <1>2, <1>4, <3>1, <3>2 DEF Typed, RecordsTyped
    <2> QED BY <1>1, <2>1, <2>2 DEF TakenUp
  <1>6. Underway(r)'
    <2>1. nonces'[r][NonceOf[u]] = u
      BY <1>2, <1>4 DEF Typed, RecordsTyped
    <2>2. effect[r][u] = 0 /\ \A a \in issued[r] : a.sub # u
      BY <1>1, <1>2 DEF AllOnce, Once, TakenUp
    <2> QED BY <1>1, <1>3, <2>1, <2>2 DEF Underway
  <1>7. OneEach(r)'
    BY <1>1 DEF AllOnce, Once, OneEach
  <1>8. \A s \in Service \ {r} : Quiet(s)
    BY <1>1 DEF Quiet, Typed, JobTyped, RecordsTyped
  <1> QED BY <1>5, <1>6, <1>7, <1>8, OneWorks DEF Once

(* The job of r goes on to stage t and the records of r other than what is *)
(* named stay.                                                             *)
LEMMA StageJob ==
  ASSUME Typed, NEW r \in Service, NEW s, At(r, s), NEW t \in Stages, SetStage(r, t)
  PROVE  /\ job'[r] # NULL /\ job'[r].call = job[r].call /\ job'[r].stage = t /\ job'[r].result = job[r].result
         /\ \A x \in Service \ {r} : job'[x] = job[x]
  <1>1. job' = [job EXCEPT ![r] = [job[r] EXCEPT !.stage = t]]
    BY DEF SetStage
  <1>2. [job[r] EXCEPT !.stage = t] \in Job(r) /\ [job[r] EXCEPT !.stage = t].call = job[r].call
        /\ [job[r] EXCEPT !.stage = t].stage = t /\ [job[r] EXCEPT !.stage = t].result = job[r].result
    BY AtJob, StageMoves
  <1> DEFINE j == [job[r] EXCEPT !.stage = t]
  <1>3. job'[r] = j /\ \A x \in Service \ {r} : job'[x] = job[x]
    BY <1>1 DEF Typed, JobTyped
  <1> HIDE DEF j
  <1> QED BY <1>2, <1>3, Distinct DEF j

LEMMA FinishJob ==
  ASSUME Typed, NEW r \in Service, NEW s, At(r, s), NEW x \in ResultOf(r), Finish(r, x)
  PROVE  /\ job'[r] # NULL /\ job'[r].call = job[r].call /\ job'[r].stage = "worked" /\ job'[r].result = x
         /\ \A z \in Service \ {r} : job'[z] = job[z]
  <1> DEFINE j == [call |-> job[r].call, stage |-> "worked", result |-> x]
  <1>1. job'[r] = j /\ \A z \in Service \ {r} : job'[z] = job[z]
    BY DEF Finish, Typed, JobTyped
  <1>2. j \in Job(r)
    BY AtJob, JobMade DEF Stages
  <1> QED BY <1>1, <1>2, Distinct

LEMMA StartOnce ==
  ASSUME Typed, AllOnce, NEW r \in Service, Start(r)
  PROVE  AllOnce'
  <1> DEFINE c == job[r].call
             u == c.sub
             e == [body |-> c.body, result |-> NULL]
  <1>1. /\ At(r, "claimed") /\ SetStage(r, "started")
        /\ execution' = [execution EXCEPT ![r] = [execution[r] EXCEPT ![u] = e]]
        /\ UNCHANGED <<nonces, issued, effect>>
    BY DEF Start
  <1>2. e \in Execution(r) /\ u \in Sub /\ e.result = NULL
    BY <1>1, AtJob DEF Execution
  <1>3. /\ job[r] # NULL /\ job[r].stage = "claimed"
        /\ job'[r].call = c /\ job'[r].stage = "started" /\ \A x \in Service \ {r} : job'[x] = job[x]
    BY <1>1, StageJob, AtJob DEF Stages
  <1> HIDE DEF e
  <1>4. execution'[r] = [execution[r] EXCEPT ![u] = e] /\ e # NULL
    BY <1>1, <1>2, Distinct DEF Typed, RecordsTyped
  <1>5. /\ nonces[r][NonceOf[u]] = u /\ execution[r][u] = NULL /\ effect[r][u] = 0
        /\ \A a \in issued[r] : a.sub # u
    BY <1>2, <1>3 DEF AllOnce, Once, Underway, TakenUp
  <1>6. execution'[r][u] = e /\ \A v \in Sub \ {u} : execution'[r][v] = execution[r][v]
    BY <1>2, <1>4 DEF Typed, RecordsTyped
  <1> HIDE DEF u, c
  <1>7. \A v \in Sub : TakenUp(r, v)'
    <2> SUFFICES ASSUME NEW v \in Sub
                 PROVE  TakenUp(r, v)'
      OBVIOUS
    <2>1. TakenUp(r, v)
      BY DEF AllOnce, Once
    <2>2. CASE v = u
      BY <1>1, <1>2, <1>4, <1>5, <1>6, <2>2 DEF TakenUp
    <2>3. CASE v # u
      BY <1>1, <1>6, <2>1, <2>3 DEF TakenUp
    <2> QED BY <2>2, <2>3
  <1>8. Underway(r)'
    BY <1>1, <1>2, <1>3, <1>4, <1>5, <1>6 DEF Underway, u
  <1>9. OneEach(r)'
    BY <1>1 DEF AllOnce, Once, OneEach
  <1>10. \A x \in Service \ {r} : Quiet(x)
    BY <1>1, <1>3 DEF Quiet, Typed, RecordsTyped
  <1> QED BY <1>7, <1>8, <1>9, <1>10, OneWorks DEF Once

(* The effect of the request r is at. *)
LEMMA EffectOnce ==
  ASSUME Typed, AllOnce, NEW r \in Service, At(r, "started"), UNCHANGED <<execution, nonces, issued>>,
         effect' = [effect EXCEPT ![r][job[r].call.sub] = @ + 1],
         \A x \in Service \ {r} : job'[x] = NULL \/ job'[x] = job[x],
         job'[r] # NULL =>
           /\ job'[r].call = job[r].call /\ job'[r].stage \in {"asking", "worked"}
           /\ job'[r].stage = "worked" =>
                LET st == IF r = "M" THEN job'[r].result.receipt ELSE job'[r].result.relay
                IN st # NULL => st.sub = job[r].call.sub
  PROVE  AllOnce'
  <1> DEFINE u == job[r].call.sub
  <1>1. u \in Sub /\ job[r] # NULL /\ job[r].stage = "started"
    BY AtJob
  <1>2. /\ nonces[r][NonceOf[u]] = u /\ execution[r][u] # NULL /\ execution[r][u].result = NULL
        /\ \A a \in issued[r] : a.sub # u
    BY <1>1 DEF AllOnce, Once, Underway
  <1>3. effect[r][u] = 0
    BY <1>1, <1>2 DEF AllOnce, Once, Underway, TakenUp
  <1>4. effect' = [effect EXCEPT ![r] = [effect[r] EXCEPT ![u] = @ + 1]]
    OBVIOUS
  <1>5. effect'[r][u] = 1 /\ \A v \in Sub \ {u} : effect'[r][v] = effect[r][v]
    BY <1>1, <1>3, <1>4 DEF Typed, HistoryTyped
  <1>6. \A v \in Sub : TakenUp(r, v)'
    <2> SUFFICES ASSUME NEW v \in Sub
                 PROVE  TakenUp(r, v)'
      OBVIOUS
    <2>1. TakenUp(r, v)
      BY DEF AllOnce, Once
    <2>2. CASE v = u
      BY <1>2, <1>5, <2>2 DEF TakenUp
    <2>3. CASE v # u
      BY <1>5, <2>1, <2>3 DEF TakenUp
    <2> QED BY <2>2, <2>3
  <1>7. Underway(r)'
    BY <1>2, <1>5 DEF Underway
  <1>8. OneEach(r)'
    BY DEF AllOnce, Once, OneEach
  <1>9. \A x \in Service \ {r} : Quiet(x)
    BY <1>4 DEF Quiet, Typed, HistoryTyped
  <1> QED BY <1>6, <1>7, <1>8, <1>9, OneWorks DEF Once

(* What RunModel and HearModel make of a request. *)
LEMMA ModelResult ==
  ASSUME Typed, RunModel
  PROVE  \E x \in ResultOf("M") : Finish("M", x) /\ x.receipt.sub = job["M"].call.sub /\ x.receipt.resp = x.resp
  <1> DEFINE c == job["M"].call
             text == [of |-> c.body, run |-> effect["M"][c.sub] + 1]
             receipt == [iss |-> "M", sub |-> c.sub, nonce |-> NonceOf[c.sub], req |-> c.body, resp |-> text]
             x == [resp |-> text, receipt |-> receipt]
  <1>1. At("M", "started") /\ Finish("M", x)
    BY DEF RunModel
  <1>2. job["M"].call.sub \in Sub /\ c.body \in Bodies /\ NonceOf[c.sub] \in Nonce /\ effect["M"][c.sub] \in Nat
    <2>1. c.sub \in Sub /\ c.body \in Bodies
      BY <1>1, AtJob DEF Service
    <2> QED BY <2>1, InferenceAssumption DEF InferenceAssumption, Typed, HistoryTyped, Service
  <1>3. text \in Text
    BY <1>2 DEF Text
  <1> HIDE DEF text
  <1>4. receipt \in Receipt
    BY <1>2, <1>3 DEF Receipt
  <1>5. x \in ResultOf("M")
    BY <1>3, <1>4 DEF ResultOf
  <1> QED BY <1>1, <1>5

LEMMA RelayedResult ==
  ASSUME Typed, HearModel
  PROVE  LET m == answer["R"]
             x == RelayResult(job["R"].call, m)
             l == x.relay
         IN /\ m \in ResultOf("M") /\ x \in ResultOf("R") /\ Finish("R", x)
            /\ x.receipt = NULL \/ x.receipt = m.receipt
            /\ l # NULL => l.sub = job["R"].call.sub /\ l.respIn = m.resp /\ l.respOut = x.resp
  <1> DEFINE m == answer["R"]
             c == job["R"].call
             x == RelayResult(c, m)
             text == IF c.scenario = "response_tamper" THEN Tampered ELSE m.resp
             receipt == IF c.scenario = "missing_receipt" THEN NULL ELSE m.receipt
             relay == [iss |-> "R", sub |-> c.sub, nonce |-> NonceOf[c.sub], reqIn |-> c.body, reqOut |-> Outgoing(c),
                       respIn |-> m.resp, respOut |-> text]
             l == IF c.scenario = "missing_relay" THEN NULL ELSE relay
  <1>1. At("R", "asking") /\ m \in ResultOf("M") /\ Finish("R", x)
    BY DEF HearModel, Typed, AnswerTyped
  <1>2. c \in Call("R") /\ c.sub \in Sub /\ c.body \in Bodies
    BY <1>1, AtJob DEF Service
  <1>3. m.resp \in Text /\ m.receipt \in Receipt
    BY <1>1, Results
  <1>4. text \in Text /\ receipt \in Receipt \cup {NULL}
    BY <1>3 DEF Text
  <1>5. Outgoing(c) \in Bodies /\ NonceOf[c.sub] \in Nonce
    BY <1>2, InferenceAssumption DEF Outgoing, Bodies, InferenceAssumption
  <1>6. x = [resp |-> text, receipt |-> receipt, relay |-> l]
    BY DEF RelayResult
  <1>7. l # NULL => l.sub = c.sub /\ l.respIn = m.resp /\ l.respOut = text
    OBVIOUS
  <1>8. receipt = NULL \/ receipt = m.receipt
    OBVIOUS
  <1> HIDE DEF text, receipt
  <1>9. relay \in Relay
    BY <1>2, <1>3, <1>4, <1>5 DEF Relay
  <1>10. l \in Relay \cup {NULL}
    BY <1>9
  <1> HIDE DEF l, x, m, c
  <1>11. x \in ResultOf("R")
    BY <1>4, <1>6, <1>10, ResultMade
  <1>12. x.receipt = receipt /\ x.relay = l /\ x.resp = text
    BY <1>6
  <1>13. x.relay # NULL => x.relay.sub = c.sub /\ x.relay.respIn = m.resp /\ x.relay.respOut = x.resp
    BY <1>7, <1>12
  <1> QED BY <1>1, <1>8, <1>11, <1>12, <1>13 DEF m, c, x

LEMMA WorkOnce ==
  ASSUME Typed, AllOnce, RunModel \/ AskModel \/ HearModel \/ ModelFails
  PROVE  AllOnce'
  <1>0. "R" \in Service /\ "M" \in Service
    BY DEF Service
  <1>1. CASE RunModel
    <2>1. PICK x \in ResultOf("M") : Finish("M", x) /\ x.receipt.sub = job["M"].call.sub
      BY <1>1, ModelResult
    <2>2. /\ At("M", "started") /\ UNCHANGED <<execution, nonces, issued>>
          /\ effect' = [effect EXCEPT !["M"][job["M"].call.sub] = @ + 1]
      BY <1>1 DEF RunModel
    <2>3. /\ job'["M"].call = job["M"].call /\ job'["M"].stage = "worked" /\ job'["M"].result = x
          /\ \A z \in Service \ {"M"} : job'[z] = job[z]
      BY <1>0, <2>1, <2>2, FinishJob
    <2> QED BY <1>0, <2>1, <2>2, <2>3, EffectOnce
  <1>2. CASE AskModel
    <2>1. /\ At("R", "started") /\ UNCHANGED <<execution, nonces, issued>> /\ SetStage("R", "asking")
          /\ effect' = [effect EXCEPT !["R"][job["R"].call.sub] = @ + 1]
      BY <1>2 DEF AskModel
    <2>2. /\ job'["R"].call = job["R"].call /\ job'["R"].stage = "asking"
          /\ \A z \in Service \ {"R"} : job'[z] = job[z]
      BY <1>0, <2>1, StageJob DEF Stages
    <2> QED BY <1>0, <2>1, <2>2, EffectOnce
  <1>3. CASE HearModel
    <2> DEFINE x == RelayResult(job["R"].call, answer["R"])
    <2>1. /\ x \in ResultOf("R") /\ Finish("R", x) /\ (x.relay # NULL => x.relay.sub = job["R"].call.sub)
      BY <1>3, RelayedResult
    <2>2. At("R", "asking") /\ UNCHANGED <<execution, nonces, issued, effect>>
      BY <1>3 DEF HearModel
    <2> HIDE DEF x
    <2>3. /\ job'["R"].call = job["R"].call /\ job'["R"].stage = "worked" /\ job'["R"].result = x
          /\ \A z \in Service \ {"R"} : job'[z] = job[z]
      BY <1>0, <2>1, <2>2, FinishJob
    <2>4. Underway("R")'
      <3>1. Underway("R") /\ job["R"] # NULL /\ job["R"].stage = "asking"
        BY <1>0, <2>2, AtJob DEF AllOnce, Once
      <3> QED BY <2>1, <2>2, <2>3, <3>1 DEF Underway
    <2>5. (\A u \in Sub : TakenUp("R", u))' /\ OneEach("R")'
      BY <1>0, <2>2 DEF AllOnce, Once, TakenUp, OneEach
    <2>6. \A z \in Service \ {"R"} : Quiet(z)
      BY <2>2, <2>3 DEF Quiet
    <2> QED BY <1>0, <2>4, <2>5, <2>6, OneWorks DEF Once
  <1>4. CASE ModelFails
    <2>1. /\ At("M", "started") /\ job' = [job EXCEPT !["M"] = NULL] /\ UNCHANGED <<execution, nonces, issued>>
          /\ effect' = effect \/ effect' = [effect EXCEPT !["M"][job["M"].call.sub] = @ + 1]
      BY <1>4 DEF ModelFails, Fail
    <2>2. job'["M"] = NULL /\ \A z \in Service \ {"M"} : job'[z] = job[z]
      BY <1>0, <2>1 DEF Typed, JobTyped
    <2>3. CASE effect' = effect
      <3>1. \A z \in Service : Quiet(z)
        BY <2>1, <2>2, <2>3 DEF Quiet
      <3> QED BY <3>1, QuietEverywhere
    <2>4. CASE effect' = [effect EXCEPT !["M"][job["M"].call.sub] = @ + 1]
      BY <1>0, <2>1, <2>2, <2>4, EffectOnce
    <2> QED BY <2>1, <2>3, <2>4
  <1> QED BY <1>1, <1>2, <1>3, <1>4

LEMMA QueueOnce ==
  ASSUME Typed, AllOnce, NEW r \in Service, Queue(r)
  PROVE  AllOnce'
  <1> DEFINE st == IF r = "M" THEN job[r].result.receipt ELSE job[r].result.relay
             u == job[r].call.sub
  <1>1. /\ At(r, "worked") /\ SetStage(r, "queued") /\ UNCHANGED <<execution, nonces, effect>>
        /\ IF st = NULL THEN UNCHANGED issued ELSE issued' = [issued EXCEPT ![r] = @ \cup {st}]
    BY DEF Queue
  <1>2. /\ job[r] # NULL /\ job[r].stage = "worked" /\ u \in Sub
        /\ job'[r].call = job[r].call /\ job'[r].stage = "queued"
        /\ \A x \in Service \ {r} : job'[x] = job[x]
    BY <1>1, AtJob, StageJob DEF Stages
  <1>3. /\ nonces[r][NonceOf[u]] = u /\ execution[r][u] # NULL /\ execution[r][u].result = NULL /\ effect[r][u] = 1
        /\ st # NULL => st.sub = u
        /\ \A a \in issued[r] : a.sub # u
    BY <1>2 DEF AllOnce, Once, Underway
  <1> HIDE DEF st
  <1>4. /\ issued'[r] = IF st = NULL THEN issued[r] ELSE issued[r] \cup {st}
        /\ \A x \in Service \ {r} : issued'[x] = issued[x]
    BY <1>1 DEF Typed, OutboxTyped
  <1>5. \A v \in Sub : TakenUp(r, v)'
    <2> SUFFICES ASSUME NEW v \in Sub
                 PROVE  TakenUp(r, v)'
      OBVIOUS
    <2>1. TakenUp(r, v)
      BY DEF AllOnce, Once
    <2> HIDE DEF u
    <2> QED BY <1>1, <1>3, <1>4, <2>1 DEF TakenUp
  <1>6. Underway(r)'
    BY <1>1, <1>2, <1>3 DEF Underway
  <1>7. OneEach(r)'
    <2> HIDE DEF u
    <2> QED BY <1>3, <1>4 DEF AllOnce, Once, OneEach
  <1>8. \A x \in Service \ {r} : Quiet(x)
    BY <1>1, <1>2, <1>4 DEF Quiet
  <1> QED BY <1>5, <1>6, <1>7, <1>8, OneWorks DEF Once

LEMMA CompleteOnce ==
  ASSUME Typed, AllOnce, NEW r \in Service, Complete(r)
  PROVE  AllOnce' /\ execution[r][job[r].call.sub] # NULL
  <1> DEFINE u == job[r].call.sub
             x == job[r].result
             e == [execution[r][u] EXCEPT !.result = x]
  <1>1. /\ At(r, "queued")
        /\ execution' = [execution EXCEPT ![r] = [execution[r] EXCEPT ![u] = e]]
        /\ job' = [job EXCEPT ![r] = NULL]
        /\ UNCHANGED <<nonces, issued, effect>>
    BY DEF Complete
  <1>2. job[r] # NULL /\ job[r].stage = "queued" /\ u \in Sub /\ x \in ResultOf(r)
    BY <1>1, AtJob
  <1>3. nonces[r][NonceOf[u]] = u /\ execution[r][u] # NULL /\ execution[r][u].result = NULL /\ effect[r][u] = 1
    BY <1>2 DEF AllOnce, Once, Underway
  <1>4. e \in Execution(r) /\ e.result = x
    <2>1. execution[r][u] \in Execution(r)
      BY <1>2, <1>3 DEF Typed, RecordsTyped
    <2> HIDE DEF u, x
    <2> QED BY <1>2, <2>1 DEF Execution
  <1> HIDE DEF e, x
  <1>5. /\ execution'[r] = [execution[r] EXCEPT ![u] = e]
        /\ \A z \in Service \ {r} : execution'[z] = execution[z]
        /\ job'[r] = NULL /\ \A z \in Service \ {r} : job'[z] = job[z]
    BY <1>1 DEF Typed, RecordsTyped, JobTyped
  <1>6. execution'[r][u] = e /\ \A v \in Sub \ {u} : execution'[r][v] = execution[r][v]
    BY <1>2, <1>5 DEF Typed, RecordsTyped
  <1>7. e # NULL
    BY <1>4, Distinct
  <1>8. \A v \in Sub : TakenUp(r, v)'
    <2> SUFFICES ASSUME NEW v \in Sub
                 PROVE  TakenUp(r, v)'
      OBVIOUS
    <2>1. TakenUp(r, v)
      BY DEF AllOnce, Once
    <2> HIDE DEF u
    <2>2. CASE v = u
      BY <1>1, <1>3, <1>6, <1>7, <2>2 DEF TakenUp
    <2>3. CASE v # u
      BY <1>1, <1>6, <2>1, <2>3 DEF TakenUp
    <2> QED BY <2>2, <2>3
  <1>9. Underway(r)' /\ OneEach(r)'
    BY <1>1, <1>5 DEF AllOnce, Once, Underway, OneEach
  <1>10. \A z \in Service \ {r} : Quiet(z)
    BY <1>1, <1>5 DEF Quiet
  <1> QED BY <1>3, <1>8, <1>9, <1>10, OneWorks DEF Once

-----------------------------------------------------------------------------

InferenceInv == Typed /\ AllOnce

LEMMA InitInv == Init => InferenceInv
  <1> SUFFICES ASSUME Init
               PROVE  InferenceInv
    OBVIOUS
  <1>1. UserTyped
    BY DEF Init, UserTyped, UserTypes, InHand, States, Verdicts
  <1>2. WaitingTyped /\ JobTyped /\ AnswerTyped
    BY DEF Init, WaitingTyped, JobTyped, Worked, AnswerTyped
  <1>3. RecordsTyped /\ OutboxTyped /\ HistoryTyped
    BY DEF Init, RecordsTyped, OutboxTyped, HistoryTyped
  <1>4. WorldTyped
    BY InferenceAssumption DEF Init, InferenceAssumption, WorldTyped
  <1>5. AllOnce
    BY DEF Init, AllOnce, Once, TakenUp, Underway, OneEach
  <1> QED BY <1>1, <1>2, <1>3, <1>4, <1>5 DEF InferenceInv, Typed

LEMMA NextInv == InferenceInv /\ [Next]_vars => InferenceInv'
  <1> SUFFICES ASSUME InferenceInv, [Next]_vars
               PROVE  InferenceInv'
    OBVIOUS
  <1>0. Typed /\ AllOnce
    BY DEF InferenceInv
  <1>1. CASE UNCHANGED vars
    <2>1. Typed'
      BY <1>0, <1>1, Untouched DEF vars, serviceVars, Typed
    <2> QED BY <1>0, <1>1, <2>1, QuietSteps, QuietEverywhere DEF InferenceInv
  <1>2. ASSUME NEW u \in Sub, Ask(u) \/ Cancel(u) \/ UserStep(u) \/ Refresh(u) \/ Expire(u)
        PROVE  InferenceInv'
    <2>1. Typed'
      BY <1>0, <1>2, AskTyped, CancelTyped, TransmitTyped, NoAnswerTyped, AnswerTimeoutTyped, ReceiveTyped, JudgeTyped,
         ConcludeTyped, SaveTyped, ReturnTyped, RefreshTyped, WorldStepTyped DEF UserStep
    <2> QED BY <1>0, <1>2, <2>1, QuietSteps, QuietEverywhere DEF InferenceInv
  <1>3. ASSUME NEW r \in Service, Repeat(r) \/ Refuse(r) \/ GiveUp(r) \/ Drain(r) \/ CrashService(r)
        PROVE  InferenceInv'
    <2>1. Typed'
      BY <1>0, <1>3, RepeatTyped, RefuseTyped, GiveUpTyped, DrainTyped, CrashServiceTyped
    <2> QED BY <1>0, <1>3, <2>1, QuietSteps, QuietEverywhere DEF InferenceInv
  <1>4. ASSUME NEW r \in Service, Begin(r) \/ Start(r) \/ Queue(r) \/ Complete(r)
        PROVE  InferenceInv'
    BY <1>0, <1>4, BeginTyped, BeginOnce, StartTyped, StartOnce, QueueTyped, QueueOnce, CompleteTyped, CompleteOnce
       DEF InferenceInv
  <1>5. CASE RunModel \/ AskModel \/ HearModel \/ ModelFails
    BY <1>0, <1>5, RunModelTyped, AskModelTyped, HearModelTyped, ModelFailsTyped, WorkOnce DEF InferenceInv
  <1>6. CASE NoModel \/ ModelTimeout \/ CrashU
    <2>1. Typed'
      BY <1>0, <1>6, NoModelTyped, ModelTimeoutTyped, CrashUTyped
    <2> QED BY <1>0, <1>6, <2>1, QuietSteps, QuietEverywhere DEF InferenceInv
  <1>7. CASE (\E r \in Service, u \in Sub : Resubmit(r, u)) \/ (\E p \in {"U", "R", "M"} : Retire(p))
    <2>1. Typed'
      BY <1>0, <1>7, WorldStepTyped
    <2> QED BY <1>0, <1>7, <2>1, QuietSteps, QuietEverywhere DEF InferenceInv
  <1> QED BY <1>1, <1>2, <1>3, <1>4, <1>5, <1>6, <1>7 DEF Next, ServiceStep, JobStep, ModelStep

(* The inductive part of the argument about the services: every variable   *)
(* is typed, and what a service has recorded, done and signed for a        *)
(* request agrees with the job it is in.                                   *)
THEOREM InferenceInvariant == Spec => []InferenceInv
  BY InitInv, NextInv, PTL DEF Spec

(* What the threads, the services and the records between them may hold    *)
(* (agent.py:196-336, service.py:240-309).                                 *)
THEOREM InferenceTypes == Spec => []TypeOK
  <1>1. InferenceInv => TypeOK
    BY TypedTypeOK DEF InferenceInv
  <1> QED BY <1>1, InferenceInvariant, PTL

(* A service signs at most one statement about a request: a restart after  *)
(* it was queued leaves the record that keeps a repeated call from signing *)
(* another.                                                                *)
THEOREM StatementsOnce == Spec => []OneStatement
  <1>1. InferenceInv => OneStatement
    BY DEF InferenceInv, AllOnce, Once, OneEach, OneStatement
  <1> QED BY <1>1, InferenceInvariant, PTL

(* Of the requests that share a nonce at most one has an effect            *)
(* (service.py:255-265).                                                   *)
THEOREM NoncesOnce == Spec => []NonceOnce
  <1>1. InferenceInv => NonceOnce
    BY DEF InferenceInv, AllOnce, Once, TakenUp, NonceOnce
  <1> QED BY <1>1, InferenceInvariant, PTL

-----------------------------------------------------------------------------
(* A service is a server that executes at most once. *)

LEMMA OutcomesOf ==
  ASSUME NEW r \in Service, NEW u \in Sub, InferenceInv
  PROVE  /\ DOMAIN OutcomeOf(r) = Sub /\ OutcomeOf(r) = [v \in Sub |-> OutcomeOf(r)[v]]
         /\ OutcomeOf(r)[u] = NULL <=> execution[r][u] = NULL
         /\ OutcomeOf(r)[u] = UNKNOWN <=> execution[r][u] # NULL /\ execution[r][u].result = NULL
         /\ execution[r][u] # NULL /\ execution[r][u].result # NULL => OutcomeOf(r)[u] = execution[r][u].result
  <1>1. execution[r][u] # NULL => execution[r][u].result \in {NULL} \cup ResultOf(r)
    BY DEF InferenceInv, Typed, RecordsTyped, Execution
  <1>2. NULL # UNKNOWN
    BY ValuesAssumption DEF ValuesAssumption
  <1> QED BY <1>1, <1>2, Distinct DEF OutcomeOf

(* What a service does to a request, seen from outside: nothing, or one of *)
(* the four actions of AtMostOnce.                                         *)
OneStep(r) ==
  LET out == OutcomeOf(r) IN
  \/ UNCHANGED <<out, effect[r], replies[r]>>
  \/ \E u \in Sub :
       \/ /\ out[u] = NULL
          /\ out' = [out EXCEPT ![u] = UNKNOWN]
          /\ UNCHANGED <<effect[r], replies[r]>>
       \/ /\ out[u] = UNKNOWN /\ effect[r][u] = 0
          /\ effect'[r] = [effect[r] EXCEPT ![u] = 1]
          /\ UNCHANGED <<out, replies[r]>>
       \/ /\ out[u] = UNKNOWN /\ effect[r][u] = 1
          /\ out'[u] \notin {NULL, UNKNOWN}
          /\ out' = [out EXCEPT ![u] = out'[u]]
          /\ replies'[r] = [replies[r] EXCEPT ![u] = @ \cup {out'[u]}]
          /\ UNCHANGED effect[r]
       \/ /\ out[u] \notin {NULL, UNKNOWN}
          /\ replies'[r] = [replies[r] EXCEPT ![u] = @ \cup {out[u]}]
          /\ UNCHANGED <<out, effect[r]>>

LEMMA Idle ==
  ASSUME NEW r \in Service, execution'[r] = execution[r], effect'[r] = effect[r], replies'[r] = replies[r]
  PROVE  OneStep(r)
  BY DEF OneStep, OutcomeOf

LEMMA RepeatStep ==
  ASSUME InferenceInv, NEW r \in Service, NEW s \in Service, Repeat(s)
  PROVE  OneStep(r)
  <1>1. PICK c \in waiting[s] :
          /\ execution[s][c.sub] # NULL /\ execution[s][c.sub].result # NULL
          /\ replies' = [replies EXCEPT ![s] = [replies[s] EXCEPT ![c.sub] = @ \cup {execution[s][c.sub].result}]]
          /\ UNCHANGED <<execution, effect>>
    BY DEF Repeat
  <1>2. c.sub \in Sub /\ DOMAIN replies = Service
    BY Calls DEF InferenceInv, Typed, WaitingTyped, HistoryTyped
  <1>3. CASE s # r
    BY <1>1, <1>2, <1>3, Idle
  <1>4. CASE s = r
    <2> DEFINE out == OutcomeOf(r)
               u == c.sub
    <2>1. out[u] \notin {NULL, UNKNOWN} /\ out[u] = execution[r][u].result
      BY <1>1, <1>2, <1>4, OutcomesOf
    <2>2. replies'[r] = [replies[r] EXCEPT ![u] = @ \cup {out[u]}]
      BY <1>1, <1>2, <1>4, <2>1
    <2>3. UNCHANGED <<out, effect[r]>>
      BY <1>1 DEF OutcomeOf
    <2> QED BY <1>2, <2>1, <2>2, <2>3 DEF OneStep
  <1> QED BY <1>3, <1>4

LEMMA StartStep ==
  ASSUME InferenceInv, InferenceInv', NEW r \in Service, NEW s \in Service, Start(s)
  PROVE  OneStep(r)
  <1> DEFINE u == job[s].call.sub
             e == [body |-> job[s].call.body, result |-> NULL]
             out == OutcomeOf(r)
  <1>1. /\ At(s, "claimed")
        /\ execution' = [execution EXCEPT ![s] = [execution[s] EXCEPT ![u] = e]]
        /\ UNCHANGED <<effect, replies>>
    BY DEF Start
  <1>2. u \in Sub /\ job[s] # NULL /\ job[s].stage = "claimed" /\ e \in Execution(s) /\ e.result = NULL
    BY <1>1, AtJob DEF InferenceInv, Execution
  <1> HIDE DEF e
  <1>3. execution[s][u] = NULL /\ e # NULL
    BY <1>2, Distinct DEF InferenceInv, AllOnce, Once, Underway
  <1>4. CASE s # r
    BY <1>1, <1>4, Idle DEF InferenceInv, Typed, RecordsTyped
  <1>5. CASE s = r
    <2>1. execution'[r][u] = e /\ \A v \in Sub \ {u} : execution'[r][v] = execution[r][v]
      BY <1>1, <1>2, <1>5 DEF InferenceInv, Typed, RecordsTyped
    <2>2. out[u] = NULL /\ out'[u] = UNKNOWN /\ \A v \in Sub \ {u} : out'[v] = out[v]
      BY <1>2, <1>3, <1>5, <2>1 DEF OutcomeOf
    <2>3. out' = [v \in Sub |-> out'[v]] /\ out = [v \in Sub |-> out[v]]
      BY DEF OutcomeOf
    <2> HIDE DEF out, u
    <2>4. out' = [out EXCEPT ![u] = UNKNOWN]
      BY <1>2, <2>2, <2>3
    <2> QED BY <1>1, <1>2, <2>2, <2>4 DEF OneStep, out
  <1> QED BY <1>4, <1>5

LEMMA EffectStep ==
  ASSUME InferenceInv, NEW r \in Service, NEW s \in Service, At(s, "started"),
         effect' = [effect EXCEPT ![s][job[s].call.sub] = @ + 1], UNCHANGED <<execution, replies>>
  PROVE  OneStep(r)
  <1> DEFINE u == job[s].call.sub
             out == OutcomeOf(r)
  <1>1. u \in Sub /\ job[s] # NULL /\ job[s].stage = "started"
    BY AtJob DEF InferenceInv
  <1>2. execution[s][u] # NULL /\ execution[s][u].result = NULL /\ effect[s][u] = 0
    BY <1>1 DEF InferenceInv, AllOnce, Once, Underway, TakenUp
  <1>3. effect' = [effect EXCEPT ![s] = [effect[s] EXCEPT ![u] = @ + 1]]
    OBVIOUS
  <1>4. CASE s # r
    BY <1>3, <1>4, Idle DEF InferenceInv, Typed, HistoryTyped
  <1>5. CASE s = r
    <2>1. effect'[r] = [effect[r] EXCEPT ![u] = 1]
      BY <1>1, <1>2, <1>3, <1>5 DEF InferenceInv, Typed, HistoryTyped
    <2>2. out[u] = UNKNOWN
      BY <1>1, <1>2, <1>5, OutcomesOf
    <2>3. UNCHANGED <<out, replies[r]>>
      BY DEF OutcomeOf
    <2> QED BY <1>1, <1>2, <1>5, <2>1, <2>2, <2>3 DEF OneStep
  <1> QED BY <1>4, <1>5

LEMMA CompleteStep ==
  ASSUME InferenceInv, InferenceInv', NEW r \in Service, NEW s \in Service, Complete(s)
  PROVE  OneStep(r)
  <1> DEFINE u == job[s].call.sub
             x == job[s].result
             e == [execution[s][u] EXCEPT !.result = x]
             out == OutcomeOf(r)
  <1>1. /\ At(s, "queued")
        /\ execution' = [execution EXCEPT ![s] = [execution[s] EXCEPT ![u] = e]]
        /\ replies' = [replies EXCEPT ![s] = [replies[s] EXCEPT ![u] = @ \cup {x}]]
        /\ UNCHANGED effect
    BY DEF Complete
  <1>2. job[s] # NULL /\ job[s].stage = "queued" /\ u \in Sub /\ x \in ResultOf(s)
    BY <1>1, AtJob DEF InferenceInv
  <1>3. execution[s][u] # NULL /\ execution[s][u].result = NULL /\ effect[s][u] = 1
    BY <1>2 DEF InferenceInv, AllOnce, Once, Underway
  <1>4. e \in Execution(s) /\ e.result = x
    <2>1. execution[s][u] \in Execution(s)
      BY <1>2, <1>3 DEF InferenceInv, Typed, RecordsTyped
    <2> HIDE DEF u, x
    <2> QED BY <1>2, <2>1 DEF Execution
  <1> HIDE DEF e, x
  <1>5. CASE s # r
    BY <1>1, <1>5, Idle DEF InferenceInv, Typed, RecordsTyped, HistoryTyped
  <1>6. CASE s = r
    <2>1. execution'[r][u] = e /\ \A v \in Sub \ {u} : execution'[r][v] = execution[r][v]
      BY <1>1, <1>2, <1>6 DEF InferenceInv, Typed, RecordsTyped
    <2>2. e # NULL /\ x \notin {NULL, UNKNOWN}
      BY <1>2, <1>4, Distinct
    <2>3. out[u] = UNKNOWN
      BY <1>2, <1>3, <1>6, OutcomesOf
    <2>4. out'[u] = x /\ \A v \in Sub \ {u} : out'[v] = out[v]
      BY <1>2, <1>4, <2>1, <2>2 DEF OutcomeOf
    <2>5. out' = [v \in Sub |-> out'[v]] /\ out = [v \in Sub |-> out[v]]
      BY DEF OutcomeOf
    <2>6. replies'[r] = [replies[r] EXCEPT ![u] = @ \cup {x}]
      BY <1>1, <1>6 DEF InferenceInv, Typed, HistoryTyped
    <2> HIDE DEF out, u
    <2>7. out' = [out EXCEPT ![u] = out'[u]]
      BY <1>2, <2>4, <2>5
    <2> QED BY <1>1, <1>2, <1>3, <1>6, <2>2, <2>3, <2>4, <2>6, <2>7 DEF OneStep, out
  <1> QED BY <1>5, <1>6

LEMMA NextStep ==
  ASSUME InferenceInv, InferenceInv', [Next]_vars, NEW r \in Service
  PROVE  OneStep(r)
  <1>0. Typed
    BY DEF InferenceInv
  <1>1. CASE UNCHANGED vars
    BY <1>1, Idle DEF vars, serviceVars
  <1>2. ASSUME NEW u \in Sub, Ask(u) \/ Cancel(u) \/ UserStep(u) \/ Refresh(u) \/ Expire(u)
        PROVE  OneStep(r)
    BY <1>2, Idle DEF Ask, Cancel, Refresh, Expire, UserStep, Transmit, NoAnswer, AnswerTimeout, Receive, Judge, Conclude,
                      Save, Return, serviceVars
  <1>3. ASSUME NEW s \in Service, Repeat(s) \/ Start(s) \/ Complete(s)
        PROVE  OneStep(r)
    BY <1>3, RepeatStep, StartStep, CompleteStep
  <1>4. ASSUME NEW s \in Service, Refuse(s) \/ GiveUp(s) \/ Drain(s) \/ CrashService(s) \/ Begin(s) \/ Queue(s)
        PROVE  OneStep(r)
    BY <1>4, Idle DEF Refuse, Reject, GiveUp, Drain, CrashService, Begin, Queue
  <1>5. CASE RunModel \/ AskModel
    BY <1>5, EffectStep DEF RunModel, AskModel, Service
  <1>6. CASE ModelFails
    <2>1. CASE effect' = effect
      BY <1>6, <2>1, Idle DEF ModelFails
    <2>2. CASE effect' = [effect EXCEPT !["M"][job["M"].call.sub] = @ + 1]
      BY <1>6, <2>2, EffectStep DEF ModelFails, Service
    <2> QED BY <1>6, <2>1, <2>2 DEF ModelFails
  <1>7. CASE HearModel \/ NoModel \/ ModelTimeout \/ CrashU
    BY <1>7, Idle DEF HearModel, NoModel, ModelTimeout, CrashU
  <1>8. CASE (\E s \in Service, u \in Sub : Resubmit(s, u)) \/ (\E p \in {"U", "R", "M"} : Retire(p))
    BY <1>8, Idle DEF Resubmit, Retire, serviceVars
  <1> QED BY <1>1, <1>2, <1>3, <1>4, <1>5, <1>6, <1>7, <1>8 DEF Next, ServiceStep, JobStep, ModelStep

LEMMA InitOutcome ==
  ASSUME Init, NEW r \in Service
  PROVE  /\ OutcomeOf(r) = [u \in Sub |-> NULL]
         /\ effect[r] = [u \in Sub |-> 0] /\ replies[r] = [u \in Sub |-> {}]
  BY DEF Init, OutcomeOf

(* R is an instance of a server that executes a request at most once and   *)
(* gives one answer to it, whatever M, the callers and the crashes do.     *)
THEOREM RelayExecutesOnce == Spec => RelayOnce
  <1>1. Init => AtRelay!Init
    BY InitOutcome DEF AtRelay!Init, Service
  <1>2. InferenceInv /\ InferenceInv' /\ [Next]_vars => [AtRelay!Next]_<<OutcomeOf("R"), effect["R"], replies["R"]>>
    <2> SUFFICES ASSUME InferenceInv, InferenceInv', [Next]_vars
                 PROVE  [AtRelay!Next]_<<OutcomeOf("R"), effect["R"], replies["R"]>>
      OBVIOUS
    <2>1. OneStep("R")
      BY NextStep DEF Service
    <2> QED BY <2>1 DEF OneStep, AtRelay!Next, AtRelay!TakeUp, AtRelay!Execute, AtRelay!Settle, AtRelay!Repeat
  <1> QED BY <1>1, <1>2, InferenceInvariant, PTL DEF Spec, RelayOnce, AtRelay!Spec, AtRelay!onceVars

(* So is M: the model runs at most once for a request.                     *)
THEOREM ModelExecutesOnce == Spec => ModelOnce
  <1>1. Init => AtModel!Init
    BY InitOutcome DEF AtModel!Init, Service
  <1>2. InferenceInv /\ InferenceInv' /\ [Next]_vars => [AtModel!Next]_<<OutcomeOf("M"), effect["M"], replies["M"]>>
    <2> SUFFICES ASSUME InferenceInv, InferenceInv', [Next]_vars
                 PROVE  [AtModel!Next]_<<OutcomeOf("M"), effect["M"], replies["M"]>>
      OBVIOUS
    <2>1. OneStep("M")
      BY NextStep DEF Service
    <2> QED BY <2>1 DEF OneStep, AtModel!Next, AtModel!TakeUp, AtModel!Execute, AtModel!Settle, AtModel!Repeat
  <1> QED BY <1>1, <1>2, InferenceInvariant, PTL DEF Spec, ModelOnce, AtModel!Spec, AtModel!onceVars

-----------------------------------------------------------------------------
(* What the user has on record. *)

(* Phase by phase, what the thread has decided and what is on record.      *)
OnRecord(u) ==
  /\ phase[u] \notin {"saved", "closed"} => stored[u].state \in {"none", "pending"}
  /\ phase[u] \in {"decided", "saved"} =>
       outcome[u].state \in Decisions /\ (outcome[u].response # NULL => Released(outcome[u].state))
  /\ phase[u] = "saved" => stored[u].state = outcome[u].state /\ stored[u].response = outcome[u].response
  /\ phase[u] \in {"none", "closed"} => stored[u].state # "pending"
  /\ stored[u].response # NULL => Released(stored[u].state)
  /\ consumer[u] # NULL => phase[u] = "closed" /\ stored[u].response = consumer[u]

AllOnRecord == \A u \in Sub : OnRecord(u)

(* A step that keeps a decision on record. *)
Keeps(u) ==
  stored[u].state \notin {"none", "pending"} =>
    stored'[u].state = stored[u].state /\ stored'[u].response = stored[u].response

LEMMA DecisionNames ==
  /\ \A s \in Decisions : s \notin {"none", "pending"}
  /\ \A s : Released(s) => s \in Decisions
  BY DEF Decisions, Released

LEMMA OthersOnRecord ==
  ASSUME InferenceInv, AllOnRecord, NEW u \in Sub,
         \A v \in Sub \ {u} : phase'[v] = phase[v] /\ outcome'[v] = outcome[v] /\ stored'[v] = stored[v] /\ consumer'[v] = consumer[v],
         OnRecord(u)', Keeps(u)
  PROVE  AllOnRecord' /\ \A v \in Sub : Keeps(v)
  BY DEF AllOnRecord, OnRecord, Keeps

LEMMA RecordUntouched ==
  ASSUME AllOnRecord, UNCHANGED <<phase, outcome, stored, consumer>>
  PROVE  AllOnRecord' /\ \A v \in Sub : Keeps(v)
  BY DEF AllOnRecord, OnRecord, Keeps

(* The thread of u goes on without a decision. *)
LEMMA ThreadMoves ==
  ASSUME InferenceInv, AllOnRecord, NEW u \in Sub, NEW p \in {"sent", "judging", "checked"},
         phase[u] \notin {"decided", "saved", "closed"}, Enter(u, p), UNCHANGED <<outcome, stored, consumer>>
  PROVE  AllOnRecord' /\ \A v \in Sub : Keeps(v)
  <1>1. phase'[u] = p /\ \A v \in Sub \ {u} : phase'[v] = phase[v]
    BY DEF Enter, InferenceInv, Typed, UserTyped, UserTypes
  <1>2. OnRecord(u)' /\ Keeps(u)
    BY <1>1 DEF AllOnRecord, OnRecord, Keeps
  <1> QED BY <1>1, <1>2, OthersOnRecord

LEMMA ThreadDecides ==
  ASSUME InferenceInv, AllOnRecord, NEW u \in Sub, NEW s \in Decisions, NEW x, x # NULL => Released(s),
         phase[u] \notin {"saved", "closed"}, Enter(u, "decided"),
         outcome' = [outcome EXCEPT ![u] = [state |-> s, response |-> x]], UNCHANGED <<stored, consumer>>
  PROVE  AllOnRecord' /\ \A v \in Sub : Keeps(v)
  <1>1. phase'[u] = "decided" /\ \A v \in Sub \ {u} : phase'[v] = phase[v]
    BY DEF Enter, InferenceInv, Typed, UserTyped, UserTypes
  <1>2. outcome'[u] = [state |-> s, response |-> x] /\ \A v \in Sub \ {u} : outcome'[v] = outcome[v]
    BY DEF InferenceInv, Typed, UserTyped, UserTypes
  <1>3. OnRecord(u)' /\ Keeps(u)
    BY <1>1, <1>2 DEF AllOnRecord, OnRecord, Keeps
  <1> QED BY <1>1, <1>2, <1>3, OthersOnRecord

LEMMA StopOnRecord ==
  ASSUME InferenceInv, AllOnRecord, NEW u \in Sub, NEW s \in Decisions, Stop(u, s),
         phase[u] \notin {"saved", "closed"}, UNCHANGED <<stored, consumer>>
  PROVE  AllOnRecord' /\ \A v \in Sub : Keeps(v)
  BY ThreadDecides DEF Stop

LEMMA RecordKept ==
  ASSUME InferenceInv, AllOnRecord, [Next]_vars
  PROVE  AllOnRecord' /\ \A v \in Sub : Keeps(v)
  <1>1. CASE UNCHANGED vars
    BY <1>1, RecordUntouched DEF vars, userVars
  <1>2. ASSUME NEW u \in Sub, Ask(u)
        PROVE  AllOnRecord' /\ \A v \in Sub : Keeps(v)
    <2>1. /\ phase[u] = "none" /\ phase' = [phase EXCEPT ![u] = "ready"]
          /\ stored' = [stored EXCEPT ![u] = [stored[u] EXCEPT !.state = "pending"]] /\ UNCHANGED <<outcome, consumer>>
      BY <1>2 DEF Ask, Enter
    <2>2. stored[u] \in Record /\ phase \in [Sub -> {"none", "ready", "sent", "judging", "checked", "decided", "saved", "closed"}]
          /\ DOMAIN stored = Sub
      BY DEF InferenceInv, Typed, UserTyped, UserTypes, Record
    <2>3. phase'[u] = "ready" /\ stored'[u].state = "pending" /\ stored'[u].response = stored[u].response
      BY <2>1, <2>2 DEF Record
    <2>4. \A v \in Sub \ {u} : phase'[v] = phase[v] /\ stored'[v] = stored[v]
      BY <2>1, <2>2
    <2>5. OnRecord(u)' /\ Keeps(u)
      BY <2>1, <2>3 DEF AllOnRecord, OnRecord, Keeps, Released
    <2> QED BY <2>1, <2>4, <2>5, OthersOnRecord
  <1>3. ASSUME NEW u \in Sub, Cancel(u) \/ Expire(u)
        PROVE  AllOnRecord' /\ \A v \in Sub : Keeps(v)
    BY <1>3, RecordUntouched DEF Cancel, Expire, userVars
  <1>4. ASSUME NEW u \in Sub, Transmit(u) \/ Judge(u)
        PROVE  AllOnRecord' /\ \A v \in Sub : Keeps(v)
    BY <1>4, ThreadMoves DEF Transmit, Judge
  <1>5. ASSUME NEW u \in Sub, Receive(u)
        PROVE  AllOnRecord' /\ \A v \in Sub : Keeps(v)
    <2>1. PICK p \in {"judging", "checked"} : Enter(u, p) /\ phase[u] = "sent" /\ UNCHANGED <<outcome, stored, consumer>>
      BY <1>5 DEF Receive
    <2> QED BY <2>1, ThreadMoves
  <1>6. ASSUME NEW u \in Sub, NoAnswer(u) \/ AnswerTimeout(u)
        PROVE  AllOnRecord' /\ \A v \in Sub : Keeps(v)
    BY <1>6, StopOnRecord DEF NoAnswer, AnswerTimeout, OnError, Decisions
  <1>7. ASSUME NEW u \in Sub, Conclude(u)
        PROVE  AllOnRecord' /\ \A v \in Sub : Keeps(v)
    <2>1. phase[u] = "checked" /\ UNCHANGED <<stored, consumer>>
      BY <1>7 DEF Conclude
    <2>2. CASE Stop(u, "cancelled") \/ Stop(u, "error")
      BY <2>1, <2>2, StopOnRecord DEF Decisions
    <2> DEFINE action == Gate!Decide(mode[u], Checks(u, wire[u]), verdict[u], TRUE)
               x == IF Released(action) THEN wire[u].resp ELSE NULL
    <2>3. CASE outcome' = [outcome EXCEPT ![u] = [state |-> action, response |-> x]] /\ Enter(u, "decided")
      <3>1. action \in Decisions /\ (x # NULL => Released(action))
        BY GateDecisions
      <3> HIDE DEF action, x
      <3> QED BY <2>1, <2>3, <3>1, ThreadDecides
    <2> QED BY <1>7, <2>2, <2>3 DEF Conclude
  <1>8. ASSUME NEW u \in Sub, Save(u)
        PROVE  AllOnRecord' /\ \A v \in Sub : Keeps(v)
    <2> DEFINE o == [stored[u] EXCEPT !.state = outcome[u].state, !.response = outcome[u].response, !.verdict = verdict[u]]
    <2>1. phase[u] = "decided" /\ phase' = [phase EXCEPT ![u] = "saved"] /\ UNCHANGED <<outcome, consumer>>
      BY <1>8 DEF Save, Enter
    <2>2. stored' = [stored EXCEPT ![u] = o]
      BY <1>8 DEF Save
    <2>3. o.state = outcome[u].state /\ o.response = outcome[u].response
      <3>1. stored[u] \in Record
        BY DEF InferenceInv, Typed, UserTyped, UserTypes, Record
      <3> QED BY <3>1 DEF Record
    <2> HIDE DEF o
    <2>4. /\ phase'[u] = "saved" /\ stored'[u] = o
          /\ \A v \in Sub \ {u} : phase'[v] = phase[v] /\ stored'[v] = stored[v]
      BY <2>1, <2>2 DEF InferenceInv, Typed, UserTyped, UserTypes
    <2>5. OnRecord(u)' /\ Keeps(u)
      BY <2>1, <2>3, <2>4 DEF AllOnRecord, OnRecord, Keeps
    <2> QED BY <2>1, <2>4, <2>5, OthersOnRecord
  <1>9. ASSUME NEW u \in Sub, Return(u)
        PROVE  AllOnRecord' /\ \A v \in Sub : Keeps(v)
    <2>1. /\ phase[u] = "saved" /\ phase' = [phase EXCEPT ![u] = "closed"]
          /\ consumer' = [consumer EXCEPT ![u] = outcome[u].response] /\ UNCHANGED <<outcome, stored>>
      BY <1>9 DEF Return, Enter
    <2>2. /\ phase'[u] = "closed" /\ consumer'[u] = outcome[u].response
          /\ \A v \in Sub \ {u} : phase'[v] = phase[v] /\ consumer'[v] = consumer[v]
      BY <2>1 DEF InferenceInv, Typed, UserTyped, UserTypes
    <2>3. OnRecord(u)' /\ Keeps(u)
      BY <2>1, <2>2, DecisionNames DEF AllOnRecord, OnRecord, Keeps
    <2> QED BY <2>1, <2>2, <2>3, OthersOnRecord
  <1>10. ASSUME NEW u \in Sub, Refresh(u)
         PROVE  AllOnRecord' /\ \A v \in Sub : Keeps(v)
    <2>1. PICK x : stored' = [stored EXCEPT ![u] = [stored[u] EXCEPT !.verdict = x]] /\ UNCHANGED <<phase, outcome, consumer>>
      BY <1>10 DEF Refresh, Refreshed
    <2>2. stored[u] \in Record /\ DOMAIN stored = Sub
      BY DEF InferenceInv, Typed, UserTyped, UserTypes, Record
    <2>3. /\ stored'[u].state = stored[u].state /\ stored'[u].response = stored[u].response
          /\ \A v \in Sub \ {u} : stored'[v] = stored[v]
      BY <2>1, <2>2 DEF Record
    <2>4. OnRecord(u)' /\ Keeps(u)
      BY <2>1, <2>3 DEF AllOnRecord, OnRecord, Keeps
    <2> QED BY <2>1, <2>3, <2>4, OthersOnRecord
  <1>11. CASE CrashU
    <2>1. phase' = [u \in Sub |-> IF Active(u) THEN "closed" ELSE phase[u]] /\ UNCHANGED <<outcome, consumer>>
      BY <1>11 DEF CrashU
    <2>2. ASSUME NEW u \in Sub
          PROVE  IF stored[u].state = "pending" THEN stored'[u].state = "interrupted" /\ stored'[u].response = NULL
                                                ELSE stored'[u] = stored[u]
      <3>1. stored[u] \in Record
        BY DEF InferenceInv, Typed, UserTyped, UserTypes, Record
      <3>2. stored'[u] = IF stored[u].state = "pending" THEN [stored[u] EXCEPT !.state = "interrupted", !.response = NULL]
                         ELSE stored[u]
        BY <1>11 DEF CrashU
      <3>3. [stored[u] EXCEPT !.state = "interrupted", !.response = NULL].state = "interrupted"
            /\ [stored[u] EXCEPT !.state = "interrupted", !.response = NULL].response = NULL
        BY <3>1 DEF Record
      <3> QED BY <3>2, <3>3
    <2>3. ASSUME NEW u \in Sub
          PROVE  OnRecord(u)' /\ Keeps(u)
      BY <2>1, <2>2, DecisionNames DEF AllOnRecord, OnRecord, Keeps, Active, Released, Decisions
    <2> QED BY <2>3 DEF AllOnRecord
  <1>12. ASSUME NEW r \in Service, ServiceStep(r) \/ Drain(r) \/ CrashService(r)
         PROVE  AllOnRecord' /\ \A v \in Sub : Keeps(v)
    BY <1>12, RecordUntouched DEF ServiceStep, JobStep, Repeat, Refuse, Reject, Begin, Start, GiveUp, Queue, Complete, Drain,
                                  CrashService, userVars
  <1>13. CASE ModelStep
    BY <1>13, RecordUntouched DEF ModelStep, RunModel, ModelFails, AskModel, HearModel, NoModel, ModelTimeout, userVars
  <1>14. CASE (\E r \in Service, u \in Sub : Resubmit(r, u)) \/ (\E p \in {"U", "R", "M"} : Retire(p))
    BY <1>14, RecordUntouched DEF Resubmit, Retire, userVars
  <1> QED BY <1>1, <1>2, <1>3, <1>4, <1>5, <1>6, <1>7, <1>8, <1>9, <1>10, <1>11, <1>12, <1>13, <1>14 DEF Next, UserStep

LEMMA InitOnRecord == Init => AllOnRecord
  BY DEF Init, AllOnRecord, OnRecord

(* What the application has received is on record, and a response is on    *)
(* record only under a decision in its favour (agent.py:326-336).          *)
THEOREM OnlyRecordedReleased == Spec => []ReleasedRecorded
  <1>1. AllOnRecord => ReleasedRecorded
    BY DEF AllOnRecord, OnRecord, ReleasedRecorded
  <1>2. InferenceInv /\ AllOnRecord /\ [Next]_vars => AllOnRecord'
    BY RecordKept
  <1> QED BY <1>1, <1>2, InitOnRecord, InferenceInvariant, PTL DEF Spec

(* Neither a later verdict nor a restart changes a decision on record      *)
(* (docs/desktop-runtime-v0.3.md:52).                                      *)
THEOREM DecisionsFinal == Spec => DecisionFinal
  <1>1. InferenceInv /\ AllOnRecord /\ [Next]_vars => AllOnRecord'
    BY RecordKept
  <1>2. InferenceInv /\ AllOnRecord /\ [Next]_vars =>
          [\A u \in Sub : stored[u].state \notin {"none", "pending"} =>
             stored'[u].state = stored[u].state /\ stored'[u].response = stored[u].response]_vars
    BY RecordKept DEF Keeps
  <1> QED BY <1>1, <1>2, InitOnRecord, InferenceInvariant, PTL DEF Spec, DecisionFinal

-----------------------------------------------------------------------------
(* The call of R that M has not answered yet, and M's answer to it.        *)

Asking(u) == job["R"] # NULL /\ job["R"].stage = "asking" /\ job["R"].call.sub = u

(* R waits for one answer of M at a time, and gets it for what it asked.   *)
Routing ==
  /\ \A c \in waiting["M"] : c.caller = "R" =>
       Asking(c.sub) /\ answer["R"] = NULL /\ \A d \in waiting["M"] : d.caller = "R" => d = c
  /\ job["M"] # NULL /\ job["M"].call.caller = "R" =>
       Asking(job["M"].call.sub) /\ answer["R"] = NULL /\ \A c \in waiting["M"] : c.caller # "R"
  /\ answer["R"] # NULL => job["R"] # NULL /\ job["R"].stage = "asking"
  /\ answer["R"] \notin {NULL, ERROR} => answer["R"] \in replies["M"][job["R"].call.sub]

(* What M and R return and what they have queued. *)
OfModel(x) == x.receipt \in issued["M"] /\ x.receipt.resp = x.resp
OfRelay(x, u) ==
  /\ x.receipt # NULL => x.receipt \in issued["M"]
  /\ x.relay # NULL => x.relay.respOut = x.resp /\ \E b \in replies["M"][u] : b.resp = x.relay.respIn
Queued(x) == x.relay # NULL => x.relay \in issued["R"]

ModelVouched ==
  /\ \A u \in Sub : execution["M"][u] # NULL /\ execution["M"][u].result # NULL => OfModel(execution["M"][u].result)
  /\ \A u \in Sub : \A x \in replies["M"][u] : OfModel(x)
  /\ job["M"] # NULL /\ job["M"].stage = "worked" => job["M"].result.receipt.resp = job["M"].result.resp
  /\ job["M"] # NULL /\ job["M"].stage = "queued" => OfModel(job["M"].result)

RelayVouched ==
  /\ \A u \in Sub : execution["R"][u] # NULL /\ execution["R"][u].result # NULL =>
       OfRelay(execution["R"][u].result, u) /\ Queued(execution["R"][u].result)
  /\ \A u \in Sub : \A x \in replies["R"][u] : OfRelay(x, u) /\ Queued(x)
  /\ job["R"] # NULL /\ job["R"].stage \in {"worked", "queued"} => OfRelay(job["R"].result, job["R"].call.sub)
  /\ job["R"] # NULL /\ job["R"].stage = "queued" => Queued(job["R"].result)

(* What U has in hand: a receipt M has queued, and what it amounts to.     *)
Passed(x) == x.receipt # NULL => x.receipt \in issued["M"]

Genuine(u, x) == \E m \in issued["M"] : m.sub = u /\ m.req = "asked" /\ m.resp = x

(* From the answer U waits for to the record it writes.                    *)
UserVouched ==
  /\ answer["U"] \notin {NULL, ERROR} => Passed(answer["U"])
  /\ \A u \in Sub :
       /\ phase[u] \in {"judging", "checked"} => Passed(wire[u])
       /\ phase[u] \in {"decided", "saved"} /\ mode[u] \in {"protect", "strict"} /\ outcome[u].response # NULL =>
            Genuine(u, outcome[u].response)
       /\ mode[u] \in {"protect", "strict"} /\ stored[u].response # NULL => Genuine(u, stored[u].response)

Vouched == Routing /\ ModelVouched /\ RelayVouched /\ UserVouched

(* Outboxes and what was returned only grow. *)
Grows ==
  \A r \in Service : issued[r] \subseteq issued'[r] /\ \A u \in Sub : replies[r][u] \subseteq replies'[r][u]

LEMMA StepGrows ==
  ASSUME InferenceInv, InferenceInv', [Next]_vars
  PROVE  Grows
  <1>1. ASSUME NEW r \in Service
        PROVE  \A u \in Sub : replies[r][u] \subseteq replies'[r][u]
    <2>1. \/ replies'[r] = replies[r]
          \/ \E v \in Sub : \E x : replies'[r] = [replies[r] EXCEPT ![v] = @ \cup {x}]
      <3>1. OneStep(r)
        BY <1>1, NextStep
      <3> QED BY <3>1 DEF OneStep
    <2>2. replies[r] \in [Sub -> SUBSET ResultOf(r)]
      BY <1>1 DEF InferenceInv, Typed, HistoryTyped
    <2> QED BY <2>1, <2>2
  <1>2. CASE UNCHANGED issued
    BY <1>1, <1>2 DEF Grows
  <1>3. ASSUME NEW r \in Service, Queue(r)
        PROVE  Grows
    <2>1. \A s \in Service : issued[s] \subseteq issued'[s]
      BY <1>3 DEF Queue, InferenceInv, Typed, OutboxTyped
    <2> QED BY <1>1, <2>1 DEF Grows
  <1>4. UNCHANGED issued \/ \E r \in Service : Queue(r)
    <2>1. CASE UNCHANGED vars
      BY <2>1 DEF vars, serviceVars
    <2>2. ASSUME NEW u \in Sub, Ask(u) \/ Cancel(u) \/ UserStep(u) \/ Refresh(u) \/ Expire(u)
          PROVE  UNCHANGED issued
      BY <2>2 DEF Ask, Cancel, Refresh, Expire, UserStep, Transmit, NoAnswer, AnswerTimeout, Receive, Judge, Conclude,
                  Save, Return, serviceVars
    <2>3. ASSUME NEW r \in Service, ServiceStep(r) \/ Drain(r) \/ CrashService(r)
          PROVE  UNCHANGED issued \/ Queue(r)
      BY <2>3 DEF ServiceStep, JobStep, Repeat, Refuse, Reject, Begin, Start, GiveUp, Complete, Drain, CrashService
    <2>4. CASE ModelStep \/ CrashU
      BY <2>4 DEF ModelStep, RunModel, ModelFails, AskModel, HearModel, NoModel, ModelTimeout, CrashU
    <2>5. CASE (\E r \in Service, u \in Sub : Resubmit(r, u)) \/ (\E p \in {"U", "R", "M"} : Retire(p))
      BY <2>5 DEF Resubmit, Retire, serviceVars
    <2> QED BY <2>1, <2>2, <2>3, <2>4, <2>5 DEF Next
  <1> QED BY <1>2, <1>3, <1>4

(* A result given again, and a result given for the first time. *)
LEMMA RepeatFacts ==
  ASSUME InferenceInv, NEW r \in Service, Repeat(r)
  PROVE  \E c \in waiting[r], x \in ResultOf(r) :
           /\ c \in Call(r) /\ c.sub \in Sub /\ job[r] = NULL
           /\ execution[r][c.sub] # NULL /\ execution[r][c.sub].result = x
           /\ waiting'[r] = waiting[r] \ {c} /\ \A s \in Service \ {r} : waiting'[s] = waiting[s] /\ replies'[s] = replies[s]
           /\ Respond(c, x)
           /\ replies'[r] = [replies[r] EXCEPT ![c.sub] = @ \cup {x}] /\ x \in replies'[r][c.sub]
           /\ UNCHANGED <<userVars, job, execution, nonces, issued, backlog, effect, worldVars>>
  <1>1. PICK c \in waiting[r] :
          /\ job[r] = NULL /\ execution[r][c.sub] # NULL /\ execution[r][c.sub].result # NULL
          /\ waiting' = [waiting EXCEPT ![r] = @ \ {c}]
          /\ Respond(c, execution[r][c.sub].result)
          /\ replies' = [replies EXCEPT ![r] = [replies[r] EXCEPT ![c.sub] = @ \cup {execution[r][c.sub].result}]]
          /\ UNCHANGED <<userVars, job, execution, nonces, issued, backlog, effect, worldVars>>
    BY DEF Repeat
  <1> DEFINE x == execution[r][c.sub].result
  <1>2. c \in Call(r) /\ c.sub \in Sub
    BY Calls DEF InferenceInv, Typed, WaitingTyped
  <1>3. x \in ResultOf(r)
    BY <1>1, <1>2 DEF InferenceInv, Typed, RecordsTyped, Execution
  <1>4. /\ replies' = [replies EXCEPT ![r] = [replies[r] EXCEPT ![c.sub] = @ \cup {x}]]
        /\ execution[r][c.sub].result = x /\ Respond(c, x)
    BY <1>1
  <1> HIDE DEF x
  <1>5. /\ replies'[r] = [replies[r] EXCEPT ![c.sub] = @ \cup {x}] /\ x \in replies'[r][c.sub]
        /\ \A s \in Service \ {r} : replies'[s] = replies[s]
    BY <1>2, <1>4 DEF InferenceInv, Typed, HistoryTyped
  <1>6. waiting'[r] = waiting[r] \ {c} /\ \A s \in Service \ {r} : waiting'[s] = waiting[s]
    BY <1>1 DEF InferenceInv, Typed, WaitingTyped
  <1> QED BY <1>1, <1>2, <1>3, <1>4, <1>5, <1>6

LEMMA CompleteFacts ==
  ASSUME InferenceInv, NEW r \in Service, Complete(r)
  PROVE  LET c == job[r].call  x == job[r].result IN
           /\ job[r] # NULL /\ job[r].stage = "queued" /\ c \in Call(r) /\ c.sub \in Sub /\ x \in ResultOf(r)
           /\ execution'[r][c.sub].result = x
           /\ \A v \in Sub \ {c.sub} : execution'[r][v] = execution[r][v]
           /\ Respond(c, x)
           /\ replies'[r] = [replies[r] EXCEPT ![c.sub] = @ \cup {x}] /\ x \in replies'[r][c.sub]
           /\ job'[r] = NULL
           /\ \A s \in Service \ {r} : job'[s] = job[s] /\ execution'[s] = execution[s] /\ replies'[s] = replies[s]
           /\ UNCHANGED <<userVars, waiting, nonces, issued, backlog, effect, worldVars>>
  <1> DEFINE u == job[r].call.sub
             x == job[r].result
             e == [execution[r][u] EXCEPT !.result = x]
  <1>1. /\ At(r, "queued")
        /\ execution' = [execution EXCEPT ![r] = [execution[r] EXCEPT ![u] = e]]
        /\ replies' = [replies EXCEPT ![r] = [replies[r] EXCEPT ![u] = @ \cup {x}]]
        /\ Respond(job[r].call, x)
        /\ job' = [job EXCEPT ![r] = NULL]
        /\ UNCHANGED <<userVars, waiting, nonces, issued, backlog, effect, worldVars>>
    BY DEF Complete
  <1>2. job[r] # NULL /\ job[r].stage = "queued" /\ job[r].call \in Call(r) /\ u \in Sub /\ x \in ResultOf(r)
    BY <1>1, AtJob DEF InferenceInv
  <1>3. e.result = x
    <2>1. execution[r][u] \in Execution(r)
      BY <1>2 DEF InferenceInv, Typed, RecordsTyped, AllOnce, Once, Underway
    <2> HIDE DEF u, x
    <2> QED BY <2>1 DEF Execution
  <1> HIDE DEF e, x
  <1>4. /\ execution'[r][u] = e /\ \A v \in Sub \ {u} : execution'[r][v] = execution[r][v]
        /\ \A s \in Service \ {r} : execution'[s] = execution[s]
    BY <1>1, <1>2 DEF InferenceInv, Typed, RecordsTyped
  <1>5. /\ replies'[r] = [replies[r] EXCEPT ![u] = @ \cup {x}] /\ x \in replies'[r][u]
        /\ \A s \in Service \ {r} : replies'[s] = replies[s]
    BY <1>1, <1>2 DEF InferenceInv, Typed, HistoryTyped
  <1>6. job'[r] = NULL /\ \A s \in Service \ {r} : job'[s] = job[s]
    BY <1>1 DEF InferenceInv, Typed, JobTyped
  <1> QED BY <1>1, <1>2, <1>3, <1>4, <1>5, <1>6 DEF x

(* Where an answer comes from. *)
LEMMA AnswersFrom ==
  ASSUME InferenceInv, InferenceInv', [Next]_vars
  PROVE  answer'["U"] \in {answer["U"], NULL, ERROR} \/ \E u \in Sub : answer'["U"] \in replies'["R"][u]
  <1>0. "R" \in Service /\ "M" \in Service /\ Service = {"R", "M"} /\ DOMAIN answer = {"U", "R"}
    BY DEF Service, InferenceInv, Typed, AnswerTyped
  <1>1. ASSUME NEW r \in Service, NEW c \in Call(r), NEW x, Respond(c, x)
        PROVE  /\ answer'["U"] \in {answer["U"], x}
               /\ r = "M" => answer'["U"] = answer["U"]
    BY <1>0, <1>1, Calls DEF Respond, Caller
  <1>2. CASE UNCHANGED answer
    BY <1>2
  <1>3. ASSUME NEW r \in Service, Repeat(r)
        PROVE  answer'["U"] \in {answer["U"], NULL, ERROR} \/ \E u \in Sub : answer'["U"] \in replies'["R"][u]
    <2>1. PICK c \in waiting[r], x \in ResultOf(r) :
            c \in Call(r) /\ c.sub \in Sub /\ Respond(c, x) /\ x \in replies'[r][c.sub]
      BY <1>3, RepeatFacts
    <2> QED BY <1>0, <1>1, <2>1
  <1>4. ASSUME NEW r \in Service, Complete(r)
        PROVE  answer'["U"] \in {answer["U"], NULL, ERROR} \/ \E u \in Sub : answer'["U"] \in replies'["R"][u]
    <2>1. LET c == job[r].call  x == job[r].result IN
            c \in Call(r) /\ c.sub \in Sub /\ Respond(c, x) /\ x \in replies'[r][c.sub]
      BY <1>4, CompleteFacts
    <2> QED BY <1>0, <1>1, <2>1
  <1>5. ASSUME NEW r \in Service, Refuse(r)
        PROVE  answer'["U"] \in {answer["U"], ERROR}
    <2>1. PICK c \in waiting[r] : Respond(c, ERROR)
      BY <1>5 DEF Refuse, Reject
    <2>2. c \in Call(r)
      BY DEF InferenceInv, Typed, WaitingTyped
    <2> QED BY <1>1, <2>1, <2>2
  <1>6. ASSUME NEW r \in Service, Fail(r), At(r, "started")
        PROVE  answer'["U"] \in {answer["U"], ERROR}
    BY <1>1, <1>6, AtJob DEF Fail, InferenceInv
  <1>7. CASE ModelTimeout
    <2>1. At("R", "asking") /\ Respond(job["R"].call, ERROR)
      BY <1>7 DEF ModelTimeout
    <2> QED BY <1>0, <1>1, <2>1, AtJob DEF InferenceInv
  <1>8. CASE HearModel \/ NoModel
    BY <1>0, <1>8 DEF HearModel, NoModel
  <1>9. ASSUME NEW r \in Service, CrashService(r)
        PROVE  answer'["U"] \in {answer["U"], NULL, ERROR}
    BY <1>0, <1>9 DEF CrashService
  <1>10. CASE CrashU
    <2>1. answer' = [answer EXCEPT !["U"] = NULL]
      BY <1>10 DEF CrashU
    <2> QED BY <1>0, <2>1
  <1>11. ASSUME NEW u \in Sub, UserStep(u)
         PROVE  answer'["U"] \in {answer["U"], NULL}
    BY <1>0, <1>11 DEF UserStep, Transmit, NoAnswer, AnswerTimeout, Receive, Judge, Conclude, Save, Return
  <1>12. ASSUME NEW u \in Sub, Ask(u) \/ Cancel(u) \/ Refresh(u) \/ Expire(u)
         PROVE  UNCHANGED answer
    BY <1>12 DEF Ask, Cancel, Refresh, Expire
  <1>13. ASSUME NEW r \in Service, Begin(r) \/ Start(r) \/ Queue(r) \/ Drain(r)
         PROVE  UNCHANGED answer
    BY <1>13 DEF Begin, Start, Queue, Drain
  <1>14. ASSUME NEW r \in Service, GiveUp(r)
         PROVE  answer'["U"] \in {answer["U"], ERROR}
    BY <1>6, <1>14 DEF GiveUp
  <1>15. CASE ModelFails
    BY <1>0, <1>6, <1>15 DEF ModelFails
  <1>16. CASE RunModel \/ AskModel \/ UNCHANGED vars
    BY <1>16 DEF RunModel, AskModel, vars
  <1>17. CASE (\E r \in Service, u \in Sub : Resubmit(r, u)) \/ (\E p \in {"U", "R", "M"} : Retire(p))
    BY <1>17 DEF Resubmit, Retire
  <1> QED BY <1>2, <1>3, <1>4, <1>5, <1>7, <1>8, <1>9, <1>10, <1>11, <1>12, <1>13, <1>14, <1>15, <1>16, <1>17
             DEF Next, ServiceStep, JobStep, ModelStep

(* What the steps of one service are to the other. *)
LEMMA Apart ==
  ASSUME InferenceInv, NEW r \in Service, NEW s \in Service \ {r},
         \/ Repeat(s) \/ Begin(s) \/ Start(s) \/ Queue(s) \/ Complete(s)
         \/ s = "M" /\ (RunModel \/ ModelFails)
         \/ s = "R" /\ (AskModel \/ HearModel)
  PROVE  Quiet(r) /\ replies'[r] = replies[r]
  <1>0. /\ DOMAIN job = Service /\ DOMAIN execution = Service /\ DOMAIN nonces = Service /\ DOMAIN issued = Service
        /\ DOMAIN effect = Service /\ DOMAIN replies = Service
    BY DEF InferenceInv, Typed, JobTyped, RecordsTyped, OutboxTyped, HistoryTyped
  <1>1. CASE Repeat(s)
    <2>1. replies'[r] = replies[r] /\ UNCHANGED <<job, execution, nonces, issued, effect>>
      BY <1>1, RepeatFacts
    <2> QED BY <2>1 DEF Quiet
  <1>2. CASE Complete(s)
    <2>1. /\ replies'[r] = replies[r] /\ job'[r] = job[r] /\ execution'[r] = execution[r]
          /\ UNCHANGED <<nonces, issued, effect>>
      BY <1>2, CompleteFacts
    <2> QED BY <2>1 DEF Quiet
  <1>3. CASE Begin(s)
    BY <1>0, <1>3 DEF Begin, Quiet
  <1>4. CASE Start(s)
    BY <1>0, <1>4 DEF Start, SetStage, Quiet
  <1>5. CASE Queue(s)
    BY <1>0, <1>5 DEF Queue, SetStage, Quiet
  <1>6. CASE s = "M" /\ RunModel
    BY <1>0, <1>6 DEF RunModel, Finish, Quiet
  <1>7. CASE s = "M" /\ ModelFails
    BY <1>0, <1>7 DEF ModelFails, Fail, Quiet
  <1>8. CASE s = "R" /\ AskModel
    BY <1>0, <1>8 DEF AskModel, SetStage, Quiet
  <1>9. CASE s = "R" /\ HearModel
    BY <1>0, <1>9 DEF HearModel, Finish, Quiet
  <1> QED BY <1>1, <1>2, <1>3, <1>4, <1>5, <1>6, <1>7, <1>8, <1>9

(* The other steps return nothing. *)
LEMMA QuietReturns ==
  ASSUME \/ UNCHANGED vars
         \/ \E u \in Sub : Ask(u) \/ Cancel(u) \/ UserStep(u) \/ Refresh(u) \/ Expire(u)
         \/ \E r \in Service : Refuse(r) \/ GiveUp(r) \/ Drain(r) \/ CrashService(r)
         \/ NoModel \/ ModelTimeout \/ CrashU \/ ModelFails
         \/ \E r \in Service, u \in Sub : Resubmit(r, u)
         \/ \E p \in {"U", "R", "M"} : Retire(p)
  PROVE  UNCHANGED replies
  <1>1. ASSUME NEW u \in Sub, Ask(u) \/ Cancel(u) \/ UserStep(u) \/ Refresh(u) \/ Expire(u)
        PROVE  UNCHANGED replies
    BY <1>1 DEF Ask, Cancel, Refresh, Expire, UserStep, Transmit, NoAnswer, AnswerTimeout, Receive, Judge, Conclude, Save,
                Return, serviceVars
  <1>2. ASSUME NEW r \in Service, Refuse(r) \/ GiveUp(r) \/ Drain(r) \/ CrashService(r)
        PROVE  UNCHANGED replies
    BY <1>2 DEF Refuse, Reject, GiveUp, Drain, CrashService
  <1>3. CASE UNCHANGED vars \/ NoModel \/ ModelTimeout \/ CrashU \/ ModelFails
    BY <1>3 DEF vars, serviceVars, NoModel, ModelTimeout, CrashU, ModelFails
  <1>4. CASE (\E r \in Service, u \in Sub : Resubmit(r, u)) \/ (\E p \in {"U", "R", "M"} : Retire(p))
    BY <1>4 DEF Resubmit, Retire, serviceVars
  <1> QED BY <1>1, <1>2, <1>3, <1>4

(* A service is quiet, or it is one of these steps of its own. *)
LEMMA Stirs ==
  ASSUME InferenceInv, [Next]_vars, NEW r \in Service
  PROVE  \/ Quiet(r) /\ replies'[r] = replies[r]
         \/ Repeat(r) \/ Begin(r) \/ Start(r) \/ Queue(r) \/ Complete(r)
         \/ r = "M" /\ (RunModel \/ ModelFails)
         \/ r = "R" /\ (AskModel \/ HearModel)
  <1>0. Typed
    BY DEF InferenceInv
  <1>1. CASE \/ UNCHANGED vars
             \/ \E u \in Sub : Ask(u) \/ Cancel(u) \/ UserStep(u) \/ Refresh(u) \/ Expire(u)
             \/ \E s \in Service : Refuse(s) \/ GiveUp(s) \/ Drain(s) \/ CrashService(s)
             \/ NoModel \/ ModelTimeout \/ CrashU
             \/ \E s \in Service, u \in Sub : Resubmit(s, u)
             \/ \E p \in {"U", "R", "M"} : Retire(p)
    <2>1. UNCHANGED replies
      BY <1>1, QuietReturns
    <2>2. Quiet(r)
      BY <1>0, <1>1, QuietSteps
    <2> QED BY <2>1, <2>2
  <1>2. ASSUME NEW s \in Service, Repeat(s) \/ Begin(s) \/ Start(s) \/ Queue(s) \/ Complete(s)
        PROVE  \/ Quiet(r) /\ replies'[r] = replies[r]
               \/ Repeat(r) \/ Begin(r) \/ Start(r) \/ Queue(r) \/ Complete(r)
    <2>1. CASE s = r
      BY <1>2, <2>1
    <2>2. CASE s # r
      BY <1>2, <2>2, Apart
    <2> QED BY <2>1, <2>2
  <1>3. CASE RunModel \/ ModelFails \/ AskModel \/ HearModel
    BY <1>3, Apart DEF Service
  <1> QED BY <1>1, <1>2, <1>3 DEF Next, ServiceStep, JobStep, ModelStep

-----------------------------------------------------------------------------

LEMMA ModelVouches ==
  ASSUME InferenceInv, InferenceInv', [Next]_vars, ModelVouched
  PROVE  ModelVouched'
  <1>0. "M" \in Service /\ Grows
    BY StepGrows DEF Service
  <1>1. \A x : OfModel(x) => OfModel(x)'
    BY <1>0 DEF Grows, OfModel
  <1>2. ASSUME replies'["M"] = replies["M"],
               \A u \in Sub : execution'["M"][u] # NULL /\ execution'["M"][u].result # NULL =>
                                execution'["M"][u] = execution["M"][u]
        PROVE  /\ (\A u \in Sub : execution["M"][u] # NULL /\ execution["M"][u].result # NULL => OfModel(execution["M"][u].result))'
               /\ (\A u \in Sub : \A x \in replies["M"][u] : OfModel(x))'
    BY <1>1, <1>2 DEF ModelVouched
  <1>3. CASE Quiet("M") /\ replies'["M"] = replies["M"]
    BY <1>1, <1>2, <1>3 DEF Quiet, ModelVouched
  <1>4. CASE Repeat("M")
    <2>1. PICK c \in waiting["M"], x \in ResultOf("M") :
            /\ c.sub \in Sub /\ job["M"] = NULL /\ execution["M"][c.sub] # NULL /\ execution["M"][c.sub].result = x
            /\ replies'["M"] = [replies["M"] EXCEPT ![c.sub] = @ \cup {x}]
            /\ UNCHANGED <<job, execution>>
      BY <1>0, <1>4, RepeatFacts
    <2>2. OfModel(x) /\ \A v \in Sub : \A y \in replies'["M"][v] : y \in replies["M"][v] \/ y = x
      BY <1>0, <2>1, Distinct DEF ModelVouched, InferenceInv, Typed, HistoryTyped
    <2> QED BY <1>1, <2>1, <2>2 DEF ModelVouched
  <1>5. CASE Begin("M")
    <2>1. job'["M"].stage = "claimed" /\ UNCHANGED <<execution, replies>>
      BY <1>0, <1>5 DEF Begin, InferenceInv, Typed, JobTyped
    <2> QED BY <1>1, <2>1 DEF ModelVouched
  <1>6. CASE Start("M")
    <2> DEFINE u == job["M"].call.sub
               e == [body |-> job["M"].call.body, result |-> NULL]
    <2>1. /\ At("M", "claimed") /\ SetStage("M", "started") /\ UNCHANGED replies
          /\ execution' = [execution EXCEPT !["M"] = [execution["M"] EXCEPT ![u] = e]]
      BY <1>6 DEF Start
    <2>2. job'["M"].stage = "started"
      BY <1>0, <2>1, StageJob DEF InferenceInv, Stages
    <2>3. e.result = NULL
      OBVIOUS
    <2> HIDE DEF e
    <2>4. \A v \in Sub : execution'["M"][v] = IF v = u THEN e ELSE execution["M"][v]
      BY <1>0, <2>1 DEF InferenceInv, Typed, RecordsTyped
    <2> QED BY <1>2, <2>1, <2>2, <2>3, <2>4 DEF ModelVouched
  <1>7. CASE Queue("M")
    <2> DEFINE x == job["M"].result
    <2>1. /\ At("M", "worked") /\ SetStage("M", "queued") /\ UNCHANGED <<execution, replies>>
          /\ x.receipt # NULL => issued' = [issued EXCEPT !["M"] = @ \cup {x.receipt}]
      BY <1>7 DEF Queue
    <2>2. /\ job["M"] # NULL /\ job["M"].stage = "worked" /\ x \in ResultOf("M")
          /\ job'["M"].stage = "queued" /\ job'["M"].result = x
      BY <1>0, <2>1, AtJob, StageJob DEF InferenceInv, Stages
    <2>3. x.receipt # NULL
      BY <2>2, Results, ValuesAssumption DEF ValuesAssumption
    <2>4. x.receipt \in issued'["M"] /\ x.receipt.resp = x.resp
      BY <1>0, <2>1, <2>2, <2>3 DEF ModelVouched, InferenceInv, Typed, OutboxTyped
    <2> QED BY <1>2, <2>1, <2>2, <2>4 DEF ModelVouched, OfModel
  <1>8. CASE Complete("M")
    <2> DEFINE u == job["M"].call.sub
               x == job["M"].result
    <2>1. /\ job["M"] # NULL /\ job["M"].stage = "queued" /\ u \in Sub
          /\ execution'["M"][u].result = x /\ \A v \in Sub \ {u} : execution'["M"][v] = execution["M"][v]
          /\ replies'["M"] = [replies["M"] EXCEPT ![u] = @ \cup {x}] /\ job'["M"] = NULL
      BY <1>0, <1>8, CompleteFacts
    <2>2. OfModel(x)
      BY <2>1 DEF ModelVouched
    <2> HIDE DEF u, x
    <2>3. \A v \in Sub : \A y \in replies'["M"][v] : y \in replies["M"][v] \/ y = x
      BY <1>0, <2>1 DEF InferenceInv, Typed, HistoryTyped
    <2> QED BY <1>1, <2>1, <2>2, <2>3 DEF ModelVouched
  <1>9. CASE RunModel
    <2>1. PICK x \in ResultOf("M") : Finish("M", x) /\ x.receipt.resp = x.resp
      BY <1>9, ModelResult DEF InferenceInv
    <2>2. At("M", "started") /\ UNCHANGED <<execution, replies>>
      BY <1>9 DEF RunModel
    <2>3. job'["M"].stage = "worked" /\ job'["M"].result = x
      BY <1>0, <2>1, <2>2, FinishJob DEF InferenceInv
    <2> QED BY <1>2, <2>1, <2>2, <2>3 DEF ModelVouched
  <1>10. CASE ModelFails
    <2>1. job'["M"] = NULL /\ UNCHANGED <<execution, replies>>
      BY <1>0, <1>10 DEF ModelFails, Fail, InferenceInv, Typed, JobTyped
    <2> QED BY <1>2, <2>1 DEF ModelVouched
  <1> QED BY <1>0, <1>3, <1>4, <1>5, <1>6, <1>7, <1>8, <1>9, <1>10, Stirs

LEMMA RelayVouches ==
  ASSUME InferenceInv, InferenceInv', [Next]_vars, Routing, ModelVouched, RelayVouched
  PROVE  RelayVouched'
  <1>0. "R" \in Service /\ "M" \in Service /\ Grows
    BY StepGrows DEF Service
  <1>1. \A x : (\A u \in Sub : OfRelay(x, u) => OfRelay(x, u)') /\ (Queued(x) => Queued(x)')
    BY <1>0 DEF Grows, OfRelay, Queued
  <1>2. ASSUME replies'["R"] = replies["R"],
               \A u \in Sub : execution'["R"][u] # NULL /\ execution'["R"][u].result # NULL =>
                                execution'["R"][u] = execution["R"][u]
        PROVE  /\ (\A u \in Sub : execution["R"][u] # NULL /\ execution["R"][u].result # NULL =>
                      OfRelay(execution["R"][u].result, u) /\ Queued(execution["R"][u].result))'
               /\ (\A u \in Sub : \A x \in replies["R"][u] : OfRelay(x, u) /\ Queued(x))'
    BY <1>1, <1>2 DEF RelayVouched
  <1>3. job["R"] # NULL => job["R"].call.sub \in Sub
    BY <1>0, Jobs, Calls DEF InferenceInv, Typed, JobTyped
  <1>4. CASE Quiet("R") /\ replies'["R"] = replies["R"]
    BY <1>1, <1>2, <1>3, <1>4 DEF Quiet, RelayVouched
  <1>5. CASE Repeat("R")
    <2>1. PICK c \in waiting["R"], x \in ResultOf("R") :
            /\ c.sub \in Sub /\ job["R"] = NULL /\ execution["R"][c.sub] # NULL /\ execution["R"][c.sub].result = x
            /\ replies'["R"] = [replies["R"] EXCEPT ![c.sub] = @ \cup {x}]
            /\ UNCHANGED <<job, execution>>
      BY <1>0, <1>5, RepeatFacts
    <2>2. OfRelay(x, c.sub) /\ Queued(x)
      BY <1>0, <2>1, Distinct DEF RelayVouched
    <2>3. \A v \in Sub : \A y \in replies'["R"][v] : y \in replies["R"][v] \/ (v = c.sub /\ y = x)
      BY <1>0, <2>1 DEF InferenceInv, Typed, HistoryTyped
    <2> QED BY <1>1, <2>1, <2>2, <2>3 DEF RelayVouched
  <1>6. CASE Begin("R")
    <2>1. job'["R"].stage = "claimed" /\ UNCHANGED <<execution, replies>>
      BY <1>0, <1>6 DEF Begin, InferenceInv, Typed, JobTyped
    <2> QED BY <1>2, <2>1 DEF RelayVouched
  <1>7. CASE Start("R")
    <2> DEFINE u == job["R"].call.sub
               e == [body |-> job["R"].call.body, result |-> NULL]
    <2>1. /\ At("R", "claimed") /\ SetStage("R", "started") /\ UNCHANGED replies
          /\ execution' = [execution EXCEPT !["R"] = [execution["R"] EXCEPT ![u] = e]]
      BY <1>7 DEF Start
    <2>2. job'["R"].stage = "started"
      BY <1>0, <2>1, StageJob DEF InferenceInv, Stages
    <2>3. e.result = NULL
      OBVIOUS
    <2> HIDE DEF e
    <2>4. \A v \in Sub : execution'["R"][v] = IF v = u THEN e ELSE execution["R"][v]
      BY <1>0, <2>1 DEF InferenceInv, Typed, RecordsTyped
    <2> QED BY <1>2, <2>1, <2>2, <2>3, <2>4 DEF RelayVouched
  <1>8. CASE Queue("R")
    <2> DEFINE x == job["R"].result
    <2>1. /\ At("R", "worked") /\ SetStage("R", "queued") /\ UNCHANGED <<execution, replies>>
          /\ x.relay # NULL => issued' = [issued EXCEPT !["R"] = @ \cup {x.relay}]
      BY <1>8 DEF Queue
    <2>2. /\ job["R"] # NULL /\ job["R"].stage = "worked"
          /\ job'["R"].stage = "queued" /\ job'["R"].result = x /\ job'["R"].call = job["R"].call
      BY <1>0, <2>1, AtJob, StageJob DEF InferenceInv, Stages
    <2>3. OfRelay(x, job["R"].call.sub)'
      BY <1>1, <1>3, <2>2 DEF RelayVouched
    <2>4. x.relay # NULL => x.relay \in issued'["R"]
      BY <1>0, <2>1 DEF InferenceInv, Typed, OutboxTyped
    <2> QED BY <1>2, <2>1, <2>2, <2>3, <2>4 DEF RelayVouched, Queued, OfRelay
  <1>9. CASE Complete("R")
    <2> DEFINE u == job["R"].call.sub
               x == job["R"].result
    <2>1. /\ job["R"] # NULL /\ job["R"].stage = "queued" /\ u \in Sub
          /\ execution'["R"][u].result = x /\ \A v \in Sub \ {u} : execution'["R"][v] = execution["R"][v]
          /\ replies'["R"] = [replies["R"] EXCEPT ![u] = @ \cup {x}] /\ job'["R"] = NULL
      BY <1>0, <1>9, CompleteFacts
    <2>2. OfRelay(x, u) /\ Queued(x)
      BY <2>1 DEF RelayVouched
    <2> HIDE DEF u, x
    <2>3. \A v \in Sub : \A y \in replies'["R"][v] : y \in replies["R"][v] \/ (v = u /\ y = x)
      BY <1>0, <2>1 DEF InferenceInv, Typed, HistoryTyped
    <2> QED BY <1>1, <2>1, <2>2, <2>3 DEF RelayVouched
  <1>10. CASE AskModel
    <2>1. At("R", "started") /\ SetStage("R", "asking") /\ UNCHANGED <<execution, replies>>
      BY <1>10 DEF AskModel
    <2>2. job'["R"].stage = "asking"
      BY <1>0, <2>1, StageJob DEF InferenceInv, Stages
    <2> QED BY <1>2, <2>1, <2>2 DEF RelayVouched
  <1>11. CASE HearModel
    <2> DEFINE m == answer["R"]
               x == RelayResult(job["R"].call, m)
               u == job["R"].call.sub
    <2>1. /\ m \in ResultOf("M") /\ x \in ResultOf("R") /\ Finish("R", x)
          /\ x.receipt = NULL \/ x.receipt = m.receipt
          /\ x.relay # NULL => x.relay.respIn = m.resp /\ x.relay.respOut = x.resp
      BY <1>11, RelayedResult DEF InferenceInv
    <2>2. At("R", "asking") /\ m \notin {NULL, ERROR} /\ UNCHANGED <<execution, replies, issued>>
      BY <1>11 DEF HearModel
    <2>3. m \in replies["M"][u] /\ u \in Sub /\ OfModel(m)
      BY <1>0, <2>2, AtJob DEF Routing, ModelVouched, InferenceInv
    <2> HIDE DEF x
    <2>4. job'["R"].stage = "worked" /\ job'["R"].result = x /\ job'["R"].call = job["R"].call
      BY <1>0, <2>1, <2>2, FinishJob DEF InferenceInv
    <2>5. OfRelay(x, u)
      BY <2>1, <2>3 DEF OfRelay, OfModel
    <2> QED BY <1>1, <1>2, <2>2, <2>3, <2>4, <2>5 DEF RelayVouched
  <1> QED BY <1>0, <1>4, <1>5, <1>6, <1>7, <1>8, <1>9, <1>10, <1>11, Stirs

-----------------------------------------------------------------------------
(* Calls of R are answered once, and the answer is about the request R asked. *)

(* R has stopped waiting. *)
LEMMA RoutingFree ==
  ASSUME answer'["R"] = NULL, \A c \in waiting'["M"] : c.caller # "R",
         job'["M"] # NULL => job'["M"].call.caller # "R"
  PROVE  Routing'
  BY DEF Routing

(* M goes on with what it has, and R too. *)
LEMMA RoutingKept ==
  ASSUME Routing, Grows, answer'["R"] = answer["R"],
         \A c \in waiting'["M"] : c.caller = "R" => c \in waiting["M"],
         job'["M"] # NULL /\ job'["M"].call.caller = "R" => job["M"] # NULL /\ job["M"].call = job'["M"].call,
         job["R"] # NULL /\ job["R"].stage = "asking" =>
           job'["R"] # NULL /\ job'["R"].stage = "asking" /\ job'["R"].call.sub = job["R"].call.sub,
         job["R"] # NULL => job["R"].call.sub \in Sub
  PROVE  Routing'
  BY DEF Routing, Asking, Grows, Service

(* M is done with a call. *)
LEMMA RoutingAnswered ==
  ASSUME InferenceInv, Routing, NEW c \in Call("M"), NEW x,
         \/ c \in waiting["M"] /\ waiting'["M"] = waiting["M"] \ {c} /\ job["M"] = NULL
         \/ job["M"] # NULL /\ job["M"].call = c /\ waiting'["M"] = waiting["M"],
         job'["M"] = NULL, job'["R"] = job["R"], Respond(c, x), Grows,
         x = ERROR \/ x \in replies'["M"][c.sub]
  PROVE  Routing'
  <1>0. /\ c.caller \in {"R", "none"} /\ DOMAIN answer = {"U", "R"} /\ "M" \in Service
        /\ job["R"] # NULL => job["R"].call.sub \in Sub
    BY Calls, Jobs DEF Caller, Service, InferenceInv, Typed, AnswerTyped, JobTyped
  <1>1. CASE c.caller = "none"
    <2>1. answer' = answer
      BY <1>1 DEF Respond
    <2> QED BY <1>0, <2>1, RoutingKept
  <1>2. CASE c.caller = "R"
    <2>1. answer'["R"] = x
      BY <1>0, <1>2 DEF Respond
    <2>2. Asking(c.sub) /\ \A d \in waiting'["M"] : d.caller # "R"
      BY <1>2 DEF Routing
    <2> QED BY <2>1, <2>2 DEF Routing, Asking
  <1> QED BY <1>0, <1>1, <1>2

LEMMA LeftCalls ==
  ASSUME InferenceInv, NEW w
  PROVE  /\ \A c \in {Leave(d, w) : d \in waiting["M"]} : c.caller # "R" \/ (c \in waiting["M"] /\ w # "R")
         /\ LeaveJob(job["M"], "R") # NULL => LeaveJob(job["M"], "R").call.caller # "R"
  <1>1. \A d \in waiting["M"] : Leave(d, w) = d \/ Leave(d, w).caller # "R"
    BY DEF InferenceInv, Typed, WaitingTyped, Service, Call, Leave
  <1>2. \A d \in waiting["M"] : Leave(d, "R").caller # "R"
    BY DEF InferenceInv, Typed, WaitingTyped, Service, Call, Leave
  <1>3. ASSUME job["M"] # NULL
        PROVE  LeaveJob(job["M"], "R").call.caller # "R"
    <2>1. job["M"] \in Job("M") /\ job["M"].call \in Call("M")
      BY <1>3, Jobs DEF InferenceInv, Typed, JobTyped, Service
    <2>2. Leave(job["M"].call, "R").caller # "R"
      BY <2>1 DEF Call, Leave
    <2> QED BY <2>1, <2>2, Jobs DEF Service
  <1> QED BY <1>1, <1>2, <1>3 DEF LeaveJob

LEMMA RoutingStep ==
  ASSUME InferenceInv, InferenceInv', [Next]_vars, Routing
  PROVE  Routing'
  <1>0. /\ "R" \in Service /\ "M" \in Service /\ Service = {"R", "M"} /\ Grows /\ Typed
        /\ DOMAIN waiting = Service /\ DOMAIN job = Service /\ DOMAIN answer = {"U", "R"}
        /\ job["R"] # NULL => job["R"].call.sub \in Sub
    BY StepGrows, Jobs, Calls DEF Service, InferenceInv, Typed, WaitingTyped, JobTyped, AnswerTyped
  <1>1. ASSUME UNCHANGED answer, waiting'["M"] = waiting["M"], job'["M"] = job["M"], job'["R"] = job["R"]
        PROVE  Routing'
    BY <1>0, <1>1, RoutingKept
  <1>2. CASE UNCHANGED vars
    BY <1>1, <1>2 DEF vars, serviceVars
  <1>3. ASSUME NEW u \in Sub, Ask(u) \/ Cancel(u) \/ Refresh(u) \/ Expire(u) \/ Judge(u) \/ Conclude(u) \/ Save(u) \/ Return(u)
        PROVE  Routing'
    BY <1>1, <1>3 DEF Ask, Cancel, Refresh, Expire, Judge, Conclude, Save, Return, serviceVars
  <1>4. ASSUME NEW u \in Sub, NoAnswer(u) \/ Receive(u)
        PROVE  Routing'
    <2>1. answer'["R"] = answer["R"] /\ UNCHANGED <<waiting, job>>
      BY <1>0, <1>4 DEF NoAnswer, Receive, serviceVars
    <2> QED BY <1>0, <2>1, RoutingKept
  <1>5. ASSUME NEW u \in Sub, Transmit(u)
        PROVE  Routing'
    <2>1. waiting'["M"] = waiting["M"] /\ UNCHANGED <<job, answer>>
      BY <1>0, <1>5 DEF Transmit, Place
    <2> QED BY <1>0, <2>1, RoutingKept
  <1>6. ASSUME Forsake("R", "U"), answer'["R"] = answer["R"]
        PROVE  Routing'
    <2>1. waiting'["M"] = waiting["M"] /\ job'["M"] = job["M"] /\ job'["R"] = LeaveJob(job["R"], "U")
      BY <1>0, <1>6 DEF Forsake
    <2>2. ASSUME job["R"] # NULL
          PROVE  job'["R"] # NULL /\ job'["R"].stage = job["R"].stage /\ job'["R"].call.sub = job["R"].call.sub
      <3>1. job["R"] \in Job("R") /\ job["R"].call \in Call("R")
        BY <1>0, <2>2, Jobs DEF Typed, JobTyped
      <3> QED BY <1>0, <2>1, <3>1, Jobs, Calls
    <2> QED BY <1>0, <1>6, <2>1, <2>2, RoutingKept
  <1>7. ASSUME NEW u \in Sub, AnswerTimeout(u)
        PROVE  Routing'
    BY <1>6, <1>7 DEF AnswerTimeout
  <1>8. CASE CrashU
    <2>1. Forsake("R", "U") /\ answer' = [answer EXCEPT !["U"] = NULL]
      BY <1>8 DEF CrashU
    <2> QED BY <1>0, <1>6, <2>1
  <1>9. CASE Repeat("M")
    <2>1. PICK c \in waiting["M"], x \in ResultOf("M") :
            /\ c \in Call("M") /\ job["M"] = NULL /\ waiting'["M"] = waiting["M"] \ {c}
            /\ Respond(c, x) /\ x \in replies'["M"][c.sub] /\ UNCHANGED job
      BY <1>0, <1>9, RepeatFacts
    <2> QED BY <1>0, <2>1, RoutingAnswered
  <1>10. CASE Refuse("M")
    <2>1. PICK c \in waiting["M"] :
            /\ job["M"] = NULL /\ waiting' = [waiting EXCEPT !["M"] = @ \ {c}] /\ Respond(c, ERROR) /\ UNCHANGED job
      BY <1>10 DEF Refuse, Reject
    <2>2. c \in Call("M") /\ waiting'["M"] = waiting["M"] \ {c}
      BY <1>0, <2>1 DEF Typed, WaitingTyped
    <2> QED BY <1>0, <2>1, <2>2, RoutingAnswered
  <1>11. CASE Complete("M")
    <2>1. LET c == job["M"].call  x == job["M"].result IN
            /\ job["M"] # NULL /\ c \in Call("M") /\ Respond(c, x) /\ x \in replies'["M"][c.sub]
            /\ job'["M"] = NULL /\ job'["R"] = job["R"] /\ UNCHANGED waiting
      BY <1>0, <1>11, CompleteFacts
    <2> QED BY <1>0, <2>1, RoutingAnswered
  <1>12. ASSUME At("M", "started"), Fail("M"), UNCHANGED waiting
         PROVE  Routing'
    <2>1. job["M"] # NULL /\ job["M"].call \in Call("M")
      BY <1>0, <1>12, AtJob
    <2>2. job'["M"] = NULL /\ job'["R"] = job["R"] /\ Respond(job["M"].call, ERROR)
      BY <1>0, <1>12 DEF Fail
    <2> QED BY <1>0, <1>12, <2>1, <2>2, RoutingAnswered
  <1>13. CASE GiveUp("M") \/ ModelFails
    BY <1>12, <1>13 DEF GiveUp, ModelFails
  <1>14. CASE Begin("M")
    <2>1. PICK c \in waiting["M"] :
            /\ job["M"] = NULL /\ waiting' = [waiting EXCEPT !["M"] = @ \ {c}]
            /\ job' = [job EXCEPT !["M"] = [call |-> c, stage |-> "claimed", result |-> NULL]] /\ UNCHANGED answer
      BY <1>14 DEF Begin
    <2>2. waiting'["M"] = waiting["M"] \ {c} /\ job'["M"].call = c /\ job'["R"] = job["R"]
      BY <1>0, <2>1
    <2>3. /\ \A d \in waiting["M"] : d.caller = "R" =>
                Asking(d.sub)' /\ answer'["R"] = NULL /\ \A e \in waiting["M"] : e.caller = "R" => e = d
      BY <2>1, <2>2 DEF Routing, Asking
    <2>4. \A u \in Sub : replies["M"][u] \subseteq replies'["M"][u]
      BY <1>0 DEF Grows
    <2> QED BY <1>0, <2>1, <2>2, <2>3, <2>4 DEF Routing
  <1>15. CASE Start("M") \/ Queue("M")
    <2>1. PICK s \in Stages, t \in Stages : At("M", s) /\ SetStage("M", t) /\ UNCHANGED <<answer, waiting>>
      BY <1>15 DEF Start, Queue, Stages
    <2>2. job["M"] # NULL /\ job'["M"].call = job["M"].call /\ job'["R"] = job["R"]
      BY <1>0, <2>1, AtJob, StageJob
    <2> QED BY <1>0, <2>1, <2>2, RoutingKept
  <1>16. CASE RunModel
    <2>1. PICK x \in ResultOf("M") : Finish("M", x)
      BY <1>0, <1>16, ModelResult
    <2>2. At("M", "started") /\ UNCHANGED <<answer, waiting>>
      BY <1>16 DEF RunModel
    <2>3. job["M"] # NULL /\ job'["M"].call = job["M"].call /\ job'["R"] = job["R"]
      BY <1>0, <2>1, <2>2, AtJob, FinishJob
    <2> QED BY <1>0, <2>2, <2>3, RoutingKept
  <1>17. ASSUME NEW r \in Service, Drain(r)
         PROVE  Routing'
    BY <1>1, <1>17 DEF Drain
  <1>18. CASE Repeat("R") \/ Refuse("R")
    <2>1. PICK c \in waiting["R"] : \E x :
            waiting' = [waiting EXCEPT !["R"] = @ \ {c}] /\ Respond(c, x) /\ UNCHANGED job
      BY <1>18 DEF Repeat, Refuse, Reject
    <2>2. c.caller \in {"U", "none"}
      BY <1>0, Calls DEF Typed, WaitingTyped, Caller
    <2>3. answer'["R"] = answer["R"] /\ waiting'["M"] = waiting["M"]
      BY <1>0, <2>1, <2>2 DEF Respond
    <2> QED BY <1>0, <2>1, <2>3, RoutingKept
  <1>19. ASSUME At("R", "started") \/ At("R", "queued"), UNCHANGED waiting,
                job' = [job EXCEPT !["R"] = NULL], NEW x, Respond(job["R"].call, x)
         PROVE  Routing'
    <2>1. job["R"].call.caller \in {"U", "none"}
      BY <1>0, <1>19, AtJob, Calls DEF Caller
    <2>2. answer'["R"] = answer["R"] /\ job'["M"] = job["M"]
      BY <1>0, <1>19, <2>1 DEF Respond
    <2> QED BY <1>0, <1>19, <2>2, RoutingKept DEF At
  <1>20. CASE GiveUp("R") \/ Complete("R")
    BY <1>19, <1>20 DEF GiveUp, Complete, Fail
  <1>21. CASE Begin("R")
    <2>1. /\ job["R"] = NULL /\ job'["M"] = job["M"] /\ waiting'["M"] = waiting["M"] /\ UNCHANGED answer
      BY <1>0, <1>21 DEF Begin
    <2> QED BY <1>0, <2>1, RoutingKept
  <1>22. CASE Start("R") \/ Queue("R")
    <2>1. /\ At("R", "claimed") \/ At("R", "worked")
          /\ job'["M"] = job["M"] /\ UNCHANGED <<answer, waiting>>
      BY <1>0, <1>22 DEF Start, Queue, SetStage
    <2> QED BY <1>0, <2>1, RoutingKept DEF At
  <1>23. CASE AskModel
    <2> DEFINE d == [job["R"].call EXCEPT !.body = Outgoing(job["R"].call), !.caller = "R"]
    <2>1. /\ At("R", "started") /\ SetStage("R", "asking") /\ waiting' = [waiting EXCEPT !["M"] = @ \cup {d}] /\ UNCHANGED answer
      BY <1>23 DEF AskModel, Place
    <2>2. /\ job["R"] # NULL /\ job["R"].stage = "started" /\ job["R"].call \in Call("R")
          /\ job'["R"] # NULL /\ job'["R"].call = job["R"].call /\ job'["R"].stage = "asking" /\ job'["M"] = job["M"]
      BY <1>0, <2>1, AtJob, StageJob DEF Stages
    <2>3. d.sub = job["R"].call.sub
      BY <2>2 DEF Call
    <2> HIDE DEF d
    <2>4. waiting'["M"] = waiting["M"] \cup {d}
      BY <1>0, <2>1
    <2>5. /\ answer["R"] = NULL /\ \A c \in waiting["M"] : c.caller # "R"
          /\ job["M"] # NULL => job["M"].call.caller # "R"
      BY <2>2 DEF Routing, Asking
    <2> QED BY <2>1, <2>2, <2>3, <2>4, <2>5 DEF Routing, Asking
  <1>24. ASSUME job["R"] # NULL => job["R"].stage = "started" \/ answer["R"] # NULL,
                answer'["R"] = NULL, UNCHANGED waiting, job'["M"] = job["M"]
         PROVE  Routing'
    BY <1>24, RoutingFree DEF Routing, Asking
  <1>25. CASE HearModel \/ NoModel
    <2>1. (At("R", "started") \/ answer["R"] # NULL) /\ answer'["R"] = NULL /\ UNCHANGED waiting
      BY <1>0, <1>25, ValuesAssumption DEF HearModel, NoModel, ValuesAssumption
    <2>2. job'["M"] = job["M"]
      BY <1>0, <1>25 DEF HearModel, NoModel, Finish
    <2> QED BY <1>24, <2>1, <2>2 DEF At
  <1>26. CASE ModelTimeout
    <2>1. /\ waiting' = [waiting EXCEPT !["M"] = {Leave(c, "R") : c \in @}]
          /\ job' = [s \in Service |-> IF s = "R" THEN NULL ELSE LeaveJob(job[s], "R")]
          /\ At("R", "asking") /\ answer["R"] = NULL /\ Respond(job["R"].call, ERROR)
      BY <1>26 DEF ModelTimeout, Unanswered
    <2>2. job["R"].call.caller \in {"U", "none"}
      BY <1>0, <2>1, AtJob, Calls DEF Caller
    <2>3. answer'["R"] = NULL /\ waiting'["M"] = {Leave(c, "R") : c \in waiting["M"]} /\ job'["M"] = LeaveJob(job["M"], "R")
      BY <1>0, <2>1, <2>2 DEF Respond
    <2> QED BY <2>3, LeftCalls, RoutingFree
  <1>27. CASE CrashService("R")
    <2>1. /\ waiting'["M"] = {Leave(c, "R") : c \in waiting["M"]} /\ job'["M"] = LeaveJob(job["M"], "R")
          /\ answer'["R"] = NULL
      BY <1>0, <1>27 DEF CrashService
    <2> QED BY <2>1, LeftCalls, RoutingFree
  <1>28. CASE CrashService("M")
    <2>1. /\ waiting'["M"] = {} /\ job'["M"] = NULL /\ job'["R"] = LeaveJob(job["R"], "M")
          /\ answer'["R"] = IF \E c \in Dropped("M") : c.caller = "R" THEN ERROR ELSE answer["R"]
      BY <1>0, <1>28 DEF CrashService
    <2>2. job["R"] # NULL => job'["R"] # NULL /\ job'["R"].stage = job["R"].stage /\ job'["R"].call.sub = job["R"].call.sub
      <3>1. job["R"] # NULL => job["R"] \in Job("R") /\ job["R"].call \in Call("R")
        BY <1>0, Jobs DEF Typed, JobTyped
      <3> QED BY <1>0, <2>1, <3>1, Jobs, Calls
    <2>3. CASE \E c \in Dropped("M") : c.caller = "R"
      <3>1. job["R"] # NULL /\ job["R"].stage = "asking"
        BY <2>3 DEF Dropped, Routing, Asking
      <3> QED BY <2>1, <2>2, <2>3, <3>1 DEF Routing
    <2>4. CASE ~ \E c \in Dropped("M") : c.caller = "R"
      BY <1>0, <2>1, <2>2, <2>4, RoutingKept
    <2> QED BY <2>3, <2>4
  <1>29. ASSUME NEW r \in Service, NEW u \in Sub, Resubmit(r, u)
         PROVE  Routing'
    <2>1. PICK b \in Bodies : LET c == [sub |-> u, body |-> b, scenario |-> "normal", caller |-> "none"] IN
            waiting' = [waiting EXCEPT ![r] = @ \cup {c}]
      BY <1>29 DEF Resubmit, Place
    <2>2. \A c \in waiting'["M"] : c.caller = "R" => c \in waiting["M"]
      BY <1>0, <2>1
    <2>3. UNCHANGED <<job, answer>>
      BY <1>29 DEF Resubmit
    <2> QED BY <1>0, <2>2, <2>3, RoutingKept
  <1>30. CASE \E p \in {"U", "R", "M"} : Retire(p)
    BY <1>1, <1>30 DEF Retire, serviceVars
  <1> QED BY <1>0, <1>2, <1>3, <1>4, <1>5, <1>7, <1>8, <1>9, <1>10, <1>11, <1>13, <1>14, <1>15, <1>16, <1>17, <1>18, <1>20, <1>21,
             <1>22, <1>23, <1>25, <1>26, <1>27, <1>28, <1>29, <1>30 DEF Next, UserStep, ServiceStep, JobStep, ModelStep

-----------------------------------------------------------------------------
(* What protect and strict release is what M has signed for the request.   *)

LEMMA GateDemands ==
  ASSUME NEW u \in Sub, NEW w \in ResultOf("R"), NEW x \in {"protect", "strict"}, NEW v,
         Released(Gate!Decide(x, Checks(u, w), v, TRUE))
  PROVE  w.receipt # NULL /\ w.receipt.sub = u /\ w.receipt.req = "asked" /\ w.receipt.resp = w.resp
  <1> DEFINE checks == Checks(u, w)
             relay == IF w.relay = NULL THEN NULL ELSE [upstream |-> "model", decision |-> "forwarded"]
             m == ReceiptSeen(w.receipt)
             local == Gate!LocalChecks(ContractOf(u), [t \in {} |-> "asked"], u \in expired, FALSE, w.resp, m, relay)
             Names == {"receipt_present", "request_binding", "response_binding", "nonce_match", "attempt_match"}
  <1>1. Gate!Failed(checks) = {} /\ Gate!Unknown(checks) \cap Gate!Required = {}
    BY DEF Gate!Decide, Released
  <1>2. \A k \in Names : k \in DOMAIN checks /\ checks[k] = local[k]
    BY DEF Checks, Gate!LocalChecks
  <1>3. /\ local["receipt_present"] # "fail"
        /\ local["request_binding"] \notin {"fail", "na"} /\ local["response_binding"] \notin {"fail", "na"}
        /\ local["attempt_match"] # "fail"
    <2> HIDE DEF checks, local
    <2> QED BY <1>1, <1>2 DEF Gate!Failed, Gate!Unknown, Gate!Required
  <1>4. m # NULL
    BY <1>3 DEF Gate!LocalChecks, Gate!PassIf
  <1>5. w.receipt # NULL /\ m.req = w.receipt.req /\ m.resp = w.receipt.resp /\ m.attempt = w.receipt.sub /\ m.kid = w.receipt.iss
    BY <1>4 DEF ReceiptSeen
  <1>6. w.receipt.iss = "M"
    BY <1>5, Results DEF Receipt
  <1>7. m.resp = w.resp
    BY <1>3, <1>4, <1>5, <1>6 DEF Gate!LocalChecks, Gate!PassIf
  <1>8. m.attempt = u
    BY <1>3, <1>4, <1>5, <1>6 DEF Gate!LocalChecks, Gate!PassIf, ContractOf
  <1>9. m.req = "asked"
    <2>1. local["request_binding"] = Gate!RequestBinding(ContractOf(u), [t \in {} |-> "asked"], m.req)
      BY <1>4, <1>5, <1>6 DEF Gate!LocalChecks
    <2>2. m.req \in Gate!Approved(ContractOf(u), [t \in {} |-> "asked"])
      BY <1>3, <2>1 DEF Gate!RequestBinding
    <2> QED BY <2>2 DEF Gate!Approved, ContractOf
  <1> QED BY <1>5, <1>7, <1>8, <1>9

LEMMA UserVouches ==
  ASSUME InferenceInv, InferenceInv', [Next]_vars, AllOnRecord, RelayVouched', UserVouched
  PROVE  UserVouched'
  <1>0. Grows /\ "M" \in Service /\ "R" \in Service /\ InferenceInv
    BY StepGrows DEF Service
  <1>1. /\ \A x : Passed(x) => Passed(x)'
        /\ \A u, x : Genuine(u, x) => Genuine(u, x)'
    BY <1>0 DEF Grows, Passed, Genuine
  <1>2. answer'["U"] \notin {NULL, ERROR} => Passed(answer["U"])'
    <2>1. CASE answer'["U"] \in {answer["U"], NULL, ERROR}
      BY <1>1, <2>1 DEF UserVouched, Passed
    <2>2. CASE \E u \in Sub : answer'["U"] \in replies'["R"][u]
      BY <2>2 DEF RelayVouched, OfRelay, Passed
    <2> QED BY <2>1, <2>2, AnswersFrom
  <1> DEFINE Hand(u) ==
               /\ phase[u] \in {"judging", "checked"} => Passed(wire[u])
               /\ phase[u] \in {"decided", "saved"} /\ mode[u] \in {"protect", "strict"} /\ outcome[u].response # NULL =>
                    Genuine(u, outcome[u].response)
               /\ mode[u] \in {"protect", "strict"} /\ stored[u].response # NULL => Genuine(u, stored[u].response)
  <1>3. \A u \in Sub : Hand(u)
    BY DEF UserVouched
  <1>4. (\A u \in Sub : Hand(u)') => UserVouched'
    BY <1>2 DEF UserVouched
  <1>keep. ASSUME NEW u \in Sub,
               phase'[u] \in {"judging", "checked"} => Passed(wire'[u]),
               phase'[u] \in {"decided", "saved"} /\ mode'[u] \in {"protect", "strict"} /\ outcome'[u].response # NULL =>
                 Genuine(u, outcome'[u].response),
               mode'[u] \in {"protect", "strict"} /\ stored'[u].response # NULL => Genuine(u, stored'[u].response)
        PROVE  Hand(u)'
    <2>1. issued["M"] \subseteq issued'["M"]
      BY <1>0 DEF Grows
    <2>2. phase'[u] \in {"judging", "checked"} => Passed(wire[u])'
      BY <1>keep, <2>1 DEF Passed
    <2>3. \A x : Genuine(u, x) => \E m \in issued'["M"] : m.sub = u /\ m.req = "asked" /\ m.resp = x
      BY <2>1 DEF Genuine
    <2>4. phase'[u] \in {"decided", "saved"} /\ mode'[u] \in {"protect", "strict"} /\ outcome'[u].response # NULL =>
            Genuine(u, outcome[u].response)'
      BY <1>keep, <2>3 DEF Genuine
    <2>5. mode'[u] \in {"protect", "strict"} /\ stored'[u].response # NULL => Genuine(u, stored[u].response)'
      BY <1>keep, <2>3 DEF Genuine
    <2> HIDE DEF Passed, Genuine
    <2> QED BY <2>2, <2>4, <2>5
  <1>5. ASSUME NEW u \in Sub, phase'[u] = phase[u] \/ phase'[u] \notin {"judging", "checked", "decided", "saved"},
               wire'[u] = wire[u], mode'[u] = mode[u], outcome'[u] = outcome[u], stored'[u].response \in {stored[u].response, NULL}
        PROVE  Hand(u)'
    BY <1>keep, <1>3, <1>5
  <1>types. /\ DOMAIN phase = Sub /\ DOMAIN wire = Sub /\ DOMAIN mode = Sub /\ DOMAIN outcome = Sub /\ DOMAIN stored = Sub
        /\ \A u \in Sub : stored[u] \in Record
    BY DEF InferenceInv, Typed, UserTyped, UserTypes, Record
  <1>6. CASE UNCHANGED userVars
    BY <1>4, <1>5, <1>6 DEF userVars
  <1>7. ASSUME NEW u \in Sub, Hand(u)',
               \A v \in Sub \ {u} : /\ phase'[v] = phase[v] /\ wire'[v] = wire[v] /\ mode'[v] = mode[v]
                                   /\ outcome'[v] = outcome[v] /\ stored'[v] = stored[v]
        PROVE  UserVouched'
    <2>1. \A v \in Sub \ {u} : Hand(v)'
      BY <1>5, <1>7
    <2> QED BY <1>4, <1>7, <2>1
  <1> HIDE DEF Hand
  <1>8. ASSUME NEW u \in Sub, Ask(u)
        PROVE  UserVouched'
    <2>1. /\ phase[u] = "none" /\ phase' = [phase EXCEPT ![u] = "ready"]
          /\ \E x \in Modes : mode' = [mode EXCEPT ![u] = x]
          /\ stored' = [stored EXCEPT ![u] = [stored[u] EXCEPT !.state = "pending"]] /\ UNCHANGED <<wire, outcome>>
      BY <1>8 DEF Ask, Enter
    <2>2. stored'[u].response = stored[u].response /\ phase'[u] = "ready"
      BY <1>types, <2>1 DEF Record
    <2>3. stored[u].response = NULL
      BY <2>1 DEF AllOnRecord, OnRecord, Released
    <2> QED BY <1>types, <1>7, <2>1, <2>2, <2>3 DEF Hand
  <1>9. ASSUME NEW u \in Sub, NEW p \in {"sent", "judging", "checked", "closed"}, Enter(u, p), UNCHANGED <<wire, mode, outcome, stored>>,
               p \in {"judging", "checked"} => phase[u] = "judging"
        PROVE  UserVouched'
    <2>1. phase'[u] = p /\ \A v \in Sub \ {u} : phase'[v] = phase[v]
      BY <1>types, <1>9 DEF Enter
    <2>2. Hand(u)'
      BY <1>keep, <1>3, <1>9, <2>1 DEF Hand
    <2> QED BY <1>7, <1>9, <2>1, <2>2
  <1>10. ASSUME NEW u \in Sub, Transmit(u) \/ Judge(u) \/ Return(u)
         PROVE  UserVouched'
    BY <1>9, <1>10 DEF Transmit, Judge, Return
  <1>11. ASSUME NEW u \in Sub, Receive(u)
         PROVE  UserVouched'
    <2>1. PICK p \in {"judging", "checked"} :
            /\ answer["U"] \notin {NULL, ERROR} /\ phase' = [phase EXCEPT ![u] = p] /\ wire' = [wire EXCEPT ![u] = answer["U"]]
            /\ UNCHANGED <<mode, outcome, stored>>
      BY <1>11 DEF Receive, Enter
    <2>2. phase'[u] = p /\ wire'[u] = answer["U"] /\ Passed(answer["U"])
      BY <1>types, <2>1 DEF UserVouched
    <2>3. Hand(u)'
      BY <1>keep, <1>3, <2>1, <2>2 DEF Hand
    <2> QED BY <1>types, <1>7, <2>1, <2>3
  <1>12. ASSUME NEW u \in Sub, NEW s, Stop(u, s), UNCHANGED <<wire, mode, stored>>
         PROVE  UserVouched'
    <2>1. phase'[u] = "decided" /\ outcome'[u].response = NULL
          /\ \A v \in Sub \ {u} : phase'[v] = phase[v] /\ outcome'[v] = outcome[v]
      BY <1>types, <1>12 DEF Stop, Enter
    <2>2. Hand(u)'
      BY <1>keep, <1>3, <1>12, <2>1 DEF Hand
    <2> QED BY <1>7, <1>12, <2>1, <2>2
  <1>13. ASSUME NEW u \in Sub, NoAnswer(u) \/ AnswerTimeout(u)
         PROVE  UserVouched'
    BY <1>12, <1>13 DEF NoAnswer, AnswerTimeout, OnError
  <1>14. ASSUME NEW u \in Sub, Conclude(u)
         PROVE  UserVouched'
    <2>1. phase[u] = "checked" /\ UNCHANGED <<mode, wire, stored>>
      BY <1>14 DEF Conclude
    <2>2. CASE Stop(u, "cancelled") \/ Stop(u, "error")
      BY <1>12, <2>1, <2>2
    <2> DEFINE action == Gate!Decide(mode[u], Checks(u, wire[u]), verdict[u], TRUE)
               x == IF Released(action) THEN wire[u].resp ELSE NULL
    <2>3. CASE outcome' = [outcome EXCEPT ![u] = [state |-> action, response |-> x]] /\ Enter(u, "decided")
      <3>1. wire[u] \in ResultOf("R") /\ Passed(wire[u])
        BY <2>1 DEF InferenceInv, Typed, UserTyped, InHand, UserVouched
      <3>2. mode[u] \in {"protect", "strict"} /\ x # NULL => Genuine(u, x)
        <4> SUFFICES ASSUME mode[u] \in {"protect", "strict"}, x # NULL
                     PROVE  Genuine(u, x)
          OBVIOUS
        <4>1. Released(action) /\ x = wire[u].resp
          OBVIOUS
        <4>2. wire[u].receipt # NULL /\ wire[u].receipt.sub = u /\ wire[u].receipt.req = "asked" /\ wire[u].receipt.resp = wire[u].resp
          BY <3>1, <4>1, GateDemands
        <4> QED BY <3>1, <4>1, <4>2 DEF Passed, Genuine
      <3> HIDE DEF action, x
      <3>3. phase'[u] = "decided" /\ outcome'[u].response = x
            /\ \A v \in Sub \ {u} : phase'[v] = phase[v] /\ outcome'[v] = outcome[v]
        BY <1>types, <2>3 DEF Enter
      <3>4. Hand(u)'
        BY <1>keep, <1>3, <2>1, <3>2, <3>3 DEF Hand
      <3> QED BY <1>7, <2>1, <3>3, <3>4
    <2> QED BY <1>14, <2>2, <2>3 DEF Conclude
  <1>15. ASSUME NEW u \in Sub, Save(u)
         PROVE  UserVouched'
    <2> DEFINE o == [stored[u] EXCEPT !.state = outcome[u].state, !.response = outcome[u].response, !.verdict = verdict[u]]
    <2>1. phase[u] = "decided" /\ phase' = [phase EXCEPT ![u] = "saved"] /\ UNCHANGED <<mode, wire, outcome>>
      BY <1>15 DEF Save, Enter
    <2>2. stored' = [stored EXCEPT ![u] = o]
      BY <1>15 DEF Save
    <2>3. o.response = outcome[u].response
      BY <1>types DEF Record
    <2> HIDE DEF o
    <2>4. /\ phase'[u] = "saved" /\ stored'[u] = o
          /\ \A v \in Sub \ {u} : phase'[v] = phase[v] /\ stored'[v] = stored[v]
      BY <1>types, <2>1, <2>2
    <2>5. Hand(u)'
      BY <1>keep, <1>3, <2>1, <2>3, <2>4 DEF Hand
    <2> QED BY <1>7, <2>1, <2>4, <2>5
  <1>16. ASSUME NEW u \in Sub, Refresh(u)
         PROVE  UserVouched'
    <2>1. PICK x : stored' = [stored EXCEPT ![u] = [stored[u] EXCEPT !.verdict = x]] /\ UNCHANGED <<phase, mode, wire, outcome>>
      BY <1>16 DEF Refresh, Refreshed
    <2>2. stored'[u].response = stored[u].response /\ \A v \in Sub \ {u} : stored'[v] = stored[v]
      BY <1>types, <2>1 DEF Record
    <2> QED BY <1>4, <1>5, <2>1, <2>2
  <1>17. CASE CrashU
    <2>1. phase' = [u \in Sub |-> IF Active(u) THEN "closed" ELSE phase[u]] /\ UNCHANGED <<mode, wire, outcome>>
      BY <1>17 DEF CrashU
    <2>2. ASSUME NEW u \in Sub
          PROVE  stored'[u].response \in {stored[u].response, NULL}
      <3>1. stored'[u] = IF stored[u].state = "pending" THEN [stored[u] EXCEPT !.state = "interrupted", !.response = NULL]
                         ELSE stored[u]
        BY <1>17 DEF CrashU
      <3>2. [stored[u] EXCEPT !.state = "interrupted", !.response = NULL].response = NULL
        BY <1>types DEF Record
      <3> QED BY <3>1, <3>2
    <2> QED BY <1>4, <1>5, <2>1, <2>2
  <1>18. ASSUME NEW u \in Sub, Cancel(u) \/ Expire(u)
         PROVE  UserVouched'
    BY <1>4, <1>5, <1>18 DEF Cancel, Expire, userVars
  <1>19. ASSUME NEW r \in Service, ServiceStep(r) \/ Drain(r) \/ CrashService(r)
         PROVE  UserVouched'
    BY <1>6, <1>19 DEF ServiceStep, JobStep, Repeat, Refuse, Reject, Begin, Start, GiveUp, Queue, Complete, Drain, CrashService
  <1>20. CASE ModelStep
    BY <1>6, <1>20 DEF ModelStep, RunModel, ModelFails, AskModel, HearModel, NoModel, ModelTimeout
  <1>21. CASE (\E r \in Service, u \in Sub : Resubmit(r, u)) \/ (\E p \in {"U", "R", "M"} : Retire(p)) \/ UNCHANGED vars
    BY <1>6, <1>21 DEF Resubmit, Retire, vars
  <1> QED BY <1>8, <1>10, <1>11, <1>13, <1>14, <1>15, <1>16, <1>17, <1>18, <1>19, <1>20, <1>21 DEF Next, UserStep

LEMMA InitVouched == Init => Vouched
  <1> SUFFICES ASSUME Init
               PROVE  Vouched
    OBVIOUS
  <1>1. Routing
    BY DEF Init, Routing, Service
  <1>2. ModelVouched /\ RelayVouched
    BY DEF Init, ModelVouched, RelayVouched, Service
  <1>3. UserVouched
    BY DEF Init, UserVouched
  <1> QED BY <1>1, <1>2, <1>3 DEF Vouched

LEMMA NextVouched == InferenceInv /\ InferenceInv' /\ AllOnRecord /\ Vouched /\ [Next]_vars => Vouched'
  BY RoutingStep, ModelVouches, RelayVouches, UserVouches DEF Vouched

(* The rest of the inductive argument, on top of the first part: what is   *)
(* returned is backed, and what is decided is on record.                   *)
THEOREM AlwaysVouched == Spec => [](InferenceInv /\ AllOnRecord /\ Vouched)
  <1>1. InferenceInv /\ AllOnRecord /\ [Next]_vars => AllOnRecord'
    BY RecordKept
  <1> QED BY <1>1, InitOnRecord, InitVouched, NextVouched, InferenceInvariant, PTL DEF Spec

(* What R and M return is in their outboxes first, and R passes on a       *)
(* receipt M has queued (service.py:281, 305, 308).                        *)
THEOREM RepliesAreBacked == Spec => []RepliesBacked
  <1>1. InferenceInv /\ Vouched => RepliesBacked
    BY DEF Vouched, ModelVouched, RelayVouched, OfModel, OfRelay, Queued, RepliesBacked
  <1> QED BY <1>1, AlwaysVouched, PTL

(* What protect and strict let through is M's own answer to what the user  *)
(* asked, whatever R does to it and whatever T says (user_gate.py:38).     *)
THEOREM ReleasesGenuine == Spec => []ReleasedGenuine
  <1>1. Vouched => ReleasedGenuine
    BY DEF Vouched, UserVouched, Genuine, ReleasedGenuine
  <1> QED BY <1>1, AlwaysVouched, PTL

=============================================================================
