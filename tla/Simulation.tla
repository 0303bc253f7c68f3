----------------------------- MODULE Simulation -----------------------------
(***************************************************************************)
(* The simulator (sim/): U, R, M and T with simulated time, R behaving as  *)
(* the scenario's switches say, T failing or cheating as they say, then    *)
(* the final verdicts, the checkpoint and an auditor's replay.  A          *)
(* scenario is picked at the start; from there each step is one stretch of *)
(* the program between two hand-overs.  Attempt i stands for its own       *)
(* subject, attempt_id, nonce and salt.                                    *)
(***************************************************************************)
EXTENDS Reconcile, SequencesExt

CONSTANTS
  Scenarios,  \* what may be simulated: records like those of MCSimulation
  Formatter   \* the one public transformation besides "identity"

(* What R makes of a request, as it may behave, and all that can become of *)
(* one.                                                                    *)
Rewritten(b) == IF b.modify = NULL THEN "asked" ELSE IF b.modify = "public-formatter" THEN Formatter ELSE b.modify

Behaviors == {x.relay : x \in Scenarios} \cup ({x.second : x \in Scenarios} \ {NULL})

Bodies == {NULL, "asked", Formatter} \cup {Rewritten(b) : b \in Behaviors}

(* The models R may turn to, and what M makes of a request. *)
Models == {"model-A"} \cup {b.route : b \in Behaviors}

(* MockModel.infer: the answer of a model to a request. *)
Infer(model, body) == [model |-> model, to |-> body, changed |-> FALSE]

(* Answers as they are or as R changed them, and commitments. *)
Answers == [model : Models, to : Bodies, changed : BOOLEAN]
RequestCommits == [salt : Nat, of : Bodies]
AnswerCommits == [salt : Nat, of : Answers]

(* The forms of what U, R and M sign and of what U tells T alone. *)
ContractForms ==
  [ type : {"contract"}, iss : {"U"}, signed : {TRUE}, attempt : Nat, nonce : Nat, req : RequestCommits,
    requested : {"model-A"}, allowed : {x.allowed : x \in Scenarios}, fallback : {x.fallback : x \in Scenarios},
    transforms : {x.transforms : x \in Scenarios}, respTransforms : {{"identity"}}, expires : Nat, time : Nat ]

PrivateForms ==
  [ type : {"private"}, attempt : Nat, commit : RequestCommits,
    expected : UNION {[D -> RequestCommits] : D \in SUBSET {Formatter}} ]

RelayForms ==
  [ type : {"relay"}, iss : {"R"}, signed : {TRUE}, attempt : Nat, in : RequestCommits, out : RequestCommits,
    transform : {"identity"} \cup {b.declared : b \in Behaviors}, upstream : Models, respIn : {NULL} \cup AnswerCommits,
    respOut : {NULL} \cup AnswerCommits, respTransform : {"identity"},
    decision : {"forwarded", "fallback", "refused", "error"}, nonce : {NULL} \cup Nat, seq : Nat ]

ReceiptForms ==
  [ type : {"receipt"}, iss : {"M"}, signed : {TRUE}, kid : {"M"}, attempt : Nat, req : {NULL} \cup RequestCommits,
    resp : {NULL} \cup AnswerCommits, model : Models, hash : {HashOf[m] : m \in Models \ {NULL}},
    nonce : {NULL} \cup Nat, decision : {"served", "refused"} ]

ObservationForms ==
  [ type : {"observation"}, iss : {"U"}, signed : {TRUE}, attempt : Nat, resp : AnswerCommits, at : Nat,
    presented : {NULL} \cup ReceiptForms ]

(* What each model takes to answer. *)
Latency ==
  [m \in {"model-A", "model-A-small", "model-B"} |->
     CASE m = "model-A" -> 200 [] m = "model-A-small" -> 80 [] m = "model-B" -> 150]

Manifest == [type |-> "manifest", iss |-> "U", signed |-> TRUE, attempt |-> 0]

(* The simulator makes an attempt at least, in a mode there is, and routes *)
(* to models there are; U pins M's key.  It leaves allow_tool_directives   *)
(* at its default; the public transformation is not "identity", and NULL   *)
(* is not a request, a model, a nonce, a commitment, an answer, a          *)
(* statement or a status.                                                  *)
ASSUME SimulationAssumption ==
  /\ \A x \in Scenarios : /\ x.attempts \in Nat \ {0} /\ x.capacity \in Nat /\ x.delay \in Nat
                          /\ x.mode \in {"observe", "protect", "strict"}
  /\ Models \subseteq DOMAIN Latency \cup {NULL}
  /\ ~ AllowTools /\ "M" \in Trusted
  /\ Formatter # "identity"
  /\ NULL \notin {"asked", Formatter, "failed"} \cup DOMAIN Latency \cup Nat
  /\ NULL \notin RequestCommits \cup AnswerCommits \cup Answers
  /\ NULL \notin ContractForms \cup PrivateForms \cup RelayForms \cup ReceiptForms \cup ObservationForms \cup {Manifest}

VARIABLES
  s,        \* the scenario
  pc, i, now,
  down,     \* T does not answer
  queue,    \* evidence not yet handed to T, of each party
  log, private,  \* what T has: statements with their registration times, private evidence
  held,     \* registration receipts the parties keep
  wire,     \* what travels from U over R to M and back, and R's side notes
  cache,    \* the last answer R passed on
  gates, truths,  \* per attempt: U's decision; what really happened
  finals,   \* the final verdicts
  anchor,   \* the log at the checkpoint
  audit     \* the auditor's result
vars == <<s, pc, i, now, down, queue, log, private, held, wire, cache, gates, truths, finals, anchor, audit>>

HopMs == 20
RelayMs == 5
SignMs == 2
DelayMs == 15 + s.delay
PollMs == 50
DeadlineMs == 1500
TtlMs == 5000

Behavior == IF i > 1 /\ s.second # NULL THEN s.second ELSE s.relay
Omits == Behavior.omit \/ "R" \notin s.cooperation

Commit(salt, x) == IF salt = NULL THEN NULL ELSE [salt |-> salt, of |-> x]

-----------------------------------------------------------------------------
(* EvidenceQueue: the oldest item goes when there is no room. *)
Enqueue(q, items) ==
  LET all == q \o items
  IN IF Len(all) <= s.capacity THEN all ELSE SubSeq(all, Len(all) - s.capacity + 1, Len(all))

Leaves(entries) == [n \in DOMAIN entries |-> entries[n].stmt]

(* What a sequence holds at some of its places, in order. *)
Kept(q, places) ==
  LET kept[n \in 0 .. Len(q)] ==
        IF n = 0 THEN <<>> ELSE IF n \in places THEN Append(kept[n - 1], q[n]) ELSE kept[n - 1]
  IN kept[Len(q)]

(* What T registers of what it is handed: all but private evidence. *)
Statements(q) == Kept(q, {n \in DOMAIN q : q[n].type # "private"})

(* receive_private: what comes last about an attempt stays. *)
ReceivePrivate(q) ==
  [a \in DOMAIN private |->
     LET given == {n \in DOMAIN q : q[n].type = "private" /\ q[n].attempt = a}
     IN IF given = {} THEN private[a] ELSE q[CHOOSE n \in given : \A k \in given : k <= n]]

(* flush: all of it in order, or nothing while T is down.  T appends each  *)
(* statement with the time at which it becomes visible and signs a receipt *)
(* over the log so far.                                                    *)
Hand(q, t) ==
  LET stmts == Statements(q)
      grown == log \o [n \in DOMAIN stmts |-> [stmt |-> stmts[n], at |-> t + DelayMs]]
  IN /\ log' = grown
     /\ held' = held \cup {[index |-> n, leaves |-> SubSeq(Leaves(grown), 1, n)] : n \in Len(log) + 1 .. Len(grown)}
     /\ private' = ReceivePrivate(q)

Deliver(party, items, t) ==
  LET q == Enqueue(queue[party], items)
  IN /\ queue' = [queue EXCEPT ![party] = IF down THEN q ELSE <<>>]
     /\ IF down THEN UNCHANGED <<log, held, private>> ELSE Hand(q, t)

Nothing == UNCHANGED <<queue, log, held, private>>

(* The evidence on a among the first n entries. *)
EvidenceOn(a, n) == {k \in 1 .. n : log[k].stmt.attempt = a /\ log[k].stmt.type # "verdict"}

(* Entries are told apart by their places in the log. *)
Visible(a, t) == Restrict(log, {n \in EvidenceOn(a, Len(log)) : log[n].at <= t})

Parties == s.expected \cap s.cooperation

(* ThirdParty.reconcile: a T that misjudges passes everything. *)
JudgeHonest(a, t) == Verdict(Gather(Visible(a, t), private[a]), Parties)

Judge(a, t) ==
  LET v == JudgeHonest(a, t)
  IN IF ~ s.misjudge THEN v
     ELSE [v EXCEPT !.status = "passed", !.discrepancies = {},
             !.equations = [e \in DOMAIN @ |-> IF @[e] = "fail" THEN "pass" ELSE @[e]]]

(* request_verdict: NULL while T is down; only a verdict that settles the  *)
(* matter is signed and recorded.                                          *)
RequestVerdict(a, t) ==
  LET v == Judge(a, t)
  IN IF down THEN NULL ELSE [verdict |-> v, signed |-> v.status \in {"passed", "failed"}]

VerdictEntry(a, v, t) ==
  [stmt |-> [type |-> "verdict", iss |-> "T", signed |-> TRUE, attempt |-> a, verdict |-> v], at |-> t]

-----------------------------------------------------------------------------
Init ==
  /\ s \in Scenarios
  /\ pc = "user" /\ i = 1 /\ now = 0 /\ down = s.down
  /\ queue = [p \in {"U", "R", "M"} |-> <<>>]
  /\ log = <<>> /\ held = {} /\ private = [a \in 1 .. s.attempts |-> NULL]
  /\ wire = NULL /\ cache = NULL /\ gates = <<>> /\ truths = <<>>
  /\ finals = NULL /\ anchor = NULL /\ audit = NULL

Contract ==
  [ type |-> "contract", iss |-> "U", signed |-> TRUE, attempt |-> i, nonce |-> i, req |-> Commit(i, "asked"),
    requested |-> "model-A", allowed |-> s.allowed, fallback |-> s.fallback, transforms |-> s.transforms,
    respTransforms |-> {"identity"}, expires |-> now + TtlMs, time |-> now ]

ExpectedCommits == [t \in {Formatter} \cap s.transforms |-> Commit(i, t)]

Private == [type |-> "private", attempt |-> i, commit |-> Commit(i, "asked"), expected |-> ExpectedCommits]

(* What really happens in an attempt: what reached M, the model that M was *)
(* asked for, its answer and what came back to U.                          *)
Truth(atModel, model, answer, atUser) ==
  [atModel |-> atModel, model |-> model, answer |-> answer, atUser |-> atUser]

(* U signs the contract, hands over what T should know, then sends. *)
Request ==
  /\ pc = "user" /\ pc' = "relay"
  /\ now' = now + SignMs
  /\ Deliver("U", <<Contract, Private>>, now')
  /\ wire' = [contract |-> Contract]
  /\ truths' = Append(truths, Truth(NULL, NULL, NULL, NULL))
  /\ UNCHANGED <<s, i, down, cache, gates, finals, anchor, audit>>

(* _statement of R; the times and the transformation of answers are fixed. *)
RelayStatement(out, transform, upstream, respIn, respOut, decision, nonce) ==
  [ type |-> "relay", iss |-> "R", signed |-> TRUE, attempt |-> i, in |-> Commit(i, "asked"), out |-> out,
    transform |-> transform, upstream |-> upstream, respIn |-> respIn, respOut |-> respOut,
    respTransform |-> "identity", decision |-> decision, nonce |-> nonce, seq |-> i ]

(* R answers U: an answer or NULL for none, a receipt and a statement. *)
Answer(body, receipt, relay) ==
  wire' = [contract |-> wire.contract, body |-> body, relay |-> relay,
           receipt |-> IF Behavior.strip THEN NULL ELSE receipt]

(* The request goes no further. *)
RelayDrops ==
  /\ pc = "relay" /\ Behavior.drop /\ pc' = "received"
  /\ IF Omits \/ ~ Behavior.declareRefused
     THEN Nothing /\ now' = now + 2 * HopMs
     ELSE /\ Deliver("R", <<RelayStatement(Commit(i, "asked"), "identity", "model-A", NULL, NULL, "refused", i)>>,
                     now + HopMs + SignMs)
          /\ now' = now + 2 * HopMs + SignMs
  /\ Answer(NULL, NULL, NULL)
  /\ UNCHANGED <<s, i, down, cache, gates, truths, finals, anchor, audit>>

(* The answer to an earlier attempt comes back instead. *)
RelayReplays ==
  /\ pc = "relay" /\ ~ Behavior.drop /\ Behavior.replay /\ cache # NULL /\ pc' = "received"
  /\ LET again == Commit(i, cache.body)
     IN IF Omits THEN Nothing /\ now' = now + 2 * HopMs
        ELSE /\ Deliver("R", <<RelayStatement(Commit(i, "asked"), "identity", "model-A", again, again, "forwarded", i)>>,
                        now + HopMs + SignMs)
             /\ now' = now + 2 * HopMs + SignMs
  /\ Answer(cache.body, cache.receipt, NULL)
  /\ truths' = [truths EXCEPT ![i] = Truth(@.atModel, @.model, @.answer, cache.body)]
  /\ UNCHANGED <<s, i, down, cache, gates, finals, anchor, audit>>

Upstream == IF Behavior.route = NULL THEN "model-A" ELSE Behavior.route

(* The request goes on to M, changed and stripped as the switches say. *)
RelayForwards ==
  /\ pc = "relay" /\ ~ Behavior.drop /\ (~ Behavior.replay \/ cache = NULL) /\ pc' = "model"
  /\ wire' = [contract |-> wire.contract, body |-> Rewritten(Behavior), nonce |-> IF Behavior.dropNonce THEN NULL ELSE i,
              salt |-> IF Behavior.dropSalt THEN NULL ELSE i]
  /\ truths' = [truths EXCEPT ![i] = Truth(Rewritten(Behavior), Upstream, @.answer, @.atUser)]
  /\ now' = now + HopMs + RelayMs + HopMs
  /\ Nothing
  /\ UNCHANGED <<s, i, down, cache, gates, finals, anchor, audit>>

(* lookup_contract: the contract on the attempt that T shows at t, or NULL. *)
LookupContract(t) ==
  LET seen == {n \in DOMAIN log : log[n].stmt.type = "contract" /\ log[n].stmt.attempt = i /\ log[n].at <= t}
  IN IF down \/ seen = {} THEN NULL ELSE log[CHOOSE n \in seen : \A k \in seen : n <= k].stmt

(* _pre_exec_check of M. *)
PreExec ==
  LET c == LookupContract(now)
  IN IF ~ s.preExec THEN "skipped"
     ELSE IF c = NULL THEN "unavailable"
     ELSE IF wire.nonce # c.nonce \/ wire.salt = NULL THEN "failed"
     ELSE IF "identity" \in c.transforms /\ Commit(wire.salt, wire.body) = c.req THEN "passed"
     ELSE IF c.transforms \subseteq {"identity"} THEN "failed" ELSE "unverifiable"

Receipt(answer, decision) ==
  IF ~ s.issueReceipts \/ "M" \notin s.cooperation THEN NULL
  ELSE [ type |-> "receipt", iss |-> "M", signed |-> TRUE, kid |-> "M", attempt |-> i,
         req |-> Commit(wire.salt, wire.body), resp |-> IF answer = NULL THEN NULL ELSE Commit(wire.salt, answer),
         model |-> Upstream, hash |-> HashOf[Upstream], nonce |-> wire.nonce, decision |-> decision ]

(* M hands its receipt to T, if there is one; `late' is when it answers R. *)
HandReceipt(receipt, t) ==
  IF receipt = NULL THEN Nothing /\ now' = t + HopMs
  ELSE Deliver("M", <<receipt>>, t + SignMs) /\ now' = t + SignMs + HopMs

(* M's answer on its way back to R. *)
Back(answer, receipt) ==
  wire' = [contract |-> wire.contract, body |-> wire.body, nonce |-> wire.nonce, salt |-> wire.salt,
           answer |-> answer, receipt |-> receipt]

(* serve: M refuses, or runs the model; one that colludes keeps its own   *)
(* receipt back.                                                           *)
Serve ==
  /\ pc = "model"
  /\ LET refused == PreExec = "failed"
         answer == IF refused THEN NULL ELSE Infer(Upstream, wire.body)
         receipt == IF s.modelColludes /\ ~ refused THEN NULL
                    ELSE Receipt(answer, IF refused THEN "refused" ELSE "served")
     IN /\ HandReceipt(receipt, now + IF refused THEN 0 ELSE Latency[Upstream])
        /\ Back(answer, receipt)
        /\ truths' = [truths EXCEPT ![i] = Truth(@.atModel, @.model, answer, @.atUser)]
        /\ pc' = IF ~ refused /\ Behavior.tamper /\ Behavior.collude THEN "forge" ELSE "answer"
  /\ UNCHANGED <<s, i, down, cache, gates, finals, anchor, audit>>

Passed(answer) == IF Behavior.tamper THEN [answer EXCEPT !.changed = TRUE] ELSE answer

(* forge_receipt: M signs what R made of the answer. *)
Forge ==
  /\ pc = "forge" /\ pc' = "answer"
  /\ LET receipt == Receipt(Passed(wire.answer), "served")
     IN /\ Back(wire.answer, receipt)
        /\ IF receipt = NULL THEN Nothing /\ UNCHANGED now
           ELSE Deliver("M", <<receipt>>, now + SignMs) /\ now' = now + SignMs
  /\ UNCHANGED <<s, i, down, cache, gates, truths, finals, anchor, audit>>

(* R turns to U: a statement of what it did, unless it keeps that back, *)
(* and the answer or an error.                                          *)
RelayAnswers ==
  /\ pc = "answer" /\ pc' = "received"
  /\ LET got == wire.answer # NULL
         out == IF got THEN Passed(wire.answer) ELSE NULL
         CommitOf(x) == IF got THEN Commit(i, x) ELSE NULL
         respIn == CommitOf(IF Behavior.collude THEN out ELSE wire.answer)
         statement == RelayStatement(
           IF Behavior.honest THEN Commit(i, wire.body) ELSE Commit(i, "asked"), Behavior.declared, Upstream,
           respIn, IF Behavior.honest THEN CommitOf(out) ELSE respIn,
           IF ~ got THEN "error" ELSE IF Behavior.declareFallback THEN "fallback" ELSE "forwarded",
           IF Behavior.dropNonce THEN NULL ELSE i)
         shown == IF Omits \/ ~ got THEN NULL ELSE statement
     IN /\ IF Omits THEN Nothing /\ now' = now + HopMs
           ELSE Deliver("R", <<statement>>, now + SignMs) /\ now' = now + SignMs + HopMs
        /\ Answer(out, wire.receipt, shown)
        /\ cache' = IF got THEN [body |-> out, receipt |-> wire.receipt] ELSE cache
        /\ truths' = [truths EXCEPT ![i] = Truth(@.atModel, @.model, @.answer, out)]
  /\ UNCHANGED <<s, i, down, gates, finals, anchor, audit>>

-----------------------------------------------------------------------------
Decided(action, status) ==
  gates' = Append(gates, [action |-> action, status |-> status, wait |-> now' - wire.got])

NoAnswer ==
  /\ pc = "received" /\ wire.body = NULL /\ pc' = "next"
  /\ gates' = Append(gates, [action |-> "no_response", status |-> NULL, wait |-> 0])
  /\ Nothing
  /\ UNCHANGED <<s, i, now, down, wire, cache, truths, finals, anchor, audit>>

Observation ==
  [ type |-> "observation", iss |-> "U", signed |-> TRUE, attempt |-> i, resp |-> Commit(i, wire.body),
    at |-> now, presented |-> wire.receipt ]

(* U hands over what it received, checks it, and in strict mode goes on to *)
(* ask T unless the checks have settled it.                                *)
Receive ==
  /\ pc = "received" /\ wire.body # NULL
  /\ now' = now + SignMs
  /\ Deliver("U", <<Observation, Private>>, now')
  /\ LET checks == LocalChecks(wire.contract, ExpectedCommits, now' > wire.contract.expires, s.injected,
                               Commit(i, wire.body), wire.receipt, wire.relay)
         settled == s.mode # "strict" \/ Failed(checks) # {}
     IN /\ pc' = IF settled THEN "next" ELSE "poll"
        /\ wire' = [got |-> now, checks |-> checks]
        /\ gates' = IF settled
                    THEN Append(gates, [action |-> Decide(s.mode, checks, NULL, FALSE), status |-> NULL,
                         wait |-> IF s.mode = "observe" THEN 0 ELSE SignMs])
                    ELSE gates
  /\ UNCHANGED <<s, i, down, cache, truths, finals, anchor, audit>>

(* The loop of _decide: U asks until a verdict settles the matter or its   *)
(* deadline has passed.                                                    *)
Poll ==
  /\ pc = "poll"
  /\ LET reply == RequestVerdict(i, now)
         settled == reply # NULL /\ reply.signed
         last == now + PollMs > wire.got + DeadlineMs
         status == IF reply = NULL THEN NULL ELSE reply.verdict.status
     IN /\ now' = IF settled \/ last THEN now ELSE now + PollMs
        /\ log' = IF settled THEN Append(log, VerdictEntry(i, reply.verdict, now)) ELSE log
        /\ pc' = IF settled \/ last THEN "next" ELSE "poll"
        /\ IF settled \/ last THEN Decided(Decide(s.mode, wire.checks, status, ~ settled), status)
           ELSE UNCHANGED gates
  /\ UNCHANGED <<s, i, down, queue, private, held, wire, cache, truths, finals, anchor, audit>>

NextAttempt ==
  /\ pc = "next"
  /\ now' = now + 100
  /\ wire' = NULL
  /\ IF i < s.attempts THEN i' = i + 1 /\ pc' = "user" ELSE i' = i /\ pc' = "close"
  /\ Nothing
  /\ UNCHANGED <<s, down, cache, gates, truths, finals, anchor, audit>>

-----------------------------------------------------------------------------
(* T comes back before the session ends: U, R and M hand over what waits. *)
Recover ==
  /\ pc = "close" /\ down /\ s.recover
  /\ down' = FALSE
  /\ now' = now + 500
  /\ queue' = [p \in DOMAIN queue |-> <<>>]
  /\ Hand(queue["U"] \o queue["R"] \o queue["M"], now')
  /\ UNCHANGED <<s, pc, i, wire, cache, gates, truths, finals, anchor, audit>>

(* close_session: the manifest; then time for everything to be visible. *)
Close ==
  /\ pc = "close" /\ ~ (down /\ s.recover) /\ pc' = "final"
  /\ Deliver("U", <<Manifest>>, now)
  /\ now' = now + DelayMs + 10
  /\ UNCHANGED <<s, i, down, wire, cache, gates, truths, finals, anchor, audit>>

(* finalize: a verdict on each attempt, whether T is down or not. *)
Finalize ==
  /\ pc = "final" /\ pc' = "checkpoint"
  /\ finals' = [a \in 1 .. s.attempts |-> Judge(a, now)]
  /\ log' = log \o [a \in 1 .. s.attempts |-> VerdictEntry(a, finals'[a], now)]
  /\ UNCHANGED <<s, i, now, down, queue, held, private, wire, cache, gates, truths, anchor, audit>>

(* drop_sub and tamper_entry: what is left of the log is consistent again. *)
DropSub(entries, a) == Kept(entries, {n \in DOMAIN entries : entries[n].stmt.attempt # a})
TamperEntry(entries, n) == [entries EXCEPT ![n] = [stmt |-> [@.stmt EXCEPT !.seq = 999], at |-> @.at]]

(* A T that omits takes the first request out before the checkpoint; one   *)
(* that rewrites changes the first relay statement after it.               *)
Checkpoint ==
  /\ pc = "checkpoint" /\ pc' = "audit"
  /\ LET kept == IF s.omitLog THEN DropSub(log, 1) ELSE log
         relays == {n \in DOMAIN kept : kept[n].stmt.type = "relay"}
         first == CHOOSE n \in relays : \A k \in relays : n <= k
     IN /\ anchor' = Leaves(kept)
        /\ log' = IF s.rewriteLog /\ relays # {} THEN TamperEntry(kept, first) ELSE kept
  /\ UNCHANGED <<s, i, now, down, queue, held, private, wire, cache, gates, truths, finals, audit>>

-----------------------------------------------------------------------------
(* _verdict_signature: what two verdicts must share, with less of it when  *)
(* the auditor lacks U's private evidence.                                 *)
PrivateOnly == [equations |-> {"E1", "E4"}, codes |-> {"D-USER-SELF", "D-REQ-UNAPPROVED"}]

Signature(v, blind) ==
  LET left == IF blind THEN PrivateOnly.equations ELSE {}
      public == \A e \in RequiredForPass \ left : v.equations[e] = "pass"
  IN [ status |-> IF blind /\ (v.status = "passed" \/ (v.status = "insufficient_evidence" /\ public))
                  THEN "passed_excluding_private" ELSE v.status,
       completeness |-> v.completeness, evidence |-> v.evidence,
       codes |-> {d.code : d \in v.discrepancies} \ (IF blind THEN PrivateOnly.codes ELSE {}),
       equations |-> [e \in DOMAIN v.equations \ left |-> v.equations[e]] ]

(* The verdict on a that the first n - 1 entries of the log support. *)
Replayed(a, n) ==
  Verdict(Gather(Restrict(log, EvidenceOn(a, n - 1)), private[a]), Parties)

VerdictsOn(a) == {n \in DOMAIN log : log[n].stmt.type = "verdict" /\ log[n].stmt.attempt = a}

(* replay_audit with the receipts that U, R and M kept. *)
Audit ==
  /\ pc = "audit" /\ pc' = "done"
  /\ LET onRecord == {log[n].stmt.attempt : n \in {k \in DOMAIN log : log[k].stmt.type # "verdict"}} \ {0}
         Wrong(a) == \/ VerdictsOn(a) = {}
                     \/ \E n \in VerdictsOn(a) : Signature(Replayed(a, n), private[a] = NULL)
                                                   # Signature(log[n].stmt.verdict, private[a] = NULL)
         End(a) == IF VerdictsOn(a) = {} THEN Len(log) + 1 ELSE CHOOSE n \in VerdictsOn(a) : \A k \in VerdictsOn(a) : k <= n
         mismatches == {a \in onRecord : Wrong(a)}
         Extends(leaves) == SubSeq(Leaves(log), 1, Len(leaves)) = leaves
         missing == {h \in held : h.index > Len(log) \/ Leaves(log)[h.index] # h.leaves[h.index]}
     IN audit' = [ mismatches |-> mismatches,
                   recomputed |-> [a \in mismatches |-> Signature(Replayed(a, End(a)), private[a] = NULL).codes],
                   anchored |-> Extends(anchor), missing |-> missing # {},
                   ok |-> mismatches = {} /\ Extends(anchor) /\ missing = {} /\ \A h \in held : Extends(h.leaves) ]
  /\ UNCHANGED <<s, i, now, down, queue, log, held, private, wire, cache, gates, truths, finals, anchor>>

Next ==
  \/ Request \/ RelayDrops \/ RelayReplays \/ RelayForwards \/ Serve \/ Forge \/ RelayAnswers
  \/ NoAnswer \/ Receive \/ Poll \/ NextAttempt \/ Recover \/ Close \/ Finalize \/ Checkpoint \/ Audit

Spec == Init /\ [][Next]_vars

-----------------------------------------------------------------------------
(* attempt_metrics and _blame: what is read off a run that has ended. *)
Consumed(a) == gates[a].action \in {"accept", "accept_unverified"}

RelayCodes == {"D-REQ-UNAPPROVED", "D-NONCE", "D-RESP-UNAPPROVED", "D-ROUTE-UNAPPROVED", "D-ROUTE-UNDECLARED",
               "D-ATTEMPT-MISMATCH"}

(* Whom the verdict and the audit of attempt a blame outright. *)
Blamed(a) ==
  {p \in {"U", "R", "M"} : \E d \in finals[a].discrepancies : d.severity = "violation" /\ d.accused = {p}}
    \cup (IF a \in audit.mismatches THEN {"T"} ELSE {})
    \cup {p \in {"R"} : a \in audit.mismatches /\ audit.recomputed[a] \cap RelayCodes # {}}
    \cup (IF ~ audit.anchored \/ audit.missing THEN {"T"} ELSE {})

(* What really happened, which no statement need tell. *)
BehaviorOf(a) == IF a > 1 /\ s.second # NULL THEN s.second ELSE s.relay
Withheld(a) == BehaviorOf(a).omit \/ "R" \notin s.cooperation
Colluded(a) == s.modelColludes \/ BehaviorOf(a).collude
Allowed == {b \in {"asked"} : "identity" \in s.transforms} \cup ({Formatter} \cap s.transforms)

Permitted(a) ==
  \/ truths[a].model = "model-A"
  \/ truths[a].model \in s.allowed /\ s.fallback # "none" /\ BehaviorOf(a).declareFallback

(* The answer that reached U is not M's answer to what U asked for. *)
Falsified(a) ==
  /\ truths[a].atUser # NULL
  /\ truths[a].atUser # truths[a].answer \/ truths[a].atModel \notin Allowed \/ ~ Permitted(a)

(* What R says that it passed on, or would have. *)
Stated(a) == IF truths[a].atModel = NULL \/ ~ BehaviorOf(a).honest THEN "asked" ELSE truths[a].atModel

(* R did and declared nothing the contract does not allow. *)
KeptContract(a) ==
  /\ ~ Falsified(a) /\ ~ BehaviorOf(a).dropNonce /\ ~ BehaviorOf(a).dropSalt
  /\ truths[a].atModel # NULL => truths[a].atModel \in Allowed /\ Permitted(a)
  /\ (IF truths[a].atModel = NULL THEN "identity" ELSE BehaviorOf(a).declared) \in s.transforms
  /\ Stated(a) \in Allowed

(* R means well: it sends on what it was asked, to the model asked for, with *)
(* nonce and salt, and says so; and M gives receipts.                      *)
Meant(a) ==
  LET b == BehaviorOf(a)
  IN /\ ~ b.drop /\ ~ b.replay /\ ~ b.tamper /\ b.honest /\ b.route = NULL /\ ~ b.dropNonce /\ ~ b.dropSalt
     /\ ~ b.strip /\ b.modify = NULL /\ b.declared = "identity" /\ "identity" \in s.transforms /\ ~ Colluded(a)
     /\ s.issueReceipts /\ "M" \in s.cooperation

TMisbehaved == s.misjudge \/ s.omitLog \/ s.rewriteLog

(* A verdict on a was given while T held evidence not yet visible. *)
JudgedEarly(a) == \E n \in VerdictsOn(a) : ~ EvidenceOn(a, n - 1) \subseteq DOMAIN Visible(a, log[n].at)

Done == pc = "done"
Attempts == 1 .. s.attempts

(* U's own checks keep a falsified answer, and one that orders a tool to  *)
(* be run, from being used, whatever R does and whether T is there, is     *)
(* slow, or lies; only M's help defeats them (runner.py:227-229).          *)
HarmNeverUsed ==
  Done /\ s.mode # "observe" =>
    \A a \in Attempts : Consumed(a) /\ ~ Colluded(a) => ~ Falsified(a) /\ ~ s.injected

(* A T that does its work never calls a falsified answer passed, whatever  *)
(* evidence it lacks (engine.py:28-35).                                    *)
PassedIsGenuine ==
  Done /\ ~ s.misjudge =>
    \A a \in Attempts : finals[a].status = "passed" /\ ~ Colluded(a) => truths[a].atUser # NULL /\ ~ Falsified(a)

(* With everybody's evidence on record, and no more of it than the queues  *)
(* hold, a falsified answer is found out (scenarios.py: S02, S03, S05,     *)
(* S06, S08); but not an old one that R shows without its receipt.         *)
FalsifiedIsFailed ==
  Done /\ ~ s.misjudge /\ (s.recover \/ ~ s.down) /\ s.capacity >= 4 * s.attempts /\ s.issueReceipts
       /\ s.cooperation = {"U", "R", "M"} /\ s.transforms \subseteq Recomputable =>
    \A a \in Attempts :
      /\ Falsified(a) /\ ~ Colluded(a) /\ ~ Withheld(a)
      /\ ~ BehaviorOf(a).dropSalt /\ ~ (BehaviorOf(a).replay /\ BehaviorOf(a).strip)
      => finals[a].status = "failed"

(* Nobody who kept the rules is blamed outright: R within its contract, U, *)
(* M, and T unless it was asked before it could see what it already held:  *)
(* the replay of such a verdict may differ (incentives.py:5-7,             *)
(* third_party.py:94, replay.py:242).                                      *)
NoUnjustBlame ==
  Done => \A a \in Attempts :
            Blamed(a) \subseteq {p \in {"R"} : ~ KeptContract(a)} \cup {p \in {"T"} : TMisbehaved \/ JudgedEarly(a)}

(* A well-meaning user is served: without falsification, and with receipts *)
(* to show, U accepts the answer in protect mode though T is down or slow, *)
(* R keeps its statement back or evidence is lost, and no verdict fails    *)
(* (metrics.py:8-11, scenarios S09 to S12).                                *)
HonestServed ==
  Done => \A a \in Attempts :
    Meant(a) /\ ~ s.injected =>
      /\ gates[a].action \in CASE s.mode = "observe" -> {"accept_unverified"}
                               [] s.mode = "protect" -> {"accept"}
                               [] s.mode = "strict" -> {"accept", "reject_timeout"}
      /\ finals[a].status # "failed"

=============================================================================
