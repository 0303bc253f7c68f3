# Formal verification of itx

TLA+ models, TLC runs and TLAPS proofs for the runtime in `src/itx`: a user agent U asks a
model operator M through a relay R, and every party registers signed evidence about the request
with a third party T, whose log U audits. The models follow the Python code under
`src/itx/runtime`, `enforce`, `ts`, `audit`, `reconcile` and `sim`; `PROJECT.json` maps each
definition to the lines it stands for.

Parse with `tlasany M.tla`, check with `tlc -config X.cfg M`, prove with `tlapm M.tla`.

## 1. The system

| Component | State | Operations | Interacts with |
|---|---|---|---|
| U, request thread (`runtime/agent.py`) | `request:<sub>` records, private evidence versions, receipts, outbox, checkpoint | `request`, `refresh`, `verdict`, `audit`, cancel, restart | calls R (`infer`) and T; background thread flushes the outbox |
| R and M (`runtime/service.py`, `infer`) | `execution:<sub>`, `nonce:<nonce>`, outbox, receipts | `infer`, `held_receipts`, flush loop, restart | R calls M while it holds its own lock; both submit to T |
| T (`runtime/service.py`, `third_party`; `ts/log.py`) | log in memory, journal in SQLite, private evidence | submit, private, verdict, audit head and pages, consistency, restart | called by all; every operation under one lock |
| Transport (`runtime/transport.py`, `rpc_server.py`) | 8 slots per server | signed call with a timeout | a caller that gives up leaves its call in the slot |
| User gate (`enforce/user_gate.py`) | none | checks and decision | called by U's request thread |
| Audit (`runtime/auditing.py`, `audit/replay.py`, `ts/anchor.py`) | none of its own | fetch export, verify, replay | reads T page by page and the receipts of U, R and M |
| Reconciliation (`reconcile/`) | none | gather, equations, status, discrepancies | used by T for verdicts, by the audit and by the simulator |
| Merkle tree (`ts/merkle.py`) | leaves | root, inclusion and consistency proofs | used by the log, the audit, the witness |
| Witness W (`runtime/witness.py`) | chained checkpoint receipts | witness, status | asked by U, asks T for consistency proofs |
| Deployment (`runtime/enrollment.py`, `desktop/provisioning.py`) | epoch directories, `active.json`, `retirement.json` | prepare, propose, endorse, assemble, activate | retirement stops new work of a role |
| Retention (`runtime/retention.py`) | a preview with its token | preview, apply | U's records and private versions |
| Desktop process (`runtime/desktop`), gateway (`runtime/proxy.py`) | slots, workers, operation lock, the gateway's turn, active tokens | request, cancel, audit, connect, ... | drive U |
| SDK (`client.py`) | pending futures | the same calls | starts a desktop process and talks to it over pipes |
| Streaming gate (`enforce/streaming_gate.py`) | hash chain | feed, finalize | not called by the runtime yet |
| Simulator (`sim/`) | simulated time, evidence queues of three parties, T with a registration delay, an anchor | one scenario: attempts, recovery, verdicts, checkpoint, audit, blame | same gate, log, reconciliation and replay |

What is hard: three processes and several threads of U share durable queues; a call that was
given up on is served late; a process may stop between any two of its transactions; T's memory
and disk may disagree after a failed insert; R, and T too, are not trusted, and what catches them
is only evidence that others hold. What makes each part correct:

* T: the log only grows, memory never promises more than the disk, one statement per type and
  request, and a verdict can be recomputed from the entries before it.
* Delivery: no evidence is lost, the order U needs is kept, an admitted request always finds room
  in the queue, and the queues empty once T answers.
* Inference: a request and a nonce are executed at most once, one statement per request, nothing
  is returned before its evidence is safe, every request ends.
* Gate and decision: a response is released only if M's key vouches for exactly this exchange, it
  is on record first, and the decision never changes afterwards.
* Audit: a T that leaves something out or misjudges is caught, an honest one is not accused, and
  the checkpoints of U form one history.
* Reconciliation: a verdict passes only what was genuine, fails what was falsified, and names
  nobody who kept the rules, whatever evidence is missing.
* Witness: what W countersigns, and what U accepts from it, is one history, however T forks.
* Merkle proofs and streaming gate: they accept what they should and nothing else.
* Deployment: an epoch that opens is whole, and the one it follows, if it was open, is closed for
  good, wherever an activation stopped and whatever the operator removed after it.
* Desktop and retention: one operation at a time uses the agent, deleted evidence stays deleted
  and is nobody's last copy of something still owed to T, every call is answered.

## 2. Modules

| Module | What it is | Code |
|---|---|---|
| `AppendOnlyLog` | abstract: a sequence that only grows, and receipts for its entries | promise of T |
| `Registry` | T: `log`, `journal`, `private`, `retired`; submissions, private evidence, verdicts, restart, retirement, each with its failures | `service.py:39-185`, `log.py` |
| `EvidenceDelivery` | extends `Registry` with the outboxes, flush loops, T's slots and the request thread as far as evidence goes | `agent.py:42-130, 193-363`, `service.py:96-142`, `storage.py`, `rpc_server.py` |
| `AtMostOnce` | abstract: an effect at most once per request, one answer | promise of R and M |
| `Inference` | the request from U through R to M and back; instantiates `UserGate`, and `AtMostOnce` twice | `service.py:236-309`, `agent.py:193-363`, `rpc_server.py`, `transport.py` |
| `UserGate` | the checks and the decision table as operators | `user_gate.py` |
| `Audit` | T that may omit or misjudge, the holders of receipts, U's audit | `auditing.py`, `replay.py`, `agent.py:109-132, 365-381` |
| `Reconcile` | extends `UserGate`: gathering, the twelve equations, discrepancies, completeness, status | `reconcile/` |
| `Simulation` | extends `Reconcile`: U, R, M and T in simulated time, final verdicts, checkpoint, replay, blame | `sim/`, `audit/replay.py`, `ts/log.py`, `ts/service.py`, `metrics.py` |
| `SimulationScenarios` | the scenarios S01 to S18 | `sim/scenarios.py` |
| `StreamingGate` | the verifier of a streamed answer as a function of the calls made on it | `streaming_gate.py` |
| `Merkle` | roots, inclusion and consistency proofs and their verifiers | `ts/merkle.py` |
| `Witness` | T that forks, W, U's use of W's receipts; the tree operators are constants | `witness.py`, `agent.py:171-191` |
| `Activation` | identities, proposals, endorsements, activation file by file | `enrollment.py`, `desktop/provisioning.py` |
| `Desktop` | line reader or gateway, controller, refresh and retention on U's records | `runtime/desktop`, `proxy.py`, `retention.py`, `agent.py:229-243, 354-363` |
| `GateChecks`, `MerkleChecks` | what the gates and the proofs must do, over every input of small sets | |
| `MC*` | values and symmetry for TLC | |
| `*_proofs` | the theorems about the module they are named after; `Simulation_proofs` has those about the two gates too | |

How state and actions correspond to the code:

* **Registry.** Each operation runs under `service.lock`, so it is one action. What varies is the
  outcome: the insert succeeds (`SubmitAccepted`), fails and the memory is rebuilt from `kept`
  rows (`SubmitFails`), or a check refuses (`SubmitRefused`); likewise for verdicts and private
  evidence. Statements are records whose `ver` tells apart different statements of one kind;
  signatures are correct by construction and hashes are the statements themselves.
* **EvidenceDelivery.** `phase` is the position of U's request thread; every `store.put`,
  `enqueue` and call is an action. A flush loop takes a snapshot (`BeginFlush`), sends the head
  (`Send`), and accepts, acknowledges or stops. `slot` holds the calls T has accepted: after
  `Timeout` a call stays there and `Serve` executes it with nobody waiting.
* **Inference.** `waiting` and `job` are the accepted calls and the one under the lock. `Begin`
  (nonce), `Start` (execution record), the work, `Queue` (statement), `Complete` (result) are
  separate because each is a transaction of its own; `CrashService` may happen between any two.
  The lab scenarios are R's misbehaviour. T's verdict is any verdict, at any time. The model
  backend may fail before or after it has run.
* **Audit.** A root is the sequence of statements under it. `Page` returns any nonempty part of
  what is left, as a page is cut at a byte budget, and only while T's log still has the root of
  the head. `Collect` reads U's receipts, then those of R and of M if they can be reached.
* **Simulation.** The simulator is one thread; each action is a stretch of it between two
  hand-overs (`Request`, `RelayForwards`, `Serve`, `RelayAnswers`, `Receive`, `Poll`, ...). The
  clock `now` advances by the program's own amounts, because visibility of a statement at T, the
  strict deadline and late registration compare times. Payloads are values that say what was
  done to them. The scenario's switches are the initial state.
* **Witness.** A head is the log it commits to; the store of W is its sequence of receipts.
  `Handle` is W's call under its lock with T's proof inside it. `Restore` puts the store back.
* **Activation.** One action per file that `activate` writes, `Stop` between any two; a
  `retirement.json` may be cut short (it is written in place), `active.json` may not (it is
  replaced). Endorsements are the pairs of role and epoch that were signed. The lineage of an epoch,
  which is the nesting of its bundle, is the least set that has it and what each member follows.
  `CleanUp` is the operator after an interruption: `active.tmp` goes, or the directory of an epoch
  that was never opened, and with a directory the `retirement.json` in it. `inOrder` is history
  only: the epochs that were opened after the one they follow.
* **Desktop.** `call[c].at` is how far the thread of a call has come. What runs under `self.lock`
  is one action; an operation is entered, uses the Agent, and leaves. `refresh` and retention
  read and write in separate actions.

## 3. Runs

| Run | Question | Bounds and why they are enough |
|---|---|---|
| `delivery_user` | Do T's promises hold through U's queue, timeouts and crashes, does U hold what verdicts rest on, and does an admitted request always find room? | two requests and a queue of 6, so that the second is admitted only if the first has drained far enough; two slots (a late call beside a fresh one), one fault |
| `delivery_live` | Is every item queued or settled and every version kept, what may take a response from T, does a contract come before its use, do the outboxes drain? | U and an R that may sign twice, log of 4 so that it does fill up, two slots, one fault, fairness below |
| `delivery_retired` | violation, see findings | one request, one slot |
| `inference` | At most once, evidence before answer, genuine and final decisions | one request in all modes and scenarios, one call of somebody else, one crash, retirement or expiry |
| `inference_live` | Two contracts with one nonce; does every request end, is R freed? | two requests, strict mode, one slot, one fault, fairness below |
| `audit` | Is an omission caught, is a wrong verdict always caught, an honest T never accused, and do checkpoints form one history? | one request, a log of 3 (a statement with a wrong and a right verdict in both orders), two audits, one omission at any time, clock of two instants |
| `audit_instant` | violation, see findings | statements of all parties, one audit |
| `simulation` | Is harm ever consumed, does a verdict say what happened, is anybody honest blamed, is a well-meaning user served? And are the two gates exact? | every scenario with up to two of its switches, routes, modes, delays, transforms, capacities or cooperation sets changed, so that any two faults meet; and 12,288 with many of R's switches set at once under the contracts that matter to them (`Mixed`), since some properties fail only where three or four meet; gates over all inputs of two or three values per field |
| `witness` | Do W and U stay with one history? Are the proofs exact? | logs of up to three entries in two variants behind a common first entry (no fork, a fork at each place), two waiting calls, one restore; honest proofs up to nine leaves, forged ones from all nodes up to five, so that sizes at, below and above a power of two occur |
| `activation` | Is one epoch of a lineage open, and whole, wherever activations stop? | two parties; five epochs: two rivals, a third generation, one with new keys in a directory of its own; one stop, and any directory in the way removed afterwards |
| `activation_removed` | violation, see findings | one party; an epoch, its successor, and one with new keys after that; one stop |
| `desktop` | Exclusive use, retention, answers to all calls | three calls of any operation, two workers and two slots for the code's four and eight: a line may find all slots taken, and of the gateway's three calls one may run, one wait for its turn and one bypass the lock; an older record |

The proof and gate checks (`ProofsExact`, `GatesExact`) speak of constants only and
are read off the first state of their run.

The named bounds (`MaxLogEntries`, `MaxFaults`, `MaxCalls`, `MaxExecutions`, `BacklogLimit`,
`MaxEntries`, `MaxTime`, `MaxAudits`, `MaxOmissions`, `MaxTree`, `MaxSize`, `MaxForged`, `MaxWaiting`,
`MaxRestores`, `MaxStops`, `Near`, `Workers`, `Slots`) are constants of the modules. Some are limits
the code has (`max_log_entries`, `queue_capacity`, `max_requests`, `max_workers`, the backlog of
250) with small values; the others bound the environment. Slots are symmetric. Deadlock is not
checked: the environment is bounded, and the systems stop when their requests are done.

**Fairness.** `EvidenceDelivery` assumes that the flush loop of each party and T's handler threads
keep running: each is a daemon loop or a thread of the server that nothing in the code stops
(`agent.py:55-57`, `rpc_server.py:46-50`); a flush loop that fails starts again with the next tick.
Timeouts, crashes and requests are not fair. `Inference` assumes that U's request thread and R's
handler run and that R's wait for M ends at its timeout (`transport.py:41`, 20 s and 23 s); nothing
is assumed of M, which may be stuck for ever. Both liveness properties therefore rest on the
timeouts alone. `Desktop` assumes that its worker threads and the reader's end run: a call that
has the lock ends because what it waits for has a timeout. Nothing is assumed of the input. The
gateway does not wait for its handler threads when it closes, so a completion that runs then may
go unanswered; `CallsEnd` says so. `delivery_live` has two slots for a reason: with one, a faulty R
could keep it busy and U out.

**Conformance of `Simulation`.** The module predicts a whole run, so it was compared with the
Python simulator itself: for each of 661 scenarios with one switch changed and 11,636 with two,
the decisions, final verdicts, equations, discrepancies and audit results of the program agree
with the final state of the model.

Each property of a passing run has a mutant: a bug of the kind the code could have (a dropped
claim, a missing rebuild, an early release, a retry) under which TLC finds the property violated.

## 4. Findings

* **A retired T and evidence on its way** (`delivery_retired`). `docs/operator-deployment.md:130`
  says a previous T goes on settling evidence and only refuses new contracts. `service.py:148-150`
  refuses every contract before it looks whether it is registered already. If the answer to the
  registration was lost, U's outbox is blocked at its head for ever.
* **Same millisecond** (`audit_instant`). `replay.py:104` exempts a receipt from the snapshot only
  if it is strictly later than the head. A statement registered after the head in the same
  millisecond is reported as missing, and an honest T is accused. `NoFalseAlarm` states
  what does hold: this is the only false alarm of that kind.
* **An epoch beside its own successor** (`activation_removed`). `docs/operator-deployment.md:126` says
  that once an epoch is active, the configuration before it refuses new requests. What makes it refuse,
  `retirement.json`, lies in the directory of the earlier epoch (`enrollment.py:327`). A is open. The
  activation of B stops after its configuration. E, with new keys in a new directory, follows B (the
  code asks for B's configuration, not that B was opened, `enrollment.py:286`), retires B and opens.
  To activate B again the operator must remove B's directory (`enrollment.py:301-302`); the
  retirement goes with it, and B opens while E is open. The same document warns at line 132 of an
  administrator who puts back keys, retirements or storage; here nothing is put back, only
  the directory removed that the code asks to have inspected. `OneOpen` states what does hold.

Three more cases are covered by the properties named, which say how far the promise holds:

* **A late first copy.** `docs/threat-model.md:47` says the runtime never discards existing
  evidence, and `service.py:165` refuses to rewrite private evidence. The check before it compares
  the salt, the request and the expected commitments but not the response (`service.py:163-164`). U
  queues two copies, the second with the response. If the call with the first is given up and T
  serves it late, after both copies were sent again and acknowledged, T is back at the first
  copy, and nothing in U's outbox will mend it. `ResponseStays` says that a call U has given up is the
  only thing that can do this. T never loses what binds the request and U has kept every version
  (`NothingLost`), and a verdict names the version it was computed from (`VerdictsReplayable`). No
  equation reads the response hash.
* **Visible or in the log.** `incentives.py:5-7` calls the scheme failed if an
  honest party is named outright even once. T judges by the statements visible at the time
  (`third_party.py:94`), the replay by those with a smaller index (`replay.py:242`). A statement
  becomes visible some time after it is in the log, 15 ms if nothing else delays it. For instance, the
  mode is strict and the relay declares a transformation the contract does not allow. T's first
  verdict comes before U's observation is visible: `failed`, with a gap in the evidence and the
  equations that need the observation not applicable. The replay uses the observation: `failed` too, but
  complete, and those equations pass. Equations, codes and completeness are compared as well as the
  status (`replay.py:34-53`), so T is named. `NoUnjustBlame`
  states what does hold: nobody who kept the rules is named, except T in that case. To keep the
  rules R must also do what the contract asks of a relay that fails: one that refuses or replays
  under a contract that does not allow `identity`, or drops a salt, is named. It must also
  state what it passed on: if it names the untouched request under a contract that wants it
  transformed, it is named, whatever it really sent.
* **An old answer without its receipt.** What R replays from its cache is found out by the receipt
  of the other attempt. If R strips that receipt, nothing U holds ties the answer to anything, and
  the verdict is `insufficient_evidence`, not `failed`. No document says otherwise (the gate refuses
  the answer all the same), so `FalsifiedIsFailed` leaves out just that case.

## 5. Proofs

`Registry_proofs` proves for every set of requests and every log bound, from
`RegistryAssumption` alone, the type invariant and the safety of T, and that `Registry` implements
`AppendOnlyLog`. The inductive invariant `RegistryInv` is the conjunction of the parts. None of the
interesting ones is inductive alone: the check for a second statement of a type reads the memory
copy, so `OneOfAType` needs `MemoryFollowsJournal`, and an insert at the memory's length can
succeed only if the copy is the whole journal (the journal's `seq` is a key); the same fact makes
a verdict's `cut` its place.

`EvidenceDelivery_proofs` lifts this to the composition: every step of the delivery system is a
step of T on its variables (`NextIsRegistryStep`), so `RegistryInv` carries over. `DeliveryInv`
adds that an item in a flush loop's call is the head of its outbox (`FlushInStep`) and that a
positive reply in a slot is true of T (`RepliesTrue`). Both are needed: the sender acknowledges
its head on the strength of a reply that was written earlier, and T may have done anything since;
the reply is still true because the journal only grows and what private evidence says of the request
never changes (`NothingTakenBack`; the response may go again, see section 4). Calls nobody
waits for need no clause. `DeliveryInv` also holds that what was issued is queued or settled
(`QueuedOrSettled`). From it follow `HeldReceiptsBacked`, the type invariant and the refinement of
`AppendOnlyLog`, and, with the versions U keeps (`BasesKept`), `NothingLost`. `ContractsComeFirst` adds
`ContractIssued`: once the request thread is past the contract, and whenever R or M has issued
anything about the request, the contract has been issued, and so is queued or settled.

Three more results about the delivery need invariants of their own:

* `OrderIsKept` (`ContractFirst`): whatever follows the contract of a request in U's outbox is queued
  behind it, and cannot leave before T has the contract, since an outbox loses nothing but a settled
  head (`InOrder`). A call that U gave up and T serves later was at the head then.
* `VerdictsCanBeReplayed` (`VerdictsReplayable`): whichever version T computes from, U had written it
  before it queued it (`BasesKept`, for outboxes, slots, T's copy and verdicts alike), and versions are
  never rewritten.
* `AdmittedFits` (`AdmittedNeverFull`): one request runs at a time and each has at most four items still
  to come, one less after each it has queued (`ToCome`, `Room`). The count is a cardinality, so the
  lemmas are about finite sets.

`Audit_proofs` proves all four safety properties of `Audit` for every set of requests, log, page size
and number of omissions. An audit lasts many calls while T's log changes, so nothing may be said
about the log at the end. `AuditInv` says that the pages U has are those of the head (`Copied`), that
the checkpoint is whole, and that, as long as T has left nothing out, the head, every receipt
and the checkpoint are prefixes of one growing log (`NothingOmitted`).

`Witness_proofs` proves that W countersigns one history (`OneHistory`), that what U holds is one as far
as it has no gap and W was not put back (`HeldOneHistory`), and that nobody is accused while T is
honest and W intact (`NoFalseRefusal`). U never sees the store of W: what ties its receipts together is
that each names the one before and extends its log (`Linked`, `HeldRuns`). The theorems rest on
`ProofsAssumption`: no two logs of one size share a root, and the verifier accepts a proof only for a
log that extends the other, and the honest one for every log that does. For every tree of the bounded
sizes `ProofsExact` shows just that of `merkle.py`, and TLC evaluates the assumption with the verifier
of `Merkle` in place of `Proves`.

`Desktop_proofs` proves `ExclusiveUse` and `PrunedForGood` for any number of calls, workers and slots.
`DesktopInv` says that whoever works holds `operation_lock` and uses the agent that is open, and that
what a refresh or a pruning has read is still there when it writes (`Fresh`): only the owner of the
lock changes a record that has ended.

`Activation_proofs` proves for all parties, epochs, directories and any number of stops that an
opened epoch is whole, and its predecessor, if it was opened before, retired to it alone
(`OpenedStaysReady`); that `active.json` never goes back, and that a retirement, once there, changes only
when the directory it lies in is removed, which is that of an epoch never opened
(`LineageStaysFixed`); and that of a lineage opened one by one a party has one epoch open
(`OneStaysOpen`). What `Replace` opens was checked some files earlier, so `ActivationInv` adds `Grounded`:
how far an activation in progress has come is on the disk. It is kept because a retirement is written
once and the operator cleans up only between activations. `Ready` outlives `CleanUp` because an
epoch opened in order follows one that was opened, and no clean-up removes the directory of
such a one. For `OneStaysOpen`: what an open epoch follows is retired to it, so two open epochs are on no
common line; and where two lines part, the epoch before them would be retired to both.

`Inference_proofs` proves every safety property of `Inference`, from `InferenceAssumption` and
`ValuesAssumption` (the markers for "nothing", "unknown" and "error" are none of the values they stand
beside), for every set of requests and nonces, every number of calls and faults. None of them is
inductive. Four invariants carry them, each resting on the ones before:

* `Typed`: the types, with what each phase and stage has in hand (a judged request has an answer of
  R's form, finished work has a result).
* `AllOnce`: the one job of a service is the only work on its request, and its stage says whether
  the record, the effect and the statement are there. A crash then leaves a record without an
  effect or an effect without an answer, never the possibility of a second one. From it follow
  `OneStatement`, `NonceOnce` and both refinements of `AtMostOnce`, step by step (`NextStep`).
* `AllOnRecord`: what the request thread has decided and what it has written agree, phase by phase.
  From it follow `ReleasedRecorded` and `DecisionFinal`; the crash of U is covered since only
  pending records are rewritten.
* `Vouched`: R waits for one answer of M at a time and what arrives is M's answer to the request R
  asked about (`Routing`: a call R gave up has no caller left when it is answered), and at each
  place a result passes, from M's job to U's record, its receipt is in M's outbox. With what the gate
  demands before it releases (`GateDemands`) it gives `RepliesBacked` and `ReleasedGenuine`.

`Simulation_proofs` is about the gates and what they achieve. `DecisionIsExact` says for all contracts,
statements, keys and verdicts when the gate accepts.
`HarmIsNeverUsed` proves `HarmNeverUsed` for any set of scenarios with any combination of switches and
any number of attempts, and nothing is assumed of T, the queues or time. `HarmInv` follows an attempt:
what reached M (`Forwarded`), that a receipt of this attempt, unless M lent R its key, is about that
(`Answered`), and that what came back to U is either this receipt or one of an earlier attempt
(`Returned`, `CacheOlder`), which the nonce gives away.

`PassedStaysGenuine` proves `PassedIsGenuine`, again for all scenarios and whatever evidence T lacks.
`EvidenceInv` says that all that is queued or registered is `Sound`: a contract asks what U asks, a
receipt is about what reached M, an observation is of what came back, private evidence is about
U's own request. What is sound stays so (`SoundStays`), so that a step need only be shown to hand
over sound statements (`Adds`, `StepKeeps`). What T gathers is then true of the attempt (`Told`),
and if the equations that a pass needs hold of it, the answer is M's (`PassDeserved`).

`NobodyBlamedUnjustly` proves `NoUnjustBlame`, for all scenarios and with a T that misjudges, omits or
rewrites. Of the verdicts: whatever names one party outright names R, for one of five equations
(`Charges`), and on sound evidence none of these fails unless R broke the contract (`NoCharge`). This
is why `Sound` says of a statement of R what R did in the attempt, and of a receipt that R, not M,
accounts for a nonce or a request that does not fit (`Issued`); `Explained` adds that M refuses only
what R spoilt. Of the audit: `BlameInv` keeps every verdict of an honest T `Exact`, that is, what the log
up to it gives, as far as it was visible, with U's private evidence as it is now. That evidence does not
change after a verdict, because U hands it over before it asks, and because T judges nothing while it is
down and nothing waits in a queue while it is up (`Waits`). So the replay differs only if something was
not yet visible. Receipts fit because the log only grows (`Grows`) until a T that cheats changes it, and
what R is charged with in a replay of a changed log rests on entries that are sound still.

`FalsifiedAreFound` proves `FalsifiedIsFailed`, for all scenarios in which T comes back and there is room
for four items per attempt (`Complete`). What a verdict must not lack takes two invariants more. `FormInv`
says that what is signed has the form of its kind, so that the checker can use it, and that T shows at
the end all it was handed (`Soon`). `RecordInv` counts: each party hands over at most four items in an
attempt, so nothing is dropped (`Room`), and who has done something has handed it over (`OnHand`). With
all statements before it, one of the equations finds what was falsified (`FalsifiedFails`): a request that
was changed does not fit M's receipt, an answer that was changed does not fit what M committed to, and an
answer of another attempt does not fit this nonce.

`WellMeantAreServed` proves `HonestServed`, with a T that is down or slow and queues of any size.
`ServedInv` says that where R means well each statement is the one that is due (`Due`), and that the time
that is left of the contract suffices for what is still to be done (`OnSchedule`). U's checks then clear
the answer, whatever R states or leaves out (`DueClear`), no equation finds anything on due statements
(`HonestPasses`), and so no poll in strict mode comes to anything worse than a timeout (`PollWelcome`).

`StreamIsRead` says for every sequence of calls and every last index when the streaming gate ends as
finalized; with `DecisionIsExact` this gives the run's property (`GatesAreExact`). Its verifier is a recursive function. That such a
function has the values its equation gives, and what they are, is shown by induction over a set of
numbers (`UpTo`), from the fact that a set of numbers that is not empty has a least member.

Only model-checked:

* liveness (`OutboxesDrain`, `RequestsEnd`, `RelayFrees`, `CallsEnd`), out of the
  prover's reach;
* `ResponseStays`;
* `ProofsExact`: roots, paths and verifiers are recursive over ranges of leaves and powers of two.

`RetiredTSettles` and the properties of the other violation runs are false as they stand.

## 6. Abstractions

Signatures, sealing and TLS are correct: a statement has the issuer it names. Formats, limits on
sizes and policy expiry as a date are left out. Hashes have one preimage. The verdict of T is
opaque in `Registry` (a function of entries and private evidence), arbitrary in `Inference`, right or
wrong in `Audit`, and the real one in `Simulation`. `EvidenceDelivery` lets R sign two statements for a
request, `Inference` shows that the R of this repository does not. `Audit` leaves out the receipts
that T exports with its entries: T signs them itself, so they cannot show what it hides. `Witness`
treats a head that is stale or of another log like a dropped call.

Assumptions on constants, beyond types: a marker for "nothing" is none of the values it stands beside
(`NullAssumption`, `ValuesAssumption`, `DesktopAssumption`, `ActivationAssumption`); a stream may have two chunks
(`StreamAssumption`; the code allows 0xFFFFFFFF); hashes and proofs are sound (`ProofsAssumption`, above).
TLC evaluates each of them in a run. `SimulationAssumption` says what `sim/` fixes: a scenario has an
attempt at least and one of the three modes (`scenarios.py:25-50`, `user_gate.py`), R routes to models
there are (`model.py:52-56`, `runner.py:56`), U pins M's key (`runner.py:63`), `allow_tool_directives` keeps its
default, the public transformation is not `identity`, and a missing request, model, nonce, commitment,
answer or statement is none of the real ones.

`Activation` runs one activation at a time per operator, as the desktop's operation lock does. Two
processes on one directory can both pass the check of `active.json` (`enrollment.py:294`); that is
not modelled. A `retirement.json` that was cut short is never accepted again, so that lineage stays
closed until the operator repairs it by hand. `OneOpen` speaks of epochs that were opened one by
one (`inOrder`): an activation that stopped after its configuration lets a later epoch follow it in a
new directory although it never opened (`enrollment.py:286`). The epoch before both then stays open,
and the one that was passed over can open later, beside the one that follows it (section 4).

## 7. Not modelled

* Client SDK: a table of futures under one lock, each call with its own timeout; what could go
  wrong behind it is in `Desktop`.
* Transport security, identities, cryptography, encodings, schemas, COSE forms, RFC 3161 stamps:
  functions on bytes.
* Lab, endurance, benchmark, reports, command line, user interface: they start, measure or present.
* Of the gateway: parsing, the streaming format, HTTP errors. Of the incentive ledger: costs.

## 8. What is left

* `ProofsExact` for all sizes, by the same induction over sets as the streams, on the size of a range;
  with it `ProofsAssumption` would follow from the freedom of collisions alone.
* Liveness stays with TLC.
