------------------------- MODULE Simulation_proofs -------------------------
(***************************************************************************)
(* What U's gate decides, for all contracts, statements and verdicts, and  *)
(* what follows from it for a run of the simulator: whatever R does and    *)
(* whatever T says, U uses no answer that is not M's answer to what U      *)
(* asked for; and T, if it does not lie, passes none, fails every one that *)
(* it is told all about, and fails none where R means well.  The scenarios *)
(* are any set of them, with any combination of switches, any number of    *)
(* attempts, room in the queues, delay and outage.                         *)
(*                                                                         *)
(* HarmInv follows an attempt: what U's contract says, what has reached M  *)
(* (Forwarded), that a receipt of this attempt, unless M lent R its key,   *)
(* is about that (Answered), that what has come back is either this        *)
(* receipt or one of an earlier attempt (Returned, CacheOlder), and that   *)
(* checks without a failure therefore mean a harmless answer, which stays  *)
(* so since nothing about a past attempt changes.                          *)
(*                                                                         *)
(* EvidenceInv follows what is signed: whatever is queued or registered is *)
(* Sound, so that what a verdict compares is true of the attempt (Told),   *)
(* and what was true of it stays so (SoundStays).  A step therefore need   *)
(* only be shown to hand over sound statements (Adds, StepKeeps).  What T  *)
(* concludes from them is read off the equations (PassDeserved).           *)
(*                                                                         *)
(* FormInv says that what is signed has the form of its kind and that T    *)
(* soon shows what it is handed; a step need only be shown to hand over    *)
(* such statements (Moves, FormStep).  RecordInv counts them: while T is   *)
(* back in time and there is room, who has done something on an attempt    *)
(* has also handed it over (OnHand), and an equation that compares what    *)
(* then lies before T fails for a falsified answer (FalsifiedFails).       *)
(* ServedInv is the other side, where R means well: each statement says    *)
(* the same (Due), U has the answer while its contract lasts (OnSchedule)  *)
(* and clears it (DueClear), and no equation fails (HonestPasses).         *)
(*                                                                         *)
(* The streaming gate is read call by call: what its recursive function    *)
(* computes is found by induction over the numbers of calls.               *)
(***************************************************************************)
EXTENDS MCSimulation, SequenceTheorems, NaturalsInduction, WellFoundedInduction, TLAPS

(* Nothing in the checks stands in the way of the answer. *)
Clear(checks) == Failed(checks) = {} /\ Unknown(checks) \cap Required = {}

(* A key that U has pinned says that M gave this answer, in this attempt   *)
(* and to this nonce, to the user's request or one the contract allows.    *)
Vouched(c, expected, body, m) ==
  /\ m # NULL /\ m.kid \in Trusted
  /\ m.nonce = c.nonce /\ m.attempt = c.attempt /\ m.resp = body
  /\ m.req \in Approved(c, expected)
  /\ m.model \in DOMAIN HashOf => m.hash = HashOf[m.model]

(* The ten checks leave nothing open exactly if all of that holds. *)
LEMMA ChecksClear ==
  ASSUME NEW c, NEW expected, NEW late, NEW tool, NEW body, NEW m, NEW r
  PROVE  Clear(LocalChecks(c, expected, late, tool, body, m, r))
           <=> Vouched(c, expected, body, m) /\ RouteDeclared(c, m, r) /\ ~ late /\ (tool => AllowTools)
  <1> DEFINE checks == LocalChecks(c, expected, late, tool, body, m, r)
             names == {"not_expired", "receipt_present", "receipt_signature", "nonce_match", "request_binding",
                       "response_binding", "attempt_match", "model_hash_reference", "route_allowed", "tool_policy"}
  <1>1. DOMAIN checks = names
    BY DEF LocalChecks
  <1>2. Failed(checks) = {} <=> \A k \in names : checks[k] # "fail"
    BY <1>1 DEF Failed
  <1>3. Unknown(checks) \cap Required = {} <=> \A k \in Required : checks[k] # "na"
    BY <1>1 DEF Unknown, Required
  <1>4. (\A k \in names : checks[k] # "fail") /\ (\A k \in Required : checks[k] # "na")
          => Vouched(c, expected, body, m) /\ RouteDeclared(c, m, r) /\ ~ late /\ (tool => AllowTools)
    BY DEF LocalChecks, PassIf, Required, Vouched, RouteDeclared, RouteCheck, RequestBinding
  <1>5. Vouched(c, expected, body, m) /\ RouteDeclared(c, m, r) /\ ~ late /\ (tool => AllowTools)
          => (\A k \in names : checks[k] # "fail") /\ (\A k \in Required : checks[k] # "na")
    BY DEF LocalChecks, PassIf, Required, Vouched, RouteDeclared, RouteCheck, RequestBinding
  <1> QED BY <1>2, <1>3, <1>4, <1>5 DEF Clear

(* The gate is exact, for all contracts, statements, pinned keys, model    *)
(* hashes and verdicts: outside observe mode U accepts an answer if and    *)
(* only if a pinned key vouches for it, the model is one the contract      *)
(* names or a fallback that R declared, it is in time and orders no tool,  *)
(* and in strict mode T has passed it (user_gate.py:91-228).  What R       *)
(* leaves out can only turn an acceptance into a refusal.                  *)
THEOREM DecisionIsExact ==
  ASSUME NEW c, NEW expected, NEW late, NEW tool, NEW body, NEW m, NEW r,
         NEW mode \in {"protect", "strict"}, NEW status, NEW hit
  PROVE  Decide(mode, LocalChecks(c, expected, late, tool, body, m, r), status, hit) = "accept"
           <=> /\ Vouched(c, expected, body, m) /\ RouteDeclared(c, m, r) /\ ~ late /\ (tool => AllowTools)
               /\ mode = "strict" => status = "passed"
  <1> DEFINE checks == LocalChecks(c, expected, late, tool, body, m, r)
  <1>1. Decide(mode, checks, status, hit) = "accept" <=> Clear(checks) /\ (mode = "strict" => status = "passed")
    <2> HIDE DEF checks
    <2> QED BY DEF Decide, Clear
  <1> QED BY <1>1, ChecksClear

(* The same for the gate with the values of the simulation run. *)
LEMMA GateJudges == JudgedAsDue
  <1> SUFFICES ASSUME NEW c \in Contracts, NEW expected \in Recomputed, NEW m \in Receipts \cup {NULL},
                      NEW r \in Relays \cup {NULL}, NEW late \in BOOLEAN, NEW tool \in BOOLEAN,
                      NEW mode \in {"protect", "strict"}, NEW status \in {NULL, "passed", "failed"}
               PROVE  Gate!Decide(mode, Gate!LocalChecks(c, expected, late, tool, "body", m, r), status, TRUE) = "accept"
                        <=> /\ Genuine(c, expected, m) /\ RouteDeclared(c, m, r) /\ ~ late /\ ~ tool
                            /\ mode = "strict" => status = "passed"
    BY DEF JudgedAsDue
  <1> DEFINE checks == Gate!LocalChecks(c, expected, late, tool, "body", m, r)
             names == {"not_expired", "receipt_present", "receipt_signature", "nonce_match", "request_binding",
                       "response_binding", "attempt_match", "model_hash_reference", "route_allowed", "tool_policy"}
             clear == Gate!Failed(checks) = {} /\ Gate!Unknown(checks) \cap Gate!Required = {}
             due == Genuine(c, expected, m) /\ RouteDeclared(c, m, r) /\ ~ late /\ ~ tool
  <1>0. DOMAIN checks = names
    BY DEF Gate!LocalChecks
  <1>1. clear <=> (\A k \in names : checks[k] # "fail") /\ (\A k \in Gate!Required : checks[k] # "na")
    BY <1>0 DEF Gate!Failed, Gate!Unknown, Gate!Required
  <1>2. (\A k \in names : checks[k] # "fail") /\ (\A k \in Gate!Required : checks[k] # "na") => due
    BY DEF Gate!LocalChecks, Gate!PassIf, Gate!Required, Genuine, RouteDeclared, Gate!RouteCheck, Gate!RequestBinding, Gate!Approved
  <1>3. due => (\A k \in names : checks[k] # "fail") /\ (\A k \in Gate!Required : checks[k] # "na")
    BY DEF Gate!LocalChecks, Gate!PassIf, Gate!Required, Genuine, RouteDeclared, Gate!RouteCheck, Gate!RequestBinding, Gate!Approved
  <1>4. Gate!Decide(mode, checks, status, TRUE) = "accept" <=> clear /\ (mode = "strict" => status = "passed")
    <2> HIDE DEF checks
    <2> QED BY DEF Gate!Decide
  <1> QED BY <1>1, <1>2, <1>3, <1>4

-----------------------------------------------------------------------------
(* A set of numbers that is not empty has a least member. *)
LEMMA Least ==
  ASSUME NEW U \in SUBSET Nat, U # {}
  PROVE  \E u \in U : \A v \in U : u <= v
  <1>1. PICK R : R = OpToRel(<, Nat)
    OBVIOUS
  <1>2. IsWellFoundedOn(R, Nat)
    BY <1>1, NatLessThanWellFounded
  <1>3. PICK u \in U : \A v \in U : <<v, u>> \notin R
    <2>1. U \subseteq Nat
      OBVIOUS
    <2> QED BY <1>2, <2>1, WFMin
  <1>4. \A m, n \in Nat : m < n => <<m, n>> \in R
    BY <1>1 DEF OpToRel
  <1>5. ASSUME NEW v \in U PROVE u <= v
    <2>1. u \in Nat /\ v \in Nat /\ ~ (v < u)
      BY <1>3, <1>4
    <2> QED BY <2>1
  <1> QED BY <1>5

(* Induction up to N, for a set instead of a predicate. *)
LEMMA UpTo ==
  ASSUME NEW N \in Nat, NEW T \in SUBSET (0 .. N), 0 \in T, \A n \in T : n < N => n + 1 \in T
  PROVE  N \in T
  <1> DEFINE U == (0 .. N) \ T
  <1>1. SUFFICES ASSUME N \notin T PROVE FALSE
    OBVIOUS
  <1>2. U \in SUBSET Nat /\ U # {}
    BY <1>1
  <1>3. PICK u \in U : \A v \in U : u <= v
    BY <1>2, Least
  <1>4. u \in 1 .. N /\ u - 1 \in 0 .. N /\ u - 1 \notin U
    BY <1>3
  <1>5. u - 1 \in T /\ u - 1 < N /\ (u - 1) + 1 = u
    BY <1>4
  <1> QED BY <1>3, <1>5

(* The states that a sequence of calls leads through, one by one. *)
After(g, calls, after) ==
  after = [n \in 0 .. Len(calls) |-> IF n = 0 THEN g ELSE Streaming!Call(after[n - 1], calls[n])]

LEMMA StreamAfter ==
  ASSUME NEW g, NEW V, NEW calls \in Seq(V)
  PROVE  \E after : After(g, calls, after) /\ Streaming!Stream(g, calls) = after[Len(calls)]
  <1> DEFINE Leads(n, f) == f = [k \in 0 .. n |-> IF k = 0 THEN g ELSE Streaming!Call(f[k - 1], calls[k])]
             T == {n \in 0 .. Len(calls) : \E f : Leads(n, f)}
  <1>0. Len(calls) \in Nat
    OBVIOUS
  <1>1. 0 \in T
    <2>1. PICK f : f = [k \in 0 .. 0 |-> g]
      OBVIOUS
    <2>2. Leads(0, f)
      BY <2>1
    <2> QED BY <1>0, <2>2
  <1>2. ASSUME NEW n \in T, n < Len(calls) PROVE n + 1 \in T
    <2>1. PICK f : Leads(n, f)
      BY <1>2
    <2> DEFINE h == [k \in 0 .. n + 1 |-> IF k <= n THEN f[k] ELSE Streaming!Call(f[n], calls[k])]
    <2>2. \A k \in 0 .. n + 1 : h[k] = IF k = 0 THEN g ELSE Streaming!Call(h[k - 1], calls[k])
      BY <2>1
    <2>3. Leads(n + 1, h)
      BY <2>2
    <2>4. n + 1 \in 0 .. Len(calls)
      BY <1>2
    <2> QED BY <2>3, <2>4
  <1>3. Len(calls) \in T
    <2> HIDE DEF Leads
    <2>1. T \in SUBSET (0 .. Len(calls))
      OBVIOUS
    <2> HIDE DEF T
    <2> QED BY <1>0, <1>1, <1>2, <2>1, UpTo
  <1>4. \E f : After(g, calls, f)
    BY <1>3 DEF After
  <1> DEFINE after == CHOOSE f : After(g, calls, f)
  <1>5. After(g, calls, after)
    BY <1>4
  <1>6. Streaming!Stream(g, calls) = after[Len(calls)]
    BY DEF Streaming!Stream, After
  <1> QED BY <1>5, <1>6

(* The digests after n chunks. *)
Chain(first, calls, n) ==
  [k \in 1 .. n + 1 |-> IF k = 1 THEN first ELSE <<k - 1, calls[k - 1].chunk>>]

(* The kth call brings the kth chunk, and says so. *)
Follows(first, calls, k) ==
  /\ calls[k].op = "feed" /\ calls[k].index = k /\ k <= MaxIndex
  /\ calls[k].expected \in {NULL, Chain(first, calls, k)}

(* Chunks without a gap, and then the digest that M signed is theirs. *)
Delivered(root, first, calls) ==
  \E n \in 0 .. Len(calls) - 1 :
    /\ \A k \in 1 .. n : Follows(first, calls, k)
    /\ calls[n + 1].op # "feed" /\ calls[n + 1].final = root /\ root = Chain(first, calls, n)

At(root, chain, next, state) == [root |-> root, chain |-> chain, next |-> next, state |-> state]

LEMMA ChainGrows ==
  ASSUME NEW first, NEW calls, NEW n \in Nat
  PROVE  Append(Chain(first, calls, n), <<n + 1, calls[n + 1].chunk>>) = Chain(first, calls, n + 1)
  <1> DEFINE c == Chain(first, calls, n)
             last == <<n + 1, calls[n + 1].chunk>>
             V == {first, last} \cup {<<k, calls[k].chunk>> : k \in 1 .. n}
  <1>1. c \in Seq(V) /\ Len(c) = n + 1
    <2>1. c \in [1 .. n + 1 -> V]
      BY DEF Chain
    <2> QED BY <2>1
  <1>2. last \in V
    OBVIOUS
  <1> HIDE DEF V
  <1>3. /\ Append(c, last) \in Seq(V) /\ Len(Append(c, last)) = n + 2
        /\ \A k \in 1 .. n + 2 : Append(c, last)[k] = IF k = n + 2 THEN last ELSE c[k]
    BY <1>1, <1>2
  <1>4. \A k \in 1 .. n + 2 : Append(c, last)[k] = Chain(first, calls, n + 1)[k]
    BY <1>3 DEF Chain
  <1>5. DOMAIN Append(c, last) = 1 .. n + 2 /\ DOMAIN Chain(first, calls, n + 1) = 1 .. n + 2
    BY <1>3 DEF Chain
  <1> QED BY <1>3, <1>4, <1>5 DEF Chain

(* One call on a gate that has taken n chunks. *)
LEMMA CalledAt ==
  ASSUME NEW root, NEW first, NEW calls, NEW n \in Nat, NEW g,
         g = At(root, Chain(first, calls, n), n + 1, "open")
  PROVE  Streaming!Call(g, calls[n + 1]) =
           IF calls[n + 1].op = "feed"
           THEN IF Follows(first, calls, n + 1) THEN At(root, Chain(first, calls, n + 1), n + 2, "open")
                ELSE At(root, Chain(first, calls, n), n + 1, "failed")
           ELSE At(root, Chain(first, calls, n), n + 1,
                   IF calls[n + 1].final = root /\ root = Chain(first, calls, n) THEN "finalized" ELSE "failed")
  <1>1. /\ g \in [root : {root}, chain : {g.chain}, next : {n + 1}, state : {"open"}]
        /\ g.root = root /\ g.chain = Chain(first, calls, n) /\ g.next = n + 1 /\ g.state = "open"
    BY DEF At
  <1>2. [g EXCEPT !.state = "failed"] = At(root, g.chain, n + 1, "failed")
    BY <1>1 DEF At
  <1>3. [g EXCEPT !.state = "finalized"] = At(root, g.chain, n + 1, "finalized")
    BY <1>1 DEF At
  <1>4. ASSUME NEW c PROVE [g EXCEPT !.chain = c, !.next = (n + 1) + 1] = At(root, c, n + 2, "open")
    <2>1. g \in [root : {root}, chain : {g.chain, c}, next : {n + 1, n + 2}, state : {"open"}]
      BY <1>1
    <2>2. PICK h : h = [g EXCEPT !.chain = c]
      OBVIOUS
    <2>3. h \in [root : {root}, chain : {c}, next : {n + 1, n + 2}, state : {"open"}] /\ h.next = n + 1
      BY <1>1, <2>1, <2>2
    <2>4. [h EXCEPT !.next = (n + 1) + 1] = At(root, c, n + 2, "open")
      BY <2>3 DEF At
    <2> QED BY <2>2, <2>4
  <1>5. CASE calls[n + 1].op = "feed"
    <2> DEFINE index == calls[n + 1].index
               c == Chain(first, calls, n + 1)
    <2>1. index = n + 1 => Streaming!Digest(g, index, calls[n + 1].chunk) = c
      BY <1>1, ChainGrows DEF Streaming!Digest
    <2>2. index = n + 1 => (index \in 1 .. MaxIndex <=> n + 1 <= MaxIndex)
      BY StreamAssumption
    <2>3. CASE Follows(first, calls, n + 1)
      BY <1>1, <1>4, <1>5, <2>1, <2>2, <2>3 DEF Streaming!Call, Streaming!Feed, Follows
    <2>4. CASE ~ Follows(first, calls, n + 1)
      BY <1>1, <1>2, <1>5, <2>1, <2>2, <2>4 DEF Streaming!Call, Streaming!Feed, Streaming!Abort, Follows
    <2> QED BY <2>3, <2>4
  <1>6. CASE calls[n + 1].op # "feed"
    BY <1>1, <1>2, <1>3, <1>6 DEF Streaming!Call, Streaming!Finalize, Streaming!Abort
  <1> QED BY <1>5, <1>6

(* A gate that is not open stays as it is. *)
LEMMA ClosedStays ==
  ASSUME NEW g, NEW c, g.state # "open"
  PROVE  Streaming!Call(g, c) = g
  BY DEF Streaming!Call, Streaming!Feed, Streaming!Finalize

(* For every root, first digest and sequence of calls: the stream ends as  *)
(* finalized exactly if the calls begin with the chunks in their order,    *)
(* each with the digest it claims, followed by the digest that M signed    *)
(* (streaming_gate.py:69-109).  Before call n + 1 the gate has taken all n *)
(* chunks, or it is settled for good.                                      *)
THEOREM StreamIsRead ==
  ASSUME NEW root, NEW req, NEW nonce, NEW V, NEW calls \in Seq(V)
  PROVE  Streaming!Stream(Streaming!Opened(root, req, nonce), calls).state = "finalized"
           <=> Delivered(root, req \o nonce, calls)
  <1> DEFINE first == req \o nonce
             g == Streaming!Opened(root, req, nonce)
  <1>1. PICK after : After(g, calls, after) /\ Streaming!Stream(g, calls) = after[Len(calls)]
    BY StreamAfter
  <1>2. /\ Len(calls) \in Nat /\ after[0] = g
        /\ \A n \in 0 .. Len(calls) - 1 : after[n + 1] = Streaming!Call(after[n], calls[n + 1])
    BY <1>1 DEF After
  <1> DEFINE Taken(n) == /\ after[n] = At(root, Chain(first, calls, n), n + 1, "open")
                         /\ \A k \in 1 .. n : Follows(first, calls, k)
             Settled(n) == \/ after[n].state = "finalized" /\ Delivered(root, first, calls)
                           \/ after[n].state = "failed" /\ ~ Delivered(root, first, calls)
             T == {n \in 0 .. Len(calls) : Taken(n) \/ Settled(n)}
  <1>3. 0 \in T
    <2>1. <<first>> = Chain(first, calls, 0)
      BY DEF Chain
    <2>2. g = At(root, Chain(first, calls, 0), 1, "open")
      BY <2>1 DEF Streaming!Opened, At
    <2> QED BY <1>2, <2>2
  <1>4. ASSUME NEW n \in T, n < Len(calls) PROVE n + 1 \in T
    <2>0. n \in Nat /\ n + 1 \in 0 .. Len(calls) /\ after[n + 1] = Streaming!Call(after[n], calls[n + 1])
      BY <1>2, <1>4
    <2>1. CASE Settled(n)
      <3>1. after[n + 1] = after[n]
        BY <2>0, <2>1, ClosedStays
      <3> QED BY <2>0, <2>1, <3>1
    <2>2. CASE Taken(n) /\ calls[n + 1].op = "feed" /\ Follows(first, calls, n + 1)
      <3>1. after[n + 1] = At(root, Chain(first, calls, n + 1), (n + 1) + 1, "open")
        BY <2>0, <2>2, CalledAt
      <3>2. \A k \in 1 .. n + 1 : Follows(first, calls, k)
        BY <2>0, <2>2
      <3> QED BY <2>0, <3>1, <3>2
    <2>3. CASE Taken(n) /\ calls[n + 1].op = "feed" /\ ~ Follows(first, calls, n + 1)
      <3>0. after[n + 1] = At(root, Chain(first, calls, n), n + 1, "failed")
        BY <2>0, <2>3, CalledAt
      <3>1. after[n + 1].state = "failed"
        BY <3>0 DEF At
      <3>2. ~ Delivered(root, first, calls)
        <4>1. SUFFICES ASSUME NEW m \in 0 .. Len(calls) - 1, \A k \in 1 .. m : Follows(first, calls, k),
                              calls[m + 1].op # "feed"
                       PROVE  FALSE
          BY DEF Delivered
        <4>2. CASE m < n
          BY <2>0, <2>3, <4>1, <4>2 DEF Follows
        <4>3. CASE m = n
          BY <2>3, <4>1, <4>3
        <4>4. CASE m > n
          BY <2>0, <2>3, <4>1, <4>4
        <4> QED BY <2>0, <4>2, <4>3, <4>4
      <3> QED BY <2>0, <3>1, <3>2
    <2>4. CASE Taken(n) /\ calls[n + 1].op # "feed"
      <3>1. after[n + 1].state =
              IF calls[n + 1].final = root /\ root = Chain(first, calls, n) THEN "finalized" ELSE "failed"
        <4> DEFINE state == IF calls[n + 1].final = root /\ root = Chain(first, calls, n) THEN "finalized" ELSE "failed"
        <4>1. after[n + 1] = At(root, Chain(first, calls, n), n + 1, state)
          BY <2>0, <2>4, CalledAt
        <4> HIDE DEF state
        <4>2. after[n + 1].state = state
          BY <4>1 DEF At
        <4> QED BY <4>2 DEF state
      <3>2. calls[n + 1].final = root /\ root = Chain(first, calls, n) => Delivered(root, first, calls)
        BY <1>2, <1>4, <2>0, <2>4 DEF Delivered
      <3>3. ASSUME NEW m \in 0 .. Len(calls) - 1, \A k \in 1 .. m : Follows(first, calls, k),
                   calls[m + 1].op # "feed", calls[m + 1].final = root, root = Chain(first, calls, m)
            PROVE  calls[n + 1].final = root /\ root = Chain(first, calls, n)
        <4>1. m = n
          <5>1. CASE m < n
            BY <2>0, <2>4, <3>3, <5>1 DEF Follows
          <5>2. CASE m > n
            BY <2>0, <2>4, <3>3, <5>2 DEF Follows
          <5> QED BY <2>0, <5>1, <5>2
        <4> QED BY <3>3, <4>1
      <3>4. Settled(n + 1)
        BY <3>1, <3>2, <3>3 DEF Delivered
      <3> QED BY <2>0, <3>4
    <2> QED BY <1>4, <2>1, <2>2, <2>3, <2>4
  <1>5. Len(calls) \in T
    <2>1. T \in SUBSET (0 .. Len(calls))
      OBVIOUS
    <2> HIDE DEF T
    <2> QED BY <1>2, <1>3, <1>4, <2>1, UpTo
  <1>6. CASE Taken(Len(calls))
    <2>1. after[Len(calls)].state # "finalized"
      BY <1>6 DEF At
    <2>2. ~ Delivered(root, first, calls)
      BY <1>2, <1>6 DEF Delivered, Follows
    <2> QED BY <1>1, <2>1, <2>2
  <1>7. CASE Settled(Len(calls))
    BY <1>1, <1>7
  <1> QED BY <1>5, <1>6, <1>7

LEMMA TwoJoined ==
  ASSUME NEW S, NEW a \in S, NEW b \in S
  PROVE  <<a>> \o <<b>> = <<a, b>>
  <1>1. PICK c, d : c = <<a>> \o <<b>> /\ d = <<a, b>>
    OBVIOUS
  <1>2. <<a>> \in Seq(S) /\ <<b>> \in Seq(S)
    OBVIOUS
  <1>3. c \in Seq(S) /\ Len(c) = 2 /\ c[1] = a /\ c[2] = b
    BY <1>1, <1>2, ConcatProperties
  <1>4. c \in [1 .. 2 -> S]
    BY <1>3
  <1>6. d \in [1 .. 2 -> S] /\ d[1] = a /\ d[2] = b
    BY <1>1
  <1>5. c = d
    BY <1>3, <1>4, <1>6
  <1> QED BY <1>1, <1>5

LEMMA SignedChain ==
  /\ <<"req">> \o <<"nonce">> = <<"req", "nonce">>
  /\ DOMAIN Signed = 1 .. 3 /\ Signed[1] = <<"req", "nonce">> /\ Signed[2] = <<1, "a">> /\ Signed[3] = <<2, "b">>
  /\ DOMAIN SubSeq(Signed, 1, 2) = 1 .. 2
  /\ SubSeq(Signed, 1, 2)[1] = Signed[1] /\ SubSeq(Signed, 1, 2)[2] = Signed[2]
  /\ SubSeq(Signed, 1, 3) = Signed
  <1>1. <<"req">> \o <<"nonce">> = <<"req", "nonce">>
    <2>1. PICK S, a, b : S = {"req", "nonce"} /\ a = "req" /\ b = "nonce" /\ a \in S /\ b \in S
      OBVIOUS
    <2> QED BY <2>1, TwoJoined
  <1>2. DOMAIN Signed = 1 .. 3 /\ Signed[1] = <<"req", "nonce">> /\ Signed[2] = <<1, "a">> /\ Signed[3] = <<2, "b">>
    BY DEF Signed
  <1>3. SubSeq(Signed, 1, 2) = [k \in 1 .. 2 |-> Signed[k]] /\ SubSeq(Signed, 1, 3) = [k \in 1 .. 3 |-> Signed[k]]
    BY DEF Signed
  <1>4. Signed = [k \in 1 .. 3 |-> Signed[k]]
    BY <1>2 DEF Signed
  <1> QED BY <1>1, <1>2, <1>3, <1>4

LEMMA StreamReads == Misread = {}
  <1> DEFINE first == <<"req", "nonce">>
  <1>1. SUFFICES ASSUME NEW calls \in BoundedSeq(Feeds \cup Finals, 4)
                 PROVE  Streaming!Stream(Opened(Signed), calls).state = "finalized" <=> AsSigned(calls)
    BY DEF Misread
  <1>2. calls \in Seq(Feeds \cup Finals)
    <2>1. PICK m \in 0 .. 4 : calls \in [1 .. m -> Feeds \cup Finals]
      BY DEF BoundedSeq, SeqOf
    <2> QED BY <2>1
  <1>3. /\ Len(calls) \in Nat
        /\ \A k \in 1 .. Len(calls) :
             (calls[k] \in Feeds /\ calls[k].op = "feed") \/ (calls[k] \in Finals /\ calls[k].op = "final")
    <2>1. (\A c \in Feeds : c.op = "feed") /\ (\A c \in Finals : c.op = "final")
      BY DEF Feeds, Finals
    <2> QED BY <1>2, <2>1
  <1>4. Streaming!Stream(Opened(Signed), calls).state = "finalized" <=> Delivered(Signed, first, calls)
    BY <1>2, StreamIsRead, SignedChain DEF Opened
  <1>5. ASSUME NEW n \in 0 .. Len(calls) - 1, Signed = Chain(first, calls, n)
        PROVE  n = 2 /\ calls[1].chunk = "a" /\ calls[2].chunk = "b"
    <2>1. DOMAIN Chain(first, calls, n) = 1 .. n + 1
          /\ \A k \in 2 .. n + 1 : Chain(first, calls, n)[k] = <<k - 1, calls[k - 1].chunk>>
      BY <1>3 DEF Chain
    <2>5. 1 .. n + 1 = 1 .. 3
      BY <1>5, <2>1, SignedChain
    <2>6. 3 \in 1 .. 3 /\ n + 1 \in 1 .. n + 1
      BY <1>3
    <2>2. 3 \in 1 .. n + 1 /\ n + 1 \in 1 .. 3
      BY <2>5, <2>6
    <2>3. n = 2
      BY <1>3, <2>2
    <2>4. Signed[2] = <<1, calls[1].chunk>> /\ Signed[3] = <<2, calls[2].chunk>>
      BY <1>5, <2>1, <2>3
    <2> QED BY <2>3, <2>4, SignedChain
  <1>6. ASSUME calls[1].chunk = "a", calls[2].chunk = "b"
        PROVE  Chain(first, calls, 2) = Signed /\ Chain(first, calls, 1) = SubSeq(Signed, 1, 2)
    <2>1. Chain(first, calls, 2) = [k \in 1 .. 3 |-> Signed[k]]
      BY <1>6, SignedChain DEF Chain
    <2>2. Chain(first, calls, 1) = [k \in 1 .. 2 |-> Signed[k]]
      BY <1>6, SignedChain DEF Chain
    <2> QED BY <2>1, <2>2, SignedChain DEF Signed
  <1>7. ASSUME Delivered(Signed, first, calls) PROVE AsSigned(calls)
    <2>1. PICK n \in 0 .. Len(calls) - 1 :
            /\ \A k \in 1 .. n : Follows(first, calls, k)
            /\ calls[n + 1].op # "feed" /\ calls[n + 1].final = Signed /\ Signed = Chain(first, calls, n)
      BY <1>7 DEF Delivered
    <2>2. n = 2 /\ calls[1].chunk = "a" /\ calls[2].chunk = "b" /\ Len(calls) >= 3
      BY <1>3, <1>5, <2>1
    <2>3. Follows(first, calls, 1) /\ Follows(first, calls, 2)
      BY <2>1, <2>2
    <2>4. calls[1] \in Feeds /\ calls[2] \in Feeds /\ calls[3] \in Finals /\ calls[3].final = Signed
      BY <1>3, <2>1, <2>2, <2>3 DEF Follows
    <2> QED BY <1>6, <2>2, <2>3, <2>4, SignedChain DEF AsSigned, Follows
  <1>8. ASSUME AsSigned(calls) PROVE Delivered(Signed, first, calls)
    <2>1. /\ Len(calls) >= 3 /\ calls[3] \in Finals /\ calls[3].final = Signed
          /\ calls[1] \in Feeds /\ calls[1].index = 1 /\ calls[1].chunk = "a"
          /\ calls[2] \in Feeds /\ calls[2].index = 2 /\ calls[2].chunk = "b"
          /\ calls[1].expected \in {NULL, SubSeq(Signed, 1, 2)} /\ calls[2].expected \in {NULL, SubSeq(Signed, 1, 3)}
      BY <1>8, SignedChain DEF AsSigned
    <2>2. Follows(first, calls, 1) /\ Follows(first, calls, 2)
      BY <1>6, <2>1, StreamAssumption, SignedChain DEF Follows, Feeds
    <2>3. calls[3].op # "feed"
      BY <2>1 DEF Finals
    <2>4. 2 \in 0 .. Len(calls) - 1 /\ 2 + 1 = 3 /\ 1 .. 2 = {1, 2}
      BY <1>3, <2>1
    <2> QED BY <1>6, <2>1, <2>2, <2>3, <2>4 DEF Delivered
  <1> QED BY <1>4, <1>7, <1>8

(* Over every input of the run the gate decides as is due, so that a relay *)
(* that keeps its statement back gains nothing, and the streaming gate     *)
(* reads the signed stream and no other (user_gate.py:91-228,              *)
(* streaming_gate.py:69-109).                                              *)
THEOREM GatesAreExact == Spec => []GatesExact
  <1>1. GatesExact
    BY GateJudges, StreamReads DEF GatesExact
  <1> QED BY <1>1, PTL

-----------------------------------------------------------------------------
(* A sequence, of whatever elements. *)
IsSequence(q) == q \in Seq(Range(q))

LEMMA AppendKeeps ==
  ASSUME NEW q, IsSequence(q), NEW e, NEW r, r = Append(q, e)
  PROVE  IsSequence(r) /\ Len(r) = Len(q) + 1 /\ r[Len(r)] = e /\ \A n \in 1 .. Len(q) : r[n] = q[n]
  <1> DEFINE S == Range(q) \cup {e}
  <1>1. q \in Seq(S)
    BY SeqMonotonic DEF IsSequence
  <1>2. r \in Seq(S) /\ Len(r) = Len(q) + 1 /\ r[Len(r)] = e /\ \A n \in 1 .. Len(q) : r[n] = q[n]
    BY <1>1
  <1> QED BY <1>2, SeqOfRange DEF IsSequence

(* The answer of an attempt may be used. *)
Harmless(a) == Colluded(a) \/ (~ Falsified(a) /\ ~ s.injected)

(* Where the program is: `truths' has an entry for each attempt begun,     *)
(* `gates' one for each attempt decided.                                   *)
Positions ==
  /\ s \in Scenarios /\ i \in Nat \ {0}
  /\ pc \in {"user", "relay", "model", "forge", "answer", "received", "poll", "next", "close", "final",
            "checkpoint", "audit", "done"}
  /\ IsSequence(truths) /\ Len(truths) = IF pc = "user" THEN i - 1 ELSE i
  /\ IsSequence(gates)
  /\ Len(gates) = IF pc \in {"user", "relay", "model", "forge", "answer", "received", "poll"} THEN i - 1 ELSE i
  /\ pc \in {"close", "final", "checkpoint", "audit", "done"} => i >= s.attempts

(* What U promised in this attempt. *)
ContractKept ==
  pc \in {"relay", "model", "forge", "answer", "received"} =>
    /\ wire.contract.nonce = i /\ wire.contract.attempt = i /\ wire.contract.req = Commit(i, "asked")
    /\ wire.contract.requested = "model-A" /\ wire.contract.allowed = s.allowed
    /\ wire.contract.fallback = s.fallback /\ wire.contract.transforms = s.transforms

(* What M has before it. *)
Forwarded ==
  pc \in {"model", "forge", "answer"} =>
    /\ truths[i].atModel = wire.body /\ truths[i].model = Upstream
    /\ wire.salt \in {NULL, i}

(* What M answered, and the receipt it signed for that. *)
Attests(receipt, salt) ==
  /\ receipt.attempt = i
  /\ Colluded(i) \/
       /\ receipt.req = Commit(salt, truths[i].atModel) /\ receipt.model = truths[i].model
       /\ truths[i].answer # NULL => receipt.resp = Commit(salt, truths[i].answer)

Answered ==
  /\ pc = "forge" => Colluded(i)
  /\ pc \in {"forge", "answer"} =>
       /\ truths[i].answer = wire.answer
       /\ wire.receipt # NULL => Attests(wire.receipt, wire.salt)

(* What has come back to U: this attempt's receipt, or an older one. *)
Returned ==
  pc = "received" /\ wire.body # NULL =>
    /\ truths[i].atUser = wire.body
    /\ wire.receipt # NULL =>
         \/ wire.receipt.attempt \in Nat /\ wire.receipt.attempt < i
         \/ /\ truths[i].answer # NULL
            /\ truths[i].model = Upstream
            /\ \E salt \in {NULL, i} : Attests(wire.receipt, salt)
            /\ wire.relay # NULL /\ wire.relay.decision = "fallback" => Behavior.declareFallback

CacheOlder ==
  cache # NULL /\ cache.receipt # NULL =>
    /\ cache.receipt.attempt \in Nat /\ cache.receipt.attempt <= i
    /\ pc \in {"user", "relay"} => cache.receipt.attempt < i

(* What the checks and the decisions stand for. *)
CheckedHarmless == pc = "poll" /\ Clear(wire.checks) => Harmless(i)
DecidedHarmless == s.mode # "observe" => \A a \in 1 .. Len(gates) : Consumed(a) => Harmless(a)

HarmInv ==
  /\ Positions /\ ContractKept /\ Forwarded /\ Answered /\ Returned /\ CacheOlder
  /\ CheckedHarmless /\ DecidedHarmless

(* Neither a commitment nor an answer is nothing. *)
LEMMA CommitThere ==
  ASSUME NEW a \in Nat, NEW x \in Bodies
  PROVE  Commit(a, x) = [salt |-> a, of |-> x] /\ Commit(a, x) \in RequestCommits /\ Commit(a, x) # NULL
  <1>1. a # NULL /\ [salt |-> a, of |-> x] \in RequestCommits
    BY SimulationAssumption DEF RequestCommits
  <1> QED BY <1>1, SimulationAssumption DEF Commit

LEMMA AnswerThere ==
  ASSUME NEW model \in Models, NEW body \in Bodies
  PROVE  Infer(model, body) \in Answers /\ Infer(model, body) # NULL
  <1>1. Infer(model, body) \in Answers
    BY DEF Infer, Answers
  <1> QED BY <1>1, SimulationAssumption

LEMMA HarmInit == Init => HarmInv
  BY SimulationAssumption DEF Init, HarmInv, Positions, ContractKept, Forwarded, Answered, Returned, CacheOlder,
     CheckedHarmless, DecidedHarmless, IsSequence

LEMMA HarmlessSame ==
  ASSUME s' = s, NEW a, truths'[a] = truths[a]
  PROVE  Harmless(a)' <=> Harmless(a)
  BY DEF Harmless, Colluded, BehaviorOf, Falsified, Allowed, Permitted

LEMMA DecidedSame ==
  ASSUME s' = s, gates' = gates, \A a \in 1 .. Len(gates) : truths'[a] = truths[a], DecidedHarmless
  PROVE  DecidedHarmless'
  <1>1. ASSUME NEW a \in 1 .. Len(gates) PROVE Harmless(a)' <=> Harmless(a)
    BY HarmlessSame
  <1> QED BY <1>1 DEF DecidedHarmless, Consumed

LEMMA DecidedOne ==
  ASSUME s' = s, NEW e, gates' = Append(gates, e), IsSequence(gates), truths' = truths, DecidedHarmless,
         s.mode # "observe" /\ e.action \in {"accept", "accept_unverified"} => Harmless(Len(gates) + 1)
  PROVE  DecidedHarmless'
  <1>1. \A a : Harmless(a)' <=> Harmless(a)
    BY HarmlessSame
  <1>2. IsSequence(gates') /\ Len(gates') = Len(gates) + 1 /\ gates'[Len(gates')] = e
        /\ \A n \in 1 .. Len(gates) : gates'[n] = gates[n]
    BY AppendKeeps DEF IsSequence, Range
  <1> QED BY <1>1, <1>2 DEF DecidedHarmless, Consumed, IsSequence

LEMMA TruthReplaced ==
  ASSUME IsSequence(truths), i \in 1 .. Len(truths), NEW atModel, NEW model, NEW answer, NEW atUser,
         truths' = [truths EXCEPT ![i] = Truth(atModel, model, answer, atUser)]
  PROVE  /\ IsSequence(truths') /\ Len(truths') = Len(truths)
         /\ truths'[i].atModel = atModel /\ truths'[i].model = model
         /\ truths'[i].answer = answer /\ truths'[i].atUser = atUser
         /\ \A n \in 1 .. Len(truths) : n # i => truths'[n] = truths[n]
  <1>1. PICK e : e = Truth(atModel, model, answer, atUser)
    OBVIOUS
  <1> DEFINE S == Range(truths) \cup {e}
  <1>2. PICK q : q = truths /\ q \in Seq(S)
    BY SeqMonotonic DEF IsSequence
  <1>3. PICK r : r = truths'
    OBVIOUS
  <1>4. r \in Seq(S) /\ Len(r) = Len(q) /\ \A j \in 1 .. Len(q) : r[j] = IF j = i THEN e ELSE q[j]
    BY <1>1, <1>2, <1>3, ExceptSeq
  <1>5. r \in Seq(Range(r))
    BY <1>4, SeqOfRange
  <1> HIDE DEF S
  <1> QED BY <1>1, <1>2, <1>3, <1>4, <1>5 DEF Truth, IsSequence

LEMMA GatesGrow ==
  ASSUME IsSequence(gates), NEW e, gates' = Append(gates, e)
  PROVE  IsSequence(gates') /\ Len(gates') = Len(gates) + 1
  BY AppendKeeps DEF IsSequence, Range

LEMMA HarmRequest == HarmInv /\ Request => HarmInv'
  <1> SUFFICES ASSUME HarmInv, Request PROVE HarmInv'
    OBVIOUS
  <1> USE DEF HarmInv
  <1>1. Positions' /\ \A a \in 1 .. Len(gates) : truths'[a] = truths[a]
    <2>1. /\ IsSequence(truths') /\ Len(truths') = Len(truths) + 1
          /\ \A n \in 1 .. Len(truths) : truths'[n] = truths[n]
      <3>1. IsSequence(truths) /\ truths' = Append(truths, Truth(NULL, NULL, NULL, NULL))
        BY DEF Request, Positions
      <3> QED BY <3>1, AppendKeeps DEF IsSequence, Range
    <2> QED BY <2>1 DEF Request, Positions, IsSequence
  <1>2. ContractKept'
    BY DEF Request, ContractKept, Contract, Commit
  <1>3. Forwarded' /\ Answered' /\ Returned' /\ CheckedHarmless'
    BY DEF Request, Forwarded, Answered, Returned, CheckedHarmless
  <1>4. CacheOlder'
    BY DEF Request, CacheOlder
  <1>5. DecidedHarmless'
    BY <1>1, DecidedSame DEF Request
  <1> QED BY <1>1, <1>2, <1>3, <1>4, <1>5

LEMMA HarmDrops == HarmInv /\ RelayDrops => HarmInv'
  <1> SUFFICES ASSUME HarmInv, RelayDrops PROVE HarmInv'
    OBVIOUS
  <1> USE DEF HarmInv
  <1>1. Positions'
    BY DEF RelayDrops, Positions, IsSequence
  <1>2. ContractKept'
    BY DEF RelayDrops, ContractKept, Answer, Commit
  <1>3. Forwarded' /\ Answered' /\ Returned' /\ CheckedHarmless'
    BY DEF RelayDrops, Forwarded, Answered, Returned, CheckedHarmless, Answer
  <1>4. CacheOlder'
    BY DEF RelayDrops, CacheOlder
  <1>5. DecidedHarmless'
    BY DecidedSame DEF RelayDrops
  <1> QED BY <1>1, <1>2, <1>3, <1>4, <1>5

LEMMA HarmReplays == HarmInv /\ RelayReplays => HarmInv'
  <1> SUFFICES ASSUME HarmInv, RelayReplays PROVE HarmInv'
    OBVIOUS
  <1> USE DEF HarmInv
  <1>1. /\ IsSequence(truths') /\ Len(truths') = Len(truths) /\ truths'[i].atUser = cache.body
        /\ \A n \in 1 .. Len(truths) : n # i => truths'[n] = truths[n]
    <2>1. /\ IsSequence(truths) /\ i \in 1 .. Len(truths)
          /\ truths' = [truths EXCEPT ![i] = Truth(truths[i].atModel, truths[i].model, truths[i].answer, cache.body)]
      BY DEF RelayReplays, Positions
    <2> QED BY <2>1, TruthReplaced DEF IsSequence, Range
  <1>2. Positions' /\ \A a \in 1 .. Len(gates) : truths'[a] = truths[a]
    BY <1>1 DEF RelayReplays, Positions, IsSequence
  <1>3. ContractKept'
    BY DEF RelayReplays, ContractKept, Answer, Commit
  <1>4. Forwarded' /\ Answered' /\ CheckedHarmless'
    BY DEF RelayReplays, Forwarded, Answered, CheckedHarmless
  <1>5. Returned'
    BY <1>1 DEF RelayReplays, Returned, Answer, CacheOlder
  <1>6. CacheOlder'
    BY DEF RelayReplays, CacheOlder
  <1>7. DecidedHarmless'
    BY <1>2, DecidedSame DEF RelayReplays
  <1> QED BY <1>2, <1>3, <1>4, <1>5, <1>6, <1>7

LEMMA HarmForwards == HarmInv /\ RelayForwards => HarmInv'
  <1> SUFFICES ASSUME HarmInv, RelayForwards PROVE HarmInv'
    OBVIOUS
  <1> USE DEF HarmInv
  <1>1. PICK body : /\ wire' = [contract |-> wire.contract, body |-> body, nonce |-> IF Behavior.dropNonce THEN NULL ELSE i,
                                salt |-> IF Behavior.dropSalt THEN NULL ELSE i]
                    /\ truths' = [truths EXCEPT ![i] = Truth(body, Upstream, @.answer, @.atUser)]
    BY DEF RelayForwards
  <1>2. /\ IsSequence(truths') /\ Len(truths') = Len(truths)
        /\ truths'[i].atModel = body /\ truths'[i].model = Upstream
        /\ \A n \in 1 .. Len(truths) : n # i => truths'[n] = truths[n]
    <2>1. /\ IsSequence(truths) /\ i \in 1 .. Len(truths)
          /\ truths' = [truths EXCEPT ![i] = Truth(body, Upstream, truths[i].answer, truths[i].atUser)]
      <3>1. Positions /\ pc = "relay"
        BY DEF RelayForwards
      <3> QED BY <1>1, <3>1 DEF Positions
    <2> QED BY <2>1, TruthReplaced DEF IsSequence, Range
  <1>3. Positions' /\ \A a \in 1 .. Len(gates) : truths'[a] = truths[a]
    BY <1>2 DEF RelayForwards, Positions, IsSequence
  <1>4. ContractKept'
    BY <1>1 DEF RelayForwards, ContractKept, Commit
  <1>5. Forwarded'
    <2>1. /\ UNCHANGED <<s, i>>
          /\ wire'.body = body /\ wire'.salt \in {NULL, i}
      BY <1>1 DEF RelayForwards
    <2>2. Upstream' = Upstream
      BY <2>1 DEF Upstream, Behavior
    <2> QED BY <1>2, <2>1, <2>2 DEF Forwarded
  <1>6. Answered' /\ Returned' /\ CheckedHarmless'
    BY DEF RelayForwards, Answered, Returned, CheckedHarmless
  <1>7. CacheOlder'
    BY DEF RelayForwards, CacheOlder
  <1>8. DecidedHarmless'
    BY <1>3, DecidedSame DEF RelayForwards
  <1> QED BY <1>3, <1>4, <1>5, <1>6, <1>7, <1>8

(* What M does, and what it signs. *)
LEMMA Serves ==
  ASSUME Serve
  PROVE  \E answer, receipt, t :
           /\ Back(answer, receipt) /\ pc = "model" /\ pc' \in {"forge", "answer"} /\ UNCHANGED <<s, i, cache, gates>>
           /\ truths' = [truths EXCEPT ![i] = Truth(truths[i].atModel, truths[i].model, answer, truths[i].atUser)]
           /\ pc' = "forge" => Behavior.collude /\ Behavior.tamper /\ PreExec # "failed"
           /\ answer = IF PreExec = "failed" THEN NULL ELSE Infer(Upstream, wire.body)
           /\ receipt # NULL => /\ receipt.type = "receipt" /\ receipt.attempt = i /\ receipt.nonce = wire.nonce
                                /\ receipt.req = Commit(wire.salt, wire.body) /\ receipt.model = Upstream
                                /\ receipt.resp = IF answer = NULL THEN NULL ELSE Commit(wire.salt, answer)
           /\ IF receipt = NULL THEN Nothing ELSE Deliver("M", <<receipt>>, t)
  <1> DEFINE refused == PreExec = "failed"
             answer == IF refused THEN NULL ELSE Infer(Upstream, wire.body)
             receipt == IF s.modelColludes /\ ~ refused THEN NULL
                        ELSE Receipt(answer, IF refused THEN "refused" ELSE "served")
             t == now + IF refused THEN 0 ELSE Latency[Upstream]
  <1>1. /\ Back(answer, receipt) /\ pc = "model" /\ pc' \in {"forge", "answer"} /\ UNCHANGED <<s, i, cache, gates>>
        /\ truths' = [truths EXCEPT ![i] = Truth(truths[i].atModel, truths[i].model, answer, truths[i].atUser)]
        /\ pc' = "forge" => Behavior.collude /\ Behavior.tamper /\ PreExec # "failed"
        /\ HandReceipt(receipt, t)
    BY DEF Serve
  <1>2. receipt # NULL => /\ receipt.type = "receipt" /\ receipt.attempt = i /\ receipt.nonce = wire.nonce
                          /\ receipt.req = Commit(wire.salt, wire.body) /\ receipt.model = Upstream
                          /\ receipt.resp = IF answer = NULL THEN NULL ELSE Commit(wire.salt, answer)
    BY DEF Receipt
  <1>4. answer = IF PreExec = "failed" THEN NULL ELSE Infer(Upstream, wire.body)
    OBVIOUS
  <1> HIDE DEF answer, receipt, t
  <1>3. IF receipt = NULL THEN Nothing ELSE Deliver("M", <<receipt>>, t + SignMs)
    BY <1>1 DEF HandReceipt
  <1> QED BY <1>1, <1>2, <1>3, <1>4

LEMMA HarmServe == HarmInv /\ Serve => HarmInv'
  <1> SUFFICES ASSUME HarmInv, Serve PROVE HarmInv'
    OBVIOUS
  <1> USE DEF HarmInv
  <1>1. PICK answer, receipt :
          /\ Back(answer, receipt) /\ pc = "model" /\ pc' \in {"forge", "answer"} /\ UNCHANGED <<s, i, cache, gates>>
          /\ truths' = [truths EXCEPT ![i] = Truth(truths[i].atModel, truths[i].model, answer, truths[i].atUser)]
          /\ pc' = "forge" => Behavior.collude
          /\ receipt # NULL => /\ receipt.attempt = i /\ receipt.req = Commit(wire.salt, wire.body)
                               /\ receipt.model = Upstream
                               /\ receipt.resp = IF answer = NULL THEN NULL ELSE Commit(wire.salt, answer)
    BY Serves
  <1>2. IsSequence(truths) /\ i \in 1 .. Len(truths)
    BY <1>1 DEF Positions
  <1>3. /\ IsSequence(truths') /\ Len(truths') = Len(truths) /\ truths'[i].answer = answer
        /\ truths'[i].atModel = truths[i].atModel /\ truths'[i].model = truths[i].model
        /\ \A n \in 1 .. Len(truths) : n # i => truths'[n] = truths[n]
    <2>1. truths' = [truths EXCEPT ![i] = Truth(truths[i].atModel, truths[i].model, answer, truths[i].atUser)]
      BY <1>1
    <2> QED BY <2>1, <1>2, TruthReplaced DEF IsSequence, Range
  <1>4. Positions' /\ \A a \in 1 .. Len(gates) : truths'[a] = truths[a]
    BY <1>1, <1>3 DEF Positions, IsSequence
  <1>5. ContractKept'
    BY <1>1 DEF ContractKept, Commit, Back
  <1>6. Forwarded'
    BY <1>1, <1>3 DEF Forwarded, Upstream, Behavior, Back
  <1>7. Answered'
    <2>1. Behavior.collude => Colluded(i)'
      BY <1>1 DEF Colluded, Behavior, BehaviorOf
    <2>2. PICK salt : salt = wire.salt
      OBVIOUS
    <2>3. receipt # NULL => Attests(receipt, salt)'
      BY <1>1, <1>3, <2>2 DEF Attests, Forwarded, Commit
    <2>4. wire'.salt = salt /\ wire'.receipt = receipt /\ wire'.answer = answer
      BY <1>1, <2>2 DEF Back
    <2> QED BY <1>1, <1>3, <2>1, <2>3, <2>4 DEF Answered, Attests
  <1>8. Returned' /\ CheckedHarmless'
    BY <1>1 DEF Returned, CheckedHarmless
  <1>9. CacheOlder'
    BY <1>1 DEF CacheOlder
  <1>10. DecidedHarmless'
    BY <1>1, <1>4, DecidedSame
  <1> QED BY <1>4, <1>5, <1>6, <1>7, <1>8, <1>9, <1>10

LEMMA HarmForge == HarmInv /\ Forge => HarmInv'
  <1> SUFFICES ASSUME HarmInv, Forge PROVE HarmInv'
    OBVIOUS
  <1> USE DEF HarmInv
  <1> DEFINE receipt == Receipt(Passed(wire.answer), "served")
  <1>1. Back(wire.answer, receipt) /\ pc = "forge" /\ pc' = "answer" /\ UNCHANGED <<s, i, cache, gates, truths>>
    BY DEF Forge
  <1>2. receipt # NULL => receipt.attempt = i
    BY DEF Receipt
  <1> HIDE DEF receipt
  <1>3. Positions'
    BY <1>1 DEF Positions, IsSequence
  <1>4. ContractKept'
    BY <1>1 DEF ContractKept, Commit, Back
  <1>5. Forwarded'
    BY <1>1 DEF Forwarded, Upstream, Behavior, Back
  <1>6. Answered'
    <2>1. Colluded(i)'
      BY <1>1 DEF Answered, Colluded, BehaviorOf
    <2> QED BY <1>1, <1>2, <2>1 DEF Answered, Attests, Back
  <1>7. Returned' /\ CheckedHarmless' /\ CacheOlder'
    BY <1>1 DEF Returned, CheckedHarmless, CacheOlder
  <1>8. DecidedHarmless'
    BY <1>1, DecidedSame
  <1> QED BY <1>3, <1>4, <1>5, <1>6, <1>7, <1>8

LEMMA HarmAnswers == HarmInv /\ RelayAnswers => HarmInv'
  <1> SUFFICES ASSUME HarmInv, RelayAnswers PROVE HarmInv'
    OBVIOUS
  <1> USE DEF HarmInv
  <1> DEFINE got == wire.answer # NULL
  <1>1. PICK shown, out, m, salt :
          /\ m = wire.receipt /\ salt = wire.salt /\ (out # NULL => got)
          /\ pc = "answer" /\ pc' = "received" /\ UNCHANGED <<s, i, gates>>
          /\ Answer(out, m, shown)
          /\ shown # NULL /\ shown.decision = "fallback" => Behavior.declareFallback
          /\ cache' = IF got THEN [body |-> out, receipt |-> m] ELSE cache
          /\ truths' = [truths EXCEPT ![i] = Truth(truths[i].atModel, truths[i].model, truths[i].answer, out)]
    <2> DEFINE out == IF got THEN Passed(wire.answer) ELSE NULL
               CommitOf(x) == IF got THEN Commit(i, x) ELSE NULL
               respIn == CommitOf(IF Behavior.collude THEN out ELSE wire.answer)
               statement == RelayStatement(
                 IF Behavior.honest THEN Commit(i, wire.body) ELSE Commit(i, "asked"), Behavior.declared, Upstream,
                 respIn, IF Behavior.honest THEN CommitOf(out) ELSE respIn,
                 IF ~ got THEN "error" ELSE IF Behavior.declareFallback THEN "fallback" ELSE "forwarded",
                 IF Behavior.dropNonce THEN NULL ELSE i)
               shown == IF Omits \/ ~ got THEN NULL ELSE statement
    <2>1. /\ pc = "answer" /\ pc' = "received" /\ UNCHANGED <<s, i, gates>>
          /\ Answer(out, wire.receipt, shown)
          /\ cache' = IF got THEN [body |-> out, receipt |-> wire.receipt] ELSE cache
          /\ truths' = [truths EXCEPT ![i] = Truth(truths[i].atModel, truths[i].model, truths[i].answer, out)]
      BY DEF RelayAnswers
    <2>2. out # NULL => got
      OBVIOUS
    <2>3. shown # NULL /\ shown.decision = "fallback" => Behavior.declareFallback
      BY DEF RelayStatement
    <2> HIDE DEF out, shown, got
    <2> QED BY <2>1, <2>2, <2>3
  <1>2. /\ IsSequence(truths') /\ Len(truths') = Len(truths) /\ truths'[i].atUser = out
        /\ truths'[i].atModel = truths[i].atModel /\ truths'[i].model = truths[i].model
        /\ truths'[i].answer = truths[i].answer
        /\ \A n \in 1 .. Len(truths) : n # i => truths'[n] = truths[n]
    <2>1. /\ IsSequence(truths) /\ i \in 1 .. Len(truths)
          /\ truths' = [truths EXCEPT ![i] = Truth(truths[i].atModel, truths[i].model, truths[i].answer, out)]
      BY <1>1 DEF Positions
    <2> QED BY <2>1, TruthReplaced DEF IsSequence, Range
  <1>3. Positions' /\ \A a \in 1 .. Len(gates) : truths'[a] = truths[a]
    BY <1>1, <1>2 DEF Positions, IsSequence
  <1>4. ContractKept'
    BY <1>1 DEF ContractKept, Commit, Answer
  <1>5. Forwarded' /\ Answered' /\ CheckedHarmless'
    BY <1>1 DEF Forwarded, Answered, CheckedHarmless
  <1>6. Returned'
    <2>1. m # NULL => Attests(m, salt)'
      BY <1>1, <1>2 DEF Answered, Attests, Colluded, BehaviorOf, Commit
    <2>2. salt \in {NULL, i}
      BY <1>1 DEF Forwarded
    <2>3. Upstream' = Upstream /\ Behavior' = Behavior
      BY <1>1 DEF Upstream, Behavior
    <2>4. truths[i].answer = wire.answer /\ truths[i].model = Upstream
      BY <1>1 DEF Answered, Forwarded
    <2>5. wire'.body = out /\ wire'.relay = shown /\ (wire'.receipt # NULL => wire'.receipt = m)
      BY <1>1 DEF Answer
    <2> SUFFICES ASSUME wire'.body # NULL, wire'.receipt # NULL
                 PROVE  /\ truths'[i].answer # NULL /\ truths'[i].model = Upstream'
                        /\ \E x \in {NULL, i} : Attests(m, x)'
                        /\ shown # NULL /\ shown.decision = "fallback" => Behavior'.declareFallback
      BY <1>1, <1>2, <2>5 DEF Returned, Attests
    <2> QED BY <1>1, <1>2, <2>1, <2>2, <2>3, <2>4, <2>5
  <1>7. CacheOlder'
    BY <1>1 DEF CacheOlder, Answered, Attests, Positions
  <1>8. DecidedHarmless'
    BY <1>1, <1>3, DecidedSame
  <1> QED BY <1>3, <1>4, <1>5, <1>6, <1>7, <1>8

LEMMA ReceivedHarmless ==
  ASSUME HarmInv, pc = "received", wire.body # NULL, NEW late,
         Clear(LocalChecks(wire.contract, ExpectedCommits, late, s.injected, Commit(i, wire.body),
                           wire.receipt, wire.relay))
  PROVE  Harmless(i)
  <1> USE DEF HarmInv
  <1>1. /\ Vouched(wire.contract, ExpectedCommits, Commit(i, wire.body), wire.receipt)
        /\ RouteDeclared(wire.contract, wire.receipt, wire.relay) /\ (s.injected => AllowTools)
    BY ChecksClear
  <1>2. ~ s.injected
    BY <1>1, SimulationAssumption
  <1>3. wire.receipt # NULL /\ wire.receipt.attempt = i /\ i \in Nat
    BY <1>1 DEF Vouched, ContractKept, Positions
  <1>4. PICK salt \in {NULL, i} :
          /\ truths[i].atUser = wire.body /\ truths[i].answer # NULL /\ truths[i].model = Upstream
          /\ Attests(wire.receipt, salt)
          /\ wire.relay # NULL /\ wire.relay.decision = "fallback" => Behavior.declareFallback
    BY <1>3 DEF Returned
  <1> SUFFICES ASSUME ~ Colluded(i) PROVE ~ Falsified(i)
    BY <1>2 DEF Harmless
  <1>5. /\ wire.receipt.req = Commit(salt, truths[i].atModel) /\ wire.receipt.model = truths[i].model
        /\ wire.receipt.resp = Commit(salt, truths[i].answer)
    BY <1>4 DEF Attests
  <1>6. truths[i].atModel \in Allowed /\ salt = i
    <2>1. PICK x \in Allowed : wire.receipt.req = Commit(i, x)
      BY <1>1 DEF Vouched, Approved, ExpectedCommits, ContractKept, Allowed
    <2>2. Commit(i, x) = [salt |-> i, of |-> x] /\ Commit(i, x) # NULL
      BY <1>3, CommitThere DEF Allowed, Bodies
    <2> QED BY <1>5, <2>1, <2>2 DEF Commit
  <1>7. truths[i].answer = wire.body
    <2>1. Commit(i, truths[i].answer) = Commit(i, wire.body) /\ i # NULL
      BY <1>1, <1>3, <1>5, <1>6, SimulationAssumption DEF Vouched
    <2> QED BY <2>1 DEF Commit
  <1>8. Permitted(i)
    BY <1>1, <1>4, <1>5 DEF RouteDeclared, ContractKept, Permitted, Upstream, Behavior, BehaviorOf
  <1> QED BY <1>4, <1>6, <1>7, <1>8 DEF Falsified

LEMMA DecidedOnClear ==
  ASSUME NEW mode, NEW checks, NEW status, NEW hit, mode # "observe",
         Decide(mode, checks, status, hit) \in {"accept", "accept_unverified"}
  PROVE  Clear(checks)
  BY DEF Decide, Clear

LEMMA HarmNoAnswer == HarmInv /\ NoAnswer => HarmInv'
  <1> SUFFICES ASSUME HarmInv, NoAnswer PROVE HarmInv'
    OBVIOUS
  <1> USE DEF HarmInv
  <1>1. PICK e : gates' = Append(gates, e) /\ e.action = "no_response"
    BY DEF NoAnswer
  <1>2. Positions'
    <2>1. IsSequence(gates') /\ Len(gates') = Len(gates) + 1
      BY <1>1, GatesGrow DEF Positions
    <2> QED BY <2>1 DEF NoAnswer, Positions, IsSequence
  <1>3. ContractKept' /\ Forwarded' /\ Answered' /\ Returned' /\ CheckedHarmless' /\ CacheOlder'
    BY DEF NoAnswer, ContractKept, Forwarded, Answered, Returned, CheckedHarmless, CacheOlder
  <1>4. DecidedHarmless'
    BY <1>1, DecidedOne DEF NoAnswer, Positions
  <1> QED BY <1>2, <1>3, <1>4

LEMMA HarmReceive == HarmInv /\ Receive => HarmInv'
  <1> SUFFICES ASSUME HarmInv, Receive PROVE HarmInv'
    OBVIOUS
  <1> USE DEF HarmInv
  <1>1. PICK checks, e :
          /\ pc = "received" /\ UNCHANGED <<s, i, cache, truths>>
          /\ Clear(checks) => Harmless(i)
          /\ wire'.checks = checks
          /\ e.action = Decide(s.mode, checks, NULL, FALSE)
          /\ \/ pc' = "next" /\ gates' = Append(gates, e)
             \/ pc' = "poll" /\ gates' = gates
    <2> DEFINE late == now' > wire.contract.expires
               checks == LocalChecks(wire.contract, ExpectedCommits, late, s.injected,
                                     Commit(i, wire.body), wire.receipt, wire.relay)
               settled == s.mode # "strict" \/ Failed(checks) # {}
               e == [action |-> Decide(s.mode, checks, NULL, FALSE), status |-> NULL,
                     wait |-> IF s.mode = "observe" THEN 0 ELSE SignMs]
    <2>1. pc = "received" /\ wire.body # NULL /\ UNCHANGED <<s, i, cache, truths>>
      BY DEF Receive
    <2>2. Clear(checks) => Harmless(i)
      BY <2>1, ReceivedHarmless
    <2>3. /\ pc' = IF settled THEN "next" ELSE "poll"
          /\ wire' = [got |-> now, checks |-> checks]
          /\ gates' = IF settled THEN Append(gates, e) ELSE gates
      BY DEF Receive
    <2>4. e.action = Decide(s.mode, checks, NULL, FALSE) /\ wire'.checks = checks
      BY <2>3
    <2> HIDE DEF checks, settled, e
    <2>5. \/ pc' = "next" /\ gates' = Append(gates, e)
          \/ pc' = "poll" /\ gates' = gates
      BY <2>3
    <2> QED BY <2>1, <2>2, <2>4, <2>5
  <1>2. Positions'
    <2>1. gates' = Append(gates, e) => IsSequence(gates') /\ Len(gates') = Len(gates) + 1
      BY GatesGrow DEF Positions
    <2> QED BY <1>1, <2>1 DEF Positions, IsSequence
  <1>3. ContractKept' /\ Forwarded' /\ Answered' /\ Returned' /\ CacheOlder'
    BY <1>1 DEF ContractKept, Forwarded, Answered, Returned, CacheOlder
  <1>4. Harmless(i)' <=> Harmless(i)
    BY <1>1, HarmlessSame
  <1>5. CheckedHarmless'
    <2>1. Harmless(i)' => CheckedHarmless'
      BY DEF CheckedHarmless
    <2>2. Clear(checks) => Harmless(i)'
      BY <1>1, <1>4
    <2> QED BY <1>1, <2>1, <2>2 DEF CheckedHarmless
  <1>6. DecidedHarmless'
    <2>1. CASE pc' = "next" /\ gates' = Append(gates, e)
      <3>1. s.mode # "observe" /\ e.action \in {"accept", "accept_unverified"} => Clear(checks)
        BY <1>1, DecidedOnClear
      <3>2. Len(gates) + 1 = i
        BY <1>1 DEF Positions
      <3>3. s.mode # "observe" /\ e.action \in {"accept", "accept_unverified"} => Harmless(Len(gates) + 1)
        BY <1>1, <3>1, <3>2
      <3> QED BY <1>1, <2>1, <3>3, DecidedOne DEF Positions
    <2>2. CASE pc' = "poll" /\ gates' = gates
      BY <1>1, <2>2, DecidedSame
    <2> QED BY <1>1, <2>1, <2>2
  <1> QED BY <1>2, <1>3, <1>5, <1>6

LEMMA HarmPoll == HarmInv /\ Poll => HarmInv'
  <1> SUFFICES ASSUME HarmInv, Poll PROVE HarmInv'
    OBVIOUS
  <1> USE DEF HarmInv
  <1>1. PICK status, hit, e :
          /\ pc = "poll" /\ UNCHANGED <<s, i, wire, cache, truths>>
          /\ e.action = Decide(s.mode, wire.checks, status, hit)
          /\ \/ pc' = "next" /\ gates' = Append(gates, e)
             \/ pc' = "poll" /\ gates' = gates
    <2> DEFINE reply == RequestVerdict(i, now)
               settled == reply # NULL /\ reply.signed
               last == now + PollMs > wire.got + DeadlineMs
               status == IF reply = NULL THEN NULL ELSE reply.verdict.status
               e == [action |-> Decide(s.mode, wire.checks, status, ~ settled), status |-> status, wait |-> now' - wire.got]
    <2>1. /\ pc = "poll" /\ UNCHANGED <<s, i, wire, cache, truths>>
          /\ pc' = IF settled \/ last THEN "next" ELSE "poll"
          /\ gates' = IF settled \/ last THEN Append(gates, e) ELSE gates
      BY DEF Poll, Decided
    <2>2. PICK hit : hit = ~ settled
      OBVIOUS
    <2>3. e.action = Decide(s.mode, wire.checks, status, hit)
      BY <2>2
    <2> HIDE DEF settled, last, status, e
    <2>4. \/ pc' = "next" /\ gates' = Append(gates, e)
          \/ pc' = "poll" /\ gates' = gates
      BY <2>1
    <2> QED BY <2>1, <2>3, <2>4
  <1>2. Positions'
    <2>1. gates' = Append(gates, e) => IsSequence(gates') /\ Len(gates') = Len(gates) + 1
      BY GatesGrow DEF Positions
    <2> QED BY <1>1, <2>1 DEF Positions, IsSequence
  <1>3. ContractKept' /\ Forwarded' /\ Answered' /\ Returned' /\ CacheOlder'
    BY <1>1 DEF ContractKept, Forwarded, Answered, Returned, CacheOlder
  <1>4. Harmless(i)' <=> Harmless(i)
    BY <1>1, HarmlessSame
  <1>5. CheckedHarmless'
    BY <1>1, <1>4 DEF CheckedHarmless, Clear, Failed, Unknown
  <1>6. DecidedHarmless'
    <2>1. CASE pc' = "next" /\ gates' = Append(gates, e)
      <3>1. s.mode # "observe" /\ e.action \in {"accept", "accept_unverified"} => Clear(wire.checks)
        BY <1>1, DecidedOnClear
      <3>2. Len(gates) + 1 = i
        BY <1>1 DEF Positions
      <3>3. s.mode # "observe" /\ e.action \in {"accept", "accept_unverified"} => Harmless(Len(gates) + 1)
        BY <1>1, <3>1, <3>2 DEF CheckedHarmless
      <3> QED BY <1>1, <2>1, <3>3, DecidedOne DEF Positions
    <2>2. CASE pc' = "poll" /\ gates' = gates
      BY <1>1, <2>2, DecidedSame
    <2> QED BY <1>1, <2>1, <2>2
  <1> QED BY <1>2, <1>3, <1>5, <1>6

LEMMA HarmNextAttempt == HarmInv /\ NextAttempt => HarmInv'
  <1> SUFFICES ASSUME HarmInv, NextAttempt PROVE HarmInv'
    OBVIOUS
  <1> USE DEF HarmInv
  <1>1. Positions'
    BY SimulationAssumption DEF NextAttempt, Positions, IsSequence
  <1>2. ContractKept' /\ Forwarded' /\ Answered' /\ Returned' /\ CheckedHarmless'
    BY DEF NextAttempt, ContractKept, Forwarded, Answered, Returned, CheckedHarmless
  <1>3. CacheOlder'
    BY DEF NextAttempt, CacheOlder, Positions
  <1>4. DecidedHarmless'
    BY DecidedSame DEF NextAttempt
  <1> QED BY <1>1, <1>2, <1>3, <1>4

(* What happens after the last attempt changes none of this. *)
LEMMA HarmAfter ==
  ASSUME HarmInv, UNCHANGED <<s, i, wire, cache, gates, truths>>,
         \/ pc' = pc
         \/ pc \in {"close", "final", "checkpoint", "audit"} /\ pc' \in {"close", "final", "checkpoint", "audit", "done"}
  PROVE  HarmInv'
  <1> USE DEF HarmInv
  <1>1. Positions'
    BY DEF Positions, IsSequence
  <1>2. ContractKept' /\ CacheOlder'
    BY DEF ContractKept, CacheOlder, Commit
  <1>3. Forwarded'
    BY DEF Forwarded, Upstream, Behavior
  <1>4. Answered'
    BY DEF Answered, Attests, Colluded, BehaviorOf, Commit
  <1>5. Returned'
    BY DEF Returned, Attests, Colluded, BehaviorOf, Commit, Upstream, Behavior
  <1>6. CheckedHarmless'
    <2>1. Harmless(i)' <=> Harmless(i)
      BY HarmlessSame
    <2> QED BY <2>1 DEF CheckedHarmless, Clear, Failed, Unknown
  <1>7. DecidedHarmless'
    BY DecidedSame
  <1> QED BY <1>1, <1>2, <1>3, <1>4, <1>5, <1>6, <1>7

(* The invariant holds in every run, from any scenario (user.py, relay.py, *)
(* model.py, runner.py).                                                   *)
THEOREM HarmInvariant == Spec => []HarmInv
  <1>1. HarmInv /\ [Next]_vars => HarmInv'
    <2> SUFFICES ASSUME HarmInv, [Next]_vars PROVE HarmInv'
      OBVIOUS
    <2>1. CASE Recover
      BY <2>1, HarmAfter DEF Recover
    <2>2. CASE Close
      BY <2>2, HarmAfter DEF Close
    <2>3. CASE Finalize
      BY <2>3, HarmAfter DEF Finalize
    <2>4. CASE Checkpoint
      BY <2>4, HarmAfter DEF Checkpoint
    <2>5. CASE Audit
      BY <2>5, HarmAfter DEF Audit
    <2>6. CASE UNCHANGED vars
      BY <2>6, HarmAfter DEF vars
    <2> QED
      BY <2>1, <2>2, <2>3, <2>4, <2>5, <2>6, HarmRequest, HarmDrops, HarmReplays, HarmForwards, HarmServe, HarmForge,
         HarmAnswers, HarmNoAnswer, HarmReceive, HarmPoll, HarmNextAttempt DEF Next
  <1> QED BY HarmInit, <1>1, PTL DEF Spec

(* U's own checks keep a falsified answer, and one that orders a tool to   *)
(* be run, from being used, in every scenario with any combination of      *)
(* switches, whether T is there, is slow, or lies: only M's help defeats   *)
(* them (runner.py:227-229, user_gate.py:91-228).                          *)
THEOREM HarmIsNeverUsed == Spec => []HarmNeverUsed
  <1>1. HarmInv => HarmNeverUsed
    <2> SUFFICES ASSUME HarmInv, Done, s.mode # "observe", NEW a \in Attempts, Consumed(a), ~ Colluded(a)
                 PROVE  ~ Falsified(a) /\ ~ s.injected
      BY DEF HarmNeverUsed
    <2>1. a \in 1 .. Len(gates)
      BY SimulationAssumption DEF HarmInv, Positions, Done, Attempts
    <2> QED BY <2>1 DEF HarmInv, DecidedHarmless, Harmless
  <1> QED BY HarmInvariant, <1>1, PTL

-----------------------------------------------------------------------------
(* What a statement of M says of its attempt. *)
Told(m) ==
  Colluded(m.attempt) \/ m.resp = NULL \/
    /\ m.model = truths[m.attempt].model
    /\ m.req = Commit(m.attempt, truths[m.attempt].atModel) /\ m.req # NULL
    /\ m.resp = Commit(m.attempt, truths[m.attempt].answer)

(* What M signs is about what it was given, where R has not spoilt that. *)
Issued(m) ==
  LET t == truths[m.attempt]
      b == BehaviorOf(m.attempt)
  IN /\ t.atModel # NULL /\ m.model = t.model
     /\ b.dropNonce \/ m.nonce = m.attempt
     /\ b.dropSalt \/ m.req = Commit(m.attempt, t.atModel)
     /\ b.dropSalt \/ m.resp \in {NULL, Commit(m.attempt, t.answer)} \/ (b.tamper /\ t.answer # NULL)

(* Before M has answered, before R has passed that on, and before U has    *)
(* vouched for what it received.                                           *)
Unanswered == {"user", "relay", "model"}
Unpassed == Unanswered \cup {"forge", "answer"}
Unseen == Unpassed \cup {"received"}

(* What is true of each statement, from when it was made. *)
SoundContract(x) ==
  /\ x.req = Commit(x.attempt, "asked") /\ x.transforms = s.transforms /\ x.respTransforms = {"identity"}
  /\ x.requested = "model-A" /\ x.allowed = s.allowed /\ x.fallback = s.fallback /\ x.nonce = x.attempt

SoundRelay(x) ==
  LET t == truths[x.attempt]
      b == BehaviorOf(x.attempt)
  IN /\ {"type", "attempt", "out", "transform", "upstream", "decision", "nonce", "respTransform"} \subseteq DOMAIN x
     /\ x.attempt \in 1 .. i /\ (x.attempt = i => pc \notin Unanswered)
     /\ x.decision = "fallback" => b.declareFallback
     /\ x.respTransform = "identity" /\ x.out = Commit(x.attempt, Stated(x.attempt))
     /\ b.dropNonce \/ x.nonce = x.attempt
     /\ IF t.atModel = NULL THEN x.transform = "identity" /\ x.upstream = "model-A"
        ELSE /\ x.transform = b.declared /\ x.upstream = t.model
             /\ t.answer # NULL /\ b.declareFallback => x.decision = "fallback"

SoundReceipt(x) ==
  /\ x.attempt \in 1 .. i /\ (x.attempt = i => pc \notin Unanswered)
  /\ Told(x) /\ Issued(x)

SoundObservation(x) ==
  /\ x.attempt \in 1 .. i /\ (x.attempt = i => pc \notin Unseen)
  /\ truths[x.attempt].atUser # NULL /\ x.resp = Commit(x.attempt, truths[x.attempt].atUser)
  /\ x.presented # NULL =>
       /\ x.presented.attempt = x.attempt => Told(x.presented)
       /\ truths[x.attempt].answer # NULL => x.presented.attempt = x.attempt /\ Issued(x.presented)

SoundPrivate(x) == x.expected = [t \in {Formatter} \cap s.transforms |-> Commit(x.attempt, t)]

Sound(x) ==
  /\ x.type = "contract" => SoundContract(x)
  /\ x.type = "relay" => SoundRelay(x)
  /\ x.type = "receipt" => SoundReceipt(x)
  /\ x.type = "observation" => SoundObservation(x)
  /\ x.type = "private" => SoundPrivate(x)

(* All that the parties have signed or handed over so far. *)
Registered == {log[n].stmt : n \in DOMAIN log}
Evidence == Registered \cup UNION {Range(queue[p]) : p \in {"U", "R", "M"}}

Sequences ==
  IsSequence(log) /\ DOMAIN queue = {"U", "R", "M"} /\ \A p \in {"U", "R", "M"} : IsSequence(queue[p])

PrivateKept ==
  /\ DOMAIN private = 1 .. s.attempts
  /\ \A a \in DOMAIN private : private[a] # NULL => private[a].attempt = a /\ SoundPrivate(private[a])

(* Until the verdicts, what the parties have said is sound; from then on   *)
(* the verdicts are.                                                       *)
Running == pc \notin {"checkpoint", "audit", "done"}

JudgedGenuine ==
  ~ Running /\ ~ s.misjudge =>
    \A a \in Attempts : finals[a].status = "passed" /\ ~ Colluded(a) => truths[a].atUser # NULL /\ ~ Falsified(a)

(* What is on its way is about this attempt, or what R has kept from an    *)
(* earlier one, and then M has not answered this one.                      *)
OnWire ==
  /\ pc = "relay" => truths[i] = Truth(NULL, NULL, NULL, NULL)
  /\ pc \in {"model", "forge", "answer"} =>
       /\ Behavior.dropNonce \/ wire.nonce = i
       /\ Behavior.dropSalt \/ wire.salt = i
       /\ truths[i].atModel # NULL
  /\ pc \in {"forge", "answer"} =>
       /\ wire.receipt # NULL => wire.receipt.attempt = i /\ Issued(wire.receipt)
       /\ wire.answer # NULL => [wire.answer EXCEPT !.changed = TRUE] # wire.answer
  /\ pc = "forge" => Behavior.tamper /\ wire.answer # NULL
  /\ pc = "received" /\ wire.body # NULL /\ wire.receipt # NULL /\ truths[i].answer # NULL =>
       wire.receipt.attempt = i /\ Issued(wire.receipt)

(* M refuses only what R has spoilt, and U gets what R makes of an answer. *)
Explained(a) ==
  LET t == truths[a]
      b == BehaviorOf(a)
  IN /\ t.atModel \in Bodies
     /\ (a < i \/ pc \notin Unanswered) /\ t.atModel # NULL /\ t.answer = NULL =>
          b.dropNonce \/ b.dropSalt \/ t.atModel \notin Allowed
     /\ (a < i \/ pc \notin Unpassed) /\ t.answer # NULL /\ b.tamper => t.atUser # t.answer

EvidenceInv ==
  /\ HarmInv /\ OnWire
  /\ \A a \in 1 .. Len(truths) : Explained(a)
  /\ Running => Sequences /\ PrivateKept /\ \A x \in Evidence : Sound(x)
  /\ JudgedGenuine

-----------------------------------------------------------------------------
LEMMA PassIfs == ASSUME NEW b, PassIf(b) = "pass" PROVE b
  BY DEF PassIf

(* What a verdict that passes says of the evidence. *)
LEMMA PassedEvidence ==
  ASSUME NEW ev, NEW parties, Verdict(ev, parties).status = "passed"
  PROVE  /\ RequestTransform(ev.contract, ev.relay, ev.receipt, ev.private) = "pass"
         /\ Route(ev.contract, ev.relay, ev.receipt) = "pass"
         /\ EndToEnd(ev.contract, ev.relay, ev.receipt, ev.observation) = "pass"
         /\ Equations(ev).E11 = "pass"
  <1> DEFINE eqs == Equations(ev)
             found == Discrepancies(ev, eqs, Completeness(ev, parties))
  <1>1. Status(eqs, found) = "passed"
    BY DEF Verdict
  <1>2. \A e \in RequiredForPass : eqs[e] = "pass"
    <2> HIDE DEF eqs, found
    <2> QED BY <1>1 DEF Status
  <1>3. eqs.E4 = "pass" /\ eqs.E8 = "pass" /\ eqs.E10 = "pass" /\ eqs.E11 = "pass"
    <2> HIDE DEF eqs
    <2> QED BY <1>2 DEF RequiredForPass
  <1> QED BY <1>3 DEF Equations

LEMMA PassedE10 ==
  ASSUME NEW c, NEW r, NEW m, NEW o, EndToEnd(c, r, m, o) = "pass"
  PROVE  m # NULL /\ o # NULL /\ m.resp # NULL /\ m.resp = o.resp
  BY DEF EndToEnd, PassIf

LEMMA PassedE4 ==
  ASSUME NEW c, NEW r, NEW m, NEW p, RequestTransform(c, r, m, p) = "pass", m # NULL, m.req # NULL
  PROVE  /\ c # NULL
         /\ \/ "identity" \in c.transforms /\ m.req = c.req
            \/ p # NULL /\ \E t \in DOMAIN p.expected \cap c.transforms : m.req = p.expected[t]
  BY DEF RequestTransform

LEMMA PassedE8 ==
  ASSUME NEW c, NEW r, NEW m, Route(c, r, m) = "pass", m # NULL
  PROVE  /\ c # NULL
         /\ \/ m.model = c.requested
            \/ m.model \in c.allowed /\ c.fallback # "none" /\ r # NULL /\ r.decision = "fallback"
  BY DEF Route, Actual, PassIf

LEMMA PassedE11 ==
  ASSUME NEW ev, Equations(ev).E11 = "pass", NEW x \in {ev.contract, ev.relay, ev.receipt, ev.observation},
         NEW y \in {ev.contract, ev.relay, ev.receipt, ev.observation}, x # NULL, y # NULL
  PROVE  x.attempt = y.attempt
  BY DEF Equations, PassIf

LEMMA Greatest ==
  ASSUME NEW N \in Nat, NEW T \in SUBSET (1 .. N), T # {}
  PROVE  \E n \in T : \A k \in T : k <= n
  <1> DEFINE U == {N - n : n \in T}
  <1>1. U \in SUBSET Nat /\ U # {}
    <2>1. \A n \in T : n \in 1 .. N /\ N - n \in Nat
      OBVIOUS
    <2> QED BY <2>1
  <1>2. PICK u \in U : \A v \in U : u <= v
    BY <1>1, Least
  <1> QED BY <1>2

(* What gather finds is what was registered, or shown to U. *)
LEMMA Gathered ==
  ASSUME NEW N \in Nat, NEW entries, DOMAIN entries \subseteq 1 .. N, NEW p
  PROVE  LET ev == Gather(entries, p)
             Of(type) == {x \in {entries[n].stmt : n \in DOMAIN entries} : x.type = type}
         IN /\ ev.contract # NULL => ev.contract \in Of("contract")
            /\ ev.relay # NULL => ev.relay \in Of("relay")
            /\ ev.observation # NULL => ev.observation \in Of("observation")
            /\ ev.receipt # NULL => \/ ev.receipt \in Of("receipt")
                                    \/ ev.observation # NULL /\ ev.receipt = ev.observation.presented
            /\ ev.private = p
  <1>1. ASSUME NEW type, LastOf(entries, type) # NULL
        PROVE  \E n \in DOMAIN entries : LastOf(entries, type) = entries[n].stmt /\ entries[n].stmt.type = type
    <2> DEFINE at == {n \in DOMAIN entries : entries[n].stmt.type = type /\ Usable(entries[n].stmt)}
               last == CHOOSE n \in at : \A k \in at : k <= n
    <2>1. at # {} /\ LastOf(entries, type) = entries[last].stmt
      BY <1>1 DEF LastOf
    <2>2. last \in at
      BY <2>1, Greatest
    <2> QED BY <2>1, <2>2
  <1>2. \A type : LastOf(entries, type) # NULL =>
                    LastOf(entries, type) \in {x \in {entries[n].stmt : n \in DOMAIN entries} : x.type = type}
    BY <1>1
  <1> QED BY <1>2 DEF Gather

(* What is kept of a sequence is a sequence of what was at the places. *)
LEMMA KeptFrom ==
  ASSUME NEW q, IsSequence(q), NEW places
  PROVE  /\ Kept(q, places) \in Seq({q[n] : n \in places \cap 1 .. Len(q)})
         /\ \A n \in places \cap 1 .. Len(q) : q[n] \in Range(Kept(q, places))
  <1> DEFINE V == {q[n] : n \in places \cap 1 .. Len(q)}
             N == Len(q)
             Gives(n, f) == f = [k \in 0 .. n |-> IF k = 0 THEN <<>>
                                 ELSE IF k \in places THEN Append(f[k - 1], q[k]) ELSE f[k - 1]]
             T == {n \in 0 .. N : \E f : Gives(n, f)}
  <1>0. N \in Nat
    BY DEF IsSequence
  <1>1. 0 \in T
    <2>1. PICK f : f = [k \in 0 .. 0 |-> <<>>]
      OBVIOUS
    <2>2. Gives(0, f)
      BY <2>1
    <2> QED BY <1>0, <2>2
  <1>2. ASSUME NEW n \in T, n < N PROVE n + 1 \in T
    <2>1. PICK f : Gives(n, f)
      BY <1>2
    <2> DEFINE h == [k \in 0 .. n + 1 |-> IF k <= n THEN f[k]
                                          ELSE IF k \in places THEN Append(f[n], q[k]) ELSE f[n]]
    <2>2. \A k \in 0 .. n :
            f[k] = IF k = 0 THEN <<>> ELSE IF k \in places THEN Append(f[k - 1], q[k]) ELSE f[k - 1]
      BY <2>1
    <2>5. (\A k \in 0 .. n : h[k] = f[k]) /\ (\A k \in 1 .. n + 1 : h[k - 1] = f[k - 1])
      BY <1>0
    <2>6. h[n + 1] = IF n + 1 \in places THEN Append(h[n], q[n + 1]) ELSE h[n]
      BY <1>0, <2>5
    <2>7. \A k \in 0 .. n + 1 :
            h[k] = IF k = 0 THEN <<>> ELSE IF k \in places THEN Append(h[k - 1], q[k]) ELSE h[k - 1]
      <3>1. SUFFICES ASSUME NEW k \in 0 .. n + 1
                     PROVE  h[k] = IF k = 0 THEN <<>>
                                   ELSE IF k \in places THEN Append(h[k - 1], q[k]) ELSE h[k - 1]
        OBVIOUS
      <3> HIDE DEF h
      <3>2. CASE k = n + 1
        BY <1>0, <2>6, <3>2
      <3>3. CASE k = 0
        BY <1>0, <2>2, <2>5, <3>3
      <3>4. CASE k \in 1 .. n
        BY <1>0, <2>2, <2>5, <3>4
      <3> QED BY <1>0, <3>2, <3>3, <3>4
    <2>3. Gives(n + 1, h)
      BY <2>7
    <2>4. n + 1 \in 0 .. N
      BY <1>0, <1>2
    <2> QED BY <2>3, <2>4
  <1>3. N \in T
    <2> HIDE DEF Gives
    <2>1. T \in SUBSET (0 .. N)
      OBVIOUS
    <2> HIDE DEF T, N
    <2> QED BY <1>0, <1>1, <1>2, <2>1, UpTo
  <1> DEFINE kept == CHOOSE f : Gives(N, f)
  <1>4. Gives(N, kept) /\ Kept(q, places) = kept[N]
    BY <1>3 DEF Kept
  <1> DEFINE U == {n \in 0 .. N : kept[n] \in Seq(V) /\ \A k \in places \cap 1 .. n : q[k] \in Range(kept[n])}
  <1>5. 0 \in U
    <2>1. PICK r : r = kept
      OBVIOUS
    <2>2. Gives(N, r)
      BY <1>4, <2>1
    <2>3. 0 \in 0 .. N
      BY <1>0
    <2> HIDE DEF kept, N
    <2>4. r[0] = <<>>
      BY <2>2, <2>3
    <2> HIDE DEF V
    <2>5. r[0] \in Seq(V) /\ \A k \in places \cap 1 .. 0 : q[k] \in Range(r[0])
      BY <2>4
    <2> QED BY <2>1, <2>3, <2>5
  <1>6. ASSUME NEW n \in U, n < N PROVE n + 1 \in U
    <2>0. PICK r : r = kept
      OBVIOUS
    <2>1. r[n + 1] = IF n + 1 \in places THEN Append(r[n], q[n + 1]) ELSE r[n]
      <3>1. n + 1 \in 0 .. N /\ n + 1 # 0 /\ (n + 1) - 1 = n
        BY <1>0, <1>6
      <3>2. Gives(N, r)
        BY <1>4, <2>0
      <3> HIDE DEF kept, N
      <3> QED BY <3>1, <3>2
    <2> HIDE DEF kept, V, N
    <2>2. n + 1 \in 0 .. N /\ n \in Nat
      BY <1>0, <1>6
    <2>3. r[n] \in Seq(V) /\ \A k \in places \cap 1 .. n : q[k] \in Range(r[n])
      BY <1>6, <2>0
    <2>4. CASE n + 1 \in places
      <3>1. PICK old, e, new : old = r[n] /\ e = q[n + 1] /\ new = r[n + 1]
        OBVIOUS
      <3>2. e \in V
        BY <1>0, <2>2, <2>4, <3>1 DEF V, N
      <3>3. new = Append(old, e) /\ old \in Seq(V)
        BY <2>1, <2>3, <2>4, <3>1
      <3>4. new \in Seq(V) /\ Len(new) = Len(old) + 1 /\ new[Len(new)] = e /\ \A k \in 1 .. Len(old) : new[k] = old[k]
        BY <3>2, <3>3
      <3>5. Range(old) \subseteq Range(new) /\ e \in Range(new)
        BY <3>3, <3>4 DEF Range
      <3>6. \A k \in places \cap 1 .. n + 1 : q[k] \in Range(new)
        BY <2>2, <2>3, <3>1, <3>5
      <3> QED BY <2>0, <2>2, <3>1, <3>4, <3>6
    <2>5. CASE n + 1 \notin places
      <3>1. r[n + 1] = r[n] /\ \A k \in places \cap 1 .. n + 1 : k \in places \cap 1 .. n
        BY <2>1, <2>2, <2>5
      <3> QED BY <2>0, <2>2, <2>3, <3>1
    <2> QED BY <2>4, <2>5
  <1>7. N \in U
    <2>1. U \in SUBSET (0 .. N)
      OBVIOUS
    <2> HIDE DEF U, N
    <2> QED BY <1>0, <1>5, <1>6, <2>1, UpTo
  <1> QED BY <1>4, <1>7

(* What handing over V does: nothing else becomes known to anybody. *)
Adds(V) ==
  /\ Sequences'
  /\ Evidence' \subseteq Evidence \cup V
  /\ DOMAIN private' = DOMAIN private
  /\ \A a \in DOMAIN private :
       \/ private'[a] = private[a]
       \/ private'[a] \in Evidence \cup V /\ private'[a].type = "private" /\ private'[a].attempt = a

(* The log of T only grows, by V. *)
Grows(V) ==
  /\ IsSequence(log') /\ Len(log') >= Len(log)
  /\ \A n \in 1 .. Len(log) : log'[n] = log[n]
  /\ \A n \in 1 .. Len(log') : n > Len(log) => log'[n].stmt \in V

LEMMA HandGrows ==
  ASSUME IsSequence(log), NEW q, IsSequence(q), NEW t, Hand(q, t)
  PROVE  /\ Grows(Range(q))
         /\ \A n \in 1 .. Len(log') : n > Len(log) => log'[n].stmt.type # "private" /\ log'[n].at = t + DelayMs
         /\ \A x \in Range(q) : x.type # "private" => x \in Registered'
  <1> DEFINE places == {n \in DOMAIN q : q[n].type # "private"}
             V == {q[n] : n \in places \cap 1 .. Len(q)}
  <1>1. PICK stmts : stmts = Statements(q)
    OBVIOUS
  <1>2. stmts \in Seq(V) /\ \A n \in places \cap 1 .. Len(q) : q[n] \in Range(stmts)
    BY <1>1, KeptFrom DEF Statements
  <1> HIDE DEF places
  <1> DEFINE added == [n \in DOMAIN stmts |-> [stmt |-> stmts[n], at |-> t + DelayMs]]
             W == Range(log) \cup {[stmt |-> x, at |-> t + DelayMs] : x \in V}
  <1>3. added \in Seq(W)
    <2>1. Len(stmts) \in Nat /\ DOMAIN stmts = 1 .. Len(stmts) /\ \A n \in 1 .. Len(stmts) : stmts[n] \in V
      BY <1>2
    <2>2. \A n \in DOMAIN stmts : [stmt |-> stmts[n], at |-> t + DelayMs] \in W
      BY <2>1
    <2> HIDE DEF W
    <2>3. added \in [1 .. Len(stmts) -> W]
      BY <2>1, <2>2
    <2> QED BY <2>1, <2>3
  <1>4. PICK d : d = added /\ d \in Seq(W) /\ Len(d) = Len(stmts) 
                  /\ \A n \in 1 .. Len(d) : d[n].stmt = stmts[n] /\ d[n].stmt \in V /\ d[n].at = t + DelayMs
    <2>1. Len(added) = Len(stmts)
      BY <1>2
    <2>2. \A n \in 1 .. Len(stmts) : added[n].stmt = stmts[n] /\ stmts[n] \in V /\ added[n].at = t + DelayMs
      BY <1>2
    <2> QED BY <1>3, <2>1, <2>2
  <1>5. log' = log \o d
    BY <1>1, <1>4 DEF Hand
  <1>6. PICK l : l = log /\ l \in Seq(W) /\ l \in Seq(Range(log))
    BY SeqMonotonic DEF IsSequence
  <1>7. PICK r : r = log'
    OBVIOUS
  <1>8. /\ r \in Seq(W) /\ Len(r) = Len(l) + Len(d)
        /\ \A n \in 1 .. Len(r) : r[n] = IF n <= Len(l) THEN l[n] ELSE d[n - Len(l)]
    BY <1>4, <1>5, <1>6, <1>7, ConcatProperties
  <1>9. IsSequence(log')
    BY <1>7, <1>8, SeqOfRange DEF IsSequence
  <1>10. ASSUME NEW n \in 1 .. Len(r), n > Len(l)
         PROVE  r[n].stmt \in Range(q) /\ r[n].stmt.type # "private" /\ r[n].at = t + DelayMs
    <2>1. d[n - Len(l)].stmt \in V /\ d[n - Len(l)].at = t + DelayMs
      <3>1. Len(l) \in Nat /\ Len(d) \in Nat /\ n \in 1 .. Len(l) + Len(d)
        BY <1>4, <1>6, <1>8
      <3>2. n - Len(l) \in 1 .. Len(d)
        BY <1>10, <3>1
      <3> HIDE DEF V
      <3> QED BY <1>4, <3>2
    <2>2. V \subseteq Range(q) /\ \A x \in V : x.type # "private"
      BY DEF IsSequence, Range, places
    <2>3. r[n] = d[n - Len(l)]
      <3>1. Len(l) \in Nat /\ n \in Int
        BY <1>6, <1>8
      <3>2. ~ (n <= Len(l))
        BY <1>10, <3>1
      <3>3. \A k \in 1 .. Len(r) : r[k] = IF k <= Len(l) THEN l[k] ELSE d[k - Len(l)]
        BY <1>8
      <3> HIDE DEF added
      <3> QED BY <3>2, <3>3
    <2> QED BY <2>1, <2>2, <2>3
  <1>11. Len(r) >= Len(l) /\ \A n \in 1 .. Len(l) : r[n] = l[n]
    <2>1. Len(l) \in Nat /\ Len(d) \in Nat
      BY <1>4, <1>6
    <2> HIDE DEF added
    <2> QED BY <1>8, <2>1
  <1>12. ASSUME NEW x \in Range(q), x.type # "private" PROVE x \in Registered'
    <2>1. PICK n \in 1 .. Len(q) : q[n] = x
      BY DEF IsSequence, Range
    <2>2. n \in places \cap 1 .. Len(q)
      BY <1>12, <2>1 DEF IsSequence, places
    <2>3. PICK k \in 1 .. Len(stmts) : stmts[k] = x
      BY <1>2, <2>1, <2>2 DEF Range
    <2>4. k \in 1 .. Len(d) /\ d[k].stmt = x
      BY <1>4, <2>3
    <2>5. Len(l) \in Nat /\ Len(d) \in Nat
      BY <1>4, <1>6
    <2>6. Len(l) + k \in 1 .. Len(r) /\ ~ (Len(l) + k <= Len(l)) /\ (Len(l) + k) - Len(l) = k
      <3> HIDE DEF added, V, W
      <3> QED BY <1>8, <2>4, <2>5
    <2>7. r[Len(l) + k] = d[k]
      <3> HIDE DEF added, V, W
      <3> QED BY <1>8, <2>6
    <2> QED BY SMTT(30), <1>7, <1>8, <2>4, <2>6, <2>7 DEF Registered
  <1> QED BY <1>6, <1>7, <1>9, <1>10, <1>11, <1>12 DEF Grows

LEMMA HandAdds ==
  ASSUME IsSequence(log), NEW q, IsSequence(q), NEW t, Hand(q, t)
  PROVE  /\ IsSequence(log') /\ Registered' \subseteq Registered \cup Range(q)
         /\ DOMAIN private' = DOMAIN private
         /\ \A a \in DOMAIN private :
              \/ private'[a] = private[a]
              \/ private'[a] \in Range(q) /\ private'[a].type = "private" /\ private'[a].attempt = a
  <1>9. Grows(Range(q))
    BY HandGrows
  <1>10. Registered' \subseteq Registered \cup Range(q)
    <2>0. DOMAIN log' = 1 .. Len(log')
      <3>1. PICK r : r = log'
        OBVIOUS
      <3>2. r \in Seq(Range(r))
        BY <1>9, <3>1 DEF Grows, IsSequence, Range
      <3> QED BY <3>1, <3>2
    <2>1. SUFFICES ASSUME NEW n \in 1 .. Len(log') PROVE log'[n].stmt \in Registered \cup Range(q)
      BY <2>0 DEF Registered
    <2>2. CASE n <= Len(log)
      <3>1. n \in 1 .. Len(log) /\ DOMAIN log = 1 .. Len(log)
        BY <2>2 DEF IsSequence
      <3> QED BY <1>9, <3>1 DEF Grows, Registered
    <2>3. CASE n > Len(log)
      BY <1>9, <2>3 DEF Grows
    <2> QED BY <2>2, <2>3 DEF IsSequence
  <1>11. /\ DOMAIN private' = DOMAIN private
         /\ \A a \in DOMAIN private :
              \/ private'[a] = private[a]
              \/ private'[a] \in Range(q) /\ private'[a].type = "private" /\ private'[a].attempt = a
    <2>1. private' = ReceivePrivate(q)
      BY DEF Hand
    <2>2. ASSUME NEW a \in DOMAIN private, private'[a] # private[a]
          PROVE  private'[a] \in Range(q) /\ private'[a].type = "private" /\ private'[a].attempt = a
      <3> DEFINE given == {n \in DOMAIN q : q[n].type = "private" /\ q[n].attempt = a}
                 last == CHOOSE n \in given : \A k \in given : k <= n
      <3>1. given # {} /\ private'[a] = q[last]
        BY <2>1, <2>2 DEF ReceivePrivate
      <3>2. given \in SUBSET (1 .. Len(q)) /\ Len(q) \in Nat
        BY DEF IsSequence
      <3>3. last \in given
        BY <3>1, <3>2, Greatest
      <3> QED BY <3>1, <3>3 DEF Range
    <2>3. DOMAIN private' = DOMAIN private
      BY <2>1 DEF ReceivePrivate
    <2> QED BY <2>2, <2>3
  <1> QED BY <1>9, <1>10, <1>11 DEF Grows

LEMMA EnqueueKeeps ==
  ASSUME s \in Scenarios, NEW q, IsSequence(q), NEW items, IsSequence(items)
  PROVE  IsSequence(Enqueue(q, items)) /\ Range(Enqueue(q, items)) \subseteq Range(q) \cup Range(items)
  <1> DEFINE W == Range(q) \cup Range(items)
  <1>1. PICK a, b, all : a = q /\ b = items /\ all = a \o b
    OBVIOUS
  <1>2. a \in Seq(W) /\ b \in Seq(W)
    BY <1>1, SeqMonotonic DEF IsSequence
  <1>3. all \in Seq(W)
    BY <1>1, <1>2, ConcatProperties
  <1>4. s.capacity \in Nat
    BY SimulationAssumption
  <1>5. PICK r : r = Enqueue(q, items)
    OBVIOUS
  <1>6. r = IF Len(all) <= s.capacity THEN all ELSE SubSeq(all, Len(all) - s.capacity + 1, Len(all))
    BY <1>1, <1>5 DEF Enqueue
  <1>7. r \in Seq(W)
    <2>1. CASE Len(all) <= s.capacity
      BY <1>3, <1>6, <2>1
    <2>2. CASE Len(all) > s.capacity
      <3>1. Len(all) - s.capacity + 1 \in 1 .. Len(all) + 1 /\ Len(all) \in Nat
        BY <1>3, <1>4, <2>2
      <3> QED BY <1>3, <1>4, <1>6, <2>2, <3>1, SubSeqProperties
    <2> QED BY <1>3, <1>4, <2>1, <2>2
  <1>8. r \in Seq(Range(r)) /\ Range(r) \subseteq W
    BY <1>7, SeqOfRange DEF Range
  <1> QED BY <1>5, <1>8 DEF IsSequence

LEMMA One ==
  ASSUME NEW a, NEW b
  PROVE  IsSequence(<<a>>) /\ Range(<<a>>) = {a} /\ IsSequence(<<a, b>>) /\ Range(<<a, b>>) = {a, b}
  <1>1. PICK q : q = <<a>>
    OBVIOUS
  <1>2. PICK r : r = <<a, b>>
    OBVIOUS
  <1>3. DOMAIN q = {1} /\ q[1] = a /\ q \in Seq({a})
    BY <1>1
  <1>4. DOMAIN r = {1, 2} /\ r[1] = a /\ r[2] = b /\ r \in Seq({a, b})
    BY <1>2
  <1>5. Range(q) = {a} /\ Range(r) = {a, b}
    BY <1>3, <1>4 DEF Range
  <1> QED BY <1>1, <1>2, <1>3, <1>4, <1>5 DEF IsSequence

LEMMA RangeOf ==
  ASSUME NEW W, NEW r, r \in Seq(W)
  PROVE  IsSequence(r) /\ Range(r) \subseteq W
  BY SeqOfRange DEF Range, IsSequence

LEMMA Joined ==
  ASSUME NEW p, IsSequence(p), NEW q, IsSequence(q), NEW r, r = p \o q
  PROVE  IsSequence(r) /\ Range(r) = Range(p) \cup Range(q)
  <1> DEFINE W == Range(p) \cup Range(q)
  <1>1. p \in Seq(W) /\ q \in Seq(W)
    BY SeqMonotonic DEF IsSequence
  <1>2. /\ r \in Seq(W) /\ Len(r) = Len(p) + Len(q)
        /\ \A n \in 1 .. Len(r) : r[n] = IF n <= Len(p) THEN p[n] ELSE q[n - Len(p)]
    BY <1>1, ConcatProperties
  <1> HIDE DEF W
  <1>3. /\ Len(p) \in Nat /\ Len(q) \in Nat /\ DOMAIN p = 1 .. Len(p) /\ DOMAIN q = 1 .. Len(q)
        /\ DOMAIN r = 1 .. Len(r)
    BY <1>1, <1>2
  <1>4. ASSUME NEW n \in 1 .. Len(p) PROVE p[n] \in Range(r)
    BY <1>2, <1>3 DEF Range
  <1>5. ASSUME NEW n \in 1 .. Len(q) PROVE q[n] \in Range(r)
    <2>1. Len(p) + n \in 1 .. Len(r) /\ ~ (Len(p) + n <= Len(p)) /\ (Len(p) + n) - Len(p) = n
      BY <1>2, <1>3
    <2> QED BY <1>2, <1>3, <2>1 DEF Range
  <1>6. IsSequence(r) /\ Range(r) \subseteq W
    BY <1>2, RangeOf
  <1>7. Range(p) \subseteq Range(r) /\ Range(q) \subseteq Range(r)
    BY <1>3, <1>4, <1>5 DEF Range
  <1> QED BY <1>6, <1>7 DEF W

LEMMA DeliverAdds ==
  ASSUME s \in Scenarios, Sequences, NEW party \in {"U", "R", "M"}, NEW items, IsSequence(items), NEW t,
         Deliver(party, items, t)
  PROVE  Adds(Range(items))
  <1>1. PICK q : q = Enqueue(queue[party], items)
    OBVIOUS
  <1>2. IsSequence(q) /\ Range(q) \subseteq Range(queue[party]) \cup Range(items)
    BY <1>1, EnqueueKeeps DEF Sequences
  <1>3. Range(queue[party]) \subseteq Evidence
    BY DEF Evidence
  <1>4. /\ queue' = [queue EXCEPT ![party] = IF down THEN q ELSE <<>>]
        /\ IF down THEN UNCHANGED <<log, held, private>> ELSE Hand(q, t)
    BY <1>1 DEF Deliver
  <1>5. IsSequence(<<>>) /\ Range(<<>>) = {}
    BY DEF IsSequence, Range
  <1>6. /\ DOMAIN queue' = {"U", "R", "M"}
        /\ queue'[party] = q \/ queue'[party] = <<>>
        /\ \A p \in {"U", "R", "M"} : p # party => queue'[p] = queue[p]
    BY <1>4 DEF Sequences
  <1>7. \A p \in {"U", "R", "M"} : IsSequence(queue'[p]) /\ Range(queue'[p]) \subseteq Evidence \cup Range(items)
    BY <1>2, <1>3, <1>5, <1>6 DEF Sequences, Evidence
  <1>8. /\ IsSequence(log') /\ Registered' \subseteq Evidence \cup Range(items)
        /\ DOMAIN private' = DOMAIN private
        /\ \A a \in DOMAIN private :
             \/ private'[a] = private[a]
             \/ private'[a] \in Evidence \cup Range(items) /\ private'[a].type = "private" /\ private'[a].attempt = a
    <2>1. CASE down
      BY <1>4, <2>1 DEF Sequences, Registered, Evidence, IsSequence, Range
    <2>2. CASE ~ down
      <3>1. Hand(q, t) /\ IsSequence(log)
        BY <1>4, <2>2 DEF Sequences
      <3>2. /\ IsSequence(log') /\ Registered' \subseteq Registered \cup Range(q)
            /\ DOMAIN private' = DOMAIN private
            /\ \A a \in DOMAIN private :
                 \/ private'[a] = private[a]
                 \/ private'[a] \in Range(q) /\ private'[a].type = "private" /\ private'[a].attempt = a
        BY <3>1, <1>2, HandAdds
      <3> QED BY <3>2, <1>2, <1>3 DEF Evidence
    <2> QED BY <2>1, <2>2
  <1>9. Sequences'
    BY <1>6, <1>7, <1>8 DEF Sequences, IsSequence, Range
  <1>10. Evidence' \subseteq Evidence \cup Range(items)
    BY <1>7, <1>8 DEF Evidence, Range
  <1> QED BY <1>8, <1>9, <1>10 DEF Adds

LEMMA NothingAdds ==
  ASSUME Sequences, Nothing
  PROVE  Adds({})
  BY DEF Nothing, Adds, Sequences, Evidence, Registered, IsSequence, Range

(* What is settled about an attempt is not changed any more. *)
Onward ==
  /\ s' = s /\ i \in Nat /\ i' \in Nat /\ i' >= i
  /\ i' = i => (pc \notin Unanswered => pc' \notin Unanswered) /\ (pc \notin Unseen => pc' \notin Unseen)
  /\ \A a \in 1 .. i :
       /\ (a = i => pc \notin Unanswered) =>
            /\ truths'[a].model = truths[a].model /\ truths'[a].atModel = truths[a].atModel
            /\ truths'[a].answer = truths[a].answer
       /\ (a = i => pc \notin Unseen) => truths'[a].atUser = truths[a].atUser

LEMMA SoundStays ==
  ASSUME Onward, NEW x, Sound(x)
  PROVE  Sound(x)'
  <1>1. \A a : Colluded(a)' = Colluded(a) /\ BehaviorOf(a)' = BehaviorOf(a)
    BY DEF Onward, Colluded, BehaviorOf
  <1>2. ASSUME NEW m, m.attempt \in 1 .. i, m.attempt = i => pc \notin Unanswered, Told(m)
        PROVE  Told(m)'
    BY <1>1, <1>2 DEF Told, Onward, Commit
  <1>7. ASSUME NEW m, m.attempt \in 1 .. i, m.attempt = i => pc \notin Unanswered, Issued(m)
        PROVE  Issued(m)'
    BY <1>1, <1>7 DEF Issued, Onward, Commit
  <1>8. ASSUME SoundRelay(x) PROVE SoundRelay(x)'
    <2>1. x.attempt \in 1 .. i' /\ (x.attempt = i' => pc' \notin Unanswered)
      BY <1>8 DEF SoundRelay, Onward
    <2>2. Stated(x.attempt)' = Stated(x.attempt)
      BY <1>1, <1>8 DEF SoundRelay, Onward, Stated
    <2> QED BY <1>1, <1>8, <2>1, <2>2 DEF SoundRelay, Onward, Commit
  <1>3. SoundContract(x) => SoundContract(x)'
    BY DEF SoundContract, Onward, Commit
  <1>4. SoundPrivate(x) => SoundPrivate(x)'
    BY DEF SoundPrivate, Onward, Commit
  <1>5. ASSUME SoundReceipt(x) PROVE SoundReceipt(x)'
    <2>1. x.attempt \in 1 .. i' /\ (x.attempt = i' => pc' \notin Unanswered)
      BY <1>5 DEF SoundReceipt, Onward
    <2> QED BY <1>2, <1>5, <1>7, <2>1 DEF SoundReceipt
  <1>6. ASSUME SoundObservation(x) PROVE SoundObservation(x)'
    <2>1. x.attempt \in 1 .. i' /\ (x.attempt = i' => pc' \notin Unseen)
      BY <1>6 DEF SoundObservation, Onward
    <2>2. truths'[x.attempt].atUser = truths[x.attempt].atUser
      BY <1>6 DEF SoundObservation, Onward
    <2>3. x.presented # NULL /\ x.presented.attempt = x.attempt => Told(x.presented)'
      BY <1>2, <1>6 DEF SoundObservation, Unseen, Unpassed
    <2>4. x.presented # NULL /\ truths[x.attempt].answer # NULL => x.presented.attempt = x.attempt /\ Issued(x.presented)'
      BY <1>6, <1>7 DEF SoundObservation, Unseen, Unpassed
    <2>5. truths'[x.attempt].answer = truths[x.attempt].answer
      BY <1>6 DEF SoundObservation, Onward, Unseen, Unpassed
    <2> QED BY <1>6, <2>1, <2>2, <2>3, <2>4, <2>5 DEF SoundObservation, Commit
  <1> QED BY <1>3, <1>4, <1>5, <1>6, <1>8 DEF Sound

LEMMA Carried ==
  ASSUME Sequences, PrivateKept, \A x \in Evidence : Sound(x), Onward,
         NEW V, Adds(V), \A x \in V : Sound(x)'
  PROVE  Sequences' /\ PrivateKept' /\ \A x \in Evidence' : Sound(x)'
  <1>1. \A x \in Evidence : Sound(x)'
    BY SoundStays
  <1>2. \A x \in Evidence' : Sound(x)'
    BY <1>1 DEF Adds
  <1>3. PrivateKept'
    <2>1. SUFFICES ASSUME NEW a \in DOMAIN private, private'[a] # NULL
                   PROVE  private'[a].attempt = a /\ SoundPrivate(private'[a])
      <3>1. \A x : SoundPrivate(x)' <=> SoundPrivate(x)
        BY DEF SoundPrivate, Onward, Commit
      <3>2. DOMAIN private' = 1 .. s'.attempts
        BY DEF Adds, PrivateKept, Onward
      <3> QED BY <2>1, <3>1, <3>2 DEF PrivateKept, Adds
    <2>2. CASE private'[a] = private[a]
      BY <2>1, <2>2 DEF PrivateKept
    <2>3. CASE private'[a] # private[a]
      <3>1. private'[a] \in Evidence \cup V /\ private'[a].type = "private" /\ private'[a].attempt = a
        BY <2>3 DEF Adds
      <3>2. PICK x : x = private'[a]
        OBVIOUS
      <3>3. Sound(x)' /\ x.type = "private"
        BY <1>1, <3>1, <3>2
      <3>4. SoundPrivate(x)
        BY <3>3 DEF Sound, SoundPrivate, Onward, Commit
      <3> QED BY <3>1, <3>2, <3>4
    <2> QED BY <2>2, <2>3
  <1> QED BY <1>2, <1>3 DEF Adds

(* A step that adds V, sound, keeps it. *)
LEMMA StepKeeps ==
  ASSUME EvidenceInv, HarmInv', Running, Running', Onward, OnWire',
         \A a \in 1 .. Len(truths)' : Explained(a)',
         NEW V, Adds(V), \A x \in V : Sound(x)'
  PROVE  EvidenceInv'
  <1>1. Sequences /\ PrivateKept /\ \A x \in Evidence : Sound(x)
    BY DEF EvidenceInv
  <1>2. Sequences' /\ PrivateKept' /\ \A x \in Evidence' : Sound(x)'
    BY <1>1, Carried
  <1>3. JudgedGenuine'
    BY DEF JudgedGenuine
  <1> QED BY <1>2, <1>3 DEF EvidenceInv

(* The other attempts are explained as before. *)
LEMMA ExplainedStay ==
  ASSUME EvidenceInv, s' = s, i' = i, i \in Nat, Len(truths) = i, Len(truths') = i,
         \A n \in 1 .. i : n # i => truths'[n] = truths[n], Explained(i)'
  PROVE  \A a \in 1 .. Len(truths)' : Explained(a)'
  <1>1. ASSUME NEW a \in 1 .. i, a # i PROVE Explained(a)'
    <2>1. a < i /\ truths'[a] = truths[a] /\ Explained(a)
      BY <1>1 DEF EvidenceInv
    <2>2. BehaviorOf(a)' = BehaviorOf(a) /\ Allowed' = Allowed
      BY DEF BehaviorOf, Allowed
    <2> QED BY <2>1, <2>2 DEF Explained
  <1> QED BY <1>1

(* So are all of them, once U has its answer. *)
LEMMA AllExplained ==
  ASSUME EvidenceInv, UNCHANGED <<s, truths>>, i' >= i, i \in Nat, i' \in Nat, Len(truths) <= i,
         pc \notin Unpassed
  PROVE  \A a \in 1 .. Len(truths)' : Explained(a)'
  <1>1. ASSUME NEW a \in 1 .. Len(truths) PROVE Explained(a)'
    <2>1. Explained(a)
      BY DEF EvidenceInv
    <2>2. BehaviorOf(a)' = BehaviorOf(a) /\ Allowed' = Allowed
      BY DEF BehaviorOf, Allowed
    <2> QED BY <2>1, <2>2 DEF Explained, Unpassed
  <1> QED BY <1>1

LEMMA EvidenceRequest == EvidenceInv /\ Request => EvidenceInv'
  <1> SUFFICES ASSUME EvidenceInv, Request PROVE EvidenceInv'
    OBVIOUS
  <1>0. HarmInv /\ HarmInv' /\ Running /\ Running' /\ s' = s /\ i' = i /\ pc = "user" /\ pc' = "relay"
    BY HarmRequest DEF EvidenceInv, Request, Running
  <1>1. Positions
    BY <1>0 DEF HarmInv
  <1>2. PICK c, p : c = Contract /\ p = Private
    OBVIOUS
  <1>3. Adds({c, p})
    <2>1. PICK t : Deliver("U", <<c, p>>, t)
      BY <1>2 DEF Request
    <2>2. IsSequence(<<c, p>>) /\ Range(<<c, p>>) = {c, p}
      BY One
    <2>3. PICK q : q = <<c, p>>
      OBVIOUS
    <2>4. Adds(Range(q))
      BY <1>0, <1>1, <2>1, <2>2, <2>3, DeliverAdds DEF EvidenceInv, Positions
    <2> QED BY <2>2, <2>3, <2>4
  <1>4. /\ IsSequence(truths') /\ Len(truths') = Len(truths) + 1
        /\ truths'[Len(truths')] = Truth(NULL, NULL, NULL, NULL)
        /\ \A n \in 1 .. Len(truths) : truths'[n] = truths[n]
    <2>1. PICK e : e = Truth(NULL, NULL, NULL, NULL)
      OBVIOUS
    <2>2. IsSequence(truths) /\ truths' = Append(truths, e)
      BY <1>1, <2>1 DEF Request, Positions
    <2> QED BY <2>1, <2>2, AppendKeeps, SMTT(30) DEF IsSequence, Range, Truth
  <1>9. Len(truths) = i - 1 /\ i \in Nat \ {0} /\ truths'[i] = Truth(NULL, NULL, NULL, NULL) /\ Len(truths') = i
    BY <1>0, <1>1, <1>4 DEF Positions
  <1>5. \A a \in 1 .. Len(truths)' : Explained(a)'
    <2>1. Explained(i)'
      BY <1>0, <1>9 DEF Explained, Truth, Bodies, Unanswered, Unpassed
    <2>2. ASSUME NEW a \in 1 .. i - 1 PROVE Explained(a)'
      <3>1. a < i /\ truths'[a] = truths[a] /\ Explained(a)
        BY <1>4, <1>9, <2>2 DEF EvidenceInv
      <3> QED BY <1>0, <3>1 DEF Explained, BehaviorOf, Allowed
    <2> QED BY <1>0, <1>9, <2>1, <2>2
  <1>10. OnWire'
    BY <1>0, <1>9 DEF OnWire, Truth
  <1>6. Onward
    BY <1>0, <1>1, <1>4 DEF Onward, Positions, Unanswered, Unpassed, Unseen, Unpassed
  <1>7. Sound(c)'
    <2>1. c.type = "contract" /\ SoundContract(c)
      BY <1>2 DEF Contract, SoundContract
    <2>2. SoundContract(c)'
      BY <2>1, <1>0 DEF SoundContract, Commit
    <2> QED BY <2>1, <2>2 DEF Sound
  <1>8. Sound(p)'
    <2>1. p.type = "private" /\ SoundPrivate(p)
      BY <1>2 DEF Private, SoundPrivate, ExpectedCommits
    <2>2. SoundPrivate(p)'
      BY <2>1, <1>0 DEF SoundPrivate, Commit
    <2> QED BY <2>1, <2>2 DEF Sound
  <1> QED BY <1>0, <1>3, <1>5, <1>6, <1>7, <1>8, <1>10, StepKeeps

(* A statement of R, if there is one. *)
LEMMA RelayAdds ==
  ASSUME s \in Scenarios, Sequences, s' = s, NEW statement, statement.type = "relay",
         SoundRelay(statement)',
         NEW t, Nothing \/ Deliver("R", <<statement>>, t)
  PROVE  \E V : Adds(V) /\ \A x \in V : Sound(x)'
  <1>1. Sound(statement)'
    BY DEF Sound
  <1>2. CASE Nothing
    BY <1>2, NothingAdds
  <1>3. CASE Deliver("R", <<statement>>, t)
    <2>1. PICK q : q = <<statement>>
      OBVIOUS
    <2>2. IsSequence(q) /\ Range(q) = {statement}
      BY <2>1, One
    <2>3. Adds(Range(q))
      BY <1>3, <2>1, <2>2, DeliverAdds
    <2> QED BY <1>1, <2>2, <2>3
  <1> QED BY <1>2, <1>3

(* What R says of a request that it does not pass on. *)
LEMMA UnsentSound ==
  ASSUME s' = s, i' = i, i \in Nat \ {0}, pc' = "received", truths'[i].atModel = NULL,
         NEW in, NEW out, NEW decision, decision # "fallback", NEW statement,
         statement = RelayStatement(Commit(i, "asked"), "identity", "model-A", in, out, decision, i)
  PROVE  statement.type = "relay" /\ SoundRelay(statement)'
  <1>2. /\ statement.type = "relay" /\ statement.attempt = i /\ statement.out = Commit(i, "asked")
        /\ statement.transform = "identity" /\ statement.upstream = "model-A" /\ statement.decision = decision
        /\ statement.respTransform = "identity" /\ statement.nonce = i
        /\ {"type", "attempt", "out", "transform", "upstream", "decision", "nonce", "respTransform"}
             \subseteq DOMAIN statement
    BY DEF RelayStatement
  <1>3. Stated(i)' = "asked"
    BY DEF Stated
  <1>4. SoundRelay(statement)'
    BY <1>2, <1>3 DEF SoundRelay, Unanswered, Commit
  <1> QED BY <1>2, <1>4

LEMMA EvidenceDrops == EvidenceInv /\ RelayDrops => EvidenceInv'
  <1> SUFFICES ASSUME EvidenceInv, RelayDrops PROVE EvidenceInv'
    OBVIOUS
  <1>0. /\ HarmInv /\ HarmInv' /\ Running /\ Running' /\ s' = s /\ i' = i /\ truths' = truths
        /\ pc = "relay" /\ pc' = "received"
    BY HarmDrops DEF EvidenceInv, RelayDrops, Running
  <1>1. Positions
    BY <1>0 DEF HarmInv
  <1>5. truths[i] = Truth(NULL, NULL, NULL, NULL) /\ truths[i].atModel = NULL /\ truths[i].answer = NULL
    BY <1>0 DEF EvidenceInv, OnWire, Truth
  <1>2. PICK V : Adds(V) /\ \A x \in V : Sound(x)'
    <2>0. PICK statement : statement = RelayStatement(Commit(i, "asked"), "identity", "model-A", NULL, NULL, "refused", i)
      OBVIOUS
    <2>1. statement.type = "relay" /\ SoundRelay(statement)'
      BY <1>0, <1>1, <1>5, <2>0, UnsentSound DEF Positions
    <2>2. \E t : Nothing \/ Deliver("R", <<statement>>, t)
      BY <2>0 DEF RelayDrops
    <2> QED BY <1>0, <1>1, <2>1, <2>2, RelayAdds DEF EvidenceInv, Positions
  <1>3. Onward
    BY <1>0, <1>1 DEF Onward, Positions, Unanswered, Unpassed, Unseen
  <1>4. \A a \in 1 .. Len(truths)' : Explained(a)'
    <2>1. Explained(i)'
      BY <1>0, <1>5 DEF Explained, Bodies
    <2> QED BY <1>0, <1>1, <2>1, ExplainedStay DEF Positions
  <1>6. OnWire'
    BY <1>0 DEF OnWire, RelayDrops, Answer
  <1> QED BY <1>0, <1>2, <1>3, <1>4, <1>6, StepKeeps

LEMMA EvidenceReplays == EvidenceInv /\ RelayReplays => EvidenceInv'
  <1> SUFFICES ASSUME EvidenceInv, RelayReplays PROVE EvidenceInv'
    OBVIOUS
  <1>0. /\ HarmInv /\ HarmInv' /\ Running /\ Running' /\ s' = s /\ i' = i
        /\ pc = "relay" /\ pc' = "received"
    BY HarmReplays DEF EvidenceInv, RelayReplays, Running
  <1>1. Positions /\ i \in 1 .. Len(truths)
    BY <1>0 DEF HarmInv, Positions
  <1>3. /\ IsSequence(truths') /\ Len(truths') = Len(truths)
        /\ truths'[i].atModel = NULL /\ truths'[i].answer = NULL /\ truths[i].atModel = NULL
        /\ \A n \in 1 .. Len(truths) : n # i => truths'[n] = truths[n]
    <2>1. truths' = [truths EXCEPT ![i] = Truth(truths[i].atModel, truths[i].model, truths[i].answer, cache.body)]
      BY <1>1 DEF RelayReplays, Positions
    <2>2. truths[i].atModel = NULL /\ truths[i].answer = NULL
      BY <1>0 DEF EvidenceInv, OnWire, Truth
    <2>3. PICK model, body : model = truths[i].model /\ body = cache.body
      OBVIOUS
    <2>4. truths' = [truths EXCEPT ![i] = Truth(NULL, model, NULL, body)]
      BY <2>1, <2>2, <2>3
    <2> QED BY <1>1, <2>2, <2>4, TruthReplaced DEF IsSequence, Range, Positions
  <1>2. PICK V : Adds(V) /\ \A x \in V : Sound(x)'
    <2>3. PICK again : again = Commit(i, cache.body)
      OBVIOUS
    <2>0. PICK statement : statement = RelayStatement(Commit(i, "asked"), "identity", "model-A", again, again, "forwarded", i)
      OBVIOUS
    <2>1. statement.type = "relay" /\ SoundRelay(statement)'
      BY <1>0, <1>1, <1>3, <2>0, UnsentSound DEF Positions
    <2>2. \E t : Nothing \/ Deliver("R", <<statement>>, t)
      BY <2>0, <2>3 DEF RelayReplays
    <2> QED BY <1>0, <1>1, <2>1, <2>2, RelayAdds DEF EvidenceInv, Positions
  <1>4. Onward
    BY <1>0, <1>1, <1>3 DEF Onward, Positions, Unanswered, Unpassed, Unseen
  <1>5. \A a \in 1 .. Len(truths)' : Explained(a)'
    <2>1. Explained(i)'
      BY <1>0, <1>3 DEF Explained, Bodies
    <2> QED BY <1>0, <1>1, <1>3, <2>1, ExplainedStay DEF Positions
  <1>6. OnWire'
    BY <1>0, <1>3 DEF OnWire
  <1> QED BY <1>0, <1>2, <1>4, <1>5, <1>6, StepKeeps

LEMMA EvidenceForwards == EvidenceInv /\ RelayForwards => EvidenceInv'
  <1> SUFFICES ASSUME EvidenceInv, RelayForwards PROVE EvidenceInv'
    OBVIOUS
  <1>0. /\ HarmInv /\ HarmInv' /\ Running /\ Running' /\ s' = s /\ i' = i
        /\ pc = "relay" /\ pc' = "model" /\ Nothing
    BY HarmForwards DEF EvidenceInv, RelayForwards, Running
  <1>1. Positions /\ i \in 1 .. Len(truths)
    BY <1>0 DEF HarmInv, Positions
  <1>2. /\ IsSequence(truths') /\ Len(truths') = Len(truths) /\ truths'[i].atModel = Rewritten(Behavior)
        /\ \A n \in 1 .. Len(truths) : n # i => truths'[n] = truths[n]
    <2>1. PICK body : body = Rewritten(Behavior)
      OBVIOUS
    <2>2. truths' = [truths EXCEPT ![i] = Truth(body, Upstream, truths[i].answer, truths[i].atUser)]
      BY <1>1, <2>1 DEF RelayForwards, Positions
    <2> QED BY <1>1, <2>1, <2>2, TruthReplaced DEF IsSequence, Range, Positions
  <1>3. Onward
    BY <1>0, <1>1, <1>2 DEF Onward, Positions, Unanswered, Unpassed, Unseen
  <1>4. Rewritten(Behavior) \in Bodies
    BY <1>1 DEF Behavior, Bodies, Behaviors, Positions
  <1>7. Rewritten(Behavior) # NULL
    BY SimulationAssumption DEF Rewritten
  <1>5. \A a \in 1 .. Len(truths)' : Explained(a)'
    <2>1. Explained(i)'
      BY <1>0, <1>1, <1>2, <1>4 DEF Explained, Unanswered, Unpassed, Positions
    <2> QED BY <1>0, <1>1, <1>2, <2>1, ExplainedStay DEF Positions
  <1>8. OnWire'
    <2>1. /\ Behavior.dropNonce \/ wire'.nonce = i
          /\ Behavior.dropSalt \/ wire'.salt = i
      BY DEF RelayForwards
    <2>2. Behavior' = Behavior
      BY <1>0 DEF Behavior
    <2> QED BY <1>0, <1>2, <1>7, <2>1, <2>2 DEF OnWire
  <1>6. Adds({})
    BY <1>0, NothingAdds DEF EvidenceInv
  <1> QED BY <1>0, <1>3, <1>5, <1>6, <1>8, StepKeeps

(* A receipt of M, if there is one. *)
LEMMA ReceiptAdds ==
  ASSUME s \in Scenarios, Sequences, NEW receipt, receipt # NULL => receipt.type = "receipt" /\ SoundReceipt(receipt)',
         NEW t, IF receipt = NULL THEN Nothing ELSE Deliver("M", <<receipt>>, t)
  PROVE  \E V : Adds(V) /\ \A x \in V : Sound(x)'
  <1>1. CASE receipt = NULL
    BY <1>1, NothingAdds
  <1>2. CASE receipt # NULL
    <2>1. PICK q : q = <<receipt>>
      OBVIOUS
    <2>2. IsSequence(q) /\ Range(q) = {receipt}
      BY <2>1, One
    <2>3. Adds(Range(q))
      BY <1>2, <2>1, <2>2, DeliverAdds
    <2>4. Sound(receipt)'
      BY <1>2 DEF Sound
    <2> QED BY <2>2, <2>3, <2>4
  <1> QED BY <1>1, <1>2

(* M refuses only a request that R has changed beyond the contract, or     *)
(* without which it cannot be checked.                                     *)
LEMMA Refusal ==
  ASSUME EvidenceInv, pc = "model", PreExec = "failed"
  PROVE  Behavior.dropNonce \/ Behavior.dropSalt \/ truths[i].atModel \notin Allowed
  <1>1. HarmInv /\ OnWire /\ Sequences /\ (\A x \in Registered : Sound(x)) /\ i \in Nat
    BY DEF EvidenceInv, Running, Evidence, HarmInv, Positions
  <1>2. PICK c : c = LookupContract(now)
    OBVIOUS
  <1>3. /\ c # NULL
        /\ wire.nonce # c.nonce \/ wire.salt = NULL \/
             /\ ~ ("identity" \in c.transforms /\ Commit(wire.salt, wire.body) = c.req)
             /\ c.transforms \subseteq {"identity"}
    BY <1>2 DEF PreExec
  <1>4. SoundContract(c) /\ c.attempt = i
    <2> DEFINE seen == {n \in DOMAIN log : log[n].stmt.type = "contract" /\ log[n].stmt.attempt = i /\ log[n].at <= now}
               first == CHOOSE n \in seen : \A k \in seen : n <= k
    <2>1. seen # {} /\ c = log[first].stmt
      BY <1>2, <1>3 DEF LookupContract
    <2>2. seen \in SUBSET Nat
      BY <1>1 DEF Sequences, IsSequence
    <2>3. \E n \in seen : \A k \in seen : n <= k
      <3> HIDE DEF seen
      <3> QED BY <2>1, <2>2, Least
    <2>4. first \in seen
      BY <2>3
    <2> QED BY <1>1, <2>1, <2>4 DEF Registered, Sound
  <1>5. c.nonce = i /\ c.req = Commit(i, "asked") /\ c.transforms = s.transforms
    BY <1>4 DEF SoundContract
  <1>6. SUFFICES ASSUME ~ Behavior.dropNonce, ~ Behavior.dropSalt PROVE wire.body \notin Allowed
    BY <1>1 DEF HarmInv, Forwarded
  <1>7. wire.nonce = i /\ wire.salt = i /\ i # NULL
    BY <1>1, <1>6, SimulationAssumption DEF OnWire
  <1>8. ~ ("identity" \in s.transforms /\ Commit(i, wire.body) = Commit(i, "asked")) /\ s.transforms \subseteq {"identity"}
    BY <1>3, <1>5, <1>7
  <1> QED BY <1>8, SimulationAssumption DEF Allowed

LEMMA EvidenceServe == EvidenceInv /\ Serve => EvidenceInv'
  <1> SUFFICES ASSUME EvidenceInv, Serve PROVE EvidenceInv'
    OBVIOUS
  <1>0. HarmInv /\ HarmInv' /\ s' = s /\ i' = i
    BY HarmServe DEF EvidenceInv, Serve
  <1>1. PICK answer, receipt, t :
          /\ pc = "model" /\ pc' \in {"forge", "answer"}
          /\ truths' = [truths EXCEPT ![i] = Truth(truths[i].atModel, truths[i].model, answer, truths[i].atUser)]
          /\ Back(answer, receipt)
          /\ pc' = "forge" => Behavior.collude /\ Behavior.tamper /\ PreExec # "failed"
          /\ answer = IF PreExec = "failed" THEN NULL ELSE Infer(Upstream, wire.body)
          /\ receipt # NULL => /\ receipt.type = "receipt" /\ receipt.attempt = i /\ receipt.nonce = wire.nonce
                               /\ receipt.req = Commit(wire.salt, wire.body) /\ receipt.model = Upstream
                               /\ receipt.resp = IF answer = NULL THEN NULL ELSE Commit(wire.salt, answer)
          /\ IF receipt = NULL THEN Nothing ELSE Deliver("M", <<receipt>>, t)
    BY Serves
  <1>2. Running /\ Running' /\ Positions /\ i \in 1 .. Len(truths)
    BY <1>0, <1>1 DEF HarmInv, Positions, Running
  <1>3. /\ IsSequence(truths') /\ Len(truths') = Len(truths) /\ truths'[i].answer = answer
        /\ truths'[i].atModel = truths[i].atModel /\ truths'[i].model = truths[i].model
        /\ \A n \in 1 .. Len(truths) : n # i => truths'[n] = truths[n]
    <2>0. PICK atModel, model, atUser : atModel = truths[i].atModel /\ model = truths[i].model /\ atUser = truths[i].atUser
      OBVIOUS
    <2>1. truths' = [truths EXCEPT ![i] = Truth(atModel, model, answer, atUser)]
      BY <1>1, <2>0
    <2>2. IsSequence(truths) /\ i \in 1 .. Len(truths)
      BY <1>2 DEF Positions
    <2> QED BY ZenonT(30), <2>0, <2>1, <2>2, TruthReplaced DEF IsSequence, Range
  <1>8. Infer(Upstream, wire.body) # NULL
    <2>1. truths[i].atModel = wire.body /\ truths[i].atModel \in Bodies
      BY <1>0, <1>1, <1>2 DEF EvidenceInv, Explained, HarmInv, Forwarded
    <2>2. Upstream \in Models
      BY <1>2 DEF Upstream, Behavior, Models, Behaviors, Positions
    <2> QED BY <2>1, <2>2, AnswerThere
  <1>9. wire'.nonce = wire.nonce /\ wire'.salt = wire.salt /\ wire'.answer = answer /\ wire'.receipt = receipt
    BY <1>1 DEF Back
  <1>10. receipt # NULL => receipt.attempt = i /\ Issued(receipt)'
    <2>1. SUFFICES ASSUME receipt # NULL PROVE Issued(receipt)'
      BY <1>1
    <2>2. /\ truths[i].atModel = wire.body /\ truths[i].model = Upstream /\ truths[i].atModel # NULL
          /\ Behavior.dropNonce \/ wire.nonce = i
          /\ Behavior.dropSalt \/ wire.salt = i
      BY <1>0, <1>1 DEF HarmInv, Forwarded, EvidenceInv, OnWire
    <2>3. Behavior = BehaviorOf(i) /\ BehaviorOf(i)' = BehaviorOf(i)
      BY <1>0 DEF Behavior, BehaviorOf
    <2> QED BY <1>0, <1>1, <1>3, <2>1, <2>2, <2>3 DEF Issued, Commit
  <1>11. OnWire'
    <2>1. Behavior' = Behavior
      BY <1>0 DEF Behavior
    <2>2. /\ truths[i].atModel # NULL
          /\ Behavior.dropNonce \/ wire.nonce = i
          /\ Behavior.dropSalt \/ wire.salt = i
      BY <1>1 DEF EvidenceInv, OnWire
    <2>3. answer # NULL => [answer EXCEPT !.changed = TRUE] # answer
      BY <1>1 DEF Infer
    <2>4. pc' = "forge" => answer # NULL
      BY <1>1, <1>8
    <2> QED BY <1>0, <1>1, <1>3, <1>9, <1>10, <2>1, <2>2, <2>3, <2>4 DEF OnWire
  <1>4. Onward
    BY <1>0, <1>1, <1>2, <1>3 DEF Onward, Positions, Unanswered, Unpassed, Unseen
  <1>5. \A a \in 1 .. Len(truths)' : Explained(a)'
    <2>1. Behavior = BehaviorOf(i) /\ BehaviorOf(i)' = BehaviorOf(i) /\ Allowed' = Allowed
      BY <1>0 DEF Behavior, BehaviorOf, Allowed
    <2>2. truths'[i].atModel \in Bodies /\ pc' \in Unpassed
      BY <1>1, <1>2, <1>3 DEF EvidenceInv, Explained, Unpassed
    <2>3. truths'[i].answer = NULL => PreExec = "failed"
      BY <1>1, <1>3, <1>8
    <2>4. Explained(i)'
      BY <1>0, <1>1, <1>2, <1>3, <2>1, <2>2, <2>3, Refusal DEF Explained, Positions
    <2> QED BY <1>0, <1>2, <1>3, <2>4, ExplainedStay DEF Positions
  <1>6. receipt # NULL => SoundReceipt(receipt)'
    <2>1. SUFFICES ASSUME receipt # NULL PROVE SoundReceipt(receipt)'
      OBVIOUS
    <2>2. PICK salt : salt = wire.salt
      OBVIOUS
    <2>3. truths[i].atModel = wire.body /\ truths[i].model = Upstream /\ salt \in {NULL, i}
      BY <1>0, <1>1, <2>2 DEF HarmInv, Forwarded
    <2>4. /\ i' \in Nat /\ salt \in {NULL, i'} /\ receipt.attempt = i'
          /\ receipt.req = Commit(salt, truths'[i'].atModel) /\ receipt.model = truths'[i'].model
          /\ truths'[i'].atModel \in Bodies
          /\ receipt.resp = NULL \/ receipt.resp = Commit(salt, truths'[i'].answer)
      BY <1>0, <1>1, <1>2, <1>3, <1>5, <2>1, <2>2, <2>3 DEF Positions, Explained
    <2>5. Told(receipt)'
      <3>1. CASE salt = NULL
        BY <2>4, <3>1 DEF Told, Commit
      <3>2. CASE salt = i' /\ i' # NULL
        <4>1. receipt.req # NULL
          BY <2>4, <3>2, CommitThere
        <4> QED BY <2>4, <3>2, <4>1 DEF Told, Commit
      <3> QED BY <2>4, <3>1, <3>2
    <2> QED BY <1>0, <1>1, <1>2, <1>10, <2>1, <2>5 DEF SoundReceipt, Positions, Unanswered
  <1>7. PICK V : Adds(V) /\ \A x \in V : Sound(x)'
    BY <1>1, <1>2, <1>6, ReceiptAdds DEF EvidenceInv, Positions
  <1> QED BY <1>0, <1>2, <1>4, <1>5, <1>7, <1>11, StepKeeps

LEMMA EvidenceForge == EvidenceInv /\ Forge => EvidenceInv'
  <1> SUFFICES ASSUME EvidenceInv, Forge PROVE EvidenceInv'
    OBVIOUS
  <1>0. /\ HarmInv /\ HarmInv' /\ Running /\ Running' /\ s' = s /\ i' = i /\ truths' = truths
        /\ pc = "forge" /\ pc' = "answer"
    BY HarmForge DEF EvidenceInv, Forge, Running
  <1>1. Positions /\ Colluded(i)
    BY <1>0 DEF HarmInv, Answered
  <1>7. /\ truths[i].atModel = wire.body /\ truths[i].model = Upstream /\ truths[i].atModel # NULL
        /\ truths[i].answer = wire.answer /\ wire.answer # NULL
        /\ Behavior.dropNonce \/ wire.nonce = i
        /\ Behavior.dropSalt \/ wire.salt = i
        /\ Behavior.tamper /\ [wire.answer EXCEPT !.changed = TRUE] # wire.answer
    BY <1>0 DEF HarmInv, Forwarded, Answered, EvidenceInv, OnWire
  <1>8. Behavior = BehaviorOf(i) /\ BehaviorOf(i)' = BehaviorOf(i) /\ Behavior' = Behavior
    BY <1>0 DEF Behavior, BehaviorOf
  <1>2. PICK receipt, t : /\ receipt # NULL => /\ receipt.type = "receipt" /\ receipt.attempt = i /\ receipt.nonce = wire.nonce
                                               /\ receipt.req = Commit(wire.salt, wire.body) /\ receipt.model = Upstream
                          /\ Back(wire.answer, receipt)
                          /\ IF receipt = NULL THEN Nothing ELSE Deliver("M", <<receipt>>, t)
    <2> DEFINE receipt == Receipt(Passed(wire.answer), "served")
    <2>1. receipt # NULL => /\ receipt.type = "receipt" /\ receipt.attempt = i /\ receipt.nonce = wire.nonce
                            /\ receipt.req = Commit(wire.salt, wire.body) /\ receipt.model = Upstream
      BY DEF Receipt
    <2>3. Back(wire.answer, receipt)
      BY DEF Forge
    <2>2. IF receipt = NULL THEN Nothing ELSE Deliver("M", <<receipt>>, now + SignMs)
      BY DEF Forge
    <2> HIDE DEF receipt
    <2> QED BY <2>1, <2>2, <2>3
  <1>9. receipt # NULL => receipt.attempt = i /\ Issued(receipt)'
    BY <1>0, <1>2, <1>7, <1>8 DEF Issued, Commit
  <1>3. receipt # NULL => SoundReceipt(receipt)'
    BY <1>0, <1>1, <1>2, <1>9 DEF SoundReceipt, Told, Positions, Unanswered, Colluded, BehaviorOf
  <1>4. PICK V : Adds(V) /\ \A x \in V : Sound(x)'
    BY <1>0, <1>1, <1>2, <1>3, ReceiptAdds DEF EvidenceInv, Positions
  <1>5. Onward
    BY <1>0, <1>1 DEF Onward, Positions, Unanswered, Unpassed, Unseen
  <1>6. \A a \in 1 .. Len(truths)' : Explained(a)'
    <2>1. Explained(i) /\ Allowed' = Allowed
      BY <1>0, <1>1 DEF EvidenceInv, Positions, Allowed
    <2>2. Explained(i)'
      BY <1>0, <1>7, <1>8, <2>1 DEF Explained, Unpassed, Unanswered
    <2> QED BY <1>0, <1>1, <2>2, ExplainedStay DEF Positions
  <1>10. OnWire'
    <2>1. wire'.nonce = wire.nonce /\ wire'.salt = wire.salt /\ wire'.answer = wire.answer /\ wire'.receipt = receipt
      BY <1>2 DEF Back
    <2> QED BY <1>0, <1>7, <1>8, <1>9, <2>1 DEF OnWire
  <1> QED BY <1>0, <1>4, <1>5, <1>6, <1>10, StepKeeps

LEMMA EvidenceAnswers == EvidenceInv /\ RelayAnswers => EvidenceInv'
  <1> SUFFICES ASSUME EvidenceInv, RelayAnswers PROVE EvidenceInv'
    OBVIOUS
  <1>0. /\ HarmInv /\ HarmInv' /\ Running /\ Running' /\ s' = s /\ i' = i
        /\ pc = "answer" /\ pc' = "received"
    BY HarmAnswers DEF EvidenceInv, RelayAnswers, Running
  <1>1. Positions /\ i \in 1 .. Len(truths)
    BY <1>0 DEF HarmInv, Positions
  <1>6. PICK out : out = IF wire.answer # NULL THEN Passed(wire.answer) ELSE NULL
    OBVIOUS
  <1>7. truths' = [truths EXCEPT ![i] = Truth(truths[i].atModel, truths[i].model, truths[i].answer, out)]
    BY <1>1, <1>6 DEF RelayAnswers, Positions
  <1>8. /\ truths[i].atModel = wire.body /\ truths[i].model = Upstream /\ truths[i].atModel # NULL
        /\ truths[i].answer = wire.answer
        /\ wire.receipt # NULL => wire.receipt.attempt = i /\ Issued(wire.receipt)
        /\ wire.answer # NULL => [wire.answer EXCEPT !.changed = TRUE] # wire.answer
    BY <1>0 DEF HarmInv, Forwarded, Answered, EvidenceInv, OnWire
  <1>9. Behavior = BehaviorOf(i) /\ \A n : BehaviorOf(n)' = BehaviorOf(n)
    BY <1>0 DEF Behavior, BehaviorOf
  <1>4. /\ IsSequence(truths') /\ Len(truths') = Len(truths)
        /\ truths'[i].atModel = truths[i].atModel /\ truths'[i].model = truths[i].model
        /\ truths'[i].answer = truths[i].answer
        /\ truths'[i].atUser = out
        /\ \A n \in 1 .. Len(truths) : n # i => truths'[n] = truths[n]
    <2>0. PICK atModel, model, had : atModel = truths[i].atModel /\ model = truths[i].model /\ had = truths[i].answer
      OBVIOUS
    <2>1. truths' = [truths EXCEPT ![i] = Truth(atModel, model, had, out)]
      BY <1>1, <2>0, <1>7
    <2>2. IsSequence(truths) /\ i \in 1 .. Len(truths)
      BY <1>1 DEF Positions
    <2>3. /\ IsSequence(truths') /\ Len(truths') = Len(truths)
          /\ truths'[i].atModel = atModel /\ truths'[i].model = model /\ truths'[i].answer = had
          /\ truths'[i].atUser = out
          /\ \A n \in 1 .. Len(truths) : n # i => truths'[n] = truths[n]
      BY <2>1, <2>2, TruthReplaced DEF IsSequence, Range
    <2> QED BY <2>0, <2>3
  <1>2. PICK statement, t :
          /\ statement.type = "relay"
          /\ SoundRelay(statement)'
          /\ Nothing \/ Deliver("R", <<statement>>, t)
    <2> DEFINE got == wire.answer # NULL
               shown == IF got THEN Passed(wire.answer) ELSE NULL
               CommitOf(x) == IF got THEN Commit(i, x) ELSE NULL
               respIn == CommitOf(IF Behavior.collude THEN shown ELSE wire.answer)
               statement == RelayStatement(
                 IF Behavior.honest THEN Commit(i, wire.body) ELSE Commit(i, "asked"), Behavior.declared, Upstream,
                 respIn, IF Behavior.honest THEN CommitOf(shown) ELSE respIn,
                 IF ~ got THEN "error" ELSE IF Behavior.declareFallback THEN "fallback" ELSE "forwarded",
                 IF Behavior.dropNonce THEN NULL ELSE i)
    <2>1. IF Omits THEN Nothing /\ now' = now + HopMs
          ELSE Deliver("R", <<statement>>, now + SignMs) /\ now' = now + SignMs + HopMs
      BY DEF RelayAnswers
    <2>2. /\ statement.type = "relay" /\ statement.attempt = i /\ statement.respTransform = "identity"
          /\ statement.decision = "fallback" => Behavior.declareFallback
          /\ got /\ Behavior.declareFallback => statement.decision = "fallback"
          /\ statement.out = IF Behavior.honest THEN Commit(i, wire.body) ELSE Commit(i, "asked")
          /\ statement.transform = Behavior.declared /\ statement.upstream = Upstream
          /\ Behavior.dropNonce \/ statement.nonce = i
          /\ {"type", "attempt", "out", "transform", "upstream", "decision", "nonce", "respTransform"}
               \subseteq DOMAIN statement
      BY DEF RelayStatement
    <2>6. PICK said : said = statement
      OBVIOUS
    <2>7. /\ said.type = "relay" /\ said.attempt = i /\ said.respTransform = "identity"
          /\ said.decision = "fallback" => Behavior.declareFallback
          /\ got /\ Behavior.declareFallback => said.decision = "fallback"
          /\ said.out = IF Behavior.honest THEN Commit(i, wire.body) ELSE Commit(i, "asked")
          /\ said.transform = Behavior.declared /\ said.upstream = Upstream
          /\ Behavior.dropNonce \/ said.nonce = i
          /\ {"type", "attempt", "out", "transform", "upstream", "decision", "nonce", "respTransform"}
               \subseteq DOMAIN said
      BY <2>2, <2>6
    <2> HIDE DEF statement
    <2>3. Nothing \/ Deliver("R", <<said>>, now + SignMs)
      BY <2>1, <2>6
    <2>4. said.out = Commit(i, Stated(i)')
      BY <1>0, <1>4, <1>8, <1>9, <2>7 DEF Stated
    <2>5. SoundRelay(said)'
      BY <1>0, <1>1, <1>4, <1>8, <1>9, <2>7, <2>4 DEF SoundRelay, Unanswered, Commit, Positions
    <2> QED BY <2>7, <2>3, <2>5
  <1>3. PICK V : Adds(V) /\ \A x \in V : Sound(x)'
    BY <1>0, <1>1, <1>2, RelayAdds DEF EvidenceInv, Positions
  <1>5. Onward
    BY <1>0, <1>1, <1>4 DEF Onward, Positions, Unanswered, Unpassed, Unseen
  <1>10. \A a \in 1 .. Len(truths)' : Explained(a)'
    <2>1. Explained(i) /\ Allowed' = Allowed
      BY <1>0, <1>1 DEF EvidenceInv, Allowed
    <2>2. out # wire.answer \/ wire.answer = NULL \/ ~ Behavior.tamper
      BY <1>6, <1>8 DEF Passed
    <2>3. Explained(i)'
      BY <1>0, <1>4, <1>8, <1>9, <2>1, <2>2 DEF Explained, Unanswered
    <2> QED BY <1>0, <1>1, <1>4, <2>3, ExplainedStay DEF Positions
  <1>11. OnWire'
    <2>1. PICK m : m = wire.receipt
      OBVIOUS
    <2>2. wire'.receipt # NULL => wire'.receipt = m
      BY <2>1 DEF RelayAnswers, Answer
    <2>3. m # NULL => m.attempt = i /\ Issued(m)
      BY <1>8, <2>1
    <2>4. m # NULL => Issued(m)'
      BY <1>0, <1>4, <1>9, <2>3 DEF Issued, Commit
    <2> QED BY <1>0, <2>2, <2>3, <2>4 DEF OnWire
  <1> QED BY <1>0, <1>3, <1>5, <1>10, <1>11, StepKeeps

LEMMA EvidenceNoAnswer == EvidenceInv /\ NoAnswer => EvidenceInv'
  <1> SUFFICES ASSUME EvidenceInv, NoAnswer PROVE EvidenceInv'
    OBVIOUS
  <1>0. /\ HarmInv /\ HarmInv' /\ Running /\ Running' /\ s' = s /\ i' = i /\ truths' = truths
        /\ pc = "received" /\ pc' = "next" /\ Nothing
    BY HarmNoAnswer DEF EvidenceInv, NoAnswer, Running
  <1>1. Onward
    BY <1>0 DEF Onward, HarmInv, Positions, Unanswered, Unpassed, Unseen
  <1>2. (\A a \in 1 .. Len(truths)' : Explained(a)') /\ OnWire'
    BY <1>0, AllExplained DEF HarmInv, Positions, Unpassed, Unanswered, OnWire
  <1>3. Adds({})
    BY <1>0, NothingAdds DEF EvidenceInv
  <1> QED BY <1>0, <1>1, <1>2, <1>3, StepKeeps

LEMMA EvidenceReceive == EvidenceInv /\ Receive => EvidenceInv'
  <1> SUFFICES ASSUME EvidenceInv, Receive PROVE EvidenceInv'
    OBVIOUS
  <1>0. /\ HarmInv /\ HarmInv' /\ Running /\ Running' /\ s' = s /\ i' = i /\ truths' = truths
        /\ pc = "received" /\ pc' \in {"next", "poll"} /\ wire.body # NULL
    BY HarmReceive DEF EvidenceInv, Receive, Running
  <1>1. Positions /\ i \in 1 .. Len(truths)
    BY <1>0 DEF HarmInv, Positions
  <1>2. PICK o, p : o = Observation /\ p = Private
    OBVIOUS
  <1>3. Adds({o, p})
    <2>1. PICK t : Deliver("U", <<o, p>>, t)
      BY <1>2 DEF Receive
    <2>2. PICK q : q = <<o, p>>
      OBVIOUS
    <2>3. IsSequence(q) /\ Range(q) = {o, p}
      BY <2>2, One
    <2>4. Adds(Range(q))
      BY <1>1, <2>1, <2>2, <2>3, DeliverAdds, <1>0 DEF EvidenceInv, Positions
    <2> QED BY <2>3, <2>4
  <1>4. Onward
    BY <1>0, <1>1 DEF Onward, Positions, Unanswered, Unpassed, Unseen
  <1>5. (\A a \in 1 .. Len(truths)' : Explained(a)') /\ OnWire'
    BY <1>0, AllExplained DEF HarmInv, Positions, Unpassed, Unanswered, OnWire
  <1>6. Sound(o)'
    <2>1. PICK m : m = wire.receipt
      OBVIOUS
    <2>2. o.type = "observation" /\ o.attempt = i /\ o.resp = Commit(i, wire.body) /\ o.presented = m
      BY <1>2, <2>1 DEF Observation
    <2>3. truths[i].atUser = wire.body
      BY <1>0 DEF HarmInv, Returned
    <2>4. m # NULL /\ m.attempt = i => Told(m)
      <3>1. SUFFICES ASSUME m # NULL, m.attempt = i PROVE Told(m)
        OBVIOUS
      <3>2. PICK salt \in {NULL, i} : truths[i].answer # NULL /\ Attests(m, salt)
        BY <1>0, <1>1, <2>1, <3>1 DEF HarmInv, Returned, Positions
      <3>3. CASE Colluded(i)
        BY <3>1, <3>3 DEF Told
      <3>4. CASE ~ Colluded(i)
        <4>1. /\ m.req = Commit(salt, truths[i].atModel) /\ m.model = truths[i].model
              /\ m.resp = Commit(salt, truths[i].answer)
          BY <3>2, <3>4 DEF Attests
        <4>2. CASE salt = NULL
          BY <4>1, <4>2 DEF Told, Commit
        <4>3. CASE salt = i /\ i # NULL
          <5>1. truths[i].atModel \in Bodies /\ i \in Nat
            BY <1>1 DEF EvidenceInv, Positions, Explained
          <5>2. m.req # NULL
            BY <4>1, <4>3, <5>1, CommitThere
          <5> QED BY <3>1, <4>1, <4>3, <5>2 DEF Told
        <4> QED BY <3>2, <4>2, <4>3
      <3> QED BY <3>3, <3>4
    <2>5. m # NULL /\ m.attempt = i => Told(m)'
      BY <1>0, <2>4 DEF Told, Colluded, BehaviorOf, Commit
    <2>7. m # NULL /\ truths[i].answer # NULL => m.attempt = i /\ Issued(m)
      BY <1>0, <2>1 DEF EvidenceInv, OnWire
    <2>8. m # NULL /\ truths[i].answer # NULL => Issued(m)'
      BY <1>0, <2>7 DEF Issued, BehaviorOf, Commit
    <2>6. SoundObservation(o)'
      BY <1>0, <1>1, <2>2, <2>3, <2>5, <2>7, <2>8 DEF SoundObservation, Positions, Unseen, Unpassed, Unanswered, Commit
    <2> QED BY <2>2, <2>6 DEF Sound
  <1>7. Sound(p)'
    <2>1. p.type = "private" /\ SoundPrivate(p)
      BY <1>2 DEF Private, SoundPrivate, ExpectedCommits
    <2>2. SoundPrivate(p)'
      BY <2>1, <1>0 DEF SoundPrivate, Commit
    <2> QED BY <2>1, <2>2 DEF Sound
  <1> QED BY <1>0, <1>3, <1>4, <1>5, <1>6, <1>7, StepKeeps

LEMMA OneMore ==
  ASSUME NEW l, IsSequence(l), NEW e, NEW r, r = Append(l, e)
  PROVE  IsSequence(r) /\ {r[n].stmt : n \in DOMAIN r} \subseteq {l[n].stmt : n \in DOMAIN l} \cup {e.stmt}
  <1>1. IsSequence(r) /\ Len(r) = Len(l) + 1 /\ r[Len(r)] = e /\ \A n \in 1 .. Len(l) : r[n] = l[n]
    BY AppendKeeps DEF IsSequence, Range
  <1>2. DOMAIN r = 1 .. Len(r) /\ DOMAIN l = 1 .. Len(l) /\ Len(l) \in Nat
    BY <1>1 DEF IsSequence
  <1> QED BY <1>1, <1>2

LEMMA EvidencePoll == EvidenceInv /\ Poll => EvidenceInv'
  <1> SUFFICES ASSUME EvidenceInv, Poll PROVE EvidenceInv'
    OBVIOUS
  <1>0. /\ HarmInv /\ HarmInv' /\ Running /\ Running' /\ s' = s /\ i' = i /\ truths' = truths
        /\ pc = "poll" /\ pc' \in {"next", "poll"} /\ UNCHANGED <<queue, private>>
    BY HarmPoll DEF EvidenceInv, Poll, Running
  <1>1. Onward
    BY <1>0 DEF Onward, HarmInv, Positions, Unanswered, Unpassed, Unseen
  <1>2. (\A a \in 1 .. Len(truths)' : Explained(a)') /\ OnWire'
    BY <1>0, AllExplained DEF HarmInv, Positions, Unpassed, Unanswered, OnWire
  <1>3. PICK e : (log' = Append(log, e) \/ log' = log) /\ e.stmt.type = "verdict"
    <2> DEFINE reply == RequestVerdict(i, now)
               e == VerdictEntry(i, reply.verdict, now)
    <2>1. e.stmt.type = "verdict"
      BY DEF VerdictEntry
    <2>2. log' = Append(log, e) \/ log' = log
      BY DEF Poll
    <2> HIDE DEF e
    <2> QED BY <2>1, <2>2
  <1>4. Adds({e.stmt})
    <2>1. IsSequence(log)
      BY <1>0 DEF EvidenceInv, Sequences
    <2>2. PICK r : r = log'
      OBVIOUS
    <2>3. IsSequence(r) /\ {r[n].stmt : n \in DOMAIN r} \subseteq Registered \cup {e.stmt}
      <3>1. CASE r = log
        BY <2>1, <3>1 DEF Registered, IsSequence, Range
      <3>2. CASE r = Append(log, e)
        BY <2>1, <3>2, OneMore DEF Registered, IsSequence, Range
      <3> QED BY <1>3, <2>2, <3>1, <3>2
    <2>4. IsSequence(log') /\ Registered' \subseteq Registered \cup {e.stmt}
      BY <2>2, <2>3 DEF Registered, IsSequence, Range
    <2> QED BY <1>0, <2>4 DEF Adds, EvidenceInv, Sequences, Evidence, IsSequence, Range
  <1>5. Sound(e.stmt)'
    BY <1>3 DEF Sound
  <1> QED BY <1>0, <1>1, <1>2, <1>4, <1>5, StepKeeps

LEMMA EvidenceNext == EvidenceInv /\ NextAttempt => EvidenceInv'
  <1> SUFFICES ASSUME EvidenceInv, NextAttempt PROVE EvidenceInv'
    OBVIOUS
  <1>0. /\ HarmInv /\ HarmInv' /\ Running /\ Running' /\ s' = s /\ truths' = truths
        /\ pc = "next" /\ Nothing
        /\ \/ i' = i + 1 /\ pc' = "user"
           \/ i' = i /\ pc' = "close"
    <2>1. HarmInv /\ HarmInv'
      BY HarmNextAttempt DEF EvidenceInv
    <2>2. pc = "next" /\ Nothing /\ s' = s /\ truths' = truths
      BY DEF NextAttempt
    <2>3. \/ i' = i + 1 /\ pc' = "user"
          \/ i' = i /\ pc' = "close"
      BY DEF NextAttempt
    <2> QED BY <2>1, <2>2, <2>3 DEF Running
  <1>1. Onward
    BY <1>0 DEF Onward, HarmInv, Positions, Unanswered, Unpassed, Unseen
  <1>2. (\A a \in 1 .. Len(truths)' : Explained(a)') /\ OnWire'
    <2>1. i \in Nat /\ Len(truths) = i /\ i' \in Nat /\ i' >= i
      BY <1>0 DEF HarmInv, Positions
    <2>2. OnWire'
      BY <1>0 DEF OnWire
    <2> QED BY <1>0, <2>1, <2>2, AllExplained DEF Unpassed, Unanswered
  <1>3. Adds({})
    BY <1>0, NothingAdds DEF EvidenceInv
  <1> QED BY <1>0, <1>1, <1>2, <1>3, StepKeeps

(* What has waited for T, in the order in which it is handed over. *)
LEMMA Waiting ==
  ASSUME Sequences, Recover
  PROVE  \E all, t : /\ IsSequence(all) /\ Hand(all, t) /\ t = now'
                     /\ \A x \in Range(all) : \E p \in {"U", "R", "M"} : x \in Range(queue[p])
                     /\ \A p \in {"U", "R", "M"} : Range(queue[p]) \subseteq Range(all)
  <1>1. PICK u, r, m : u = queue["U"] /\ r = queue["R"] /\ m = queue["M"]
    OBVIOUS
  <1>2. PICK first, all : first = u \o r /\ all = first \o m
    OBVIOUS
  <1>3. IsSequence(u) /\ IsSequence(r) /\ IsSequence(m)
    BY <1>1 DEF Sequences
  <1>4. IsSequence(first) /\ Range(first) = Range(u) \cup Range(r)
    BY <1>2, <1>3, Joined
  <1>5. IsSequence(all) /\ Range(all) = Range(first) \cup Range(m)
    BY ZenonT(30), <1>2, <1>3, <1>4, Joined
  <1>6. Hand(all, now')
    <2>1. Hand(queue["U"] \o queue["R"] \o queue["M"], now')
      BY DEF Recover
    <2>2. all = queue["U"] \o queue["R"] \o queue["M"]
      BY <1>1, <1>2
    <2> QED BY <2>1, <2>2
  <1> QED BY <1>1, <1>4, <1>5, <1>6

LEMMA EvidenceRecover == EvidenceInv /\ Recover => EvidenceInv'
  <1> SUFFICES ASSUME EvidenceInv, Recover PROVE EvidenceInv'
    OBVIOUS
  <1>0. /\ HarmInv /\ HarmInv' /\ Running /\ Running' /\ s' = s /\ i' = i /\ truths' = truths /\ pc' = pc /\ pc = "close"
    BY HarmAfter DEF EvidenceInv, Recover, Running
  <1>1. Onward
    BY <1>0 DEF Onward, HarmInv, Positions, Unanswered, Unpassed, Unseen
  <1>2. (\A a \in 1 .. Len(truths)' : Explained(a)') /\ OnWire'
    BY <1>0, AllExplained DEF HarmInv, Positions, Unpassed, Unanswered, OnWire
  <1>3. Sequences
    BY <1>0 DEF EvidenceInv
  <1>4. PICK all, t : IsSequence(all) /\ Hand(all, t) /\ \A x \in Range(all) : \E p \in {"U", "R", "M"} : x \in Range(queue[p])
    BY <1>3, Waiting
  <1>5. Range(all) \subseteq Evidence
    BY <1>4 DEF Evidence
  <1>6. /\ IsSequence(log') /\ Registered' \subseteq Registered \cup Range(all)
        /\ DOMAIN private' = DOMAIN private
        /\ \A a \in DOMAIN private :
             \/ private'[a] = private[a]
             \/ private'[a] \in Range(all) /\ private'[a].type = "private" /\ private'[a].attempt = a
    BY <1>3, <1>4, <1>5, HandAdds DEF Sequences
  <1>7. DOMAIN queue' = {"U", "R", "M"} /\ \A p \in {"U", "R", "M"} : queue'[p] = <<>>
    BY <1>3 DEF Recover, Sequences
  <1>8. \A p \in {"U", "R", "M"} : IsSequence(queue'[p]) /\ Range(queue'[p]) = {}
    <2>1. ASSUME NEW p \in {"U", "R", "M"} PROVE IsSequence(queue'[p]) /\ Range(queue'[p]) = {}
      <3>1. PICK q : q = queue'[p] /\ q = <<>>
        BY <1>7
      <3>2. IsSequence(q) /\ Range(q) = {}
        BY <3>1 DEF IsSequence, Range
      <3> QED BY <3>1, <3>2
    <2> QED BY <2>1
  <1>9. Sequences'
    BY <1>6, <1>7, <1>8 DEF Sequences, IsSequence, Range
  <1>10. Evidence' \subseteq Evidence
    <2>1. Registered' \subseteq Evidence
      BY <1>5, <1>6 DEF Evidence
    <2>2. \A p \in {"U", "R", "M"} : Range(queue'[p]) = {}
      BY <1>8
    <2> QED BY <2>1, <2>2 DEF Evidence, Range
  <1>11. Adds({})
    BY <1>5, <1>6, <1>9, <1>10 DEF Adds
  <1> QED BY <1>0, <1>1, <1>2, <1>11, StepKeeps

LEMMA EvidenceClose == EvidenceInv /\ Close => EvidenceInv'
  <1> SUFFICES ASSUME EvidenceInv, Close PROVE EvidenceInv'
    OBVIOUS
  <1>0. /\ HarmInv /\ HarmInv' /\ Running /\ Running' /\ s' = s /\ i' = i /\ truths' = truths
        /\ pc = "close" /\ pc' = "final"
    BY HarmAfter DEF EvidenceInv, Close, Running
  <1>1. Onward
    BY <1>0 DEF Onward, HarmInv, Positions, Unanswered, Unpassed, Unseen
  <1>2. (\A a \in 1 .. Len(truths)' : Explained(a)') /\ OnWire'
    BY <1>0, AllExplained DEF HarmInv, Positions, Unpassed, Unanswered, OnWire
  <1>3. PICK x : x.type = "manifest" /\ Deliver("U", <<x>>, now)
    <2>1. PICK x : x = [type |-> "manifest", iss |-> "U", signed |-> TRUE, attempt |-> 0]
      OBVIOUS
    <2> QED BY <2>1 DEF Close, Manifest
  <1>4. Adds({x})
    <2>1. PICK q : q = <<x>>
      OBVIOUS
    <2>2. IsSequence(q) /\ Range(q) = {x}
      BY <2>1, One
    <2>3. Adds(Range(q))
      BY <1>0, <1>3, <2>1, <2>2, DeliverAdds DEF EvidenceInv, HarmInv, Positions
    <2> QED BY <2>2, <2>3
  <1>5. Sound(x)'
    BY <1>3 DEF Sound
  <1> QED BY <1>0, <1>1, <1>2, <1>4, <1>5, StepKeeps

(* Nothing that T can see on an attempt is about another one. *)
LEMMA SeenOn ==
  ASSUME IsSequence(log), NEW a, NEW t
  PROVE  /\ DOMAIN Visible(a, t) \subseteq 1 .. Len(log)
         /\ \A n \in DOMAIN Visible(a, t) : Visible(a, t)[n].stmt \in Registered /\ Visible(a, t)[n].stmt.attempt = a
  BY DEF Visible, EvidenceOn, Restrict, Registered, IsSequence

(* A pass of an honest T that has the invariant to rely on is deserved. *)
LEMMA PassDeserved ==
  ASSUME EvidenceInv, Running, NEW a \in Attempts, NEW t,
         JudgeHonest(a, t).status = "passed", ~ Colluded(a)
  PROVE  truths[a].atUser # NULL /\ ~ Falsified(a)
  <1>1. /\ IsSequence(log) /\ a \in DOMAIN private /\ \A x \in Registered : Sound(x)
        /\ (private[a] # NULL => private[a].attempt = a /\ SoundPrivate(private[a]))
    BY DEF EvidenceInv, Sequences, PrivateKept, Attempts, Evidence
  <1>2. PICK entries : entries = Visible(a, t)
    OBVIOUS
  <1>3. PICK p : p = private[a]
    OBVIOUS
  <1>4. PICK ev : ev = Gather(entries, p)
    OBVIOUS
  <1>5. PICK c, r, m, o : c = ev.contract /\ r = ev.relay /\ m = ev.receipt /\ o = ev.observation /\ ev.private = p
    BY <1>4 DEF Gather
  <1>6. /\ RequestTransform(c, r, m, p) = "pass" /\ Route(c, r, m) = "pass" /\ EndToEnd(c, r, m, o) = "pass"
        /\ Equations(ev).E11 = "pass"
    BY <1>2, <1>3, <1>4, <1>5, PassedEvidence DEF JudgeHonest
  <1>7. m # NULL /\ o # NULL /\ m.resp # NULL /\ m.resp = o.resp
    BY <1>6, PassedE10
  <1>8. \A x, y \in {c, r, m, o} : x # NULL /\ y # NULL => x.attempt = y.attempt
    BY <1>5, <1>6, PassedE11
  <1>9. /\ o \in Registered /\ o.type = "observation" /\ o.attempt = a
        /\ (m \in Registered /\ m.type = "receipt") \/ m = o.presented
        /\ c # NULL => c \in Registered /\ c.type = "contract" /\ c.attempt = a
        /\ r # NULL => r \in Registered /\ r.type = "relay"
    <2>1. /\ DOMAIN entries \subseteq 1 .. Len(log) /\ Len(log) \in Nat
          /\ \A n \in DOMAIN entries : entries[n].stmt \in Registered /\ entries[n].stmt.attempt = a
      BY <1>1, <1>2, SeenOn DEF IsSequence
    <2>0. PICK N \in Nat : N = Len(log)
      BY <2>1
    <2> DEFINE Of(type) == {x \in {entries[n].stmt : n \in DOMAIN entries} : x.type = type}
    <2>2. /\ c # NULL => c \in Of("contract")
          /\ r # NULL => r \in Of("relay")
          /\ o # NULL => o \in Of("observation")
          /\ m # NULL => m \in Of("receipt") \/ (o # NULL /\ m = o.presented)
      <3>1. DOMAIN entries \subseteq 1 .. N
        BY <2>0, <2>1
      <3>2. /\ ev.contract # NULL => ev.contract \in Of("contract")
            /\ ev.relay # NULL => ev.relay \in Of("relay")
            /\ ev.observation # NULL => ev.observation \in Of("observation")
            /\ ev.receipt # NULL => \/ ev.receipt \in Of("receipt")
                                    \/ ev.observation # NULL /\ ev.receipt = ev.observation.presented
        BY <1>4, <3>1, Gathered
      <3> QED BY <1>5, <3>2
    <2>3. \A type : \A x \in Of(type) : x \in Registered /\ x.type = type /\ x.attempt = a
      BY <2>1
    <2> HIDE DEF Of
    <2> QED BY <1>7, <2>2, <2>3
  <1>10. SoundObservation(o)
    BY <1>1, <1>9 DEF Sound
  <1>11. a \in 1 .. i /\ i \in Nat /\ a \in Nat /\ a # NULL
    BY <1>9, <1>10, SimulationAssumption DEF SoundObservation, EvidenceInv, HarmInv, Positions
  <1>12. m.attempt = a /\ Told(m)
    <2>1. m.attempt = a
      BY <1>7, <1>8, <1>9
    <2>2. CASE m \in Registered /\ m.type = "receipt"
      BY <1>1, <2>1, <2>2 DEF Sound, SoundReceipt
    <2>3. CASE m = o.presented
      BY <1>7, <1>9, <1>10, <2>1, <2>3 DEF SoundObservation
    <2> QED BY <1>9, <2>1, <2>2, <2>3
  <1>13. /\ m.model = truths[a].model
         /\ m.req = Commit(a, truths[a].atModel) /\ m.req # NULL
         /\ m.resp = Commit(a, truths[a].answer)
    BY <1>7, <1>12 DEF Told
  <1>14. truths[a].atUser # NULL /\ truths[a].atUser = truths[a].answer
    <2>1. truths[a].atUser # NULL /\ Commit(a, truths[a].answer) = Commit(a, truths[a].atUser)
      BY <1>7, <1>9, <1>10, <1>13 DEF SoundObservation
    <2> QED BY <1>11, <2>1 DEF Commit
  <1>15. /\ c # NULL
         /\ \/ "identity" \in c.transforms /\ m.req = c.req
            \/ p # NULL /\ \E f \in DOMAIN p.expected \cap c.transforms : m.req = p.expected[f]
    BY <1>6, <1>7, <1>13, PassedE4
  <1>16. SoundContract(c)
    BY <1>1, <1>9, <1>15 DEF Sound
  <1>17. truths[a].atModel \in Allowed
    <2>1. CASE "identity" \in c.transforms /\ m.req = c.req
      <3>1. Commit(a, truths[a].atModel) = Commit(a, "asked") /\ "identity" \in s.transforms
        BY <1>9, <1>13, <1>15, <1>16, <2>1 DEF SoundContract
      <3>2. truths[a].atModel = "asked"
        BY <1>11, <3>1 DEF Commit
      <3> QED BY <3>1, <3>2 DEF Allowed
    <2>2. CASE p # NULL /\ \E f \in DOMAIN p.expected \cap c.transforms : m.req = p.expected[f]
      <3>1. p.expected = [f \in {Formatter} \cap s.transforms |-> Commit(a, f)]
        BY <1>1, <1>3, <2>2 DEF SoundPrivate
      <3>2. PICK f \in {Formatter} \cap s.transforms : Commit(a, truths[a].atModel) = Commit(a, f)
        BY <1>13, <2>2, <3>1
      <3>3. truths[a].atModel = f
        BY <1>11, <3>2 DEF Commit
      <3> QED BY <3>2, <3>3 DEF Allowed
    <2> QED BY <1>15, <2>1, <2>2
  <1>18. Permitted(a)
    <2>1. \/ m.model = c.requested
          \/ m.model \in c.allowed /\ c.fallback # "none" /\ r # NULL /\ r.decision = "fallback"
      BY <1>6, <1>7, PassedE8
    <2>2. CASE m.model = c.requested
      BY <1>13, <1>16, <2>2 DEF SoundContract, Permitted
    <2>3. CASE m.model \in c.allowed /\ c.fallback # "none" /\ r # NULL /\ r.decision = "fallback"
      <3>1. r.attempt = a /\ BehaviorOf(r.attempt).declareFallback
        BY <1>1, <1>7, <1>8, <1>9, <2>3 DEF Sound, SoundRelay
      <3> QED BY <1>13, <1>16, <2>3, <3>1 DEF SoundContract, Permitted
    <2> QED BY <2>1, <2>2, <2>3
  <1> QED BY <1>14, <1>17, <1>18 DEF Falsified

LEMMA EvidenceFinalize == EvidenceInv /\ Finalize => EvidenceInv'
  <1> SUFFICES ASSUME EvidenceInv, Finalize PROVE EvidenceInv'
    OBVIOUS
  <1>1. /\ HarmInv /\ HarmInv' /\ Running /\ ~ Running' /\ s' = s /\ truths' = truths /\ i' = i
        /\ pc = "final" /\ pc' = "checkpoint"
    BY HarmAfter DEF EvidenceInv, Finalize, Running
  <1>4. (\A a \in 1 .. Len(truths)' : Explained(a)') /\ OnWire'
    BY <1>1, AllExplained DEF HarmInv, Positions, Unpassed, Unanswered, OnWire
  <1>2. ASSUME ~ s.misjudge, NEW a \in Attempts, finals'[a].status = "passed", ~ Colluded(a)
        PROVE  truths[a].atUser # NULL /\ ~ Falsified(a)
    <2>1. finals'[a] = JudgeHonest(a, now)
      BY <1>2 DEF Finalize, Judge, Attempts
    <2> QED BY <1>1, <1>2, <2>1, PassDeserved
  <1>3. JudgedGenuine'
    BY <1>1, <1>2 DEF JudgedGenuine, Attempts, Colluded, BehaviorOf, Falsified, Allowed, Permitted
  <1> QED BY <1>1, <1>3, <1>4 DEF EvidenceInv

(* Nothing that is judged changes after the judgement. *)
LEMMA EvidenceAfter ==
  ASSUME EvidenceInv, HarmInv', UNCHANGED <<s, i, truths, finals>>, ~ Running, ~ Running'
  PROVE  EvidenceInv'
  <1>1. (\A a \in 1 .. Len(truths)' : Explained(a)') /\ OnWire'
    BY AllExplained DEF EvidenceInv, HarmInv, Positions, Unpassed, Unanswered, OnWire, Running
  <1>2. JudgedGenuine'
    BY DEF EvidenceInv, JudgedGenuine, Attempts, Colluded, BehaviorOf, Falsified, Allowed, Permitted
  <1> QED BY <1>1, <1>2 DEF EvidenceInv

LEMMA EvidenceInit == Init => EvidenceInv
  <1> SUFFICES ASSUME Init PROVE EvidenceInv
    OBVIOUS
  <1>1. HarmInv
    BY HarmInit
  <1>2. Sequences /\ Evidence = {}
    BY DEF Init, Sequences, Evidence, Registered, IsSequence, Range
  <1>3. PrivateKept
    BY DEF Init, PrivateKept
  <1>4. Len(truths) = 0 /\ OnWire
    BY DEF Init, OnWire
  <1> QED BY <1>1, <1>2, <1>3, <1>4 DEF Init, EvidenceInv, JudgedGenuine, Running

(* All that the parties sign in a run is sound, from any scenario, with    *)
(* any queue sizes, delays and outages; so are the verdicts that an honest *)
(* T gives in the end (user.py, relay.py, model.py, runner.py).            *)
THEOREM EvidenceInvariant == Spec => []EvidenceInv
  <1>1. EvidenceInv /\ [Next]_vars => EvidenceInv'
    <2> SUFFICES ASSUME EvidenceInv, [Next]_vars PROVE EvidenceInv'
      OBVIOUS
    <2>1. CASE Checkpoint
      BY <2>1, HarmAfter, EvidenceAfter DEF EvidenceInv, Checkpoint, Running
    <2>2. CASE Audit
      BY <2>2, HarmAfter, EvidenceAfter DEF EvidenceInv, Audit, Running
    <2>3. CASE UNCHANGED vars
      <3>1. HarmInv'
        BY <2>3, HarmAfter DEF EvidenceInv, vars
      <3>2. CASE ~ Running
        BY <2>3, <3>1, <3>2, EvidenceAfter DEF Running, vars
      <3>3. CASE Running
        <4>1. Adds({})
          BY <2>3, <3>3, NothingAdds DEF EvidenceInv, vars, Nothing
        <4>2. Onward
          BY <2>3 DEF EvidenceInv, HarmInv, Positions, Onward, vars
        <4>3. \A a \in 1 .. Len(truths)' : Explained(a)'
          BY <2>3 DEF EvidenceInv, vars, Explained, BehaviorOf, Allowed
        <4>4. OnWire'
          BY <2>3 DEF EvidenceInv, vars, OnWire, Behavior, Issued, BehaviorOf, Truth, Commit
        <4> QED BY <2>3, <3>1, <3>3, <4>1, <4>2, <4>3, <4>4, StepKeeps DEF Running, vars
      <3> QED BY <3>2, <3>3
    <2> QED
      BY <2>1, <2>2, <2>3, EvidenceRequest, EvidenceDrops, EvidenceReplays, EvidenceForwards, EvidenceServe,
         EvidenceForge, EvidenceAnswers, EvidenceNoAnswer, EvidenceReceive, EvidencePoll, EvidenceNext,
         EvidenceRecover, EvidenceClose, EvidenceFinalize DEF Next
  <1> QED BY EvidenceInit, <1>1, PTL DEF Spec

(* A T that does its work never calls a falsified answer passed, whatever  *)
(* evidence it lacks, in every scenario with any combination of switches   *)
(* and for all pinned keys, model hashes and transformations               *)
(* (engine.py:28-35).                                                      *)
THEOREM PassedStaysGenuine == Spec => []PassedIsGenuine
  <1>1. EvidenceInv => PassedIsGenuine
    BY DEF EvidenceInv, JudgedGenuine, PassedIsGenuine, Done, Running
  <1> QED BY EvidenceInvariant, <1>1, PTL

-----------------------------------------------------------------------------
(* The equations that R alone is charged with. *)
Charging == {"E4", "E5", "E8", "E10", "E11"}

(* What accuses one party outright is a charge against R, for one of them. *)
LEMMA Charges ==
  ASSUME NEW ev, NEW parties, NEW d \in Verdict(ev, parties).discrepancies,
         d.code \in RelayCodes \/ (d.severity = "violation" /\ \E q \in {"U", "R", "M"} : d.accused = {q})
  PROVE  d.accused = {"R"} /\ \E e \in Charging : Equations(ev)[e] = "fail"
  <1>1. PICK eqs, completeness : eqs = Equations(ev) /\ d \in Discrepancies(ev, eqs, completeness)
    BY DEF Verdict
  <1>2. d \in Classify(eqs, ev)
    <2>1. SUFFICES ASSUME d \notin Classify(eqs, ev) PROVE FALSE
      OBVIOUS
    <2>2. d \in Noted(ev.unsigned # {}, "D-SIG-INVALID", "contradiction", {})
               \cup Noted(ev.unauthorized # {}, "D-ISSUER-UNAUTHORIZED", "violation", {})
               \cup Noted(IF ev.observation # NULL /\ ev.registered
                          THEN ev.observation.presented # NULL /\ ev.observation.presented # ev.receipt ELSE FALSE,
                          "D-RECEIPT-PRESENTED-DIFFERS", "contradiction", {"R"})
               \cup Noted(completeness = "gap", "D-GAP", "observation", {})
               \cup Noted(Late(ev), "D-LATE", "observation", {})
      BY <1>1, <2>1 DEF Discrepancies
    <2>3. /\ d.code \in {"D-SIG-INVALID", "D-ISSUER-UNAUTHORIZED", "D-RECEIPT-PRESENTED-DIFFERS", "D-GAP", "D-LATE"}
          /\ d.severity # "violation" \/ d.accused = {}
      BY <2>2 DEF Noted
    <2> QED BY <2>3 DEF RelayCodes
  <1>3. CASE \E e \in DOMAIN Failure : eqs[e] = "fail" /\ d = Failure[e]
    <2>1. PICK e \in DOMAIN Failure : eqs[e] = "fail" /\ d = Failure[e]
      BY <1>3
    <2>2. e \in Charging /\ d.accused = {"R"}
      <3>1. CASE e = "E1"
        BY <2>1, <3>1 DEF Failure, RelayCodes
      <3>2. CASE e = "E2"
        BY <2>1, <3>2 DEF Failure, RelayCodes
      <3>3. CASE e = "E3"
        BY <2>1, <3>3 DEF Failure, RelayCodes
      <3>4. CASE e \in Charging
        BY <2>1, <3>4 DEF Failure, Charging
      <3>5. CASE e = "E6"
        BY <2>1, <3>5 DEF Failure, RelayCodes
      <3>6. CASE e = "E7"
        BY <2>1, <3>6 DEF Failure, RelayCodes
      <3>7. CASE e = "E9"
        BY <2>1, <3>7 DEF Failure, RelayCodes
      <3>8. CASE e = "E12"
        BY <2>1, <3>8 DEF Failure, RelayCodes
      <3> QED BY <3>1, <3>2, <3>3, <3>4, <3>5, <3>6, <3>7, <3>8 DEF Failure, Charging
    <2> QED BY <1>1, <2>1, <2>2
  <1>4. CASE eqs["E8"] = "fail" /\ d.accused = {"R"}
    BY <1>1, <1>4 DEF Charging
  <1> QED BY <1>2, <1>3, <1>4 DEF Classify

(* What R's behaviour explains is not held against it. *)
LEMMA NoCharge ==
  ASSUME i \in Nat, NEW a \in 1 .. i, pc \notin Unpassed, Explained(a), KeptContract(a),
         NEW N \in Nat, NEW entries, DOMAIN entries \subseteq 1 .. N,
         \A n \in DOMAIN entries : entries[n].stmt.attempt = a /\ Sound(entries[n].stmt),
         NEW p, p # NULL => p.attempt = a /\ SoundPrivate(p), NEW e \in Charging
  PROVE  Equations(Gather(entries, p))[e] # "fail"
  <1>1. PICK ev : ev = Gather(entries, p)
    OBVIOUS
  <1>2. PICK c, r, m, o : c = ev.contract /\ r = ev.relay /\ m = ev.receipt /\ o = ev.observation /\ ev.private = p
    BY <1>1 DEF Gather
  <1>3. PICK t, b : t = truths[a] /\ b = BehaviorOf(a)
    OBVIOUS
  <1>4. /\ c # NULL => c.attempt = a /\ SoundContract(c)
        /\ r # NULL => r.attempt = a /\ SoundRelay(r)
        /\ o # NULL => o.attempt = a /\ SoundObservation(o)
        /\ m # NULL => (m.attempt = a /\ SoundReceipt(m)) \/ (o # NULL /\ m = o.presented)
    <2> DEFINE Of(type) == {x \in {entries[n].stmt : n \in DOMAIN entries} : x.type = type}
    <2>1. /\ ev.contract # NULL => ev.contract \in Of("contract")
          /\ ev.relay # NULL => ev.relay \in Of("relay")
          /\ ev.observation # NULL => ev.observation \in Of("observation")
          /\ ev.receipt # NULL => \/ ev.receipt \in Of("receipt")
                                  \/ ev.observation # NULL /\ ev.receipt = ev.observation.presented
      BY <1>1, Gathered
    <2>2. \A type : \A x \in Of(type) : Sound(x) /\ x.type = type /\ x.attempt = a
      OBVIOUS
    <2> HIDE DEF Of
    <2> QED BY <1>2, <2>1, <2>2 DEF Sound
  <1>5. /\ ~ b.dropNonce /\ ~ b.dropSalt /\ Stated(a) \in Allowed
        /\ t.atModel # NULL => t.atModel \in Allowed /\ Permitted(a) /\ t.answer # NULL
        /\ (IF t.atModel = NULL THEN "identity" ELSE b.declared) \in s.transforms
        /\ t.atUser # NULL => t.atUser = t.answer
        /\ t.answer # NULL /\ b.tamper => t.atUser # t.answer
        /\ t.atModel \in Bodies /\ a \in Nat
    BY <1>3 DEF KeptContract, Falsified, Explained, Unpassed
  <1>6. m # NULL => /\ m.attempt = a /\ t.atModel # NULL /\ m.model = t.model /\ m.nonce = a
                    /\ m.req = Commit(a, t.atModel)
                    /\ m.resp \in {NULL, Commit(a, t.answer)} \/ (b.tamper /\ t.answer # NULL)
    <2>1. o # NULL /\ m # NULL /\ m = o.presented => m.attempt = a /\ Issued(m)
      BY <1>3, <1>4, <1>5 DEF SoundObservation
    <2>2. m # NULL => m.attempt = a /\ Issued(m)
      BY <1>4, <2>1 DEF SoundReceipt
    <2> QED BY <1>3, <1>5, <2>2 DEF Issued
  <1>7. c # NULL => /\ c.req = Commit(a, "asked") /\ c.transforms = s.transforms /\ c.respTransforms = {"identity"}
                    /\ c.requested = "model-A" /\ c.allowed = s.allowed /\ c.fallback = s.fallback /\ c.nonce = a
    BY <1>4 DEF SoundContract
  <1>8. r # NULL => /\ r.respTransform = "identity" /\ r.out = Commit(a, Stated(a)) /\ r.nonce = a
                    /\ r.transform \in s.transforms
                    /\ t.atModel = NULL => r.upstream = "model-A"
                    /\ t.atModel # NULL => r.upstream = t.model /\ (b.declareFallback => r.decision = "fallback")
    BY <1>3, <1>4, <1>5 DEF SoundRelay
  <1>9. RequestTransform(c, r, m, p) # "fail"
    <2>1. PICK x \in Allowed : (IF m # NULL /\ m.req # NULL THEN m.req ELSE r.out) = Commit(a, x) \/ (m = NULL /\ r = NULL)
      <3>1. CASE m # NULL
        <4>1. m.req = Commit(a, t.atModel) /\ m.req # NULL
          BY <1>5, <1>6, <3>1, CommitThere
        <4> QED BY <1>5, <1>6, <3>1, <4>1
      <3>2. CASE m = NULL
        BY <1>5, <1>8, <3>2
      <3> QED BY <3>1, <3>2
    <2>2. p # NULL => p.expected = [f \in {Formatter} \cap s.transforms |-> Commit(a, f)]
      BY DEF SoundPrivate
    <2>3. \/ x = "asked" /\ "identity" \in s.transforms
          \/ x = Formatter /\ Formatter \in s.transforms
      BY DEF Allowed
    <2>4. CASE x = "asked" /\ "identity" \in s.transforms
      BY <1>6, <1>7, <1>8, <2>1, <2>4 DEF RequestTransform
    <2>5. CASE x = Formatter /\ Formatter \in s.transforms
      <3>1. CASE p = NULL
        <4>1. ~ s.transforms \subseteq {"identity"}
          BY <2>5, SimulationAssumption
        <4> QED BY <1>6, <1>7, <1>8, <3>1, <4>1 DEF RequestTransform
      <3>2. CASE p # NULL
        <4>1. Formatter \in DOMAIN p.expected \cap s.transforms /\ p.expected[Formatter] = Commit(a, Formatter)
          BY <2>2, <2>5, <3>2
        <4> QED BY <1>6, <1>7, <1>8, <2>1, <2>5, <3>2, <4>1 DEF RequestTransform
      <3> QED BY <3>1, <3>2
    <2> QED BY <2>3, <2>4, <2>5
  <1>10. Equations(ev).E5 # "fail"
    <2>1. c # NULL => (m # NULL => m.nonce = c.nonce) /\ (r # NULL => r.nonce = c.nonce)
      BY <1>6, <1>7, <1>8
    <2> QED BY <1>2, <2>1 DEF Equations, PassIf
  <1>11. Route(c, r, m) # "fail"
    <2>1. SUFFICES ASSUME c # NULL, m # NULL \/ r # NULL PROVE Route(c, r, m) # "fail"
      BY DEF Route
    <2>2. CASE t.atModel = NULL
      BY <1>6, <1>7, <1>8, <2>1, <2>2 DEF Route, Actual
    <2>3. CASE t.atModel # NULL
      <3>1. Actual(r, m) = t.model
        BY <1>6, <1>8, <2>1, <2>3 DEF Actual
      <3>2. \/ t.model = "model-A"
            \/ t.model \in s.allowed /\ s.fallback # "none" /\ b.declareFallback
        BY <1>3, <1>5, <2>3 DEF Permitted
      <3> QED BY <1>7, <1>8, <2>1, <2>3, <3>1, <3>2 DEF Route, PassIf
    <2> QED BY <2>2, <2>3
  <1>12. EndToEnd(c, r, m, o) # "fail"
    <2>1. SUFFICES ASSUME m # NULL, o # NULL, m.resp # NULL PROVE EndToEnd(c, r, m, o) # "fail"
      BY DEF EndToEnd
    <2>2. t.atUser # NULL /\ o.resp = Commit(a, t.atUser)
      BY <1>3, <1>4, <2>1 DEF SoundObservation
    <2>3. m.resp = o.resp
      BY <1>5, <1>6, <2>1, <2>2
    <2> QED BY <1>7, <1>8, <2>3 DEF EndToEnd, PassIf
  <1>13. Equations(ev).E11 # "fail"
    <2>1. \A x \in {c, r, m, o} : x # NULL => x.attempt = a
      BY <1>4, <1>6
    <2> QED BY <1>2, <2>1 DEF Equations, PassIf
  <1>14. Equations(ev).E4 # "fail" /\ Equations(ev).E8 # "fail" /\ Equations(ev).E10 # "fail"
    BY <1>2, <1>9, <1>11, <1>12 DEF Equations
  <1>15. CASE e = "E4"
    BY <1>1, <1>14, <1>15
  <1>16. CASE e = "E5"
    BY <1>1, <1>10, <1>16
  <1>17. CASE e = "E8"
    BY <1>1, <1>14, <1>17
  <1>18. CASE e = "E10"
    BY <1>1, <1>14, <1>18
  <1>19. CASE e = "E11"
    BY <1>1, <1>13, <1>19
  <1> QED BY <1>15, <1>16, <1>17, <1>18, <1>19 DEF Charging

-----------------------------------------------------------------------------
(* What the verdict at place n of the log was given on. *)
Basis(n) == Restrict(log, {k \in EvidenceOn(log[n].stmt.attempt, n - 1) : log[k].at <= log[n].at})

Exact(n) == log[n].stmt.verdict = Verdict(Gather(Basis(n), private[log[n].stmt.attempt]), Parties)

(* What waits for T: no verdicts, and nothing at all unless T is down. *)
Waits == \A p \in {"U", "R", "M"} : (~ down => queue[p] = <<>>) /\ \A x \in Range(queue[p]) : x.type # "verdict"

(* Verdicts are what the log and the private evidence still support: T is  *)
(* asked only when U has handed over what it has on the attempt.           *)
VerdictsExact ==
  ~ TMisbehaved => \A n \in DOMAIN log : log[n].stmt.type = "verdict" =>
    /\ Running => /\ ~ down
                  /\ log[n].stmt.attempt \in 1 .. i
                  /\ log[n].stmt.attempt = i => pc \notin Unseen
    /\ log[n].stmt.attempt \in Attempts => Exact(n)

HeldFits == ~ TMisbehaved => \A h \in held : h.index \in DOMAIN log /\ h.leaves[h.index] = log[h.index].stmt

FinalsFair ==
  ~ Running => \A a \in Attempts : \A d \in finals[a].discrepancies : \A p \in {"U", "R", "M"} :
                 d.severity = "violation" /\ d.accused = {p} => p = "R" /\ ~ KeptContract(a)

Judged == ~ Running /\ ~ TMisbehaved => \A a \in Attempts : VerdictsOn(a) # {}

OnRecord == pc \in {"checkpoint", "audit"} => IsSequence(log) /\ PrivateKept /\ \A x \in Registered : Sound(x)

Anchored == pc = "audit" /\ ~ TMisbehaved => anchor = Leaves(log)

BlameInv ==
  /\ Running => Waits
  /\ VerdictsExact /\ HeldFits /\ FinalsFair /\ Judged /\ OnRecord /\ Anchored
  /\ NoUnjustBlame

LEMMA Places == ASSUME NEW q, IsSequence(q) PROVE Len(q) \in Nat /\ DOMAIN q = 1 .. Len(q)
  BY DEF IsSequence

LEMMA BlameInit == Init => BlameInv
  <1> SUFFICES ASSUME Init PROVE BlameInv
    OBVIOUS
  <1>1. pc = "user" /\ Running /\ log = <<>> /\ held = {} /\ DOMAIN log = {}
    BY DEF Init, Running
  <1>2. Waits
    BY DEF Init, Waits, Range
  <1>3. VerdictsExact /\ HeldFits
    BY <1>1 DEF VerdictsExact, HeldFits
  <1> QED BY <1>1, <1>2, <1>3 DEF BlameInv, FinalsFair, Judged, OnRecord, Anchored, NoUnjustBlame, Done

(* What a verdict stands on stays where it is when the log grows. *)
LEMMA BasisStays ==
  ASSUME IsSequence(log), NEW V, Grows(V), NEW n \in 1 .. Len(log)
  PROVE  Basis(n)' = Basis(n)
  <1>1. PICK l, r : l = log /\ r = log'
    OBVIOUS
  <1>2. Len(l) \in Nat /\ n \in 1 .. Len(l) /\ \A k \in 1 .. Len(l) : r[k] = l[k]
    BY <1>1, Places DEF Grows
  <1>3. \A k \in 1 .. n - 1 : k \in 1 .. Len(l)
    BY <1>2
  <1> DEFINE S == {k \in 1 .. n - 1 : l[k].stmt.attempt = l[n].stmt.attempt /\ l[k].stmt.type # "verdict"
                                      /\ l[k].at <= l[n].at}
             T == {k \in 1 .. n - 1 : r[k].stmt.attempt = r[n].stmt.attempt /\ r[k].stmt.type # "verdict"
                                      /\ r[k].at <= r[n].at}
  <1>4. S = T
    BY <1>2, <1>3
  <1>5. \A k \in S : r[k] = l[k]
    BY <1>2, <1>3
  <1>6. Basis(n) = [k \in S |-> l[k]]
    BY <1>1 DEF Basis, EvidenceOn, Restrict
  <1>7. Basis(n)' = [k \in T |-> r[k]]
    BY <1>1 DEF Basis, EvidenceOn, Restrict
  <1> HIDE DEF S, T
  <1> QED BY <1>4, <1>5, <1>6, <1>7

LEMMA VerdictStays ==
  ASSUME IsSequence(log), NEW V, Grows(V), s' = s, NEW n \in 1 .. Len(log), Exact(n),
         private'[log[n].stmt.attempt] = private[log[n].stmt.attempt]
  PROVE  Exact(n)'
  <1>1. Basis(n)' = Basis(n) /\ log'[n] = log[n] /\ Parties' = Parties
    BY BasisStays DEF Grows, Parties
  <1> QED BY <1>1 DEF Exact

(* A judgement that is recorded when it is given is exact. *)
LEMMA JudgementExact ==
  ASSUME IsSequence(log), NEW V, Grows(V), \A x \in V : x.type = "verdict", UNCHANGED <<s, private>>,
         NEW a, NEW t, NEW n \in 1 .. Len(log'), n > Len(log), log'[n] = VerdictEntry(a, JudgeHonest(a, t), t)
  PROVE  Exact(n)'
  <1>1. PICK l, r : l = log /\ r = log'
    OBVIOUS
  <1>2. /\ Len(l) \in Nat /\ Len(r) \in Nat /\ Len(r) >= Len(l) /\ n \in 1 .. Len(r) /\ n > Len(l)
        /\ \A k \in 1 .. Len(l) : r[k] = l[k]
        /\ \A k \in 1 .. Len(r) : k > Len(l) => r[k].stmt.type = "verdict"
    <2>1. IsSequence(l) /\ IsSequence(r)
      BY <1>1 DEF Grows, IsSequence, Range
    <2> QED BY <1>1, <2>1, Places DEF Grows
  <1>3. \A k \in 1 .. n - 1 : k \in 1 .. Len(r) /\ (k \in 1 .. Len(l) \/ k > Len(l))
    BY <1>2
  <1>8. \A k \in 1 .. Len(l) : k \in 1 .. n - 1
    BY <1>2
  <1> DEFINE S == {k \in 1 .. Len(l) : (l[k].stmt.attempt = a /\ l[k].stmt.type # "verdict") /\ l[k].at <= t}
             T == {k \in 1 .. n - 1 : (r[k].stmt.attempt = a /\ r[k].stmt.type # "verdict") /\ r[k].at <= t}
  <1>4. S = T
    BY <1>2, <1>3, <1>8
  <1>5. \A k \in S : r[k] = l[k]
    BY <1>2
  <1>6. Visible(a, t) = [k \in S |-> l[k]]
    <2>1. {k \in EvidenceOn(a, Len(log)) : log[k].at <= t} = S
      BY <1>1 DEF EvidenceOn
    <2> HIDE DEF S
    <2> QED BY <1>1, <2>1 DEF Visible, Restrict
  <1>9. r[n].stmt.attempt = a /\ r[n].at = t /\ r[n].stmt.verdict = JudgeHonest(a, t)
    BY <1>1 DEF VerdictEntry
  <1>7. Basis(n)' = [k \in T |-> r[k]]
    <2>1. {k \in EvidenceOn(log[n].stmt.attempt, n - 1)' : r[k].at <= r[n].at} = T
      BY <1>1, <1>9 DEF EvidenceOn
    <2> HIDE DEF T
    <2> QED BY <1>1, <2>1 DEF Basis, Restrict
  <1> HIDE DEF S, T
  <1>10. Basis(n)' = Visible(a, t)
    BY <1>4, <1>5, <1>6, <1>7
  <1> QED BY <1>1, <1>9, <1>10 DEF Exact, JudgeHonest, Parties

(* The receipts that are kept fit the log as long as it only grows. *)
LEMMA HeldStays ==
  ASSUME IsSequence(log), NEW V, Grows(V), s' = s, HeldFits, held' = held \/ \E q, t : Hand(q, t)
  PROVE  HeldFits'
  <1>1. SUFFICES ASSUME ~ TMisbehaved, NEW h \in held' PROVE h.index \in DOMAIN log' /\ h.leaves[h.index] = log'[h.index].stmt
    BY DEF HeldFits, TMisbehaved
  <1>2. PICK r : r = log'
    OBVIOUS
  <1>3. IsSequence(r) /\ Len(log) \in Nat /\ Len(r) \in Nat /\ DOMAIN log = 1 .. Len(log) /\ DOMAIN r = 1 .. Len(r)
    <2>1. IsSequence(r)
      BY <1>2 DEF Grows, IsSequence, Range
    <2> QED BY <2>1, Places
  <1>4. CASE h \in held
    <2>1. h.index \in 1 .. Len(log) /\ h.leaves[h.index] = log[h.index].stmt
      BY <1>1, <1>3, <1>4 DEF HeldFits
    <2> QED BY <1>2, <1>3, <2>1 DEF Grows
  <1>5. CASE h \notin held
    <2>1. PICK q, t : Hand(q, t)
      BY <1>1, <1>5
    <2>2. PICK n \in Len(log) + 1 .. Len(r) : h = [index |-> n, leaves |-> SubSeq(Leaves(r), 1, n)]
      BY <1>1, <1>2, <1>5, <2>1 DEF Hand
    <2>3. n \in 1 .. Len(r) /\ n \in Nat
      BY <1>3, <2>2
    <2> DEFINE W == {r[k].stmt : k \in 1 .. Len(r)}
    <2>4. Leaves(r) \in Seq(W) /\ Len(Leaves(r)) = Len(r) /\ \A k \in 1 .. Len(r) : Leaves(r)[k] = r[k].stmt
      <3>1. Leaves(r) \in [1 .. Len(r) -> W]
        BY <1>3 DEF Leaves
      <3> QED BY <1>3, <3>1 DEF Leaves
    <2> HIDE DEF W
    <2>5. PICK all : all = Leaves(r)
      OBVIOUS
    <2>6. SubSeq(all, 1, n)[n] = all[n]
      BY <2>3, <2>4, <2>5
    <2> QED BY <1>2, <1>3, <2>2, <2>3, <2>4, <2>5, <2>6
  <1> QED BY <1>4, <1>5

(* What a step of a party does to T's records: at most its items come in,  *)
(* and private evidence only before U has vouched for what it received.    *)
Handing ==
  \E p \in {"U", "R", "M"} : \E items, t :
    /\ IsSequence(items) /\ Deliver(p, items, t)
    /\ \A x \in Range(items) : x.type # "verdict" /\ (x.type = "private" => x.attempt = i /\ pc \in Unseen)

Comes ==
  /\ \E V : Grows(V) /\ \A x \in V : x.type # "verdict"
  /\ HeldFits => HeldFits'
  /\ Waits'
  /\ ~ down => \A a \in DOMAIN private : private'[a] = private[a] \/ (a = i /\ pc \in Unseen)

LEMMA NothingComes ==
  ASSUME Sequences, Waits, Nothing, UNCHANGED <<s, down>>
  PROVE  Comes
  <1>1. Grows({})
    <2>1. PICK l : l = log /\ l = log'
      BY DEF Nothing
    <2>2. IsSequence(l) /\ Len(l) \in Nat
      BY <2>1, Places DEF Sequences
    <2> QED BY <2>1, <2>2 DEF Grows, IsSequence, Range
  <1>2. HeldFits => HeldFits'
    BY DEF Nothing, HeldFits, TMisbehaved
  <1>3. Waits'
    BY DEF Nothing, Waits, Range
  <1> QED BY <1>1, <1>2, <1>3 DEF Comes, Nothing

LEMMA HandingComes ==
  ASSUME s \in Scenarios, Sequences, Waits, Handing, UNCHANGED <<s, down>>
  PROVE  Comes
  <1>1. PICK p \in {"U", "R", "M"} : \E items, t :
          /\ IsSequence(items) /\ Deliver(p, items, t)
          /\ \A x \in Range(items) : x.type # "verdict" /\ (x.type = "private" => x.attempt = i /\ pc \in Unseen)
    BY DEF Handing
  <1>2. PICK items, t :
          /\ IsSequence(items) /\ Deliver(p, items, t)
          /\ \A x \in Range(items) : x.type # "verdict" /\ (x.type = "private" => x.attempt = i /\ pc \in Unseen)
    BY <1>1
  <1>3. PICK old, q : old = queue[p] /\ q = Enqueue(old, items)
    OBVIOUS
  <1>4. IsSequence(old) /\ IsSequence(q) /\ Range(q) \subseteq Range(old) \cup Range(items)
    <2>1. IsSequence(old)
      BY <1>3 DEF Sequences
    <2> QED BY <1>2, <1>3, <2>1, EnqueueKeeps
  <1>5. \A x \in Range(q) : x.type # "verdict"
    BY <1>2, <1>3, <1>4 DEF Waits
  <1>6. /\ queue' = [queue EXCEPT ![p] = IF down THEN q ELSE <<>>]
        /\ IF down THEN UNCHANGED <<log, held, private>> ELSE Hand(q, t)
    BY <1>2, <1>3 DEF Deliver
  <1>7. Waits'
    <2>1. /\ queue'[p] = IF down THEN q ELSE <<>>
          /\ \A o \in {"U", "R", "M"} : o # p => queue'[o] = queue[o]
      BY <1>6 DEF Sequences
    <2>2. Range(<<>>) = {}
      BY DEF Range
    <2>3. ASSUME NEW o \in {"U", "R", "M"}
          PROVE  (~ down => queue'[o] = <<>>) /\ \A x \in Range(queue'[o]) : x.type # "verdict"
      <3>1. CASE o = p /\ down
        BY <1>5, <2>1, <3>1
      <3>2. CASE o = p /\ ~ down
        BY <2>1, <2>2, <3>2
      <3>3. CASE o # p
        BY <2>1, <3>3 DEF Waits
      <3> QED BY <3>1, <3>2, <3>3
    <2> QED BY <2>3 DEF Waits, Range
  <1>8. CASE down
    <2>1. PICK l : l = log /\ l = log'
      BY <1>6, <1>8
    <2>2. Grows({})
      <3>1. IsSequence(l) /\ Len(l) \in Nat
        BY <2>1, Places DEF Sequences
      <3> QED BY <2>1, <3>1 DEF Grows, IsSequence, Range
    <2>3. HeldFits => HeldFits'
      BY <1>6, <1>8 DEF HeldFits, TMisbehaved
    <2> QED BY <1>7, <1>8, <2>2, <2>3 DEF Comes
  <1>9. CASE ~ down
    <2>1. IsSequence(log) /\ Hand(q, t)
      BY <1>6, <1>9 DEF Sequences
    <2>2. Grows(Range(q))
      BY <1>4, <2>1, HandGrows
    <2>3. HeldFits => HeldFits'
      BY <2>1, <2>2, HeldStays
    <2>4. Range(q) \subseteq Range(items)
      BY <1>3, <1>4, <1>9 DEF Waits, Range
    <2>5. \A a \in DOMAIN private :
            private'[a] = private[a] \/ (private'[a] \in Range(q) /\ private'[a].type = "private" /\ private'[a].attempt = a)
      BY <1>4, <2>1, HandAdds
    <2>6. \A a \in DOMAIN private : private'[a] = private[a] \/ (a = i /\ pc \in Unseen)
      BY <1>2, <2>4, <2>5
    <2> QED BY <1>5, <1>7, <2>2, <2>3, <2>6 DEF Comes
  <1> QED BY <1>8, <1>9

(* A step of the run in which T judges nothing. *)
Busy ==
  /\ Running /\ Running' /\ UNCHANGED <<s, down>>
  /\ i \in Nat /\ i' \in Nat /\ i' >= i /\ (i' = i => (pc \notin Unseen => pc' \notin Unseen))
  /\ Nothing \/ Handing

LEMMA BlameBusy ==
  ASSUME EvidenceInv, BlameInv, Busy
  PROVE  BlameInv'
  <1>1. s \in Scenarios /\ Sequences /\ DOMAIN private = 1 .. s.attempts /\ Waits
    BY DEF EvidenceInv, HarmInv, Positions, BlameInv, Busy, PrivateKept
  <1>2. Comes
    BY <1>1, NothingComes, HandingComes DEF Busy
  <1>3. PICK V : Grows(V) /\ \A x \in V : x.type # "verdict"
    BY <1>2 DEF Comes
  <1>4. VerdictsExact'
    <2>1. PICK l, r : l = log /\ r = log'
      OBVIOUS
    <2>2. IsSequence(l) /\ IsSequence(r) /\ Len(l) \in Nat /\ DOMAIN l = 1 .. Len(l) /\ Len(r) \in Nat /\ DOMAIN r = 1 .. Len(r)
      <3>1. IsSequence(l) /\ IsSequence(r)
        BY <1>1, <1>3, <2>1 DEF Grows, Sequences, IsSequence, Range
      <3> QED BY <3>1, Places
    <2>3. SUFFICES ASSUME ~ TMisbehaved, NEW n \in DOMAIN r, r[n].stmt.type = "verdict"
                   PROVE  /\ ~ down
                          /\ r[n].stmt.attempt \in 1 .. i'
                          /\ r[n].stmt.attempt = i' => pc' \notin Unseen
                          /\ r[n].stmt.attempt \in Attempts => Exact(n)'
      BY <2>1 DEF VerdictsExact, TMisbehaved, Busy, Attempts
    <2>4. n \in 1 .. Len(l) /\ r[n] = l[n]
      <3>1. n <= Len(l)
        <4>1. ~ (n > Len(l))
          BY <1>3, <2>1, <2>2, <2>3 DEF Grows
        <4> QED BY <2>2, <2>3, <4>1
      <3>2. n \in 1 .. Len(l)
        BY <2>2, <2>3, <3>1
      <3> QED BY <1>3, <2>1, <3>2 DEF Grows
    <2>5. /\ ~ down /\ l[n].stmt.attempt \in 1 .. i /\ (l[n].stmt.attempt = i => pc \notin Unseen)
          /\ l[n].stmt.attempt \in Attempts => Exact(n)
      BY <2>1, <2>2, <2>3, <2>4 DEF BlameInv, VerdictsExact, Busy
    <2>6. l[n].stmt.attempt \in 1 .. i' /\ (l[n].stmt.attempt = i' => pc' \notin Unseen)
      BY <2>5 DEF Busy
    <2>7. ASSUME l[n].stmt.attempt \in Attempts PROVE Exact(n)'
      <3>1. private'[l[n].stmt.attempt] = private[l[n].stmt.attempt]
        BY <1>1, <1>2, <2>5, <2>7 DEF Comes, Attempts
      <3>2. IsSequence(log) /\ n \in 1 .. Len(log)
        BY <2>1, <2>2, <2>4
      <3> QED BY <1>3, <2>1, <2>5, <2>7, <3>1, <3>2, VerdictStays DEF Busy
    <2> QED BY <2>4, <2>5, <2>6, <2>7
  <1>5. HeldFits' /\ Waits'
    BY <1>2 DEF Comes, BlameInv
  <1>6. FinalsFair' /\ Judged' /\ OnRecord' /\ Anchored' /\ NoUnjustBlame'
    BY DEF Busy, Running, FinalsFair, Judged, OnRecord, Anchored, NoUnjustBlame, Done
  <1> QED BY <1>4, <1>5, <1>6 DEF BlameInv

(* Handing one thing over, or two. *)
LEMMA HandsOne ==
  ASSUME NEW x, x.type # "verdict", x.type # "private", NEW p \in {"U", "R", "M"}, NEW t, Deliver(p, <<x>>, t)
  PROVE  Handing
  <1>1. PICK q : q = <<x>>
    OBVIOUS
  <1>2. IsSequence(q) /\ Range(q) = {x} /\ Deliver(p, q, t)
    BY <1>1, One
  <1> QED BY <1>2 DEF Handing

LEMMA HandsTwo ==
  ASSUME NEW x, x.type # "verdict", x.type # "private", NEW y, y.type = "private", y.attempt = i, pc \in Unseen,
         NEW t, Deliver("U", <<x, y>>, t)
  PROVE  Handing
  <1>1. PICK q : q = <<x, y>>
    OBVIOUS
  <1>2. IsSequence(q) /\ Range(q) = {x, y} /\ Deliver("U", q, t)
    BY <1>1, One
  <1> QED BY <1>2 DEF Handing

(* Each step of the run but T's answers to U and its return is such a step. *)
LEMMA AllBusy ==
  ASSUME EvidenceInv,
         \/ Request \/ RelayDrops \/ RelayReplays \/ RelayForwards \/ Serve \/ Forge \/ RelayAnswers
         \/ NoAnswer \/ Receive \/ NextAttempt \/ Close
  PROVE  Busy
  <1>0. i \in Nat
    BY DEF EvidenceInv, HarmInv, Positions
  <1>1. CASE Request
    <2>1. PICK x, y, t : x = Contract /\ y = Private /\ Deliver("U", <<x, y>>, t)
      BY <1>1 DEF Request
    <2>2. x.type # "verdict" /\ x.type # "private" /\ y.type = "private" /\ y.attempt = i
      BY <2>1 DEF Contract, Private
    <2>3. pc = "user" /\ pc' = "relay" /\ UNCHANGED <<s, i, down>>
      BY <1>1 DEF Request
    <2>4. Handing
      BY <2>1, <2>2, <2>3, HandsTwo DEF Unseen, Unpassed, Unanswered
    <2> QED BY <1>0, <2>3, <2>4 DEF Busy, Running, Unseen, Unpassed, Unanswered
  <1>2. CASE RelayDrops
    <2>1. PICK x, t : x.type = "relay" /\ (Nothing \/ Deliver("R", <<x>>, t))
      <3>1. PICK x : x = RelayStatement(Commit(i, "asked"), "identity", "model-A", NULL, NULL, "refused", i)
        OBVIOUS
      <3>2. x.type = "relay"
        BY <3>1 DEF RelayStatement
      <3> QED BY <1>2, <3>1, <3>2 DEF RelayDrops
    <2>2. pc = "relay" /\ pc' = "received" /\ UNCHANGED <<s, i, down>>
      BY <1>2 DEF RelayDrops
    <2> QED BY <1>0, <2>1, <2>2, HandsOne DEF Busy, Running, Unseen, Unpassed, Unanswered
  <1>3. CASE RelayReplays
    <2>1. PICK x, t : x.type = "relay" /\ (Nothing \/ Deliver("R", <<x>>, t))
      <3>1. PICK again, x : again = Commit(i, cache.body)
                            /\ x = RelayStatement(Commit(i, "asked"), "identity", "model-A", again, again, "forwarded", i)
        OBVIOUS
      <3>2. x.type = "relay"
        BY <3>1 DEF RelayStatement
      <3> QED BY <1>3, <3>1, <3>2 DEF RelayReplays
    <2>2. pc = "relay" /\ pc' = "received" /\ UNCHANGED <<s, i, down>>
      BY <1>3 DEF RelayReplays
    <2> QED BY <1>0, <2>1, <2>2, HandsOne DEF Busy, Running, Unseen, Unpassed, Unanswered
  <1>4. CASE RelayForwards
    BY <1>0, <1>4 DEF RelayForwards, Busy, Running, Unseen, Unpassed, Unanswered
  <1>5. CASE Serve
    <2>1. PICK answer, decision, m, t :
            (m = NULL \/ m = Receipt(answer, decision)) /\ HandReceipt(m, t)
      BY <1>5 DEF Serve
    <2>2. m # NULL => m.type = "receipt"
      BY <2>1 DEF Receipt
    <2>3. Nothing \/ Handing
      BY <2>1, <2>2, HandsOne DEF HandReceipt
    <2>4. pc = "model" /\ pc' \in {"forge", "answer"} /\ UNCHANGED <<s, i, down>>
      BY <1>5 DEF Serve
    <2> QED BY <1>0, <2>3, <2>4 DEF Busy, Running, Unseen, Unpassed, Unanswered
  <1>6. CASE Forge
    <2>1. PICK m, t : (m = NULL /\ Nothing) \/ (m = Receipt(Passed(wire.answer), "served") /\ m # NULL /\ Deliver("M", <<m>>, t))
      BY <1>6 DEF Forge
    <2>2. m # NULL => m.type = "receipt"
      BY <2>1 DEF Receipt
    <2>3. Nothing \/ Handing
      BY <2>1, <2>2, HandsOne
    <2>4. pc = "forge" /\ pc' = "answer" /\ UNCHANGED <<s, i, down>>
      BY <1>6 DEF Forge
    <2> QED BY <1>0, <2>3, <2>4 DEF Busy, Running, Unseen, Unpassed, Unanswered
  <1>7. CASE RelayAnswers
    <2>1. PICK x, t : x.type = "relay" /\ (Nothing \/ Deliver("R", <<x>>, t))
      <3>1. PICK out, transform, upstream, respIn, respOut, decision, nonce, t :
              Nothing \/ Deliver("R", <<RelayStatement(out, transform, upstream, respIn, respOut, decision, nonce)>>, t)
        BY <1>7 DEF RelayAnswers
      <3>2. PICK x : x = RelayStatement(out, transform, upstream, respIn, respOut, decision, nonce)
        OBVIOUS
      <3>3. x.type = "relay"
        BY <3>2 DEF RelayStatement
      <3> QED BY <3>1, <3>2, <3>3
    <2>2. pc = "answer" /\ pc' = "received" /\ UNCHANGED <<s, i, down>>
      BY <1>7 DEF RelayAnswers
    <2> QED BY <1>0, <2>1, <2>2, HandsOne DEF Busy, Running, Unseen, Unpassed, Unanswered
  <1>8. CASE NoAnswer
    BY <1>0, <1>8 DEF NoAnswer, Busy, Running, Unseen, Unpassed, Unanswered
  <1>9. CASE Receive
    <2>1. PICK x, y, t : x = Observation /\ y = Private /\ Deliver("U", <<x, y>>, t)
      BY <1>9 DEF Receive
    <2>2. x.type # "verdict" /\ x.type # "private" /\ y.type = "private" /\ y.attempt = i
      BY <2>1 DEF Observation, Private
    <2>3. pc = "received" /\ pc' \in {"next", "poll"} /\ UNCHANGED <<s, i, down>>
      BY <1>9 DEF Receive
    <2>4. Handing
      BY <2>1, <2>2, <2>3, HandsTwo DEF Unseen
    <2> QED BY <1>0, <2>3, <2>4 DEF Busy, Running, Unseen
  <1>10. CASE NextAttempt
    BY <1>0, <1>10 DEF NextAttempt, Busy, Running, Unseen, Unpassed, Unanswered
  <1>11. CASE Close
    <2>1. PICK x, t : x.type = "manifest" /\ Deliver("U", <<x>>, t)
      <3>1. PICK x : x = [type |-> "manifest", iss |-> "U", signed |-> TRUE, attempt |-> 0]
        OBVIOUS
      <3> QED BY <1>11, <3>1 DEF Close, Manifest
    <2>2. pc = "close" /\ pc' = "final" /\ UNCHANGED <<s, i, down>>
      BY <1>11 DEF Close
    <2> QED BY <1>0, <2>1, <2>2, HandsOne DEF Busy, Running, Unseen, Unpassed, Unanswered
  <1> QED BY <1>1, <1>2, <1>3, <1>4, <1>5, <1>6, <1>7, <1>8, <1>9, <1>10, <1>11

(* U asks only while T answers, and after it has handed over all it has. *)
LEMMA BlamePoll == EvidenceInv /\ BlameInv /\ Poll => BlameInv'
  <1> SUFFICES ASSUME EvidenceInv, BlameInv, Poll PROVE BlameInv'
    OBVIOUS
  <1>1. /\ pc = "poll" /\ pc' \in {"next", "poll"} /\ UNCHANGED <<s, i, down, queue, private, held>> /\ Running /\ Running'
    BY DEF Poll, Running
  <1>2. i \in Nat \ {0} /\ IsSequence(log) /\ Waits
    BY <1>1 DEF EvidenceInv, HarmInv, Positions, Sequences, BlameInv
  <1>3. PICK l, r, e : /\ l = log /\ r = log' /\ e = VerdictEntry(i, Judge(i, now), now)
                       /\ r = l \/ (~ down /\ r = Append(l, e))
    <2>1. PICK reply : reply = RequestVerdict(i, now)
      OBVIOUS
    <2>2. log' = log \/ (reply # NULL /\ log' = Append(log, VerdictEntry(i, reply.verdict, now)))
      BY <2>1 DEF Poll
    <2>3. reply # NULL => ~ down /\ reply.verdict = Judge(i, now)
      BY <2>1 DEF RequestVerdict
    <2> QED BY <2>2, <2>3
  <1>4. /\ IsSequence(l) /\ IsSequence(r) /\ Len(l) \in Nat /\ DOMAIN l = 1 .. Len(l) /\ Len(r) \in Nat /\ DOMAIN r = 1 .. Len(r)
        /\ Len(r) >= Len(l) /\ \A n \in 1 .. Len(l) : r[n] = l[n]
        /\ \A n \in 1 .. Len(r) : n > Len(l) => r[n] = e /\ ~ down
    <2>0. IsSequence(l) /\ Len(l) \in Nat
      BY <1>2, <1>3, Places
    <2>1. CASE r = l
      BY <2>0, <2>1, Places
    <2>2. CASE ~ down /\ r = Append(l, e)
      <3>1. IsSequence(r) /\ Len(r) = Len(l) + 1 /\ r[Len(r)] = e /\ \A n \in 1 .. Len(l) : r[n] = l[n]
        BY <2>0, <2>2, AppendKeeps, SMTT(30) DEF IsSequence, Range
      <3>2. \A n \in 1 .. Len(r) : n > Len(l) => n = Len(r)
        BY <2>0, <3>1
      <3> QED BY <2>0, <2>2, <3>1, <3>2, Places
    <2> QED BY <1>3, <2>1, <2>2
  <1>5. e.stmt.type = "verdict" /\ e.stmt.attempt = i
    BY <1>3 DEF VerdictEntry
  <1>6. Grows({e.stmt})
    BY <1>3, <1>4 DEF Grows, IsSequence, Range
  <1>7. VerdictsExact'
    <2>1. SUFFICES ASSUME ~ TMisbehaved, NEW n \in DOMAIN r, r[n].stmt.type = "verdict"
                   PROVE  /\ ~ down
                          /\ r[n].stmt.attempt \in 1 .. i
                          /\ r[n].stmt.attempt = i => pc' \notin Unseen
                          /\ r[n].stmt.attempt \in Attempts => Exact(n)'
      BY <1>1, <1>3 DEF VerdictsExact, TMisbehaved, Attempts
    <2>2. pc' \notin Unseen
      BY <1>1 DEF Unseen, Unpassed, Unanswered
    <2>3. CASE n \in 1 .. Len(l)
      <3>1. /\ ~ down /\ l[n].stmt.attempt \in 1 .. i /\ r[n] = l[n]
            /\ l[n].stmt.attempt \in Attempts => Exact(n)
        BY <1>1, <1>3, <1>4, <2>1, <2>3 DEF BlameInv, VerdictsExact
      <3>2. Exact(n) => Exact(n)'
        BY <1>1, <1>2, <1>3, <1>6, <2>3, VerdictStays
      <3> QED BY <2>2, <3>1, <3>2
    <2>4. CASE n \notin 1 .. Len(l)
      <3>1. n > Len(l) /\ n \in 1 .. Len(r)
        BY <1>4, <2>4
      <3>2. r[n] = e /\ ~ down
        BY <1>4, <3>1
      <3>3. e = VerdictEntry(i, JudgeHonest(i, now), now)
        BY <1>3, <2>1 DEF Judge, TMisbehaved
      <3>4. Exact(n)'
        <4>1. PICK a, t : a = i /\ t = now /\ e = VerdictEntry(a, JudgeHonest(a, t), t)
          BY <3>3
        <4>2. n \in 1 .. Len(log') /\ n > Len(log) /\ log'[n] = VerdictEntry(a, JudgeHonest(a, t), t)
          BY <1>3, <3>1, <3>2, <4>1
        <4> QED BY <1>1, <1>2, <1>5, <1>6, <4>2, JudgementExact
      <3> QED BY <1>2, <1>5, <2>2, <3>2, <3>4
    <2> QED BY <2>3, <2>4
  <1>8. HeldFits'
    BY <1>1, <1>2, <1>6, HeldStays DEF BlameInv
  <1>9. Waits'
    BY <1>1, <1>2 DEF Waits, Range
  <1>10. FinalsFair' /\ Judged' /\ OnRecord' /\ Anchored' /\ NoUnjustBlame'
    BY <1>1 DEF Running, FinalsFair, Judged, OnRecord, Anchored, NoUnjustBlame, Done
  <1> QED BY <1>7, <1>8, <1>9, <1>10 DEF BlameInv

(* What waited for T comes in at last; nothing was judged before. *)
LEMMA BlameRecover == EvidenceInv /\ BlameInv /\ Recover => BlameInv'
  <1> SUFFICES ASSUME EvidenceInv, BlameInv, Recover PROVE BlameInv'
    OBVIOUS
  <1>1. pc = "close" /\ pc' = pc /\ UNCHANGED <<s, i>> /\ down /\ down' = FALSE /\ Running /\ Running'
    BY DEF Recover, Running
  <1>2. Sequences /\ Waits
    BY <1>1 DEF EvidenceInv, BlameInv
  <1>3. PICK all, t : IsSequence(all) /\ Hand(all, t) /\ \A x \in Range(all) : \E p \in {"U", "R", "M"} : x \in Range(queue[p])
    BY <1>2, Waiting
  <1>4. Grows(Range(all)) /\ \A x \in Range(all) : x.type # "verdict"
    BY <1>2, <1>3, HandGrows DEF Sequences, Waits
  <1>5. HeldFits'
    BY <1>1, <1>2, <1>3, <1>4, HeldStays DEF BlameInv, Sequences
  <1>6. VerdictsExact'
    <2>1. PICK l, r : l = log /\ r = log'
      OBVIOUS
    <2>2. /\ DOMAIN l = 1 .. Len(l) /\ Len(l) \in Nat
          /\ DOMAIN r = 1 .. Len(r) /\ Len(r) \in Nat
      <3>1. IsSequence(l) /\ IsSequence(r)
        BY <1>2, <1>4, <2>1 DEF Grows, Sequences, IsSequence, Range
      <3> QED BY <3>1, Places
    <2>3. ASSUME ~ TMisbehaved, NEW n \in DOMAIN r, r[n].stmt.type = "verdict" PROVE FALSE
      <3>1. CASE n > Len(l)
        BY <1>4, <2>1, <2>2, <2>3, <3>1 DEF Grows
      <3>2. CASE ~ (n > Len(l))
        <4>1. n \in 1 .. Len(l)
          BY <2>2, <2>3, <3>2
        <4>2. r[n] = l[n]
          BY <1>4, <2>1, <4>1 DEF Grows
        <4> QED BY <1>1, <2>1, <2>2, <2>3, <4>1, <4>2 DEF BlameInv, VerdictsExact
      <3> QED BY <3>1, <3>2
    <2> QED BY <1>1, <2>1, <2>3 DEF VerdictsExact, TMisbehaved
  <1>7. Waits'
    <2>1. \A p \in {"U", "R", "M"} : queue'[p] = <<>>
      BY <1>2 DEF Recover, Sequences
    <2>2. Range(<<>>) = {}
      BY DEF Range
    <2> QED BY <2>1, <2>2 DEF Waits, Range
  <1>8. FinalsFair' /\ Judged' /\ OnRecord' /\ Anchored' /\ NoUnjustBlame'
    BY <1>1 DEF Running, FinalsFair, Judged, OnRecord, Anchored, NoUnjustBlame, Done
  <1> QED BY <1>5, <1>6, <1>7, <1>8 DEF BlameInv

(* On the evidence that is sound nobody is charged but R, and R only when  *)
(* it broke the contract.                                                  *)
LEMMA ChargesDeserved ==
  ASSUME i \in Nat, NEW a \in 1 .. i, pc \notin Unpassed, Explained(a),
         NEW N \in Nat, NEW entries, DOMAIN entries \subseteq 1 .. N,
         \A n \in DOMAIN entries : entries[n].stmt.attempt = a /\ Sound(entries[n].stmt),
         NEW p, p # NULL => p.attempt = a /\ SoundPrivate(p),
         NEW parties, NEW d \in Verdict(Gather(entries, p), parties).discrepancies,
         d.code \in RelayCodes \/ (d.severity = "violation" /\ \E q \in {"U", "R", "M"} : d.accused = {q})
  PROVE  d.accused = {"R"} /\ ~ KeptContract(a)
  <1>1. PICK ev : ev = Gather(entries, p)
    OBVIOUS
  <1>2. d \in Verdict(ev, parties).discrepancies
    BY <1>1
  <1>3. d.accused = {"R"} /\ \E e \in Charging : Equations(ev)[e] = "fail"
    BY <1>2, Charges
  <1>4. PICK e \in Charging : Equations(ev)[e] = "fail"
    BY <1>3
  <1>5. KeptContract(a) => Equations(Gather(entries, p))[e] # "fail"
    BY NoCharge
  <1> QED BY <1>1, <1>3, <1>4, <1>5

LEMMA BlameFinalize == EvidenceInv /\ BlameInv /\ Finalize => BlameInv'
  <1> SUFFICES ASSUME EvidenceInv, BlameInv, Finalize PROVE BlameInv'
    OBVIOUS
  <1>1. /\ pc = "final" /\ pc' = "checkpoint" /\ UNCHANGED <<s, i, truths, private, held>> /\ Running /\ ~ Running'
    BY DEF Finalize, Running
  <1>2. /\ IsSequence(log) /\ PrivateKept /\ (\A x \in Registered : Sound(x)) /\ s.attempts \in Nat
        /\ i \in Nat /\ i >= s.attempts /\ Len(truths) = i
    BY <1>1, SimulationAssumption DEF EvidenceInv, HarmInv, Positions, Sequences, Evidence
  <1>3. \A a \in Attempts : a \in 1 .. i /\ Explained(a)
    <2>1. \A a \in 1 .. s.attempts : a \in 1 .. i
      BY <1>2
    <2> QED BY <1>2, <2>1 DEF EvidenceInv, Attempts
  <1>4. finals' = [a \in Attempts |-> Judge(a, now)]
    BY DEF Finalize, Attempts
  <1>5. PICK l, r, more, N : /\ l = log /\ r = log' /\ N = s.attempts
                             /\ more = [a \in 1 .. N |-> VerdictEntry(a, Judge(a, now), now)]
    OBVIOUS
  <1>6. log' = log \o more
    <2>1. more = [a \in 1 .. s.attempts |-> VerdictEntry(a, finals'[a], now)]
      BY <1>4, <1>5 DEF Attempts
    <2> QED BY <2>1 DEF Finalize
  <1> DEFINE W == {VerdictEntry(a, Judge(a, now), now) : a \in 1 .. N}
  <1>7. N \in Nat /\ more \in Seq(W) /\ Len(more) = N /\ \A a \in 1 .. N : more[a] = VerdictEntry(a, Judge(a, now), now)
    <2>1. N \in Nat
      BY <1>2, <1>5
    <2>2. more \in [1 .. N -> W]
      BY <1>5
    <2>3. more \in Seq(W) /\ Len(more) = N
      <3> HIDE DEF W
      <3> QED BY <2>1, <2>2
    <2>4. \A a \in 1 .. N : more[a] = VerdictEntry(a, Judge(a, now), now)
      BY <1>5
    <2> QED BY <2>1, <2>3, <2>4
  <1>8. /\ IsSequence(r) /\ Len(l) \in Nat /\ Len(r) = Len(l) + N /\ DOMAIN l = 1 .. Len(l) /\ DOMAIN r = 1 .. Len(r)
        /\ \A n \in 1 .. Len(l) : r[n] = l[n]
        /\ \A n \in 1 .. Len(r) : n > Len(l) => n - Len(l) \in 1 .. N /\ r[n] = more[n - Len(l)]
    <2>1. IsSequence(l) /\ Len(l) \in Nat /\ DOMAIN l = 1 .. Len(l)
      BY <1>2, <1>5, Places
    <2>2. l \in Seq(Range(l) \cup W) /\ more \in Seq(Range(l) \cup W)
      <3> HIDE DEF W
      <3> QED BY <1>7, <2>1, SeqMonotonic DEF IsSequence
    <2> HIDE DEF W
    <2>3. /\ r \in Seq(Range(l) \cup W) /\ Len(r) = Len(l) + N
          /\ \A n \in 1 .. Len(r) : r[n] = IF n <= Len(l) THEN l[n] ELSE more[n - Len(l)]
      BY <1>5, <1>6, <1>7, <2>2, ConcatProperties
    <2>4. IsSequence(r) /\ DOMAIN r = 1 .. Len(r)
      BY <2>3, RangeOf
    <2>5. \A n \in 1 .. Len(l) : n \in 1 .. Len(r) /\ n <= Len(l)
      BY <1>7, <2>1, <2>3
    <2>6. \A n \in 1 .. Len(r) : n > Len(l) => n - Len(l) \in 1 .. N /\ ~ (n <= Len(l))
      BY <1>7, <2>1, <2>3
    <2> QED BY <2>1, <2>3, <2>4, <2>5, <2>6
  <1>9. \A a \in 1 .. N : more[a].stmt.type = "verdict" /\ more[a].stmt.attempt = a
    BY <1>7 DEF VerdictEntry
  <1> DEFINE V == {more[a].stmt : a \in 1 .. N}
  <1>10. Grows(V) /\ \A x \in V : x.type = "verdict"
    <2>1. \A x \in V : x.type = "verdict"
      BY <1>9
    <2>2. \A n \in 1 .. Len(r) : n > Len(l) => r[n].stmt \in V
      BY <1>8
    <2>3. Len(r) >= Len(l)
      BY <1>7, <1>8
    <2> HIDE DEF V
    <2> QED BY <1>5, <1>8, <2>1, <2>2, <2>3 DEF Grows, IsSequence, Range
  <1> HIDE DEF V, W
  <1>11. VerdictsExact'
    <2>1. SUFFICES ASSUME ~ TMisbehaved, NEW n \in DOMAIN r, r[n].stmt.type = "verdict", r[n].stmt.attempt \in Attempts
                   PROVE  Exact(n)'
      BY <1>1, <1>5 DEF VerdictsExact, TMisbehaved, Attempts
    <2>2. CASE n \in 1 .. Len(l)
      <3>1. Exact(n)
        BY <1>5, <1>8, <2>1, <2>2 DEF BlameInv, VerdictsExact
      <3> QED BY <1>1, <1>2, <1>5, <1>10, <2>2, <3>1, VerdictStays
    <2>3. CASE n \notin 1 .. Len(l)
      <3>1. n > Len(l) /\ n \in 1 .. Len(r)
        BY <1>7, <1>8, <2>3
      <3>2. PICK a, t : a = n - Len(l) /\ t = now
        OBVIOUS
      <3>3. r[n] = VerdictEntry(a, JudgeHonest(a, t), t)
        BY <1>7, <1>8, <2>1, <3>1, <3>2 DEF Judge, TMisbehaved
      <3>4. n \in 1 .. Len(log') /\ n > Len(log) /\ log'[n] = VerdictEntry(a, JudgeHonest(a, t), t)
        BY <1>5, <3>1, <3>3
      <3> QED BY <1>1, <1>2, <1>10, <3>4, JudgementExact
    <2> QED BY <2>2, <2>3
  <1>12. HeldFits'
    BY <1>1, <1>2, <1>10, HeldStays DEF BlameInv
  <1>13. FinalsFair'
    <2>1. SUFFICES ASSUME NEW a \in Attempts, NEW d \in finals'[a].discrepancies, NEW p \in {"U", "R", "M"},
                          d.severity = "violation", d.accused = {p}
                   PROVE  p = "R" /\ ~ KeptContract(a)
      <3>1. \A a : KeptContract(a)' <=> KeptContract(a)
        BY <1>1 DEF KeptContract, Falsified, Permitted, Allowed, BehaviorOf, Stated
      <3> QED BY <1>1, <2>1, <3>1 DEF FinalsFair, Attempts
    <2>2. PICK entries, kept, v, t : /\ t = now /\ entries = Visible(a, t) /\ kept = private[a]
                                     /\ v = Verdict(Gather(entries, kept), Parties)
      OBVIOUS
    <2>3. d \in v.discrepancies
      <3>1. JudgeHonest(a, now) = v
        BY <2>2 DEF JudgeHonest
      <3>2. finals'[a] = Judge(a, now)
        BY <1>4, <2>1
      <3>3. s.misjudge => Judge(a, now).discrepancies = {}
        BY DEF Judge, JudgeHonest, Verdict
      <3> QED BY <2>1, <3>1, <3>2, <3>3 DEF Judge
    <2>4. /\ DOMAIN entries \subseteq 1 .. Len(log) /\ Len(log) \in Nat
          /\ \A n \in DOMAIN entries : entries[n].stmt.attempt = a /\ Sound(entries[n].stmt)
      BY <1>2, <2>2, SeenOn, Places
    <2>5. PICK M \in Nat : DOMAIN entries \subseteq 1 .. M
      BY <2>4
    <2>6. kept # NULL => kept.attempt = a /\ SoundPrivate(kept)
      BY <1>2, <2>2 DEF PrivateKept, Attempts
    <2>7. PICK parties : parties = Parties
      OBVIOUS
    <2>8. d \in Verdict(Gather(entries, kept), parties).discrepancies
      BY <2>2, <2>3, <2>7
    <2>9. d.accused = {"R"} /\ ~ KeptContract(a)
      BY <1>1, <1>2, <1>3, <2>1, <2>4, <2>5, <2>6, <2>8, ChargesDeserved DEF Unpassed, Unanswered
    <2> QED BY <2>1, <2>9
  <1>14. Judged'
    <2>1. SUFFICES ASSUME NEW a \in Attempts PROVE \E n \in DOMAIN r : r[n].stmt.type = "verdict" /\ r[n].stmt.attempt = a
      BY <1>1, <1>5 DEF Judged, Attempts, VerdictsOn
    <2>2. a \in 1 .. N /\ Len(l) + a \in 1 .. Len(r) /\ Len(l) + a > Len(l) /\ (Len(l) + a) - Len(l) = a
      BY <1>5, <1>7, <1>8 DEF Attempts
    <2> QED BY <1>8, <1>9, <2>2
  <1>15. OnRecord'
    <2>1. Onward
      BY <1>1, <1>2 DEF Onward, Unanswered, Unpassed, Unseen
    <2>2. PrivateKept'
      <3>1. \A x : SoundPrivate(x)' <=> SoundPrivate(x)
        BY <1>1 DEF SoundPrivate, Commit
      <3> QED BY <1>1, <1>2, <3>1 DEF PrivateKept
    <2>3. ASSUME NEW n \in DOMAIN r PROVE Sound(r[n].stmt)'
      <3>0. PICK x : x = r[n].stmt
        OBVIOUS
      <3>1. CASE n \in 1 .. Len(l)
        <4>1. Sound(x)
          BY <1>2, <1>5, <1>8, <3>0, <3>1 DEF Registered
        <4>2. Sound(x)'
          BY <2>1, <4>1, SoundStays
        <4>3. x = r[n].stmt /\ x' = x
          BY <3>0
        <4> QED BY <3>0, <4>2, <1>5
      <3>2. CASE n \notin 1 .. Len(l)
        <4>1. x.type = "verdict"
          BY <1>7, <1>8, <1>9, <3>0, <3>2
        <4>2. Sound(x)'
          BY <4>1 DEF Sound
        <4> QED BY <3>0, <4>2
      <3> QED BY <3>1, <3>2
    <2>4. IsSequence(log')
      BY <1>10 DEF Grows
    <2>5. \A x \in Registered' : Sound(x)'
      BY <1>5, <2>3 DEF Registered
    <2> QED BY <2>2, <2>4, <2>5 DEF OnRecord
  <1>16. Anchored' /\ NoUnjustBlame'
    BY <1>1 DEF Anchored, NoUnjustBlame, Done
  <1> QED BY <1>1, <1>11, <1>12, <1>13, <1>14, <1>15, <1>16 DEF BlameInv

(* What TamperEntry leaves in place n, named part by part. *)
LEMMA TamperedIs ==
  ASSUME NEW q, NEW n, NEW x, x = q[n].stmt, NEW y, y = [x EXCEPT !.seq = 999],
         NEW e, e = [stmt |-> y, at |-> q[n].at], NEW r, r = TamperEntry(q, n)
  PROVE  r = [q EXCEPT ![n] = e]
  BY DEF TamperEntry

(* Taking entries out, or renumbering a statement of R, spoils no other.   *)
LEMMA BlameCheckpoint == EvidenceInv /\ BlameInv /\ Checkpoint => BlameInv'
  <1> SUFFICES ASSUME EvidenceInv, BlameInv, Checkpoint PROVE BlameInv'
    OBVIOUS
  <1>1. /\ pc = "checkpoint" /\ pc' = "audit" /\ UNCHANGED <<s, i, truths, private, held, finals>>
        /\ ~ Running /\ ~ Running'
    BY DEF Checkpoint, Running
  <1>2. IsSequence(log) /\ PrivateKept /\ (\A x \in Registered : Sound(x)) /\ i \in Nat
    BY <1>1 DEF BlameInv, OnRecord, EvidenceInv, HarmInv, Positions
  <1>3. PICK l, kept : l = log /\ kept = IF s.omitLog THEN DropSub(log, 1) ELSE log
    OBVIOUS
  <1>4. PICK relays : relays = {n \in DOMAIN kept : kept[n].stmt.type = "relay"}
    OBVIOUS
  <1>5. PICK first : first = CHOOSE n \in relays : \A k \in relays : n <= k
    OBVIOUS
  <1>6. /\ anchor' = Leaves(kept)
        /\ log' = IF s.rewriteLog /\ relays # {} THEN TamperEntry(kept, first) ELSE kept
    BY <1>3, <1>4, <1>5 DEF Checkpoint
  <1>7. Onward
    BY <1>1, <1>2 DEF Onward, Unanswered, Unpassed, Unseen
  <1>8. \A x : Sound(x) => Sound(x)'
    BY <1>7, SoundStays
  <1>9. PrivateKept'
    <2>1. \A x : SoundPrivate(x)' <=> SoundPrivate(x)
      BY <1>1 DEF SoundPrivate, Commit
    <2> QED BY <1>1, <1>2, <2>1 DEF PrivateKept
  <1>10. kept \in Seq({l[n] : n \in 1 .. Len(l)})
    <2>1. CASE s.omitLog
      <3>1. PICK places : kept = Kept(l, places)
        BY <1>3, <2>1 DEF DropSub
      <3>2. kept \in Seq({l[n] : n \in places \cap 1 .. Len(l)})
        BY <1>2, <1>3, <3>1, KeptFrom
      <3> QED BY <3>2, SeqMonotonic
    <2>2. CASE ~ s.omitLog
      <3>1. l \in Seq(Range(l)) /\ Range(l) = {l[n] : n \in 1 .. Len(l)}
        BY <1>2, <1>3, Places DEF IsSequence, Range
      <3> QED BY <1>3, <2>2, <3>1
    <2> QED BY <2>1, <2>2
  <1>11. IsSequence(kept) /\ DOMAIN kept = 1 .. Len(kept) /\ Len(kept) \in Nat
    BY <1>10, RangeOf, Places
  <1>12. \A n \in DOMAIN kept : Sound(kept[n].stmt)
    <2>1. \A n \in DOMAIN kept : \E k \in 1 .. Len(l) : kept[n] = l[k]
      BY <1>10, <1>11
    <2>2. \A k \in 1 .. Len(l) : Sound(l[k].stmt)
      BY <1>2, <1>3, Places DEF Registered
    <2> QED BY <2>1, <2>2
  <1>13. IsSequence(log') /\ \A x \in Registered' : Sound(x)
    <2>1. CASE ~ (s.rewriteLog /\ relays # {})
      BY <1>6, <1>11, <1>12, <2>1 DEF Registered, IsSequence, Range
    <2>2. CASE s.rewriteLog /\ relays # {}
      <3>1. first \in relays
        <4>1. relays \in SUBSET Nat
          BY <1>4, <1>11
        <4>2. \E n \in relays : \A k \in relays : n <= k
          BY <2>2, <4>1, Least
        <4> QED BY <1>5, <4>2
      <3>10. PICK x : x = kept[first].stmt
        OBVIOUS
      <3>11. PICK y : y = [x EXCEPT !.seq = 999]
        OBVIOUS
      <3>12. PICK e : e = [stmt |-> y, at |-> kept[first].at]
        OBVIOUS
      <3>2. x = kept[first].stmt /\ y = [x EXCEPT !.seq = 999] /\ e = [stmt |-> y, at |-> kept[first].at]
        BY <3>10, <3>11, <3>12
      <3>13. PICK r : r = log'
        OBVIOUS
      <3>3. r = log' /\ r = [kept EXCEPT ![first] = e]
        <4>1. r = TamperEntry(kept, first)
          BY <1>6, <2>2, <3>13
        <4> QED BY <3>2, <3>13, <4>1, TamperedIs
      <3>4. x.type = "relay" /\ Sound(x) /\ SoundRelay(x)
        BY <1>4, <1>12, <3>1, <3>2, SMTT(30) DEF Sound
      <3>5. Sound(y)
        <4>1. /\ y.type = x.type /\ y.attempt = x.attempt /\ y.out = x.out /\ y.transform = x.transform
              /\ y.upstream = x.upstream /\ y.decision = x.decision /\ y.nonce = x.nonce
              /\ y.respTransform = x.respTransform /\ DOMAIN y = DOMAIN x
          BY <3>2, <3>4 DEF SoundRelay
        <4>2. SoundRelay(y)
          BY <3>4, <4>1 DEF SoundRelay
        <4> QED BY <3>4, <4>1, <4>2 DEF Sound
      <3> DEFINE W == Range(kept) \cup {e}
      <3>6. r \in Seq(W) /\ Len(r) = Len(kept)
        <4>1. \A n \in 1 .. Len(kept) : r[n] \in W
          BY <1>11, <3>1, <3>3 DEF Range
        <4>2. DOMAIN r = 1 .. Len(kept)
          BY <1>11, <3>3
        <4>3. r \in [1 .. Len(kept) -> W]
          <5> HIDE DEF W
          <5> QED BY <3>3, <4>1, <4>2
        <4> QED BY <1>11, <4>3
      <3>7. IsSequence(r) /\ DOMAIN r = 1 .. Len(kept)
        <4> HIDE DEF W
        <4> QED BY <3>6, RangeOf, Places
      <3>8. \A n \in DOMAIN r : Sound(r[n].stmt)
        <4>1. ASSUME NEW n \in DOMAIN r PROVE Sound(r[n].stmt)
          <5>1. CASE n = first
            <6>1. r[first] = e /\ e.stmt = y
              BY <1>4, <1>11, <3>1, <3>2, <3>3
            <6> QED BY <3>5, <5>1, <6>1
          <5>2. CASE n # first
            BY <1>11, <1>12, <3>3, <3>7, <4>1, <5>2
          <5> QED BY <5>1, <5>2
        <4> QED BY <4>1
      <3> QED BY <3>3, <3>7, <3>8 DEF Registered, IsSequence, Range
    <2> QED BY <2>1, <2>2
  <1>14. OnRecord'
    <2>1. \A x \in Registered' : Sound(x)'
      BY <1>8, <1>13
    <2> QED BY <1>9, <1>13, <2>1 DEF OnRecord
  <1>15. ~ TMisbehaved => log' = log /\ anchor' = Leaves(log)
    BY <1>3, <1>6 DEF TMisbehaved
  <1>16. VerdictsExact'
    <2>1. SUFFICES ASSUME ~ TMisbehaved, NEW n \in DOMAIN log, log[n].stmt.type = "verdict", log[n].stmt.attempt \in Attempts
                   PROVE  Exact(n)'
      BY <1>1, <1>15 DEF VerdictsExact, TMisbehaved, Attempts
    <2>2. Exact(n)
      BY <2>1 DEF BlameInv, VerdictsExact
    <2> QED BY <1>1, <1>15, <2>1, <2>2 DEF Exact, Basis, EvidenceOn, Parties
  <1>17. HeldFits' /\ Judged' /\ Anchored'
    <2>1. HeldFits'
      BY <1>1, <1>15 DEF BlameInv, HeldFits, TMisbehaved
    <2>2. Judged'
      BY <1>1, <1>15 DEF BlameInv, Judged, TMisbehaved, Attempts, VerdictsOn
    <2>3. Anchored'
      BY <1>1, <1>15 DEF Anchored, TMisbehaved, Leaves
    <2> QED BY <2>1, <2>2, <2>3
  <1>18. FinalsFair'
    <2>1. \A a : KeptContract(a)' <=> KeptContract(a)
      BY <1>1 DEF KeptContract, Falsified, Permitted, Allowed, BehaviorOf, Stated
    <2> QED BY <1>1, <2>1 DEF BlameInv, FinalsFair, Attempts
  <1>19. NoUnjustBlame'
    BY <1>1 DEF NoUnjustBlame, Done
  <1> QED BY <1>1, <1>14, <1>16, <1>17, <1>18, <1>19 DEF BlameInv

(* What the auditor finds against T is T's doing, or its haste. *)
LEMMA AuditAccusesT ==
  ASSUME BlameInv, pc = "audit", ~ TMisbehaved, NEW a \in Attempts, ~ JudgedEarly(a),
         NEW n \in VerdictsOn(a)
  PROVE  Replayed(a, n) = log[n].stmt.verdict
  <1>1. IsSequence(log) /\ ~ Running
    BY DEF BlameInv, OnRecord, Running
  <1>2. PICK l : l = log
    OBVIOUS
  <1>3. /\ Len(l) \in Nat /\ n \in 1 .. Len(l) /\ l[n].stmt.type = "verdict" /\ l[n].stmt.attempt = a
        /\ \A k \in 1 .. n - 1 : k \in 1 .. Len(l)
    <2>1. Len(l) \in Nat /\ DOMAIN l = 1 .. Len(l)
      BY <1>1, <1>2, Places
    <2>2. n \in 1 .. Len(l) /\ l[n].stmt.type = "verdict" /\ l[n].stmt.attempt = a
      BY <1>2, <2>1 DEF VerdictsOn
    <2> QED BY <2>1, <2>2
  <1>4. Exact(n)
    BY <1>2, <1>3, Places, <1>1 DEF BlameInv, VerdictsExact
  <1>5. EvidenceOn(a, n - 1) \subseteq DOMAIN Visible(a, l[n].at)
    BY <1>2 DEF JudgedEarly
  <1>6. \A k \in EvidenceOn(a, n - 1) : l[k].at <= l[n].at
    BY <1>2, <1>5 DEF Visible, Restrict
  <1>7. {k \in EvidenceOn(a, n - 1) : l[k].at <= l[n].at} = EvidenceOn(a, n - 1)
    BY <1>6
  <1>8. Basis(n) = Restrict(log, EvidenceOn(a, n - 1))
    BY <1>2, <1>3, <1>7 DEF Basis
  <1> QED BY <1>2, <1>3, <1>4, <1>8 DEF Exact, Replayed

(* What the auditor finds against R from the log alone R has done. *)
LEMMA AuditAccusesR ==
  ASSUME EvidenceInv, BlameInv, pc = "audit", NEW a \in Attempts, NEW n \in 1 .. Len(log) + 1,
         NEW d \in Replayed(a, n).discrepancies, d.code \in RelayCodes
  PROVE  ~ KeptContract(a)
  <1>1. /\ IsSequence(log) /\ PrivateKept /\ (\A x \in Registered : Sound(x)) /\ s.attempts \in Nat
        /\ i \in Nat /\ i >= s.attempts /\ Len(truths) = i
    BY SimulationAssumption DEF BlameInv, OnRecord, EvidenceInv, HarmInv, Positions
  <1>2. a \in 1 .. i /\ Explained(a)
    <2>1. a \in 1 .. i
      BY <1>1 DEF Attempts
    <2> QED BY <1>1, <2>1 DEF EvidenceInv
  <1>3. PICK entries, kept, parties :
          /\ entries = Restrict(log, EvidenceOn(a, n - 1)) /\ kept = private[a] /\ parties = Parties
    OBVIOUS
  <1>4. PICK N \in Nat : N = n - 1 /\ \A k \in 1 .. N : k \in DOMAIN log
    <2>1. Len(log) \in Nat /\ DOMAIN log = 1 .. Len(log)
      BY <1>1, Places
    <2> QED BY <2>1
  <1>5. DOMAIN entries \subseteq 1 .. N /\ \A k \in DOMAIN entries : entries[k].stmt.attempt = a /\ Sound(entries[k].stmt)
    BY <1>1, <1>3, <1>4 DEF EvidenceOn, Restrict, Registered
  <1>6. kept # NULL => kept.attempt = a /\ SoundPrivate(kept)
    BY <1>1, <1>3 DEF PrivateKept, Attempts
  <1>7. d \in Verdict(Gather(entries, kept), parties).discrepancies
    BY <1>3 DEF Replayed
  <1> QED BY <1>1, <1>2, <1>5, <1>6, <1>7, ChargesDeserved DEF Unpassed, Unanswered

LEMMA BlameAudit == EvidenceInv /\ BlameInv /\ Audit => BlameInv'
  <1> SUFFICES ASSUME EvidenceInv, BlameInv, Audit PROVE BlameInv'
    OBVIOUS
  <1>1. /\ pc = "audit" /\ pc' = "done" /\ UNCHANGED <<s, i, truths, private, held, finals, log>>
        /\ ~ Running /\ ~ Running' /\ IsSequence(log)
    BY DEF Audit, Running, BlameInv, OnRecord
  <1>2. /\ \A a : KeptContract(a)' <=> KeptContract(a)
        /\ \A a : JudgedEarly(a)' <=> JudgedEarly(a)
        /\ TMisbehaved' <=> TMisbehaved
    <2>1. \A a : KeptContract(a)' <=> KeptContract(a)
      BY <1>1 DEF KeptContract, Falsified, Permitted, Allowed, BehaviorOf, Stated
    <2>2. \A a : JudgedEarly(a)' <=> JudgedEarly(a)
      BY <1>1 DEF JudgedEarly, VerdictsOn, Visible, EvidenceOn
    <2> QED BY <1>1, <2>1, <2>2 DEF TMisbehaved
  <1>3. VerdictsExact' /\ HeldFits' /\ FinalsFair' /\ Judged' /\ OnRecord' /\ Anchored'
    <2>1. VerdictsExact'
      BY <1>1, <1>2 DEF BlameInv, VerdictsExact, Attempts, Exact, Basis, EvidenceOn, Parties
    <2>2. HeldFits' /\ Judged'
      BY <1>1, <1>2 DEF BlameInv, HeldFits, Judged, Attempts, VerdictsOn
    <2>3. FinalsFair'
      BY <1>1, <1>2 DEF BlameInv, FinalsFair, Attempts
    <2> QED BY <1>1, <2>1, <2>2, <2>3 DEF OnRecord, Anchored
  <1>4. PICK mismatches, missing :
          /\ \A a \in mismatches : VerdictsOn(a) = {} \/ \E n \in VerdictsOn(a) : Replayed(a, n) # log[n].stmt.verdict
          /\ missing = {h \in held : h.index > Len(log) \/ Leaves(log)[h.index] # h.leaves[h.index]}
          /\ audit'.mismatches = mismatches
          /\ \A a \in mismatches : \E n \in 1 .. Len(log) + 1 :
               audit'.recomputed[a] \subseteq {d.code : d \in Replayed(a, n).discrepancies}
          /\ audit'.anchored = (SubSeq(Leaves(log), 1, Len(anchor)) = anchor)
          /\ audit'.missing = (missing # {})
    <2> DEFINE onRecord == {log[n].stmt.attempt : n \in {k \in DOMAIN log : log[k].stmt.type # "verdict"}} \ {0}
               Wrong(a) == \/ VerdictsOn(a) = {}
                           \/ \E n \in VerdictsOn(a) : Signature(Replayed(a, n), private[a] = NULL)
                                                         # Signature(log[n].stmt.verdict, private[a] = NULL)
               End(a) == IF VerdictsOn(a) = {} THEN Len(log) + 1
                         ELSE CHOOSE n \in VerdictsOn(a) : \A k \in VerdictsOn(a) : k <= n
               mismatches == {a \in onRecord : Wrong(a)}
               missing == {h \in held : h.index > Len(log) \/ Leaves(log)[h.index] # h.leaves[h.index]}
    <2>1. /\ audit'.mismatches = mismatches
          /\ audit'.recomputed = [a \in mismatches |-> Signature(Replayed(a, End(a)), private[a] = NULL).codes]
          /\ audit'.anchored = (SubSeq(Leaves(log), 1, Len(anchor)) = anchor)
          /\ audit'.missing = (missing # {})
      BY DEF Audit
    <2>2. ASSUME NEW a PROVE End(a) \in 1 .. Len(log) + 1
      <3>1. Len(log) \in Nat /\ DOMAIN log = 1 .. Len(log)
        BY <1>1, Places
      <3>2. PICK N \in Nat : N = Len(log)
        BY <3>1
      <3>3. VerdictsOn(a) \in SUBSET (1 .. N)
        BY <3>1, <3>2 DEF VerdictsOn
      <3>4. CASE VerdictsOn(a) = {}
        BY <3>1, <3>4
      <3>5. CASE VerdictsOn(a) # {}
        <4>1. \E n \in VerdictsOn(a) : \A k \in VerdictsOn(a) : k <= n
          BY <3>3, <3>5, Greatest
        <4>2. End(a) \in VerdictsOn(a)
          BY <3>5, <4>1
        <4> HIDE DEF End
        <4>3. End(a) \in 1 .. N
          BY <3>3, <4>2
        <4> QED BY <3>2, <4>3
      <3> QED BY <3>4, <3>5
    <2>3. \A a : Wrong(a) => \/ VerdictsOn(a) = {}
                             \/ \E n \in VerdictsOn(a) : Replayed(a, n) # log[n].stmt.verdict
      OBVIOUS
    <2>4. \A v, blind : Signature(v, blind).codes \subseteq {d.code : d \in v.discrepancies}
      BY DEF Signature
    <2> HIDE DEF onRecord, Wrong, End
    <2>5. \A a \in mismatches : audit'.recomputed[a] \subseteq {d.code : d \in Replayed(a, End(a)).discrepancies}
      BY <2>1, <2>4
    <2>6. \A a \in mismatches : VerdictsOn(a) = {} \/ \E n \in VerdictsOn(a) : Replayed(a, n) # log[n].stmt.verdict
      BY <2>3
    <2>7. \A a \in mismatches : \E n \in 1 .. Len(log) + 1 :
            audit'.recomputed[a] \subseteq {d.code : d \in Replayed(a, n).discrepancies}
      BY <2>2, <2>5
    <2>8. PICK wrong, lost : wrong = mismatches /\ lost = missing
      OBVIOUS
    <2> QED BY <2>1, <2>6, <2>7, <2>8
  <1>5. ASSUME NEW a \in Attempts, a \in mismatches PROVE TMisbehaved \/ JudgedEarly(a)
    <2>1. SUFFICES ASSUME ~ TMisbehaved, ~ JudgedEarly(a) PROVE FALSE
      OBVIOUS
    <2>2. VerdictsOn(a) # {}
      BY <1>1, <2>1 DEF BlameInv, Judged
    <2>3. PICK n \in VerdictsOn(a) : Replayed(a, n) # log[n].stmt.verdict
      BY <1>4, <1>5, <2>2
    <2> QED BY <1>1, <2>1, <2>3, AuditAccusesT
  <1>6. ASSUME NEW a \in Attempts, a \in mismatches, audit'.recomputed[a] \cap RelayCodes # {} PROVE ~ KeptContract(a)
    <2>1. PICK n \in 1 .. Len(log) + 1 : audit'.recomputed[a] \subseteq {d.code : d \in Replayed(a, n).discrepancies}
      BY <1>4, <1>6
    <2>2. PICK d \in Replayed(a, n).discrepancies : d.code \in RelayCodes
      BY <1>6, <2>1
    <2> QED BY <1>1, <2>2, AuditAccusesR
  <1>7. ~ TMisbehaved => audit'.anchored /\ ~ audit'.missing
    <2>1. SUFFICES ASSUME ~ TMisbehaved PROVE audit'.anchored /\ ~ audit'.missing
      OBVIOUS
    <2>2. PICK l, leaves : l = log /\ leaves = Leaves(log)
      OBVIOUS
    <2>3. Len(l) \in Nat /\ DOMAIN l = 1 .. Len(l)
      BY <1>1, <2>2, Places
    <2> DEFINE W == {l[k].stmt : k \in 1 .. Len(l)}
    <2>4. leaves \in Seq(W) /\ Len(leaves) = Len(l) /\ \A k \in 1 .. Len(l) : leaves[k] = l[k].stmt
      <3>1. leaves \in [1 .. Len(l) -> W]
        BY <2>2, <2>3 DEF Leaves
      <3> QED BY <2>2, <2>3, <3>1 DEF Leaves
    <2> HIDE DEF W
    <2>5. SubSeq(leaves, 1, Len(leaves)) = leaves
      BY <2>3, <2>4
    <2>6. anchor = leaves
      BY <1>1, <2>1, <2>2 DEF BlameInv, Anchored
    <2>7. missing = {}
      <3>1. ASSUME NEW h \in held PROVE ~ (h.index > Len(log)) /\ Leaves(log)[h.index] = h.leaves[h.index]
        <4>1. h.index \in 1 .. Len(l) /\ h.leaves[h.index] = l[h.index].stmt
          BY <2>1, <2>2, <2>3, <3>1 DEF BlameInv, HeldFits
        <4> QED BY <2>2, <2>3, <2>4, <4>1
      <3> QED BY <1>4, <3>1
    <2> QED BY <1>4, <2>2, <2>5, <2>6, <2>7
  <1>8. NoUnjustBlame'
    <2>1. SUFFICES ASSUME NEW a \in Attempts, NEW p \in Blamed(a)'
                   PROVE  (p = "R" /\ ~ KeptContract(a)) \/ (p = "T" /\ (TMisbehaved \/ JudgedEarly(a)))
      BY <1>1, <1>2 DEF NoUnjustBlame, Attempts
    <2>2. \/ p \in {"U", "R", "M"} /\ \E d \in finals[a].discrepancies : d.severity = "violation" /\ d.accused = {p}
          \/ p = "T" /\ a \in mismatches
          \/ p = "R" /\ a \in mismatches /\ audit'.recomputed[a] \cap RelayCodes # {}
          \/ p = "T" /\ (~ audit'.anchored \/ audit'.missing)
      BY <1>1, <1>4, <2>1 DEF Blamed
    <2>3. CASE p \in {"U", "R", "M"} /\ \E d \in finals[a].discrepancies : d.severity = "violation" /\ d.accused = {p}
      BY <1>1, <2>3 DEF BlameInv, FinalsFair
    <2>4. CASE p = "T" /\ a \in mismatches
      BY <1>5, <2>4
    <2>5. CASE p = "R" /\ a \in mismatches /\ audit'.recomputed[a] \cap RelayCodes # {}
      BY <1>6, <2>5
    <2>6. CASE p = "T" /\ (~ audit'.anchored \/ audit'.missing)
      BY <1>7, <2>6
    <2> QED BY <2>2, <2>3, <2>4, <2>5, <2>6
  <1> QED BY <1>1, <1>3, <1>8 DEF BlameInv

(* From any scenario, with any queue sizes, delays and outages, an honest  *)
(* T's verdicts stay what the log and U's private evidence support, the    *)
(* receipts it gave fit its log, and the verdicts at the end charge nobody *)
(* but an R that broke the contract (engine.py, thirdparty.py, runner.py). *)
THEOREM BlameInvariant == Spec => []BlameInv
  <1>1. EvidenceInv /\ BlameInv /\ [Next]_vars => BlameInv'
    <2> SUFFICES ASSUME EvidenceInv, BlameInv, [Next]_vars PROVE BlameInv'
      OBVIOUS
    <2>1. CASE UNCHANGED vars
      <3>1. CASE Running
        <4>1. Busy
          BY <2>1, <3>1 DEF Busy, Running, vars, Nothing, EvidenceInv, HarmInv, Positions
        <4> QED BY <4>1, BlameBusy
      <3>2. CASE ~ Running
        <4>1. ~ Running'
          BY <2>1, <3>2 DEF Running, vars
        <4>2. /\ UNCHANGED <<s, pc, i, log, held, private, truths, finals, anchor, audit>>
          BY <2>1 DEF vars
        <4>3. \A a : KeptContract(a)' <=> KeptContract(a)
          BY <4>2 DEF KeptContract, Falsified, Permitted, Allowed, BehaviorOf, Stated
        <4>4. \A a : JudgedEarly(a)' <=> JudgedEarly(a)
          BY <4>2 DEF JudgedEarly, VerdictsOn, Visible, EvidenceOn
        <4>5. VerdictsExact'
          BY <3>2, <4>1, <4>2 DEF BlameInv, VerdictsExact, TMisbehaved, Attempts, Exact, Basis, EvidenceOn, Parties
        <4>6. HeldFits' /\ Judged' /\ Anchored'
          BY <3>2, <4>1, <4>2 DEF BlameInv, HeldFits, Judged, Anchored, TMisbehaved, Attempts, VerdictsOn, Leaves
        <4>7. FinalsFair'
          BY <3>2, <4>1, <4>2, <4>3 DEF BlameInv, FinalsFair, Attempts
        <4>8. OnRecord'
          <5>1. Onward
            BY <4>2 DEF Onward, EvidenceInv, HarmInv, Positions
          <5>2. \A x : Sound(x) => Sound(x)'
            BY <5>1, SoundStays
          <5>3. PrivateKept => PrivateKept'
            <6>1. \A x : SoundPrivate(x)' <=> SoundPrivate(x)
              BY <4>2 DEF SoundPrivate, Commit
            <6> QED BY <4>2, <6>1 DEF PrivateKept
          <5>4. Registered' = Registered
            BY <4>2 DEF Registered
          <5>5. IsSequence(log) => IsSequence(log')
            BY <4>2 DEF IsSequence, Range
          <5> QED BY <4>2, <5>2, <5>3, <5>4, <5>5 DEF BlameInv, OnRecord
        <4>9. NoUnjustBlame'
          <5>1. \A a : Blamed(a)' = Blamed(a)
            BY <4>2 DEF Blamed
          <5> QED BY <4>2, <4>3, <4>4, <5>1 DEF BlameInv, NoUnjustBlame, Done, Attempts, TMisbehaved
        <4> QED BY <4>1, <4>5, <4>6, <4>7, <4>8, <4>9 DEF BlameInv
      <3> QED BY <3>1, <3>2
    <2>2. CASE Next
      BY <2>2, AllBusy, BlameBusy, BlamePoll, BlameRecover, BlameFinalize, BlameCheckpoint, BlameAudit DEF Next
    <2> QED BY <2>1, <2>2
  <1> QED BY BlameInit, EvidenceInvariant, <1>1, PTL DEF Spec

(* Nobody who kept the rules is blamed outright, neither by the verdicts   *)
(* nor by the audit: R within its contract, U, M, and T unless it was      *)
(* asked before it could see what it already held (incentives.py:5-7,      *)
(* replay.py, engine.py).                                                  *)
THEOREM NobodyBlamedUnjustly == Spec => []NoUnjustBlame
  <1>1. BlameInv => NoUnjustBlame
    BY DEF BlameInv
  <1> QED BY BlameInvariant, <1>1, PTL

-----------------------------------------------------------------------------
(* A step hands the k statements V over to party p, and not before now'. *)
HandsOver(p, V, k) ==
  \/ V = {} /\ Nothing
  \/ \E items, t : /\ IsSequence(items) /\ Range(items) = V /\ Len(items) = k
                   /\ t \in Nat /\ t <= now' /\ Deliver(p, items, t)

LEMMA HandedAdds ==
  ASSUME s \in Scenarios, Sequences, NEW p \in {"U", "R", "M"}, NEW V, NEW k, HandsOver(p, V, k)
  PROVE  Adds(V)
  BY NothingAdds, DeliverAdds DEF HandsOver

(* What is in the log becomes visible soon, and what comes in is no private *)
(* evidence.                                                               *)
Soon(t) ==
  /\ \A n \in DOMAIN log : log[n].at \in Nat /\ log[n].at <= t
  /\ \A x \in Registered : x.type # "private"

LEMMA GrowsSoon ==
  ASSUME IsSequence(log), NEW u \in Nat, NEW v \in Nat, u <= v, Soon(u), NEW V, Grows(V),
         \A n \in 1 .. Len(log') : n > Len(log) => log'[n].stmt.type # "private" /\ log'[n].at \in Nat /\ log'[n].at <= v
  PROVE  Soon(v)'
  <1>1. PICK l, r : l = log /\ r = log'
    OBVIOUS
  <1>2. /\ IsSequence(l) /\ IsSequence(r) /\ Len(l) \in Nat /\ DOMAIN l = 1 .. Len(l)
        /\ Len(r) \in Nat /\ DOMAIN r = 1 .. Len(r)
    <2>1. IsSequence(l) /\ IsSequence(r)
      BY <1>1 DEF Grows, IsSequence, Range
    <2> QED BY <2>1, Places
  <1>3. ASSUME NEW n \in 1 .. Len(r) PROVE r[n].at \in Nat /\ r[n].at <= v /\ r[n].stmt.type # "private"
    <2>1. CASE n <= Len(l)
      <3>1. n \in 1 .. Len(l) /\ r[n] = l[n]
        BY <1>1, <1>2, <2>1 DEF Grows
      <3>2. l[n].at \in Nat /\ l[n].at <= u /\ l[n].stmt.type # "private"
        BY <1>1, <1>2, <3>1 DEF Soon, Registered
      <3> QED BY <3>1, <3>2
    <2>2. CASE n > Len(l)
      BY <1>1, <1>2, <2>2
    <2> QED BY <1>2, <2>1, <2>2
  <1> QED BY <1>1, <1>2, <1>3 DEF Soon, Registered

LEMMA SameSoon ==
  ASSUME NEW u \in Nat, NEW v \in Nat, u <= v, Soon(u), log' = log
  PROVE  Soon(v)'
  BY DEF Soon, Registered

LEMMA HandedSoon ==
  ASSUME s \in Scenarios, s' = s, Sequences, now \in Nat, now' \in Nat, now <= now', Soon(now + DelayMs),
         NEW p \in {"U", "R", "M"}, NEW V, NEW k, HandsOver(p, V, k)
  PROVE  Soon(now + DelayMs)'
  <1>1. PICK d, u, v : d = DelayMs /\ u = now + d /\ v = now' + d
    OBVIOUS
  <1>2. d \in Nat /\ u \in Nat /\ v \in Nat /\ u <= v /\ v = (now + DelayMs)'
    BY <1>1, SimulationAssumption DEF DelayMs
  <1>3. Soon(u)
    BY <1>1 DEF Soon
  <1>4. Soon(v)'
    <2>1. CASE log' = log
      BY <1>2, <1>3, <2>1, SameSoon
    <2>2. CASE log' # log
      <3>1. PICK items, t : IsSequence(items) /\ t \in Nat /\ t <= now' /\ Deliver(p, items, t)
        BY <2>2 DEF HandsOver, Nothing
      <3>2. PICK q : q = Enqueue(queue[p], items)
        OBVIOUS
      <3>3. IsSequence(q) /\ Hand(q, t)
        BY <2>2, <3>1, <3>2, EnqueueKeeps DEF Deliver, Sequences
      <3>4. /\ Grows(Range(q)) /\ IsSequence(log)
            /\ \A n \in 1 .. Len(log') : n > Len(log) => log'[n].stmt.type # "private" /\ log'[n].at = t + d
        BY <1>1, <3>3, HandGrows DEF Sequences
      <3>5. t + d \in Nat /\ t + d <= v
        <4>1. PICK w : w = now'
          OBVIOUS
        <4>2. w \in Nat /\ t <= w /\ v = w + d
          BY <1>1, <3>1, <4>1
        <4> QED BY <1>2, <3>1, <4>2
      <3> QED BY <1>2, <1>3, <3>4, <3>5, GrowsSoon
    <2> QED BY <2>1, <2>2
  <1> QED BY <1>2, <1>4 DEF Soon, Registered

(* Nothing of what is on record or handed over is lost, nor is the private *)
(* evidence on an attempt.                                                 *)
Handed(a) == private[a] # NULL \/ \E x \in Evidence : x.type = "private" /\ x.attempt = a

Keeps(V) ==
  /\ \A x \in Evidence \cup V : x.type # "private" => x \in Evidence'
  /\ \A a \in DOMAIN private :
       Handed(a) \/ (\E x \in V : x.type = "private" /\ x.attempt = a) => Handed(a)'

LEMMA HandKeeps ==
  ASSUME IsSequence(log), NEW q, IsSequence(q), \A x \in Range(q) : x.type = "private" => x # NULL, NEW t, Hand(q, t)
  PROVE  /\ \A x \in Registered : x \in Registered'
         /\ \A x \in Range(q) : x.type # "private" => x \in Registered'
         /\ \A a \in DOMAIN private :
              private[a] # NULL \/ (\E x \in Range(q) : x.type = "private" /\ x.attempt = a) => private'[a] # NULL
  <1>1. Grows(Range(q)) /\ \A x \in Range(q) : x.type # "private" => x \in Registered'
    BY HandGrows
  <1>2. PICK l, r : l = log /\ r = log'
    OBVIOUS
  <1>3. /\ IsSequence(l) /\ IsSequence(r) /\ Len(l) \in Nat /\ DOMAIN l = 1 .. Len(l)
        /\ Len(r) \in Nat /\ DOMAIN r = 1 .. Len(r)
    <2>1. IsSequence(l) /\ IsSequence(r)
      BY <1>1, <1>2 DEF Grows, IsSequence, Range
    <2> QED BY <2>1, Places
  <1>4. \A n \in 1 .. Len(l) : n \in 1 .. Len(r) /\ r[n] = l[n]
    BY <1>1, <1>2, <1>3 DEF Grows
  <1>5. \A x \in Registered : x \in Registered'
    BY <1>2, <1>3, <1>4 DEF Registered
  <1>6. ASSUME NEW a \in DOMAIN private,
               private[a] # NULL \/ \E x \in Range(q) : x.type = "private" /\ x.attempt = a
        PROVE  private'[a] # NULL
    <2> DEFINE given == {n \in DOMAIN q : q[n].type = "private" /\ q[n].attempt = a}
               last == CHOOSE n \in given : \A k \in given : k <= n
    <2>1. private'[a] = IF given = {} THEN private[a] ELSE q[last]
      BY DEF Hand, ReceivePrivate
    <2>2. CASE given = {}
      BY <1>6, <2>1, <2>2 DEF Range
    <2>3. CASE given # {}
      <3>1. Len(q) \in Nat /\ given \in SUBSET (1 .. Len(q))
        BY DEF IsSequence
      <3>2. \E n \in given : \A k \in given : k <= n
        <4> HIDE DEF given
        <4> QED BY <2>3, <3>1, Greatest
      <3>3. last \in given
        BY <3>2
      <3>4. q[last] \in Range(q) /\ q[last].type = "private"
        BY <3>3 DEF Range
      <3> QED BY <2>1, <2>3, <3>4
    <2> QED BY <2>2, <2>3
  <1> QED BY <1>1, <1>5, <1>6

(* A queue with room keeps what it has and gets. *)
LEMMA EnqueueFits ==
  ASSUME s \in Scenarios, NEW q, IsSequence(q), NEW items, IsSequence(items), Len(q) + Len(items) <= s.capacity
  PROVE  /\ Len(Enqueue(q, items)) = Len(q) + Len(items)
         /\ Range(q) \cup Range(items) \subseteq Range(Enqueue(q, items))
  <1>1. PICK a, b, all : a = q /\ b = items /\ all = a \o b
    OBVIOUS
  <1>2. IsSequence(all) /\ Range(all) = Range(a) \cup Range(b)
    BY <1>1, Joined
  <1>3. Len(all) = Len(a) + Len(b)
    <2>1. a \in Seq(Range(a) \cup Range(b)) /\ b \in Seq(Range(a) \cup Range(b))
      BY <1>1, SeqMonotonic DEF IsSequence
    <2> QED BY <1>1, <2>1, ConcatProperties
  <1>4. Enqueue(q, items) = all
    BY <1>1, <1>3 DEF Enqueue
  <1> QED BY <1>1, <1>2, <1>3, <1>4

LEMMA HandedKeeps ==
  ASSUME s \in Scenarios, Sequences, UNCHANGED down, NEW p \in {"U", "R", "M"}, NEW V, NEW k \in Nat, HandsOver(p, V, k),
         Len(queue[p]) + k <= s.capacity, \A x \in Evidence \cup V : x.type = "private" => x # NULL
  PROVE  /\ Keeps(V)
         /\ Len(queue'[p]) <= Len(queue[p]) + k
         /\ \A o \in {"U", "R", "M"} : o # p => queue'[o] = queue[o]
  <1>0. PICK l : l = Len(queue[p]) /\ l \in Nat
    BY Places DEF Sequences
  <1>1. CASE V = {} /\ Nothing
    <2>1. queue' = queue /\ log' = log /\ private' = private
      BY <1>1 DEF Nothing
    <2>2. Evidence' = Evidence
      BY <2>1 DEF Evidence, Registered
    <2> QED BY <1>0, <1>1, <2>1, <2>2 DEF Keeps, Handed
  <1>2. CASE ~ (V = {} /\ Nothing)
    <2>1. PICK items, t : IsSequence(items) /\ Range(items) = V /\ Len(items) = k /\ Deliver(p, items, t)
      BY <1>2 DEF HandsOver
    <2>2. PICK b, q : b = queue[p] /\ q = Enqueue(b, items)
      OBVIOUS
    <2>3. IsSequence(b) /\ IsSequence(q) /\ Range(q) \subseteq Range(b) \cup V
      BY <2>1, <2>2, EnqueueKeeps DEF Sequences
    <2>4. Len(q) = Len(b) + k /\ Range(b) \cup V \subseteq Range(q)
      BY <2>1, <2>2, <2>3, EnqueueFits
    <2>5. /\ queue' = [queue EXCEPT ![p] = IF down THEN q ELSE <<>>]
          /\ IF down THEN UNCHANGED <<log, held, private>> ELSE Hand(q, t)
      BY <2>1, <2>2 DEF Deliver
    <2>6. queue'[p] = (IF down THEN q ELSE <<>>) /\ \A o \in {"U", "R", "M"} : o # p => queue'[o] = queue[o]
      BY <2>5 DEF Sequences
    <2>7. \A x : \A o \in {"U", "R", "M"} : o # p /\ x \in Range(queue[o]) => x \in Evidence'
      BY <2>6 DEF Evidence
    <2>8. CASE down
      <3>1. Registered' = Registered /\ private' = private
        BY <2>5, <2>8 DEF Registered
      <3>2. \A x \in Range(b) \cup V : x \in Evidence'
        BY <2>4, <2>6, <2>8 DEF Evidence
      <3>3. \A x \in Evidence \cup V : x \in Evidence'
        BY <2>2, <2>7, <3>1, <3>2 DEF Evidence
      <3>4. Keeps(V)
        BY <3>1, <3>3 DEF Keeps, Handed
      <3> QED BY <1>0, <2>2, <2>4, <2>6, <2>8, <3>4
    <2>9. CASE ~ down
      <3>1. \A x \in Range(q) : x.type = "private" => x # NULL
        BY <2>2, <2>3 DEF Evidence
      <3>2. /\ \A x \in Registered : x \in Registered'
            /\ \A x \in Range(q) : x.type # "private" => x \in Registered'
            /\ \A a \in DOMAIN private :
                 private[a] # NULL \/ (\E x \in Range(q) : x.type = "private" /\ x.attempt = a) => private'[a] # NULL
        BY <2>3, <2>5, <2>9, <3>1, HandKeeps DEF Sequences
      <3>3. \A x \in Registered : x \in Evidence'
        BY <3>2 DEF Evidence
      <3>4. \A x \in Range(b) \cup V : x.type # "private" => x \in Evidence'
        BY <2>4, <3>2 DEF Evidence
      <3>5. ASSUME NEW x \in Evidence \cup V PROVE x \in Evidence' \/ x \in Range(q)
        BY <2>2, <2>4, <2>7, <3>3 DEF Evidence
      <3>6. ASSUME NEW a \in DOMAIN private, Handed(a) \/ \E x \in V : x.type = "private" /\ x.attempt = a
            PROVE  Handed(a)'
        BY <3>2, <3>5, <3>6 DEF Handed
      <3>7. Keeps(V)
        BY <3>2, <3>3, <3>5, <3>6 DEF Keeps, Evidence
      <3>8. Len(queue'[p]) = 0
        BY <2>6, <2>9
      <3> QED BY <1>0, <2>6, <3>7, <3>8
    <2> QED BY <2>8, <2>9
  <1> QED BY <1>1, <1>2

-----------------------------------------------------------------------------
(* Nothing that M signs gets to R.                                         *)
NoReceipts == s.modelColludes \/ ~ s.issueReceipts \/ "M" \notin s.cooperation

(* A receipt as M writes one, for some attempt. *)
Presented(m) == m \in ReceiptForms /\ m.nonce \in {NULL, m.attempt}

(* Statements have the form of their kind and name who may issue them.  M  *)
(* commits to the answer it gives.  Where nothing was sent to M, R has     *)
(* shown an earlier answer, with a receipt of that if there was one.       *)
Formed(x) ==
  LET a == x.attempt
  IN /\ x # NULL /\ x.type \in {"contract", "relay", "receipt", "observation", "private", "manifest"}
     /\ x.type = "manifest" => a = 0
     /\ x.type \in {"contract", "relay", "receipt", "observation"} => Usable(x)
     /\ x.type = "receipt" /\ truths[a].answer # NULL /\ ~ BehaviorOf(a).dropSalt => x.resp # NULL
     /\ x.type = "observation" =>
          /\ x.presented # NULL => Presented(x.presented)
          /\ truths[a].atModel = NULL =>
               /\ BehaviorOf(a).replay
               /\ IF x.presented = NULL THEN BehaviorOf(a).strip \/ NoReceipts ELSE x.presented.nonce # a

(* Answers are answers, and U gets one from M only if M gave it. *)
Typed(t) ==
  /\ t.answer \in {NULL} \cup Answers /\ t.atUser \in {NULL} \cup Answers
  /\ t.atUser # NULL /\ t.atModel # NULL => t.answer # NULL

Clock == now \in Nat /\ (Running => Soon(IF pc = "final" THEN now ELSE now + DelayMs))

WireFormed ==
  /\ pc \in {"model", "forge", "answer"} => wire.nonce \in {NULL, i} /\ truths[i].atUser = NULL
  /\ pc \in {"forge", "answer"} => IF wire.receipt = NULL THEN NoReceipts ELSE Presented(wire.receipt)
  /\ pc = "received" /\ wire.body # NULL =>
       /\ wire.receipt # NULL => Presented(wire.receipt)
       /\ truths[i].atModel = NULL =>
            /\ Behavior.replay
            /\ IF wire.receipt = NULL THEN Behavior.strip \/ NoReceipts ELSE wire.receipt.nonce # i
  /\ cache # NULL =>
       /\ cache.body \in Answers
       /\ IF cache.receipt = NULL THEN NoReceipts ELSE Presented(cache.receipt)

FormInv ==
  /\ Clock /\ WireFormed
  /\ \A a \in 1 .. Len(truths) : Typed(truths[a])
  /\ Running => \A x \in Evidence : x.type # "verdict" => Formed(x)

LEMMA FormsUsable ==
  ASSUME NEW x \in ContractForms \cup RelayForms \cup ReceiptForms \cup ObservationForms
  PROVE  x # NULL /\ Usable(x) /\ x.type \in {"contract", "relay", "receipt", "observation"}
  <1>1. CASE x \in ContractForms
    <2>1. x # NULL
      BY <1>1, SimulationAssumption
    <2>2. Usable(x) /\ x.type \in {"contract", "relay", "receipt", "observation"}
      <3>1. x.type = "contract" /\ x.iss = "U" /\ x.signed = TRUE
        BY <1>1 DEF ContractForms
      <3> QED BY <3>1 DEF Usable, MayIssue
    <2> QED BY <2>1, <2>2
  <1>2. CASE x \in RelayForms
    <2>1. x # NULL
      BY <1>2, SimulationAssumption
    <2>2. Usable(x) /\ x.type \in {"contract", "relay", "receipt", "observation"}
      <3>1. x.type = "relay" /\ x.iss = "R" /\ x.signed = TRUE
        BY <1>2 DEF RelayForms
      <3> QED BY <3>1 DEF Usable, MayIssue
    <2> QED BY <2>1, <2>2
  <1>3. CASE x \in ReceiptForms
    <2>1. x # NULL
      BY <1>3, SimulationAssumption
    <2>2. Usable(x) /\ x.type \in {"contract", "relay", "receipt", "observation"}
      <3>1. x.type = "receipt" /\ x.iss = "M" /\ x.signed = TRUE
        BY <1>3 DEF ReceiptForms
      <3> QED BY <3>1 DEF Usable, MayIssue
    <2> QED BY <2>1, <2>2
  <1>4. CASE x \in ObservationForms
    <2>1. x # NULL
      BY <1>4, SimulationAssumption
    <2>2. Usable(x) /\ x.type \in {"contract", "relay", "receipt", "observation"}
      <3>1. x.type = "observation" /\ x.iss = "U" /\ x.signed = TRUE
        BY <1>4 DEF ObservationForms
      <3> QED BY <3>1 DEF Usable, MayIssue
    <2> QED BY <2>1, <2>2
  <1> QED BY <1>1, <1>2, <1>3, <1>4

LEMMA FormedStays ==
  ASSUME Onward, NEW x, Sound(x), Formed(x)
  PROVE  Formed(x)'
  <1>1. NoReceipts' = NoReceipts /\ (\A a : BehaviorOf(a)' = BehaviorOf(a)) /\ \A m : Presented(m)' = Presented(m)
    BY DEF Onward, NoReceipts, BehaviorOf, Presented
  <1>2. x.type = "receipt" => truths'[x.attempt].answer = truths[x.attempt].answer
    BY DEF Sound, SoundReceipt, Onward
  <1>3. x.type = "observation" => truths'[x.attempt].atModel = truths[x.attempt].atModel
    BY DEF Sound, SoundObservation, Onward, Unseen, Unpassed
  <1> QED BY <1>1, <1>2, <1>3 DEF Formed

(* A step of the run before the manifest hands V over. *)
Moves(p, V, k) ==
  /\ Running /\ Running' /\ pc # "final" /\ pc' # "final" /\ UNCHANGED <<s, down>> /\ Onward
  /\ now' \in Nat /\ now <= now'
  /\ p \in {"U", "R", "M"} /\ HandsOver(p, V, k)

LEMMA FormStep ==
  ASSUME EvidenceInv, FormInv, NEW p, NEW V, NEW k, Moves(p, V, k),
         \A x \in V : Formed(x)', \A a \in 1 .. Len(truths') : Typed(truths'[a]), WireFormed'
  PROVE  FormInv'
  <1>1. s \in Scenarios /\ Sequences /\ (\A x \in Evidence : Sound(x)) /\ now \in Nat /\ Soon(now + DelayMs)
    BY DEF Moves, EvidenceInv, HarmInv, Positions, FormInv, Clock
  <1>2. Soon(now + DelayMs)'
    BY <1>1, HandedSoon DEF Moves
  <1>3. Clock'
    BY <1>2 DEF Clock, Moves, Soon, Registered
  <1>4. Adds(V)
    BY <1>1, HandedAdds DEF Moves
  <1>5. \A x \in Evidence : x.type # "verdict" => Formed(x)'
    BY <1>1, FormedStays DEF FormInv, Moves
  <1> QED BY <1>3, <1>4, <1>5 DEF FormInv, Adds, Typed

LEMMA FormInit == Init => FormInv
  <1> SUFFICES ASSUME Init PROVE FormInv
    OBVIOUS
  <1>1. pc = "user" /\ Running /\ DOMAIN log = {} /\ log = <<>> /\ now = 0 /\ cache = NULL /\ truths = <<>>
    BY DEF Init, Running
  <1>2. Evidence = {}
    BY <1>1 DEF Evidence, Registered, Init, Range
  <1> QED BY <1>1, <1>2 DEF FormInv, Clock, Soon, Registered, WireFormed

(* What a step hands over, one thing or two. *)
LEMMA GivesOne ==
  ASSUME NEW p, NEW x, NEW t \in Nat, t <= now', Deliver(p, <<x>>, t)
  PROVE  HandsOver(p, {x}, 1)
  <1>1. PICK q : q = <<x>>
    OBVIOUS
  <1>2. IsSequence(q) /\ Range(q) = {x} /\ Len(q) = 1 /\ Deliver(p, q, t)
    BY <1>1, One
  <1> QED BY <1>2 DEF HandsOver

LEMMA GivesTwo ==
  ASSUME NEW p, NEW x, NEW y, NEW t \in Nat, t <= now', Deliver(p, <<x, y>>, t)
  PROVE  HandsOver(p, {x, y}, 2)
  <1>1. PICK q : q = <<x, y>>
    OBVIOUS
  <1>2. IsSequence(q) /\ Range(q) = {x, y} /\ Len(q) = 2 /\ Deliver(p, q, t)
    BY <1>1, One
  <1> QED BY <1>2 DEF HandsOver

LEMMA PrivateFormed ==
  ASSUME i \in Nat
  PROVE  Private \in PrivateForms /\ Private # NULL
  <1>1. Commit(i, "asked") \in RequestCommits /\ (Formatter \in s.transforms => Commit(i, Formatter) \in RequestCommits)
    BY CommitThere DEF Bodies
  <1>2. ExpectedCommits \in [{Formatter} \cap s.transforms -> RequestCommits]
    BY <1>1 DEF ExpectedCommits
  <1>3. {Formatter} \cap s.transforms \in SUBSET {Formatter}
    OBVIOUS
  <1>4. Private \in PrivateForms
    BY <1>1, <1>2, <1>3 DEF Private, PrivateForms
  <1> QED BY <1>4, SimulationAssumption

LEMMA ContractFormed ==
  ASSUME s \in Scenarios, i \in Nat, now \in Nat
  PROVE  Contract \in ContractForms
  <1>1. Commit(i, "asked") \in RequestCommits
    BY CommitThere DEF Bodies
  <1>2. now + TtlMs \in Nat
    BY DEF TtlMs
  <1> QED BY <1>1, <1>2 DEF Contract, ContractForms

LEMMA RequestMoves ==
  ASSUME EvidenceInv, FormInv, Request
  PROVE  /\ Moves("U", {Contract, Private}, 2)
         /\ Len(truths') = i /\ truths'[i] = Truth(NULL, NULL, NULL, NULL)
         /\ \A a \in 1 .. i - 1 : truths'[a] = truths[a]
         /\ Contract \in ContractForms /\ Private \in PrivateForms /\ Private # NULL
  <1>1. /\ s \in Scenarios /\ i \in Nat \ {0} /\ now \in Nat /\ IsSequence(truths) /\ Len(truths) = i - 1
        /\ pc = "user" /\ pc' = "relay" /\ s' = s /\ i' = i /\ down' = down /\ now' = now + 2
    BY DEF EvidenceInv, HarmInv, Positions, FormInv, Clock, Request, SignMs
  <1>2. HandsOver("U", {Contract, Private}, 2)
    <2>1. PICK c, p, t : c = Contract /\ p = Private /\ t = now'
      OBVIOUS
    <2>2. Deliver("U", <<c, p>>, t) /\ t \in Nat /\ t <= now'
      BY <1>1, <2>1 DEF Request
    <2>3. HandsOver("U", {c, p}, 2)
      BY <2>2, GivesTwo
    <2> QED BY <2>1, <2>3
  <1>3. /\ Len(truths') = i /\ truths'[i] = Truth(NULL, NULL, NULL, NULL)
        /\ \A a \in 1 .. i - 1 : truths'[a] = truths[a]
    <2>1. PICK e : e = Truth(NULL, NULL, NULL, NULL)
      OBVIOUS
    <2>2. truths' = Append(truths, e)
      BY <2>1 DEF Request
    <2> QED BY <1>1, <2>1, <2>2, AppendKeeps, SMTT(30) DEF IsSequence, Range, Truth
  <1>4. Onward
    BY <1>1, <1>3 DEF Onward, Unanswered, Unpassed, Unseen
  <1> QED BY <1>1, <1>2, <1>3, <1>4, ContractFormed, PrivateFormed DEF Moves, Running

LEMMA FormRequest == EvidenceInv /\ FormInv /\ Request => FormInv'
  <1> SUFFICES ASSUME EvidenceInv, FormInv, Request PROVE FormInv'
    OBVIOUS
  <1>1. PICK c, p : c = Contract /\ p = Private
    OBVIOUS
  <1>2. /\ Moves("U", {c, p}, 2) /\ c \in ContractForms /\ p # NULL
        /\ Len(truths') = i /\ truths'[i] = Truth(NULL, NULL, NULL, NULL)
        /\ \A a \in 1 .. i - 1 : truths'[a] = truths[a]
    BY <1>1, RequestMoves
  <1>3. Formed(c)'
    BY <1>1, <1>2, FormsUsable DEF Contract, Formed
  <1>4. Formed(p)'
    BY <1>1, <1>2 DEF Private, Formed
  <1>5. i \in Nat \ {0} /\ Len(truths) = i - 1 /\ pc' = "relay" /\ cache' = cache /\ i' = i
    BY DEF EvidenceInv, HarmInv, Positions, Request
  <1>6. \A a \in 1 .. Len(truths') : Typed(truths'[a])
    BY <1>2, <1>5, SMTT(30) DEF FormInv, Typed, Truth
  <1>7. WireFormed'
    BY <1>2, <1>5 DEF FormInv, WireFormed, NoReceipts, Presented, Moves
  <1> QED BY <1>2, <1>3, <1>4, <1>6, <1>7, FormStep

LEMMA AnswerCommitted ==
  ASSUME NEW a \in Nat, NEW x \in Answers
  PROVE  Commit(a, x) = [salt |-> a, of |-> x] /\ Commit(a, x) \in AnswerCommits /\ Commit(a, x) # NULL
  <1>1. a # NULL /\ [salt |-> a, of |-> x] \in AnswerCommits
    BY SimulationAssumption DEF AnswerCommits
  <1> QED BY <1>1, SimulationAssumption DEF Commit

LEMMA RelayFormed ==
  ASSUME i \in Nat, NEW out \in RequestCommits, NEW transform \in {"identity"} \cup {b.declared : b \in Behaviors},
         NEW upstream \in Models, NEW respIn \in {NULL} \cup AnswerCommits, NEW respOut \in {NULL} \cup AnswerCommits,
         NEW decision \in {"forwarded", "fallback", "refused", "error"}, NEW nonce \in {NULL} \cup Nat
  PROVE  /\ RelayStatement(out, transform, upstream, respIn, respOut, decision, nonce) \in RelayForms
         /\ RelayStatement(out, transform, upstream, respIn, respOut, decision, nonce).type = "relay"
         /\ RelayStatement(out, transform, upstream, respIn, respOut, decision, nonce).attempt = i
         /\ RelayStatement(out, transform, upstream, respIn, respOut, decision, nonce).in = Commit(i, "asked")
  <1>1. Commit(i, "asked") \in RequestCommits
    BY CommitThere DEF Bodies
  <1> QED BY <1>1 DEF RelayStatement, RelayForms

(* What the program's place and the clock allow at a step of the run. *)
LEMMA Stage ==
  ASSUME EvidenceInv, FormInv, Running
  PROVE  /\ s \in Scenarios /\ i \in Nat \ {0} /\ now \in Nat /\ IsSequence(truths)
         /\ pc # "user" => Len(truths) = i /\ i \in 1 .. Len(truths)
         /\ Sequences /\ PrivateKept /\ (\A x \in Evidence : Sound(x)) /\ OnWire /\ HarmInv
         /\ Behavior = BehaviorOf(i) /\ Behavior \in Behaviors
         /\ Upstream \in Models \ {NULL} /\ Rewritten(Behavior) \in Bodies \ {NULL}
  <1>1. /\ s \in Scenarios /\ i \in Nat \ {0} /\ now \in Nat /\ IsSequence(truths)
        /\ pc # "user" => Len(truths) = i /\ i \in 1 .. Len(truths)
        /\ Sequences /\ PrivateKept /\ (\A x \in Evidence : Sound(x)) /\ OnWire /\ HarmInv
    BY DEF EvidenceInv, HarmInv, Positions, FormInv, Clock
  <1>2. Behavior = BehaviorOf(i) /\ Behavior \in Behaviors
    BY <1>1 DEF Behavior, BehaviorOf, Behaviors
  <1>3. Upstream \in Models \ {NULL}
    <2>1. "model-A" # NULL
      BY SimulationAssumption DEF Latency
    <2> QED BY <1>2, <2>1 DEF Upstream, Models
  <1>4. Rewritten(Behavior) \in Bodies \ {NULL}
    BY <1>2, SimulationAssumption DEF Rewritten, Bodies
  <1> QED BY <1>1, <1>2, <1>3, <1>4

Refused == RelayStatement(Commit(i, "asked"), "identity", "model-A", NULL, NULL, "refused", i)

LEMMA DropsMoves ==
  ASSUME EvidenceInv, FormInv, RelayDrops
  PROVE  /\ \E V \in SUBSET {Refused} : Moves("R", V, 1)
         /\ truths' = truths /\ cache' = cache /\ i' = i /\ pc' = "received" /\ wire'.body = NULL
         /\ Refused \in RelayForms /\ Refused.type = "relay" /\ Refused.in = Commit(i, "asked") /\ Refused.attempt = i
  <1>1. pc = "relay" /\ pc' = "received" /\ UNCHANGED <<s, i, down, truths, cache>> /\ Running /\ wire'.body = NULL
    BY DEF RelayDrops, Running, Answer
  <1>2. i \in Nat /\ now \in Nat /\ Len(truths) = i
    BY <1>1, Stage
  <1>3. \/ Nothing /\ now' = now + 40
        \/ Deliver("R", <<Refused>>, now + 22) /\ now' = now + 42
    BY <1>2, SMTT(30) DEF RelayDrops, Refused, HopMs, SignMs
  <1>4. PICK V : V \in SUBSET {Refused} /\ HandsOver("R", V, 1)
    <2>1. PICK x, t : x = Refused /\ t = now + 22
      OBVIOUS
    <2>2. CASE Nothing
      BY <2>2 DEF HandsOver
    <2>3. CASE Deliver("R", <<x>>, t) /\ now' = now + 42
      <3>1. HandsOver("R", {x}, 1)
        BY <1>2, <2>1, <2>3, GivesOne
      <3> QED BY <2>1, <3>1
    <2> QED BY <1>3, <2>1, <2>2, <2>3
  <1>5. now' \in Nat /\ now <= now'
    BY <1>2, <1>3
  <1>6. Onward
    BY <1>1, <1>2 DEF Onward, Unanswered, Unpassed, Unseen
  <1>7. Moves("R", V, 1)
    BY <1>1, <1>4, <1>5, <1>6 DEF Moves, Running
  <1>8. /\ Refused \in RelayForms /\ Refused.type = "relay" /\ Refused.in = Commit(i, "asked")
        /\ Refused.attempt = i
    <2>1. Commit(i, "asked") \in RequestCommits /\ "model-A" \in Models
      BY <1>2, CommitThere DEF Bodies, Models
    <2> QED BY <1>2, <2>1, RelayFormed DEF Refused
  <1> QED BY <1>1, <1>4, <1>7, <1>8

LEMMA FormDrops == EvidenceInv /\ FormInv /\ RelayDrops => FormInv'
  <1> SUFFICES ASSUME EvidenceInv, FormInv, RelayDrops PROVE FormInv'
    OBVIOUS
  <1>1. PICK x : x = Refused
    OBVIOUS
  <1>2. PICK V : V \in SUBSET {x} /\ Moves("R", V, 1)
    BY <1>1, DropsMoves
  <1>3. /\ x \in RelayForms /\ x.type = "relay"
        /\ truths' = truths /\ cache' = cache /\ i' = i /\ pc' = "received" /\ wire'.body = NULL
    BY <1>1, DropsMoves
  <1>4. Formed(x)'
    BY <1>3, FormsUsable DEF Formed
  <1>5. WireFormed'
    BY <1>2, <1>3 DEF FormInv, WireFormed, NoReceipts, Presented, Moves
  <1>6. \A a \in 1 .. Len(truths') : Typed(truths'[a])
    BY <1>3 DEF FormInv
  <1> QED BY <1>2, <1>4, <1>5, <1>6, FormStep

Again == RelayStatement(Commit(i, "asked"), "identity", "model-A", Commit(i, cache.body), Commit(i, cache.body),
                        "forwarded", i)

LEMMA ReplaysMoves ==
  ASSUME EvidenceInv, FormInv, RelayReplays
  PROVE  /\ Moves("R", IF Omits THEN {} ELSE {Again}, 1)
         /\ Behavior.replay /\ cache # NULL /\ cache.body \in Answers /\ cache' = cache /\ i' = i /\ pc' = "received"
         /\ wire'.body = cache.body /\ wire'.receipt = IF Behavior.strip THEN NULL ELSE cache.receipt
         /\ Len(truths') = i /\ (\A a \in 1 .. i : a # i => truths'[a] = truths[a])
         /\ truths'[i].atModel = NULL /\ truths'[i].answer = NULL /\ truths'[i].atUser = cache.body
         /\ Again \in RelayForms /\ Again.type = "relay" /\ Again.in = Commit(i, "asked") /\ Again.attempt = i
  <1>1. /\ pc = "relay" /\ pc' = "received" /\ UNCHANGED <<s, i, down, cache>> /\ Running /\ Behavior.replay /\ cache # NULL
        /\ wire'.body = cache.body /\ wire'.receipt = IF Behavior.strip THEN NULL ELSE cache.receipt
    BY DEF RelayReplays, Running, Answer
  <1>2. i \in Nat /\ now \in Nat /\ Len(truths) = i /\ IsSequence(truths) /\ i \in 1 .. Len(truths) /\ OnWire
    BY <1>1, Stage
  <1>3. cache.body \in Answers
    BY <1>1 DEF FormInv, WireFormed
  <1>4. /\ Len(truths') = i /\ (\A a \in 1 .. i : a # i => truths'[a] = truths[a])
        /\ truths'[i].atModel = NULL /\ truths'[i].answer = NULL /\ truths'[i].atUser = cache.body
    <2>1. truths[i].atModel = NULL /\ truths[i].answer = NULL
      BY <1>1, <1>2 DEF OnWire, Truth
    <2>2. PICK model, body : model = truths[i].model /\ body = cache.body
      OBVIOUS
    <2>3. truths' = [truths EXCEPT ![i] = Truth(NULL, model, NULL, body)]
      BY <1>2, <2>1, <2>2 DEF RelayReplays
    <2> QED BY <1>2, <2>2, <2>3, TruthReplaced DEF IsSequence, Range
  <1>5. /\ Again \in RelayForms /\ Again.type = "relay" /\ Again.in = Commit(i, "asked")
        /\ Again.attempt = i
    <2>1. Commit(i, "asked") \in RequestCommits /\ "model-A" \in Models /\ Commit(i, cache.body) \in AnswerCommits
      BY <1>2, <1>3, CommitThere, AnswerCommitted DEF Bodies, Models
    <2> QED BY <1>2, <2>1, RelayFormed DEF Again
  <1>6. IF Omits THEN Nothing /\ now' = now + 40 ELSE Deliver("R", <<Again>>, now + 22) /\ now' = now + 42
    BY <1>2, SMTT(30) DEF RelayReplays, Again, HopMs, SignMs
  <1>7. HandsOver("R", IF Omits THEN {} ELSE {Again}, 1)
    <2>1. PICK x, t : x = Again /\ t = now + 22
      OBVIOUS
    <2>2. CASE Omits
      BY <1>6, <2>2 DEF HandsOver
    <2>3. CASE ~ Omits
      <3>1. HandsOver("R", {x}, 1)
        BY <1>2, <1>6, <2>1, <2>3, GivesOne
      <3> QED BY <2>1, <2>3, <3>1
    <2> QED BY <2>2, <2>3
  <1>8. Onward
    BY <1>1, <1>2, <1>4 DEF Onward, Unanswered, Unpassed, Unseen
  <1>9. Moves("R", IF Omits THEN {} ELSE {Again}, 1)
    <2>1. now' \in Nat /\ now <= now'
      BY <1>2, <1>6
    <2> QED BY <1>1, <1>7, <1>8, <2>1 DEF Moves, Running
  <1> QED BY <1>1, <1>3, <1>4, <1>5, <1>9

LEMMA FormReplays == EvidenceInv /\ FormInv /\ RelayReplays => FormInv'
  <1> SUFFICES ASSUME EvidenceInv, FormInv, RelayReplays PROVE FormInv'
    OBVIOUS
  <1>1. PICK x, V : x = Again /\ V = IF Omits THEN {} ELSE {x}
    OBVIOUS
  <1>2. /\ Moves("R", V, 1) /\ x \in RelayForms /\ x.type = "relay"
        /\ Behavior.replay /\ cache # NULL /\ cache.body \in Answers /\ cache' = cache /\ i' = i /\ pc' = "received"
        /\ wire'.body = cache.body /\ wire'.receipt = IF Behavior.strip THEN NULL ELSE cache.receipt
        /\ Len(truths') = i /\ (\A a \in 1 .. i : a # i => truths'[a] = truths[a])
        /\ truths'[i].atModel = NULL /\ truths'[i].answer = NULL /\ truths'[i].atUser = cache.body
    BY <1>1, ReplaysMoves
  <1>3. Formed(x)'
    BY <1>2, FormsUsable DEF Formed
  <1>4. pc = "relay" /\ Running
    BY DEF RelayReplays, Running
  <1>5. \A a \in 1 .. Len(truths') : Typed(truths'[a])
    <2>1. Len(truths) = i
      BY <1>4, Stage
    <2> QED BY <1>2, <2>1 DEF FormInv, Typed
  <1>6. WireFormed'
    <2>1. Behavior' = Behavior /\ NoReceipts' = NoReceipts
      BY <1>2 DEF Moves, Behavior, NoReceipts
    <2>2. IF cache.receipt = NULL THEN NoReceipts ELSE Presented(cache.receipt)
      BY <1>2 DEF FormInv, WireFormed
    <2>3. cache.receipt # NULL => cache.receipt.nonce # i
      <3>1. cache.receipt # NULL => cache.receipt.attempt \in Nat /\ cache.receipt.attempt < i
        BY <1>2, <1>4, Stage DEF HarmInv, CacheOlder
      <3>2. i \in Nat /\ i # NULL
        BY <1>4, Stage, SimulationAssumption
      <3> QED BY <2>2, <3>1, <3>2 DEF Presented
    <2> QED BY <1>2, <2>1, <2>2, <2>3 DEF WireFormed, Presented
  <1>7. \A y \in V : Formed(y)'
    BY <1>1, <1>3
  <1> QED BY <1>2, <1>5, <1>6, <1>7, FormStep

LEMMA ForwardsMoves ==
  ASSUME EvidenceInv, FormInv, RelayForwards
  PROVE  /\ Moves("R", {}, 0) /\ now' <= now + 50
         /\ i' = i /\ pc = "relay" /\ pc' = "model" /\ cache' = cache /\ wire'.contract = wire.contract
         /\ wire'.body = Rewritten(Behavior) /\ wire'.nonce \in {NULL, i}
         /\ Len(truths') = i /\ (\A a \in 1 .. i : a # i => truths'[a] = truths[a])
         /\ truths'[i] = Truth(Rewritten(Behavior), Upstream, NULL, NULL)
  <1>1. /\ pc = "relay" /\ pc' = "model" /\ UNCHANGED <<s, i, down, cache>> /\ Running /\ Nothing
        /\ wire'.body = Rewritten(Behavior) /\ wire'.nonce \in {NULL, i} /\ wire'.contract = wire.contract
    BY DEF RelayForwards, Running
  <1>2. i \in Nat /\ now \in Nat /\ Len(truths) = i /\ IsSequence(truths) /\ i \in 1 .. Len(truths) /\ OnWire
    BY <1>1, Stage
  <1>3. /\ Len(truths') = i /\ (\A a \in 1 .. i : a # i => truths'[a] = truths[a])
        /\ truths'[i] = Truth(Rewritten(Behavior), Upstream, NULL, NULL)
    <2>1. truths[i].answer = NULL /\ truths[i].atUser = NULL
      BY <1>1, <1>2 DEF OnWire, Truth
    <2>2. PICK body, model, e : body = Rewritten(Behavior) /\ model = Upstream /\ e = Truth(body, model, NULL, NULL)
      OBVIOUS
    <2>3. truths' = [truths EXCEPT ![i] = e]
      BY <1>2, <2>1, <2>2 DEF RelayForwards
    <2>4. PICK q, r : q = truths /\ r = truths' /\ q \in Seq(Range(q))
      BY <1>2 DEF IsSequence
    <2>5. Len(r) = Len(q) /\ \A j \in 1 .. Len(q) : r[j] = IF j = i THEN e ELSE q[j]
      <3>1. q \in Seq(Range(q) \cup {e})
        BY <2>4, SeqMonotonic
      <3> QED BY <1>2, <2>3, <2>4, <3>1, ExceptSeq
    <2> QED BY <1>2, <2>2, <2>4, <2>5
  <1>4. Onward
    BY <1>1, <1>2, <1>3 DEF Onward, Unanswered, Unpassed, Unseen
  <1>5. now' = now + 45
    BY <1>2 DEF RelayForwards, HopMs, RelayMs
  <1>6. HandsOver("R", {}, 0)
    BY <1>1 DEF HandsOver
  <1> QED BY <1>1, <1>2, <1>3, <1>4, <1>5, <1>6 DEF Moves, Running

LEMMA FormForwards == EvidenceInv /\ FormInv /\ RelayForwards => FormInv'
  <1> SUFFICES ASSUME EvidenceInv, FormInv, RelayForwards PROVE FormInv'
    OBVIOUS
  <1>1. /\ Moves("R", {}, 0) /\ i' = i /\ pc = "relay" /\ pc' = "model" /\ cache' = cache /\ wire'.nonce \in {NULL, i}
        /\ Len(truths') = i /\ (\A a \in 1 .. i : a # i => truths'[a] = truths[a])
        /\ truths'[i] = Truth(Rewritten(Behavior), Upstream, NULL, NULL)
    BY ForwardsMoves
  <1>2. truths'[i].answer = NULL /\ truths'[i].atUser = NULL
    BY <1>1 DEF Truth
  <1>3. \A a \in 1 .. Len(truths') : Typed(truths'[a])
    <2>1. Len(truths) = i
      BY <1>1, Stage DEF Running
    <2> QED BY <1>1, <1>2, <2>1 DEF FormInv, Typed
  <1>4. WireFormed'
    BY <1>1, <1>2 DEF FormInv, WireFormed, NoReceipts, Presented, Moves
  <1> QED BY <1>1, <1>3, <1>4, FormStep

(* A receipt of M, if it writes one. *)
LEMMA ReceiptFormed ==
  ASSUME i \in Nat, wire.salt \in {NULL, i}, wire.nonce \in {NULL, i}, wire.body \in Bodies, Upstream \in Models \ {NULL},
         NEW answer \in {NULL} \cup Answers, NEW decision \in {"served", "refused"}
  PROVE  LET m == Receipt(answer, decision)
         IN /\ m = NULL => NoReceipts
            /\ m # NULL => /\ Presented(m) /\ m.type = "receipt" /\ m.attempt = i /\ m.nonce = wire.nonce
                           /\ answer # NULL /\ wire.salt # NULL => m.resp # NULL
  <1> DEFINE m == Receipt(answer, decision)
  <1>1. CASE ~ s.issueReceipts \/ "M" \notin s.cooperation
    BY <1>1 DEF Receipt, NoReceipts
  <1>2. CASE s.issueReceipts /\ "M" \in s.cooperation
    <2>1. i # NULL
      BY SimulationAssumption
    <2>2. PICK req, resp, hash :
            /\ req = Commit(wire.salt, wire.body)
            /\ resp = IF answer = NULL THEN NULL ELSE Commit(wire.salt, answer)
            /\ hash = HashOf[Upstream]
      OBVIOUS
    <2>3. req \in {NULL} \cup RequestCommits
      BY <2>1, <2>2, CommitThere DEF Commit
    <2>4. resp \in {NULL} \cup AnswerCommits /\ (answer # NULL /\ wire.salt # NULL => resp # NULL)
      BY <2>1, <2>2, AnswerCommitted DEF Commit
    <2>5. hash \in {HashOf[x] : x \in Models \ {NULL}}
      BY <2>2
    <2>6. m = [ type |-> "receipt", iss |-> "M", signed |-> TRUE, kid |-> "M", attempt |-> i, req |-> req, resp |-> resp,
                model |-> Upstream, hash |-> hash, nonce |-> wire.nonce, decision |-> decision ]
      BY <1>2, <2>2 DEF Receipt
    <2>7. m \in ReceiptForms
      BY <2>3, <2>4, <2>5, <2>6 DEF ReceiptForms
    <2>8. m # NULL
      BY <2>7, FormsUsable
    <2> HIDE DEF m
    <2>9. Presented(m) /\ m.type = "receipt" /\ m.attempt = i /\ m.nonce = wire.nonce /\ m.resp = resp
      BY <2>6, <2>7 DEF Presented
    <2> QED BY <2>4, <2>8, <2>9 DEF m
  <1> QED BY <1>1, <1>2

ModelAnswer == IF PreExec = "failed" THEN NULL ELSE Infer(Upstream, wire.body)
ModelReceipt ==
  IF s.modelColludes /\ PreExec # "failed" THEN NULL
  ELSE Receipt(ModelAnswer, IF PreExec = "failed" THEN "refused" ELSE "served")

LEMMA ServeMoves ==
  ASSUME EvidenceInv, FormInv, Serve
  PROVE  /\ Moves("M", {ModelReceipt} \ {NULL}, 1) /\ now' <= now + 250
         /\ i' = i /\ pc = "model" /\ pc' \in {"forge", "answer"} /\ cache' = cache
         /\ pc' = "forge" => Behavior.tamper /\ Behavior.collude
         /\ wire'.contract = wire.contract /\ wire'.body = wire.body /\ wire'.nonce = wire.nonce
         /\ wire'.answer = ModelAnswer /\ wire'.receipt = ModelReceipt
         /\ Len(truths') = i /\ (\A a \in 1 .. i : a # i => truths'[a] = truths[a])
         /\ truths'[i].atModel = truths[i].atModel /\ truths'[i].model = truths[i].model
         /\ truths'[i].answer = ModelAnswer /\ truths'[i].atUser = NULL
         /\ wire.body \in Bodies /\ wire.body = truths[i].atModel
         /\ wire.salt \in {NULL, i} /\ (Behavior.dropSalt \/ wire.salt # NULL)
         /\ ModelAnswer \in {NULL} \cup Answers /\ (ModelReceipt = NULL => NoReceipts)
         /\ ModelReceipt # NULL => /\ Presented(ModelReceipt) /\ ModelReceipt.type = "receipt" /\ ModelReceipt.attempt = i
                                   /\ ModelAnswer # NULL /\ wire.salt # NULL => ModelReceipt.resp # NULL
  <1>1. /\ pc = "model" /\ pc' \in {"forge", "answer"} /\ UNCHANGED <<s, i, down, cache>> /\ Running
        /\ pc' = "forge" => Behavior.tamper /\ Behavior.collude
        /\ wire'.contract = wire.contract /\ wire'.body = wire.body /\ wire'.nonce = wire.nonce
        /\ wire'.answer = ModelAnswer /\ wire'.receipt = ModelReceipt
    BY DEF Serve, Running, Back, ModelAnswer, ModelReceipt
  <1>2. /\ i \in Nat \ {0} /\ now \in Nat /\ Len(truths) = i /\ IsSequence(truths) /\ i \in 1 .. Len(truths) /\ OnWire
        /\ Upstream \in Models \ {NULL} /\ HarmInv
    BY <1>1, Stage
  <1>3. /\ wire.body \in Bodies /\ wire.body = truths[i].atModel /\ wire.salt \in {NULL, i}
        /\ wire.nonce \in {NULL, i} /\ (Behavior.dropSalt \/ wire.salt # NULL)
    <2>1. i # NULL
      BY <1>2, SimulationAssumption
    <2>2. wire.body = truths[i].atModel /\ wire.salt \in {NULL, i}
      BY <1>1, <1>2 DEF HarmInv, Forwarded
    <2>3. truths[i].atModel \in Bodies
      BY <1>2 DEF EvidenceInv, Explained
    <2>4. wire.nonce \in {NULL, i} /\ (Behavior.dropSalt \/ wire.salt = i)
      BY <1>1, <1>2 DEF FormInv, WireFormed, OnWire
    <2> QED BY <2>1, <2>2, <2>3, <2>4
  <1>4. ModelAnswer \in {NULL} \cup Answers
    BY <1>2, <1>3, AnswerThere DEF ModelAnswer
  <1>5. /\ ModelReceipt = NULL => NoReceipts
        /\ ModelReceipt # NULL => /\ Presented(ModelReceipt) /\ ModelReceipt.type = "receipt" /\ ModelReceipt.attempt = i
                                  /\ ModelAnswer # NULL /\ wire.salt # NULL => ModelReceipt.resp # NULL
    <2>1. PICK x, d, m : x = ModelAnswer /\ d = (IF PreExec = "failed" THEN "refused" ELSE "served") /\ m = Receipt(x, d)
      OBVIOUS
    <2>2. /\ m = NULL => NoReceipts
          /\ m # NULL => /\ Presented(m) /\ m.type = "receipt" /\ m.attempt = i
                         /\ x # NULL /\ wire.salt # NULL => m.resp # NULL
      BY <1>2, <1>3, <1>4, <2>1, ReceiptFormed
    <2>3. ModelReceipt = m \/ (ModelReceipt = NULL /\ s.modelColludes)
      BY <2>1 DEF ModelReceipt
    <2> QED BY <2>1, <2>2, <2>3 DEF NoReceipts
  <1>6. /\ Len(truths') = i /\ (\A a \in 1 .. i : a # i => truths'[a] = truths[a])
        /\ truths'[i].atModel = truths[i].atModel /\ truths'[i].model = truths[i].model
        /\ truths'[i].answer = ModelAnswer /\ truths'[i].atUser = NULL
    <2>1. truths[i].atUser = NULL
      BY <1>1 DEF FormInv, WireFormed
    <2>2. PICK atModel, model, x : atModel = truths[i].atModel /\ model = truths[i].model /\ x = ModelAnswer
      OBVIOUS
    <2>3. truths' = [truths EXCEPT ![i] = Truth(atModel, model, x, NULL)]
      BY <1>2, <2>1, <2>2 DEF Serve, ModelAnswer
    <2>4. /\ Len(truths') = Len(truths) /\ (\A a \in 1 .. Len(truths) : a # i => truths'[a] = truths[a])
          /\ truths'[i].atModel = atModel /\ truths'[i].model = model
          /\ truths'[i].answer = x /\ truths'[i].atUser = NULL
      BY <1>2, <2>3, TruthReplaced DEF IsSequence, Range
    <2> QED BY <1>2, <2>2, <2>4
  <1>7. PICK t \in Nat : t >= now /\ t <= now + 200 /\ HandReceipt(ModelReceipt, t)
    <2>1. PICK t : t = now + (IF PreExec = "failed" THEN 0 ELSE Latency[Upstream])
      OBVIOUS
    <2>2. Latency[Upstream] \in 0 .. 200
      BY <1>2, SimulationAssumption DEF Latency
    <2>3. HandReceipt(ModelReceipt, t)
      BY <2>1 DEF Serve, ModelReceipt, ModelAnswer
    <2>4. t \in Nat /\ t >= now /\ t <= now + 200
      <3>1. PICK w, u : w = Latency[Upstream] /\ u = now
        OBVIOUS
      <3>2. w \in 0 .. 200 /\ u \in Nat /\ (t = u \/ t = u + w)
        BY <1>2, <2>1, <2>2, <3>1
      <3> QED BY <3>1, <3>2
    <2> QED BY <2>3, <2>4
  <1>8. now' \in Nat /\ now <= now' /\ now' <= now + 250
    BY <1>2, <1>7 DEF HandReceipt, SignMs, HopMs
  <1>9. HandsOver("M", {ModelReceipt} \ {NULL}, 1)
    <2>1. PICK m, v : m = ModelReceipt /\ v = t + SignMs
      OBVIOUS
    <2>2. CASE m = NULL
      BY <1>7, <2>1, <2>2 DEF HandReceipt, HandsOver
    <2>3. CASE m # NULL
      <3>1. Deliver("M", <<m>>, v) /\ v \in Nat /\ v <= now'
        BY <1>7, <2>1, <2>3 DEF HandReceipt, SignMs, HopMs
      <3>2. HandsOver("M", {m}, 1)
        BY <3>1, GivesOne
      <3> QED BY <2>1, <2>3, <3>2
    <2> QED BY <2>2, <2>3
  <1>10. Onward
    BY <1>1, <1>2, <1>6 DEF Onward, Unanswered, Unpassed, Unseen
  <1>11. Moves("M", {ModelReceipt} \ {NULL}, 1)
    BY <1>1, <1>8, <1>9, <1>10 DEF Moves, Running
  <1> QED BY <1>1, <1>3, <1>4, <1>5, <1>6, <1>8, <1>11

LEMMA FormServe == EvidenceInv /\ FormInv /\ Serve => FormInv'
  <1> SUFFICES ASSUME EvidenceInv, FormInv, Serve PROVE FormInv'
    OBVIOUS
  <1>1. PICK x, m, V : x = ModelAnswer /\ m = ModelReceipt /\ V = {m} \ {NULL}
    OBVIOUS
  <1>2. /\ Moves("M", V, 1)
        /\ i' = i /\ pc = "model" /\ pc' \in {"forge", "answer"} /\ cache' = cache
        /\ wire'.nonce = wire.nonce /\ wire'.receipt = m
        /\ Len(truths') = i /\ (\A a \in 1 .. i : a # i => truths'[a] = truths[a])
        /\ truths'[i].answer = x /\ truths'[i].atUser = NULL
        /\ (Behavior.dropSalt \/ wire.salt # NULL)
        /\ x \in {NULL} \cup Answers /\ (m = NULL => NoReceipts)
        /\ m # NULL => /\ Presented(m) /\ m.type = "receipt" /\ m.attempt = i
                       /\ x # NULL /\ wire.salt # NULL => m.resp # NULL
    BY <1>1, ServeMoves
  <1>3. i' = i /\ s' = s /\ BehaviorOf(i) = Behavior /\ BehaviorOf(i)' = BehaviorOf(i) /\ NoReceipts' = NoReceipts
        /\ Behavior' = Behavior
    BY <1>2 DEF Moves, Behavior, BehaviorOf, NoReceipts
  <1>4. ASSUME m # NULL PROVE Formed(m)'
    <2>1. m \in ReceiptForms
      BY <1>2, <1>4 DEF Presented
    <2>2. Usable(m)
      BY <2>1, FormsUsable
    <2>3. x # NULL /\ ~ BehaviorOf(i).dropSalt => m.resp # NULL
      BY <1>2, <1>3, <1>4
    <2> QED BY <1>2, <1>3, <1>4, <2>2, <2>3 DEF Formed
  <1>5. \A y \in V : Formed(y)'
    BY <1>1, <1>4
  <1>6. \A a \in 1 .. Len(truths') : Typed(truths'[a])
    <2>1. Len(truths) = i
      BY <1>2, Stage DEF Running
    <2> QED BY <1>2, <2>1 DEF FormInv, Typed
  <1>7. WireFormed'
    <2>1. wire.nonce \in {NULL, i}
      BY <1>2 DEF FormInv, WireFormed
    <2> QED BY <1>2, <1>3, <2>1 DEF FormInv, WireFormed, Presented
  <1> QED BY <1>2, <1>5, <1>6, <1>7, FormStep

LEMMA PassedTyped ==
  ASSUME NEW x \in Answers
  PROVE  Passed(x) \in Answers
  BY DEF Passed, Answers

ForgedReceipt == Receipt(Passed(wire.answer), "served")

LEMMA ForgeMoves ==
  ASSUME EvidenceInv, FormInv, Forge
  PROVE  /\ Moves("M", {ForgedReceipt} \ {NULL}, 1)
         /\ i' = i /\ pc = "forge" /\ pc' = "answer" /\ cache' = cache /\ truths' = truths
         /\ wire'.nonce = wire.nonce /\ wire'.receipt = ForgedReceipt
         /\ wire.salt \in {NULL, i} /\ (Behavior.dropSalt \/ wire.salt # NULL)
         /\ ForgedReceipt = NULL => NoReceipts
         /\ ForgedReceipt # NULL =>
              /\ Presented(ForgedReceipt) /\ ForgedReceipt.type = "receipt" /\ ForgedReceipt.attempt = i
              /\ wire.salt # NULL => ForgedReceipt.resp # NULL
  <1>1. /\ pc = "forge" /\ pc' = "answer" /\ UNCHANGED <<s, i, down, cache, truths>> /\ Running
        /\ wire'.nonce = wire.nonce /\ wire'.receipt = ForgedReceipt
    BY DEF Forge, Running, Back, ForgedReceipt
  <1>2. /\ i \in Nat \ {0} /\ now \in Nat /\ Len(truths) = i /\ IsSequence(truths) /\ i \in 1 .. Len(truths) /\ OnWire
        /\ Upstream \in Models \ {NULL} /\ HarmInv
    BY <1>1, Stage
  <1>3. /\ wire.body \in Bodies /\ wire.salt \in {NULL, i} /\ wire.nonce \in {NULL, i}
        /\ (Behavior.dropSalt \/ wire.salt # NULL) /\ wire.answer \in Answers
    <2>1. i # NULL
      BY <1>2, SimulationAssumption
    <2>2. wire.body = truths[i].atModel /\ wire.salt \in {NULL, i} /\ wire.answer = truths[i].answer
      BY <1>1, <1>2 DEF HarmInv, Forwarded, Answered
    <2>3. truths[i].atModel \in Bodies /\ truths[i].answer \in {NULL} \cup Answers
      BY <1>2 DEF EvidenceInv, Explained, FormInv, Typed
    <2>4. wire.nonce \in {NULL, i} /\ (Behavior.dropSalt \/ wire.salt = i) /\ wire.answer # NULL
      BY <1>1, <1>2 DEF FormInv, WireFormed, OnWire
    <2> QED BY <2>1, <2>2, <2>3, <2>4
  <1>4. /\ ForgedReceipt = NULL => NoReceipts
        /\ ForgedReceipt # NULL =>
             /\ Presented(ForgedReceipt) /\ ForgedReceipt.type = "receipt" /\ ForgedReceipt.attempt = i
             /\ wire.salt # NULL => ForgedReceipt.resp # NULL
    <2>1. PICK x, m : x = Passed(wire.answer) /\ m = Receipt(x, "served")
      OBVIOUS
    <2>2. x \in Answers /\ x # NULL
      BY <1>3, <2>1, PassedTyped, SimulationAssumption
    <2>3. /\ m = NULL => NoReceipts
          /\ m # NULL => /\ Presented(m) /\ m.type = "receipt" /\ m.attempt = i
                         /\ x # NULL /\ wire.salt # NULL => m.resp # NULL
      BY <1>2, <1>3, <2>1, <2>2, ReceiptFormed
    <2> QED BY <2>1, <2>2, <2>3 DEF ForgedReceipt
  <1>5. IF ForgedReceipt = NULL THEN Nothing /\ now' = now
        ELSE Deliver("M", <<ForgedReceipt>>, now + 2) /\ now' = now + 2
    BY DEF Forge, ForgedReceipt, SignMs
  <1>6. now' \in Nat /\ now <= now'
    BY <1>2, <1>5
  <1>7. HandsOver("M", {ForgedReceipt} \ {NULL}, 1)
    <2>1. PICK m, v : m = ForgedReceipt /\ v = now + 2
      OBVIOUS
    <2>2. CASE m = NULL
      BY <1>5, <2>1, <2>2 DEF HandsOver
    <2>3. CASE m # NULL
      <3>1. Deliver("M", <<m>>, v) /\ v \in Nat /\ v <= now'
        BY <1>2, <1>5, <2>1, <2>3
      <3>2. HandsOver("M", {m}, 1)
        BY <3>1, GivesOne
      <3> QED BY <2>1, <2>3, <3>2
    <2> QED BY <2>2, <2>3
  <1>8. Onward
    BY <1>1, <1>2 DEF Onward, Unanswered, Unpassed, Unseen
  <1>9. Moves("M", {ForgedReceipt} \ {NULL}, 1)
    BY <1>1, <1>6, <1>7, <1>8 DEF Moves, Running
  <1> QED BY <1>1, <1>3, <1>4, <1>9

LEMMA FormForge == EvidenceInv /\ FormInv /\ Forge => FormInv'
  <1> SUFFICES ASSUME EvidenceInv, FormInv, Forge PROVE FormInv'
    OBVIOUS
  <1>1. PICK m, V : m = ForgedReceipt /\ V = {m} \ {NULL}
    OBVIOUS
  <1>2. /\ Moves("M", V, 1)
        /\ i' = i /\ pc = "forge" /\ pc' = "answer" /\ cache' = cache /\ truths' = truths
        /\ wire'.nonce = wire.nonce /\ wire'.receipt = m
        /\ (Behavior.dropSalt \/ wire.salt # NULL) /\ (m = NULL => NoReceipts)
        /\ m # NULL => /\ Presented(m) /\ m.type = "receipt" /\ m.attempt = i
                       /\ wire.salt # NULL => m.resp # NULL
    BY <1>1, ForgeMoves
  <1>3. i' = i /\ s' = s /\ BehaviorOf(i) = Behavior /\ BehaviorOf(i)' = BehaviorOf(i) /\ NoReceipts' = NoReceipts
    BY <1>2 DEF Moves, Behavior, BehaviorOf, NoReceipts
  <1>4. ASSUME m # NULL PROVE Formed(m)'
    <2>1. m \in ReceiptForms
      BY <1>2, <1>4 DEF Presented
    <2>2. Usable(m)
      BY <2>1, FormsUsable
    <2> QED BY <1>2, <1>3, <1>4, <2>2 DEF Formed
  <1>5. \A y \in V : Formed(y)'
    BY <1>1, <1>4
  <1>6. \A a \in 1 .. Len(truths') : Typed(truths'[a])
    BY <1>2 DEF FormInv
  <1>7. WireFormed'
    <2>1. wire.nonce \in {NULL, i} /\ truths[i].atUser = NULL
      BY <1>2 DEF FormInv, WireFormed
    <2> QED BY <1>2, <1>3, <2>1 DEF FormInv, WireFormed, Presented
  <1> QED BY <1>2, <1>5, <1>6, <1>7, FormStep

(* What R passes on, what of the answer it commits to, and what it says. *)
PassedOn == IF wire.answer # NULL THEN Passed(wire.answer) ELSE NULL
Committed(x) == IF wire.answer # NULL THEN Commit(i, x) ELSE NULL
Claimed == Committed(IF Behavior.collude THEN PassedOn ELSE wire.answer)
Said ==
  RelayStatement(
    IF Behavior.honest THEN Commit(i, wire.body) ELSE Commit(i, "asked"), Behavior.declared, Upstream,
    Claimed, IF Behavior.honest THEN Committed(PassedOn) ELSE Claimed,
    IF wire.answer = NULL THEN "error" ELSE IF Behavior.declareFallback THEN "fallback" ELSE "forwarded",
    IF Behavior.dropNonce THEN NULL ELSE i)

LEMMA AnswersMoves ==
  ASSUME EvidenceInv, FormInv, RelayAnswers
  PROVE  /\ Moves("R", IF Omits THEN {} ELSE {Said}, 1) /\ now' <= now + 50
         /\ i' = i /\ pc = "answer" /\ pc' = "received"
         /\ cache' = IF wire.answer # NULL THEN [body |-> PassedOn, receipt |-> wire.receipt] ELSE cache
         /\ wire'.contract = wire.contract /\ wire'.body = PassedOn
         /\ wire'.receipt = (IF Behavior.strip THEN NULL ELSE wire.receipt)
         /\ Len(truths') = i /\ (\A a \in 1 .. i : a # i => truths'[a] = truths[a])
         /\ truths'[i].atModel = truths[i].atModel /\ truths'[i].model = truths[i].model
         /\ truths'[i].answer = truths[i].answer /\ truths'[i].atUser = PassedOn
         /\ truths[i].atModel # NULL /\ truths[i].answer = wire.answer /\ wire.answer \in {NULL} \cup Answers
         /\ Said \in RelayForms /\ Said.type = "relay" /\ Said.in = Commit(i, "asked") /\ Said.attempt = i
  <1>1. /\ pc = "answer" /\ pc' = "received" /\ UNCHANGED <<s, i, down>> /\ Running
        /\ cache' = IF wire.answer # NULL THEN [body |-> PassedOn, receipt |-> wire.receipt] ELSE cache
        /\ wire'.contract = wire.contract /\ wire'.body = PassedOn
        /\ wire'.receipt = IF Behavior.strip THEN NULL ELSE wire.receipt
    BY DEF RelayAnswers, Running, Answer, PassedOn
  <1>2. /\ i \in Nat \ {0} /\ now \in Nat /\ Len(truths) = i /\ IsSequence(truths) /\ i \in 1 .. Len(truths) /\ OnWire
        /\ Upstream \in Models /\ Behavior \in Behaviors /\ HarmInv
    BY <1>1, Stage
  <1>3. wire.body \in Bodies /\ truths[i].atModel # NULL /\ truths[i].answer = wire.answer /\ wire.answer \in {NULL} \cup Answers
    BY <1>1, <1>2 DEF HarmInv, Forwarded, Answered, EvidenceInv, Explained, OnWire, FormInv, Typed
  <1>4. PassedOn \in {NULL} \cup Answers /\ (wire.answer # NULL => PassedOn \in Answers)
    BY <1>3, PassedTyped DEF PassedOn
  <1>5. /\ Len(truths') = i /\ (\A a \in 1 .. i : a # i => truths'[a] = truths[a])
        /\ truths'[i].atModel = truths[i].atModel /\ truths'[i].model = truths[i].model
        /\ truths'[i].answer = truths[i].answer /\ truths'[i].atUser = PassedOn
    <2>1. PICK atModel, model, x, out : atModel = truths[i].atModel /\ model = truths[i].model /\ x = truths[i].answer /\ out = PassedOn
      OBVIOUS
    <2>2. truths' = [truths EXCEPT ![i] = Truth(atModel, model, x, out)]
      BY <1>2, <2>1 DEF RelayAnswers, PassedOn
    <2>3. /\ Len(truths') = Len(truths) /\ (\A a \in 1 .. Len(truths) : a # i => truths'[a] = truths[a])
          /\ truths'[i].atModel = atModel /\ truths'[i].model = model
          /\ truths'[i].answer = x /\ truths'[i].atUser = out
      BY <1>2, <2>2, TruthReplaced DEF IsSequence, Range
    <2> QED BY <1>2, <2>1, <2>3
  <1>6. IF Omits THEN Nothing /\ now' = now + 20 ELSE Deliver("R", <<Said>>, now + 2) /\ now' = now + 22
    <2>1. IF Omits THEN Nothing /\ now' = now + HopMs
          ELSE Deliver("R", <<Said>>, now + SignMs) /\ now' = now + SignMs + HopMs
      BY DEF RelayAnswers, Said, PassedOn, Committed, Claimed
    <2> QED BY <1>2, <2>1 DEF HopMs, SignMs
  <1>7. HandsOver("R", IF Omits THEN {} ELSE {Said}, 1)
    <2>1. PICK x, t : x = Said /\ t = now + 2
      OBVIOUS
    <2>2. CASE Omits
      BY <1>6, <2>2 DEF HandsOver
    <2>3. CASE ~ Omits
      <3>1. HandsOver("R", {x}, 1)
        BY <1>2, <1>6, <2>1, <2>3, GivesOne
      <3> QED BY <2>1, <2>3, <3>1
    <2> QED BY <2>2, <2>3
  <1>8. Onward
    BY <1>1, <1>2, <1>5 DEF Onward, Unanswered, Unpassed, Unseen
  <1>9. now' \in Nat /\ now <= now' /\ now' <= now + 50
    BY <1>2, <1>6
  <1>10. Moves("R", IF Omits THEN {} ELSE {Said}, 1)
    BY <1>1, <1>7, <1>8, <1>9 DEF Moves, Running
  <1>11. Said \in RelayForms /\ Said.type = "relay" /\ Said.in = Commit(i, "asked") /\ Said.attempt = i
    <2>1. PICK out, respIn, respOut, decision, nonce :
            /\ out = IF Behavior.honest THEN Commit(i, wire.body) ELSE Commit(i, "asked")
            /\ respIn = Claimed /\ respOut = IF Behavior.honest THEN Committed(PassedOn) ELSE Claimed
            /\ decision = IF wire.answer = NULL THEN "error" ELSE IF Behavior.declareFallback THEN "fallback" ELSE "forwarded"
            /\ nonce = IF Behavior.dropNonce THEN NULL ELSE i
      OBVIOUS
    <2>2. out \in RequestCommits
      BY <1>2, <1>3, <2>1, CommitThere DEF Bodies
    <2>3. ASSUME NEW x, wire.answer # NULL => x \in Answers PROVE Committed(x) \in {NULL} \cup AnswerCommits
      BY <1>2, <2>3, AnswerCommitted DEF Committed
    <2>4. respIn \in {NULL} \cup AnswerCommits /\ respOut \in {NULL} \cup AnswerCommits
      <3>1. Claimed \in {NULL} \cup AnswerCommits
        BY <1>3, <1>4, <2>3 DEF Claimed
      <3>2. Committed(PassedOn) \in {NULL} \cup AnswerCommits
        BY <1>4, <2>3
      <3> QED BY <2>1, <3>1, <3>2
    <2>5. decision \in {"forwarded", "fallback", "refused", "error"} /\ nonce \in {NULL} \cup Nat
      BY <1>2, <2>1
    <2>6. Behavior.declared \in {"identity"} \cup {b.declared : b \in Behaviors}
      BY <1>2
    <2>7. PICK transform, upstream : transform = Behavior.declared /\ upstream = Upstream
      OBVIOUS
    <2>8. Said = RelayStatement(out, transform, upstream, respIn, respOut, decision, nonce)
      BY <2>1, <2>7 DEF Said
    <2>9. i \in Nat /\ transform \in {"identity"} \cup {b.declared : b \in Behaviors} /\ upstream \in Models
      BY <1>2, <2>6, <2>7
    <2> QED BY <2>2, <2>4, <2>5, <2>8, <2>9, RelayFormed
  <1> QED BY <1>1, <1>3, <1>5, <1>9, <1>10, <1>11

LEMMA FormAnswers == EvidenceInv /\ FormInv /\ RelayAnswers => FormInv'
  <1> SUFFICES ASSUME EvidenceInv, FormInv, RelayAnswers PROVE FormInv'
    OBVIOUS
  <1>1. PICK x, out, V : x = Said /\ out = PassedOn /\ V = IF Omits THEN {} ELSE {x}
    OBVIOUS
  <1>2. /\ Moves("R", V, 1) /\ i' = i /\ pc = "answer" /\ pc' = "received"
        /\ cache' = IF wire.answer # NULL THEN [body |-> out, receipt |-> wire.receipt] ELSE cache
        /\ wire'.body = out
        /\ wire'.receipt = (IF Behavior.strip THEN NULL ELSE wire.receipt)
        /\ Len(truths') = i /\ (\A a \in 1 .. i : a # i => truths'[a] = truths[a])
        /\ truths'[i].atModel = truths[i].atModel
        /\ truths'[i].answer = truths[i].answer /\ truths'[i].atUser = out
        /\ truths[i].atModel # NULL /\ truths[i].answer = wire.answer /\ wire.answer \in {NULL} \cup Answers
        /\ x \in RelayForms /\ x.type = "relay"
    BY <1>1, AnswersMoves
  <1>3. out \in {NULL} \cup Answers /\ (wire.answer = NULL => out = NULL) /\ (wire.answer # NULL => out \in Answers)
    BY <1>1, <1>2, PassedTyped DEF PassedOn
  <1>4. \A y \in V : Formed(y)'
    BY <1>1, <1>2, FormsUsable DEF Formed
  <1>5. \A a \in 1 .. Len(truths') : Typed(truths'[a])
    <2>1. Len(truths) = i
      BY <1>2, Stage DEF Running
    <2> QED BY <1>2, <1>3, <2>1 DEF FormInv, Typed
  <1>6. WireFormed'
    <2>1. IF wire.receipt = NULL THEN NoReceipts ELSE Presented(wire.receipt)
      BY <1>2 DEF FormInv, WireFormed
    <2>2. NoReceipts' = NoReceipts /\ \A m : Presented(m)' = Presented(m)
      BY <1>2 DEF Moves, NoReceipts, Presented
    <2>3. cache # NULL => cache.body \in Answers /\ IF cache.receipt = NULL THEN NoReceipts ELSE Presented(cache.receipt)
      BY DEF FormInv, WireFormed
    <2>4. cache' # NULL => cache'.body \in Answers /\ IF cache'.receipt = NULL THEN NoReceipts ELSE Presented(cache'.receipt)
      BY <1>2, <1>3, <2>1, <2>3
    <2> QED BY <1>2, <2>1, <2>2, <2>4 DEF WireFormed, Presented
  <1> QED BY <1>2, <1>4, <1>5, <1>6, FormStep

(* The steps that hand nothing over. *)
LEMMA QuietMoves ==
  ASSUME EvidenceInv, FormInv, NoAnswer \/ NextAttempt
  PROVE  /\ Moves("U", {}, 0) /\ cache' = cache /\ truths' = truths /\ pc' \in {"next", "user", "close"}
  <1>1. pc \in {"received", "next"} /\ UNCHANGED <<s, down, cache, truths>> /\ Running /\ Nothing
    BY DEF NoAnswer, NextAttempt, Running
  <1>2. i \in Nat /\ now \in Nat
    BY <1>1, Stage
  <1>3. pc' \in {"next", "user", "close"} /\ (i' = i \/ (i' = i + 1 /\ pc = "next")) /\ (pc' = "user" => i' = i + 1)
        /\ now' \in Nat /\ now <= now'
    BY <1>2 DEF NoAnswer, NextAttempt
  <1>4. Onward
    BY <1>1, <1>2, <1>3 DEF Onward, Unanswered, Unpassed, Unseen
  <1>5. HandsOver("U", {}, 0)
    BY <1>1 DEF HandsOver
  <1> QED BY <1>1, <1>3, <1>4, <1>5 DEF Moves, Running

LEMMA FormQuiet == EvidenceInv /\ FormInv /\ (NoAnswer \/ NextAttempt) => FormInv'
  <1> SUFFICES ASSUME EvidenceInv, FormInv, NoAnswer \/ NextAttempt PROVE FormInv'
    OBVIOUS
  <1>1. Moves("U", {}, 0) /\ cache' = cache /\ truths' = truths /\ pc' \in {"next", "user", "close"}
    BY QuietMoves
  <1>2. WireFormed'
    BY <1>1 DEF FormInv, WireFormed, NoReceipts, Presented, Moves
  <1>3. \A a \in 1 .. Len(truths') : Typed(truths'[a])
    BY <1>1 DEF FormInv
  <1> QED BY <1>1, <1>2, <1>3, FormStep

LEMMA ReceiveMoves ==
  ASSUME EvidenceInv, FormInv, Receive
  PROVE  /\ Moves("U", {Observation, Private}, 2) /\ cache' = cache /\ truths' = truths /\ i' = i
         /\ pc = "received" /\ pc' \in {"next", "poll"}
         /\ wire.body \in Answers /\ wire.body = truths[i].atUser
         /\ Observation \in ObservationForms /\ Private \in PrivateForms /\ Private # NULL
  <1>1. /\ pc = "received" /\ pc' \in {"next", "poll"} /\ UNCHANGED <<s, i, down, cache, truths>> /\ Running
        /\ wire.body # NULL
    BY DEF Receive, Running
  <1>2. i \in Nat /\ now \in Nat /\ i \in 1 .. Len(truths) /\ HarmInv
    BY <1>1, Stage
  <1>3. wire.body \in Answers /\ wire.body = truths[i].atUser
    BY <1>1, <1>2 DEF HarmInv, Returned, FormInv, Typed
  <1>4. wire.receipt \in {NULL} \cup ReceiptForms
    BY <1>1 DEF FormInv, WireFormed, Presented
  <1>5. Observation \in ObservationForms
    <2>1. Commit(i, wire.body) \in AnswerCommits
      BY <1>2, <1>3, AnswerCommitted
    <2> QED BY <1>2, <1>4, <2>1 DEF Observation, ObservationForms
  <1>6. now' = now + 2
    BY DEF Receive, SignMs
  <1>7. HandsOver("U", {Observation, Private}, 2)
    <2>1. PICK o, p, t : o = Observation /\ p = Private /\ t = now'
      OBVIOUS
    <2>2. Deliver("U", <<o, p>>, t) /\ t \in Nat /\ t <= now'
      BY <1>2, <1>6, <2>1 DEF Receive
    <2>3. HandsOver("U", {o, p}, 2)
      BY <2>2, GivesTwo
    <2> QED BY <2>1, <2>3
  <1>8. Onward
    BY <1>1, <1>2 DEF Onward, Unanswered, Unpassed, Unseen
  <1>9. Moves("U", {Observation, Private}, 2)
    BY <1>1, <1>2, <1>6, <1>7, <1>8 DEF Moves, Running
  <1> QED BY <1>1, <1>2, <1>3, <1>5, <1>9, PrivateFormed

LEMMA FormReceive == EvidenceInv /\ FormInv /\ Receive => FormInv'
  <1> SUFFICES ASSUME EvidenceInv, FormInv, Receive PROVE FormInv'
    OBVIOUS
  <1>1. PICK o, p : o = Observation /\ p = Private
    OBVIOUS
  <1>2. /\ Moves("U", {o, p}, 2) /\ cache' = cache /\ truths' = truths /\ i' = i
        /\ pc = "received" /\ pc' \in {"next", "poll"} /\ wire.body \in Answers
        /\ o \in ObservationForms /\ p # NULL
    BY <1>1, ReceiveMoves
  <1>3. Formed(o)'
    <2>1. o.type = "observation" /\ o.attempt = i /\ o.presented = wire.receipt
      BY <1>1 DEF Observation
    <2>2. wire.body # NULL
      BY DEF Receive
    <2>3. /\ wire.receipt # NULL => Presented(wire.receipt)
          /\ truths[i].atModel = NULL =>
               /\ Behavior.replay
               /\ IF wire.receipt = NULL THEN Behavior.strip \/ NoReceipts ELSE wire.receipt.nonce # i
      BY <1>2, <2>2 DEF FormInv, WireFormed
    <2>4. BehaviorOf(i)' = Behavior /\ NoReceipts' = NoReceipts /\ \A m : Presented(m)' = Presented(m)
      BY <1>2 DEF Moves, Behavior, BehaviorOf, NoReceipts, Presented
    <2> QED BY <1>2, <2>1, <2>3, <2>4, FormsUsable DEF Formed
  <1>4. Formed(p)'
    BY <1>1, <1>2 DEF Private, Formed
  <1>5. WireFormed'
    BY <1>2 DEF FormInv, WireFormed, NoReceipts, Presented, Moves
  <1>6. \A a \in 1 .. Len(truths') : Typed(truths'[a])
    BY <1>2 DEF FormInv
  <1> QED BY <1>2, <1>3, <1>4, <1>5, <1>6, FormStep

(* T gives a verdict, or none; nothing else comes to be known. *)
LEMMA PollMoves ==
  ASSUME EvidenceInv, FormInv, Poll
  PROVE  /\ pc = "poll" /\ pc' \in {"poll", "next"} /\ UNCHANGED <<s, i, down, queue, private, wire, cache, truths>>
         /\ Running /\ Running' /\ Onward /\ now' \in Nat /\ now <= now'
         /\ Soon(now + DelayMs)'
         /\ \A x : x.type # "verdict" => (x \in Evidence' <=> x \in Evidence)
  <1>1. /\ pc = "poll" /\ pc' \in {"poll", "next"} /\ UNCHANGED <<s, i, down, queue, private, cache, truths>>
        /\ UNCHANGED wire /\ Running /\ Running'
    BY DEF Poll, Running
  <1>2. i \in Nat /\ now \in Nat /\ s \in Scenarios /\ IsSequence(log)
    BY <1>1, Stage DEF Sequences
  <1>3. now' \in Nat /\ now <= now'
    BY <1>2 DEF Poll, PollMs
  <1>4. Onward
    BY <1>1, <1>2 DEF Onward, Unanswered, Unpassed, Unseen
  <1>5. PICK e : (log' = Append(log, e) \/ log' = log) /\ e.stmt.type = "verdict" /\ e.at = now
    <2> DEFINE reply == RequestVerdict(i, now)
               e == VerdictEntry(i, reply.verdict, now)
    <2>1. e.stmt.type = "verdict" /\ e.at = now
      BY DEF VerdictEntry
    <2>2. log' = Append(log, e) \/ log' = log
      BY DEF Poll
    <2> HIDE DEF e
    <2> QED BY <2>1, <2>2
  <1>6. PICK l, r : l = log /\ r = log'
    OBVIOUS
  <1>7. /\ DOMAIN l = 1 .. Len(l) /\ Len(l) \in Nat /\ DOMAIN r = 1 .. Len(r) /\ Len(r) \in Nat /\ Len(r) >= Len(l)
        /\ \A n \in 1 .. Len(l) : r[n] = l[n]
        /\ \A n \in 1 .. Len(r) : n > Len(l) => r[n] = e
    <2>1. IsSequence(l) /\ Len(l) \in Nat /\ DOMAIN l = 1 .. Len(l)
      BY <1>2, <1>6, Places
    <2>2. CASE r = l
      BY <2>1, <2>2
    <2>3. CASE r = Append(l, e)
      <3>1. IsSequence(r) /\ Len(r) = Len(l) + 1 /\ r[Len(r)] = e /\ \A n \in 1 .. Len(l) : r[n] = l[n]
        BY <2>1, <2>3, AppendKeeps, SMTT(30) DEF IsSequence, Range
      <3>2. \A n \in 1 .. Len(r) : n > Len(l) => n = Len(r)
        BY <2>1, <3>1
      <3> QED BY <2>1, <3>1, <3>2, Places
    <2> QED BY <1>5, <1>6, <2>2, <2>3
  <1>8. Soon(now + DelayMs)'
    <2>1. PICK d, u, v : d = DelayMs /\ u = now + d /\ v = now' + d
      OBVIOUS
    <2>2. d \in Nat /\ u \in Nat /\ v \in Nat /\ u <= v /\ v = (now + DelayMs)' /\ now <= v
      BY <1>1, <1>2, <1>3, <2>1, SimulationAssumption DEF DelayMs
    <2>3. Soon(u)
      BY <1>1, <2>1 DEF FormInv, Clock
    <2>4. Soon(v)'
      <3>1. \A n \in 1 .. Len(l) : l[n].at \in Nat /\ l[n].at <= u /\ l[n].stmt.type # "private"
        BY <1>6, <1>7, <2>3 DEF Soon, Registered
      <3>2. e.at \in Nat /\ e.at <= v /\ e.stmt.type # "private"
        BY <1>2, <1>5, <2>2
      <3>3. \A n \in 1 .. Len(r) : r[n].at \in Nat /\ r[n].at <= v /\ r[n].stmt.type # "private"
        <4>1. ASSUME NEW n \in 1 .. Len(r) PROVE r[n].at \in Nat /\ r[n].at <= v /\ r[n].stmt.type # "private"
          <5>1. PICK y : y = r[n].at
            OBVIOUS
          <5>2. CASE n \in 1 .. Len(l)
            <6>1. y \in Nat /\ y <= u /\ r[n].stmt.type # "private"
              BY <1>7, <3>1, <5>1, <5>2
            <6> QED BY <2>2, <5>1, <6>1
          <5>3. CASE n \notin 1 .. Len(l)
            BY <1>7, <3>2, <5>3
          <5> QED BY <5>2, <5>3
        <4> QED BY <4>1
      <3> QED BY <1>6, <1>7, <3>3 DEF Soon, Registered
    <2> QED BY <2>2, <2>4 DEF Soon, Registered
  <1>9. ASSUME NEW x, x.type # "verdict" PROVE x \in Registered' <=> x \in Registered
    <2>1. x \in Registered <=> \E n \in 1 .. Len(l) : l[n].stmt = x
      BY <1>6, <1>7 DEF Registered
    <2>2. x \in Registered' <=> \E n \in 1 .. Len(r) : r[n].stmt = x
      BY <1>6, <1>7 DEF Registered
    <2>3. ASSUME NEW n \in 1 .. Len(r), r[n].stmt = x PROVE n \in 1 .. Len(l) /\ l[n].stmt = x
      BY <1>5, <1>7, <1>9, <2>3
    <2>4. \A n \in 1 .. Len(l) : n \in 1 .. Len(r) /\ r[n] = l[n]
      BY <1>7
    <2> QED BY <2>1, <2>2, <2>3, <2>4
  <1>10. \A x : x.type # "verdict" => (x \in Evidence' <=> x \in Evidence)
    BY <1>1, <1>9 DEF Evidence
  <1> QED BY <1>1, <1>3, <1>4, <1>8, <1>10

LEMMA FormPoll == EvidenceInv /\ FormInv /\ Poll => FormInv'
  <1> SUFFICES ASSUME EvidenceInv, FormInv, Poll PROVE FormInv'
    OBVIOUS
  <1>1. /\ pc = "poll" /\ pc' \in {"poll", "next"} /\ UNCHANGED <<s, i, down, queue, private, wire, cache, truths>>
        /\ Running /\ Running' /\ Onward /\ now' \in Nat /\ Soon(now + DelayMs)'
        /\ \A x : x.type # "verdict" => (x \in Evidence' <=> x \in Evidence)
    BY PollMoves
  <1>2. \A x \in Evidence : x.type # "verdict" => Formed(x)'
    BY <1>1, Stage, FormedStays DEF FormInv
  <1>3. WireFormed'
    BY <1>1 DEF FormInv, WireFormed, NoReceipts, Presented
  <1>4. Clock'
    BY <1>1 DEF Clock, Soon, Registered
  <1> QED BY <1>1, <1>2, <1>3, <1>4 DEF FormInv, Typed

(* What has waited comes in, all of it. *)
LEMMA RecoverMoves ==
  ASSUME EvidenceInv, FormInv, Recover
  PROVE  /\ pc = "close" /\ pc' = pc /\ UNCHANGED <<s, i, wire, cache, gates, truths>> /\ down' = FALSE
         /\ Running /\ Running' /\ Onward /\ now' \in Nat /\ now <= now'
         /\ Soon(now + DelayMs)' /\ Adds({}) /\ Keeps({})
         /\ \A p \in {"U", "R", "M"} : queue'[p] = <<>>
  <1>1. /\ pc = "close" /\ pc' = pc /\ UNCHANGED <<s, i, wire, cache, gates, truths>> /\ down' = FALSE
        /\ Running /\ Running' /\ now' = now + 500
    BY DEF Recover, Running
  <1>2. i \in Nat /\ now \in Nat /\ s \in Scenarios /\ Sequences /\ IsSequence(log)
    BY <1>1, Stage DEF Sequences
  <1>3. Onward
    BY <1>1, <1>2 DEF Onward
  <1>4. PICK all, t : /\ IsSequence(all) /\ Hand(all, t) /\ t = now'
                      /\ \A x \in Range(all) : \E p \in {"U", "R", "M"} : x \in Range(queue[p])
                      /\ \A p \in {"U", "R", "M"} : Range(queue[p]) \subseteq Range(all)
    BY <1>2, Waiting
  <1>5. /\ Grows(Range(all))
        /\ \A n \in 1 .. Len(log') : n > Len(log) => log'[n].stmt.type # "private" /\ log'[n].at = t + DelayMs
    BY <1>2, <1>4, HandGrows
  <1>6. Soon(now + DelayMs)'
    <2>1. PICK d, u, v : d = DelayMs /\ u = now + d /\ v = now' + d
      OBVIOUS
    <2>2. d \in Nat /\ u \in Nat /\ v \in Nat /\ u <= v /\ v = (now + DelayMs)' /\ t + d = v
      BY <1>1, <1>2, <1>4, <2>1, SimulationAssumption DEF DelayMs
    <2>3. Soon(u)
      BY <1>1, <2>1 DEF FormInv, Clock
    <2>4. \A n \in 1 .. Len(log') : n > Len(log) => log'[n].stmt.type # "private" /\ log'[n].at \in Nat /\ log'[n].at <= v
      BY <1>5, <2>1, <2>2
    <2>5. Soon(v)'
      BY <1>2, <1>5, <2>2, <2>3, <2>4, GrowsSoon
    <2> QED BY <2>2, <2>5 DEF Soon, Registered
  <1>7. \A p \in {"U", "R", "M"} : queue'[p] = <<>>
    BY <1>2 DEF Recover, Sequences
  <1>8. DOMAIN queue' = {"U", "R", "M"}
    BY <1>2 DEF Recover, Sequences
  <1>9. Range(all) \subseteq Evidence
    BY <1>4 DEF Evidence
  <1>10. /\ IsSequence(log') /\ Registered' \subseteq Registered \cup Range(all)
         /\ DOMAIN private' = DOMAIN private
         /\ \A a \in DOMAIN private :
              \/ private'[a] = private[a]
              \/ private'[a] \in Range(all) /\ private'[a].type = "private" /\ private'[a].attempt = a
    BY <1>2, <1>4, HandAdds
  <1>11. \A p \in {"U", "R", "M"} : IsSequence(queue'[p]) /\ Range(queue'[p]) = {}
    <2>1. ASSUME NEW p \in {"U", "R", "M"} PROVE IsSequence(queue'[p]) /\ Range(queue'[p]) = {}
      <3>1. PICK q : q = queue'[p] /\ q = <<>>
        BY <1>7
      <3>2. IsSequence(q) /\ Range(q) = {}
        BY <3>1 DEF IsSequence, Range
      <3> QED BY <3>1, <3>2
    <2> QED BY <2>1
  <1>12. Adds({})
    <2>1. Sequences'
      BY <1>8, <1>10, <1>11 DEF Sequences, IsSequence, Range
    <2>2. Evidence' \subseteq Evidence
      <3>1. Registered' \subseteq Evidence
        BY <1>9, <1>10 DEF Evidence
      <3> QED BY <1>11, <3>1 DEF Evidence, Range
    <2> QED BY <1>9, <1>10, <2>1, <2>2 DEF Adds
  <1>13. Keeps({})
    <2>1. \A x \in Range(all) : x.type = "private" => x # NULL
      BY <1>1, <1>9 DEF FormInv, Formed
    <2>2. /\ \A x \in Registered : x \in Registered'
          /\ \A x \in Range(all) : x.type # "private" => x \in Registered'
          /\ \A a \in DOMAIN private :
               private[a] # NULL \/ (\E x \in Range(all) : x.type = "private" /\ x.attempt = a) => private'[a] # NULL
      BY <1>2, <1>4, <2>1, HandKeeps
    <2>3. \A x \in Evidence : x \in Registered \/ x \in Range(all)
      BY <1>4 DEF Evidence
    <2>4. \A x \in Evidence : x.type # "private" => x \in Evidence'
      BY <2>2, <2>3 DEF Evidence
    <2>5. \A x \in Registered : x.type # "private"
      BY <1>1 DEF FormInv, Clock, Soon
    <2>6. ASSUME NEW a \in DOMAIN private, Handed(a) PROVE Handed(a)'
      BY <2>2, <2>3, <2>5, <2>6 DEF Handed
    <2> QED BY <2>4, <2>6 DEF Keeps
  <1> QED BY <1>1, <1>2, <1>3, <1>6, <1>7, <1>12, <1>13

LEMMA FormRecover == EvidenceInv /\ FormInv /\ Recover => FormInv'
  <1> SUFFICES ASSUME EvidenceInv, FormInv, Recover PROVE FormInv'
    OBVIOUS
  <1>1. /\ pc = "close" /\ pc' = pc /\ UNCHANGED <<s, i, wire, cache, gates, truths>>
        /\ Running /\ Running' /\ Onward /\ now' \in Nat /\ Soon(now + DelayMs)' /\ Adds({})
    BY RecoverMoves
  <1>2. \A x \in Evidence : x.type # "verdict" => Formed(x)'
    BY <1>1, Stage, FormedStays DEF FormInv
  <1>3. WireFormed'
    BY <1>1 DEF FormInv, WireFormed, NoReceipts, Presented
  <1>4. Clock'
    BY <1>1 DEF Clock, Soon, Registered
  <1> QED BY <1>1, <1>2, <1>3, <1>4 DEF FormInv, Adds, Typed

LEMMA CloseMoves ==
  ASSUME EvidenceInv, FormInv, Close
  PROVE  /\ pc = "close" /\ pc' = "final" /\ UNCHANGED <<s, i, down, wire, cache, gates, truths>> /\ ~ (down /\ s.recover)
         /\ Running /\ Running' /\ Onward /\ now' \in Nat /\ now <= now'
         /\ HandsOver("U", {Manifest}, 1) /\ Soon(now)'
         /\ Manifest.type = "manifest" /\ Manifest.attempt = 0
  <1>1. /\ pc = "close" /\ pc' = "final" /\ UNCHANGED <<s, i, down, wire, cache, gates, truths>> /\ ~ (down /\ s.recover)
        /\ Running /\ Running' /\ now' = now + DelayMs + 10 /\ Deliver("U", <<Manifest>>, now)
    BY DEF Close, Running, Manifest
  <1>2. i \in Nat /\ now \in Nat /\ s \in Scenarios /\ Sequences /\ IsSequence(log)
    BY <1>1, Stage DEF Sequences
  <1>3. PICK d, u, v, x : d = DelayMs /\ u = now + d /\ v = now' /\ x = Manifest
    OBVIOUS
  <1>4. d \in Nat /\ u \in Nat /\ v \in Nat /\ u <= v /\ now <= v
    BY <1>1, <1>2, <1>3, SimulationAssumption DEF DelayMs
  <1>5. Onward
    BY <1>1, <1>2 DEF Onward, Unanswered, Unpassed, Unseen
  <1>6. HandsOver("U", {x}, 1)
    <2>1. PICK t : t = now
      OBVIOUS
    <2> QED BY <1>1, <1>2, <1>3, <1>4, <2>1, GivesOne
  <1>7. Soon(v)'
    <2>1. Soon(u)
      BY <1>1, <1>3 DEF FormInv, Clock
    <2>2. CASE log' = log
      BY <1>4, <2>1, <2>2, SameSoon
    <2>3. CASE log' # log
      <3>1. PICK items, t : items = <<x>> /\ IsSequence(items) /\ t = now /\ Deliver("U", items, t)
        BY <1>1, <1>3, One
      <3>2. PICK q : q = Enqueue(queue["U"], items)
        OBVIOUS
      <3>3. IsSequence(q) /\ Hand(q, t)
        BY <1>2, <2>3, <3>1, <3>2, EnqueueKeeps DEF Deliver, Sequences
      <3>4. /\ Grows(Range(q))
            /\ \A n \in 1 .. Len(log') : n > Len(log) => log'[n].stmt.type # "private" /\ log'[n].at = t + d
        BY <1>2, <1>3, <3>3, HandGrows
      <3>5. t + d = u
        BY <1>3, <3>1
      <3> QED BY <1>2, <1>4, <2>1, <3>4, <3>5, GrowsSoon
    <2> QED BY <2>2, <2>3
  <1>8. Soon(now)'
    BY <1>3, <1>7 DEF Soon, Registered
  <1> QED BY <1>1, <1>3, <1>4, <1>5, <1>6, <1>8 DEF Manifest

LEMMA FormClose == EvidenceInv /\ FormInv /\ Close => FormInv'
  <1> SUFFICES ASSUME EvidenceInv, FormInv, Close PROVE FormInv'
    OBVIOUS
  <1>1. PICK x : x = Manifest
    OBVIOUS
  <1>2. /\ pc = "close" /\ pc' = "final" /\ UNCHANGED <<s, i, down, wire, cache, gates, truths>>
        /\ Running /\ Running' /\ Onward /\ now' \in Nat
        /\ HandsOver("U", {x}, 1) /\ Soon(now)' /\ x.type = "manifest" /\ x.attempt = 0
    BY <1>1, CloseMoves
  <1>3. Adds({x})
    BY <1>2, Stage, HandedAdds
  <1>4. x # NULL
    BY <1>1, SimulationAssumption DEF Manifest
  <1>5. \A y \in Evidence : y.type # "verdict" => Formed(y)'
    BY <1>2, Stage, FormedStays DEF FormInv
  <1>6. Formed(x)'
    BY <1>2, <1>4 DEF Formed
  <1>7. WireFormed'
    BY <1>2 DEF FormInv, WireFormed, NoReceipts, Presented
  <1>8. Clock'
    BY <1>2 DEF Clock, Soon, Registered
  <1> QED BY <1>2, <1>3, <1>5, <1>6, <1>7, <1>8 DEF FormInv, Adds, Typed

-----------------------------------------------------------------------------
(* Once the verdicts are given, nothing of this changes. *)
LEMMA FormEnds ==
  ASSUME FormInv, UNCHANGED <<s, i, now, wire, cache, truths>>, pc' \in {"checkpoint", "audit", "done"}
  PROVE  FormInv'
  <1>1. ~ Running' /\ now' \in Nat
    BY DEF FormInv, Clock, Running
  <1>2. WireFormed'
    BY DEF FormInv, WireFormed, NoReceipts, Presented
  <1>3. \A a \in 1 .. Len(truths') : Typed(truths'[a])
    BY DEF FormInv
  <1> QED BY <1>1, <1>2, <1>3 DEF FormInv, Clock, Typed

LEMMA FormStutters == FormInv /\ UNCHANGED vars => FormInv'
  <1> SUFFICES ASSUME FormInv, UNCHANGED vars PROVE FormInv'
    OBVIOUS
  <1>1. UNCHANGED <<s, pc, i, now, queue, log, wire, cache, truths>>
    BY DEF vars
  <1>2. Clock'
    BY <1>1 DEF FormInv, Clock, Running, Soon, Registered, DelayMs
  <1>3. WireFormed'
    BY <1>1 DEF FormInv, WireFormed, NoReceipts, Presented, Behavior
  <1>4. \A x : Formed(x) => Formed(x)'
    BY <1>1 DEF Formed, BehaviorOf, NoReceipts, Presented
  <1>5. Evidence' = Evidence /\ (Running' <=> Running)
    BY <1>1 DEF Evidence, Registered, Running
  <1>6. \A a \in 1 .. Len(truths') : Typed(truths'[a])
    BY <1>1 DEF FormInv
  <1> QED BY <1>2, <1>3, <1>4, <1>5, <1>6 DEF FormInv, Typed

(* Whatever happens, statements have the form that their schemas demand    *)
(* and say who may issue them, M's receipts commit to what it answered,    *)
(* and T soon shows what it is handed (messages.py, schemas.py,            *)
(* runner.py).                                                             *)
THEOREM FormInvariant == Spec => []FormInv
  <1>1. EvidenceInv /\ FormInv /\ [Next]_vars => FormInv'
    <2> SUFFICES ASSUME EvidenceInv, FormInv, [Next]_vars PROVE FormInv'
      OBVIOUS
    <2>1. CASE Finalize
      BY <2>1, FormEnds DEF Finalize
    <2>2. CASE Checkpoint
      BY <2>2, FormEnds DEF Checkpoint
    <2>3. CASE Audit
      BY <2>3, FormEnds DEF Audit
    <2> QED BY <2>1, <2>2, <2>3, FormStutters, FormRequest, FormDrops, FormReplays, FormForwards, FormServe, FormForge,
               FormAnswers, FormQuiet, FormReceive, FormPoll, FormRecover, FormClose DEF Next
  <1> QED BY FormInit, EvidenceInvariant, <1>1, PTL DEF Spec

-----------------------------------------------------------------------------
(* T is back in time and there is room for all that the parties hand over. *)
Complete == (s.recover \/ ~ s.down) /\ s.capacity >= 4 * s.attempts

Seen(a, type) == \E x \in Evidence : x.type = type /\ x.attempt = a

(* What each party has handed over of this attempt at most. *)
Given(p) ==
  CASE p = "U" -> (IF pc = "user" THEN 0 ELSE IF pc \in Unseen THEN 2 ELSE 4)
    [] p = "R" -> (IF pc \in Unpassed THEN 0 ELSE 1)
    [] p = "M" -> (IF pc \in Unanswered THEN 0 ELSE IF pc = "forge" THEN 1 ELSE 2)

(* Who has done something on an attempt has also handed it over. *)
OnHand(a) ==
  /\ Seen(a, "contract") /\ Handed(a)
  /\ truths[a].answer # NULL /\ ~ NoReceipts => Seen(a, "receipt")
  /\ truths[a].atUser # NULL /\ ~ Withheld(a) => Seen(a, "relay")
  /\ truths[a].atUser # NULL /\ (a = i => pc \notin Unseen) => Seen(a, "observation")

Room == \A p \in {"U", "R", "M"} : Len(queue[p]) <= 4 * (i - 1) + Given(p)

Unserved == pc = "received" /\ wire.body = NULL => truths[i].atUser = NULL

FoundOut ==
  ~ Running /\ ~ s.misjudge /\ Complete /\ s.issueReceipts
       /\ s.cooperation = {"U", "R", "M"} /\ s.transforms \subseteq Recomputable =>
    \A a \in Attempts :
      /\ Falsified(a) /\ ~ Colluded(a) /\ ~ Withheld(a)
      /\ ~ BehaviorOf(a).dropSalt /\ ~ (BehaviorOf(a).replay /\ BehaviorOf(a).strip)
      => finals[a].status = "failed"

RecordInv ==
  /\ i <= s.attempts /\ Unserved
  /\ down => s.down
  /\ pc = "final" /\ (s.recover \/ ~ s.down) => ~ down
  /\ Running /\ Complete => /\ pc # "final" => Room
                            /\ \A a \in 1 .. Len(truths) : OnHand(a)
  /\ FoundOut

LEMMA OnHandStays ==
  ASSUME NEW V, Keeps(V), s' = s, NEW a \in DOMAIN private, OnHand(a),
         truths'[a].answer = truths[a].answer, truths'[a].atUser = truths[a].atUser,
         truths'[a].atUser # NULL /\ (a = i' => pc' \notin Unseen) =>
           (a = i => pc \notin Unseen) \/ \E x \in V : x.type = "observation" /\ x.attempt = a
  PROVE  OnHand(a)'
  <1>1. \A type : type # "private" /\ Seen(a, type) => Seen(a, type)'
    BY DEF Seen, Keeps
  <1>2. Handed(a)'
    BY DEF OnHand, Keeps
  <1>3. (NoReceipts' <=> NoReceipts) /\ (Withheld(a)' <=> Withheld(a))
    BY DEF NoReceipts, Withheld, BehaviorOf
  <1>4. (\E x \in V : x.type = "observation" /\ x.attempt = a) => Seen(a, "observation")'
    BY DEF Seen, Keeps
  <1> QED BY <1>1, <1>2, <1>3, <1>4 DEF OnHand

LEMMA OldOnHand ==
  ASSUME EvidenceInv, RecordInv, Running, Complete, NEW V, Keeps(V), s' = s, NEW a \in 1 .. Len(truths),
         truths'[a].answer = truths[a].answer, truths'[a].atUser = truths[a].atUser,
         truths'[a].atUser # NULL /\ (a = i' => pc' \notin Unseen) =>
           (a = i => pc \notin Unseen) \/ \E x \in V : x.type = "observation" /\ x.attempt = a
  PROVE  OnHand(a)' /\ a \in DOMAIN private
  <1>1. s \in Scenarios /\ i \in Nat /\ Len(truths) \in Nat /\ Len(truths) <= i /\ i <= s.attempts /\ PrivateKept
    BY DEF EvidenceInv, HarmInv, Positions, RecordInv
  <1>2. s.attempts \in Nat
    BY <1>1, SimulationAssumption
  <1>3. a \in DOMAIN private
    BY <1>1, <1>2 DEF PrivateKept
  <1> QED BY <1>3, OnHandStays DEF RecordInv

(* A step that hands over k things leaves room for the next. *)
LEMMA RecordStep ==
  ASSUME EvidenceInv, FormInv, RecordInv, NEW p, NEW V, NEW k \in Nat, Moves(p, V, k), i' <= s.attempts,
         \A o \in {"U", "R", "M"} : 4 * (i - 1) + Given(o) + (IF o = p THEN k ELSE 0) <= 4 * (i' - 1) + Given(o)',
         Unserved', \A x \in V : x.type = "private" => x # NULL,
         Complete /\ Keeps(V) => \A a \in 1 .. Len(truths') : OnHand(a)'
  PROVE  RecordInv'
  <1>1. s \in Scenarios /\ Sequences /\ i \in Nat \ {0} /\ i' \in Nat /\ s' = s /\ down' = down
    BY DEF Moves, EvidenceInv, HarmInv, Positions, Onward
  <1>2. Running /\ Running' /\ pc # "final" /\ pc' # "final"
    BY DEF Moves
  <1>3. FoundOut'
    BY <1>2 DEF FoundOut
  <1>4. ASSUME Complete PROVE Room' /\ \A a \in 1 .. Len(truths') : OnHand(a)'
    <2>1. s.attempts \in Nat /\ s.capacity \in Nat /\ 4 * s.attempts <= s.capacity
      BY <1>1, <1>4, SimulationAssumption DEF Complete
    <2>2. PICK l \in [{"U", "R", "M"} -> Nat] : \A o \in {"U", "R", "M"} : l[o] = Len(queue[o])
      <3>1. \A o \in {"U", "R", "M"} : Len(queue[o]) \in Nat
        BY <1>1, Places DEF Sequences
      <3>2. [o \in {"U", "R", "M"} |-> Len(queue[o])] \in [{"U", "R", "M"} -> Nat]
        BY <3>1
      <3> QED BY <3>2
    <2>3. \A o \in {"U", "R", "M"} : l[o] <= 4 * (i - 1) + Given(o)
      BY <1>2, <1>4, <2>2 DEF RecordInv, Room
    <2>4. PICK g \in [{"U", "R", "M"} -> Nat] : \A o \in {"U", "R", "M"} : g[o] = Given(o) /\ g[o] <= 4
      <3>1. \A o \in {"U", "R", "M"} : Given(o) \in Nat /\ Given(o) <= 4
        BY DEF Given
      <3>2. [o \in {"U", "R", "M"} |-> Given(o)] \in [{"U", "R", "M"} -> Nat]
        BY <3>1
      <3> QED BY <3>1, <3>2
    <2>5. PICK h \in [{"U", "R", "M"} -> Nat] : \A o \in {"U", "R", "M"} : h[o] = Given(o)' /\ h[o] <= 4
      <3>1. \A o \in {"U", "R", "M"} : Given(o)' \in Nat /\ Given(o)' <= 4
        BY DEF Given
      <3>2. PICK h : h = [o \in {"U", "R", "M"} |-> Given(o)']
        OBVIOUS
      <3> QED BY <3>1, <3>2
    <2>6. PICK j : j = i'
      OBVIOUS
    <2>7. p \in {"U", "R", "M"} /\ HandsOver(p, V, k)
      BY DEF Moves
    <2>8. l[p] + k <= 4 * (j - 1) + h[p] /\ l[p] + k <= s.capacity
      <3>1. 4 * (i - 1) + g[p] + k <= 4 * (j - 1) + h[p]
        BY <2>4, <2>5, <2>6, <2>7
      <3>2. PICK n, m, lp, gp, hp : n = s.attempts /\ m = s.capacity /\ lp = l[p] /\ gp = g[p] /\ hp = h[p]
        OBVIOUS
      <3>3. /\ n \in Nat /\ m \in Nat /\ lp \in Nat /\ gp \in Nat /\ hp \in Nat /\ j \in Nat /\ j <= n /\ hp <= 4
            /\ 4 * n <= m /\ lp <= 4 * (i - 1) + gp /\ 4 * (i - 1) + gp + k <= 4 * (j - 1) + hp
        BY <1>1, <2>1, <2>2, <2>3, <2>4, <2>5, <2>6, <2>7, <3>1, <3>2
      <3>4. lp + k <= 4 * (j - 1) + hp /\ lp + k <= m
        BY <1>1, <3>3
      <3> QED BY <3>2, <3>4
    <2>9. Len(queue[p]) + k <= s.capacity
      BY <2>2, <2>7, <2>8
    <2>10. \A x \in Evidence \cup V : x.type = "private" => x # NULL
      BY <1>2 DEF FormInv, Formed
    <2>11. /\ Keeps(V) /\ Len(queue'[p]) <= Len(queue[p]) + k
           /\ \A o \in {"U", "R", "M"} : o # p => queue'[o] = queue[o]
      BY <1>1, <2>7, <2>9, <2>10, HandedKeeps
    <2>12. Room'
      <3>1. Sequences'
        BY <1>1, <2>7, HandedAdds DEF Adds
      <3>2. ASSUME NEW o \in {"U", "R", "M"} PROVE Len(queue'[o]) <= 4 * (j - 1) + h[o]
        <4>1. CASE o = p
          <5>1. PICK m : m = Len(queue'[o]) /\ m \in Nat
            BY <3>1, Places DEF Sequences
          <5>2. m <= l[p] + k
            BY <2>2, <2>7, <2>11, <4>1, <5>1
          <5>3. l[p] \in Nat /\ h[p] \in Nat /\ j \in Nat
            BY <1>1, <2>2, <2>5, <2>6, <2>7
          <5> QED BY SMTT(30), <2>8, <4>1, <5>1, <5>2, <5>3
        <4>2. CASE o # p
          <5>1. PICK lo, go, ho : lo = l[o] /\ go = g[o] /\ ho = h[o]
            OBVIOUS
          <5>2. Len(queue'[o]) = lo /\ lo \in Nat /\ go \in Nat /\ ho \in Nat /\ j \in Nat
            BY <1>1, <2>2, <2>4, <2>5, <2>6, <2>11, <4>2, <5>1
          <5>3. lo <= 4 * (i - 1) + go
            BY <2>3, <2>4, <5>1
          <5>4. 4 * (i - 1) + go + 0 <= 4 * (j - 1) + ho
            BY <2>4, <2>5, <2>6, <4>2, <5>1
          <5>5. lo <= 4 * (j - 1) + ho
            BY <1>1, <5>2, <5>3, <5>4
          <5> QED BY <5>1, <5>2, <5>5
        <4> QED BY <4>1, <4>2
      <3> QED BY <2>5, <2>6, <3>2 DEF Room
    <2> QED BY <1>4, <2>11, <2>12
  <1>5. Complete' <=> Complete
    BY <1>1 DEF Complete
  <1> QED BY <1>1, <1>2, <1>3, <1>4, <1>5 DEF RecordInv

LEMMA RecordInit == Init => RecordInv
  <1> SUFFICES ASSUME Init PROVE RecordInv
    OBVIOUS
  <1>1. /\ s \in Scenarios /\ pc = "user" /\ i = 1 /\ down = s.down /\ Running /\ truths = <<>> /\ Len(truths) = 0
        /\ \A p \in {"U", "R", "M"} : Len(queue[p]) = 0
    BY DEF Init, Running
  <1>2. Room
    BY <1>1 DEF Room, Given, Unseen, Unpassed, Unanswered
  <1> QED BY <1>1, <1>2, SimulationAssumption DEF RecordInv, FoundOut, Unserved

LEMMA RecordRequest == EvidenceInv /\ FormInv /\ RecordInv /\ Request => RecordInv'
  <1> SUFFICES ASSUME EvidenceInv, FormInv, RecordInv, Request PROVE RecordInv'
    OBVIOUS
  <1>1. PICK c, p : c = Contract /\ p = Private
    OBVIOUS
  <1>2. /\ Moves("U", {c, p}, 2) /\ p # NULL
        /\ Len(truths') = i /\ truths'[i] = Truth(NULL, NULL, NULL, NULL)
        /\ \A a \in 1 .. i - 1 : truths'[a] = truths[a]
    BY <1>1, RequestMoves
  <1>3. c.type = "contract" /\ c.attempt = i /\ p.type = "private" /\ p.attempt = i
    BY <1>1 DEF Contract, Private
  <1>4. /\ i \in Nat \ {0} /\ Len(truths) = i - 1 /\ pc = "user" /\ pc' = "relay" /\ i' = i /\ i <= s.attempts
        /\ s \in Scenarios /\ s' = s /\ Running
    BY DEF EvidenceInv, HarmInv, Positions, Request, RecordInv, Running
  <1>5. i \in DOMAIN private
    BY <1>4, SimulationAssumption DEF EvidenceInv, PrivateKept
  <1>6. ASSUME Complete, Keeps({c, p}), NEW a \in 1 .. Len(truths') PROVE OnHand(a)'
    <2>1. CASE a # i
      <3>1. a \in 1 .. Len(truths) /\ truths'[a] = truths[a]
        BY <1>2, <1>4, <1>6, <2>1
      <3> QED BY <1>4, <1>6, <2>1, <3>1, OldOnHand
    <2>2. CASE a = i
      <3>1. Seen(i, "contract")' /\ Handed(i)'
        BY <1>3, <1>4, <1>5, <1>6 DEF Keeps, Seen
      <3>2. truths'[i].answer = NULL /\ truths'[i].atUser = NULL
        BY <1>2 DEF Truth
      <3> QED BY <1>4, <2>2, <3>1, <3>2 DEF OnHand, Seen, Handed
    <2> QED BY <2>1, <2>2
  <1>7. \A o \in {"U", "R", "M"} : 4 * (i - 1) + Given(o) + (IF o = "U" THEN 2 ELSE 0) <= 4 * (i' - 1) + Given(o)'
    BY <1>4 DEF Given, Unseen, Unpassed, Unanswered
  <1>8. Unserved'
    BY <1>4 DEF Unserved
  <1> QED BY <1>2, <1>3, <1>4, <1>6, <1>7, <1>8, RecordStep

LEMMA RecordDrops == EvidenceInv /\ FormInv /\ RecordInv /\ RelayDrops => RecordInv'
  <1> SUFFICES ASSUME EvidenceInv, FormInv, RecordInv, RelayDrops PROVE RecordInv'
    OBVIOUS
  <1>1. PICK r : r = Refused
    OBVIOUS
  <1>2. PICK V \in SUBSET {r} : Moves("R", V, 1)
    BY <1>1, DropsMoves
  <1>3. /\ truths' = truths /\ i' = i /\ pc = "relay" /\ pc' = "received" /\ r.type = "relay"
        /\ truths[i].atUser = NULL
    BY <1>1, DropsMoves DEF RelayDrops, EvidenceInv, OnWire, Truth
  <1>4. i \in Nat \ {0} /\ i <= s.attempts /\ s' = s /\ Running
    BY <1>2 DEF EvidenceInv, HarmInv, Positions, RecordInv, Moves
  <1>5. ASSUME Complete, Keeps(V), NEW a \in 1 .. Len(truths') PROVE OnHand(a)'
    BY <1>3, <1>4, <1>5, OldOnHand DEF Unseen, Unpassed, Unanswered
  <1>6. \A o \in {"U", "R", "M"} : 4 * (i - 1) + Given(o) + (IF o = "R" THEN 1 ELSE 0) <= 4 * (i' - 1) + Given(o)'
    BY <1>3, <1>4 DEF Given, Unseen, Unpassed, Unanswered
  <1>7. Unserved'
    BY <1>2, <1>3 DEF Unserved
  <1> QED BY <1>2, <1>3, <1>4, <1>5, <1>6, <1>7, RecordStep

LEMMA RecordReplays == EvidenceInv /\ FormInv /\ RecordInv /\ RelayReplays => RecordInv'
  <1> SUFFICES ASSUME EvidenceInv, FormInv, RecordInv, RelayReplays PROVE RecordInv'
    OBVIOUS
  <1>1. PICK r, V : r = Again /\ V = IF Omits THEN {} ELSE {r}
    OBVIOUS
  <1>2. /\ Moves("R", V, 1) /\ i' = i /\ pc' = "received" /\ Len(truths') = i
        /\ \A a \in 1 .. i : a # i => truths'[a] = truths[a]
        /\ truths'[i].answer = NULL /\ r.type = "relay" /\ r.attempt = i
        /\ wire'.body = cache.body /\ truths'[i].atUser = cache.body
    BY <1>1, ReplaysMoves
  <1>3. /\ i \in Nat \ {0} /\ i <= s.attempts /\ s' = s /\ Running /\ pc = "relay" /\ Len(truths) = i
        /\ Behavior = BehaviorOf(i) /\ truths[i].answer = NULL
    <2>1. pc = "relay" /\ Running
      BY DEF RelayReplays, Running
    <2> QED BY <1>2, <2>1, Stage DEF RecordInv, Moves, OnWire, Truth
  <1>4. ASSUME Complete, Keeps(V), NEW a \in 1 .. Len(truths') PROVE OnHand(a)'
    <2>1. a \in 1 .. Len(truths) /\ a \in 1 .. i
      BY <1>2, <1>3, <1>4
    <2>2. CASE a # i
      BY <1>2, <1>3, <1>4, <2>1, <2>2, OldOnHand
    <2>3. CASE a = i
      <3>1. OnHand(a) /\ a \in DOMAIN private
        <4>1. s \in Scenarios /\ s.attempts \in Nat /\ PrivateKept
          BY <1>3, Stage, SimulationAssumption
        <4>2. a \in DOMAIN private
          BY <1>3, <2>1, <4>1 DEF PrivateKept
        <4> QED BY <1>3, <1>4, <2>1, <4>2 DEF RecordInv
      <3>2. Seen(a, "contract")' /\ Handed(a)'
        BY <1>4, <3>1 DEF OnHand, Keeps, Seen
      <3>3. ~ Withheld(a)' => Seen(a, "relay")'
        <4>1. Withheld(a)' <=> Omits
          BY <1>3, <2>3 DEF Withheld, Omits, BehaviorOf
        <4> QED BY <1>1, <1>2, <1>4, <2>3, <4>1 DEF Keeps, Seen
      <3>4. a = i' /\ pc' \in Unseen /\ truths'[a].answer = NULL
        BY <1>2, <2>3 DEF Unseen
      <3> QED BY <3>2, <3>3, <3>4 DEF OnHand
    <2> QED BY <2>2, <2>3
  <1>5. \A o \in {"U", "R", "M"} : 4 * (i - 1) + Given(o) + (IF o = "R" THEN 1 ELSE 0) <= 4 * (i' - 1) + Given(o)'
    BY <1>2, <1>3 DEF Given, Unseen, Unpassed, Unanswered
  <1>6. \A x \in V : x.type # "private"
    BY <1>1, <1>2
  <1>7. Unserved'
    BY <1>1, <1>2 DEF Unserved
  <1> QED BY <1>2, <1>3, <1>4, <1>5, <1>6, <1>7, RecordStep

LEMMA RecordForwards == EvidenceInv /\ FormInv /\ RecordInv /\ RelayForwards => RecordInv'
  <1> SUFFICES ASSUME EvidenceInv, FormInv, RecordInv, RelayForwards PROVE RecordInv'
    OBVIOUS
  <1>1. /\ Moves("R", {}, 0) /\ i' = i /\ pc = "relay" /\ pc' = "model" /\ Len(truths') = i
        /\ \A a \in 1 .. i : a # i => truths'[a] = truths[a]
        /\ truths'[i].answer = NULL /\ truths'[i].atUser = NULL
    BY ForwardsMoves DEF Truth
  <1>2. /\ i \in Nat \ {0} /\ i <= s.attempts /\ s' = s /\ Running /\ Len(truths) = i
        /\ truths[i].answer = NULL /\ truths[i].atUser = NULL
    BY <1>1, Stage DEF RecordInv, Moves, OnWire, Truth
  <1>3. ASSUME Complete, Keeps({}), NEW a \in 1 .. Len(truths') PROVE OnHand(a)'
    <2>1. a \in 1 .. Len(truths) /\ truths'[a].answer = truths[a].answer /\ truths'[a].atUser = truths[a].atUser
      BY <1>1, <1>2, <1>3
    <2> QED BY <1>1, <1>2, <1>3, <2>1, OldOnHand DEF Unseen, Unpassed, Unanswered
  <1>4. \A o \in {"U", "R", "M"} : 4 * (i - 1) + Given(o) + (IF o = "R" THEN 0 ELSE 0) <= 4 * (i' - 1) + Given(o)'
    BY <1>1, <1>2 DEF Given, Unseen, Unpassed, Unanswered
  <1>5. Unserved'
    BY <1>1 DEF Unserved
  <1> QED BY <1>1, <1>2, <1>3, <1>4, <1>5, RecordStep

(* One of the attempt's facts changes, and what says so is handed over. *)
LEMMA NewOnHand ==
  ASSUME EvidenceInv, RecordInv, Running, Complete, NEW V, Keeps(V), s' = s, i' = i, NEW a \in 1 .. Len(truths), a = i,
         pc \in Unseen, pc' \in Unseen,
         truths'[a].answer # NULL /\ ~ NoReceipts => truths[a].answer # NULL \/ \E x \in V : x.type = "receipt" /\ x.attempt = a,
         truths'[a].atUser # NULL /\ ~ Withheld(a) => truths[a].atUser # NULL \/ \E x \in V : x.type = "relay" /\ x.attempt = a
  PROVE  OnHand(a)'
  <1>1. OnHand(a) /\ a \in DOMAIN private
    <2>1. s \in Scenarios /\ s.attempts \in Nat /\ i \in Nat \ {0} /\ i <= s.attempts /\ PrivateKept
      BY SimulationAssumption DEF EvidenceInv, HarmInv, Positions, RecordInv
    <2> QED BY <2>1 DEF PrivateKept, RecordInv
  <1>2. Seen(a, "contract")' /\ Handed(a)'
    BY <1>1 DEF OnHand, Keeps, Seen
  <1>3. (NoReceipts' <=> NoReceipts) /\ (Withheld(a)' <=> Withheld(a))
    BY DEF NoReceipts, Withheld, BehaviorOf
  <1>4. \A type : type # "private" /\ (Seen(a, type) \/ \E x \in V : x.type = type /\ x.attempt = a) => Seen(a, type)'
    BY DEF Seen, Keeps
  <1>5. truths'[a].answer # NULL /\ ~ NoReceipts => Seen(a, "receipt")'
    BY <1>1, <1>4 DEF OnHand
  <1>6. truths'[a].atUser # NULL /\ ~ Withheld(a) => Seen(a, "relay")'
    BY <1>1, <1>4 DEF OnHand
  <1>7. (a = i)' /\ pc' \in Unseen
    OBVIOUS
  <1> QED BY <1>2, <1>3, <1>5, <1>6, <1>7 DEF OnHand, Unseen, Unpassed, Unanswered

LEMMA RecordServe == EvidenceInv /\ FormInv /\ RecordInv /\ Serve => RecordInv'
  <1> SUFFICES ASSUME EvidenceInv, FormInv, RecordInv, Serve PROVE RecordInv'
    OBVIOUS
  <1>1. PICK m, V : m = ModelReceipt /\ V = {m} \ {NULL}
    OBVIOUS
  <1>2. /\ Moves("M", V, 1) /\ i' = i /\ pc = "model" /\ pc' \in {"forge", "answer"} /\ Len(truths') = i
        /\ \A a \in 1 .. i : a # i => truths'[a] = truths[a]
        /\ truths'[i].atUser = NULL
        /\ m = NULL => NoReceipts
        /\ m # NULL => m.type = "receipt" /\ m.attempt = i
    BY <1>1, ServeMoves
  <1>3. /\ i \in Nat \ {0} /\ i <= s.attempts /\ s' = s /\ Running /\ Len(truths) = i /\ i \in 1 .. Len(truths)
    BY <1>2, Stage DEF RecordInv, Moves
  <1>4. ASSUME Complete, Keeps(V), NEW a \in 1 .. Len(truths') PROVE OnHand(a)'
    <2>1. a \in 1 .. Len(truths) /\ a \in 1 .. i
      BY <1>2, <1>3, <1>4
    <2>2. CASE a # i
      BY <1>2, <1>3, <1>4, <2>1, <2>2, OldOnHand
    <2>3. ~ NoReceipts => \E x \in V : x.type = "receipt" /\ x.attempt = i
      BY <1>1, <1>2
    <2>4. pc \in Unseen /\ pc' \in Unseen
      BY <1>2 DEF Unseen, Unpassed, Unanswered
    <2>5. CASE a = i
      BY <1>2, <1>3, <1>4, <2>1, <2>3, <2>4, <2>5, NewOnHand
    <2> QED BY <2>2, <2>5
  <1>5. \A o \in {"U", "R", "M"} : 4 * (i - 1) + Given(o) + (IF o = "M" THEN 1 ELSE 0) <= 4 * (i' - 1) + Given(o)'
    BY <1>2, <1>3 DEF Given, Unseen, Unpassed, Unanswered
  <1>6. \A x \in V : x.type # "private"
    BY <1>1, <1>2
  <1>7. Unserved'
    BY <1>2 DEF Unserved
  <1> QED BY <1>2, <1>3, <1>4, <1>5, <1>6, <1>7, RecordStep

LEMMA RecordForge == EvidenceInv /\ FormInv /\ RecordInv /\ Forge => RecordInv'
  <1> SUFFICES ASSUME EvidenceInv, FormInv, RecordInv, Forge PROVE RecordInv'
    OBVIOUS
  <1>1. PICK m, V : m = ForgedReceipt /\ V = {m} \ {NULL}
    OBVIOUS
  <1>2. /\ Moves("M", V, 1) /\ i' = i /\ pc = "forge" /\ pc' = "answer" /\ truths' = truths
        /\ m # NULL => m.type = "receipt"
    BY <1>1, ForgeMoves
  <1>3. i \in Nat \ {0} /\ i <= s.attempts /\ s' = s /\ Running
    BY <1>2, Stage DEF RecordInv, Moves
  <1>4. ASSUME Complete, Keeps(V), NEW a \in 1 .. Len(truths') PROVE OnHand(a)'
    BY <1>2, <1>3, <1>4, OldOnHand DEF Unseen, Unpassed, Unanswered
  <1>5. \A o \in {"U", "R", "M"} : 4 * (i - 1) + Given(o) + (IF o = "M" THEN 1 ELSE 0) <= 4 * (i' - 1) + Given(o)'
    BY <1>2, <1>3 DEF Given, Unseen, Unpassed, Unanswered
  <1>6. \A x \in V : x.type # "private"
    BY <1>1, <1>2
  <1>7. Unserved'
    BY <1>2 DEF Unserved
  <1> QED BY <1>2, <1>3, <1>4, <1>5, <1>6, <1>7, RecordStep

LEMMA RecordAnswers == EvidenceInv /\ FormInv /\ RecordInv /\ RelayAnswers => RecordInv'
  <1> SUFFICES ASSUME EvidenceInv, FormInv, RecordInv, RelayAnswers PROVE RecordInv'
    OBVIOUS
  <1>1. PICK r, V : r = Said /\ V = IF Omits THEN {} ELSE {r}
    OBVIOUS
  <1>2. /\ Moves("R", V, 1) /\ i' = i /\ pc = "answer" /\ pc' = "received" /\ Len(truths') = i
        /\ \A a \in 1 .. i : a # i => truths'[a] = truths[a]
        /\ truths'[i].answer = truths[i].answer /\ r.type = "relay" /\ r.attempt = i
        /\ wire'.body = PassedOn /\ truths'[i].atUser = PassedOn
    BY <1>1, AnswersMoves
  <1>3. /\ i \in Nat \ {0} /\ i <= s.attempts /\ s' = s /\ Running /\ Len(truths) = i /\ i \in 1 .. Len(truths)
        /\ Behavior = BehaviorOf(i)
    BY <1>2, Stage DEF RecordInv, Moves
  <1>4. ASSUME Complete, Keeps(V), NEW a \in 1 .. Len(truths') PROVE OnHand(a)'
    <2>1. a \in 1 .. Len(truths) /\ a \in 1 .. i
      BY <1>2, <1>3, <1>4
    <2>2. CASE a # i
      BY <1>2, <1>3, <1>4, <2>1, <2>2, OldOnHand
    <2>3. ~ Withheld(i) => \E x \in V : x.type = "relay" /\ x.attempt = i
      BY <1>1, <1>2, <1>3 DEF Withheld, Omits
    <2>4. pc \in Unseen /\ pc' \in Unseen
      BY <1>2 DEF Unseen, Unpassed, Unanswered
    <2>5. CASE a = i
      BY <1>2, <1>3, <1>4, <2>1, <2>3, <2>4, <2>5, NewOnHand
    <2> QED BY <2>2, <2>5
  <1>5. \A o \in {"U", "R", "M"} : 4 * (i - 1) + Given(o) + (IF o = "R" THEN 1 ELSE 0) <= 4 * (i' - 1) + Given(o)'
    BY <1>2, <1>3 DEF Given, Unseen, Unpassed, Unanswered
  <1>6. \A x \in V : x.type # "private"
    BY <1>1, <1>2
  <1>7. Unserved'
    BY <1>1, <1>2 DEF Unserved
  <1> QED BY <1>2, <1>3, <1>4, <1>5, <1>6, <1>7, RecordStep

LEMMA RecordQuiet == EvidenceInv /\ FormInv /\ RecordInv /\ (NoAnswer \/ NextAttempt) => RecordInv'
  <1> SUFFICES ASSUME EvidenceInv, FormInv, RecordInv, NoAnswer \/ NextAttempt PROVE RecordInv'
    OBVIOUS
  <1>1. Moves("U", {}, 0) /\ truths' = truths /\ pc' \in {"next", "user", "close"}
    BY QuietMoves
  <1>2. /\ i \in Nat \ {0} /\ i <= s.attempts /\ s' = s /\ Running /\ s.attempts \in Nat
        /\ Len(truths) \in Nat /\ Len(truths) <= i
    <2>1. s \in Scenarios
      BY DEF EvidenceInv, HarmInv, Positions
    <2> QED BY <1>1, <2>1, SimulationAssumption DEF EvidenceInv, HarmInv, Positions, RecordInv, Moves
  <1>3. \/ pc = "received" /\ pc' = "next" /\ i' = i /\ truths[i].atUser = NULL
        \/ pc = "next" /\ ((i' = i + 1 /\ i < s.attempts /\ pc' = "user") \/ (i' = i /\ pc' = "close"))
    BY DEF NoAnswer, NextAttempt, RecordInv, Unserved
  <1>4. ASSUME Complete, Keeps({}), NEW a \in 1 .. Len(truths') PROVE OnHand(a)'
    <2>1. a \in 1 .. Len(truths) /\ a <= i
      BY <1>1, <1>2
    <2> QED BY <1>1, <1>2, <1>3, <1>4, <2>1, OldOnHand DEF Unseen, Unpassed, Unanswered
  <1>5. \A o \in {"U", "R", "M"} : 4 * (i - 1) + Given(o) + (IF o = "U" THEN 0 ELSE 0) <= 4 * (i' - 1) + Given(o)'
    BY <1>2, <1>3 DEF Given, Unseen, Unpassed, Unanswered
  <1>6. Unserved'
    BY <1>1 DEF Unserved
  <1>7. i' <= s.attempts
    BY <1>2, <1>3
  <1> QED BY <1>1, <1>4, <1>5, <1>6, <1>7, RecordStep

LEMMA RecordReceive == EvidenceInv /\ FormInv /\ RecordInv /\ Receive => RecordInv'
  <1> SUFFICES ASSUME EvidenceInv, FormInv, RecordInv, Receive PROVE RecordInv'
    OBVIOUS
  <1>1. PICK x, p : x = Observation /\ p = Private
    OBVIOUS
  <1>2. /\ Moves("U", {x, p}, 2) /\ truths' = truths /\ i' = i /\ pc = "received" /\ pc' \in {"next", "poll"}
        /\ p # NULL /\ x.type = "observation" /\ x.attempt = i
    BY <1>1, ReceiveMoves DEF Observation
  <1>3. i \in Nat \ {0} /\ i <= s.attempts /\ s' = s /\ Running
    BY <1>2 DEF EvidenceInv, HarmInv, Positions, RecordInv, Moves
  <1>4. ASSUME Complete, Keeps({x, p}), NEW a \in 1 .. Len(truths') PROVE OnHand(a)'
    <2>1. a \in 1 .. Len(truths)
      BY <1>2
    <2>2. a # i \/ \E y \in {x, p} : y.type = "observation" /\ y.attempt = a
      BY <1>2
    <2> QED BY <1>2, <1>3, <1>4, <2>1, <2>2, OldOnHand
  <1>5. \A o \in {"U", "R", "M"} : 4 * (i - 1) + Given(o) + (IF o = "U" THEN 2 ELSE 0) <= 4 * (i' - 1) + Given(o)'
    BY <1>2, <1>3 DEF Given, Unseen, Unpassed, Unanswered
  <1>6. Unserved'
    BY <1>2 DEF Unserved
  <1> QED BY <1>2, <1>3, <1>4, <1>5, <1>6, RecordStep

LEMMA RecordPoll == EvidenceInv /\ FormInv /\ RecordInv /\ Poll => RecordInv'
  <1> SUFFICES ASSUME EvidenceInv, FormInv, RecordInv, Poll PROVE RecordInv'
    OBVIOUS
  <1>1. /\ pc = "poll" /\ pc' \in {"poll", "next"} /\ UNCHANGED <<s, i, down, queue, private, truths>>
        /\ Running /\ Running'
        /\ \A x : x.type # "verdict" => (x \in Evidence' <=> x \in Evidence)
    BY PollMoves
  <1>2. \A a : OnHand(a)' <=> OnHand(a)
    <2>1. \A a, type : type # "verdict" => (Seen(a, type)' <=> Seen(a, type))
      BY <1>1 DEF Seen
    <2>2. \A a : Handed(a)' <=> Handed(a)
      BY <1>1 DEF Handed
    <2> QED BY <1>1, <2>1, <2>2 DEF OnHand, NoReceipts, Withheld, BehaviorOf, Unseen, Unpassed, Unanswered
  <1>3. Room' <=> Room
    BY <1>1 DEF Room, Given, Unseen, Unpassed, Unanswered
  <1> QED BY <1>1, <1>2, <1>3 DEF RecordInv, Complete, FoundOut, Unserved

LEMMA RecordRecover == EvidenceInv /\ FormInv /\ RecordInv /\ Recover => RecordInv'
  <1> SUFFICES ASSUME EvidenceInv, FormInv, RecordInv, Recover PROVE RecordInv'
    OBVIOUS
  <1>1. /\ pc = "close" /\ pc' = "close" /\ UNCHANGED <<s, i, truths>> /\ down' = FALSE
        /\ Running /\ Running' /\ Keeps({}) /\ \A p \in {"U", "R", "M"} : queue'[p] = <<>>
    BY RecoverMoves
  <1>2. i \in Nat \ {0}
    BY DEF EvidenceInv, HarmInv, Positions
  <1>3. Room'
    <2>1. \A p \in {"U", "R", "M"} : Len(queue'[p]) = 0
      BY <1>1
    <2> QED BY <1>1, <1>2, <2>1 DEF Room, Given
  <1>4. ASSUME Complete, NEW a \in 1 .. Len(truths') PROVE OnHand(a)'
    BY <1>1, <1>4, OldOnHand
  <1> QED BY <1>1, <1>3, <1>4 DEF RecordInv, Complete, FoundOut, Unserved

LEMMA RecordClose == EvidenceInv /\ BlameInv /\ FormInv /\ RecordInv /\ Close => RecordInv'
  <1> SUFFICES ASSUME EvidenceInv, BlameInv, FormInv, RecordInv, Close PROVE RecordInv'
    OBVIOUS
  <1>1. PICK x : x = Manifest
    OBVIOUS
  <1>2. /\ pc = "close" /\ pc' = "final" /\ UNCHANGED <<s, i, down, truths>> /\ ~ (down /\ s.recover)
        /\ Running /\ Running' /\ HandsOver("U", {x}, 1) /\ x.type = "manifest"
    BY <1>1, CloseMoves
  <1>3. s \in Scenarios /\ Sequences /\ i \in Nat \ {0} /\ i <= s.attempts
    BY <1>2, Stage DEF RecordInv
  <1>4. ASSUME Complete, NEW a \in 1 .. Len(truths') PROVE OnHand(a)'
    <2>1. ~ down
      BY <1>2, <1>4 DEF RecordInv, Complete
    <2>2. Len(queue["U"]) = 0
      BY <1>2, <2>1 DEF BlameInv, Waits
    <2>3. s.capacity \in Nat /\ s.capacity >= 1
      BY <1>3, <1>4, SimulationAssumption DEF Complete
    <2>4. Len(queue["U"]) + 1 <= s.capacity
      BY <2>2, <2>3
    <2>5. \A y \in Evidence \cup {x} : y.type = "private" => y # NULL
      BY <1>2 DEF FormInv, Formed
    <2>6. Keeps({x})
      BY <1>2, <1>3, <2>4, <2>5, HandedKeeps
    <2> QED BY <1>2, <1>4, <2>6, OldOnHand DEF Unseen, Unpassed, Unanswered
  <1> QED BY <1>2, <1>4 DEF RecordInv, Complete, FoundOut, Unserved

(* The verdicts once given, nothing of this changes. *)
LEMMA RecordEnds ==
  ASSUME RecordInv, ~ Running, ~ Running', UNCHANGED <<s, i, down, truths, finals>>
  PROVE  RecordInv'
  <1>1. FoundOut'
    BY DEF RecordInv, FoundOut, Complete, Attempts, Falsified, Colluded, Withheld, BehaviorOf, Allowed, Permitted
  <1>2. pc' # "received" /\ pc' # "final"
    BY DEF Running
  <1> QED BY <1>1, <1>2 DEF RecordInv, Unserved

LEMMA RecordStutters == RecordInv /\ UNCHANGED vars => RecordInv'
  <1> SUFFICES ASSUME RecordInv, UNCHANGED vars PROVE RecordInv'
    OBVIOUS
  <1>1. UNCHANGED <<s, pc, i, down, queue, log, private, wire, truths, finals>>
    BY DEF vars
  <1>2. Running' <=> Running
    BY <1>1 DEF Running
  <1>3. CASE Running
    <2>1. \A a : OnHand(a)' <=> OnHand(a)
      BY <1>1 DEF OnHand, Seen, Handed, Evidence, Registered, NoReceipts, Withheld, BehaviorOf
    <2>2. Room' <=> Room
      BY <1>1 DEF Room, Given
    <2> QED BY <1>1, <1>2, <1>3, <2>1, <2>2 DEF RecordInv, Complete, FoundOut, Unserved
  <1>4. CASE ~ Running
    BY <1>1, <1>2, <1>4, RecordEnds
  <1> QED BY <1>3, <1>4

(* T reads off a statement of a kind if it has a usable one. *)
LEMMA LastIs ==
  ASSUME NEW N \in Nat, NEW entries, DOMAIN entries \subseteq 1 .. N, NEW type
  PROVE  \/ /\ LastOf(entries, type) = NULL
            /\ \A n \in DOMAIN entries : ~ (entries[n].stmt.type = type /\ Usable(entries[n].stmt))
         \/ \E n \in DOMAIN entries : /\ LastOf(entries, type) = entries[n].stmt
                                      /\ entries[n].stmt.type = type /\ Usable(entries[n].stmt)
  <1> DEFINE at == {n \in DOMAIN entries : entries[n].stmt.type = type /\ Usable(entries[n].stmt)}
             last == CHOOSE n \in at : \A k \in at : k <= n
  <1>1. CASE at = {}
    BY <1>1 DEF LastOf
  <1>2. CASE at # {}
    <2>1. LastOf(entries, type) = entries[last].stmt
      BY <1>2 DEF LastOf
    <2>2. last \in at
      BY <1>2, Greatest
    <2> QED BY <2>1, <2>2
  <1> QED BY <1>1, <1>2

(* One equation that fails fails the verdict. *)
LEMMA FailedEquation ==
  ASSUME NEW ev, NEW parties, NEW e \in DOMAIN Equations(ev), Equations(ev)[e] = "fail"
  PROVE  Verdict(ev, parties).status = "failed"
  <1>1. PICK eqs, completeness : eqs = Equations(ev) /\ completeness = Completeness(ev, parties)
    OBVIOUS
  <1>2. PICK found : found = Discrepancies(ev, eqs, completeness)
    OBVIOUS
  <1>3. Verdict(ev, parties).status = Status(eqs, found)
    BY <1>1, <1>2 DEF Verdict
  <1> QED BY <1>1, <1>3 DEF Status

LEMMA CommitsDiffer ==
  ASSUME NEW a \in Nat, NEW x, NEW y, Commit(a, x) = Commit(a, y)
  PROVE  x = y
  BY SimulationAssumption DEF Commit

(* M's receipt of the answer it gave, next to what U observed, what R said *)
(* and what U wanted, tells a falsified answer by E4, E8 or E10.           *)
LEMMA ForwardedFound ==
  ASSUME NEW a \in Nat, Falsified(a), s.transforms \subseteq Recomputable,
         NEW c, c # NULL, SoundContract(c), c.attempt = a,
         NEW r, r # NULL, SoundRelay(r), r.attempt = a,
         NEW o, o # NULL, SoundObservation(o), o.attempt = a,
         NEW m, m # NULL, m.model = truths[a].model, m.req = Commit(a, truths[a].atModel), m.req # NULL,
         m.resp = Commit(a, truths[a].answer), m.resp # NULL,
         NEW p, p # NULL, p.attempt = a, SoundPrivate(p)
  PROVE  \/ RequestTransform(c, r, m, p) = "fail"
         \/ Route(c, r, m) = "fail"
         \/ EndToEnd(c, r, m, o) = "fail"
  <1>1. \/ truths[a].atUser # truths[a].answer
        \/ truths[a].atModel \notin Allowed
        \/ ~ Permitted(a)
    BY DEF Falsified
  <1>2. CASE truths[a].atUser # truths[a].answer
    <2>1. m.resp # o.resp
      BY <1>2, CommitsDiffer DEF SoundObservation
    <2>2. c.respTransforms = {"identity"} /\ r.respTransform = "identity"
      BY DEF SoundContract, SoundRelay
    <2> QED BY <2>1, <2>2 DEF EndToEnd, PassIf
  <1>3. CASE truths[a].atModel \notin Allowed
    <2>1. "identity" \in c.transforms => m.req # c.req
      <3>1. SUFFICES ASSUME "identity" \in c.transforms, m.req = c.req PROVE FALSE
        OBVIOUS
      <3>2. Commit(a, truths[a].atModel) = Commit(a, "asked") /\ "identity" \in s.transforms
        BY <3>1 DEF SoundContract
      <3>3. truths[a].atModel = "asked"
        BY <3>2, CommitsDiffer
      <3> QED BY <1>3, <3>2, <3>3 DEF Allowed
    <2>2. ASSUME NEW t \in DOMAIN p.expected \cap c.transforms PROVE m.req # p.expected[t]
      <3>1. SUFFICES ASSUME m.req = p.expected[t] PROVE FALSE
        OBVIOUS
      <3>2. t \in {Formatter} \cap s.transforms /\ p.expected[t] = Commit(a, t)
        BY DEF SoundPrivate
      <3>3. truths[a].atModel = t
        BY <3>1, <3>2, CommitsDiffer
      <3> QED BY <1>3, <3>2, <3>3 DEF Allowed
    <2>3. c.transforms \subseteq Recomputable
      BY DEF SoundContract
    <2> QED BY <2>1, <2>2, <2>3 DEF RequestTransform
  <1>4. CASE ~ Permitted(a)
    <2>1. c.requested = "model-A" /\ c.allowed = s.allowed /\ c.fallback = s.fallback
      BY DEF SoundContract
    <2>2. m.model # "model-A" /\ (m.model \in s.allowed /\ s.fallback # "none" => ~ BehaviorOf(a).declareFallback)
      BY <1>4 DEF Permitted
    <2>3. r.decision = "fallback" => BehaviorOf(a).declareFallback
      BY DEF SoundRelay
    <2> QED BY <2>1, <2>2, <2>3 DEF Route, Actual, PassIf
  <1> QED BY <1>1, <1>2, <1>3, <1>4

(* With all of it before T, what was falsified fails; where R has shown an *)
(* earlier answer, by the nonce of that one's receipt.                     *)
LEMMA FalsifiedFails ==
  ASSUME NEW a \in Nat, Typed(truths[a]), Falsified(a), ~ Colluded(a),
         ~ BehaviorOf(a).dropSalt, ~ (BehaviorOf(a).replay /\ BehaviorOf(a).strip), ~ NoReceipts,
         s.transforms \subseteq Recomputable,
         NEW N \in Nat, NEW entries, DOMAIN entries \subseteq 1 .. N,
         \A n \in DOMAIN entries : entries[n].stmt.attempt = a /\ Sound(entries[n].stmt) /\ Formed(entries[n].stmt),
         \A type \in {"contract", "relay", "observation"} : \E n \in DOMAIN entries : entries[n].stmt.type = type,
         truths[a].answer # NULL => \E n \in DOMAIN entries : entries[n].stmt.type = "receipt",
         NEW p, p # NULL, p.attempt = a, SoundPrivate(p), NEW parties
  PROVE  Verdict(Gather(entries, p), parties).status = "failed"
  <1>1. PICK ev : ev = Gather(entries, p)
    OBVIOUS
  <1>2. PICK c, r, o, g : /\ c = LastOf(entries, "contract") /\ r = LastOf(entries, "relay")
                          /\ o = LastOf(entries, "observation") /\ g = LastOf(entries, "receipt")
    OBVIOUS
  <1>3. ev.contract = c /\ ev.relay = r /\ ev.observation = o /\ ev.private = p
    BY <1>1, <1>2 DEF Gather
  <1>4. ASSUME NEW type \in {"contract", "relay", "observation", "receipt"}
        PROVE  \/ LastOf(entries, type) = NULL /\ \A n \in DOMAIN entries : entries[n].stmt.type # type
               \/ LET x == LastOf(entries, type)
                  IN x # NULL /\ x.type = type /\ x.attempt = a /\ Sound(x) /\ Formed(x) /\ Usable(x)
    <2>1. PICK x : x = LastOf(entries, type)
      OBVIOUS
    <2>2. \A n \in DOMAIN entries : entries[n].stmt.type = type => Usable(entries[n].stmt)
      BY DEF Formed
    <2>3. \/ x = NULL /\ \A n \in DOMAIN entries : entries[n].stmt.type # type
          \/ \E n \in DOMAIN entries : x = entries[n].stmt /\ x.type = type /\ Usable(x)
      BY <2>1, <2>2, LastIs
    <2>4. CASE \E n \in DOMAIN entries : x = entries[n].stmt /\ x.type = type /\ Usable(x)
      <3>1. x # NULL /\ x.attempt = a /\ Sound(x) /\ Formed(x)
        BY <2>4 DEF Formed
      <3> QED BY <2>1, <2>4, <3>1
    <2> QED BY <2>1, <2>3, <2>4
  <1>5. /\ c # NULL /\ c.type = "contract" /\ c.attempt = a /\ SoundContract(c)
        /\ r # NULL /\ r.type = "relay" /\ r.attempt = a /\ SoundRelay(r)
        /\ o # NULL /\ o.type = "observation" /\ o.attempt = a /\ SoundObservation(o) /\ Formed(o)
    <2>1. c # NULL /\ c.type = "contract" /\ c.attempt = a /\ Sound(c)
      BY <1>2, <1>4
    <2>2. r # NULL /\ r.type = "relay" /\ r.attempt = a /\ Sound(r)
      BY <1>2, <1>4
    <2>3. o # NULL /\ o.type = "observation" /\ o.attempt = a /\ Sound(o) /\ Formed(o)
      BY <1>2, <1>4
    <2> QED BY <2>1, <2>2, <2>3 DEF Sound
  <1>6. g # NULL => g.type = "receipt" /\ g.attempt = a /\ SoundReceipt(g) /\ Formed(g)
    BY <1>2, <1>4 DEF Sound
  <1>7. CASE truths[a].atModel = NULL
    <2>1. g = NULL
      BY <1>6, <1>7 DEF SoundReceipt, Issued
    <2>2. PICK m : m = o.presented
      OBVIOUS
    <2>3. m # NULL /\ Presented(m) /\ m.nonce # a
      BY <1>5, <1>7, <2>2 DEF Formed
    <2>4. Usable(m)
      BY <2>3, FormsUsable DEF Presented
    <2>5. ev.receipt = m
      BY <1>1, <1>2, <1>5, <2>1, <2>2, <2>3, <2>4 DEF Gather
    <2>6. Equations(ev).E5 = "fail"
      <3>1. c.nonce = a
        BY <1>5 DEF SoundContract
      <3>2. Equations(ev).E5 = PassIf(/\ m # NULL => m.nonce = c.nonce
                                      /\ r # NULL => r.nonce = c.nonce)
        BY <1>3, <1>5, <2>3, <2>5 DEF Equations
      <3> QED BY <2>3, <3>1, <3>2 DEF PassIf
    <2>7. "E5" \in DOMAIN Equations(ev)
      BY DEF Equations
    <2> QED BY <1>1, <2>6, <2>7, FailedEquation
  <1>8. CASE truths[a].atModel # NULL
    <2>1. truths[a].answer # NULL
      BY <1>8 DEF Typed, Falsified
    <2>2. g # NULL /\ ev.receipt = g
      <3>1. g # NULL
        BY <1>2, <1>4, <2>1
      <3> QED BY <1>1, <1>2, <3>1 DEF Gather
    <2>3. g.resp # NULL
      BY <1>6, <2>1, <2>2 DEF Formed
    <2>4. g.model = truths[a].model /\ g.req = Commit(a, truths[a].atModel) /\ g.req # NULL /\ g.resp = Commit(a, truths[a].answer)
      BY <1>6, <2>2, <2>3 DEF SoundReceipt, Told
    <2>5. \/ RequestTransform(c, r, g, p) = "fail"
          \/ Route(c, r, g) = "fail"
          \/ EndToEnd(c, r, g, o) = "fail"
      BY <1>5, <2>2, <2>3, <2>4, ForwardedFound
    <2>6. Equations(ev).E4 = "fail" \/ Equations(ev).E8 = "fail" \/ Equations(ev).E10 = "fail"
      BY <1>3, <2>2, <2>5 DEF Equations
    <2>7. {"E4", "E8", "E10"} \subseteq DOMAIN Equations(ev)
      BY DEF Equations
    <2> QED BY <1>1, <2>6, <2>7, FailedEquation
  <1> QED BY <1>7, <1>8

(* At the end T sees everything there is on the attempt. *)
LEMMA AllVisible ==
  ASSUME IsSequence(log), NEW t, \A n \in DOMAIN log : log[n].at <= t, NEW a, NEW x \in Registered,
         x.attempt = a, x.type # "verdict"
  PROVE  \E n \in DOMAIN Visible(a, t) : Visible(a, t)[n].stmt = x
  <1>1. PICK n \in DOMAIN log : log[n].stmt = x
    BY DEF Registered
  <1>2. n \in {k \in EvidenceOn(a, Len(log)) : log[k].at <= t}
    <2>1. n \in 1 .. Len(log)
      BY Places
    <2> QED BY <1>1, <2>1 DEF EvidenceOn
  <1> QED BY <1>1, <1>2 DEF Visible, Restrict

LEMMA VisibleOn ==
  ASSUME IsSequence(log), NEW a, NEW t, NEW n \in DOMAIN Visible(a, t)
  PROVE  Visible(a, t)[n].stmt \in Registered /\ Visible(a, t)[n].stmt.attempt = a /\ Visible(a, t)[n].stmt.type # "verdict"
  BY DEF Visible, EvidenceOn, Restrict, Registered, IsSequence

LEMMA RecordFinalize == EvidenceInv /\ BlameInv /\ FormInv /\ RecordInv /\ Finalize => RecordInv'
  <1> SUFFICES ASSUME EvidenceInv, BlameInv, FormInv, RecordInv, Finalize PROVE RecordInv'
    OBVIOUS
  <1>1. /\ pc = "final" /\ pc' = "checkpoint" /\ UNCHANGED <<s, i, down, now, truths, wire, private>>
        /\ Running /\ ~ Running'
    BY DEF Finalize, Running
  <1>2. /\ s \in Scenarios /\ s.attempts \in Nat /\ i \in Nat \ {0} /\ i = s.attempts /\ Len(truths) = i
        /\ IsSequence(log) /\ PrivateKept /\ now \in Nat
    BY <1>1, SimulationAssumption DEF EvidenceInv, HarmInv, Positions, RecordInv, Sequences, FormInv, Clock
  <1>3. SUFFICES ASSUME ~ s.misjudge, Complete, s.issueReceipts, s.cooperation = {"U", "R", "M"},
                        s.transforms \subseteq Recomputable, NEW a \in Attempts, Falsified(a), ~ Colluded(a), ~ Withheld(a),
                        ~ BehaviorOf(a).dropSalt, ~ (BehaviorOf(a).replay /\ BehaviorOf(a).strip)
                 PROVE  finals'[a].status = "failed"
    <2>1. \A a : /\ Falsified(a)' <=> Falsified(a)
                 /\ Colluded(a)' <=> Colluded(a)
                 /\ Withheld(a)' <=> Withheld(a)
                 /\ BehaviorOf(a)' = BehaviorOf(a)
      BY <1>1 DEF Falsified, Allowed, Permitted, Colluded, Withheld, BehaviorOf
    <2>2. FoundOut'
      BY <1>1, <1>3, <2>1 DEF FoundOut, Complete, Attempts
    <2> QED BY <1>1, <2>2 DEF RecordInv, Unserved
  <1>4. a \in Nat /\ a \in 1 .. Len(truths) /\ a \in DOMAIN private /\ pc \notin Unseen
    BY <1>1, <1>2 DEF Attempts, PrivateKept, Unseen, Unpassed, Unanswered
  <1>5. Evidence = Registered
    <2>1. ~ down
      BY <1>1, <1>3 DEF RecordInv, Complete
    <2>2. \A p \in {"U", "R", "M"} : Range(queue[p]) = {}
      BY <1>1, <2>1 DEF BlameInv, Waits, Range
    <2> QED BY <2>2 DEF Evidence
  <1>6. /\ \A n \in DOMAIN log : log[n].at <= now
        /\ \A x \in Registered : x.type # "private" /\ Sound(x) /\ (x.type # "verdict" => Formed(x))
    BY <1>1, <1>5 DEF FormInv, Clock, Soon, EvidenceInv
  <1>7. OnHand(a) /\ ~ NoReceipts /\ truths[a].atUser # NULL
    BY <1>1, <1>3, <1>4 DEF RecordInv, NoReceipts, Colluded, Falsified
  <1>8. PICK p, entries : p = private[a] /\ entries = Visible(a, now)
    OBVIOUS
  <1>9. p # NULL /\ p.attempt = a /\ SoundPrivate(p)
    BY <1>2, <1>4, <1>5, <1>6, <1>7, <1>8 DEF OnHand, Handed, PrivateKept
  <1>10. /\ \A n \in DOMAIN entries : entries[n].stmt.attempt = a /\ Sound(entries[n].stmt) /\ Formed(entries[n].stmt)
         /\ \A type : type # "verdict" /\ Seen(a, type) => \E n \in DOMAIN entries : entries[n].stmt.type = type
    <2>1. \A n \in DOMAIN entries :
            entries[n].stmt \in Registered /\ entries[n].stmt.attempt = a /\ entries[n].stmt.type # "verdict"
      BY <1>2, <1>8, VisibleOn
    <2>2. ASSUME NEW type, type # "verdict", Seen(a, type) PROVE \E n \in DOMAIN entries : entries[n].stmt.type = type
      <3>1. PICK x \in Registered : x.type = type /\ x.attempt = a
        BY <1>5, <2>2 DEF Seen
      <3>2. PICK t : t = now
        OBVIOUS
      <3>3. \E n \in DOMAIN Visible(a, t) : Visible(a, t)[n].stmt = x
        <4>1. \A n \in DOMAIN log : log[n].at <= t
          BY <1>6, <3>2
        <4>2. IsSequence(log) /\ x \in Registered /\ x.attempt = a /\ x.type # "verdict"
          BY <1>2, <2>2, <3>1
        <4> HIDE DEF Registered
        <4> QED BY <4>1, <4>2, AllVisible
      <3> QED BY <1>8, <3>1, <3>2, <3>3
    <2> QED BY <1>6, <2>1, <2>2
  <1>11. PICK N \in Nat : DOMAIN entries \subseteq 1 .. N
    BY <1>2, <1>8, SeenOn, Places
  <1>12. Typed(truths[a])
    BY <1>4 DEF FormInv
  <1>13. Verdict(Gather(entries, p), Parties).status = "failed"
    <2>1. \A type \in {"contract", "relay", "observation"} : \E n \in DOMAIN entries : entries[n].stmt.type = type
      <3>1. Seen(a, "contract") /\ Seen(a, "relay") /\ Seen(a, "observation")
        BY <1>3, <1>4, <1>7 DEF OnHand
      <3> QED BY <1>10, <3>1
    <2>2. truths[a].answer # NULL => \E n \in DOMAIN entries : entries[n].stmt.type = "receipt"
      BY <1>7, <1>10 DEF OnHand
    <2>3. PICK parties : parties = Parties
      OBVIOUS
    <2>4. Verdict(Gather(entries, p), parties).status = "failed"
      <3>1. a \in Nat /\ ~ NoReceipts
        BY <1>4, <1>7
      <3>2. \A n \in DOMAIN entries : entries[n].stmt.attempt = a /\ Sound(entries[n].stmt) /\ Formed(entries[n].stmt)
        BY <1>10
      <3> HIDE DEF Seen
      <3> QED BY <1>3, <1>9, <1>11, <1>12, <2>1, <2>2, <3>1, <3>2, FalsifiedFails
    <2> QED BY <2>3, <2>4
  <1> QED BY <1>3, <1>8, <1>13 DEF Finalize, Judge, JudgeHonest, Attempts

(* Whoever has done something on an attempt has handed it over, and with   *)
(* T back in time and room in the queues none of it is lost; so a          *)
(* falsified answer with everybody's evidence fails (parties/evidence.py,  *)
(* runner.py:81-91, engine.py).                                            *)
THEOREM RecordInvariant == Spec => []RecordInv
  <1>1. EvidenceInv /\ BlameInv /\ FormInv /\ RecordInv /\ [Next]_vars => RecordInv'
    <2> SUFFICES ASSUME EvidenceInv, BlameInv, FormInv, RecordInv, [Next]_vars PROVE RecordInv'
      OBVIOUS
    <2>1. CASE Checkpoint
      <3>1. UNCHANGED <<s, i, down, truths, finals>> /\ ~ Running /\ ~ Running'
        BY <2>1 DEF Checkpoint, Running
      <3> QED BY <3>1, RecordEnds
    <2>2. CASE Audit
      <3>1. UNCHANGED <<s, i, down, truths, finals>> /\ ~ Running /\ ~ Running'
        BY <2>2 DEF Audit, Running
      <3> QED BY <3>1, RecordEnds
    <2> QED BY <2>1, <2>2, RecordStutters, RecordRequest, RecordDrops, RecordReplays, RecordForwards, RecordServe, RecordForge,
               RecordAnswers, RecordQuiet, RecordReceive, RecordPoll, RecordRecover, RecordClose, RecordFinalize DEF Next
  <1> QED BY RecordInit, EvidenceInvariant, BlameInvariant, FormInvariant, <1>1, PTL DEF Spec

(* With everybody's evidence on record, and no more of it than the queues  *)
(* hold, a falsified answer never gets past the verdict, except an old     *)
(* answer that R shows without its receipt (scenarios.py: S02, S03, S05,   *)
(* S06, S08).                                                              *)
THEOREM FalsifiedAreFound == Spec => []FalsifiedIsFailed
  <1>1. RecordInv => FalsifiedIsFailed
    BY DEF RecordInv, FoundOut, FalsifiedIsFailed, Complete, Done, Running
  <1> QED BY RecordInvariant, <1>1, PTL

-----------------------------------------------------------------------------
(* R means well in attempt a, and the answer orders no tool to be run. *)
Honest(a) == Meant(a) /\ ~ s.injected

DueAnswer == Infer("model-A", "asked")

DueReceipt(a) ==
  [ type |-> "receipt", iss |-> "M", signed |-> TRUE, kid |-> "M", attempt |-> a,
    req |-> Commit(a, "asked"), resp |-> Commit(a, DueAnswer), model |-> "model-A", hash |-> HashOf["model-A"],
    nonce |-> a, decision |-> "served" ]

DueTruth(t) == t.atModel = "asked" /\ t.model = "model-A" /\ t.answer = DueAnswer /\ t.atUser = DueAnswer

(* What a statement says where R means well. *)
Due(x) ==
  LET a == x.attempt
  IN /\ x.type = "contract" => x.expires \in Nat /\ a \in 1 .. i /\ (a = i => pc # "user")
     /\ x.type = "observation" => x.at \in Nat
     /\ x.type = "private" => x.commit = Commit(a, "asked")
     /\ x.type = "relay" => x.in = Commit(a, "asked")
     /\ Honest(a) => /\ x.type = "receipt" => x = DueReceipt(a)
                     /\ x.type = "relay" => x.respIn = Commit(a, DueAnswer) /\ x.respOut = Commit(a, DueAnswer)
                     /\ x.type = "observation" => x.presented = DueReceipt(a)

(* U receives the answer before its contract expires. *)
Timely(W) ==
  \A x, y \in W : x.type = "contract" /\ y.type = "observation" /\ x.attempt = y.attempt /\ Honest(x.attempt)
                    => y.at <= x.expires

(* What is left of the time that the contract allows. *)
Budget == IF pc = "relay" THEN 400 ELSE IF pc = "model" THEN 350 ELSE IF pc = "answer" THEN 100 ELSE 50

Enroute == {"relay", "model", "answer", "received"}

OnSchedule ==
  Honest(i) /\ pc \in Enroute =>
    /\ wire.contract.expires \in Nat /\ now + Budget <= wire.contract.expires
    /\ \A x \in Evidence : x.type = "contract" /\ x.attempt = i => now + Budget <= x.expires

DueOnWire ==
  Honest(i) =>
    /\ pc # "forge"
    /\ pc \in {"model", "answer"} => wire.body = "asked"
    /\ pc = "answer" => wire.answer = DueAnswer
    /\ pc = "received" => wire.body = DueAnswer
    /\ pc \in {"answer", "received"} => wire.receipt = DueReceipt(i)
    /\ pc = "poll" => s.mode = "strict" /\ Clear(wire.checks)

DueTruths == \A a \in 1 .. Len(truths) : Honest(a) /\ (a = i => pc \notin Unpassed) => DueTruth(truths[a])

Welcome(action) ==
  action \in CASE s.mode = "observe" -> {"accept_unverified"}
               [] s.mode = "protect" -> {"accept"}
               [] s.mode = "strict" -> {"accept", "reject_timeout"}

DueGates == \A a \in 1 .. Len(gates) : Honest(a) => Welcome(gates[a].action)

DuePrivate == \A a \in DOMAIN private : private[a] # NULL => private[a].commit = Commit(a, "asked")

ServedInv ==
  /\ Running => /\ \A x \in Evidence : x.type # "verdict" => Due(x)
                /\ DuePrivate /\ Timely(Evidence) /\ OnSchedule
  /\ DueOnWire /\ DueTruths /\ DueGates
  /\ ~ Running => \A a \in Attempts : Honest(a) => finals[a].status # "failed"

LEMMA HonestStays ==
  ASSUME s' = s
  PROVE  \A a : Honest(a)' <=> Honest(a)
  BY DEF Honest, Meant, BehaviorOf, Colluded

LEMMA HonestMeans ==
  ASSUME i \in Nat, Honest(i)
  PROVE  /\ ~ Behavior.drop /\ ~ Behavior.replay /\ ~ Behavior.tamper /\ ~ Behavior.collude /\ ~ Behavior.strip
         /\ Behavior.honest /\ ~ Behavior.dropNonce /\ ~ Behavior.dropSalt
         /\ Upstream = "model-A" /\ Rewritten(Behavior) = "asked"
         /\ ~ s.modelColludes /\ s.issueReceipts /\ "M" \in s.cooperation /\ "identity" \in s.transforms /\ ~ s.injected
  <1>1. Behavior = BehaviorOf(i)
    BY DEF Behavior, BehaviorOf
  <1> QED BY <1>1 DEF Honest, Meant, Colluded, Upstream, Rewritten

LEMMA DueThere ==
  /\ DueAnswer \in Answers /\ DueAnswer # NULL
  /\ \A a \in Nat : /\ Commit(a, "asked") # NULL /\ Commit(a, DueAnswer) # NULL
                    /\ Commit(a, DueAnswer) = [salt |-> a, of |-> DueAnswer]
  <1>1. DueAnswer \in Answers /\ DueAnswer # NULL
    BY AnswerThere DEF DueAnswer, Models, Bodies
  <1> QED BY <1>1, AnswerCommitted, CommitThere DEF Bodies

LEMMA DueStays ==
  ASSUME Onward, i' = i => pc' # "user", NEW x, Due(x)
  PROVE  Due(x)'
  <1>1. \A a : Honest(a)' <=> Honest(a)
    BY HonestStays DEF Onward
  <1>2. x.type = "contract" => x.attempt \in 1 .. i' /\ (x.attempt = i' => pc' # "user")
    BY DEF Due, Onward
  <1>3. \A a : DueReceipt(a)' = DueReceipt(a) /\ Commit(a, "asked")' = Commit(a, "asked")
               /\ Commit(a, DueAnswer)' = Commit(a, DueAnswer)
    BY DEF DueReceipt, Commit, DueAnswer, Infer
  <1> QED BY <1>1, <1>2, <1>3 DEF Due

(* A step of the run that hands over V, due and in time, keeps the rest. *)
LEMMA ServedStep ==
  ASSUME EvidenceInv, ServedInv, Running, Running', Onward, i' = i => pc' # "user", NEW V, Adds(V),
         \A x \in V : Due(x)', Timely(Evidence \cup V), OnSchedule', DueOnWire', DueTruths', DueGates'
  PROVE  ServedInv'
  <1>1. \A x \in Evidence : x.type # "verdict" => Due(x)'
    BY DueStays DEF ServedInv
  <1>2. \A x \in Evidence' : x.type # "verdict" => Due(x)'
    BY <1>1 DEF Adds
  <1>3. DuePrivate'
    <2>1. SUFFICES ASSUME NEW a \in DOMAIN private, private'[a] # NULL PROVE private'[a].commit = Commit(a, "asked")
      BY DEF DuePrivate, Adds, Commit
    <2>2. CASE private'[a] = private[a]
      BY <2>1, <2>2 DEF ServedInv, DuePrivate
    <2>3. CASE private'[a] # private[a]
      <3>1. private'[a] \in Evidence \cup V /\ private'[a].type = "private" /\ private'[a].attempt = a
        BY <2>3 DEF Adds
      <3>2. PICK x : x = private'[a]
        OBVIOUS
      <3>3. Due(x)' /\ x.type = "private" /\ x.attempt = a
        BY <1>1, <3>1, <3>2
      <3> QED BY <3>2, <3>3 DEF Due, Commit
    <2> QED BY <2>2, <2>3
  <1>4. Timely(Evidence)'
    <2>1. \A a : Honest(a)' <=> Honest(a)
      BY HonestStays DEF Onward
    <2>2. Evidence' \subseteq Evidence \cup V
      BY DEF Adds
    <2> QED BY <2>1, <2>2 DEF Timely
  <1> QED BY <1>2, <1>3, <1>4 DEF ServedInv

(* Neither contracts nor observations come in. *)
LEMMA TimelySame ==
  ASSUME ServedInv, Running, NEW V, \A x \in V : x.type \notin {"contract", "observation"}
  PROVE  Timely(Evidence \cup V)
  BY DEF ServedInv, Timely

LEMMA ScheduleKept ==
  ASSUME ServedInv, Running, Onward, i' = i, now \in Nat, now' \in Nat, NEW V, Adds(V), \A x \in V : x.type # "contract",
         pc \in Enroute, wire'.contract = wire.contract, NEW d \in Nat, now' <= now + d, d + Budget' <= Budget
  PROVE  OnSchedule'
  <1>1. SUFFICES ASSUME Honest(i) PROVE
          /\ wire.contract.expires \in Nat /\ now' + Budget' <= wire.contract.expires
          /\ \A x \in Evidence' : x.type = "contract" /\ x.attempt = i => now' + Budget' <= x.expires
    <2>1. Honest(i)' <=> Honest(i)
      BY HonestStays DEF Onward
    <2> QED BY <1>1, <2>1 DEF OnSchedule
  <1>2. PICK n, r, b, c : n = now /\ r = now' /\ b = Budget /\ c = Budget'
    OBVIOUS
  <1>3. b \in Nat /\ c \in Nat /\ n \in Nat /\ r \in Nat /\ r <= n + d /\ d + c <= b
    BY <1>2 DEF Budget
  <1>4. ASSUME NEW e \in Nat, n + b <= e PROVE r + c <= e
    BY <1>3, <1>4
  <1>5. wire.contract.expires \in Nat /\ n + b <= wire.contract.expires
    BY <1>1, <1>2 DEF ServedInv, OnSchedule
  <1>6. ASSUME NEW x \in Evidence', x.type = "contract", x.attempt = i PROVE r + c <= x.expires
    <2>1. x \in Evidence
      BY <1>6 DEF Adds
    <2>2. x.expires \in Nat /\ n + b <= x.expires
      BY <1>1, <1>2, <1>6, <2>1 DEF ServedInv, OnSchedule, Due
    <2> QED BY <1>4, <2>2
  <1> QED BY <1>2, <1>4, <1>5, <1>6

LEMMA ServedInit == Init => ServedInv
  <1> SUFFICES ASSUME Init PROVE ServedInv
    OBVIOUS
  <1>1. pc = "user" /\ Running /\ DOMAIN log = {} /\ log = <<>> /\ truths = <<>> /\ gates = <<>>
    BY DEF Init, Running
  <1>2. Evidence = {}
    BY <1>1 DEF Evidence, Registered, Init, Range
  <1>3. DuePrivate
    BY DEF Init, DuePrivate
  <1> QED BY <1>1, <1>2, <1>3 DEF ServedInv, Timely, OnSchedule, DueOnWire, DueTruths, DueGates, Enroute

LEMMA MovesOn ==
  ASSUME EvidenceInv, FormInv, NEW p, NEW V, NEW k, Moves(p, V, k)
  PROVE  /\ Running /\ Running' /\ Onward /\ Adds(V) /\ s' = s /\ now \in Nat /\ now' \in Nat
         /\ i \in Nat \ {0} /\ i' \in Nat
  <1>1. s \in Scenarios /\ Sequences /\ i \in Nat \ {0} /\ now \in Nat
    BY Stage DEF Moves
  <1> QED BY <1>1, HandedAdds DEF Moves, Onward

(* Nothing about U's decisions changes. *)
LEMMA GatesSame ==
  ASSUME ServedInv, UNCHANGED <<s, gates>>
  PROVE  DueGates'
  <1>1. \A a : Honest(a)' <=> Honest(a)
    BY HonestStays
  <1> QED BY <1>1 DEF ServedInv, DueGates, Welcome

(* Of the other attempts the truth is as it was. *)
LEMMA TruthsOther ==
  ASSUME ServedInv, s' = s, i' = i, i \in Nat, Len(truths) \in {i - 1, i}, Len(truths') = i,
         \A a \in 1 .. i : a # i => truths'[a] = truths[a],
         Honest(i) /\ pc' \notin Unpassed => DueTruth(truths'[i])
  PROVE  DueTruths'
  <1>1. \A a : Honest(a)' <=> Honest(a)
    BY HonestStays
  <1>2. ASSUME NEW a \in 1 .. i, Honest(a), a = i => pc' \notin Unpassed PROVE DueTruth(truths'[a])
    <2>1. CASE a = i
      BY <1>2, <2>1
    <2>2. CASE a # i
      BY <1>2, <2>2 DEF ServedInv, DueTruths
    <2> QED BY <2>1, <2>2
  <1>3. \A t : DueTruth(t)' <=> DueTruth(t)
    BY DEF DueTruth, DueAnswer, Infer
  <1> QED BY <1>1, <1>2, <1>3 DEF DueTruths, DueTruth, DueAnswer, Infer

LEMMA ServedRequest == EvidenceInv /\ FormInv /\ ServedInv /\ Request => ServedInv'
  <1> SUFFICES ASSUME EvidenceInv, FormInv, ServedInv, Request PROVE ServedInv'
    OBVIOUS
  <1>1. PICK c, p : c = Contract /\ p = Private
    OBVIOUS
  <1>2. /\ Moves("U", {c, p}, 2) /\ Len(truths') = i /\ \A a \in 1 .. i - 1 : truths'[a] = truths[a]
    BY <1>1, RequestMoves
  <1>3. /\ pc = "user" /\ pc' = "relay" /\ i' = i /\ UNCHANGED gates /\ now' = now + 2 /\ wire'.contract = c
        /\ Len(truths) = i - 1
    BY <1>1 DEF Request, SignMs, EvidenceInv, HarmInv, Positions
  <1>4. Running /\ Running' /\ Onward /\ Adds({c, p}) /\ s' = s /\ now \in Nat /\ i \in Nat \ {0} /\ \A x \in Evidence : Sound(x)
    BY <1>2, MovesOn, Stage
  <1>5. c.type = "contract" /\ c.attempt = i /\ c.expires = now + 5000
    BY <1>1 DEF Contract, TtlMs
  <1>6. p.type = "private" /\ p.attempt = i /\ p.commit = Commit(i, "asked")
    BY <1>1 DEF Private
  <1>7. Due(c)' /\ Due(p)'
    BY <1>3, <1>4, <1>5, <1>6 DEF Due, Commit
  <1>8. \A x \in Evidence : x.attempt = i => x.type \notin {"contract", "observation"}
    BY <1>3, <1>4 DEF ServedInv, Due, Sound, SoundObservation, Unseen, Unpassed, Unanswered
  <1>9. Timely(Evidence \cup {c, p})
    BY <1>4, <1>5, <1>6, <1>8 DEF ServedInv, Timely
  <1>10. OnSchedule'
    <2>1. PICK n, m : n = now /\ m = now'
      OBVIOUS
    <2>2. n \in Nat /\ m = n + 2 /\ c.expires = n + 5000 /\ Budget' = 400
      BY <1>3, <1>4, <1>5, <2>1 DEF Budget
    <2>3. c.expires \in Nat /\ m + 400 <= c.expires
      BY <2>2
    <2>4. \A x \in Evidence' : x.type = "contract" /\ x.attempt = i => x = c
      BY <1>4, <1>6, <1>8 DEF Adds
    <2> QED BY <1>3, <2>1, <2>2, <2>3, <2>4 DEF OnSchedule
  <1>11. DueOnWire' /\ DueGates'
    BY <1>3, <1>4, GatesSame DEF DueOnWire
  <1>12. DueTruths'
    BY <1>2, <1>3, <1>4, TruthsOther DEF Unpassed, Unanswered
  <1>13. \A x \in {c, p} : Due(x)'
    BY <1>7
  <1>14. i' = i => pc' # "user"
    BY <1>3
  <1> HIDE DEF Timely
  <1> QED BY <1>4, <1>9, <1>10, <1>11, <1>12, <1>13, <1>14, ServedStep

LEMMA ServedDrops == EvidenceInv /\ FormInv /\ ServedInv /\ RelayDrops => ServedInv'
  <1> SUFFICES ASSUME EvidenceInv, FormInv, ServedInv, RelayDrops PROVE ServedInv'
    OBVIOUS
  <1>1. PICK x : x = Refused
    OBVIOUS
  <1>2. PICK V : V \in SUBSET {x} /\ Moves("R", V, 1)
    BY <1>1, DropsMoves
  <1>3. truths' = truths /\ i' = i /\ pc' = "received" /\ x.type = "relay" /\ x.in = Commit(i, "asked") /\ x.attempt = i
    BY <1>1, DropsMoves
  <1>4. /\ Running /\ Running' /\ Onward /\ Adds(V) /\ s' = s /\ i \in Nat \ {0} /\ Len(truths) = i
        /\ UNCHANGED gates /\ pc = "relay"
    BY <1>2, MovesOn, Stage DEF RelayDrops
  <1>5. ~ Honest(i) /\ ~ Honest(i)'
    BY <1>4, HonestMeans, HonestStays DEF RelayDrops
  <1>6. Due(x)'
    BY <1>3, <1>5 DEF Due, Commit
  <1>7. OnSchedule' /\ DueOnWire' /\ DueGates'
    BY <1>3, <1>4, <1>5, GatesSame DEF OnSchedule, DueOnWire
  <1>8. DueTruths'
    BY <1>3, <1>4, <1>5, TruthsOther
  <1>9. Timely(Evidence \cup V)
    BY <1>2, <1>3, <1>4, TimelySame
  <1>10. i' = i => pc' # "user"
    BY <1>3
  <1>11. \A y \in V : Due(y)'
    BY <1>2, <1>6
  <1> QED BY <1>4, <1>7, <1>8, <1>9, <1>10, <1>11, ServedStep

LEMMA ServedReplays == EvidenceInv /\ FormInv /\ ServedInv /\ RelayReplays => ServedInv'
  <1> SUFFICES ASSUME EvidenceInv, FormInv, ServedInv, RelayReplays PROVE ServedInv'
    OBVIOUS
  <1>1. PICK x, V : x = Again /\ V = IF Omits THEN {} ELSE {x}
    OBVIOUS
  <1>2. /\ Moves("R", V, 1) /\ i' = i /\ pc' = "received" /\ Behavior.replay
        /\ Len(truths') = i /\ (\A a \in 1 .. i : a # i => truths'[a] = truths[a])
        /\ x.type = "relay" /\ x.in = Commit(i, "asked") /\ x.attempt = i
    BY <1>1, ReplaysMoves
  <1>4. /\ Running /\ Running' /\ Onward /\ Adds(V) /\ s' = s /\ i \in Nat \ {0} /\ Len(truths) = i
        /\ UNCHANGED gates /\ pc = "relay"
    BY <1>2, MovesOn, Stage DEF RelayReplays
  <1>5. ~ Honest(i) /\ ~ Honest(i)'
    BY <1>2, <1>4, HonestMeans, HonestStays
  <1>6. Due(x)'
    BY <1>2, <1>5 DEF Due, Commit
  <1>7. OnSchedule' /\ DueOnWire' /\ DueGates'
    BY <1>2, <1>4, <1>5, GatesSame DEF OnSchedule, DueOnWire
  <1>8. DueTruths'
    BY <1>2, <1>4, <1>5, TruthsOther
  <1>9. Timely(Evidence \cup V)
    BY <1>1, <1>2, <1>4, TimelySame
  <1>10. i' = i => pc' # "user"
    BY <1>2
  <1>11. \A y \in V : Due(y)'
    BY <1>1, <1>6
  <1> QED BY <1>4, <1>7, <1>8, <1>9, <1>10, <1>11, ServedStep

LEMMA ServedForwards == EvidenceInv /\ FormInv /\ ServedInv /\ RelayForwards => ServedInv'
  <1> SUFFICES ASSUME EvidenceInv, FormInv, ServedInv, RelayForwards PROVE ServedInv'
    OBVIOUS
  <1>1. /\ Moves("R", {}, 0) /\ now' <= now + 50 /\ i' = i /\ pc = "relay" /\ pc' = "model"
        /\ wire'.contract = wire.contract /\ wire'.body = Rewritten(Behavior)
        /\ Len(truths') = i /\ (\A a \in 1 .. i : a # i => truths'[a] = truths[a])
    BY ForwardsMoves
  <1>2. /\ Running /\ Running' /\ Onward /\ Adds({}) /\ s' = s /\ i \in Nat \ {0} /\ now \in Nat /\ now' \in Nat
        /\ Len(truths) = i /\ UNCHANGED gates
    BY <1>1, MovesOn, Stage DEF RelayForwards
  <1>3. OnSchedule'
    <2>1. 50 + Budget' <= Budget /\ pc \in Enroute
      BY <1>1 DEF Budget, Enroute
    <2>2. \A x \in {} : x.type # "contract"
      OBVIOUS
    <2> QED BY <1>1, <1>2, <2>1, <2>2, ScheduleKept
  <1>4. DueOnWire'
    <2>1. Honest(i)' => Honest(i)
      BY <1>1, <1>2, HonestStays
    <2> QED BY <1>1, <1>2, <2>1, HonestMeans DEF DueOnWire
  <1>5. DueGates' /\ DueTruths'
    BY <1>1, <1>2, GatesSame, TruthsOther DEF Unpassed, Unanswered
  <1>6. Timely(Evidence \cup {})
    BY <1>2, TimelySame
  <1>7. i' = i => pc' # "user"
    BY <1>1
  <1> QED BY <1>2, <1>3, <1>4, <1>5, <1>6, <1>7, ServedStep

(* M serves what R passes on as it was asked, and its receipt is the due   *)
(* one.                                                                    *)
LEMMA DueServed ==
  ASSUME EvidenceInv, FormInv, ServedInv, pc = "model", Honest(i)
  PROVE  ModelAnswer = DueAnswer /\ ModelReceipt = DueReceipt(i)
  <1>1. i \in Nat /\ OnWire /\ HarmInv
    BY Stage DEF Running
  <1>2. /\ Upstream = "model-A" /\ ~ Behavior.dropNonce /\ ~ Behavior.dropSalt /\ ~ s.modelColludes /\ s.issueReceipts
        /\ "M" \in s.cooperation /\ "identity" \in s.transforms
    BY <1>1, HonestMeans
  <1>3. wire.body = "asked" /\ wire.nonce = i /\ wire.salt = i /\ truths[i].atModel = "asked"
    BY <1>1, <1>2 DEF ServedInv, DueOnWire, OnWire, HarmInv, Forwarded
  <1>4. PreExec # "failed"
    BY <1>2, <1>3, Refusal DEF Allowed
  <1>5. ModelAnswer = DueAnswer /\ DueAnswer # NULL
    BY <1>2, <1>3, <1>4, DueThere DEF ModelAnswer, DueAnswer
  <1>6. ModelReceipt = Receipt(DueAnswer, "served")
    BY <1>2, <1>4, <1>5 DEF ModelReceipt
  <1>7. Receipt(DueAnswer, "served") = DueReceipt(i)
    BY <1>2, <1>3, <1>5 DEF Receipt, DueReceipt
  <1> QED BY <1>5, <1>6, <1>7

LEMMA ServedServe == EvidenceInv /\ FormInv /\ ServedInv /\ Serve => ServedInv'
  <1> SUFFICES ASSUME EvidenceInv, FormInv, ServedInv, Serve PROVE ServedInv'
    OBVIOUS
  <1>1. PICK m, V, answer : m = ModelReceipt /\ V = {m} \ {NULL} /\ answer = ModelAnswer
    OBVIOUS
  <1>2. /\ Moves("M", V, 1) /\ now' <= now + 250
        /\ i' = i /\ pc = "model" /\ pc' \in {"forge", "answer"} /\ (pc' = "forge" => Behavior.tamper)
        /\ wire'.contract = wire.contract /\ wire'.body = wire.body /\ wire'.answer = answer /\ wire'.receipt = m
        /\ Len(truths') = i /\ (\A a \in 1 .. i : a # i => truths'[a] = truths[a])
        /\ m # NULL => m.type = "receipt" /\ m.attempt = i
    BY <1>1, ServeMoves
  <1>3. /\ Running /\ Running' /\ Onward /\ Adds(V) /\ s' = s /\ i \in Nat \ {0} /\ now \in Nat /\ now' \in Nat
        /\ Len(truths) = i /\ UNCHANGED gates
    BY <1>2, MovesOn, Stage DEF Serve
  <1>4. Honest(i)' <=> Honest(i)
    BY <1>2, <1>3, HonestStays
  <1>5. Honest(i) => answer = DueAnswer /\ m = DueReceipt(i) /\ ~ Behavior.tamper /\ wire.body = "asked"
    BY <1>1, <1>2, <1>3, DueServed, HonestMeans DEF ServedInv, DueOnWire
  <1>6. DueReceipt(i)' = DueReceipt(i) /\ DueAnswer' = DueAnswer
    BY <1>2 DEF DueReceipt, DueAnswer, Infer, Commit
  <1>7. m # NULL => Due(m)'
    BY <1>2, <1>4, <1>5, <1>6 DEF Due
  <1>8. DueOnWire'
    BY <1>2, <1>4, <1>5, <1>6 DEF DueOnWire
  <1>9. OnSchedule'
    <2>1. pc' = "forge" => ~ Honest(i)'
      BY <1>2, <1>4, <1>5
    <2>2. CASE pc' = "answer"
      <3>1. 250 + Budget' <= Budget /\ pc \in Enroute
        BY <1>2, <2>2 DEF Budget, Enroute
      <3>2. \A x \in V : x.type # "contract"
        BY <1>1, <1>2
      <3> QED BY <1>2, <1>3, <3>1, <3>2, ScheduleKept
    <2> QED BY <1>2, <2>1, <2>2 DEF OnSchedule
  <1>10. DueGates' /\ DueTruths'
    BY <1>2, <1>3, GatesSame, TruthsOther DEF Unpassed, Unanswered
  <1>11. Timely(Evidence \cup V)
    BY <1>1, <1>2, <1>3, TimelySame
  <1>12. i' = i => pc' # "user"
    BY <1>2
  <1>13. \A x \in V : Due(x)'
    BY <1>1, <1>7
  <1> QED BY <1>3, <1>8, <1>9, <1>10, <1>11, <1>12, <1>13, ServedStep

LEMMA ServedForge == EvidenceInv /\ FormInv /\ ServedInv /\ Forge => ServedInv'
  <1> SUFFICES ASSUME EvidenceInv, FormInv, ServedInv, Forge PROVE ServedInv'
    OBVIOUS
  <1>1. PICK m, V : m = ForgedReceipt /\ V = {m} \ {NULL}
    OBVIOUS
  <1>2. /\ Moves("M", V, 1) /\ i' = i /\ pc = "forge" /\ pc' = "answer" /\ truths' = truths
        /\ m # NULL => m.type = "receipt" /\ m.attempt = i
    BY <1>1, ForgeMoves
  <1>3. /\ Running /\ Running' /\ Onward /\ Adds(V) /\ s' = s /\ i \in Nat \ {0} /\ Len(truths) = i /\ UNCHANGED gates
    BY <1>2, MovesOn, Stage DEF Forge
  <1>4. ~ Honest(i) /\ ~ Honest(i)'
    BY <1>2, <1>3, HonestStays DEF ServedInv, DueOnWire
  <1>5. m # NULL => Due(m)'
    BY <1>2, <1>4 DEF Due
  <1>6. OnSchedule' /\ DueOnWire' /\ DueGates'
    BY <1>3, <1>4, GatesSame DEF OnSchedule, DueOnWire
  <1>7. DueTruths'
    BY <1>2, <1>3, <1>4, TruthsOther
  <1>8. Timely(Evidence \cup V)
    BY <1>1, <1>2, <1>3, TimelySame
  <1>9. i' = i => pc' # "user"
    BY <1>2
  <1>10. \A x \in V : Due(x)'
    BY <1>1, <1>5
  <1> QED BY <1>3, <1>6, <1>7, <1>8, <1>9, <1>10, ServedStep

LEMMA ServedAnswers == EvidenceInv /\ FormInv /\ ServedInv /\ RelayAnswers => ServedInv'
  <1> SUFFICES ASSUME EvidenceInv, FormInv, ServedInv, RelayAnswers PROVE ServedInv'
    OBVIOUS
  <1>1. PICK x, out, V : x = Said /\ out = PassedOn /\ V = IF Omits THEN {} ELSE {x}
    OBVIOUS
  <1>2. /\ Moves("R", V, 1) /\ now' <= now + 50 /\ i' = i /\ pc = "answer" /\ pc' = "received"
        /\ wire'.contract = wire.contract /\ wire'.body = out
        /\ wire'.receipt = (IF Behavior.strip THEN NULL ELSE wire.receipt)
        /\ Len(truths') = i /\ (\A a \in 1 .. i : a # i => truths'[a] = truths[a])
        /\ truths'[i].atModel = truths[i].atModel /\ truths'[i].model = truths[i].model
        /\ truths'[i].answer = truths[i].answer /\ truths'[i].atUser = out /\ truths[i].answer = wire.answer
        /\ x.type = "relay" /\ x.in = Commit(i, "asked") /\ x.attempt = i
    BY <1>1, AnswersMoves
  <1>3. /\ Running /\ Running' /\ Onward /\ Adds(V) /\ s' = s /\ i \in Nat \ {0} /\ now \in Nat /\ now' \in Nat
        /\ Len(truths) = i /\ UNCHANGED gates /\ HarmInv
    BY <1>2, MovesOn, Stage DEF RelayAnswers
  <1>4. Honest(i)' <=> Honest(i)
    BY <1>2, <1>3, HonestStays
  <1>5. ASSUME Honest(i)
        PROVE  /\ out = DueAnswer /\ wire'.receipt = DueReceipt(i)
               /\ x.respIn = Commit(i, DueAnswer) /\ x.respOut = Commit(i, DueAnswer)
               /\ truths[i].atModel = "asked" /\ truths[i].model = "model-A" /\ truths[i].answer = DueAnswer
    <2>1. /\ ~ Behavior.tamper /\ ~ Behavior.collude /\ ~ Behavior.strip /\ Behavior.honest /\ Upstream = "model-A"
      BY <1>3, <1>5, HonestMeans
    <2>2. wire.body = "asked" /\ wire.answer = DueAnswer /\ wire.receipt = DueReceipt(i) /\ DueAnswer # NULL
      BY <1>2, <1>5, DueThere DEF ServedInv, DueOnWire
    <2>3. out = DueAnswer
      BY <1>1, <2>1, <2>2 DEF PassedOn, Passed
    <2>4. x.respIn = Commit(i, DueAnswer) /\ x.respOut = Commit(i, DueAnswer)
      <3>1. Claimed = Commit(i, DueAnswer) /\ Committed(PassedOn) = Commit(i, DueAnswer)
        BY <1>1, <2>1, <2>2, <2>3 DEF Claimed, Committed
      <3> QED BY <1>1, <2>1, <3>1 DEF Said, RelayStatement
    <2>5. truths[i].atModel = "asked" /\ truths[i].model = "model-A" /\ truths[i].answer = DueAnswer
      BY <1>2, <1>3, <2>1, <2>2 DEF HarmInv, Forwarded
    <2> QED BY <1>2, <2>1, <2>2, <2>3, <2>4, <2>5
  <1>6. DueReceipt(i)' = DueReceipt(i) /\ DueAnswer' = DueAnswer /\ Commit(i, DueAnswer)' = Commit(i, DueAnswer)
        /\ Commit(i, "asked")' = Commit(i, "asked")
    BY <1>2 DEF DueReceipt, DueAnswer, Infer, Commit
  <1>7. Due(x)'
    BY <1>2, <1>4, <1>5, <1>6 DEF Due
  <1>8. DueOnWire'
    BY <1>2, <1>4, <1>5, <1>6 DEF DueOnWire
  <1>9. OnSchedule'
    <2>1. 50 + Budget' <= Budget /\ pc \in Enroute
      BY <1>2 DEF Budget, Enroute
    <2>2. \A y \in V : y.type # "contract"
      BY <1>1, <1>2
    <2> QED BY <1>2, <1>3, <2>1, <2>2, ScheduleKept
  <1>10. DueGates'
    BY <1>3, GatesSame
  <1>11. DueTruths'
    <2>1. Honest(i) => DueTruth(truths'[i])
      BY <1>2, <1>5 DEF DueTruth
    <2> QED BY <1>2, <1>3, <2>1, TruthsOther
  <1>12. Timely(Evidence \cup V)
    BY <1>1, <1>2, <1>3, TimelySame
  <1>13. i' = i => pc' # "user"
    BY <1>2
  <1>14. \A y \in V : Due(y)'
    BY <1>1, <1>7
  <1> QED BY <1>3, <1>8, <1>9, <1>10, <1>11, <1>12, <1>13, <1>14, ServedStep

(* A verdict fails by an equation, by a signature or by a receipt that was *)
(* not the one shown.                                                      *)
LEMMA NotFailed ==
  ASSUME NEW ev, NEW parties, \A e \in DOMAIN Equations(ev) : Equations(ev)[e] # "fail",
         ev.unsigned = {}, ev.unauthorized = {},
         ev.observation # NULL /\ ev.registered => ev.observation.presented \in {NULL, ev.receipt}
  PROVE  Verdict(ev, parties).status # "failed"
  <1>1. PICK eqs, completeness : eqs = Equations(ev) /\ completeness = Completeness(ev, parties)
    OBVIOUS
  <1>2. PICK found : found = Discrepancies(ev, eqs, completeness)
    OBVIOUS
  <1>3. Verdict(ev, parties).status = Status(eqs, found)
    BY <1>1, <1>2 DEF Verdict
  <1>4. Classify(eqs, ev) = {}
    <2>1. DOMAIN eqs = {"E1", "E2", "E3", "E4", "E5", "E6", "E7", "E8", "E9", "E10", "E11", "E12"}
      BY <1>1 DEF Equations
    <2>2. DOMAIN Failure \subseteq DOMAIN eqs
      BY <2>1 DEF Failure
    <2> HIDE DEF Failure
    <2> QED BY <1>1, <2>1, <2>2 DEF Classify
  <1>5. ASSUME NEW d \in found PROVE d.severity = "observation"
    <2>1. d \in Noted(completeness = "gap", "D-GAP", "observation", {}) \cup Noted(Late(ev), "D-LATE", "observation", {})
      BY <1>2, <1>4, <1>5 DEF Discrepancies, Noted
    <2> QED BY <2>1 DEF Noted
  <1>6. ~ \E e \in DOMAIN eqs : eqs[e] = "fail"
    BY <1>1
  <1> QED BY <1>3, <1>5, <1>6 DEF Status

(* Where all speak of one request and one answer, no statement contradicts *)
(* another.                                                                *)
LEMMA NoContradiction ==
  ASSUME NEW a \in Nat, NEW ev, NEW c, NEW r, NEW m, NEW o, NEW p,
         c = ev.contract, r = ev.relay, m = ev.receipt, o = ev.observation, p = ev.private,
         c # NULL => c.req = Commit(a, "asked"),
         r # NULL => /\ r.in = Commit(a, "asked") /\ r.out = Commit(a, "asked")
                     /\ r.respIn = Commit(a, DueAnswer) /\ r.respOut = Commit(a, DueAnswer),
         m # NULL => m = DueReceipt(a),
         o # NULL => o.resp = Commit(a, DueAnswer),
         p # NULL => p.commit = Commit(a, "asked"),
         c # NULL /\ o # NULL => o.at <= c.expires,
         NEW e \in DOMAIN Equations(ev) \ Charging
  PROVE  Equations(ev)[e] # "fail"
  <1>1. Commit(a, "asked") # NULL /\ Commit(a, DueAnswer) # NULL
    BY DueThere
  <1>2. m # NULL => /\ m.req = Commit(a, "asked") /\ m.resp = Commit(a, DueAnswer)
                    /\ m.model = "model-A" /\ m.hash = HashOf["model-A"]
    BY DEF DueReceipt
  <1>3. Equations(ev).E1 # "fail" /\ Equations(ev).E2 # "fail" /\ Equations(ev).E3 # "fail"
    BY <1>1, <1>2 DEF Equations, Same, PassIf
  <1>4. Equations(ev).E6 # "fail" /\ Equations(ev).E7 # "fail"
    BY <1>1, <1>2 DEF Equations, Same, PassIf
  <1>5. Equations(ev).E9 # "fail" /\ Equations(ev).E12 # "fail"
    BY <1>2 DEF Equations, PassIf
  <1>6. DOMAIN Equations(ev) = {"E1", "E2", "E3", "E4", "E5", "E6", "E7", "E8", "E9", "E10", "E11", "E12"}
    BY DEF Equations
  <1>7. e \in {"E1", "E2", "E3", "E6", "E7", "E9", "E12"}
    BY <1>6 DEF Charging
  <1> QED BY <1>3, <1>4, <1>5, <1>7

(* R that means well keeps the contract. *)
LEMMA HonestKeeps ==
  ASSUME NEW a, Honest(a), DueTruth(truths[a])
  PROVE  KeptContract(a) /\ Stated(a) = "asked"
  <1>1. /\ BehaviorOf(a).honest /\ ~ BehaviorOf(a).dropNonce /\ ~ BehaviorOf(a).dropSalt
        /\ BehaviorOf(a).declared = "identity" /\ "identity" \in s.transforms
    BY DEF Honest, Meant
  <1>2. /\ truths[a].atModel = "asked" /\ truths[a].model = "model-A" /\ truths[a].atUser = truths[a].answer
        /\ truths[a].atModel # NULL
    BY SimulationAssumption DEF DueTruth
  <1>3. "asked" \in Allowed /\ Permitted(a)
    BY <1>1, <1>2 DEF Allowed, Permitted
  <1>4. Stated(a) = "asked"
    BY <1>1, <1>2 DEF Stated
  <1>5. ~ Falsified(a)
    BY <1>2, <1>3 DEF Falsified
  <1> QED BY <1>1, <1>2, <1>3, <1>4, <1>5 DEF KeptContract

(* What T sees of an attempt in which R meant well does not fail. *)
LEMMA HonestPasses ==
  ASSUME i \in Nat, NEW a \in 1 .. i, pc \notin Unpassed, Explained(a), Honest(a), DueTruth(truths[a]),
         NEW N \in Nat, NEW entries, DOMAIN entries \subseteq 1 .. N,
         \A n \in DOMAIN entries :
           /\ entries[n].stmt.attempt = a /\ entries[n].stmt.type # "private"
           /\ Sound(entries[n].stmt) /\ Formed(entries[n].stmt) /\ Due(entries[n].stmt),
         Timely({entries[n].stmt : n \in DOMAIN entries}),
         NEW p, p # NULL => p.attempt = a /\ SoundPrivate(p) /\ p.commit = Commit(a, "asked"), NEW parties
  PROVE  Verdict(Gather(entries, p), parties).status # "failed"
  <1>1. PICK ev : ev = Gather(entries, p)
    OBVIOUS
  <1>2. PICK c, r, m, o : c = ev.contract /\ r = ev.relay /\ m = ev.receipt /\ o = ev.observation /\ ev.private = p
    BY <1>1 DEF Gather
  <1>3. a \in Nat /\ KeptContract(a) /\ Stated(a) = "asked" /\ truths[a].atUser = DueAnswer
    BY HonestKeeps DEF DueTruth
  <1>4. PICK W : W = {entries[n].stmt : n \in DOMAIN entries}
    OBVIOUS
  <1>5. \A x \in W : x.attempt = a /\ Sound(x) /\ Due(x)
    BY <1>4
  <1>6. /\ c # NULL => c \in W /\ c.type = "contract"
        /\ r # NULL => r \in W /\ r.type = "relay"
        /\ o # NULL => o \in W /\ o.type = "observation"
        /\ m # NULL => (m \in W /\ m.type = "receipt") \/ (o # NULL /\ m = o.presented)
    <2> DEFINE Of(type) == {x \in {entries[n].stmt : n \in DOMAIN entries} : x.type = type}
    <2>1. /\ ev.contract # NULL => ev.contract \in Of("contract")
          /\ ev.relay # NULL => ev.relay \in Of("relay")
          /\ ev.observation # NULL => ev.observation \in Of("observation")
          /\ ev.receipt # NULL => \/ ev.receipt \in Of("receipt")
                                  \/ ev.observation # NULL /\ ev.receipt = ev.observation.presented
      BY <1>1, Gathered
    <2>2. \A type : \A x \in Of(type) : x \in W /\ x.type = type
      BY <1>4
    <2> HIDE DEF Of
    <2> QED BY <1>2, <2>1, <2>2
  <1>7. c # NULL => c.req = Commit(a, "asked")
    BY <1>5, <1>6 DEF Sound, SoundContract
  <1>8. r # NULL => /\ r.in = Commit(a, "asked") /\ r.out = Commit(a, "asked")
                    /\ r.respIn = Commit(a, DueAnswer) /\ r.respOut = Commit(a, DueAnswer)
    <2>1. SUFFICES ASSUME r # NULL PROVE /\ r.in = Commit(a, "asked") /\ r.out = Commit(a, "asked")
                                         /\ r.respIn = Commit(a, DueAnswer) /\ r.respOut = Commit(a, DueAnswer)
      OBVIOUS
    <2>2. r.attempt = a /\ r.type = "relay" /\ SoundRelay(r) /\ Due(r)
      BY <1>5, <1>6, <2>1 DEF Sound
    <2>3. r.out = Commit(a, "asked")
      BY <1>3, <2>2 DEF SoundRelay
    <2> QED BY <2>2, <2>3 DEF Due
  <1>9. o # NULL => o.resp = Commit(a, DueAnswer) /\ o.presented = DueReceipt(a)
    <2>1. SUFFICES ASSUME o # NULL PROVE o.resp = Commit(a, DueAnswer) /\ o.presented = DueReceipt(a)
      OBVIOUS
    <2>2. o.attempt = a /\ o.type = "observation" /\ SoundObservation(o) /\ Due(o)
      BY <1>5, <1>6, <2>1 DEF Sound
    <2>3. o.resp = Commit(a, DueAnswer)
      BY <1>3, <2>2 DEF SoundObservation
    <2> QED BY <2>2, <2>3 DEF Due
  <1>10. m # NULL => m = DueReceipt(a)
    BY <1>5, <1>6, <1>9 DEF Due
  <1>11. c # NULL /\ o # NULL => o.at <= c.expires
    <2>1. Timely(W)
      BY <1>4
    <2> QED BY <1>5, <1>6, <2>1 DEF Timely
  <1>12. \A e \in DOMAIN Equations(ev) : Equations(ev)[e] # "fail"
    <2>1. ASSUME NEW e \in DOMAIN Equations(ev) \ Charging PROVE Equations(ev)[e] # "fail"
      BY <1>2, <1>3, <1>7, <1>8, <1>9, <1>10, <1>11, NoContradiction
    <2>2. ASSUME NEW e \in Charging PROVE Equations(ev)[e] # "fail"
      BY <1>1, <1>3, NoCharge
    <2> QED BY <2>1, <2>2
  <1>13. ev.unsigned = {} /\ ev.unauthorized = {}
    <2>1. \A n \in DOMAIN entries : Usable(entries[n].stmt)
      BY <1>3 DEF Formed
    <2>2. \A x : Usable(x) => x.signed
      BY DEF Usable
    <2> QED BY <1>1, <2>1, <2>2 DEF Gather
  <1>14. o # NULL /\ ev.registered => o.presented \in {NULL, ev.receipt}
    <2>1. ev.registered => ev.receipt # NULL
      BY <1>1 DEF Gather
    <2> QED BY <1>2, <1>9, <1>10, <2>1
  <1> QED BY <1>1, <1>2, <1>12, <1>13, <1>14, NotFailed

(* Whatever T has come to see by then, it does not fail an attempt in      *)
(* which R meant well.                                                     *)
LEMMA JudgedServed ==
  ASSUME EvidenceInv, FormInv, ServedInv, Running, pc \notin Unpassed, NEW a \in Attempts, a \in 1 .. i, Honest(a), NEW t
  PROVE  Judge(a, t).status # "failed"
  <1>1. /\ i \in Nat /\ Len(truths) = i /\ IsSequence(log) /\ PrivateKept
        /\ \A x \in Evidence : Sound(x) /\ (x.type # "verdict" => Formed(x) /\ Due(x))
        /\ \A x \in Registered : x.type # "private"
        /\ DuePrivate /\ Timely(Evidence)
    BY Stage DEF Unpassed, Unanswered, Sequences, FormInv, ServedInv, Clock, Soon
  <1>2. Explained(a) /\ DueTruth(truths[a])
    BY <1>1 DEF EvidenceInv, ServedInv, DueTruths
  <1>3. PICK entries, p, parties : entries = Visible(a, t) /\ p = private[a] /\ parties = Parties
    OBVIOUS
  <1>4. PICK N \in Nat : DOMAIN entries \subseteq 1 .. N
    BY <1>1, <1>3, SeenOn, Places
  <1>5. \A n \in DOMAIN entries : /\ entries[n].stmt \in Registered /\ entries[n].stmt.attempt = a
                                  /\ entries[n].stmt.type # "verdict"
    BY <1>1, <1>3, VisibleOn
  <1>6. \A n \in DOMAIN entries :
          /\ entries[n].stmt.attempt = a /\ entries[n].stmt.type # "private"
          /\ Sound(entries[n].stmt) /\ Formed(entries[n].stmt) /\ Due(entries[n].stmt)
    BY <1>1, <1>5 DEF Evidence
  <1>7. Timely({entries[n].stmt : n \in DOMAIN entries})
    <2>1. {entries[n].stmt : n \in DOMAIN entries} \subseteq Evidence
      BY <1>5 DEF Evidence
    <2> QED BY <1>1, <2>1 DEF Timely
  <1>8. p # NULL => p.attempt = a /\ SoundPrivate(p) /\ p.commit = Commit(a, "asked")
    BY <1>1, <1>3 DEF PrivateKept, DuePrivate, Attempts
  <1>9. Verdict(Gather(entries, p), parties).status # "failed"
    BY <1>1, <1>2, <1>4, <1>6, <1>7, <1>8, HonestPasses
  <1>10. JudgeHonest(a, t).status # "failed"
    BY <1>3, <1>9 DEF JudgeHonest
  <1>11. CASE s.misjudge
    BY <1>11 DEF Judge, JudgeHonest, Verdict
  <1>12. CASE ~ s.misjudge
    BY <1>10, <1>12 DEF Judge
  <1> QED BY <1>11, <1>12

(* One decision more, a welcome one if R meant well. *)
LEMMA GatesServed ==
  ASSUME ServedInv, HarmInv, s' = s, NEW e, gates' = Append(gates, e), Len(gates) + 1 = i, i \in Nat,
         Honest(i) => Welcome(e.action)
  PROVE  DueGates'
  <1>1. PICK g, r : g = gates /\ r = gates'
    OBVIOUS
  <1>2. IsSequence(g) /\ Len(g) \in Nat /\ Len(g) + 1 = i
    BY <1>1, Places DEF HarmInv, Positions
  <1>3. Len(r) = i /\ r[i] = e /\ \A n \in 1 .. Len(g) : r[n] = g[n]
    BY <1>1, <1>2, AppendKeeps
  <1>4. \A a : Honest(a)' <=> Honest(a)
    BY HonestStays
  <1>5. ASSUME NEW a \in 1 .. i, Honest(a) PROVE Welcome(r[a].action)
    <2>1. CASE a = i
      BY <1>3, <1>5, <2>1
    <2>2. CASE a # i
      <3>1. a \in 1 .. Len(g)
        BY <1>2, <2>2
      <3> QED BY <1>1, <1>3, <1>5, <3>1 DEF ServedInv, DueGates
    <2> QED BY <2>1, <2>2
  <1> QED BY <1>1, <1>3, <1>4, <1>5 DEF DueGates, Welcome

LEMMA ServedQuiet == EvidenceInv /\ FormInv /\ ServedInv /\ (NoAnswer \/ NextAttempt) => ServedInv'
  <1> SUFFICES ASSUME EvidenceInv, FormInv, ServedInv, NoAnswer \/ NextAttempt PROVE ServedInv'
    OBVIOUS
  <1>1. /\ Moves("U", {}, 0) /\ truths' = truths /\ pc \in {"received", "next"} /\ pc' \in {"next", "user", "close"}
        /\ i' = i \/ (i' = i + 1 /\ pc = "next")
        /\ i' = i => pc' # "user"
    <2>1. Moves("U", {}, 0) /\ truths' = truths
      BY QuietMoves
    <2>2. i \in Nat
      BY <2>1, Stage DEF Moves
    <2> QED BY <2>1, <2>2 DEF NoAnswer, NextAttempt
  <1>2. /\ Running /\ Running' /\ Onward /\ Adds({}) /\ s' = s /\ i \in Nat \ {0} /\ HarmInv /\ Len(truths) = i
    BY <1>1, MovesOn, Stage
  <1>3. OnSchedule' /\ DueOnWire'
    BY <1>1 DEF OnSchedule, DueOnWire, Enroute
  <1>4. DueGates'
    <2>1. CASE NoAnswer
      <3>1. PICK e : gates' = Append(gates, e)
        BY <2>1 DEF NoAnswer
      <3>2. ~ Honest(i)
        BY <2>1, DueThere DEF NoAnswer, ServedInv, DueOnWire
      <3>3. Len(gates) + 1 = i
        BY <1>2, <2>1 DEF NoAnswer, HarmInv, Positions
      <3> QED BY <1>2, <3>1, <3>2, <3>3, GatesServed
    <2>2. CASE NextAttempt
      BY <2>2, GatesSame DEF NextAttempt
    <2> QED BY <2>1, <2>2
  <1>5. DueTruths'
    <2>1. \A a : Honest(a)' <=> Honest(a)
      BY <1>2, HonestStays
    <2>2. ASSUME NEW a \in 1 .. i, Honest(a), a = i' => pc' \notin Unpassed PROVE DueTruth(truths[a])
      <3>1. a = i => pc \notin Unpassed \/ NoAnswer
        BY <1>1 DEF Unpassed, Unanswered
      <3>2. pc \notin Unpassed
        BY <1>1 DEF Unpassed, Unanswered
      <3> QED BY <1>2, <2>2, <3>2 DEF ServedInv, DueTruths
    <2>3. \A t : DueTruth(t)' <=> DueTruth(t)
      BY DEF DueTruth, DueAnswer, Infer
    <2> QED BY <1>1, <1>2, <2>1, <2>2, <2>3 DEF DueTruths, DueTruth, DueAnswer, Infer
  <1>6. Timely(Evidence \cup {})
    BY <1>2, TimelySame
  <1> QED BY <1>1, <1>2, <1>3, <1>4, <1>5, <1>6, ServedStep

LEMMA DueFormed ==
  ASSUME NEW a \in Nat
  PROVE  DueReceipt(a) # NULL
  <1>1. Commit(a, "asked") \in RequestCommits
    BY CommitThere DEF Bodies
  <1>2. Commit(a, DueAnswer) \in AnswerCommits
    BY DueThere, AnswerCommitted
  <1>3. "model-A" \in Models \ {NULL}
    BY SimulationAssumption DEF Models, Latency
  <1>4. DueReceipt(a) \in ReceiptForms
    BY <1>1, <1>2, <1>3 DEF DueReceipt, ReceiptForms
  <1> QED BY <1>4, SimulationAssumption

(* U's checks clear the answer. *)
LEMMA DueClear ==
  ASSUME EvidenceInv, FormInv, ServedInv, pc = "received", Honest(i), NEW late, ~ late
  PROVE  Clear(LocalChecks(wire.contract, ExpectedCommits, late, s.injected, Commit(i, wire.body), wire.receipt, wire.relay))
  <1>1. i \in Nat /\ HarmInv
    BY Stage DEF Running
  <1>2. "identity" \in s.transforms /\ ~ s.injected
    BY <1>1, HonestMeans
  <1>3. wire.body = DueAnswer /\ wire.receipt = DueReceipt(i)
    BY DEF ServedInv, DueOnWire
  <1>4. /\ wire.contract.nonce = i /\ wire.contract.attempt = i /\ wire.contract.req = Commit(i, "asked")
        /\ wire.contract.requested = "model-A" /\ wire.contract.transforms = s.transforms
    BY <1>1 DEF HarmInv, ContractKept
  <1>5. PICK c, m, r, expected, body : /\ c = wire.contract /\ m = DueReceipt(i) /\ r = wire.relay
                                       /\ expected = ExpectedCommits /\ body = Commit(i, DueAnswer)
    OBVIOUS
  <1>6. m # NULL /\ m.kid \in Trusted /\ m.nonce = i /\ m.attempt = i /\ m.resp = body /\ m.req = Commit(i, "asked")
        /\ m.model = "model-A" /\ m.hash = HashOf["model-A"]
    BY <1>1, <1>5, DueFormed, SimulationAssumption DEF DueReceipt
  <1>7. m.req \in Approved(c, expected)
    BY <1>2, <1>4, <1>5, <1>6 DEF Approved
  <1>8. Vouched(c, expected, body, m)
    BY <1>4, <1>5, <1>6, <1>7 DEF Vouched
  <1>9. RouteDeclared(c, m, r)
    BY <1>4, <1>5, <1>6 DEF RouteDeclared
  <1>10. PICK tool : tool = s.injected
    OBVIOUS
  <1>11. Clear(LocalChecks(c, expected, late, tool, body, m, r))
    BY <1>2, <1>8, <1>9, <1>10, ChecksClear
  <1> QED BY <1>3, <1>5, <1>10, <1>11

LEMMA ServedReceive == EvidenceInv /\ FormInv /\ ServedInv /\ Receive => ServedInv'
  <1> SUFFICES ASSUME EvidenceInv, FormInv, ServedInv, Receive PROVE ServedInv'
    OBVIOUS
  <1>1. PICK x, p, V : x = Observation /\ p = Private /\ V = {x, p}
    OBVIOUS
  <1>2. /\ Moves("U", V, 2) /\ truths' = truths /\ i' = i /\ pc = "received" /\ pc' \in {"next", "poll"}
    BY <1>1, ReceiveMoves
  <1>3. /\ Running /\ Running' /\ Onward /\ Adds(V) /\ s' = s /\ now \in Nat /\ i \in Nat \ {0} /\ HarmInv /\ Len(truths) = i
    BY <1>2, MovesOn, Stage
  <1>4. Honest(i)' <=> Honest(i)
    BY <1>2, <1>3, HonestStays
  <1>5. /\ x.type = "observation" /\ x.attempt = i /\ x.at = now /\ x.presented = wire.receipt
        /\ p.type = "private" /\ p.attempt = i /\ p.commit = Commit(i, "asked")
    BY <1>1 DEF Observation, Private
  <1>6. Honest(i) => /\ wire.receipt = DueReceipt(i) /\ wire.contract.expires \in Nat /\ now + 50 <= wire.contract.expires
                     /\ \A y \in Evidence : y.type = "contract" /\ y.attempt = i => now + 50 <= y.expires
    BY <1>2, <1>3 DEF ServedInv, DueOnWire, OnSchedule, Enroute, Budget
  <1>7. \A y \in V : Due(y)'
    <2>1. DueReceipt(i)' = DueReceipt(i) /\ Commit(i, "asked")' = Commit(i, "asked")
      BY <1>2 DEF DueReceipt, DueAnswer, Infer, Commit
    <2>2. Due(x)'
      BY <1>2, <1>3, <1>4, <1>5, <1>6, <2>1 DEF Due
    <2>3. Due(p)'
      BY <1>2, <1>3, <1>4, <1>5, <2>1 DEF Due
    <2> QED BY <1>1, <2>2, <2>3
  <1>8. Timely(Evidence \cup V)
    <2>1. \A y \in Evidence : y.type = "contract" => y.expires \in Nat
      BY <1>3 DEF ServedInv, Due
    <2>2. PICK n : n = now /\ n \in Nat
      BY <1>3
    <2>3. ASSUME NEW y \in Evidence, y.type = "contract", y.attempt = i, Honest(i) PROVE n <= y.expires
      <3>1. y.expires \in Nat /\ n + 50 <= y.expires
        BY <1>6, <2>1, <2>2, <2>3
      <3> QED BY <2>2, <3>1
    <2> QED BY <1>1, <1>3, <1>5, <2>2, <2>3 DEF ServedInv, Timely
  <1>9. OnSchedule' /\ DueTruths'
    <2>1. OnSchedule'
      BY <1>2 DEF OnSchedule, Enroute
    <2>2. Len(truths') = i /\ (\A a \in 1 .. i : a # i => truths'[a] = truths[a]) /\ (Honest(i) => DueTruth(truths'[i]))
      BY <1>2, <1>3 DEF ServedInv, DueTruths, Unpassed, Unanswered
    <2> QED BY <1>2, <1>3, <2>1, <2>2, TruthsOther
  <1>10. PICK late, checks :
           /\ late = (now' > wire.contract.expires)
           /\ checks = LocalChecks(wire.contract, ExpectedCommits, late, s.injected, Commit(i, wire.body), wire.receipt, wire.relay)
    OBVIOUS
  <1>11. Honest(i) => Clear(checks)
    <2>1. SUFFICES ASSUME Honest(i) PROVE Clear(checks)
      OBVIOUS
    <2>2. PICK n, m, e : n = now /\ m = now' /\ e = wire.contract.expires
      OBVIOUS
    <2>3. n \in Nat /\ m = n + 2 /\ e \in Nat /\ n + 50 <= e
      BY <1>3, <1>6, <2>1, <2>2 DEF Receive, SignMs
    <2>4. ~ (m > e)
      BY <2>3
    <2>5. ~ late
      BY <1>10, <2>2, <2>4
    <2> QED BY <1>2, <1>10, <2>1, <2>5, DueClear
  <1>12. /\ pc' = IF s.mode # "strict" \/ Failed(checks) # {} THEN "next" ELSE "poll"
         /\ wire'.checks = checks
         /\ s.mode # "strict" \/ Failed(checks) # {} =>
              \E e : gates' = Append(gates, e) /\ e.action = Decide(s.mode, checks, NULL, FALSE)
         /\ ~ (s.mode # "strict" \/ Failed(checks) # {}) => gates' = gates
    <2> DEFINE settled == s.mode # "strict" \/ Failed(checks) # {}
    <2>1. PICK e : e = [action |-> Decide(s.mode, checks, NULL, FALSE), status |-> NULL,
                        wait |-> IF s.mode = "observe" THEN 0 ELSE SignMs]
      OBVIOUS
    <2>2. /\ settled => pc' = "next" /\ gates' = Append(gates, e)
          /\ ~ settled => pc' = "poll" /\ gates' = gates
          /\ wire' = [got |-> now, checks |-> checks]
      BY <1>10, <2>1 DEF Receive
    <2> HIDE DEF settled
    <2>3. wire'.checks = checks /\ e.action = Decide(s.mode, checks, NULL, FALSE)
      BY <2>1, <2>2
    <2>4. /\ pc' = IF settled THEN "next" ELSE "poll"
          /\ settled => \E d : gates' = Append(gates, d) /\ d.action = Decide(s.mode, checks, NULL, FALSE)
          /\ ~ settled => gates' = gates
      BY <2>2, <2>3
    <2> QED BY <2>3, <2>4 DEF settled
  <1>13. DueOnWire'
    BY <1>2, <1>4, <1>11, <1>12, <1>3 DEF DueOnWire
  <1>14. DueGates'
    <2>1. CASE s.mode # "strict" \/ Failed(checks) # {}
      <3>1. PICK e : gates' = Append(gates, e) /\ e.action = Decide(s.mode, checks, NULL, FALSE)
        BY <1>12, <2>1
      <3>2. Len(gates) + 1 = i
        BY <1>2, <1>3 DEF HarmInv, Positions
      <3>3. ASSUME Honest(i) PROVE Welcome(e.action)
        <4>1. Clear(checks) /\ s.mode # "strict"
          BY <1>11, <2>1, <3>3 DEF Clear
        <4>2. s.mode \in {"observe", "protect", "strict"}
          BY <1>3, SimulationAssumption DEF HarmInv, Positions
        <4>3. CASE s.mode = "observe"
          BY <3>1, <4>3 DEF Decide, Welcome
        <4>4. CASE s.mode = "protect"
          BY <3>1, <4>1, <4>4 DEF Decide, Welcome, Clear
        <4> QED BY <4>1, <4>2, <4>3, <4>4
      <3> QED BY <1>3, <3>1, <3>2, <3>3, GatesServed
    <2>2. CASE ~ (s.mode # "strict" \/ Failed(checks) # {})
      BY <1>3, <1>12, <2>2, GatesSame
    <2> QED BY <2>1, <2>2
  <1>15. i' = i => pc' # "user"
    BY <1>2
  <1> HIDE DEF Timely
  <1> QED BY <1>3, <1>7, <1>8, <1>9, <1>13, <1>14, <1>15, ServedStep

(* A welcome decision after clear checks: T has not failed the answer, and *)
(* U has waited as long as it would if T has not passed it.                *)
LEMMA PollWelcome ==
  ASSUME s.mode = "strict", NEW checks, Clear(checks), NEW status, status # "failed", NEW hit, hit \/ status = "passed"
  PROVE  Welcome(Decide(s.mode, checks, status, hit))
  BY DEF Welcome, Decide, Clear

LEMMA ServedPoll == EvidenceInv /\ FormInv /\ RecordInv /\ ServedInv /\ Poll => ServedInv'
  <1> SUFFICES ASSUME EvidenceInv, FormInv, RecordInv, ServedInv, Poll PROVE ServedInv'
    OBVIOUS
  <1>1. /\ pc = "poll" /\ pc' \in {"poll", "next"} /\ UNCHANGED <<s, i, down, queue, private, wire, cache, truths>>
        /\ Running /\ Running' /\ Onward
        /\ \A x : x.type # "verdict" => (x \in Evidence' <=> x \in Evidence)
    BY PollMoves
  <1>2. i \in Nat \ {0} /\ i <= s.attempts /\ HarmInv /\ Len(truths) = i /\ s \in Scenarios /\ s.attempts \in Nat
    BY <1>1, Stage, SimulationAssumption DEF RecordInv
  <1>3. PICK V : V = Evidence' \ Evidence
    OBVIOUS
  <1>4. \A x \in V : x.type = "verdict"
    BY <1>1, <1>3
  <1>5. Adds(V)
    <2>1. Sequences'
      BY <1>1, EvidencePoll DEF EvidenceInv
    <2> QED BY <1>1, <1>3, <2>1 DEF Adds
  <1>6. (\A x \in V : Due(x)') /\ Timely(Evidence \cup V)
    <2>1. Timely(Evidence \cup V)
      BY <1>1, <1>4, TimelySame
    <2> QED BY <1>4, <2>1 DEF Due
  <1>7. OnSchedule' /\ DueOnWire'
    <2>1. Honest(i)' <=> Honest(i)
      BY <1>1, HonestStays
    <2> QED BY <1>1, <2>1 DEF OnSchedule, DueOnWire, Enroute, ServedInv
  <1>8. DueTruths'
    <2>1. Honest(i) => DueTruth(truths'[i])
      BY <1>1, <1>2 DEF ServedInv, DueTruths, Unpassed, Unanswered
    <2> QED BY <1>1, <1>2, <2>1, TruthsOther
  <1>9. DueGates'
    <2>1. CASE gates' = gates
      BY <1>1, <2>1, GatesSame
    <2>2. CASE gates' # gates
      <3> DEFINE reply == RequestVerdict(i, now)
                 settled == reply # NULL /\ reply.signed
                 last == now + PollMs > wire.got + DeadlineMs
                 status == IF reply = NULL THEN NULL ELSE reply.verdict.status
      <3>1. (settled \/ last) /\ Decided(Decide(s.mode, wire.checks, status, ~ settled), status)
        BY <2>2 DEF Poll
      <3>2. PICK e : gates' = Append(gates, e) /\ e.action = Decide(s.mode, wire.checks, status, ~ settled)
        <4> HIDE DEF status, settled
        <4> QED BY <3>1 DEF Decided
      <3>3. Len(gates) + 1 = i
        BY <1>1, <1>2 DEF HarmInv, Positions
      <3>4. ASSUME Honest(i) PROVE Welcome(e.action)
        <4>1. s.mode = "strict" /\ Clear(wire.checks)
          BY <1>1, <3>4 DEF ServedInv, DueOnWire
        <4>2. Judge(i, now).status # "failed"
          <5>1. i \in Attempts /\ i \in 1 .. i /\ pc \notin Unpassed
            BY <1>1, <1>2 DEF Attempts, Unpassed, Unanswered
          <5>2. PICK a, t : a = i /\ t = now
            OBVIOUS
          <5>3. Judge(a, t).status # "failed"
            BY <1>1, <3>4, <5>1, <5>2, JudgedServed
          <5> QED BY <5>2, <5>3
        <4>3. PICK v : v = Judge(i, now)
          OBVIOUS
        <4>4. reply = NULL \/ reply = [verdict |-> v, signed |-> v.status \in {"passed", "failed"}]
          BY <4>3 DEF RequestVerdict
        <4>5. PICK st, g : st = status /\ g = wire.checks
          OBVIOUS
        <4>6. NULL # "failed"
          BY SimulationAssumption
        <4>7. st # "failed" /\ (settled => st = "passed")
          <5>1. CASE reply = NULL
            BY <4>5, <4>6, <5>1
          <5>2. CASE reply # NULL
            <6>1. reply.verdict = v /\ (reply.signed => v.status \in {"passed", "failed"})
              <7>1. PICK signs : signs = (v.status \in {"passed", "failed"})
                OBVIOUS
              <7>2. RequestVerdict(i, now) = [verdict |-> v, signed |-> signs]
                BY <4>3, <5>2, <7>1 DEF RequestVerdict
              <7>3. reply.verdict = v /\ reply.signed = signs
                BY <7>2
              <7> QED BY <7>1, <7>3
            <6>2. st = v.status
              BY <4>5, <5>2, <6>1
            <6> QED BY <4>2, <4>3, <6>1, <6>2
          <5> QED BY <5>1, <5>2
        <4> HIDE DEF settled, status
        <4>8. CASE settled
          <5>1. Welcome(Decide(s.mode, g, st, FALSE))
            BY <4>1, <4>5, <4>7, <4>8, PollWelcome
          <5> QED BY <3>2, <4>5, <4>8, <5>1
        <4>9. CASE ~ settled
          <5>1. Welcome(Decide(s.mode, g, st, TRUE))
            BY <4>1, <4>5, <4>7, PollWelcome
          <5> QED BY <3>2, <4>5, <4>9, <5>1
        <4> QED BY <4>8, <4>9
      <3> QED BY <1>1, <1>2, <3>2, <3>3, <3>4, GatesServed
    <2> QED BY <2>1, <2>2
  <1>10. i' = i => pc' # "user"
    BY <1>1
  <1> HIDE DEF Timely
  <1> QED BY <1>1, <1>5, <1>6, <1>7, <1>8, <1>9, <1>10, ServedStep

(* At the session's end nothing is decided any more. *)
LEMMA ServedClosing ==
  ASSUME ServedInv, UNCHANGED <<s, i, gates, truths>>, pc \notin Unpassed, pc' \notin Enroute \cup {"forge", "poll"}
  PROVE  OnSchedule' /\ DueOnWire' /\ DueTruths' /\ DueGates'
  <1>1. \A a : Honest(a)' <=> Honest(a)
    BY HonestStays
  <1>2. OnSchedule' /\ DueOnWire'
    BY DEF OnSchedule, DueOnWire, Enroute
  <1>3. DueTruths'
    BY <1>1 DEF ServedInv, DueTruths, DueTruth, DueAnswer, Infer
  <1> QED BY <1>2, <1>3, GatesSame

LEMMA ServedRecover == EvidenceInv /\ FormInv /\ ServedInv /\ Recover => ServedInv'
  <1> SUFFICES ASSUME EvidenceInv, FormInv, ServedInv, Recover PROVE ServedInv'
    OBVIOUS
  <1>1. /\ pc = "close" /\ pc' = "close" /\ UNCHANGED <<s, i, gates, truths>> /\ Running /\ Running' /\ Onward /\ Adds({})
    BY RecoverMoves
  <1>2. OnSchedule' /\ DueOnWire' /\ DueTruths' /\ DueGates'
    BY <1>1, ServedClosing DEF Unpassed, Unanswered, Enroute
  <1>3. Timely(Evidence \cup {})
    BY <1>1, TimelySame
  <1> QED BY <1>1, <1>2, <1>3, ServedStep

LEMMA ServedClose == EvidenceInv /\ FormInv /\ ServedInv /\ Close => ServedInv'
  <1> SUFFICES ASSUME EvidenceInv, FormInv, ServedInv, Close PROVE ServedInv'
    OBVIOUS
  <1>1. PICK x : x = Manifest
    OBVIOUS
  <1>2. /\ pc = "close" /\ pc' = "final" /\ UNCHANGED <<s, i, gates, truths>> /\ Running /\ Running' /\ Onward
        /\ HandsOver("U", {x}, 1) /\ x.type = "manifest" /\ x.attempt = 0
    BY <1>1, CloseMoves
  <1>3. Adds({x})
    BY <1>2, Stage, HandedAdds
  <1>4. OnSchedule' /\ DueOnWire' /\ DueTruths' /\ DueGates'
    BY <1>2, ServedClosing DEF Unpassed, Unanswered, Enroute
  <1>5. Timely(Evidence \cup {x})
    BY <1>2, TimelySame
  <1>6. Due(x)'
    BY <1>2 DEF Due
  <1> QED BY <1>2, <1>3, <1>4, <1>5, <1>6, ServedStep

LEMMA ServedFinalize == EvidenceInv /\ FormInv /\ ServedInv /\ Finalize => ServedInv'
  <1> SUFFICES ASSUME EvidenceInv, FormInv, ServedInv, Finalize PROVE ServedInv'
    OBVIOUS
  <1>1. pc = "final" /\ pc' = "checkpoint" /\ UNCHANGED <<s, i, gates, truths>> /\ Running /\ ~ Running'
    BY DEF Finalize, Running
  <1>2. OnSchedule' /\ DueOnWire' /\ DueTruths' /\ DueGates'
    BY <1>1, ServedClosing DEF Unpassed, Unanswered, Enroute
  <1>3. i \in Nat /\ i >= s.attempts /\ s \in Scenarios /\ s.attempts \in Nat
    BY <1>1, SimulationAssumption DEF EvidenceInv, HarmInv, Positions
  <1>4. ASSUME NEW a \in Attempts, Honest(a) PROVE finals'[a].status # "failed"
    <2>1. PICK t : t = now
      OBVIOUS
    <2>2. a \in 1 .. i /\ pc \notin Unpassed
      BY <1>1, <1>3 DEF Attempts, Unpassed, Unanswered
    <2>3. Judge(a, t).status # "failed"
      BY <1>1, <1>4, <2>2, JudgedServed
    <2> QED BY <2>1, <2>3 DEF Finalize, Attempts
  <1>5. \A a : Honest(a)' <=> Honest(a)
    BY <1>1, HonestStays
  <1> QED BY <1>1, <1>2, <1>4, <1>5 DEF ServedInv, Attempts

LEMMA ServedEnds ==
  ASSUME ServedInv, ~ Running, ~ Running', UNCHANGED <<s, i, gates, truths, finals>>
  PROVE  ServedInv'
  <1>1. OnSchedule' /\ DueOnWire' /\ DueTruths' /\ DueGates'
    BY ServedClosing DEF Unpassed, Unanswered, Enroute, Running
  <1>2. \A a : Honest(a)' <=> Honest(a)
    BY HonestStays
  <1> QED BY <1>1, <1>2 DEF ServedInv, Attempts

LEMMA ServedStutters == ServedInv /\ UNCHANGED vars => ServedInv'
  <1> SUFFICES ASSUME ServedInv, UNCHANGED vars PROVE ServedInv'
    OBVIOUS
  <1>1. UNCHANGED <<s, pc, i, now, queue, log, private, wire, gates, truths, finals>>
    BY DEF vars
  <1>2. (Running' <=> Running) /\ Evidence' = Evidence /\ \A a : Honest(a)' <=> Honest(a)
    BY <1>1, HonestStays DEF Running, Evidence, Registered
  <1>3. DueAnswer' = DueAnswer /\ \A a : DueReceipt(a)' = DueReceipt(a)
    BY DEF DueReceipt, DueAnswer, Infer, Commit
  <1>4. \A x : Due(x) => Due(x)'
    BY <1>1, <1>2, <1>3 DEF Due, Commit
  <1>5. Timely(Evidence) => Timely(Evidence)'
    BY <1>2 DEF Timely
  <1>6. OnSchedule => OnSchedule'
    BY <1>1, <1>2 DEF OnSchedule, Budget
  <1>7. DueOnWire => DueOnWire'
    BY <1>1, <1>2, <1>3 DEF DueOnWire
  <1>8. DueTruths => DueTruths'
    BY <1>1, <1>2, <1>3 DEF DueTruths, DueTruth
  <1>9. DueGates => DueGates'
    BY <1>1, <1>2 DEF DueGates, Welcome
  <1>10. DuePrivate => DuePrivate'
    BY <1>1 DEF DuePrivate, Commit
  <1> HIDE DEF Timely
  <1> QED BY <1>1, <1>2, <1>4, <1>5, <1>6, <1>7, <1>8, <1>9, <1>10 DEF ServedInv, Attempts

(* Where R means well every statement says what happened, the answer comes *)
(* back before the contract expires and U's checks clear it; so no verdict *)
(* fails it, whatever evidence is late, kept back or lost (user.py,        *)
(* relay.py, model.py, user_gate.py).                                      *)
THEOREM ServedInvariant == Spec => []ServedInv
  <1>1. EvidenceInv /\ FormInv /\ RecordInv /\ ServedInv /\ [Next]_vars => ServedInv'
    <2> SUFFICES ASSUME EvidenceInv, FormInv, RecordInv, ServedInv, [Next]_vars PROVE ServedInv'
      OBVIOUS
    <2>1. CASE Checkpoint
      <3>1. UNCHANGED <<s, i, gates, truths, finals>> /\ ~ Running /\ ~ Running'
        BY <2>1 DEF Checkpoint, Running
      <3> QED BY <3>1, ServedEnds
    <2>2. CASE Audit
      <3>1. UNCHANGED <<s, i, gates, truths, finals>> /\ ~ Running /\ ~ Running'
        BY <2>2 DEF Audit, Running
      <3> QED BY <3>1, ServedEnds
    <2> QED BY <2>1, <2>2, ServedStutters, ServedRequest, ServedDrops, ServedReplays, ServedForwards, ServedServe, ServedForge,
               ServedAnswers, ServedQuiet, ServedReceive, ServedPoll, ServedRecover, ServedClose, ServedFinalize DEF Next
  <1> QED BY ServedInit, EvidenceInvariant, FormInvariant, RecordInvariant, <1>1, PTL DEF Spec

(* A user whose relay means well is served, with a T that is down or slow, *)
(* statements kept back and evidence lost: U accepts the answer in protect *)
(* mode, at worst times out in strict mode, and no verdict fails           *)
(* (metrics.py:8-11, scenarios S09 to S12).                                *)
THEOREM WellMeantAreServed == Spec => []HonestServed
  <1>1. EvidenceInv /\ ServedInv => HonestServed
    <2> SUFFICES ASSUME EvidenceInv, ServedInv, Done, NEW a \in Attempts, Honest(a)
                 PROVE  Welcome(gates[a].action) /\ finals[a].status # "failed"
      BY DEF HonestServed, Honest, Welcome
    <2>1. s.attempts \in Nat /\ i \in Nat /\ i >= s.attempts /\ Len(gates) = i
      BY SimulationAssumption DEF EvidenceInv, HarmInv, Positions, Done
    <2>2. a \in 1 .. Len(gates)
      BY <2>1 DEF Attempts
    <2> QED BY <2>2 DEF ServedInv, DueGates, Done, Running
  <1> QED BY EvidenceInvariant, ServedInvariant, <1>1, PTL

=============================================================================
