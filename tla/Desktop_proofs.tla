--------------------------- MODULE Desktop_proofs ---------------------------
(***************************************************************************)
(* ExclusiveUse and PrunedForGood for all numbers of calls and slots and   *)
(* all earlier records.  The argument: whoever works, or will write what   *)
(* it read, holds operation_lock; so what a refresh or a pruning read is   *)
(* still what the records are when it writes.                              *)
(***************************************************************************)
EXTENDS Desktop, TLAPS

Inside == {"entered", "using", "read"}
Places == Inside \cup {"unsent", "queued", "waiting", "started"} \cup Ended
Plans == UNION {[K -> Kept] : K \in SUBSET Records}
CallType == [op : Operations \cup {NULL}, at : Places, uses : Nat,
             target : Records \cup {NULL}, copy : {NULL} \cup Kept \cup Plans]

TypeOK ==
  /\ front \in {"lines", "http"}
  /\ call \in [Calls -> CallType]
  /\ queue \in Seq(Calls)
  /\ owner \in Calls \cup {NULL} /\ turn \in Calls \cup {NULL}
  /\ agent \in Nat
  /\ record \in [Records -> Kept \cup {NULL}]
  /\ pending \subseteq Records /\ expired \subseteq Records
  /\ plan \in Plans \cup {NULL}

(* What waits in the queue has not started, and is there once. *)
Queued ==
  /\ front = "http" => queue = <<>>
  /\ \A i \in 1 .. Len(queue) : At(queue[i], "queued")
  /\ \A i, j \in 1 .. Len(queue) : queue[i] = queue[j] => i = j

(* Whoever works holds operation_lock, and who holds it works. *)
Owning ==
  /\ \A c \in Calls : call[c].at \in Inside /\ ~ Bypasses(call[c].op) => owner = c
  /\ owner # NULL => call[owner].at \in Inside /\ ~ Bypasses(call[owner].op)

(* In the gateway, whatever is not a status has the turn. *)
Turned ==
  /\ front = "lines" => turn = NULL /\ \A c \in Calls : ~ At(c, "waiting")
  /\ front = "http" =>
       \A c \in Calls : call[c].at \in Inside \cup {"started"} => call[c].op = "status" \/ turn = c

(* A refresh names a record. *)
Targeted == \A c \in Taken : call[c].op = "refresh" => call[c].target \in Records

Used ==
  \A c \in Calls :
    /\ call[c].uses # 0 => call[c].at \in {"using", "read"} /\ call[c].uses \in agents
    /\ call[c].at \in {"using", "read"} => ~ Bypasses(call[c].op)

OneAgent == agents \subseteq {agent} /\ 0 \notin agents

(* What a call read outside of self.lock is still so. *)
FreshRecord(c) ==
  /\ call[c].target \in Records
  /\ call[c].copy \in Kept
  /\ record[call[c].target] = call[c].copy
FreshPlan(c) ==
  /\ call[c].copy \in Plans
  /\ \A k \in DOMAIN call[c].copy :
       record[k] = call[c].copy[k] /\ call[c].copy[k].done /\ k \notin pending
Fresh ==
  \A c \in Calls :
    At(c, "read") => \/ call[c].op = "refresh" /\ FreshRecord(c)
                     \/ call[c].op = "apply" /\ FreshPlan(c)

PlanDone == plan # NULL => \A k \in DOMAIN plan : plan[k].done

PrunedRecords ==
  \A k \in expired : record[k] # NULL /\ record[k].done /\ ~ record[k].content /\ k \notin pending

DesktopInv ==
  /\ TypeOK /\ Queued /\ Owning /\ Turned /\ Targeted /\ Used /\ OneAgent
  /\ Fresh /\ PlanDone /\ PrunedRecords

-----------------------------------------------------------------------------
(* Calls and records. *)

LEMMA SentType ==
  ASSUME NEW op \in Operations \cup {NULL}, NEW target \in Records \cup {NULL}, NEW where \in Places
  PROVE  /\ Sent(op, target, where) \in CallType
         /\ Sent(op, target, where).op = op /\ Sent(op, target, where).at = where
         /\ Sent(op, target, where).uses = 0 /\ Sent(op, target, where).target = target
BY DEF Sent, CallType

LEMMA OverType ==
  ASSUME NEW where \in Ended \cup {"unsent"}
  PROVE  /\ Over(where) \in CallType /\ Over(where).op = NULL
         /\ Over(where).at = where /\ Over(where).uses = 0
<1>1. where \in Places /\ NULL \in Operations \cup {NULL} /\ NULL \in Records \cup {NULL}
  BY DEF Places
<1> QED  BY <1>1, SentType DEF Over

LEMMA PlacedType ==
  ASSUME NEW cl \in CallType, NEW where \in Places
  PROVE  /\ Placed(cl, where) \in CallType
         /\ Placed(cl, where).op = cl.op /\ Placed(cl, where).at = where
         /\ Placed(cl, where).uses = cl.uses /\ Placed(cl, where).target = cl.target
BY DEF Placed, CallType

LEMMA WorkingType ==
  ASSUME NEW cl \in CallType, NEW a \in Nat
  PROVE  /\ Working(cl, a) \in CallType
         /\ Working(cl, a).op = cl.op /\ Working(cl, a).at = "using"
         /\ Working(cl, a).uses = a /\ Working(cl, a).target = cl.target
BY DEF Working, CallType, Places, Inside

LEMMA ReadingType ==
  ASSUME NEW cl \in CallType, NEW x \in Kept \cup Plans
  PROVE  /\ Reading(cl, x) \in CallType
         /\ Reading(cl, x).op = cl.op /\ Reading(cl, x).at = "read"
         /\ Reading(cl, x).uses = cl.uses /\ Reading(cl, x).target = cl.target
         /\ Reading(cl, x).copy = x
BY DEF Reading, CallType, Places, Inside

LEMMA RecordOps ==
  ASSUME NEW rec \in Kept
  PROVE  /\ rec.done \in BOOLEAN /\ rec.content \in BOOLEAN
         /\ Closed(rec) \in Kept /\ Closed(rec).done /\ Closed(rec).content = rec.content
         /\ Refreshed(rec) \in Kept
         /\ Refreshed(rec).done = rec.done /\ Refreshed(rec).content = rec.content
         /\ Pruned(rec) \in Kept
         /\ Pruned(rec).done = rec.done /\ ~ Pruned(rec).content
BY DEF Kept, Closed, Refreshed, Pruned

LEMMA HeldType ==
  ASSUME NEW done \in BOOLEAN
  PROVE  Held(done) \in Kept /\ Held(done).done = done
BY DEF Held, Kept

LEMMA NullApart == NULL \notin Kept /\ NULL \notin Calls
BY DesktopAssumption

-----------------------------------------------------------------------------
(* What the steps have in common. *)

Idle(cl) == cl.uses = 0 /\ cl.at \notin {"using", "read"}

(* Calls that stay, or do not work. *)
LEMMA UsedKept ==
  ASSUME DesktopInv, agents \subseteq agents',
         \A d \in Calls : call'[d] = call[d] \/ Idle(call'[d])
  PROVE  Used'
BY DEF DesktopInv, Used, Idle

LEMMA StoreKept ==
  ASSUME DesktopInv, UNCHANGED store,
         \A d \in Calls : call'[d] = call[d] \/ Idle(call'[d])
  PROVE  Fresh' /\ PlanDone' /\ PrunedRecords'
<1>1. Fresh'
  BY DEF DesktopInv, store, Fresh, FreshRecord, FreshPlan, Idle, At
<1>2. PlanDone' /\ PrunedRecords'
  BY DEF DesktopInv, store, PlanDone, PrunedRecords
<1> QED  BY <1>1, <1>2

(* A call inside that ends gives back its locks and nobody else's. *)
LEMMA AnswerKeeps ==
  ASSUME DesktopInv, NEW c \in Calls, call[c].at \in Inside, Answer(c), UNCHANGED <<front, queue>>
  PROVE  /\ call' \in [Calls -> CallType]
         /\ owner' \in Calls \cup {NULL} /\ turn' \in Calls \cup {NULL}
         /\ call'[c] = Over("answered") /\ Idle(call'[c])
         /\ \A d \in Calls : d # c => call'[d] = call[d]
         /\ Queued' /\ Owning' /\ Turned' /\ Targeted'
<1>0. TypeOK /\ Queued /\ Owning /\ Turned /\ Targeted
  BY DEF DesktopInv
<1>1. Over("answered") \in CallType /\ Over("answered").at = "answered" /\ Over("answered").uses = 0
  BY OverType DEF Ended
<1>2. /\ call' \in [Calls -> CallType]
      /\ call'[c] = Over("answered")
      /\ \A d \in Calls : d # c => call'[d] = call[d]
  BY <1>0, <1>1 DEF TypeOK, Answer
<1>3. Idle(call'[c])
  BY <1>1, <1>2 DEF Idle
<1>4. owner' \in Calls \cup {NULL} /\ turn' \in Calls \cup {NULL}
  BY <1>0 DEF TypeOK, Answer
<1>5. Queued'
  BY <1>0, <1>2 DEF Queued, At, Inside, TypeOK
<1>6. Owning'
  BY <1>0, <1>1, <1>2, NullApart DEF Owning, Answer, Inside, TypeOK
<1>7. Turned'
  BY <1>0, <1>1, <1>2, NullApart DEF Turned, Answer, Inside, At, TypeOK
<1>8. Targeted'
  BY <1>0, <1>1, <1>2 DEF Targeted, Taken, Ended
<1> QED  BY <1>2, <1>3, <1>4, <1>5, <1>6, <1>7, <1>8

-----------------------------------------------------------------------------
LEMMA InitInv == Init => DesktopInv
<1> SUFFICES ASSUME Init  PROVE DesktopInv
  OBVIOUS
<1>1. /\ Over("unsent") \in CallType /\ Over("unsent").op = NULL
      /\ Over("unsent").at = "unsent" /\ Over("unsent").uses = 0
  BY OverType
<1>2. TypeOK
  <2>1. call \in [Calls -> CallType]
    BY <1>1 DEF Init
  <2>2. record \in [Records -> Kept \cup {NULL}]
    BY HeldType DEF Init
  <2>3. pending \subseteq Records /\ expired \subseteq Records
    BY DEF Init, Records
  <2>4. front \in {"lines", "http"} /\ queue \in Seq(Calls) /\ agent \in Nat
        /\ owner = NULL /\ turn = NULL /\ plan = NULL
    BY DEF Init
  <2> QED  BY <2>1, <2>2, <2>3, <2>4 DEF TypeOK
<1>3. Queued /\ Owning /\ Turned /\ Targeted
  BY <1>1 DEF Init, Queued, Owning, Turned, Inside, At, Targeted, Taken
<1>4. Used /\ OneAgent /\ Fresh /\ PlanDone /\ PrunedRecords
  BY <1>1 DEF Init, Used, OneAgent, Fresh, PlanDone, PrunedRecords, At
<1> QED  BY <1>2, <1>3, <1>4 DEF DesktopInv

-----------------------------------------------------------------------------
(* Messages come and wait. *)

LEMMA ReceiveKeeps ==
  ASSUME DesktopInv, NEW c \in Calls, NEW op \in Operations, NEW target \in Records \cup {NULL},
         Receive(c, op, target)
  PROVE  DesktopInv'
<1>0. TypeOK /\ Queued /\ Owning /\ Turned /\ Targeted /\ OneAgent
  BY DEF DesktopInv
<1>1. /\ front = "lines" /\ At(c, "unsent")
      /\ UNCHANGED <<front, phase, owner, turn, agent, agents, store>>
  BY DEF Receive, Comes, locks, agentVars
<1>2. PICK w \in {"answered", "queued"} :
        /\ call' = [call EXCEPT ![c] = Sent(op, target, w)]
        /\ queue' = IF w = "answered" THEN queue ELSE Append(queue, c)
  BY DEF Receive
<1>3. Sent(op, target, w) \in CallType /\ Sent(op, target, w).at = w /\ Sent(op, target, w).uses = 0
      /\ Sent(op, target, w).op = op /\ Sent(op, target, w).target = target
  BY SentType DEF Places, Ended
<1>4. /\ call' \in [Calls -> CallType]
      /\ call'[c].at = w /\ call'[c].uses = 0 /\ call'[c].op = op /\ call'[c].target = target
      /\ \A d \in Calls : d # c => call'[d] = call[d]
  BY <1>0, <1>2, <1>3 DEF TypeOK
<1>5. queue' \in Seq(Calls)
  BY <1>0, <1>2 DEF TypeOK
<1>6. TypeOK'
  BY <1>0, <1>1, <1>4, <1>5 DEF TypeOK, store
<1>7. Queued'
  <2>1. \A i \in 1 .. Len(queue) : queue[i] \in Calls /\ queue[i] # c /\ call'[queue[i]] = call[queue[i]]
    BY <1>0, <1>1, <1>4 DEF Queued, At, TypeOK
  <2>2. CASE w = "answered"
    BY <1>0, <1>1, <1>2, <2>1, <2>2 DEF Queued, At
  <2>3. CASE w = "queued"
    <3>1. Len(queue') = Len(queue) + 1 /\ queue'[Len(queue) + 1] = c
      BY <1>0, <1>2, <2>3 DEF TypeOK
    <3>2. \A i \in 1 .. Len(queue) : queue'[i] = queue[i]
      BY <1>0, <1>2, <2>3 DEF TypeOK
    <3>3. \A i \in 1 .. Len(queue') : i \in 1 .. Len(queue) \/ i = Len(queue) + 1
      BY <1>0, <3>1 DEF TypeOK
    <3> QED  BY <1>0, <1>1, <1>4, <2>1, <2>3, <3>1, <3>2, <3>3 DEF Queued, At
  <2> QED  BY <2>2, <2>3
<1>8. Owning'
  BY <1>0, <1>1, <1>4, NullApart DEF Owning, Inside, At, TypeOK
<1>9. Turned'
  BY <1>0, <1>1, <1>4 DEF Turned, At
<1>10. \A d \in Calls : call'[d] = call[d] \/ Idle(call'[d])
  BY <1>4 DEF Idle
<1>11. Used' /\ OneAgent'
  BY <1>0, <1>1, <1>10, UsedKept DEF OneAgent
<1>12. Fresh' /\ PlanDone' /\ PrunedRecords'
  BY <1>1, <1>10, StoreKept
<1>13. Targeted'
  BY <1>0, <1>4 DEF Targeted, Taken, Receive
<1> QED  BY <1>6, <1>7, <1>8, <1>9, <1>11, <1>12, <1>13 DEF DesktopInv

LEMMA StartKeeps ==
  ASSUME DesktopInv, Start
  PROVE  DesktopInv'
<1> DEFINE c == Head(queue)
<1>0. TypeOK /\ Queued /\ Owning /\ Turned /\ Targeted /\ OneAgent /\ Used
  BY DEF DesktopInv
<1>1. /\ UNCHANGED <<front, phase, owner, turn, agent, agents, store>>
      /\ queue # <<>> /\ queue' = Tail(queue)
  BY DEF Start, locks, agentVars
<1>2. /\ c = queue[1] /\ c \in Calls /\ 1 \in 1 .. Len(queue)
      /\ queue' \in Seq(Calls) /\ Len(queue') = Len(queue) - 1
      /\ \A i \in 1 .. Len(queue') : queue'[i] = queue[i + 1] /\ i + 1 \in 1 .. Len(queue) /\ i + 1 # 1
  BY <1>0, <1>1 DEF TypeOK
<1>3. At(c, "queued") /\ front = "lines"
  BY <1>0, <1>1, <1>2 DEF Queued, TypeOK
<1> HIDE DEF c
<1>4. /\ call' \in [Calls -> CallType]
      /\ call'[c].at = "started" /\ call'[c].uses = call[c].uses
      /\ call'[c].op = call[c].op /\ call'[c].target = call[c].target
      /\ \A d \in Calls : d # c => call'[d] = call[d]
  <2>1. call' = [call EXCEPT ![c] = Placed(@, "started")]
    BY DEF Start, Moved, c
  <2>2. call[c] \in CallType /\ "started" \in Places
    BY <1>0, <1>2 DEF TypeOK, Places
  <2> QED  BY <1>0, <1>2, <2>1, <2>2, PlacedType DEF TypeOK
<1>5. TypeOK'
  BY <1>0, <1>1, <1>2, <1>4 DEF TypeOK, store
<1>6. Queued'
  <2>1. \A i \in 1 .. Len(queue) : queue[i] \in Calls /\ call[queue[i]].at = "queued" /\ (i # 1 => queue[i] # c)
    BY <1>0, <1>2 DEF Queued, TypeOK, At
  <2>2. \A i, j \in 1 .. Len(queue') : queue'[i] = queue'[j] => i = j
    <3> SUFFICES ASSUME NEW i \in 1 .. Len(queue'), NEW j \in 1 .. Len(queue'), queue'[i] = queue'[j]
                 PROVE  i = j
      OBVIOUS
    <3>1. i + 1 = j + 1
      BY <1>0, <1>2 DEF Queued
    <3> QED  BY <3>1
  <2>3. \A i \in 1 .. Len(queue') : queue'[i] \in Calls /\ call'[queue'[i]].at = "queued"
    BY <1>2, <1>4, <2>1
  <2> QED  BY <1>1, <1>3, <2>2, <2>3 DEF Queued, At
<1>7. Owning'
  BY <1>0, <1>1, <1>2, <1>3, <1>4, NullApart DEF Owning, Inside, At, TypeOK
<1>8. Turned'
  BY <1>0, <1>1, <1>3, <1>4 DEF Turned, At
<1>9. \A d \in Calls : call'[d] = call[d] \/ Idle(call'[d])
  BY <1>0, <1>2, <1>3, <1>4 DEF Idle, Used, At
<1>10. Used' /\ OneAgent'
  BY <1>0, <1>1, <1>9, UsedKept DEF OneAgent
<1>11. Fresh' /\ PlanDone' /\ PrunedRecords'
  BY <1>1, <1>9, StoreKept
<1>12. Targeted'
  BY <1>0, <1>3, <1>4 DEF Targeted, Taken, Ended, At
<1> QED  BY <1>5, <1>6, <1>7, <1>8, <1>10, <1>11, <1>12 DEF DesktopInv

(* A message that comes over HTTP waits for its turn, or is a status. *)
LEMMA PostOrGetKeeps ==
  ASSUME DesktopInv, NEW c \in Calls, Post(c) \/ Get(c)
  PROVE  DesktopInv'
<1>0. TypeOK /\ Queued /\ Owning /\ Turned /\ Targeted /\ OneAgent
  BY DEF DesktopInv
<1>1. /\ front = "http" /\ At(c, "unsent")
      /\ UNCHANGED <<front, phase, queue, owner, turn, agent, agents, store>>
  BY DEF Post, Get, Comes, locks, agentVars
<1>2. PICK op \in {"request", "status"}, w \in {"waiting", "started"} :
        /\ call' = [call EXCEPT ![c] = Sent(op, NULL, w)]
        /\ w = "started" => op = "status"
  BY DEF Post, Get
<1>3. /\ Sent(op, NULL, w) \in CallType /\ Sent(op, NULL, w).op = op
      /\ Sent(op, NULL, w).at = w /\ Sent(op, NULL, w).uses = 0
  <2>1. op \in Operations \cup {NULL} /\ w \in Places /\ NULL \in Records \cup {NULL}
    BY DEF Places, Operations
  <2> QED  BY <2>1, SentType
<1>4. /\ call' \in [Calls -> CallType]
      /\ call'[c].op = op /\ call'[c].at = w /\ call'[c].uses = 0
      /\ \A d \in Calls : d # c => call'[d] = call[d]
  BY <1>0, <1>2, <1>3 DEF TypeOK
<1>5. TypeOK'
  BY <1>0, <1>1, <1>4 DEF TypeOK, store
<1>6. Queued'
  BY <1>0, <1>1 DEF Queued
<1>7. Owning'
  BY <1>0, <1>1, <1>4, NullApart DEF Owning, Inside, At, TypeOK
<1>8. Turned'
  BY <1>0, <1>1, <1>2, <1>4 DEF Turned, Inside
<1>9. \A d \in Calls : call'[d] = call[d] \/ Idle(call'[d])
  BY <1>4 DEF Idle
<1>10. Used' /\ OneAgent'
  BY <1>0, <1>1, <1>9, UsedKept DEF OneAgent
<1>11. Fresh' /\ PlanDone' /\ PrunedRecords'
  BY <1>1, <1>9, StoreKept
<1>12. Targeted'
  <2>1. call'[c].op # "refresh"
    BY <1>4
  <2> QED  BY <1>0, <1>4, <2>1 DEF Targeted, Taken
<1> QED  BY <1>5, <1>6, <1>7, <1>8, <1>10, <1>11, <1>12 DEF DesktopInv

(* A call moves on before it uses the Agent. *)
LEMMA MovesKeeps ==
  ASSUME DesktopInv, NEW c \in Calls,
         TakeTurn(c) \/ Busy(c) \/ Refuse(c) \/ Enter(c)
  PROVE  DesktopInv'
<1>0. TypeOK /\ Queued /\ Owning /\ Turned /\ Targeted /\ OneAgent /\ Used
  BY DEF DesktopInv
<1>1. /\ UNCHANGED <<front, phase, queue, agent, agents, store>>
      /\ call[c].at \in {"waiting", "started"}
  BY DEF TakeTurn, Busy, Refuse, Enter, At, locks, agentVars
<1>2. PICK w \in {"started", "answered", "entered"} : call' = [call EXCEPT ![c] = Placed(@, w)]
  BY DEF TakeTurn, Busy, Refuse, Enter, Moved
<1>3. /\ call' \in [Calls -> CallType]
      /\ call'[c].op = call[c].op /\ call'[c].at = w /\ call'[c].uses = call[c].uses
      /\ call'[c].target = call[c].target
      /\ \A d \in Calls : d # c => call'[d] = call[d]
  <2>1. call[c] \in CallType /\ w \in Places
    BY <1>0 DEF TypeOK, Places, Inside, Ended
  <2> QED  BY <1>0, <1>2, <2>1, PlacedType DEF TypeOK
<1>4. Queued'
  BY <1>0, <1>1, <1>3 DEF Queued, At, TypeOK
<1>5. \A d \in Calls : call'[d] = call[d] \/ Idle(call'[d])
  BY <1>0, <1>1, <1>3 DEF Idle, Used
<1>6. Used' /\ OneAgent'
  BY <1>0, <1>1, <1>5, UsedKept DEF OneAgent
<1>7. Fresh' /\ PlanDone' /\ PrunedRecords'
  BY <1>1, <1>5, StoreKept
<1>8. owner' \in Calls \cup {NULL} /\ turn' \in Calls \cup {NULL}
  BY <1>0 DEF TypeOK, TakeTurn, Busy, Refuse, Enter, locks
<1>9. TypeOK'
  BY <1>0, <1>1, <1>3, <1>8 DEF TypeOK, store
<1>10. Targeted'
  BY <1>0, <1>1, <1>3 DEF Targeted, Taken, Ended
<1>11. CASE TakeTurn(c)
  <2>1. /\ call[c].at = "waiting" /\ call'[c].at = "started" /\ turn = NULL
        /\ turn' = c /\ owner' = owner
    <3>1. "started" \in Places /\ call[c] \in CallType /\ call' = [call EXCEPT ![c] = Placed(@, "started")]
      BY <1>0, <1>11 DEF TypeOK, Places, TakeTurn, Moved
    <3> QED  BY <1>0, <1>11, <3>1, PlacedType DEF TakeTurn, TurnFree, At, TypeOK
  <2>2. Owning'
    BY <1>0, <1>3, <2>1, NullApart DEF Owning, Inside, TypeOK
  <2>3. Turned'
    <3>1. front = "http"
      BY <1>0, <2>1 DEF Turned, TypeOK, At
    <3>2. \A d \in Calls \ {c} : call'[d].at \in Inside \cup {"started"} => call'[d].op = "status"
      BY <1>0, <1>3, <2>1, <3>1, NullApart DEF Turned
    <3> QED  BY <1>1, <2>1, <3>1, <3>2 DEF Turned
  <2> QED  BY <1>4, <1>6, <1>7, <1>9, <1>10, <2>2, <2>3 DEF DesktopInv
<1>12. CASE Busy(c) \/ Refuse(c)
  <2>2. call'[c].at = "answered" /\ UNCHANGED <<owner, turn>>
    <3>1. "answered" \in Places /\ call[c] \in CallType /\ call' = [call EXCEPT ![c] = Placed(@, "answered")]
      BY <1>0, <1>12 DEF TypeOK, Places, Ended, Busy, Refuse, Moved
    <3> QED  BY <1>0, <1>12, <3>1, PlacedType DEF Busy, Refuse, TypeOK, locks
  <2>3. Owning'
    BY <1>0, <1>1, <1>3, <2>2, NullApart DEF Owning, Inside, TypeOK
  <2>4. Turned'
    BY <1>0, <1>1, <1>3, <2>2 DEF Turned, Inside, At
  <2> QED  BY <1>4, <1>6, <1>7, <1>9, <1>10, <2>3, <2>4 DEF DesktopInv
<1>13. CASE Enter(c)
  <2>1. /\ call[c].at = "started" /\ call'[c].at = "entered" /\ turn' = turn
        /\ owner = NULL \/ Bypasses(call[c].op)
        /\ owner' = IF Bypasses(call[c].op) THEN owner ELSE c
    <3>1. "entered" \in Places /\ call[c] \in CallType /\ call' = [call EXCEPT ![c] = Placed(@, "entered")]
      BY <1>0, <1>13 DEF TypeOK, Places, Inside, Enter, Moved
    <3> QED  BY <1>0, <1>13, <3>1, PlacedType DEF Enter, MayEnter, At, TypeOK
  <2>2. Owning'
    <3>1. CASE Bypasses(call[c].op)
      BY <1>0, <1>3, <2>1, <3>1, NullApart DEF Owning, Inside, TypeOK
    <3>2. CASE ~ Bypasses(call[c].op)
      BY <1>0, <1>3, <2>1, <3>2, NullApart DEF Owning, Inside, TypeOK
    <3> QED  BY <3>1, <3>2
  <2>3. Turned'
    BY <1>0, <1>1, <1>3, <2>1 DEF Turned, Inside, At
  <2> QED  BY <1>4, <1>6, <1>7, <1>9, <1>10, <2>2, <2>3 DEF DesktopInv
<1> QED  BY <1>11, <1>12, <1>13

LEMMA StopsKeep ==
  ASSUME DesktopInv, StopReading \/ Close \/ CloseGateway
  PROVE  DesktopInv'
<1>0. TypeOK /\ Queued /\ Owning /\ Turned /\ Targeted /\ OneAgent /\ Used
  BY DEF DesktopInv
<1>1. CASE StopReading
  <2>1. UNCHANGED <<front, call, queue, owner, turn, agent, agents, store>>
    BY <1>1 DEF StopReading, locks
  <2>2. TypeOK' /\ Queued' /\ Owning' /\ Turned' /\ Targeted' /\ OneAgent' /\ Used'
    BY <1>0, <2>1 DEF TypeOK, Queued, Owning, Turned, Targeted, Taken, OneAgent, Used, At, store
  <2>3. Fresh' /\ PlanDone' /\ PrunedRecords'
    BY <2>1, StoreKept
  <2> QED  BY <2>2, <2>3 DEF DesktopInv
<1>2. CASE Close
  <2>1. UNCHANGED <<front, call, queue, owner, turn, agent, store>> /\ agents' \subseteq agents
    BY <1>2 DEF Close, locks
  <2>2. TypeOK' /\ Queued' /\ Owning' /\ Turned' /\ Targeted' /\ OneAgent'
    BY <1>0, <2>1 DEF TypeOK, Queued, Owning, Turned, Targeted, Taken, OneAgent, At, store
  <2>3. Used'
    <3>1. \A c \in Calls : call[c].at \notin {"using", "read"}
      BY <1>2 DEF Close, Taken, Ended
    <3> QED  BY <1>0, <2>1, <3>1 DEF Used
  <2>4. Fresh' /\ PlanDone' /\ PrunedRecords'
    BY <2>1, StoreKept
  <2> QED  BY <2>2, <2>3, <2>4 DEF DesktopInv
<1>3. CASE CloseGateway
  <2>1. /\ front = "http" /\ owner' = NULL /\ turn' = NULL
        /\ call' = [c \in Calls |-> IF c \in Taken THEN Over("lost") ELSE call[c]]
        /\ UNCHANGED <<front, queue, agent, store>> /\ agents' \subseteq agents
    BY <1>3 DEF CloseGateway
  <2>2. Over("lost") \in CallType /\ Over("lost").at = "lost" /\ Over("lost").uses = 0
    BY OverType DEF Ended
  <2>3. /\ call' \in [Calls -> CallType]
        /\ \A c \in Calls : call'[c] = Over("lost") \/ (call'[c] = call[c] /\ c \notin Taken)
    BY <1>0, <2>1, <2>2 DEF TypeOK
  <2>4. \A c \in Calls : call'[c].at \in {"unsent"} \cup Ended
    BY <2>2, <2>3 DEF Taken, Ended
  <2>5. \A c \in Calls : call'[c].at \notin Inside \cup {"started"}
    BY <2>4 DEF Inside, Ended
  <2>6. TypeOK'
    BY <1>0, <2>1, <2>3 DEF TypeOK, store
  <2>7. Queued' /\ Turned' /\ Targeted' /\ OneAgent'
    BY <1>0, <2>1, <2>4, <2>5 DEF Queued, Turned, Targeted, Taken, OneAgent
  <2>8. Owning'
    BY <2>1, <2>5, NullApart DEF Owning
  <2>9. Used'
    BY <1>0, <2>2, <2>3, <2>5 DEF Used, Inside
  <2>10. \A c \in Calls : call'[c] = call[c] \/ Idle(call'[c])
    BY <2>2, <2>3 DEF Idle
  <2>11. Fresh' /\ PlanDone' /\ PrunedRecords'
    BY <2>1, <2>10, StoreKept
  <2> QED  BY <2>6, <2>7, <2>8, <2>9, <2>11 DEF DesktopInv
<1> QED  BY <1>1, <1>2, <1>3

-----------------------------------------------------------------------------
(* Operations. *)

(* ensure opens the first Agent and changes nothing later. *)
LEMMA EnsureKeeps ==
  ASSUME DesktopInv, Ensure
  PROVE  /\ agent' \in Nat /\ agent' = Ensured /\ Ensured # 0 /\ Ensured \in agents'
         /\ agents \subseteq agents' /\ OneAgent'
BY DEF DesktopInv, TypeOK, OneAgent, Ensure, Ensured

(* Answers that write nothing. *)
LEMMA AnswersKeep ==
  ASSUME DesktopInv, NEW c \in Calls,
         Fail(c) \/ Status(c) \/ Cancel(c) \/ Connect(c) \/ Done(c)
  PROVE  DesktopInv'
<1>0. TypeOK /\ Owning /\ OneAgent /\ Used
  BY DEF DesktopInv
<1>1. Answer(c) /\ UNCHANGED <<front, queue, store>>
  BY DEF Fail, Status, Cancel, Connect, Done
<1>2. call[c].at \in Inside
  BY DEF Fail, Status, Cancel, Connect, Done, At, Inside
<1>3. /\ call' \in [Calls -> CallType]
      /\ owner' \in Calls \cup {NULL} /\ turn' \in Calls \cup {NULL}
      /\ Queued' /\ Owning' /\ Turned' /\ Targeted'
      /\ Idle(call'[c])
      /\ \A d \in Calls : d # c => call'[d] = call[d]
  BY <1>1, <1>2, AnswerKeeps
<1>4. \A d \in Calls : call'[d] = call[d] \/ Idle(call'[d])
  BY <1>3
<1>5. Fresh' /\ PlanDone' /\ PrunedRecords'
  BY <1>1, <1>4, StoreKept
<1>6. agent' \in Nat /\ OneAgent' /\ Used'
  <2>1. CASE Ensure
    BY <1>4, <2>1, EnsureKeeps, UsedKept
  <2>2. CASE UNCHANGED <<agent, agents>>
    BY <1>0, <1>4, <2>2, UsedKept DEF TypeOK, OneAgent
  <2>3. CASE /\ At(c, "entered") /\ call[c].op = "connect"
             /\ agent' = agent + 1 /\ agents' = (agents \ {agent}) \cup {agent + 1}
    <3>1. agent' \in Nat /\ OneAgent'
      BY <1>0, <2>3 DEF TypeOK, OneAgent
    <3>2. \A d \in Calls : call[d].at \notin {"using", "read"}
      BY <1>0, <2>3, NullApart DEF Owning, Used, Inside, Bypasses, At
    <3>3. \A d \in Calls : call'[d].uses = 0 /\ call'[d].at \notin {"using", "read"}
      BY <1>0, <1>4, <3>2 DEF Used, Idle
    <3> QED  BY <3>1, <3>3 DEF Used
  <2> QED  BY <2>1, <2>2, <2>3 DEF Fail, Status, Cancel, Connect, Done, agentVars
<1>7. TypeOK'
  BY <1>0, <1>1, <1>3, <1>6 DEF TypeOK, store
<1> QED  BY <1>3, <1>5, <1>6, <1>7 DEF DesktopInv

LEMMA UseKeeps ==
  ASSUME DesktopInv, NEW c \in Calls, Use(c)
  PROVE  DesktopInv'
<1>0. TypeOK /\ Queued /\ Owning /\ Turned /\ Targeted /\ OneAgent /\ Used
  BY DEF DesktopInv
<1>1. /\ At(c, "entered") /\ ~ Bypasses(call[c].op)
      /\ Ensure /\ UNCHANGED <<front, queue, owner, turn, store>>
      /\ call' = [call EXCEPT ![c] = Working(@, Ensured)]
  BY DEF Use, Bypasses, locks
<1>2. /\ agent' \in Nat /\ agent' = Ensured /\ Ensured # 0 /\ Ensured \in agents'
      /\ agents \subseteq agents' /\ OneAgent'
  BY <1>1, EnsureKeeps
<1>3. /\ call' \in [Calls -> CallType]
      /\ call'[c].op = call[c].op /\ call'[c].at = "using" /\ call'[c].uses = Ensured
      /\ call'[c].target = call[c].target
      /\ \A d \in Calls : d # c => call'[d] = call[d]
  <2>1. call[c] \in CallType /\ Ensured \in Nat
    BY <1>0, <1>2 DEF TypeOK
  <2> QED  BY <1>0, <1>1, <2>1, WorkingType DEF TypeOK
<1>4. TypeOK'
  BY <1>0, <1>1, <1>2, <1>3 DEF TypeOK, store
<1>5. Queued'
  BY <1>0, <1>1, <1>3 DEF Queued, At, TypeOK
<1>6. Owning'
  BY <1>0, <1>1, <1>3, NullApart DEF Owning, Inside, At, TypeOK
<1>7. Turned'
  BY <1>0, <1>1, <1>3 DEF Turned, Inside, At
<1>8. Used'
  BY <1>0, <1>1, <1>2, <1>3 DEF Used
<1>9. Fresh'
  BY <1>1, <1>3 DEF DesktopInv, Fresh, FreshRecord, FreshPlan, At, store
<1>10. PlanDone' /\ PrunedRecords'
  BY <1>1 DEF DesktopInv, PlanDone, PrunedRecords, store
<1>11. Targeted'
  BY <1>0, <1>1, <1>3 DEF Targeted, Taken, Ended, At
<1> QED  BY <1>2, <1>4, <1>5, <1>6, <1>7, <1>8, <1>9, <1>10, <1>11 DEF DesktopInv

(* A refresh and a pruning read: what they read is what is there. *)
LEMMA ReadsKeep ==
  ASSUME DesktopInv, NEW c \in Calls, ReadRecord(c) \/ CheckPlan(c)
  PROVE  DesktopInv'
<1>0. TypeOK /\ Queued /\ Owning /\ Turned /\ Targeted /\ OneAgent /\ Used
  BY DEF DesktopInv
<1>1. /\ At(c, "using") /\ UNCHANGED <<front, queue, owner, turn, agent, agents, store>>
      /\ call[c] \in CallType
  BY <1>0 DEF ReadRecord, CheckPlan, Using, locks, agentVars, TypeOK
<1>2. PICK x \in Kept \cup Plans :
        /\ call' = [call EXCEPT ![c] = Reading(@, x)]
        /\ \/ /\ call[c].op = "refresh" /\ call[c].target \in Records
              /\ x \in Kept /\ record[call[c].target] = x
           \/ /\ call[c].op = "apply" /\ x = plan /\ plan \in Plans
              /\ \A k \in DOMAIN plan : record[k] = plan[k] /\ k \notin pending /\ plan[k].done
  <2>1. CASE ReadRecord(c)
    <3>1. call[c].target \in Records
      BY <1>0, <1>1, <2>1 DEF ReadRecord, Using, Targeted, Taken, Ended, At
    <3>2. record[call[c].target] \in Kept
      BY <1>0, <2>1, <3>1 DEF ReadRecord, TypeOK
    <3> QED  BY <2>1, <3>1, <3>2 DEF ReadRecord, Using
  <2>2. CASE CheckPlan(c)
    BY <1>0, <2>2 DEF CheckPlan, Using, TypeOK, DesktopInv, PlanDone
  <2> QED  BY <2>1, <2>2
<1>3. /\ call' \in [Calls -> CallType]
      /\ call'[c].op = call[c].op /\ call'[c].at = "read" /\ call'[c].uses = call[c].uses
      /\ call'[c].target = call[c].target /\ call'[c].copy = x
      /\ \A d \in Calls : d # c => call'[d] = call[d]
  BY <1>0, <1>1, <1>2, ReadingType DEF TypeOK
<1>4. TypeOK'
  BY <1>0, <1>1, <1>3 DEF TypeOK, store
<1>5. Queued'
  BY <1>0, <1>1, <1>3 DEF Queued, At, TypeOK
<1>6. Owning'
  BY <1>0, <1>1, <1>3, NullApart DEF Owning, Inside, At, TypeOK
<1>7. Turned'
  BY <1>0, <1>1, <1>3 DEF Turned, Inside, At
<1>8. Used' /\ OneAgent'
  BY <1>0, <1>1, <1>3 DEF Used, OneAgent, At
<1>9. Fresh'
  BY <1>1, <1>2, <1>3 DEF DesktopInv, Fresh, FreshRecord, FreshPlan, At, store
<1>10. PlanDone' /\ PrunedRecords'
  BY <1>1 DEF DesktopInv, PlanDone, PrunedRecords, store
<1>11. Targeted'
  BY <1>0, <1>1, <1>3 DEF Targeted, Taken, Ended, At
<1> QED  BY <1>4, <1>5, <1>6, <1>7, <1>8, <1>9, <1>10, <1>11 DEF DesktopInv

-----------------------------------------------------------------------------
(* What writes the records runs alone. *)

LEMMA WritersAlone ==
  ASSUME DesktopInv, NEW c \in Calls, call[c].at \in Inside, ~ Bypasses(call[c].op)
  PROVE  \A d \in Calls : d # c => call[d].at \notin {"using", "read"} /\ call[d].uses = 0
BY DEF DesktopInv, Owning, Used, Inside

LEMMA BeginRequestKeeps ==
  ASSUME DesktopInv, NEW c \in Calls, BeginRequest(c)
  PROVE  DesktopInv'
<1>0. TypeOK /\ Queued /\ Owning /\ Turned /\ Targeted /\ OneAgent /\ Used /\ PlanDone /\ PrunedRecords
  BY DEF DesktopInv
<1>1. /\ At(c, "using") /\ call[c].op = "request" /\ record[c] = NULL
      /\ record' = [record EXCEPT ![c] = Held(FALSE)] /\ pending' = pending \cup {c}
      /\ UNCHANGED <<front, call, queue, owner, turn, agent, agents, plan, expired>>
  BY DEF BeginRequest, Using, locks, agentVars
<1>2. Held(FALSE) \in Kept /\ c \in Records
  BY HeldType DEF Records
<1>3. TypeOK'
  BY <1>0, <1>1, <1>2 DEF TypeOK
<1>4. Queued' /\ Owning' /\ Turned' /\ Targeted' /\ OneAgent' /\ Used' /\ PlanDone'
  BY <1>0, <1>1 DEF Queued, Owning, Turned, Targeted, Taken, OneAgent, Used, PlanDone, At
<1>5. \A d \in Calls : ~ At(d, "read")
  BY <1>1, WritersAlone DEF At, Inside, Bypasses
<1>6. Fresh'
  BY <1>1, <1>5 DEF Fresh, At
<1>7. PrunedRecords'
  BY <1>0, <1>1 DEF PrunedRecords, TypeOK
<1> QED  BY <1>3, <1>4, <1>6, <1>7 DEF DesktopInv

LEMMA DeliverKeeps ==
  ASSUME DesktopInv, NEW k \in Records, Deliver(k)
  PROVE  DesktopInv'
<1>0. TypeOK /\ Queued /\ Owning /\ Turned /\ Targeted /\ OneAgent /\ Used /\ PlanDone /\ PrunedRecords
  BY DEF DesktopInv
<1>1. /\ pending' = pending \ {k}
      /\ UNCHANGED <<front, call, queue, owner, turn, agent, agents, record, plan, expired>>
  BY DEF Deliver, locks, agentVars
<1>2. TypeOK'
  BY <1>0, <1>1 DEF TypeOK
<1>3. Queued' /\ Owning' /\ Turned' /\ Targeted' /\ OneAgent' /\ Used' /\ PlanDone' /\ PrunedRecords'
  BY <1>0, <1>1 DEF Queued, Owning, Turned, Targeted, Taken, OneAgent, Used, PlanDone, PrunedRecords, At
<1>4. Fresh'
  BY <1>1 DEF DesktopInv, Fresh, FreshRecord, FreshPlan, At
<1> QED  BY <1>2, <1>3, <1>4 DEF DesktopInv

(* The end of a request, of a refresh, of a preview and of a pruning: after *)
(* it nobody works with what was read before.                              *)
LEMMA WritesKeep ==
  ASSUME DesktopInv, NEW c \in Calls,
         EndRequest(c) \/ WriteRecord(c) \/ Preview(c) \/ Apply(c)
  PROVE  DesktopInv'
<1>0. TypeOK /\ OneAgent /\ Used /\ PlanDone /\ PrunedRecords /\ Fresh
  BY DEF DesktopInv
<1>1. /\ call[c].at \in {"using", "read"} /\ call[c].op \in {"request", "refresh", "preview", "apply"}
      /\ Answer(c) /\ UNCHANGED <<front, queue, agent, agents, pending>>
  BY DEF EndRequest, WriteRecord, Preview, Apply, Using, At, agentVars
<1>2. /\ call' \in [Calls -> CallType]
      /\ owner' \in Calls \cup {NULL} /\ turn' \in Calls \cup {NULL}
      /\ Queued' /\ Owning' /\ Turned' /\ Targeted'
      /\ Idle(call'[c])
      /\ \A d \in Calls : d # c => call'[d] = call[d]
  BY <1>1, AnswerKeeps DEF Inside
<1>3. \A d \in Calls : call'[d].at \notin {"using", "read"}
  BY <1>1, <1>2, WritersAlone DEF Inside, Bypasses, Idle
<1>4. \A d \in Calls : call'[d] = call[d] \/ Idle(call'[d])
  BY <1>2
<1>5. Used' /\ OneAgent'
  BY <1>0, <1>1, <1>4, UsedKept DEF OneAgent
<1>6. Fresh'
  BY <1>3 DEF Fresh, At
<1> SUFFICES /\ record' \in [Records -> Kept \cup {NULL}] /\ expired' \subseteq Records
             /\ plan' \in Plans \cup {NULL} /\ PlanDone' /\ PrunedRecords'
  BY <1>0, <1>1, <1>2, <1>5, <1>6 DEF DesktopInv, TypeOK
<1>7. CASE EndRequest(c)
  <2>1. UNCHANGED <<plan, expired>> /\ c \in Records
    BY <1>7 DEF EndRequest, Records
  <2>2. CASE record[c] # NULL /\ record' = [record EXCEPT ![c] = Closed(@)]
    <3>1. /\ record[c] \in Kept /\ Closed(record[c]) \in Kept
          /\ Closed(record[c]).done /\ Closed(record[c]).content = record[c].content
      BY <1>0, <2>1, <2>2, RecordOps DEF TypeOK
    <3>2. PrunedRecords'
      BY <1>0, <1>1, <2>1, <2>2, <3>1, NullApart DEF PrunedRecords, TypeOK
    <3> QED  BY <1>0, <2>1, <2>2, <3>1, <3>2 DEF TypeOK, PlanDone
  <2>3. CASE UNCHANGED record
    BY <1>0, <1>1, <2>1, <2>3 DEF TypeOK, PlanDone, PrunedRecords
  <2> QED  BY <1>7, <2>2, <2>3 DEF EndRequest
<1>8. CASE WriteRecord(c)
  <2> DEFINE k == call[c].target
             rec == call[c].copy
  <2>1. /\ UNCHANGED <<plan, expired>> /\ record' = [record EXCEPT ![k] = Refreshed(rec)]
        /\ k \in Records /\ rec \in Kept /\ record[k] = rec
    BY <1>0, <1>8 DEF WriteRecord, Fresh, FreshRecord, At
  <2>2. /\ Refreshed(rec) \in Kept
        /\ Refreshed(rec).done = rec.done /\ Refreshed(rec).content = rec.content
    BY <2>1, RecordOps
  <2> HIDE DEF k, rec
  <2>3. PrunedRecords'
    BY <1>0, <1>1, <2>1, <2>2, NullApart DEF PrunedRecords, TypeOK
  <2> QED  BY <1>0, <2>1, <2>2, <2>3 DEF TypeOK, PlanDone
<1>9. CASE Preview(c)
  <2>1. UNCHANGED <<record, expired>> /\ plan' = [k \in Prunable |-> record[k]]
    BY <1>9 DEF Preview
  <2>2. \A k \in Prunable : k \in Records /\ record[k] \in Kept /\ record[k].done
    BY <1>0 DEF Prunable, TypeOK
  <2>3. plan' \in Plans /\ PlanDone'
    BY <2>1, <2>2 DEF Plans, PlanDone
  <2> QED  BY <1>0, <1>1, <2>1, <2>3 DEF TypeOK, PrunedRecords
<1>10. CASE Apply(c)
  <2> DEFINE copy == call[c].copy
             gone == DOMAIN copy
  <2>1. /\ record' = [k \in Records |-> IF k \in gone THEN Pruned(copy[k]) ELSE record[k]]
        /\ expired' = expired \cup gone /\ plan' = NULL
        /\ copy \in Plans
        /\ \A k \in gone : record[k] = copy[k] /\ copy[k].done /\ k \notin pending
    BY <1>0, <1>10 DEF Apply, Fresh, FreshPlan, At
  <2>2. gone \subseteq Records /\ \A k \in gone : copy[k] \in Kept
    BY <2>1 DEF Plans
  <2> HIDE DEF gone, copy
  <2>3. \A k \in gone : Pruned(copy[k]) \in Kept /\ Pruned(copy[k]).done = copy[k].done /\ ~ Pruned(copy[k]).content
    BY <2>2, RecordOps
  <2>4. record' \in [Records -> Kept \cup {NULL}] /\ expired' \subseteq Records
    BY <1>0, <2>1, <2>2, <2>3 DEF TypeOK
  <2>5. PrunedRecords'
    <3> SUFFICES ASSUME NEW k \in expired'
                 PROVE  record'[k] # NULL /\ record'[k].done /\ ~ record'[k].content /\ k \notin pending
      BY <1>1 DEF PrunedRecords
    <3>1. CASE k \in gone
      BY <2>1, <2>2, <2>3, <3>1, NullApart
    <3>2. CASE k \notin gone
      BY <1>0, <2>1, <3>2 DEF PrunedRecords, TypeOK
    <3> QED  BY <3>1, <3>2
  <2> QED  BY <2>1, <2>4, <2>5 DEF PlanDone
<1> QED  BY <1>1, <1>7, <1>8, <1>9, <1>10

-----------------------------------------------------------------------------
(* The inductive invariant, for every number of calls, workers and slots:  *)
(* whoever works with the Agent or a record holds operation_lock, uses the *)
(* Agent that is open, and finds what it read unchanged when it writes     *)
(* (controller.py:44-52, 117-147, agent.py:354-363, retention.py:29-44).   *)
THEOREM DesktopInvariant == Spec => []DesktopInv
<1>1. DesktopInv /\ [Next]_vars => DesktopInv'
  <2> SUFFICES ASSUME DesktopInv, [Next]_vars  PROVE DesktopInv'
    OBVIOUS
  <2>1. CASE UNCHANGED vars
    <3>1. UNCHANGED <<front, call, queue, owner, turn, agent, agents, store>>
      BY <2>1 DEF vars, locks, agentVars
    <3>2. TypeOK' /\ Queued' /\ Owning' /\ Turned' /\ Targeted' /\ OneAgent' /\ Used'
      BY <3>1 DEF DesktopInv, TypeOK, Queued, Owning, Turned, Targeted, Taken, OneAgent, Used, At, store
    <3> QED  BY <3>1, <3>2, StoreKept DEF DesktopInv
  <2>2. CASE \E c \in Calls, op \in Operations, target \in Records \cup {NULL} : Receive(c, op, target)
    BY <2>2, ReceiveKeeps
  <2>3. CASE \E c \in Calls : Post(c) \/ Get(c)
    BY <2>3, PostOrGetKeeps
  <2>4. CASE StopReading \/ Close \/ CloseGateway \/ Start
    BY <2>4, StopsKeep, StartKeeps
  <2>5. CASE \E c \in Calls : Work(c)
    <3> SUFFICES ASSUME NEW c \in Calls, Work(c)  PROVE DesktopInv'
      BY <2>5
    <3>1. CASE TakeTurn(c) \/ Busy(c) \/ Refuse(c) \/ Enter(c)
      BY <3>1, MovesKeeps
    <3>2. CASE Fail(c) \/ Status(c) \/ Cancel(c) \/ Connect(c) \/ Done(c)
      BY <3>2, AnswersKeep
    <3>3. CASE Use(c) \/ ReadRecord(c) \/ CheckPlan(c)
      BY <3>3, UseKeeps, ReadsKeep
    <3>4. CASE BeginRequest(c) \/ EndRequest(c) \/ WriteRecord(c) \/ Preview(c) \/ Apply(c)
      BY <3>4, BeginRequestKeeps, WritesKeep
    <3> QED  BY <3>1, <3>2, <3>3, <3>4 DEF Work
  <2>6. CASE \E k \in Records : Deliver(k)
    BY <2>6, DeliverKeeps
  <2> QED  BY <2>1, <2>2, <2>3, <2>4, <2>5, <2>6 DEF Next
<1> QED  BY <1>1, InitInv, PTL DEF Spec

(* An operation that runs outside self.lock runs alone and keeps the Agent *)
(* it began with, open, until it ends; no replaced Agent stays open, and a *)
(* completion that has its turn finds the lock free                        *)
(* (controller.py:44-84, 117-147, proxy.py:195-206).                       *)
THEOREM UseIsExclusive == Spec => []ExclusiveUse
<1>1. DesktopInv => ExclusiveUse
  <2> SUFFICES ASSUME DesktopInv  PROVE ExclusiveUse
    OBVIOUS
  <2>1. \A c \in Calls : call[c].uses # 0 => call[c].uses \in agents /\ owner = c
    BY DEF DesktopInv, Used, Owning, Inside
  <2>2. agents \subseteq {agent}
    BY DEF DesktopInv, OneAgent
  <2>3. ASSUME NEW c \in Calls, turn = c, At(c, "started"), ~ MayEnter(c)
        PROVE  FALSE
    <3>1. /\ owner \in Calls /\ call[owner].at \in Inside /\ ~ Bypasses(call[owner].op)
      BY <2>3 DEF MayEnter, DesktopInv, TypeOK, Owning
    <3>2. front = "http"
      BY <2>3, NullApart DEF DesktopInv, TypeOK, Turned
    <3>3. turn = owner
      BY <3>1, <3>2 DEF DesktopInv, Turned, Bypasses
    <3> QED  BY <2>3, <3>1, <3>3 DEF At, Inside
  <2> QED  BY <2>1, <2>2, <2>3 DEF ExclusiveUse
<1> QED  BY <1>1, DesktopInvariant, PTL

(* Evidence is deleted of requests that ended and whose evidence was       *)
(* delivered, and their records stay pruned whatever was read before       *)
(* (retention.py:14-19, 33-43, agent.py:354-363).                          *)
THEOREM PrunedStaysPruned == Spec => []PrunedForGood
<1>1. DesktopInv => PrunedForGood
  BY DEF DesktopInv, PrunedRecords, PrunedForGood
<1> QED  BY <1>1, DesktopInvariant, PTL

=============================================================================
