----------------------------- MODULE AtMostOnce -----------------------------
(***************************************************************************)
(* What a service promises about a request it is asked to execute, however *)
(* often it is asked: the effect happens at most once, and every answer is *)
(* the one result.  A request that was taken up need never have a result.  *)
(***************************************************************************)
EXTENDS Naturals

CONSTANTS Request, NONE, UNKNOWN

VARIABLES
  outcome,  \* per request: NONE, UNKNOWN while it is under way or lost, a result
  effect,   \* per request: how often it was executed
  replies   \* per request: the results returned to callers

onceVars == <<outcome, effect, replies>>

Init ==
  /\ outcome = [q \in Request |-> NONE]
  /\ effect = [q \in Request |-> 0]
  /\ replies = [q \in Request |-> {}]

TakeUp(q) ==
  /\ outcome[q] = NONE
  /\ outcome' = [outcome EXCEPT ![q] = UNKNOWN]
  /\ UNCHANGED <<effect, replies>>

Execute(q) ==
  /\ outcome[q] = UNKNOWN
  /\ effect[q] = 0
  /\ effect' = [effect EXCEPT ![q] = 1]
  /\ UNCHANGED <<outcome, replies>>

(* The result becomes durable and is returned. *)
Settle(q) ==
  /\ outcome[q] = UNKNOWN
  /\ effect[q] = 1
  /\ outcome'[q] \notin {NONE, UNKNOWN}
  /\ outcome' = [outcome EXCEPT ![q] = outcome'[q]]
  /\ replies' = [replies EXCEPT ![q] = @ \cup {outcome'[q]}]
  /\ UNCHANGED effect

Repeat(q) ==
  /\ outcome[q] \notin {NONE, UNKNOWN}
  /\ replies' = [replies EXCEPT ![q] = @ \cup {outcome[q]}]
  /\ UNCHANGED <<outcome, effect>>

Next ==
  \E q \in Request : TakeUp(q) \/ Execute(q) \/ Settle(q) \/ Repeat(q)

Spec == Init /\ [][Next]_onceVars

=============================================================================
