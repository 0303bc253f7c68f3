------------------------------ MODULE UserGate ------------------------------
(***************************************************************************)
(* The checks of U on an answer and the decision on them                   *)
(* (enforce/user_gate.py).  Commitments, nonces, models and keys are       *)
(* opaque values; a signature that does not verify is a key outside        *)
(* Trusted.  NULL stands for a statement, a model name or a verdict that   *)
(* is not there.                                                           *)
(***************************************************************************)
EXTENDS FiniteSets

CONSTANTS
  Trusted,    \* keys of M that U has pinned
  HashOf,     \* the pinned hash of each model that has one
  AllowTools, \* allow_tool_directives
  NULL

PassIf(b) == IF b THEN "pass" ELSE "fail"

(* Mutant: without a relay statement a fallback is not evaluated. *)
RouteCheckLenient(c, model, relay) ==
  IF model = NULL \/ (model # c.requested /\ relay = NULL) THEN "na"
  ELSE PassIf(model = c.requested \/ (model \in c.allowed /\ c.fallback # "none" /\ relay.decision = "fallback"))

(* _route_check: which model answered, as far as a statement says so. *)
RouteCheck(c, model, relay) ==
  IF model = NULL THEN "na"
  ELSE PassIf(\/ model = c.requested
              \/ /\ model \in c.allowed /\ c.fallback # "none"
                 /\ relay # NULL /\ relay.decision = "fallback")

(* The requests U approved: its own, and what an allowed transformation of *)
(* it gives where U can recompute that (expected).                         *)
Approved(c, expected) ==
  (IF "identity" \in c.transforms THEN {c.req} ELSE {})
    \cup {expected[t] : t \in DOMAIN expected \cap c.transforms}

(* Mutant: a transformation U cannot recompute counts as approved. *)
RequestBindingTrusting(c, expected, req) ==
  PassIf(req \in Approved(c, expected) \/ ~ c.transforms \subseteq {"identity"} \cup DOMAIN expected)

RequestBinding(c, expected, req) ==
  IF req \in Approved(c, expected) THEN "pass"
  ELSE IF c.transforms \subseteq {"identity"} \cup DOMAIN expected THEN "fail"
  ELSE "na"

LocalChecks(c, expected, late, tool, body, m, r) ==
  LET trusted == m # NULL /\ m.kid \in Trusted
      OnReceipt(result) == IF trusted THEN result ELSE "na"
  IN [ not_expired |-> PassIf(~ late),
       receipt_present |-> PassIf(m # NULL),
       receipt_signature |-> IF m = NULL THEN "na" ELSE PassIf(trusted),
       nonce_match |-> OnReceipt(PassIf(m.nonce = c.nonce)),
       request_binding |-> OnReceipt(RequestBinding(c, expected, m.req)),
       response_binding |-> OnReceipt(PassIf(m.resp = body)),
       attempt_match |-> OnReceipt(PassIf(m.attempt = c.attempt)),
       model_hash_reference |->
         OnReceipt(IF m.model \in DOMAIN HashOf THEN PassIf(m.hash = HashOf[m.model]) ELSE "na"),
       route_allowed |-> IF m # NULL THEN OnReceipt(RouteCheck(c, m.model, r))
                         ELSE IF r # NULL THEN RouteCheck(c, r.upstream, r) ELSE "na",
       tool_policy |-> PassIf(~ tool \/ AllowTools) ]

Required == {"receipt_present", "request_binding", "response_binding", "nonce_match"}

Failed(checks) == {k \in DOMAIN checks : checks[k] = "fail"}
Unknown(checks) == {k \in DOMAIN checks : checks[k] = "na"}

Decide(mode, checks, status, deadlineHit) ==
  IF mode = "observe" THEN "accept_unverified"
  ELSE IF Failed(checks) # {} \/ Unknown(checks) \cap Required # {} THEN "quarantine"
  ELSE IF mode = "protect" \/ status = "passed" THEN "accept"
  ELSE IF status # "failed" /\ deadlineHit THEN "reject_timeout"
  ELSE "reject"

=============================================================================
