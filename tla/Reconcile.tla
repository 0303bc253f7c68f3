----------------------------- MODULE Reconcile -----------------------------
(***************************************************************************)
(* The reconciliation engine (reconcile/): from the statements of one      *)
(* request and U's private evidence to the twelve equations, what they     *)
(* mean and the verdict.  T and the auditor run the same functions.        *)
(* Commitments, nonces and hashes are opaque values; NULL is a statement   *)
(* or a field that is not there.  `signed' says that the signature         *)
(* verifies under the key of the issuer named in it.                       *)
(***************************************************************************)
EXTENDS UserGate, Integers, Sequences

CONSTANTS
  Recomputable,  \* REQUEST_TRANSFORMS: the transformations anybody can redo
  LateThreshold  \* late_threshold_ms

MayIssue == [U |-> {"contract", "observation", "manifest"}, R |-> {"relay"},
             M |-> {"receipt"}, T |-> {"policy", "verdict"}]

Evident == {"contract", "relay", "receipt", "observation", "manifest"}

-----------------------------------------------------------------------------
Usable(s) == s.signed /\ s.type \in MayIssue[s.iss]

LastOf(entries, type) ==
  LET at == {n \in DOMAIN entries : entries[n].stmt.type = type /\ Usable(entries[n].stmt)}
  IN IF at = {} THEN NULL ELSE entries[CHOOSE n \in at : \A k \in at : k <= n].stmt

(* gather: the last usable statement of each type; without a registered   *)
(* receipt, the copy that U says it was shown.                             *)
Gather(entries, private) ==
  LET o == LastOf(entries, "observation")
      registered == LastOf(entries, "receipt")
      shown == IF o # NULL /\ registered = NULL THEN o.presented ELSE NULL
      fallback == IF shown # NULL THEN IF Usable(shown) THEN shown ELSE NULL ELSE NULL
      kept == {n \in DOMAIN entries : Usable(entries[n].stmt) /\ entries[n].stmt.type \in Evident}
  IN [ contract |-> LastOf(entries, "contract"), relay |-> LastOf(entries, "relay"),
       receipt |-> IF registered # NULL THEN registered ELSE fallback,
       observation |-> o, private |-> private, registered |-> registered # NULL,
       refs |-> {entries[n] : n \in kept} \cup (IF fallback = NULL THEN {} ELSE {[stmt |-> fallback, at |-> 0]}),
       unsigned |-> {entries[n].stmt : n \in {k \in DOMAIN entries : ~ entries[k].stmt.signed}},
       unauthorized |-> {entries[n].stmt : n \in {k \in DOMAIN entries :
                           entries[k].stmt.signed /\ ~ Usable(entries[k].stmt)}} ]

-----------------------------------------------------------------------------
Same(a, b) == PassIf(a # NULL /\ b # NULL /\ a = b)

(* Mutant: what the contract allows beside "identity" is not redone. *)
RequestTransformLiteral(c, r, m, p) ==
  IF c = NULL THEN "na"
  ELSE IF m # NULL THEN (IF m.req = NULL THEN "na" ELSE PassIf(m.req = c.req))
  ELSE IF r # NULL THEN PassIf(r.out = c.req) ELSE "na"

(* E4: what M received is what U sent, or a transformation of it that the *)
(* contract allows and somebody can redo.                                  *)
RequestTransform(c, r, m, p) ==
  LET fromM == m # NULL /\ m.req # NULL
      actual == IF fromM THEN m.req ELSE r.out
      approved == {c.req : t \in {"identity"} \cap c.transforms}
                    \cup (IF p = NULL THEN {} ELSE {p.expected[t] : t \in DOMAIN p.expected \cap c.transforms})
  IN IF c = NULL \/ (~ fromM /\ r = NULL) THEN "na"
     ELSE IF r # NULL /\ r.transform \notin c.transforms THEN "fail"
     ELSE IF actual \in approved THEN "pass"
     ELSE IF ~ c.transforms \subseteq Recomputable \/ (p = NULL /\ ~ c.transforms \subseteq {"identity"}) THEN "na"
     ELSE "fail"

Actual(r, m) == IF m # NULL THEN m.model ELSE r.upstream

(* E8: the model that answered is the one asked for, or one the contract  *)
(* allows and R declared.                                                  *)
Route(c, r, m) ==
  IF c = NULL \/ (m = NULL /\ r = NULL) THEN "na"
  ELSE IF Actual(r, m) = c.requested THEN "pass"
  ELSE IF Actual(r, m) \notin c.allowed \/ c.fallback = "none" THEN "fail"
  ELSE IF r = NULL THEN "na"
  ELSE PassIf(r.decision = "fallback")

UndeclaredFallback(c, r, m) == Actual(r, m) \in c.allowed /\ c.fallback # "none"

(* Mutant: the answer is compared with what R says it passed on. *)
EndToEndByRelay(c, r, m, o) ==
  IF r = NULL \/ r.respOut = NULL \/ o = NULL THEN "na" ELSE Same(r.respOut, o.resp)

(* E10: the answer that M signed is the answer that U received. *)
EndToEnd(c, r, m, o) ==
  LET allowed == IF c = NULL THEN {"identity"} ELSE c.respTransforms
  IN IF m = NULL \/ o = NULL THEN "na"
     ELSE IF m.resp = NULL THEN "na"
     ELSE IF r # NULL /\ r.respTransform \notin allowed THEN "fail"
     ELSE IF allowed # {"identity"} THEN "na"
     ELSE PassIf(m.resp = o.resp)

Equations(ev) ==
  LET c == ev.contract  r == ev.relay  m == ev.receipt  o == ev.observation  p == ev.private
      If(have, result) == IF have THEN result ELSE "na"
      named == {s \in {c, r, m, o} : s # NULL}
  IN [ E1 |-> If(c # NULL /\ p # NULL, Same(c.req, p.commit)),
       E2 |-> If(c # NULL /\ r # NULL, Same(r.in, c.req)),
       E3 |-> If(r # NULL /\ m # NULL, If(m.req # NULL, Same(r.out, m.req))),
       E4 |-> RequestTransform(c, r, m, p),
       E5 |-> If(c # NULL /\ (m # NULL \/ r # NULL),
                 PassIf(/\ m # NULL => m.nonce = c.nonce
                        /\ r # NULL => r.nonce = c.nonce)),
       E6 |-> If(r # NULL /\ m # NULL, If(m.resp # NULL /\ r.respIn # NULL, Same(m.resp, r.respIn))),
       E7 |-> If(r # NULL /\ o # NULL, If(r.respOut # NULL, Same(r.respOut, o.resp))),
       E8 |-> Route(c, r, m),
       E9 |-> If(m # NULL, If(m.model \in DOMAIN HashOf, PassIf(m.hash = HashOf[m.model]))),
       E10 |-> EndToEnd(c, r, m, o),
       E11 |-> If(Cardinality(named) >= 2, PassIf(\A s, t \in named : s.attempt = t.attempt)),
       E12 |-> If(c # NULL /\ o # NULL, PassIf(o.at <= c.expires)) ]

-----------------------------------------------------------------------------
(* assess_completeness *)
ExpectedOf == [U |-> {"contract", "observation"}, R |-> {"relay"}, M |-> {"receipt"}]

Completeness(ev, parties) ==
  LET missing == {x \in UNION {ExpectedOf[p] : p \in parties} : ev[x] = NULL}
      RefusedBy(x) == ev[x] # NULL /\ ev[x].decision = "refused"
  IN IF missing = {} THEN "complete"
     ELSE IF \/ RefusedBy("relay") /\ missing \subseteq {"receipt", "observation"}
             \/ RefusedBy("receipt") /\ missing \subseteq {"observation"} THEN "not_observable"
     ELSE "gap"

(* What a failed equation is called, how grave it is and on whom it falls; *)
(* with two names it stays open on which of them.                          *)
Failure == [
  E1 |-> [code |-> "D-USER-SELF", severity |-> "contradiction", accused |-> {"U"}],
  E2 |-> [code |-> "D-REQ-CONTRADICT", severity |-> "contradiction", accused |-> {"U", "R"}],
  E3 |-> [code |-> "D-REQ-CONTRADICT", severity |-> "contradiction", accused |-> {"R", "M"}],
  E4 |-> [code |-> "D-REQ-UNAPPROVED", severity |-> "violation", accused |-> {"R"}],
  E5 |-> [code |-> "D-NONCE", severity |-> "violation", accused |-> {"R"}],
  E6 |-> [code |-> "D-RESP-CONTRADICT", severity |-> "contradiction", accused |-> {"R", "M"}],
  E7 |-> [code |-> "D-RESP-CONTRADICT", severity |-> "contradiction", accused |-> {"R", "U"}],
  E9 |-> [code |-> "D-MODEL-ART", severity |-> "violation", accused |-> {"M", "R"}],
  E10 |-> [code |-> "D-RESP-UNAPPROVED", severity |-> "violation", accused |-> {"R"}],
  E11 |-> [code |-> "D-ATTEMPT-MISMATCH", severity |-> "violation", accused |-> {"R"}],
  E12 |-> [code |-> "D-EXPIRED", severity |-> "violation", accused |-> {"R", "policy"}] ]

Classify(eqs, ev) ==
  {Failure[e] : e \in {x \in DOMAIN Failure : eqs[x] = "fail"}}
    \cup {[code |-> IF UndeclaredFallback(ev.contract, ev.relay, ev.receipt)
                    THEN "D-ROUTE-UNDECLARED" ELSE "D-ROUTE-UNAPPROVED",
           severity |-> "violation", accused |-> {"R"}] : e \in {x \in {"E8"} : eqs[x] = "fail"}}

Late(ev) == ev.contract # NULL /\ \E ref \in ev.refs : ref.at - ev.contract.time > LateThreshold

Noted(condition, code, severity, accused) ==
  IF condition THEN {[code |-> code, severity |-> severity, accused |-> accused]} ELSE {}

Discrepancies(ev, eqs, completeness) ==
  LET o == ev.observation
      differs == IF o # NULL /\ ev.registered THEN o.presented # NULL /\ o.presented # ev.receipt ELSE FALSE
  IN Classify(eqs, ev)
       \cup Noted(ev.unsigned # {}, "D-SIG-INVALID", "contradiction", {})
       \cup Noted(ev.unauthorized # {}, "D-ISSUER-UNAUTHORIZED", "violation", {})
       \cup Noted(differs, "D-RECEIPT-PRESENTED-DIFFERS", "contradiction", {"R"})
       \cup Noted(completeness = "gap", "D-GAP", "observation", {})
       \cup Noted(Late(ev), "D-LATE", "observation", {})

RequiredForPass == {"E1", "E4", "E5", "E8", "E9", "E10", "E11", "E12"}

(* Mutant: what cannot be evaluated does not stand in the way of a pass. *)
StatusLenient(eqs, found) ==
  IF \E d \in found : d.severity \in {"violation", "contradiction"} THEN "failed" ELSE "passed"

(* Mutant: a statement that is late or missing fails the request. *)
StatusImpatient(eqs, found) ==
  IF found # {} THEN "failed" ELSE IF \A e \in RequiredForPass : eqs[e] = "pass" THEN "passed"
  ELSE "insufficient_evidence"

Status(eqs, found) ==
  IF \/ \E d \in found : d.severity \in {"violation", "contradiction"}
     \/ \E e \in DOMAIN eqs : eqs[e] = "fail" THEN "failed"
  ELSE IF \A e \in RequiredForPass : eqs[e] = "pass" THEN "passed"
  ELSE "insufficient_evidence"

(* reconcile: the verdict of an honest checker. *)
Verdict(ev, parties) ==
  LET eqs == Equations(ev)
      completeness == Completeness(ev, parties)
      found == Discrepancies(ev, eqs, completeness)
  IN [ status |-> Status(eqs, found), completeness |-> completeness, equations |-> eqs,
       discrepancies |-> found, evidence |-> {ref.stmt : ref \in ev.refs} ]

=============================================================================
