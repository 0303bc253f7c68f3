----------------------------- MODULE GateChecks -----------------------------
(* What the two gates must do, over every input of small sets.             *)
EXTENDS UserGate, Naturals, SequencesExt

CONSTANT MaxIndex  \* the last index of a streamed chunk, 0xFFFFFFFF in the code

ASSUME StreamAssumption == MaxIndex \in Nat /\ MaxIndex >= 2

Gate == INSTANCE UserGate WITH
  Trusted <- {"M"}, HashOf <- [x \in {"model"} |-> "h"], AllowTools <- FALSE, NULL <- NULL

Contracts ==
  [nonce : {"n1"}, req : {"asked"}, attempt : {"a1"}, requested : {"model"}, allowed : {{"model", "spare"}},
   fallback : {"none", "declared"},
   transforms : {{"identity"}, {"trim"}, {"identity", "trim"}, {"identity", "opaque"}}]

Recomputed == {[x \in {} |-> "trimmed"], [x \in {"trim"} |-> "trimmed"]}

Receipts ==
  [kid : {"M", "X"}, nonce : {"n1", "n2"}, req : {"asked", "trimmed", "changed"}, resp : {"body", "other"},
   attempt : {"a1", "a2"}, model : {"model", "spare", "foreign", NULL}, hash : {"h", "g"}]

Relays == [upstream : {"model", "spare", "foreign", NULL}, decision : {"forwarded", "fallback"}]

(* What an answer must be before a mode other than observe lets it through *)
(* (the table in docs/desktop-runtime.md): M's pinned key says that it     *)
(* answered this attempt and this nonce with this body, to the user's      *)
(* request or one that follows from it by a change the contract allows.    *)
Genuine(c, expected, m) ==
  /\ m # NULL /\ m.kid = "M"
  /\ m.nonce = c.nonce /\ m.attempt = c.attempt /\ m.resp = "body"
  /\ \/ m.req = c.req /\ "identity" \in c.transforms
     \/ \E t \in c.transforms \cap DOMAIN expected : m.req = expected[t]
  /\ m.model = "model" => m.hash = "h"

RouteDeclared(c, m, r) ==
  \/ m.model \in {c.requested, NULL}
  \/ m.model \in c.allowed /\ c.fallback # "none" /\ r # NULL /\ r.decision = "fallback"

(* The decision of the gate is the one that is due. *)
JudgedAsDue ==
  \A c \in Contracts, expected \in Recomputed, m \in Receipts \cup {NULL}, r \in Relays \cup {NULL} :
    \A late, tool \in BOOLEAN :
      LET checks == Gate!LocalChecks(c, expected, late, tool, "body", m, r)
      IN \A mode \in {"protect", "strict"}, status \in {NULL, "passed", "failed"} :
           Gate!Decide(mode, checks, status, TRUE) = "accept"
             <=> /\ Genuine(c, expected, m) /\ RouteDeclared(c, m, r) /\ ~ late /\ ~ tool
                 /\ mode = "strict" => status = "passed"

-----------------------------------------------------------------------------
Streaming == INSTANCE StreamingGate

Opened(root) == Streaming!Opened(root, <<"req">>, <<"nonce">>)
Signed == <<<<"req", "nonce">>, <<1, "a">>, <<2, "b">>>>
Other == <<<<"req", "nonce">>, <<1, "b">>, <<2, "b">>>>

Feeds == [op : {"feed"}, index : 1 .. 3, chunk : {"a", "b"}, expected : {NULL, SubSeq(Signed, 1, 2), Signed}]
Finals == [op : {"final"}, final : {Signed, Other}]

AsSigned(calls) ==
  /\ Len(calls) >= 3
  /\ \A k \in 1 .. 2 : /\ calls[k] \in Feeds /\ calls[k].index = k /\ calls[k].chunk = Signed[k + 1][2]
                       /\ calls[k].expected \in {NULL, SubSeq(Signed, 1, k + 1)}
  /\ calls[3] \in Finals /\ calls[3].final = Signed

(* Where a stream is accepted that should not be, or the other way round. *)
Misread ==
  {calls \in BoundedSeq(Feeds \cup Finals, 4) :
     ~ (Streaming!Stream(Opened(Signed), calls).state = "finalized" <=> AsSigned(calls))}

=============================================================================
