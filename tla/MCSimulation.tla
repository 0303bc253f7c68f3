---------------------------- MODULE MCSimulation ----------------------------
(* The scenarios S01 to S18 and what is a few switches away from one, and  *)
(* the checks of the two gates: facts about constants, so that the first   *)
(* state of a run is where they are read off.                              *)
EXTENDS SimulationScenarios, GateChecks

CONSTANTS
  Near,    \* how many switches may differ from a named scenario; with 2, the mixed ones too
  Delays,     \* what ts_extra_delay_ms may be changed to
  Transforms  \* what allowed_request_transforms may be changed to

(* One switch set otherwise; the modes and cooperation sets of the runner. *)
Changes ==
  {"modify"} \X {NULL, "inject_system", "public-formatter"}
    \cup {"declared"} \X {"identity", "public-formatter-v1", "private"}
    \cup {"route"} \X {NULL, "model-A-small", "model-B"}
    \cup {"tamper", "honest", "declareFallback", "dropNonce", "dropSalt", "drop", "declareRefused", "replay",
          "omit", "strip", "collude", "injected", "issueReceipts", "preExec", "down", "recover", "misjudge",
          "rewriteLog", "omitLog", "modelColludes"} \X BOOLEAN
    \cup {"mode"} \X {"observe", "protect", "strict"}
    \cup {"delay"} \X Delays
    \cup {"attempts"} \X {1, 2}
    \cup {"capacity"} \X {2, 4, 100}
    \cup {"fallback"} \X {"none", "declared_only"}
    \cup {"allowed"} \X {{"model-A"}, {"model-A", "model-A-small"}}
    \cup {"transforms"} \X Transforms
    \cup {"cooperation"} \X {{"U"}, {"U", "M"}, {"U", "R"}, {"U", "R", "M"}}

Vary(x, change) ==
  IF change[1] \in DOMAIN HonestRelay THEN [x EXCEPT !.relay[change[1]] = change[2]]
  ELSE [x EXCEPT ![change[1]] = change[2]]

OneAway == {Vary(x, change) : x \in Named, change \in Changes}

(* Many switches of R at once, with the contracts that matter to them. *)
MixedRelay ==
  [ modify : {NULL, "inject_system", "public-formatter"}, declared : {"identity", "public-formatter-v1"},
    tamper : BOOLEAN, honest : BOOLEAN, route : {NULL, "model-A-small"}, declareFallback : BOOLEAN,
    dropNonce : {FALSE}, dropSalt : BOOLEAN, drop : {FALSE}, declareRefused : {TRUE}, replay : BOOLEAN,
    omit : {FALSE}, strip : BOOLEAN, collude : {FALSE} ]

Mixed ==
  { [Baseline EXCEPT !.relay = b, !.attempts = 2, !.transforms = t, !.allowed = {"model-A", "model-A-small"},
                     !.fallback = f, !.issueReceipts = issue] :
      b \in MixedRelay, t \in Transforms, f \in {"none", "declared_only"}, issue \in BOOLEAN }

(* Two switches from a named scenario, and the mixed ones as they are: a   *)
(* single set of pairs, which TLC makes into one set of scenarios.         *)
Wider == (OneAway \X Changes) \cup (Mixed \X {<<"attempts", 2>>})

Chosen == IF Near = 1 THEN OneAway ELSE {Vary(pair[1], pair[2]) : pair \in Wider}

Hashes == [x \in {"model-A", "model-A-small", "model-B"} |-> x]

(* The gate lets through exactly the answers it should, in both modes, for *)
(* every verdict and whatever else is wrong; so a relay that keeps a       *)
(* statement back gains nothing by it (user_gate.py:91-228,                *)
(* agent.py:260-263).  And a stream is accepted exactly if the chunks that *)
(* M signed were fed once each and in order before it was closed with the  *)
(* signed digest, and no call before that was refused, whatever the order  *)
(* of the calls (streaming_gate.py:69-109).                                *)
GatesExact == pc = "user" => JudgedAsDue /\ Misread = {}

=============================================================================
