------------------------ MODULE SimulationScenarios ------------------------
(* The scenarios S01 to S18 of sim/scenarios.py, in that order.            *)
EXTENDS Simulation

HonestRelay ==
  [ modify |-> NULL, declared |-> "identity", tamper |-> FALSE, honest |-> TRUE, route |-> NULL,
    declareFallback |-> FALSE, dropNonce |-> FALSE, dropSalt |-> FALSE, drop |-> FALSE, declareRefused |-> TRUE,
    replay |-> FALSE, omit |-> FALSE, strip |-> FALSE, collude |-> FALSE ]

Baseline ==
  [ relay |-> HonestRelay, second |-> NULL, attempts |-> 1, injected |-> FALSE, allowed |-> {"model-A"},
    fallback |-> "none", transforms |-> {"identity"}, issueReceipts |-> TRUE, preExec |-> FALSE, down |-> FALSE,
    recover |-> TRUE, delay |-> 0, misjudge |-> FALSE, rewriteLog |-> FALSE, omitLog |-> FALSE, capacity |-> 100,
    modelColludes |-> FALSE, expected |-> {"U", "R", "M"}, cooperation |-> {"U", "R", "M"}, mode |-> "protect" ]

Relay(changes) == [Baseline EXCEPT !.relay = changes @@ HonestRelay]
Small == "route" :> "model-A-small"
Declared == "declareFallback" :> TRUE
Inject == "modify" :> "inject_system"
Tamper == "tamper" :> TRUE
Fallback == [allowed |-> {"model-A", "model-A-small"}, fallback |-> "declared_only"]

Named ==
  { Baseline, Relay(Inject), Relay(Tamper), Fallback @@ Relay(Small @@ Declared), Relay(Small @@ Declared),
    Fallback @@ Relay(Small), [Relay("drop" :> TRUE) EXCEPT !.second = HonestRelay, !.attempts = 2],
    [Baseline EXCEPT !.second = ("replay" :> TRUE) @@ HonestRelay, !.attempts = 2],
    Relay("omit" :> TRUE), [Baseline EXCEPT !.down = TRUE], [Baseline EXCEPT !.delay = 900],
    [Baseline EXCEPT !.down = TRUE, !.capacity = 2, !.attempts = 4],
    [Relay(Tamper) EXCEPT !.misjudge = TRUE], [Baseline EXCEPT !.rewriteLog = TRUE],
    [Relay(Tamper @@ "collude" :> TRUE) EXCEPT !.modelColludes = TRUE], [Baseline EXCEPT !.injected = TRUE],
    [Relay(Inject) EXCEPT !.preExec = TRUE], [Baseline EXCEPT !.omitLog = TRUE] }

=============================================================================
