---------------------------- MODULE MCTelemetry ----------------------------
(* TLC instance of TelemetryWriters: the collector and the pulse probe.    *)
EXTENDS TelemetryWriters

CONSTANTS A, B

\* Earlier probes: two at 0, side by side, which both stored the configuration
\* they saw, and one at 1, which saw it change.
MCCycles == [i \in 1..3 |-> [source |-> "pulse_probe", started |-> i \div 3,
                             finished |-> i \div 3, outcome |-> "success"]]
MCAttempts == [i \in 1..6 |-> [cycle |-> (i + 1) \div 2, at |-> i \div 5,
                               route |-> IF i % 2 = 1 THEN "/healthz" ELSE "/config",
                               outcome |-> "success"]]
MCSnapshots == [i \in 1..3 |-> [attempt |-> 2 * i, route |-> "/config",
                                digest |-> IF i = 3 THEN B ELSE A]]
=============================================================================
