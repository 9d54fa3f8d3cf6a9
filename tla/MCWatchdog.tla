---------------------------- MODULE MCWatchdog ----------------------------
(* Small instances of Watchdog for TLC. *)
EXTENDS Watchdog

CONSTANTS a1, a2

TwoAgents == {a1, a2}

\* What MainWindow passes to setMonitoredAgents: the active agent alone, or the
\* agents a script requires, which need not contain the active one.
BothAgents == {<<a1, a2>>, <<a2>>}
PairOnly   == {<<a1, a2>>}
==========================================================================
