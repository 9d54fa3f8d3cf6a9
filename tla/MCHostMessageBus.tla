-------------------------- MODULE MCHostMessageBus --------------------------
(* A small instance of HostMessageBus for TLC. *)
EXTENDS HostMessageBus, TLC

CONSTANTS ui, actuator, p1, p2, state, other, key

TwoTargets    == {ui, actuator}
TwoPublishers == {p1, p2}
TwoKinds      == {state, other}
\* One pattern that matches a single type, one that matches every type.
TwoPatterns   == {{state}, {state, other}}
OneKey        == {key}
=============================================================================
