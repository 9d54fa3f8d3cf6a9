--------------------------- MODULE MCDataRegistry ---------------------------
(* A topic that two nodes publish and one of a single node, for TLC; the agent
   has a stream of either among its static topics, one that a node registers too. *)
EXTENDS DataRegistry, TLC

CONSTANTS imu1, imu2, state, imu, cookieTopic, json, cookie

ThreeKeys == {imu1, imu2, state}
TwoTopics == {imu, cookieTopic}
TheNames  == imu1 :> imu @@ imu2 :> imu @@ state :> cookieTopic
TwoKeys   == {imu1, state}
Configured == <<[key |-> imu2, settings |-> json], [key |-> state, settings |-> json]>>
=============================================================================
