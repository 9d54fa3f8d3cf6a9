---------------------------- MODULE MCAgentPages ----------------------------
(* Two agents that have summaries, one that has none, and the UR node.     *)
EXTENDS AgentPages

CONSTANTS glasses, bsp, imu

WithSummary == {glasses, bsp}
AllPrimaries == WithSummary \union {imu}
=============================================================================
