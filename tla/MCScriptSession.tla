------------------------- MODULE MCScriptSession -------------------------
(* Small instances of ScriptSession for TLC. *)
EXTENDS ScriptSession

CONSTANTS plain, arm, glasses, urNode, local

OneScript  == {plain}
TwoScripts == {plain, arm}
ArmScripts == {arm}
OneAgent   == {glasses}
OneArm     == {urNode}
OneLocal   == {local}
TwoKeys    == {"nodes_check", "work"}

\* What a script announces: with an agent of local scripts, or the arm.
Announced  == {{glasses, local}, {urNode}}

At(check, work) == <<[key |-> "nodes_check", status |-> check],
                     [key |-> "work", status |-> work]>>

\* Two steps at once, and a step that failed after the check.
Reports       == {At("running", "running"), At("success", "failed")}
==========================================================================
