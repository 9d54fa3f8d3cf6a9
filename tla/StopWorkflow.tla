--------------------------- MODULE StopWorkflow ---------------------------
(***************************************************************************)
(* What stopping a script makes of the workflow it last showed             *)
(* (buildStopWorkflowPayload in scripts_actuator.cpp): the steps of the    *)
(* payload, each with its key and status.  Titles, messages and the        *)
(* finished and success flags of the payload are texts for the user.       *)
(***************************************************************************)
EXTENDS Integers, Sequences, FiniteSets

CONSTANTS Keys  \* keys of workflow steps

\* The key of the step the host adds to an empty workflow: it has a label only.
NoKey == "no key"

Statuses == {"pending", "running", "success", "failed", "stopping", "stopped"}
Steps    == [key : Keys \union {NoKey}, status : Statuses]

With(steps, statuses) == {i \in DOMAIN steps : steps[i].status \in statuses}

First(S) == CHOOSE i \in S : \A j \in S : i <= j
Last(S)  == CHOOSE i \in S : \A j \in S : j <= i

Mark(steps, S, status) ==
    [i \in DOMAIN steps |->
        [key |-> steps[i].key, status |-> IF i \in S THEN status ELSE steps[i].status]]

OrOneStep(steps, status) ==
    IF steps = << >> THEN <<[key |-> NoKey, status |-> status]>> ELSE steps

HasStatus(steps, key, status) ==
    \E i \in DOMAIN steps : steps[i].key = key /\ steps[i].status = status

\* finished = false: every running step, else the first pending one, else the
\* last step is being stopped.
ToStop(steps) ==
    LET running == With(steps, {"running"})
        pending == With(steps, {"pending"})
    IN  CASE running # {} -> running
          [] running = {} /\ pending # {} -> {First(pending)}
          [] OTHER -> {Len(steps)}

Stopping(shown) ==
    LET steps == OrOneStep(shown, "stopping") IN Mark(steps, ToStop(steps), "stopping")

\* finished = true: every step stopping or running, else the last one without
\* success, else the last step has been stopped.
ToEnd(steps) ==
    LET active == With(steps, {"stopping", "running"})
        open   == With(steps, Statuses \ {"success"})
    IN  CASE active # {} -> active
          [] active = {} /\ open # {} -> {Last(open)}
          [] OTHER -> {Len(steps)}

\* Mutant: only the first step that was being stopped is marked.
StoppedFirst(shown) ==
    LET steps == OrOneStep(shown, "stopped") IN Mark(steps, {First(ToEnd(steps))}, "stopped")

Stopped(shown) ==
    LET steps == OrOneStep(shown, "stopped") IN Mark(steps, ToEnd(steps), "stopped")

===========================================================================
