-------------------------- MODULE ScriptsActuator --------------------------
(***************************************************************************)
(* ScriptsActuator (scripts_actuator.cpp): runs one script process at a    *)
(* time, turns the lines it writes into messages, passes answers back to   *)
(* it, and stops it: emergency stop of the arms it uses, SIGTERM, and      *)
(* SIGKILL from a timer 25 s later.  It lives on the Qt main thread; what  *)
(* interleaves is the process itself, its pipe, the signals of QProcess,   *)
(* the timers, and the queues to and from the rest of the host.            *)
(*                                                                         *)
(* A script is started by its number: the model's run 1, 2, ... is the     *)
(* script_id.  Logs, SCRIPT_OUTPUT, the clearing of the workflow shown and *)
(* the environment of the process are left out: nothing depends on them.   *)
(* Lines are events already parsed.                                        *)
(***************************************************************************)
EXTENDS StopWorkflow

CONSTANTS Scripts, NoScript,   \* script paths, and the empty one
          UrScripts,           \* those whose path or text names the UR arm
          UrAgents,            \* agents isUrAgentName holds of
          UrNode,              \* the agent "UR_node"
          RequiredSets,        \* agents a script may announce (sets)
          Workflows,           \* workflows a script may report
          AskKinds,            \* what scripts ask: answered later ("cmd", "dialog")
                               \* or on the spot ("now")
          MaxLines,            \* bound: lines scripts write
          MaxPosts             \* bound: RUN_SCRIPT and STOP_SCRIPT messages

ASSUME ActuatorAssumption ==
    /\ NoScript \notin Scripts /\ UrScripts \subseteq Scripts
    /\ UrNode \in UrAgents
    /\ Workflows \subseteq Seq(Steps)
    /\ AskKinds \subseteq {"cmd", "dialog", "now"}
    /\ MaxLines \in Nat /\ MaxPosts \in Nat

VARIABLES
    inbox,          \* the SCRIPTS_ACTUATOR queue
    toUi,           \* the UI queue (the messages of the actuator and others)
    run,            \* current_script_id_
    pid,            \* current_script_pid_: the run whose start was signalled, or 0
    script,         \* current_script_path_
    required,       \* current_script_required_agents_
    workflow,       \* the steps of last_workflow_payload_
    stopRequested,  \* stop_requested_
    proc,           \* script_process_->state()
    alive,          \* the process exists: it has neither exited nor been killed
    pipe,           \* lines written and not yet read
    written,        \* the process has written something: it was executed
    lines,          \* number of lines written by all scripts
    killTimers,     \* the single-shot timers of stopScriptProcess
    atManager,      \* runs whose command AgentManager has still to answer
    closed,         \* the actuator has been destroyed
    asked,          \* history: requests of scripts read and not answered
    announced,      \* history: which run announced which agents
    checked,        \* history: runs that reported their nodes checked
    stops,          \* history: runs a stop was taken up for
    estops,         \* history: which run's stop requested which ESTOP
    posts           \* how much of the bound is used

process == <<proc, alive, pipe, written, lines>>
current == <<run, pid, script, required, workflow, stopRequested>>
history == <<asked, announced, checked, stops, estops>>
actuatorVars == <<inbox, toUi, current, process, killTimers, atManager, closed,
                  history, posts>>

-----------------------------------------------------------------------------
Runs  == Nat
Lines == [kind : {"required"}, agents : RequiredSets]
         \union [kind : {"workflow"}, steps : Workflows]
         \union [kind : AskKinds]
ToActuator == [type : {"run"}, script : Scripts \union {NoScript}]
              \union [type : {"stop"}] \union [type : {"reply"}, to : Runs \X {"cmd", "dialog"}]
FromActuator == [type : {"started", "dialog"}, run : Runs]
                \union [type : {"finished"}, run : Runs, stop : BOOLEAN]
                \union [type : {"required"}, run : Runs, agents : RequiredSets]
                \union [type : {"workflow"}, run : Runs, steps : Seq(Steps)]

Init ==
    /\ inbox = << >> /\ toUi = << >>
    /\ run = 0 /\ pid = 0 /\ script = NoScript /\ required = {} /\ workflow = << >>
    /\ stopRequested = FALSE
    /\ proc = "NotRunning" /\ alive = FALSE /\ pipe = << >> /\ written = FALSE /\ lines = 0
    /\ killTimers = 0 /\ atManager = {} /\ closed = FALSE
    /\ asked = {} /\ announced = {} /\ checked = {} /\ stops = {} /\ estops = {}
    /\ posts = 0

-----------------------------------------------------------------------------
(* The process.                                                             *)

Writes == /\ alive /\ ~closed
          /\ lines < MaxLines /\ lines' = lines + 1
          /\ written' = TRUE
          /\ \E line \in Lines : pipe' = Append(pipe, line)
          /\ UNCHANGED <<inbox, toUi, current, proc, alive, killTimers, atManager,
                         closed, history, posts>>

\* By itself, or as its answer to SIGTERM, which it may also ignore.
Exits == /\ alive /\ ~closed
         /\ alive' = FALSE
         /\ UNCHANGED <<inbox, toUi, current, proc, pipe, written, lines, killTimers,
                        atManager, closed, history, posts>>

-----------------------------------------------------------------------------
(* The queue to the actuator: pollBus.                                      *)

Take(type) == /\ ~closed
              /\ inbox # << >> /\ Head(inbox).type = type
              /\ inbox' = Tail(inbox)

\* Mutant: no check whether a script is running.
CanAlwaysStart(path) == path # NoScript

CanStart(path) == proc = "NotRunning" /\ path # NoScript

RefuseRun ==
    /\ Take("run")
    /\ ~CanStart(Head(inbox).script)
    /\ UNCHANGED <<toUi, current, process, killTimers, atManager, closed, history, posts>>

\* Mutants: a member keeps what the previous script left in it.
ResetKeepsStop ==
    pid' = 0 /\ required' = {} /\ workflow' = << >> /\ UNCHANGED stopRequested
ResetKeepsRequired ==
    pid' = 0 /\ workflow' = << >> /\ stopRequested' = FALSE /\ UNCHANGED required
ResetForRun ==
    pid' = 0 /\ required' = {} /\ workflow' = << >> /\ stopRequested' = FALSE

doRunScript ==
    /\ Take("run")
    /\ CanStart(Head(inbox).script)
    /\ run' = run + 1 /\ script' = Head(inbox).script
    /\ ResetForRun
    /\ proc' = "Starting" /\ alive' = TRUE /\ pipe' = << >> /\ written' = FALSE
    /\ UNCHANGED <<toUi, lines, killTimers, atManager, closed, history, posts>>

\* Mutant: the default arm only if nothing at all was announced.
EstopIfNothingRequired ==
    IF required = {} /\ script \in UrScripts THEN {UrNode} ELSE required \cap UrAgents

\* The arms the script announced, else the default arm if the script names it.
EstopTargets ==
    LET named == required \cap UrAgents
    IN  IF named = {} /\ script \in UrScripts THEN {UrNode} ELSE named

\* Stops the running script: its workflow, the ESTOPs, SIGTERM (which only
\* allows the process to exit, as it always may).
Terminate ==
    /\ stopRequested' = TRUE
    /\ workflow' = Stopping(workflow)
    /\ toUi' = Append(toUi, [type |-> "workflow", run |-> run, steps |-> workflow'])
    /\ stops' = stops \union {run}
    /\ estops' = estops \union ({run} \X EstopTargets)

\* stopScriptProcess with nothing to stop.
IdleStop ==
    /\ Take("stop")
    /\ proc = "NotRunning"
    /\ stopRequested' = TRUE
    /\ UNCHANGED <<toUi, run, pid, script, required, workflow, process, killTimers,
                   atManager, closed, history, posts>>

\* Mutant: SIGTERM only.
NoKillTimer == UNCHANGED killTimers

ArmKillTimer == killTimers' = killTimers + 1

doStopScript ==
    /\ Take("stop")
    /\ proc # "NotRunning"
    /\ Terminate
    /\ ArmKillTimer
    /\ UNCHANGED <<run, pid, script, required, process, atManager, closed, asked,
                   announced, checked, posts>>

\* A timer knows no script: it kills the one that runs when it fires.
KillFires ==
    /\ ~closed /\ killTimers > 0
    /\ killTimers' = killTimers - 1
    /\ alive' = FALSE
    /\ UNCHANGED <<inbox, toUi, current, proc, pipe, written, lines, atManager, closed,
                   history, posts>>

\* handleDialogResponse, handleCommandResult: written to the script that runs
\* now, dropped if none does.
sendRuntimeResponse ==
    /\ Take("reply")
    /\ asked' = asked \ {Head(inbox).to}
    /\ UNCHANGED <<toUi, current, process, killTimers, atManager, closed, announced,
                   checked, stops, estops, posts>>

-----------------------------------------------------------------------------
(* The signals of the process.                                              *)

Started ==
    /\ proc = "Starting"
    /\ proc' = "Running" /\ pid' = run
    /\ toUi' = Append(toUi, [type |-> "started", run |-> run])
    /\ UNCHANGED <<inbox, run, script, required, workflow, stopRequested, alive, pipe,
                   written, lines, killTimers, atManager, closed, history, posts>>

\* The interpreter cannot be executed: QProcess reports an error, which nothing
\* is connected to, and no started or finished.
StartFails ==
    /\ proc = "Starting" /\ ~written
    /\ proc' = "NotRunning" /\ alive' = FALSE
    /\ UNCHANGED <<inbox, toUi, current, pipe, written, lines, killTimers, atManager, closed,
                   history, posts>>

ReadLine(kind) ==
    /\ proc # "NotRunning"
    /\ pipe # << >> /\ Head(pipe).kind = kind
    /\ pipe' = Tail(pipe)
    /\ UNCHANGED <<inbox, run, pid, script, stopRequested, proc, alive, written, lines,
                   killTimers, closed, stops, estops, posts>>

handleRequiredAgentsEvent ==
    /\ ReadLine("required")
    /\ required' = Head(pipe).agents
    /\ announced' = announced \union ({run} \X Head(pipe).agents)
    /\ toUi' = Append(toUi, [type |-> "required", run |-> run, agents |-> Head(pipe).agents])
    /\ UNCHANGED <<workflow, atManager, asked, checked>>

handleWorkflowEvent ==
    /\ ReadLine("workflow")
    /\ workflow' = Head(pipe).steps
    /\ toUi' = Append(toUi, [type |-> "workflow", run |-> run, steps |-> Head(pipe).steps])
    /\ checked' = IF HasStatus(Head(pipe).steps, "nodes_check", "success")
                  THEN checked \union {run} ELSE checked
    /\ UNCHANGED <<required, atManager, asked, announced>>

handleCommandRequestEvent ==
    /\ ReadLine("cmd")
    /\ atManager' = atManager \union {run}
    /\ asked' = asked \union {<<run, "cmd">>}
    /\ UNCHANGED <<toUi, required, workflow, announced, checked>>

handleDialogEvent ==
    /\ ReadLine("dialog")
    /\ toUi' = Append(toUi, [type |-> "dialog", run |-> run])
    /\ asked' = asked \union {<<run, "dialog">>}
    /\ UNCHANGED <<required, workflow, atManager, announced, checked>>

\* Host state, Watchdog state, ensure device and create directory: answered on
\* the spot, from caches that WATCHDOG_STATE and NODE_COOKIES messages fill.
handleImmediateEvent ==
    /\ ReadLine("now")
    /\ UNCHANGED <<toUi, required, workflow, atManager, asked, announced, checked>>

\* All output is read before QProcess emits finished.
Finished ==
    /\ proc = "Running" /\ ~alive /\ pipe = << >>
    /\ proc' = "NotRunning"
    /\ workflow' = IF stopRequested THEN Stopped(workflow) ELSE workflow
    /\ toUi' = toUi
               \o (IF stopRequested
                   THEN <<[type |-> "workflow", run |-> run, steps |-> workflow']>>
                   ELSE << >>)
               \o <<[type |-> "finished", run |-> run, stop |-> stopRequested]>>
    /\ UNCHANGED <<inbox, run, pid, script, required, stopRequested, alive, pipe,
                   written, lines, killTimers, atManager, closed, history, posts>>

-----------------------------------------------------------------------------
(* The destructor: the same stop, but it waits, 3 s, then kills.            *)

Destroy ==
    /\ ~closed
    /\ closed' = TRUE
    /\ IF proc = "NotRunning"
       THEN stopRequested' = TRUE /\ UNCHANGED <<workflow, toUi, stops, estops>>
       ELSE Terminate
    /\ UNCHANGED <<inbox, run, pid, script, required, process, killTimers, atManager,
                   asked, announced, checked, posts>>

KillAtClose ==
    /\ closed /\ alive
    /\ alive' = FALSE
    /\ UNCHANGED <<inbox, toUi, current, proc, pipe, written, lines, killTimers, atManager,
                   closed, history, posts>>

-----------------------------------------------------------------------------
(* The rest of the host, as the actuator sees it.                           *)

\* MainWindow and Watchdog publish RUN_SCRIPT and STOP_SCRIPT at any time.
Post(m) ==
    /\ posts < MaxPosts
    /\ posts' = posts + 1
    /\ inbox' = Append(inbox, m)
    /\ UNCHANGED <<toUi, current, process, killTimers, atManager, closed, history>>

AgentManagerAnswers ==
    \E r \in atManager :
        /\ atManager' = atManager \ {r}
        /\ inbox' = Append(inbox, [type |-> "reply", to |-> <<r, "cmd">>])
        /\ UNCHANGED <<toUi, current, process, killTimers, closed, history, posts>>

\* The destructor blocks the main thread, and with it the UI.
UiReady == toUi # << >> /\ (closed => proc = "NotRunning")

UiHandles ==
    /\ UiReady /\ Head(toUi).type # "dialog"
    /\ toUi' = Tail(toUi)
    /\ UNCHANGED <<inbox, current, process, killTimers, atManager, closed, history, posts>>

\* Mutant: a cancelled dialog publishes no response.
UiMayCancel ==
    /\ UiReady /\ Head(toUi).type = "dialog"
    /\ toUi' = Tail(toUi)
    /\ UNCHANGED <<inbox, current, process, killTimers, atManager, closed, history, posts>>

\* The handler of a dialog ends when the user closes it.
UiAnswers ==
    /\ UiReady /\ Head(toUi).type = "dialog"
    /\ toUi' = Tail(toUi)
    /\ inbox' = Append(inbox, [type |-> "reply", to |-> <<Head(toUi).run, "dialog">>])
    /\ UNCHANGED <<current, process, killTimers, atManager, closed, history, posts>>

-----------------------------------------------------------------------------
PollBus  == RefuseRun \/ doRunScript \/ IdleStop \/ doStopScript \/ sendRuntimeResponse
Reads    == handleRequiredAgentsEvent \/ handleWorkflowEvent \/ handleCommandRequestEvent
            \/ handleDialogEvent \/ handleImmediateEvent
Signals  == Started \/ StartFails \/ Reads \/ Finished
Actuator == PollBus \/ Signals \/ KillFires \/ Destroy \/ KillAtClose

Host == \/ \E s \in Scripts \union {NoScript} : Post([type |-> "run", script |-> s])
        \/ Post([type |-> "stop"])
        \/ AgentManagerAnswers
        \/ UiHandles \/ UiAnswers

Next == Actuator \/ Writes \/ Exits \/ Host

Spec == Init /\ [][Next]_actuatorVars

-----------------------------------------------------------------------------
(* Properties.                                                              *)

\* Every variable keeps its range; the pipe holds only lines of this script.
OwnTypes ==
    /\ inbox \in Seq(ToActuator)
    /\ run \in Runs /\ pid \in {0, run} /\ script \in Scripts \union {NoScript}
    /\ required \in RequiredSets \union {{}} /\ workflow \in Seq(Steps)
    /\ stopRequested \in BOOLEAN
    /\ proc \in {"NotRunning", "Starting", "Running"} /\ alive \in BOOLEAN
    /\ pipe \in Seq(Lines) /\ written \in BOOLEAN /\ lines \in Nat /\ Len(pipe) <= lines
    /\ killTimers \in Nat /\ atManager \subseteq Runs /\ closed \in BOOLEAN
    /\ asked \subseteq Runs \X {"cmd", "dialog"} /\ announced \subseteq Runs \X UNION RequiredSets
    /\ checked \subseteq Runs /\ stops \subseteq Runs
    /\ estops \subseteq Runs \X UrAgents /\ posts \in Nat

TypeOK == OwnTypes /\ toUi \in Seq(FromActuator)

IsLifecycle(m) == m.type \in {"started", "finished"}

\* The next lifecycle event after i in the queue is j.
Follows(i, j) ==
    /\ i < j /\ IsLifecycle(toUi[i]) /\ IsLifecycle(toUi[j])
    /\ \A k \in (i + 1)..(j - 1) : ~IsLifecycle(toUi[k])

LastEvent(i) == /\ IsLifecycle(toUi[i])
                /\ \A k \in (i + 1)..Len(toUi) : ~IsLifecycle(toUi[k])

\* The UI is told of each started script that it finished, and of nothing else
\* in between: SCRIPT_STARTED and SCRIPT_FINISHED of one script_id alternate,
\* and the last of them says what the process is (scripts_actuator.cpp:363-398).
LifecyclePaired ==
    /\ \A i, j \in DOMAIN toUi :
          Follows(i, j) =>
             IF toUi[i].type = "started"
             THEN toUi[j].type = "finished" /\ toUi[j].run = toUi[i].run
             ELSE toUi[j].type = "started" /\ toUi[j].run > toUi[i].run
    /\ \A i \in DOMAIN toUi :
          LastEvent(i) => (toUi[i].type = "started" <=> proc = "Running")

\* SCRIPT_FINISHED says that a stop was requested exactly when a stop was taken
\* up while that very script ran: an idle stop, or one meant for the script
\* before, is forgotten when the next script starts (scripts_actuator.cpp:314).
StopFlagHonest ==
    \A i \in DOMAIN toUi :
        toUi[i].type = "finished" => (toUi[i].stop <=> toUi[i].run \in stops)

\* The last workflow shown before a stopped script finishes has a stopped step
\* and none that still runs or is being stopped (buildStopWorkflowPayload).
EndsShownStopped ==
    \A i \in DOMAIN toUi :
        (toUi[i].type = "finished" /\ toUi[i].stop /\ i > 1) =>
            /\ toUi[i - 1].type = "workflow"
            /\ With(toUi[i - 1].steps, {"running", "stopping"}) = {}
            /\ With(toUi[i - 1].steps, {"stopped"}) # {}

\* A stop halts no arm that its script has nothing to do with: an ESTOP goes to
\* an agent this script announced, or to the default arm if the script names it,
\* whatever earlier scripts announced (scripts_actuator.cpp:321, 745-776).
EstopOnlyOwn ==
    \A a \in UrAgents : <<run, a>> \in estops =>
        <<run, a>> \in announced \/ (a = UrNode /\ script \in UrScripts)

\* Stopping a script that names the arm always requests an emergency stop of
\* some arm, whatever the script announced and whatever of it has been read.
StopReachesArm ==
    (run \in stops /\ script \in UrScripts) => \E a \in UrAgents : <<run, a>> \in estops

\* A script that is told to stop ends, also when it ignores SIGTERM.
StopEndsScript ==
    (proc # "NotRunning" /\ run \in stops) ~> (proc = "NotRunning")
===========================================================================
