--------------------------- MODULE ScriptSession ---------------------------
(***************************************************************************)
(* A script as the user sees it: ScriptsActuator composed with the part of *)
(* MainWindow that chooses the agent, starts and stops scripts, shows      *)
(* their dialogs and tells the Watchdog which agents to monitor            *)
(* (main_window.cpp), and with the Watchdog as a client that may stop the  *)
(* script when a monitored agent fails.                                    *)
(*                                                                         *)
(* MainWindow handles its queue from a timer.  Qt does not activate a      *)
(* timer again while its slot runs, so that the queue waits while a dialog *)
(* opened by a message is on the screen, and the user cannot reach the     *)
(* window behind it; everything else on the main thread goes on.           *)
(***************************************************************************)
EXTENDS ScriptsActuator

CONSTANTS Agents,         \* the primary agents, which the user may choose
          NoAgent,
          LocalAgents,    \* agents of process type local_scripts: not monitored
          MaxChoices,     \* bound: agents chosen
          MaxNotices      \* bound: notifications of the Watchdog

ASSUME SessionAssumption ==
    /\ NoAgent \notin Agents
    /\ MaxChoices \in Nat /\ MaxNotices \in Nat

VARIABLES
    active,         \* active_agent_
    page,           \* the page on the screen
    scriptRunning,  \* script_running_
    userStop,       \* stop_script_requested_by_user_
    pending,        \* pending_script_agents_
    monStarted,     \* script_monitoring_started_
    modal,          \* the dialog of the message being handled is open
    wd,             \* what the Watchdog was last told to do
    activating,     \* ACTIVATE_AGENT messages at AgentManager
    choices, notices

ui        == <<active, page, scriptRunning, userStop, pending, monStarted, modal>>
world     == <<wd, activating, choices, notices>>
sessionVars == <<actuatorVars, ui, world>>

Monitor(agents, isScript) == [agents |-> agents, script |-> isScript, stopSent |-> FALSE]
ActiveOnly(agent) == Monitor(IF agent = NoAgent THEN {} ELSE {agent}, FALSE)

SessionInit ==
    /\ Init
    /\ active = NoAgent /\ page = "entry" /\ scriptRunning = FALSE /\ userStop = FALSE
    /\ pending = {} /\ monStarted = FALSE /\ modal = FALSE
    /\ wd = ActiveOnly(NoAgent) /\ activating = << >> /\ choices = 0 /\ notices = 0

\* The Watchdog is destroyed before the actuator.
TellWatchdog(config) == wd' = IF closed THEN wd ELSE config

-----------------------------------------------------------------------------
(* The user.                                                                *)

activateAgent(agent) ==
    /\ page = "entry" /\ ~modal /\ ~closed
    /\ choices < MaxChoices /\ choices' = choices + 1
    /\ active' = agent /\ page' = "workspace"
    /\ TellWatchdog(ActiveOnly(agent))
    /\ activating' = Append(activating, agent)
    /\ UNCHANGED <<actuatorVars, scriptRunning, userStop, pending, monStarted, modal, notices>>

OnScriptPage == page = "workspace" /\ ~modal /\ ~closed

runScript(path) ==
    /\ OnScriptPage
    /\ Post([type |-> "run", script |-> path])
    /\ userStop' = FALSE
    /\ UNCHANGED <<active, page, scriptRunning, pending, monStarted, modal, world>>

stopScript ==
    /\ OnScriptPage
    /\ Post([type |-> "stop"])
    /\ userStop' = TRUE
    /\ UNCHANGED <<active, page, scriptRunning, pending, monStarted, modal, world>>

\* A script that runs is stopped first, once; the page stays.
handleBackRequested ==
    /\ OnScriptPage
    /\ \/ /\ scriptRunning /\ ~userStop
          /\ Post([type |-> "stop"])
          /\ userStop' = TRUE
          /\ UNCHANGED page
       \/ /\ ~scriptRunning
          /\ page' = "entry"
          /\ UNCHANGED <<actuatorVars, userStop>>
    /\ UNCHANGED <<active, scriptRunning, pending, monStarted, modal, world>>

shutdown == /\ ~modal
            /\ Destroy
            /\ wd' = ActiveOnly(NoAgent)
            /\ UNCHANGED <<ui, activating, choices, notices>>

-----------------------------------------------------------------------------
(* handleUIMessage.                                                         *)

Handle(type) == ~modal /\ UiHandles /\ Head(toUi).type = type

HandleStarted ==
    /\ Handle("started")
    /\ scriptRunning' = TRUE
    /\ UNCHANGED <<active, page, userStop, pending, monStarted, modal, world>>

\* Mutants: the script's agents stay pending; the Watchdog is told only when a
\* stop was requested.
ForgetsFlagOnly == monStarted' = FALSE /\ UNCHANGED pending
TellsAfterStop(m) == IF m.stop THEN TellWatchdog(ActiveOnly(active)) ELSE UNCHANGED wd

ForgetScript == monStarted' = FALSE /\ pending' = {}

\* setMonitoredAgents({active}, false) after a stop, else setActiveAgent; without
\* an active agent clearActiveAgent.
MonitorActiveAgain(m) == TellWatchdog(ActiveOnly(active))

HandleFinished ==
    /\ Handle("finished")
    /\ scriptRunning' = FALSE
    /\ ForgetScript
    /\ MonitorActiveAgain(Head(toUi))
    /\ userStop' = FALSE
    /\ UNCHANGED <<active, page, modal, activating, choices, notices>>

filterScriptMonitoringAgents(names) == names \ LocalAgents

HandleRequiredAgents ==
    /\ Handle("required")
    /\ monStarted' = FALSE
    /\ pending' = filterScriptMonitoringAgents(Head(toUi).agents)
    /\ UNCHANGED <<active, page, scriptRunning, userStop, modal, world>>

HandleWorkflow ==
    /\ Handle("workflow")
    /\ IF /\ ~closed /\ ~monStarted /\ pending # {}
          /\ HasStatus(Head(toUi).steps, "nodes_check", "success")
       THEN TellWatchdog(Monitor(pending, TRUE)) /\ monStarted' = TRUE
       ELSE UNCHANGED <<wd, monStarted>>
    /\ UNCHANGED <<active, page, scriptRunning, userStop, pending, modal, activating,
                   choices, notices>>

HandleActivated ==
    /\ Handle("activated")
    /\ IF Head(toUi).ok
       THEN active' = Head(toUi).agent /\ TellWatchdog(ActiveOnly(Head(toUi).agent))
       ELSE UNCHANGED <<active, wd>>
    /\ UNCHANGED <<page, scriptRunning, userStop, pending, monStarted, modal, activating,
                   choices, notices>>

\* UI_DIALOG_REQUEST and USER_NOTIFICATION open a modal dialog ...
OpenDialog ==
    /\ ~modal /\ UiReady /\ Head(toUi).type \in {"dialog", "notice"}
    /\ modal' = TRUE
    /\ UNCHANGED <<actuatorVars, active, page, scriptRunning, userStop, pending,
                   monStarted, world>>

\* ... and end when the user closes it, a request with a response.
CloseDialog ==
    /\ modal /\ modal' = FALSE
    /\ UiAnswers \/ (UiHandles /\ Head(toUi).type = "notice")
    /\ UNCHANGED <<active, page, scriptRunning, userStop, pending, monStarted, world>>

-----------------------------------------------------------------------------
(* The rest of the host.                                                    *)

TellUi(m) ==
    /\ toUi' = Append(toUi, m)
    /\ UNCHANGED <<inbox, current, process, killTimers, atManager, closed, history,
                   posts, ui>>

doActivateAgent ==
    /\ activating # << >>
    /\ activating' = Tail(activating)
    /\ \E ok \in BOOLEAN : TellUi([type |-> "activated", agent |-> Head(activating), ok |-> ok])
    /\ UNCHANGED <<wd, choices, notices>>

\* stopScriptAndStopRecords: once per configuration.
WatchdogStops ==
    /\ wd.agents # {} /\ ~wd.stopSent
    /\ wd' = [wd EXCEPT !.stopSent = TRUE]
    /\ Post([type |-> "stop"])
    /\ UNCHANGED <<ui, activating, choices, notices>>

WatchdogNotifies ==
    /\ ~closed /\ notices < MaxNotices
    /\ notices' = notices + 1
    /\ TellUi([type |-> "notice"])
    /\ UNCHANGED <<wd, activating, choices>>

-----------------------------------------------------------------------------
ActuatorAlone == PollBus \/ Signals \/ KillFires \/ KillAtClose \/ Writes \/ Exits
                 \/ AgentManagerAnswers

HandleUiMessage == HandleStarted \/ HandleFinished \/ HandleRequiredAgents
                   \/ HandleWorkflow \/ HandleActivated \/ OpenDialog

User == \/ \E a \in Agents : activateAgent(a)
        \/ \E path \in Scripts \union {NoScript} : runScript(path)
        \/ stopScript \/ handleBackRequested \/ shutdown

SessionNext ==
    \/ ActuatorAlone /\ UNCHANGED <<ui, world>>
    \/ HandleUiMessage \/ CloseDialog \/ User
    \/ doActivateAgent \/ WatchdogStops \/ WatchdogNotifies

SessionSpec == SessionInit /\ [][SessionNext]_sessionVars

\* The event loop serves both timers and the process, AgentManager answers each
\* command, the user closes the dialogs, and the destructor kills the process.
SessionFairness ==
    /\ WF_sessionVars(PollBus /\ UNCHANGED <<ui, world>>)
    /\ WF_sessionVars(Signals /\ UNCHANGED <<ui, world>>)
    /\ WF_sessionVars(KillFires /\ UNCHANGED <<ui, world>>)
    /\ WF_sessionVars(KillAtClose /\ UNCHANGED <<ui, world>>)
    /\ WF_sessionVars(AgentManagerAnswers /\ UNCHANGED <<ui, world>>)
    /\ WF_sessionVars(HandleUiMessage)
    /\ WF_sessionVars(CloseDialog)

FairSession == SessionSpec /\ SessionFairness

-----------------------------------------------------------------------------
(* Properties.                                                              *)

\* Script monitoring begins only for a script that has itself reported its nodes
\* checked, and covers only agents that this script announced, never agents or
\* steps left over from the script before (main_window.cpp:886-912).
MonitorsCheckedScript ==
    [][ (wd'.script /\ ~wd.script) =>
            LET r == Head(toUi).run
            IN  /\ r \in checked
                /\ \A a \in wd'.agents : <<r, a>> \in announced ]_sessionVars

\* Script monitoring ends with the script: while the Watchdog still watches a
\* script's agents, that script runs or MainWindow has yet to hear that it
\* finished (main_window.cpp:826-859).
MonitoringEnds ==
    wd.script => \/ proc # "NotRunning"
                 \/ \E i \in DOMAIN toUi : toUi[i].type = "finished"

\* A script that asks for a command or a dialog is answered, unless it ends.
AskAnswered ==
    \A kind \in {"cmd", "dialog"} :
        (<<run, kind>> \in asked /\ proc # "NotRunning") ~>
            (<<run, kind>> \notin asked \/ proc = "NotRunning")
============================================================================
