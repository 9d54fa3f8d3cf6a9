----------------------------- MODULE AgentPages -----------------------------
(***************************************************************************)
(* What MainWindow keeps about the agent on its page, and asks of          *)
(* AgentManager for it (main_window.cpp, virtual_node_config_manager.cpp,  *)
(* virtual_nodes_page.cpp): choosing an agent, the summary that is polled  *)
(* of the active one, and the virtual UR node, for which the UI thread     *)
(* rewrites the configuration file that AgentManager's threads read at     *)
(* every request, and has the proxies made from the old one released.      *)
(*                                                                         *)
(* Of AgentManager there are the normal and the priority lane, reduced to  *)
(* when they read the file, what they keep of it, and their answers.  The  *)
(* contents of the file are numbered in the order they were set; a reader  *)
(* that meets the file while it is written fails to parse it.  Left out:   *)
(* what else an activation does (Watchdog, registry), commands that the    *)
(* user types, and the dialogs.                                            *)
(***************************************************************************)
EXTENDS Integers, Sequences, FiniteSets

CONSTANTS Primaries,    \* the agents that can be chosen
          Summarised,   \* those with a summary in their layout
          Ur, NoAgent,
          MaxEvents,    \* bound: choices, settings, commands and stops
          MaxPolls      \* bound: summary requests

ASSUME PagesAssumption ==
    /\ Summarised \subseteq Primaries /\ Ur \notin Primaries
    /\ NoAgent \notin Primaries \union {Ur}
    /\ MaxEvents \in Nat /\ MaxPolls \in Nat

VARIABLES
    page,          \* the agent whose layout the workspace page has
    agent,         \* active_agent_ of MainWindow
    summary,       \* summary_data_name_: the agent it belongs to
    request,       \* summary_request_id_; 0 stands for none
    polling,       \* summary_poll_timer_ is running
    refused,       \* history: the last choice was answered with a failure
    shown,         \* history: the summaries shown: whose name, whose values, on which page
    writing,       \* where the UI thread is in setVirtualUrConfig and after it
    config,        \* virtual_ur_config_
    file,          \* the effective configuration
    inbox,         \* the UI's queue on the bus
    queue,         \* AgentManager's
    lane,          \* its normal lane
    active,        \* its active_agent_
    proxies,       \* what its proxies were made from
    stops,         \* emergency stops for the UR node, in their lane's queue
    stopping,      \* and in its hands
    client,        \* what that lane's client of the UR node was made from
    restarted,     \* history: polling began anew with something still to be answered
    polls, events  \* numbers of summary requests, and of what came from outside

uiVars    == <<page, agent, summary, request, polling, refused, shown>>
configVars == <<writing, config, file>>
laneVars  == <<lane, active, proxies>>
stopVars  == <<stops, stopping, client>>
vars == <<uiVars, configVars, inbox, queue, laneVars, stopVars, restarted, polls, events>>

-----------------------------------------------------------------------------
Agents == Primaries \union {Ur}
None   == -1            \* no proxy, no client
Torn   == -1            \* a file that does not parse
Idle   == [stage |-> "idle", type |-> "release", id |-> 0, agent |-> Ur, version |-> 0]

Message(type, id, a) == [type |-> type, id |-> id, agent |-> a]

Init ==
    /\ page = NoAgent /\ agent = NoAgent /\ summary = NoAgent
    /\ request = 0 /\ polling = FALSE /\ refused = FALSE /\ shown = {}
    /\ writing = "no" /\ config = 0 /\ file = 0
    /\ inbox = << >> /\ queue = << >>
    /\ lane = Idle /\ active = NoAgent /\ proxies = [a \in Agents |-> None]
    /\ stops = 0 /\ stopping = [stage |-> "idle", version |-> 0]
    /\ client = None
    /\ restarted = FALSE /\ polls = 0 /\ events = 0

\* Activations that MainWindow has not heard of, and summaries asked for and not heard of.
Unanswered ==
    \/ lane.stage # "idle" /\ lane.type = "activate"
    \/ \E k \in DOMAIN queue : queue[k].type = "activate"
    \/ \E k \in DOMAIN inbox : inbox[k].type = "activate"

Outstanding ==
    {i \in 1..polls : \/ lane.stage # "idle" /\ lane.id = i
                      \/ \E k \in DOMAIN queue : queue[k].id = i
                      \/ \E k \in DOMAIN inbox : inbox[k].id = i}

Event == events < MaxEvents /\ events' = events + 1

-----------------------------------------------------------------------------
(* The UI thread: choosing, polling, and what it is told.                   *)

UiFree == writing = "no"

\* Mutant: only the request is forgotten; the timer runs on.
ForgetsRequest == request' = 0 /\ UNCHANGED <<polling, summary>>

StopsPolling == request' = 0 /\ polling' = FALSE /\ summary' = NoAgent

activateAgent(a) ==
    /\ UiFree /\ Event
    /\ page' = a /\ agent' = a
    /\ StopsPolling /\ refused' = FALSE
    /\ queue' = Append(queue, Message("activate", 0, a))
    /\ restarted' = (Unanswered \/ (restarted /\ Outstanding # {}))
    /\ UNCHANGED <<shown, configVars, inbox, laneVars, stopVars, polls>>

\* The one request that may be outstanding; what was sent before it is in sent.
Ask(sent, a) == /\ polls' = polls + 1 /\ request' = polls + 1
                /\ queue' = Append(sent, Message("cmd", polls + 1, a))

pollAgentSummary ==
    /\ UiFree /\ polling /\ request = 0 /\ polls < MaxPolls
    /\ Ask(queue, agent)
    /\ UNCHANGED <<page, agent, summary, polling, refused, shown, configVars, inbox, laneVars,
                   stopVars, restarted, events>>

\* Mutant: the request of the agent before is not forgotten, and keeps the new one back.
KeepsRequest(sent, a) ==
    IF a \in Summarised
    THEN /\ summary' = a /\ polling' = TRUE
         /\ IF request = 0 /\ polls < MaxPolls THEN Ask(sent, a)
            ELSE queue' = sent /\ UNCHANGED <<request, polls>>
    ELSE queue' = sent /\ UNCHANGED <<summary, polling, request, polls>>

\* An agent without a summary is not polled.
updateSummaryPolling(sent, a) ==
    IF a \in Summarised
    THEN /\ summary' = a /\ polling' = TRUE
         /\ IF polls < MaxPolls THEN Ask(sent, a)
            ELSE request' = 0 /\ queue' = sent /\ UNCHANGED polls
    ELSE StopsPolling /\ queue' = sent /\ UNCHANGED polls

HandleActivated ==
    /\ UiFree /\ inbox # << >> /\ Head(inbox).type = "activate"
    /\ inbox' = Tail(inbox) /\ refused' = ~Head(inbox).success
    /\ IF Head(inbox).success
       THEN agent' = Head(inbox).agent /\ updateSummaryPolling(queue, Head(inbox).agent)
       ELSE StopsPolling /\ UNCHANGED <<agent, polls, queue>>
    /\ UNCHANGED <<page, shown, configVars, laneVars, stopVars, restarted, events>>

\* It is the answer to the request that is outstanding.
IsAnswer(m) == request # 0 /\ m.id = request

handleSummaryCmdResult ==
    /\ UiFree /\ inbox # << >> /\ Head(inbox).type = "cmd"
    /\ inbox' = Tail(inbox)
    /\ LET m == Head(inbox) IN
         /\ request' = IF IsAnswer(m) THEN 0 ELSE request
         /\ shown' = IF IsAnswer(m) /\ m.success
                     THEN shown \union {[name |-> summary, from |-> m.agent, on |-> page,
                                         refused |-> refused]}
                     ELSE shown
    /\ UNCHANGED <<page, agent, summary, polling, refused, configVars, queue, laneVars, stopVars,
                   restarted, polls, events>>

-----------------------------------------------------------------------------
(* The UI thread: the virtual UR node.                                      *)

Others == UNCHANGED <<uiVars, inbox, laneVars, stopVars, restarted, polls>>

\* A toggle, or a setting.  The original configuration may turn out unreadable.
setVirtualUrConfig ==
    /\ UiFree /\ Event
    /\ config' = config + 1
    /\ \/ writing' = "write" /\ file' = Torn
       \/ UNCHANGED <<writing, file>>
    /\ UNCHANGED queue /\ Others

\* The stream is not looked at once it is open: a write that fails half way leaves a
\* file that does not parse, and the caller goes on.
writeEffectiveConfig ==
    /\ writing = "write"
    /\ file' \in {config, Torn} /\ writing' = "release"
    /\ UNCHANGED <<config, queue, events>> /\ Others

\* Mutant: those in use are left to find out by themselves.
NoRelease == UNCHANGED queue

PublishRelease == queue' = Append(queue, Message("release", 0, Ur))

ReleaseProxies ==
    /\ writing = "release" /\ writing' = "no"
    /\ PublishRelease
    /\ UNCHANGED <<config, file, events>> /\ Others

-----------------------------------------------------------------------------
(* Scripts, which send commands and emergency stops to the UR node, and end. *)

CommandUr ==
    /\ Event /\ queue' = Append(queue, Message("cmd", 0, Ur))
    /\ UNCHANGED <<uiVars, configVars, inbox, laneVars, stopVars, restarted, polls>>

\* After a script that was stopped the active agent is polled anew.
ScriptEnds(stopped) ==
    LET released == Append(queue, Message("release", 0, Ur))
    IN  /\ UiFree /\ Event
        /\ IF stopped /\ agent # NoAgent
           THEN /\ updateSummaryPolling(released, agent)
                /\ restarted' = (restarted \/ Unanswered \/ Outstanding # {})
           ELSE /\ queue' = released
                /\ UNCHANGED <<summary, request, polling, polls, restarted>>
        /\ UNCHANGED <<page, agent, refused, shown, configVars, inbox, laneVars, stopVars>>

StopUr ==
    /\ Event /\ stops' = stops + 1
    /\ UNCHANGED <<uiVars, configVars, inbox, queue, laneVars, stopping, client,
                   restarted, polls>>

-----------------------------------------------------------------------------
(* AgentManager's normal lane.                                              *)

Lane == UNCHANGED <<uiVars, configVars, restarted, polls, events>>

\* The answers to a script's commands are not the UI's.
Answers(m, success) ==
    inbox' = IF m.type = "cmd" /\ m.id = 0 THEN inbox
             ELSE Append(inbox, [type |-> m.type, id |-> m.id, agent |-> m.agent,
                                 success |-> success])

\* Mutant: a configuration that does not parse ends a command without a word.
DropsCommand(m) == IF m.type = "cmd" THEN UNCHANGED inbox ELSE Answers(m, FALSE)

LoadFails(m) == Answers(m, FALSE)

Working(stage, m) == [stage |-> stage, type |-> m.type, id |-> m.id, agent |-> m.agent,
                      version |-> file]

Take ==
    /\ lane.stage = "idle" /\ queue # << >> /\ Head(queue).type # "release"
    /\ queue' = Tail(queue)
    /\ LET m == Head(queue) IN
         IF file = Torn THEN LoadFails(m) /\ UNCHANGED lane
         ELSE /\ lane' = Working(IF m.type = "cmd" THEN "checked" ELSE "loaded", m)
              /\ UNCHANGED inbox
    /\ UNCHANGED <<active, proxies, stopVars>> /\ Lane

\* ensureAgentConnected reads the configuration of a command's agent once more.
Reload ==
    /\ lane.stage = "checked"
    /\ IF file = Torn THEN LoadFails(lane) /\ lane' = Idle
       ELSE lane' = Working("loaded", lane) /\ UNCHANGED inbox
    /\ UNCHANGED <<queue, active, proxies, stopVars>> /\ Lane

\* getOrCreateAgent keeps a proxy as it was made; the node may or may not be reached.
Execute(success) ==
    /\ lane.stage = "loaded"
    /\ proxies' = IF proxies[lane.agent] = None
                  THEN [proxies EXCEPT ![lane.agent] = lane.version] ELSE proxies
    /\ active' = IF lane.type = "activate" /\ success THEN lane.agent ELSE active
    /\ Answers(lane, success)
    /\ lane' = Idle
    /\ UNCHANGED <<queue, stopVars>> /\ Lane

\* Only agents that have a proxy are released, with the clients of the other lanes.
ClientReleased == client' = IF proxies[Ur] # None THEN None ELSE client

doReleaseInactiveAgents ==
    /\ lane.stage = "idle" /\ queue # << >> /\ Head(queue).type = "release"
    /\ queue' = Tail(queue)
    /\ proxies' = [a \in Agents |-> IF a = active THEN proxies[a] ELSE None]
    /\ ClientReleased
    /\ UNCHANGED <<inbox, lane, active, stops, stopping>> /\ Lane

-----------------------------------------------------------------------------
(* Its priority lane.                                                       *)

Stopper == UNCHANGED <<inbox, queue, laneVars>> /\ Lane

TakeStop ==
    /\ stopping.stage = "idle" /\ stops > 0
    /\ stops' = stops - 1
    /\ stopping' = IF file = Torn THEN stopping ELSE [stage |-> "loaded", version |-> file]
    /\ UNCHANGED client /\ Stopper

ensurePriorityClient ==
    /\ stopping.stage = "loaded"
    /\ client' = IF client = None THEN stopping.version ELSE client
    /\ stopping' = [stopping EXCEPT !.stage = "calling"]
    /\ UNCHANGED stops /\ Stopper

\* With the server's result, or none; a client that finds no server is dropped.
StopEnds(reached) ==
    /\ stopping.stage = "calling"
    /\ stopping' = [stage |-> "idle", version |-> 0]
    /\ client' = IF reached THEN client ELSE None
    /\ UNCHANGED stops /\ Stopper

-----------------------------------------------------------------------------
UiGoesOn == HandleActivated \/ handleSummaryCmdResult \/ writeEffectiveConfig \/ ReleaseProxies
LaneStep == Take \/ Reload \/ (\E success \in BOOLEAN : Execute(success))
            \/ doReleaseInactiveAgents
StopStep == TakeStop \/ ensurePriorityClient \/ \E reached \in BOOLEAN : StopEnds(reached)

Next ==
    \/ \E a \in Primaries : activateAgent(a)
    \/ pollAgentSummary \/ setVirtualUrConfig
    \/ CommandUr \/ StopUr \/ \E stopped \in BOOLEAN : ScriptEnds(stopped)
    \/ UiGoesOn \/ LaneStep \/ StopStep

Spec == Init /\ [][Next]_vars

\* The threads go on.  AgentManager's waits for a node have timeouts; that the join
\* of a node process's output thread ends too (process_handle.cpp:371), and that a
\* file operation does, is assumed.
FairSpec == Spec /\ WF_vars(UiGoesOn) /\ WF_vars(LaneStep) /\ WF_vars(StopStep)

-----------------------------------------------------------------------------
(* Properties.                                                              *)

\* A summary is shown under the name of the agent it came from, and on that agent's
\* page: a late answer never fills the page of the next agent, not even if the user
\* chooses again before the last choice is answered, so that activations arrive for
\* an agent he has left.  Only if his last choice fails after one before succeeded,
\* active_agent_ is not the agent on the page, and the end of a stopped script polls
\* it (main_window.cpp:793, 812-816, 861, 1141-1148, 1233-1310).
SummaryIsOwn == \A s \in shown : s.name = s.from /\ (s.on = s.from \/ s.refused)

\* CONTRACTS.md:144: one summary request is outstanding at a time.  It holds as long
\* as the user lets an activation be answered before he chooses again, and no script
\* is stopped meanwhile: the request is forgotten whenever polling begins anew,
\* answered or not (main_window.cpp:1146, 1238).
OneOutstanding == Cardinality(Outstanding) <= 1 \/ restarted

\* Polling never stops for good: whatever fails, each request is answered or the
\* agent changes (main_window.cpp:1259, agent_manager.cpp:280-300).
PollAnswered == \A i \in 1..MaxPolls : (request = i) ~> (request # i)

\* After a change of the virtual node, a proxy of it made from the old configuration
\* is used no longer than until the release that follows, also one that a command
\* makes while the file is rewritten (main_window.cpp:1413-1470).  The client of the
\* emergency stops is not in this: a release can pass it by (agent_manager.cpp:654).
ReleaseAhead ==
    \/ writing # "no"
    \/ \E k \in DOMAIN queue : queue[k].type = "release"

ProxiesFollowConfig ==
    ReleaseAhead \/ proxies[Ur] \in {None, file}
=============================================================================
