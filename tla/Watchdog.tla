------------------------------ MODULE Watchdog ------------------------------
(***************************************************************************)
(* The Watchdog (watchdog.cpp): a worker thread that drives the health     *)
(* state machine of the active agent, the UI thread that reconfigures it   *)
(* by a sequence of stores (a mutex section, then one atomic store after   *)
(* the other), the script side that posts ensure-device requests on the    *)
(* control queue, and AgentManager, which answers each request once, at    *)
(* any time, also after the Watchdog has stopped waiting for the answer.   *)
(*                                                                         *)
(* Time is abstract: a bounded wait may end at any moment.  Left out, as   *)
(* nothing in the code decides on them: consecutive_failures_,             *)
(* last_reason_, log texts and the periodic WATCHDOG_STATE messages; and   *)
(* the results of the stop_record requests, which carry ids of their own   *)
(* that nobody waits for (those of estops carry none, and are in).         *)
(***************************************************************************)
EXTENDS Integers, Sequences, FiniteSets

CONSTANTS Agents,          \* agent names
          NoAgent,         \* the empty agent name
          kMaxInitRetries, \* Watchdog::kMaxInitRetries
          MonitorLists,    \* the lists of the calls of setMonitoredAgents, after
                           \* it has removed empty names and duplicates
          MaxCalls,        \* bound: configuration calls and estops of one run
          MaxActivations,  \* bound: how many of them are setActiveAgent/clear
          MaxLate,         \* bound: answers under way that nobody waits for
          MaxEnsures,      \* bound: ensure-device requests of one run
          MaxToggles       \* bound: nodes going down or coming back in one run

ASSUME WatchdogAssumption ==
    /\ NoAgent \notin Agents
    /\ kMaxInitRetries \in Nat
    /\ MonitorLists \subseteq Seq(Agents)
    /\ \A list \in MonitorLists : \A i, j \in DOMAIN list :
          list[i] = list[j] => i = j
    /\ MaxCalls \in Nat /\ MaxActivations \in Nat
    /\ MaxLate \in Nat /\ MaxEnsures \in Nat /\ MaxToggles \in Nat

VARIABLES
    agent,                 \* agent_name_
    monitored,             \* monitored_agent_names_
    state,                 \* state_
    initFailures,          \* init_failures_
    failureStopSent,       \* failure_stop_sent_
    scriptMonitoring,      \* script_monitoring_
    deviceStarted,         \* device_started_
    startPending,          \* start_pending_
    startDeviceAfterInit,  \* start_device_after_init_
    estopRequested,        \* estop_requested_
    running,               \* running_
    pc,                    \* where the worker thread is
    current, next,         \* locals of workerLoop
    observed, todo, job,   \* locals of doCheck and the request being made
    requests, inbox,       \* requests not yet answered; the WATCHDOG queue
    control,               \* agents named on the WATCHDOG_CONTROL queue
    stores,                \* stores the UI call in progress has still to do
    out,                   \* what the last step published
    alive,                 \* agents whose node answers a check with success
    initFor,               \* history: the agent of the last successful init_device
                           \* since the last estop or failed check
    anew,                  \* history: the active agent has to start over, and no
                           \* init_device of its own has decided on it yet
    calls, activations, ensures, toggles   \* how much of the bounds is used

config == <<agent, monitored>>
flags  == <<failureStopSent, scriptMonitoring, deviceStarted, startPending,
            startDeviceAfterInit>>
locals == <<current, next, observed, todo, job>>
net    == <<requests, inbox>>
budget == <<calls, activations, ensures, toggles>>
shared == <<config, state, initFailures, flags, estopRequested, running>>
world  == <<control, stores, alive, anew, budget>>
vars   == <<config, state, initFailures, flags, estopRequested, running, pc,
            locals, net, control, stores, out, alive, initFor, anew, budget>>

-----------------------------------------------------------------------------
States    == {"DISCONNECTED", "INITIALIZING", "ERROR", "HEALTHY"}
Cmds      == {"check", "init_device", "start_device", "reboot_device"}
Names     == Agents \union {NoAgent}
RequestIds == 1..(MaxLate + 1)
NoId      == 0             \* an ESTOP carries no request_id, nor does its result
Messages  == [id : RequestIds, cmd : Cmds, agent : Names]
                \union [id : {NoId}, cmd : {"estop"}, agent : Names]
Answers   == [id : RequestIds, cmd : Cmds, agent : Names, ok : BOOLEAN]
                \union [id : {NoId}, cmd : {"estop"}, agent : Names, ok : BOOLEAN]
Jobs      == [id : RequestIds, cmd : Cmds, agent : Names, primary : BOOLEAN]
Fields    == {"startDeviceAfterInit", "initFailures", "failureStopSent",
              "scriptMonitoring", "deviceStarted", "startPending", "state"}
Stores    == [field : Fields, value : BOOLEAN]
Published == [type : Cmds \union {"estop", "stop_script", "stop_record",
                                  "user_notification"},
              agent : Names]

\* The worker's locals outside an iteration.
NoJob == [id |-> 1, cmd |-> "check", agent |-> NoAgent, primary |-> TRUE]

Members(list) == {list[i] : i \in DOMAIN list}

\* A list without its only occurrence of a.
Without(list, a) ==
    IF a \notin Members(list) THEN list
    ELSE LET i == CHOOSE i \in DOMAIN list : list[i] = a
         IN SubSeq(list, 1, i - 1) \o SubSeq(list, i + 1, Len(list))

\* Everyone an estop or a stop_record goes to: the monitored agents and the
\* active one.
Targets == Members(monitored) \union ({agent} \ {NoAgent})

Init ==
    \* Watchdog(bus) or Watchdog(bus, agent_name), then start()
    /\ agent \in Names
    /\ monitored = IF agent = NoAgent THEN << >> ELSE <<agent>>
    /\ state = "DISCONNECTED" /\ initFailures = 0
    /\ failureStopSent = FALSE /\ scriptMonitoring = FALSE
    /\ deviceStarted = FALSE /\ startPending = FALSE
    /\ startDeviceAfterInit = TRUE
    /\ estopRequested = FALSE /\ running = TRUE
    /\ pc = "loop" /\ current = "DISCONNECTED" /\ next = "DISCONNECTED"
    /\ observed = "DISCONNECTED" /\ todo = << >>
    /\ job = NoJob
    /\ requests = {} /\ inbox = {} /\ control = {} /\ stores = << >>
    /\ out = {} /\ alive = Agents /\ initFor = {} /\ anew = TRUE
    /\ calls = 0 /\ activations = 0 /\ ensures = 0 /\ toggles = 0

-----------------------------------------------------------------------------
(* The worker thread.                                                      *)

\* handleControlMessages and ensureDeviceReadyFromScript: the whole queue is
\* drained; a request for another agent than the active one is ignored.
Relevant == {a \in control : a = NoAgent \/ agent = NoAgent \/ a = agent}

HandleControlMessages ==
    /\ control' = {}
    /\ IF Relevant = {}
       THEN UNCHANGED <<state, initFailures, failureStopSent, startPending,
                        startDeviceAfterInit>>
       ELSE /\ startDeviceAfterInit' = TRUE
            /\ failureStopSent' = FALSE
            /\ startPending' = (startPending \/ state = "HEALTHY")
            /\ initFailures' = IF state = "ERROR" THEN 0 ELSE initFailures
            /\ state' = IF state = "ERROR" THEN "DISCONNECTED" ELSE state
    /\ anew' = (anew \/ (state = "ERROR" /\ Relevant # {}))
    /\ out' = {}
    /\ UNCHANGED <<config, scriptMonitoring, deviceStarted, estopRequested,
                   running, locals, net, stores, alive, initFor, budget>>

\* Mutant: the loop goes on while there is an agent to monitor.
StopWhenIdle == ~running /\ monitored = << >>

\* while (running_)
StopSeen == ~running

Drain == /\ pc = "loop" /\ ~StopSeen
         /\ pc' = "top"
         /\ HandleControlMessages

SleepDrain == /\ pc = "sleep" /\ running /\ control # {}
              /\ UNCHANGED pc
              /\ HandleControlMessages

Exit == /\ pc = "loop" /\ StopSeen
        /\ pc' = "done" /\ out' = {}
        /\ UNCHANGED <<shared, locals, net, initFor, world>>

Idle == /\ pc = "top" /\ monitored = << >>
        /\ pc' = "loop" /\ out' = {}
        /\ UNCHANGED <<shared, locals, net, initFor, world>>

\* Mutant: an estop is only served while the device is HEALTHY.
EstopWhenHealthy == estopRequested /\ state = "HEALTHY"

EstopPending == estopRequested

\* The estops go out without a request id; those AgentManager will answer (at
\* most MaxLate, the others are lost or refused in silence) come to be answered
\* on the WATCHDOG queue, where the worker may be waiting for another command.
ServeEstop ==
    /\ pc = "top" /\ monitored # << >> /\ EstopPending
    /\ estopRequested' = FALSE
    /\ state' = "DISCONNECTED" /\ initFailures' = 0
    /\ deviceStarted' = FALSE /\ startPending' = FALSE
    /\ out' = [type : {"estop"}, agent : Targets]
    /\ \E sent \in SUBSET [id : {NoId}, cmd : {"estop"}, agent : Targets] :
          /\ requests' = requests \union sent
          /\ Cardinality(requests') + Cardinality(inbox) <= MaxLate
    /\ initFor' = {} /\ anew' = TRUE
    /\ pc' = "loop"
    /\ UNCHANGED <<config, failureStopSent, scriptMonitoring,
                   startDeviceAfterInit, running, locals, inbox, control,
                   stores, alive, budget>>

LoadState ==
    /\ pc = "top" /\ monitored # << >> /\ ~EstopPending
    /\ current' = state
    /\ pc' = "dispatch" /\ out' = {}
    /\ UNCHANGED <<shared, next, observed, todo, job, net, initFor, world>>

\* A request about to be made: Send gives it its id and publishes it.
NewJob(cmd, a, primary) ==
    [id |-> job.id, cmd |-> cmd, agent |-> a, primary |-> primary]

\* Mutant: doCheck goes by the copy of the state the loop has dispatched on.
SeenAtDispatch == current

\* doCheck reads the state a second time.
SeenByCheck == state

\* doCheck up to its first checkAgent.
BeginCheck ==
    /\ pc = "dispatch"
    /\ \/ current \in {"DISCONNECTED", "ERROR"}
       \/ current = "HEALTHY" /\ ~startPending
    /\ observed' = SeenByCheck
    /\ IF agent = NoAgent /\ monitored = << >>
       THEN /\ next' = "DISCONNECTED" /\ pc' = "commit"
            /\ UNCHANGED <<todo, job>>
       ELSE LET primary == IF agent = NoAgent THEN Head(monitored) ELSE agent
            IN /\ job' = NewJob("check", primary, TRUE)
               /\ todo' = Without(monitored, primary)
               /\ pc' = "send" /\ UNCHANGED next
    /\ out' = {}
    /\ UNCHANGED <<shared, current, net, initFor, world>>

BeginInit ==
    /\ pc = "dispatch" /\ current = "INITIALIZING"
    /\ job' = NewJob("init_device", agent, TRUE)
    /\ pc' = "send" /\ out' = {}
    /\ UNCHANGED <<shared, current, next, observed, todo, net, initFor, world>>

BeginStart ==
    /\ pc = "dispatch" /\ current = "HEALTHY" /\ startPending
    /\ startPending' = FALSE
    /\ job' = NewJob("start_device", agent, TRUE)
    /\ pc' = "send" /\ out' = {}
    /\ UNCHANGED <<config, state, initFailures, failureStopSent,
                   scriptMonitoring, deviceStarted, startDeviceAfterInit,
                   estopRequested, running, current, next, observed, todo, net,
                   initFor, world>>

\* makeWatchdogRequestId gives an id no message under way carries.
FreshIds == RequestIds \ {r.id : r \in requests \union inbox}

Send ==
    /\ pc = "send"
    /\ \E id \in FreshIds :
          /\ \A other \in FreshIds : id <= other
          /\ job' = [job EXCEPT !.id = id]
          /\ requests' = requests \union
                {[id |-> id, cmd |-> job.cmd, agent |-> job.agent]}
    /\ out' = {[type |-> job.cmd, agent |-> job.agent]}
    /\ pc' = "await"
    /\ UNCHANGED <<shared, current, next, observed, todo, inbox, initFor,
                   world>>

\* Mutant: the answer is matched by command, not by request id.
MatchesByCmd(m) == m.cmd = job.cmd

\* waitForResult: an answer with the awaited request id ends the wait, and so
\* does one that has no id at all and is of the same command.
Matches(m) == m.id = job.id \/ (m.id = NoId /\ m.cmd = job.cmd)

\* waitForResult pops and drops everything else.
Discard ==
    /\ pc = "await"
    /\ \E m \in inbox : ~Matches(m) /\ inbox' = inbox \ {m}
    /\ out' = {}
    /\ UNCHANGED <<shared, pc, locals, requests, initFor, world>>

\* The result of the wait: the matching answer, or nothing at the deadline or
\* once running_ is false.  What is then still under way may arrive later
\* (at most MaxLate of it) or never.
Answered(ok) ==
    /\ pc = "await"
    /\ \/ \E m \in inbox : /\ Matches(m) /\ m.ok = ok
                           /\ inbox' = inbox \ {m}
                           /\ UNCHANGED requests
       \/ /\ ~ok
          /\ \/ UNCHANGED net
             \/ /\ requests' = {r \in requests : r.id # job.id}
                /\ inbox' = {m \in inbox : m.id # job.id}
          /\ Cardinality(requests') + Cardinality(inbox') <= MaxLate

\* Mutant: a passed check of a disconnected agent skips INITIALIZING.
NextSkipsInit(seen) == IF seen = "ERROR" THEN "ERROR" ELSE "HEALTHY"

\* What doCheck returns when every agent has passed.
NextAfterCheck(seen) ==
    CASE seen = "DISCONNECTED" -> "INITIALIZING"
      [] seen = "ERROR" -> "ERROR"
      [] OTHER -> "HEALTHY"

CheckPassed ==
    /\ job.cmd = "check" /\ Answered(TRUE)
    /\ IF todo # << >>
       THEN /\ job' = NewJob("check", Head(todo), FALSE)
            /\ todo' = Tail(todo)
            /\ pc' = "send"
            /\ UNCHANGED <<next, initFailures, failureStopSent>>
       ELSE /\ failureStopSent' = FALSE
            /\ initFailures' = IF observed = "DISCONNECTED"
                               THEN 0 ELSE initFailures
            /\ next' = NextAfterCheck(observed)
            /\ pc' = "commit"
            /\ UNCHANGED <<job, todo>>
    /\ out' = {}
    /\ UNCHANGED <<config, state, scriptMonitoring, deviceStarted, startPending,
                   startDeviceAfterInit, estopRequested, running, current,
                   observed, initFor, world>>

\* stopScriptAndStopRecords
StopMessages == [type : {"stop_script"}, agent : {NoAgent}]
                    \union [type : {"stop_record"}, agent : Targets]

\* Mutant: only the loss of the primary agent stops a script.
PrimaryLossOnly == scriptMonitoring /\ job.primary

\* doCheck: the loss of a further monitored agent always stops the script, that
\* of the primary agent only during script monitoring.
LossStops == scriptMonitoring \/ ~job.primary

StartedAfterLoss == FALSE

CheckFailed ==
    /\ job.cmd = "check" /\ Answered(FALSE)
    /\ deviceStarted' = StartedAfterLoss
    /\ IF LossStops
       THEN /\ failureStopSent' = TRUE
            /\ out' = IF failureStopSent THEN {} ELSE StopMessages
       ELSE /\ UNCHANGED failureStopSent
            /\ out' = {}
    /\ next' = "DISCONNECTED"
    /\ pc' = "commit"
    /\ UNCHANGED <<config, state, initFailures, scriptMonitoring, startPending,
                   startDeviceAfterInit, estopRequested, running, current,
                   observed, todo, job, initFor, world>>

InitSucceeded ==
    /\ job.cmd = "init_device" /\ Answered(TRUE)
    /\ initFailures' = 0
    /\ deviceStarted' = FALSE
    /\ startPending' = startDeviceAfterInit
    /\ initFor' = {job.agent} /\ anew' = (anew /\ job.agent # agent)
    /\ next' = "HEALTHY" /\ pc' = "commit" /\ out' = {}
    /\ UNCHANGED <<config, state, failureStopSent, scriptMonitoring,
                   startDeviceAfterInit, estopRequested, running, current,
                   observed, todo, job, control, stores, alive, budget>>

\* Mutant: one retry too many.
OneMoreRetry(failures) == failures <= kMaxInitRetries + 1

RetryLeft(failures) == failures <= kMaxInitRetries

\* A failed init_device is retried after a reboot_device, kMaxInitRetries times.
InitFailed ==
    /\ job.cmd = "init_device" /\ Answered(FALSE)
    /\ initFailures' = initFailures + 1
    /\ IF RetryLeft(initFailures + 1)
       THEN /\ job' = NewJob("reboot_device", agent, TRUE)
            /\ pc' = "send" /\ UNCHANGED <<next, anew>>
       ELSE /\ next' = "ERROR"
            /\ pc' = "commit" /\ anew' = (anew /\ job.agent # agent)
            /\ UNCHANGED job
    /\ out' = {}
    /\ UNCHANGED <<config, state, flags, estopRequested, running, current,
                   observed, todo, control, stores, alive, initFor, budget>>

\* doRecoveryReboot: the outcome of the reboot is not looked at.
RebootDone ==
    /\ job.cmd = "reboot_device" /\ \E ok \in BOOLEAN : Answered(ok)
    /\ next' = "INITIALIZING" /\ pc' = "commit" /\ out' = {}
    /\ UNCHANGED <<shared, current, observed, todo, job, initFor, world>>

StartDone(ok) ==
    /\ job.cmd = "start_device" /\ Answered(ok)
    /\ deviceStarted' = (ok \/ deviceStarted)
    /\ next' = IF ok THEN "HEALTHY" ELSE "ERROR"
    /\ pc' = "commit" /\ out' = {}
    /\ UNCHANGED <<config, state, initFailures, failureStopSent,
                   scriptMonitoring, startPending, startDeviceAfterInit,
                   estopRequested, running, current, observed, todo, job,
                   initFor, world>>

\* The end of an iteration: state_ is overwritten with next, whatever the UI
\* has stored in it in the meantime; entering ERROR is announced once.
Commit ==
    /\ pc = "commit"
    /\ state' = next
    /\ out' = IF next # current /\ next = "ERROR"
              THEN {[type |-> "user_notification", agent |-> agent]} ELSE {}
    /\ initFor' = IF next = "DISCONNECTED" THEN {} ELSE initFor
    /\ anew' = (anew \/ next = "DISCONNECTED")
    /\ pc' = "sleep"
    /\ current' = "DISCONNECTED" /\ next' = "DISCONNECTED"
    /\ observed' = "DISCONNECTED" /\ todo' = << >> /\ job' = NoJob
    /\ UNCHANGED <<config, initFailures, flags, estopRequested, running, net,
                   control, stores, alive, budget>>

Wake == /\ pc = "sleep"
        /\ pc' = "loop" /\ out' = {}
        /\ UNCHANGED <<shared, locals, net, initFor, world>>

Iterate == \/ Drain \/ Exit \/ Idle \/ ServeEstop \/ LoadState
           \/ BeginCheck \/ BeginInit \/ BeginStart \/ Send \/ Discard
           \/ CheckPassed \/ CheckFailed \/ InitSucceeded \/ InitFailed
           \/ RebootDone \/ StartDone(TRUE) \/ StartDone(FALSE)
           \/ Commit \/ Wake

-----------------------------------------------------------------------------
(* The UI thread.  A configuration call stores the names under the mutex   *)
(* and then one atomic after the other; the worker runs in between.        *)

Put(field, value) == [field |-> field, value |-> value]

ResetStores == << Put("initFailures", FALSE), Put("failureStopSent", FALSE),
                  Put("scriptMonitoring", FALSE), Put("deviceStarted", FALSE),
                  Put("startPending", FALSE), Put("state", FALSE) >>

UICall == /\ running /\ stores = << >> /\ calls < MaxCalls
          /\ calls' = calls + 1 /\ out' = {}
          /\ UNCHANGED <<state, initFailures, flags, pc, locals, net, control,
                         alive, initFor, ensures, toggles>>

SetActiveAgent(a, start_device_after_init) ==
    /\ UICall /\ activations < MaxActivations
    /\ activations' = activations + 1
    /\ agent' = a /\ monitored' = <<a>>
    /\ stores' = <<Put("startDeviceAfterInit", start_device_after_init)>>
                    \o ResetStores
    /\ anew' = FALSE
    /\ UNCHANGED <<estopRequested, running>>

ClearActiveAgent ==
    /\ UICall /\ activations < MaxActivations
    /\ activations' = activations + 1
    /\ agent' = NoAgent /\ monitored' = << >>
    /\ stores' = ResetStores
    /\ anew' = FALSE
    /\ UNCHANGED <<estopRequested, running>>

SetMonitoredAgents(list, script_monitoring) ==
    /\ UICall
    /\ monitored' = IF list = << >> /\ agent # NoAgent THEN <<agent>> ELSE list
    /\ stores' = << Put("failureStopSent", FALSE),
                    Put("scriptMonitoring", script_monitoring) >>
    /\ UNCHANGED <<agent, anew, activations, estopRequested, running>>

RequestEstop ==
    /\ UICall
    /\ estopRequested' = TRUE
    /\ UNCHANGED <<config, stores, anew, activations, running>>

Stop ==
    /\ UICall
    /\ running' = FALSE
    /\ UNCHANGED <<config, stores, anew, activations, estopRequested>>

\* The worker has a request to make or a verdict to store that it began, or
\* will begin, before the state is stored.
Busy == pc \in {"send", "await", "commit"} \/ (pc = "dispatch" /\ startPending)

\* The next store of the call in progress.  Only the two flags that are
\* parameters of a call are ever stored as TRUE.
StoreNext ==
    /\ stores # << >>
    /\ stores' = Tail(stores)
    /\ LET s == Head(stores)
           After(field, old) == IF s.field = field THEN s.value ELSE old
           Reset(field, old) == old /\ s.field # field
       IN /\ startDeviceAfterInit' = After("startDeviceAfterInit",
                                           startDeviceAfterInit)
          /\ failureStopSent' = Reset("failureStopSent", failureStopSent)
          /\ scriptMonitoring' = After("scriptMonitoring", scriptMonitoring)
          /\ deviceStarted' = Reset("deviceStarted", deviceStarted)
          /\ startPending' = Reset("startPending", startPending)
          /\ initFailures' = IF s.field = "initFailures" THEN 0
                             ELSE initFailures
          /\ state' = IF s.field = "state" THEN "DISCONNECTED" ELSE state
          /\ anew' = IF s.field = "state" THEN ~Busy ELSE anew
    /\ out' = {}
    /\ UNCHANGED <<config, estopRequested, running, pc, locals, net, control,
                   alive, initFor, budget>>

UI == \/ \E a \in Agents, after \in BOOLEAN : SetActiveAgent(a, after)
      \/ ClearActiveAgent
      \/ \E list \in MonitorLists, mon \in BOOLEAN : SetMonitoredAgents(list, mon)
      \/ RequestEstop \/ Stop

-----------------------------------------------------------------------------
(* The rest of the program and of the world.                               *)

Surroundings == UNCHANGED <<shared, pc, locals, stores, initFor, anew, calls,
                            activations>>

\* AgentManager answers a request; an agent that is down fails every command.
Reply == /\ \E r \in requests, ok \in BOOLEAN :
               /\ ok => r.agent \in alive \union {NoAgent}
               /\ requests' = requests \ {r}
               /\ inbox' = inbox \union
                     {[id |-> r.id, cmd |-> r.cmd, agent |-> r.agent, ok |-> ok]}
         /\ out' = {}
         /\ UNCHANGED <<control, alive, ensures, toggles>> /\ Surroundings

\* ScriptsActuator posts an ensure-device request of the running script.
EnsureDevice(a) ==
    /\ ensures < MaxEnsures
    /\ ensures' = ensures + 1
    /\ control' = control \union {a}
    /\ out' = {}
    /\ UNCHANGED <<net, alive, toggles>> /\ Surroundings

\* A node goes down or comes back.
Toggle(a) ==
    /\ toggles < MaxToggles
    /\ toggles' = toggles + 1
    /\ alive' = IF a \in alive THEN alive \ {a} ELSE alive \union {a}
    /\ out' = {}
    /\ UNCHANGED <<net, control, ensures>> /\ Surroundings

Environment == \/ Reply \/ \E a \in Names : EnsureDevice(a)
               \/ \E a \in Agents : Toggle(a)

\* After stop() has joined the worker nothing is left to do.
Terminated == pc = "done" /\ UNCHANGED vars

Next == Iterate \/ SleepDrain \/ StoreNext \/ UI \/ Environment \/ Terminated

\* The worker and the UI thread are scheduled, a wait ends at its deadline;
\* nothing is assumed of AgentManager, of the nodes or of the user.
Fairness == WF_vars(Iterate) /\ WF_vars(StoreNext) /\ WF_vars(Wake)

Spec == Init /\ [][Next]_vars
FairSpec == Spec /\ Fairness

-----------------------------------------------------------------------------
(* Properties.                                                             *)

\* Every variable keeps its type; init_failures_ never passes
\* kMaxInitRetries + 1, although the UI thread and the worker both store it.
TypeOK ==
    /\ agent \in Names /\ monitored \in Seq(Agents)
    /\ state \in States /\ initFailures \in 0..(kMaxInitRetries + 1)
    /\ failureStopSent \in BOOLEAN /\ scriptMonitoring \in BOOLEAN
    /\ deviceStarted \in BOOLEAN /\ startPending \in BOOLEAN
    /\ startDeviceAfterInit \in BOOLEAN
    /\ estopRequested \in BOOLEAN /\ running \in BOOLEAN
    /\ pc \in {"loop", "top", "dispatch", "send", "await", "commit", "sleep",
               "done"}
    /\ current \in States /\ next \in States /\ observed \in States
    /\ todo \in Seq(Agents) /\ job \in Jobs
    /\ requests \subseteq Messages /\ inbox \subseteq Answers
    /\ control \subseteq Names /\ stores \in Seq(Stores)
    /\ out \subseteq Published /\ alive \subseteq Agents
    /\ initFor \subseteq Names /\ anew \in BOOLEAN
    /\ calls \in Nat /\ activations \in Nat /\ ensures \in Nat /\ toggles \in Nat

\* Recovery is bounded (doInitDevice, doCheck, setActiveAgent and
\* ensureDeviceReadyFromScript all write init_failures_, from two threads): an
\* init_device is only ever attempted while no more than kMaxInitRetries
\* attempts have failed, in whatever order the UI's stores fall.
RecoveryBounded ==
    pc \in {"send", "await"} /\ job.cmd = "init_device" =>
        initFailures <= kMaxInitRetries

\* A device is only treated as HEALTHY when some init_device has succeeded since
\* the last served estop and the last committed loss: no interleaving of UI
\* stores, late answers, estops and ensure-device requests brings a stopped or
\* lost device back to HEALTHY without an initialisation.
HealthyNeedsInit == state = "HEALTHY" => initFor # {}

\* After an activation that ends while the worker has nothing in hand, an estop,
\* a committed loss or a script's request out of ERROR, the machine starts over
\* with the active agent: it is neither HEALTHY nor ERROR before an init_device
\* of that agent has decided on it, although doCheck looks at the state a second
\* time, after the loop has dispatched on its own copy, and the state is stored
\* from two threads.
StartsAnew == anew => state \notin {"HEALTHY", "ERROR"}

\* The answer that ends a wait is of the awaited command and agent: an answer
\* that comes after its time-out, to an earlier check or for another agent, is
\* never taken for the present one (waitForResult).  waitForResult would also
\* take an answer without a request id; only estops are answered like that, and
\* none of their answers ends a wait.
VerdictIsForRequest ==
    [][\A m \in inbox \ inbox' :
          pc = "await" /\ pc' # "await" =>
             m.cmd = job.cmd /\ m.agent = job.agent]_vars

\* A requested estop is served, however long the command is that the worker is
\* waiting for, unless the Watchdog stops or has no agent left to monitor.
EstopServed ==
    estopRequested ~> (~estopRequested \/ ~running \/ monitored = << >>)

\* An agent that is monitored for a script and stays down has the script
\* stopped (doCheck, stopScriptAndStopRecords), in whatever state the machine
\* is when the agent goes down.
LossStopsScript ==
    \A a \in Agents :
       <>[](running /\ scriptMonitoring /\ stores = << >>
              /\ a \in Targets /\ a \notin alive)
          => []<>failureStopSent

\* stop() returns: the worker it joins comes to its end.
StopTerminates == ~running ~> pc = "done"

\* What the header says of HEALTHY, "Agent fully initialized and operational"
\* (agent_health_state.h), of the agent that is active.
HealthyIsInitialised ==
    state = "HEALTHY" /\ stores = << >> /\ agent # NoAgent => agent \in initFor
=============================================================================
