---------------------------- MODULE AgentManager ----------------------------
(***************************************************************************)
(* AgentManager with its AgentProxies and EchoActionClients                *)
(* (agent_manager.cpp, agent_proxy.cpp, echo_action_client.cpp).  Three    *)
(* threads, the lanes, take requests from a queue each and block in them:  *)
(* the normal lane owns the proxies, and with them the node processes it   *)
(* launches; the health and the priority lane keep clients of their own,   *)
(* which the normal lane also erases when it releases inactive agents.     *)
(* Around them: the nodes, the goals sent to them, results that come late  *)
(* or never, and stop().                                                   *)
(*                                                                         *)
(* A request is its number, its kind and the agent it names.  INIT_DEVICE  *)
(* is a command here; params, priorities, logs and the UI's copy of a      *)
(* result are left out.  What happens between two waits of a lane is one   *)
(* action.                                                                 *)
(***************************************************************************)
EXTENDS Integers, Sequences, FiniteSets

CONSTANTS Agents, NoAgent, Unknown,  \* configured agents; no name; a name without
                                     \* a configuration
          Python, Local, External,   \* the agents by process_type
          Asks,                      \* what the host asks for: lane, kind, agent
          MaxRequests,               \* bound: requests
          MaxCommands                \* bound: all of those after it are releases

ASSUME ManagerAssumption ==
    /\ NoAgent \notin Agents /\ Unknown \notin Agents
    /\ Agents = Python \union Local \union External
    /\ Python \intersect (Local \union External) = {} /\ Local \intersect External = {}
    /\ Asks \subseteq {"normal", "health", "priority"}
                    \X {"activate", "release", "cmd", "estop"}
                    \X (Agents \union {NoAgent, Unknown})
    /\ \A ask \in Asks : ask[2] \in {"activate", "release"} => ask[1] = "normal"
    /\ MaxRequests \in Nat /\ MaxCommands \in Nat

VARIABLES
    queue,        \* the AGENT_MANAGER queues of the bus
    stage,        \* what each lane does with the request it has taken
    inHand,       \* that request, its agent made out
    proxies,      \* agents_: for whom there is a proxy
    connected,    \* proxies with connected_ (and a client)
    clients,      \* health_clients_ and priority_clients_
    active,       \* active_agent_
    node,         \* the nodes
    goals,        \* goals sent, with their results as they come
    executed,     \* history: requests carried out
    answers,      \* history: CMD_RESULT and AGENT_ACTIVATED to the sender
    posted,       \* number of requests
    life,         \* the manager: running, told to stop, stopped, or crashed
    ended         \* lanes whose thread has left its loop

lanesVars == <<queue, stage, inHand, ended>>
agentVars == <<proxies, connected, clients, active>>
vars == <<lanesVars, agentVars, node, goals, executed, answers, posted, life>>

-----------------------------------------------------------------------------
Side  == {"health", "priority"}
Lanes == {"normal"} \union Side
Kinds == {"activate", "release", "cmd", "estop"}
Ids   == 1..MaxRequests

NoRequest == [id |-> 0, kind |-> "release", agent |-> NoAgent]
Requests  == [id : Ids, kind : Kinds, agent : Agents \union {NoAgent, Unknown}]
Goals     == [id : Ids, lane : Lanes, agent : Agents, result : {"none", "ok", "failed"}]
Alive     == life \in {"running", "stopping"}

Init ==
    /\ queue = [l \in Lanes |-> << >>]
    /\ stage = [l \in Lanes |-> "idle"] /\ inHand = [l \in Lanes |-> NoRequest]
    /\ proxies = {} /\ connected = {} /\ clients = [l \in Side |-> {}]
    /\ active = NoAgent
    /\ node = [a \in Agents |-> IF a \in External THEN "starting" ELSE "none"]
    /\ goals = {} /\ executed = {} /\ answers = [i \in Ids |-> << >>] /\ posted = 0
    /\ life = "running" /\ ended = {}

\* What a lane does when it has dealt with a request: wait for the next one, or
\* leave its loop.
Free(l) ==
    /\ stage' = [stage EXCEPT ![l] = "idle"]
    /\ inHand' = [inHand EXCEPT ![l] = NoRequest]
    /\ ended' = IF life = "stopping" THEN ended \union {l} ELSE ended

publishResult(id, success) == answers' = [answers EXCEPT ![id] = Append(@, success)]

\* Terminating the process of a proxy; a remote node is only disconnected.
Terminated(nodes, S) ==
    [a \in Agents |-> IF a \in S \intersect Python THEN "none" ELSE nodes[a]]

-----------------------------------------------------------------------------
(* Requests come in, from any thread of the host.                           *)

Post(l, kind, a) ==
    /\ Alive /\ posted < MaxRequests /\ (kind # "release" => posted < MaxCommands)
    /\ posted' = posted + 1
    /\ queue' = [queue EXCEPT ![l] =
                    Append(@, [id |-> posted + 1, kind |-> kind, agent |-> a])]
    /\ UNCHANGED <<stage, inHand, ended, agentVars, node, goals, executed, answers, life>>

\* Mutant: one thread serves all the queues.
SharedWorker(l) == \A other \in Lanes : stage[other] = "idle"

OwnWorker(l) == stage[l] = "idle"

Take(l, kinds) == /\ Alive /\ OwnWorker(l) /\ l \notin ended
                  /\ queue[l] # << >> /\ Head(queue[l]).kind \in kinds
                  /\ queue' = [queue EXCEPT ![l] = Tail(@)]

\* Whom a request is for.  Only commands of the normal lane may name nobody.
Target(l) == LET m == Head(queue[l]) IN
    IF l = "normal" /\ m.kind # "activate" /\ m.agent = NoAgent THEN active ELSE m.agent

\* No agent, or one that cannot be loaded.
Refuse(l) ==
    /\ Take(l, Kinds \ {"release"})
    /\ Target(l) \notin Agents
    /\ publishResult(Head(queue[l]).id, FALSE)
    /\ Free(l)
    /\ UNCHANGED <<agentVars, node, goals, executed, posted, life>>

-----------------------------------------------------------------------------
(* Agents that are a directory of scripts.                                  *)

LocalAnswer(l) ==
    /\ Take(l, {"estop"}) /\ Target(l) \in Local
    /\ executed' = executed \union {Head(queue[l]).id}
    /\ publishResult(Head(queue[l]).id, TRUE)
    /\ Free(l)
    /\ UNCHANGED <<agentVars, node, goals, posted, life>>

LocalStart(l) ==
    /\ Take(l, {"cmd"}) /\ Target(l) \in Local
    /\ stage' = [stage EXCEPT ![l] = "script"]
    /\ inHand' = [inHand EXCEPT ![l] = [Head(queue[l]) EXCEPT !.agent = Target(l)]]
    /\ UNCHANGED <<ended, agentVars, node, goals, executed, answers, posted, life>>

\* It is missing, exits, or is terminated after the timeout.
LocalEnd(l, success) ==
    /\ Alive /\ stage[l] = "script"
    /\ executed' = IF success THEN executed \union {inHand[l].id} ELSE executed
    /\ publishResult(inHand[l].id, success)
    /\ Free(l)
    /\ UNCHANGED <<queue, agentVars, node, goals, posted, life>>

-----------------------------------------------------------------------------
(* The normal lane: proxies and their processes.                            *)

\* Mutant: the agent that was active keeps running.
LeavesNothing(kind, a) == {}

\* Activating another agent disconnects the active one, before anything else.
Leaves(kind, a) ==
    IF kind = "activate" /\ active # a THEN {active} \intersect proxies ELSE {}

\* A process is launched unless there is one, dead or alive; that may throw.
Launched(nodes, a) ==
    IF a \in Python /\ nodes[a] = "none" THEN {"starting", "none"} ELSE {nodes[a]}

Begin ==
    /\ Take("normal", {"activate", "cmd", "estop"})
    /\ LET m    == Head(queue["normal"])
           a    == Target("normal")
           left == Leaves(m.kind, a)
           down == Terminated(node, left)
       IN  /\ a \in Agents /\ (m.kind # "activate" => a \notin Local)
           /\ proxies' = proxies \union {a}
           /\ connected' = connected \ left
           /\ IF a \in connected THEN node' = down
              ELSE \E state \in Launched(down, a) : node' = [down EXCEPT ![a] = state]
           /\ stage' = [stage EXCEPT !["normal"] =
                           IF a \in connected THEN "reached" ELSE "connect"]
           /\ inHand' = [inHand EXCEPT !["normal"] = [m EXCEPT !.agent = a]]
    /\ UNCHANGED <<ended, clients, active, goals, executed, answers, posted, life>>

\* The health and the priority lane keep a client per agent.
BeginSide(l) ==
    /\ Take(l, {"cmd", "estop"}) /\ Target(l) \in Agents \ Local
    /\ clients' = [clients EXCEPT ![l] = @ \union {Target(l)}]
    /\ stage' = [stage EXCEPT ![l] = "connect"]
    /\ inHand' = [inHand EXCEPT ![l] = Head(queue[l])]
    /\ UNCHANGED <<ended, proxies, connected, active, node, goals, executed, answers,
                   posted, life>>

-----------------------------------------------------------------------------
(* Reaching the node, and the command itself.                               *)

\* The node's port accepts a connection.
Reach(l) ==
    /\ Alive /\ stage[l] = "connect" /\ node[inHand[l].agent] = "up"
    /\ stage' = [stage EXCEPT ![l] = "reached"]
    /\ connected' = IF l = "normal" THEN connected \union {inHand[l].agent} ELSE connected
    /\ UNCHANGED <<queue, inHand, ended, proxies, clients, active, node, goals, executed,
                   answers, posted, life>>

\* Mutant: having answered, the lane goes on as if the node had been reached.
AnswerAndGoOn(l) == /\ stage' = [stage EXCEPT ![l] = "reached"]
                    /\ UNCHANGED <<inHand, ended>>

AnswerAndReturn(l) == Free(l)

\* The lane's client of the agent is dropped.
Dropped(l) ==
    IF l = "normal" THEN clients ELSE [clients EXCEPT ![l] = @ \ {inHand[l].agent}]

\* It does not, for as long as the lane tries.
ReachFails(l) ==
    /\ Alive /\ stage[l] = "connect"
    /\ clients' = Dropped(l)
    /\ publishResult(inHand[l].id, FALSE)
    /\ AnswerAndReturn(l)
    /\ UNCHANGED <<queue, proxies, connected, active, node, goals, executed, posted, life>>

Activated ==
    /\ Alive /\ stage["normal"] = "reached" /\ inHand["normal"].kind = "activate"
    /\ active' = inHand["normal"].agent
    /\ executed' = executed \union {inHand["normal"].id}
    /\ publishResult(inHand["normal"].id, TRUE)
    /\ Free("normal")
    /\ UNCHANGED <<queue, proxies, connected, clients, node, goals, posted, life>>

SendGoal(l) ==
    /\ Alive /\ stage[l] = "reached" /\ inHand[l].kind # "activate"
    /\ goals' = goals \union {[id |-> inHand[l].id, lane |-> l, agent |-> inHand[l].agent,
                               result |-> "none"]}
    /\ stage' = [stage EXCEPT ![l] = "sent"]
    /\ UNCHANGED <<queue, inHand, ended, agentVars, node, executed, answers, posted, life>>

\* A node carries out a goal, or fails to; its result is on the way.
Perform(g) ==
    /\ g.result = "none" /\ node[g.agent] = "up"
    /\ \E result \in {"ok", "failed"} :
          /\ goals' = (goals \ {g}) \union {[g EXCEPT !.result = result]}
          /\ executed' = IF result = "ok" THEN executed \union {g.id} ELSE executed
    /\ UNCHANGED <<lanesVars, agentVars, node, answers, posted, life>>

\* Mutant: what the callback fills in belongs to the client, not to the call.
AwaitsAny(g) == stage[g.lane] = "sent" /\ inHand[g.lane].agent = g.agent

\* The call that made the goal is still waiting: it has not been abandoned.
Awaits(g) == stage[g.lane] = "sent" /\ inHand[g.lane].id = g.id

\* The client that sent the goal has not been destroyed.
Listens(g) == g.lane = "normal" \/ g.agent \in clients[g.lane]

Callback(g) ==
    /\ Alive /\ g.result # "none"
    /\ goals' = goals \ {g}
    /\ stage' = IF Awaits(g) /\ Listens(g) THEN [stage EXCEPT ![g.lane] = g.result] ELSE stage
    /\ UNCHANGED <<queue, inHand, ended, agentVars, node, executed, answers, posted, life>>

CommandResult(l) ==
    /\ Alive /\ stage[l] \in {"ok", "failed"}
    /\ publishResult(inHand[l].id, stage[l] = "ok")
    /\ Free(l)
    /\ UNCHANGED <<queue, agentVars, node, goals, executed, posted, life>>

\* No result in time, or sendGoal throws, which sendCommand catches.
CommandFails(l) ==
    /\ Alive
    /\ stage[l] = "sent" \/ (stage[l] = "reached" /\ inHand[l].kind # "activate")
    /\ publishResult(inHand[l].id, FALSE)
    /\ Free(l)
    /\ UNCHANGED <<queue, agentVars, node, goals, executed, posted, life>>

\* Something else throws in the lane, before the goal or with its result (a
\* payload that is not an object, a text that cannot be dumped): a lane with
\* clients of its own drops this agent's, whatever the node has done.
CommandThrows(l) ==
    /\ Alive
    /\ stage[l] \in {"ok", "failed"} \/ (stage[l] = "reached" /\ inHand[l].kind # "activate")
    /\ clients' = Dropped(l)
    /\ publishResult(inHand[l].id, FALSE)
    /\ Free(l)
    /\ UNCHANGED <<queue, proxies, connected, active, node, goals, executed, posted, life>>

-----------------------------------------------------------------------------
(* Releasing, stopping, and the nodes.                                      *)

\* Mutant: every agent is released.
AllReleased == proxies

Released == proxies \ {active}

LeftConnected == connected \ Released

\* Another lane is in the middle of a call on the client of such an agent.
Pulled(S) == \E l \in Side : /\ stage[l] \in {"connect", "reached", "sent"}
                             /\ inHand[l].agent \in S \intersect clients[l]

\* What a lane does with a client that is destroyed under it is undefined: the
\* program may go on as if nothing had happened, or crash.
doReleaseInactiveAgents ==
    /\ Take("normal", {"release"})
    /\ proxies' = proxies \ Released /\ connected' = LeftConnected
    /\ clients' = [l \in Side |-> clients[l] \ Released]
    /\ node' = Terminated(node, Released)
    /\ life' \in IF Pulled(Released) THEN {life, "crashed"} ELSE {life}
    /\ Free("normal")
    /\ UNCHANGED <<active, goals, executed, answers, posted>>

stop == /\ life = "running" /\ life' = "stopping"
        /\ UNCHANGED <<lanesVars, agentVars, node, goals, executed, answers, posted>>

LeaveLoop(l) ==
    /\ life = "stopping" /\ stage[l] = "idle" /\ l \notin ended
    /\ ended' = ended \union {l}
    /\ UNCHANGED <<queue, stage, inHand, agentVars, node, goals, executed, answers, posted,
                   life>>

\* Mutant: only the active agent's process is ended.
EndsActiveOnly == {active} \intersect proxies

EndsAll == proxies

\* stop() has joined the three threads.
doShutdownAgent ==
    /\ life = "stopping" /\ ended = Lanes
    /\ life' = "stopped"
    /\ node' = Terminated(node, EndsAll)
    /\ proxies' = {} /\ connected' = {} /\ clients' = [l \in Side |-> {}]
    /\ active' = NoAgent
    /\ UNCHANGED <<lanesVars, goals, executed, answers, posted>>

\* A node comes up, or goes down; a process that went down stays dead.
NodeUp(a) == /\ node[a] = "starting" /\ node' = [node EXCEPT ![a] = "up"]
             /\ UNCHANGED <<lanesVars, agentVars, goals, executed, answers, posted, life>>

NodeDown(a) ==
    /\ node[a] \in {"starting", "up"}
    /\ node' = [node EXCEPT ![a] = IF a \in Python THEN "dead" ELSE "starting"]
    /\ UNCHANGED <<lanesVars, agentVars, goals, executed, answers, posted, life>>

-----------------------------------------------------------------------------
LaneStep(l) ==
    \/ Refuse(l) \/ LocalAnswer(l) \/ LocalStart(l)
    \/ \E success \in BOOLEAN : LocalEnd(l, success)
    \/ Reach(l) \/ ReachFails(l) \/ SendGoal(l) \/ CommandResult(l) \/ CommandFails(l)
    \/ CommandThrows(l) \/ LeaveLoop(l)
    \/ l \in Side /\ BeginSide(l)
    \/ l = "normal" /\ (Begin \/ Activated \/ doReleaseInactiveAgents)

Next ==
    \/ \E ask \in Asks : Post(ask[1], ask[2], ask[3])
    \/ \E l \in Lanes : LaneStep(l)
    \/ \E g \in goals : Perform(g) \/ Callback(g)
    \/ stop \/ doShutdownAgent
    \/ \E a \in Agents : NodeUp(a) \/ NodeDown(a)

Spec == Init /\ [][Next]_vars

-----------------------------------------------------------------------------
(* Properties.                                                              *)

TypeOK ==
    /\ queue \in [Lanes -> Seq(Requests)]
    /\ stage \in [Lanes -> {"idle", "script", "connect", "reached", "sent", "ok", "failed"}]
    /\ inHand \in [Lanes -> Requests \union {NoRequest}]
    /\ \A l \in Lanes : stage[l] # "idle" => inHand[l].id \in Ids /\ inHand[l].agent \in Agents
    /\ proxies \subseteq Agents /\ connected \subseteq proxies
    /\ clients \in [Side -> SUBSET Agents]
    /\ active \in Agents \union {NoAgent}
    /\ node \in [Agents -> {"none", "starting", "up", "dead"}]
    /\ goals \subseteq Goals
    /\ executed \subseteq Ids
    /\ answers \in [Ids -> Seq(BOOLEAN)]
    /\ posted \in 0..MaxRequests
    /\ life \in {"running", "stopping", "stopped", "crashed"}
    /\ ended \subseteq Lanes

\* Every activation and command is answered at most once, whatever fails on its
\* way, and "success" means that the node carried out this very request: a result
\* that comes after the timeout is never taken for the answer to the next one
\* (sendCommand, publishResult).
asked == 1..posted
Service == INSTANCE CommandService WITH Requests <- Ids
KeepsPromise == Service!Spec

\* After stop() no node process launched by the manager is left, also not that of
\* an agent whose activation failed or that only commands were sent to.
NothingLeft == life = "stopped" => \A a \in Python : node[a] = "none"

\* When another agent becomes active, the process of the one before has been
\* stopped, and nothing that came in between started it again (PLAN.md:575).
SwitchStopsOld ==
    [][active # active' /\ active' # NoAgent /\ active \in Python
          => node'[active] = "none"]_vars

\* The manager ends the process of the active agent only to activate another, or
\* at the end: never to release inactive agents, however late that comes.
ActiveSpared ==
    [][\A a \in Python : (a = active /\ node[a] # "none" /\ node'[a] = "none")
          => \/ inHand'["normal"].kind = "activate" /\ inHand'["normal"].agent # a
             \/ life' = "stopped"]_vars

\* A lane gets to its requests and answers them whatever the other lanes are
\* blocked in: an emergency stop does not wait for a long command.  Only the end
\* of the manager, or a crash, keeps it from that.
Served(l) ==
    \A i \in Ids :
        (/\ \E k \in DOMAIN queue[l] : queue[l][k].id = i /\ queue[l][k].kind # "release")
            ~> (answers[i] # << >> \/ life # "running")

EachLaneServes == \A l \in Lanes : WF_vars(LaneStep(l)) => Served(l)

\* What the notes say of the clients of the health and the priority lane: they are
\* long-lived and kept by the lane itself (学习记录.md:665).  A call then never
\* loses its client on its way.
InCall(l) == stage[l] \in {"connect", "reached", "sent"}

ClientKept == \A l \in Side :
                 (/\ InCall(l) /\ inHand[l].agent \in clients[l]
                  /\ InCall(l)' /\ inHand'[l] = inHand[l])
                    => inHand[l].agent \in clients'[l]

ClientOutlivesCall == [][ClientKept]_vars
=============================================================================
