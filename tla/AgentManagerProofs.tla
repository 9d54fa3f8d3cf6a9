------------------------- MODULE AgentManagerProofs -------------------------
(***************************************************************************)
(* Proofs about AgentManager, for any agents and any number of requests:   *)
(* its types, that it implements CommandService, that stopping leaves no   *)
(* process, and what switching and releasing do to the active agent.       *)
(***************************************************************************)
EXTENDS AgentManager, TLAPS

\* A thread leaves its loop with nothing in hand; the normal lane works with a
\* proxy, and only it erases proxies.
LanesInv ==
    /\ \A l \in ended : stage[l] = "idle"
    /\ stage["normal"] \in {"connect", "reached"} => inHand["normal"].agent \in proxies

\* A request is in one queue or in one lane's hand, and then has no answer.
QueueFresh ==
    \A l \in Lanes : \A k \in DOMAIN queue[l] :
        queue[l][k].id \in 1..posted /\ answers[queue[l][k].id] = << >>

QueueDistinct ==
    \A l, m \in Lanes : \A j \in DOMAIN queue[l], k \in DOMAIN queue[m] :
        queue[l][j].id = queue[m][k].id => l = m /\ j = k

HandFresh ==
    \A l \in Lanes : stage[l] # "idle" =>
        /\ inHand[l].id \in 1..posted /\ answers[inHand[l].id] = << >>
        /\ \A m \in Lanes : \A k \in DOMAIN queue[m] : queue[m][k].id # inHand[l].id

HandDistinct ==
    \A l, m \in Lanes :
        stage[l] # "idle" /\ stage[m] # "idle" /\ inHand[l].id = inHand[m].id => l = m

\* Nothing happened yet for requests still to come.
PastOnly ==
    /\ \A i \in Ids : i > posted => answers[i] = << >>
    /\ executed \subseteq 1..posted
    /\ \A g \in goals : g.id \in 1..posted

\* A result that says "ok" stands for a goal that was carried out.
ResultsTrue ==
    /\ \A l \in Lanes : stage[l] = "ok" => inHand[l].id \in executed
    /\ \A g \in goals : g.result = "ok" => g.id \in executed

\* Processes belong to proxies, and a stopped manager has none.
NodesOwned ==
    /\ \A a \in Python : node[a] # "none" => a \in proxies
    /\ life = "stopped" => proxies = {}

\* While another agent is being activated the active one has no process.
SwitchInv ==
    stage["normal"] \in {"connect", "reached"} /\ inHand["normal"].kind = "activate"
       /\ inHand["normal"].agent # active /\ active \in Python
          => node[active] = "none"

Fresh == QueueFresh /\ QueueDistinct /\ HandFresh /\ HandDistinct

IInv == TypeOK /\ LanesInv /\ Fresh /\ PastOnly /\ ResultsTrue /\ NodesOwned /\ SwitchInv

-----------------------------------------------------------------------------
(* Queues.                                                                  *)

LEMMA TakeQueue ==
  ASSUME TypeOK, NEW l \in Lanes, NEW kinds, Take(l, kinds)
  PROVE  /\ queue' \in [Lanes -> Seq(Requests)]
         /\ Head(queue[l]) \in Requests
         /\ 1 \in DOMAIN queue[l] /\ Head(queue[l]) = queue[l][1]
         /\ Head(queue[l]).kind \in kinds
         /\ \A m \in Lanes : m # l => queue'[m] = queue[m]
         /\ \A k \in DOMAIN queue'[l] : /\ k + 1 \in DOMAIN queue[l] /\ k + 1 # 1
                                        /\ queue'[l][k] = queue[l][k + 1]
<1>1. queue \in [Lanes -> Seq(Requests)] /\ queue[l] # << >>
      /\ queue' = [queue EXCEPT ![l] = Tail(@)] /\ Head(queue[l]).kind \in kinds
  BY DEF TypeOK, Take
<1>2. queue[l] \in Seq(Requests) /\ queue'[l] = Tail(queue[l])
  BY <1>1
<1>3. Tail(queue[l]) \in Seq(Requests) /\ Head(queue[l]) \in Requests
      /\ 1 \in DOMAIN queue[l] /\ Head(queue[l]) = queue[l][1]
  BY <1>1, <1>2
<1>4. \A k \in DOMAIN Tail(queue[l]) : /\ k + 1 \in DOMAIN queue[l] /\ k + 1 # 1
                                       /\ Tail(queue[l])[k] = queue[l][k + 1]
  BY <1>1, <1>2
<1>5. QED
  BY <1>1, <1>2, <1>3, <1>4

LEMMA PostQueue ==
  ASSUME TypeOK, NEW ask \in Asks, Post(ask[1], ask[2], ask[3])
  PROVE  /\ queue' \in [Lanes -> Seq(Requests)] /\ ask[1] \in Lanes
         /\ posted + 1 \in Ids
         /\ \A m \in Lanes : m # ask[1] => queue'[m] = queue[m]
         /\ \A k \in DOMAIN queue'[ask[1]] :
               \/ /\ k \in DOMAIN queue[ask[1]]
                  /\ queue'[ask[1]][k] = queue[ask[1]][k]
               \/ /\ k = Len(queue[ask[1]]) + 1
                  /\ queue'[ask[1]][k].id = posted + 1
<1> DEFINE l == ask[1]
           r == [id |-> posted + 1, kind |-> ask[2], agent |-> ask[3]]
<1>1. l \in Lanes /\ ask[2] \in Kinds /\ ask[3] \in Agents \union {NoAgent, Unknown}
  BY ManagerAssumption DEF Lanes, Side, Kinds
<1>2. posted \in 0..MaxRequests /\ posted < MaxRequests /\ MaxRequests \in Nat
  BY ManagerAssumption DEF TypeOK, Post
<1>3. posted + 1 \in Ids
  BY <1>2 DEF Ids
<1>4. r \in Requests
  BY <1>1, <1>3 DEF Requests
<1>5. queue \in [Lanes -> Seq(Requests)] /\ queue' = [queue EXCEPT ![l] = Append(@, r)]
  BY DEF TypeOK, Post
<1>6. queue[l] \in Seq(Requests) /\ queue'[l] = Append(queue[l], r)
  BY <1>1, <1>5
<1>7. Append(queue[l], r) \in Seq(Requests)
  BY <1>4, <1>6
<1>8. \A k \in DOMAIN Append(queue[l], r) :
         \/ k \in DOMAIN queue[l] /\ Append(queue[l], r)[k] = queue[l][k]
         \/ k = Len(queue[l]) + 1 /\ Append(queue[l], r)[k] = r
  BY <1>6
<1>9. QED
  BY <1>1, <1>3, <1>5, <1>6, <1>7, <1>8

LEMMA FreeType ==
  ASSUME TypeOK, NEW l \in Lanes, Free(l)
  PROVE  /\ stage' \in [Lanes -> {"idle", "script", "connect", "reached", "sent", "ok", "failed"}]
         /\ inHand' \in [Lanes -> Requests \union {NoRequest}]
         /\ ended' \subseteq Lanes
         /\ stage'[l] = "idle" /\ ended' \subseteq ended \union {l}
         /\ \A m \in Lanes : m # l => stage'[m] = stage[m] /\ inHand'[m] = inHand[m]
  BY DEF TypeOK, Free

LEMMA AnswerType ==
  ASSUME TypeOK, NEW i \in Ids, NEW success \in BOOLEAN, publishResult(i, success)
  PROVE  /\ answers' \in [Ids -> Seq(BOOLEAN)]
         /\ \A j \in Ids : j # i => answers'[j] = answers[j]
<1>1. answers \in [Ids -> Seq(BOOLEAN)] /\ answers' = [answers EXCEPT ![i] = Append(@, success)]
  BY DEF TypeOK, publishResult
<1>2. Append(answers[i], success) \in Seq(BOOLEAN)
  BY <1>1
<1>3. QED
  BY <1>1, <1>2

-----------------------------------------------------------------------------
(* Types.                                                                   *)

LEMMA InitType == Init => TypeOK
<1> SUFFICES ASSUME Init PROVE TypeOK
  OBVIOUS
<1>1. \A S : << >> \in Seq(S)
  OBVIOUS
<1>2. NoAgent \notin Agents /\ MaxRequests \in Nat
  BY ManagerAssumption
<1>3. QED
  BY <1>1, <1>2 DEF Init, TypeOK, Side, Lanes

LEMMA TargetType ==
  ASSUME TypeOK, NEW l \in Lanes, NEW kinds, Take(l, kinds), Target(l) \in Agents
  PROVE  /\ Head(queue[l]).id \in Ids
         /\ [Head(queue[l]) EXCEPT !.agent = Target(l)] \in Requests
         /\ [Head(queue[l]) EXCEPT !.agent = Target(l)].id = Head(queue[l]).id
         /\ [Head(queue[l]) EXCEPT !.agent = Target(l)].kind = Head(queue[l]).kind
         /\ [Head(queue[l]) EXCEPT !.agent = Target(l)].agent = Target(l)
<1>1. Head(queue[l]) \in Requests
  BY TakeQueue
<1>2. QED
  BY <1>1 DEF Requests

LEMMA TypeStep == TypeOK /\ LanesInv /\ [Next]_vars => TypeOK'
<1> SUFFICES ASSUME TypeOK, LanesInv, [Next]_vars PROVE TypeOK'
  OBVIOUS
<1>1. ASSUME NEW ask \in Asks, Post(ask[1], ask[2], ask[3]) PROVE TypeOK'
  <2>1. queue' \in [Lanes -> Seq(Requests)] /\ posted + 1 \in Ids
    BY <1>1, PostQueue
  <2>2. QED
    BY <1>1, <2>1 DEF TypeOK, Post, agentVars, Ids
<1>2. ASSUME NEW l \in Lanes, Refuse(l) PROVE TypeOK'
  <2>1. Head(queue[l]) \in Requests /\ queue' \in [Lanes -> Seq(Requests)]
    BY <1>2, TakeQueue DEF Refuse
  <2>2. Head(queue[l]).id \in Ids
    BY <2>1 DEF Requests
  <2>3. answers' \in [Ids -> Seq(BOOLEAN)]
    BY <1>2, <2>2, AnswerType DEF Refuse
  <2>4. QED
    BY <1>2, <2>1, <2>3, FreeType DEF TypeOK, Refuse, agentVars
<1>3. ASSUME NEW l \in Lanes, LocalAnswer(l) PROVE TypeOK'
  <2>1. Head(queue[l]) \in Requests /\ queue' \in [Lanes -> Seq(Requests)]
    BY <1>3, TakeQueue DEF LocalAnswer
  <2>2. Head(queue[l]).id \in Ids
    BY <2>1 DEF Requests
  <2>3. answers' \in [Ids -> Seq(BOOLEAN)]
    BY <1>3, <2>2, AnswerType DEF LocalAnswer
  <2>4. QED
    BY <1>3, <2>1, <2>2, <2>3, FreeType DEF TypeOK, LocalAnswer, agentVars
<1>4. ASSUME NEW l \in Lanes, LocalStart(l) PROVE TypeOK'
  <2>1. Target(l) \in Agents /\ Take(l, {"cmd"})
    BY <1>4, ManagerAssumption DEF LocalStart
  <2>2. queue' \in [Lanes -> Seq(Requests)]
    BY <2>1, TakeQueue
  <2>3. QED
    BY <1>4, <2>1, <2>2, TargetType DEF TypeOK, LocalStart, agentVars
<1>5. ASSUME NEW l \in Lanes, NEW success \in BOOLEAN, LocalEnd(l, success) PROVE TypeOK'
  <2>1. inHand[l].id \in Ids
    BY <1>5 DEF TypeOK, LocalEnd
  <2>2. answers' \in [Ids -> Seq(BOOLEAN)]
    BY <1>5, <2>1, AnswerType DEF LocalEnd
  <2>3. QED
    BY <1>5, <2>1, <2>2, FreeType DEF TypeOK, LocalEnd, agentVars
<1>6. ASSUME Begin PROVE TypeOK'
  <2> DEFINE a == Target("normal")
             m == Head(queue["normal"])
             down == Terminated(node, Leaves(m.kind, a))
  <2>1. "normal" \in Lanes /\ a \in Agents /\ Take("normal", {"activate", "cmd", "estop"})
    BY <1>6 DEF Begin, Lanes
  <2>2. queue' \in [Lanes -> Seq(Requests)]
    BY <2>1, TakeQueue
  <2>3. down \in [Agents -> {"none", "starting", "up", "dead"}]
    BY DEF TypeOK, Terminated
  <2>4. Launched(down, a) \subseteq {"none", "starting", "up", "dead"}
    BY <2>1, <2>3 DEF Launched
  <2>5. node' \in [Agents -> {"none", "starting", "up", "dead"}]
    BY <1>6, <2>3, <2>4 DEF Begin
  <2>6. proxies' \subseteq Agents /\ connected' \subseteq proxies'
    BY <1>6, <2>1 DEF Begin, TypeOK
  <2>7. /\ stage' \in [Lanes -> {"idle", "script", "connect", "reached", "sent", "ok", "failed"}]
        /\ inHand' \in [Lanes -> Requests \union {NoRequest}]
        /\ \A l \in Lanes : stage'[l] # "idle" => inHand'[l].id \in Ids /\ inHand'[l].agent \in Agents
    BY <1>6, <2>1, TargetType DEF Begin, TypeOK
  <2>8. QED
    BY <1>6, <2>2, <2>5, <2>6, <2>7 DEF TypeOK, Begin
<1>7. ASSUME NEW l \in Side, BeginSide(l) PROVE TypeOK'
  <2>1. l \in Lanes /\ Take(l, {"cmd", "estop"}) /\ Target(l) \in Agents /\ l # "normal"
    BY <1>7 DEF BeginSide, Lanes, Side
  <2>2. queue' \in [Lanes -> Seq(Requests)] /\ Head(queue[l]) \in Requests
    BY <2>1, TakeQueue
  <2>3. Head(queue[l]).id \in Ids /\ Head(queue[l]).agent = Target(l)
    BY <2>1, <2>2 DEF Requests, Target
  <2>4. clients' \in [Side -> SUBSET Agents]
    BY <1>7, <2>1 DEF BeginSide, TypeOK
  <2>5. QED
    BY <1>7, <2>1, <2>2, <2>3, <2>4 DEF TypeOK, BeginSide
<1>8. ASSUME NEW l \in Lanes, Reach(l) PROVE TypeOK'
  <2>1. inHand[l].agent \in Agents
    BY <1>8 DEF TypeOK, Reach
  <2>2. stage' \in [Lanes -> {"idle", "script", "connect", "reached", "sent", "ok", "failed"}]
        /\ \A m \in Lanes : stage'[m] # "idle" => stage[m] # "idle"
    BY <1>8 DEF TypeOK, Reach
  <2>3. l = "normal" => inHand[l].agent \in proxies
    BY <1>8 DEF LanesInv, Reach
  <2>4. QED
    BY <1>8, <2>1, <2>2, <2>3 DEF TypeOK, Reach
<1>9. ASSUME NEW l \in Lanes, ReachFails(l) PROVE TypeOK'
  <2>1. inHand[l].id \in Ids
    BY <1>9 DEF TypeOK, ReachFails
  <2>2. answers' \in [Ids -> Seq(BOOLEAN)]
    BY <1>9, <2>1, AnswerType DEF ReachFails
  <2>3. clients' \in [Side -> SUBSET Agents]
    BY <1>9 DEF TypeOK, ReachFails, Dropped, Lanes
  <2>4. QED
    BY <1>9, <2>2, <2>3, FreeType DEF TypeOK, ReachFails, AnswerAndReturn
<1>10. ASSUME Activated PROVE TypeOK'
  <2>1. "normal" \in Lanes /\ inHand["normal"].id \in Ids /\ inHand["normal"].agent \in Agents
    BY <1>10 DEF TypeOK, Activated, Lanes
  <2>2. answers' \in [Ids -> Seq(BOOLEAN)]
    BY <1>10, <2>1, AnswerType DEF Activated
  <2>3. executed' \subseteq Ids /\ active' \in Agents
    BY <1>10, <2>1 DEF TypeOK, Activated
  <2>4. /\ stage' \in [Lanes -> {"idle", "script", "connect", "reached", "sent", "ok", "failed"}]
        /\ inHand' \in [Lanes -> Requests \union {NoRequest}] /\ ended' \subseteq Lanes
        /\ \A m \in Lanes : stage'[m] # "idle" => stage'[m] = stage[m] /\ inHand'[m] = inHand[m]
    BY <1>10, <2>1, FreeType DEF Activated
  <2>5. QED
    BY <1>10, <2>2, <2>3, <2>4 DEF TypeOK, Activated
<1>11. ASSUME NEW l \in Lanes, SendGoal(l) PROVE TypeOK'
  <2>1. inHand[l].id \in Ids /\ inHand[l].agent \in Agents
    BY <1>11 DEF TypeOK, SendGoal
  <2>2. goals' \subseteq Goals
    BY <1>11, <2>1 DEF TypeOK, SendGoal, Goals
  <2>3. QED
    BY <1>11, <2>2 DEF TypeOK, SendGoal, agentVars
<1>12. ASSUME NEW g \in goals, Perform(g) PROVE TypeOK'
  <2>1. goals' \subseteq Goals /\ g.id \in Ids
    BY <1>12 DEF TypeOK, Perform, Goals
  <2>2. QED
    BY <1>12, <2>1 DEF TypeOK, Perform, lanesVars, agentVars
<1>13. ASSUME NEW g \in goals, Callback(g) PROVE TypeOK'
  <2>1. g.lane \in Lanes /\ g.result \in {"ok", "failed"}
    BY <1>13 DEF TypeOK, Callback, Goals
  <2>2. QED
    BY <1>13, <2>1 DEF TypeOK, Callback, agentVars, Awaits
<1>14. ASSUME NEW l \in Lanes, CommandResult(l) PROVE TypeOK'
  <2>1. inHand[l].id \in Ids /\ (stage[l] = "ok") \in BOOLEAN
    BY <1>14 DEF TypeOK, CommandResult
  <2>2. answers' \in [Ids -> Seq(BOOLEAN)]
    BY <1>14, <2>1, AnswerType DEF CommandResult
  <2>3. QED
    BY <1>14, <2>2, FreeType DEF TypeOK, CommandResult, agentVars
<1>15. ASSUME NEW l \in Lanes, CommandFails(l) PROVE TypeOK'
  <2>1. inHand[l].id \in Ids
    BY <1>15 DEF TypeOK, CommandFails
  <2>2. answers' \in [Ids -> Seq(BOOLEAN)]
    BY <1>15, <2>1, AnswerType DEF CommandFails
  <2>3. QED
    BY <1>15, <2>2, FreeType DEF TypeOK, CommandFails, agentVars
<1>15a. ASSUME NEW l \in Lanes, CommandThrows(l) PROVE TypeOK'
  <2>1. inHand[l].id \in Ids
    BY <1>15a DEF TypeOK, CommandThrows
  <2>2. answers' \in [Ids -> Seq(BOOLEAN)]
    BY <1>15a, <2>1, AnswerType DEF CommandThrows
  <2>3. clients' \in [Side -> SUBSET Agents]
    BY <1>15a DEF TypeOK, CommandThrows, Dropped, Lanes
  <2>4. QED
    BY <1>15a, <2>2, <2>3, FreeType DEF TypeOK, CommandThrows
<1>16. ASSUME doReleaseInactiveAgents PROVE TypeOK'
  <2>1. "normal" \in Lanes /\ queue' \in [Lanes -> Seq(Requests)]
    BY <1>16, TakeQueue DEF doReleaseInactiveAgents, Lanes
  <2>2. node' \in [Agents -> {"none", "starting", "up", "dead"}]
    BY <1>16 DEF TypeOK, doReleaseInactiveAgents, Terminated
  <2>3. clients' \in [Side -> SUBSET Agents]
    BY <1>16 DEF TypeOK, doReleaseInactiveAgents
  <2>4. proxies' \subseteq Agents /\ connected' \subseteq proxies'
    BY <1>16 DEF TypeOK, doReleaseInactiveAgents, LeftConnected
  <2>5. life' \in {"running", "stopping", "stopped", "crashed"}
    BY <1>16 DEF TypeOK, doReleaseInactiveAgents
  <2>6. QED
    BY <1>16, <2>1, <2>2, <2>3, <2>4, <2>5, FreeType DEF TypeOK, doReleaseInactiveAgents
<1>17. ASSUME stop PROVE TypeOK'
  BY <1>17 DEF TypeOK, stop, lanesVars, agentVars
<1>18. ASSUME NEW l \in Lanes, LeaveLoop(l) PROVE TypeOK'
  BY <1>18 DEF TypeOK, LeaveLoop, agentVars
<1>19. ASSUME doShutdownAgent PROVE TypeOK'
  <2>1. node' \in [Agents -> {"none", "starting", "up", "dead"}]
    BY <1>19 DEF TypeOK, doShutdownAgent, Terminated
  <2>2. QED
    BY <1>19, <2>1 DEF TypeOK, doShutdownAgent, lanesVars
<1>20. ASSUME NEW a \in Agents, NodeUp(a) \/ NodeDown(a) PROVE TypeOK'
  BY <1>20 DEF TypeOK, NodeUp, NodeDown, lanesVars, agentVars
<1>21. CASE UNCHANGED vars
  BY <1>21 DEF TypeOK, vars, lanesVars, agentVars
<1>22. "normal" \in Lanes /\ Side \subseteq Lanes
  BY DEF Lanes
<1>23. QED
  BY <1>1, <1>2, <1>3, <1>4, <1>5, <1>6, <1>7, <1>8, <1>9, <1>10, <1>11, <1>12, <1>13,
     <1>14, <1>15, <1>16, <1>17, <1>18, <1>19, <1>20, <1>21, <1>22, <1>15a DEF Next, LaneStep

LEMMA LanesStep == TypeOK /\ LanesInv /\ [Next]_vars => LanesInv'
<1> SUFFICES ASSUME TypeOK, LanesInv, [Next]_vars PROVE LanesInv'
  OBVIOUS
<1>1. ASSUME NEW l \in Lanes, Free(l), proxies' = proxies PROVE LanesInv'
  <2>1. "normal" \in Lanes
    BY DEF Lanes
  <2>2. ended' \subseteq ended \union {l} /\ ended' \subseteq Lanes /\ stage'[l] = "idle"
        /\ \A m \in Lanes : m # l => stage'[m] = stage[m] /\ inHand'[m] = inHand[m]
    BY <1>1, FreeType
  <2>3. QED
    BY <1>1, <2>1, <2>2 DEF LanesInv
<1>2. ASSUME NEW l \in Lanes, l \notin ended, ended' = ended, proxies \subseteq proxies',
             NEW x, stage' = [stage EXCEPT ![l] = x],
             l = "normal" =>
                (x \in {"connect", "reached"} => inHand'["normal"].agent \in proxies'),
             l # "normal" => inHand'["normal"] = inHand["normal"]
      PROVE  LanesInv'
  BY <1>2 DEF LanesInv, TypeOK, Lanes
<1>3. ASSUME NEW l \in Lanes, LaneStep(l) PROVE LanesInv'
  <2>1. ASSUME Refuse(l) \/ LocalAnswer(l) \/ (\E success \in BOOLEAN : LocalEnd(l, success))
               \/ ReachFails(l) \/ CommandResult(l) \/ CommandFails(l)
               \/ CommandThrows(l)
        PROVE  LanesInv'
    BY <1>1, <2>1
       DEF Refuse, LocalAnswer, LocalEnd, ReachFails, AnswerAndReturn, CommandResult,
           CommandFails, CommandThrows, agentVars
  <2>2. ASSUME LocalStart(l) PROVE LanesInv'
    <3>1. l \notin ended /\ ended' = ended /\ proxies' = proxies
          /\ stage' = [stage EXCEPT ![l] = "script"]
          /\ (l # "normal" => inHand'["normal"] = inHand["normal"])
      BY <2>2 DEF LocalStart, Take, agentVars, TypeOK, Lanes
    <3>2. QED
      BY <1>2, <3>1
  <2>3. ASSUME Reach(l) PROVE LanesInv'
    <3>1. l \notin ended /\ ended' = ended /\ proxies' = proxies /\ inHand' = inHand
          /\ stage' = [stage EXCEPT ![l] = "reached"]
          /\ (l = "normal" => inHand["normal"].agent \in proxies)
      BY <2>3 DEF Reach, LanesInv
    <3>2. QED
      BY <1>2, <3>1
  <2>4. ASSUME SendGoal(l) PROVE LanesInv'
    <3>1. l \notin ended /\ ended' = ended /\ proxies' = proxies /\ inHand' = inHand
          /\ stage' = [stage EXCEPT ![l] = "sent"]
      BY <2>4 DEF SendGoal, LanesInv, agentVars
    <3>2. QED
      BY <1>2, <3>1
  <2>5. ASSUME LeaveLoop(l) PROVE LanesInv'
    BY <2>5 DEF LeaveLoop, LanesInv, agentVars
  <2>6. ASSUME l \in Side, BeginSide(l) PROVE LanesInv'
    <3>1. l # "normal" /\ l \notin ended /\ ended' = ended /\ proxies' = proxies
          /\ stage' = [stage EXCEPT ![l] = "connect"]
          /\ inHand'["normal"] = inHand["normal"]
      BY <2>6 DEF BeginSide, Take, TypeOK, Lanes, Side
    <3>2. QED
      BY <1>2, <3>1
  <2>7. ASSUME Begin PROVE LanesInv'
    <3> DEFINE x == IF Target("normal") \in connected THEN "reached" ELSE "connect"
    <3>1. "normal" \in Lanes /\ "normal" \notin ended /\ ended' = ended
          /\ Target("normal") \in Agents /\ Take("normal", {"activate", "cmd", "estop"})
          /\ proxies' = proxies \union {Target("normal")}
          /\ stage' = [stage EXCEPT !["normal"] = x]
          /\ inHand' = [inHand EXCEPT !["normal"] =
                            [Head(queue["normal"]) EXCEPT !.agent = Target("normal")]]
      BY <2>7 DEF Begin, Take, Lanes
    <3>2. inHand'["normal"].agent = Target("normal")
      BY <3>1, TargetType DEF TypeOK
    <3>3. proxies \subseteq proxies' /\ inHand'["normal"].agent \in proxies'
      BY <3>1, <3>2
    <3> HIDE DEF x
    <3>4. QED
      BY <1>2, <3>1, <3>3
  <2>8. ASSUME Activated PROVE LanesInv'
    BY <1>1, <2>8 DEF Activated, Lanes
  <2>9. ASSUME doReleaseInactiveAgents PROVE LanesInv'
    BY <2>9, FreeType DEF doReleaseInactiveAgents, LanesInv, Lanes
  <2>10. QED
    BY <1>3, <2>1, <2>2, <2>3, <2>4, <2>5, <2>6, <2>7, <2>8, <2>9 DEF LaneStep
<1>4. ASSUME NEW g \in goals, Callback(g) PROVE LanesInv'
  BY <1>4 DEF Callback, Awaits, LanesInv, TypeOK, Goals, agentVars, Lanes
<1>5. ASSUME doShutdownAgent PROVE LanesInv'
  BY <1>5 DEF doShutdownAgent, LanesInv, lanesVars, Lanes
<1>6. ASSUME \/ \E ask \in Asks : Post(ask[1], ask[2], ask[3])
             \/ \E g \in goals : Perform(g)
             \/ stop
             \/ \E a \in Agents : NodeUp(a) \/ NodeDown(a)
             \/ UNCHANGED vars
      PROVE  LanesInv'
  BY <1>6 DEF Post, Perform, stop, NodeUp, NodeDown, vars, lanesVars, agentVars, LanesInv
<1>7. QED
  BY <1>3, <1>4, <1>5, <1>6 DEF Next

\* The manager's variables keep their ranges.
THEOREM TypeCorrect == Spec => []TypeOK
<1>1. Init => TypeOK /\ LanesInv
  BY InitType DEF Init, LanesInv, Lanes
<1>2. TypeOK /\ LanesInv /\ [Next]_vars => (TypeOK /\ LanesInv)'
  BY TypeStep, LanesStep
<1>3. QED
  BY <1>1, <1>2, PTL DEF Spec

-----------------------------------------------------------------------------
(* Requests are answered once.                                              *)

LEMMA Taken ==
  ASSUME TypeOK, Fresh, NEW l \in Lanes, NEW kinds, Take(l, kinds)
  PROVE  LET i == Head(queue[l]).id IN
         /\ i \in 1..posted /\ i \in Ids /\ answers[i] = << >>
         /\ \A m \in Lanes : stage[m] # "idle" => inHand[m].id # i
         /\ QueueDistinct'
         /\ \A m \in Lanes : \A k \in DOMAIN queue'[m] :
               /\ queue'[m][k].id \in 1..posted /\ queue'[m][k].id # i
               /\ answers[queue'[m][k].id] = << >>
               /\ \E n \in Lanes : \E j \in DOMAIN queue[n] : queue'[m][k].id = queue[n][j].id
<1> DEFINE i == Head(queue[l]).id
<1>1. /\ 1 \in DOMAIN queue[l] /\ Head(queue[l]) = queue[l][1] /\ Head(queue[l]) \in Requests
      /\ \A m \in Lanes : m # l => queue'[m] = queue[m]
      /\ \A k \in DOMAIN queue'[l] : /\ k + 1 \in DOMAIN queue[l] /\ k + 1 # 1
                                     /\ queue'[l][k] = queue[l][k + 1]
  BY TakeQueue
<1>2. \A k \in DOMAIN queue'[l] : k \in Nat
  <2>1. queue'[l] \in Seq(Requests)
    BY TakeQueue
  <2>2. QED
    BY <2>1
<1>3. i \in Ids
  BY <1>1 DEF Requests
<1>4. i \in 1..posted /\ answers[i] = << >>
  BY <1>1 DEF Fresh, QueueFresh
<1>5. \A m \in Lanes : stage[m] # "idle" => inHand[m].id # i
  BY <1>1 DEF Fresh, HandFresh
<1>6. \A m \in Lanes : \A k \in DOMAIN queue'[m] :
         \E j \in DOMAIN queue[m] : queue'[m][k] = queue[m][j] /\ ~(m = l /\ j = 1)
  BY <1>1
<1>7. \A m \in Lanes : \A k \in DOMAIN queue'[m] : queue'[m][k].id # i
  BY <1>1, <1>6 DEF Fresh, QueueDistinct
<1>8. QueueDistinct'
  <2> SUFFICES ASSUME NEW m \in Lanes, NEW n \in Lanes,
                      NEW j \in DOMAIN queue'[m], NEW k \in DOMAIN queue'[n],
                      queue'[m][j].id = queue'[n][k].id
               PROVE  m = n /\ j = k
    BY DEF QueueDistinct
  <2>1. CASE m = l /\ n = l
    <3>1. j + 1 = k + 1
      BY <1>1, <2>1 DEF Fresh, QueueDistinct
    <3>2. QED
      BY <1>2, <2>1, <3>1
  <2>2. CASE ~(m = l /\ n = l)
    BY <1>1, <2>2 DEF Fresh, QueueDistinct
  <2>3. QED
    BY <2>1, <2>2
<1>9. \A m \in Lanes : \A k \in DOMAIN queue'[m] :
         queue'[m][k].id \in 1..posted /\ answers[queue'[m][k].id] = << >>
  BY <1>6 DEF Fresh, QueueFresh
<1>10. QED
  BY <1>3, <1>4, <1>5, <1>6, <1>7, <1>8, <1>9

\* A lane answers what it has in hand.
LEMMA AnswerHand ==
  ASSUME TypeOK, Fresh, NEW l \in Lanes, stage[l] # "idle", NEW success \in BOOLEAN,
         publishResult(inHand[l].id, success), Free(l), queue' = queue, posted' = posted
  PROVE  Fresh'
<1>1. inHand[l].id \in Ids
  BY DEF TypeOK
<1>2. /\ stage'[l] = "idle"
      /\ \A m \in Lanes : m # l => stage'[m] = stage[m] /\ inHand'[m] = inHand[m]
  BY FreeType
<1>3. \A j \in Ids : j # inHand[l].id => answers'[j] = answers[j]
  BY <1>1, AnswerType
<1>4. queue \in [Lanes -> Seq(Requests)] /\ \A m \in Lanes : stage[m] # "idle" => inHand[m].id \in Ids
  BY DEF TypeOK
<1>5. \A m \in Lanes : \A k \in DOMAIN queue[m] : queue[m][k].id \in Ids
  <2> SUFFICES ASSUME NEW m \in Lanes, NEW k \in DOMAIN queue[m] PROVE queue[m][k] \in Requests
    BY DEF Requests
  <2>1. queue[m] \in Seq(Requests)
    BY <1>4
  <2>2. QED
    BY <2>1
<1>6. QueueFresh'
  BY <1>3, <1>5 DEF Fresh, QueueFresh, HandFresh
<1>7. HandFresh'
  BY <1>2, <1>3, <1>4 DEF Fresh, HandFresh, HandDistinct
<1>8. HandDistinct' /\ QueueDistinct'
  BY <1>2 DEF Fresh, HandDistinct, QueueDistinct
<1>9. QED
  BY <1>6, <1>7, <1>8 DEF Fresh

\* A lane answers a request as soon as it has taken it, or needs not answer.
LEMMA AnswerHead ==
  ASSUME TypeOK, Fresh, NEW l \in Lanes, NEW kinds, Take(l, kinds), Free(l), posted' = posted,
         \/ answers' = answers
         \/ \E success \in BOOLEAN : publishResult(Head(queue[l]).id, success)
  PROVE  Fresh'
<1> DEFINE i == Head(queue[l]).id
<1>1. /\ i \in Ids /\ QueueDistinct'
      /\ \A m \in Lanes : stage[m] # "idle" => inHand[m].id # i
      /\ \A m \in Lanes : \A k \in DOMAIN queue'[m] :
            /\ queue'[m][k].id \in 1..posted /\ queue'[m][k].id # i
            /\ answers[queue'[m][k].id] = << >>
            /\ \E n \in Lanes : \E j \in DOMAIN queue[n] : queue'[m][k].id = queue[n][j].id
  BY Taken
<1>2. \A j \in Ids : j # i => answers'[j] = answers[j]
  BY <1>1, AnswerType
<1>3. /\ stage'[l] = "idle"
      /\ \A m \in Lanes : m # l => stage'[m] = stage[m] /\ inHand'[m] = inHand[m]
  BY FreeType
<1>4. 1..posted \subseteq Ids /\ \A m \in Lanes : stage[m] # "idle" => inHand[m].id \in Ids
  BY ManagerAssumption DEF TypeOK, Ids
<1>5. QueueFresh'
  BY <1>1, <1>2, <1>4 DEF QueueFresh
<1>6. HandFresh'
  BY <1>1, <1>2, <1>3, <1>4 DEF Fresh, HandFresh
<1>7. HandDistinct'
  BY <1>3 DEF Fresh, HandDistinct
<1>8. QED
  BY <1>1, <1>5, <1>6, <1>7 DEF Fresh

\* A lane takes a request into its hand.
LEMMA TakeInHand ==
  ASSUME TypeOK, Fresh, NEW l \in Lanes, NEW kinds, Take(l, kinds), posted' = posted,
         answers' = answers, NEW x, stage' = [stage EXCEPT ![l] = x],
         NEW r, inHand' = [inHand EXCEPT ![l] = r], r.id = Head(queue[l]).id
  PROVE  Fresh'
<1> DEFINE i == Head(queue[l]).id
<1>1. /\ i \in 1..posted /\ answers[i] = << >> /\ QueueDistinct'
      /\ \A m \in Lanes : stage[m] # "idle" => inHand[m].id # i
      /\ \A m \in Lanes : \A k \in DOMAIN queue'[m] :
            /\ queue'[m][k].id \in 1..posted /\ queue'[m][k].id # i
            /\ answers[queue'[m][k].id] = << >>
            /\ \E n \in Lanes : \E j \in DOMAIN queue[n] : queue'[m][k].id = queue[n][j].id
  BY Taken
<1>2. /\ inHand'[l].id = i
      /\ \A m \in Lanes : m # l => stage'[m] = stage[m] /\ inHand'[m] = inHand[m]
  BY DEF TypeOK
<1>3. QueueFresh'
  BY <1>1 DEF QueueFresh
<1>4. HandFresh'
  BY <1>1, <1>2 DEF Fresh, HandFresh
<1>5. HandDistinct'
  BY <1>1, <1>2 DEF Fresh, HandDistinct
<1>6. QED
  BY <1>1, <1>3, <1>4, <1>5 DEF Fresh

\* A lane, or the callback of its client, goes on with what is in hand.
LEMMA GoOn ==
  ASSUME TypeOK, Fresh, queue' = queue, answers' = answers, posted' = posted, inHand' = inHand,
         \A m \in Lanes : stage'[m] # "idle" => stage[m] # "idle"
  PROVE  Fresh'
  BY DEF Fresh, QueueFresh, QueueDistinct, HandFresh, HandDistinct

LEMMA PostFresh ==
  ASSUME TypeOK, Fresh, PastOnly, NEW ask \in Asks, Post(ask[1], ask[2], ask[3])
  PROVE  Fresh'
<1> DEFINE l == ask[1]
<1>1. /\ l \in Lanes /\ posted + 1 \in Ids
      /\ \A m \in Lanes : m # l => queue'[m] = queue[m]
      /\ \A k \in DOMAIN queue'[l] :
            \/ k \in DOMAIN queue[l] /\ queue'[l][k] = queue[l][k]
            \/ k = Len(queue[l]) + 1 /\ queue'[l][k].id = posted + 1
  BY PostQueue
<1>2. posted \in Nat /\ posted' = posted + 1 /\ answers' = answers /\ stage' = stage
      /\ inHand' = inHand
  BY DEF TypeOK, Post
<1>3. \A m \in Lanes : \A k \in DOMAIN queue'[m] :
         \/ k \in DOMAIN queue[m] /\ queue'[m][k].id = queue[m][k].id
         \/ m = l /\ k = Len(queue[l]) + 1 /\ queue'[m][k].id = posted + 1
  BY <1>1
<1>4. \A m \in Lanes : \A k \in DOMAIN queue[m] : queue[m][k].id # posted + 1
  BY <1>2 DEF Fresh, QueueFresh
<1>5. QueueFresh'
  BY <1>1, <1>2, <1>3 DEF Fresh, QueueFresh, PastOnly
<1>6. QueueDistinct'
  BY <1>3, <1>4 DEF Fresh, QueueDistinct
<1>7. HandFresh'
  BY <1>2, <1>3 DEF Fresh, HandFresh
<1>8. HandDistinct'
  BY <1>2 DEF Fresh, HandDistinct
<1>9. QED
  BY <1>5, <1>6, <1>7, <1>8 DEF Fresh

LEMMA FreshStep == TypeOK /\ Fresh /\ PastOnly /\ [Next]_vars => Fresh'
<1> SUFFICES ASSUME TypeOK, Fresh, PastOnly, [Next]_vars PROVE Fresh'
  OBVIOUS
<1>1. ASSUME NEW l \in Lanes, LaneStep(l) PROVE Fresh'
  <2>1. ASSUME Refuse(l) \/ LocalAnswer(l) PROVE Fresh'
    <3>1. (Take(l, Kinds \ {"release"}) \/ Take(l, {"estop"})) /\ Free(l) /\ posted' = posted
          /\ \E success \in BOOLEAN : publishResult(Head(queue[l]).id, success)
      BY <2>1 DEF Refuse, LocalAnswer
    <3>2. QED
      BY <3>1, AnswerHead
  <2>2. ASSUME \/ \E success \in BOOLEAN : LocalEnd(l, success)
               \/ ReachFails(l) \/ CommandResult(l) \/ CommandFails(l)
               \/ CommandThrows(l)
        PROVE  Fresh'
    <3>1. stage[l] # "idle" /\ Free(l) /\ queue' = queue /\ posted' = posted
          /\ \E success \in BOOLEAN : publishResult(inHand[l].id, success)
      BY <2>2 DEF LocalEnd, ReachFails, AnswerAndReturn, CommandResult, CommandFails, CommandThrows
    <3>2. QED
      BY <3>1, AnswerHand
  <2>3. ASSUME Activated PROVE Fresh'
    <3>1. "normal" \in Lanes /\ stage["normal"] # "idle" /\ Free("normal") /\ queue' = queue
          /\ posted' = posted /\ publishResult(inHand["normal"].id, TRUE)
      BY <2>3 DEF Activated, Lanes
    <3>2. QED
      BY <3>1, AnswerHand
  <2>4. ASSUME LocalStart(l) PROVE Fresh'
    <3>1. Take(l, {"cmd"}) /\ Target(l) \in Agents
      BY <2>4, ManagerAssumption DEF LocalStart
    <3>2. QED
      BY <2>4, <3>1, TargetType, TakeInHand DEF LocalStart
  <2>5. ASSUME Begin PROVE Fresh'
    <3> DEFINE x == IF Target("normal") \in connected THEN "reached" ELSE "connect"
    <3>1. /\ "normal" \in Lanes /\ Take("normal", {"activate", "cmd", "estop"})
          /\ Target("normal") \in Agents /\ posted' = posted /\ answers' = answers
          /\ stage' = [stage EXCEPT !["normal"] = x]
          /\ inHand' = [inHand EXCEPT !["normal"] =
                            [Head(queue["normal"]) EXCEPT !.agent = Target("normal")]]
      BY <2>5 DEF Begin, Lanes
    <3> HIDE DEF x
    <3>2. QED
      BY <3>1, TargetType, TakeInHand
  <2>6. ASSUME l \in Side, BeginSide(l) PROVE Fresh'
    BY <2>6, TakeInHand DEF BeginSide
  <2>7. ASSUME doReleaseInactiveAgents PROVE Fresh'
    <3>1. "normal" \in Lanes
      BY DEF Lanes
    <3>2. QED
      BY <2>7, <3>1, AnswerHead DEF doReleaseInactiveAgents
  <2>8. ASSUME Reach(l) \/ SendGoal(l) \/ LeaveLoop(l) PROVE Fresh'
    <3>1. queue' = queue /\ answers' = answers /\ posted' = posted /\ inHand' = inHand
          /\ \A m \in Lanes : stage'[m] # "idle" => stage[m] # "idle"
      BY <2>8 DEF Reach, SendGoal, LeaveLoop, TypeOK
    <3>2. QED
      BY <3>1, GoOn
  <2>9. QED
    BY <1>1, <2>1, <2>2, <2>3, <2>4, <2>5, <2>6, <2>7, <2>8 DEF LaneStep
<1>2. ASSUME NEW g \in goals, Callback(g) PROVE Fresh'
  <2>1. queue' = queue /\ answers' = answers /\ posted' = posted /\ inHand' = inHand
        /\ \A m \in Lanes : stage'[m] # "idle" => stage[m] # "idle"
    BY <1>2 DEF Callback, Awaits, TypeOK
  <2>2. QED
    BY <2>1, GoOn
<1>3. ASSUME \/ \E g \in goals : Perform(g)
             \/ stop \/ doShutdownAgent
             \/ \E a \in Agents : NodeUp(a) \/ NodeDown(a)
             \/ UNCHANGED vars
      PROVE  Fresh'
  BY <1>3, GoOn DEF Perform, stop, doShutdownAgent, NodeUp, NodeDown, vars, lanesVars
<1>4. QED
  BY <1>1, <1>2, <1>3, PostFresh DEF Next

\* Only a request in hand is carried out at once, and is so when it is answered.
LEMMA PastStep == TypeOK /\ Fresh /\ PastOnly /\ [Next]_vars => PastOnly'
<1> SUFFICES ASSUME TypeOK, Fresh, PastOnly, [Next]_vars PROVE PastOnly'
  OBVIOUS
<1>1. ASSUME NEW i \in 1..posted, NEW success \in BOOLEAN, publishResult(i, success),
             posted' = posted, executed' \subseteq executed \union {i}, goals' = goals
      PROVE  PastOnly'
  <2>1. i \in Ids /\ posted \in Nat
    BY ManagerAssumption DEF TypeOK, Ids
  <2>2. \A j \in Ids : j # i => answers'[j] = answers[j]
    BY <1>1, <2>1, AnswerType
  <2>3. QED
    BY <1>1, <2>1, <2>2 DEF PastOnly
<1>2. ASSUME posted' = posted, answers' = answers, executed' \subseteq 1..posted,
             \A g \in goals' : g.id \in 1..posted
      PROVE  PastOnly'
  BY <1>2 DEF PastOnly
<1>3. ASSUME NEW l \in Lanes, LaneStep(l) PROVE PastOnly'
  <2>1. ASSUME Refuse(l) \/ LocalAnswer(l) PROVE PastOnly'
    <3>1. Take(l, Kinds \ {"release"}) \/ Take(l, {"estop"})
      BY <2>1 DEF Refuse, LocalAnswer
    <3>2. Head(queue[l]).id \in 1..posted
      BY <3>1, Taken
    <3>3. QED
      BY <1>1, <2>1, <3>2 DEF Refuse, LocalAnswer
  <2>2. ASSUME \/ \E success \in BOOLEAN : LocalEnd(l, success)
               \/ ReachFails(l) \/ CommandResult(l) \/ CommandFails(l)
               \/ CommandThrows(l)
        PROVE  PastOnly'
    <3>1. stage[l] # "idle" /\ posted' = posted /\ goals' = goals
          /\ executed' \subseteq executed \union {inHand[l].id}
          /\ \E success \in BOOLEAN : publishResult(inHand[l].id, success)
      BY <2>2 DEF LocalEnd, ReachFails, CommandResult, CommandFails, CommandThrows
    <3>2. inHand[l].id \in 1..posted
      BY <3>1 DEF Fresh, HandFresh
    <3>3. QED
      BY <1>1, <3>1, <3>2
  <2>3. ASSUME Activated PROVE PastOnly'
    <3>1. inHand["normal"].id \in 1..posted
      BY <2>3 DEF Activated, Fresh, HandFresh, Lanes
    <3>2. QED
      BY <1>1, <2>3, <3>1 DEF Activated
  <2>4. ASSUME SendGoal(l) PROVE PastOnly'
    <3>1. inHand[l].id \in 1..posted
      BY <2>4 DEF SendGoal, Fresh, HandFresh
    <3>2. QED
      BY <1>2, <2>4, <3>1 DEF SendGoal, PastOnly
  <2>5. ASSUME LocalStart(l) \/ Begin \/ BeginSide(l) \/ doReleaseInactiveAgents
               \/ Reach(l) \/ LeaveLoop(l)
        PROVE  PastOnly'
    BY <1>2, <2>5
       DEF PastOnly, LocalStart, Begin, BeginSide, doReleaseInactiveAgents, Reach, LeaveLoop
  <2>6. QED
    BY <1>3, <2>1, <2>2, <2>3, <2>4, <2>5 DEF LaneStep
<1>4. ASSUME NEW g \in goals, Perform(g) \/ Callback(g) PROVE PastOnly'
  <2>1. \A result : [g EXCEPT !.result = result].id = g.id
    BY DEF TypeOK, Goals
  <2>2. QED
    BY <1>2, <1>4, <2>1 DEF Perform, Callback, PastOnly
<1>5. ASSUME NEW ask \in Asks, Post(ask[1], ask[2], ask[3]) PROVE PastOnly'
  BY <1>5 DEF Post, PastOnly, TypeOK
<1>6. ASSUME \/ stop \/ doShutdownAgent
             \/ \E a \in Agents : NodeUp(a) \/ NodeDown(a)
             \/ UNCHANGED vars
      PROVE  PastOnly'
  BY <1>6 DEF stop, doShutdownAgent, NodeUp, NodeDown, vars, PastOnly
<1>7. QED
  BY <1>3, <1>4, <1>5, <1>6 DEF Next

-----------------------------------------------------------------------------
(* A result is the result of the goal it answers.                           *)

LEMMA ResultsStep == TypeOK /\ ResultsTrue /\ [Next]_vars => ResultsTrue'
<1> SUFFICES ASSUME TypeOK, ResultsTrue, [Next]_vars PROVE ResultsTrue'
  OBVIOUS
<1>1. ASSUME executed \subseteq executed',
             \A m \in Lanes : stage'[m] = "ok" => stage[m] = "ok" /\ inHand'[m] = inHand[m],
             \A g \in goals' : g \in goals \/ g.result # "ok"
      PROVE  ResultsTrue'
  BY <1>1 DEF ResultsTrue
<1>2. ASSUME NEW l \in Lanes, LaneStep(l) PROVE ResultsTrue'
  <2>1. executed \subseteq executed'
    BY <1>2 DEF LaneStep, Refuse, LocalAnswer, LocalStart, LocalEnd, Reach, ReachFails, SendGoal,
        CommandResult, CommandFails, CommandThrows, LeaveLoop, BeginSide, Begin, Activated,
        doReleaseInactiveAgents
  <2>2. \A g \in goals' : g \in goals \/ g.result # "ok"
    <3>1. SendGoal(l) \/ goals' = goals
      BY <1>2 DEF LaneStep, Refuse, LocalAnswer, LocalStart, LocalEnd, Reach, ReachFails,
          CommandResult, CommandFails, CommandThrows, LeaveLoop, BeginSide, Begin, Activated,
          doReleaseInactiveAgents
    <3>2. QED
      BY <3>1 DEF SendGoal
  <2>3. ASSUME Free(l) PROVE ResultsTrue'
    <3>1. \A m \in Lanes : stage'[m] = "ok" => stage[m] = "ok" /\ inHand'[m] = inHand[m]
      BY <2>3, FreeType
    <3>2. QED
      BY <1>1, <2>1, <2>2, <3>1
  <2>4. ASSUME NEW x, x # "ok", stage' = [stage EXCEPT ![l] = x],
               \A m \in Lanes : m # l => inHand'[m] = inHand[m]
        PROVE  ResultsTrue'
    BY <1>1, <2>1, <2>2, <2>4 DEF TypeOK
  <2>5. ASSUME LocalStart(l) \/ (l = "normal" /\ Begin) \/ BeginSide(l) \/ Reach(l) \/ SendGoal(l)
        PROVE  ResultsTrue'
    <3>1. \A m \in Lanes : m # l => inHand'[m] = inHand[m]
      BY <2>5 DEF LocalStart, Begin, BeginSide, Reach, SendGoal, TypeOK
    <3>2. \E x \in {"script", "reached", "connect", "sent"} : stage' = [stage EXCEPT ![l] = x]
      BY <2>5 DEF LocalStart, Begin, BeginSide, Reach, SendGoal
    <3>3. QED
      BY <2>4, <3>1, <3>2
  <2>6. ASSUME LeaveLoop(l) PROVE ResultsTrue'
    BY <2>6 DEF LeaveLoop, ResultsTrue
  <2>7. ASSUME l = "normal", Activated \/ doReleaseInactiveAgents PROVE Free(l)
    BY <2>7 DEF Activated, doReleaseInactiveAgents
  <2>8. ASSUME Refuse(l) \/ LocalAnswer(l) \/ (\E success \in BOOLEAN : LocalEnd(l, success))
               \/ ReachFails(l) \/ CommandResult(l) \/ CommandFails(l)
               \/ CommandThrows(l)
        PROVE  Free(l)
    BY <2>8 DEF Refuse, LocalAnswer, LocalEnd, ReachFails, AnswerAndReturn, CommandResult,
        CommandFails, CommandThrows
  <2>9. QED
    BY <1>2, <2>3, <2>5, <2>6, <2>7, <2>8 DEF LaneStep
<1>3. ASSUME NEW g \in goals, Perform(g) PROVE ResultsTrue'
  <2>1. \A result : /\ [g EXCEPT !.result = result].id = g.id
                    /\ [g EXCEPT !.result = result].result = result
    BY DEF TypeOK, Goals
  <2>2. QED
    BY <1>3, <2>1 DEF Perform, ResultsTrue, lanesVars
<1>4. ASSUME NEW g \in goals, Callback(g) PROVE ResultsTrue'
  <2>1. \A m \in Lanes : stage'[m] = "ok" =>
           stage[m] = "ok" \/ (g.result = "ok" /\ inHand[m].id = g.id)
    BY <1>4 DEF Callback, Awaits, TypeOK
  <2>2. QED
    BY <1>4, <2>1 DEF Callback, ResultsTrue
<1>5. ASSUME \/ \E ask \in Asks : Post(ask[1], ask[2], ask[3])
             \/ stop \/ doShutdownAgent
             \/ \E a \in Agents : NodeUp(a) \/ NodeDown(a)
             \/ UNCHANGED vars
      PROVE  ResultsTrue'
  BY <1>5 DEF Post, stop, doShutdownAgent, NodeUp, NodeDown, vars, lanesVars, ResultsTrue
<1>6. QED
  BY <1>2, <1>3, <1>4, <1>5 DEF Next

-----------------------------------------------------------------------------
(* Processes.                                                               *)

LEMMA TerminatedNone ==
  ASSUME NEW nodes \in [Agents -> {"none", "starting", "up", "dead"}], NEW S, NEW a \in Python
  PROVE  /\ Terminated(nodes, S)[a] = IF a \in S THEN "none" ELSE nodes[a]
         /\ a \in Agents
  BY ManagerAssumption DEF Terminated

LEMMA NodesStep == TypeOK /\ NodesOwned /\ [Next]_vars => NodesOwned'
<1> SUFFICES ASSUME TypeOK, NodesOwned, [Next]_vars PROVE NodesOwned'
  OBVIOUS
<1>1. ASSUME NEW l \in Lanes, LaneStep(l) PROVE NodesOwned'
  <2>1. ASSUME Begin PROVE NodesOwned'
    <3> DEFINE a == Target("normal")
               down == Terminated(node, Leaves(Head(queue["normal"]).kind, a))
    <3>1. /\ proxies' = proxies \union {a} /\ life' = life /\ life # "stopped"
          /\ node' = down \/ \E state : node' = [down EXCEPT ![a] = state]
      BY <2>1 DEF Begin, Take, Alive
    <3>0. /\ \A b \in Python : down[b] # "none" => node[b] # "none"
          /\ Python \subseteq Agents /\ down = [b \in Agents |-> down[b]]
      BY ManagerAssumption DEF TypeOK, Terminated
    <3> HIDE DEF down
    <3>2. \A b \in Python : b # a => node'[b] = down[b]
      BY <3>0, <3>1
    <3>3. \A b \in Python : down[b] # "none" => node[b] # "none"
      BY <3>0
    <3>4. QED
      BY <3>1, <3>2, <3>3 DEF NodesOwned
  <2>2. ASSUME doReleaseInactiveAgents PROVE NodesOwned'
    <3>1. \A a \in Python : node'[a] # "none" => node[a] # "none" /\ a \notin Released
      BY <2>2, TerminatedNone DEF doReleaseInactiveAgents, TypeOK
    <3>2. proxies' = proxies \ Released /\ life' # "stopped"
      BY <2>2 DEF doReleaseInactiveAgents, Take, Alive
    <3>3. QED
      BY <3>1, <3>2 DEF NodesOwned
  <2>3. ASSUME \/ Refuse(l) \/ LocalAnswer(l) \/ LocalStart(l)
               \/ \E success \in BOOLEAN : LocalEnd(l, success)
               \/ Reach(l) \/ ReachFails(l) \/ SendGoal(l) \/ CommandResult(l)
               \/ CommandFails(l) \/ CommandThrows(l) \/ LeaveLoop(l) \/ BeginSide(l) \/ Activated
        PROVE  NodesOwned'
    BY <2>3 DEF Refuse, LocalAnswer, LocalStart, LocalEnd, Reach, ReachFails, SendGoal,
        CommandResult, CommandFails, CommandThrows, LeaveLoop, BeginSide, Activated, agentVars, NodesOwned
  <2>4. QED
    BY <1>1, <2>1, <2>2, <2>3 DEF LaneStep
<1>2. ASSUME doShutdownAgent PROVE NodesOwned'
  <2>1. \A a \in Python : node'[a] # "none" => node[a] # "none" /\ a \notin proxies
    BY <1>2, TerminatedNone DEF doShutdownAgent, TypeOK, EndsAll
  <2>2. QED
    BY <1>2, <2>1 DEF doShutdownAgent, NodesOwned
<1>3. ASSUME NEW a \in Agents, NodeUp(a) \/ NodeDown(a) PROVE NodesOwned'
  <2>1. \A b \in Python : node'[b] # "none" => node[b] # "none"
    BY <1>3, ManagerAssumption DEF NodeUp, NodeDown, TypeOK
  <2>2. QED
    BY <1>3, <2>1 DEF NodeUp, NodeDown, NodesOwned, agentVars
<1>4. ASSUME \/ \E ask \in Asks : Post(ask[1], ask[2], ask[3])
             \/ \E g \in goals : Perform(g) \/ Callback(g)
             \/ stop \/ UNCHANGED vars
      PROVE  NodesOwned'
  BY <1>4 DEF Post, Perform, Callback, stop, vars, agentVars, NodesOwned
<1>5. QED
  BY <1>1, <1>2, <1>3, <1>4 DEF Next

\* Only Begin launches, and what it launches is not the agent that is left.
LEMMA SwitchStep == TypeOK /\ NodesOwned /\ SwitchInv /\ [Next]_vars => SwitchInv'
<1> SUFFICES ASSUME TypeOK, NodesOwned, SwitchInv, [Next]_vars PROVE SwitchInv'
  OBVIOUS
<1> DEFINE busy == stage["normal"] \in {"connect", "reached"}
<1>0. "normal" \in Lanes
  BY DEF Lanes
<1>1. ASSUME busy' => busy /\ inHand'["normal"] = inHand["normal"],
             active' = active,
             \A a \in Python : node[a] = "none" => node'[a] = "none"
      PROVE  SwitchInv'
  BY <1>1 DEF SwitchInv
<1>2. ASSUME NEW l \in Lanes, LaneStep(l) PROVE SwitchInv'
  <2>1. ASSUME Begin PROVE SwitchInv'
    <3> DEFINE a == Target("normal")
               m == Head(queue["normal"])
               down == Terminated(node, Leaves(m.kind, a))
    <3>1. /\ a \in Agents /\ active' = active
          /\ Take("normal", {"activate", "cmd", "estop"})
          /\ inHand' = [inHand EXCEPT !["normal"] = [m EXCEPT !.agent = a]]
          /\ node' = down \/ \E state : node' = [down EXCEPT ![a] = state]
      BY <2>1 DEF Begin
    <3>2. inHand'["normal"].kind = m.kind /\ inHand'["normal"].agent = a
      BY <1>0, <3>1, TargetType DEF TypeOK
    <3>3. ASSUME m.kind = "activate", a # active, active \in Python
          PROVE  node'[active] = "none"
      <4>1. Leaves(m.kind, a) = {active} \intersect proxies
        BY <3>3 DEF Leaves
      <4>2. down[active] = "none" /\ Python \subseteq Agents
            /\ down = [b \in Agents |-> down[b]]
        BY <3>3, <4>1, ManagerAssumption DEF Terminated, NodesOwned
      <4> HIDE DEF down
      <4>3. node'[active] = down[active]
        BY <3>1, <3>3, <4>2
      <4>4. QED
        BY <4>2, <4>3
    <3>4. QED
      BY <3>1, <3>2, <3>3 DEF SwitchInv
  <2>2. ASSUME Free("normal"), l = "normal" PROVE SwitchInv'
    BY <1>0, <2>2, FreeType DEF SwitchInv
  <2>3. ASSUME \/ Refuse(l) \/ LocalAnswer(l) \/ (\E success \in BOOLEAN : LocalEnd(l, success))
               \/ ReachFails(l) \/ CommandResult(l) \/ CommandFails(l)
               \/ CommandThrows(l)
        PROVE  SwitchInv'
    <3>1. Free(l) /\ active' = active /\ node' = node
      BY <2>3 DEF Refuse, LocalAnswer, LocalEnd, ReachFails, AnswerAndReturn, CommandResult,
          CommandFails, CommandThrows, agentVars
    <3>2. l # "normal" => stage'["normal"] = stage["normal"] /\ inHand'["normal"] = inHand["normal"]
      BY <1>0, <3>1, FreeType
    <3>3. QED
      BY <1>1, <2>2, <3>1, <3>2
  <2>4. ASSUME LocalStart(l) \/ (l \in Side /\ BeginSide(l)) \/ SendGoal(l) \/ LeaveLoop(l)
        PROVE  SwitchInv'
    <3>1. active' = active /\ node' = node
      BY <2>4 DEF LocalStart, BeginSide, SendGoal, LeaveLoop, agentVars
    <3>2. busy' => busy /\ inHand'["normal"] = inHand["normal"]
      BY <1>0, <2>4 DEF LocalStart, BeginSide, SendGoal, LeaveLoop, TypeOK, Side
    <3>3. QED
      BY <1>1, <3>1, <3>2
  <2>5. ASSUME Reach(l) PROVE SwitchInv'
    <3>1. active' = active /\ node' = node /\ inHand' = inHand
      BY <2>5 DEF Reach
    <3>2. busy' => busy
      BY <1>0, <2>5 DEF Reach, TypeOK
    <3>3. QED
      BY <1>1, <3>1, <3>2
  <2>6. ASSUME l = "normal", Activated \/ doReleaseInactiveAgents PROVE SwitchInv'
    BY <2>2, <2>6 DEF Activated, doReleaseInactiveAgents
  <2>7. QED
    BY <1>2, <2>1, <2>3, <2>4, <2>5, <2>6 DEF LaneStep
<1>3. ASSUME NEW g \in goals, Callback(g) PROVE SwitchInv'
  <2>1. busy' => busy
    BY <1>0, <1>3 DEF Callback, Awaits, TypeOK, Goals
  <2>2. QED
    BY <1>1, <1>3, <2>1 DEF Callback, agentVars
<1>4. ASSUME doShutdownAgent PROVE SwitchInv'
  BY <1>4, ManagerAssumption DEF doShutdownAgent, SwitchInv
<1>5. ASSUME NEW a \in Agents, NodeUp(a) \/ NodeDown(a) PROVE SwitchInv'
  <2>1. \A b \in Python : node[b] = "none" => node'[b] = "none"
    BY <1>5, ManagerAssumption DEF NodeUp, NodeDown, TypeOK
  <2>2. QED
    BY <1>1, <1>5, <2>1 DEF NodeUp, NodeDown, agentVars, lanesVars
<1>6. ASSUME \/ \E ask \in Asks : Post(ask[1], ask[2], ask[3])
             \/ \E g \in goals : Perform(g)
             \/ stop \/ UNCHANGED vars
      PROVE  SwitchInv'
  BY <1>6 DEF Post, Perform, stop, vars, agentVars, lanesVars, SwitchInv
<1>7. QED
  BY <1>2, <1>3, <1>4, <1>5, <1>6 DEF Next

-----------------------------------------------------------------------------
(* The theorems.                                                            *)

LEMMA InitInv == Init => IInv
<1> SUFFICES ASSUME Init PROVE IInv
  OBVIOUS
<1>1. TypeOK
  BY InitType
<1>2. posted = 0 /\ stage["normal"] = "idle"
  BY DEF Init, Lanes
<1>3. Fresh
  BY DEF Init, Fresh, QueueFresh, QueueDistinct, HandFresh, HandDistinct
<1>4. NodesOwned
  BY ManagerAssumption DEF Init, NodesOwned
<1>5. LanesInv /\ PastOnly /\ ResultsTrue /\ SwitchInv
  BY <1>2 DEF Init, LanesInv, PastOnly, ResultsTrue, SwitchInv
<1>6. QED
  BY <1>1, <1>3, <1>4, <1>5 DEF IInv

\* The inductive invariant.
THEOREM Invariance == Spec => []IInv
<1>1. IInv /\ [Next]_vars => IInv'
  BY TypeStep, LanesStep, FreshStep, PastStep, ResultsStep, NodesStep, SwitchStep DEF IInv
<1>2. QED
  BY <1>1, InitInv, PTL DEF Spec

\* A manager that has stopped has left no node process behind (doShutdownAgent).
THEOREM StopLeavesNothing == Spec => []NothingLeft
<1>1. IInv => NothingLeft
  BY DEF IInv, NodesOwned, NothingLeft
<1>2. QED
  BY <1>1, Invariance, PTL

LEMMA SwitchAction ==
  ASSUME IInv, [Next]_vars, active # active', active' # NoAgent, active \in Python
  PROVE  node'[active] = "none"
<1>1. ASSUME Activated PROVE node'[active] = "none"
  BY <1>1 DEF Activated, IInv, SwitchInv
<1>2. ASSUME NEW l \in Lanes, LaneStep(l) PROVE Activated
  BY <1>2 DEF LaneStep, Refuse, LocalAnswer, LocalStart, LocalEnd, Reach, ReachFails,
      SendGoal, CommandResult, CommandFails, CommandThrows, LeaveLoop, BeginSide, Begin,
      doReleaseInactiveAgents, agentVars
<1>3. ASSUME \/ \E ask \in Asks : Post(ask[1], ask[2], ask[3])
             \/ \E g \in goals : Perform(g) \/ Callback(g)
             \/ stop \/ doShutdownAgent
             \/ \E a \in Agents : NodeUp(a) \/ NodeDown(a)
             \/ UNCHANGED vars
      PROVE  FALSE
  BY <1>3 DEF Post, Perform, Callback, stop, doShutdownAgent, NodeUp, NodeDown, vars, agentVars
<1>4. QED
  BY <1>1, <1>2, <1>3 DEF Next

\* When another agent becomes active the process of the one before is stopped
\* (doActivateAgent).
THEOREM SwitchesCleanly == Spec => SwitchStopsOld
<1>1. IInv /\ [Next]_vars
         => [active # active' /\ active' # NoAgent /\ active \in Python
                => node'[active] = "none"]_vars
  BY SwitchAction
<1>2. QED
  BY <1>1, Invariance, PTL DEF Spec, SwitchStopsOld

LEMMA SparedAction ==
  ASSUME IInv, [Next]_vars, active \in Python, node[active] # "none", node'[active] = "none"
  PROVE  \/ inHand'["normal"].kind = "activate" /\ inHand'["normal"].agent # active
         \/ life' = "stopped"
<1>0. TypeOK /\ "normal" \in Lanes /\ active \in Agents
  BY ManagerAssumption DEF IInv, Lanes
<1>1. ASSUME Begin
      PROVE  inHand'["normal"].kind = "activate" /\ inHand'["normal"].agent # active
  <2> DEFINE a == Target("normal")
             m == Head(queue["normal"])
             down == Terminated(node, Leaves(m.kind, a))
  <2>1. /\ a \in Agents /\ Take("normal", {"activate", "cmd", "estop"})
        /\ inHand' = [inHand EXCEPT !["normal"] = [m EXCEPT !.agent = a]]
        /\ node' = down \/ \E state \in Launched(down, a) : node' = [down EXCEPT ![a] = state]
    BY <1>1 DEF Begin
  <2>2. inHand'["normal"].kind = m.kind /\ inHand'["normal"].agent = a
    BY <1>0, <2>1, TargetType DEF TypeOK
  <2>3. down = [b \in Agents |-> down[b]]
        /\ (active \notin Leaves(m.kind, a) => down[active] # "none")
    BY <1>0 DEF Terminated
  <2>4. active \in Leaves(m.kind, a) => m.kind = "activate" /\ a # active
    BY DEF Leaves
  <2> HIDE DEF down
  <2>5. down[active] # "none" => node'[active] # "none"
    BY <1>0, <2>1, <2>3 DEF Launched
  <2>6. QED
    BY <2>2, <2>3, <2>4, <2>5
<1>2. ASSUME NEW l \in Lanes, LaneStep(l) PROVE l = "normal" /\ Begin
  <2>1. ASSUME \/ Refuse(l) \/ LocalAnswer(l) \/ LocalStart(l)
               \/ \E success \in BOOLEAN : LocalEnd(l, success)
               \/ Reach(l) \/ ReachFails(l) \/ SendGoal(l) \/ CommandResult(l)
               \/ CommandFails(l) \/ CommandThrows(l) \/ LeaveLoop(l) \/ BeginSide(l) \/ Activated
        PROVE  FALSE
    BY <2>1 DEF Refuse, LocalAnswer, LocalStart, LocalEnd, Reach, ReachFails,
        SendGoal, CommandResult, CommandFails, CommandThrows, LeaveLoop, BeginSide, Activated
  <2>2. doReleaseInactiveAgents => node'[active] = node[active]
    BY <1>0 DEF doReleaseInactiveAgents, Terminated, Released
  <2>3. QED
    BY <1>2, <2>1, <2>2 DEF LaneStep
<1>3. doShutdownAgent => life' = "stopped"
  BY DEF doShutdownAgent
<1>4. ASSUME NEW a \in Agents, NodeUp(a) \/ NodeDown(a) PROVE FALSE
  BY <1>0, <1>4 DEF NodeUp, NodeDown, TypeOK
<1>5. ASSUME \/ \E ask \in Asks : Post(ask[1], ask[2], ask[3])
             \/ \E g \in goals : Perform(g) \/ Callback(g)
             \/ stop \/ UNCHANGED vars
      PROVE  FALSE
  BY <1>5 DEF Post, Perform, Callback, stop, vars
<1>6. QED
  BY <1>1, <1>2, <1>3, <1>4, <1>5 DEF Next

\* Only another activation, or the end, takes the process from the active agent
\* (doReleaseInactiveAgents).
THEOREM ActiveIsSpared == Spec => ActiveSpared
<1>1. IInv /\ [Next]_vars
         => [\A a \in Python : (a = active /\ node[a] # "none" /\ node'[a] = "none")
                => \/ inHand'["normal"].kind = "activate" /\ inHand'["normal"].agent # a
                   \/ life' = "stopped"]_vars
  BY SparedAction
<1>2. QED
  BY <1>1, Invariance, PTL DEF Spec, ActiveSpared

LEMMA ServiceStep ==
  ASSUME IInv, [Next]_vars PROVE [Service!Next]_<<asked, executed, answers>>
<1>0. TypeOK /\ Fresh /\ PastOnly /\ ResultsTrue /\ 1..posted \subseteq Ids
  BY ManagerAssumption DEF IInv, TypeOK, Ids
<1>1. ASSUME NEW i \in 1..posted, answers[i] = << >>, NEW success \in BOOLEAN,
             publishResult(i, success), posted' = posted,
             executed' \in {executed, executed \union {i}}, success => i \in executed'
      PROVE  Service!Next
  <2>1. i \in Ids /\ i \in asked /\ asked' = asked
    BY <1>0, <1>1 DEF asked
  <2>2. answers' = [answers EXCEPT ![i] = <<success>>]
    BY <1>1, <1>0, <2>1 DEF publishResult, TypeOK
  <2>3. Service!Answer(i, success)
    BY <1>1, <2>1, <2>2 DEF Service!Answer
  <2>4. QED
    BY <2>1, <2>3 DEF Service!Next
<1>2. ASSUME NEW ask \in Asks, Post(ask[1], ask[2], ask[3]) PROVE Service!Next
  <2>1. posted + 1 \in Ids /\ posted \in Nat
    BY <1>0, <1>2, PostQueue DEF TypeOK
  <2>2. asked' = asked \union {posted + 1} /\ posted + 1 \notin asked
    BY <1>2, <2>1 DEF asked, Post
  <2>3. Service!Ask(posted + 1)
    BY <1>2, <2>2 DEF Service!Ask, Post
  <2>4. QED
    BY <2>1, <2>3 DEF Service!Next
<1>3. ASSUME NEW g \in goals, Perform(g) PROVE Service!Next \/ UNCHANGED <<asked, executed, answers>>
  <2>1. g.id \in 1..posted /\ posted' = posted /\ answers' = answers
    BY <1>0, <1>3 DEF PastOnly, Perform
  <2>2. CASE executed' = executed
    BY <2>1, <2>2 DEF asked
  <2>3. CASE executed' = executed \union {g.id}
    <3>1. Service!Execute(g.id)
      BY <2>1, <2>3 DEF Service!Execute, asked
    <3>2. QED
      BY <1>0, <2>1, <3>1 DEF Service!Next
  <2>4. QED
    BY <1>3, <2>2, <2>3 DEF Perform
<1>4. ASSUME NEW l \in Lanes, LaneStep(l)
      PROVE  Service!Next \/ UNCHANGED <<asked, executed, answers>>
  <2>1. ASSUME Refuse(l) \/ LocalAnswer(l) PROVE Service!Next
    <3>1. Take(l, Kinds \ {"release"}) \/ Take(l, {"estop"})
      BY <2>1 DEF Refuse, LocalAnswer
    <3>2. Head(queue[l]).id \in 1..posted /\ answers[Head(queue[l]).id] = << >>
      BY <1>0, <3>1, Taken
    <3>3. QED
      BY <1>1, <2>1, <3>2 DEF Refuse, LocalAnswer
  <2>2. ASSUME stage[l] # "idle"
        PROVE  inHand[l].id \in 1..posted /\ answers[inHand[l].id] = << >>
    BY <1>0, <2>2 DEF Fresh, HandFresh
  <2>3. ASSUME NEW success \in BOOLEAN, LocalEnd(l, success) PROVE Service!Next
    BY <1>1, <2>2, <2>3 DEF LocalEnd
  <2>4. ASSUME ReachFails(l) \/ CommandFails(l) \/ CommandThrows(l) PROVE Service!Next
    BY <1>1, <2>2, <2>4 DEF ReachFails, CommandFails, CommandThrows
  <2>5. ASSUME CommandResult(l) PROVE Service!Next
    <3>1. (stage[l] = "ok") => inHand[l].id \in executed
      BY <1>0 DEF ResultsTrue
    <3>2. stage[l] # "idle" /\ publishResult(inHand[l].id, stage[l] = "ok")
          /\ posted' = posted /\ executed' = executed /\ (stage[l] = "ok") \in BOOLEAN
      BY <2>5 DEF CommandResult
    <3>3. QED
      BY <1>1, <2>2, <3>1, <3>2
  <2>6. ASSUME l = "normal", Activated PROVE Service!Next
    BY <1>1, <2>2, <2>6 DEF Activated
  <2>7. ASSUME LocalStart(l) \/ Reach(l) \/ SendGoal(l) \/ LeaveLoop(l) \/ BeginSide(l)
               \/ Begin \/ doReleaseInactiveAgents
        PROVE  UNCHANGED <<asked, executed, answers>>
    BY <2>7 DEF LocalStart, Reach, SendGoal, LeaveLoop, BeginSide, Begin,
        doReleaseInactiveAgents, asked
  <2>8. QED
    BY <1>4, <2>1, <2>3, <2>4, <2>5, <2>6, <2>7 DEF LaneStep
<1>5. ASSUME \/ \E g \in goals : Callback(g)
             \/ stop \/ doShutdownAgent
             \/ \E a \in Agents : NodeUp(a) \/ NodeDown(a)
             \/ UNCHANGED vars
      PROVE  UNCHANGED <<asked, executed, answers>>
  BY <1>5 DEF Callback, stop, doShutdownAgent, NodeUp, NodeDown, vars, asked
<1>6. QED
  BY <1>2, <1>3, <1>4, <1>5 DEF Next

\* AgentManager implements CommandService: one answer to each request, and
\* "success" only for what was carried out for it.
THEOREM AnswersOnce == Spec => KeepsPromise
<1>1. Init => Service!Init
  BY DEF Init, Service!Init, asked
<1>2. IInv /\ [Next]_vars => [Service!Next]_<<asked, executed, answers>>
  BY ServiceStep
<1>3. QED
  BY <1>1, <1>2, Invariance, PTL DEF Spec, KeepsPromise, Service!Spec
=============================================================================
