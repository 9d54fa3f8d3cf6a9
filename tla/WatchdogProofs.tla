--------------------------- MODULE WatchdogProofs ---------------------------
(***************************************************************************)
(* For any agents, number of retries, of UI calls and of late answers:     *)
(*   - types, bounded recovery and the need of an initialisation.  What    *)
(*     the worker has read or decided and not stored is still covered by   *)
(*     init_failures_ and by the last initialisation, whichever of the     *)
(*     UI's stores come in between (IInv);                                 *)
(*   - the answer that ends a wait is of its request's command and agent:  *)
(*     whatever carries the id that is waited for is of that request, and  *)
(*     whatever carries none is of an estop (IdsInv);                      *)
(*   - after an activation, an estop, a loss or a script's request out of  *)
(*     ERROR the machine starts over: what the worker has in hand when one *)
(*     of them takes effect leads to INITIALIZING at most (AnewInv).       *)
(***************************************************************************)
EXTENDS Watchdog, SequenceTheorems, TLAPS

-----------------------------------------------------------------------------
(* Lemmas about the operators on lists.                                    *)

LEMMA MembersOfSeq == ASSUME NEW S, NEW s \in Seq(S) PROVE Members(s) \subseteq S
  BY ElementOfSeq DEF Members

LEMMA WithoutType ==
  ASSUME NEW S, NEW s \in Seq(S), NEW a
  PROVE  Without(s, a) \in Seq(S)
<1>1. CASE a \notin Members(s)
  BY <1>1 DEF Without
<1>2. CASE a \in Members(s)
  <2> DEFINE i == CHOOSE j \in DOMAIN s : s[j] = a
  <2>0. DOMAIN s = 1..Len(s) /\ Len(s) \in Nat
    BY LenProperties
  <2>1. i \in 1..Len(s)
    <3>1. \E j \in DOMAIN s : s[j] = a
      BY <1>2 DEF Members
    <3>2. i \in DOMAIN s
      BY <3>1
    <3> QED BY <3>2, <2>0
  <2> HIDE DEF i
  <2>2. SubSeq(s, 1, i - 1) \in Seq(S)
    <3>1. \A j \in 1..(i - 1) : s[j] \in S
      BY <2>0, <2>1, ElementOfSeq
    <3> QED BY <3>1, <2>0, <2>1, SubSeqProperties
  <2>3. SubSeq(s, i + 1, Len(s)) \in Seq(S)
    <3>1. \A j \in (i + 1)..Len(s) : s[j] \in S
      BY <2>0, <2>1, ElementOfSeq
    <3> QED BY <3>1, <2>0, <2>1, SubSeqProperties
  <2>4. SubSeq(s, 1, i - 1) \o SubSeq(s, i + 1, Len(s)) \in Seq(S)
    BY <2>2, <2>3, ConcatProperties
  <2> QED
    BY <1>2, <2>4 DEF Without, i
<1>3. QED
  BY <1>1, <1>2

\* What a request goes to is an agent name.
LEMMA TargetsType ==
  ASSUME monitored \in Seq(Agents), agent \in Names
  PROVE  Targets \subseteq Names
  BY MembersOfSeq DEF Targets, Names

-----------------------------------------------------------------------------
(* The inductive invariant.  RecoveryBounded and HealthyNeedsInit speak of  *)
(* one moment of an iteration; what the worker has read or decided but not  *)
(* yet stored must satisfy them too, since the UI thread runs in between.   *)

AttemptLeft == initFailures <= kMaxInitRetries

RecoveryInv ==
  /\ state = "INITIALIZING" /\ pc # "commit" => AttemptLeft
  /\ pc = "dispatch" /\ current = "INITIALIZING" => AttemptLeft
  /\ pc \in {"send", "await"} /\ job.cmd \in {"init_device", "reboot_device"}
        => AttemptLeft
  /\ pc = "commit" /\ next = "INITIALIZING" => AttemptLeft

HealthInv ==
  /\ state = "HEALTHY" => initFor # {}
  /\ pc = "dispatch" /\ current = "HEALTHY" => initFor # {}
  /\ pc = "dispatch" /\ state = "INITIALIZING" => current = "INITIALIZING"
  /\ pc \in {"send", "await"} /\ job.cmd = "start_device" => initFor # {}
  /\ pc \in {"send", "await"} /\ job.cmd = "check"
        /\ observed \in {"HEALTHY", "INITIALIZING"} => initFor # {}
  /\ pc = "commit" /\ next = "HEALTHY" => initFor # {}

IInv == TypeOK /\ RecoveryInv /\ HealthInv

-----------------------------------------------------------------------------
(* Type correctness.                                                       *)

LEMMA NoJobType == NoJob \in Jobs
  BY WatchdogAssumption DEF NoJob, Jobs, RequestIds, Cmds, Names

LEMMA NewJobType ==
  ASSUME job \in Jobs, NEW cmd \in Cmds, NEW a \in Names, NEW p \in BOOLEAN
  PROVE  /\ NewJob(cmd, a, p) \in Jobs
         /\ NewJob(cmd, a, p).cmd = cmd
  BY DEF NewJob, Jobs

LEMMA RequestType ==
  ASSUME job \in Jobs, NEW id \in RequestIds
  PROVE  /\ [job EXCEPT !.id = id] \in Jobs
         /\ [id |-> id, cmd |-> job.cmd, agent |-> job.agent] \in Messages
<1>1. [job EXCEPT !.id = id] \in Jobs
  BY DEF Jobs
<1>2. job.cmd \in Cmds /\ job.agent \in Names
  BY DEF Jobs
<1>3. QED
  BY <1>1, <1>2 DEF Messages

LEMMA InitTypeOK == Init => TypeOK
<1> SUFFICES ASSUME Init PROVE TypeOK
  OBVIOUS
<1>1. monitored \in Seq(Agents)
  BY DEF Init, Names
<1>2. stores \in Seq(Stores) /\ todo \in Seq(Agents)
  BY DEF Init
<1>3. job \in Jobs
  BY NoJobType DEF Init
<1>4. initFailures \in 0..(kMaxInitRetries + 1)
  BY WatchdogAssumption DEF Init
<1>5. QED
  BY <1>1, <1>2, <1>3, <1>4 DEF Init, TypeOK, States, Names


\* An answer, or the end of a wait, leaves only messages that were there.
LEMMA AnsweredType ==
  ASSUME requests \subseteq Messages, inbox \subseteq Answers,
         NEW ok, Answered(ok)
  PROVE  requests' \subseteq Messages /\ inbox' \subseteq Answers
  BY DEF Answered, net

LEMMA PublishedType ==
  ASSUME TypeOK
  PROVE  /\ [type : {"estop"}, agent : Targets] \subseteq Published
         /\ StopMessages \subseteq Published
         /\ \A c \in Cmds, a \in Names : [type |-> c, agent |-> a] \in Published
         /\ \A a \in Names : [type |-> "user_notification", agent |-> a] \in Published
<1>1. Targets \subseteq Names
  BY TargetsType DEF TypeOK
<1>2. QED
  BY <1>1 DEF StopMessages, Published, Names

LEMMA StoresType ==
  /\ ResetStores \in Seq(Stores)
  /\ \A f \in Fields, v \in BOOLEAN : <<Put(f, v)>> \in Seq(Stores)
<1>1. \A f \in Fields, v \in BOOLEAN : Put(f, v) \in Stores
  BY DEF Put, Stores
<1>2. \A f \in Fields : Put(f, FALSE) \in Stores
  BY <1>1
<1>3. \A a, b, c, d, e, f \in Stores : <<a, b, c, d, e, f>> \in Seq(Stores)
  OBVIOUS
<1>4. ResetStores \in Seq(Stores)
  BY <1>2, <1>3 DEF ResetStores, Fields
<1>5. QED
  BY <1>1, <1>4

\* Every step keeps the types; only InitFailed needs more than TypeOK, as it is
\* the one that counts init_failures_ up.
LEMMA TypeStep == TypeOK /\ RecoveryInv /\ [Next]_vars => TypeOK'
<1> SUFFICES ASSUME TypeOK, RecoveryInv, [Next]_vars PROVE TypeOK'
  OBVIOUS
<1> USE WatchdogAssumption
    DEF TypeOK, vars, shared, world, config, flags, locals, net, budget
<1>1. CASE Drain
  <2>1. /\ startPending' \in BOOLEAN /\ failureStopSent' \in BOOLEAN
        /\ startDeviceAfterInit' \in BOOLEAN
    BY <1>1, Zenon DEF Drain, HandleControlMessages
  <2>2. state' \in States /\ initFailures' \in 0..(kMaxInitRetries + 1)
    BY <1>1 DEF Drain, HandleControlMessages, States
  <2>3. QED
    BY <1>1, <2>1, <2>2 DEF Drain, HandleControlMessages
<1>2. CASE Exit
  BY <1>2 DEF Exit
<1>3. CASE Idle
  BY <1>3 DEF Idle
<1>4. CASE ServeEstop
  <2>1. out' \subseteq Published
    BY <1>4, PublishedType DEF ServeEstop
  <2>2. state' \in States /\ initFailures' \in 0..(kMaxInitRetries + 1)
    BY <1>4 DEF ServeEstop, States
  <2>3. requests' \subseteq Messages
    <3>1. PICK sent \in SUBSET [id : {NoId}, cmd : {"estop"}, agent : Targets] :
             requests' = requests \union sent
      BY <1>4 DEF ServeEstop
    <3>2. [id : {NoId}, cmd : {"estop"}, agent : Targets] \subseteq Messages
      BY TargetsType DEF Messages
    <3> QED BY <3>1, <3>2
  <2>4. QED
    BY <1>4, <2>1, <2>2, <2>3 DEF ServeEstop
<1>5. CASE LoadState
  BY <1>5 DEF LoadState
<1>6. CASE BeginCheck
  <2> DEFINE primary == IF agent = NoAgent THEN Head(monitored) ELSE agent
  <2>1. CASE agent = NoAgent /\ monitored = << >>
    BY <1>6, <2>1 DEF BeginCheck, SeenByCheck, States
  <2>2. CASE ~(agent = NoAgent /\ monitored = << >>)
    <3>1. primary \in Names
      BY <2>2, HeadTailProperties DEF Names
    <3> HIDE DEF primary
    <3>2. job' = NewJob("check", primary, TRUE) /\ todo' = Without(monitored, primary)
      BY <1>6, <2>2 DEF BeginCheck, primary
    <3>3. job' \in Jobs
      BY <3>1, <3>2, NewJobType DEF Cmds
    <3>4. todo' \in Seq(Agents)
      BY <3>2, WithoutType
    <3>5. QED
      BY <1>6, <2>2, <3>3, <3>4 DEF BeginCheck, SeenByCheck
  <2>3. QED
    BY <2>1, <2>2
<1>7. CASE BeginInit
  <2>1. job' \in Jobs
    BY <1>7, NewJobType DEF BeginInit, Cmds
  <2>2. QED
    BY <1>7, <2>1 DEF BeginInit
<1>8. CASE BeginStart
  <2>1. job' \in Jobs
    BY <1>8, NewJobType DEF BeginStart, Cmds
  <2>2. QED
    BY <1>8, <2>1 DEF BeginStart
<1>9. CASE Send
  <2>1. PICK id \in RequestIds :
            /\ job' = [job EXCEPT !.id = id]
            /\ requests' = requests \union
                  {[id |-> id, cmd |-> job.cmd, agent |-> job.agent]}
    BY <1>9 DEF Send, FreshIds
  <2>2. job.cmd \in Cmds /\ job.agent \in Names
    BY DEF Jobs
  <2>3. job' \in Jobs /\ requests' \subseteq Messages
    BY <2>1, RequestType
  <2>4. out' \subseteq Published
    BY <1>9, <2>2, PublishedType DEF Send
  <2>5. QED
    BY <1>9, <2>3, <2>4 DEF Send
<1>10. CASE Discard
  BY <1>10 DEF Discard
<1>11. CASE CheckPassed
  <2>1. requests' \subseteq Messages /\ inbox' \subseteq Answers
    BY <1>11, AnsweredType DEF CheckPassed
  <2>2. CASE todo # << >>
    <3>1. Head(todo) \in Names /\ Tail(todo) \in Seq(Agents)
      BY <2>2, HeadTailProperties DEF Names
    <3>2. job' = NewJob("check", Head(todo), FALSE)
      BY <1>11, <2>2 DEF CheckPassed
    <3>3. job' \in Jobs
      <4>1. "check" \in Cmds
        BY DEF Cmds
      <4>2. NewJob("check", Head(todo), FALSE) \in Jobs
        BY <3>1, <4>1, NewJobType
      <4>3. QED
        BY <3>2, <4>2
    <3>4. QED
      BY <1>11, <2>1, <2>2, <3>1, <3>3 DEF CheckPassed
  <2>3. CASE todo = << >>
    <3>1. next' \in States /\ initFailures' \in 0..(kMaxInitRetries + 1)
      BY <1>11, <2>3 DEF CheckPassed, NextAfterCheck, States
    <3>2. QED
      BY <1>11, <2>1, <2>3, <3>1 DEF CheckPassed
  <2>4. QED
    BY <2>2, <2>3
<1>12. CASE CheckFailed
  <2>1. requests' \subseteq Messages /\ inbox' \subseteq Answers
    BY <1>12, AnsweredType DEF CheckFailed
  <2>2. out' \subseteq Published
    BY <1>12, PublishedType DEF CheckFailed
  <2>3. deviceStarted' \in BOOLEAN /\ failureStopSent' \in BOOLEAN
    BY <1>12, Zenon DEF CheckFailed, StartedAfterLoss
  <2>4. next' \in States
    BY <1>12 DEF CheckFailed, States
  <2>5. QED
    BY <1>12, <2>1, <2>2, <2>3, <2>4 DEF CheckFailed
<1>13. CASE InitSucceeded
  <2>1. requests' \subseteq Messages /\ inbox' \subseteq Answers
    BY <1>13, AnsweredType DEF InitSucceeded
  <2>2. deviceStarted' \in BOOLEAN /\ startPending' \in BOOLEAN
    BY <1>13, Zenon DEF InitSucceeded
  <2>3. next' \in States /\ initFor' \subseteq Names
    BY <1>13 DEF InitSucceeded, States, Jobs
  <2>4. initFailures' \in 0..(kMaxInitRetries + 1)
    BY <1>13 DEF InitSucceeded
  <2>5. QED
    BY <1>13, <2>1, <2>2, <2>3, <2>4 DEF InitSucceeded
<1>14. CASE InitFailed
  <2>1. requests' \subseteq Messages /\ inbox' \subseteq Answers
    BY <1>14, AnsweredType DEF InitFailed
  <2>2. initFailures' \in 0..(kMaxInitRetries + 1)
    BY <1>14 DEF InitFailed, RecoveryInv, AttemptLeft, Answered
  <2>3. job' \in Jobs
    BY <1>14, NewJobType DEF InitFailed, Cmds
  <2>4. next' \in States
    BY <1>14 DEF InitFailed, States
  <2>5. QED
    BY <1>14, <2>1, <2>2, <2>3, <2>4 DEF InitFailed
<1>15. CASE RebootDone
  <2>1. requests' \subseteq Messages /\ inbox' \subseteq Answers
    BY <1>15, AnsweredType DEF RebootDone
  <2>2. QED
    BY <1>15, <2>1 DEF RebootDone, States
<1>16. CASE Commit
  <2>1. anew' \in BOOLEAN
    BY <1>16, Zenon DEF Commit
  <2>2. out' \subseteq Published
    BY <1>16, PublishedType DEF Commit
  <2>3. QED
    BY <1>16, <2>1, <2>2, NoJobType DEF Commit, States
<1>17. CASE Wake
  BY <1>17 DEF Wake
<1>18. CASE SleepDrain
  <2>1. /\ startPending' \in BOOLEAN /\ failureStopSent' \in BOOLEAN
        /\ startDeviceAfterInit' \in BOOLEAN
    BY <1>18, Zenon DEF SleepDrain, HandleControlMessages
  <2>2. state' \in States /\ initFailures' \in 0..(kMaxInitRetries + 1)
    BY <1>18 DEF SleepDrain, HandleControlMessages, States
  <2>3. QED
    BY <1>18, <2>1, <2>2 DEF SleepDrain, HandleControlMessages
<1>19. CASE StoreNext
  <2>1. Head(stores) \in Stores /\ stores' \in Seq(Stores)
    BY <1>19, HeadTailProperties DEF StoreNext
  <2>2. Head(stores).value \in BOOLEAN
    BY <2>1 DEF Stores
  <2>3. /\ startDeviceAfterInit' \in BOOLEAN /\ failureStopSent' \in BOOLEAN
        /\ scriptMonitoring' \in BOOLEAN /\ deviceStarted' \in BOOLEAN
        /\ startPending' \in BOOLEAN
    BY <1>19, <2>2, Zenon DEF StoreNext
  <2>4. initFailures' \in 0..(kMaxInitRetries + 1) /\ state' \in States
    BY <1>19 DEF StoreNext, States
  <2>5. out' \subseteq Published
    BY <1>19 DEF StoreNext
  <2>6. anew' \in BOOLEAN
    BY <1>19, Zenon DEF StoreNext, Busy
  <2>7. QED
    BY <1>19, <2>1, <2>3, <2>4, <2>5, <2>6 DEF StoreNext
<1>20. CASE ClearActiveAgent
  <2>1. /\ UICall /\ UNCHANGED <<estopRequested, running>>
        /\ activations' = activations + 1
        /\ agent' = NoAgent /\ monitored' = << >> /\ stores' = ResetStores
    BY <1>20, Zenon DEF ClearActiveAgent
  <2>2. anew' \in BOOLEAN
    BY <1>20, Zenon DEF ClearActiveAgent
  <2>3. QED
    BY <2>1, <2>2, StoresType DEF UICall, Names
<1>21. CASE RequestEstop
  BY <1>21 DEF RequestEstop, UICall
<1>22. CASE Stop
  <2>1. running' \in BOOLEAN /\ estopRequested' \in BOOLEAN
    BY <1>22, Zenon DEF Stop
  <2>2. QED
    BY <1>22, <2>1 DEF Stop, UICall
<1>23. CASE Reply
  <2>1. PICK r \in requests, ok \in BOOLEAN :
            /\ requests' = requests \ {r}
            /\ inbox' = inbox \union
                  {[id |-> r.id, cmd |-> r.cmd, agent |-> r.agent, ok |-> ok]}
    BY <1>23 DEF Reply
  <2>2. r \in Messages
    BY DEF TypeOK
  <2>3. [id |-> r.id, cmd |-> r.cmd, agent |-> r.agent, ok |-> ok] \in Answers
    BY <2>2 DEF Messages, Answers
  <2>4. requests' \subseteq Messages /\ inbox' \subseteq Answers
    BY <2>1, <2>3
  <2>5. QED
    BY <1>23, <2>4 DEF Reply, Surroundings
<1>24. CASE Terminated
  BY <1>24 DEF Terminated
<1>25. ASSUME NEW ok \in BOOLEAN, StartDone(ok) PROVE TypeOK'
  <2>1. requests' \subseteq Messages /\ inbox' \subseteq Answers
    BY <1>25, AnsweredType DEF StartDone
  <2>2. deviceStarted' \in BOOLEAN
    BY <1>25, Zenon DEF StartDone
  <2>3. next' \in States
    BY <1>25 DEF StartDone, States
  <2>4. QED
    BY <1>25, <2>1, <2>2, <2>3 DEF StartDone
<1>26. ASSUME NEW a \in Agents, NEW after \in BOOLEAN,
             SetActiveAgent(a, after)
       PROVE  TypeOK'
  <2>1. <<Put("startDeviceAfterInit", after)>> \in Seq(Stores)
    BY StoresType DEF Fields
  <2>2. stores' \in Seq(Stores)
    BY <1>26, <2>1, StoresType, ConcatProperties DEF SetActiveAgent
  <2>3. agent' \in Names /\ monitored' \in Seq(Agents)
    BY <1>26 DEF SetActiveAgent, Names
  <2>4. /\ UICall /\ UNCHANGED <<estopRequested, running>>
        /\ activations' = activations + 1
    BY <1>26, Zenon DEF SetActiveAgent
  <2>5. anew' \in BOOLEAN
    BY <1>26, Zenon DEF SetActiveAgent
  <2>6. QED
    BY <2>2, <2>3, <2>4, <2>5 DEF UICall
<1>27. ASSUME NEW list \in MonitorLists, NEW mon \in BOOLEAN,
             SetMonitoredAgents(list, mon)
       PROVE  TypeOK'
  <2>1. <<Put("failureStopSent", FALSE), Put("scriptMonitoring", mon)>>
           \in Seq(Stores)
    BY DEF Put, Stores, Fields
  <2>2. monitored' \in Seq(Agents)
    BY <1>27 DEF SetMonitoredAgents, Names
  <2>3. QED
    <3>1. stores' \in Seq(Stores)
      BY <1>27, <2>1 DEF SetMonitoredAgents
    <3>2. UICall /\ UNCHANGED <<agent, anew, activations, estopRequested, running>>
      BY <1>27 DEF SetMonitoredAgents
    <3>3. QED
      BY <2>2, <3>1, <3>2 DEF UICall
<1>28. ASSUME NEW a \in Names, EnsureDevice(a) PROVE TypeOK'
  BY <1>28 DEF EnsureDevice, Surroundings
<1>29. ASSUME NEW a \in Agents, Toggle(a) PROVE TypeOK'
  BY <1>29 DEF Toggle, Surroundings
<1>30. CASE UNCHANGED vars
  BY <1>30
<1>31. QED
  BY <1>1, <1>2, <1>3, <1>4, <1>5, <1>6, <1>7, <1>8, <1>9, <1>10, <1>11, <1>12,
     <1>13, <1>14, <1>15, <1>16, <1>17, <1>18, <1>19, <1>20, <1>21, <1>22,
     <1>23, <1>24, <1>25, <1>26, <1>27, <1>28, <1>29, <1>30
     DEF Next, Iterate, UI, Environment

-----------------------------------------------------------------------------
(* Bounded recovery.                                                       *)

\* Recovery stays bounded: init_failures_ is only counted up by the attempt
\* that is under way, and every other store of it is a reset.
LEMMA RecoveryStep == TypeOK /\ RecoveryInv /\ [Next]_vars => RecoveryInv'
<1> SUFFICES ASSUME TypeOK, RecoveryInv, [Next]_vars PROVE RecoveryInv'
  OBVIOUS
<1> USE WatchdogAssumption
    DEF RecoveryInv, AttemptLeft, vars, shared, world, config, flags, locals,
        net, budget
<1>0. initFailures \in Nat /\ kMaxInitRetries \in Nat /\ job \in Jobs
      /\ state \in States /\ current \in States /\ next \in States
  BY DEF TypeOK
<1>1. CASE Drain
  BY <1>0, <1>1 DEF Drain, HandleControlMessages
<1>2. CASE Exit
  BY <1>0, <1>2 DEF Exit
<1>3. CASE Idle
  BY <1>0, <1>3 DEF Idle
<1>4. CASE ServeEstop
  BY <1>0, <1>4 DEF ServeEstop
<1>5. CASE LoadState
  BY <1>0, <1>5 DEF LoadState
<1>6. CASE BeginCheck
  BY <1>0, <1>6 DEF BeginCheck, SeenByCheck, NewJob
<1>7. CASE BeginInit
  BY <1>0, <1>7 DEF BeginInit, NewJob
<1>8. CASE BeginStart
  BY <1>0, <1>8 DEF BeginStart, NewJob
<1>9. CASE Send
  BY <1>0, <1>9 DEF Send, Jobs
<1>10. CASE Discard
  BY <1>0, <1>10 DEF Discard
<1>11. CASE CheckPassed
  <2>1. CASE todo # << >>
    BY <1>0, <1>11, <2>1 DEF CheckPassed, Answered, NewJob, Jobs
  <2>2. CASE todo = << >>
    <3>1. pc' = "commit" /\ next' = NextAfterCheck(observed)
          /\ initFailures' = (IF observed = "DISCONNECTED" THEN 0 ELSE initFailures)
      BY <1>11, <2>2 DEF CheckPassed
    <3>2. next' = "INITIALIZING" => initFailures' = 0
      BY <3>1 DEF NextAfterCheck
    <3>3. QED
      BY <1>0, <3>1, <3>2
  <2>3. QED
    BY <2>1, <2>2
<1>12. CASE CheckFailed
  BY <1>0, <1>12 DEF CheckFailed, Answered
<1>13. CASE InitSucceeded
  BY <1>0, <1>13 DEF InitSucceeded, Answered
<1>14. CASE InitFailed
  BY <1>0, <1>14 DEF InitFailed, Answered, RetryLeft, NewJob
<1>15. CASE RebootDone
  BY <1>0, <1>15 DEF RebootDone, Answered
<1>16. CASE Commit
  BY <1>0, <1>16 DEF Commit, NoJob
<1>17. CASE Wake
  BY <1>0, <1>17 DEF Wake
<1>18. CASE SleepDrain
  BY <1>0, <1>18 DEF SleepDrain, HandleControlMessages
<1>19. CASE StoreNext
  BY <1>0, <1>19 DEF StoreNext
<1>20. CASE ClearActiveAgent
  BY <1>0, <1>20 DEF ClearActiveAgent, UICall
<1>21. CASE RequestEstop
  BY <1>0, <1>21 DEF RequestEstop, UICall
<1>22. CASE Stop
  BY <1>0, <1>22 DEF Stop, UICall
<1>23. CASE Reply
  BY <1>0, <1>23 DEF Reply, Surroundings
<1>24. CASE Terminated
  BY <1>0, <1>24 DEF Terminated
<1>25. ASSUME NEW ok \in BOOLEAN, StartDone(ok) PROVE RecoveryInv'
  BY <1>0, <1>25 DEF StartDone
<1>26. ASSUME NEW a \in Agents, NEW after \in BOOLEAN,
             SetActiveAgent(a, after)
       PROVE  RecoveryInv'
  BY <1>0, <1>26 DEF SetActiveAgent, UICall
<1>27. ASSUME NEW list \in MonitorLists, NEW mon \in BOOLEAN,
             SetMonitoredAgents(list, mon)
       PROVE  RecoveryInv'
  BY <1>0, <1>27 DEF SetMonitoredAgents, UICall
<1>28. ASSUME NEW a \in Names, EnsureDevice(a) PROVE RecoveryInv'
  BY <1>0, <1>28 DEF EnsureDevice, Surroundings
<1>29. ASSUME NEW a \in Agents, Toggle(a) PROVE RecoveryInv'
  BY <1>0, <1>29 DEF Toggle, Surroundings
<1>30. CASE UNCHANGED vars
  BY <1>0, <1>30
<1>31. QED
  BY <1>1, <1>2, <1>3, <1>4, <1>5, <1>6, <1>7, <1>8, <1>9, <1>10, <1>11, <1>12,
     <1>13, <1>14, <1>15, <1>16, <1>17, <1>18, <1>19, <1>20, <1>21, <1>22,
     <1>23, <1>24, <1>25, <1>26, <1>27, <1>28, <1>29, <1>30
     DEF Next, Iterate, UI, Environment

-----------------------------------------------------------------------------
(* HEALTHY needs an initialisation.                                        *)

\* Whatever the worker has read, asked for or decided, it only leads to HEALTHY
\* when an init_device has succeeded since the last estop or loss.
LEMMA HealthStep == TypeOK /\ HealthInv /\ [Next]_vars => HealthInv'
<1> SUFFICES ASSUME TypeOK, HealthInv, [Next]_vars PROVE HealthInv'
  OBVIOUS
<1> USE WatchdogAssumption
    DEF HealthInv, vars, shared, world, config, flags, locals, net, budget
<1>0. job \in Jobs /\ state \in States /\ current \in States
      /\ next \in States /\ observed \in States
  BY DEF TypeOK
<1>1. CASE Drain
  BY <1>0, <1>1 DEF Drain, HandleControlMessages
<1>2. CASE Exit
  BY <1>0, <1>2 DEF Exit
<1>3. CASE Idle
  BY <1>0, <1>3 DEF Idle
<1>4. CASE ServeEstop
  BY <1>0, <1>4 DEF ServeEstop
<1>5. CASE LoadState
  BY <1>0, <1>5 DEF LoadState
<1>6. CASE BeginCheck
  BY <1>0, <1>6 DEF BeginCheck, SeenByCheck, NewJob
<1>7. CASE BeginInit
  BY <1>0, <1>7 DEF BeginInit, NewJob
<1>8. CASE BeginStart
  BY <1>0, <1>8 DEF BeginStart, NewJob
<1>9. CASE Send
  BY <1>0, <1>9 DEF Send, Jobs
<1>10. CASE Discard
  BY <1>0, <1>10 DEF Discard
<1>11. CASE CheckPassed
  <2>1. pc = "await" /\ UNCHANGED <<state, observed, initFor>>
    BY <1>11 DEF CheckPassed, Answered
  <2>2. CASE todo # << >>
    BY <1>0, <1>11, <2>1, <2>2 DEF CheckPassed, NewJob, Jobs
  <2>3. CASE todo = << >>
    <3>1. pc' = "commit" /\ next' = NextAfterCheck(observed)
      BY <1>11, <2>3 DEF CheckPassed
    <3>2. next' = "HEALTHY" => observed \in {"HEALTHY", "INITIALIZING"}
      BY <1>0, <3>1 DEF NextAfterCheck, States
    <3>3. QED
      BY <1>0, <1>11, <2>1, <3>1, <3>2 DEF CheckPassed
  <2>4. QED
    BY <2>2, <2>3
<1>12. CASE CheckFailed
  BY <1>0, <1>12 DEF CheckFailed, Answered
<1>13. CASE InitSucceeded
  BY <1>0, <1>13 DEF InitSucceeded, Answered
<1>14. CASE InitFailed
  BY <1>0, <1>14 DEF InitFailed, Answered, RetryLeft, NewJob
<1>15. CASE RebootDone
  BY <1>0, <1>15 DEF RebootDone, Answered
<1>16. CASE Commit
  BY <1>0, <1>16 DEF Commit, NoJob
<1>17. CASE Wake
  BY <1>0, <1>17 DEF Wake
<1>18. CASE SleepDrain
  BY <1>0, <1>18 DEF SleepDrain, HandleControlMessages
<1>19. CASE StoreNext
  BY <1>0, <1>19 DEF StoreNext
<1>20. CASE ClearActiveAgent
  BY <1>0, <1>20 DEF ClearActiveAgent, UICall
<1>21. CASE RequestEstop
  BY <1>0, <1>21 DEF RequestEstop, UICall
<1>22. CASE Stop
  BY <1>0, <1>22 DEF Stop, UICall
<1>23. CASE Reply
  BY <1>0, <1>23 DEF Reply, Surroundings
<1>24. CASE Terminated
  BY <1>0, <1>24 DEF Terminated
<1>25. ASSUME NEW ok \in BOOLEAN, StartDone(ok) PROVE HealthInv'
  BY <1>0, <1>25 DEF StartDone, Answered
<1>26. ASSUME NEW a \in Agents, NEW after \in BOOLEAN,
             SetActiveAgent(a, after)
       PROVE  HealthInv'
  BY <1>0, <1>26 DEF SetActiveAgent, UICall
<1>27. ASSUME NEW list \in MonitorLists, NEW mon \in BOOLEAN,
             SetMonitoredAgents(list, mon)
       PROVE  HealthInv'
  BY <1>0, <1>27 DEF SetMonitoredAgents, UICall
<1>28. ASSUME NEW a \in Names, EnsureDevice(a) PROVE HealthInv'
  BY <1>0, <1>28 DEF EnsureDevice, Surroundings
<1>29. ASSUME NEW a \in Agents, Toggle(a) PROVE HealthInv'
  BY <1>0, <1>29 DEF Toggle, Surroundings
<1>30. CASE UNCHANGED vars
  BY <1>0, <1>30
<1>31. QED
  BY <1>1, <1>2, <1>3, <1>4, <1>5, <1>6, <1>7, <1>8, <1>9, <1>10, <1>11, <1>12,
     <1>13, <1>14, <1>15, <1>16, <1>17, <1>18, <1>19, <1>20, <1>21, <1>22,
     <1>23, <1>24, <1>25, <1>26, <1>27, <1>28, <1>29, <1>30
     DEF Next, Iterate, UI, Environment

-----------------------------------------------------------------------------
(* The theorems.                                                           *)

LEMMA InvInit == Init => IInv
<1>1. Init => RecoveryInv
  BY WatchdogAssumption DEF Init, RecoveryInv, AttemptLeft
<1>2. Init => HealthInv
  BY DEF Init, HealthInv
<1>3. QED
  BY <1>1, <1>2, InitTypeOK DEF IInv

LEMMA InvStep == IInv /\ [Next]_vars => IInv'
  BY TypeStep, RecoveryStep, HealthStep DEF IInv

THEOREM Invariance == Spec => []IInv
<1>1. QED
  BY InvInit, InvStep, PTL DEF Spec

\* Every variable keeps its type, and init_failures_ its bound, for any agents
\* and any number of UI calls, late answers and ensure-device requests.
THEOREM TypeCorrect == Spec => []TypeOK
<1>1. IInv => TypeOK
  BY DEF IInv
<1>2. QED
  BY <1>1, Invariance, PTL

\* No init_device is attempted once kMaxInitRetries attempts have failed
\* (doInitDevice, doRecoveryReboot), whenever the UI stores init_failures_.
THEOREM Recovery == Spec => []RecoveryBounded
<1>1. IInv => RecoveryBounded
  BY DEF IInv, RecoveryInv, AttemptLeft, RecoveryBounded
<1>2. QED
  BY <1>1, Invariance, PTL

\* HEALTHY is never reached without a successful init_device since the last
\* estop and the last committed loss (workerLoop, doCheck, doInitDevice).
THEOREM Health == Spec => []HealthyNeedsInit
<1>1. IInv => HealthyNeedsInit
  BY DEF IInv, HealthInv, HealthyNeedsInit
<1>2. QED
  BY <1>1, Invariance, PTL

-----------------------------------------------------------------------------
(* Whose answer ends a wait.                                               *)

\* Whatever carries the id that the worker waits for belongs to its request: ids are
\* only taken that nothing under way has, and an answer keeps what was asked.  What
\* carries no id is of an estop, by the types.
IdsInv ==
  pc = "await" =>
      \A m \in requests \union inbox :
         m.id = job.id => m.cmd = job.cmd /\ m.agent = job.agent

LEMMA IdsStep == TypeOK /\ IdsInv /\ [Next]_vars => IdsInv'
<1> SUFFICES ASSUME TypeOK, IdsInv, [Next]_vars, pc' = "await"
             PROVE  \A m \in requests' \union inbox' :
                       m.id = job'.id => m.cmd = job'.cmd /\ m.agent = job'.agent
  BY DEF IdsInv
<1>1. CASE pc # "await"
  <2>1. Send
    BY <1>1 DEF Next, Iterate, Drain, Exit, Idle, ServeEstop, LoadState, BeginCheck, BeginInit,
       BeginStart, Discard, CheckPassed, CheckFailed, InitSucceeded, InitFailed, RebootDone,
       StartDone, Answered, Commit, Wake, SleepDrain, StoreNext, UI, UICall, SetActiveAgent,
       ClearActiveAgent, SetMonitoredAgents, RequestEstop, Stop, Environment, Reply,
       EnsureDevice, Toggle, Surroundings, Terminated, vars
  <2>2. PICK id \in FreshIds :
           /\ job' = [job EXCEPT !.id = id] /\ inbox' = inbox
           /\ requests' = requests \union {[id |-> id, cmd |-> job.cmd, agent |-> job.agent]}
    BY <2>1 DEF Send
  <2>3. job'.id = id /\ job'.cmd = job.cmd /\ job'.agent = job.agent
    BY <2>2 DEF TypeOK, Jobs
  <2>4. \A m \in requests \union inbox : m.id # id BY <2>2 DEF FreshIds
  <2> QED BY <2>2, <2>3, <2>4
<1>2. CASE pc = "await" /\ Reply
  <2>1. PICK r \in requests, ok \in BOOLEAN :
           /\ requests' = requests \ {r}
           /\ inbox' = inbox \union
                 {[id |-> r.id, cmd |-> r.cmd, agent |-> r.agent, ok |-> ok]}
    BY <1>2 DEF Reply
  <2>2. job' = job BY <1>2 DEF Reply, Surroundings, locals
  <2> QED BY <1>2, <2>1, <2>2 DEF IdsInv
<1>3. CASE pc = "await" /\ ~Reply
  <2>1. requests' \subseteq requests /\ inbox' \subseteq inbox /\ job' = job
    BY <1>3 DEF Next, Iterate, Drain, Exit, Idle, ServeEstop, LoadState, BeginCheck, BeginInit,
       BeginStart, Send, Discard, CheckPassed, CheckFailed, InitSucceeded, InitFailed,
       RebootDone, StartDone, Commit, Wake, SleepDrain, HandleControlMessages, StoreNext, UI,
       UICall, SetActiveAgent, ClearActiveAgent, SetMonitoredAgents, RequestEstop, Stop,
       Environment, EnsureDevice, Toggle, Surroundings, Terminated, vars, locals, net
  <2> QED BY <1>3, <2>1 DEF IdsInv
<1> QED BY <1>1, <1>2, <1>3

LEMMA IdsInvariance == Spec => []IdsInv
<1>1. Init => IdsInv BY DEF Init, IdsInv
<1> QED BY <1>1, IdsStep, TypeCorrect, PTL DEF Spec

\* What a wait takes for its answer is of the command and the agent it waits for, for any
\* number of late answers and of answers without an id (makeWatchdogRequestId, waitForResult).
THEOREM VerdictsAreOwn == Spec => VerdictIsForRequest
<1> DEFINE Own == \A m \in inbox \ inbox' :
                     pc = "await" /\ pc' # "await" => m.cmd = job.cmd /\ m.agent = job.agent
<1>1. ASSUME TypeOK, IdsInv, [Next]_vars PROVE [Own]_vars
  <2> SUFFICES ASSUME Next, NEW m \in inbox \ inbox', pc = "await", pc' # "await"
               PROVE  m.cmd = job.cmd /\ m.agent = job.agent
    BY <1>1 DEF vars, net
  <2>1. \E ok \in BOOLEAN : Answered(ok)
    BY DEF Next, Iterate, Drain, Exit, Idle, ServeEstop, LoadState, BeginCheck, BeginInit,
       BeginStart, Send, Discard, CheckPassed, CheckFailed, InitSucceeded, InitFailed,
       RebootDone, StartDone, Commit, Wake, SleepDrain, StoreNext, UI, UICall, SetActiveAgent,
       ClearActiveAgent, SetMonitoredAgents, RequestEstop, Stop, Environment, Reply,
       EnsureDevice, Toggle, Surroundings, Terminated, vars
  <2>2. m.id = job.id \/ (m.id = NoId /\ m.cmd = job.cmd)
    BY <2>1 DEF Answered, Matches, net
  <2>3. ~(m.id = NoId /\ m.cmd = job.cmd)
    <3>1. m \in Answers /\ job.cmd \in Cmds BY <1>1 DEF TypeOK, Jobs
    <3>2. m.id = NoId => m.cmd = "estop"
      BY <3>1, WatchdogAssumption DEF Answers, RequestIds, NoId
    <3> QED BY <3>1, <3>2 DEF Cmds
  <2> QED BY <1>1, <2>2, <2>3 DEF IdsInv
<1> QED BY <1>1, IdsInvariance, TypeCorrect, PTL DEF Spec, VerdictIsForRequest

-----------------------------------------------------------------------------
(* Starting over.                                                          *)

\* What the worker has read, asked for or decided when anew becomes true, or has taken up
\* since, does not lead to HEALTHY or to ERROR, but for the init_device of the agent that
\* is active.
AnewInv ==
  anew =>
    /\ state \in {"DISCONNECTED", "INITIALIZING"}
    /\ pc = "dispatch" /\ current \in {"HEALTHY", "ERROR"} => state = "DISCONNECTED"
    /\ ~(pc = "dispatch" /\ current = "HEALTHY" /\ startPending)
    /\ pc \in {"send", "await"} =>
          /\ job.cmd = "check" => observed = "DISCONNECTED"
          /\ job.cmd \in {"init_device", "reboot_device"} => job.agent = agent
          /\ job.cmd # "start_device"
    /\ pc = "commit" => next \in {"DISCONNECTED", "INITIALIZING"}

LEMMA AnewStep == TypeOK /\ HealthInv /\ AnewInv /\ [Next]_vars => AnewInv'
<1> SUFFICES ASSUME TypeOK, HealthInv, AnewInv, [Next]_vars PROVE AnewInv'
  OBVIOUS
<1> USE DEF AnewInv, vars, shared, world, config, flags, locals, net, budget
<1>0. job \in Jobs /\ state \in States /\ current \in States
      /\ next \in States /\ observed \in States /\ anew \in BOOLEAN
  BY DEF TypeOK
<1>1. CASE Drain
  BY <1>0, <1>1 DEF Drain, HandleControlMessages
<1>2. CASE Exit
  BY <1>2 DEF Exit
<1>3. CASE Idle
  BY <1>3 DEF Idle
<1>4. CASE ServeEstop
  BY <1>4 DEF ServeEstop
<1>5. CASE LoadState
  BY <1>0, <1>5 DEF LoadState
<1>6. CASE BeginCheck
  <2>1. anew => state = "DISCONNECTED"
    BY <1>0, <1>6 DEF BeginCheck, HealthInv
  <2>2. /\ UNCHANGED <<anew, state, agent>> /\ observed' = state
        /\ \/ pc' = "commit" /\ next' = "DISCONNECTED"
           \/ pc' = "send" /\ job'.cmd = "check"
    BY <1>6 DEF BeginCheck, SeenByCheck, NewJob
  <2> QED BY <2>1, <2>2
<1>7. CASE BeginInit
  BY <1>7 DEF BeginInit, NewJob
<1>8. CASE BeginStart
  BY <1>8 DEF BeginStart
<1>9. CASE Send
  BY <1>0, <1>9 DEF Send, Jobs
<1>10. CASE Discard
  BY <1>10 DEF Discard
<1>11. CASE CheckPassed
  <2>1. /\ pc = "await" /\ job.cmd = "check" /\ UNCHANGED <<anew, state, agent, observed>>
        /\ \/ job' = NewJob("check", Head(todo), FALSE) /\ pc' = "send"
           \/ next' = NextAfterCheck(observed) /\ pc' = "commit"
    BY <1>11 DEF CheckPassed, Answered
  <2>2. NewJob("check", Head(todo), FALSE).cmd = "check" BY DEF NewJob
  <2>3. NextAfterCheck("DISCONNECTED") = "INITIALIZING" BY DEF NextAfterCheck
  <2> QED BY <2>1, <2>2, <2>3
<1>12. CASE CheckFailed
  BY <1>12 DEF CheckFailed, Answered
<1>13. CASE InitSucceeded
  BY <1>13 DEF InitSucceeded, Answered
<1>14. CASE InitFailed
  <2>1. pc = "await" /\ job.cmd = "init_device" /\ UNCHANGED <<agent, state>>
    BY <1>14 DEF InitFailed, Answered
  <2>2. \/ /\ job' = NewJob("reboot_device", agent, TRUE) /\ pc' = "send"
           /\ UNCHANGED anew
        \/ pc' = "commit" /\ anew' = (anew /\ job.agent # agent)
    BY <1>14 DEF InitFailed
  <2>3. /\ NewJob("reboot_device", agent, TRUE).cmd = "reboot_device"
        /\ NewJob("reboot_device", agent, TRUE).agent = agent
    BY DEF NewJob
  <2>4. QED
    BY <2>1, <2>2, <2>3
<1>15. CASE RebootDone
  BY <1>15 DEF RebootDone, Answered
<1>16. CASE Commit
  BY <1>16 DEF Commit
<1>17. CASE Wake
  BY <1>17 DEF Wake
<1>18. CASE SleepDrain
  BY <1>0, <1>18 DEF SleepDrain, HandleControlMessages
<1>19. CASE StoreNext
  <2>1. /\ UNCHANGED <<agent, pc, current, next, observed, job>>
        /\ startPending' => startPending
        /\ IF Head(stores).field = "state" THEN state' = "DISCONNECTED" /\ anew' = ~Busy
                                          ELSE state' = state /\ anew' = anew
    BY <1>19 DEF StoreNext
  <2>2. CASE Head(stores).field = "state"
    BY <2>1, <2>2 DEF Busy
  <2>3. CASE Head(stores).field # "state"
    BY <2>1, <2>3
  <2> QED BY <2>2, <2>3
<1>20. CASE ClearActiveAgent
  BY <1>20 DEF ClearActiveAgent
<1>21. CASE RequestEstop
  BY <1>21 DEF RequestEstop, UICall
<1>22. CASE Stop
  BY <1>22 DEF Stop, UICall
<1>23. CASE Environment
  BY <1>23 DEF Environment, Reply, EnsureDevice, Toggle, Surroundings
<1>24. CASE Terminated \/ UNCHANGED vars
  BY <1>24 DEF Terminated
<1>25. ASSUME NEW ok \in BOOLEAN, StartDone(ok) PROVE AnewInv'
  BY <1>25 DEF StartDone, Answered
<1>26. ASSUME NEW a \in Agents, NEW after \in BOOLEAN, SetActiveAgent(a, after)
       PROVE  AnewInv'
  BY <1>26 DEF SetActiveAgent
<1>27. ASSUME NEW list \in MonitorLists, NEW mon \in BOOLEAN,
             SetMonitoredAgents(list, mon)
       PROVE  AnewInv'
  BY <1>27 DEF SetMonitoredAgents, UICall
<1> QED
  BY <1>1, <1>2, <1>3, <1>4, <1>5, <1>6, <1>7, <1>8, <1>9, <1>10, <1>11, <1>12,
     <1>13, <1>14, <1>15, <1>16, <1>17, <1>18, <1>19, <1>20, <1>21, <1>22,
     <1>23, <1>24, <1>25, <1>26, <1>27
     DEF Next, Iterate, UI

\* An activation that ends while the worker has nothing in hand, an estop, a loss and a
\* script's request out of ERROR all make the machine start over: it is HEALTHY or ERROR
\* again only by an init_device of the agent that is active (setActiveAgent, workerLoop,
\* doCheck), wherever the UI's stores and the second look of doCheck fall.
THEOREM StartsOver == Spec => []StartsAnew
<1>1. Init => AnewInv
  BY DEF Init, AnewInv
<1>2. IInv /\ AnewInv /\ [Next]_vars => AnewInv'
  BY AnewStep DEF IInv
<1>3. AnewInv => StartsAnew
  BY DEF AnewInv, StartsAnew
<1> QED BY <1>1, <1>2, <1>3, Invariance, PTL DEF Spec
=============================================================================
