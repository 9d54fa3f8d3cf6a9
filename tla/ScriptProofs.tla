---------------------------- MODULE ScriptProofs ----------------------------
(***************************************************************************)
(* Proofs about ScriptsActuator and ScriptSession, for any scripts, agents *)
(* and workflows and without the bounds.                                   *)
(*                                                                         *)
(* The messages of the actuator and the state they speak of are proved     *)
(* about every step of the actuator, whoever else writes to the UI's queue:*)
(* the same invariant holds of the actuator alone (Spec) and of the        *)
(* session it is part of (SessionSpec).  What MainWindow makes of the      *)
(* messages follows, from the order in which they lie in the queue.        *)
(***************************************************************************)
EXTENDS ScriptSession, FiniteSetTheorems, WellFoundedInduction, TLAPS

\* What lies in the UI's queue: the actuator's messages and those of others.
UiMessages == FromActuator \union [type : {"activated"}, agent : Agents, ok : BOOLEAN]
                           \union [type : {"notice"}]

Typed == OwnTypes /\ toUi \in Seq(UiMessages)

\* Histories never run ahead of the scripts started.
PastOnly ==
    /\ \A r \in stops : r <= run
    /\ \A p \in estops : p[1] <= run
    /\ \A p \in announced : p[1] <= run
    /\ \A i \in DOMAIN toUi : toUi[i].type = "finished" => toUi[i].run <= run

\* While a script runs, stop_requested_ says whether it was told to stop; once
\* SCRIPT_FINISHED of a run is published, that run gets no further stop.
StopInv ==
    /\ proc # "NotRunning" => (stopRequested <=> run \in stops)
    /\ proc # "NotRunning" =>
          \A i \in DOMAIN toUi : toUi[i].type = "finished" => toUi[i].run # run
    /\ StopFlagHonest

\* What the actuator knows the script to require is what this script announced.
ArmInv ==
    /\ \A a \in required : <<run, a>> \in announced
    /\ EstopOnlyOwn
    /\ StopReachesArm

\* A start that has not been followed by an end is that of the current run.
LifeInv ==
    /\ LifecyclePaired
    /\ \A i \in DOMAIN toUi :
          (LastEvent(i) /\ toUi[i].type = "started") => toUi[i].run = run

IInv == Typed /\ PastOnly /\ StopInv /\ ArmInv /\ LifeInv /\ EndsShownStopped

-----------------------------------------------------------------------------
(* Sets of numbers, and workflows.                                          *)

\* The least element, from the well-foundedness of strict inclusion: the
\* intervals below the members of S are finite sets.
LEMMA LeastElement ==
  ASSUME NEW S \in SUBSET Nat, S # {}
  PROVE  \E n \in S : \A m \in S : n <= m
<1> DEFINE Below == {0..(k - 1) : k \in S}
<1>1. Below \subseteq FiniteSubsetsOf(Nat) /\ Below # {}
  <2>1. \A k \in S : IsFiniteSet(0..(k - 1)) /\ 0..(k - 1) \subseteq Nat
    BY FS_Interval
  <2>2. QED
    BY <2>1 DEF FiniteSubsetsOf
<1>2. \E x \in Below : \A y \in Below : <<y, x>> \notin StrictSubsetOrdering(Nat)
  <2> HIDE DEF Below
  <2>1. IsWellFoundedOn(StrictSubsetOrdering(Nat), FiniteSubsetsOf(Nat))
    BY FS_StrictSubsetOrderingWellFounded
  <2>2. QED
    BY <1>1, <2>1, WFMin
<1>3. PICK n \in S :
         \A y \in Below : <<y, 0..(n - 1)>> \notin StrictSubsetOrdering(Nat)
  BY <1>2
<1>4. ASSUME NEW m \in S, m < n PROVE FALSE
  <2>1. /\ 0..(m - 1) \in Below
        /\ 0..(m - 1) \subseteq 0..(n - 1) /\ 0..(n - 1) \subseteq Nat
    BY <1>4
  <2>2. m \in 0..(n - 1) /\ m \notin 0..(m - 1)
    BY <1>4
  <2>3. <<0..(m - 1), 0..(n - 1)>> \in StrictSubsetOrdering(Nat)
    BY <2>1, <2>2 DEF StrictSubsetOrdering
  <2>4. QED
    BY <1>3, <2>1, <2>3
<1>5. QED
  BY <1>4

LEMMA LastMember ==
  ASSUME NEW n \in Nat, NEW S \in SUBSET (1..n), S # {}
  PROVE  Last(S) \in S
<1> DEFINE Mirror == {n - i : i \in S}
<1>1. Mirror \in SUBSET Nat /\ Mirror # {}
  <2>1. \A i \in S : n - i \in Nat
    OBVIOUS
  <2>2. QED
    BY <2>1
<1>2. PICK d \in Mirror : \A e \in Mirror : d <= e
  BY <1>1, LeastElement
<1>3. PICK i \in S : d = n - i
  OBVIOUS
<1>4. \A j \in S : j <= i
  <2>1. \A j \in S : n - j \in Mirror
    OBVIOUS
  <2>2. \A j \in S : j \in Int /\ i \in Int
    OBVIOUS
  <2>3. QED
    BY <1>2, <1>3, <2>1, <2>2
<1>5. QED
  BY <1>4 DEF Last

LEMMA MarkType ==
  ASSUME NEW steps \in Seq(Steps), NEW S, NEW status \in Statuses
  PROVE  Mark(steps, S, status) \in Seq(Steps)
<1>1. \A i \in DOMAIN steps : steps[i] \in Steps
  OBVIOUS
<1>2. \A i \in DOMAIN steps :
         [key |-> steps[i].key, status |-> IF i \in S THEN status ELSE steps[i].status]
            \in Steps
  BY <1>1 DEF Steps
<1>3. DOMAIN steps = 1..Len(steps) /\ Len(steps) \in Nat
  OBVIOUS
<1>4. QED
  BY <1>2, <1>3 DEF Mark

LEMMA OrOneStepType ==
  ASSUME NEW shown \in Seq(Steps), NEW status \in Statuses
  PROVE  OrOneStep(shown, status) \in Seq(Steps)
<1>1. [key |-> NoKey, status |-> status] \in Steps
  BY DEF Steps
<1>2. QED
  BY <1>1 DEF OrOneStep

LEMMA StopType ==
  ASSUME NEW shown \in Seq(Steps)
  PROVE  Stopping(shown) \in Seq(Steps) /\ Stopped(shown) \in Seq(Steps)
<1>1. "stopping" \in Statuses /\ "stopped" \in Statuses
  BY DEF Statuses
<1>2. QED
  BY <1>1, MarkType, OrOneStepType DEF Stopping, Stopped

\* The last workflow of a stopped script: nothing still runs, something stopped.
LEMMA StoppedShows ==
  ASSUME NEW shown \in Seq(Steps)
  PROVE  /\ With(Stopped(shown), {"running", "stopping"}) = {}
         /\ With(Stopped(shown), {"stopped"}) # {}
<1> DEFINE steps == OrOneStep(shown, "stopped")
           T == ToEnd(steps)
<1>1. steps \in Seq(Steps) /\ steps # << >>
  <2>1. "stopped" \in Statuses
    BY DEF Statuses
  <2>2. QED
    BY <2>1, OrOneStepType DEF OrOneStep
<1> HIDE DEF steps
<1>2. DOMAIN steps = 1..Len(steps) /\ Len(steps) \in Nat \ {0}
  BY <1>1
<1>3. /\ T \subseteq DOMAIN steps /\ T # {}
      /\ \A i \in DOMAIN steps \ T : steps[i].status \notin {"running", "stopping"}
  <2> DEFINE busy == With(steps, {"stopping", "running"})
             open   == With(steps, Statuses \ {"success"})
  <2>1. busy \subseteq DOMAIN steps /\ open \subseteq DOMAIN steps
    BY DEF With
  <2>2. \A i \in DOMAIN steps \ busy : steps[i].status \notin {"running", "stopping"}
    BY DEF With
  <2>3. CASE busy # {}
    BY <2>1, <2>2, <2>3 DEF ToEnd
  <2>4. CASE busy = {} /\ open # {}
    <3>1. Last(open) \in open
      BY <1>2, <2>1, <2>4, LastMember
    <3>2. T = {Last(open)}
      BY <2>4 DEF ToEnd
    <3>3. QED
      BY <2>1, <2>2, <2>4, <3>1, <3>2
  <2>5. CASE busy = {} /\ open = {}
    <3>1. T = {Len(steps)}
      BY <2>5 DEF ToEnd
    <3>2. QED
      BY <1>2, <2>2, <2>5, <3>1
  <2>6. QED
    BY <2>3, <2>4, <2>5
<1>4. Stopped(shown) = [i \in DOMAIN steps |->
         [key |-> steps[i].key,
          status |-> IF i \in T THEN "stopped" ELSE steps[i].status]]
  BY DEF Stopped, Mark, steps
<1> HIDE DEF T
<1>5. QED
  BY <1>3, <1>4 DEF With

-----------------------------------------------------------------------------
(* Types.                                                                   *)

LEMMA AppendType ==
  ASSUME NEW S, NEW s \in Seq(S), NEW m \in S
  PROVE  Append(s, m) \in Seq(S)
  OBVIOUS

LEMMA InitType == Init => TypeOK
<1> SUFFICES ASSUME Init PROVE TypeOK
  OBVIOUS
<1>1. \A S : << >> \in Seq(S)
  OBVIOUS
<1>2. Len(pipe) <= lines
  BY DEF Init
<1>3. QED
  BY <1>1, <1>2 DEF Init, TypeOK, OwnTypes, Runs

LEMMA TellType ==
  ASSUME NEW r \in Runs
  PROVE  /\ [type |-> "started", run |-> r] \in FromActuator
         /\ [type |-> "dialog", run |-> r] \in FromActuator
         /\ \A stop \in BOOLEAN :
               [type |-> "finished", run |-> r, stop |-> stop] \in FromActuator
         /\ \A S \in RequiredSets :
               [type |-> "required", run |-> r, agents |-> S] \in FromActuator
         /\ \A w \in Seq(Steps) :
               [type |-> "workflow", run |-> r, steps |-> w] \in FromActuator
  BY DEF FromActuator

LEMMA TakeType ==
  ASSUME OwnTypes, NEW type, Take(type)
  PROVE  inbox' \in Seq(ToActuator) /\ Head(inbox) \in ToActuator
  BY DEF OwnTypes, Take

LEMMA LineType ==
  ASSUME OwnTypes, NEW kind, ReadLine(kind)
  PROVE  /\ pipe' \in Seq(Lines) /\ Len(pipe') <= lines
         /\ Head(pipe) \in Lines /\ Head(pipe).kind = kind
         /\ kind = "required" => Head(pipe).agents \in RequiredSets
         /\ kind = "workflow" => Head(pipe).steps \in Workflows
<1>1. pipe \in Seq(Lines) /\ pipe # << >> /\ pipe' = Tail(pipe) /\ Head(pipe).kind = kind
      /\ lines \in Nat /\ Len(pipe) <= lines
  BY DEF OwnTypes, ReadLine
<1>2. Head(pipe) \in Lines /\ pipe' \in Seq(Lines) /\ Len(pipe') <= lines
  BY <1>1
<1>3. (kind = "required" => Head(pipe).agents \in RequiredSets)
      /\ (kind = "workflow" => Head(pipe).steps \in Workflows)
  BY <1>1, <1>2, ActuatorAssumption DEF Lines
<1>4. QED
  BY <1>1, <1>2, <1>3

\* The UI's queue may hold messages of others: any set M that has the actuator's.
LEMMA TypeStep ==
  ASSUME NEW M, FromActuator \subseteq M, \A m \in M : m.type = "dialog" => m.run \in Runs,
         OwnTypes, toUi \in Seq(M), [Next]_actuatorVars
  PROVE  OwnTypes' /\ toUi' \in Seq(M)
<1> DEFINE Types == OwnTypes /\ toUi \in Seq(M)
<1> SUFFICES Types'
  OBVIOUS
<1> USE ActuatorAssumption DEF Types
<1>1. CASE Writes
  <2>1. PICK line \in Lines : pipe' = Append(pipe, line)
    BY <1>1 DEF Writes
  <2>2. pipe' \in Seq(Lines) /\ Len(pipe') <= lines'
    BY <1>1, <2>1 DEF Writes, OwnTypes
  <2>3. QED
    BY <1>1, <2>2 DEF Writes, OwnTypes, current, history
<1>2. CASE Exits
  BY <1>2 DEF Exits, OwnTypes, current, history
<1>3. CASE RefuseRun
  BY <1>3, TakeType DEF RefuseRun, OwnTypes, current, process, history
<1>4. CASE doRunScript
  <2>1. Head(inbox).script \in Scripts \union {NoScript}
    BY <1>4, TakeType DEF doRunScript, ToActuator, Take
  <2>2. inbox' \in Seq(ToActuator) /\ pipe' \in Seq(Lines) /\ Len(pipe') <= lines'
    BY <1>4, TakeType DEF doRunScript, OwnTypes
  <2>3. QED
    <3>1. run' \in Runs /\ pid' \in {0, run'} /\ script' \in Scripts \union {NoScript}
      BY <1>4, <2>1 DEF doRunScript, ResetForRun, OwnTypes, Runs
    <3>2. required' = {} /\ workflow' \in Seq(Steps) /\ stopRequested' = FALSE
      BY <1>4 DEF doRunScript, ResetForRun
    <3>3. QED
      BY <1>4, <2>2, <3>1, <3>2 DEF doRunScript, OwnTypes, history
<1>5. CASE IdleStop
  BY <1>5, TakeType DEF IdleStop, OwnTypes, process, history
<1>6. ASSUME Terminate, UNCHANGED run
      PROVE  /\ workflow' \in Seq(Steps) /\ toUi' \in Seq(M)
             /\ stops' \subseteq Runs /\ estops' \subseteq Runs \X UrAgents
             /\ stopRequested' \in BOOLEAN
  <2>1. workflow' \in Seq(Steps)
    BY <1>6, StopType DEF Terminate, OwnTypes
  <2>2. toUi' \in Seq(M)
    <3>1. run \in Runs /\ toUi \in Seq(M)
      BY DEF OwnTypes
    <3>2. [type |-> "workflow", run |-> run, steps |-> workflow'] \in FromActuator
      BY <2>1, <3>1, TellType
    <3>3. QED
      BY <1>6, <3>1, <3>2, AppendType DEF Terminate
  <2>3. EstopTargets \subseteq UrAgents
    BY DEF EstopTargets
  <2>4. QED
    BY <1>6, <2>1, <2>2, <2>3 DEF Terminate, OwnTypes
<1>7. CASE doStopScript
  BY <1>6, <1>7, TakeType DEF doStopScript, ArmKillTimer, OwnTypes, process
<1>8. CASE KillFires
  <2>1. killTimers' \in Nat
    BY <1>8 DEF KillFires, OwnTypes
  <2>2. QED
    BY <1>8, <2>1 DEF KillFires, OwnTypes, current, history
<1>9. CASE sendRuntimeResponse
  BY <1>9, TakeType DEF sendRuntimeResponse, OwnTypes, current, process
<1>10. CASE Started
  <2>1. run \in Runs /\ toUi \in Seq(M)
    BY DEF OwnTypes
  <2>2. [type |-> "started", run |-> run] \in FromActuator
    BY <2>1, TellType
  <2>3. toUi' \in Seq(M)
    BY <1>10, <2>1, <2>2, AppendType DEF Started
  <2>4. QED
    BY <1>10, <2>3 DEF Started, OwnTypes, history
<1>11. CASE StartFails
  BY <1>11 DEF StartFails, OwnTypes, current, history
<1>12. CASE handleRequiredAgentsEvent
  <2>1. Head(pipe).agents \in RequiredSets /\ pipe' \in Seq(Lines) /\ Len(pipe') <= lines
    BY <1>12, LineType DEF handleRequiredAgentsEvent
  <2>2. toUi' \in Seq(M)
    <3>1. run \in Runs /\ toUi \in Seq(M)
      BY DEF OwnTypes
    <3>2. [type |-> "required", run |-> run, agents |-> Head(pipe).agents] \in FromActuator
      BY <2>1, <3>1, TellType
    <3>3. QED
      BY <1>12, <3>1, <3>2, AppendType DEF handleRequiredAgentsEvent
  <2>3. announced' \subseteq Runs \X UNION RequiredSets
    BY <1>12, <2>1 DEF handleRequiredAgentsEvent, OwnTypes
  <2>4. QED
    BY <1>12, <2>1, <2>2, <2>3 DEF handleRequiredAgentsEvent, ReadLine, OwnTypes
<1>13. CASE handleWorkflowEvent
  <2>1. Head(pipe).steps \in Seq(Steps) /\ pipe' \in Seq(Lines) /\ Len(pipe') <= lines
    BY <1>13, LineType DEF handleWorkflowEvent
  <2>2. toUi' \in Seq(M)
    <3>1. run \in Runs /\ toUi \in Seq(M)
      BY DEF OwnTypes
    <3>2. [type |-> "workflow", run |-> run, steps |-> Head(pipe).steps] \in FromActuator
      BY <2>1, <3>1, TellType
    <3>3. QED
      BY <1>13, <3>1, <3>2, AppendType DEF handleWorkflowEvent
  <2>3. QED
    BY <1>13, <2>1, <2>2 DEF handleWorkflowEvent, ReadLine, OwnTypes
<1>14. CASE handleCommandRequestEvent
  BY <1>14, LineType DEF handleCommandRequestEvent, ReadLine, OwnTypes
<1>15. CASE handleDialogEvent
  <2>1. toUi' \in Seq(M)
    <3>1. run \in Runs /\ toUi \in Seq(M)
      BY DEF OwnTypes
    <3>2. [type |-> "dialog", run |-> run] \in FromActuator
      BY <3>1, TellType
    <3>3. QED
      BY <1>15, <3>1, <3>2, AppendType DEF handleDialogEvent
  <2>2. pipe' \in Seq(Lines) /\ Len(pipe') <= lines
    BY <1>15, LineType DEF handleDialogEvent
  <2>3. asked' \subseteq Runs \X {"cmd", "dialog"}
    BY <1>15 DEF handleDialogEvent, OwnTypes
  <2>4. QED
    BY <1>15, <2>1, <2>2, <2>3 DEF handleDialogEvent, ReadLine, OwnTypes
<1>16. CASE handleImmediateEvent
  BY <1>16, LineType DEF handleImmediateEvent, ReadLine, OwnTypes
<1>17. CASE Finished
  <2>1. workflow' \in Seq(Steps)
    BY <1>17, StopType DEF Finished, OwnTypes
  <2>2. toUi' \in Seq(M)
    <3>1. run \in Runs /\ toUi \in Seq(M) /\ stopRequested \in BOOLEAN
      BY DEF OwnTypes
    <3>2. [type |-> "workflow", run |-> run, steps |-> workflow'] \in FromActuator
          /\ [type |-> "finished", run |-> run, stop |-> stopRequested] \in FromActuator
      BY <2>1, <3>1, TellType
    <3>3. QED
      BY <1>17, <3>1, <3>2 DEF Finished
  <2>3. QED
    BY <1>17, <2>1, <2>2 DEF Finished, OwnTypes, history
<1>18. CASE Destroy
  BY <1>6, <1>18 DEF Destroy, OwnTypes, process
<1>19. CASE KillAtClose
  BY <1>19 DEF KillAtClose, OwnTypes, current, history
<1>20. ASSUME NEW m \in ToActuator, Post(m) PROVE Types'
  BY <1>20 DEF Post, OwnTypes, current, process, history
<1>21. CASE AgentManagerAnswers
  <2>1. PICK r \in atManager : inbox' = Append(inbox, [type |-> "reply", to |-> <<r, "cmd">>])
                              /\ atManager' = atManager \ {r}
    BY <1>21 DEF AgentManagerAnswers
  <2>2. [type |-> "reply", to |-> <<r, "cmd">>] \in ToActuator
    BY <2>1 DEF ToActuator, OwnTypes
  <2>3. QED
    BY <1>21, <2>1, <2>2 DEF AgentManagerAnswers, OwnTypes, current, process, history
<1>22. CASE UiHandles
  BY <1>22 DEF UiHandles, UiReady, OwnTypes, current, process, history
<1>23. CASE UiAnswers
  <2>1. toUi' \in Seq(M) /\ Head(toUi) \in M
    BY <1>23 DEF UiAnswers, UiReady, OwnTypes
  <2>2. Head(toUi).run \in Runs
    BY <1>23, <2>1 DEF UiAnswers
  <2>3. [type |-> "reply", to |-> <<Head(toUi).run, "dialog">>] \in ToActuator
    BY <2>2 DEF ToActuator
  <2>4. QED
    BY <1>23, <2>1, <2>3 DEF UiAnswers, OwnTypes, current, process, history
<1>24. CASE UNCHANGED actuatorVars
  BY <1>24 DEF OwnTypes, actuatorVars, current, process, history
<1>25. QED
  <2>1. CASE Host
    <3>1. \A s \in Scripts \union {NoScript} : [type |-> "run", script |-> s] \in ToActuator
      BY DEF ToActuator
    <3>2. [type |-> "stop"] \in ToActuator
      BY DEF ToActuator
    <3>3. QED
      BY <2>1, <3>1, <3>2, <1>20, <1>21, <1>22, <1>23 DEF Host
  <2>2. QED
    BY <2>1, <1>1, <1>2, <1>3, <1>4, <1>5, <1>7, <1>8, <1>9, <1>10, <1>11, <1>12, <1>13,
       <1>14, <1>15, <1>16, <1>17, <1>18, <1>19, <1>24
       DEF Next, Actuator, PollBus, Signals, Reads

\* Every variable of the actuator keeps its range in every behaviour.
THEOREM TypeCorrect == Spec => []TypeOK
<1>1. TypeOK /\ [Next]_actuatorVars => TypeOK'
  BY TypeStep DEF TypeOK, FromActuator
<1>2. QED
  BY InitType, <1>1, PTL DEF Spec

-----------------------------------------------------------------------------
(* The queue to the UI.                                                     *)

\* What most steps do with it: nothing, take the first message away, or add a
\* message that says nothing of a start or an end.
Adds(m) == m \in UiMessages /\ ~IsLifecycle(m) /\ toUi' = Append(toUi, m)

UiMoves == \/ UNCHANGED toUi
           \/ toUi # << >> /\ toUi' = Tail(toUi)
           \/ \E m \in UiMessages : Adds(m)

\* The queue is longer by at most `more' messages, which lie at its end.
Extended(more) ==
    /\ Len(toUi') \in Nat /\ DOMAIN toUi' = 1..Len(toUi')
    /\ Len(toUi) <= Len(toUi') /\ Len(toUi') <= Len(toUi) + more
    /\ \A i \in 1..Len(toUi) : toUi'[i] = toUi[i]

\* Only Finished publishes SCRIPT_FINISHED.
OldFinished ==
    \A i \in DOMAIN toUi' :
        toUi'[i].type = "finished" => \E j \in DOMAIN toUi : toUi[j] = toUi'[i]

LEMMA QueueLen ==
  ASSUME toUi \in Seq(UiMessages)
  PROVE  /\ Len(toUi) \in Nat /\ DOMAIN toUi = 1..Len(toUi)
         /\ \A i \in 1..Len(toUi) : toUi[i] \in UiMessages
  OBVIOUS

LEMMA AppendExtends ==
  ASSUME toUi \in Seq(UiMessages), NEW m \in UiMessages, toUi' = Append(toUi, m)
  PROVE  /\ Extended(1) /\ Len(toUi') = Len(toUi) + 1
         /\ toUi'[Len(toUi')] = m
  BY DEF Extended

LEMMA TailShifts ==
  ASSUME toUi \in Seq(UiMessages), toUi # << >>, toUi' = Tail(toUi)
  PROVE  /\ Len(toUi') = Len(toUi) - 1 /\ DOMAIN toUi' = 1..(Len(toUi) - 1)
         /\ \A i \in 1..(Len(toUi) - 1) : toUi'[i] = toUi[i + 1]
  OBVIOUS

LEMMA MovesAreOld ==
  ASSUME toUi \in Seq(UiMessages), UiMoves
  PROVE  OldFinished
<1>1. CASE UNCHANGED toUi
  BY <1>1 DEF OldFinished
<1>2. CASE toUi # << >> /\ toUi' = Tail(toUi)
  <2>1. \A i \in DOMAIN toUi' : i + 1 \in DOMAIN toUi /\ toUi[i + 1] = toUi'[i]
    BY <1>2, QueueLen, TailShifts
  <2>2. QED
    BY <2>1 DEF OldFinished
<1>3. ASSUME NEW m \in UiMessages, Adds(m) PROVE OldFinished
  <2>1. \A i \in DOMAIN toUi' : toUi'[i] = m \/ (i \in DOMAIN toUi /\ toUi[i] = toUi'[i])
    BY <1>3 DEF Adds
  <2>2. QED
    BY <1>3, <2>1 DEF OldFinished, Adds, IsLifecycle
<1>4. QED
  BY <1>1, <1>2, <1>3 DEF UiMoves

\* Finished: the stopped workflow, if the script was told to stop, and the end.
LEMMA FinishedQueue ==
  ASSUME Typed, Finished
  PROVE  /\ Extended(2)
         /\ Len(toUi') = Len(toUi) + (IF stopRequested THEN 2 ELSE 1)
         /\ toUi'[Len(toUi')] = [type |-> "finished", run |-> run, stop |-> stopRequested]
         /\ stopRequested => toUi'[Len(toUi) + 1] =
               [type |-> "workflow", run |-> run, steps |-> Stopped(workflow)]
<1> DEFINE last == [type |-> "finished", run |-> run, stop |-> stopRequested]
           shown == [type |-> "workflow", run |-> run, steps |-> Stopped(workflow)]
<1>1. shown \in UiMessages
  BY StopType, TellType DEF Typed, OwnTypes, UiMessages
<1>2. last \in UiMessages /\ toUi \in Seq(UiMessages)
  BY TellType DEF Typed, OwnTypes, UiMessages
<1>3. CASE stopRequested
  <2>1. toUi' = (toUi \o <<shown>>) \o <<last>>
    BY <1>3 DEF Finished
  <2>2. last = [type |-> "finished", run |-> run, stop |-> stopRequested]
        /\ shown = [type |-> "workflow", run |-> run, steps |-> Stopped(workflow)]
    OBVIOUS
  <2> HIDE DEF shown, last
  <2>3. toUi \o <<shown>> \in Seq(UiMessages) /\ Len(toUi \o <<shown>>) = Len(toUi) + 1
        /\ \A i \in 1..Len(toUi) : (toUi \o <<shown>>)[i] = toUi[i]
        /\ (toUi \o <<shown>>)[Len(toUi) + 1] = shown
    BY <1>1, <1>2
  <2> DEFINE first == toUi \o <<shown>>
  <2> HIDE DEF first
  <2>4. /\ toUi' = first \o <<last>> /\ first \in Seq(UiMessages)
        /\ Len(first) = Len(toUi) + 1
    BY <2>1, <2>3 DEF first
  <2>5. /\ Len(toUi') = Len(toUi) + 2 /\ DOMAIN toUi' = 1..(Len(toUi) + 2)
        /\ \A i \in 1..(Len(toUi) + 1) : toUi'[i] = first[i]
        /\ toUi'[Len(toUi) + 2] = last
    BY <1>2, <2>4, QueueLen
  <2>6. Extended(2)
    BY <1>2, <2>3, <2>5, QueueLen DEF Extended, first
  <2>7. QED
    BY <1>2, <1>3, <2>2, <2>3, <2>5, <2>6, QueueLen DEF first
<1>4. CASE ~stopRequested
  <2>1. toUi' = toUi \o <<last>>
    <3>1. toUi' = (toUi \o << >>) \o <<last>>
      BY <1>4 DEF Finished
    <3>2. toUi \o << >> = toUi
      BY <1>2
    <3>3. QED
      BY <3>1, <3>2
  <2>2. QED
    BY <1>2, <1>4, <2>1 DEF Extended
<1>5. QED
  BY <1>3, <1>4 DEF Typed, OwnTypes

\* Order in an extended queue: what is not new was there before.
LEMMA ExtendedOrder ==
  ASSUME toUi \in Seq(UiMessages), NEW more \in Nat, Extended(more)
  PROVE  /\ \A i, j \in 1..Len(toUi) : Follows(i, j)' => Follows(i, j)
         /\ \A i \in 1..Len(toUi), j \in DOMAIN toUi' :
               (j > Len(toUi) /\ Follows(i, j)') => LastEvent(i)
         /\ \A i \in 1..Len(toUi) : LastEvent(i)' => LastEvent(i)
<1>1. Len(toUi) \in Nat /\ Len(toUi') \in Nat /\ Len(toUi) <= Len(toUi')
      /\ \A i \in 1..Len(toUi) : toUi'[i] = toUi[i]
  BY QueueLen DEF Extended
<1>2. ASSUME NEW i \in 1..Len(toUi), NEW j \in 1..Len(toUi), Follows(i, j)'
      PROVE  Follows(i, j)
  BY <1>1, <1>2 DEF Follows, IsLifecycle
<1>3. ASSUME NEW i \in 1..Len(toUi), NEW j \in DOMAIN toUi', j > Len(toUi), Follows(i, j)'
      PROVE  LastEvent(i)
  BY <1>1, <1>3 DEF Extended, Follows, LastEvent, IsLifecycle
<1>4. ASSUME NEW i \in 1..Len(toUi), LastEvent(i)'
      PROVE  LastEvent(i)
  BY <1>1, <1>4 DEF LastEvent, IsLifecycle
<1>5. QED
  BY <1>2, <1>3, <1>4

LEMMA TailOrder ==
  ASSUME toUi \in Seq(UiMessages), toUi # << >>, toUi' = Tail(toUi)
  PROVE  /\ \A i, j \in DOMAIN toUi' : Follows(i, j)' => Follows(i + 1, j + 1)
         /\ \A i \in DOMAIN toUi' : LastEvent(i)' => LastEvent(i + 1)
<1>1. /\ Len(toUi) \in Nat \ {0} /\ Len(toUi') = Len(toUi) - 1
      /\ DOMAIN toUi' = 1..(Len(toUi) - 1)
      /\ \A i \in 1..(Len(toUi) - 1) : toUi'[i] = toUi[i + 1]
  BY QueueLen, TailShifts
<1>2. ASSUME NEW i \in DOMAIN toUi', NEW j \in DOMAIN toUi', Follows(i, j)'
      PROVE  Follows(i + 1, j + 1)
  <2>1. \A k \in (i + 2)..j : k - 1 \in (i + 1)..(j - 1) /\ toUi[k] = toUi'[k - 1]
    BY <1>1
  <2>2. QED
    BY <1>1, <1>2, <2>1 DEF Follows, IsLifecycle
<1>3. ASSUME NEW i \in DOMAIN toUi', LastEvent(i)'
      PROVE  LastEvent(i + 1)
  <2>1. \A k \in (i + 2)..Len(toUi) : k - 1 \in (i + 1)..Len(toUi') /\ toUi[k] = toUi'[k - 1]
    BY <1>1
  <2>2. QED
    BY <1>1, <1>3, <2>1 DEF LastEvent, IsLifecycle
<1>4. QED
  BY <1>2, <1>3

-----------------------------------------------------------------------------
(* What the steps have in common: most of them touch nothing the invariant  *)
(* is about, and an idle stop only sets a flag that the next script resets. *)

Quiet ==
    /\ UiMoves
    /\ UNCHANGED <<run, script, required, announced, stops, estops>>
    /\ proc' # "NotRunning" => proc # "NotRunning" /\ UNCHANGED stopRequested
    /\ proc' = "Running" <=> proc = "Running"

StopStep ==
    /\ UiMoves
    /\ Terminate /\ proc # "NotRunning"
    /\ UNCHANGED <<run, script, required, announced, proc>>

Announce ==
    /\ handleRequiredAgentsEvent
    /\ UiMoves

StepKind == Quiet \/ doRunScript \/ StopStep \/ Announce \/ Started \/ Finished

LEMMA TellWide ==
  ASSUME NEW r \in Runs
  PROVE  /\ [type |-> "started", run |-> r] \in UiMessages
         /\ [type |-> "dialog", run |-> r] \in UiMessages
         /\ \A S \in RequiredSets :
               [type |-> "required", run |-> r, agents |-> S] \in UiMessages
         /\ \A w \in Seq(Steps) :
               [type |-> "workflow", run |-> r, steps |-> w] \in UiMessages
  BY TellType DEF UiMessages

LEMMA SameMoves == UNCHANGED toUi => UiMoves
  BY DEF UiMoves

LEMMA AddMoves ==
  ASSUME NEW m \in UiMessages, ~IsLifecycle(m), toUi' = Append(toUi, m)
  PROVE  UiMoves
  BY DEF UiMoves, Adds

LEMMA TerminateMoves ==
  ASSUME Typed, Terminate
  PROVE  UiMoves
<1>1. workflow' \in Seq(Steps)
  BY StopType DEF Terminate, Typed, OwnTypes
<1>2. [type |-> "workflow", run |-> run, steps |-> workflow'] \in UiMessages
  BY <1>1, TellWide DEF Typed, OwnTypes
<1>3. QED
  BY <1>2, AddMoves DEF Terminate, IsLifecycle

LEMMA StepKinds ==
  ASSUME Typed, [Next]_actuatorVars
  PROVE  StepKind
<1> USE DEF StepKind
<1>1. CASE Writes \/ Exits \/ RefuseRun \/ IdleStop \/ KillFires \/ sendRuntimeResponse
           \/ StartFails \/ handleCommandRequestEvent \/ handleImmediateEvent
           \/ KillAtClose
  <2>1. UNCHANGED toUi
    BY <1>1 DEF Writes, Exits, RefuseRun, IdleStop, KillFires, sendRuntimeResponse,
       StartFails, handleCommandRequestEvent, handleImmediateEvent, KillAtClose
  <2>2. QED
    BY <1>1, <2>1, SameMoves DEF Quiet, Writes, Exits, RefuseRun, IdleStop, KillFires,
       sendRuntimeResponse, StartFails, handleCommandRequestEvent,
       handleImmediateEvent, KillAtClose, ReadLine, current, process, history
<1>2. CASE doStopScript
  BY <1>2, TerminateMoves DEF doStopScript, StopStep, process
<1>3. CASE Destroy
  <2>1. CASE proc = "NotRunning"
    BY <1>3, <2>1, SameMoves DEF Destroy, Quiet, process
  <2>2. CASE proc # "NotRunning"
    BY <1>3, <2>2, TerminateMoves DEF Destroy, StopStep, process
  <2>3. QED
    BY <2>1, <2>2
<1>4. CASE handleRequiredAgentsEvent
  <2>1. Head(pipe).agents \in RequiredSets
    BY <1>4, LineType DEF handleRequiredAgentsEvent, Typed
  <2>2. UiMoves
    BY <1>4, <2>1, TellWide, AddMoves DEF handleRequiredAgentsEvent, Typed, OwnTypes,
       IsLifecycle
  <2>3. QED
    BY <1>4, <2>2 DEF Announce
<1>5. CASE handleWorkflowEvent
  <2>1. Head(pipe).steps \in Seq(Steps)
    BY <1>5, LineType, ActuatorAssumption DEF handleWorkflowEvent, Typed
  <2>2. UiMoves
    BY <1>5, <2>1, TellWide, AddMoves DEF handleWorkflowEvent, Typed, OwnTypes, IsLifecycle
  <2>3. QED
    BY <1>5, <2>2 DEF handleWorkflowEvent, ReadLine, Quiet
<1>6. CASE handleDialogEvent
  <2>1. UiMoves
    BY <1>6, TellWide, AddMoves DEF handleDialogEvent, Typed, OwnTypes, IsLifecycle
  <2>2. QED
    BY <1>6, <2>1 DEF handleDialogEvent, ReadLine, Quiet
<1>7. ASSUME NEW msg, Post(msg) PROVE Quiet
  BY <1>7, SameMoves DEF Post, Quiet, current, process, history
<1>8. CASE AgentManagerAnswers
  BY <1>8, SameMoves DEF AgentManagerAnswers, Quiet, current, process, history
<1>9. CASE UiHandles \/ UiAnswers
  <2>1. UiMoves
    BY <1>9 DEF UiHandles, UiAnswers, UiReady, UiMoves
  <2>2. QED
    BY <1>9, <2>1 DEF UiHandles, UiAnswers, Quiet, current, process, history
<1>10. CASE UNCHANGED actuatorVars
  BY <1>10, SameMoves DEF actuatorVars, Quiet, current, process, history
<1>11. QED
  BY <1>1, <1>2, <1>3, <1>4, <1>5, <1>6, <1>7, <1>8, <1>9, <1>10
     DEF Next, Actuator, PollBus, Signals, Reads, Host

\* A step of someone else: a message of theirs is added.
LEMMA OthersQuiet ==
  ASSUME NEW m \in UiMessages, ~IsLifecycle(m), TellUi(m)
  PROVE  Quiet
  BY AddMoves DEF TellUi, Quiet, current, process, history

-----------------------------------------------------------------------------
(* Stops.                                                                   *)

LEMMA StartedQueue ==
  ASSUME Typed, Started
  PROVE  /\ Extended(1) /\ Len(toUi') = Len(toUi) + 1
         /\ toUi'[Len(toUi')] = [type |-> "started", run |-> run]
         /\ OldFinished
<1> DEFINE m == [type |-> "started", run |-> run]
<1>1. m \in UiMessages /\ toUi' = Append(toUi, m) /\ toUi \in Seq(UiMessages)
  BY TellWide DEF Started, Typed, OwnTypes
<1>2. m.type # "finished"
  OBVIOUS
<1> HIDE DEF m
<1>3. /\ Extended(1) /\ Len(toUi') = Len(toUi) + 1
      /\ toUi'[Len(toUi')] = m
  BY <1>1, AppendExtends
<1>4. \A i \in DOMAIN toUi' : toUi'[i] = m \/ (i \in DOMAIN toUi /\ toUi[i] = toUi'[i])
  BY <1>1, <1>3, QueueLen DEF Extended
<1>5. OldFinished
  BY <1>2, <1>4 DEF OldFinished
<1>6. QED
  BY <1>3, <1>5 DEF m

LEMMA OldSteps ==
  ASSUME Typed, Quiet \/ StopStep \/ Announce \/ Started
  PROVE  OldFinished
  BY MovesAreOld, StartedQueue DEF Quiet, StopStep, Announce, Typed

LEMMA FinishedMessages ==
  ASSUME Typed, Finished
  PROVE  \A i \in DOMAIN toUi' :
            \/ i \in DOMAIN toUi /\ toUi'[i] = toUi[i]
            \/ toUi'[i].type = "workflow"
            \/ toUi'[i] = [type |-> "finished", run |-> run, stop |-> stopRequested]
<1>1. toUi \in Seq(UiMessages) /\ Len(toUi) \in Nat /\ DOMAIN toUi = 1..Len(toUi)
  BY QueueLen DEF Typed
<1>2. ASSUME NEW i \in DOMAIN toUi'
      PROVE  i \in 1..Len(toUi) \/ i = Len(toUi') \/ (stopRequested /\ i = Len(toUi) + 1)
  <2>1. i \in 1..Len(toUi')
    BY <1>2, FinishedQueue DEF Extended
  <2>2. CASE stopRequested
    <3>1. Len(toUi') = Len(toUi) + 2
      BY <2>2, FinishedQueue
    <3>2. QED
      BY <1>1, <2>1, <2>2, <3>1
  <2>3. CASE ~stopRequested
    <3>1. Len(toUi') = Len(toUi) + 1
      BY <2>3, FinishedQueue
    <3>2. QED
      BY <1>1, <2>1, <3>1
  <2>4. QED
    BY <2>2, <2>3
<1>3. stopRequested => toUi'[Len(toUi) + 1].type = "workflow"
  BY FinishedQueue
<1>4. \A i \in 1..Len(toUi) : toUi'[i] = toUi[i]
  BY FinishedQueue DEF Extended
<1>5. toUi'[Len(toUi')] = [type |-> "finished", run |-> run, stop |-> stopRequested]
  BY FinishedQueue
<1>6. QED
  BY <1>1, <1>2, <1>3, <1>4, <1>5

LEMMA PastStep ==
  ASSUME IInv, StepKind
  PROVE  PastOnly'
<1>1. run \in Nat /\ stops \subseteq Nat /\ (\A p \in estops \union announced : p[1] \in Nat)
      /\ \A i \in DOMAIN toUi : toUi[i].type = "finished" => toUi[i].run \in Nat
  BY DEF IInv, Typed, OwnTypes, Runs, UiMessages, FromActuator
<1>2. CASE OldFinished /\ UNCHANGED <<run, stops, estops, announced>>
  BY <1>1, <1>2 DEF IInv, PastOnly, OldFinished
<1>3. CASE doRunScript
  <2>1. run' = run + 1 /\ UNCHANGED <<toUi, stops, estops, announced>>
    BY <1>3 DEF doRunScript, history
  <2>2. (\A r \in stops : r <= run + 1) /\ (\A p \in estops : p[1] <= run + 1)
    BY <1>1 DEF IInv, PastOnly
  <2>3. \A p \in announced : p[1] <= run + 1
    BY <1>1 DEF IInv, PastOnly
  <2>4. \A i \in DOMAIN toUi : toUi[i].type = "finished" => toUi[i].run <= run + 1
    BY <1>1 DEF IInv, PastOnly
  <2>5. QED
    BY <2>1, <2>2, <2>3, <2>4 DEF PastOnly
<1>4. CASE StopStep
  <2>1. \A i \in DOMAIN toUi' : toUi'[i].type = "finished" => toUi'[i].run <= run'
    BY <1>4, OldSteps DEF StopStep, IInv, PastOnly, OldFinished
  <2>2. \A r \in stops' : r <= run'
    BY <1>1, <1>4 DEF StopStep, Terminate, IInv, PastOnly
  <2>3. \A p \in estops' : p[1] <= run'
    <3>1. \A p \in {run} \X EstopTargets : p[1] = run
      OBVIOUS
    <3>2. QED
      BY <1>1, <1>4, <3>1 DEF StopStep, Terminate, IInv, PastOnly
  <2>4. QED
    BY <1>4, <2>1, <2>2, <2>3 DEF StopStep, IInv, PastOnly
<1>5. CASE Announce
  <2>1. \A i \in DOMAIN toUi' : toUi'[i].type = "finished" => toUi'[i].run <= run
    BY <1>5, OldSteps DEF Announce, handleRequiredAgentsEvent, ReadLine, IInv, PastOnly, OldFinished
  <2>2. \A p \in announced' : p[1] <= run
    BY <1>1, <1>5 DEF Announce, handleRequiredAgentsEvent, IInv, PastOnly
  <2>3. QED
    BY <1>5, <2>1, <2>2 DEF Announce, handleRequiredAgentsEvent, ReadLine, IInv, PastOnly
<1>6. CASE Finished
  <2>1. \A i \in DOMAIN toUi' : toUi'[i].type = "finished" => toUi'[i].run <= run
    BY <1>1, <1>6, FinishedMessages DEF IInv, PastOnly
  <2>2. QED
    BY <1>6, <2>1 DEF Finished, history, IInv, PastOnly
<1>7. CASE Started
  BY <1>2, <1>7, OldSteps DEF Started, history, IInv
<1>8. QED
  BY <1>2, <1>3, <1>4, <1>5, <1>6, <1>7, OldSteps DEF StepKind, IInv, Typed, Quiet

LEMMA StopInvStep ==
  ASSUME IInv, StepKind
  PROVE  StopInv'
<1>1. run \in Nat
  BY DEF IInv, Typed, OwnTypes, Runs
<1>2. CASE Quiet
  BY <1>2, OldSteps DEF Quiet, OldFinished, Typed, IInv, StopInv, StopFlagHonest
<1>3. CASE doRunScript
  <2>1. run' = run + 1 /\ stopRequested' = FALSE /\ UNCHANGED <<toUi, stops>>
    BY <1>3 DEF doRunScript, ResetForRun, history
  <2>2. run' \notin stops'
    BY <1>1, <2>1 DEF IInv, PastOnly
  <2>3. \A i \in DOMAIN toUi : toUi[i].type = "finished" => toUi[i].run # run'
    BY <1>1, <2>1 DEF IInv, PastOnly
  <2>4. QED
    BY <2>1, <2>2, <2>3 DEF IInv, StopInv, StopFlagHonest
<1>4. CASE StopStep
  BY <1>4, OldSteps DEF StopStep, Terminate, OldFinished, IInv, StopInv, StopFlagHonest
<1>5. CASE Announce
  BY <1>5, OldSteps DEF Announce, handleRequiredAgentsEvent, ReadLine, OldFinished, IInv, StopInv,
     StopFlagHonest
<1>6. CASE Finished
  <2>1. proc' = "NotRunning" /\ stops' = stops /\ (stopRequested <=> run \in stops)
    BY <1>6 DEF Finished, history, IInv, StopInv
  <2>2. StopFlagHonest'
    BY <1>6, <2>1, FinishedMessages DEF IInv, StopInv, StopFlagHonest
  <2>3. QED
    BY <2>1, <2>2 DEF StopInv
<1>7. CASE Started
  BY <1>7, OldSteps DEF Started, history, OldFinished, IInv, StopInv, StopFlagHonest
<1>8. QED
  BY <1>2, <1>3, <1>4, <1>5, <1>6, <1>7 DEF StepKind

LEMMA ArmStep ==
  ASSUME IInv, StepKind
  PROVE  ArmInv'
<1>1. run \in Nat /\ UrNode \in UrAgents
  BY ActuatorAssumption DEF IInv, Typed, OwnTypes, Runs
<1>2. CASE UNCHANGED <<run, script, required, announced, stops, estops>>
  BY <1>2 DEF IInv, ArmInv, EstopOnlyOwn, StopReachesArm
<1>3. CASE doRunScript
  <2>1. run' = run + 1 /\ required' = {} /\ UNCHANGED <<stops, estops>>
    BY <1>3 DEF doRunScript, ResetForRun, history
  <2>2. run' \notin stops /\ \A a \in UrAgents : <<run', a>> \notin estops
    BY <1>1, <2>1 DEF IInv, PastOnly
  <2>3. QED
    BY <2>1, <2>2 DEF ArmInv, EstopOnlyOwn, StopReachesArm
<1>4. CASE StopStep
  <2>1. \A a \in EstopTargets :
           <<run, a>> \in announced \/ (a = UrNode /\ script \in UrScripts)
    BY DEF EstopTargets, IInv, ArmInv
  <2>2. script \in UrScripts => \E a \in UrAgents : a \in EstopTargets
    BY <1>1 DEF EstopTargets
  <2>3. \A a : <<run, a>> \in estops' <=> (<<run, a>> \in estops \/ a \in EstopTargets)
    BY <1>4 DEF StopStep, Terminate
  <2>4. QED
    BY <1>4, <2>1, <2>2, <2>3 DEF StopStep, IInv, ArmInv, EstopOnlyOwn, StopReachesArm
<1>5. CASE Announce
  <2>1. required' = Head(pipe).agents /\ announced' = announced \union ({run} \X required')
        /\ UNCHANGED <<run, script, stops, estops>>
    BY <1>5 DEF Announce, handleRequiredAgentsEvent, ReadLine
  <2>2. QED
    BY <2>1 DEF IInv, ArmInv, EstopOnlyOwn, StopReachesArm
<1>6. CASE Finished
  BY <1>2, <1>6 DEF Finished, history
<1>7. CASE Started
  BY <1>2, <1>7 DEF Started, history
<1>8. QED
  BY <1>2, <1>3, <1>4, <1>5, <1>6, <1>7 DEF StepKind, Quiet

-----------------------------------------------------------------------------
(* Starts and ends.                                                         *)

\* At the end of an extended queue lies a lifecycle event, and what was added
\* before it is none.
Closes(type) ==
    /\ IsLifecycle(toUi'[Len(toUi')]) /\ toUi'[Len(toUi')].type = type
    /\ Len(toUi') > Len(toUi) /\ toUi'[Len(toUi')].run = run
    /\ \A k \in (Len(toUi) + 1)..(Len(toUi') - 1) : ~IsLifecycle(toUi'[k])

LEMMA LifeMoves ==
  ASSUME IInv, UiMoves, UNCHANGED run, proc' = "Running" <=> proc = "Running"
  PROVE  LifeInv'
<1>1. toUi \in Seq(UiMessages) /\ LifeInv
  BY DEF IInv, Typed
<1>2. CASE UNCHANGED toUi
  BY <1>1, <1>2 DEF LifeInv, LifecyclePaired, Follows, LastEvent, IsLifecycle
<1>3. CASE toUi # << >> /\ toUi' = Tail(toUi)
  <2>1. \A i \in DOMAIN toUi' : i + 1 \in DOMAIN toUi /\ toUi'[i] = toUi[i + 1]
    BY <1>1, <1>3, QueueLen, TailShifts
  <2>2. /\ \A i, j \in DOMAIN toUi' : Follows(i, j)' => Follows(i + 1, j + 1)
        /\ \A i \in DOMAIN toUi' : LastEvent(i)' => LastEvent(i + 1)
    BY <1>1, <1>3, TailOrder
  <2>3. QED
    BY <1>1, <2>1, <2>2 DEF LifeInv, LifecyclePaired
<1>4. ASSUME NEW m \in UiMessages, Adds(m) PROVE LifeInv'
  <2>1. /\ Extended(1) /\ Len(toUi') = Len(toUi) + 1
        /\ toUi'[Len(toUi')] = m /\ ~IsLifecycle(m)
    BY <1>1, <1>4, AppendExtends DEF Adds
  <2>2. \A i \in DOMAIN toUi' : IsLifecycle(toUi'[i]) => i \in DOMAIN toUi /\ toUi'[i] = toUi[i]
    BY <1>1, <2>1, QueueLen DEF Extended
  <2>3. /\ \A i, j \in DOMAIN toUi : Follows(i, j)' => Follows(i, j)
        /\ \A i \in DOMAIN toUi : LastEvent(i)' => LastEvent(i)
    BY <1>1, <2>1, QueueLen, ExtendedOrder
  <2>4. \A i, j : Follows(i, j)' => IsLifecycle(toUi'[i]) /\ IsLifecycle(toUi'[j])
    BY DEF Follows, IsLifecycle
  <2>5. \A i : LastEvent(i)' => IsLifecycle(toUi'[i])
    BY DEF LastEvent, IsLifecycle
  <2>6. QED
    BY <1>1, <2>2, <2>3, <2>4, <2>5 DEF LifeInv, LifecyclePaired
<1>5. QED
  BY <1>2, <1>3, <1>4 DEF UiMoves

\* An event is added: it must answer the one that was the last before.
LEMMA LifeCloses ==
  ASSUME IInv, NEW more \in Nat, Extended(more), UNCHANGED run,
         NEW type \in {"started", "finished"}, Closes(type),
         type = "started" <=> proc' = "Running",
         \A i \in DOMAIN toUi : LastEvent(i) =>
            IF toUi[i].type = "started" THEN type = "finished" /\ toUi[i].run = run
            ELSE type = "started" /\ toUi[i].run < run
  PROVE  LifeInv'
<1> DEFINE n == Len(toUi')
<1>1. toUi \in Seq(UiMessages) /\ LifeInv /\ Len(toUi) \in Nat /\ DOMAIN toUi = 1..Len(toUi)
  BY QueueLen DEF IInv, Typed
<1>2. /\ n \in Nat /\ Len(toUi) < n /\ DOMAIN toUi' = 1..n
      /\ IsLifecycle(toUi'[n]) /\ toUi'[n].type = type /\ toUi'[n].run = run
      /\ \A i \in 1..Len(toUi) : toUi'[i] = toUi[i]
      /\ \A k \in (Len(toUi) + 1)..(n - 1) : ~IsLifecycle(toUi'[k])
  BY <1>1 DEF Extended, Closes
<1> HIDE DEF n
<1>3. \A i \in 1..n : IsLifecycle(toUi'[i]) => i \in 1..Len(toUi) \/ i = n
  BY <1>1, <1>2
<1>4. ASSUME NEW i \in 1..n, NEW j \in 1..n, Follows(i, j)'
      PROVE  IF toUi'[i].type = "started"
             THEN toUi'[j].type = "finished" /\ toUi'[j].run = toUi'[i].run
             ELSE toUi'[j].type = "started" /\ toUi'[j].run > toUi'[i].run
  <2>1. i < j /\ IsLifecycle(toUi'[i]) /\ IsLifecycle(toUi'[j])
    BY <1>4 DEF Follows, IsLifecycle
  <2>2. i \in 1..Len(toUi)
    BY <1>2, <1>3, <2>1
  <2>3. CASE j \in 1..Len(toUi)
    <3>1. Follows(i, j)
      BY <1>1, <1>4, <2>2, <2>3, ExtendedOrder
    <3>2. QED
      BY <1>1, <1>2, <2>2, <2>3, <3>1 DEF LifeInv, LifecyclePaired
  <2>4. CASE j = n
    <3>1. LastEvent(i)
      BY <1>1, <1>2, <1>4, <2>2, <2>4, ExtendedOrder
    <3>2. toUi'[i] = toUi[i] /\ i \in DOMAIN toUi
      BY <1>1, <1>2, <2>2
    <3>3. CASE toUi[i].type = "started"
      BY <1>2, <2>4, <3>1, <3>2, <3>3
    <3>4. CASE toUi[i].type # "started"
      <4>1. toUi[i].run < run /\ type = "started"
        BY <3>1, <3>2, <3>4
      <4>2. toUi'[j].run > toUi'[i].run <=> toUi[i].run < run
        BY <1>2, <2>4, <3>2
      <4>3. QED
        BY <1>2, <2>4, <3>2, <3>4, <4>1, <4>2
    <3>5. QED
      BY <3>3, <3>4
  <2>5. QED
    BY <1>3, <2>1, <2>3, <2>4
<1>5. ASSUME NEW i \in 1..n, LastEvent(i)' PROVE i = n
  <2>1. \A k \in (i + 1)..n : ~IsLifecycle(toUi'[k])
    BY <1>5 DEF LastEvent, IsLifecycle, n
  <2>2. QED
    BY <1>2, <2>1
<1>6. QED
  BY <1>2, <1>4, <1>5 DEF LifeInv, LifecyclePaired

LEMMA LifeStep ==
  ASSUME IInv, StepKind
  PROVE  LifeInv'
<1>1. /\ Typed /\ run \in Nat /\ toUi \in Seq(UiMessages)
      /\ \A i \in DOMAIN toUi : toUi[i].type = "finished" => toUi[i].run \in Nat
  BY DEF IInv, Typed, OwnTypes, Runs, UiMessages, FromActuator
<1>2. \A i \in DOMAIN toUi : LastEvent(i) =>
         IF toUi[i].type = "started" THEN proc = "Running" /\ toUi[i].run = run
         ELSE proc # "Running" /\ toUi[i].type = "finished"
              /\ (proc # "NotRunning" => toUi[i].run < run)
  BY <1>1 DEF IInv, PastOnly, StopInv, LifeInv, LifecyclePaired, LastEvent, IsLifecycle
<1>3. CASE Quiet \/ StopStep \/ Announce
  BY <1>3, LifeMoves DEF Quiet, StopStep, Announce, handleRequiredAgentsEvent, ReadLine
<1>4. CASE doRunScript
  <2>1. UNCHANGED toUi /\ proc # "Running" /\ proc' # "Running"
    BY <1>4 DEF doRunScript, CanStart
  <2>2. \A i \in DOMAIN toUi : LastEvent(i) => toUi[i].type # "started"
    BY <1>2, <2>1
  <2>3. QED
    BY <2>1, <2>2 DEF IInv, LifeInv, LifecyclePaired, Follows, LastEvent, IsLifecycle
<1>5. CASE Started
  <2>1. /\ Extended(1) /\ Len(toUi') = Len(toUi) + 1 /\ Len(toUi) \in Nat
        /\ toUi'[Len(toUi')] = [type |-> "started", run |-> run]
    BY <1>1, <1>5, StartedQueue, QueueLen
  <2>2. Closes("started")
    BY <2>1 DEF Closes, IsLifecycle
  <2>3. proc = "Starting" /\ proc' = "Running" /\ UNCHANGED run
    BY <1>5 DEF Started
  <2>4. \A i \in DOMAIN toUi : LastEvent(i) =>
           toUi[i].type # "started" /\ toUi[i].run < run
    BY <1>2, <2>3
  <2>5. QED
    BY <2>1, <2>2, <2>3, <2>4, LifeCloses
<1>6. CASE Finished
  <2>1. /\ Extended(2) /\ Len(toUi) \in Nat
        /\ Len(toUi') = Len(toUi) + (IF stopRequested THEN 2 ELSE 1)
        /\ toUi'[Len(toUi')] = [type |-> "finished", run |-> run, stop |-> stopRequested]
        /\ stopRequested => toUi'[Len(toUi) + 1].type = "workflow"
    BY <1>1, <1>6, FinishedQueue, QueueLen
  <2>2. Closes("finished")
    <3>1. CASE stopRequested
      BY <2>1, <3>1 DEF Closes, IsLifecycle
    <3>2. CASE ~stopRequested
      BY <2>1, <3>2 DEF Closes, IsLifecycle
    <3>3. QED
      BY <3>1, <3>2
  <2>3. proc = "Running" /\ proc' = "NotRunning" /\ UNCHANGED run
    BY <1>6 DEF Finished
  <2>4. \A i \in DOMAIN toUi : LastEvent(i) =>
           toUi[i].type = "started" /\ toUi[i].run = run
    BY <1>2, <2>3
  <2>5. QED
    BY <2>1, <2>2, <2>3, <2>4, LifeCloses
<1>7. QED
  BY <1>3, <1>4, <1>5, <1>6 DEF StepKind

-----------------------------------------------------------------------------
(* The last workflow of a stopped script.                                   *)

LEMMA ShownStep ==
  ASSUME IInv, StepKind
  PROVE  EndsShownStopped'
<1> DEFINE Ends(m) == /\ m.type = "workflow"
                      /\ With(m.steps, {"running", "stopping"}) = {}
                      /\ With(m.steps, {"stopped"}) # {}
           IsEnd(m) == m.type = "finished" /\ m.stop
<1>1. /\ Typed /\ toUi \in Seq(UiMessages) /\ Len(toUi) \in Nat /\ DOMAIN toUi = 1..Len(toUi)
      /\ \A i \in 1..Len(toUi) : (IsEnd(toUi[i]) /\ i > 1) => Ends(toUi[i - 1])
  BY QueueLen DEF IInv, Typed, EndsShownStopped
<1>2. EndsShownStopped' <=>
         \A i \in DOMAIN toUi' : (IsEnd(toUi'[i]) /\ i > 1) => Ends(toUi'[i - 1])
  BY DEF EndsShownStopped, With
<1> HIDE DEF Ends
<1>3. ASSUME NEW more \in Nat, Extended(more), \A i \in DOMAIN toUi' :
                i > Len(toUi) => (IsEnd(toUi'[i]) => Ends(toUi'[i - 1]))
      PROVE  EndsShownStopped'
  BY <1>1, <1>2, <1>3 DEF Extended
<1>4. CASE UiMoves
  <2>1. CASE UNCHANGED toUi
    BY <1>1, <1>2, <2>1
  <2>2. CASE toUi # << >> /\ toUi' = Tail(toUi)
    BY <1>1, <1>2, <2>2, TailShifts
  <2>3. ASSUME NEW m \in UiMessages, Adds(m) PROVE EndsShownStopped'
    <3>1. Extended(1) /\ Len(toUi') = Len(toUi) + 1 /\ ~IsEnd(toUi'[Len(toUi')])
      BY <1>1, <2>3, AppendExtends DEF Adds, IsLifecycle
    <3>2. \A i \in DOMAIN toUi' : i > Len(toUi) => i = Len(toUi')
      BY <1>1, <3>1 DEF Extended
    <3>3. QED
      BY <1>3, <3>1, <3>2
  <2>4. QED
    BY <1>4, <2>1, <2>2, <2>3 DEF UiMoves
<1>5. CASE doRunScript
  BY <1>1, <1>2, <1>5 DEF doRunScript
<1>6. CASE Started
  <2>1. Extended(1) /\ Len(toUi') = Len(toUi) + 1 /\ ~IsEnd(toUi'[Len(toUi')])
    BY <1>1, <1>6, StartedQueue
  <2>2. \A i \in DOMAIN toUi' : i > Len(toUi) => i = Len(toUi')
    BY <1>1, <2>1 DEF Extended
  <2>3. QED
    BY <1>3, <2>1, <2>2
<1>7. CASE Finished
  <2>1. /\ Extended(2)
        /\ Len(toUi') = Len(toUi) + (IF stopRequested THEN 2 ELSE 1)
        /\ toUi'[Len(toUi')] = [type |-> "finished", run |-> run, stop |-> stopRequested]
        /\ stopRequested => toUi'[Len(toUi) + 1] =
              [type |-> "workflow", run |-> run, steps |-> Stopped(workflow)]
    BY <1>1, <1>7, FinishedQueue
  <2>2. CASE stopRequested
    <3>1. Ends(toUi'[Len(toUi) + 1]) /\ ~IsEnd(toUi'[Len(toUi) + 1])
      BY <1>1, <2>1, <2>2, StoppedShows DEF Ends, Typed, OwnTypes
    <3>2. Len(toUi') = Len(toUi) + 2
      BY <2>1, <2>2
    <3>3. \A i \in DOMAIN toUi' : i > Len(toUi) => i = Len(toUi) + 1 \/ i = Len(toUi) + 2
      BY <1>1, <2>1, <3>2 DEF Extended
    <3>4. \A i \in DOMAIN toUi' : i > Len(toUi) => (IsEnd(toUi'[i]) => Ends(toUi'[i - 1]))
      BY <1>1, <3>1, <3>3
    <3>5. QED
      BY <1>3, <2>1, <3>4
  <2>3. CASE ~stopRequested
    <3>1. Len(toUi') = Len(toUi) + 1 /\ ~IsEnd(toUi'[Len(toUi')])
      BY <2>1, <2>3
    <3>2. \A i \in DOMAIN toUi' : i > Len(toUi) => i = Len(toUi')
      BY <1>1, <2>1, <3>1 DEF Extended
    <3>3. QED
      BY <1>3, <2>1, <3>1, <3>2
  <2>4. QED
    BY <2>2, <2>3
<1>8. QED
  BY <1>4, <1>5, <1>6, <1>7 DEF StepKind, Quiet, StopStep, Announce

-----------------------------------------------------------------------------
(* The invariant, of the actuator alone and in the session.                 *)

LEMMA EmptyQueueInv ==
  ASSUME Init
  PROVE  IInv
<1>1. DOMAIN toUi = {} /\ toUi \in Seq(UiMessages)
  BY DEF Init
<1>2. Typed
  BY <1>1, InitType DEF Typed, TypeOK
<1>3. QED
  BY <1>1, <1>2 DEF Init, IInv, PastOnly, StopInv, StopFlagHonest, ArmInv,
     EstopOnlyOwn, StopReachesArm, LifeInv, LifecyclePaired, EndsShownStopped

LEMMA InvStep ==
  ASSUME IInv, StepKind, Typed'
  PROVE  IInv'
  BY PastStep, StopInvStep, ArmStep, LifeStep, ShownStep DEF IInv

LEMMA ActuatorStep ==
  ASSUME IInv, [Next]_actuatorVars
  PROVE  IInv' /\ StepKind
<1>1. FromActuator \subseteq UiMessages /\ \A m \in UiMessages : m.type = "dialog" => m.run \in Runs
  BY DEF UiMessages, FromActuator
<1>2. Typed'
  BY <1>1, TypeStep DEF IInv, Typed
<1>3. QED
  BY <1>2, StepKinds, InvStep DEF IInv

\* The inductive invariant holds in every reachable state of the actuator.
THEOREM Invariance == Spec => []IInv
<1>1. Init => IInv
  BY EmptyQueueInv
<1>2. IInv /\ [Next]_actuatorVars => IInv'
  BY ActuatorStep
<1>3. QED
  BY <1>1, <1>2, PTL DEF Spec

\* SCRIPT_FINISHED says that a stop was requested exactly when a stop was taken
\* up while that script ran.
THEOREM StopIsHonest == Spec => []StopFlagHonest
<1>1. IInv => StopFlagHonest
  BY DEF IInv, StopInv
<1>2. QED
  BY Invariance, <1>1, PTL

\* A stop halts only arms its own script announced or names.
THEOREM StopsOnlyOwnArms == Spec => []EstopOnlyOwn
<1>1. IInv => EstopOnlyOwn
  BY DEF IInv, ArmInv
<1>2. QED
  BY Invariance, <1>1, PTL

\* A script that names the arm is never stopped without an emergency stop.
THEOREM StopsReachTheArm == Spec => []StopReachesArm
<1>1. IInv => StopReachesArm
  BY DEF IInv, ArmInv
<1>2. QED
  BY Invariance, <1>1, PTL

\* SCRIPT_STARTED and SCRIPT_FINISHED alternate, script by script, and the last
\* of them agrees with the process.
THEOREM StartsAndEndsPair == Spec => []LifecyclePaired
<1>1. IInv => LifecyclePaired
  BY DEF IInv, LifeInv
<1>2. QED
  BY Invariance, <1>1, PTL

\* Before the end of a stopped script the UI is shown a workflow in which nothing
\* still runs and something has been stopped.
THEOREM StoppedScriptsShowIt == Spec => []EndsShownStopped
<1>1. IInv => EndsShownStopped
  BY DEF IInv
<1>2. QED
  BY Invariance, <1>1, PTL

-----------------------------------------------------------------------------
(* The session.                                                             *)

SessionTypes ==
    /\ activating \in Seq(Agents)
    /\ wd \in [agents : SUBSET (Agents \union UNION RequiredSets), script : BOOLEAN,
               stopSent : BOOLEAN]
    /\ active \in Agents \union {NoAgent} /\ pending \subseteq UNION RequiredSets

\* Somebody still has to hear that the script has finished: it has begun to write
\* and has not ended, or its end lies in the queue behind the i-th message.
Owed(i) == \/ proc # "NotRunning" /\ written
           \/ \E j \in DOMAIN toUi : j > i /\ toUi[j].type = "finished"

\* Whatever concerns a script's monitoring is still owed the end of the script.
EndOwed ==
    /\ pipe # << >> => written
    /\ closed => ~wd.script
    /\ pending # {} => Owed(0)
    /\ wd.script => Owed(0)
    /\ \A i \in DOMAIN toUi : toUi[i].type = "required" => Owed(i)

\* The agents S are announced by any script that shows a workflow after the i-th
\* message and before the next end, and by the one that runs if no end is queued.
Covered(S, i) ==
    /\ \A j \in DOMAIN toUi :
          (/\ j > i /\ toUi[j].type = "workflow"
           /\ \A k \in (i + 1)..(j - 1) : toUi[k].type # "finished")
          => \A a \in S : <<toUi[j].run, a>> \in announced
    /\ (proc # "NotRunning" /\ \A k \in (i + 1)..Len(toUi) : toUi[k].type # "finished")
          => \A a \in S : <<run, a>> \in announced

NodesChecked(steps) == HasStatus(steps, "nodes_check", "success")

WatchedOwn ==
    /\ Covered(pending, 0)
    /\ \A i \in DOMAIN toUi :
          toUi[i].type = "required" => Covered(toUi[i].agents, i)
    /\ \A i \in DOMAIN toUi :
          (toUi[i].type = "workflow" /\ NodesChecked(toUi[i].steps)) => toUi[i].run \in checked
    /\ NodesChecked(workflow) => run \in checked

SessionInv == IInv /\ SessionTypes /\ EndOwed /\ WatchedOwn

-----------------------------------------------------------------------------
(* The order of the queue under the steps of the session.                   *)

\* Marking steps as stopping or stopped makes none of them a success.
LEMMA MarkedNotChecked ==
  ASSUME NEW shown \in Seq(Steps)
  PROVE  /\ NodesChecked(Stopping(shown)) => NodesChecked(shown)
         /\ NodesChecked(Stopped(shown)) => NodesChecked(shown)
<1>1. ASSUME NEW status \in {"stopping", "stopped"}, NEW S,
             NodesChecked(Mark(OrOneStep(shown, status), S, status))
      PROVE  NodesChecked(shown)
  <2> DEFINE steps == OrOneStep(shown, status)
  <2>1. PICK i \in DOMAIN steps :
           steps[i].key = "nodes_check" /\ steps[i].status = "success"
    BY <1>1 DEF NodesChecked, HasStatus, Mark
  <2>2. shown # << >>
    BY <2>1 DEF OrOneStep
  <2>3. steps = shown
    BY <2>2 DEF OrOneStep
  <2>4. QED
    BY <2>1, <2>3 DEF NodesChecked, HasStatus
<1>2. QED
  BY <1>1 DEF Stopping, Stopped

\* The queue gets longer or stays, and its new messages are about the run that is
\* under way.
Grows ==
    /\ Extended(2)
    /\ run' = run /\ announced \subseteq announced' /\ checked \subseteq checked'
    /\ proc' # "NotRunning" => proc # "NotRunning"
    /\ (proc # "NotRunning" /\ written) =>
          \/ proc' # "NotRunning" /\ written'
          \/ Len(toUi') > Len(toUi) /\ toUi'[Len(toUi')].type = "finished"
    /\ \A j \in DOMAIN toUi' : j > Len(toUi) =>
          /\ toUi'[j].type = "workflow" =>
                /\ toUi'[j].run = run /\ proc # "NotRunning"
                /\ NodesChecked(toUi'[j].steps) => run \in checked'
          /\ toUi'[j].type = "required" =>
                /\ proc' # "NotRunning" /\ written' /\ j = Len(toUi')
                /\ \A a \in toUi'[j].agents : <<run, a>> \in announced'
    /\ NodesChecked(workflow') => run \in checked'
    /\ pipe' # << >> => written'

\* The first message is taken away.
Shift == /\ toUi # << >> /\ toUi' = Tail(toUi)
         /\ UNCHANGED <<run, proc, written, pipe, announced, checked, workflow, closed>>

LEMMA GrowOwed ==
  ASSUME toUi \in Seq(UiMessages), Grows, NEW i \in 0..Len(toUi), Owed(i)
  PROVE  Owed(i)'
<1>1. Len(toUi) \in Nat /\ Extended(2)
  BY QueueLen DEF Grows
<1>2. CASE proc # "NotRunning" /\ written
  <2>1. CASE proc' # "NotRunning" /\ written'
    BY <2>1 DEF Owed
  <2>2. CASE Len(toUi') > Len(toUi) /\ toUi'[Len(toUi')].type = "finished"
    BY <1>1, <2>2 DEF Owed, Extended
  <2>3. QED
    BY <1>2, <2>1, <2>2 DEF Grows
<1>3. ASSUME NEW j \in DOMAIN toUi, j > i, toUi[j].type = "finished"
      PROVE  Owed(i)'
  BY <1>1, <1>3, QueueLen DEF Owed, Extended
<1>4. QED
  BY <1>2, <1>3 DEF Owed

LEMMA GrowCovered ==
  ASSUME toUi \in Seq(UiMessages), Grows, NEW S, NEW i \in 0..Len(toUi), Covered(S, i)
  PROVE  Covered(S, i)'
<1>1. /\ Len(toUi) \in Nat /\ DOMAIN toUi = 1..Len(toUi) /\ Len(toUi') \in Nat
      /\ Len(toUi) <= Len(toUi') /\ DOMAIN toUi' = 1..Len(toUi')
      /\ \A k \in 1..Len(toUi) : toUi'[k] = toUi[k]
  BY QueueLen DEF Grows, Extended
<1>2. ASSUME \A k \in (i + 1)..Len(toUi) : toUi'[k].type # "finished",
             proc # "NotRunning"
      PROVE  \A a \in S : <<run, a>> \in announced
  <2>1. \A k \in (i + 1)..Len(toUi) : toUi[k].type # "finished"
    BY <1>1, <1>2
  <2>2. QED
    BY <1>2, <2>1 DEF Covered
<1>3. ASSUME NEW j \in DOMAIN toUi', j > i, toUi'[j].type = "workflow",
             \A k \in (i + 1)..(j - 1) : toUi'[k].type # "finished"
      PROVE  \A a \in S : <<toUi'[j].run, a>> \in announced'
  <2>1. CASE j <= Len(toUi)
    <3>1. j \in DOMAIN toUi /\ toUi[j] = toUi'[j]
          /\ \A k \in (i + 1)..(j - 1) : toUi[k].type # "finished"
      BY <1>1, <1>3, <2>1
    <3>2. \A a \in S : <<toUi[j].run, a>> \in announced
      BY <1>3, <3>1 DEF Covered
    <3>3. QED
      BY <3>1, <3>2 DEF Grows
  <2>2. CASE j > Len(toUi)
    <3>1. toUi'[j].run = run /\ proc # "NotRunning"
      BY <1>3, <2>2 DEF Grows
    <3>2. \A k \in (i + 1)..Len(toUi) : toUi'[k].type # "finished"
      BY <1>1, <1>3, <2>2
    <3>3. QED
      BY <1>2, <3>1, <3>2 DEF Grows
  <2>3. QED
    BY <1>1, <2>1, <2>2
<1>4. ASSUME proc' # "NotRunning",
             \A k \in (i + 1)..Len(toUi') : toUi'[k].type # "finished"
      PROVE  \A a \in S : <<run', a>> \in announced'
  <2>1. proc # "NotRunning" /\ \A k \in (i + 1)..Len(toUi) : toUi'[k].type # "finished"
    BY <1>1, <1>4 DEF Grows
  <2>2. QED
    BY <1>2, <2>1 DEF Grows
<1>5. QED
  BY <1>3, <1>4 DEF Covered

LEMMA ShiftOwed ==
  ASSUME toUi \in Seq(UiMessages), Shift, NEW i \in 0..(Len(toUi) - 1), Owed(i + 1)
  PROVE  Owed(i)'
<1>1. Len(toUi) \in Nat \ {0} /\ DOMAIN toUi = 1..Len(toUi)
      /\ DOMAIN toUi' = 1..(Len(toUi) - 1)
      /\ \A k \in 1..(Len(toUi) - 1) : toUi'[k] = toUi[k + 1]
  BY QueueLen, TailShifts DEF Shift
<1>2. CASE proc # "NotRunning" /\ written
  BY <1>2 DEF Owed, Shift
<1>3. ASSUME NEW j \in DOMAIN toUi, j > i + 1, toUi[j].type = "finished"
      PROVE  Owed(i)'
  <2>1. j - 1 \in DOMAIN toUi' /\ j - 1 > i /\ toUi'[j - 1] = toUi[j]
    BY <1>1, <1>3
  <2>2. QED
    BY <1>3, <2>1 DEF Owed
<1>4. QED
  BY <1>2, <1>3 DEF Owed

LEMMA ShiftCovered ==
  ASSUME toUi \in Seq(UiMessages), Shift, NEW S, NEW i \in 0..(Len(toUi) - 1),
         Covered(S, i + 1)
  PROVE  Covered(S, i)'
<1>1. Len(toUi) \in Nat \ {0} /\ DOMAIN toUi = 1..Len(toUi)
      /\ Len(toUi') = Len(toUi) - 1 /\ DOMAIN toUi' = 1..(Len(toUi) - 1)
      /\ \A k \in 1..(Len(toUi) - 1) : toUi'[k] = toUi[k + 1]
  BY QueueLen, TailShifts DEF Shift
<1>2. ASSUME NEW j \in DOMAIN toUi', j > i, toUi'[j].type = "workflow",
             \A k \in (i + 1)..(j - 1) : toUi'[k].type # "finished"
      PROVE  \A a \in S : <<toUi'[j].run, a>> \in announced'
  <2>1. j + 1 \in DOMAIN toUi /\ toUi[j + 1] = toUi'[j]
    BY <1>1, <1>2
  <2>2. \A k \in (i + 2)..j : k - 1 \in (i + 1)..(j - 1) /\ toUi[k] = toUi'[k - 1]
    BY <1>1, <1>2
  <2>3. \A k \in ((i + 1) + 1)..((j + 1) - 1) : toUi[k].type # "finished"
    BY <1>1, <1>2, <2>2
  <2>4. j + 1 > i + 1 /\ toUi[j + 1].type = "workflow"
    BY <1>1, <1>2, <2>1
  <2>5. \A a \in S : <<toUi[j + 1].run, a>> \in announced
    BY <2>1, <2>3, <2>4 DEF Covered
  <2>6. QED
    BY <2>1, <2>5 DEF Shift
<1>3. ASSUME proc' # "NotRunning",
             \A k \in (i + 1)..Len(toUi') : toUi'[k].type # "finished"
      PROVE  \A a \in S : <<run', a>> \in announced'
  <2>1. \A k \in (i + 2)..Len(toUi) : k - 1 \in (i + 1)..Len(toUi') /\ toUi[k] = toUi'[k - 1]
    BY <1>1
  <2>2. \A k \in ((i + 1) + 1)..Len(toUi) : toUi[k].type # "finished"
    BY <1>1, <1>3, <2>1
  <2>3. QED
    BY <1>3, <2>2 DEF Covered, Shift
<1>4. QED
  BY <1>2, <1>3 DEF Covered

\* What is known of the whole queue is known of it without its first message,
\* unless that is an end.
LEMMA BehindHead ==
  ASSUME toUi \in Seq(UiMessages), toUi # << >>, Head(toUi).type # "finished"
  PROVE  /\ Owed(0) => Owed(1)
         /\ \A S : Covered(S, 0) => Covered(S, 1)
<1>1. toUi[1].type # "finished" /\ Len(toUi) \in Nat \ {0} /\ DOMAIN toUi = 1..Len(toUi)
  OBVIOUS
<1>2. Owed(0) => Owed(1)
  BY <1>1 DEF Owed
<1>3. ASSUME NEW S, Covered(S, 0) PROVE Covered(S, 1)
  <2>1. ASSUME NEW j \in DOMAIN toUi, j > 1, toUi[j].type = "workflow",
               \A k \in 2..(j - 1) : toUi[k].type # "finished"
        PROVE  \A a \in S : <<toUi[j].run, a>> \in announced
    <3>1. \A k \in 1..(j - 1) : toUi[k].type # "finished"
      BY <1>1, <2>1
    <3>2. QED
      BY <1>1, <1>3, <2>1, <3>1 DEF Covered
  <2>2. ASSUME proc # "NotRunning", \A k \in 2..Len(toUi) : toUi[k].type # "finished"
        PROVE  \A a \in S : <<run, a>> \in announced
    <3>1. \A k \in 1..Len(toUi) : toUi[k].type # "finished"
      BY <1>1, <2>2
    <3>2. QED
      BY <1>3, <2>2, <3>1 DEF Covered
  <2>3. QED
    BY <2>1, <2>2 DEF Covered
<1>4. QED
  BY <1>2, <1>3


\* What Grows asks of the state before the step.
Readable == /\ pipe # << >> => written
            /\ NodesChecked(workflow) => run \in checked

LEMMA SameGrows ==
  ASSUME toUi \in Seq(UiMessages), UNCHANGED <<toUi, run, announced, checked>>,
         proc' # "NotRunning" => proc # "NotRunning",
         (proc # "NotRunning" /\ written) => (proc' # "NotRunning" /\ written'),
         pipe' # << >> => written', NodesChecked(workflow') => run \in checked
  PROVE  Grows
  BY QueueLen DEF Grows, Extended

LEMMA AddGrows ==
  ASSUME toUi \in Seq(UiMessages), NEW m \in UiMessages, toUi' = Append(toUi, m),
         UNCHANGED <<run, proc, written>>,
         announced \subseteq announced', checked \subseteq checked',
         pipe' # << >> => written, NodesChecked(workflow') => run \in checked',
         m.type = "workflow" => /\ m.run = run /\ proc # "NotRunning"
                                /\ NodesChecked(m.steps) => run \in checked',
         m.type = "required" => /\ proc # "NotRunning" /\ written
                                /\ \A a \in m.agents : <<run, a>> \in announced'
  PROVE  Grows
<1>1. Extended(1) /\ Len(toUi') = Len(toUi) + 1 /\ toUi'[Len(toUi')] = m
  BY AppendExtends
<1>2. \A j \in DOMAIN toUi' : j > Len(toUi) => j = Len(toUi') /\ toUi'[j] = m
  BY <1>1, QueueLen DEF Extended
<1>3. Extended(2)
  BY <1>1, QueueLen DEF Extended
<1>4. QED
  BY <1>2, <1>3 DEF Grows

LEMMA TerminateGrows ==
  ASSUME Typed, Readable, Terminate, proc # "NotRunning",
         UNCHANGED <<run, proc, written, pipe, announced, checked>>
  PROVE  Grows
<1>1. workflow' \in Seq(Steps) /\ workflow' = Stopping(workflow) /\ workflow \in Seq(Steps)
  BY StopType DEF Terminate, Typed, OwnTypes
<1> DEFINE m == [type |-> "workflow", run |-> run, steps |-> workflow']
<1>2. m \in UiMessages /\ toUi' = Append(toUi, m)
  BY <1>1, TellWide DEF Typed, OwnTypes, Terminate
<1>3. NodesChecked(workflow') => run \in checked'
  BY <1>1, MarkedNotChecked DEF Readable
<1>4. m.type = "workflow" /\ m.run = run /\ m.steps = workflow'
  OBVIOUS
<1> HIDE DEF m
<1>5. QED
  BY <1>2, <1>3, <1>4, AddGrows DEF Readable, Typed

LEMMA FinishGrows ==
  ASSUME Typed, Readable, Finished
  PROVE  Grows
<1>1. /\ Extended(2) /\ Len(toUi) \in Nat
      /\ Len(toUi') = Len(toUi) + (IF stopRequested THEN 2 ELSE 1)
      /\ toUi'[Len(toUi')] = [type |-> "finished", run |-> run, stop |-> stopRequested]
      /\ stopRequested => toUi'[Len(toUi) + 1] =
            [type |-> "workflow", run |-> run, steps |-> Stopped(workflow)]
  BY FinishedQueue, QueueLen DEF Typed
<1>2. \A j \in DOMAIN toUi' : j > Len(toUi) =>
         \/ j = Len(toUi')
         \/ j = Len(toUi) + 1 /\ stopRequested
  BY <1>1 DEF Extended
<1>3. NodesChecked(Stopped(workflow)) => run \in checked
  BY MarkedNotChecked DEF Readable, Typed, OwnTypes
<1>4. proc # "NotRunning" /\ proc' = "NotRunning" /\ pipe' = << >>
      /\ workflow' = (IF stopRequested THEN Stopped(workflow) ELSE workflow)
      /\ UNCHANGED <<run, written, announced, checked>>
  BY DEF Finished, history
<1>5. NodesChecked(workflow') => run \in checked'
  BY <1>3, <1>4 DEF Readable
<1>6. Len(toUi') > Len(toUi) /\ toUi'[Len(toUi')].type = "finished"
  BY <1>1
<1>7. ASSUME NEW j \in DOMAIN toUi', j > Len(toUi)
      PROVE  /\ toUi'[j].type = "workflow" =>
                   /\ toUi'[j].run = run /\ proc # "NotRunning"
                   /\ NodesChecked(toUi'[j].steps) => run \in checked'
             /\ toUi'[j].type # "required"
  <2>1. CASE j = Len(toUi')
    BY <1>1, <2>1
  <2>2. CASE j = Len(toUi) + 1 /\ stopRequested
    BY <1>1, <1>3, <1>4, <2>2
  <2>3. QED
    BY <1>2, <1>7, <2>1, <2>2
<1>8. QED
  BY <1>1, <1>4, <1>5, <1>6, <1>7 DEF Grows

\* Every step of the actuator but the start of a script lets the queue grow.
Posts == \/ \E path \in Scripts \union {NoScript} : Post([type |-> "run", script |-> path])
         \/ Post([type |-> "stop"])

ActuatorActs == ActuatorAlone \/ Destroy \/ Posts \/ UNCHANGED actuatorVars

LEMMA ActuatorGrows ==
  ASSUME Typed, Readable, ActuatorActs
  PROVE  Grows \/ doRunScript
<1>1. CASE Writes \/ Exits \/ RefuseRun \/ IdleStop \/ KillFires \/ sendRuntimeResponse
           \/ StartFails \/ KillAtClose \/ UNCHANGED actuatorVars
  <2>1. UNCHANGED <<toUi, run, announced, checked, workflow>>
    BY <1>1 DEF Writes, Exits, RefuseRun, IdleStop, KillFires, sendRuntimeResponse,
       StartFails, KillAtClose, actuatorVars, current, history
  <2>2. /\ proc' # "NotRunning" => proc # "NotRunning"
        /\ (proc # "NotRunning" /\ written) => (proc' # "NotRunning" /\ written')
        /\ pipe' # << >> => written'
    BY <1>1 DEF Writes, Exits, RefuseRun, IdleStop, KillFires, sendRuntimeResponse,
       StartFails, KillAtClose, actuatorVars, process, Readable
  <2>3. QED
    BY <2>1, <2>2, SameGrows DEF Typed, Readable
<1>2. CASE handleCommandRequestEvent \/ handleImmediateEvent
  <2>1. /\ UNCHANGED <<toUi, run, announced, checked, workflow, proc, written>>
        /\ pipe # << >>
    BY <1>2 DEF handleCommandRequestEvent, handleImmediateEvent, ReadLine
  <2>2. QED
    BY <2>1, SameGrows DEF Typed, Readable
<1>3. ASSUME NEW msg, Post(msg) PROVE Grows
  <2>1. UNCHANGED <<toUi, run, announced, checked, workflow, proc, written, pipe>>
    BY <1>3 DEF Post, current, process, history
  <2>2. QED
    BY <2>1, SameGrows DEF Typed, Readable
<1>4. CASE AgentManagerAnswers
  <2>1. UNCHANGED <<toUi, run, announced, checked, workflow, proc, written, pipe>>
    BY <1>4 DEF AgentManagerAnswers, current, process, history
  <2>2. QED
    BY <2>1, SameGrows DEF Typed, Readable
<1>5. CASE doStopScript
  BY <1>5, TerminateGrows DEF doStopScript, process
<1>6. CASE Destroy
  <2>1. CASE proc = "NotRunning"
    <3>1. UNCHANGED <<toUi, run, announced, checked, workflow, proc, written, pipe>>
      BY <1>6, <2>1 DEF Destroy, process
    <3>2. QED
      BY <3>1, SameGrows DEF Typed, Readable
  <2>2. CASE proc # "NotRunning"
    BY <1>6, <2>2, TerminateGrows DEF Destroy, process
  <2>3. QED
    BY <2>1, <2>2
<1>7. CASE handleRequiredAgentsEvent
  <2> DEFINE m == [type |-> "required", run |-> run, agents |-> Head(pipe).agents]
  <2>1. Head(pipe).agents \in RequiredSets
    BY <1>7, LineType DEF handleRequiredAgentsEvent, Typed
  <2>2. m \in UiMessages /\ toUi' = Append(toUi, m)
    BY <1>7, <2>1, TellWide DEF handleRequiredAgentsEvent, Typed, OwnTypes
  <2>3. m.type = "required" /\ \A a \in m.agents : <<run, a>> \in announced'
    BY <1>7 DEF handleRequiredAgentsEvent
  <2>4. /\ proc # "NotRunning" /\ pipe # << >>
        /\ UNCHANGED <<run, proc, written, checked, workflow>>
        /\ announced \subseteq announced'
    BY <1>7 DEF handleRequiredAgentsEvent, ReadLine
  <2> HIDE DEF m
  <2>5. QED
    BY <2>2, <2>3, <2>4, AddGrows DEF Typed, Readable
<1>8. CASE handleWorkflowEvent
  <2> DEFINE m == [type |-> "workflow", run |-> run, steps |-> Head(pipe).steps]
  <2>1. Head(pipe).steps \in Seq(Steps)
    BY <1>8, LineType, ActuatorAssumption DEF handleWorkflowEvent, Typed
  <2>2. m \in UiMessages /\ toUi' = Append(toUi, m)
    BY <1>8, <2>1, TellWide DEF handleWorkflowEvent, Typed, OwnTypes
  <2>3. m.type = "workflow" /\ m.run = run /\ m.steps = workflow'
    BY <1>8 DEF handleWorkflowEvent
  <2>4. NodesChecked(workflow') => run \in checked'
    BY <1>8 DEF handleWorkflowEvent, NodesChecked
  <2>5. /\ proc # "NotRunning" /\ pipe # << >>
        /\ UNCHANGED <<run, proc, written, announced>>
        /\ checked \subseteq checked'
    BY <1>8 DEF handleWorkflowEvent, ReadLine
  <2> HIDE DEF m
  <2>6. QED
    BY <2>2, <2>3, <2>4, <2>5, AddGrows DEF Typed, Readable
<1>9. CASE handleDialogEvent
  <2> DEFINE m == [type |-> "dialog", run |-> run]
  <2>1. m \in UiMessages /\ toUi' = Append(toUi, m)
    BY <1>9, TellWide DEF handleDialogEvent, Typed, OwnTypes
  <2>2. m.type = "dialog"
    OBVIOUS
  <2>3. pipe # << >> /\ UNCHANGED <<run, proc, written, announced, checked, workflow>>
    BY <1>9 DEF handleDialogEvent, ReadLine
  <2> HIDE DEF m
  <2>4. QED
    BY <2>1, <2>2, <2>3, AddGrows DEF Typed, Readable
<1>10. CASE Started
  <2> DEFINE m == [type |-> "started", run |-> run]
  <2>1. /\ Extended(1) /\ Len(toUi') = Len(toUi) + 1
        /\ toUi'[Len(toUi')] = m
    BY <1>10, StartedQueue
  <2>2. \A j \in DOMAIN toUi' : j > Len(toUi) => toUi'[j] = m
    BY <2>1, QueueLen DEF Extended, Typed
  <2>3. Extended(2)
    BY <2>1 DEF Extended
  <2>4. /\ proc # "NotRunning" /\ proc' # "NotRunning"
        /\ UNCHANGED <<run, written, pipe, announced, checked, workflow>>
    BY <1>10 DEF Started, history
  <2>5. m.type = "started"
    OBVIOUS
  <2> HIDE DEF m
  <2>6. QED
    BY <2>2, <2>3, <2>4, <2>5 DEF Grows, Readable
<1>11. CASE Finished
  BY <1>11, FinishGrows
<1>12. QED
  BY <1>1, <1>2, <1>3, <1>4, <1>5, <1>6, <1>7, <1>8, <1>9, <1>10, <1>11
     DEF ActuatorActs, ActuatorAlone, Posts, PollBus, Signals, Reads


-----------------------------------------------------------------------------
(* The steps of the session.                                                *)

\* A step in which the queue grows: what the UI keeps is what it kept, and
\* monitoring of a script does not begin.
Alone == /\ Grows /\ UNCHANGED pending
         /\ wd'.script => wd.script
         /\ closed' => ~wd'.script

Begins == doRunScript /\ UNCHANGED <<pending, wd>>

\* A message that is no end is handled.
Handles == /\ Shift /\ Head(toUi).type # "finished"
           /\ \/ UNCHANGED pending
              \/ Head(toUi).type = "required" /\ pending' \subseteq Head(toUi).agents
           /\ (wd'.script /\ ~wd.script) =>
                 /\ pending # {} /\ wd'.agents = pending
                 /\ Head(toUi).type = "workflow" /\ NodesChecked(Head(toUi).steps)
           /\ closed => ~wd'.script

Forgets == Shift /\ pending' = {} /\ ~wd'.script

\* Who else puts a message into the queue.
LEMMA TellGrows ==
  ASSUME Typed, Readable, NEW m \in UiMessages, m.type \in {"activated", "notice"}, TellUi(m)
  PROVE  Grows
<1>1. /\ toUi' = Append(toUi, m) /\ m.type # "workflow" /\ m.type # "required"
      /\ UNCHANGED <<run, proc, written, announced, checked, workflow, pipe>>
  BY DEF TellUi, current, process, history
<1>2. QED
  BY <1>1, AddGrows DEF Typed, Readable

LEMMA HandlesShifts ==
  ASSUME UiHandles \/ UiAnswers
  PROVE  Shift
  BY DEF UiHandles, UiAnswers, UiReady, Shift, current, process, history

LEMMA AloneIsNext == ActuatorAlone => Next
  BY DEF ActuatorAlone, Next, Actuator, Host

LEMMA SessionType ==
  ASSUME Typed, SessionTypes, SessionNext
  PROVE  SessionTypes'
<1>1. \A a \in Agents : ActiveOnly(a) \in [agents : SUBSET (Agents \union UNION RequiredSets),
                                           script : BOOLEAN, stopSent : BOOLEAN]
  BY DEF ActiveOnly, Monitor
<1>2. ActiveOnly(NoAgent) \in [agents : SUBSET (Agents \union UNION RequiredSets),
                               script : BOOLEAN, stopSent : BOOLEAN]
  BY DEF ActiveOnly, Monitor
<1>3. CASE UNCHANGED <<wd, activating, active, pending>>
  BY <1>3 DEF SessionTypes
<1>4. ASSUME NEW a \in Agents, activateAgent(a) PROVE SessionTypes'
  BY <1>1, <1>4 DEF activateAgent, SessionTypes, TellWatchdog
<1>5. CASE shutdown
  BY <1>2, <1>5 DEF shutdown, SessionTypes, ui
<1>6. CASE HandleFinished
  BY <1>1, <1>2, <1>6 DEF HandleFinished, ForgetScript, MonitorActiveAgain, SessionTypes,
     TellWatchdog
<1>7. CASE HandleRequiredAgents
  <2>1. Head(toUi) \in UiMessages /\ Head(toUi).type = "required"
    BY <1>7 DEF HandleRequiredAgents, Handle, UiHandles, UiReady, Typed
  <2>2. Head(toUi).agents \in RequiredSets
    BY <2>1 DEF UiMessages, FromActuator
  <2>3. pending' \subseteq UNION RequiredSets
    BY <1>7, <2>2 DEF HandleRequiredAgents, filterScriptMonitoringAgents
  <2>4. QED
    BY <1>7, <2>3 DEF HandleRequiredAgents, SessionTypes, world
<1>8. CASE HandleWorkflow
  <2>1. Monitor(pending, TRUE) \in [agents : SUBSET (Agents \union UNION RequiredSets),
                                    script : BOOLEAN, stopSent : BOOLEAN]
    BY DEF SessionTypes, Monitor
  <2>2. QED
    BY <1>8, <2>1 DEF HandleWorkflow, SessionTypes, TellWatchdog
<1>9. CASE HandleActivated
  <2>1. Head(toUi) \in UiMessages /\ Head(toUi).type = "activated"
    BY <1>9 DEF HandleActivated, Handle, UiHandles, UiReady, Typed
  <2>2. Head(toUi).agent \in Agents
    BY <2>1 DEF UiMessages, FromActuator
  <2>3. QED
    BY <1>1, <1>9, <2>2 DEF HandleActivated, SessionTypes, TellWatchdog
<1>10. CASE doActivateAgent
  BY <1>10 DEF doActivateAgent, TellUi, SessionTypes, ui
<1>11. CASE WatchdogStops
  BY <1>11 DEF WatchdogStops, SessionTypes, ui
<1>12. CASE WatchdogNotifies
  BY <1>12 DEF WatchdogNotifies, TellUi, SessionTypes, ui
<1>13. CASE \/ ActuatorAlone /\ UNCHANGED <<ui, world>>
            \/ HandleStarted \/ OpenDialog \/ CloseDialog
            \/ stopScript \/ handleBackRequested
            \/ \E path \in Scripts \union {NoScript} : runScript(path)
  BY <1>3, <1>13 DEF HandleStarted, OpenDialog, CloseDialog, stopScript, handleBackRequested,
     runScript, ui, world
<1>14. QED
  BY <1>4, <1>5, <1>6, <1>7, <1>8, <1>9, <1>10, <1>11, <1>12, <1>13
     DEF SessionNext, HandleUiMessage, User

\* What the session does to the actuator is a step of the actuator or a message
\* of somebody else.
LEMMA SessionKinds ==
  ASSUME Typed, SessionTypes, Readable, closed => ~wd.script, [SessionNext]_sessionVars
  PROVE  /\ [Next]_actuatorVars
            \/ \E m \in UiMessages : m.type \in {"activated", "notice"} /\ TellUi(m)
         /\ Alone \/ Begins \/ Handles \/ Forgets
<1> DEFINE Told == \E m \in UiMessages : m.type \in {"activated", "notice"} /\ TellUi(m)
           Known == ([Next]_actuatorVars \/ Told) /\ (Alone \/ Begins \/ Handles \/ Forgets)
<1> SUFFICES Known
  OBVIOUS
<1>0. \A a : ActiveOnly(a).script = FALSE
  BY DEF ActiveOnly, Monitor
<1>1. CASE ActuatorAlone /\ UNCHANGED <<ui, world>>
  <2>1. [Next]_actuatorVars
    BY <1>1, AloneIsNext
  <2>2. UNCHANGED <<pending, wd>>
    BY <1>1 DEF ui, world
  <2>3. closed' = closed
    BY <1>1 DEF ActuatorAlone, PollBus, Signals, Reads, ReadLine, Take, Writes, Exits,
       KillFires, KillAtClose, AgentManagerAnswers, RefuseRun, doRunScript, IdleStop,
       doStopScript, sendRuntimeResponse, Started, StartFails, Finished,
       handleRequiredAgentsEvent, handleWorkflowEvent, handleCommandRequestEvent,
       handleDialogEvent, handleImmediateEvent
  <2>4. Grows \/ doRunScript
    BY <1>1, ActuatorGrows DEF ActuatorActs
  <2>5. QED
    BY <2>1, <2>2, <2>3, <2>4 DEF Alone, Begins
<1>2. ASSUME Posts, UNCHANGED pending, wd'.script = wd.script
      PROVE  Known
  <2>1. [Next]_actuatorVars
    BY <1>2 DEF Posts, Next, Host
  <2>2. closed' = closed /\ ~doRunScript
    BY <1>2 DEF Posts, Post, doRunScript, CanStart, process
  <2>3. Grows
    BY <1>2, <2>2, ActuatorGrows DEF ActuatorActs
  <2>4. QED
    BY <1>2, <2>1, <2>2, <2>3 DEF Alone
<1>3. CASE UNCHANGED <<actuatorVars, pending>> /\ (wd' = wd \/ (~wd'.script /\ ~closed))
  <2>1. UNCHANGED closed /\ UNCHANGED proc
    BY <1>3 DEF actuatorVars, process
  <2>2. Grows
    BY <1>3, <2>1, ActuatorGrows DEF ActuatorActs, doRunScript, CanStart
  <2>3. QED
    BY <1>3, <2>1, <2>2 DEF Alone
<1>4. CASE shutdown
  <2>1. Destroy /\ ~wd'.script /\ UNCHANGED pending /\ UNCHANGED proc
    BY <1>0, <1>4 DEF shutdown, ui, Destroy, process
  <2>2. Grows
    BY <2>1, ActuatorGrows DEF ActuatorActs, doRunScript, CanStart
  <2>3. QED
    BY <2>1, <2>2 DEF Alone, Next, Actuator
<1>5. ASSUME NEW a \in Agents, activateAgent(a) PROVE Known
  BY <1>0, <1>3, <1>5 DEF activateAgent, TellWatchdog
<1>6. CASE stopScript \/ \E path \in Scripts \union {NoScript} : runScript(path)
  BY <1>2, <1>6 DEF stopScript, runScript, Posts, world
<1>7. CASE handleBackRequested
  <2>1. UNCHANGED <<pending, wd>>
    BY <1>7 DEF handleBackRequested, world
  <2>2. Posts \/ UNCHANGED actuatorVars
    BY <1>7 DEF handleBackRequested, Posts
  <2>3. QED
    BY <1>2, <1>3, <2>1, <2>2
<1>8. CASE OpenDialog
  BY <1>3, <1>8 DEF OpenDialog, world
<1>9. CASE WatchdogStops
  <2>1. wd'.script = wd.script /\ pending' = pending /\ Posts
    BY <1>9 DEF WatchdogStops, SessionTypes, Posts, ui
  <2>2. QED
    BY <1>2, <2>1
<1>10. CASE HandleStarted
  BY <1>10, HandlesShifts DEF HandleStarted, Handle, Handles, Next, Host, world
<1>11. CASE HandleFinished
  <2>1. Shift /\ UiHandles
    BY <1>11, HandlesShifts DEF HandleFinished, Handle
  <2>2. pending' = {} /\ ~wd'.script
    BY <1>0, <1>11 DEF HandleFinished, ForgetScript, MonitorActiveAgain, TellWatchdog
  <2>3. QED
    BY <2>1, <2>2 DEF Forgets, Next, Host
<1>12. CASE HandleRequiredAgents
  <2>1. Shift /\ UiHandles /\ Head(toUi).type = "required"
    BY <1>12, HandlesShifts DEF HandleRequiredAgents, Handle
  <2>2. pending' \subseteq Head(toUi).agents /\ wd' = wd
    BY <1>12 DEF HandleRequiredAgents, filterScriptMonitoringAgents, world
  <2>3. QED
    BY <2>1, <2>2 DEF Handles, Next, Host
<1>13. CASE HandleWorkflow
  <2>1. Shift /\ UiHandles /\ Head(toUi).type = "workflow"
    BY <1>13, HandlesShifts DEF HandleWorkflow, Handle
  <2>2. pending' = pending /\ (closed => wd' = wd)
    BY <1>13 DEF HandleWorkflow
  <2>3. (wd'.script /\ ~wd.script) =>
           pending # {} /\ wd'.agents = pending /\ NodesChecked(Head(toUi).steps)
    BY <1>13 DEF HandleWorkflow, TellWatchdog, Monitor, NodesChecked
  <2>4. QED
    BY <2>1, <2>2, <2>3 DEF Handles, Next, Host
<1>14. CASE HandleActivated
  <2>1. Shift /\ UiHandles /\ Head(toUi).type = "activated"
    BY <1>14, HandlesShifts DEF HandleActivated, Handle
  <2>2. pending' = pending /\ (wd' = wd \/ ~wd'.script)
    BY <1>0, <1>14 DEF HandleActivated, TellWatchdog
  <2>3. QED
    BY <2>1, <2>2 DEF Handles, Next, Host
<1>15. CASE CloseDialog
  <2>1. UNCHANGED <<pending, wd>>
    BY <1>15 DEF CloseDialog, world
  <2>2. UiAnswers \/ (UiHandles /\ Head(toUi).type = "notice")
    BY <1>15 DEF CloseDialog
  <2>3. Head(toUi).type # "finished"
    BY <2>2 DEF UiAnswers
  <2>4. QED
    BY <2>1, <2>2, <2>3, HandlesShifts DEF Handles, Next, Host
<1>16. CASE doActivateAgent
  <2>1. Told
    <3>1. PICK ok \in BOOLEAN :
             TellUi([type |-> "activated", agent |-> Head(activating), ok |-> ok])
      BY <1>16 DEF doActivateAgent
    <3>2. [type |-> "activated", agent |-> Head(activating), ok |-> ok] \in UiMessages
      BY <1>16 DEF doActivateAgent, SessionTypes, UiMessages
    <3>3. QED
      BY <3>1, <3>2
  <2>2. wd' = wd /\ pending' = pending /\ closed' = closed
    BY <1>16 DEF doActivateAgent, TellUi, ui
  <2>3. QED
    BY <2>1, <2>2, TellGrows DEF Alone
<1>17. CASE WatchdogNotifies
  <2>1. Told
    BY <1>17 DEF WatchdogNotifies, UiMessages
  <2>2. wd' = wd /\ pending' = pending /\ closed' = closed
    BY <1>17 DEF WatchdogNotifies, TellUi, ui
  <2>3. QED
    BY <2>1, <2>2, TellGrows DEF Alone
<1>18. CASE UNCHANGED sessionVars
  BY <1>3, <1>18 DEF sessionVars, ui, world
<1>19. QED
  BY <1>1, <1>4, <1>5, <1>6, <1>7, <1>8, <1>9, <1>10, <1>11, <1>12, <1>13, <1>14, <1>15,
     <1>16, <1>17, <1>18 DEF SessionNext, HandleUiMessage, User


-----------------------------------------------------------------------------
(* The invariant of the session.                                            *)

\* At the start of a script the one before has ended: whatever was owed an end
\* has it in the queue.
LEMMA BeginStep ==
  ASSUME Typed, Begins, NEW i \in 0..Len(toUi)
  PROVE  /\ Owed(i) => Owed(i)'
         /\ \A S : (Owed(i) /\ Covered(S, i)) => Covered(S, i)'
<1>1. /\ proc = "NotRunning" /\ run' = run + 1 /\ UNCHANGED <<toUi, announced>>
      /\ DOMAIN toUi = 1..Len(toUi) /\ Len(toUi) \in Nat
  BY QueueLen DEF Begins, doRunScript, CanStart, history, Typed
<1>2. Owed(i) => Owed(i)'
  BY <1>1 DEF Owed
<1>3. ASSUME NEW S, Owed(i), Covered(S, i) PROVE Covered(S, i)'
  <2>1. PICK j \in 1..Len(toUi) : j > i /\ toUi[j].type = "finished"
    BY <1>1, <1>3 DEF Owed
  <2>2. ~(\A k \in (i + 1)..Len(toUi') : toUi'[k].type # "finished")
    BY <1>1, <2>1
  <2>3. \A k \in DOMAIN toUi' :
           (/\ k > i /\ toUi'[k].type = "workflow"
            /\ \A l \in (i + 1)..(k - 1) : toUi'[l].type # "finished")
           => \A a \in S : <<toUi'[k].run, a>> \in announced'
    BY <1>1, <1>3 DEF Covered
  <2>4. QED
    BY <2>2, <2>3 DEF Covered
<1>4. QED
  BY <1>2, <1>3

\* A part of what is covered is covered.
LEMMA CoveredPart ==
  ASSUME NEW i, NEW S, NEW T \in SUBSET S, Covered(S, i)
  PROVE  Covered(T, i)
  BY DEF Covered

LEMMA OwedStep ==
  ASSUME Typed, EndOwed, Alone \/ Begins \/ Handles \/ Forgets
  PROVE  EndOwed'
<1>1. toUi \in Seq(UiMessages) /\ Len(toUi) \in Nat /\ DOMAIN toUi = 1..Len(toUi)
  BY QueueLen DEF Typed
<1>2. CASE Alone
  <2>1. Owed(0) => Owed(0)'
    BY <1>1, <1>2, GrowOwed DEF Alone
  <2>2. ASSUME NEW i \in DOMAIN toUi', toUi'[i].type = "required" PROVE Owed(i)'
    <3>1. CASE i \in DOMAIN toUi
      <4>1. Owed(i) /\ i \in 0..Len(toUi)
        BY <1>1, <1>2, <2>2, <3>1 DEF EndOwed, Alone, Grows, Extended
      <4>2. QED
        BY <1>1, <1>2, <4>1, GrowOwed DEF Alone
    <3>2. CASE i \notin DOMAIN toUi
      BY <1>1, <1>2, <2>2, <3>2 DEF Alone, Grows, Extended, Owed
    <3>3. QED
      BY <3>1, <3>2
  <2>3. /\ pipe' # << >> => written'
        /\ closed' => ~wd'.script
        /\ pending' # {} => Owed(0)'
        /\ wd'.script => Owed(0)'
    BY <1>2, <2>1 DEF Alone, Grows, EndOwed
  <2>4. QED
    BY <2>2, <2>3 DEF EndOwed
<1>3. CASE Begins
  <2>1. pipe' = << >> /\ UNCHANGED <<toUi, closed, pending, wd>>
    BY <1>3 DEF Begins, doRunScript
  <2>2. Owed(0) => Owed(0)'
    BY <1>1, <1>3, BeginStep
  <2>3. ASSUME NEW i \in DOMAIN toUi', toUi'[i].type = "required" PROVE Owed(i)'
    <3>1. i \in 0..Len(toUi) /\ Owed(i)
      BY <1>1, <2>1, <2>3 DEF EndOwed
    <3>2. QED
      BY <1>3, <3>1, BeginStep
  <2>4. /\ closed' => ~wd'.script
        /\ pending' # {} => Owed(0)'
        /\ wd'.script => Owed(0)'
    BY <2>1, <2>2 DEF EndOwed
  <2>5. QED
    BY <2>1, <2>3, <2>4 DEF EndOwed
<1>4. CASE Handles \/ Forgets
  <2>0. Shift
    BY <1>4 DEF Handles, Forgets
  <2>1. /\ Shift /\ Len(toUi) \in Nat \ {0} /\ DOMAIN toUi' = 1..(Len(toUi) - 1)
        /\ \A k \in 1..(Len(toUi) - 1) : toUi'[k] = toUi[k + 1]
    BY <1>1, <2>0, TailShifts DEF Shift
  <2>2. ASSUME NEW i \in DOMAIN toUi', toUi'[i].type = "required" PROVE Owed(i)'
    <3>1. Owed(i + 1) /\ i \in 0..(Len(toUi) - 1)
      BY <1>1, <2>1, <2>2 DEF EndOwed
    <3>2. QED
      BY <1>1, <2>1, <3>1, ShiftOwed
  <2>3. ASSUME Owed(1) PROVE Owed(0)'
    BY <1>1, <2>1, <2>3, ShiftOwed
  <2>4. (pipe' # << >> => written') /\ (closed' => ~wd'.script)
    BY <1>4, <2>1 DEF Shift, EndOwed, Handles, Forgets
  <2>5. CASE Handles
    <3>1. Owed(0) => Owed(0)'
      BY <1>1, <2>1, <2>3, <2>5, BehindHead DEF Handles
    <3>2. (Head(toUi).type = "required") => Owed(0)'
      BY <1>1, <2>1, <2>3 DEF EndOwed
    <3>3. (pending' # {} => Owed(0)') /\ (wd'.script => Owed(0)')
      BY <2>5, <3>1, <3>2 DEF Handles, EndOwed
    <3>4. QED
      BY <2>2, <2>4, <3>3 DEF EndOwed
  <2>6. CASE Forgets
    BY <2>2, <2>4, <2>6 DEF EndOwed, Forgets
  <2>7. QED
    BY <1>4, <2>5, <2>6
<1>5. QED
  BY <1>2, <1>3, <1>4

LEMMA CoverStep ==
  ASSUME Typed, EndOwed, WatchedOwn, Alone \/ Begins \/ Handles \/ Forgets
  PROVE  WatchedOwn'
<1>1. toUi \in Seq(UiMessages) /\ Len(toUi) \in Nat /\ DOMAIN toUi = 1..Len(toUi)
  BY QueueLen DEF Typed
<1>2. CASE Alone
  <2>1. /\ Grows /\ pending' = pending /\ DOMAIN toUi' = 1..Len(toUi') /\ Len(toUi') \in Nat
        /\ \A k \in 1..Len(toUi) : toUi'[k] = toUi[k]
    BY <1>2 DEF Alone, Grows, Extended
  <2>2. Covered(pending, 0)'
    <3>1. Covered(pending, 0)
      BY DEF WatchedOwn
    <3>2. \A S : Covered(S, 0) => Covered(S, 0)'
      BY <1>1, <2>1, GrowCovered
    <3>3. QED
      BY <2>1, <3>1, <3>2 DEF Covered
  <2>3. ASSUME NEW i \in DOMAIN toUi', toUi'[i].type = "required"
        PROVE  Covered(toUi[i].agents, i)'
    <3>1. CASE i \in DOMAIN toUi
      <4> DEFINE S == toUi[i].agents
      <4>1. Covered(S, i) /\ i \in 0..Len(toUi)
        BY <1>1, <2>1, <2>3, <3>1 DEF WatchedOwn
      <4>2. \A T : Covered(T, i) => Covered(T, i)'
        BY <1>1, <2>1, <4>1, GrowCovered
      <4>3. toUi'[i].agents = S
        BY <1>1, <2>1, <3>1
      <4> HIDE DEF S
      <4>4. QED
        BY <4>1, <4>2, <4>3 DEF Covered
    <3>2. CASE i \notin DOMAIN toUi
      <4>1. /\ i = Len(toUi') /\ run' = run
            /\ \A a \in toUi'[i].agents : <<run, a>> \in announced'
        BY <1>1, <2>1, <2>3, <3>2 DEF Grows
      <4>2. QED
        BY <2>1, <4>1 DEF Covered
    <3>3. QED
      BY <3>1, <3>2
  <2>4. ASSUME NEW i \in DOMAIN toUi', toUi'[i].type = "workflow",
               NodesChecked(toUi'[i].steps)
        PROVE  toUi'[i].run \in checked'
    <3>1. CASE i \in DOMAIN toUi
      BY <1>1, <2>1, <2>4, <3>1 DEF WatchedOwn, Grows
    <3>2. CASE i \notin DOMAIN toUi
      BY <1>1, <2>1, <2>4, <3>2 DEF Grows
    <3>3. QED
      BY <3>1, <3>2
  <2>5. NodesChecked(workflow') => run' \in checked'
    BY <2>1 DEF Grows
  <2>6. QED
    BY <2>2, <2>3, <2>4, <2>5 DEF WatchedOwn
<1>3. CASE Begins
  <2>1. UNCHANGED <<toUi, pending, announced, checked>> /\ workflow' = << >>
    BY <1>3 DEF Begins, doRunScript, ResetForRun, history
  <2>2. \A S : \A i \in 0..Len(toUi) : (Owed(i) /\ Covered(S, i)) => Covered(S, i)'
    BY <1>3, BeginStep
  <2>3. Covered(pending, 0)'
    <3>1. CASE pending = {}
      BY <2>1, <3>1 DEF Covered
    <3>2. CASE pending # {}
      <4>1. Owed(0) /\ Covered(pending, 0) /\ 0 \in 0..Len(toUi)
        BY <1>1, <3>2 DEF EndOwed, WatchedOwn
      <4>2. QED
        BY <2>1, <2>2, <4>1 DEF Covered
    <3>3. QED
      BY <3>1, <3>2
  <2>4. ASSUME NEW i \in DOMAIN toUi', toUi'[i].type = "required"
        PROVE  Covered(toUi[i].agents, i)'
    <3>1. Owed(i) /\ Covered(toUi[i].agents, i) /\ i \in 0..Len(toUi)
      BY <1>1, <2>1, <2>4 DEF EndOwed, WatchedOwn
    <3>2. QED
      BY <2>1, <2>2, <3>1 DEF Covered
  <2>5. ~NodesChecked(workflow')
    BY <2>1 DEF NodesChecked, HasStatus
  <2>6. QED
    BY <2>1, <2>3, <2>4, <2>5 DEF WatchedOwn
<1>4. CASE Handles \/ Forgets
  <2>0. Shift
    BY <1>4 DEF Handles, Forgets
  <2>1. /\ Shift /\ Len(toUi) \in Nat \ {0} /\ DOMAIN toUi' = 1..(Len(toUi) - 1)
        /\ \A k \in 1..(Len(toUi) - 1) : toUi'[k] = toUi[k + 1]
    BY <1>1, <2>0, TailShifts DEF Shift
  <2>2. \A S : \A i \in 0..(Len(toUi) - 1) : Covered(S, i + 1) => Covered(S, i)'
    BY <1>1, <2>1, ShiftCovered
  <2>3. \A S : Covered(S, 1) => Covered(S, 0)'
    BY <1>1, <2>1, <2>2
  <2>4. Covered(pending, 0)'
    <3>1. CASE Handles /\ UNCHANGED pending
      <4>1. Covered(pending, 0)
        BY DEF WatchedOwn
      <4>2. Covered(pending, 1)
        BY <1>1, <2>1, <3>1, <4>1, BehindHead DEF Handles
      <4>3. QED
        BY <2>3, <3>1, <4>2 DEF Covered
    <3>2. CASE Handles /\ Head(toUi).type = "required" /\ pending' \subseteq Head(toUi).agents
      <4>1. Covered(toUi[1].agents, 1)
        BY <1>1, <2>1, <3>2 DEF WatchedOwn
      <4>2. Covered(pending', 1)
        BY <3>2, <4>1, CoveredPart
      <4>3. QED
        BY <2>3, <4>2 DEF Covered
    <3>3. CASE Forgets
      BY <3>3 DEF Forgets, Covered
    <3>4. QED
      BY <1>4, <3>1, <3>2, <3>3 DEF Handles
  <2>5. ASSUME NEW i \in DOMAIN toUi', toUi'[i].type = "required"
        PROVE  Covered(toUi[i].agents, i)'
    <3>1. /\ Covered(toUi[i + 1].agents, i + 1) /\ i \in 0..(Len(toUi) - 1)
          /\ toUi'[i].agents = toUi[i + 1].agents
      BY <1>1, <2>1, <2>5 DEF WatchedOwn
    <3>2. \A T : (T = toUi[i + 1].agents) => Covered(T, i)'
      BY <2>2, <3>1
    <3>3. QED
      BY <3>1, <3>2 DEF Covered
  <2>6. UNCHANGED <<run, checked, workflow>>
    BY <2>1 DEF Shift
  <2>7. QED
    BY <1>1, <2>1, <2>4, <2>5, <2>6 DEF WatchedOwn
<1>5. QED
  BY <1>2, <1>3, <1>4

LEMMA SessionStep ==
  ASSUME SessionInv, [SessionNext]_sessionVars
  PROVE  SessionInv'
<1>1. Typed /\ SessionTypes /\ Readable /\ (closed => ~wd.script)
  BY DEF SessionInv, IInv, Readable, EndOwed, WatchedOwn
<1>2. IInv'
  <2>1. CASE [Next]_actuatorVars
    BY <2>1, ActuatorStep DEF SessionInv
  <2>2. ASSUME NEW m \in UiMessages, m.type \in {"activated", "notice"}, TellUi(m)
        PROVE  IInv'
    <3>1. Quiet
      BY <2>2, OthersQuiet DEF IsLifecycle
    <3>2. Typed'
      <4>1. toUi' \in Seq(UiMessages)
        BY <1>1, <2>2 DEF TellUi, Typed
      <4>2. OwnTypes'
        BY <1>1, <2>2 DEF TellUi, Typed, OwnTypes, current, process, history
      <4>3. QED
        BY <4>1, <4>2 DEF Typed
    <3>3. QED
      BY <3>1, <3>2, InvStep DEF SessionInv, StepKind
  <2>3. QED
    BY <1>1, <2>1, <2>2, SessionKinds
<1>3. SessionTypes'
  BY <1>1, SessionType DEF sessionVars, ui, world, SessionTypes
<1>4. EndOwed' /\ WatchedOwn'
  BY <1>1, SessionKinds, OwedStep, CoverStep DEF SessionInv
<1>5. QED
  BY <1>2, <1>3, <1>4 DEF SessionInv

LEMMA SessionStart ==
  ASSUME SessionInit
  PROVE  SessionInv
<1>1. IInv
  BY EmptyQueueInv DEF SessionInit
<1>2. toUi = << >> /\ DOMAIN toUi = {} /\ pipe = << >> /\ proc = "NotRunning" /\ workflow = << >>
      /\ pending = {} /\ ~wd.script /\ active = NoAgent /\ activating = << >>
      /\ wd \in [agents : SUBSET (Agents \union UNION RequiredSets),
                 script : BOOLEAN, stopSent : BOOLEAN]
  BY DEF SessionInit, Init, ActiveOnly, Monitor
<1>3. SessionTypes
  BY <1>2 DEF SessionTypes
<1>4. EndOwed /\ WatchedOwn
  BY <1>2 DEF EndOwed, WatchedOwn, Covered, NodesChecked, HasStatus
<1>5. QED
  BY <1>1, <1>3, <1>4 DEF SessionInv

\* In the session too, the actuator keeps its promises; and whatever concerns the
\* monitoring of a script is owed its end and covers what the script announced.
THEOREM SessionInvariance == SessionSpec => []SessionInv
<1>1. SessionInv /\ [SessionNext]_sessionVars => SessionInv'
  BY SessionStep
<1>2. QED
  BY SessionStart, <1>1, PTL DEF SessionSpec

\* While the Watchdog watches a script's agents, that script runs or MainWindow
\* has yet to hear that it finished.
THEOREM MonitoringHasAnEnd == SessionSpec => []MonitoringEnds
<1>1. SessionInv => MonitoringEnds
  BY DEF SessionInv, EndOwed, Owed, MonitoringEnds
<1>2. QED
  BY SessionInvariance, <1>1, PTL

\* Monitoring begins only for a script that has reported its nodes checked, and
\* covers only agents this script announced.
THEOREM MonitorsOnlyChecked == SessionSpec => MonitorsCheckedScript
<1> DEFINE r == Head(toUi).run
           Own == (wd'.script /\ ~wd.script) =>
                     /\ r \in checked
                     /\ \A a \in wd'.agents : <<r, a>> \in announced
<1>1. ASSUME SessionInv, [SessionNext]_sessionVars, wd'.script, ~wd.script
      PROVE  Own
  <2>1. Handles
    BY <1>1, SessionKinds DEF SessionInv, IInv, Readable, EndOwed, WatchedOwn,
       Alone, Begins, Forgets
  <2>2. /\ toUi \in Seq(UiMessages) /\ toUi # << >> /\ wd'.agents = pending
        /\ toUi[1].type = "workflow" /\ NodesChecked(toUi[1].steps)
    BY <1>1, <2>1 DEF Handles, Shift, SessionInv, IInv, Typed
  <2>3. 1 \in DOMAIN toUi /\ r = toUi[1].run
    BY <2>2
  <2>4. r \in checked
    BY <1>1, <2>2, <2>3 DEF SessionInv, WatchedOwn
  <2>5. \A a \in pending : <<r, a>> \in announced
    BY <1>1, <2>2, <2>3 DEF SessionInv, WatchedOwn, Covered
  <2>6. QED
    BY <2>2, <2>4, <2>5
<1>2. SessionInv /\ [SessionNext]_sessionVars => [Own]_sessionVars
  BY <1>1
<1>3. QED
  BY SessionInvariance, <1>2, PTL DEF SessionSpec, MonitorsCheckedScript


\* What the actuator promises of its messages and its emergency stops holds as
\* well when others write to the UI's queue and the Watchdog stops scripts.
THEOREM PromisesInSession ==
  SessionSpec => [](StopFlagHonest /\ EstopOnlyOwn /\ StopReachesArm
                    /\ LifecyclePaired /\ EndsShownStopped)
<1>1. SessionInv => StopFlagHonest /\ EstopOnlyOwn /\ StopReachesArm
                    /\ LifecyclePaired /\ EndsShownStopped
  BY DEF SessionInv, IInv, StopInv, ArmInv, LifeInv
<1>2. QED
  BY SessionInvariance, <1>1, PTL
=============================================================================
