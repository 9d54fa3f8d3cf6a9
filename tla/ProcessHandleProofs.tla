------------------------ MODULE ProcessHandleProofs ------------------------
(***************************************************************************)
(* What ProcessHandle promises, for any number of processes, pipes, lines  *)
(* and runs of the host.                                                   *)
(*                                                                         *)
(* Control ties the process held to the point the owner has reached, so    *)
(* that a process is let go only when it has ended or been killed; Readers *)
(* says that readers run for the process in metadata_ alone, so that it    *)
(* cannot change under them; Output says that each pipe of this host is    *)
(* either being read or closed and empty.                                  *)
(***************************************************************************)
EXTENDS ProcessHandle, TLAPS

Cleaning == {"scan", "sweep", "killSurvivors"}
Ending   == {"signal", "wait", "escalate", "lastWait"}
Starting == {"start", "startPiped"}
Willing  == {"running", "asked"}

Control ==
    /\ step \in Ending => pid # 0
    /\ step \in Cleaning \union {"join", "spawn"} => pid = 0
    /\ step = "spawn" => call \in Starting
    /\ step \in Ending \union {"join", "spawn"} /\ call \in Starting => starts < MaxStarts
    /\ pid # 0 => pid = metadata
    /\ step = "lastWait" => leader[pid] \notin Willing
    /\ step \in Cleaning \ {"scan"} => \A p \in Procs : leader[p] \in Willing => p \in targets

NoReaders == \A s \in Streams : reader[s] = "none"

Readers ==
    /\ step \in Cleaning \union {"spawn"} => NoReaders
    /\ step = "idle" /\ pid = 0 => NoReaders
    /\ ~NoReaders => metadata \in piped /\ \A q \in piped : q <= metadata
    /\ \A s \in Streams : reader[s] = "reading" => tag[s] \in {0, metadata}

Output ==
    /\ \A p \in Procs \ piped, s \in Streams :
          written[p][s] = 0 /\ pipe[p][s] = 0 /\ delivered[p][s] = 0
    /\ \A p \in piped, s \in Streams : bornIn[p] = host =>
          /\ delivered[p][s] + pipe[p][s] = written[p][s]
          /\ \/ reader[s] \in {"new", "reading"} /\ p = metadata
             \/ Closed(p) /\ pipe[p][s] = 0

Inv == TypeOK /\ Control /\ OnlyOwnRuns /\ Readers /\ Output /\ OutputIsOwn

-----------------------------------------------------------------------------
\* A signal changes the state of living processes only, and revives none.
LEMMA SignalsKeep ==
    ASSUME TypeOK, NEW S, NEW signal \in {"asked", "killed"}
    PROVE  /\ Signalled(leader, S, signal) \in [Procs -> Alive \union {"none", "zombie", "reaped"}]
           /\ Signalled(helper, S, signal) \in [Procs -> Alive \union {"none", "reaped"}]
           /\ \A p \in Procs :
                /\ Signalled(leader, S, signal)[p] \in Alive <=> leader[p] \in Alive
                /\ Signalled(helper, S, signal)[p] \in Alive <=> helper[p] \in Alive
                /\ Signalled(leader, S, signal)[p] \in Willing => leader[p] \in Willing
                /\ signal = "killed" /\ p \in S => Signalled(leader, S, signal)[p] \notin Willing
BY DEF TypeOK, Signalled, Alive, Willing

LEMMA SourceIsHeld ==
    ASSUME TypeOK, Readers, ~NoReaders
    PROVE  Source = metadata /\ metadata \in piped /\ metadata \in 1..starts
<1>1. /\ metadata \in piped /\ \A q \in piped : q <= metadata
      /\ piped \subseteq 1..starts /\ starts \in Nat
  BY DEF Readers, TypeOK
<1>2. \E p \in piped : \A q \in piped : q <= p BY <1>1
<1>3. Source \in piped /\ \A q \in piped : q <= Source BY <1>2 DEF Source
<1>4. Source <= metadata /\ metadata <= Source /\ Source \in Nat /\ metadata \in Nat
  BY <1>1, <1>3
<1> QED BY <1>1, <1>4

LEMMA TypeInit == Init => TypeOK
BY HandleAssumption DEF Init, TypeOK, Procs, Steps, Calls, Alive

LEMMA TypeOwner ==
    ASSUME Inv, \/ \E c \in {"start", "startPiped"} : start(c)
                \/ terminate \/ wait \/ OwnerGoesOn
    PROVE  TypeOK'
<1> USE HandleAssumption
<1>0. TypeOK /\ Control BY DEF Inv
<1>1. CASE \E c \in {"start", "startPiped"} : start(c)
  BY <1>0, <1>1 DEF start, Enter, EndsFirst, Owner, TypeOK, outputVars, readerVars, systemVars,
     Steps, Calls
<1>2. CASE terminate \/ wait
  BY <1>0, <1>2 DEF terminate, wait, Enter, EndsFirst, Owner, TypeOK, outputVars, readerVars,
     systemVars, Steps, Calls
<1>3. CASE Ask
  BY <1>0, <1>3, SignalsKeep DEF Ask, SignalGroups, Owner, TypeOK, outputVars, readerVars, Steps
<1>4. CASE Reap
  <2>1. /\ leader' = [leader EXCEPT ![pid] = "reaped"] /\ pid' = 0 /\ step' = "join"
        /\ UNCHANGED <<metadata, call, readerVars, helper, piped, bornIn, starts, outputVars,
                       host, targets>>
    BY <1>4 DEF Reap, JoinsReaders, Owner
  <2>2. leader' \in [Procs -> Alive \union {"none", "zombie", "reaped"}]
    BY <1>0, <2>1 DEF TypeOK
  <2> QED BY <1>0, <2>1, <2>2 DEF TypeOK, outputVars, readerVars, Steps
<1>5. CASE TimesOut
  BY <1>0, <1>5 DEF TimesOut, GoesOn, Owner, TypeOK, outputVars, readerVars, systemVars, Steps
<1>6. CASE Kill
  BY <1>0, <1>6, SignalsKeep DEF Kill, SignalGroups, Owner, TypeOK, outputVars, readerVars, Steps
<1>7. CASE LastTimesOut
  BY <1>0, <1>7 DEF LastTimesOut, Owner, TypeOK, outputVars, readerVars, systemVars, Steps
<1>8. CASE Join
  BY <1>0, <1>8 DEF Join, Owner, TypeOK, outputVars, systemVars, Steps
<1>9. CASE StartFails
  <2>1. starts' = starts + 1 /\ starts' \in 0..MaxStarts /\ metadata' = starts' /\ step' = "idle"
        /\ UNCHANGED <<pid, call, readerVars, systemVars, outputVars, host, targets>>
    BY <1>0, <1>9 DEF StartFails, Owner, TypeOK, Control
  <2> QED BY <1>0, <2>1 DEF TypeOK, outputVars, readerVars, systemVars, Steps
<1>10. CASE Spawn
  <2>1. /\ starts' = starts + 1 /\ starts' \in 0..MaxStarts /\ metadata' = starts' /\ pid' = starts'
        /\ step' = "idle" /\ UNCHANGED <<call, tag, helper, outputVars, host, targets>>
        /\ starts' \in Procs
        /\ leader' = [leader EXCEPT ![starts'] = "running"]
        /\ bornIn' = [bornIn EXCEPT ![starts'] = host]
        /\ piped' \subseteq piped \union {starts'}
        /\ reader' = reader \/ reader' = [s \in Streams |-> "new"]
    BY <1>0, <1>10 DEF Spawn, Owner, TypeOK, Control, Procs
  <2>2. leader' \in [Procs -> Alive \union {"none", "zombie", "reaped"}]
    BY <1>0, <2>1 DEF TypeOK, Alive
  <2>3. bornIn' \in [Procs -> 0..host] BY <1>0, <2>1 DEF TypeOK
  <2>4. reader' \in [Streams -> {"none", "new", "reading", "done"}] BY <1>0, <2>1 DEF TypeOK
  <2>5. piped' \subseteq 1..starts' BY <1>0, <2>1 DEF TypeOK
  <2> QED BY <1>0, <2>1, <2>2, <2>3, <2>4, <2>5 DEF TypeOK, outputVars, Steps
<1> QED BY <1>1, <1>2, <1>3, <1>4, <1>5, <1>6, <1>7, <1>8, <1>9, <1>10 DEF OwnerGoesOn

LEMMA TypeReader ==
    ASSUME Inv, NEW s \in Streams, ReaderStep(s)
    PROVE  TypeOK'
<1>0. TypeOK /\ Readers BY DEF Inv
<1>1. CASE ReadPid(s)
  BY <1>0, <1>1 DEF ReadPid, Reader, TypeOK, outputVars, handleVars, systemVars
<1>2. CASE ReadLine(s)
  <2>1. Source = metadata /\ metadata \in piped /\ metadata \in 1..starts
    <3>1. ~NoReaders BY <1>2 DEF ReadLine, NoReaders
    <3> QED BY <1>0, <3>1, SourceIsHeld
  <2>2. metadata \in Procs /\ metadata \in 0..starts
    <3>1. starts \in Nat /\ starts <= MaxStarts /\ MaxStarts \in Nat
      BY <1>0, HandleAssumption DEF TypeOK
    <3> QED BY <2>1, <3>1 DEF Procs
  <2> DEFINE p == metadata
  <2>3. /\ pipe[p][s] > 0
        /\ pipe' = [pipe EXCEPT ![p][s] = @ - 1]
        /\ delivered' = [delivered EXCEPT ![p][s] = @ + 1]
        /\ labels' = labels \union {[of |-> p, metadata |-> p, pid |-> tag[s]]}
        /\ UNCHANGED <<written, readerVars, handleVars, systemVars, host, starts, targets>>
    BY <1>2, <2>1 DEF ReadLine, Reader
  <2>4. pipe' \in [Procs -> [Streams -> Nat]] BY <1>0, <2>2, <2>3 DEF TypeOK
  <2>5. delivered' \in [Procs -> [Streams -> Nat]] BY <1>0, <2>2, <2>3 DEF TypeOK
  <2>6. labels' \subseteq [of : 1..starts, metadata : 0..starts, pid : 0..starts]
    BY <1>0, <2>1, <2>2, <2>3 DEF TypeOK
  <2> QED BY <1>0, <2>3, <2>4, <2>5, <2>6 DEF TypeOK, readerVars, handleVars, systemVars
<1>3. CASE EndOfFile(s)
  BY <1>0, <1>3 DEF EndOfFile, Reader, TypeOK, outputVars, handleVars, systemVars
<1> QED BY <1>1, <1>2, <1>3 DEF ReaderStep

LEMMA TypeWorld ==
    ASSUME Inv, \/ Cleanup \/ HostDies \/ \E p \in Procs : ProcStep(p)
    PROVE  TypeOK'
<1> USE HandleAssumption
<1>0. TypeOK BY DEF Inv
<1>1. CASE Scan
  BY <1>0, <1>1, SignalsKeep DEF Scan, SignalGroups, Sweeper, TypeOK, outputVars, readerVars, Steps
<1>2. CASE EndWait
  BY <1>0, <1>2 DEF EndWait, Sweeper, TypeOK, outputVars, readerVars, systemVars, Steps
<1>3. CASE KillSurvivors
  BY <1>0, <1>3, SignalsKeep
  DEF KillSurvivors, SignalGroups, Sweeper, TypeOK, outputVars, readerVars, Steps
<1>4. CASE HostDies
  <2>1. leader' \in [Procs -> Alive \union {"none", "zombie", "reaped"}]
    BY <1>0, <1>4, SignalsKeep DEF HostDies
  <2>2. host' \in 1..MaxHosts /\ host' = host + 1 BY <1>0, <1>4 DEF HostDies, TypeOK
  <2>3. bornIn' \in [Procs -> 0..host'] BY <1>0, <1>4, <2>2 DEF HostDies, TypeOK
  <2> QED BY <1>0, <1>4, <2>1, <2>2, <2>3 DEF HostDies, TypeOK, outputVars, Steps, Calls
<1>5. CASE \E p \in Procs, s \in Streams : Write(p, s)
  <2>1. /\ pipe' \in [Procs -> [Streams -> Nat]] /\ written' \in [Procs -> [Streams -> Nat]]
    BY <1>0, <1>5 DEF Write, TypeOK
  <2> QED BY <1>0, <1>5, <2>1 DEF Write, World, TypeOK, handleVars, readerVars
<1>6. CASE \E p \in Procs : Fork(p) \/ Exit(p) \/ HelperExits(p)
  BY <1>0, <1>6 DEF Fork, Exit, HelperExits, World, TypeOK, handleVars, readerVars, outputVars, Alive
<1> QED BY <1>1, <1>2, <1>3, <1>4, <1>5, <1>6 DEF Cleanup, ProcStep

LEMMA TypeStep == ASSUME Inv, [Next]_vars PROVE TypeOK'
<1>1. CASE UNCHANGED vars
  BY <1>1 DEF Inv, TypeOK, vars, handleVars, readerVars, outputVars, systemVars
<1> QED BY <1>1, TypeOwner, TypeReader, TypeWorld DEF Next

-----------------------------------------------------------------------------
(* Control, and that only the process held has not been told to die.         *)

\* No step but the owner's touches the handle, and none but a start makes a process
\* that has not been asked to end.
LEMMA ControlReader ==
    ASSUME Inv, NEW s \in Streams, ReaderStep(s)
    PROVE  Control' /\ OnlyOwnRuns'
<1>1. UNCHANGED <<handleVars, systemVars, host, starts, targets>>
  BY DEF ReaderStep, ReadPid, ReadLine, EndOfFile, Reader
<1> QED BY <1>1 DEF Inv, Control, OnlyOwnRuns, handleVars, systemVars

LEMMA ControlProc ==
    ASSUME Inv, NEW q \in Procs, ProcStep(q)
    PROVE  Control' /\ OnlyOwnRuns'
<1>1. UNCHANGED <<handleVars, host, starts, targets>>
  BY DEF ProcStep, Write, Fork, Exit, HelperExits, World
<1>2. \A p \in Procs : leader'[p] \in Willing => leader[p] \in Willing
  BY DEF ProcStep, Write, Fork, Exit, HelperExits, Inv, TypeOK, Willing
<1>3. pid \in 0..starts /\ starts <= MaxStarts BY HandleAssumption DEF Inv, TypeOK
<1>4. pid # 0 => pid \in Procs BY <1>3, HandleAssumption DEF Procs, Inv, TypeOK
<1>5. step = "lastWait" => leader'[pid] \notin Willing
  BY <1>2, <1>4 DEF Inv, Control, Ending
<1>6. Control' BY <1>1, <1>2, <1>5 DEF Inv, Control, handleVars
<1>7. OnlyOwnRuns'
  BY <1>1, <1>2 DEF Inv, OnlyOwnRuns, handleVars, Willing
<1> QED BY <1>6, <1>7

LEMMA ControlCleanup ==
    ASSUME Inv, Cleanup \/ HostDies
    PROVE  Control' /\ OnlyOwnRuns'
<1>0. TypeOK /\ Control BY DEF Inv
<1>1. CASE Scan
  <2>1. /\ step' = "sweep" /\ UNCHANGED <<pid, metadata, call, starts>> /\ pid = 0
        /\ targets' = {p \in Procs : leader[p] \in Alive}
        /\ leader' = Signalled(leader, targets', "asked")
    BY <1>0, <1>1 DEF Scan, SignalGroups, Sweeper, Control, Cleaning
  <2>2. \A p \in Procs : leader'[p] \in Willing => p \in targets'
    BY <1>0, <2>1, SignalsKeep DEF Willing, Alive
  <2> QED BY <1>0, <2>1, <2>2 DEF Control, OnlyOwnRuns, Ending, Cleaning, Starting
<1>2. CASE EndWait
  BY <1>0, <1>2 DEF EndWait, Sweeper, systemVars, Control, OnlyOwnRuns, Ending, Cleaning, Starting
<1>3. CASE KillSurvivors
  <2>1. /\ step' = "idle" /\ UNCHANGED <<pid, metadata, call, starts>> /\ pid = 0
        /\ leader' = Signalled(leader, Survivors, "killed")
    BY <1>0, <1>3 DEF KillSurvivors, SignalGroups, Sweeper, Control, Cleaning
  <2>2. \A p \in Procs : leader[p] \in Willing => p \in Survivors
    BY <1>0, <1>3 DEF KillSurvivors, Survivors, Control, Cleaning, Willing, Alive
  <2>3. \A p \in Procs : leader'[p] \notin Willing
    BY <1>0, <2>1, <2>2, SignalsKeep
  <2> QED BY <1>0, <2>1, <2>3 DEF Control, OnlyOwnRuns, Ending, Cleaning, Starting, Willing
<1>4. CASE HostDies
  BY <1>0, <1>4 DEF HostDies, Control, OnlyOwnRuns, Ending, Cleaning, Starting
<1> QED BY <1>1, <1>2, <1>3, <1>4 DEF Cleanup

LEMMA ControlOwner ==
    ASSUME Inv, \/ \E c \in {"start", "startPiped"} : start(c)
                \/ terminate \/ wait \/ OwnerGoesOn
    PROVE  Control' /\ OnlyOwnRuns'
<1> USE HandleAssumption
<1>0. TypeOK /\ Control /\ OnlyOwnRuns BY DEF Inv
<1>1. starts \in Nat /\ starts <= MaxStarts BY <1>0 DEF TypeOK
<1>2. pid # 0 => pid \in Procs BY <1>0, <1>1 DEF TypeOK, Procs
<1>3. CASE \/ \E c \in {"start", "startPiped"} : start(c)
           \/ terminate \/ wait
  <2>1. /\ step = "idle" /\ step' \in {"join", "signal", "wait"} /\ UNCHANGED <<pid, metadata>>
        /\ UNCHANGED <<leader, starts, targets>>
        /\ step' = "join" <=> pid = 0
        /\ call' \in Starting => starts < MaxStarts
    BY <1>3 DEF start, terminate, wait, Enter, EndsFirst, Owner, systemVars, Starting
  <2> QED BY <1>0, <2>1 DEF Control, OnlyOwnRuns, Ending, Cleaning
<1>4. CASE Ask \/ Kill
  <2>1. /\ UNCHANGED <<pid, metadata, call, starts, targets>> /\ pid # 0
        /\ \/ step = "signal" /\ step' = "wait"
           \/ step = "escalate" /\ step' = "lastWait" /\ leader' = Signalled(leader, {pid}, "killed")
        /\ \E signal \in {"asked", "killed"} : leader' = Signalled(leader, {pid}, signal)
    BY <1>0, <1>4 DEF Ask, Kill, SignalGroups, Owner, Control, Ending
  <2>2. \A p \in Procs : leader'[p] \in Willing => leader[p] \in Willing
    BY <1>0, <2>1, SignalsKeep
  <2>3. step' = "lastWait" => leader'[pid] \notin Willing
    BY <1>0, <1>2, <2>1, SignalsKeep
  <2>4. Control' BY <1>0, <2>1, <2>3 DEF Control, Ending, Cleaning
  <2>5. OnlyOwnRuns' BY <1>0, <2>1, <2>2 DEF OnlyOwnRuns, Willing
  <2> QED BY <2>4, <2>5
<1>5. CASE Reap \/ LastTimesOut
  <2>1. /\ step \in {"wait", "lastWait"} /\ pid' = 0 /\ step' = "join"
        /\ UNCHANGED <<metadata, call, starts, targets>> /\ pid # 0
        /\ \/ leader[pid] = "zombie" /\ leader' = [leader EXCEPT ![pid] = "reaped"]
           \/ step = "lastWait" /\ leader' = leader
    BY <1>0, <1>5 DEF Reap, LastTimesOut, JoinsReaders, Owner, systemVars, Control, Ending
  <2>2. \A p \in Procs : leader'[p] \notin Willing
    <3>1. \A p \in Procs : leader[p] \in Willing => p = pid
      BY <1>0, <2>1 DEF OnlyOwnRuns, Willing
    <3>2. leader[pid] \notin Willing BY <1>0, <2>1 DEF Control, Willing
    <3>3. \A p \in Procs : leader'[p] \in Willing => leader[p] \in Willing
      BY <1>0, <2>1 DEF TypeOK, Willing
    <3> QED BY <3>1, <3>2, <3>3
  <2>3. Control' BY <1>0, <2>1 DEF Control, Ending, Cleaning
  <2>4. OnlyOwnRuns' BY <2>2 DEF OnlyOwnRuns, Willing
  <2> QED BY <2>3, <2>4
<1>6. CASE TimesOut \/ Join \/ StartFails
  <2>1. /\ UNCHANGED <<pid, call, leader, targets>>
        /\ \/ /\ step = "wait" /\ step' \in {"idle", "escalate"}
              /\ UNCHANGED <<metadata, starts>>
           \/ /\ step = "join" /\ UNCHANGED <<metadata, starts>>
              /\ step' = IF call \in Starting THEN "spawn" ELSE "idle"
           \/ step = "spawn" /\ step' = "idle"
    BY <1>6 DEF TimesOut, GoesOn, Join, StartFails, Owner, systemVars, Starting
  <2>2. step \in {"join", "spawn"} => pid = 0 BY <1>0 DEF Control
  <2>3. Control' BY <1>0, <2>1, <2>2 DEF Control, Ending, Cleaning
  <2>4. OnlyOwnRuns' BY <1>0, <2>1 DEF OnlyOwnRuns, Cleaning
  <2> QED BY <2>3, <2>4
<1>7. CASE Spawn
  <2>1. /\ step' = "idle" /\ pid' = starts + 1 /\ metadata' = starts + 1
        /\ leader' = [leader EXCEPT ![starts + 1] = "running"] /\ step = "spawn" /\ pid = 0
    BY <1>0, <1>7 DEF Spawn, Control
  <2>2. \A p \in Procs : leader[p] \notin Willing
    <3>1. 0 \notin Procs BY DEF Procs
    <3> QED BY <1>0, <2>1, <3>1 DEF OnlyOwnRuns, Willing
  <2>3. \A p \in Procs : leader'[p] \in Willing => p = starts + 1
    BY <1>0, <2>1, <2>2 DEF TypeOK
  <2>4. Control' BY <2>1 DEF Control, Ending, Cleaning
  <2>5. OnlyOwnRuns' BY <2>1, <2>3 DEF OnlyOwnRuns, Willing
  <2> QED BY <2>4, <2>5
<1> QED BY <1>3, <1>4, <1>5, <1>6, <1>7 DEF OwnerGoesOn

-----------------------------------------------------------------------------
(* The readers, and what they pass on.                                       *)

LEMMA ReadersReader ==
    ASSUME Inv, NEW s \in Streams, ReaderStep(s)
    PROVE  Readers' /\ OutputIsOwn'
<1>0. TypeOK /\ Control /\ Readers /\ OutputIsOwn BY DEF Inv
<1>1. UNCHANGED <<handleVars, piped>>
  BY DEF ReaderStep, ReadPid, ReadLine, EndOfFile, Reader, systemVars
<1>2. reader[s] # "none" /\ ~NoReaders
  BY DEF ReaderStep, ReadPid, ReadLine, EndOfFile, NoReaders
<1>3. Source = metadata /\ metadata \in piped BY <1>0, <1>2, SourceIsHeld
<1>4. ~(step \in Cleaning \union {"spawn"}) /\ ~(step = "idle" /\ pid = 0)
  BY <1>0, <1>2 DEF Readers
<1>5. CASE ReadPid(s)
  <2>1. /\ tag' = [tag EXCEPT ![s] = pid] /\ labels' = labels
        /\ reader' = [reader EXCEPT ![s] = "reading"]
    BY <1>5 DEF ReadPid, outputVars
  <2>2. pid \in {0, metadata} BY <1>0 DEF Control
  <2>3. \A r \in Streams : reader'[r] = "reading" => tag'[r] \in {0, metadata}
    BY <1>0, <2>1, <2>2 DEF TypeOK, Readers
  <2>4. Readers' BY <1>0, <1>1, <1>2, <1>4, <2>3 DEF Readers, handleVars
  <2>5. OutputIsOwn' BY <1>0, <2>1 DEF OutputIsOwn
  <2> QED BY <2>4, <2>5
<1>6. CASE ReadLine(s)
  <2>1. /\ UNCHANGED <<reader, tag>> /\ reader[s] = "reading"
        /\ labels' = labels \union {[of |-> metadata, metadata |-> metadata, pid |-> tag[s]]}
    BY <1>3, <1>6 DEF ReadLine, readerVars
  <2>2. Readers' BY <1>0, <1>1, <2>1 DEF Readers, handleVars, NoReaders
  <2>3. tag[s] \in {0, metadata} BY <1>0, <2>1 DEF Readers
  <2>4. OutputIsOwn' BY <1>0, <2>1, <2>3 DEF OutputIsOwn
  <2> QED BY <2>2, <2>4
<1>7. CASE EndOfFile(s)
  <2>1. /\ UNCHANGED <<tag, labels>> /\ reader' = [reader EXCEPT ![s] = "done"]
    BY <1>7 DEF EndOfFile, outputVars
  <2>2. \A r \in Streams : reader'[r] = "reading" => reader[r] = "reading"
    BY <1>0, <2>1 DEF TypeOK
  <2>3. Readers' BY <1>0, <1>1, <1>2, <1>4, <2>1, <2>2 DEF Readers, handleVars
  <2>4. OutputIsOwn' BY <1>0, <2>1 DEF OutputIsOwn
  <2> QED BY <2>3, <2>4
<1> QED BY <1>5, <1>6, <1>7 DEF ReaderStep

LEMMA ReadersOwner ==
    ASSUME Inv, \/ \E c \in {"start", "startPiped"} : start(c)
                \/ terminate \/ wait \/ OwnerGoesOn
    PROVE  Readers' /\ OutputIsOwn'
<1>0. TypeOK /\ Control /\ Readers /\ OutputIsOwn BY DEF Inv
<1>1. labels' = labels /\ tag' = tag
  BY DEF start, terminate, wait, Enter, OwnerGoesOn, Ask, Reap, TimesOut, Kill, LastTimesOut, Join,
     StartFails, Spawn, Owner, outputVars, readerVars
<1>2. OutputIsOwn' BY <1>0, <1>1 DEF OutputIsOwn
<1>3. CASE \/ \E c \in {"start", "startPiped"} : start(c)
           \/ terminate \/ wait \/ Ask \/ Reap \/ TimesOut \/ Kill \/ LastTimesOut
  <2>1. UNCHANGED <<metadata, piped, reader>>
    BY <1>3 DEF start, terminate, wait, Enter, EndsFirst, Ask, Kill, SignalGroups, Reap, TimesOut,
       LastTimesOut, readerVars, systemVars
  <2>2. ~(step' \in Cleaning \union {"spawn"}) /\ ~(step' = "idle" /\ pid' = 0)
    BY <1>0, <1>3 DEF start, terminate, wait, Enter, Ask, Kill, Reap, JoinsReaders, TimesOut,
       GoesOn, LastTimesOut, Cleaning, Control, Ending
  <2>3. Readers' BY <1>0, <1>1, <2>1, <2>2 DEF Readers, NoReaders
  <2> QED BY <1>2, <2>3
<1>4. CASE Join
  <2>1. reader' = [r \in Streams |-> "none"] BY <1>4 DEF Join
  <2>2. NoReaders' BY <2>1 DEF NoReaders
  <2>3. \A r \in Streams : reader'[r] # "reading" BY <2>1
  <2> QED BY <1>2, <2>2, <2>3 DEF Readers
<1>5. CASE StartFails \/ (Spawn /\ reader' = reader)
  <2>1. NoReaders BY <1>0, <1>5 DEF StartFails, Spawn, Readers
  <2>2. reader' = reader BY <1>5 DEF StartFails, readerVars
  <2>3. NoReaders' /\ \A r \in Streams : reader'[r] # "reading"
    BY <2>1, <2>2 DEF NoReaders
  <2> QED BY <1>2, <2>3 DEF Readers
<1>6. CASE Spawn /\ reader' = [r \in Streams |-> "new"] /\ call = "startPiped"
  <2>1. /\ metadata' = starts + 1 /\ piped' = piped \union {starts + 1} /\ pid' = starts + 1
        /\ step' = "idle" /\ starts \in Nat /\ piped \subseteq 1..starts
    BY <1>0, <1>6 DEF Spawn, TypeOK
  <2>2. \A q \in piped' : q <= metadata' BY <2>1
  <2>3. \A r \in Streams : reader'[r] # "reading" BY <1>6
  <2>4. Readers' BY <2>1, <2>2, <2>3 DEF Readers, Cleaning
  <2> QED BY <1>2, <2>4
<1>7. CASE Spawn
  <2>1. CASE call = "startPiped" BY <1>6, <1>7, <2>1 DEF Spawn
  <2>2. CASE call # "startPiped"
    <3>1. reader' = reader BY <1>7, <2>2 DEF Spawn
    <3> QED BY <1>5, <1>7, <3>1
  <2> QED BY <2>1, <2>2
<1> QED BY <1>3, <1>4, <1>5, <1>7 DEF OwnerGoesOn

LEMMA ReadersWorld ==
    ASSUME Inv, Cleanup \/ HostDies \/ \E p \in Procs : ProcStep(p)
    PROVE  Readers' /\ OutputIsOwn'
<1>0. TypeOK /\ Control /\ Readers /\ OutputIsOwn BY DEF Inv
<1>1. labels' = labels
  BY DEF Cleanup, Scan, EndWait, KillSurvivors, Sweeper, HostDies, ProcStep, Write, Fork, Exit,
     HelperExits, outputVars
<1>2. OutputIsOwn' BY <1>0, <1>1 DEF OutputIsOwn
<1>3. CASE Cleanup
  <2>1. UNCHANGED <<reader, tag>> /\ step \in Cleaning
    BY <1>3 DEF Cleanup, Scan, EndWait, KillSurvivors, Sweeper, readerVars, Cleaning
  <2>2. NoReaders' /\ \A s \in Streams : reader'[s] # "reading"
    BY <1>0, <2>1 DEF Readers, NoReaders
  <2> QED BY <1>2, <2>2 DEF Readers
<1>4. CASE HostDies
  <2>1. NoReaders' /\ \A s \in Streams : reader'[s] # "reading"
    BY <1>4 DEF HostDies, NoReaders
  <2> QED BY <1>2, <2>1 DEF Readers
<1>5. CASE \E p \in Procs : ProcStep(p)
  <2>1. UNCHANGED <<handleVars, readerVars, piped>>
    BY <1>5 DEF ProcStep, Write, Fork, Exit, HelperExits, World
  <2> QED BY <1>0, <1>2, <2>1 DEF Readers, NoReaders, handleVars, readerVars
<1> QED BY <1>3, <1>4, <1>5

-----------------------------------------------------------------------------
(* Every line is read, waits in a pipe that is being read, or was delivered.  *)

\* A step that neither reads, writes nor starts, and opens no pipe that was closed.
LEMMA OutputStays ==
    ASSUME Output, UNCHANGED <<outputVars, piped, bornIn, host, metadata, reader>>,
           \A p \in piped : Closed(p) => Closed(p)'
    PROVE  Output'
BY DEF Output, outputVars

\* Signals and reaping leave closed what was closed.
LEMMA ClosedKeeps ==
    ASSUME Inv, NEW S, NEW signal \in {"asked", "killed"},
           leader' = Signalled(leader, S, signal), helper' = Signalled(helper, S, signal)
    PROVE  \A p \in Procs : Closed(p) => Closed(p)'
<1>1. TypeOK BY DEF Inv
<1> QED BY <1>1, SignalsKeep DEF Closed

LEMMA PipedAreProcs == ASSUME Inv PROVE piped \subseteq Procs
BY HandleAssumption DEF Inv, TypeOK, Procs

LEMMA OutputReader == ASSUME Inv, NEW s \in Streams, ReaderStep(s) PROVE Output'
<1>0. TypeOK /\ Readers /\ Output BY DEF Inv
<1>1. UNCHANGED <<metadata, piped, bornIn, host, leader, helper>>
  BY DEF ReaderStep, ReadPid, ReadLine, EndOfFile, Reader, handleVars, systemVars
<1>2. \A p \in piped : Closed(p)' <=> Closed(p) BY <1>1 DEF Closed
<1>3. ~NoReaders BY DEF ReaderStep, ReadPid, ReadLine, EndOfFile, NoReaders
<1>4. Source = metadata /\ metadata \in piped BY <1>0, <1>3, SourceIsHeld
<1>5. piped \subseteq Procs BY PipedAreProcs
<1>6. CASE ReadPid(s)
  <2>1. UNCHANGED outputVars /\ reader' = [reader EXCEPT ![s] = "reading"]
    BY <1>6 DEF ReadPid
  <2>2. \A r \in Streams : reader[r] \in {"new", "reading"} => reader'[r] \in {"new", "reading"}
    BY <1>0, <2>1 DEF TypeOK
  <2> QED BY <1>0, <1>1, <1>2, <2>1, <2>2 DEF Output, outputVars
<1>7. CASE ReadLine(s)
  <2> DEFINE m == metadata
  <2>1. /\ pipe' = [pipe EXCEPT ![m][s] = @ - 1] /\ pipe[m][s] > 0
        /\ delivered' = [delivered EXCEPT ![m][s] = @ + 1]
        /\ UNCHANGED <<written, reader>> /\ reader[s] = "reading"
    BY <1>4, <1>7 DEF ReadLine, readerVars
  <2>2. ASSUME NEW p \in Procs, NEW r \in Streams, ~(p = m /\ r = s)
        PROVE  pipe'[p][r] = pipe[p][r] /\ delivered'[p][r] = delivered[p][r]
    BY <1>0, <2>1, <2>2 DEF TypeOK
  <2>3. delivered'[m][s] + pipe'[m][s] = delivered[m][s] + pipe[m][s]
    <3>1. /\ pipe'[m][s] = pipe[m][s] - 1 /\ delivered'[m][s] = delivered[m][s] + 1
          /\ pipe[m][s] \in Nat /\ delivered[m][s] \in Nat
      BY <1>0, <1>4, <1>5, <2>1 DEF TypeOK
    <3> QED BY <3>1
  <2>4. \A p \in Procs \ piped', r \in Streams :
          written'[p][r] = 0 /\ pipe'[p][r] = 0 /\ delivered'[p][r] = 0
    BY <1>0, <1>1, <1>4, <2>1, <2>2 DEF Output
  <2>5. ASSUME NEW p \in piped', NEW r \in Streams, (bornIn[p] = host)'
        PROVE  /\ (delivered[p][r] + pipe[p][r] = written[p][r])'
               /\ \/ reader'[r] \in {"new", "reading"} /\ p = metadata'
                  \/ Closed(p)' /\ pipe'[p][r] = 0
    <3>1. p \in piped /\ p \in Procs /\ bornIn[p] = host BY <1>1, <1>5, <2>5
    <3>2. CASE p = m /\ r = s
      BY <1>0, <1>1, <2>1, <2>3, <3>1, <3>2 DEF Output
    <3>3. CASE ~(p = m /\ r = s)
      <4>1. pipe'[p][r] = pipe[p][r] /\ delivered'[p][r] = delivered[p][r]
        BY <2>2, <3>1, <3>3
      <4> QED BY <1>0, <1>1, <1>2, <2>1, <3>1, <4>1 DEF Output
    <3> QED BY <3>2, <3>3
  <2> QED BY <2>4, <2>5 DEF Output
<1>8. CASE EndOfFile(s)
  <2>1. /\ UNCHANGED outputVars /\ reader' = [reader EXCEPT ![s] = "done"]
        /\ Closed(metadata) /\ pipe[metadata][s] = 0
    BY <1>4, <1>8 DEF EndOfFile, AtEnd
  <2>2. \A r \in Streams : r # s => reader'[r] = reader[r] BY <1>0, <2>1 DEF TypeOK
  <2>3. ASSUME NEW p \in piped, NEW r \in Streams, bornIn[p] = host
        PROVE  \/ reader'[r] \in {"new", "reading"} /\ p = metadata
               \/ Closed(p) /\ pipe[p][r] = 0
    BY <1>0, <2>1, <2>2, <2>3 DEF Output
  <2> QED BY <1>0, <1>1, <1>2, <2>1, <2>3 DEF Output, outputVars
<1> QED BY <1>6, <1>7, <1>8 DEF ReaderStep

LEMMA OutputOwner ==
    ASSUME Inv, \/ \E c \in {"start", "startPiped"} : start(c)
                \/ terminate \/ wait \/ OwnerGoesOn
    PROVE  Output'
<1>0. TypeOK /\ Control /\ Readers /\ Output BY DEF Inv
<1>1. UNCHANGED <<outputVars, host>>
  BY DEF start, terminate, wait, Enter, OwnerGoesOn, Ask, Reap, TimesOut, Kill, LastTimesOut, Join,
     StartFails, Spawn, Owner
<1>2. piped \subseteq Procs BY PipedAreProcs
<1>3. CASE \/ \E c \in {"start", "startPiped"} : start(c)
           \/ terminate \/ wait \/ TimesOut \/ LastTimesOut
  <2>1. UNCHANGED <<metadata, piped, reader, bornIn, leader, helper>>
    BY <1>3 DEF start, terminate, wait, Enter, EndsFirst, TimesOut, LastTimesOut, readerVars,
       systemVars
  <2> QED BY <1>0, <1>1, <2>1, OutputStays DEF Closed
<1>4. CASE Ask \/ Kill
  <2>1. /\ UNCHANGED <<metadata, piped, reader, bornIn>>
        /\ \E signal \in {"asked", "killed"} : /\ leader' = Signalled(leader, {pid}, signal)
                                              /\ helper' = Signalled(helper, {pid}, signal)
    BY <1>4 DEF Ask, Kill, SignalGroups, readerVars
  <2> QED BY <1>0, <1>1, <1>2, <2>1, ClosedKeeps, OutputStays
<1>5. CASE Reap
  <2>1. /\ UNCHANGED <<metadata, piped, reader, bornIn, helper>>
        /\ leader' = [leader EXCEPT ![pid] = "reaped"]
    BY <1>5 DEF Reap, readerVars
  <2>2. \A p \in piped : Closed(p) => Closed(p)' BY <1>0, <1>2, <2>1 DEF TypeOK, Closed, Alive
  <2> QED BY <1>0, <1>1, <2>1, <2>2, OutputStays
<1>6. CASE Join
  <2>1. /\ UNCHANGED <<metadata, piped, bornIn, leader, helper>>
        /\ \A r \in Streams : reader[r] \notin {"new", "reading"}
    BY <1>6 DEF Join, systemVars
  <2> QED BY <1>0, <1>1, <2>1 DEF Output, outputVars, Closed
<1>7. CASE StartFails
  <2>1. UNCHANGED <<piped, bornIn, leader, helper>> /\ NoReaders
    BY <1>0, <1>7 DEF StartFails, systemVars, Readers
  <2> QED BY <1>0, <1>1, <2>1 DEF Output, outputVars, Closed, NoReaders
<1>8. CASE Spawn
  <2> DEFINE n == starts + 1
  <2>1. /\ NoReaders /\ n \in Procs /\ n \notin piped
    BY <1>0, <1>8, HandleAssumption DEF Spawn, Readers, Control, TypeOK, Procs
  <2>2. /\ metadata' = n /\ UNCHANGED helper
        /\ leader' = [leader EXCEPT ![n] = "running"] /\ bornIn' = [bornIn EXCEPT ![n] = host]
        /\ \/ piped' = piped
           \/ piped' = piped \union {n} /\ reader' = [r \in Streams |-> "new"]
    BY <1>8 DEF Spawn
  <2>3. \A p \in piped : bornIn'[p] = bornIn[p] /\ (Closed(p)' <=> Closed(p))
    BY <1>0, <1>2, <2>1, <2>2 DEF TypeOK, Closed
  <2>4. \A p \in piped, r \in Streams : bornIn[p] = host =>
          delivered[p][r] + pipe[p][r] = written[p][r] /\ Closed(p) /\ pipe[p][r] = 0
    BY <1>0, <2>1 DEF Output, NoReaders
  <2>5. \A p \in Procs \ piped', r \in Streams :
          written'[p][r] = 0 /\ pipe'[p][r] = 0 /\ delivered'[p][r] = 0
    BY <1>0, <1>1, <2>2 DEF Output, outputVars
  <2>6. ASSUME NEW p \in piped', NEW r \in Streams, (bornIn[p] = host)'
        PROVE  /\ (delivered[p][r] + pipe[p][r] = written[p][r])'
               /\ \/ reader'[r] \in {"new", "reading"} /\ p = metadata'
                  \/ Closed(p)' /\ pipe'[p][r] = 0
    <3>1. CASE p \in piped BY <1>1, <2>3, <2>4, <2>6, <3>1 DEF outputVars
    <3>2. CASE p \notin piped
      <4>1. p = n /\ reader'[r] = "new" BY <2>2, <2>6, <3>2
      <4>2. written[p][r] = 0 /\ pipe[p][r] = 0 /\ delivered[p][r] = 0
        BY <1>0, <2>1, <4>1 DEF Output
      <4> QED BY <1>1, <2>2, <4>1, <4>2 DEF outputVars
    <3> QED BY <3>1, <3>2
  <2> QED BY <2>5, <2>6 DEF Output
<1> QED BY <1>3, <1>4, <1>5, <1>6, <1>7, <1>8 DEF OwnerGoesOn

LEMMA OutputWorld ==
    ASSUME Inv, Cleanup \/ HostDies \/ \E p \in Procs : ProcStep(p)
    PROVE  Output'
<1>0. TypeOK /\ Output BY DEF Inv
<1>1. piped \subseteq Procs BY PipedAreProcs
<1>2. CASE Scan \/ KillSurvivors
  <2>1. UNCHANGED <<outputVars, piped, bornIn, host, metadata, reader>>
    BY <1>2 DEF Scan, KillSurvivors, SignalGroups, Sweeper, readerVars
  <2>2. \A p \in Procs : Closed(p) => Closed(p)'
    <3>1. CASE Scan BY <3>1, ClosedKeeps DEF Scan, SignalGroups
    <3>2. CASE KillSurvivors BY <3>2, ClosedKeeps DEF KillSurvivors, SignalGroups
    <3> QED BY <1>2, <3>1, <3>2
  <2> QED BY <1>0, <1>1, <2>1, <2>2, OutputStays
<1>3. CASE EndWait
  BY <1>0, <1>3, OutputStays DEF EndWait, Sweeper, systemVars, readerVars, Closed
<1>4. CASE HostDies
  <2>1. UNCHANGED <<outputVars, piped, bornIn>> /\ host' = host + 1 BY <1>4 DEF HostDies
  <2>2. \A p \in piped : bornIn'[p] # host'
    <3>1. bornIn \in [Procs -> 0..host] /\ host \in Nat
      BY <1>0, HandleAssumption DEF TypeOK
    <3> QED BY <1>1, <2>1, <3>1
  <2> QED BY <1>0, <2>1, <2>2 DEF Output, outputVars
<1>5. CASE \E p \in Procs, s \in Streams : Write(p, s)
  <2>1. PICK p \in Procs, s \in Streams : Write(p, s) BY <1>5
  <2>2. /\ p \in piped /\ bornIn[p] = host /\ ~Closed(p)
        /\ pipe' = [pipe EXCEPT ![p][s] = @ + 1] /\ written' = [written EXCEPT ![p][s] = @ + 1]
        /\ UNCHANGED <<delivered, leader, helper, metadata, reader, piped, bornIn, host>>
    BY <2>1 DEF Write, World, Closed, handleVars, readerVars
  <2>3. ASSUME NEW q \in Procs, NEW r \in Streams, ~(q = p /\ r = s)
        PROVE  pipe'[q][r] = pipe[q][r] /\ written'[q][r] = written[q][r]
    BY <1>0, <2>2, <2>3 DEF TypeOK
  <2>4. pipe'[p][s] = pipe[p][s] + 1 /\ written'[p][s] = written[p][s] + 1
    BY <1>0, <2>2 DEF TypeOK
  <2>5. delivered[p][s] + pipe'[p][s] = written'[p][s]
    <3>1. /\ delivered[p][s] + pipe[p][s] = written[p][s]
          /\ delivered[p][s] \in Nat /\ pipe[p][s] \in Nat
      BY <1>0, <2>2 DEF TypeOK, Output
    <3> QED BY <2>4, <3>1
  <2>6. \A q \in Procs \ piped', r \in Streams :
          written'[q][r] = 0 /\ pipe'[q][r] = 0 /\ delivered'[q][r] = 0
    BY <1>0, <2>2, <2>3 DEF Output
  <2>7. ASSUME NEW q \in piped', NEW r \in Streams, (bornIn[q] = host)'
        PROVE  /\ (delivered[q][r] + pipe[q][r] = written[q][r])'
               /\ \/ reader'[r] \in {"new", "reading"} /\ q = metadata'
                  \/ Closed(q)' /\ pipe'[q][r] = 0
    <3>1. q \in piped /\ q \in Procs /\ bornIn[q] = host BY <1>1, <2>2, <2>7
    <3>2. CASE q = p /\ r = s BY <1>0, <2>2, <2>5, <3>1, <3>2 DEF Output
    <3>3. CASE ~(q = p /\ r = s)
      <4>1. pipe'[q][r] = pipe[q][r] /\ written'[q][r] = written[q][r] BY <2>3, <3>1, <3>3
      <4>2. Closed(q)' <=> Closed(q) BY <2>2 DEF Closed
      <4> QED BY <1>0, <2>2, <3>1, <4>1, <4>2 DEF Output
    <3> QED BY <3>2, <3>3
  <2> QED BY <2>6, <2>7 DEF Output
<1>6. CASE \E p \in Procs : Fork(p) \/ Exit(p) \/ HelperExits(p)
  <2>1. UNCHANGED <<outputVars, piped, bornIn, host, metadata, reader>>
    BY <1>6 DEF Fork, Exit, HelperExits, World, handleVars, readerVars
  <2>2. \A p \in Procs : Closed(p) => Closed(p)'
    BY <1>0, <1>6 DEF Fork, Exit, HelperExits, Closed, Alive, TypeOK
  <2> QED BY <1>0, <1>1, <2>1, <2>2, OutputStays
<1> QED BY <1>2, <1>3, <1>4, <1>5, <1>6 DEF Cleanup, ProcStep

-----------------------------------------------------------------------------
LEMMA InitInv == Init => Inv
<1> SUFFICES ASSUME Init PROVE Inv OBVIOUS
<1>1. TypeOK BY TypeInit
<1>2. Control /\ OnlyOwnRuns
  BY DEF Init, Control, OnlyOwnRuns, Ending, Cleaning, Starting
<1>3. Readers BY DEF Init, Readers, NoReaders
<1>4. Output /\ OutputIsOwn BY DEF Init, Output, OutputIsOwn
<1> QED BY <1>1, <1>2, <1>3, <1>4 DEF Inv

LEMMA StepInv == Inv /\ [Next]_vars => Inv'
<1> SUFFICES ASSUME Inv, [Next]_vars PROVE Inv' OBVIOUS
<1>1. TypeOK' BY TypeStep
<1>2. CASE UNCHANGED vars
  <2>1. UNCHANGED <<pid, metadata, step, call, reader, tag, leader, helper, piped, bornIn,
                    pipe, written, delivered, labels, host, starts, targets>>
    BY <1>2 DEF vars, handleVars, readerVars, outputVars, systemVars
  <2>2. Control' /\ OnlyOwnRuns' /\ Readers' /\ OutputIsOwn'
    BY <2>1 DEF Inv, Control, OnlyOwnRuns, Readers, NoReaders, OutputIsOwn
  <2>3. Output' BY <2>1 DEF Inv, Output, Closed
  <2> QED BY <1>1, <2>2, <2>3 DEF Inv
<1>3. CASE \/ \E c \in {"start", "startPiped"} : start(c)
           \/ terminate \/ wait \/ OwnerGoesOn
  BY <1>1, <1>3, ControlOwner, ReadersOwner, OutputOwner DEF Inv
<1>4. CASE \E s \in Streams : ReaderStep(s)
  BY <1>1, <1>4, ControlReader, ReadersReader, OutputReader DEF Inv
<1>5. CASE Cleanup \/ HostDies
  BY <1>1, <1>5, ControlCleanup, ReadersWorld, OutputWorld DEF Inv
<1>6. CASE \E p \in Procs : ProcStep(p)
  BY <1>1, <1>6, ControlProc, ReadersWorld, OutputWorld DEF Inv
<1> QED BY <1>2, <1>3, <1>4, <1>5, <1>6 DEF Next

LEMMA Invariant == Spec => []Inv
BY InitInv, StepInv, PTL DEF Spec

\* The ranges of the handle's variables, its readers' and the processes'.
THEOREM TypeCorrect == Spec => []TypeOK
<1>1. Inv => TypeOK BY DEF Inv
<1> QED BY Invariant, <1>1, PTL

\* Whatever start() replaces while readers look at it without a lock, a line is
\* labelled with the process that wrote it (process_handle.cpp:167, 409-466).
THEOREM OutputIsOwnAlways == Spec => []OutputIsOwn
<1>1. Inv => OutputIsOwn BY DEF Inv
<1> QED BY Invariant, <1>1, PTL

\* A handle lets go of a process only when that has ended or been killed, and no
\* node of an earlier host is left unasked when the window opens (327-357, 483-567).
THEOREM OnlyOwnRunsAlways == Spec => []OnlyOwnRuns
<1>1. Inv => OnlyOwnRuns BY DEF Inv
<1> QED BY Invariant, <1>1, PTL

\* Once a call that ended the process has returned, its output has been passed on
\* to the last line and no reader is left (359-407).
THEOREM NothingLostAlways == Spec => []NothingLost
<1>1. Inv => NothingLost
  <2> SUFFICES ASSUME Inv, step = "idle", pid = 0
               PROVE  /\ \A s \in Streams : reader[s] = "none"
                      /\ \A p \in piped : bornIn[p] = host => delivered[p] = written[p]
    BY DEF NothingLost
  <2>1. TypeOK /\ Readers /\ Output /\ NoReaders BY DEF Inv, Readers
  <2>2. ASSUME NEW p \in piped, bornIn[p] = host
        PROVE  delivered[p] = written[p]
    <3>1. p \in Procs BY PipedAreProcs
    <3>2. delivered[p] \in [Streams -> Nat] /\ written[p] \in [Streams -> Nat]
      BY <2>1, <3>1 DEF TypeOK
    <3>3. \A s \in Streams : delivered[p][s] = written[p][s]
      <4>1. TAKE s \in Streams
      <4>2. delivered[p][s] + pipe[p][s] = written[p][s] /\ pipe[p][s] = 0
        BY <2>1, <2>2 DEF Output, NoReaders
      <4>3. delivered[p][s] \in Nat BY <3>2
      <4> QED BY <4>2, <4>3
    <3> QED BY <3>2, <3>3
  <2> QED BY <2>1, <2>2 DEF NoReaders
<1> QED BY Invariant, <1>1, PTL
=============================================================================
