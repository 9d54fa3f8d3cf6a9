--------------------------- MODULE ProcessHandle ---------------------------
(***************************************************************************)
(* ProcessHandle (process_handle.cpp): one child process at a time, which  *)
(* leads a process group of its own, and a reader thread for each of its   *)
(* output pipes.  The thread that owns the handle starts, waits and        *)
(* terminates; the readers pass lines on with the metadata and the pid of  *)
(* their process; the operating system does the rest.                      *)
(*                                                                         *)
(* The host may die at any moment.  What it leaves behind is looked for    *)
(* when the next one starts (recordlab_host_app.cpp).                      *)
(*                                                                         *)
(* Processes are numbered in the order of their start and stand for their  *)
(* pids.  A helper is a process that a child forks: it stays in the group  *)
(* and keeps the pipes open.  Times are abstract: any wait may time out,   *)
(* also one whose child has ended since it was looked at.  Left out: how   *)
(* arguments and environment are built, and output that goes to a file.    *)
(***************************************************************************)
EXTENDS Naturals

CONSTANTS Streams,     \* stdout and stderr
          MaxStarts,   \* bound: processes started
          MaxLines,    \* bound: lines a process and its helper write to a stream
          MaxHosts     \* bound: runs of the host

ASSUME HandleAssumption ==
    MaxStarts \in Nat /\ MaxLines \in Nat /\ MaxHosts \in Nat \ {0}

VARIABLES
    pid,         \* pid_; 0 stands for -1
    metadata,    \* metadata_ and output_callback_: the process they were given for
    step,        \* where the owner is in a call
    call,        \* which call that is
    piped,       \* processes whose output has a callback
    reader,      \* the reader threads
    tag,         \* output_pid of each reader
    leader,      \* the processes started
    helper,      \* and theirs
    pipe,        \* lines written and not read
    written,     \* history: lines written
    delivered,   \* history: lines passed to the callback, by process and stream
    labels,      \* history: what they were labelled with
    bornIn,      \* the run of the host that started each process
    host,        \* the present run
    starts,      \* number of processes started
    targets      \* what the cleanup at the start of the host has found

handleVars == <<pid, metadata, step, call>>
readerVars == <<reader, tag>>
outputVars == <<pipe, written, delivered, labels>>
systemVars == <<leader, helper, piped, bornIn>>
vars == <<handleVars, readerVars, outputVars, systemVars, host, starts, targets>>

Procs == 1..MaxStarts
Alive == {"running", "asked", "killed"}
Steps == {"idle", "signal", "wait", "escalate", "lastWait", "join", "spawn",
          "scan", "sweep", "killSurvivors"}
Calls == {"none", "start", "startPiped", "wait", "terminate"}

Init ==
    /\ pid = 0 /\ metadata = 0 /\ step = "scan" /\ call = "none"
    /\ piped = {} /\ reader = [s \in Streams |-> "none"] /\ tag = [s \in Streams |-> 0]
    /\ leader = [p \in Procs |-> "none"] /\ helper = [p \in Procs |-> "none"]
    /\ pipe = [p \in Procs |-> [s \in Streams |-> 0]]
    /\ written = pipe /\ delivered = pipe /\ labels = {}
    /\ bornIn = [p \in Procs |-> 0]
    /\ host = 1 /\ starts = 0 /\ targets = {}

\* SIGTERM asks a process to end; SIGKILL leaves it no choice.
Signalled(states, S, signal) ==
    [p \in Procs |->
        IF p \in S /\ states[p] \in Alive /\ (signal = "killed" \/ states[p] = "running")
        THEN signal ELSE states[p]]

\* kill(-pid), kill(pid): the whole group.
SignalGroups(S, signal) ==
    /\ leader' = Signalled(leader, S, signal)
    /\ helper' = Signalled(helper, S, signal)
    /\ UNCHANGED <<piped, bornIn>>

-----------------------------------------------------------------------------
(* The owner: start, wait and terminate.                                    *)

Owner == UNCHANGED <<outputVars, host, targets>>

\* Mutant: start() takes its arguments over before it ends the process before.
TakesOver(c) == metadata' = IF c = "startPiped" THEN starts + 1 ELSE metadata

\* terminate(), the destructor, and start(), which begins like them.
EndsFirst(c) == UNCHANGED metadata

Enter(c) ==
    /\ step = "idle"
    /\ call' = c
    /\ step' = IF pid = 0 THEN "join" ELSE "signal"
    /\ EndsFirst(c)
    /\ UNCHANGED <<pid, readerVars, systemVars, starts>> /\ Owner

start(c) == starts < MaxStarts /\ c \in {"start", "startPiped"} /\ Enter(c)

terminate == Enter("terminate")

wait ==
    /\ step = "idle" /\ pid # 0
    /\ call' = "wait" /\ step' = "wait"
    /\ UNCHANGED <<pid, metadata, readerVars, systemVars, starts>> /\ Owner

Ask ==
    /\ step = "signal"
    /\ SignalGroups({pid}, "asked")
    /\ step' = "wait"
    /\ UNCHANGED <<pid, metadata, call, readerVars, starts>> /\ Owner

\* Mutant: the call returns when the process has been reaped.
ReturnsAtOnce == step' = "idle"

\* Reaping leads to joining the readers, inside wait().
JoinsReaders == step' = "join"

Reap ==
    /\ step \in {"wait", "lastWait"} /\ leader[pid] = "zombie"
    /\ leader' = [leader EXCEPT ![pid] = "reaped"]
    /\ pid' = 0
    /\ JoinsReaders
    /\ UNCHANGED <<metadata, call, readerVars, helper, piped, bornIn, starts>> /\ Owner

\* Mutants: a process that does not obey is given up; or waited for again.
GivesUp    == step' = "join" /\ pid' = 0
WaitsAgain == UNCHANGED <<step, pid>>

\* terminate() goes on to SIGKILL, wait() returns with its process unchanged.
GoesOn == /\ step' = IF call = "wait" THEN "idle" ELSE "escalate"
          /\ pid' = pid

TimesOut ==
    /\ step = "wait"
    /\ GoesOn
    /\ UNCHANGED <<metadata, call, readerVars, systemVars, starts>> /\ Owner

Kill ==
    /\ step = "escalate"
    /\ SignalGroups({pid}, "killed")
    /\ step' = "lastWait"
    /\ UNCHANGED <<pid, metadata, call, readerVars, starts>> /\ Owner

\* Killed, and not yet gone after a second: it is never reaped.
LastTimesOut ==
    /\ step = "lastWait"
    /\ pid' = 0 /\ step' = "join"
    /\ UNCHANGED <<metadata, call, readerVars, systemVars, starts>> /\ Owner

\* stopOutputReaders
Join ==
    /\ step = "join" /\ \A s \in Streams : reader[s] \in {"none", "done"}
    /\ reader' = [s \in Streams |-> "none"]
    /\ step' = IF call \in {"start", "startPiped"} THEN "spawn" ELSE "idle"
    /\ UNCHANGED <<pid, metadata, call, tag, systemVars, starts>> /\ Owner

\* The executable is missing, or one of the calls up to execve fails: start()
\* throws, having reaped what it forked.
StartFails ==
    /\ step = "spawn"
    /\ starts' = starts + 1 /\ metadata' = starts'
    /\ step' = "idle"
    /\ UNCHANGED <<pid, call, readerVars, systemVars>> /\ Owner

Spawn ==
    /\ step = "spawn"
    /\ starts' = starts + 1 /\ metadata' = starts' /\ pid' = starts'
    /\ leader' = [leader EXCEPT ![starts'] = "running"]
    /\ bornIn' = [bornIn EXCEPT ![starts'] = host]
    /\ IF call = "startPiped"
       THEN piped' = piped \union {starts'} /\ reader' = [s \in Streams |-> "new"]
       ELSE UNCHANGED <<piped, reader>>
    /\ step' = "idle"
    /\ UNCHANGED <<call, tag, helper>> /\ Owner

-----------------------------------------------------------------------------
(* A reader thread, of the process in metadata: readOutputLoop.             *)

Reader == UNCHANGED <<handleVars, systemVars, host, starts, targets>>

\* output_pid = pid_, whatever the owner has made of that by now.
ReadPid(s) ==
    /\ reader[s] = "new"
    /\ reader' = [reader EXCEPT ![s] = "reading"] /\ tag' = [tag EXCEPT ![s] = pid]
    /\ UNCHANGED outputVars /\ Reader

\* The process that has the other end of a reader's pipe.
Source == CHOOSE p \in piped : \A q \in piped : q <= p

ReadLine(s) ==
    /\ reader[s] = "reading" /\ pipe[Source][s] > 0
    /\ pipe' = [pipe EXCEPT ![Source][s] = @ - 1]
    /\ delivered' = [delivered EXCEPT ![Source][s] = @ + 1]
    /\ labels' = labels \union {[of |-> Source, metadata |-> metadata, pid |-> tag[s]]}
    /\ UNCHANGED <<written, readerVars>> /\ Reader

\* Nobody has the pipe open for writing.
Closed(p) == leader[p] \notin Alive /\ helper[p] \notin Alive

AtEnd(s) == Closed(Source) /\ pipe[Source][s] = 0

EndOfFile(s) ==
    /\ reader[s] = "reading" /\ AtEnd(s)
    /\ reader' = [reader EXCEPT ![s] = "done"]
    /\ UNCHANGED <<outputVars, tag>> /\ Reader

-----------------------------------------------------------------------------
(* The processes.                                                           *)

World == UNCHANGED <<handleVars, readerVars, piped, bornIn, host, starts, targets>>

\* Writing to a pipe whose reader has gone with its host has no effect here.
Write(p, s) ==
    /\ p \in piped /\ bornIn[p] = host /\ written[p][s] < MaxLines
    /\ leader[p] \in Alive \ {"killed"} \/ helper[p] \in Alive \ {"killed"}
    /\ pipe' = [pipe EXCEPT ![p][s] = @ + 1]
    /\ written' = [written EXCEPT ![p][s] = @ + 1]
    /\ UNCHANGED <<delivered, labels, leader, helper>> /\ World

Fork(p) ==
    /\ leader[p] \in {"running", "asked"} /\ helper[p] = "none"
    /\ helper' = [helper EXCEPT ![p] = "running"]
    /\ UNCHANGED <<outputVars, leader>> /\ World

\* A process whose parent has died is reaped by init.
Exit(p) ==
    /\ leader[p] \in Alive
    /\ leader' = [leader EXCEPT ![p] = IF bornIn[p] = host THEN "zombie" ELSE "reaped"]
    /\ UNCHANGED <<outputVars, helper>> /\ World

HelperExits(p) ==
    /\ helper[p] \in Alive
    /\ helper' = [helper EXCEPT ![p] = "reaped"]
    /\ UNCHANGED <<outputVars, leader>> /\ World

-----------------------------------------------------------------------------
(* The host dies; the next one looks for what it left behind.               *)

\* PR_SET_PDEATHSIG has the kernel ask the processes it started to end.
HostDies ==
    /\ host < MaxHosts /\ host' = host + 1
    /\ leader' = [p \in Procs |-> IF leader[p] = "zombie" THEN "reaped"
                                  ELSE Signalled(leader, Procs, "asked")[p]]
    /\ pid' = 0 /\ metadata' = 0 /\ step' = "scan" /\ call' = "none" /\ targets' = {}
    /\ reader' = [s \in Streams |-> "none"] /\ tag' = [s \in Streams |-> 0]
    /\ UNCHANGED <<outputVars, helper, piped, bornIn, starts>>

Sweeper == UNCHANGED <<pid, metadata, call, readerVars, outputVars, host, starts>>

\* killByCmdlinePattern: helpers do not bear the name that is looked for.
Scan ==
    /\ step = "scan"
    /\ targets' = {p \in Procs : leader[p] \in Alive}
    /\ SignalGroups(targets', "asked")
    /\ step' = "sweep"
    /\ Sweeper

\* Until none of them is left, or three seconds have passed.
EndWait ==
    /\ step = "sweep"
    /\ step' = "killSurvivors"
    /\ UNCHANGED <<systemVars, targets>> /\ Sweeper

Survivors == {p \in targets : leader[p] \in Alive}

KillSurvivors ==
    /\ step = "killSurvivors"
    /\ SignalGroups(Survivors, "killed")
    /\ targets' = {} /\ step' = "idle"
    /\ Sweeper

-----------------------------------------------------------------------------
Cleanup    == Scan \/ EndWait \/ KillSurvivors
OwnerGoesOn == Ask \/ Reap \/ TimesOut \/ Kill \/ LastTimesOut \/ Join \/ StartFails \/ Spawn
ReaderStep(s) == ReadPid(s) \/ ReadLine(s) \/ EndOfFile(s)
ProcStep(p)   == \/ \E s \in Streams : Write(p, s)
                 \/ Fork(p) \/ Exit(p) \/ HelperExits(p)

Next ==
    \/ \E c \in {"start", "startPiped"} : start(c)
    \/ terminate \/ wait \/ OwnerGoesOn \/ Cleanup \/ HostDies
    \/ \E s \in Streams : ReaderStep(s)
    \/ \E p \in Procs : ProcStep(p)

Spec == Init /\ [][Next]_vars

\* Threads are scheduled, timeouts pass, and SIGKILL ends a process.  Nothing else
\* is assumed of processes.
FairSpec ==
    /\ Spec
    /\ WF_vars(OwnerGoesOn) /\ WF_vars(Cleanup)
    /\ \A s \in Streams : WF_vars(ReaderStep(s))
    /\ \A p \in Procs : /\ WF_vars(leader[p] = "killed" /\ Exit(p))
                        /\ WF_vars(helper[p] = "killed" /\ HelperExits(p))

-----------------------------------------------------------------------------
(* Properties.                                                              *)

\* Every variable keeps its range; a handle with a process has one that it started.
TypeOK ==
    /\ pid \in 0..starts /\ metadata \in 0..starts
    /\ step \in Steps /\ call \in Calls
    /\ piped \subseteq 1..starts
    /\ reader \in [Streams -> {"none", "new", "reading", "done"}]
    /\ tag \in [Streams -> 0..starts]
    /\ leader \in [Procs -> Alive \union {"none", "zombie", "reaped"}]
    /\ helper \in [Procs -> Alive \union {"none", "reaped"}]
    /\ pipe \in [Procs -> [Streams -> Nat]]
    /\ written \in [Procs -> [Streams -> Nat]] /\ delivered \in [Procs -> [Streams -> Nat]]
    /\ labels \subseteq [of : 1..starts, metadata : 0..starts, pid : 0..starts]
    /\ bornIn \in [Procs -> 0..host]
    /\ host \in 1..MaxHosts /\ starts \in 0..MaxStarts
    /\ targets \subseteq Procs

\* A line is passed on with the metadata and the callback of the process that
\* wrote it, and never under the pid of another, although the readers look at
\* both without a lock while start() replaces them (process_handle.cpp:167, 409).
OutputIsOwn ==
    \A l \in labels : l.metadata = l.of /\ l.pid \in {0, l.of}

\* When a call that ended the process has returned, everything that it and its
\* helpers wrote has been passed on, and no thread is left (test_process_handle.cpp:66-90).
NothingLost ==
    step = "idle" /\ pid = 0 =>
        /\ \A s \in Streams : reader[s] = "none"
        /\ \A p \in piped : bornIn[p] = host => delivered[p] = written[p]

\* A process that nobody has killed is the one the handle holds: whichever waits
\* time out, a handle forgets a process only when that has ended or been sent
\* SIGKILL; and when the host opens its window, so has every node of an earlier
\* run, whatever that died of (process_handle.cpp:327-357, PLAN.md:195).
OnlyOwnRuns ==
    step \notin {"scan", "sweep", "killSurvivors"} =>
        \A p \in Procs : leader[p] \in {"running", "asked"} => p = pid

\* A helper of a process that has been reaped keeps a pipe open.
HeldOpen == step = "join" /\ \E p \in piped : helper[p] \in {"running", "asked"}

\* Every call returns, unless a helper that outlived its process holds a pipe for
\* ever: the readers are joined before SIGKILL is considered, although docs say of
\* terminate that its call ends all children within seconds (PLAN.md:195, 566).
CallsReturn == []<>(step = "idle") \/ <>[]HeldOpen
=============================================================================
