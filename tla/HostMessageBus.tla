--------------------------- MODULE HostMessageBus ---------------------------
(***************************************************************************)
(* The message bus between the threads of the host                         *)
(* (host_message_bus.cpp): one queue per target, subscriptions that copy   *)
(* messages to further targets, latest-only coalescing by key, and one     *)
(* mutex and condition variable for all of them.  A publisher releases the *)
(* mutex before it notifies; a consumer that waits is woken by any         *)
(* publication, whatever its target, and looks at its queue again.         *)
(*                                                                         *)
(* A message is reduced to what the bus looks at: its kind (the type and   *)
(* source that the patterns are matched with), its target and its key.  It *)
(* carries the number of its publication, for the properties only.  A      *)
(* target nobody registered is a target whose queue is empty.              *)
(***************************************************************************)
EXTENDS Integers, Sequences, FiniteSets

CONSTANTS Targets,           \* consumers, each a thread with a queue
          Publishers,        \* threads that publish
          Kinds,             \* types and sources of messages
          Patterns,          \* subscription patterns: the kinds each accepts
          Keys, NoKey,       \* coalesce_key, and the empty one
          MaxDrain,          \* drainFor's max_count
          MaxPublished,      \* bound: publications of one run
          MaxSubscriptions   \* bound: calls of subscribe

ASSUME BusAssumption ==
    /\ NoKey \notin Keys
    /\ Patterns \subseteq SUBSET Kinds
    /\ MaxDrain \in Nat \ {0}
    /\ MaxPublished \in Nat /\ MaxSubscriptions \in Nat \ {0}

VARIABLES queues,         \* queues_
          subscriptions,  \* subscriptions_
          publisher,      \* publisher threads: idle, or about to notify_all
          consumer,       \* consumers: idle, waiting in wait_for, or woken
          published       \* number of publications

vars == <<queues, subscriptions, publisher, consumer, published>>

Init == /\ queues = [t \in Targets |-> << >>]
        /\ subscriptions = << >>
        /\ publisher = [p \in Publishers |-> "idle"]
        /\ consumer = [t \in Targets |-> "idle"]
        /\ published = 0

-----------------------------------------------------------------------------
subscribe(t, pattern) ==
    /\ Len(subscriptions) < MaxSubscriptions
    /\ subscriptions' = Append(subscriptions, [target |-> t, pattern |-> pattern])
    /\ UNCHANGED <<queues, publisher, consumer, published>>

\* Mutant: the coalesced message stays in its place.
pushInPlace(queue, m) ==
    IF m.key # NoKey /\ \E i \in DOMAIN queue : queue[i].key = m.key
    THEN [i \in DOMAIN queue |-> IF queue[i].key = m.key THEN m ELSE queue[i]]
    ELSE Append(queue, m)

\* What remains of a queue when the messages of one key are erased.
Without(queue, key) ==
    LET Kept[i \in 0..Len(queue)] ==
          IF i = 0 THEN << >>
          ELSE IF queue[i].key = key THEN Kept[i - 1]
          ELSE Append(Kept[i - 1], queue[i])
    IN Kept[Len(queue)]

\* A keyed message erases the queued ones of its key and goes to the end.
pushMessage(queue, m) ==
    Append(IF m.key = NoKey THEN queue ELSE Without(queue, m.key), m)

\* The copies that a target gets of one publication are pushed one by one.
pushCopies(queue, n, key, copies) ==
    LET Pushed[i \in 0..copies] ==
          IF i = 0 THEN queue
          ELSE pushMessage(Pushed[i - 1], [n |-> n, copy |-> i, key |-> key])
    IN Pushed[copies]

Matching(t, kind) == {i \in DOMAIN subscriptions :
                         /\ subscriptions[i].target = t
                         /\ kind \in subscriptions[i].pattern}

\* How many copies of a message a target gets: the message itself, or one for
\* each matching subscription.
Copies(t, target, kind) ==
    IF t = target THEN 1 ELSE Cardinality(Matching(t, kind))

publish(p, target, kind, key) ==
    /\ publisher[p] = "idle" /\ published < MaxPublished
    /\ published' = published + 1
    /\ queues' = [t \in Targets |->
                    pushCopies(queues[t], published + 1, key, Copies(t, target, kind))]
    /\ publisher' = [publisher EXCEPT ![p] = "notify"]
    /\ UNCHANGED <<subscriptions, consumer>>

\* Mutant: notify_one, which may wake a consumer of another target.
WakesOne(before, after) ==
    \/ after = before /\ \A t \in Targets : before[t] # "waiting"
    \/ \E t \in Targets : /\ before[t] = "waiting"
                          /\ after = [before EXCEPT ![t] = "woken"]

WakesAll(before, after) ==
    after = [t \in Targets |->
                IF before[t] = "waiting" THEN "woken" ELSE before[t]]

notifyAll(p) ==
    /\ publisher[p] = "notify"
    /\ publisher' = [publisher EXCEPT ![p] = "idle"]
    /\ WakesAll(consumer, consumer')
    /\ UNCHANGED <<queues, subscriptions, published>>

-----------------------------------------------------------------------------
\* The consumer takes the first message of its queue and returns.
Take(t) ==
    /\ queues[t] # << >>
    /\ queues' = [queues EXCEPT ![t] = Tail(@)]
    /\ consumer' = [consumer EXCEPT ![t] = "idle"]
    /\ UNCHANGED <<subscriptions, publisher, published>>

\* waitFor tests the queue under the mutex before it waits, and again whenever
\* it has been woken.
Block(t) ==
    /\ queues[t] = << >>
    /\ consumer' = [consumer EXCEPT ![t] = "waiting"]
    /\ UNCHANGED <<queues, subscriptions, publisher, published>>

waitFor(t) == consumer[t] = "idle" /\ (Take(t) \/ Block(t))

Resume(t) == consumer[t] = "woken" /\ (Take(t) \/ Block(t))

\* At the deadline the queue is tested a last time.
Timeout(t) ==
    /\ consumer[t] # "idle"
    /\ \/ Take(t)
       \/ /\ queues[t] = << >>
          /\ consumer' = [consumer EXCEPT ![t] = "idle"]
          /\ UNCHANGED <<queues, subscriptions, publisher, published>>

drainFor(t) ==
    /\ consumer[t] = "idle" /\ queues[t] # << >>
    /\ LET count == IF Len(queues[t]) < MaxDrain THEN Len(queues[t]) ELSE MaxDrain
       IN queues' = [queues EXCEPT ![t] = SubSeq(@, count + 1, Len(@))]
    /\ UNCHANGED <<subscriptions, publisher, consumer, published>>

Next == \/ \E t \in Targets, pattern \in Patterns : subscribe(t, pattern)
        \/ \E p \in Publishers, t \in Targets, kind \in Kinds,
              key \in Keys \union {NoKey} : publish(p, t, kind, key)
        \/ \E p \in Publishers : notifyAll(p)
        \/ \E t \in Targets : waitFor(t) \/ Resume(t) \/ Timeout(t) \/ drainFor(t)

\* Threads that have the processor run on; no wait needs its time-out to end.
Fairness == /\ \A p \in Publishers : WF_vars(notifyAll(p))
            /\ \A t \in Targets : WF_vars(Resume(t))

Spec == Init /\ [][Next]_vars
FairSpec == Spec /\ Fairness

-----------------------------------------------------------------------------
TypeOK ==
    /\ \A t \in Targets : \A i \in DOMAIN queues[t] :
          queues[t][i] \in [n : 1..published,
                            copy : 1..MaxSubscriptions,
                            key : Keys \union {NoKey}]
    /\ publisher \in [Publishers -> {"idle", "notify"}]
    /\ consumer \in [Targets -> {"idle", "waiting", "woken"}]
    /\ published \in 0..MaxPublished

\* A message never lies in the queue of a consumer that sleeps, unless a
\* publisher is about to notify: unlocking before notify_all loses no wake-up.
NoLostWakeUp ==
    \A t \in Targets : consumer[t] = "waiting" /\ queues[t] # << >> =>
        \E p \in Publishers : publisher[p] = "notify"

\* A consumer that sleeps while it has a message is up again without its
\* time-out, also when every publication was meant for someone else.
WaiterServed ==
    \A t \in Targets :
        consumer[t] = "waiting" /\ queues[t] # << >> ~> consumer[t] = "idle"

\* The bus keeps the promise of Mailbox: nothing is lost but superseded samples,
\* nothing is read twice or out of the order of publication, per target.
Promise == INSTANCE Mailbox WITH
    MaxCopies <- MaxSubscriptions,
    unread <- [t \in Targets |-> {queues[t][i] : i \in DOMAIN queues[t]}]

KeepsPromise == Promise!Spec

=============================================================================
