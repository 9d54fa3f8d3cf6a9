------------------------- MODULE DataRegistryProofs -------------------------
(***************************************************************************)
(* Proofs about DataRegistry and the DataReceiver in it, for any streams,  *)
(* settings and requests: types; that the receiver forgets removed topics  *)
(* and keeps the state of those that have a subscriber; and that it has of *)
(* each stream what the last event published of it says, whichever thread  *)
(* published it.                                                           *)
(***************************************************************************)
EXTENDS DataRegistry, SequenceTheorems, TLAPS

\* A topic has state exactly while it has streams, and these are its own.
StateInv == \A t \in Topics :
    /\ topicStates[t] = NoSettings <=> keysOf[t] = {}
    /\ \A k \in keysOf[t] : topicOf[k] = t

\* Who may still deliver a sample is a stream of its topic, and so is the one
\* that is being subscribed; the cache and the names follow the streams, the
\* names once the call that changes them has got so far.
HeldInv ==
    /\ step # "clearing" =>
          /\ \A k \in Keys : thread[k] # "none" => k \in keysOf[topicOf[k]]
          /\ \A t \in snapshots : keysOf[t] # {}
    /\ step \in {"replacing", "subscribing"} => stream.key \in keysOf[topicOf[stream.key]]
    /\ step \in {"clearing", "closed"} => \A t \in Topics : keysOf[t] = {}
    /\ step # "replacing" => names = {t \in Topics : keysOf[t] # {}}

IInv == ReceiverTypeOK /\ StateInv /\ HeldInv

LEMMA InitIInv == ReceiverInit => IInv
  BY ReceiverAssumption DEF ReceiverInit, IInv, ReceiverTypeOK, StateInv, HeldInv, Registrations

\* Each action of the receiver keeps the invariant.
LEMMA Registers == ASSUME IInv, NEW r \in Registrations, registerDataStream(r) PROVE IInv'
  <1> USE ReceiverAssumption DEF IInv, registerDataStream, Registrations
  <1>1. ReceiverTypeOK' BY DEF ReceiverTypeOK, queueVars
  <1>2. StateInv' BY DEF StateInv, ReceiverTypeOK
  <1>3. HeldInv' BY DEF HeldInv, ReceiverTypeOK, queueVars
  <1>4. QED BY <1>1, <1>2, <1>3

LEMMA Erases == ASSUME IInv, EraseSubscriber PROVE IInv'
  <1> USE ReceiverAssumption DEF IInv, EraseSubscriber, topicVars
  <1>1. ReceiverTypeOK' BY DEF ReceiverTypeOK, refreshSubscribedNames, Registrations
  <1>2. StateInv' BY DEF StateInv
  <1>3. HeldInv' BY DEF HeldInv, ReceiverTypeOK, refreshSubscribedNames
  <1>4. QED BY <1>1, <1>2, <1>3

LEMMA Subscribes == ASSUME IInv, Subscribe PROVE IInv'
  <1> USE ReceiverAssumption DEF IInv, Subscribe, queueVars
  <1>1. ReceiverTypeOK' BY DEF ReceiverTypeOK, Registrations
  <1>2. StateInv' BY DEF StateInv
  <1>3. HeldInv' BY DEF HeldInv, ReceiverTypeOK, Registrations
  <1>4. QED BY <1>1, <1>2, <1>3

LEMMA Unregisters == ASSUME IInv, NEW r \in Registrations, unregisterDataStream(r) PROVE IInv'
  <1> USE DEF IInv, unregisterDataStream, topicVars, queueVars
  <1>1. ReceiverTypeOK' BY DEF ReceiverTypeOK
  <1>2. StateInv' BY DEF StateInv
  <1>3. HeldInv' BY DEF HeldInv
  <1>4. QED BY <1>1, <1>2, <1>3

LEMMA Removes == ASSUME IInv, RemoveSubscriber PROVE IInv'
  <1> DEFINE k == stream.key
             t == topicOf[k]
  <1> USE ReceiverAssumption DEF IInv, RemoveSubscriber, IsLast, Forget
  <1>1. k \in Keys /\ t \in Topics BY DEF ReceiverTypeOK, Registrations
  <1>2. ReceiverTypeOK' BY <1>1 DEF ReceiverTypeOK, refreshSubscribedNames
  <1>3. StateInv'
    <2> SUFFICES ASSUME NEW s \in Topics
                 PROVE  /\ topicStates'[s] = NoSettings <=> keysOf'[s] = {}
                        /\ \A j \in keysOf'[s] : topicOf[j] = s
      BY DEF StateInv
    <2>1. CASE s = t BY <1>1, <2>1 DEF StateInv, ReceiverTypeOK
    <2>2. CASE s # t BY <1>1, <2>2 DEF StateInv, ReceiverTypeOK
    <2>3. QED BY <2>1, <2>2
  <1>4. \A j \in Keys : thread'[j] # "none" => j \in keysOf'[topicOf[j]]
    BY <1>1 DEF HeldInv, ReceiverTypeOK
  <1>5. \A s \in snapshots' : keysOf'[s] # {}
    BY <1>1 DEF HeldInv, ReceiverTypeOK
  <1>6. names' = {s \in Topics : keysOf'[s] # {}} BY DEF refreshSubscribedNames
  <1>7. HeldInv' BY <1>4, <1>5, <1>6 DEF HeldInv
  <1>8. QED BY <1>2, <1>3, <1>7

LEMMA Unsubscribes == ASSUME IInv, unsubscribeAll PROVE IInv'
  <1> USE DEF IInv, unsubscribeAll
  <1>1. ReceiverTypeOK' BY DEF ReceiverTypeOK
  <1>2. StateInv' BY DEF StateInv
  <1>3. HeldInv' BY DEF HeldInv
  <1>4. QED BY <1>1, <1>2, <1>3

LEMMA Destroys == ASSUME IInv, DestroySubscribers PROVE IInv'
  <1> USE DEF IInv, DestroySubscribers, topicVars
  <1>1. ReceiverTypeOK' BY DEF ReceiverTypeOK
  <1>2. StateInv' BY DEF StateInv
  <1>3. HeldInv' BY DEF HeldInv
  <1>4. QED BY <1>1, <1>2, <1>3

\* The thread of a subscriber moves, and delivers for a stream of its topic.
LEMMA Samples == ASSUME IInv, Data PROVE IInv'
  <1> USE ReceiverAssumption DEF IInv, topicVars, queueVars, callVars
  <1>1. PICK k \in Keys : Receive(k) \/ Parse(k) \/ Deliver(k) BY DEF Data
  <1>2. topicOf[k] \in Topics OBVIOUS
  <1>3. CASE Receive(k)
    <2>1. ReceiverTypeOK' BY <1>3 DEF Receive, ReceiverTypeOK
    <2>2. StateInv' BY <1>3 DEF Receive, StateInv
    <2>3. HeldInv' BY <1>3 DEF Receive, HeldInv, ReceiverTypeOK
    <2>4. QED BY <2>1, <2>2, <2>3
  <1>4. CASE Parse(k)
    <2>1. ReceiverTypeOK' BY <1>2, <1>4 DEF Parse, ReceiverTypeOK
    <2>2. StateInv' BY <1>4 DEF Parse, StateInv
    <2>3. HeldInv' BY <1>4 DEF Parse, HeldInv, ReceiverTypeOK
    <2>4. QED BY <2>1, <2>2, <2>3
  <1>5. CASE Deliver(k)
    <2>1. ReceiverTypeOK' BY <1>2, <1>5 DEF Deliver, ReceiverTypeOK
    <2>2. StateInv' BY <1>5 DEF Deliver, StateInv
    <2>3. HeldInv' BY <1>5 DEF Deliver, HeldInv, ReceiverTypeOK
    <2>4. QED BY <2>1, <2>2, <2>3
  <1>6. QED BY <1>1, <1>3, <1>4, <1>5

LEMMA Idles == ASSUME IInv, UNCHANGED receiverVars PROVE IInv'
  BY DEF receiverVars, topicVars, queueVars, callVars, IInv, ReceiverTypeOK, StateInv, HeldInv

LEMMA Finishes == ASSUME IInv, FinishCall PROVE IInv'
  BY Erases, Subscribes, Removes, Destroys DEF FinishCall

\* The registry's part: what is published and handled are registrations.
RegistryTypeOK ==
    /\ streams \in [Keys -> Settings \union {NoSettings}]
    /\ published \in [Keys -> Settings \union {NoSettings}]
    /\ serverEvent \in Seq(Notices) /\ Len(serverEvent) <= 1
    /\ uiEvent \in Seq(Notices) /\ Len(uiEvent) <= 1
    /\ uiQueue \in Seq(Notices) /\ batch \in Seq(Notices)
    /\ statics \in Seq(Registrations)
    /\ requests \in 0..MaxRequests /\ activations \in 0..MaxActivations

\* Removing an element of a sequence.
LEMMA RemovedAt ==
    ASSUME NEW S, NEW q \in Seq(S), NEW i \in DOMAIN q
    PROVE  /\ RemoveAt(q, i) \in Seq(S)
           /\ DOMAIN RemoveAt(q, i) = 1..(Len(q) - 1)
           /\ \A j \in 1..(Len(q) - 1) : RemoveAt(q, i)[j] = IF j < i THEN q[j] ELSE q[j + 1]
  <1> DEFINE a == SubSeq(q, 1, i - 1)
             b == SubSeq(q, i + 1, Len(q))
  <1>1. i \in 1..Len(q) /\ Len(q) \in Nat OBVIOUS
  <1>2. a \in Seq(S) /\ Len(a) = i - 1 /\ \A j \in 1..(i - 1) : a[j] = q[j]
    BY <1>1
  <1>3. b \in Seq(S) /\ Len(b) = Len(q) - i /\ \A j \in 1..(Len(q) - i) : b[j] = q[i + j]
    BY <1>1
  <1> HIDE DEF a, b
  <1>4. a \o b \in Seq(S) /\ Len(a \o b) = Len(q) - 1
        /\ \A j \in 1..(Len(q) - 1) :
              (a \o b)[j] = IF j <= i - 1 THEN a[j] ELSE b[j - (i - 1)]
    <2>1. /\ a \o b \in Seq(S) /\ Len(a \o b) = Len(a) + Len(b)
          /\ \A j \in 1..(Len(a) + Len(b)) :
                (a \o b)[j] = IF j <= Len(a) THEN a[j] ELSE b[j - Len(a)]
      BY <1>2, <1>3, ConcatProperties
    <2>2. Len(a) + Len(b) = Len(q) - 1 BY <1>1, <1>2, <1>3
    <2>3. QED BY <1>2, <2>1, <2>2
  <1>5. \A j \in 1..(Len(q) - 1) : (a \o b)[j] = IF j < i THEN q[j] ELSE q[j + 1]
    <2> SUFFICES ASSUME NEW j \in 1..(Len(q) - 1)
                 PROVE  (a \o b)[j] = IF j < i THEN q[j] ELSE q[j + 1]
      OBVIOUS
    <2>1. CASE j < i BY <1>1, <1>2, <1>4, <2>1
    <2>2. CASE ~(j < i)
      <3>1. j - (i - 1) \in 1..(Len(q) - i) /\ i + (j - (i - 1)) = j + 1 BY <1>1, <2>2
      <3>2. (a \o b)[j] = b[j - (i - 1)] BY <1>1, <1>4, <2>2
      <3>3. QED BY <1>3, <2>2, <3>1, <3>2
    <2>3. QED BY <2>1, <2>2
  <1>6. RemoveAt(q, i) = a \o b BY DEF RemoveAt, a, b
  <1>7. DOMAIN (a \o b) = 1..(Len(q) - 1) BY <1>4
  <1>8. QED BY <1>4, <1>5, <1>6, <1>7

\* Publishing keeps the queue a sequence of events.
LEMMA Publishes ==
    ASSUME RegistryTypeOK, NEW m \in Notices, publishRegistryEvent(m)
    PROVE  uiQueue' \in Seq(Notices) /\ published' \in [Keys -> Settings \union {NoSettings}]
  <1> DEFINE Replaced == {i \in DOMAIN uiQueue : SameStream(m, uiQueue[i])}
             Others(i) == RemoveAt(uiQueue, i)
  <1>1. uiQueue \in Seq(Notices) BY DEF RegistryTypeOK
  <1>2. \A i \in DOMAIN uiQueue : Others(i) \in Seq(Notices) BY <1>1, RemovedAt
  <1>0. published' \in [Keys -> Settings \union {NoSettings}]
    <2>1. m.key \in Keys /\ Told(m) \in Settings \union {NoSettings} BY DEF Told, Notices
    <2>2. published' = [published EXCEPT ![m.key] = Told(m)] BY DEF publishRegistryEvent
    <2>3. QED BY <2>1, <2>2 DEF RegistryTypeOK
  <1>3. CASE Replaced = {}
    <2>1. uiQueue' = Append(uiQueue, m) BY <1>3 DEF publishRegistryEvent
    <2>2. QED BY <1>0, <1>1, <2>1, AppendProperties
  <1>4. CASE Replaced # {}
    <2>1. PICK i \in Replaced : uiQueue' = Append(Others(i), m)
      BY <1>4 DEF publishRegistryEvent
    <2>2. QED BY <1>0, <1>2, <2>1, AppendProperties
  <1>5. QED BY <1>3, <1>4

\* An event is published at most once and is one of the bus.
LEMMA OneNotice == ASSUME NEW m \in Notices PROVE <<m>> \in Seq(Notices) /\ Len(<<m>>) = 1
  OBVIOUS

LEMMA EventsType ==
    ASSUME NEW r \in Registrations
    PROVE  Events(r) \in Seq(Notices) /\ Len(Events(r)) <= 1
  <1>1. Notice("registered", r) \in Notices BY DEF Notice, Notices, Registrations
  <1>2. CASE streams[r.key] = r.settings BY <1>2 DEF Events
  <1>3. CASE streams[r.key] # r.settings BY <1>1, <1>3, OneNotice DEF Events
  <1>4. QED BY <1>2, <1>3

LEMMA ChangeType ==
    ASSUME RegistryTypeOK, NEW r \in Registrations, Change(r)
    PROVE  streams' \in [Keys -> Settings \union {NoSettings}]
  BY DEF Change, RegistryTypeOK, Registrations

\* The requests of the nodes.
LEMMA Requests ==
    ASSUME RegistryTypeOK, Request
    PROVE  /\ requests' \in 0..MaxRequests
           /\ UNCHANGED <<receiverVars, uiEvent, uiQueue, batch, published, statics, activations>>
  BY RegistryAssumption DEF Request, RegistryTypeOK

LEMMA RequestMoves ==
    ASSUME RegistryTypeOK,
           \/ \E r \in Registrations : RegisterData(r)
           \/ \E k \in Keys : UnregisterData(k)
    PROVE  RegistryTypeOK' /\ UNCHANGED receiverVars
  <1> SUFFICES /\ Request
               /\ streams' \in [Keys -> Settings \union {NoSettings}]
               /\ serverEvent' \in Seq(Notices) /\ Len(serverEvent') <= 1
    BY Requests DEF RegistryTypeOK
  <1>1. CASE \E r \in Registrations : RegisterData(r)
    <2>1. PICK r \in Registrations : RegisterData(r) BY <1>1
    <2>2. QED BY <2>1, EventsType, ChangeType DEF RegisterData
  <1>2. CASE \E k \in Keys : UnregisterData(k)
    <2>1. PICK k \in Keys : UnregisterData(k) BY <1>2
    <2>2. CASE streams[k] = NoSettings
      BY <2>1, <2>2 DEF UnregisterData, RegistryTypeOK
    <2>3. CASE streams[k] # NoSettings
      <3> DEFINE m == Notice("unregistered", [key |-> k, settings |-> streams[k]])
      <3>1. m \in Notices BY <2>3 DEF Notice, Notices, RegistryTypeOK
      <3>2. serverEvent' = <<m>> BY <2>1, <2>3 DEF UnregisterData
      <3>3. serverEvent' \in Seq(Notices) /\ Len(serverEvent') <= 1
        <4> HIDE DEF m
        <4>1. <<m>> \in Seq(Notices) /\ Len(<<m>>) = 1 BY <3>1, OneNotice
        <4>2. QED BY <3>2, <4>1
      <3>4. Request /\ streams' \in [Keys -> Settings \union {NoSettings}]
        BY <2>1, <2>3 DEF UnregisterData, RegistryTypeOK
      <3>5. QED BY <3>3, <3>4
    <2>4. QED BY <2>2, <2>3
  <1>3. QED BY <1>1, <1>2

\* The publications and the static topics.
LEMMA PublicationMoves ==
    ASSUME RegistryTypeOK, ServerPublishes \/ UiPublishes \/ registerStatic
    PROVE  RegistryTypeOK' /\ UNCHANGED receiverVars
  <1>1. <<>> \in Seq(Notices) /\ Len(<<>>) = 0 OBVIOUS
  <1>2. CASE ServerPublishes
    <2>1. Head(serverEvent) \in Notices
      BY <1>2, HeadTailProperties DEF ServerPublishes, RegistryTypeOK
    <2>2. publishRegistryEvent(Head(serverEvent)) BY <1>2 DEF ServerPublishes
    <2>3. uiQueue' \in Seq(Notices) /\ published' \in [Keys -> Settings \union {NoSettings}]
      BY <2>1, <2>2, Publishes
    <2>4. QED BY <1>1, <1>2, <2>3 DEF ServerPublishes, RegistryTypeOK
  <1>3. CASE UiPublishes
    <2>1. Head(uiEvent) \in Notices
      BY <1>3, HeadTailProperties DEF UiPublishes, RegistryTypeOK
    <2>2. publishRegistryEvent(Head(uiEvent)) BY <1>3 DEF UiPublishes
    <2>3. uiQueue' \in Seq(Notices) /\ published' \in [Keys -> Settings \union {NoSettings}]
      BY <2>1, <2>2, Publishes
    <2>4. QED BY <1>1, <1>3, <2>3 DEF UiPublishes, RegistryTypeOK
  <1>4. CASE registerStatic
    <2>1. Head(statics) \in Registrations /\ Tail(statics) \in Seq(Registrations)
      BY <1>4, HeadTailProperties DEF registerStatic, RegistryTypeOK
    <2>2. Change(Head(statics)) /\ uiEvent' = Events(Head(statics))
      BY <1>4 DEF registerStatic
    <2>3. streams' \in [Keys -> Settings \union {NoSettings}] BY <2>1, <2>2, ChangeType
    <2>4. uiEvent' \in Seq(Notices) /\ Len(uiEvent') <= 1 BY <2>1, <2>2, EventsType
    <2>5. QED BY <1>4, <2>1, <2>3, <2>4 DEF registerStatic, RegistryTypeOK
  <1>5. QED BY <1>2, <1>3, <1>4

\* The server's thread and the publications leave the receiver alone.
LEMMA RegistryMoves ==
    ASSUME IInv, RegistryTypeOK, Server \/ registerStatic \/ UiPublishes
    PROVE  (IInv /\ RegistryTypeOK)'
  <1>1. ASSUME NEW k \in NodeStreams, NEW s \in Settings,
               RegisterData([key |-> k, settings |-> s])
        PROVE  \E r \in Registrations : RegisterData(r)
    BY <1>1, RegistryAssumption DEF Registrations
  <1>2. ASSUME NEW k \in NodeStreams, UnregisterData(k)
        PROVE  \E j \in Keys : UnregisterData(j)
    BY <1>2, RegistryAssumption
  <1>3. RegistryTypeOK' /\ UNCHANGED receiverVars
    BY <1>1, <1>2, RequestMoves, PublicationMoves DEF Server
  <1>4. QED BY <1>3, Idles

\* What is drained from the queue is a registration.
LEMMA Handles ==
    ASSUME RegistryTypeOK, NEW type, Handle(type)
    PROVE  RegistryTypeOK' /\ Registration(Head(batch)) \in Registrations
  <1>1. Head(batch) \in Notices /\ Tail(batch) \in Seq(Notices)
    BY HeadTailProperties DEF Handle, RegistryTypeOK
  <1>2. Registration(Head(batch)) \in Registrations
    BY <1>1 DEF Registration, Registrations, Notices
  <1>3. RegistryTypeOK' BY <1>1 DEF Handle, RegistryTypeOK
  <1>4. QED BY <1>2, <1>3

\* The steps of the UI thread that drain, handle and call the receiver.
LEMMA UiMoves ==
    ASSUME IInv, RegistryTypeOK, Ui, ~registerStatic, ~UiPublishes
    PROVE  (IInv /\ RegistryTypeOK)'
  <1>1. CASE pollBusMessages
    BY <1>1, Idles DEF pollBusMessages, RegistryTypeOK
  <1>2. CASE HandleAgentActivated
    BY <1>2, Idles, RegistryAssumption DEF HandleAgentActivated, RegistryTypeOK
  <1>3. CASE shutdown
    BY <1>3, Unsubscribes DEF shutdown, registryVars, RegistryTypeOK
  <1>4. CASE HandleDataRegistered
    BY <1>4, Handles, Registers DEF HandleDataRegistered
  <1>5. CASE HandleDataUnregistered
    BY <1>5, Handles, Unregisters DEF HandleDataUnregistered
  <1>6. QED BY <1>1, <1>2, <1>3, <1>4, <1>5 DEF Ui

\* The inductive invariant of the composition.
THEOREM Invariance == Spec => [](IInv /\ RegistryTypeOK)
  <1>1. Init => IInv /\ RegistryTypeOK
    BY InitIInv, RegistryAssumption DEF Init, RegistryTypeOK
  <1>2. IInv /\ RegistryTypeOK /\ [Next]_vars => (IInv /\ RegistryTypeOK)'
    <2> SUFFICES ASSUME IInv, RegistryTypeOK, [Next]_vars PROVE (IInv /\ RegistryTypeOK)'
      OBVIOUS
    <2>1. CASE Server \/ registerStatic \/ UiPublishes BY <2>1, RegistryMoves
    <2>2. CASE Ui /\ ~registerStatic /\ ~UiPublishes BY <2>2, UiMoves
    <2>3. CASE Receiver
      BY <2>3, Finishes, Samples DEF Receiver, registryVars, RegistryTypeOK
    <2>4. CASE UNCHANGED vars
      BY <2>4, Idles DEF vars, registryVars, RegistryTypeOK
    <2>5. QED BY <2>1, <2>2, <2>3, <2>4 DEF Next
  <1>3. QED BY <1>1, <1>2, PTL DEF Spec

\* Every variable keeps its range.
THEOREM TypeCorrect == Spec => []TypeOK
  <1>1. IInv /\ RegistryTypeOK => TypeOK BY DEF IInv, TypeOK, RegistryTypeOK
  <1>2. QED BY <1>1, Invariance, PTL

\* The cache holds no latest value of a topic that no stream has, and the names are
\* those of the topics with a stream, whatever the threads of destroyed subscribers
\* were doing.
THEOREM Forgets == Spec => []ForgetsRemoved
  <1>1. IInv => ForgetsRemoved BY DEF IInv, HeldInv, ReceiverTypeOK, ForgetsRemoved
  <1>2. QED BY <1>1, Invariance, PTL

\* A subscriber never delivers to a topic whose state is gone.
THEOREM Serves == Spec => []ServedWhileSubscribed
  <1>1. IInv => ServedWhileSubscribed
    BY ReceiverAssumption DEF IInv, HeldInv, StateInv, ServedWhileSubscribed
  <1>2. QED BY <1>1, Invariance, PTL

-----------------------------------------------------------------------------
(* The receiver follows the events.                                         *)

\* The event is the last one published of its stream.
Says(m) == published[m.key] = Told(m)

Queued(q, k) == \E i \in DOMAIN q : q[i].key = k
Unique(q)    == \A i, j \in DOMAIN q : q[i].key = q[j].key => i = j

OnTheWay(k)  == Queued(uiQueue, k) \/ Queued(batch, k)

\* Nobody else's registration changes what the topic of k is parsed with.
Sole(k) == \A j \in Keys : topicOf[j] = topicOf[k] => j = k

\* With no event of k on its way, the receiver has what the last one said of k, or
\* is in the call that gives it.
Applied(k) ==
    /\ (step \in {"replacing", "subscribing"} /\ stream.key = k) => published[k] = stream.settings
    /\ (step = "removing" /\ stream.key = k) => published[k] = NoSettings
    /\ (step = "idle" \/ (step \in {"replacing", "subscribing", "removing"} /\ stream.key # k)) =>
          /\ thread[k] # "none" <=> published[k] # NoSettings
          /\ Sole(k) => topicStates[topicOf[k]] = published[k]

\* There is one event of a stream at each place, in the queue the last one, and in
\* the batch too unless the queue has a later one.
QueuesInv ==
    /\ Unique(uiQueue) /\ Unique(batch)
    /\ \A i \in DOMAIN uiQueue : Says(uiQueue[i])
    /\ \A i \in DOMAIN batch : ~Queued(uiQueue, batch[i].key) => Says(batch[i])

AppliedInv ==
    /\ \A k \in Keys : ~OnTheWay(k) => Applied(k)
    /\ (step \in {"replacing", "subscribing"} /\ Sole(stream.key)) =>
          topicStates[topicOf[stream.key]] = stream.settings

LatestInv == QueuesInv /\ AppliedInv

\* Publishing an event leaves one of its stream in the queue, the new one, and
\* every other stream's.
LEMMA Publication ==
    ASSUME uiQueue \in Seq(Notices), Unique(uiQueue), NEW m \in Notices,
           publishRegistryEvent(m)
    PROVE  /\ Unique(uiQueue')
           /\ \A k : Queued(uiQueue', k) <=> k = m.key \/ Queued(uiQueue, k)
           /\ \A i \in DOMAIN uiQueue' :
                 \/ uiQueue'[i] = m
                 \/ uiQueue'[i].key # m.key /\ \E j \in DOMAIN uiQueue : uiQueue'[i] = uiQueue[j]
  <1> DEFINE Replaced == {i \in DOMAIN uiQueue : SameStream(m, uiQueue[i])}
  <1>0. Len(uiQueue) \in Nat /\ DOMAIN uiQueue = 1..Len(uiQueue) OBVIOUS
  <1>1. ASSUME NEW q \in Seq(Notices), uiQueue' = Append(q, m), Unique(q),
               \A i \in DOMAIN q : q[i].key # m.key /\ \E j \in DOMAIN uiQueue : q[i] = uiQueue[j],
               \A j \in DOMAIN uiQueue : uiQueue[j].key = m.key
                                         \/ \E i \in DOMAIN q : q[i] = uiQueue[j]
        PROVE  /\ Unique(uiQueue')
               /\ \A k : Queued(uiQueue', k) <=> k = m.key \/ Queued(uiQueue, k)
               /\ \A i \in DOMAIN uiQueue' :
                     \/ uiQueue'[i] = m
                     \/ uiQueue'[i].key # m.key
                        /\ \E j \in DOMAIN uiQueue : uiQueue'[i] = uiQueue[j]
    <2>1. /\ Len(q) \in Nat /\ DOMAIN q = 1..Len(q) /\ DOMAIN uiQueue' = 1..(Len(q) + 1)
          /\ uiQueue'[Len(q) + 1] = m /\ \A i \in 1..Len(q) : uiQueue'[i] = q[i]
      BY <1>1
    <2>2. Unique(uiQueue') BY <1>1, <2>1 DEF Unique
    <2>3. ASSUME NEW k PROVE Queued(uiQueue', k) <=> k = m.key \/ Queued(uiQueue, k)
      <3>1. ASSUME NEW i \in DOMAIN uiQueue', uiQueue'[i].key = k
            PROVE  k = m.key \/ Queued(uiQueue, k)
        BY <1>1, <2>1, <3>1 DEF Queued
      <3>2. ASSUME k = m.key PROVE Queued(uiQueue', k) BY <2>1, <3>2 DEF Queued
      <3>3. ASSUME NEW j \in DOMAIN uiQueue, uiQueue[j].key = k, k # m.key
            PROVE  Queued(uiQueue', k)
        BY <1>1, <2>1, <3>3 DEF Queued
      <3>4. QED BY <3>1, <3>2, <3>3 DEF Queued
    <2>4. QED BY <1>1, <2>1, <2>2, <2>3
  <1>2. CASE Replaced = {}
    <2>1. uiQueue' = Append(uiQueue, m) BY <1>2 DEF publishRegistryEvent
    <2>2. \A i \in DOMAIN uiQueue : uiQueue[i].key # m.key BY <1>2 DEF SameStream
    <2>3. QED BY <1>1, <2>1, <2>2
  <1>3. CASE Replaced # {}
    <2>1. PICK i \in Replaced : uiQueue' = Append(RemoveAt(uiQueue, i), m)
      BY <1>3 DEF publishRegistryEvent
    <2> DEFINE q == RemoveAt(uiQueue, i)
    <2>2. i \in 1..Len(uiQueue) /\ uiQueue[i].key = m.key BY <1>0, <2>1 DEF SameStream
    <2>3. /\ DOMAIN q = 1..(Len(uiQueue) - 1)
          /\ \A j \in 1..(Len(uiQueue) - 1) : q[j] = IF j < i THEN uiQueue[j] ELSE uiQueue[j + 1]
      BY <1>0, <2>2, RemovedAt
    <2>4. q \in Seq(Notices) BY <1>0, <2>2, RemovedAt
    <2> HIDE DEF q
    <2>5. \A j \in 1..Len(uiQueue) : uiQueue[j].key = m.key => j = i
      BY <1>0, <2>2 DEF Unique
    <2>6. \A j \in DOMAIN q : q[j].key # m.key /\ \E l \in DOMAIN uiQueue : q[j] = uiQueue[l]
      <3> SUFFICES ASSUME NEW j \in DOMAIN q
                   PROVE  q[j].key # m.key /\ \E l \in DOMAIN uiQueue : q[j] = uiQueue[l]
        OBVIOUS
      <3> DEFINE l == IF j < i THEN j ELSE j + 1
      <3>1. l \in 1..Len(uiQueue) /\ l # i /\ q[j] = uiQueue[l] BY <1>0, <2>2, <2>3
      <3>2. QED BY <1>0, <2>5, <3>1
    <2>7. Unique(q)
      <3> SUFFICES ASSUME NEW j \in DOMAIN q, NEW l \in DOMAIN q, q[j].key = q[l].key PROVE j = l
        BY DEF Unique
      <3> DEFINE at(n) == IF n < i THEN n ELSE n + 1
      <3>1. at(j) \in DOMAIN uiQueue /\ at(l) \in DOMAIN uiQueue
            /\ q[j] = uiQueue[at(j)] /\ q[l] = uiQueue[at(l)]
        BY <1>0, <2>2, <2>3
      <3>2. at(j) = at(l) BY <3>1 DEF Unique
      <3>3. QED BY <2>2, <2>3, <3>2
    <2>8. ASSUME NEW j \in DOMAIN uiQueue, uiQueue[j].key # m.key
          PROVE  \E l \in DOMAIN q : q[l] = uiQueue[j]
      <3>1. CASE j < i BY <1>0, <2>2, <2>3, <3>1
      <3>2. CASE j > i
        <4>1. j - 1 \in DOMAIN q /\ q[j - 1] = uiQueue[j] BY <1>0, <2>2, <2>3, <3>2
        <4>2. QED BY <4>1
      <3>3. j # i BY <2>2, <2>8
      <3>4. QED BY <1>0, <2>2, <3>1, <3>2, <3>3
    <2>9. uiQueue' = Append(q, m) BY <2>1 DEF q
    <2>10. QED BY <1>1, <2>4, <2>6, <2>7, <2>8, <2>9
  <1>4. QED BY <1>2, <1>3

\* Steps that leave the events where they are.
Kept == UNCHANGED <<published, uiQueue, batch>>

LEMMA KeptEvents ==
    ASSUME LatestInv, Kept
    PROVE  QueuesInv' /\ \A k : OnTheWay(k)' <=> OnTheWay(k)
  <1>1. QueuesInv' BY DEF LatestInv, QueuesInv, Kept, Says, Queued, Unique
  <1>2. \A k : OnTheWay(k)' <=> OnTheWay(k) BY DEF Kept, OnTheWay, Queued
  <1>3. QED BY <1>1, <1>2

\* The receiver's own steps.
LEMMA SampleApplied ==
    ASSUME IInv, LatestInv, Data, UNCHANGED registryVars
    PROVE  LatestInv'
  <1>1. QueuesInv' /\ \A k : OnTheWay(k)' <=> OnTheWay(k)
    BY KeptEvents DEF Kept, registryVars
  <1>2. /\ UNCHANGED <<topicStates, step, stream, published>>
        /\ \A k \in Keys : thread'[k] # "none" <=> thread[k] # "none"
    BY DEF Data, Receive, Parse, Deliver, IInv, ReceiverTypeOK, topicVars, queueVars, callVars,
       registryVars
  <1>3. AppliedInv' BY <1>1, <1>2 DEF LatestInv, AppliedInv, Applied, Sole
  <1>4. QED BY <1>1, <1>3 DEF LatestInv

LEMMA FinishApplied ==
    ASSUME IInv, LatestInv, RegistryTypeOK, FinishCall, UNCHANGED registryVars
    PROVE  LatestInv'
  <1>1. QueuesInv' /\ \A k : OnTheWay(k)' <=> OnTheWay(k)
    BY KeptEvents DEF Kept, registryVars
  <1>2. published' = published BY DEF registryVars
  <1>3. stream.key \in Keys /\ stream.settings \in Settings BY DEF IInv, ReceiverTypeOK, Registrations
  <1>4. CASE EraseSubscriber
    <2>1. /\ UNCHANGED <<topicStates, stream>> /\ step = "replacing" /\ step' = "subscribing"
          /\ \A k \in Keys : k # stream.key => thread'[k] = thread[k]
      BY <1>4 DEF EraseSubscriber, topicVars, IInv, ReceiverTypeOK
    <2>2. AppliedInv' BY <1>1, <1>2, <2>1 DEF LatestInv, AppliedInv, Applied, Sole
    <2>3. QED BY <1>1, <2>2 DEF LatestInv
  <1>5. CASE Subscribe
    <2>1. /\ UNCHANGED <<topicStates, stream>> /\ step = "subscribing" /\ step' = "idle"
          /\ \A k \in Keys : k # stream.key => thread'[k] = thread[k]
          /\ thread'[stream.key] = "idle"
      BY <1>3, <1>5 DEF Subscribe, IInv, ReceiverTypeOK
    <2>2. ASSUME NEW k \in Keys, ~OnTheWay(k) PROVE Applied(k)'
      <3>1. Applied(k) BY <2>2 DEF LatestInv, AppliedInv
      <3>2. CASE k = stream.key
        <4>1. published[k] = stream.settings /\ published[k] # NoSettings
          BY <1>3, <2>1, <3>1, <3>2, ReceiverAssumption DEF Applied
        <4>2. Sole(k) => topicStates[topicOf[k]] = published[k]
          BY <2>1, <3>2, <4>1 DEF LatestInv, AppliedInv
        <4>3. QED BY <1>2, <2>1, <3>2, <4>1, <4>2 DEF Applied, Sole
      <3>3. CASE k # stream.key BY <1>2, <2>1, <3>1, <3>3 DEF Applied, Sole
      <3>4. QED BY <3>2, <3>3
    <2>3. AppliedInv' BY <1>1, <2>1, <2>2 DEF AppliedInv
    <2>4. QED BY <1>1, <2>3 DEF LatestInv
  <1>6. CASE RemoveSubscriber
    <2> DEFINE t == topicOf[stream.key]
    <2>1. /\ UNCHANGED stream /\ step = "removing" /\ step' = "idle" /\ t \in Topics
          /\ \A k \in Keys : k # stream.key => thread'[k] = thread[k]
          /\ thread'[stream.key] = "none"
          /\ \A s \in Topics : s # t => topicStates'[s] = topicStates[s]
      BY <1>3, <1>6, ReceiverAssumption DEF RemoveSubscriber, IInv, ReceiverTypeOK
    <2>2. ASSUME Sole(stream.key) PROVE topicStates'[t] = NoSettings
      <3>1. keysOf[t] \subseteq {stream.key}
        BY <2>1, <2>2 DEF Sole, IInv, StateInv, ReceiverTypeOK
      <3>2. keysOf'[t] = {} BY <1>6, <2>1, <3>1 DEF RemoveSubscriber, IInv, ReceiverTypeOK
      <3>3. QED BY <1>6, <2>1, <3>2 DEF RemoveSubscriber, IInv, ReceiverTypeOK, IsLast
    <2>3. ASSUME NEW k \in Keys, ~OnTheWay(k) PROVE Applied(k)'
      <3>1. Applied(k) BY <2>3 DEF LatestInv, AppliedInv
      <3>2. CASE k = stream.key
        BY <1>2, <2>1, <2>2, <3>1, <3>2 DEF Applied, Sole
      <3>3. CASE k # stream.key
        <4>1. Sole(k) => topicOf[k] # t /\ topicOf[k] \in Topics
          BY <1>3, <3>3, ReceiverAssumption DEF Sole
        <4>2. QED BY <1>2, <2>1, <3>1, <3>3, <4>1 DEF Applied, Sole
      <3>4. QED BY <3>2, <3>3
    <2>4. AppliedInv' BY <1>1, <2>1, <2>3 DEF AppliedInv
    <2>5. QED BY <1>1, <2>4 DEF LatestInv
  <1>7. CASE DestroySubscribers
    <2>1. step' = "closed" BY <1>7 DEF DestroySubscribers
    <2>2. AppliedInv' BY <2>1 DEF AppliedInv, Applied
    <2>3. QED BY <1>1, <2>2 DEF LatestInv
  <1>8. QED BY <1>4, <1>5, <1>6, <1>7 DEF FinishCall

LEMMA NoticeKeys ==
    /\ \A m \in Notices : m.key \in Keys
    /\ \A q \in Seq(Notices) : \A i \in DOMAIN q : q[i].key \in Keys
  <1>1. \A m \in Notices : m.key \in Keys BY DEF Notices
  <1>2. \A q \in Seq(Notices) : \A i \in DOMAIN q : q[i] \in Notices OBVIOUS
  <1>3. QED BY <1>1, <1>2

\* The registry changes without an event, or nothing changes.
LEMMA StaysLatest ==
    ASSUME LatestInv, Kept, UNCHANGED receiverVars
    PROVE  LatestInv'
  <1>1. QueuesInv' /\ \A k : OnTheWay(k)' <=> OnTheWay(k) BY KeptEvents
  <1>2. AppliedInv'
    BY <1>1 DEF LatestInv, AppliedInv, Applied, Sole, receiverVars, topicVars, callVars, Kept
  <1>3. QED BY <1>1, <1>2 DEF LatestInv

LEMMA OneEvent ==
    ASSUME NEW q \in Seq(Notices), Len(q) <= 1, q # << >>
    PROVE  Head(q) \in Notices /\ DOMAIN q = {1} /\ q[1] = Head(q)
  <1>1. Len(q) # 0 /\ Len(q) \in Nat /\ DOMAIN q = 1..Len(q) BY EmptySeq
  <1>2. Len(q) = 1 BY <1>1
  <1>3. QED BY <1>1, <1>2

\* What is published is the last event of its stream, whoever publishes it.
LEMMA PublishLatest ==
    ASSUME LatestInv, RegistryTypeOK, ServerPublishes \/ UiPublishes
    PROVE  LatestInv'
  <1>1. UNCHANGED <<receiverVars, batch>>
    BY DEF ServerPublishes, UiPublishes
  <1>2. PICK m \in Notices : publishRegistryEvent(m)
    <2>1. CASE ServerPublishes BY <2>1, OneEvent DEF ServerPublishes, RegistryTypeOK
    <2>2. CASE UiPublishes BY <2>2, OneEvent DEF UiPublishes, RegistryTypeOK
    <2>3. QED BY <2>1, <2>2
  <1>3. m.key \in Keys /\ published' = [published EXCEPT ![m.key] = Told(m)]
    BY <1>2, NoticeKeys DEF publishRegistryEvent
  <1>4. /\ Unique(uiQueue')
        /\ \A k : Queued(uiQueue', k) <=> k = m.key \/ Queued(uiQueue, k)
        /\ \A i \in DOMAIN uiQueue' :
              \/ uiQueue'[i] = m
              \/ uiQueue'[i].key # m.key /\ \E j \in DOMAIN uiQueue : uiQueue'[i] = uiQueue[j]
    BY <1>2, Publication DEF LatestInv, QueuesInv, RegistryTypeOK
  <1>5. Says(m)' /\ \A k \in Keys : k # m.key => published'[k] = published[k]
    BY <1>3 DEF Says, RegistryTypeOK, Told
  <1>6. ASSUME NEW x, x.key \in Keys, x.key # m.key, Says(x) PROVE Says(x)'
    BY <1>5, <1>6 DEF Says, Told
  <1>7. (\A i \in DOMAIN uiQueue : Says(uiQueue[i]))'
    <2>1. ASSUME NEW j \in DOMAIN uiQueue, NEW x, x = uiQueue[j], x.key # m.key PROVE Says(x)'
      <3>1. x.key \in Keys BY <2>1, NoticeKeys DEF RegistryTypeOK
      <3>2. Says(x) BY <2>1 DEF LatestInv, QueuesInv
      <3>3. QED BY <1>6, <2>1, <3>1, <3>2
    <2>2. \A x : (x = m \/ (x.key # m.key /\ \E j \in DOMAIN uiQueue : x = uiQueue[j])) => Says(x)'
      BY <1>5, <2>1
    <2>3. QED BY <1>4, <2>2
  <1>8. ASSUME NEW i \in DOMAIN batch, NEW x, x = batch[i], ~Queued(uiQueue', x.key) PROVE Says(x)'
    <2>1. x.key \in Keys BY <1>8, NoticeKeys DEF RegistryTypeOK
    <2>2. x.key # m.key /\ ~Queued(uiQueue, x.key) BY <1>4, <1>8
    <2>3. Says(x) BY <1>8, <2>2 DEF LatestInv, QueuesInv
    <2>4. QED BY <1>6, <2>1, <2>2, <2>3
  <1>9. QueuesInv'
    BY <1>1, <1>4, <1>7, <1>8 DEF LatestInv, QueuesInv, Unique, Queued, Says
  <1>10. ASSUME NEW k \in Keys, ~OnTheWay(k)' PROVE Applied(k)'
    <2>1. ~Queued(uiQueue', k) /\ ~Queued(batch, k) BY <1>1, <1>10 DEF OnTheWay, Queued
    <2>2. k # m.key /\ ~OnTheWay(k) BY <1>4, <2>1 DEF OnTheWay
    <2>3. Applied(k) /\ published'[k] = published[k] BY <1>5, <2>2 DEF LatestInv, AppliedInv
    <2>4. QED BY <1>1, <2>3 DEF Applied, Sole, receiverVars, topicVars, callVars
  <1>11. AppliedInv'
    BY <1>1, <1>10 DEF LatestInv, AppliedInv, Sole, receiverVars, topicVars, callVars
  <1>12. QED BY <1>9, <1>11 DEF LatestInv

LEMMA ServerLatest ==
    ASSUME LatestInv, RegistryTypeOK, Server
    PROVE  LatestInv'
  <1>1. CASE ServerPublishes BY <1>1, PublishLatest
  <1>2. CASE ~ServerPublishes
    <2>1. Request BY <1>2 DEF Server, RegisterData, UnregisterData
    <2>2. QED BY <2>1, StaysLatest DEF Request, Kept
  <1>3. QED BY <1>1, <1>2

\* The queue becomes the batch.
LEMMA PollLatest ==
    ASSUME LatestInv, RegistryTypeOK, pollBusMessages
    PROVE  LatestInv'
  <1>1. /\ batch = << >> /\ batch' = uiQueue /\ uiQueue' = << >>
        /\ UNCHANGED <<receiverVars, published>>
    BY DEF pollBusMessages
  <1>2. \A k : (Queued(batch', k) <=> Queued(uiQueue, k)) /\ ~Queued(uiQueue', k) /\ ~Queued(batch, k)
    BY <1>1 DEF Queued
  <1>3. \A k : OnTheWay(k)' <=> OnTheWay(k)
    <2>1. \A k : OnTheWay(k)' <=> Queued(uiQueue', k) \/ Queued(batch', k) BY DEF OnTheWay, Queued
    <2>2. QED BY <1>2, <2>1 DEF OnTheWay
  <1>4. \A x : Says(x)' <=> Says(x) BY <1>1 DEF Says, Told
  <1>6. QueuesInv'
    <2>1. Unique(uiQueue)' /\ Unique(batch)' BY <1>1 DEF LatestInv, QueuesInv, Unique
    <2>2. ASSUME NEW i \in DOMAIN batch', NEW x, x = batch'[i] PROVE Says(x)'
      BY <1>1, <1>4, <2>2 DEF LatestInv, QueuesInv
    <2>3. QED BY <1>1, <2>1, <2>2 DEF QueuesInv
  <1>7. AppliedInv'
    BY <1>1, <1>3 DEF LatestInv, AppliedInv, Applied, Sole, receiverVars, topicVars, callVars
  <1>8. QED BY <1>6, <1>7 DEF LatestInv

\* An event is handled: the call that it begins is the latest of its stream.
LEMMA HandleLatest ==
    ASSUME IInv, LatestInv, RegistryTypeOK, HandleDataRegistered \/ HandleDataUnregistered
    PROVE  LatestInv'
  <1>1. PICK m \in Notices : m = Head(batch) /\ 1 \in DOMAIN batch /\ batch[1] = m
    <2>1. batch # << >> /\ batch \in Seq(Notices)
      BY DEF HandleDataRegistered, HandleDataUnregistered, Handle, RegistryTypeOK
    <2>2. Len(batch) \in Nat \ {0} BY <2>1, EmptySeq
    <2>3. 1 \in DOMAIN batch /\ batch[1] \in Notices BY <2>1, <2>2
    <2>4. QED BY <2>1, <2>3
  <1>2. /\ step = "idle" /\ batch' = Tail(batch) /\ batch # << >>
        /\ UNCHANGED <<published, uiQueue, thread>>
        /\ stream'.key = m.key /\ stream'.settings = m.settings
    BY <1>1 DEF HandleDataRegistered, HandleDataUnregistered, Handle, UiFree, registerDataStream,
       unregisterDataStream, Registration
  <1>3. m.key \in Keys /\ topicOf[m.key] \in Topics
    BY NoticeKeys, ReceiverAssumption
  <1>4. /\ \A i \in DOMAIN batch' : i + 1 \in DOMAIN batch /\ batch'[i] = batch[i + 1] /\ i + 1 # 1
        /\ \A i \in DOMAIN batch : i # 1 => i - 1 \in DOMAIN batch' /\ batch'[i - 1] = batch[i]
    <2>1. batch \in Seq(Notices) /\ Len(batch) \in Nat \ {0} BY <1>2, EmptySeq DEF RegistryTypeOK
    <2>2. Len(batch') = Len(batch) - 1 /\ DOMAIN batch' = 1..(Len(batch) - 1) /\ DOMAIN batch = 1..Len(batch)
          /\ \A i \in 1..(Len(batch) - 1) : batch'[i] = batch[i + 1]
      BY <1>2, <2>1
    <2>3. QED BY <2>1, <2>2
  <1>5. /\ Unique(batch') /\ ~Queued(batch', m.key)
        /\ \A k : k # m.key => (Queued(batch', k) <=> Queued(batch, k))
    <2>0. \A i, j \in DOMAIN batch : batch[i].key = batch[j].key => i = j
      BY DEF LatestInv, QueuesInv, Unique
    <2>1. Unique(batch')
      <3> SUFFICES ASSUME NEW i \in DOMAIN batch', NEW j \in DOMAIN batch', batch'[i].key = batch'[j].key
                   PROVE  i = j
        BY DEF Unique
      <3>1. i + 1 = j + 1 BY <1>4, <2>0
      <3>2. i \in Int /\ j \in Int
        <4>1. batch' \in Seq(Notices) BY <1>2 DEF RegistryTypeOK
        <4>2. QED BY <4>1
      <3>3. QED BY <3>1, <3>2
    <2>2. ~Queued(batch', m.key) BY <1>1, <1>4, <2>0 DEF Queued
    <2>3. ASSUME NEW k, k # m.key PROVE Queued(batch', k) <=> Queued(batch, k)
      BY <1>1, <1>4, <2>3 DEF Queued
    <2>4. QED BY <2>1, <2>2, <2>3
  <1>6. \A k : Queued(uiQueue', k) <=> Queued(uiQueue, k)
    BY <1>2 DEF Queued
  <1>7. \A x : Says(x)' <=> Says(x) BY <1>2 DEF Says, Told
  <1>9. QueuesInv'
    <2>1. ASSUME NEW i \in DOMAIN batch', NEW x, x = batch'[i], ~Queued(uiQueue', x.key)
          PROVE  Says(x)'
      BY <1>4, <1>6, <1>7, <2>1 DEF LatestInv, QueuesInv
    <2>2. ASSUME NEW i \in DOMAIN uiQueue', NEW x, x = uiQueue'[i] PROVE Says(x)'
      BY <1>2, <1>7, <2>2 DEF LatestInv, QueuesInv
    <2>3. Unique(uiQueue)' BY <1>2 DEF LatestInv, QueuesInv, Unique
    <2>4. QED BY <1>5, <2>1, <2>2, <2>3 DEF QueuesInv, Unique, Queued
  <1>10. \A k \in Keys : (~OnTheWay(k)' /\ k # m.key) => Applied(k)
    <2> SUFFICES ASSUME NEW k \in Keys, ~OnTheWay(k)', k # m.key PROVE Applied(k)
      OBVIOUS
    <2>1. ~Queued(batch', k) /\ ~Queued(uiQueue', k) BY DEF OnTheWay, Queued
    <2>2. ~OnTheWay(k) BY <1>5, <1>6, <2>1 DEF OnTheWay
    <2>3. QED BY <2>2 DEF LatestInv, AppliedInv
  <1>11. ~OnTheWay(m.key)' => Says(m)
    <2> SUFFICES ASSUME ~OnTheWay(m.key)' PROVE Says(m)
      OBVIOUS
    <2>1. ~Queued(uiQueue', m.key) BY DEF OnTheWay, Queued
    <2>2. ~Queued(uiQueue, m.key) BY <1>6, <2>1
    <2>3. QED BY <1>1, <2>2 DEF LatestInv, QueuesInv
  <1>12. CASE HandleDataRegistered
    <2>1. /\ m.type = "registered" /\ step' = "replacing"
          /\ topicStates' = [topicStates EXCEPT ![topicOf[m.key]] = m.settings]
      BY <1>1, <1>12 DEF HandleDataRegistered, Handle, registerDataStream, Registration
    <2>2. topicStates'[topicOf[m.key]] = m.settings
      BY <1>3, <2>1 DEF IInv, ReceiverTypeOK
    <2>3. ASSUME NEW k \in Keys, ~OnTheWay(k)' PROVE Applied(k)'
      <3>1. CASE k = m.key
        <4>1. published[k] = m.settings BY <1>11, <2>1, <2>3, <3>1 DEF Says, Told
        <4>2. QED BY <1>2, <2>1, <3>1, <4>1 DEF Applied
      <3>2. CASE k # m.key
        <4>1. Applied(k) BY <1>10, <2>3, <3>2
        <4>2. Sole(k) => topicStates'[topicOf[k]] = topicStates[topicOf[k]]
          BY <1>3, <2>1, <3>2, ReceiverAssumption DEF Sole, IInv, ReceiverTypeOK
        <4>3. QED BY <1>2, <2>1, <3>2, <4>1, <4>2 DEF Applied, Sole
      <3>3. QED BY <3>1, <3>2
    <2>4. AppliedInv' BY <1>2, <2>2, <2>3 DEF AppliedInv
    <2>5. QED BY <1>9, <2>4 DEF LatestInv
  <1>13. CASE HandleDataUnregistered
    <2>1. m.type = "unregistered" /\ step' = "removing" /\ UNCHANGED topicStates
      BY <1>1, <1>13 DEF HandleDataUnregistered, Handle, unregisterDataStream, topicVars
    <2>2. ASSUME NEW k \in Keys, ~OnTheWay(k)' PROVE Applied(k)'
      <3>1. CASE k = m.key
        <4>1. published[k] = NoSettings BY <1>11, <2>1, <2>2, <3>1 DEF Says, Told
        <4>2. QED BY <1>2, <2>1, <3>1, <4>1 DEF Applied
      <3>2. CASE k # m.key
        <4>1. Applied(k) BY <1>10, <2>2, <3>2
        <4>2. QED BY <1>2, <2>1, <3>2, <4>1 DEF Applied, Sole
      <3>3. QED BY <3>1, <3>2
    <2>3. AppliedInv' BY <2>1, <2>2 DEF AppliedInv
    <2>4. QED BY <1>9, <2>3 DEF LatestInv
  <1>14. QED BY <1>12, <1>13

LEMMA UiLatest ==
    ASSUME IInv, LatestInv, RegistryTypeOK, Ui
    PROVE  LatestInv'
  <1>1. CASE HandleAgentActivated \/ registerStatic
    BY <1>1, StaysLatest DEF HandleAgentActivated, registerStatic, Kept
  <1>2. CASE shutdown
    <2>1. QueuesInv' /\ step' = "clearing"
      BY <1>2, KeptEvents DEF shutdown, unsubscribeAll, registryVars, Kept
    <2>2. AppliedInv' BY <2>1 DEF AppliedInv, Applied
    <2>3. QED BY <2>1, <2>2 DEF LatestInv
  <1>3. QED
    BY <1>1, <1>2, PollLatest, HandleLatest, PublishLatest DEF Ui

LEMMA InitLatest == Init => LatestInv
  BY ReceiverAssumption DEF Init, ReceiverInit, LatestInv, QueuesInv, AppliedInv, Applied, Unique,
     OnTheWay

\* Whenever all events have been handled, the receiver has of each stream what the
\* last event published of it says: nothing that coalescing or a call of the
\* receiver does on the way loses it, for streams that both threads register too.
THEOREM Follows == Spec => []FollowsEvents
  <1>1. IInv /\ RegistryTypeOK /\ LatestInv /\ [Next]_vars => LatestInv'
    <2> SUFFICES ASSUME IInv, RegistryTypeOK, LatestInv, [Next]_vars PROVE LatestInv'
      OBVIOUS
    <2>1. CASE Receiver BY <2>1, SampleApplied, FinishApplied DEF Receiver
    <2>2. CASE UNCHANGED vars BY <2>2, StaysLatest DEF vars, registryVars, Kept
    <2>3. QED BY <2>1, <2>2, ServerLatest, UiLatest DEF Next
  <1>2. LatestInv => FollowsEvents
    <2> SUFFICES ASSUME LatestInv, Settled, NEW k \in Keys
                 PROVE  /\ thread[k] # "none" <=> published[k] # NoSettings
                        /\ Sole(k) => topicStates[topicOf[k]] = published[k]
      BY DEF FollowsEvents, ReceiverHas, Sole
    <2>1. step = "idle" /\ ~OnTheWay(k)
      BY DEF Settled, UiFree, OnTheWay, Queued
    <2>2. QED BY <2>1 DEF LatestInv, AppliedInv, Applied
  <1>3. QED BY InitLatest, Invariance, <1>1, <1>2, PTL DEF Spec
=============================================================================
