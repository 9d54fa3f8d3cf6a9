---------------------------- MODULE DataReceiver ----------------------------
(***************************************************************************)
(* The topic subscriptions of the host (data_receiver.cpp) and the cache   *)
(* of latest values they fill (sensor_queue.cpp).                          *)
(*                                                                         *)
(* The UI thread registers and unregisters streams.  Each stream has an    *)
(* echo::Subscriber, whose own thread calls onTopicData: it looks at       *)
(* accepting_data_, takes mutex_ to parse the sample, and hands it on      *)
(* after unlocking.  Destroying a subscriber waits until its thread has    *)
(* left the callback; registering a stream again and unregistering do so   *)
(* with mutex_ held, the end of the receiver without it.                   *)
(*                                                                         *)
(* Left out: subscribe(), which only tests call; frequencies and the rate  *)
(* limit of the UI; the TOPIC_DATA and NODE_COOKIES messages.              *)
(***************************************************************************)
CONSTANTS Keys,      \* node_name/data_name@port: what tells streams apart
          Topics,    \* data names
          Settings,  \* the rest of a registration: encoding, parser, qos, role ...
          Cookie,    \* the settings whose metadata has the role host_cookie
          NoSettings,
          topicOf    \* the data name in a key

ASSUME ReceiverAssumption ==
    /\ topicOf \in [Keys -> Topics]
    /\ Cookie \subseteq Settings /\ NoSettings \notin Settings

VARIABLES
    accepting,     \* accepting_data_
    topicStates,   \* topic_states_: the settings a topic is parsed with
    keysOf,        \* topic_subscription_keys_
    thread,        \* dynamic_subscribers_: where the thread of each one is
    snapshots,     \* SensorQueue::snapshots_: the topics with a latest value
    curves,        \* SensorQueue::curve_buffers_, by topic
    names,         \* SensorQueue::subscribed_names_
    cookies,       \* cookies_: the topics they came from
    step,          \* where the UI thread is in a call
    stream         \* the registration that the call is about

topicVars    == <<accepting, topicStates, keysOf, cookies>>
queueVars    == <<snapshots, curves, names>>
callVars     == <<step, stream>>
receiverVars == <<topicVars, thread, queueVars, callVars>>

Registrations == [key : Keys, settings : Settings]

ReceiverInit ==
    /\ accepting = FALSE
    /\ topicStates = [t \in Topics |-> NoSettings]
    /\ keysOf = [t \in Topics |-> {}]
    /\ thread = [k \in Keys |-> "none"]
    /\ snapshots = {} /\ curves = {} /\ names = {} /\ cookies = {}
    /\ step = "idle"
    /\ stream \in Registrations

\* Calls that destroy a subscriber while they hold mutex_.
Locked == step \in {"replacing", "removing"}

OutOfCallback(k) == thread[k] \in {"none", "idle"}

refreshSubscribedNames == names' = {t \in Topics : keysOf'[t] # {}}

-----------------------------------------------------------------------------
(* The UI thread.                                                           *)

registerDataStream(r) ==
    /\ step = "idle"
    /\ topicStates' = [topicStates EXCEPT ![topicOf[r.key]] = r.settings]
    /\ keysOf' = [keysOf EXCEPT ![topicOf[r.key]] = @ \union {r.key}]
    /\ step' = "replacing" /\ stream' = r
    /\ UNCHANGED <<accepting, cookies, thread, queueVars>>

\* A subscriber of the same key goes first ...
EraseSubscriber ==
    /\ step = "replacing" /\ OutOfCallback(stream.key)
    /\ thread' = [thread EXCEPT ![stream.key] = "none"]
    /\ step' = "subscribing"
    /\ UNCHANGED <<topicVars, snapshots, curves, stream>>
    /\ refreshSubscribedNames

\* ... and the new one is made after unlocking.
Subscribe ==
    /\ step = "subscribing"
    /\ accepting' = TRUE
    /\ thread' = [thread EXCEPT ![stream.key] = "idle"]
    /\ step' = "idle"
    /\ UNCHANGED <<topicStates, keysOf, cookies, queueVars, stream>>

unregisterDataStream(r) ==
    /\ step = "idle"
    /\ step' = "removing" /\ stream' = r
    /\ UNCHANGED <<topicVars, thread, queueVars>>

\* Mutant: the value stays.
KeepsValue(t) == snapshots

\* SensorQueue::remove keeps the topic's curve.
Forget(t) == snapshots \ {t}

\* Mutant: any stream of a topic takes the topic's state with it.
IsAny(keys) == TRUE

\* The topic's state and value go with the last of its streams.
IsLast(keys) == keys = {}

RemoveSubscriber ==
    LET t == topicOf[stream.key]
    IN  /\ step = "removing" /\ OutOfCallback(stream.key)
        /\ thread' = [thread EXCEPT ![stream.key] = "none"]
        /\ keysOf' = [keysOf EXCEPT ![t] = @ \ {stream.key}]
        /\ IF IsLast(keysOf'[t])
           THEN /\ topicStates' = [topicStates EXCEPT ![t] = NoSettings]
                /\ snapshots' = Forget(t)
           ELSE UNCHANGED <<topicStates, snapshots>>
        /\ refreshSubscribedNames
        /\ step' = "idle"
        /\ UNCHANGED <<accepting, cookies, curves, stream>>

\* The destructor: first no sample is taken any more ...
unsubscribeAll ==
    /\ step = "idle"
    /\ accepting' = FALSE
    /\ topicStates' = [t \in Topics |-> NoSettings]
    /\ keysOf' = [t \in Topics |-> {}]
    /\ names' = {}
    /\ step' = "clearing"
    /\ UNCHANGED <<cookies, thread, snapshots, curves, stream>>

\* ... then the subscribers go, then the values.
DestroySubscribers ==
    /\ step = "clearing" /\ \A k \in Keys : OutOfCallback(k)
    /\ thread' = [k \in Keys |-> "none"]
    /\ snapshots' = {} /\ curves' = {} /\ names' = {}
    /\ step' = "closed"
    /\ UNCHANGED <<topicVars, stream>>

-----------------------------------------------------------------------------
(* The thread of the subscriber of stream k, in onTopicData.                *)

Receive(k) ==
    /\ thread[k] = "idle" /\ accepting
    /\ thread' = [thread EXCEPT ![k] = "received"]
    /\ UNCHANGED <<topicVars, queueVars, callVars>>

\* Under mutex_.  A cookie goes into the table and no further.
Parse(k) ==
    LET t == topicOf[k]
    IN  /\ thread[k] = "received" /\ ~Locked
        /\ \/ /\ topicStates[t] = NoSettings
              /\ thread' = [thread EXCEPT ![k] = "idle"]
              /\ UNCHANGED cookies
           \/ /\ topicStates[t] \in Cookie
              /\ cookies' = cookies \union {t}
              /\ thread' = [thread EXCEPT ![k] = "idle"]
           \/ /\ topicStates[t] \in Settings \ Cookie
              /\ thread' = [thread EXCEPT ![k] = "parsed"]
              /\ UNCHANGED cookies
        /\ UNCHANGED <<accepting, topicStates, keysOf, queueVars, callVars>>

\* After unlocking.
Deliver(k) ==
    /\ thread[k] = "parsed"
    /\ snapshots' = snapshots \union {topicOf[k]}
    /\ curves' = curves \union {topicOf[k]}
    /\ thread' = [thread EXCEPT ![k] = "idle"]
    /\ UNCHANGED <<topicVars, names, callVars>>

Data == \E k \in Keys : Receive(k) \/ Parse(k) \/ Deliver(k)

FinishCall == EraseSubscriber \/ Subscribe \/ RemoveSubscriber \/ DestroySubscribers

ReceiverNext ==
    \/ \E r \in Registrations : registerDataStream(r) \/ unregisterDataStream(r)
    \/ unsubscribeAll \/ FinishCall \/ Data

ReceiverSpec == ReceiverInit /\ [][ReceiverNext]_receiverVars

-----------------------------------------------------------------------------
(* Properties.                                                              *)

\* Every variable keeps its range; the lock is held for a registration only.
ReceiverTypeOK ==
    /\ accepting \in BOOLEAN
    /\ topicStates \in [Topics -> Settings \union {NoSettings}]
    /\ keysOf \in [Topics -> SUBSET Keys]
    /\ thread \in [Keys -> {"none", "idle", "received", "parsed"}]
    /\ snapshots \subseteq Topics /\ curves \subseteq Topics
    /\ names \subseteq Topics /\ cookies \subseteq Topics
    /\ step \in {"idle", "replacing", "subscribing", "removing", "clearing", "closed"}
    /\ stream \in Registrations

\* Whatever its threads are doing, no latest value and no subscribed name is left
\* of a removed topic when the call that removed it returns, nor of any topic at
\* the end: a sample on its way when its stream is unregistered does not put a
\* value back (data_receiver.cpp:150-199).  The topic's curve and its cookies stay
\* by design (sensor_queue.cpp:10-14).
ForgetsRemoved ==
    step \in {"idle", "closed"} =>
        /\ snapshots \subseteq {t \in Topics : keysOf[t] # {}}
        /\ names = {t \in Topics : keysOf[t] # {}}

\* A topic that several nodes publish keeps its state as long as a subscriber of
\* any of them is there to deliver to it.
ServedWhileSubscribed ==
    step # "clearing" =>
        \A k \in Keys : thread[k] # "none" =>
            /\ k \in keysOf[topicOf[k]]
            /\ topicStates[topicOf[k]] # NoSettings
=============================================================================
