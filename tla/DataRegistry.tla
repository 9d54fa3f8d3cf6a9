---------------------------- MODULE DataRegistry ----------------------------
(***************************************************************************)
(* The registry of data streams (data_registry_server.cpp) and how its     *)
(* events reach DataReceiver: over the bus, coalesced by stream, and       *)
(* through MainWindow, which drains the UI queue and calls the receiver    *)
(* (main_window.cpp).                                                      *)
(*                                                                         *)
(* Two threads change the registry: the server's, on the nodes' requests,  *)
(* and the UI thread, which registers the static topics of an agent when   *)
(* it is activated.  Each changes streams_ under its mutex and publishes   *)
(* the event after unlocking, so that the events of a stream that both     *)
(* register may be published in another order than the changes.            *)
(*                                                                         *)
(* The copies for the target "data_receiver" have no consumer in the host. *)
(***************************************************************************)
EXTENDS DataReceiver, Naturals, Sequences, SequencesExt

CONSTANTS NodeStreams,    \* keys that nodes register and unregister
          StaticStreams,  \* registrations of an agent's configured topics
          MaxRequests,    \* bound: requests of the nodes
          MaxActivations  \* bound: agents activated

ASSUME RegistryAssumption ==
    /\ NodeStreams \subseteq Keys /\ StaticStreams \in Seq(Registrations)
    /\ MaxRequests \in Nat /\ MaxActivations \in Nat

VARIABLES
    streams,       \* streams_: the settings of each key
    serverEvent,   \* what the server's thread has yet to publish, at most one
    uiEvent,       \* the same of the UI thread
    uiQueue,       \* registry events in the bus queue of the UI
    batch,         \* drained and not yet handled
    published,     \* history: what the last event published of each key says
    statics,       \* static topics of the activated agent still to register
    requests, activations

registryVars == <<streams, serverEvent, uiEvent, uiQueue, batch, published, statics, requests, activations>>
vars         == <<receiverVars, registryVars>>

Init ==
    /\ ReceiverInit
    /\ streams = [k \in Keys |-> NoSettings]
    /\ published = [k \in Keys |-> NoSettings]
    /\ serverEvent = << >> /\ uiEvent = << >> /\ uiQueue = << >> /\ batch = << >>
    /\ statics = << >> /\ requests = 0 /\ activations = 0

Notices == [type : {"registered", "unregistered"}, key : Keys, settings : Settings]

Notice(type, r) == [type |-> type, key |-> r.key, settings |-> r.settings]

\* Mutant: coalesced by data name.
SameName(m, queued) == topicOf[queued.key] = topicOf[m.key]

\* The latest event of a stream replaces the one that waits.
SameStream(m, queued) == queued.key = m.key

\* What an event says of its stream.
Told(m) == IF m.type = "registered" THEN m.settings ELSE NoSettings

publishRegistryEvent(m) ==
    LET Replaced == {i \in DOMAIN uiQueue : SameStream(m, uiQueue[i])}
        Others   == IF Replaced = {} THEN uiQueue
                    ELSE RemoveAt(uiQueue, CHOOSE i \in Replaced : TRUE)
    IN  /\ uiQueue' = Append(Others, m)
        /\ published' = [published EXCEPT ![m.key] = Told(m)]

Change(r) == streams' = [streams EXCEPT ![r.key] = r.settings]

\* Only a changed registration is published.
Events(r) == IF streams[r.key] = r.settings THEN << >> ELSE <<Notice("registered", r)>>

-----------------------------------------------------------------------------
(* The server's thread.                                                     *)

Request ==
    /\ serverEvent = << >>
    /\ requests < MaxRequests /\ requests' = requests + 1
    /\ UNCHANGED <<receiverVars, uiEvent, uiQueue, batch, published, statics, activations>>

RegisterData(r) ==
    /\ Request
    /\ Change(r) /\ serverEvent' = Events(r)

UnregisterData(k) ==
    /\ Request
    /\ IF streams[k] = NoSettings
       THEN UNCHANGED <<streams, serverEvent>>
       ELSE /\ serverEvent' = <<Notice("unregistered", [key |-> k, settings |-> streams[k]])>>
            /\ streams' = [streams EXCEPT ![k] = NoSettings]

ServerPublishes ==
    /\ serverEvent # << >>
    /\ publishRegistryEvent(Head(serverEvent))
    /\ serverEvent' = << >>
    /\ UNCHANGED <<receiverVars, streams, uiEvent, batch, statics, requests, activations>>

-----------------------------------------------------------------------------
(* The UI thread.                                                           *)

UiFree == step = "idle" /\ statics = << >> /\ uiEvent = << >>

pollBusMessages ==
    /\ UiFree /\ batch = << >> /\ uiQueue # << >>
    /\ batch' = uiQueue /\ uiQueue' = << >>
    /\ UNCHANGED <<receiverVars, streams, serverEvent, uiEvent, published, statics, requests, activations>>

Handle(type) ==
    /\ UiFree /\ batch # << >> /\ Head(batch).type = type
    /\ batch' = Tail(batch)
    /\ UNCHANGED <<streams, serverEvent, uiEvent, uiQueue, published, statics, requests, activations>>

Registration(m) == [key |-> m.key, settings |-> m.settings]

HandleDataRegistered ==
    Handle("registered") /\ registerDataStream(Registration(Head(batch)))

HandleDataUnregistered ==
    Handle("unregistered") /\ unregisterDataStream(Registration(Head(batch)))

HandleAgentActivated ==
    /\ UiFree /\ activations < MaxActivations
    /\ activations' = activations + 1
    /\ statics' = StaticStreams
    /\ UNCHANGED <<receiverVars, streams, serverEvent, uiEvent, uiQueue, batch, published, requests>>

registerStatic ==
    /\ statics # << >> /\ uiEvent = << >>
    /\ statics' = Tail(statics)
    /\ Change(Head(statics)) /\ uiEvent' = Events(Head(statics))
    /\ UNCHANGED <<receiverVars, serverEvent, uiQueue, batch, published, requests, activations>>

UiPublishes ==
    /\ uiEvent # << >>
    /\ publishRegistryEvent(Head(uiEvent))
    /\ uiEvent' = << >>
    /\ UNCHANGED <<receiverVars, streams, serverEvent, batch, statics, requests, activations>>

\* MainWindow destroys the receiver before it stops the server.
shutdown == UiFree /\ unsubscribeAll /\ UNCHANGED registryVars

Receiver == (FinishCall \/ Data) /\ UNCHANGED registryVars

-----------------------------------------------------------------------------
Server == \/ \E k \in NodeStreams : \/ \E s \in Settings : RegisterData([key |-> k, settings |-> s])
                                    \/ UnregisterData(k)
          \/ ServerPublishes

Ui == \/ pollBusMessages \/ HandleDataRegistered \/ HandleDataUnregistered
      \/ HandleAgentActivated \/ registerStatic \/ UiPublishes \/ shutdown

Next == Server \/ Ui \/ Receiver

Spec == Init /\ [][Next]_vars

-----------------------------------------------------------------------------
(* Properties.                                                              *)

Settled == UiFree /\ serverEvent = << >> /\ uiQueue = << >> /\ batch = << >>

\* Every variable keeps its range, the receiver's included, and each thread has at
\* most one event to publish.
TypeOK ==
    /\ ReceiverTypeOK
    /\ streams \in [Keys -> Settings \union {NoSettings}]
    /\ published \in [Keys -> Settings \union {NoSettings}]
    /\ serverEvent \in Seq(Notices) /\ Len(serverEvent) <= 1
    /\ uiEvent \in Seq(Notices) /\ Len(uiEvent) <= 1
    /\ uiQueue \in Seq(Notices) /\ batch \in Seq(Notices)
    /\ statics \in Seq(Registrations)
    /\ requests \in 0..MaxRequests /\ activations \in 0..MaxActivations

\* The receiver has what `of' says of each stream: it is subscribed to the streams
\* that have settings there, and parses a topic that only one stream can have with
\* that stream's.
ReceiverHas(of) == \A k \in Keys :
    /\ thread[k] # "none" <=> of[k] # NoSettings
    /\ (\A j \in Keys : topicOf[j] = topicOf[k] => j = k)
          => topicStates[topicOf[k]] = of[k]

\* When all events have been handled DataReceiver has of each stream what the
\* last event published of it says, whichever threads published, whatever was
\* coalesced in the queue (host_message_bus.cpp:14-26) and however far the calls
\* of the receiver and its subscribers had got meanwhile.  That is what the registry
\* has too unless its two threads published in another order than they changed it
\* (data_registry_server.cpp:76).
FollowsEvents == Settled => ReceiverHas(published)
=============================================================================
