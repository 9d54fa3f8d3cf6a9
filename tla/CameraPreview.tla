--------------------------- MODULE CameraPreview ---------------------------
(***************************************************************************)
(* The preview of a camera: a node writes frames into a ring of slots in   *)
(* shared memory and announces each on the topic camera_data               *)
(* (data_receiver.cpp); MainWindow hands the announcement to the view of   *)
(* the tab on top (main_window.cpp, workspace_page.cpp); the view fetches  *)
(* the latest frame, at most one every 41 ms (sensor_workspace_widget.cpp),*)
(* with a reader of its own (camera_shared_memory.cpp).                    *)
(*                                                                         *)
(* The memory is shared with another process and nothing is locked.  The   *)
(* node may stop or die and be started again: it then makes a new object   *)
(* of the same name and counts from 1.                                     *)
(*                                                                         *)
(* One camera; the other has slots and a place in every view of its own.   *)
(* A frame stands for its number; one that is being written is Torn.  The  *)
(* node itself is not in the repository: it is modelled from the layout    *)
(* that docs describe and the reader expects.  Any frame, whole or torn,   *)
(* may turn out to be one that cannot be decoded.  Left out: frames inside *)
(* the message, scaling, the text of the status line.                      *)
(***************************************************************************)
EXTENDS Naturals, Sequences, SequencesExt

CONSTANTS Views,        \* the sensor workspaces of the two tabs
          ScriptView,   \* that of the tab which is on top at first
          SlotCount,    \* slot_count_
          MaxObjects,   \* bound: runs of the node
          MaxFrames,    \* bound: frames written by all of them
          MaxSwitches   \* bound: changes of the tab, and resets at the end of a script

ASSUME PreviewAssumption ==
    /\ ScriptView \in Views
    /\ SlotCount \in Nat \ {0} /\ MaxObjects \in Nat \ {0}
    /\ MaxFrames \in Nat /\ MaxSwitches \in Nat

VARIABLES
    object,     \* the run of the node, which is the number of its memory object
    node,       \* what the node is doing
    present,    \* the object that the name leads to, 0 for none
    phase,      \* how far each object has been made
    seqs,       \* the sequence numbers of each object's slots
    slots,      \* and the frames in them
    count,      \* the number of the node's last frame
    frames,     \* number of frames begun
    known,      \* the registry has the stream
    wire,       \* the sample on its way to the host; the topic keeps the latest
    subscribed, \* topic_states_ has the topic
    first,      \* its first_message
    heard,      \* the object of the sample received last
    inbox,      \* messages for the UI
    batch,      \* those it has taken out and is handling
    active,     \* the view of the tab on top
    lastSeq,    \* last_camera_shm_seq_ of each view
    lastOf,     \* history: the object that it counts in
    pending,    \* pending_camera_payloads_
    dirty,      \* pending_camera_payload_dirty_
    rendered,   \* last_camera_render_time_ is set
    mapped,     \* mapping_ of each reader
    layout,     \* what loadLayout made of it
    reading,    \* where the UI thread is in readLatestFrame
    shown,      \* the picture of each view
    fetched,    \* history: the frame that each view fetched last, decoded or not
    switches    \* number of tab changes and resets

nodeVars == <<object, node, present, phase, seqs, slots, count, frames, known>>
topicVars == <<wire, subscribed, first, heard, inbox, batch>>
viewVars == <<lastSeq, lastOf, pending, dirty, rendered, shown, fetched>>
readerVars == <<mapped, layout, reading>>
vars == <<nodeVars, topicVars, active, viewVars, readerVars, switches>>

Objects == 1..MaxObjects
Slots == 0 .. SlotCount - 1
Torn == MaxFrames + 1
NoFrame == [object |-> 0, seq |-> 0, content |-> 0, racing |-> FALSE]
NoFetch == [object |-> 0, seq |-> 0, decoded |-> FALSE]
NoSample == [object |-> 0, seq |-> 0, first |-> FALSE]
Idle == [step |-> "idle", view |-> ScriptView,
         slot |-> 0, latest |-> SlotCount, seq |-> 0, content |-> 0]

Init ==
    /\ object = 0 /\ node = "down" /\ present = 0
    /\ phase = [o \in Objects |-> "none"]
    /\ seqs = [o \in Objects |-> [s \in Slots |-> 0]] /\ slots = seqs
    /\ count = 0 /\ frames = 0 /\ known = FALSE /\ wire = NoSample /\ subscribed = FALSE /\ first = FALSE /\ heard = 0
    /\ inbox = << >> /\ batch = << >> /\ active = ScriptView
    /\ lastSeq = [v \in Views |-> 0] /\ lastOf = lastSeq
    /\ pending = [v \in Views |-> NoSample]
    /\ dirty = [v \in Views |-> FALSE] /\ rendered = [v \in Views |-> FALSE]
    /\ mapped = [v \in Views |-> 0] /\ layout = [v \in Views |-> "versioned"]
    /\ reading = Idle /\ shown = [v \in Views |-> NoFrame]
    /\ fetched = [v \in Views |-> NoFetch] /\ switches = 0

-----------------------------------------------------------------------------
(* The node: a process outside the host.                                    *)

Host == UNCHANGED <<subscribed, first, heard, batch, active, viewVars, readerVars, switches>>

NodeStarts ==
    /\ node = "down" /\ object < MaxObjects
    /\ object' = object + 1 /\ node' = "making" /\ present' = object'
    /\ phase' = [phase EXCEPT ![object'] = "empty"] /\ count' = 0
    /\ UNCHANGED <<seqs, slots, frames, known, wire, inbox>> /\ Host

\* The registry tells the UI of a stream only if that is news.
Register ==
    /\ node # "down" /\ ~known
    /\ known' = TRUE
    /\ inbox' = Append(inbox, [type |-> "registered"])
    /\ UNCHANGED <<object, node, present, phase, seqs, slots, count, frames, wire>> /\ Host

\* The object has its size before it has its header.
MakeObject ==
    /\ node = "making"
    /\ phase' = [phase EXCEPT ![object] = IF @ = "empty" THEN "sized" ELSE "ready"]
    /\ node' = IF phase[object] = "sized" THEN "up" ELSE "making"
    /\ UNCHANGED <<object, present, seqs, slots, count, frames, known, wire, inbox>> /\ Host

SlotOf(n) == n % SlotCount

BeginFrame ==
    /\ node = "up" /\ frames < MaxFrames
    /\ node' = "writing" /\ frames' = frames + 1
    /\ slots' = [slots EXCEPT ![object][SlotOf(count + 1)] = Torn]
    /\ UNCHANGED <<object, present, phase, seqs, count, known, wire, inbox>> /\ Host

\* The sequence number follows the data, the sample follows both.
PublishFrame ==
    LET n == count + 1
    IN  /\ node = "writing"
        /\ node' = "up" /\ count' = n
        /\ slots' = [slots EXCEPT ![object][SlotOf(n)] = n]
        /\ seqs' = [seqs EXCEPT ![object][SlotOf(n)] = n]
        /\ wire' = [object |-> object, seq |-> n, first |-> FALSE]
        /\ UNCHANGED <<object, present, phase, frames, known, inbox>> /\ Host

\* It unregisters its stream and removes its object, ...
NodeStops ==
    /\ node = "up" /\ known
    /\ node' = "down" /\ present' = 0 /\ known' = FALSE
    /\ inbox' = Append(inbox, [type |-> "unregistered"])
    /\ UNCHANGED <<object, phase, seqs, slots, count, frames, wire>> /\ Host

\* ... or leaves the first undone and perhaps the second.
NodeDies ==
    /\ node # "down"
    /\ node' = "down" /\ present' \in {0, present}
    /\ UNCHANGED <<object, phase, seqs, slots, count, frames, known, wire, inbox>> /\ Host

-----------------------------------------------------------------------------
(* The subscriber's thread: onTopicData.                                    *)

\* A sample replaces the one that waits (coalesce_key), of which there is one at most.
Waiting == {i \in DOMAIN inbox : inbox[i].type = "data"}
Others == IF Waiting = {} THEN inbox ELSE RemoveAt(inbox, CHOOSE i \in Waiting : TRUE)

pushData(sample) == inbox' = Append(Others, [type |-> "data", sample |-> sample])

\* It is the first of its stream, or the clock of a node that was started again has
\* gone back.  The rate limit passes every first sample and some others.
onTopicData ==
    /\ wire # NoSample /\ wire' = NoSample
    /\ IF ~subscribed THEN UNCHANGED <<first, heard, inbox>>
       ELSE /\ first' = FALSE /\ heard' = wire.object
            /\ \E isFirst \in {first, first \/ heard # wire.object} :
                   \/ pushData([wire EXCEPT !.first = isFirst])
                   \/ ~isFirst /\ UNCHANGED inbox
    /\ UNCHANGED <<nodeVars, subscribed, batch, active, viewVars, readerVars, switches>>

-----------------------------------------------------------------------------
(* The UI thread.                                                           *)

Free == reading.step = "idle"

\* resetTopicData("camera_data")
After(reset, was, initial) == [v \in Views |-> IF reset THEN initial ELSE was[v]]

ResetViews ==
    /\ lastSeq' = After(TRUE, lastSeq, 0) /\ lastOf' = After(TRUE, lastOf, 0)
    /\ pending' = After(TRUE, pending, NoSample)
    /\ dirty' = After(TRUE, dirty, FALSE) /\ rendered' = After(TRUE, rendered, FALSE)
    /\ shown' = After(TRUE, shown, NoFrame) /\ fetched' = After(TRUE, fetched, NoFetch)

\* All that is there is taken at once, and the event loop waits until it is handled.
DrainInbox ==
    /\ Free /\ batch = << >> /\ inbox # << >>
    /\ batch' = inbox /\ inbox' = << >>
    /\ UNCHANGED <<nodeVars, wire, subscribed, first, heard, active, viewVars, readerVars,
                   switches>>

Handling(type) == Free /\ batch # << >> /\ Head(batch).type = type /\ batch' = Tail(batch)

HandleRegistered ==
    /\ Handling("registered")
    /\ ResetViews
    /\ subscribed' = TRUE /\ first' = TRUE /\ wire' = NoSample
    /\ UNCHANGED <<nodeVars, heard, inbox, active, readerVars, switches>>

HandleUnregistered ==
    /\ Handling("unregistered")
    /\ subscribed' = FALSE /\ wire' = NoSample
    /\ UNCHANGED <<nodeVars, first, heard, inbox, active, viewVars, readerVars, switches>>

\* So that the frame a sample announces is newer than the last one.
Raised(last, requested) == IF requested > last THEN requested - 1 ELSE last

\* flushPendingCameraFrames, updateVideoFrameFromSharedMemory: v's pending sample.
Flush(v, sample, last, of) ==
    /\ lastSeq' = [last EXCEPT ![v] = Raised(last[v], sample.seq)]
    /\ lastOf' = [of EXCEPT ![v] = IF lastSeq'[v] # last[v] THEN sample.object ELSE @]
    /\ reading' = [Idle EXCEPT !.step = "attach", !.view = v]

\* Mutant: what comes too soon after the last picture is dropped.
Forgets(marks, v) == marks

\* It waits for the timer.
Keeps(marks, v) == [marks EXCEPT ![v] = TRUE]

\* handleCameraData of the view on top.  The first picture after a reset is drawn at
\* once, a later one if 41 ms have passed.
HandleData ==
    LET sample == Head(batch).sample
        v == active
        Left(was, initial) == After(sample.first, was, initial)
        late == Left(rendered, FALSE)
    IN  /\ Handling("data")
        /\ pending' = [Left(pending, NoSample) EXCEPT ![v] = [sample EXCEPT !.first = FALSE]]
        /\ shown' = Left(shown, NoFrame) /\ fetched' = Left(fetched, NoFetch)
        /\ \/ /\ dirty' = [Left(dirty, FALSE) EXCEPT ![v] = FALSE]
              /\ rendered' = [late EXCEPT ![v] = TRUE]
              /\ Flush(v, sample, Left(lastSeq, 0), Left(lastOf, 0))
           \/ /\ late[v] /\ rendered' = late
              /\ dirty' = Keeps(Left(dirty, FALSE), v)
              /\ lastSeq' = Left(lastSeq, 0) /\ lastOf' = Left(lastOf, 0)
              /\ UNCHANGED reading
        /\ UNCHANGED <<nodeVars, wire, subscribed, first, heard, inbox, active, mapped,
                       layout, switches>>

\* camera_preview_timer_
Timer(v) ==
    /\ Free /\ batch = << >> /\ dirty[v]
    /\ dirty' = [dirty EXCEPT ![v] = FALSE] /\ rendered' = [rendered EXCEPT ![v] = TRUE]
    /\ Flush(v, pending[v], lastSeq, lastOf)
    /\ UNCHANGED <<nodeVars, topicVars, active, pending, shown, fetched, mapped, layout, switches>>

SwitchTab ==
    /\ Free /\ batch = << >> /\ switches < MaxSwitches
    /\ switches' = switches + 1
    /\ active' \in Views \ {active}
    /\ UNCHANGED <<nodeVars, topicVars, viewVars, readerVars>>

\* resetSubscribedTopicViews, when a script has ended.
ScriptEnds ==
    /\ Free /\ subscribed /\ switches < MaxSwitches
    /\ switches' = switches + 1
    /\ ResetViews
    /\ UNCHANGED <<nodeVars, topicVars, active, readerVars>>

-----------------------------------------------------------------------------
(* The UI thread in readLatestFrame.                                        *)

Reads == UNCHANGED <<nodeVars, topicVars, active, switches>>

\* Mutant: a mapping is used as long as there is one.
StillMapped(v) == mapped[v] # 0

\* The object that the name leads to is the one that is mapped.
SameObject(v) == mapped[v] # 0 /\ mapped[v] = present

\* What a reader takes an object for that has no header yet.
LayoutOf(o) == IF phase[o] = "ready" THEN "versioned" ELSE "legacy"

\* The name leads nowhere, or to an object that is still empty: the reader is
\* detached and the view says that no frame is available.
AttachFails(v) ==
    /\ present # 0 => ~SameObject(v) /\ phase[present] = "empty"
    /\ mapped' = [mapped EXCEPT ![v] = 0]
    /\ reading' = Idle
    /\ UNCHANGED layout

Attach(v) ==
    /\ present # 0
    /\ \/ SameObject(v) /\ UNCHANGED <<mapped, layout>>
       \/ /\ ~SameObject(v) /\ phase[present] # "empty"
          /\ mapped' = [mapped EXCEPT ![v] = present]
          /\ layout' = [layout EXCEPT ![v] = LayoutOf(present)]
    /\ reading' = [reading EXCEPT !.step = "scan", !.seq = lastSeq[v]]

attach ==
    /\ reading.step = "attach"
    /\ AttachFails(reading.view) \/ Attach(reading.view)
    /\ UNCHANGED viewVars /\ Reads

Mapped == mapped[reading.view]

Newer(seq) == seq > reading.seq

\* One slot after the other.
Scan ==
    LET seq == seqs[Mapped][reading.slot]
        seen == IF Newer(seq) THEN [reading EXCEPT !.latest = reading.slot, !.seq = seq]
                ELSE reading
    IN  /\ reading.step = "scan" /\ layout[reading.view] = "versioned"
        /\ reading' = IF reading.slot + 1 \in Slots THEN [seen EXCEPT !.slot = @ + 1]
                      ELSE IF seen.latest \in Slots THEN [seen EXCEPT !.step = "copy"]
                      ELSE Idle
        /\ UNCHANGED <<viewVars, mapped, layout>> /\ Reads

\* The header read as sequence numbers leads to a frame without a height.
Misread ==
    /\ reading.step = "scan" /\ layout[reading.view] = "legacy"
    /\ reading' = Idle
    /\ UNCHANGED <<viewVars, mapped, layout>> /\ Reads

\* The sizes of a frame that is being written may be seen to be wrong, or not.
Copy ==
    /\ reading.step = "copy"
    /\ \/ reading' = [reading EXCEPT !.step = "verify",
                                     !.content = slots[Mapped][reading.latest]]
       \/ slots[Mapped][reading.latest] = Torn /\ reading' = Idle
    /\ UNCHANGED <<viewVars, mapped, layout>> /\ Reads

\* Mutant: the sequence number is not looked at again.
TakesAny == TRUE

Verified == seqs[Mapped][reading.latest] = reading.seq

\* A frame whose number has not changed is fetched: its number is used up, also if it
\* cannot be decoded, which leaves the view with the picture it had.
Verify ==
    LET v == reading.view
        picture == [object |-> Mapped, seq |-> reading.seq, content |-> reading.content,
                    racing |-> slots[Mapped][reading.latest] = Torn]
    IN  /\ reading.step = "verify"
        /\ IF Verified
           THEN /\ lastSeq' = [lastSeq EXCEPT ![v] = reading.seq]
                /\ lastOf' = [lastOf EXCEPT ![v] = Mapped]
                /\ \E decoded \in BOOLEAN :
                      /\ fetched' = [fetched EXCEPT ![v] = [object |-> Mapped, seq |-> reading.seq,
                                                           decoded |-> decoded]]
                      /\ shown' = IF decoded THEN [shown EXCEPT ![v] = picture] ELSE shown
           ELSE UNCHANGED <<lastSeq, lastOf, fetched, shown>>
        /\ reading' = Idle
        /\ UNCHANGED <<pending, dirty, rendered, mapped, layout>> /\ Reads

-----------------------------------------------------------------------------
Node == NodeStarts \/ Register \/ MakeObject \/ BeginFrame \/ PublishFrame \/ NodeStops \/ NodeDies
readLatestFrame == attach \/ Scan \/ Misread \/ Copy \/ Verify
HandleMessage == DrainInbox \/ HandleRegistered \/ HandleUnregistered \/ HandleData

Next == \/ Node \/ onTopicData \/ HandleMessage \/ (\E v \in Views : Timer(v))
        \/ SwitchTab \/ ScriptEnds \/ readLatestFrame

Spec == Init /\ [][Next]_vars

-----------------------------------------------------------------------------
(* Properties.                                                              *)

\* Every variable keeps its range, and what is mapped has a size.
TypeOK ==
    /\ object \in 0..MaxObjects /\ node \in {"down", "making", "up", "writing"}
    /\ present \in 0..object
    /\ phase \in [Objects -> {"none", "empty", "sized", "ready"}]
    /\ seqs \in [Objects -> [Slots -> 0..MaxFrames]]
    /\ slots \in [Objects -> [Slots -> 0..Torn]]
    /\ count \in 0..frames /\ frames \in 0..MaxFrames /\ known \in BOOLEAN /\ subscribed \in BOOLEAN /\ first \in BOOLEAN
    /\ heard \in 0..object /\ active \in Views
    /\ lastSeq \in [Views -> 0..MaxFrames] /\ lastOf \in [Views -> 0..object]
    /\ dirty \in [Views -> BOOLEAN] /\ rendered \in [Views -> BOOLEAN]
    /\ \A v \in Views : mapped[v] # 0 => phase[mapped[v]] \in {"sized", "ready"}
    /\ layout \in [Views -> {"versioned", "legacy"}]

\* A picture is the whole frame of its number, unless the node had begun to write
\* over that when the sequence number was looked at again (camera_shared_memory.cpp:216):
\* that look, of which docs say that it keeps out every overwritten frame
\* (学习记录.md:440), lets no other torn picture through.
WholeUnlessRacing == \A v \in Views : shown[v].content = shown[v].seq \/ shown[v].racing

\* A sample that its view has dealt with has been followed by its frame, or a newer
\* one, as long as that frame is there, unless the view has fetched such a frame and
\* could not decode it: neither the rate limit nor a read that found no frame may lose
\* the last frame of a camera that then is still.  A view whose count is of an earlier
\* run of the node is not in this: see the README.
RequestServed ==
    \A v \in Views :
        LET sample == pending[v]
            Answers(frame) == frame.object = present /\ frame.seq >= sample.seq
        IN  /\ Free /\ ~dirty[v] /\ sample # NoSample
            /\ sample.object = present /\ mapped[v] = present
            /\ layout[v] = "versioned" /\ lastOf[v] \in {0, present}
            /\ slots[present][SlotOf(sample.seq)] = sample.seq
            => Answers(shown[v]) \/ (Answers(fetched[v]) /\ ~fetched[v].decoded)

\* A view goes from frame to newer frame until it is reset, and no view shows a frame
\* of an object that was replaced after one of the new object has been seen, whoever
\* has that mapped (camera_shared_memory.cpp:52-72, test_camera_shared_memory_reader.cpp).
NeverBack ==
    [][\A v \in Views : shown'[v] \notin {shown[v], NoFrame} =>
          /\ shown[v] # NoFrame => shown'[v].seq > shown[v].seq
          /\ \A w \in Views : shown'[v].object >= shown[w].object]_vars

=============================================================================
