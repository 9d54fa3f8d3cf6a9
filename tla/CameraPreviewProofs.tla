------------------------ MODULE CameraPreviewProofs ------------------------
(***************************************************************************)
(* The preview for any number of slots, views, frames and runs of the node.*)
(* WholeUnlessRacing is the argument of a seqlock with its first half      *)
(* missing: a slot holds the frame of its number or is being written; its  *)
(* number only grows; so a number that is unchanged after the copy says    *)
(* that no frame has been completed in the slot meanwhile, but not that    *)
(* none has been begun.                                                    *)
(*                                                                         *)
(* RequestServed follows a sample from the wire to the view (SamplesAre,   *)
(* SamplesOrdered), the ring it speaks of (Rings), the number that the     *)
(* view counts from (Counts) and the scan (ReadingAhead, Service).  A read *)
(* that fails late was overtaken by a whole turn of the ring, and so was   *)
(* the frame of the sample (Overtaken).  These speak of the frame that was *)
(* fetched; the one that is shown is the same if it could be decoded, and  *)
(* an older one if not (ShownFollows).                                     *)
(***************************************************************************)
EXTENDS CameraPreview, TLAPS

\* The numbers of an object grow with its node's, and it has none before its node.
Numbers ==
    /\ object \in Nat /\ count \in Nat
    /\ seqs \in [Objects -> [Slots -> Nat]]
    /\ slots \in [Objects -> [Slots -> Nat]]
    /\ \A s \in Slots : object \in Objects => seqs[object][s] <= count
    /\ \A o \in Objects, s \in Slots : o > object => seqs[o][s] = 0

\* A slot holds the frame of its number, or part of another.
SlotsFollow ==
    \A o \in Objects, s \in Slots : slots[o][s] \in {seqs[o][s], Torn}

Pictures == [Views -> [object : Nat, seq : Nat, content : Nat, racing : BOOLEAN]]
Fetches == [Views -> [object : Nat, seq : Nat, decoded : BOOLEAN]]

\* What the readers have mapped is there.
MappingsOK ==
    /\ present \in 0..object
    /\ mapped \in [Views -> Nat] /\ \A v \in Views : mapped[v] <= object
    /\ shown \in Pictures /\ fetched \in Fetches
    /\ object <= MaxObjects /\ active \in Views

\* Where the reader looks at the memory.
Fetching == {"scan", "copy", "verify"}

\* A number seen in a slot is not more than what the slot has now.
SeenIsPast ==
    /\ reading = [step |-> reading.step, view |-> reading.view, slot |-> reading.slot,
                  latest |-> reading.latest, seq |-> reading.seq, content |-> reading.content]
    /\ reading.view \in Views /\ reading.step \in Fetching \union {"idle", "attach"}
    /\ reading.step \in Fetching => Mapped # 0 /\ reading.slot \in Slots
    /\ reading.step = "attach" => reading.slot = 0 /\ reading.latest = SlotCount
    /\ reading.step \in {"copy", "verify"} => reading.latest \in Slots
    /\ reading.step \in Fetching /\ reading.latest \in Slots
         => reading.seq \in Nat /\ reading.seq <= seqs[Mapped][reading.latest]

\* What has been copied is the frame seen, unless its slot has been used again.
CopyIsSeen ==
    reading.step = "verify"
      => /\ reading.content \in Nat
         /\ seqs[Mapped][reading.latest] = reading.seq
              => reading.content = reading.seq \/ slots[Mapped][reading.latest] = Torn

Inv == Numbers /\ SlotsFollow /\ MappingsOK /\ SeenIsPast /\ CopyIsSeen /\ WholeUnlessRacing

\* The node changes neither the views nor the readers, and the numbers of its slots grow.
NodeDoes ==
    /\ UNCHANGED <<active, viewVars, readerVars>>
    /\ object' >= object
    /\ \A o \in Objects, s \in Slots :
          o <= object =>
             \/ seqs'[o][s] = seqs[o][s] /\ slots'[o][s] \in {slots[o][s], Torn}
             \/ seqs'[o][s] > seqs[o][s]

LEMMA NodeStepDoes ==
    ASSUME Inv, Node
    PROVE  Numbers' /\ SlotsFollow' /\ present' \in 0..object' /\ object' <= MaxObjects
           /\ NodeDoes
<1> USE PreviewAssumption DEF Objects
<1>1. Torn \in Nat BY DEF Torn
<1>2. CASE NodeStarts
  <2>1. /\ object' = object + 1 /\ object' \in Nat /\ object' <= MaxObjects
        /\ present' = object' /\ count' = 0 /\ UNCHANGED <<seqs, slots, active, viewVars, readerVars>>
    BY <1>2 DEF NodeStarts, Host, Inv, Numbers
  <2>2. Numbers' BY <2>1 DEF Inv, Numbers
  <2> QED BY <2>1, <2>2 DEF Inv, SlotsFollow, NodeDoes, Torn, Numbers
<1>3. CASE Register \/ MakeObject \/ NodeStops \/ NodeDies
  <2>1. /\ UNCHANGED <<object, count, seqs, slots, active, viewVars, readerVars>>
        /\ present' \in {0, present}
    BY <1>3 DEF Register, MakeObject, NodeStops, NodeDies, Host
  <2>2. Numbers' BY <2>1 DEF Inv, Numbers
  <2>3. SlotsFollow' BY <2>1 DEF Inv, SlotsFollow, Torn
  <2>4. object \in Nat /\ object <= MaxObjects /\ present \in 0..object
    BY DEF Inv, Numbers, MappingsOK
  <2>5. present' \in 0..object' /\ object' <= MaxObjects BY <2>1, <2>4
  <2>6. NodeDoes BY <2>1, <2>4 DEF NodeDoes
  <2> QED BY <2>2, <2>3, <2>5, <2>6
<1>4. CASE BeginFrame
  <2>1. /\ UNCHANGED <<object, present, count, seqs, active, viewVars,
                     readerVars>>
        /\ slots' = [slots EXCEPT ![object][SlotOf(count + 1)] = Torn]
    BY <1>4 DEF BeginFrame, Host
  <2>2. \A o \in Objects, s \in Slots : slots'[o][s] \in {slots[o][s], Torn}
    BY <2>1 DEF Inv, Numbers
  <2>3. slots' \in [Objects -> [Slots -> Nat]] BY <1>1, <2>1 DEF Inv, Numbers
  <2>4. Numbers' BY <2>1, <2>3 DEF Inv, Numbers
  <2>5. SlotsFollow' BY <2>1, <2>2 DEF Inv, SlotsFollow, Torn
  <2>6. NodeDoes BY <2>1, <2>2 DEF Inv, Numbers, NodeDoes
  <2> QED BY <2>1, <2>4, <2>5, <2>6 DEF Inv, MappingsOK
<1>5. CASE PublishFrame
  <2> DEFINE n == count + 1
             k == SlotOf(n)
  <2>1. /\ UNCHANGED <<object, present, active, viewVars, readerVars>> /\ count' = n
        /\ slots' = [slots EXCEPT ![object][k] = n] /\ seqs' = [seqs EXCEPT ![object][k] = n]
    BY <1>5 DEF PublishFrame, Host
  <2>2. n \in Nat /\ count < n BY DEF Inv, Numbers
  <2> HIDE DEF n, k
  <2>3. /\ slots' \in [Objects -> [Slots -> Nat]] /\ seqs' \in [Objects -> [Slots -> Nat]]
    BY <2>1, <2>2 DEF Inv, Numbers
  <2>4. \A o \in Objects, s \in Slots :
           \/ seqs'[o][s] = seqs[o][s] /\ slots'[o][s] = slots[o][s]
           \/ o = object /\ seqs'[o][s] = n /\ slots'[o][s] = n
    BY <2>1 DEF Inv, Numbers
  <2>5. Numbers'
    <3>1. ASSUME NEW s \in Slots, object \in Objects PROVE seqs'[object][s] <= n
      <4>1. seqs[object][s] \in Nat /\ seqs[object][s] <= count /\ count \in Nat
        BY <3>1 DEF Inv, Numbers
      <4>2. seqs'[object][s] \in {seqs[object][s], n} BY <2>4, <3>1
      <4> QED BY <2>2, <4>1, <4>2
    <3>2. ASSUME NEW o \in Objects, NEW s \in Slots, o > object PROVE seqs'[o][s] = 0
      <4>1. object \in Nat /\ o \in Nat BY DEF Inv, Numbers, Objects
      <4>2. o # object BY <3>2, <4>1
      <4>3. seqs'[o][s] = seqs[o][s] BY <2>4, <4>2
      <4> QED BY <3>2, <4>3 DEF Inv, Numbers
    <3> QED BY <2>1, <2>2, <2>3, <3>1, <3>2 DEF Inv, Numbers
  <2>6. SlotsFollow' BY <2>4 DEF Inv, SlotsFollow, Torn
  <2>7. NodeDoes
    <3>1. \A s \in Slots : object \in Objects => n > seqs[object][s]
      BY <2>2 DEF Inv, Numbers
    <3> QED BY <2>1, <2>4, <3>1 DEF Inv, Numbers, NodeDoes
  <2> QED BY <2>1, <2>5, <2>6, <2>7 DEF Inv, MappingsOK
<1> QED BY <1>2, <1>3, <1>4, <1>5 DEF Node

\* What a reader has seen stays true while the node writes.
LEMMA NodeStepKeeps ==
    ASSUME Inv, Node
    PROVE  Inv'
<1> USE PreviewAssumption
<1>1. /\ Numbers' /\ SlotsFollow' /\ present' \in 0..object' /\ object' <= MaxObjects
      /\ NodeDoes
  BY NodeStepDoes
<1>2. UNCHANGED <<mapped, shown, fetched, reading>> BY <1>1 DEF NodeDoes, viewVars, readerVars
<1>3. MappingsOK' BY <1>1, <1>2 DEF Inv, MappingsOK, NodeDoes, Numbers
<1>4. reading.step \in Fetching => Mapped \in Objects /\ Mapped <= object
  <2>1. /\ reading.view \in Views /\ mapped[reading.view] \in Nat
        /\ mapped[reading.view] <= object
    BY DEF Inv, SeenIsPast, MappingsOK
  <2>2. reading.step \in Fetching => mapped[reading.view] # 0
    BY DEF Inv, SeenIsPast, Mapped
  <2>3. object \in Nat /\ object <= MaxObjects BY DEF Inv, Numbers, MappingsOK
  <2> QED BY <2>1, <2>2, <2>3 DEF Mapped, Objects
<1>5. SeenIsPast'
  <2>1. ASSUME reading.step \in Fetching, reading.latest \in Slots
        PROVE  reading.seq <= seqs'[Mapped][reading.latest]
    <3>1. /\ reading.seq \in Nat /\ reading.seq <= seqs[Mapped][reading.latest]
          /\ Mapped \in Objects /\ Mapped <= object
      BY <1>4, <2>1 DEF Inv, SeenIsPast
    <3>2. /\ seqs[Mapped][reading.latest] \in Nat /\ seqs'[Mapped][reading.latest] \in Nat
      BY <1>1, <2>1, <3>1 DEF Inv, Numbers
    <3>3. seqs'[Mapped][reading.latest] >= seqs[Mapped][reading.latest]
      BY <1>1, <2>1, <3>1, <3>2 DEF NodeDoes
    <3> QED BY <3>1, <3>2, <3>3
  <2> QED BY <1>2, <2>1 DEF Inv, SeenIsPast, Mapped
<1>6. CopyIsSeen'
  <2> SUFFICES ASSUME reading.step = "verify"
               PROVE  /\ reading.content \in Nat
                      /\ seqs'[Mapped][reading.latest] = reading.seq
                           => \/ reading.content = reading.seq
                              \/ slots'[Mapped][reading.latest] = Torn
    BY <1>2 DEF CopyIsSeen, Mapped
  <2>1. /\ Mapped \in Objects /\ Mapped <= object /\ reading.latest \in Slots
        /\ reading.seq \in Nat /\ reading.seq <= seqs[Mapped][reading.latest]
    BY <1>4 DEF Inv, SeenIsPast, Fetching
  <2>2. \/ /\ seqs'[Mapped][reading.latest] = seqs[Mapped][reading.latest]
           /\ slots'[Mapped][reading.latest] \in {slots[Mapped][reading.latest], Torn}
        \/ seqs'[Mapped][reading.latest] > seqs[Mapped][reading.latest]
    BY <1>1, <2>1 DEF NodeDoes
  <2>3. seqs[Mapped][reading.latest] \in Nat /\ seqs'[Mapped][reading.latest] \in Nat
    BY <1>1, <2>1 DEF Inv, Numbers
  <2> QED BY <2>1, <2>2, <2>3 DEF Inv, CopyIsSeen
<1>7. WholeUnlessRacing' BY <1>2 DEF Inv, WholeUnlessRacing
<1> QED BY <1>1, <1>3, <1>5, <1>6, <1>7 DEF Inv

\* The memory and what is mapped stay, and so does what is shown, or it is cleared.
Undisturbed ==
    /\ UNCHANGED <<object, count, seqs, slots, present, mapped>> /\ active' \in Views
    /\ shown' \in Pictures /\ fetched' \in Fetches
    /\ \A v \in Views : shown'[v] \in {shown[v], NoFrame}

LEMMA UndisturbedKeeps ==
    ASSUME Inv, Undisturbed
    PROVE  Numbers' /\ SlotsFollow' /\ MappingsOK' /\ WholeUnlessRacing'
<1>1. Numbers' /\ SlotsFollow' /\ MappingsOK'
  BY DEF Inv, Undisturbed, Numbers, SlotsFollow, MappingsOK
<1>2. WholeUnlessRacing' BY DEF Inv, Undisturbed, WholeUnlessRacing, NoFrame
<1> QED BY <1>1, <1>2

Clears(reset) == shown' = After(reset, shown, NoFrame) /\ fetched' = After(reset, fetched, NoFetch)

LEMMA AfterClears ==
    ASSUME Inv, NEW reset, Clears(reset)
    PROVE  /\ shown' \in Pictures /\ fetched' \in Fetches
           /\ \A v \in Views : shown'[v] \in {shown[v], NoFrame}
BY DEF Inv, MappingsOK, Clears, After, NoFrame, NoFetch, Pictures, Fetches

\* The UI thread outside readLatestFrame, and the subscriber's.
LEMMA HostStepKeeps ==
    ASSUME Inv,
           \/ onTopicData \/ DrainInbox \/ HandleRegistered \/ HandleUnregistered \/ HandleData
           \/ (\E v \in Views : Timer(v)) \/ SwitchTab \/ ScriptEnds
    PROVE  Inv'
<1> USE PreviewAssumption
<1>1. CASE onTopicData \/ DrainInbox \/ HandleUnregistered \/ SwitchTab
  <2>1. UNCHANGED <<nodeVars, viewVars, readerVars>> /\ active' \in Views
    BY <1>1 DEF onTopicData, DrainInbox, HandleUnregistered, SwitchTab, Handling, Inv, MappingsOK
  <2>2. Undisturbed BY <2>1 DEF nodeVars, viewVars, readerVars, Undisturbed, Inv, MappingsOK
  <2>3. reading' = reading BY <2>1 DEF readerVars
  <2>4. SeenIsPast' /\ CopyIsSeen'
    BY <2>2, <2>3 DEF Inv, SeenIsPast, CopyIsSeen, Undisturbed, Mapped
  <2> QED BY <2>2, <2>4, UndisturbedKeeps DEF Inv
<1>2. CASE HandleRegistered \/ ScriptEnds
  <2>1. UNCHANGED <<nodeVars, active, readerVars>> /\ Clears(TRUE)
    BY <1>2 DEF HandleRegistered, ScriptEnds, Handling, ResetViews, Clears
  <2>2. Undisturbed BY <2>1, AfterClears DEF nodeVars, readerVars, Undisturbed, Inv, MappingsOK
  <2>3. reading' = reading BY <2>1 DEF readerVars
  <2>4. SeenIsPast' /\ CopyIsSeen'
    BY <2>2, <2>3 DEF Inv, SeenIsPast, CopyIsSeen, Undisturbed, Mapped
  <2> QED BY <2>2, <2>4, UndisturbedKeeps DEF Inv
<1>3. CASE HandleData \/ (\E v \in Views : Timer(v))
  <2>1. /\ UNCHANGED <<nodeVars, active, mapped>> /\ Free
        /\ \E reset : Clears(reset)
    <3>1. CASE HandleData
      BY <3>1 DEF HandleData, Handling, Clears
    <3>2. CASE \E v \in Views : Timer(v)
      <4>1. UNCHANGED <<shown, fetched>> BY <3>2 DEF Timer
      <4>2. After(FALSE, shown, NoFrame) = shown /\ After(FALSE, fetched, NoFetch) = fetched
        BY DEF After, Inv, MappingsOK, Pictures, Fetches
      <4> QED BY <3>2, <4>1, <4>2 DEF Timer, Clears
    <3> QED BY <1>3, <3>1, <3>2
  <2>2. \/ reading' = reading
        \/ \E v \in Views : reading' = [Idle EXCEPT !.step = "attach", !.view = v]
    <3>1. CASE HandleData
      BY <3>1 DEF HandleData, Flush, Inv, MappingsOK
    <3> QED BY <1>3, <3>1 DEF Timer, Flush
  <2>3. Undisturbed BY <2>1, AfterClears DEF nodeVars, Undisturbed, Inv, MappingsOK
  <2>4. SeenIsPast' /\ CopyIsSeen'
    BY <2>2, <2>3 DEF Inv, SeenIsPast, CopyIsSeen, Undisturbed, Mapped, Idle, Fetching
  <2> QED BY <2>3, <2>4, UndisturbedKeeps DEF Inv
<1> QED BY <1>1, <1>2, <1>3

LEMMA SawNewer ==
    ASSUME NEW k, NEW n, NEW x, Inv, x = [reading EXCEPT !.latest = k, !.seq = n]
    PROVE  x = [step |-> reading.step, view |-> reading.view, slot |-> reading.slot,
                latest |-> k, seq |-> n, content |-> reading.content]
<1>1. reading = [step |-> reading.step, view |-> reading.view, slot |-> reading.slot,
                 latest |-> reading.latest, seq |-> reading.seq, content |-> reading.content]
  BY DEF Inv, SeenIsPast
<1> QED BY <1>1

\* The five steps of readLatestFrame.
LEMMA ReaderStepKeeps ==
    ASSUME Inv, readLatestFrame
    PROVE  Inv'
<1> USE PreviewAssumption
<1>1. UNCHANGED <<nodeVars, topicVars, active, switches>>
  BY DEF readLatestFrame, attach, Scan, Misread, Copy, Verify, Reads
<1>2. Numbers' /\ SlotsFollow'
  BY <1>1 DEF nodeVars, Inv, Numbers, SlotsFollow
<1> DEFINE v == reading.view
<1>3. v \in Views /\ mapped[v] \in Nat /\ mapped[v] <= object /\ object \in Nat
  BY DEF Inv, Numbers, MappingsOK, SeenIsPast
<1>5. CASE attach
  <2>1. /\ UNCHANGED <<shown, fetched>>
        /\ \/ mapped' = [mapped EXCEPT ![v] = 0] /\ reading' = Idle
           \/ /\ present # 0
              /\ \/ mapped' = mapped /\ mapped[v] = present
                 \/ mapped' = [mapped EXCEPT ![v] = present]
              /\ reading' = [reading EXCEPT !.step = "scan", !.seq = lastSeq[v]]
    BY <1>5 DEF attach, AttachFails, Attach, SameObject, viewVars
  <2>2. MappingsOK'
    <3>1. present \in 0..object /\ mapped \in [Views -> Nat] /\ \A w \in Views : mapped[w] <= object
      BY DEF Inv, MappingsOK
    <3>2. mapped' = mapped \/ \E m \in 0..object : mapped' = [mapped EXCEPT ![v] = m]
      BY <1>3, <2>1, <3>1
    <3>3. mapped' \in [Views -> Nat] /\ \A w \in Views : mapped'[w] <= object
      BY <1>3, <3>1, <3>2
    <3> QED BY <1>1, <2>1, <3>3 DEF nodeVars, Inv, MappingsOK
  <2>3. reading.step = "attach" BY <1>5 DEF attach
  <2>4. SeenIsPast' /\ CopyIsSeen'
    <3>1. CASE reading' = Idle
      BY <3>1 DEF Idle, SeenIsPast, CopyIsSeen, Fetching
    <3>2. CASE /\ present # 0
               /\ \/ mapped' = mapped /\ mapped[v] = present
                  \/ mapped' = [mapped EXCEPT ![v] = present]
               /\ reading' = [reading EXCEPT !.step = "scan", !.seq = lastSeq[v]]
      <4>1. mapped'[v] = present BY <1>3, <3>2 DEF Inv, MappingsOK
      <4>2. /\ reading'.step = "scan" /\ reading'.view = v /\ reading'.slot = 0
            /\ reading'.latest = SlotCount /\ reading'.seq = lastSeq[v]
            /\ reading' = [step |-> "scan", view |-> v, slot |-> 0, latest |-> SlotCount,
                           seq |-> lastSeq[v], content |-> reading.content]
        BY <2>3, <3>2 DEF Inv, SeenIsPast
      <4>3. SlotCount \notin Slots /\ 0 \in Slots BY DEF Slots
      <4> QED BY <1>3, <3>2, <4>1, <4>2, <4>3 DEF SeenIsPast, CopyIsSeen, Fetching, Mapped
    <3> QED BY <2>1, <3>1, <3>2
  <2>5. WholeUnlessRacing' BY <2>1 DEF Inv, WholeUnlessRacing
  <2> QED BY <1>2, <2>2, <2>4, <2>5 DEF Inv
<1>6. CASE Misread
  <2>1. UNCHANGED <<shown, fetched, mapped>> /\ reading' = Idle BY <1>6 DEF Misread, viewVars
  <2>2. MappingsOK' /\ WholeUnlessRacing'
    BY <1>1, <2>1 DEF nodeVars, Inv, MappingsOK, WholeUnlessRacing
  <2>3. SeenIsPast' /\ CopyIsSeen' BY <2>1 DEF Idle, SeenIsPast, CopyIsSeen, Fetching
  <2> QED BY <1>2, <2>2, <2>3 DEF Inv
<1>7. CASE Scan
  <2> DEFINE seq == seqs[Mapped][reading.slot]
             seen == IF Newer(seq) THEN [reading EXCEPT !.latest = reading.slot, !.seq = seq]
                     ELSE reading
  <2>1. /\ UNCHANGED <<shown, fetched, mapped>> /\ reading.step = "scan"
        /\ reading' = IF reading.slot + 1 \in Slots THEN [seen EXCEPT !.slot = @ + 1]
                      ELSE IF seen.latest \in Slots THEN [seen EXCEPT !.step = "copy"]
                      ELSE Idle
    BY <1>7 DEF Scan, viewVars
  <2>2. MappingsOK' /\ WholeUnlessRacing'
    BY <1>1, <2>1 DEF nodeVars, Inv, MappingsOK, WholeUnlessRacing
  <2>3. Mapped # 0 /\ Mapped = mapped[v] /\ Mapped \in Objects /\ reading.slot \in Slots
    BY <1>3, <2>1 DEF Inv, SeenIsPast, Fetching, Mapped, MappingsOK, Objects
  <2>4. seq \in Nat BY <2>3 DEF Inv, Numbers
  <2> HIDE DEF seq
  <2>5. /\ seen = [step |-> "scan", view |-> v, slot |-> reading.slot, latest |-> seen.latest,
                   seq |-> seen.seq, content |-> reading.content]
        /\ seen.latest \in Slots => seen.seq \in Nat /\ seen.seq <= seqs[Mapped][seen.latest]
    <3>1. /\ reading = [step |-> "scan", view |-> v, slot |-> reading.slot,
                        latest |-> reading.latest, seq |-> reading.seq,
                        content |-> reading.content]
          /\ reading.latest \in Slots
               => reading.seq \in Nat /\ reading.seq <= seqs[Mapped][reading.latest]
      BY <2>1 DEF Inv, SeenIsPast, Fetching
    <3>2. CASE Newer(seq)
      <4>1. seen = [step |-> "scan", view |-> v, slot |-> reading.slot,
                    latest |-> reading.slot, seq |-> seq, content |-> reading.content]
        <5>1. seen = [reading EXCEPT !.latest = reading.slot, !.seq = seq] BY <3>2
        <5>2. seen = [step |-> reading.step, view |-> reading.view, slot |-> reading.slot,
                      latest |-> reading.slot, seq |-> seq, content |-> reading.content]
          <6> HIDE DEF seen
          <6> QED BY <5>1, SawNewer
        <5> QED BY <2>1, <5>2
      <4> QED BY <2>3, <2>4, <4>1 DEF seq
    <3>3. CASE ~Newer(seq) BY <3>1, <3>3
    <3> QED BY <3>2, <3>3
  <2> HIDE DEF seen
  <2>6. SeenIsPast' /\ CopyIsSeen'
    <3>1. Mapped' = mapped[v] \/ reading' = Idle
      BY <2>1, <2>5 DEF Mapped
    <3>2. CASE reading.slot + 1 \in Slots
      <4>1. reading' = [step |-> "scan", view |-> v, slot |-> reading.slot + 1,
                        latest |-> seen.latest, seq |-> seen.seq, content |-> reading.content]
        BY <2>1, <2>5, <3>2
      <4> QED BY <1>1, <1>3, <2>1, <2>3, <2>5, <3>2, <4>1
              DEF SeenIsPast, CopyIsSeen, Fetching, Mapped, nodeVars
    <3>3. CASE reading.slot + 1 \notin Slots /\ seen.latest \in Slots
      <4>1. reading' = [step |-> "copy", view |-> v, slot |-> reading.slot,
                        latest |-> seen.latest, seq |-> seen.seq, content |-> reading.content]
        BY <2>1, <2>5, <3>3
      <4> QED BY <1>1, <1>3, <2>1, <2>3, <2>5, <3>3, <4>1
              DEF SeenIsPast, CopyIsSeen, Fetching, Mapped, nodeVars
    <3>4. CASE reading' = Idle
      BY <3>4 DEF Idle, SeenIsPast, CopyIsSeen, Fetching
    <3> QED BY <2>1, <3>2, <3>3, <3>4
  <2> QED BY <1>2, <2>2, <2>6 DEF Inv
<1>8. CASE Copy
  <2> DEFINE content == slots[Mapped][reading.latest]
  <2>1. /\ UNCHANGED <<shown, fetched, mapped>> /\ reading.step = "copy"
        /\ reading' = [reading EXCEPT !.step = "verify", !.content = content] \/ reading' = Idle
    BY <1>8 DEF Copy, viewVars
  <2>2. MappingsOK' /\ WholeUnlessRacing'
    BY <1>1, <2>1 DEF nodeVars, Inv, MappingsOK, WholeUnlessRacing
  <2>3. /\ Mapped # 0 /\ Mapped = mapped[v] /\ Mapped \in Objects /\ reading.slot \in Slots
        /\ reading.latest \in Slots
        /\ reading.seq \in Nat /\ reading.seq <= seqs[Mapped][reading.latest]
    BY <1>3, <2>1 DEF Inv, SeenIsPast, Fetching, Mapped, MappingsOK, Objects
  <2>4. content \in Nat /\ content \in {seqs[Mapped][reading.latest], Torn}
    BY <2>3 DEF Inv, Numbers, SlotsFollow
  <2>5. SeenIsPast' /\ CopyIsSeen'
    <3>1. CASE reading' = Idle
      BY <3>1 DEF Idle, SeenIsPast, CopyIsSeen, Fetching
    <3>2. CASE reading' = [reading EXCEPT !.step = "verify", !.content = content]
      <4>1. reading' = [step |-> "verify", view |-> v, slot |-> reading.slot,
                        latest |-> reading.latest, seq |-> reading.seq, content |-> content]
        BY <3>2 DEF Inv, SeenIsPast
      <4> HIDE DEF content
      <4>2. SeenIsPast'
        BY <1>1, <1>3, <2>1, <2>3, <4>1 DEF SeenIsPast, Fetching, Mapped, nodeVars
      <4>3. Mapped' = Mapped BY <2>1, <4>1 DEF Mapped
      <4>4. seqs[Mapped][reading.latest] = reading.seq
              => content = reading.seq \/ slots[Mapped][reading.latest] = Torn
        BY <2>4 DEF content
      <4>5. CopyIsSeen'
        BY <1>1, <2>4, <4>1, <4>3, <4>4 DEF CopyIsSeen, nodeVars
      <4> QED BY <4>2, <4>5
    <3> QED BY <2>1, <3>1, <3>2
  <2> QED BY <1>2, <2>2, <2>5 DEF Inv
<1>9. CASE Verify
  <2> DEFINE picture == [object |-> Mapped, seq |-> reading.seq, content |-> reading.content,
                         racing |-> slots[Mapped][reading.latest] = Torn]
             fetch(decoded) == [object |-> Mapped, seq |-> reading.seq, decoded |-> decoded]
  <2>1. /\ UNCHANGED mapped /\ reading.step = "verify" /\ reading' = Idle
        /\ \/ Verified /\ shown' = [shown EXCEPT ![v] = picture]
           \/ UNCHANGED shown
        /\ \/ \E decoded \in BOOLEAN : fetched' = [fetched EXCEPT ![v] = fetch(decoded)]
           \/ UNCHANGED fetched
    BY <1>9 DEF Verify
  <2>2. /\ Mapped = mapped[v] /\ reading.latest \in Slots /\ reading.seq \in Nat
        /\ reading.content \in Nat
    BY <1>3, <2>1 DEF Inv, SeenIsPast, CopyIsSeen, Fetching, Mapped
  <2>3. /\ picture \in [object : Nat, seq : Nat, content : Nat, racing : BOOLEAN]
        /\ \A decoded \in BOOLEAN :
              fetch(decoded) \in [object : Nat, seq : Nat, decoded : BOOLEAN]
    BY <1>3, <2>2
  <2>4. Verified => picture.content = picture.seq \/ picture.racing
    BY <2>1 DEF Inv, CopyIsSeen, Verified
  <2> HIDE DEF picture, fetch
  <2>5. MappingsOK'
    <3>1. shown' \in Pictures BY <2>1, <2>3 DEF Inv, MappingsOK, Pictures
    <3>2. fetched' \in Fetches
      <4>1. fetched \in Fetches BY DEF Inv, MappingsOK
      <4>2. CASE UNCHANGED fetched BY <4>1, <4>2
      <4>3. ASSUME NEW f \in [object : Nat, seq : Nat, decoded : BOOLEAN],
                   fetched' = [fetched EXCEPT ![v] = f]
            PROVE  fetched' \in Fetches
        BY <4>1, <4>3 DEF Fetches
      <4> QED BY <2>1, <2>3, <4>2, <4>3
    <3> QED BY <1>1, <1>3, <2>1, <3>1, <3>2 DEF nodeVars, Inv, MappingsOK
  <2>6. WholeUnlessRacing'
    BY <1>3, <2>1, <2>4 DEF Inv, MappingsOK, Pictures, WholeUnlessRacing
  <2>7. SeenIsPast' /\ CopyIsSeen' BY <2>1 DEF Idle, SeenIsPast, CopyIsSeen, Fetching
  <2> QED BY <1>2, <2>5, <2>6, <2>7 DEF Inv
<1> QED BY <1>5, <1>6, <1>7, <1>8, <1>9 DEF readLatestFrame

LEMMA StartsWhole == Init => Inv
BY PreviewAssumption DEF Init, Inv, Numbers, SlotsFollow, MappingsOK, SeenIsPast, CopyIsSeen,
   WholeUnlessRacing, Idle, NoFrame, NoFetch, Pictures, Fetches, Fetching, Objects, Slots, Torn

LEMMA StepKeepsWhole ==
    ASSUME Inv, [Next]_vars
    PROVE  Inv'
<1>1. CASE Next
  BY <1>1, NodeStepKeeps, HostStepKeeps, ReaderStepKeeps DEF Next, HandleMessage
<1>2. CASE UNCHANGED vars
  BY <1>2 DEF vars, nodeVars, viewVars, readerVars, Inv, Numbers, SlotsFollow, MappingsOK,
     SeenIsPast, CopyIsSeen, WholeUnlessRacing, Mapped
<1> QED BY <1>1, <1>2

\* A picture is whole unless its slot was being written when it was verified, for any
\* number of slots, frames, views and runs of the node (camera_shared_memory.cpp:157-223).
THEOREM WholeFrames == Spec => []WholeUnlessRacing
<1>1. Init => Inv BY StartsWhole
<1>2. Inv /\ [Next]_vars => Inv' BY StepKeepsWhole
<1> QED BY <1>1, <1>2, PTL DEF Spec, Inv

\* The samples on their way, and the order they came in.
Samples == [object : Nat, seq : Nat, first : BOOLEAN]
Messages == [type : {"registered", "unregistered"}] \union [type : {"data"}, sample : Samples]
DataOf(queue) == {queue[i].sample : i \in {j \in DOMAIN queue : queue[j].type = "data"}}
OnWire == {wire} \ {NoSample}
Held == {pending[v] : v \in Views} \ {NoSample}

Before(s, t) == s.object < t.object \/ (s.object = t.object /\ s.seq <= t.seq)
InOrder(A, B) == \A s \in A, t \in B : Before(s, t)

\* The frame that a sample announces has been in its slot.
Announced(s) ==
    /\ s.object \in Objects /\ s.object <= object /\ s.seq # 0
    /\ s.seq <= seqs[s.object][SlotOf(s.seq)]

SamplesAre ==
    /\ wire \in Samples /\ inbox \in Seq(Messages) /\ batch \in Seq(Messages)
    /\ pending \in [Views -> Samples] /\ first \in BOOLEAN
    /\ \A s \in OnWire \union DataOf(inbox) \union DataOf(batch) \union Held : Announced(s)

OneWaits == \A i, j \in Waiting : i = j

SamplesOrdered ==
    /\ OneWaits
    /\ InOrder(DataOf(inbox) \union DataOf(batch) \union Held, OnWire)
    /\ InOrder(DataOf(inbox) \union DataOf(batch) \union Held, DataOf(inbox))
    /\ InOrder(DataOf(batch) \union Held, DataOf(batch))

\* The ring of an object whose last frame was c.
Ring(o, c) ==
    /\ \A s \in Slots : seqs[o][s] <= c /\ (seqs[o][s] # 0 => SlotOf(seqs[o][s]) = s)
    /\ \A n \in 1..c : seqs[o][SlotOf(n)] >= n
    /\ \A s \in Slots : slots[o][s] = Torn => s = SlotOf(c + 1)

Rings ==
    /\ frames \in 0..MaxFrames /\ count <= frames /\ (node = "writing" => count < frames)
    /\ node # "down" => object # 0
    /\ object # 0 => Ring(object, count)
    /\ \A o \in Objects : \E c \in 0..MaxFrames : Ring(o, c)
    /\ \A o \in Objects, s \in Slots : o > object => slots[o][s] = 0

\* What a view counts from: its picture, or a number below that of the sample it holds.
CountsFrom(last, of, sample, picture) ==
    /\ picture.seq <= last /\ (of = 0 => last = 0)
    /\ of # 0 => \/ picture.object = of /\ picture.seq = last
                 \/ sample.object > of
                 \/ sample.object = of /\ sample.seq > last

Counts ==
    /\ present \in {0, object}
    /\ lastSeq \in [Views -> Nat] /\ lastOf \in [Views -> Nat] /\ dirty \in [Views -> BOOLEAN]
    /\ layout \in [Views -> {"versioned", "legacy"}]
    /\ \A v \in Views : /\ fetched[v].object <= object
                        /\ CountsFrom(lastSeq[v], lastOf[v], pending[v], fetched[v])

\* A fetch looks for what is newer than the last frame, and no view has seen a newer object.
ReadingAhead ==
    LET v == reading.view
    IN  /\ reading.step # "idle" => lastSeq[v] + 1 >= pending[v].seq
        /\ reading.step \in Fetching =>
              /\ \A w \in Views : fetched[w].object <= Mapped
              /\ reading.latest \notin Slots => reading.seq = lastSeq[v]
              /\ reading.latest \in Slots => /\ reading.seq > lastSeq[v]
                                             /\ SlotOf(reading.seq) = reading.latest

\* v's sample can still be fetched by a reader that does not count in an earlier object.
Wanted(v) ==
    LET s == pending[v]
    IN  /\ ~dirty[v] /\ s # NoSample /\ mapped[v] = s.object /\ layout[v] = "versioned"
        /\ lastOf[v] \in {0, s.object} /\ slots[s.object][SlotOf(s.seq)] = s.seq

Served(v) == fetched[v].object = pending[v].object /\ fetched[v].seq >= pending[v].seq

\* What is wanted is served, or it is being fetched and cannot be missed.
Service ==
    \A v \in Views : Wanted(v) /\ ~Served(v) =>
        /\ reading.step # "idle" /\ reading.view = v
        /\ reading.step = "scan" /\ reading.slot > SlotOf(pending[v].seq)
              => reading.latest \in Slots

\* A view shows what it has fetched last, or something older.
ShownFollows ==
    \A v \in Views :
        /\ shown[v].object <= fetched[v].object /\ shown[v].seq <= fetched[v].seq
        /\ fetched[v].decoded => /\ shown[v].object = fetched[v].object
                                 /\ shown[v].seq = fetched[v].seq

PreviewInv ==
    /\ Inv /\ ShownFollows /\ SamplesAre /\ SamplesOrdered /\ Rings /\ Counts /\ ReadingAhead /\ Service

-----------------------------------------------------------------------------
(* Frames and slots.                                                        *)

LEMMA SlotOfIsSlot ==
    ASSUME NEW n \in Nat
    PROVE  SlotOf(n) \in Slots /\ \E q \in Nat : n = SlotCount * q + SlotOf(n)
<1> USE PreviewAssumption
<1>1. SlotOf(n) \in 0 .. SlotCount - 1 BY SMT DEF SlotOf
<1>2. n = SlotCount * (n \div SlotCount) + SlotOf(n) BY SMTT(30) DEF SlotOf
<1>3. n \div SlotCount \in Nat BY SMT
<1> QED BY <1>1, <1>2, <1>3 DEF Slots

\* The next frame of a slot comes a whole turn later.
LEMMA SlotGap ==
    ASSUME NEW a \in Nat, NEW b \in Nat, a < b, SlotOf(a) = SlotOf(b)
    PROVE  a + SlotCount <= b
<1> USE PreviewAssumption
<1>1. PICK p \in Nat : a = SlotCount * p + SlotOf(a) BY SlotOfIsSlot
<1>2. PICK q \in Nat : b = SlotCount * q + SlotOf(a) BY SlotOfIsSlot
<1>3. SlotOf(a) \in Nat BY SlotOfIsSlot DEF Slots
<1>4. q > p
  <2>1. ASSUME q <= p PROVE FALSE
    <3>1. PICK d \in Nat : p = q + d BY <2>1
    <3>2. SlotCount * p = SlotCount * q + SlotCount * d BY <3>1, SMTT(30)
    <3>3. SlotCount * d \in Nat BY SMTT(30)
    <3> QED BY <1>1, <1>2, <1>3, <3>2, <3>3
  <2> QED BY <2>1
<1>5. PICK d \in Nat : q = p + 1 + d BY <1>4
<1>6. SlotCount * q = SlotCount * p + SlotCount + SlotCount * d BY <1>5, SMTT(30)
<1>7. SlotCount * d \in Nat BY SMTT(30)
<1> QED BY <1>1, <1>2, <1>3, <1>6, <1>7

LEMMA SlotComesAgain ==
    ASSUME NEW n \in Nat
    PROVE  SlotOf(n + SlotCount) = SlotOf(n)
<1> USE PreviewAssumption
<1>1. PICK r \in 0 .. SlotCount - 1 : r = SlotOf(n) BY SlotOfIsSlot DEF Slots
<1>2. PICK q \in Nat : n = SlotCount * q + r BY <1>1, SlotOfIsSlot
<1>3. n + SlotCount = SlotCount * (q + 1) + r
  <2>1. SlotCount * (q + 1) = SlotCount * q + SlotCount BY SMTT(30)
  <2>2. SlotCount * q \in Nat BY SMTT(30)
  <2> QED BY <1>2, <2>1, <2>2
<1>4. (n + SlotCount) % SlotCount = r
  <2>1. ASSUME NEW x \in Nat, NEW y \in Nat, x = SlotCount * y + r
        PROVE  x % SlotCount = r
    BY <2>1, SMTT(30)
  <2>2. n + SlotCount \in Nat /\ q + 1 \in Nat OBVIOUS
  <2> QED BY <1>3, <2>1, <2>2
<1>5. SlotOf(n + SlotCount) = r BY <1>4 DEF SlotOf
<1> QED BY <1>1, <1>5

\* Once the slot of a frame has been begun again, or holds another frame, every frame
\* up to that one is lost.
LEMMA Overtaken ==
    ASSUME Inv, Rings, NEW o \in Objects, NEW q \in Nat, NEW r \in Nat, q # 0, q <= r,
           r <= seqs[o][SlotOf(r)],
           slots[o][SlotOf(r)] = Torn \/ seqs[o][SlotOf(r)] # r
    PROVE  slots[o][SlotOf(q)] # q
<1> USE PreviewAssumption
<1>1. PICK c \in 0..MaxFrames : Ring(o, c) BY DEF Rings
<1>2. SlotOf(r) \in Slots /\ SlotOf(q) \in Slots BY SlotOfIsSlot
<1>3. seqs[o][SlotOf(r)] \in Nat /\ r <= c
  <2>1. seqs[o][SlotOf(r)] \in Nat BY <1>2 DEF Inv, Numbers
  <2> QED BY <1>1, <1>2, <2>1 DEF Ring
<1>4. q # r \/ slots[o][SlotOf(r)] # Torn => q + SlotCount <= c
  <2>1. CASE seqs[o][SlotOf(r)] # r
    <3>1. PICK n \in Nat : n = seqs[o][SlotOf(r)] BY <1>3
    <3>2. n > r /\ n <= c /\ SlotOf(n) = SlotOf(r) BY <1>1, <1>2, <2>1, <3>1 DEF Ring
    <3>3. r + SlotCount <= n BY <3>2, SlotGap
    <3> QED BY <3>2, <3>3
  <2>2. CASE slots[o][SlotOf(r)] = Torn
    <3>1. SlotOf(r) = SlotOf(c + 1) BY <1>1, <1>2, <2>2 DEF Ring
    <3>2. r + SlotCount <= c + 1 BY <1>3, <3>1, SlotGap
    <3> QED BY <2>2, <3>2
  <2> QED BY <2>1, <2>2
<1>5. CASE q + SlotCount <= c
  <2>1. seqs[o][SlotOf(q + SlotCount)] >= q + SlotCount BY <1>1, <1>5 DEF Ring
  <2>2. seqs[o][SlotOf(q)] >= q + SlotCount BY <2>1, SlotComesAgain
  <2>3. slots[o][SlotOf(q)] \in {seqs[o][SlotOf(q)], Torn} BY <1>2 DEF Inv, SlotsFollow
  <2>4. seqs[o][SlotOf(q)] \in Nat BY <1>2 DEF Inv, Numbers
  <2> QED BY <1>5, <2>2, <2>3, <2>4 DEF Torn
<1>6. CASE q = r /\ slots[o][SlotOf(r)] = Torn
  BY <1>3, <1>6 DEF Torn
<1> QED BY <1>4, <1>5, <1>6

-----------------------------------------------------------------------------
(* What the node does to the rings and to the samples.                      *)

LEMMA NodeKeepsRings ==
    ASSUME Inv, Rings, Node
    PROVE  Rings'
<1> USE PreviewAssumption DEF Objects
<1>1. object \in Nat /\ count \in Nat /\ frames \in 0..MaxFrames /\ object <= MaxObjects
  BY DEF Inv, Numbers, MappingsOK, Rings
<1>2. CASE Register \/ MakeObject \/ NodeStops \/ NodeDies
  <2>1. UNCHANGED <<object, count, frames, seqs, slots>>
    BY <1>2 DEF Register, MakeObject, NodeStops, NodeDies
  <2>2. /\ node' = "writing" => node = "writing"
        /\ node' # "down" => node # "down"
    BY <1>2 DEF Register, MakeObject, NodeStops, NodeDies
  <2> QED BY <2>1, <2>2 DEF Rings, Ring
<1>3. CASE NodeStarts
  <2>1. /\ object' = object + 1 /\ object' \in Objects /\ count' = 0
        /\ node' = "making" /\ UNCHANGED <<seqs, slots, frames>>
    BY <1>1, <1>3 DEF NodeStarts
  <2>2. /\ \A s \in Slots : seqs[object + 1][s] = 0 /\ slots[object + 1][s] = 0
        /\ \A o \in Objects, s \in Slots : o > object + 1 => slots[o][s] = 0
    BY <1>1, <2>1 DEF Inv, Numbers, Rings
  <2>3. Ring(object, count)' BY <2>1, <2>2 DEF Ring, Torn
  <2> QED BY <1>1, <2>1, <2>2, <2>3 DEF Rings, Ring
<1>4. CASE BeginFrame
  <2> DEFINE k == SlotOf(count + 1)
  <2>1. /\ UNCHANGED <<object, count, seqs>> /\ node = "up" /\ node' = "writing"
        /\ frames' = frames + 1 /\ frames < MaxFrames
        /\ slots' = [slots EXCEPT ![object][k] = Torn]
    BY <1>4 DEF BeginFrame
  <2>2. object # 0 /\ object \in Objects /\ Ring(object, count) BY <1>1, <2>1 DEF Rings
  <2>3. \A o \in Objects, s \in Slots :
           slots'[o][s] # slots[o][s] => o = object /\ s = k
    BY <2>1 DEF Inv, Numbers
  <2> HIDE DEF k
  <2>4. Ring(object, count)' BY <2>1, <2>2, <2>3 DEF Ring, k
  <2>5. \A o \in Objects : \E c \in 0..MaxFrames : Ring(o, c)'
    <3> TAKE o \in Objects
    <3>1. CASE o = object BY <1>1, <2>1, <2>4, <3>1 DEF Rings
    <3>2. CASE o # object
      <4>1. PICK c \in 0..MaxFrames : Ring(o, c) BY DEF Rings
      <4>2. Ring(o, c)' BY <2>1, <2>3, <3>2, <4>1 DEF Ring
      <4> QED BY <4>2
    <3> QED BY <3>1, <3>2
  <2>6. \A o \in Objects, s \in Slots : o > object => slots'[o][s] = 0
    BY <1>1, <2>3 DEF Rings
  <2> QED BY <1>1, <2>1, <2>2, <2>4, <2>5, <2>6 DEF Rings
<1>5. CASE PublishFrame
  <2>0. PICK n \in Nat, k \in Slots : n = count + 1 /\ k = SlotOf(n) BY <1>1, SlotOfIsSlot
  <2>1. /\ UNCHANGED <<object, frames>> /\ node = "writing" /\ node' = "up" /\ count' = n
        /\ slots' = [slots EXCEPT ![object][k] = n] /\ seqs' = [seqs EXCEPT ![object][k] = n]
    BY <1>5, <2>0 DEF PublishFrame
  <2>2. n # 0 /\ n <= frames /\ n < Torn
    BY <1>1, <2>0, <2>1 DEF Rings, Torn
  <2>3. object # 0 /\ object \in Objects /\ Ring(object, count) BY <1>1, <2>1 DEF Rings
  <2>4. /\ \A o \in Objects, s \in Slots :
              o # object \/ s # k => slots'[o][s] = slots[o][s] /\ seqs'[o][s] = seqs[o][s]
        /\ slots'[object][k] = n /\ seqs'[object][k] = n
    BY <2>1, <2>2, <2>3 DEF Inv, Numbers
  <2>5. \A s \in Slots : seqs[object][s] \in Nat BY <2>3 DEF Inv, Numbers
  <2>6. ASSUME NEW o \in Objects, o = object PROVE Ring(o, n)'
    <3>1. \A s \in Slots : seqs'[object][s] <= n
                           /\ (seqs'[object][s] # 0 => SlotOf(seqs'[object][s]) = s)
      <4> TAKE s \in Slots
      <4>1. CASE s = k BY <2>0, <2>2, <2>4, <4>1
      <4>2. CASE s # k BY <1>1, <2>0, <2>2, <2>3, <2>4, <2>5, <4>2 DEF Ring
      <4> QED BY <4>1, <4>2
    <3>2. ASSUME NEW m \in 1..n PROVE seqs'[object][SlotOf(m)] >= m
      <4>1. SlotOf(m) \in Slots BY SlotOfIsSlot, <2>2
      <4>2. CASE SlotOf(m) = k BY <2>2, <2>4, <4>2
      <4>3. CASE SlotOf(m) # k
        <5>1. m \in 1..count BY <1>1, <2>0, <2>2, <4>3
        <5> QED BY <2>3, <2>4, <4>1, <4>3, <5>1 DEF Ring
      <4> QED BY <4>2, <4>3
    <3>3. \A s \in Slots : slots'[object][s] # Torn
      <4> TAKE s \in Slots
      <4>1. CASE s = k BY <2>2, <2>4, <4>1
      <4>2. CASE s # k BY <2>0, <2>3, <2>4, <4>2 DEF Ring
      <4> QED BY <4>1, <4>2
    <3>4. \A m \in 1..n : seqs'[object][SlotOf(m)] >= m BY <3>2
    <3> QED BY <2>1, <2>6, <3>1, <3>3, <3>4 DEF Ring, Torn
  <2>7. Ring(object, count)'
    <3>1. PICK o \in Objects : o = object BY <2>3
    <3>2. Ring(o, n)' BY <2>6, <3>1
    <3> QED BY <2>1, <3>1, <3>2 DEF Ring
  <2>8. \A o \in Objects : \E c \in 0..MaxFrames : Ring(o, c)'
    <3> TAKE o \in Objects
    <3>1. CASE o = object
      <4>1. n \in 0..MaxFrames BY <1>1, <2>1, <2>2
      <4> QED BY <2>6, <3>1, <4>1
    <3>2. CASE o # object
      <4>1. PICK c \in 0..MaxFrames : Ring(o, c) BY DEF Rings
      <4>2. Ring(o, c)' BY <2>4, <3>2, <4>1, SlotOfIsSlot DEF Ring
      <4> QED BY <4>2
    <3> QED BY <3>1, <3>2
  <2>9. \A o \in Objects, s \in Slots : o > object => slots'[o][s] = 0
    BY <1>1, <2>4 DEF Rings
  <2> QED BY <1>1, <2>1, <2>2, <2>3, <2>7, <2>8, <2>9 DEF Rings
<1> QED BY <1>2, <1>3, <1>4, <1>5 DEF Node

\* An announced frame stays announced, and a slot that has lost it does not get it back.
LEMMA NodeKeepsAnnounced ==
    ASSUME Inv, Rings, Node, NEW s \in Samples, Announced(s)
    PROVE  /\ Announced(s)'
           /\ slots'[s.object][SlotOf(s.seq)] = s.seq => slots[s.object][SlotOf(s.seq)] = s.seq
<1> USE PreviewAssumption
<1> DEFINE o == s.object
           k == SlotOf(s.seq)
<1>1. s.seq \in Nat /\ o \in Objects /\ o <= object /\ s.seq # 0 /\ k \in Slots
      /\ s.seq <= seqs[o][k]
  BY SlotOfIsSlot DEF Samples, Announced
<1>2. /\ object \in Nat /\ object' \in Nat /\ o \in Nat /\ object' >= object
      /\ seqs[o][k] \in Nat /\ seqs'[o][k] \in Nat
      /\ \/ seqs'[o][k] = seqs[o][k] /\ slots'[o][k] \in {slots[o][k], Torn}
         \/ seqs'[o][k] > seqs[o][k]
      /\ slots'[o][k] \in {seqs'[o][k], Torn}
  <2>1. Numbers' /\ SlotsFollow' /\ NodeDoes BY NodeStepDoes
  <2> HIDE DEF o, k
  <2>2. object \in Nat /\ object' \in Nat /\ o \in Nat /\ object' >= object
    BY <1>1, <2>1 DEF Inv, Numbers, NodeDoes, Objects
  <2>3. seqs[o][k] \in Nat /\ seqs'[o][k] \in Nat BY <1>1, <2>1 DEF Inv, Numbers
  <2>4. slots'[o][k] \in {seqs'[o][k], Torn} BY <1>1, <2>1 DEF SlotsFollow
  <2>5. \/ seqs'[o][k] = seqs[o][k] /\ slots'[o][k] \in {slots[o][k], Torn}
        \/ seqs'[o][k] > seqs[o][k]
    BY <1>1, <2>1 DEF NodeDoes
  <2> QED BY <2>2, <2>3, <2>4, <2>5
<1>3. Announced(s)' BY <1>1, <1>2 DEF Announced
<1>4. PICK c \in 0..MaxFrames : Ring(o, c) BY <1>1 DEF Rings
<1>5. s.seq < Torn
  <2>1. seqs[o][k] <= c BY <1>1, <1>4 DEF Ring
  <2> QED BY <1>1, <1>2, <2>1 DEF Torn
<1>6. slots'[o][k] = s.seq => slots[o][k] = s.seq
  <2> HIDE DEF o, k
  <2> QED BY <1>1, <1>2, <1>5
<1> QED BY <1>3, <1>6

-----------------------------------------------------------------------------
(* The samples on their way.                                                *)

LEMMA DataOfAppend ==
    ASSUME NEW q \in Seq(Messages), NEW m \in Messages
    PROVE  /\ Append(q, m) \in Seq(Messages)
           /\ m.type # "data" => DataOf(Append(q, m)) = DataOf(q)
           /\ m.type = "data" => DataOf(Append(q, m)) = DataOf(q) \union {m.sample}
<1> DEFINE r == Append(q, m)
<1>1. /\ r \in Seq(Messages) /\ Len(r) = Len(q) + 1 /\ Len(q) \in Nat
      /\ \A i \in 1..Len(q) : r[i] = q[i]
      /\ r[Len(q) + 1] = m
  OBVIOUS
<1>2. DOMAIN q = 1..Len(q) /\ DOMAIN r = DOMAIN q \union {Len(q) + 1} BY <1>1
<1> HIDE DEF r
<1>3. DataOf(r) = {q[i].sample : i \in {j \in DOMAIN q : q[j].type = "data"}}
                    \union (IF m.type = "data" THEN {m.sample} ELSE {})
  BY <1>1, <1>2 DEF DataOf
<1> QED BY <1>1, <1>3 DEF DataOf, r

LEMMA DataOfTail ==
    ASSUME NEW q \in Seq(Messages), q # << >>
    PROVE  /\ Tail(q) \in Seq(Messages) /\ DataOf(Tail(q)) \subseteq DataOf(q)
           /\ Head(q) \in Messages
           /\ Head(q).type = "data" => Head(q).sample \in DataOf(q)
<1>1. /\ Tail(q) \in Seq(Messages) /\ Head(q) = q[1] /\ 1 \in DOMAIN q /\ q[1] \in Messages
      /\ \A i \in DOMAIN Tail(q) : i + 1 \in DOMAIN q /\ Tail(q)[i] = q[i + 1]
  OBVIOUS
<1> DEFINE t == Tail(q)
<1> HIDE DEF t
<1>2. DataOf(t) \subseteq DataOf(q) BY <1>1 DEF DataOf, t
<1> QED BY <1>1, <1>2 DEF DataOf, t

LEMMA OthersAre ==
    ASSUME inbox \in Seq(Messages), OneWaits
    PROVE  Others \in Seq(Messages) /\ DataOf(Others) = {}
<1>1. CASE Waiting = {}
  BY <1>1 DEF Others, Waiting, DataOf
<1>2. CASE Waiting # {}
  <2>1. PICK k \in Waiting : Others = RemoveAt(inbox, k) BY <1>2 DEF Others
  <2>2. k \in 1..Len(inbox) /\ \A i \in 1..Len(inbox) : i # k => inbox[i].type # "data"
    BY <2>1 DEF OneWaits, Waiting
  <2>3. /\ Others \in Seq(Messages)
        /\ \A i \in DOMAIN Others :
              \E j \in 1..Len(inbox) : j # k /\ Others[i] = inbox[j]
    <3>1. PICK n \in Nat : n = Len(inbox) /\ k \in 1..n BY <2>2
    <3>2. PICK a : a = SubSeq(inbox, 1, k - 1) OBVIOUS
    <3>3. PICK b : b = SubSeq(inbox, k + 1, n) OBVIOUS
    <3>4. /\ a \in Seq(Messages) /\ Len(a) = k - 1
          /\ \A i \in 1 .. k - 1 : a[i] = inbox[i]
      BY <3>1, <3>2
    <3>5. /\ b \in Seq(Messages) /\ Len(b) = n - k
          /\ \A i \in 1 .. n - k : b[i] = inbox[k + i]
      BY <3>1, <3>3
    <3>6. Others = a \o b BY <2>1, <3>1, <3>2, <3>3 DEF RemoveAt
    <3>7. /\ Others \in Seq(Messages) /\ DOMAIN Others = 1 .. n - 1
          /\ \A i \in 1 .. k - 1 : Others[i] = a[i]
          /\ \A i \in k .. n - 1 : Others[i] = b[i - k + 1]
      BY <3>1, <3>4, <3>5, <3>6
    <3>8. ASSUME NEW i \in 1 .. n - 1
          PROVE  \E j \in 1..n : j # k /\ Others[i] = inbox[j]
      <4>1. CASE i < k
        <5>1. i \in 1 .. k - 1 BY <3>1, <4>1
        <5>2. Others[i] = inbox[i] BY <3>4, <3>7, <5>1
        <5> QED BY <3>1, <4>1, <5>2
      <4>2. CASE i >= k
        <5>1. Others[i] = inbox[i + 1] BY <3>1, <3>5, <3>7, <4>2
        <5> QED BY <3>1, <4>2, <5>1
      <4> QED BY <3>1, <4>1, <4>2
    <3> QED BY <3>1, <3>7, <3>8
  <2> QED BY <2>2, <2>3 DEF DataOf
<1> QED BY <1>1, <1>2

LEMMA BeforeIsOrder ==
    ASSUME NEW r \in Samples, NEW s \in Samples, NEW t \in Samples
    PROVE  /\ Before(s, s)
           /\ Before(r, s) /\ Before(s, t) => Before(r, t)
BY DEF Before, Samples

LEMMA DataAreSamples ==
    ASSUME NEW q \in Seq(Messages)
    PROVE  DataOf(q) \subseteq Samples
<1>1. ASSUME NEW i \in DOMAIN q, q[i].type = "data" PROVE q[i].sample \in Samples
  <2>1. q[i] \in Messages BY <1>1
  <2>2. q[i] \in [type : {"data"}, sample : Samples] BY <1>1, <2>1 DEF Messages
  <2> QED BY <2>2
<1> QED BY <1>1 DEF DataOf

\* Samples are only lost, and what was announced stays so.
LEMMA SamplesLost ==
    ASSUME SamplesAre, SamplesOrdered,
           wire' \in Samples, inbox' \in Seq(Messages), batch' \in Seq(Messages),
           pending' \in [Views -> Samples], first' \in BOOLEAN, OneWaits',
           OnWire' \subseteq OnWire, DataOf(inbox)' \subseteq DataOf(inbox),
           DataOf(batch)' \subseteq DataOf(batch), Held' \subseteq Held,
           \A s \in Samples : Announced(s) => Announced(s)'
    PROVE  SamplesAre' /\ SamplesOrdered'
<1>1. OnWire \union DataOf(inbox) \union DataOf(batch) \union Held \subseteq Samples
  BY DataAreSamples DEF SamplesAre, OnWire, Held
<1>2. SamplesAre' BY <1>1 DEF SamplesAre
<1>3. SamplesOrdered'
  BY DEF SamplesOrdered, InOrder, Before
<1> QED BY <1>2, <1>3

LEMMA NodeKeepsSamples ==
    ASSUME Inv, Rings, SamplesAre, SamplesOrdered, Node
    PROVE  SamplesAre' /\ SamplesOrdered'
<1> USE PreviewAssumption
<1>1. UNCHANGED <<batch, pending, first>>
  BY DEF Node, NodeStarts, Register, MakeObject, BeginFrame, PublishFrame, NodeStops, NodeDies,
     Host, viewVars
<1>2. \A s \in Samples : Announced(s) => Announced(s)' BY NodeKeepsAnnounced
<1>3. Held' = Held BY <1>1 DEF Held
<1>4. CASE ~PublishFrame
  <2>1. /\ wire' = wire
        /\ \/ inbox' = inbox
           \/ \E m \in [type : {"registered", "unregistered"}] : inbox' = Append(inbox, m)
    BY <1>4 DEF Node, NodeStarts, Register, MakeObject, BeginFrame, NodeStops, NodeDies
  <2>2. inbox' \in Seq(Messages) /\ DataOf(inbox)' = DataOf(inbox) /\ OneWaits'
    <3>1. CASE inbox' = inbox BY <3>1 DEF SamplesAre, SamplesOrdered, OneWaits, Waiting, DataOf
    <3>2. CASE inbox' # inbox
      <4>1. PICK m \in [type : {"registered", "unregistered"}] : inbox' = Append(inbox, m)
        BY <2>1, <3>2
      <4>2. m \in Messages /\ m.type # "data" BY DEF Messages
      <4>3. inbox' \in Seq(Messages) /\ DataOf(inbox') = DataOf(inbox)
        BY <4>1, <4>2, DataOfAppend DEF SamplesAre
      <4>4. Waiting' = Waiting
        <5>1. /\ inbox \in Seq(Messages) /\ DOMAIN inbox' = DOMAIN inbox \union {Len(inbox) + 1}
              /\ Len(inbox) + 1 \notin DOMAIN inbox
              /\ inbox'[Len(inbox) + 1] = m
              /\ \A i \in DOMAIN inbox : inbox'[i] = inbox[i]
          BY <4>1, <4>2 DEF SamplesAre
        <5> QED BY <4>2, <5>1 DEF Waiting
      <4> QED BY <4>3, <4>4 DEF SamplesOrdered, OneWaits, DataOf
    <3> QED BY <3>1, <3>2
  <2> QED BY <1>1, <1>2, <1>3, <2>1, <2>2, SamplesLost DEF SamplesAre, OnWire, DataOf
<1>5. CASE PublishFrame
  <2>0. PICK n \in Nat : n = count + 1 BY DEF Inv, Numbers
  <2>1. PICK w \in Samples : w = [object |-> object, seq |-> n, first |-> FALSE]
    BY DEF Samples, Inv, Numbers
  <2>2. /\ wire' = w /\ inbox' = inbox /\ object' = object
        /\ seqs' = [seqs EXCEPT ![object][SlotOf(n)] = n] /\ node = "writing"
    BY <1>5, <2>0, <2>1 DEF PublishFrame
  <2>3. object \in Objects /\ Ring(object, count)
    BY <2>2 DEF Rings, Inv, Numbers, MappingsOK, Objects
  <2>4. Announced(w)'
    <3>1. seqs'[object][SlotOf(n)] = n BY <2>2, <2>3, SlotOfIsSlot DEF Inv, Numbers
    <3>2. object <= object /\ n # 0 /\ n <= n BY <2>0 DEF Inv, Numbers
    <3> QED BY <2>0, <2>1, <2>2, <2>3, <3>1, <3>2 DEF Announced
  <2>5. ASSUME NEW s \in Samples, Announced(s) PROVE Before(s, w)
    <3>1. CASE s.object = object
      <4>1. SlotOf(s.seq) \in Slots /\ s.seq \in Nat BY SlotOfIsSlot DEF Samples
      <4>2. /\ s.seq <= seqs[object][SlotOf(s.seq)] /\ seqs[object][SlotOf(s.seq)] <= count
            /\ seqs[object][SlotOf(s.seq)] \in Nat /\ count \in Nat
        BY <2>3, <2>5, <3>1, <4>1 DEF Announced, Ring, Inv, Numbers
      <4> QED BY <2>0, <2>1, <3>1, <4>1, <4>2 DEF Before
    <3>2. CASE s.object # object
      BY <2>1, <2>5, <3>2 DEF Announced, Before, Inv, Numbers, Objects
    <3> QED BY <3>1, <3>2
  <2>6. OnWire \union DataOf(inbox) \union DataOf(batch) \union Held \subseteq Samples
    BY DataAreSamples DEF SamplesAre, OnWire, Held
  <2>7. OnWire' \subseteq {w} /\ DataOf(inbox)' = DataOf(inbox) /\ DataOf(batch)' = DataOf(batch)
    BY <1>1, <2>2 DEF OnWire, DataOf
  <2>8. SamplesAre' BY <1>1, <1>2, <1>3, <2>2, <2>4, <2>6, <2>7 DEF SamplesAre
  <2>9. SamplesOrdered'
    <3>1. OneWaits' BY <2>2 DEF SamplesOrdered, OneWaits, Waiting
    <3>2. \A s \in DataOf(inbox) \union DataOf(batch) \union Held : Before(s, w)
      BY <2>5, <2>6 DEF SamplesAre
    <3> QED BY <1>1, <1>3, <2>2, <2>7, <3>1, <3>2 DEF SamplesOrdered, InOrder, Before
  <2> QED BY <2>8, <2>9
<1> QED BY <1>4, <1>5

\* The view of the tab on top holds the sample from now on.
LEMMA HandledSamples ==
    ASSUME Inv, SamplesAre, SamplesOrdered, HandleData
    PROVE  SamplesAre' /\ SamplesOrdered'
<1>1. PICK s : s = Head(batch).sample OBVIOUS
<1>2. /\ UNCHANGED <<nodeVars, wire, inbox, first>>
      /\ batch # << >> /\ Head(batch).type = "data" /\ batch' = Tail(batch)
      /\ pending' = [After(s.first, pending, NoSample) EXCEPT ![active] = [s EXCEPT !.first = FALSE]]
  BY <1>1 DEF HandleData, Handling
<1>3. s \in Samples /\ s \in DataOf(batch) /\ Announced(s)
      /\ batch' \in Seq(Messages) /\ DataOf(batch') \subseteq DataOf(batch)
  BY <1>1, <1>2, DataOfTail, DataAreSamples DEF SamplesAre
<1>4. PICK t : t = [s EXCEPT !.first = FALSE] OBVIOUS
<1>5. t \in Samples /\ t.object = s.object /\ t.seq = s.seq BY <1>3, <1>4 DEF Samples
<1>6. pending' \in [Views -> Samples] /\ \A v \in Views : pending'[v] \in {pending[v], NoSample, t}
  BY <1>2, <1>4, <1>5 DEF After, SamplesAre, NoSample, Samples
<1>7. Held' \subseteq Held \union {t} BY <1>6 DEF Held
<1>8. UNCHANGED <<OnWire, DataOf(inbox), Waiting>> /\ UNCHANGED <<object, seqs>>
  BY <1>2 DEF nodeVars, OnWire, DataOf, Waiting
<1>9. \A x : Announced(x)' = Announced(x) BY <1>8 DEF Announced
<1>10. Announced(t) BY <1>3, <1>5 DEF Announced
<1>11. SamplesAre'
  <2>1. DataOf(batch)' = DataOf(batch') BY DEF DataOf
  <2> QED BY <1>2, <1>3, <1>6, <1>7, <1>8, <1>9, <1>10, <2>1 DEF SamplesAre
<1>12. SamplesOrdered'
  <2>1. DataOf(batch)' = DataOf(batch') BY DEF DataOf
  <2>2. \A x : Before(t, x) = Before(s, x) BY <1>5 DEF Before
  <2>3. OneWaits' BY <1>8 DEF SamplesOrdered, OneWaits
  <2> QED BY <1>3, <1>7, <1>8, <2>1, <2>2, <2>3 DEF SamplesOrdered, InOrder, Before
<1> QED BY <1>11, <1>12

LEMMA HostKeepsSamples ==
    ASSUME Inv, SamplesAre, SamplesOrdered,
           \/ onTopicData \/ DrainInbox \/ HandleRegistered \/ HandleUnregistered \/ HandleData
           \/ (\E v \in Views : Timer(v)) \/ SwitchTab \/ ScriptEnds \/ readLatestFrame
    PROVE  SamplesAre' /\ SamplesOrdered'
<1>1. UNCHANGED <<object, seqs>>
  BY DEF onTopicData, DrainInbox, HandleRegistered, HandleUnregistered, HandleData, Timer,
     SwitchTab, ScriptEnds, readLatestFrame, attach, Scan, Misread, Copy, Verify, Reads, nodeVars
<1>2. \A s : Announced(s)' = Announced(s) BY <1>1 DEF Announced
<1>3. NoSample \in Samples /\ pending \in [Views -> Samples]
  BY DEF NoSample, Samples, SamplesAre
<1>4. OnWire \union DataOf(inbox) \union DataOf(batch) \union Held \subseteq Samples
  BY DataAreSamples DEF SamplesAre, OnWire, Held
<1>5. CASE DrainInbox
  <2>1. UNCHANGED <<wire, pending, first>> /\ batch = << >> /\ batch' = inbox /\ inbox' = << >>
    BY <1>5 DEF DrainInbox, viewVars
  <2>2. /\ OnWire' = OnWire /\ Held' = Held /\ DataOf(inbox)' = {} /\ Waiting' = {}
        /\ DataOf(batch)' = DataOf(inbox)
    BY <2>1 DEF OnWire, Held, DataOf, Waiting
  <2>3. SamplesAre' BY <1>2, <1>3, <2>1, <2>2 DEF SamplesAre
  <2>4. SamplesOrdered' BY <2>2 DEF SamplesOrdered, OneWaits, InOrder, Before
  <2> QED BY <2>3, <2>4
<1>6. CASE onTopicData
  <2>1. UNCHANGED <<batch, pending>> /\ wire # NoSample /\ wire' = NoSample
         /\ first' \in BOOLEAN
    BY <1>6 DEF onTopicData, viewVars, SamplesAre
  <2>2. OnWire' = {} /\ Held' = Held /\ DataOf(batch)' = DataOf(batch)
    BY <2>1 DEF OnWire, Held, DataOf
  <2>3. CASE inbox' = inbox
    <3>1. DataOf(inbox)' = DataOf(inbox) /\ OneWaits'
      BY <2>3 DEF DataOf, SamplesOrdered, OneWaits, Waiting
    <3> QED BY <1>2, <1>3, <2>1, <2>2, <2>3, <3>1, SamplesLost DEF SamplesAre
  <2>4. CASE inbox' # inbox
    <3>1. PICK isFirst \in BOOLEAN : pushData([wire EXCEPT !.first = isFirst])
      <4>1. \E isFirst \in {first, first \/ heard # wire.object} :
                pushData([wire EXCEPT !.first = isFirst])
        BY <1>6, <2>4 DEF onTopicData
      <4>2. first \in BOOLEAN /\ (first \/ heard # wire.object) \in BOOLEAN BY DEF SamplesAre
      <4> QED BY <4>1, <4>2
    <3>2. PICK s : s = [wire EXCEPT !.first = isFirst] OBVIOUS
    <3>3. s \in Samples /\ s.object = wire.object /\ s.seq = wire.seq /\ wire \in OnWire
      BY <2>1, <3>2 DEF SamplesAre, Samples, OnWire
    <3>4. PICK m : m = [type |-> "data", sample |-> s] OBVIOUS
    <3>5. m \in Messages /\ m.type = "data" /\ m.sample = s BY <3>3, <3>4 DEF Messages
    <3>6. inbox' = Append(Others, m) BY <3>1, <3>2, <3>4 DEF pushData
    <3>7. Others \in Seq(Messages) /\ DataOf(Others) = {}
      BY OthersAre DEF SamplesAre, SamplesOrdered
    <3>8. inbox' \in Seq(Messages) /\ DataOf(inbox') = {s}
      BY <3>5, <3>6, <3>7, DataOfAppend
    <3>9. OneWaits'
      <4>1. /\ DOMAIN inbox' = 1 .. Len(Others) + 1
            /\ \A i \in 1..Len(Others) : inbox'[i] = Others[i] /\ i \in DOMAIN Others
        BY <3>5, <3>6, <3>7
      <4>2. \A i \in 1..Len(Others) : inbox'[i].type # "data" BY <3>7, <4>1 DEF DataOf
      <4>3. Len(Others) \in Nat BY <3>7
      <4> QED BY <4>1, <4>2, <4>3 DEF OneWaits, Waiting
    <3>10. Announced(s) BY <3>3 DEF SamplesAre, Announced
    <3>11. DataOf(inbox)' = {s} BY <3>8 DEF DataOf
    <3>12. SamplesAre' BY <1>2, <1>3, <2>1, <2>2, <3>8, <3>10, <3>11 DEF SamplesAre
    <3>13. SamplesOrdered'
      <4>1. \A x \in DataOf(batch) \union Held : Before(x, s)
        BY <3>3 DEF SamplesOrdered, InOrder, Before
      <4>2. Before(s, s) BY <3>3, BeforeIsOrder
      <4> QED BY <2>2, <3>9, <3>11, <4>1, <4>2 DEF SamplesOrdered, InOrder, Before
    <3> QED BY <3>12, <3>13
  <2> QED BY <2>3, <2>4
<1>7. CASE HandleRegistered \/ HandleUnregistered
  <2>1. /\ inbox' = inbox /\ wire' = NoSample /\ batch # << >> /\ batch' = Tail(batch)
        /\ first' \in BOOLEAN
        /\ pending' = pending \/ pending' = [v \in Views |-> NoSample]
    BY <1>7 DEF HandleRegistered, HandleUnregistered, Handling, ResetViews, After, viewVars,
       SamplesAre
  <2>2. /\ OnWire' = {} /\ Held' \subseteq Held /\ DataOf(inbox)' = DataOf(inbox) /\ OneWaits'
    BY <2>1 DEF OnWire, Held, DataOf, SamplesOrdered, OneWaits, Waiting
  <2>3. batch' \in Seq(Messages) /\ DataOf(batch') \subseteq DataOf(batch)
    BY <2>1, DataOfTail DEF SamplesAre
  <2>4. DataOf(batch)' = DataOf(batch') BY DEF DataOf
  <2>5. pending' \in [Views -> Samples] BY <1>3, <2>1
  <2> QED BY <1>2, <1>3, <2>1, <2>2, <2>3, <2>4, <2>5, SamplesLost DEF SamplesAre
<1>8. CASE (\E v \in Views : Timer(v)) \/ SwitchTab \/ ScriptEnds \/ readLatestFrame
  <2>1. /\ UNCHANGED <<wire, inbox, batch, first>>
        /\ pending' = pending \/ pending' = [v \in Views |-> NoSample]
    BY <1>8 DEF Timer, SwitchTab, ScriptEnds, ResetViews, After, readLatestFrame, attach, Scan,
       Misread, Copy, Verify, Reads, viewVars, topicVars
  <2>2. /\ OnWire' = OnWire /\ Held' \subseteq Held /\ DataOf(inbox)' = DataOf(inbox)
        /\ DataOf(batch)' = DataOf(batch) /\ OneWaits'
    BY <2>1 DEF OnWire, Held, DataOf, SamplesOrdered, OneWaits, Waiting
  <2>3. pending' \in [Views -> Samples] BY <1>3, <2>1
  <2> QED BY <1>2, <1>3, <2>1, <2>2, <2>3, SamplesLost DEF SamplesAre
<1> QED BY <1>5, <1>6, <1>7, <1>8, HandledSamples

-----------------------------------------------------------------------------
(* What the views count from.                                               *)

LEMMA CountRaised ==
    ASSUME NEW last \in Nat, NEW of \in Nat, NEW s \in Samples, NEW picture,
           picture.seq \in Nat, s.seq # 0 => s.object # 0, CountsFrom(last, of, s, picture)
    PROVE  /\ Raised(last, s.seq) \in Nat /\ Raised(last, s.seq) + 1 >= s.seq
           /\ CountsFrom(Raised(last, s.seq),
                         IF Raised(last, s.seq) # last THEN s.object ELSE of, s, picture)
BY DEF CountsFrom, Raised, Samples

LEMMA CountLater ==
    ASSUME NEW last \in Nat, NEW of \in Nat, NEW r \in Samples, NEW s \in Samples, NEW picture,
           CountsFrom(last, of, r, picture), Before(r, s)
    PROVE  CountsFrom(last, of, s, picture)
BY DEF CountsFrom, Before, Samples

\* A view that holds a sample holds one that was announced.
LEMMA HeldIsAnnounced ==
    ASSUME SamplesAre, NEW v \in Views
    PROVE  /\ pending[v] \in Samples
           /\ pending[v] # NoSample => Announced(pending[v])
           /\ pending[v].seq # 0 => pending[v].object # 0
<1>1. pending[v] \in Samples /\ (pending[v] # NoSample => pending[v] \in Held)
  BY DEF SamplesAre, Held
<1>2. pending[v] # NoSample => Announced(pending[v]) BY <1>1 DEF SamplesAre
<1> QED BY PreviewAssumption, <1>1, <1>2 DEF Announced, Objects, NoSample

\* A wanted sample that is not served is ahead of what its view counts from.
LEMMA Behind ==
    ASSUME SamplesAre, Counts, NEW v \in Views, Wanted(v), ~Served(v)
    PROVE  lastSeq[v] < pending[v].seq
<1>1. /\ pending[v] \in Samples /\ pending[v].seq # 0 /\ pending[v].seq \in Nat
      /\ pending[v].object # 0 /\ pending[v].object \in Nat
  BY HeldIsAnnounced DEF Wanted, Announced, Samples
<1>2. lastSeq[v] \in Nat /\ lastOf[v] \in {0, pending[v].object}
      /\ CountsFrom(lastSeq[v], lastOf[v], pending[v], fetched[v])
  BY DEF Counts, Wanted
<1> QED BY <1>1, <1>2 DEF CountsFrom, Served

LEMMA NodeKeepsService ==
    ASSUME PreviewInv, Node
    PROVE  Counts' /\ ReadingAhead' /\ Service'
<1> USE DEF PreviewInv
<1>1. UNCHANGED <<lastSeq, lastOf, pending, dirty, fetched, mapped, layout, reading>>
  BY NodeStepDoes DEF NodeDoes, viewVars, readerVars
<1>2. present' \in {0, object'}
  BY DEF Counts, Node, NodeStarts, Register, MakeObject, BeginFrame, PublishFrame, NodeStops,
     NodeDies
<1>3. \A v \in Views : fetched[v].object <= object'
  <2>1. object' >= object /\ object \in Nat /\ object' \in Nat
    BY NodeStepDoes DEF NodeDoes, Inv, Numbers
  <2> QED BY <2>1 DEF Counts, Inv, MappingsOK, Fetches
<1>4. Counts' BY <1>1, <1>2, <1>3 DEF Counts
<1>5. ReadingAhead' BY <1>1 DEF ReadingAhead, Mapped
<1>6. Service'
  <2>1. ASSUME NEW v \in Views, Wanted(v)' PROVE Wanted(v)
    <3>1. PICK s : s = pending[v] OBVIOUS
    <3>2. s \in Samples /\ Announced(s) BY <1>1, <2>1, <3>1, HeldIsAnnounced DEF Wanted
    <3>3. slots[s.object][SlotOf(s.seq)] = s.seq
      BY <1>1, <2>1, <3>1, <3>2, NodeKeepsAnnounced DEF Wanted
    <3> QED BY <1>1, <2>1, <3>1, <3>3 DEF Wanted
  <2> QED BY <1>1, <2>1 DEF Service, Served
<1> QED BY <1>4, <1>5, <1>6

\* The view takes its sample up: it counts from below that, and begins to fetch.
LEMMA FlushKeeps ==
    ASSUME PreviewInv, NEW v \in Views, Free,
           UNCHANGED <<object, present, slots, mapped, layout>>,
           dirty' \in [Views -> BOOLEAN],
           NEW last \in [Views -> Nat], NEW of \in [Views -> Nat], NEW s \in Samples,
           Flush(v, s, last, of), s.seq # 0 => s.object # 0,
           pending'[v].object = s.object /\ pending'[v].seq = s.seq,
           \A w \in Views : /\ fetched'[w] \in {fetched[w], NoFetch}
                            /\ CountsFrom(last[w], of[w], IF w = v THEN s ELSE pending'[w],
                                          fetched'[w]),
           \A w \in Views : w # v /\ Wanted(w)' => Wanted(w) /\ (Served(w) => Served(w)')
    PROVE  Counts' /\ ReadingAhead' /\ Service'
<1> USE DEF PreviewInv
<1>1. /\ lastSeq' = [last EXCEPT ![v] = Raised(last[v], s.seq)]
      /\ lastOf' = [of EXCEPT ![v] = IF lastSeq'[v] # last[v] THEN s.object ELSE of[v]]
      /\ reading'.step = "attach" /\ reading'.view = v
  BY DEF Flush, Idle
<1>2. \A w \in Views : fetched'[w].seq \in Nat /\ fetched'[w].object <= object
  BY DEF NoFetch, Inv, MappingsOK, Fetches, Numbers, Counts
<1>3. /\ Raised(last[v], s.seq) \in Nat /\ Raised(last[v], s.seq) + 1 >= s.seq
      /\ CountsFrom(Raised(last[v], s.seq),
                    IF Raised(last[v], s.seq) # last[v] THEN s.object ELSE of[v], s, fetched'[v])
  BY <1>2, CountRaised
<1>4. s.object \in Nat BY DEF Samples
<1>5. lastSeq' \in [Views -> Nat] /\ lastOf' \in [Views -> Nat] BY <1>1, <1>3, <1>4
<1>6. \A w \in Views : CountsFrom(lastSeq'[w], lastOf'[w], pending'[w], fetched'[w])
  <2> TAKE w \in Views
  <2>1. CASE w = v BY <1>1, <1>3, <2>1 DEF CountsFrom
  <2>2. CASE w # v BY <1>1, <2>2
  <2> QED BY <2>1, <2>2
<1>7. Counts' BY <1>2, <1>5, <1>6 DEF Counts
<1>8. ReadingAhead' BY <1>1, <1>3 DEF ReadingAhead, Fetching
<1>9. Service'
  <2>1. \A w \in Views : w # v => ~(Wanted(w)' /\ ~Served(w)') BY DEF Service, Free
  <2> QED BY <1>1, <2>1 DEF Service
<1> QED BY <1>7, <1>8, <1>9

\* A message of a camera: the views are reset if it is the first of its stream, and the
\* one on top fetches at once or leaves it to the timer.
LEMMA DataKeepsService ==
    ASSUME PreviewInv, HandleData
    PROVE  Counts' /\ ReadingAhead' /\ Service'
<1> USE DEF PreviewInv
<1>1. PICK s : s = Head(batch).sample OBVIOUS
<1>2. PICK v \in Views : v = active BY DEF Inv, MappingsOK
<1>3. PICK t : t = [s EXCEPT !.first = FALSE] OBVIOUS
<1>4. PICK last : last = After(s.first, lastSeq, 0) OBVIOUS
<1>5. PICK of : of = After(s.first, lastOf, 0) OBVIOUS
<1>6. PICK late : late = After(s.first, rendered, FALSE) OBVIOUS
<1>7. PICK marks : marks = After(s.first, dirty, FALSE) OBVIOUS
<1>8. /\ UNCHANGED <<nodeVars, mapped, layout>> /\ Free
      /\ batch # << >> /\ Head(batch).type = "data"
      /\ pending' = [After(s.first, pending, NoSample) EXCEPT ![v] = t]
      /\ fetched' = After(s.first, fetched, NoFetch)
      /\ \/ dirty' = [marks EXCEPT ![v] = FALSE] /\ Flush(v, s, last, of)
         \/ /\ dirty' = [marks EXCEPT ![v] = TRUE]
            /\ lastSeq' = last /\ lastOf' = of /\ reading' = reading
  BY <1>1, <1>2, <1>3, <1>4, <1>5, <1>6, <1>7 DEF HandleData, Handling, Keeps
<1>9. /\ s \in Samples /\ s \in DataOf(batch) /\ Announced(s)
      /\ t \in Samples /\ t.object = s.object /\ t.seq = s.seq
  <2>1. s \in Samples /\ s \in DataOf(batch) /\ Announced(s)
    BY <1>1, <1>8, DataOfTail, DataAreSamples DEF SamplesAre
  <2> QED BY <1>3, <2>1 DEF Samples
<1>10. s.object # 0 /\ s.object \in Nat /\ s.seq \in Nat
  BY PreviewAssumption, <1>9 DEF Announced, Objects, Samples
<1>11. UNCHANGED <<object, present, slots, mapped, layout>> BY <1>8 DEF nodeVars
<1>12. /\ last \in [Views -> Nat] /\ of \in [Views -> Nat] /\ marks \in [Views -> BOOLEAN]
       /\ \A w \in Views :
             \/ /\ last[w] = lastSeq[w] /\ of[w] = lastOf[w] /\ marks[w] = dirty[w]
                /\ fetched'[w] = fetched[w] /\ (w # v => pending'[w] = pending[w])
             \/ /\ last[w] = 0 /\ of[w] = 0 /\ marks[w] = FALSE
                /\ fetched'[w] = NoFetch /\ (w # v => pending'[w] = NoSample)
  <2>1. /\ lastSeq \in [Views -> Nat] /\ lastOf \in [Views -> Nat] /\ dirty \in [Views -> BOOLEAN]
        /\ pending \in [Views -> Samples] /\ DOMAIN fetched = Views
    BY DEF Counts, SamplesAre, Inv, MappingsOK, Fetches
  <2>2. CASE s.first
    BY <1>4, <1>5, <1>7, <1>8, <2>1, <2>2 DEF After
  <2>3. CASE ~s.first
    BY <1>4, <1>5, <1>7, <1>8, <2>1, <2>3 DEF After
  <2> QED BY <2>2, <2>3
<1>13. pending'[v] = t
  BY <1>8 DEF After, SamplesAre
<1>14. \A w \in Views : /\ fetched'[w] \in {fetched[w], NoFetch}
                        /\ CountsFrom(last[w], of[w], IF w = v THEN s ELSE pending'[w], fetched'[w])
  <2> TAKE w \in Views
  <2>1. CASE of[w] = 0 /\ last[w] = 0 /\ fetched'[w] = NoFetch
    BY <2>1 DEF CountsFrom, NoFetch
  <2>2. CASE /\ last[w] = lastSeq[w] /\ of[w] = lastOf[w]
             /\ fetched'[w] = fetched[w] /\ (w # v => pending'[w] = pending[w])
    <3>1. CountsFrom(last[w], of[w], pending[w], fetched'[w]) BY <2>2 DEF Counts
    <3>2. Before(pending[w], s)
      <4>1. CASE pending[w] = NoSample BY <1>10, <4>1 DEF Before, NoSample
      <4>2. CASE pending[w] # NoSample
        BY <1>9, <4>2 DEF SamplesOrdered, InOrder, Held
      <4> QED BY <4>1, <4>2
    <3>3. CountsFrom(last[w], of[w], s, fetched'[w])
      BY <1>9, <1>12, <3>1, <3>2, CountLater, HeldIsAnnounced
    <3> QED BY <2>2, <3>1, <3>3
  <2> QED BY <1>12, <2>1, <2>2
<1>15. ASSUME NEW w \in Views, w # v, Wanted(w)'
       PROVE  Wanted(w) /\ (Served(w) => Served(w)')
  <2>1. pending'[w] # NoSample BY <1>15 DEF Wanted
  <2>2. /\ last[w] = lastSeq[w] /\ of[w] = lastOf[w] /\ marks[w] = dirty[w]
        /\ fetched'[w] = fetched[w] /\ pending'[w] = pending[w]
    BY <1>12, <1>15, <2>1
  <2>3. dirty'[w] = dirty[w] BY <1>8, <1>12, <1>15, <2>2
  <2>4. lastOf'[w] = lastOf[w]
    <3>1. CASE lastOf' = of BY <2>2, <3>1
    <3>2. CASE Flush(v, s, last, of) BY <1>12, <1>15, <2>2, <3>2 DEF Flush
    <3> QED BY <1>8, <3>1, <3>2
  <2> QED BY <1>11, <1>15, <2>2, <2>3, <2>4 DEF Wanted, Served
<1>16. dirty' \in [Views -> BOOLEAN] BY <1>8, <1>12
<1>17. CASE Flush(v, s, last, of)
  <2>1. Free BY <1>8
  <2>2. last \in [Views -> Nat] /\ of \in [Views -> Nat] BY <1>12
  <2>3. s \in Samples /\ (s.seq # 0 => s.object # 0) BY <1>9, <1>10
  <2>4. pending'[v].object = s.object /\ pending'[v].seq = s.seq BY <1>9, <1>13
  <2>5. \A w \in Views : w # v /\ Wanted(w)' => Wanted(w) /\ (Served(w) => Served(w)')
    BY <1>15
  <2> QED BY <1>11, <1>14, <1>16, <1>17, <2>1, <2>2, <2>3, <2>4, <2>5, FlushKeeps
<1>18. CASE /\ dirty' = [marks EXCEPT ![v] = TRUE]
            /\ lastSeq' = last /\ lastOf' = of /\ reading' = reading
  <2>1. \A w \in Views : CountsFrom(last[w], of[w], pending'[w], fetched'[w])
    <3> TAKE w \in Views
    <3>1. CASE w = v BY <1>9, <1>13, <1>14, <3>1 DEF CountsFrom
    <3>2. CASE w # v BY <1>14, <3>2
    <3> QED BY <3>1, <3>2
  <2>2. \A w \in Views : fetched'[w].object <= object
    BY <1>14 DEF NoFetch, Counts, Inv, Numbers
  <2>3. Counts' BY <1>11, <1>12, <1>16, <1>18, <2>1, <2>2 DEF Counts
  <2>4. ReadingAhead' BY <1>8, <1>18 DEF ReadingAhead, Free, Fetching
  <2>5. Service'
    <3>1. dirty'[v] BY <1>12, <1>18
    <3>2. \A w \in Views : ~(Wanted(w)' /\ ~Served(w)')
      <4> TAKE w \in Views
      <4>1. CASE w = v BY <3>1, <4>1 DEF Wanted
      <4>2. CASE w # v BY <1>8, <1>15, <4>2 DEF Service, Free
      <4> QED BY <4>1, <4>2
    <3> QED BY <3>2 DEF Service
  <2> QED BY <2>3, <2>4, <2>5
<1> QED BY <1>8, <1>17, <1>18

LEMMA HostKeepsService ==
    ASSUME PreviewInv,
           \/ onTopicData \/ DrainInbox \/ HandleRegistered \/ HandleUnregistered
           \/ (\E v \in Views : Timer(v)) \/ SwitchTab \/ ScriptEnds
    PROVE  Counts' /\ ReadingAhead' /\ Service'
<1> USE DEF PreviewInv
<1>1. CASE onTopicData \/ DrainInbox \/ HandleUnregistered \/ SwitchTab
  <2>1. UNCHANGED <<nodeVars, viewVars, readerVars>>
    BY <1>1 DEF onTopicData, DrainInbox, HandleUnregistered, SwitchTab, Handling
  <2>2. UNCHANGED <<object, present, slots, lastSeq, lastOf, pending, dirty, fetched, mapped,
                    layout, reading>>
    BY <2>1 DEF nodeVars, viewVars, readerVars
  <2> QED BY <2>2 DEF Counts, ReadingAhead, Service, Wanted, Served, Mapped
<1>2. CASE HandleRegistered \/ ScriptEnds
  <2>1. UNCHANGED <<nodeVars, readerVars>> /\ ResetViews /\ Free
    BY <1>2 DEF HandleRegistered, ScriptEnds, Handling
  <2>2. UNCHANGED <<object, present, layout, reading>>
    BY <2>1 DEF nodeVars, readerVars
  <2>3. /\ lastSeq' = [v \in Views |-> 0] /\ lastOf' = [v \in Views |-> 0]
        /\ pending' = [v \in Views |-> NoSample] /\ dirty' = [v \in Views |-> FALSE]
        /\ fetched' = [v \in Views |-> NoFetch]
    BY <2>1 DEF ResetViews, After
  <2>4. Counts'
    BY <2>2, <2>3 DEF Counts, CountsFrom, NoFetch, Inv, Numbers
  <2>5. ReadingAhead' BY <2>1, <2>2 DEF ReadingAhead, Free, Fetching
  <2>6. Service' BY <2>3 DEF Service, Wanted
  <2> QED BY <2>4, <2>5, <2>6
<1>3. CASE \E v \in Views : Timer(v)
  <2>1. PICK v \in Views : Timer(v) BY <1>3
  <2>2. /\ Free /\ UNCHANGED <<nodeVars, pending, fetched, mapped, layout>>
        /\ dirty' = [dirty EXCEPT ![v] = FALSE] /\ Flush(v, pending[v], lastSeq, lastOf)
    BY <2>1 DEF Timer
  <2>3. UNCHANGED <<object, present, slots>> BY <2>2 DEF nodeVars
  <2>4. /\ dirty' \in [Views -> BOOLEAN]
        /\ lastSeq \in [Views -> Nat] /\ lastOf \in [Views -> Nat]
    BY <2>2 DEF Counts
  <2>5. PICK s \in Samples : s = pending[v] /\ (s.seq # 0 => s.object # 0)
    BY HeldIsAnnounced
  <2>6. \A w \in Views : w # v /\ Wanted(w)' => Wanted(w) /\ (Served(w) => Served(w)')
    BY <2>2, <2>3, <2>4 DEF Wanted, Served, Flush, Counts
  <2>7. \A w \in Views : CountsFrom(lastSeq[w], lastOf[w], IF w = v THEN s ELSE pending'[w],
                                    fetched'[w])
    BY <2>2, <2>5 DEF Counts
  <2> QED BY <2>2, <2>3, <2>4, <2>5, <2>6, <2>7, FlushKeeps
<1> QED BY <1>1, <1>2, <1>3

-----------------------------------------------------------------------------
(* readLatestFrame.                                                         *)

\* What is where in the reader, and what it has got hold of.
LEMMA ReaderIs ==
    ASSUME PreviewInv, reading.step # "idle"
    PROVE  /\ reading.view \in Views /\ Mapped = mapped[reading.view] /\ Mapped \in Nat
           /\ reading.step \in Fetching =>
                 /\ Mapped \in Objects /\ Mapped <= object /\ reading.slot \in Slots
                 /\ reading.seq \in Nat /\ reading.seq >= lastSeq[reading.view]
                 /\ reading.latest \in Slots => reading.seq <= seqs[Mapped][reading.latest]
<1> USE DEF PreviewInv
<1>1. /\ reading.view \in Views /\ Mapped = mapped[reading.view] /\ Mapped \in Nat
      /\ Mapped <= object /\ object \in Nat /\ object <= MaxObjects
  BY DEF Inv, SeenIsPast, MappingsOK, Mapped, Numbers
<1>2. ASSUME reading.step \in Fetching
      PROVE  /\ Mapped # 0 /\ reading.slot \in Slots
             /\ reading.latest \in Slots => /\ reading.seq \in Nat
                                            /\ reading.seq <= seqs[Mapped][reading.latest]
                                            /\ reading.seq > lastSeq[reading.view]
             /\ reading.latest \notin Slots => reading.seq = lastSeq[reading.view]
  BY <1>2 DEF Inv, SeenIsPast, ReadingAhead
<1>3. lastSeq[reading.view] \in Nat BY <1>1 DEF Counts
<1> QED BY PreviewAssumption, <1>1, <1>2, <1>3 DEF Objects

\* A step of the reader that changes no view and ends the fetch, or goes on with it.
LEMMA ReaderQuiet ==
    ASSUME PreviewInv, readLatestFrame, NEW v \in Views, v = reading.view,
           UNCHANGED <<lastSeq, lastOf, pending, dirty, fetched>>,
           layout' \in [Views -> {"versioned", "legacy"}],
           \A w \in Views : w # v => mapped'[w] = mapped[w] /\ layout'[w] = layout[w],
           reading' = Idle \/ reading'.view = v,
           Wanted(v)' /\ ~Served(v) =>
               /\ reading'.step # "idle"
               /\ reading'.step = "scan" /\ reading'.slot > SlotOf(pending[v].seq)
                     => reading'.latest \in Slots
    PROVE  Counts' /\ Service'
<1> USE DEF PreviewInv
<1>1. reading.step # "idle" /\ UNCHANGED <<object, present, slots>>
  BY DEF readLatestFrame, attach, Scan, Misread, Copy, Verify, Reads, nodeVars
<1>2. Counts' BY <1>1 DEF Counts
<1>3. Service'
  <2> SUFFICES ASSUME NEW w \in Views, Wanted(w)', ~Served(w)'
               PROVE  /\ reading'.step # "idle" /\ reading'.view = w
                      /\ reading'.step = "scan" /\ reading'.slot > SlotOf(pending'[w].seq)
                            => reading'.latest \in Slots
    BY DEF Service
  <2>1. ~Served(w) BY DEF Served
  <2>2. w = v
    <3> SUFFICES ASSUME w # v PROVE FALSE OBVIOUS
    <3>1. Wanted(w) BY <1>1 DEF Wanted
    <3> QED BY <2>1, <3>1 DEF Service
  <2> QED BY <2>1, <2>2 DEF Idle
<1> QED BY <1>2, <1>3

LEMMA AttachKeepsService ==
    ASSUME PreviewInv, attach
    PROVE  Counts' /\ ReadingAhead' /\ Service'
<1> USE DEF PreviewInv
<1>1. /\ UNCHANGED <<lastSeq, lastOf, pending, dirty, fetched, object, present, slots>>
      /\ reading.step = "attach"
  BY DEF attach, viewVars, Reads, nodeVars
<1>0. PICK v \in Views : v = reading.view BY <1>1, ReaderIs
<1>2. mapped \in [Views -> Nat] /\ layout \in [Views -> {"versioned", "legacy"}]
  BY <1>1, ReaderIs DEF Inv, MappingsOK, Counts
<1>3. reading.slot = 0 /\ reading.latest = SlotCount
      /\ reading = [step |-> reading.step, view |-> reading.view, slot |-> reading.slot,
                    latest |-> reading.latest, seq |-> reading.seq, content |-> reading.content]
  BY <1>1 DEF Inv, SeenIsPast
<1>4. readLatestFrame BY DEF readLatestFrame
<1>5. CASE AttachFails(v)
  <2>1. mapped' = [mapped EXCEPT ![v] = 0] /\ reading' = Idle /\ layout' = layout
    BY <1>5 DEF AttachFails
  <2>2. ~Wanted(v)'
    <3>1. mapped'[v] = 0 BY <1>2, <2>1
    <3>2. pending[v] # NoSample => pending[v].object # 0
      BY <1>2, PreviewAssumption, HeldIsAnnounced DEF Announced, Objects
    <3> QED BY <1>1, <3>1, <3>2 DEF Wanted
  <2>3. \A w \in Views : w # v => mapped'[w] = mapped[w] BY <1>2, <2>1
  <2>4. Counts' /\ Service' BY <1>0, <1>1, <1>2, <1>4, <2>1, <2>2, <2>3, ReaderQuiet
  <2>5. ReadingAhead' BY <2>1 DEF ReadingAhead, Idle, Fetching
  <2> QED BY <2>4, <2>5
<1>6. CASE Attach(v)
  <2>1. /\ present # 0
        /\ \/ mapped[v] = present /\ mapped' = mapped /\ layout' = layout
           \/ /\ mapped' = [mapped EXCEPT ![v] = present]
              /\ layout' = [layout EXCEPT ![v] = LayoutOf(present)]
        /\ reading' = [reading EXCEPT !.step = "scan", !.seq = lastSeq[v]]
    BY <1>6 DEF Attach, SameObject
  <2>2. reading' = [step |-> "scan", view |-> v, slot |-> 0, latest |-> SlotCount,
                    seq |-> lastSeq[v], content |-> reading.content]
    BY <1>0, <1>3, <2>1
  <2>3. /\ mapped'[v] = object /\ \A w \in Views : w # v => mapped'[w] = mapped[w]
        /\ \A w \in Views : w # v => layout'[w] = layout[w]
        /\ layout' \in [Views -> {"versioned", "legacy"}]
    <3>1. present = object BY <2>1 DEF Counts
    <3>2. LayoutOf(present) \in {"versioned", "legacy"} BY DEF LayoutOf
    <3> QED BY <1>2, <2>1, <3>1, <3>2
  <2>4. ~(0 > SlotOf(pending[v].seq))
    BY <1>2, HeldIsAnnounced, SlotOfIsSlot DEF Samples, Slots
  <2>5. Counts' /\ Service' BY <1>0, <1>1, <1>4, <2>2, <2>3, <2>4, ReaderQuiet
  <2>6. ReadingAhead'
    <3>1. lastSeq[v] + 1 >= pending[v].seq BY <1>0, <1>1 DEF ReadingAhead
    <3>2. SlotCount \notin Slots BY PreviewAssumption DEF Slots
    <3>3. Mapped' = object /\ \A w \in Views : fetched[w].object <= object
      BY <2>2, <2>3 DEF Mapped, Counts
    <3> QED BY <1>1, <2>2, <3>1, <3>2, <3>3 DEF ReadingAhead, Fetching
  <2> QED BY <2>5, <2>6
<1> QED BY <1>0, <1>5, <1>6 DEF attach

LEMMA ScanKeepsService ==
    ASSUME PreviewInv, Scan
    PROVE  Counts' /\ ReadingAhead' /\ Service'
<1> USE DEF PreviewInv
<1>0. reading.step = "scan" BY DEF Scan
<1>1. PICK v \in Views : v = reading.view BY <1>0, ReaderIs
<1>2. PICK k \in Slots : k = reading.slot BY <1>0, ReaderIs DEF Fetching
<1>3. PICK o \in Objects : o = Mapped /\ o = mapped[v]
  BY <1>0, <1>1, ReaderIs DEF Fetching
<1>4. PICK seq \in Nat : seq = seqs[o][k] BY <1>2, <1>3 DEF Inv, Numbers
<1>5. PICK seen : seen = IF Newer(seq) THEN [reading EXCEPT !.latest = k, !.seq = seq]
                         ELSE reading
  OBVIOUS
<1>6. /\ UNCHANGED <<lastSeq, lastOf, pending, dirty, fetched, mapped, layout>>
      /\ reading' = IF k + 1 \in Slots THEN [seen EXCEPT !.slot = @ + 1]
                    ELSE IF seen.latest \in Slots THEN [seen EXCEPT !.step = "copy"]
                    ELSE Idle
  BY <1>2, <1>3, <1>4, <1>5 DEF Scan, viewVars
<1>7. /\ reading.seq \in Nat /\ reading.seq >= lastSeq[v] /\ lastSeq[v] \in Nat
      /\ reading.latest \notin Slots => reading.seq = lastSeq[v]
      /\ reading.latest \in Slots => reading.seq > lastSeq[v]
                                     /\ SlotOf(reading.seq) = reading.latest
  BY <1>0, <1>1, ReaderIs DEF ReadingAhead, Fetching, Counts
<1>8. seen = [step |-> "scan", view |-> v, slot |-> k, latest |-> seen.latest,
              seq |-> seen.seq, content |-> reading.content]
      /\ seen.latest = (IF Newer(seq) THEN k ELSE reading.latest)
      /\ seen.seq = (IF Newer(seq) THEN seq ELSE reading.seq)
  <2>1. reading = [step |-> "scan", view |-> v, slot |-> k, latest |-> reading.latest,
                   seq |-> reading.seq, content |-> reading.content]
    BY <1>0, <1>1, <1>2 DEF Inv, SeenIsPast
  <2>2. CASE Newer(seq)
    <3>1. seen = [reading EXCEPT !.latest = k, !.seq = seq] BY <1>5, <2>2
    <3>2. seen = [step |-> reading.step, view |-> reading.view, slot |-> reading.slot,
                  latest |-> k, seq |-> seq, content |-> reading.content]
      BY <3>1, SawNewer
    <3> QED BY <1>0, <1>1, <1>2, <2>2, <3>2
  <2>3. CASE ~Newer(seq) BY <1>5, <2>1, <2>3
  <2> QED BY <2>2, <2>3
<1>9. /\ seen.seq \in Nat /\ seen.seq >= seq
      /\ seen.latest \notin Slots => seen.seq = lastSeq[v] /\ reading.latest \notin Slots
      /\ seen.latest \in Slots => seen.seq > lastSeq[v] /\ SlotOf(seen.seq) = seen.latest
  <2>1. CASE Newer(seq)
    <3>1. seq > reading.seq BY <2>1 DEF Newer
    <3>2. SlotOf(seq) = k
      <4>1. PICK c \in 0..MaxFrames : Ring(o, c) BY DEF Rings
      <4>2. seq # 0 BY <1>7, <3>1
      <4> QED BY <1>4, <4>1, <4>2 DEF Ring
    <3> QED BY <1>7, <1>8, <2>1, <3>1, <3>2
  <2>2. CASE ~Newer(seq)
    <3>1. ~(seq > reading.seq) BY <2>2 DEF Newer
    <3> QED BY <1>7, <1>8, <2>2, <3>1
  <2> QED BY <2>1, <2>2
\* The slot of a wanted sample is not passed without finding it.
<1>10. ASSUME Wanted(v), ~Served(v), k + 1 > SlotOf(pending[v].seq)
       PROVE  seen.latest \in Slots
  <2>1. PICK s \in Samples : s = pending[v] BY HeldIsAnnounced
  <2>2. s.object = o /\ Announced(s) BY <1>3, <1>10, <2>1, HeldIsAnnounced DEF Wanted
  <2>3. lastSeq[v] < s.seq /\ s.seq \in Nat BY <1>10, <2>1, Behind DEF Samples
  <2>4. k \in Nat /\ SlotOf(s.seq) \in Nat BY <2>3, SlotOfIsSlot DEF Slots
  <2>5. CASE k > SlotOf(s.seq)
    BY <1>0, <1>1, <1>2, <1>9, <1>10, <2>1, <2>5 DEF Service
  <2>6. CASE k = SlotOf(s.seq)
    <3>1. s.seq <= seq BY <1>4, <2>2, <2>6 DEF Announced
    <3> QED BY <1>7, <1>9, <2>3, <3>1
  <2> QED BY <1>10, <2>1, <2>4, <2>5, <2>6
<1>11. Counts' /\ Service'
  <2>1. reading' = Idle \/ reading'.view = v
    BY <1>6, <1>8
  <2>2. Wanted(v)' => Wanted(v)
    <3>1. slots' = slots BY DEF Scan, Reads, nodeVars
    <3> QED BY <1>6, <3>1 DEF Wanted
  <2>3. readLatestFrame BY DEF readLatestFrame
  <2>4. ASSUME Wanted(v)', ~Served(v)
        PROVE  /\ reading'.step # "idle"
               /\ reading'.step = "scan" /\ reading'.slot > SlotOf(pending[v].seq)
                     => reading'.latest \in Slots
    <3>1. CASE k + 1 \in Slots
      <4>1. reading' = [step |-> "scan", view |-> v, slot |-> k + 1, latest |-> seen.latest,
                        seq |-> seen.seq, content |-> reading.content]
        BY <1>6, <1>8, <3>1
      <4> QED BY <1>10, <2>2, <2>4, <4>1
    <3>2. CASE k + 1 \notin Slots
      <4>1. k + 1 > SlotOf(pending[v].seq)
        BY PreviewAssumption, <3>2, HeldIsAnnounced, SlotOfIsSlot DEF Samples, Slots
      <4>2. reading' = [seen EXCEPT !.step = "copy"] BY <1>6, <1>10, <2>2, <2>4, <3>2, <4>1
      <4>3. reading' = [step |-> "copy", view |-> v, slot |-> k, latest |-> seen.latest,
                        seq |-> seen.seq, content |-> reading.content]
        BY <1>8, <4>2
      <4> QED BY <4>3
    <3> QED BY <3>1, <3>2
  <2>5. layout \in [Views -> {"versioned", "legacy"}] BY DEF Counts
  <2> QED BY <1>1, <1>6, <2>1, <2>3, <2>4, <2>5, ReaderQuiet
<1>12. ReadingAhead'
  <2>1. CASE reading' = Idle BY <2>1 DEF ReadingAhead, Idle, Fetching
  <2>2. CASE reading' # Idle
    <3>1. /\ reading'.view = v /\ reading'.latest = seen.latest /\ reading'.seq = seen.seq
      BY <1>6, <1>8, <2>2
    <3>2. lastSeq[v] + 1 >= pending[v].seq /\ \A w \in Views : fetched[w].object <= Mapped
      BY <1>0, <1>1 DEF ReadingAhead, Fetching
    <3>3. Mapped' = Mapped BY <1>1, <1>6, <3>1 DEF Mapped
    <3> QED BY <1>6, <1>9, <3>1, <3>2, <3>3 DEF ReadingAhead
  <2> QED BY <2>1, <2>2
<1> QED BY <1>11, <1>12

LEMMA CopyKeepsService ==
    ASSUME PreviewInv, Misread \/ Copy
    PROVE  Counts' /\ ReadingAhead' /\ Service'
<1> USE DEF PreviewInv
<1>0. reading.step \in {"scan", "copy"} BY DEF Misread, Copy
<1>1. PICK v \in Views : v = reading.view BY <1>0, ReaderIs
<1>2. /\ UNCHANGED <<lastSeq, lastOf, pending, dirty, fetched, mapped, layout, slots>>
      /\ readLatestFrame /\ layout \in [Views -> {"versioned", "legacy"}]
  BY DEF Misread, Copy, viewVars, Reads, nodeVars, readLatestFrame, Counts
<1>3. Wanted(v)' => Wanted(v) BY <1>2 DEF Wanted
<1>4. CASE Misread
  <2>1. reading' = Idle /\ ~Wanted(v) BY <1>1, <1>4 DEF Misread, Wanted
  <2>2. Counts' /\ Service' BY <1>1, <1>2, <1>3, <2>1, ReaderQuiet
  <2>3. ReadingAhead' BY <2>1 DEF ReadingAhead, Idle, Fetching
  <2> QED BY <2>2, <2>3
<1>5. CASE Copy /\ reading' # Idle
  <2>1. PICK content : reading' = [reading EXCEPT !.step = "verify", !.content = content]
        /\ reading.step = "copy"
    BY <1>5 DEF Copy
  <2>2. reading' = [step |-> "verify", view |-> v, slot |-> reading.slot,
                    latest |-> reading.latest, seq |-> reading.seq, content |-> content]
    BY <1>1, <2>1 DEF Inv, SeenIsPast
  <2>3. Counts' /\ Service' BY <1>1, <1>2, <2>2, ReaderQuiet
  <2>4. Mapped' = Mapped BY <1>1, <1>2, <2>2 DEF Mapped
  <2>5. ReadingAhead' BY <1>1, <1>2, <2>1, <2>2, <2>4 DEF ReadingAhead, Fetching
  <2> QED BY <2>3, <2>5
<1>6. CASE Copy /\ reading' = Idle
  <2>1. reading.step = "copy" /\ slots[Mapped][reading.latest] = Torn
    <3>1. reading.step = "copy" BY <1>6 DEF Copy
    <3>2. reading' # [reading EXCEPT !.step = "verify", !.content = slots[Mapped][reading.latest]]
      BY <1>6 DEF Idle, Inv, SeenIsPast
    <3> QED BY <1>6, <3>1, <3>2 DEF Copy
  <2>2. PICK r \in Nat : r = reading.seq BY <2>1, ReaderIs DEF Fetching
  <2>3. PICK o \in Objects : o = Mapped /\ o = mapped[v]
    BY <1>1, <2>1, ReaderIs DEF Fetching
  <2>4. /\ SlotOf(r) = reading.latest /\ r <= seqs[o][SlotOf(r)] /\ r > lastSeq[v]
        /\ lastSeq[v] + 1 >= pending[v].seq
    BY <1>1, <2>1, <2>2, <2>3, ReaderIs DEF ReadingAhead, Fetching, Inv, SeenIsPast
  <2>5. ~Wanted(v)
    <3> SUFFICES ASSUME Wanted(v) PROVE FALSE OBVIOUS
    <3>1. PICK s \in Samples : s = pending[v] BY HeldIsAnnounced
    <3>2. s.object = o /\ Announced(s) BY <2>3, <3>1, HeldIsAnnounced DEF Wanted
    <3>3. s.seq \in Nat /\ s.seq # 0 /\ s.seq <= r
      <4>1. lastSeq[v] \in Nat BY DEF Counts
      <4> QED BY <2>4, <3>1, <3>2, <4>1 DEF Samples, Announced
    <3>4. slots[o][SlotOf(s.seq)] # s.seq BY <2>1, <2>3, <2>4, <3>3, Overtaken
    <3> QED BY <3>1, <3>2, <3>4 DEF Wanted
  <2>6. Counts' /\ Service' BY <1>1, <1>2, <1>3, <1>6, <2>5, ReaderQuiet
  <2>7. ReadingAhead' BY <1>6 DEF ReadingAhead, Idle, Fetching
  <2> QED BY <2>6, <2>7
<1> QED BY <1>4, <1>5, <1>6

\* The picture that is fetched is newer than the last one and answers the view's sample; one
\* that fails the second look at its number has been overtaken, and so has the sample's.
LEMMA VerifyKeepsService ==
    ASSUME PreviewInv, Verify
    PROVE  Counts' /\ ReadingAhead' /\ Service'
<1> USE DEF PreviewInv
<1>0. reading.step = "verify" BY DEF Verify
<1>1. PICK v \in Views : v = reading.view BY <1>0, ReaderIs
<1>2. PICK r \in Nat : r = reading.seq BY <1>0, ReaderIs DEF Fetching
<1>3. PICK o \in Objects : o = Mapped /\ o = mapped[v] /\ o <= object
  BY <1>0, <1>1, ReaderIs DEF Fetching
<1>4. reading.latest \in Slots BY <1>0 DEF Inv, SeenIsPast
<1>5. /\ SlotOf(r) = reading.latest /\ r <= seqs[o][SlotOf(r)] /\ r > lastSeq[v]
      /\ lastSeq[v] + 1 >= pending[v].seq /\ lastSeq[v] \in Nat
  BY <1>0, <1>1, <1>2, <1>3, <1>4, ReaderIs DEF ReadingAhead, Fetching, Counts
<1>6. /\ UNCHANGED <<pending, dirty, mapped, layout, object, present, slots>> /\ reading' = Idle
      /\ layout \in [Views -> {"versioned", "legacy"}]
  BY DEF Verify, Reads, nodeVars, Counts
<1>7. ReadingAhead' BY <1>6 DEF ReadingAhead, Idle, Fetching
<1>8. CASE Verified
  <2>1. PICK picture : /\ picture.object = o /\ picture.seq = r
                       /\ fetched' = [fetched EXCEPT ![v] = picture]
        /\ lastSeq' = [lastSeq EXCEPT ![v] = r] /\ lastOf' = [lastOf EXCEPT ![v] = o]
    BY <1>1, <1>2, <1>3, <1>8 DEF Verify
  <2>2. /\ lastSeq' \in [Views -> Nat] /\ lastOf' \in [Views -> Nat]
        /\ lastSeq'[v] = r /\ lastOf'[v] = o /\ fetched'[v] = picture
        /\ \A w \in Views : w # v => /\ lastSeq'[w] = lastSeq[w] /\ lastOf'[w] = lastOf[w]
                                     /\ fetched'[w] = fetched[w]
    BY <2>1 DEF Counts, Inv, MappingsOK, Fetches, Objects
  <2>3. Counts'
    <3>1. o # 0 BY PreviewAssumption DEF Objects
    <3>2. \A w \in Views : /\ fetched'[w].object <= object
                           /\ CountsFrom(lastSeq'[w], lastOf'[w], pending[w], fetched'[w])
      <4> TAKE w \in Views
      <4>1. CASE w = v BY <1>3, <2>1, <2>2, <3>1, <4>1 DEF CountsFrom
      <4>2. CASE w # v BY <2>2, <4>2 DEF Counts
      <4> QED BY <4>1, <4>2
    <3> QED BY <1>6, <2>2, <3>2 DEF Counts
  <2>4. Service'
    <3> SUFFICES ASSUME NEW w \in Views, Wanted(w)' PROVE Served(w)'
      BY DEF Service
    <3>1. CASE w = v
      <4>1. pending[v].seq \in Nat BY HeldIsAnnounced DEF Samples
      <4> QED BY <1>3, <1>5, <1>6, <2>1, <2>2, <3>1, <4>1 DEF Wanted, Served
    <3>2. CASE w # v
      <4>1. Wanted(w) BY <1>6, <2>2, <3>2 DEF Wanted
      <4>2. Served(w) BY <1>1, <3>2, <4>1 DEF Service
      <4> QED BY <1>6, <2>2, <3>2, <4>2 DEF Served
    <3> QED BY <3>1, <3>2
  <2> QED BY <1>7, <2>3, <2>4
<1>9. CASE ~Verified
  <2>1. UNCHANGED <<lastSeq, lastOf, fetched>> BY <1>9 DEF Verify
  <2>2. seqs[o][SlotOf(r)] # r BY <1>2, <1>3, <1>5, <1>9 DEF Verified
  <2>3. ~Wanted(v)
    <3> SUFFICES ASSUME Wanted(v) PROVE FALSE OBVIOUS
    <3>1. PICK s \in Samples : s = pending[v] BY HeldIsAnnounced
    <3>2. s.object = o /\ Announced(s) BY <1>3, <3>1, HeldIsAnnounced DEF Wanted
    <3>3. s.seq \in Nat /\ s.seq # 0 /\ s.seq <= r
      BY <1>5, <3>1, <3>2 DEF Samples, Announced
    <3>4. slots[o][SlotOf(s.seq)] # s.seq BY <1>5, <2>2, <3>3, Overtaken
    <3> QED BY <3>1, <3>2, <3>4 DEF Wanted
  <2>4. Wanted(v)' => Wanted(v) BY <1>6, <2>1 DEF Wanted
  <2>5. readLatestFrame BY DEF readLatestFrame
  <2>6. Counts' /\ Service' BY <1>1, <1>6, <2>1, <2>3, <2>4, <2>5, ReaderQuiet
  <2> QED BY <1>7, <2>6
<1> QED BY <1>8, <1>9

-----------------------------------------------------------------------------
(* The theorems.                                                            *)

\* Both are cleared together, and what is fetched is newer than what is shown.
LEMMA FetchedRunsAhead ==
    ASSUME PreviewInv, [Next]_vars
    PROVE  ShownFollows'
<1>1. CASE Verify
  <2>1. PICK v \in Views : v = reading.view /\ reading.step = "verify"
    BY <1>1, ReaderIs DEF Verify
  <2>2. PICK o \in Nat, r \in Nat : o = Mapped /\ r = reading.seq
    BY <2>1, ReaderIs DEF PreviewInv, Fetching
  <2>3. /\ shown[v].object <= o /\ shown[v].seq <= r
        /\ DOMAIN shown = Views /\ DOMAIN fetched = Views
    <3>1. /\ r > lastSeq[v] /\ fetched[v].object <= o
      BY <2>1, <2>2, ReaderIs DEF PreviewInv, ReadingAhead, Fetching, Inv, SeenIsPast
    <3>2. /\ fetched[v].seq <= lastSeq[v] /\ lastSeq[v] \in Nat
          /\ shown[v].object <= fetched[v].object /\ shown[v].seq <= fetched[v].seq
      BY DEF PreviewInv, Counts, CountsFrom, ShownFollows
    <3>3. /\ shown[v].object \in Nat /\ shown[v].seq \in Nat
          /\ fetched[v].object \in Nat /\ fetched[v].seq \in Nat
          /\ DOMAIN shown = Views /\ DOMAIN fetched = Views
      BY DEF PreviewInv, Inv, MappingsOK, Pictures, Fetches
    <3> QED BY <3>1, <3>2, <3>3
  <2>4. CASE Verified
    <3> DEFINE picture == [object |-> o, seq |-> r, content |-> reading.content,
                           racing |-> slots[Mapped][reading.latest] = Torn]
    <3>1. PICK decoded \in BOOLEAN :
            /\ fetched' = [fetched EXCEPT ![v] = [object |-> o, seq |-> r, decoded |-> decoded]]
            /\ shown' = IF decoded THEN [shown EXCEPT ![v] = picture] ELSE shown
      BY <1>1, <2>1, <2>2, <2>4 DEF Verify
    <3>2. picture.object = o /\ picture.seq = r
      OBVIOUS
    <3> HIDE DEF picture
    <3>3. \A w \in Views : w # v => shown'[w] = shown[w] /\ fetched'[w] = fetched[w]
      BY <2>3, <3>1
    <3>4. /\ fetched'[v].object = o /\ fetched'[v].seq = r /\ fetched'[v].decoded = decoded
          /\ decoded => shown'[v].object = o /\ shown'[v].seq = r
          /\ ~decoded => shown'[v] = shown[v]
      BY <2>3, <3>1, <3>2
    <3>5. /\ shown'[v].object <= fetched'[v].object /\ shown'[v].seq <= fetched'[v].seq
          /\ fetched'[v].decoded => /\ shown'[v].object = fetched'[v].object
                                    /\ shown'[v].seq = fetched'[v].seq
      BY <2>2, <2>3, <3>4
    <3> QED BY <3>3, <3>5 DEF PreviewInv, ShownFollows
  <2>5. CASE ~Verified
    BY <1>1, <2>5 DEF Verify, PreviewInv, ShownFollows
  <2> QED BY <2>4, <2>5
<1>2. CASE ~Verify
  <2>1. UNCHANGED <<shown, fetched>> \/ \E reset : Clears(reset)
    BY <1>2 DEF vars, Next, Node, HandleMessage, readLatestFrame, NodeStarts, Register,
       MakeObject, BeginFrame, PublishFrame, NodeStops, NodeDies, Host, onTopicData, DrainInbox,
       HandleRegistered, HandleUnregistered, HandleData, Timer, SwitchTab, ScriptEnds, attach,
       Scan, Misread, Copy, ResetViews, viewVars, Clears
  <2>2. \A v \in Views : \/ shown'[v] = shown[v] /\ fetched'[v] = fetched[v]
                         \/ shown'[v] = NoFrame /\ fetched'[v] = NoFetch
    BY <2>1 DEF Clears, After
  <2> QED BY <2>2 DEF PreviewInv, ShownFollows, NoFrame, NoFetch
<1> QED BY <1>1, <1>2

LEMMA PreviewStarts == Init => PreviewInv
<1> SUFFICES ASSUME Init PROVE PreviewInv OBVIOUS
<1> USE PreviewAssumption
<1>1. Inv BY StartsWhole
<1>2. /\ DataOf(inbox) = {} /\ DataOf(batch) = {} /\ OnWire = {} /\ Held = {} /\ Waiting = {}
  BY DEF Init, DataOf, OnWire, Held, Waiting
<1>3. SamplesAre
  <2>1. NoSample \in Samples BY DEF NoSample, Samples
  <2>2. << >> \in Seq(Messages) OBVIOUS
  <2>3. /\ wire = NoSample /\ inbox = << >> /\ batch = << >> /\ first = FALSE
        /\ pending = [v \in Views |-> NoSample]
    BY DEF Init
  <2> QED BY <1>2, <2>1, <2>2, <2>3 DEF SamplesAre
<1>4. SamplesOrdered BY <1>2 DEF SamplesOrdered, OneWaits, InOrder
<1>5. Rings
  <2>1. /\ object = 0 /\ node = "down" /\ count = 0 /\ frames = 0
        /\ \A o \in Objects, s \in Slots : seqs[o][s] = 0 /\ slots[o][s] = 0
    BY DEF Init
  <2>2. \A o \in Objects : Ring(o, 0) BY <2>1 DEF Ring, Torn
  <2>3. 0 \in 0..MaxFrames OBVIOUS
  <2> QED BY <2>1, <2>2, <2>3 DEF Rings
<1>6. Counts /\ ReadingAhead /\ Service
  BY DEF Init, Counts, CountsFrom, NoFetch, ReadingAhead, Fetching, Idle, Service, Wanted
<1>7. ShownFollows BY DEF Init, ShownFollows, NoFrame, NoFetch
<1> QED BY <1>1, <1>3, <1>4, <1>5, <1>6, <1>7 DEF PreviewInv

LEMMA PreviewSteps ==
    ASSUME PreviewInv, [Next]_vars
    PROVE  PreviewInv'
<1>1. Inv' /\ ShownFollows' BY StepKeepsWhole, FetchedRunsAhead DEF PreviewInv
<1>2. CASE UNCHANGED vars
  <2>1. UNCHANGED <<nodeVars, wire, first, inbox, batch, viewVars, readerVars>>
    BY <1>2 DEF vars, topicVars
  <2>2. SamplesAre' /\ SamplesOrdered'
    BY <2>1 DEF nodeVars, viewVars, PreviewInv, SamplesAre, SamplesOrdered, Announced, OnWire,
       DataOf, Held, OneWaits, Waiting
  <2>3. Rings' BY <2>1 DEF nodeVars, PreviewInv, Rings, Ring
  <2>4. Counts' /\ ReadingAhead' /\ Service'
    BY <2>1 DEF nodeVars, viewVars, readerVars, PreviewInv, Counts, ReadingAhead, Service,
       Wanted, Served, Mapped
  <2> QED BY <1>1, <2>2, <2>3, <2>4 DEF PreviewInv
<1>3. CASE Node
  BY <1>1, <1>3, NodeKeepsRings, NodeKeepsSamples, NodeKeepsService DEF PreviewInv
<1>4. CASE Next /\ ~Node
  <2>1. SamplesAre' /\ SamplesOrdered'
    BY <1>4, HostKeepsSamples DEF Next, HandleMessage, PreviewInv
  <2>2. UNCHANGED nodeVars
    BY <1>4 DEF Next, HandleMessage, onTopicData, DrainInbox, HandleRegistered,
       HandleUnregistered, HandleData, Timer, SwitchTab, ScriptEnds, readLatestFrame, attach,
       Scan, Misread, Copy, Verify, Reads
  <2>3. Rings' BY <2>2 DEF nodeVars, PreviewInv, Rings, Ring
  <2>4. Counts' /\ ReadingAhead' /\ Service'
    BY <1>4, HostKeepsService, DataKeepsService, AttachKeepsService, ScanKeepsService,
       CopyKeepsService, VerifyKeepsService DEF Next, HandleMessage, readLatestFrame
  <2> QED BY <1>1, <2>1, <2>3, <2>4 DEF PreviewInv
<1> QED BY <1>2, <1>3, <1>4

LEMMA Invariance == Spec => []PreviewInv
BY PreviewStarts, PreviewSteps, PTL DEF Spec

\* A sample that its view has dealt with has been followed by its frame or a newer one,
\* if the frame is still there and the one that was fetched could be decoded: whatever
\* the rate limit, the timer and reads that found no frame did meanwhile (sensor_workspace_widget.cpp:1022-1149, camera_shared_memory.cpp:164-224).
THEOREM AnnouncedFramesAreShown == Spec => []RequestServed
<1>1. PreviewInv => RequestServed
  <2> SUFFICES ASSUME PreviewInv, NEW v \in Views, Served(v)
               PROVE  \/ shown[v].object = pending[v].object /\ shown[v].seq >= pending[v].seq
                      \/ /\ fetched[v].object = pending[v].object
                         /\ fetched[v].seq >= pending[v].seq /\ ~fetched[v].decoded
    BY DEF PreviewInv, Service, Wanted, Served, RequestServed, Free
  <2> QED BY DEF PreviewInv, Served, ShownFollows
<1> QED BY <1>1, Invariance, PTL

\* A view goes from frame to newer frame until it is reset, and no frame of a replaced
\* object follows one of the new object in any view (camera_shared_memory.cpp:52-72).
THEOREM ViewsNeverGoBack == Spec => NeverBack
<1> DEFINE Ahead == \A v \in Views : shown'[v] \notin {shown[v], NoFrame} =>
                        /\ shown[v] # NoFrame => shown'[v].seq > shown[v].seq
                        /\ \A w \in Views : shown'[v].object >= shown[w].object
<1>1. ASSUME PreviewInv, [Next]_vars PROVE [Ahead]_vars
  <2>1. CASE Verify
    <3>0. PICK v \in Views : v = reading.view /\ reading.step = "verify"
      BY <1>1, <2>1, ReaderIs DEF Verify
    <3>1. /\ reading.seq > lastSeq[v] /\ reading.seq \in Nat
          /\ \A w \in Views : fetched[w].object <= Mapped
      BY <1>1, <3>0 DEF PreviewInv, ReadingAhead, Fetching, Inv, SeenIsPast
    <3>2. /\ fetched[v].seq <= lastSeq[v] /\ lastSeq[v] \in Nat
          /\ \A w \in Views : /\ shown[w].object <= fetched[w].object
                              /\ shown[w].seq <= fetched[w].seq
      BY <1>1 DEF PreviewInv, Counts, CountsFrom, ShownFollows
    <3>3. \A w \in Views : /\ shown[w].object \in Nat /\ shown[w].seq \in Nat
                           /\ fetched[w].object \in Nat /\ fetched[w].seq \in Nat
      BY <1>1 DEF PreviewInv, Inv, MappingsOK, Pictures, Fetches
    <3>4. Mapped \in Nat BY <1>1, <3>0, ReaderIs
    <3>5. PICK picture : picture.object = Mapped /\ picture.seq = reading.seq
          /\ (shown' = shown \/ shown' = [shown EXCEPT ![v] = picture])
      <4>0. PICK racing \in BOOLEAN : racing = (slots[Mapped][reading.latest] = Torn)
        OBVIOUS
      <4>1. PICK picture : picture = [object |-> Mapped, seq |-> reading.seq,
                                      content |-> reading.content, racing |-> racing]
        OBVIOUS
      <4>2. shown' = shown \/ shown' = [shown EXCEPT ![v] = picture]
        BY <2>1, <3>0, <4>0, <4>1 DEF Verify
      <4> QED BY <4>1, <4>2
    <3>6. \A w \in Views : shown'[w] = shown[w] \/ (w = v /\ shown'[w] = picture)
      BY <1>1, <3>5 DEF PreviewInv, Inv, MappingsOK, Pictures
    <3> QED BY <3>1, <3>2, <3>3, <3>4, <3>5, <3>6
  <2>2. CASE Next /\ ~Verify
    <3>1. shown' = shown \/ \E reset : shown' = After(reset, shown, NoFrame)
      BY <2>2 DEF Next, Node, HandleMessage, readLatestFrame, NodeStarts, Register, MakeObject,
         BeginFrame, PublishFrame, NodeStops, NodeDies, Host, onTopicData, DrainInbox,
         HandleRegistered, HandleUnregistered, HandleData, Timer, SwitchTab, ScriptEnds, attach,
         Scan, Misread, Copy, ResetViews, viewVars
    <3>2. \A v \in Views : shown'[v] \in {shown[v], NoFrame} BY <3>1 DEF After
    <3> QED BY <3>2
  <2>3. CASE UNCHANGED vars BY <2>3
  <2> QED BY <1>1, <2>1, <2>2, <2>3
<1> QED BY <1>1, Invariance, PTL DEF Spec, NeverBack
=============================================================================
