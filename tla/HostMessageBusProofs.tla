------------------------ MODULE HostMessageBusProofs ------------------------
(***************************************************************************)
(* The bus, for any consumers, publishers, subscriptions and messages:     *)
(*   - no wake-up is lost.  What the queues hold plays no part in that     *)
(*     argument, only when they are changed and by whom;                   *)
(*   - it implements Mailbox.  A queue is what its target has still to     *)
(*     read, in the order of publication: BusInv.  What the loops of       *)
(*     pushMessage and publish leave in a queue (KeptFacts, PushedFacts)   *)
(*     is shown by induction on their passes, which is an induction over   *)
(*     sets: the library's takes an operator, which the provers cannot     *)
(*     instantiate;                                                        *)
(*   - what follows from the promise of Mailbox follows for the bus.       *)
(***************************************************************************)
EXTENDS HostMessageBus, TLAPS, FiniteSetTheorems, WellFoundedInduction

ThreadsOK == /\ publisher \in [Publishers -> {"idle", "notify"}]
             /\ consumer \in [Targets -> {"idle", "waiting", "woken"}]

WakeInv == ThreadsOK /\ NoLostWakeUp

LEMMA WakeInit == Init => WakeInv
  BY DEF Init, WakeInv, ThreadsOK, NoLostWakeUp

\* Taking a message puts a consumer to rest and lengthens no queue.
LEMMA TakeStep ==
  ASSUME WakeInv, NEW t \in Targets, Take(t)
  PROVE  WakeInv'
<1>1. ThreadsOK'
  BY DEF Take, WakeInv, ThreadsOK
<1>2. \A u \in Targets \ {t} : consumer'[u] = consumer[u] /\ queues'[u] = queues[u]
  BY DEF Take, WakeInv, ThreadsOK
<1>3. consumer'[t] = "idle" /\ publisher' = publisher
  BY DEF Take, WakeInv, ThreadsOK
<1>4. QED
  BY <1>1, <1>2, <1>3 DEF WakeInv, NoLostWakeUp

\* A consumer only goes to sleep when its queue is empty.
LEMMA BlockStep ==
  ASSUME WakeInv, NEW t \in Targets, Block(t)
  PROVE  WakeInv'
  BY DEF Block, WakeInv, ThreadsOK, NoLostWakeUp

LEMMA WakeStep == WakeInv /\ [Next]_vars => WakeInv'
<1> SUFFICES ASSUME WakeInv, [Next]_vars PROVE WakeInv'
  OBVIOUS
<1>1. ASSUME NEW t \in Targets, NEW pattern \in Patterns, subscribe(t, pattern)
      PROVE  WakeInv'
  BY <1>1 DEF subscribe, WakeInv, ThreadsOK, NoLostWakeUp
<1>2. ASSUME NEW p \in Publishers, NEW t \in Targets, NEW kind \in Kinds,
             NEW key \in Keys \union {NoKey}, publish(p, t, kind, key)
      PROVE  WakeInv'
  <2>1. publisher'[p] = "notify" /\ ThreadsOK'
    BY <1>2 DEF publish, WakeInv, ThreadsOK
  <2>2. QED
    BY <2>1 DEF WakeInv, NoLostWakeUp
<1>3. ASSUME NEW p \in Publishers, notifyAll(p)
      PROVE  WakeInv'
  <2>1. \A t \in Targets : consumer'[t] # "waiting"
    BY <1>3 DEF notifyAll, WakesAll, WakeInv, ThreadsOK
  <2>2. ThreadsOK'
    BY <1>3 DEF notifyAll, WakesAll, WakeInv, ThreadsOK
  <2>3. QED
    BY <2>1, <2>2 DEF WakeInv, NoLostWakeUp
<1>4. ASSUME NEW t \in Targets, waitFor(t) \/ Resume(t)
      PROVE  WakeInv'
  BY <1>4, TakeStep, BlockStep DEF waitFor, Resume
<1>5. ASSUME NEW t \in Targets, Timeout(t)
      PROVE  WakeInv'
  <2>1. CASE Take(t)
    BY <2>1, TakeStep
  <2>2. CASE ~Take(t)
    BY <1>5, <2>2 DEF Timeout, WakeInv, ThreadsOK, NoLostWakeUp
  <2>3. QED
    BY <2>1, <2>2
<1>6. ASSUME NEW t \in Targets, drainFor(t)
      PROVE  WakeInv'
  <2>1. \A u \in Targets \ {t} : queues'[u] = queues[u]
    BY <1>6 DEF drainFor
  <2>2. consumer[t] = "idle" /\ UNCHANGED <<consumer, publisher>>
    BY <1>6 DEF drainFor
  <2>3. QED
    BY <2>1, <2>2 DEF WakeInv, ThreadsOK, NoLostWakeUp
<1>7. CASE UNCHANGED vars
  BY <1>7 DEF vars, WakeInv, ThreadsOK, NoLostWakeUp
<1>8. QED
  BY <1>1, <1>2, <1>3, <1>4, <1>5, <1>6, <1>7 DEF Next

\* A message never lies in the queue of a sleeping consumer unless a
\* notification is still to come (publish unlocks before it notifies, waitFor
\* tests the queue before it sleeps): no wake-up is lost.
THEOREM NoWakeUpLost == Spec => []NoLostWakeUp
<1>1. WakeInv => NoLostWakeUp
  BY DEF WakeInv
<1>2. QED
  BY WakeInit, WakeStep, <1>1, PTL DEF Spec


-----------------------------------------------------------------------------
(* Induction, and functions defined by recursion, on an interval.           *)

\* A set of numbers that is not empty has a least element.
LEMMA LeastElement ==
  ASSUME NEW S \in SUBSET Nat, S # {}
  PROVE  \E n \in S : \A m \in S : n <= m
<1> DEFINE Below == {0..(k - 1) : k \in S}
<1>1. Below \subseteq FiniteSubsetsOf(Nat) /\ Below # {}
  <2>1. \A k \in S : IsFiniteSet(0..(k - 1)) /\ 0..(k - 1) \subseteq Nat
    BY FS_Interval
  <2>2. QED
    BY <2>1 DEF FiniteSubsetsOf
<1>2. \E x \in Below : \A y \in Below : <<y, x>> \notin StrictSubsetOrdering(Nat)
  <2> HIDE DEF Below
  <2>1. IsWellFoundedOn(StrictSubsetOrdering(Nat), FiniteSubsetsOf(Nat))
    BY FS_StrictSubsetOrderingWellFounded
  <2>2. QED
    BY <1>1, <2>1, WFMin
<1>3. PICK n \in S :
         \A y \in Below : <<y, 0..(n - 1)>> \notin StrictSubsetOrdering(Nat)
  BY <1>2
<1>4. ASSUME NEW m \in S, m < n PROVE FALSE
  <2>1. /\ 0..(m - 1) \in Below
        /\ 0..(m - 1) \subseteq 0..(n - 1) /\ 0..(n - 1) \subseteq Nat
    BY <1>4
  <2>2. m \in 0..(n - 1) /\ m \notin 0..(m - 1)
    BY <1>4
  <2>3. <<0..(m - 1), 0..(n - 1)>> \in StrictSubsetOrdering(Nat)
    BY <2>1, <2>2 DEF StrictSubsetOrdering
  <2>4. QED
    BY <1>3, <2>1, <2>3
<1>5. QED
  BY <1>4

LEMMA Induction ==
  ASSUME NEW n \in Nat, NEW S, 0 \in S, \A i \in 1..n : i - 1 \in S => i \in S
  PROVE  \A i \in 0..n : i \in S
<1> SUFFICES ASSUME NEW i \in 0..n, i \notin S PROVE FALSE
  OBVIOUS
<1> DEFINE Failing == {k \in 0..n : k \notin S}
<1>1. PICK k \in Failing : \A l \in Failing : k <= l
  <2>1. Failing # {} /\ Failing \in SUBSET Nat
    OBVIOUS
  <2>2. QED
    BY <2>1, LeastElement
<1>2. k \in 1..n /\ k - 1 \notin Failing
  BY <1>1
<1>3. QED
  BY <1>2

\* A step that leads from values to values can be applied again and again.
Runs(f, n, V, first, step) ==
    /\ f \in [0..n -> V] /\ f[0] = first
    /\ \A i \in 1..n : f[i] = step[i][f[i - 1]]

LEMMA Recursion ==
  ASSUME NEW n \in Nat, NEW V, NEW first \in V, NEW step \in [1..n -> [V -> V]]
  PROVE  \E f : Runs(f, n, V, first, step)
<1> DEFINE S == {k \in 0..n : \E f : Runs(f, k, V, first, step)}
<1>1. 0 \in S
  <2>1. PICK f : f = [i \in 0..0 |-> first]
    OBVIOUS
  <2>2. Runs(f, 0, V, first, step)
    BY <2>1 DEF Runs
  <2>3. 0 \in 0..n
    OBVIOUS
  <2>4. QED
    BY <2>2, <2>3, Zenon
<1>2. ASSUME NEW k \in 1..n, k - 1 \in S PROVE k \in S
  <2>1. PICK f : Runs(f, k - 1, V, first, step)
    BY <1>2
  <2>2. f[k - 1] \in V /\ f \in [0..(k - 1) -> V]
    BY <2>1 DEF Runs
  <2>3. PICK v \in V : v = step[k][f[k - 1]]
    BY <2>2
  <2>4. PICK g : g = [i \in 0..k |-> IF i = k THEN v ELSE f[i]]
    OBVIOUS
  <2>5. g[k] = v /\ \A i \in 0..(k - 1) : g[i] = f[i]
    BY <2>4
  <2>6. g \in [0..k -> V]
    BY <2>2, <2>4
  <2>7. ASSUME NEW i \in 1..k PROVE g[i] = step[i][g[i - 1]]
    <3>1. CASE i = k
      BY <2>3, <2>5, <3>1
    <3>2. CASE i \in 1..(k - 1)
      <4>1. g[i] = f[i] /\ g[i - 1] = f[i - 1] /\ f[i] = step[i][f[i - 1]]
        BY <2>1, <2>5, <3>2 DEF Runs
      <4>2. QED
        BY <4>1
    <3>3. QED
      BY <3>1, <3>2
  <2>8. g[0] = first
    BY <2>1, <2>5 DEF Runs
  <2>9. Runs(g, k, V, first, step)
    BY <2>6, <2>7, <2>8 DEF Runs
  <2>10. k \in 0..n
    OBVIOUS
  <2>11. QED
    BY <2>9, <2>10, Zenon
<1>3. n \in S
  <2> HIDE DEF S
  <2>1. \A i \in 0..n : i \in S
    BY <1>1, <1>2, Induction, Zenon
  <2>2. QED
    BY <2>1
<1>4. QED
  BY <1>3


-----------------------------------------------------------------------------
(* What the loops of pushMessage and publish leave in a queue.              *)

Messages == Promise!Messages
Before(m, other) == Promise!Before(m, other)

Contents(queue) == {queue[i] : i \in DOMAIN queue}

InOrder(queue) == \A i, j \in DOMAIN queue : i < j => Before(queue[i], queue[j])

LEMMA AppendFacts ==
  ASSUME NEW queue \in Seq(Messages), NEW m \in Messages
  PROVE  /\ Append(queue, m) \in Seq(Messages)
         /\ Contents(Append(queue, m)) = Contents(queue) \union {m}
         /\ InOrder(queue) /\ (\A other \in Contents(queue) : Before(other, m))
               => InOrder(Append(queue, m))
<1> DEFINE after == Append(queue, m)
<1>1. /\ after \in Seq(Messages) /\ DOMAIN after = 1..(Len(queue) + 1)
      /\ DOMAIN queue = 1..Len(queue) /\ Len(queue) \in Nat
      /\ \A i \in DOMAIN queue : after[i] = queue[i]
      /\ after[Len(queue) + 1] = m
  OBVIOUS
<1> HIDE DEF after
<1>2. \A i \in DOMAIN after : i = Len(queue) + 1 \/ i \in DOMAIN queue
  BY <1>1
<1>3. InOrder(queue) /\ (\A other \in Contents(queue) : Before(other, m)) => InOrder(after)
  BY <1>1, <1>2 DEF InOrder, Contents
<1>4. Contents(after) = Contents(queue) \union {m}
  BY <1>1, <1>2 DEF Contents
<1>5. QED
  BY <1>1, <1>3, <1>4 DEF after

\* Erasing the messages of a key leaves the others, in their order.
IsKept(f, queue, key, n) ==
    f = [i \in 0..n |->
            IF i = 0 THEN << >>
            ELSE IF queue[i].key = key THEN f[i - 1]
            ELSE Append(f[i - 1], queue[i])]

LEMMA KeptExists ==
  ASSUME NEW queue \in Seq(Messages), NEW key
  PROVE  \E f : IsKept(f, queue, key, Len(queue)) /\ Without(queue, key) = f[Len(queue)]
<1>0. Len(queue) \in Nat
  OBVIOUS
<1>1. \A i \in 1..Len(queue) : queue[i] \in Messages
  OBVIOUS
<1> DEFINE step == [i \in 1..Len(queue) |-> [q \in Seq(Messages) |->
                       IF queue[i].key = key THEN q ELSE Append(q, queue[i])]]
<1>2. step \in [1..Len(queue) -> [Seq(Messages) -> Seq(Messages)]]
  BY <1>1
<1>3. \A i \in 1..Len(queue) : \A q \in Seq(Messages) :
         step[i][q] = IF queue[i].key = key THEN q ELSE Append(q, queue[i])
  OBVIOUS
<1>4. << >> \in Seq(Messages)
  OBVIOUS
<1>5. \E f : IsKept(f, queue, key, Len(queue))
  <2> HIDE DEF step
  <2>1. PICK f : Runs(f, Len(queue), Seq(Messages), << >>, step)
    BY <1>0, <1>2, <1>4, Recursion, Zenon
  <2>2. \A i \in 1..Len(queue) : f[i - 1] \in Seq(Messages)
    BY <1>0, <2>1 DEF Runs
  <2>3. \A i \in 1..Len(queue) :
           f[i] = IF queue[i].key = key THEN f[i - 1] ELSE Append(f[i - 1], queue[i])
    BY <1>3, <2>1, <2>2 DEF Runs
  <2>4. f = [i \in 0..Len(queue) |-> f[i]]
    BY <2>1 DEF Runs
  <2>5. \A i \in 0..Len(queue) :
           f[i] = IF i = 0 THEN << >>
                  ELSE IF queue[i].key = key THEN f[i - 1] ELSE Append(f[i - 1], queue[i])
    <3>1. \A i \in 0..Len(queue) : i = 0 \/ i \in 1..Len(queue)
      BY <1>0
    <3>2. \A i \in 1..Len(queue) : i # 0
      BY <1>0
    <3>3. QED
      BY <2>1, <2>3, <3>1, <3>2, Zenon DEF Runs
  <2>6. IsKept(f, queue, key, Len(queue))
    BY <2>4, <2>5, Zenon DEF IsKept
  <2>7. QED
    BY <2>6
<1> DEFINE f == CHOOSE f : IsKept(f, queue, key, Len(queue))
<1>6. IsKept(f, queue, key, Len(queue))
  BY <1>5
<1>7. Without(queue, key) = f[Len(queue)]
  BY DEF Without, IsKept
<1>8. QED
  BY <1>6, <1>7

LEMMA KeptFacts ==
  ASSUME NEW queue \in Seq(Messages), NEW key
  PROVE  /\ Without(queue, key) \in Seq(Messages)
         /\ InOrder(queue) => InOrder(Without(queue, key))
         /\ Contents(Without(queue, key)) = {m \in Contents(queue) : m.key # key}
<1>1. PICK f : IsKept(f, queue, key, Len(queue)) /\ Without(queue, key) = f[Len(queue)]
  BY KeptExists
<1>2. /\ Len(queue) \in Nat /\ DOMAIN queue = 1..Len(queue)
      /\ \A i \in 1..Len(queue) : queue[i] \in Messages
  OBVIOUS
<1>3. f[0] = << >> /\ \A i \in 1..Len(queue) :
         f[i] = IF queue[i].key = key THEN f[i - 1] ELSE Append(f[i - 1], queue[i])
  <2>1. \A i \in 0..Len(queue) :
           f[i] = IF i = 0 THEN << >>
                  ELSE IF queue[i].key = key THEN f[i - 1] ELSE Append(f[i - 1], queue[i])
    BY <1>1, Zenon DEF IsKept
  <2>2. 0 \in 0..Len(queue) /\ \A i \in 1..Len(queue) : i \in 0..Len(queue) /\ i # 0
    BY <1>2
  <2>3. QED
    BY <2>1, <2>2, Zenon
<1> DEFINE Rest(i) == {queue[j] : j \in {j \in 1..i : queue[j].key # key}}
           S == {i \in 0..Len(queue) : /\ f[i] \in Seq(Messages)
                                       /\ (InOrder(queue) => InOrder(f[i]))
                                       /\ Contents(f[i]) = Rest(i)}
<1>4. 0 \in S
  <2>1. f[0] \in Seq(Messages) /\ DOMAIN f[0] = {}
    BY <1>3
  <2>2. Rest(0) = {} /\ 0 \in 0..Len(queue)
    BY <1>2
  <2>3. QED
    BY <2>1, <2>2 DEF InOrder, Contents
<1>5. ASSUME NEW i \in 1..Len(queue), i - 1 \in S PROVE i \in S
  <2>1. /\ f[i - 1] \in Seq(Messages) /\ Contents(f[i - 1]) = Rest(i - 1)
        /\ InOrder(queue) => InOrder(f[i - 1])
    BY <1>5
  <2>2. CASE queue[i].key = key
    <3>1. f[i] = f[i - 1] /\ Rest(i) = Rest(i - 1)
      BY <1>2, <1>3, <2>2
    <3>2. QED
      BY <2>1, <3>1
  <2>3. CASE queue[i].key # key
    <3>1. Rest(i) = Rest(i - 1) \union {queue[i]}
      BY <1>2, <2>3
    <3>2. InOrder(queue) => \A m \in Contents(f[i - 1]) : Before(m, queue[i])
      BY <1>2, <2>1 DEF InOrder
    <3>3. f[i] = Append(f[i - 1], queue[i]) /\ queue[i] \in Messages
      BY <1>2, <1>3, <2>3
    <3>4. /\ f[i] \in Seq(Messages) /\ Contents(f[i]) = Rest(i)
          /\ InOrder(queue) => InOrder(f[i])
      BY <2>1, <3>1, <3>2, <3>3, AppendFacts
    <3>5. QED
      BY <3>4
  <2>4. QED
    BY <2>2, <2>3
<1>6. Len(queue) \in S
  <2> HIDE DEF S
  <2>1. \A i \in 0..Len(queue) : i \in S
    BY <1>2, <1>4, <1>5, Induction
  <2>2. QED
    BY <1>2, <2>1
<1>7. Rest(Len(queue)) = {m \in Contents(queue) : m.key # key}
  BY <1>2 DEF Contents
<1>8. QED
  BY <1>1, <1>6, <1>7


LEMMA PushFacts ==
  ASSUME NEW queue \in Seq(Messages), NEW m \in Messages
  PROVE  /\ pushMessage(queue, m) \in Seq(Messages)
         /\ Contents(pushMessage(queue, m))
              = {other \in Contents(queue) : m.key = NoKey \/ other.key # m.key} \union {m}
         /\ InOrder(queue) /\ (\A other \in Contents(queue) : Before(other, m))
               => InOrder(pushMessage(queue, m))
<1>1. PICK rest : rest = IF m.key = NoKey THEN queue ELSE Without(queue, m.key)
  OBVIOUS
<1>2. pushMessage(queue, m) = Append(rest, m)
  BY <1>1 DEF pushMessage
<1>3. /\ rest \in Seq(Messages)
      /\ InOrder(queue) => InOrder(rest)
      /\ Contents(rest) = {other \in Contents(queue) : m.key = NoKey \/ other.key # m.key}
  <2>1. CASE m.key = NoKey
    BY <1>1, <2>1
  <2>2. CASE m.key # NoKey
    <3>1. rest = Without(queue, m.key)
      BY <1>1, <2>2
    <3>2. QED
      BY <2>2, <3>1, KeptFacts
  <2>3. QED
    BY <2>1, <2>2
<1>4. QED
  BY <1>2, <1>3, AppendFacts

\* The copies of one publication.
CopyOf(n, i, key) == [n |-> n, copy |-> i, key |-> key]

ArePushed(f, queue, n, key, copies) ==
    f = [i \in 0..copies |->
            IF i = 0 THEN queue
            ELSE pushMessage(f[i - 1], [n |-> n, copy |-> i, key |-> key])]

LEMMA CopyType ==
  ASSUME NEW n \in Nat \ {0}, NEW key \in Keys \union {NoKey},
         NEW copies \in 0..MaxSubscriptions
  PROVE  \A i \in 1..copies : CopyOf(n, i, key) \in Messages
  BY BusAssumption DEF CopyOf, Messages, Promise!Messages

LEMMA PushedExist ==
  ASSUME NEW queue \in Seq(Messages), NEW n \in Nat \ {0},
         NEW key \in Keys \union {NoKey}, NEW copies \in 0..MaxSubscriptions
  PROVE  \E f : /\ f[0] = queue
                /\ \A i \in 1..copies : f[i] = pushMessage(f[i - 1], CopyOf(n, i, key))
                /\ pushCopies(queue, n, key, copies) = f[copies]
<1>0. copies \in Nat
  BY BusAssumption
<1> DEFINE step == [i \in 1..copies |-> [q \in Seq(Messages) |->
                       pushMessage(q, CopyOf(n, i, key))]]
<1>1. step \in [1..copies -> [Seq(Messages) -> Seq(Messages)]]
  BY CopyType, PushFacts
<1>2. \A i \in 1..copies : \A q \in Seq(Messages) :
         step[i][q] = pushMessage(q, CopyOf(n, i, key))
  OBVIOUS
<1>3. \A i \in 0..copies : i = 0 \/ i \in 1..copies
  BY <1>0
<1>4. 0 \in 0..copies /\ \A i \in 1..copies : i # 0 /\ i \in 0..copies
  BY <1>0
<1>5. \E f : ArePushed(f, queue, n, key, copies)
  <2> HIDE DEF step
  <2>1. PICK f : Runs(f, copies, Seq(Messages), queue, step)
    BY <1>0, <1>1, Recursion, Zenon
  <2>2. \A i \in 1..copies : f[i - 1] \in Seq(Messages)
    BY <1>0, <2>1 DEF Runs
  <2>3. \A i \in 1..copies : f[i] = pushMessage(f[i - 1], CopyOf(n, i, key))
    BY <1>2, <2>1, <2>2 DEF Runs
  <2>4. f = [i \in 0..copies |-> f[i]]
    BY <2>1 DEF Runs
  <2>5. \A i \in 0..copies :
           f[i] = IF i = 0 THEN queue
                  ELSE pushMessage(f[i - 1], [n |-> n, copy |-> i, key |-> key])
    BY <1>3, <1>4, <2>1, <2>3, Zenon DEF Runs, CopyOf
  <2>6. ArePushed(f, queue, n, key, copies)
    BY <2>4, <2>5, Zenon DEF ArePushed
  <2>7. QED
    BY <2>6
<1> DEFINE f == CHOOSE f : ArePushed(f, queue, n, key, copies)
<1>6. ArePushed(f, queue, n, key, copies)
  BY <1>5
<1>7. pushCopies(queue, n, key, copies) = f[copies]
  BY DEF pushCopies, ArePushed
<1> HIDE DEF f
<1>8. \A i \in 0..copies :
         f[i] = IF i = 0 THEN queue
                ELSE pushMessage(f[i - 1], [n |-> n, copy |-> i, key |-> key])
  BY <1>6, Zenon DEF ArePushed
<1>9. f[0] = queue
  BY <1>4, <1>8, Zenon
<1>10. \A i \in 1..copies : f[i] = pushMessage(f[i - 1], CopyOf(n, i, key))
  BY <1>4, <1>8, Zenon DEF CopyOf
<1>11. QED
  BY <1>7, <1>9, <1>10, Zenon


LEMMA PushedFacts ==
  ASSUME NEW queue \in Seq(Messages), InOrder(queue), NEW n \in Nat \ {0},
         \A m \in Contents(queue) : m.n < n,
         NEW key \in Keys \union {NoKey}, NEW copies \in 0..MaxSubscriptions
  PROVE  LET after == pushCopies(queue, n, key, copies)
         IN  /\ after \in Seq(Messages)
             /\ InOrder(after)
             /\ Contents(after) = IF copies = 0 THEN Contents(queue)
                                  ELSE Promise!After(Contents(queue), n, key, copies)
<1>1. PICK f : /\ f[0] = queue
               /\ \A i \in 1..copies : f[i] = pushMessage(f[i - 1], CopyOf(n, i, key))
               /\ pushCopies(queue, n, key, copies) = f[copies]
  BY PushedExist
<1>2. copies \in Nat
  BY BusAssumption
<1> DEFINE old == Contents(queue)
           Got(i) == IF i = 0 THEN old ELSE Promise!After(old, n, key, i)
           S == {i \in 0..copies : /\ f[i] \in Seq(Messages) /\ InOrder(f[i])
                                   /\ Contents(f[i]) = Got(i)}
<1>3. 0 \in S
  BY <1>1, <1>2
<1>4. ASSUME NEW i \in 1..copies, i - 1 \in S PROVE i \in S
  <2>1. f[i - 1] \in Seq(Messages) /\ InOrder(f[i - 1]) /\ Contents(f[i - 1]) = Got(i - 1)
    BY <1>4
  <2>2. PICK m : m = CopyOf(n, i, key)
    OBVIOUS
  <2>3. m \in Messages /\ m.n = n /\ m.copy = i /\ m.key = key
    BY <2>2, CopyType DEF CopyOf
  <2>4. i \in Nat \ {0} /\ i - 1 \in Nat /\ (i - 1 = 0 <=> i = 1)
    BY <1>2
  <2>5. \A other \in Got(i - 1) : Before(other, m)
    <3>1. CASE i = 1
      BY <2>3, <2>4, <3>1 DEF Before, Promise!Before
    <3>2. CASE i # 1
      <4>1. ASSUME NEW other \in Got(i - 1)
            PROVE  other \in old \/ (other.n = n /\ other.copy \in 1..(i - 1))
        BY <2>4, <3>2, <4>1 DEF Promise!After
      <4>2. \A k \in 1..(i - 1) : k < i
        BY <2>4
      <4>3. QED
        BY <2>3, <4>1, <4>2 DEF Before, Promise!Before
    <3>3. QED
      BY <3>1, <3>2
  <2>6. f[i] = pushMessage(f[i - 1], m)
    BY <1>1, <2>2
  <2>7. /\ f[i] \in Seq(Messages) /\ InOrder(f[i])
        /\ Contents(f[i]) = {other \in Got(i - 1) : m.key = NoKey \/ other.key # m.key} \union {m}
    BY <2>1, <2>3, <2>5, <2>6, PushFacts
  <2>8. {other \in Got(i - 1) : m.key = NoKey \/ other.key # m.key} \union {m} = Got(i)
    <3>1. CASE key = NoKey
      <4>1. Got(i) = old \union [n : {n}, copy : 1..i, key : {key}]
        BY <2>4, <3>1 DEF Promise!After
      <4>2. Got(i - 1) = old \union [n : {n}, copy : 1..(i - 1), key : {key}]
        <5>1. CASE i = 1
          BY <2>4, <5>1
        <5>2. CASE i # 1
          BY <2>4, <3>1, <5>2 DEF Promise!After
        <5>3. QED
          BY <5>1, <5>2
      <4>3. 1..i = 1..(i - 1) \union {i}
        BY <2>4
      <4>4. [n : {n}, copy : 1..i, key : {key}]
              = [n : {n}, copy : 1..(i - 1), key : {key}] \union {m}
        <5>1. ASSUME NEW x \in [n : {n}, copy : 1..i, key : {key}]
              PROVE  x = m \/ x \in [n : {n}, copy : 1..(i - 1), key : {key}]
          <6>1. x = [n |-> n, copy |-> x.copy, key |-> key] /\ x.copy \in 1..i
            OBVIOUS
          <6>2. QED
            BY <2>2, <4>3, <6>1 DEF CopyOf
        <5>2. m \in [n : {n}, copy : 1..i, key : {key}]
          BY <2>2 DEF CopyOf
        <5>3. [n : {n}, copy : 1..(i - 1), key : {key}] \subseteq [n : {n}, copy : 1..i, key : {key}]
          BY <4>3
        <5>4. QED
          BY <5>1, <5>2, <5>3
      <4>5. QED
        BY <2>3, <3>1, <4>1, <4>2, <4>4
    <3>2. CASE key # NoKey
      <4>1. Got(i) = {other \in old : other.key # key} \union {m}
        BY <2>2, <2>4, <3>2 DEF Promise!After, CopyOf
      <4>2. {other \in Got(i - 1) : other.key # key} = {other \in old : other.key # key}
        <5>1. CASE i = 1
          BY <2>4, <5>1
        <5>2. CASE i # 1
          BY <2>4, <3>2, <5>2 DEF Promise!After
        <5>3. QED
          BY <5>1, <5>2
      <4>3. QED
        BY <2>3, <3>2, <4>1, <4>2
    <3>3. QED
      BY <3>1, <3>2
  <2>9. QED
    BY <2>7, <2>8
<1>5. copies \in S
  <2> HIDE DEF S
  <2>1. \A i \in 0..copies : i \in S
    BY <1>2, <1>3, <1>4, Induction, Zenon
  <2>2. QED
    BY <1>2, <2>1
<1>6. QED
  BY <1>1, <1>5


-----------------------------------------------------------------------------
(* The bus implements Mailbox.                                              *)

\* A queue is what its target has still to read, in the order of publication.
BusInv ==
    /\ published \in Nat
    /\ queues \in [Targets -> Seq(Messages)]
    /\ \A t \in Targets : /\ InOrder(queues[t])
                          /\ \A m \in Contents(queues[t]) : m.n <= published
    /\ subscriptions \in Seq([target : Targets, pattern : Patterns])
    /\ Len(subscriptions) <= MaxSubscriptions

Unread == [t \in Targets |-> Contents(queues[t])]

LEMMA BusInit == Init => BusInv /\ Promise!Init
<1> SUFFICES ASSUME Init PROVE BusInv /\ Promise!Init
  OBVIOUS
<1>1. \A t \in Targets : queues[t] = << >> /\ Contents(queues[t]) = {} /\ InOrder(queues[t])
  BY DEF Init, Contents, InOrder
<1>2. BusInv
  <2>1. queues \in [Targets -> Seq(Messages)]
    BY DEF Init
  <2>2. subscriptions = << >> /\ Len(subscriptions) = 0 /\ MaxSubscriptions \in Nat
    BY BusAssumption DEF Init
  <2>3. QED
    BY <1>1, <2>1, <2>2 DEF BusInv, Init
<1>3. Promise!Init
  BY <1>1 DEF Promise!Init, Init, Contents
<1>4. QED
  BY <1>2, <1>3

\* A target gets no more copies of a message than there are subscriptions.
LEMMA CopiesBounded ==
  ASSUME BusInv, NEW t, NEW target, NEW kind
  PROVE  Copies(t, target, kind) \in 0..MaxSubscriptions
<1>1. MaxSubscriptions \in Nat \ {0}
  BY BusAssumption
<1>2. PICK n \in Nat : n = Len(subscriptions) /\ n <= MaxSubscriptions
  BY DEF BusInv
<1>3. Matching(t, kind) \subseteq 1..n
  BY <1>2 DEF Matching, BusInv
<1>4. IsFiniteSet(1..n) /\ Cardinality(1..n) = n
  <2>1. 1 \in Int /\ n \in Int
    BY <1>2
  <2>2. IsFiniteSet(1..n) /\ Cardinality(1..n) = IF 1 > n THEN 0 ELSE n - 1 + 1
    BY <2>1, FS_Interval, Zenon
  <2>3. QED
    BY <1>2, <2>2
<1>5. Cardinality(Matching(t, kind)) \in Nat /\ Cardinality(Matching(t, kind)) <= n
  BY <1>3, <1>4, FS_Subset, FS_CardinalityType
<1>6. QED
  BY <1>1, <1>2, <1>5 DEF Copies

\* The first k messages of a queue are read.
LEMMA DropFacts ==
  ASSUME NEW queue \in Seq(Messages), InOrder(queue), NEW k \in 1..Len(queue),
         NEW rest \in Seq(Messages), Len(rest) = Len(queue) - k,
         \A i \in 1..Len(rest) : rest[i] = queue[i + k]
  PROVE  LET read == {queue[i] : i \in 1..k}
         IN  /\ InOrder(rest)
             /\ Contents(rest) = Contents(queue) \ read
             /\ read # {} /\ read \subseteq Contents(queue)
             /\ \A m \in read, other \in Contents(queue) \ read : Before(m, other)
<1> DEFINE read == {queue[i] : i \in 1..k}
<1>1. /\ Len(queue) \in Nat /\ DOMAIN queue = 1..Len(queue)
      /\ DOMAIN rest = 1..Len(rest) /\ Len(rest) \in Nat /\ k \in Nat
      /\ \A i \in 1..Len(rest) : i + k \in 1..Len(queue) /\ i + k > k
      /\ \A i \in 1..Len(queue) : i > k => i - k \in 1..Len(rest) /\ (i - k) + k = i
  OBVIOUS
<1>2. \A i \in 1..Len(queue) : queue[i].n \in Nat /\ queue[i].copy \in Nat
  <2>1. \A m \in Messages : m.n \in Nat /\ m.copy \in Nat
    BY BusAssumption DEF Messages, Promise!Messages
  <2>2. QED
    BY <2>1
<1>3. \A i, j \in 1..Len(queue) : i < j => Before(queue[i], queue[j]) /\ queue[i] # queue[j]
  <2>1. \A i, j \in 1..Len(queue) : i < j => Before(queue[i], queue[j])
    BY <1>1 DEF InOrder
  <2>2. \A i \in 1..Len(queue) : ~Before(queue[i], queue[i])
    BY <1>2 DEF Before, Promise!Before
  <2>3. QED
    BY <2>1, <2>2
<1>4. InOrder(rest)
  <2>1. ASSUME NEW i \in 1..Len(rest), NEW j \in 1..Len(rest), i < j
        PROVE  Before(rest[i], rest[j])
    <3>1. rest[i] = queue[i + k] /\ rest[j] = queue[j + k] /\ i + k < j + k
      BY <1>1, <2>1
    <3>2. QED
      BY <1>1, <1>3, <3>1
  <2>2. QED
    BY <1>1, <2>1 DEF InOrder
<1>5. \A i \in 1..k : i \in 1..Len(queue) /\ \A j \in 1..Len(queue) : j > k => i < j
  BY <1>1
<1>6. Contents(rest) = Contents(queue) \ read
  <2>1. ASSUME NEW i \in 1..Len(rest) PROVE rest[i] \in Contents(queue) \ read
    <3>1. rest[i] = queue[i + k] /\ i + k \in 1..Len(queue) /\ i + k > k
      BY <1>1
    <3>2. \A j \in 1..k : queue[j] # queue[i + k]
      BY <1>3, <1>5, <3>1
    <3>3. QED
      BY <1>1, <3>1, <3>2 DEF Contents
  <2>2. ASSUME NEW i \in 1..Len(queue), queue[i] \notin read PROVE queue[i] \in Contents(rest)
    <3>1. i > k
      BY <1>1, <2>2
    <3>2. rest[i - k] = queue[i] /\ i - k \in DOMAIN rest
      BY <1>1, <3>1
    <3>3. QED
      BY <3>2 DEF Contents
  <2>3. Contents(rest) \subseteq Contents(queue) \ read
    BY <1>1, <2>1 DEF Contents
  <2>4. \A m \in Contents(queue) \ read : m \in Contents(rest)
    <3> SUFFICES ASSUME NEW m \in Contents(queue) \ read PROVE m \in Contents(rest)
      OBVIOUS
    <3>1. PICK i \in 1..Len(queue) : m = queue[i]
      BY <1>1 DEF Contents
    <3>2. QED
      BY <2>2, <3>1
  <2>5. QED
    BY <2>3, <2>4
<1>7. read # {} /\ read \subseteq Contents(queue)
  <2>1. queue[1] \in read
    BY <1>1
  <2>2. \A i \in 1..k : queue[i] \in Contents(queue)
    BY <1>1, <1>5 DEF Contents
  <2>3. QED
    BY <2>1, <2>2
<1>8. ASSUME NEW m \in read, NEW other \in Contents(queue) \ read PROVE Before(m, other)
  <2>1. PICK i \in 1..k : m = queue[i]
    OBVIOUS
  <2>2. PICK j \in 1..Len(queue) : other = queue[j] /\ j > k
    BY <1>1 DEF Contents
  <2>3. QED
    BY <1>3, <1>5, <2>1, <2>2
<1>9. QED
  BY <1>4, <1>6, <1>7, <1>8


\* A consumer that takes the first of its messages reads them from its mailbox.
LEMMA ReadStep ==
  ASSUME BusInv, NEW t \in Targets, NEW k \in 1..Len(queues[t]),
         NEW rest \in Seq(Messages), Len(rest) = Len(queues[t]) - k,
         \A i \in 1..Len(rest) : rest[i] = queues[t][i + k],
         queues' = [queues EXCEPT ![t] = rest], UNCHANGED <<subscriptions, published>>
  PROVE  BusInv' /\ Promise!Next
<1>0. PICK read : read = {queues[t][i] : i \in 1..k}
  OBVIOUS
<1>1. queues[t] \in Seq(Messages) /\ InOrder(queues[t])
  BY DEF BusInv
<1>2. /\ InOrder(rest) /\ Contents(rest) = Contents(queues[t]) \ read
      /\ read # {} /\ read \subseteq Contents(queues[t])
      /\ \A m \in read, other \in Contents(queues[t]) \ read : Before(m, other)
  BY <1>0, <1>1, DropFacts
<1>3. /\ queues'[t] = rest /\ queues' \in [Targets -> Seq(Messages)]
      /\ \A u \in Targets \ {t} : queues'[u] = queues[u]
  BY DEF BusInv
<1>4. BusInv'
  <2>1. ASSUME NEW u \in Targets
        PROVE  InOrder(queues'[u]) /\ \A m \in Contents(queues'[u]) : m.n <= published
    BY <1>2, <1>3 DEF BusInv
  <2>2. QED
    BY <1>3, <2>1 DEF BusInv
<1>5. Promise!Read(t, read)
  <2>1. Unread' = [Unread EXCEPT ![t] = @ \ read]
    BY <1>2, <1>3 DEF Unread
  <2>2. Unread[t] = Contents(queues[t])
    BY DEF Unread
  <2>3. QED
    BY <1>2, <2>1, <2>2 DEF Promise!Read, Unread, Contents, Before
<1>6. read \in SUBSET [u \in Targets |-> {queues[u][i] : i \in DOMAIN queues[u]}][t]
  BY <1>2 DEF Contents
<1>7. Promise!Next
  BY <1>5, <1>6 DEF Promise!Next
<1>8. QED
  BY <1>4, <1>7

LEMMA TakeReads ==
  ASSUME BusInv, NEW t \in Targets, Take(t)
  PROVE  BusInv' /\ Promise!Next
<1>1. queues[t] \in Seq(Messages) /\ queues[t] # << >>
  BY DEF BusInv, Take
<1>2. PICK rest : rest = Tail(queues[t])
  OBVIOUS
<1>3. /\ 1 \in 1..Len(queues[t]) /\ rest \in Seq(Messages)
      /\ Len(rest) = Len(queues[t]) - 1
      /\ \A i \in 1..Len(rest) : rest[i] = queues[t][i + 1]
  BY <1>1, <1>2
<1>4. queues' = [queues EXCEPT ![t] = rest] /\ UNCHANGED <<subscriptions, published>>
  BY <1>2 DEF Take
<1>5. QED
  BY <1>3, <1>4, ReadStep

LEMMA DrainReads ==
  ASSUME BusInv, NEW t \in Targets, drainFor(t)
  PROVE  BusInv' /\ Promise!Next
<1>1. queues[t] \in Seq(Messages) /\ queues[t] # << >>
  BY DEF BusInv, drainFor
<1>2. PICK n \in Nat : n = Len(queues[t]) /\ n > 0
  BY <1>1
<1>3. PICK count : count = IF n < MaxDrain THEN n ELSE MaxDrain
  OBVIOUS
<1>4. count \in 1..n
  BY <1>2, <1>3, BusAssumption
<1>5. PICK rest : rest = SubSeq(queues[t], count + 1, n)
  OBVIOUS
<1>6. /\ rest \in Seq(Messages) /\ Len(rest) = n - count
      /\ \A i \in 1..Len(rest) : rest[i] = queues[t][i + count]
  BY <1>1, <1>2, <1>4, <1>5
<1>7. queues' = [queues EXCEPT ![t] = rest] /\ UNCHANGED <<subscriptions, published>>
  BY <1>2, <1>3, <1>5 DEF drainFor
<1>8. QED
  BY <1>2, <1>4, <1>6, <1>7, ReadStep

LEMMA PublishStep ==
  ASSUME BusInv, NEW p \in Publishers, NEW t \in Targets, NEW kind \in Kinds,
         NEW key \in Keys \union {NoKey}, publish(p, t, kind, key)
  PROVE  BusInv' /\ Promise!Next
<1>1. PICK n \in Nat : n = published + 1
  BY DEF BusInv
<1>2. n \in Nat \ {0} /\ published' = n /\ published \in Nat /\ published < n
  BY <1>1 DEF publish, BusInv
<1>3. PICK copies : copies = [u \in Targets |-> Copies(u, t, kind)]
  OBVIOUS
<1>4. copies \in [Targets -> 0..MaxSubscriptions]
  BY <1>3, CopiesBounded
<1>5. queues' = [u \in Targets |-> pushCopies(queues[u], n, key, copies[u])]
  BY <1>1, <1>3 DEF publish
<1>6. ASSUME NEW u \in Targets
      PROVE  /\ queues'[u] \in Seq(Messages) /\ InOrder(queues'[u])
             /\ Contents(queues'[u])
                  = IF copies[u] = 0 THEN Contents(queues[u])
                    ELSE Promise!After(Contents(queues[u]), n, key, copies[u])
  <2>1. queues[u] \in Seq(Messages) /\ InOrder(queues[u])
    BY DEF BusInv
  <2>2. \A m \in Contents(queues[u]) : m.n < n
    <3>1. \A m \in Contents(queues[u]) : m.n \in Nat /\ m.n <= published
      <4>1. \A m \in Messages : m.n \in Nat
        BY DEF Messages, Promise!Messages
      <4>2. QED
        BY <2>1, <4>1 DEF Contents, BusInv
    <3>2. QED
      BY <1>2, <3>1
  <2>3. queues'[u] = pushCopies(queues[u], n, key, copies[u])
    BY <1>5
  <2>4. copies[u] \in 0..MaxSubscriptions
    BY <1>4
  <2>5. QED
    BY <1>2, <2>1, <2>2, <2>3, <2>4, PushedFacts
<1>7. BusInv'
  <2>1. ASSUME NEW u \in Targets, NEW m \in Contents(queues'[u]) PROVE m.n <= n
    <3>1. \A other \in Contents(queues[u]) : other.n \in Nat /\ other.n <= published
      <4>1. queues[u] \in Seq(Messages) /\ \A other \in Messages : other.n \in Nat
        BY DEF Messages, Promise!Messages, BusInv
      <4>2. QED
        BY <4>1 DEF Contents, BusInv
    <3>2. m \in Contents(queues[u]) \/ m.n = n
      <4>1. \A old, c : \A x \in Promise!After(old, n, key, c) : x \in old \/ x.n = n
        <5>1. CASE key = NoKey
          BY <5>1 DEF Promise!After
        <5>2. CASE key # NoKey
          BY <5>2 DEF Promise!After
        <5>3. QED
          BY <5>1, <5>2
      <4>2. QED
        BY <1>6, <2>1, <4>1
    <3>3. QED
      BY <1>2, <3>1, <3>2
  <2>2. queues' \in [Targets -> Seq(Messages)]
    BY <1>5, <1>6
  <2>3. UNCHANGED subscriptions
    BY DEF publish
  <2>4. QED
    BY <1>2, <1>6, <2>1, <2>2, <2>3 DEF BusInv
<1>8. Promise!Publish(key, copies)
  <2>1. Unread' = [u \in Targets |-> Contents(queues'[u])]
    BY DEF Unread
  <2>2. Unread' = [u \in Targets |-> IF copies[u] = 0 THEN Unread[u]
                                     ELSE Promise!After(Unread[u], n, key, copies[u])]
    BY <1>6, <2>1 DEF Unread
  <2>3. QED
    BY <1>1, <1>2, <2>2 DEF Promise!Publish, Unread, Contents
<1>9. QED
  BY <1>4, <1>7, <1>8 DEF Promise!Next


LEMMA BusStep == BusInv /\ [Next]_vars =>
    BusInv' /\ (Promise!Next \/ UNCHANGED <<Unread, published>>)
<1> SUFFICES ASSUME BusInv, [Next]_vars
             PROVE  BusInv' /\ (Promise!Next \/ UNCHANGED <<Unread, published>>)
  OBVIOUS
<1>1. ASSUME NEW t \in Targets, NEW pattern \in Patterns, subscribe(t, pattern)
      PROVE  BusInv' /\ UNCHANGED <<Unread, published>>
  <2>1. PICK n \in Nat : n = Len(subscriptions) /\ n < MaxSubscriptions
    BY <1>1 DEF BusInv, subscribe
  <2>2. /\ subscriptions' \in Seq([target : Targets, pattern : Patterns])
        /\ Len(subscriptions') = n + 1
    BY <1>1, <2>1 DEF BusInv, subscribe
  <2>3. n + 1 <= MaxSubscriptions
    BY <2>1, BusAssumption
  <2>4. UNCHANGED <<queues, published, Unread>>
    BY <1>1 DEF subscribe, Unread
  <2>5. QED
    BY <2>2, <2>3, <2>4 DEF BusInv
<1>2. ASSUME NEW p \in Publishers, NEW t \in Targets, NEW kind \in Kinds,
             NEW key \in Keys \union {NoKey}, publish(p, t, kind, key)
      PROVE  BusInv' /\ Promise!Next
  BY <1>2, PublishStep
<1>3. ASSUME UNCHANGED <<queues, subscriptions, published>>
      PROVE  BusInv' /\ UNCHANGED <<Unread, published>>
  BY <1>3 DEF BusInv, Unread
<1>4. ASSUME NEW p \in Publishers, notifyAll(p)
      PROVE  BusInv' /\ UNCHANGED <<Unread, published>>
  BY <1>3, <1>4 DEF notifyAll
<1>5. ASSUME NEW t \in Targets, waitFor(t) \/ Resume(t) \/ Timeout(t)
      PROVE  BusInv' /\ (Promise!Next \/ UNCHANGED <<Unread, published>>)
  <2>1. CASE Take(t)
    BY <2>1, TakeReads
  <2>2. CASE ~Take(t)
    BY <1>3, <1>5, <2>2 DEF waitFor, Resume, Timeout, Block
  <2>3. QED
    BY <2>1, <2>2
<1>6. ASSUME NEW t \in Targets, drainFor(t)
      PROVE  BusInv' /\ Promise!Next
  BY <1>6, DrainReads
<1>7. CASE UNCHANGED vars
  BY <1>3, <1>7 DEF vars
<1>8. QED
  BY <1>1, <1>2, <1>4, <1>5, <1>6, <1>7 DEF Next

\* The types of what the bus holds.
THEOREM TypeCorrect == Spec => []TypeOK
<1> DEFINE Bounded == published <= MaxPublished
<1>1. Init => Bounded
  BY BusAssumption DEF Init
<1>2. BusInv /\ Bounded /\ [Next]_vars => Bounded'
  <2> SUFFICES ASSUME BusInv, Bounded, [Next]_vars PROVE Bounded'
    OBVIOUS
  <2>1. published \in Nat /\ MaxPublished \in Nat
    BY BusAssumption DEF BusInv
  <2>2. ASSUME NEW p \in Publishers, NEW t \in Targets, NEW kind \in Kinds,
               NEW key \in Keys \union {NoKey}, publish(p, t, kind, key)
        PROVE  Bounded'
    BY <2>1, <2>2 DEF publish
  <2>3. CASE UNCHANGED published
    BY <2>3
  <2>4. QED
    BY <2>2, <2>3 DEF Next, vars, subscribe, notifyAll, waitFor, Resume, Timeout, Take, Block,
                      drainFor
<1>3. BusInv /\ WakeInv /\ Bounded => TypeOK
  <2> SUFFICES ASSUME BusInv, WakeInv, Bounded PROVE TypeOK
    OBVIOUS
  <2>1. published \in 0..MaxPublished
    BY BusAssumption DEF BusInv
  <2>2. ASSUME NEW t \in Targets, NEW i \in DOMAIN queues[t]
        PROVE  queues[t][i] \in [n : 1..published, copy : 1..MaxSubscriptions,
                                 key : Keys \union {NoKey}]
    <3>1. PICK m : m = queues[t][i]
      OBVIOUS
    <3>2. m \in Messages /\ m.n <= published
      BY <3>1 DEF BusInv, Contents
    <3>3. m \in [n : Nat \ {0}, copy : 1..MaxSubscriptions, key : Keys \union {NoKey}]
      BY <3>2 DEF Messages, Promise!Messages
    <3>4. published \in Nat
      BY DEF BusInv
    <3>5. m.n \in 1..published
      BY <3>2, <3>3, <3>4
    <3>6. QED
      BY <3>1, <3>3, <3>5
  <2>3. QED
    BY <2>1, <2>2 DEF TypeOK, WakeInv, ThreadsOK
<1>4. QED
  BY BusInit, BusStep, WakeInit, WakeStep, <1>1, <1>2, <1>3, PTL DEF Spec

\* The bus keeps the promise of Mailbox (publish, pushMessage, waitFor, drainFor):
\* each queue is a mailbox whose messages are read in the order of publication.
THEOREM PromiseKept == Spec => KeepsPromise
<1>1. BusInv /\ [Next]_vars =>
         [Promise!Next]_<<[t \in Targets |-> {queues[t][i] : i \in DOMAIN queues[t]}], published>>
  BY BusStep DEF Unread, Contents
<1>2. QED
  BY BusInit, BusStep, <1>1, PTL DEF Spec, KeepsPromise, Promise!Spec


-----------------------------------------------------------------------------
(* What follows from the promise of Mailbox.                                *)

\* One target's mailbox after a publication has one message of the key.
LEMMA AfterCoalesced ==
  ASSUME NEW old, NEW key, NEW n, NEW copies,
         \A m, other \in old : m.key = other.key /\ m.key # NoKey => m = other
  PROVE  \A m, other \in Promise!After(old, n, key, copies) :
            m.key = other.key /\ m.key # NoKey => m = other
<1>1. CASE key = NoKey
  <2>1. \A m \in [n : {n}, copy : 1..copies, key : {key}] : m.key = NoKey
    BY <1>1
  <2>2. QED
    BY <1>1, <2>1 DEF Promise!After
<1>2. CASE key # NoKey
  BY <1>2 DEF Promise!After
<1>3. QED
  BY <1>1, <1>2

LEMMA AfterIsNew ==
  ASSUME NEW old, NEW key, NEW n, NEW copies
  PROVE  \A m \in Promise!After(old, n, key, copies) \ old : m.n = n
<1>1. CASE key = NoKey
  BY <1>1 DEF Promise!After
<1>2. CASE key # NoKey
  BY <1>2 DEF Promise!After
<1>3. QED
  BY <1>1, <1>2

\* A step of the promise, as one target sees it.
LEMMA PromiseStep ==
  ASSUME Promise!Next, NEW t \in Targets
  PROVE  \/ Unread'[t] \subseteq Unread[t]
         \/ \E key, copies :
               Unread'[t] = Promise!After(Unread[t], published + 1, key, copies)
<1>1. ASSUME NEW key \in Keys \union {NoKey},
             NEW copies \in [Targets -> 0..MaxSubscriptions], Promise!Publish(key, copies)
      PROVE  \/ Unread'[t] \subseteq Unread[t]
             \/ Unread'[t] = Promise!After(Unread[t], published + 1, key, copies[t])
  BY <1>1 DEF Promise!Publish, Unread, Contents
<1>2. ASSUME NEW u \in Targets, NEW messages, Promise!Read(u, messages)
      PROVE  Unread'[t] \subseteq Unread[t]
  BY <1>2 DEF Promise!Read, Unread, Contents
<1>3. QED
  BY <1>1, <1>2 DEF Promise!Next

LEMMA CoalescedInit == Init => Promise!Coalesced
  BY BusInit DEF Promise!Init, Promise!Coalesced

LEMMA CoalescedStep == BusInv /\ Promise!Coalesced /\ [Next]_vars => Promise!Coalesced'
<1> SUFFICES ASSUME BusInv, Promise!Coalesced, [Next]_vars
             PROVE  Promise!Coalesced'
  OBVIOUS
<1>1. \A t \in Targets : \A m, other \in Unread[t] :
         m.key = other.key /\ m.key # NoKey => m = other
  BY DEF Promise!Coalesced, Unread, Contents
<1>2. ASSUME NEW t \in Targets
      PROVE  \A m, other \in Unread'[t] : m.key = other.key /\ m.key # NoKey => m = other
  <2>1. CASE Unread'[t] \subseteq Unread[t]
    BY <1>1, <2>1
  <2>2. CASE \E key, copies :
                Unread'[t] = Promise!After(Unread[t], published + 1, key, copies)
    BY <1>1, <2>2, AfterCoalesced
  <2>3. QED
    BY <2>1, <2>2, BusStep, PromiseStep
<1>3. QED
  BY <1>2 DEF Promise!Coalesced, Unread, Contents

\* A slow consumer finds at most one message of each coalesce_key in its queue:
\* pushMessage erases the queued one before it appends the new one.
THEOREM OneUnreadPerKey == Spec => []Promise!Coalesced
  BY BusInit, BusStep, CoalescedInit, CoalescedStep, PTL DEF Spec

\* A message that was read or superseded never comes back into a queue.
THEOREM NoReturn == Spec => Promise!NothingReturns
<1>1. BusInv /\ [Next]_vars =>
         [Promise!OnlyNew]_<<[t \in Targets |-> {queues[t][i] : i \in DOMAIN queues[t]}], published>>
  <2> SUFFICES ASSUME BusInv, [Next]_vars, Promise!Next
               PROVE  \A t \in Targets : \A m \in Unread'[t] \ Unread[t] : m.n > published
    BY BusStep DEF Promise!OnlyNew, Unread, Contents
  <2>1. published \in Nat
    BY DEF BusInv
  <2>2. QED
    BY <2>1, PromiseStep, AfterIsNew
<1>2. QED
  BY BusInit, BusStep, <1>1, PTL DEF Spec, Promise!NothingReturns
=============================================================================
