------------------------------ MODULE Mailbox ------------------------------
(***************************************************************************)
(* What HostMessageBus promises its modules, without queues, threads or    *)
(* locks: every target has a set of unread messages; a published message   *)
(* becomes unread at all its targets at once and, when it has a key, takes *)
(* the place of the unread message with that key; a target reads its       *)
(* oldest messages first, and nothing else ever makes a message disappear. *)
(***************************************************************************)
EXTENDS Integers, FiniteSets

CONSTANTS Targets, Keys, NoKey, MaxCopies

VARIABLES unread,     \* the messages each target has still to read
          published   \* how many messages have been published

\* A message: the number of its publication, which of the copies it is that a
\* target gets of one publication, its coalesce_key.
Messages == [n : Nat \ {0}, copy : 1..MaxCopies, key : Keys \union {NoKey}]

Before(m, other) == m.n < other.n \/ (m.n = other.n /\ m.copy < other.copy)

Init == /\ unread = [t \in Targets |-> {}]
        /\ published = 0

\* One publication, of which each target gets some number of copies.  Of copies
\* with a key only the last one remains.
After(old, n, key, copies) ==
    IF key = NoKey
    THEN old \union [n : {n}, copy : 1..copies, key : {key}]
    ELSE {m \in old : m.key # key}
            \union {[n |-> n, copy |-> copies, key |-> key]}

Publish(key, copies) ==
    /\ published' = published + 1
    /\ unread' = [t \in Targets |->
                    IF copies[t] = 0 THEN unread[t]
                    ELSE After(unread[t], published + 1, key, copies[t])]

\* A target reads some of its messages, the oldest first.
Read(t, messages) ==
    /\ messages # {}
    /\ \A m \in messages, other \in unread[t] \ messages : Before(m, other)
    /\ unread' = [unread EXCEPT ![t] = @ \ messages]
    /\ UNCHANGED published

Next == \/ \E key \in Keys \union {NoKey}, copies \in [Targets -> 0..MaxCopies] :
              Publish(key, copies)
        \/ \E t \in Targets : \E messages \in SUBSET unread[t] : Read(t, messages)

Spec == Init /\ [][Next]_<<unread, published>>

-----------------------------------------------------------------------------
TypeOK == /\ published \in Nat
          /\ unread \in [Targets -> SUBSET Messages]
          /\ \A t \in Targets : \A m \in unread[t] : m.n <= published

\* A slow consumer finds at most one message of each key, the newest.
Coalesced ==
    \A t \in Targets : \A m, other \in unread[t] :
        m.key = other.key /\ m.key # NoKey => m = other

\* A message that has been read or superseded never comes back: what is new in
\* a mailbox is newer than everything published before.
OnlyNew ==
    \A t \in Targets : \A m \in unread'[t] \ unread[t] : m.n > published

NothingReturns == [][OnlyNew]_<<unread, published>>
=============================================================================
