--------------------------- MODULE CommandService ---------------------------
(***************************************************************************)
(* What AgentManager owes those who send it activations and commands: an   *)
(* answer to each request, once, and "success" only for what the node (or  *)
(* the host itself, for an activation or a local script) carried out for   *)
(* this very request.  A request that failed for its sender, by a timeout, *)
(* may still be carried out later.                                         *)
(***************************************************************************)
EXTENDS Sequences

CONSTANTS Requests  \* numbers of requests

VARIABLES asked,     \* the requests sent
          executed,  \* the requests that were carried out
          answers    \* the answers to each: TRUE is "success"

Init == /\ asked = {} /\ executed = {}
        /\ answers = [r \in Requests |-> << >>]

Ask(r) == /\ r \notin asked
          /\ asked' = asked \union {r}
          /\ UNCHANGED <<executed, answers>>

Execute(r) == /\ r \in asked
              /\ executed' = executed \union {r}
              /\ UNCHANGED <<asked, answers>>

Answer(r, success) ==
    /\ r \in asked /\ answers[r] = << >>
    /\ answers' = [answers EXCEPT ![r] = <<success>>]
    /\ executed' \in {executed, executed \union {r}}
    /\ success => r \in executed'
    /\ UNCHANGED asked

Next == \E r \in Requests : Ask(r) \/ Execute(r) \/ \E success \in BOOLEAN : Answer(r, success)

Spec == Init /\ [][Next]_<<asked, executed, answers>>
=============================================================================
