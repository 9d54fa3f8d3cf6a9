-------------------------- MODULE AgentPagesProofs --------------------------
(***************************************************************************)
(* What MainWindow shows of an agent, and how AgentManager's proxy of the  *)
(* virtual UR node follows its configuration, for any agents and any       *)
(* number of choices, polls, settings and stops.                           *)
(*                                                                         *)
(* The first half of the argument is about order.  An activation or a      *)
(* command is first in AgentManager's queue, then in its lane's hands, and *)
(* its answer in the UI's queue: one Line, whose end is what was sent last *)
(* and whose head is what MainWindow hears of next.  MainWindow adds to    *)
(* its end and takes from its head; what the lane does moves nothing in it *)
(* and takes out only what is not the UI's (Thinned).  So an answer to the *)
(* request that is remembered is never ahead of the activation of an agent *)
(* chosen before it was sent.                                              *)
(* The second half is about what was read from the file before it changed: *)
(* until the release that follows the change has been served.              *)
(***************************************************************************)
EXTENDS AgentPages, TLAPS, FiniteSetTheorems

-----------------------------------------------------------------------------
(* The line of messages from MainWindow and back.                           *)

Posts == {m \in [type : {"activate", "cmd", "release"}, id : Nat, agent : Agents] :
             /\ m.id # 0 => m.type = "cmd"
             /\ m.type = "activate" => m.agent \in Primaries}

Answered == {m \in [type : {"activate", "cmd"}, id : Nat, agent : Agents, success : BOOLEAN] :
                /\ m.id # 0 => m.type = "cmd"
                /\ m.type = "activate" => m.agent \in Primaries}

Core(m) == Message(m.type, m.id, m.agent)

LineOf(answers, hand, posts) ==
    [i \in 1..(Len(answers) + Len(hand) + Len(posts)) |->
        IF i <= Len(answers) THEN Core(answers[i])
        ELSE IF i <= Len(answers) + Len(hand) THEN hand[i - Len(answers)]
        ELSE posts[i - Len(answers) - Len(hand)]]

Hand == IF lane.stage = "idle" THEN << >> ELSE << Core(lane) >>

Line == LineOf(inbox, Hand, queue)

IsLine(line, top) ==
    \E n \in Nat : /\ DOMAIN line = 1..n
                   /\ \A k \in 1..n : line[k] \in Posts /\ line[k].id <= top

\* A release, or a command of a script: MainWindow waits for no answer to it.
Inert(m) == m.type # "activate" /\ m.id = 0

Quiet(line) == \A k \in DOMAIN line : line[k].type # "activate"

\* The last activation in the line is that of the agent on the page, which
\* becomes active_agent_ when all have been heard of, unless it is refused.
Chosen(line, onPage, activeAgent, failed) ==
    \/ \E k \in DOMAIN line :
          /\ line[k].type = "activate" /\ line[k].agent = onPage
          /\ \A l \in DOMAIN line : l > k => line[l].type # "activate"
    \/ Quiet(line) /\ (onPage = activeAgent \/ failed)

\* The request that is remembered was sent for active_agent_, after every
\* activation that has not been heard of.
Requested(line, id, activeAgent) ==
    id # 0 =>
        \A k \in DOMAIN line : line[k].id = id =>
            /\ line[k].agent = activeAgent
            /\ \A l \in DOMAIN line : l > k => line[l].type # "activate"

\* Unless polling began anew too early there is one request and one activation
\* in the line, the request first.
Single(line, again, id, polled) ==
    again \/
      /\ \A k, l \in DOMAIN line : line[k].id # 0 /\ line[l].id # 0 => k = l
      /\ \A k \in DOMAIN line : line[k].type = "activate" =>
            /\ id = 0 /\ ~polled
            /\ \A l \in DOMAIN line : l > k => Inert(line[l])
      /\ Quiet(line) => \A k \in DOMAIN line : line[k].id \in {0, id}

\* MainWindow waits for nothing in the line, unless polling began anew too early.
AllHeard(line, again) == again \/ (Quiet(line) /\ \A k \in DOMAIN line : line[k].id = 0)

\* What is polled is active_agent_.
PollingInv ==
    /\ request # 0 => polling
    /\ polling => summary = agent /\ agent \in Summarised

Typed ==
    /\ page \in Primaries \union {NoAgent} /\ agent \in Primaries \union {NoAgent}
    /\ polls \in Nat /\ request \in 0..polls
    /\ polling \in BOOLEAN /\ refused \in BOOLEAN /\ restarted \in BOOLEAN
    /\ queue \in Seq(Posts) /\ inbox \in Seq(Answered)
    /\ lane.stage \in {"idle", "checked", "loaded"}
    /\ lane.stage # "idle" => Core(lane) \in Posts /\ lane.type # "release"

LineInv ==
    /\ IsLine(Line, polls)
    /\ Chosen(Line, page, agent, refused)
    /\ Requested(Line, request, agent)
    /\ Single(Line, restarted, request, polling)

PageInv == Typed /\ PollingInv /\ LineInv /\ SummaryIsOwn

-----------------------------------------------------------------------------
(* Who uses the configuration, and from when.                               *)

UsersTyped ==
    /\ config \in Int /\ file \in Int /\ lane.version \in Int
    /\ proxies \in [Agents -> Int] /\ active \in Primaries \union {NoAgent}
    /\ writing \in {"no", "write", "release"}

\* A request for the UR node that has been loaded carries what the file holds.
ProxyInv ==
    \/ ReleaseAhead
    \/ /\ proxies[Ur] \in {None, file}
       /\ lane.stage = "loaded" /\ lane.agent = Ur => lane.version = file

UsersInv == UsersTyped /\ ProxyInv

-----------------------------------------------------------------------------
(* What is sent, heard of, and taken out of a line.                         *)

Grown(new, old, m) ==
    \E n \in Nat : /\ DOMAIN old = 1..n /\ DOMAIN new = 1..(n + 1)
                   /\ \A k \in 1..n : new[k] = old[k]
                   /\ new[n + 1] = m

Shrunk(new, old) ==
    \E n \in Nat : /\ DOMAIN old = 1..(n + 1) /\ DOMAIN new = 1..n
                   /\ \A k \in 1..n : new[k] = old[k + 1]

Removed(new, old, j) ==
    \E n \in Nat : /\ DOMAIN old = 1..(n + 1) /\ DOMAIN new = 1..n /\ j \in 1..(n + 1)
                   /\ \A k \in 1..n : new[k] = old[IF k < j THEN k ELSE k + 1]

Same(new, old) ==
    DOMAIN new = DOMAIN old /\ \A k \in DOMAIN old : new[k] = old[k]

Thinned(new, old) ==
    Same(new, old) \/ \E j \in DOMAIN old : Inert(old[j]) /\ Removed(new, old, j)

LEMMA InertGrown ==
  ASSUME NEW new, NEW old, NEW m \in Posts, Grown(new, old, m), Inert(m),
         NEW top \in Nat, NEW p, NEW a, NEW failed, NEW id \in Nat, NEW again, NEW polled,
         IsLine(old, top)
  PROVE  /\ IsLine(new, top)
         /\ Chosen(old, p, a, failed) => Chosen(new, p, a, failed)
         /\ Requested(old, id, a) => Requested(new, id, a)
         /\ Single(old, again, id, polled) => Single(new, again, id, polled)
<1>1. PICK n \in Nat : /\ DOMAIN old = 1..n /\ DOMAIN new = 1..(n + 1)
                       /\ \A k \in 1..n : new[k] = old[k]
                       /\ new[n + 1] = m
  BY DEF Grown
<1>2. \A k \in 1..n : old[k] \in Posts /\ old[k].id <= top
  BY <1>1 DEF IsLine
<1>3. \A k \in 1..(n + 1) : k \in 1..n \/ k = n + 1
  OBVIOUS
<1>4. 1..n \subseteq 1..(n + 1) /\ \A k \in 1..n : k < n + 1
  OBVIOUS
<1>5. m.type # "activate" /\ m.id = 0
  BY DEF Inert
<1>6. IsLine(new, top)
  <2>1. \A k \in 1..(n + 1) : new[k] \in Posts /\ new[k].id <= top
    BY <1>1, <1>2, <1>3, <1>5
  <2>2. n + 1 \in Nat
    OBVIOUS
  <2>3. QED
    BY <1>1, <2>1, <2>2 DEF IsLine
<1>7. Quiet(new) <=> Quiet(old)
  BY <1>1, <1>3, <1>4, <1>5 DEF Quiet
<1>8. Chosen(old, p, a, failed) => Chosen(new, p, a, failed)
  <2>1. ASSUME NEW k \in DOMAIN old, old[k].type = "activate", old[k].agent = p,
               \A l \in DOMAIN old : l > k => old[l].type # "activate"
        PROVE  Chosen(new, p, a, failed)
    <3>1. \A l \in DOMAIN new : l > k => new[l].type # "activate"
      BY <1>1, <1>3, <1>5, <2>1
    <3>2. k \in DOMAIN new /\ new[k] = old[k]
      BY <1>1, <1>4
    <3>3. QED
      BY <2>1, <3>1, <3>2 DEF Chosen
  <2>2. QED
    BY <1>7, <2>1 DEF Chosen
<1>9. Requested(old, id, a) => Requested(new, id, a)
  BY <1>1, <1>3, <1>4, <1>5 DEF Requested
<1>10. Single(old, again, id, polled) => Single(new, again, id, polled)
  <2> SUFFICES ASSUME Single(old, again, id, polled), ~again PROVE Single(new, again, id, polled)
    BY DEF Single
  <2>1. \A k, l \in DOMAIN new : new[k].id # 0 /\ new[l].id # 0 => k = l
    BY <1>1, <1>3, <1>5 DEF Single
  <2>2. ASSUME NEW k \in DOMAIN new, new[k].type = "activate"
        PROVE  id = 0 /\ ~polled /\ \A l \in DOMAIN new : l > k => Inert(new[l])
    BY <1>1, <1>3, <1>5, <2>2 DEF Single
  <2>3. Quiet(new) => \A k \in DOMAIN new : new[k].id \in {0, id}
    BY <1>1, <1>3, <1>5, <1>7 DEF Single
  <2>4. QED
    BY <2>1, <2>2, <2>3 DEF Single
<1>11. QED
  BY <1>6, <1>8, <1>9, <1>10


\* A choice: what is remembered of the line before is forgotten.
LEMMA ActivationGrown ==
  ASSUME NEW new, NEW old, NEW a \in Primaries,
         Grown(new, old, Message("activate", 0, a)),
         NEW top \in Nat, NEW again, NEW before, NEW id, NEW polled, IsLine(old, top),
         Single(old, before, id, polled),
         again \/ (Quiet(old) /\ (before => \A k \in DOMAIN old : old[k].id = 0))
  PROVE  /\ IsLine(new, top)
         /\ Chosen(new, a, a, FALSE)
         /\ Requested(new, 0, a)
         /\ Single(new, again, 0, FALSE)
<1> DEFINE m == Message("activate", 0, a)
<1>1. PICK n \in Nat : /\ DOMAIN old = 1..n /\ DOMAIN new = 1..(n + 1)
                       /\ \A k \in 1..n : new[k] = old[k]
                       /\ new[n + 1] = m
  BY DEF Grown
<1>2. \A k \in 1..n : old[k] \in Posts /\ old[k].id <= top
  BY <1>1 DEF IsLine
<1>3. \A k \in 1..(n + 1) : k \in 1..n \/ k = n + 1
  OBVIOUS
<1>4. m.type = "activate" /\ m.id = 0 /\ m.agent = a /\ m \in Posts
  BY DEF Message, Posts, Agents
<1> HIDE DEF m
<1>5. IsLine(new, top)
  <2>1. \A k \in 1..(n + 1) : new[k] \in Posts /\ new[k].id <= top
    BY <1>1, <1>2, <1>3, <1>4
  <2>2. n + 1 \in Nat
    OBVIOUS
  <2>3. QED
    BY <1>1, <2>1, <2>2 DEF IsLine
<1>6. Chosen(new, a, a, FALSE)
  <2>1. \A l \in DOMAIN new : ~(l > n + 1)
    BY <1>1
  <2>2. n + 1 \in DOMAIN new
    BY <1>1
  <2>3. QED
    BY <1>1, <1>4, <2>1, <2>2 DEF Chosen
<1>7. Single(new, again, 0, FALSE)
  <2> SUFFICES ASSUME ~again PROVE Single(new, again, 0, FALSE)
    BY DEF Single
  <2>1. \A k, l \in 1..n : old[k].id # 0 /\ old[l].id # 0 => k = l
    BY <1>1 DEF Single
  <2>2. \A k, l \in DOMAIN new : new[k].id # 0 /\ new[l].id # 0 => k = l
    BY <1>1, <1>3, <1>4, <2>1
  <2>3. \A k \in 1..n : new[k].type # "activate"
    BY <1>1 DEF Quiet
  <2>4. \A k, l \in DOMAIN new : new[k].type = "activate" => ~(l > k)
    BY <1>1, <1>3, <2>3
  <2>5. n + 1 \in DOMAIN new /\ new[n + 1].type = "activate"
    BY <1>1, <1>4
  <2>6. ~Quiet(new)
    BY <2>5 DEF Quiet
  <2>7. QED
    BY <2>2, <2>4, <2>6 DEF Single
<1>8. QED
  BY <1>5, <1>6, <1>7 DEF Requested

\* A request for the summary of the active agent.
LEMMA AskGrown ==
  ASSUME NEW new, NEW old, NEW top \in Nat, NEW a \in Agents,
         Grown(new, old, Message("cmd", top + 1, a)),
         NEW p, NEW failed, NEW again, NEW polled, IsLine(old, top), Chosen(old, p, a, failed),
         AllHeard(old, again)
  PROVE  /\ IsLine(new, top + 1)
         /\ Chosen(new, p, a, failed)
         /\ Requested(new, top + 1, a)
         /\ Single(new, again, top + 1, polled)
<1> DEFINE m == Message("cmd", top + 1, a)
<1>1. PICK n \in Nat : /\ DOMAIN old = 1..n /\ DOMAIN new = 1..(n + 1)
                       /\ \A k \in 1..n : new[k] = old[k]
                       /\ new[n + 1] = m
  BY DEF Grown
<1>2. \A k \in 1..n : old[k] \in Posts /\ old[k].id <= top /\ old[k].id \in Nat
  BY <1>1 DEF IsLine, Posts
<1>3. \A k \in 1..(n + 1) : k \in 1..n \/ k = n + 1
  OBVIOUS
<1>4. m.type = "cmd" /\ m.id = top + 1 /\ m.agent = a /\ m \in Posts
  BY DEF Message, Posts
<1> HIDE DEF m
<1>5. IsLine(new, top + 1)
  <2>1. \A k \in 1..(n + 1) : new[k] \in Posts /\ new[k].id <= top + 1
    <3>1. \A k \in 1..n : new[k] \in Posts /\ new[k].id <= top + 1
      BY <1>1, <1>2
    <3>2. new[n + 1] \in Posts /\ new[n + 1].id <= top + 1
      BY <1>1, <1>4
    <3>3. QED
      BY <1>3, <3>1, <3>2
  <2>2. n + 1 \in Nat
    OBVIOUS
  <2>3. QED
    BY <1>1, <2>1, <2>2 DEF IsLine
<1>6. Quiet(new) <=> Quiet(old)
  BY <1>1, <1>3, <1>4 DEF Quiet
<1>7. Chosen(new, p, a, failed)
  <2>1. ASSUME NEW k \in DOMAIN old, old[k].type = "activate", old[k].agent = p,
               \A l \in DOMAIN old : l > k => old[l].type # "activate"
        PROVE  Chosen(new, p, a, failed)
    <3>1. \A l \in DOMAIN new : l > k => new[l].type # "activate"
      BY <1>1, <1>3, <1>4, <2>1
    <3>2. k \in DOMAIN new /\ new[k] = old[k]
      BY <1>1, <2>1
    <3>3. QED
      BY <2>1, <3>1, <3>2 DEF Chosen
  <2>2. QED
    BY <1>6, <2>1 DEF Chosen
<1>8. Requested(new, top + 1, a)
  <2>1. \A k \in 1..n : new[k].id # top + 1
    BY <1>1, <1>2
  <2>2. \A k \in DOMAIN new : new[k].id = top + 1 => k = n + 1
    BY <1>1, <1>3, <2>1
  <2>3. \A l \in DOMAIN new : ~(l > n + 1)
    BY <1>1
  <2>4. QED
    BY <1>1, <1>4, <2>2, <2>3 DEF Requested
<1>9. Single(new, again, top + 1, polled)
  <2> SUFFICES ASSUME ~again PROVE Single(new, again, top + 1, polled)
    BY DEF Single
  <2>1. \A k \in 1..n : new[k].id = 0
    BY <1>1 DEF AllHeard
  <2>2. \A k \in DOMAIN new : new[k].id # 0 => k = n + 1
    BY <1>1, <1>3, <2>1
  <2>3. \A k \in DOMAIN new : new[k].id \in {0, top + 1}
    BY <1>1, <1>3, <1>4, <2>1
  <2>4. \A k \in DOMAIN new : new[k].type # "activate"
    BY <1>6 DEF Quiet, AllHeard
  <2>5. QED
    BY <2>2, <2>3, <2>4 DEF Single
<1>10. QED
  BY <1>5, <1>7, <1>8, <1>9


\* An activation is heard of: its agent becomes active, or the choice is refused.
LEMMA ActivationShrunk ==
  ASSUME NEW new, NEW old, Shrunk(new, old), old[1].type = "activate",
         NEW top \in Nat, NEW p, NEW a, NEW failed, NEW id, NEW again, NEW polled,
         IsLine(old, top), Chosen(old, p, a, failed), Single(old, again, id, polled)
  PROVE  /\ IsLine(new, top)
         /\ Chosen(new, p, old[1].agent, FALSE)
         /\ Chosen(new, p, a, TRUE)
         /\ AllHeard(new, again)
<1>1. PICK n \in Nat : /\ DOMAIN old = 1..(n + 1) /\ DOMAIN new = 1..n
                       /\ \A k \in 1..n : new[k] = old[k + 1]
  BY DEF Shrunk
<1>2. \A k \in 1..(n + 1) : old[k] \in Posts /\ old[k].id <= top
  BY <1>1 DEF IsLine
<1>3. \A k \in 1..n : k + 1 \in 1..(n + 1) /\ k + 1 > 1
  OBVIOUS
<1>4. 1 \in 1..(n + 1) /\ \A k \in 1..(n + 1) : k = 1 \/ (k - 1 \in 1..n /\ (k - 1) + 1 = k)
  OBVIOUS
<1>5. IsLine(new, top)
  <2>1. \A k \in 1..n : new[k] \in Posts /\ new[k].id <= top
    BY <1>1, <1>2, <1>3
  <2>2. QED
    BY <1>1, <2>1 DEF IsLine
<1>6. ~Quiet(old)
  BY <1>1, <1>4 DEF Quiet
<1>7. PICK k \in DOMAIN old :
         /\ old[k].type = "activate" /\ old[k].agent = p
         /\ \A l \in DOMAIN old : l > k => old[l].type # "activate"
  BY <1>6 DEF Chosen
<1>8. \/ p = old[1].agent /\ Quiet(new)
      \/ \E l \in DOMAIN new :
            /\ new[l].type = "activate" /\ new[l].agent = p
            /\ \A j \in DOMAIN new : j > l => new[j].type # "activate"
  <2>1. CASE k = 1
    <3>1. \A l \in 1..n : new[l].type # "activate"
      BY <1>1, <1>3, <1>7, <2>1
    <3>2. QED
      BY <1>1, <1>7, <2>1, <3>1 DEF Quiet
  <2>2. CASE k # 1
    <3>1. k - 1 \in DOMAIN new /\ new[k - 1] = old[k]
      <4>1. k - 1 \in 1..n /\ (k - 1) + 1 = k
        BY <1>1, <2>2
      <4>2. QED
        BY <1>1, <4>1
    <3>2. \A j \in DOMAIN new : j > k - 1 => new[j].type # "activate"
      <4> SUFFICES ASSUME NEW j \in 1..n, j > k - 1 PROVE new[j].type # "activate"
        BY <1>1
      <4>1. j + 1 > k /\ j + 1 \in DOMAIN old
        BY <1>1
      <4>2. QED
        BY <1>1, <1>7, <4>1
    <3>3. QED
      BY <1>7, <3>1, <3>2
  <2>3. QED
    BY <2>1, <2>2
<1>9. again \/ (Quiet(new) /\ \A j \in DOMAIN new : new[j].id = 0)
  <2> SUFFICES ASSUME ~again, NEW j \in 1..n PROVE new[j].type # "activate" /\ new[j].id = 0
    BY <1>1 DEF Quiet
  <2>1. Inert(old[j + 1])
    BY <1>1, <1>3, <1>4 DEF Single
  <2>2. QED
    BY <1>1, <2>1 DEF Inert
<1>10. QED
  BY <1>5, <1>8, <1>9 DEF Chosen, AllHeard

\* An answer is heard of: if it is the one that is waited for, it is the active
\* agent's, and the active agent is the one on the page or the choice was refused.
LEMMA AnswerShrunk ==
  ASSUME NEW new, NEW old, Shrunk(new, old), old[1].type # "activate",
         NEW top \in Nat, NEW p, NEW a, NEW failed, NEW id \in Nat, NEW again, NEW polled,
         IsLine(old, top), Chosen(old, p, a, failed), Requested(old, id, a),
         Single(old, again, id, polled)
  PROVE  LET left == IF id # 0 /\ old[1].id = id THEN 0 ELSE id
         IN  /\ IsLine(new, top)
             /\ Chosen(new, p, a, failed)
             /\ Requested(new, left, a)
             /\ Single(new, again, left, polled)
             /\ id # 0 /\ old[1].id = id => old[1].agent = a /\ (p = a \/ failed)
<1>0. PICK left : left = IF id # 0 /\ old[1].id = id THEN 0 ELSE id
  OBVIOUS
<1>1. PICK n \in Nat : /\ DOMAIN old = 1..(n + 1) /\ DOMAIN new = 1..n
                       /\ \A k \in 1..n : new[k] = old[k + 1]
  BY DEF Shrunk
<1>2. \A k \in 1..(n + 1) : old[k] \in Posts /\ old[k].id <= top
  BY <1>1 DEF IsLine
<1>3. \A k \in 1..n : k + 1 \in 1..(n + 1) /\ k + 1 > 1
  OBVIOUS
<1>4. 1 \in 1..(n + 1) /\ \A k \in 1..(n + 1) : k = 1 \/ (k - 1 \in 1..n /\ (k - 1) + 1 = k)
  OBVIOUS
<1>5. IsLine(new, top)
  <2>1. \A k \in 1..n : new[k] \in Posts /\ new[k].id <= top
    BY <1>1, <1>2, <1>3
  <2>2. QED
    BY <1>1, <2>1 DEF IsLine
<1>6. \A k, l \in 1..n : l > k => l + 1 > k + 1
  OBVIOUS
<1>7. Quiet(new) <=> Quiet(old)
  <2>1. Quiet(old) => Quiet(new)
    BY <1>1, <1>3 DEF Quiet
  <2>2. ASSUME Quiet(new), NEW k \in 1..(n + 1) PROVE old[k].type # "activate"
    <3>1. CASE k = 1
      BY <3>1
    <3>2. CASE k # 1
      <4>1. k - 1 \in 1..n /\ new[k - 1] = old[k]
        BY <1>1, <1>4, <3>2
      <4>2. QED
        BY <1>1, <2>2, <4>1 DEF Quiet
    <3>3. QED
      BY <3>1, <3>2
  <2>3. QED
    BY <1>1, <2>1, <2>2 DEF Quiet
<1>8. Chosen(new, p, a, failed)
  <2>1. ASSUME NEW k \in DOMAIN old, old[k].type = "activate", old[k].agent = p,
               \A l \in DOMAIN old : l > k => old[l].type # "activate"
        PROVE  Chosen(new, p, a, failed)
    <3>1. k - 1 \in 1..n /\ (k - 1) + 1 = k
      BY <1>1, <1>4, <2>1
    <3>2. new[k - 1] = old[k] /\ k - 1 \in DOMAIN new
      BY <1>1, <3>1
    <3>3. \A j \in DOMAIN new : j > k - 1 => new[j].type # "activate"
      <4> SUFFICES ASSUME NEW j \in 1..n, j > k - 1 PROVE new[j].type # "activate"
        BY <1>1
      <4>1. j + 1 > k /\ j + 1 \in DOMAIN old
        BY <1>1, <3>1
      <4>2. QED
        BY <1>1, <2>1, <4>1
    <3>4. QED
      BY <2>1, <3>2, <3>3 DEF Chosen
  <2>2. QED
    BY <1>7, <2>1 DEF Chosen
<1>9. Requested(new, left, a)
  <2> SUFFICES ASSUME left # 0 PROVE Requested(new, left, a)
    BY DEF Requested
  <2>1. left = id /\ id # 0
    BY <1>0
  <2>2. \A k \in 1..n : new[k].id = id =>
           new[k].agent = a /\ \A l \in 1..n : l > k => new[l].type # "activate"
    BY <1>1, <1>3, <1>6, <2>1 DEF Requested
  <2>3. QED
    BY <1>1, <2>1, <2>2 DEF Requested
<1>10. Single(new, again, left, polled)
  <2> SUFFICES ASSUME ~again PROVE Single(new, again, left, polled)
    BY DEF Single
  <2>1. \A k, l \in 1..(n + 1) : old[k].id # 0 /\ old[l].id # 0 => k = l
    BY <1>1 DEF Single
  <2>2. \A k, l \in 1..n : new[k].id # 0 /\ new[l].id # 0 => k = l
    <3> SUFFICES ASSUME NEW k \in 1..n, NEW l \in 1..n, new[k].id # 0, new[l].id # 0
                 PROVE  k = l
      OBVIOUS
    <3>1. k + 1 = l + 1
      BY <1>1, <1>3, <2>1
    <3>2. QED
      BY <3>1
  <2>3. ASSUME NEW k \in 1..n, new[k].type = "activate"
        PROVE  left = 0 /\ ~polled /\ \A l \in 1..n : l > k => Inert(new[l])
    <3>1. old[k + 1].type = "activate" /\ k + 1 \in DOMAIN old
      BY <1>1, <1>3, <2>3
    <3>2. id = 0 /\ ~polled /\ \A l \in DOMAIN old : l > k + 1 => Inert(old[l])
      BY <3>1 DEF Single
    <3>3. QED
      BY <1>0, <1>1, <1>3, <1>6, <3>2
  <2>4. Quiet(new) => \A k \in 1..n : new[k].id \in {0, left}
    <3> SUFFICES ASSUME Quiet(new), NEW k \in 1..n, new[k].id # 0 PROVE new[k].id = left
      OBVIOUS
    <3>1. new[k] = old[k + 1] /\ k + 1 \in 1..(n + 1) /\ k + 1 # 1
      BY <1>1, <1>3
    <3>2. new[k].id = id
      BY <1>1, <1>7, <3>1 DEF Single
    <3>3. old[1].id = 0
      BY <1>4, <2>1, <3>1
    <3>4. QED
      BY <1>0, <3>2, <3>3
  <2>5. QED
    BY <1>1, <2>2, <2>3, <2>4 DEF Single
<1>11. ASSUME id # 0, old[1].id = id PROVE old[1].agent = a /\ (p = a \/ failed)
  <2>1. old[1].agent = a /\ \A l \in DOMAIN old : l > 1 => old[l].type # "activate"
    BY <1>1, <1>4, <1>11 DEF Requested
  <2>2. Quiet(old)
    BY <1>1, <1>3, <1>4, <2>1 DEF Quiet
  <2>3. QED
    BY <2>1, <2>2 DEF Chosen, Quiet
<1>12. QED
  BY <1>0, <1>5, <1>8, <1>9, <1>10, <1>11


\* What AgentManager does with the line changes nothing about it.
LEMMA SameLine ==
  ASSUME NEW new, NEW old, Same(new, old),
         NEW top, NEW p, NEW a, NEW failed, NEW id, NEW again, NEW polled
  PROVE  /\ IsLine(old, top) => IsLine(new, top)
         /\ Chosen(old, p, a, failed) => Chosen(new, p, a, failed)
         /\ Requested(old, id, a) => Requested(new, id, a)
         /\ Single(old, again, id, polled) => Single(new, again, id, polled)
<1>1. DOMAIN new = DOMAIN old /\ \A k \in DOMAIN old : new[k] = old[k]
  BY DEF Same
<1>2. IsLine(old, top) => IsLine(new, top)
  BY <1>1 DEF IsLine
<1>3. Quiet(new) <=> Quiet(old)
  BY <1>1 DEF Quiet
<1>4. Chosen(old, p, a, failed) => Chosen(new, p, a, failed)
  BY <1>1, <1>3 DEF Chosen
<1>5. Requested(old, id, a) => Requested(new, id, a)
  BY <1>1 DEF Requested
<1>6. Single(old, again, id, polled) => Single(new, again, id, polled)
  BY <1>1, <1>3 DEF Single
<1>7. QED
  BY <1>2, <1>4, <1>5, <1>6

LEMMA InertRemoved ==
  ASSUME NEW new, NEW old, NEW j \in DOMAIN old, Inert(old[j]), Removed(new, old, j),
         NEW top, NEW p, NEW a, NEW failed, NEW id, NEW again, NEW polled
  PROVE  /\ IsLine(old, top) => IsLine(new, top)
         /\ Chosen(old, p, a, failed) => Chosen(new, p, a, failed)
         /\ Requested(old, id, a) => Requested(new, id, a)
         /\ Single(old, again, id, polled) => Single(new, again, id, polled)
<1>1. PICK n \in Nat : /\ DOMAIN old = 1..(n + 1) /\ DOMAIN new = 1..n /\ j \in 1..(n + 1)
                       /\ \A k \in 1..n : new[k] = old[IF k < j THEN k ELSE k + 1]
  BY DEF Removed
<1>2. PICK from : from = [k \in 1..n |-> IF k < j THEN k ELSE k + 1]
  OBVIOUS
<1>3. \A k \in 1..n : from[k] \in 1..(n + 1) /\ new[k] = old[from[k]]
  BY <1>1, <1>2
<1>4. \A k, l \in 1..n : /\ l > k => from[l] > from[k]
                         /\ from[l] > from[k] => l > k
                         /\ from[k] = from[l] => k = l
  BY <1>1, <1>2
<1>5. ASSUME NEW k \in 1..(n + 1), k # j
      PROVE  \E i \in 1..n : from[i] = k
  <2>1. CASE k < j
    BY <1>1, <1>2, <1>5, <2>1
  <2>2. CASE k > j
    <3>1. k - 1 \in 1..n /\ ~(k - 1 < j) /\ (k - 1) + 1 = k
      BY <1>1, <2>2
    <3>2. from[k - 1] = k
      BY <1>2, <3>1
    <3>3. QED
      BY <3>1, <3>2
  <2>3. QED
    BY <1>1, <1>5, <2>1, <2>2
<1>6. old[j].type # "activate" /\ old[j].id = 0
  BY DEF Inert
<1> HIDE DEF Inert
<1>7. IsLine(old, top) => IsLine(new, top)
  <2> SUFFICES ASSUME IsLine(old, top) PROVE IsLine(new, top)
    OBVIOUS
  <2>1. \A k \in DOMAIN old : old[k] \in Posts /\ old[k].id <= top
    BY DEF IsLine
  <2>2. \A k \in 1..n : new[k] \in Posts /\ new[k].id <= top
    BY <1>1, <1>3, <2>1
  <2>3. QED
    BY <1>1, <2>2 DEF IsLine
<1>8. Quiet(new) <=> Quiet(old)
  <2>1. Quiet(old) => Quiet(new)
    BY <1>1, <1>3 DEF Quiet
  <2>2. ASSUME Quiet(new), NEW k \in 1..(n + 1) PROVE old[k].type # "activate"
    <3>1. CASE k = j
      BY <1>6, <3>1
    <3>2. CASE k # j
      BY <1>1, <1>3, <1>5, <2>2, <3>2 DEF Quiet
    <3>3. QED
      BY <3>1, <3>2
  <2>3. QED
    BY <1>1, <2>1, <2>2 DEF Quiet
<1>9. Chosen(old, p, a, failed) => Chosen(new, p, a, failed)
  <2>1. ASSUME NEW k \in DOMAIN old, old[k].type = "activate", old[k].agent = p,
               \A l \in DOMAIN old : l > k => old[l].type # "activate"
        PROVE  Chosen(new, p, a, failed)
    <3>1. k # j
      BY <1>6, <2>1
    <3>2. PICK i \in 1..n : from[i] = k
      BY <1>1, <1>5, <3>1
    <3>3. new[i] = old[k] /\ \A l \in 1..n : l > i => new[l].type # "activate"
      BY <1>1, <1>3, <1>4, <2>1, <3>2
    <3>4. QED
      BY <1>1, <2>1, <3>3 DEF Chosen
  <2>2. QED
    BY <1>8, <2>1 DEF Chosen
<1>10. Requested(old, id, a) => Requested(new, id, a)
  <2> SUFFICES ASSUME Requested(old, id, a), id # 0, NEW k \in 1..n, new[k].id = id
               PROVE  /\ new[k].agent = a
                      /\ \A l \in 1..n : l > k => new[l].type # "activate"
    BY <1>1 DEF Requested
  <2>1. old[from[k]].agent = a /\
        \A l \in 1..(n + 1) : l > from[k] => old[l].type # "activate"
    BY <1>1, <1>3 DEF Requested
  <2>2. QED
    BY <1>3, <1>4, <2>1
<1>11. Single(old, again, id, polled) => Single(new, again, id, polled)
  <2> SUFFICES ASSUME Single(old, again, id, polled), ~again PROVE Single(new, again, id, polled)
    BY DEF Single
  <2>1. \A k, l \in 1..(n + 1) : old[k].id # 0 /\ old[l].id # 0 => k = l
    BY <1>1 DEF Single
  <2>2. \A k \in 1..(n + 1) : old[k].type = "activate" =>
           id = 0 /\ ~polled /\ \A l \in 1..(n + 1) : l > k => Inert(old[l])
    BY <1>1 DEF Single
  <2>3. \A k, l \in 1..n : new[k].id # 0 /\ new[l].id # 0 => k = l
    <3> SUFFICES ASSUME NEW k \in 1..n, NEW l \in 1..n, new[k].id # 0, new[l].id # 0
                 PROVE  k = l
      OBVIOUS
    <3>1. from[k] = from[l]
      BY <1>3, <2>1
    <3>2. QED
      BY <1>4, <3>1
  <2>4. ASSUME NEW k \in 1..n, new[k].type = "activate"
        PROVE  id = 0 /\ ~polled /\ \A l \in 1..n : l > k => Inert(new[l])
    <3>1. id = 0 /\ ~polled /\ \A l \in 1..(n + 1) : l > from[k] => Inert(old[l])
      BY <1>3, <2>4, <2>2
    <3>2. QED
      BY <1>3, <1>4, <3>1
  <2>5. Quiet(new) => \A k \in 1..n : new[k].id \in {0, id}
    BY <1>1, <1>3, <1>8 DEF Single
  <2>6. QED
    BY <1>1, <2>3, <2>4, <2>5 DEF Single
<1>12. QED
  BY <1>7, <1>9, <1>10, <1>11

LEMMA ThinnedLine ==
  ASSUME NEW new, NEW old, Thinned(new, old),
         NEW top, NEW p, NEW a, NEW failed, NEW id, NEW again, NEW polled
  PROVE  /\ IsLine(old, top) => IsLine(new, top)
         /\ Chosen(old, p, a, failed) => Chosen(new, p, a, failed)
         /\ Requested(old, id, a) => Requested(new, id, a)
         /\ Single(old, again, id, polled) => Single(new, again, id, polled)
<1>1. CASE Same(new, old)
  BY <1>1, SameLine
<1>2. CASE \E j \in DOMAIN old : Inert(old[j]) /\ Removed(new, old, j)
  BY <1>2, InertRemoved
<1>3. QED
  BY <1>1, <1>2 DEF Thinned


-----------------------------------------------------------------------------
(* The line is made of three parts.                                         *)

LEMMA CoreType ==
  /\ \A m \in Posts : Core(m) = m
  /\ \A m \in Answered : Core(m) \in Posts
<1>1. ASSUME NEW m \in Posts PROVE Core(m) = m
  BY DEF Posts, Core, Message
<1>2. ASSUME NEW m \in Answered PROVE Core(m) \in Posts
  BY DEF Answered, Posts, Core, Message
<1>3. QED
  BY <1>1, <1>2

Joined(line, answers, hand, posts) ==
    LET a == Len(answers)
        h == Len(hand)
        q == Len(posts)
    IN  /\ DOMAIN line = 1..(a + h + q)
        /\ \A k \in 1..a : line[k] = Core(answers[k])
        /\ \A k \in (a + 1)..(a + h) : line[k] = hand[k - a]
        /\ \A k \in (a + h + 1)..(a + h + q) : line[k] = posts[k - (a + h)]

LEMMA LineShape ==
  ASSUME NEW answers \in Seq(Answered), NEW hand \in Seq(Posts), NEW posts \in Seq(Posts)
  PROVE  Joined(LineOf(answers, hand, posts), answers, hand, posts)
<1>1. PICK a, h, q \in Nat : a = Len(answers) /\ h = Len(hand) /\ q = Len(posts)
  OBVIOUS
<1>2. PICK line : line = LineOf(answers, hand, posts)
  OBVIOUS
<1>3. line = [i \in 1..(a + h + q) |->
                 IF i <= a THEN Core(answers[i])
                 ELSE IF i <= a + h THEN hand[i - a] ELSE posts[i - a - h]]
  BY <1>1, <1>2 DEF LineOf
<1>4. ASSUME NEW k \in 1..a PROVE line[k] = Core(answers[k])
  BY <1>3
<1>5. ASSUME NEW k \in (a + 1)..(a + h) PROVE line[k] = hand[k - a]
  BY <1>3
<1>6. ASSUME NEW k \in (a + h + 1)..(a + h + q) PROVE line[k] = posts[k - (a + h)]
  <2>1. k - a - h = k - (a + h)
    OBVIOUS
  <2>2. QED
    BY <1>3, <2>1
<1>7. DOMAIN line = 1..(a + h + q)
  BY <1>3
<1>8. QED
  BY <1>1, <1>2, <1>4, <1>5, <1>6, <1>7 DEF Joined

\* MainWindow publishes.
LEMMA PostGrows ==
  ASSUME NEW answers \in Seq(Answered), NEW hand \in Seq(Posts), NEW posts \in Seq(Posts),
         NEW m \in Posts
  PROVE  Grown(LineOf(answers, hand, Append(posts, m)), LineOf(answers, hand, posts), m)
<1>1. PICK more : more = Append(posts, m)
  OBVIOUS
<1>2. PICK a, h, q \in Nat : a = Len(answers) /\ h = Len(hand) /\ q = Len(posts)
  OBVIOUS
<1>3. /\ more \in Seq(Posts) /\ Len(more) = q + 1 /\ more[q + 1] = m
      /\ \A k \in 1..q : more[k] = posts[k]
  BY <1>1, <1>2
<1>4. PICK old, new : old = LineOf(answers, hand, posts) /\ new = LineOf(answers, hand, more)
  OBVIOUS
<1>5. Joined(old, answers, hand, posts) /\ Joined(new, answers, hand, more)
  BY <1>3, <1>4, LineShape
<1>6. /\ DOMAIN old = 1..(a + h + q)
      /\ \A k \in 1..a : old[k] = Core(answers[k])
      /\ \A k \in (a + 1)..(a + h) : old[k] = hand[k - a]
      /\ \A k \in (a + h + 1)..(a + h + q) : old[k] = posts[k - (a + h)]
  BY <1>2, <1>5 DEF Joined
<1>7. /\ DOMAIN new = 1..(a + h + (q + 1))
      /\ \A k \in 1..a : new[k] = Core(answers[k])
      /\ \A k \in (a + 1)..(a + h) : new[k] = hand[k - a]
      /\ \A k \in (a + h + 1)..(a + h + (q + 1)) : new[k] = more[k - (a + h)]
  BY <1>2, <1>3, <1>5 DEF Joined
<1>8. ASSUME NEW k \in 1..(a + h + q) PROVE new[k] = old[k]
  <2>1. CASE k <= a
    BY <1>6, <1>7, <2>1
  <2>2. CASE k > a /\ k <= a + h
    BY <1>6, <1>7, <2>2
  <2>3. CASE k > a + h
    BY <1>3, <1>6, <1>7, <2>3
  <2>4. QED
    BY <2>1, <2>2, <2>3
<1>9. new[a + h + q + 1] = m
  BY <1>3, <1>7
<1>10. a + h + q \in Nat /\ a + h + (q + 1) = (a + h + q) + 1
  OBVIOUS
<1>11. Grown(new, old, m)
  BY <1>6, <1>7, <1>8, <1>9, <1>10 DEF Grown
<1>12. QED
  BY <1>1, <1>4, <1>11

\* MainWindow takes the head of its queue.
LEMMA AnswerShrinks ==
  ASSUME NEW answers \in Seq(Answered), answers # << >>,
         NEW hand \in Seq(Posts), NEW posts \in Seq(Posts)
  PROVE  /\ Shrunk(LineOf(Tail(answers), hand, posts), LineOf(answers, hand, posts))
         /\ LineOf(answers, hand, posts)[1] = Core(Head(answers))
<1>1. PICK rest : rest = Tail(answers)
  OBVIOUS
<1>2. PICK a, h, q \in Nat : a = Len(rest) /\ h = Len(hand) /\ q = Len(posts)
  BY <1>1
<1>3. /\ rest \in Seq(Answered) /\ Len(answers) = a + 1
      /\ \A k \in 1..a : rest[k] = answers[k + 1]
      /\ Head(answers) = answers[1]
  BY <1>1, <1>2
<1>4. PICK old, new : old = LineOf(answers, hand, posts) /\ new = LineOf(rest, hand, posts)
  OBVIOUS
<1>5. Joined(old, answers, hand, posts) /\ Joined(new, rest, hand, posts)
  BY <1>3, <1>4, LineShape
<1>6. /\ DOMAIN new = 1..(a + h + q)
      /\ \A k \in 1..a : new[k] = Core(rest[k])
      /\ \A k \in (a + 1)..(a + h) : new[k] = hand[k - a]
      /\ \A k \in (a + h + 1)..(a + h + q) : new[k] = posts[k - (a + h)]
  BY <1>2, <1>5 DEF Joined
<1>7. /\ DOMAIN old = 1..(a + 1 + h + q)
      /\ \A k \in 1..(a + 1) : old[k] = Core(answers[k])
      /\ \A k \in (a + 1 + 1)..(a + 1 + h) : old[k] = hand[k - (a + 1)]
      /\ \A k \in (a + 1 + h + 1)..(a + 1 + h + q) : old[k] = posts[k - (a + 1 + h)]
  BY <1>2, <1>3, <1>5 DEF Joined
<1>8. ASSUME NEW k \in 1..(a + h + q) PROVE new[k] = old[k + 1]
  <2>1. CASE k <= a
    <3>1. k + 1 \in 1..(a + 1) /\ k \in 1..a
      BY <2>1
    <3>2. QED
      BY <1>3, <1>6, <1>7, <3>1
  <2>2. CASE k > a /\ k <= a + h
    <3>1. /\ k + 1 \in (a + 1 + 1)..(a + 1 + h) /\ k \in (a + 1)..(a + h)
          /\ (k + 1) - (a + 1) = k - a
      BY <2>2
    <3>2. QED
      BY <1>6, <1>7, <3>1
  <2>3. CASE k > a + h
    <3>1. /\ k + 1 \in (a + 1 + h + 1)..(a + 1 + h + q) /\ k \in (a + h + 1)..(a + h + q)
          /\ (k + 1) - (a + 1 + h) = k - (a + h)
      BY <2>3
    <3>2. QED
      BY <1>6, <1>7, <3>1
  <2>4. QED
    BY <2>1, <2>2, <2>3
<1>9. a + h + q \in Nat /\ a + 1 + h + q = (a + h + q) + 1 /\ 1 \in 1..(a + 1)
  OBVIOUS
<1>10. Shrunk(new, old)
  BY <1>6, <1>7, <1>8, <1>9 DEF Shrunk
<1>11. old[1] = Core(Head(answers))
  BY <1>3, <1>7, <1>9
<1>12. QED
  BY <1>1, <1>4, <1>10, <1>11


\* The lane takes the head of AgentManager's queue.
LEMMA PostTaken ==
  ASSUME NEW answers \in Seq(Answered), NEW posts \in Seq(Posts), posts # << >>
  PROVE  Same(LineOf(answers, << Head(posts) >>, Tail(posts)), LineOf(answers, << >>, posts))
<1>1. PICK rest, hand : rest = Tail(posts) /\ hand = << Head(posts) >>
  OBVIOUS
<1>2. PICK a, q \in Nat : a = Len(answers) /\ q = Len(rest)
  BY <1>1
<1>3. /\ rest \in Seq(Posts) /\ Len(posts) = q + 1
      /\ \A k \in 1..q : rest[k] = posts[k + 1]
      /\ hand \in Seq(Posts) /\ Len(hand) = 1 /\ hand[1] = posts[1]
  BY <1>1, <1>2
<1>4. PICK none \in Seq(Posts) : none = << >> /\ Len(none) = 0
  <2>1. << >> \in Seq(Posts) /\ Len(<< >>) = 0
    OBVIOUS
  <2>2. QED
    BY <2>1
<1>5. PICK old, new : old = LineOf(answers, none, posts) /\ new = LineOf(answers, hand, rest)
  OBVIOUS
<1>6. Joined(old, answers, none, posts) /\ Joined(new, answers, hand, rest)
  BY <1>3, <1>4, <1>5, LineShape
<1>7. /\ DOMAIN new = 1..(a + 1 + q)
      /\ \A k \in 1..a : new[k] = Core(answers[k])
      /\ \A k \in (a + 1)..(a + 1) : new[k] = hand[k - a]
      /\ \A k \in (a + 1 + 1)..(a + 1 + q) : new[k] = rest[k - (a + 1)]
  BY <1>2, <1>3, <1>6 DEF Joined
<1>8. /\ DOMAIN old = 1..(a + 0 + (q + 1))
      /\ \A k \in 1..a : old[k] = Core(answers[k])
      /\ \A k \in (a + 0 + 1)..(a + 0 + (q + 1)) : old[k] = posts[k - (a + 0)]
  BY <1>2, <1>3, <1>4, <1>6 DEF Joined
<1>9. ASSUME NEW k \in 1..(a + q + 1) PROVE new[k] = old[k]
  <2>1. CASE k <= a
    BY <1>7, <1>8, <2>1
  <2>2. CASE k = a + 1
    <3>1. k \in (a + 1)..(a + 1) /\ k \in (a + 0 + 1)..(a + 0 + (q + 1))
          /\ k - a = 1 /\ k - (a + 0) = 1
      BY <2>2
    <3>2. QED
      BY <1>3, <1>7, <1>8, <3>1
  <2>3. CASE k > a + 1
    <3>1. /\ k \in (a + 1 + 1)..(a + 1 + q) /\ k \in (a + 0 + 1)..(a + 0 + (q + 1))
          /\ k - (a + 1) \in 1..q /\ (k - (a + 1)) + 1 = k - (a + 0)
      BY <2>3
    <3>2. QED
      BY <1>3, <1>7, <1>8, <3>1
  <2>4. QED
    BY <2>1, <2>2, <2>3
<1>10. DOMAIN new = 1..(a + q + 1) /\ DOMAIN old = 1..(a + q + 1)
  BY <1>7, <1>8
<1>11. Same(new, old)
  BY <1>9, <1>10 DEF Same
<1>12. QED
  BY <1>1, <1>4, <1>5, <1>11

\* It answers what it has in its hands.
LEMMA HandAnswered ==
  ASSUME NEW answers \in Seq(Answered), NEW posts \in Seq(Posts),
         NEW m \in Posts, NEW x \in Answered, Core(x) = m
  PROVE  Same(LineOf(Append(answers, x), << >>, posts), LineOf(answers, << m >>, posts))
<1>1. PICK more, hand : more = Append(answers, x) /\ hand = << m >>
  OBVIOUS
<1>2. PICK a, q \in Nat : a = Len(answers) /\ q = Len(posts)
  OBVIOUS
<1>3. /\ more \in Seq(Answered) /\ Len(more) = a + 1
      /\ \A k \in 1..a : more[k] = answers[k]
      /\ more[a + 1] = x
      /\ hand \in Seq(Posts) /\ Len(hand) = 1 /\ hand[1] = m
  BY <1>1, <1>2
<1>4. PICK none \in Seq(Posts) : none = << >> /\ Len(none) = 0
  <2>1. << >> \in Seq(Posts) /\ Len(<< >>) = 0
    OBVIOUS
  <2>2. QED
    BY <2>1
<1>5. PICK old, new : old = LineOf(answers, hand, posts) /\ new = LineOf(more, none, posts)
  OBVIOUS
<1>6. Joined(old, answers, hand, posts) /\ Joined(new, more, none, posts)
  BY <1>3, <1>4, <1>5, LineShape
<1>7. /\ DOMAIN old = 1..(a + 1 + q)
      /\ \A k \in 1..a : old[k] = Core(answers[k])
      /\ \A k \in (a + 1)..(a + 1) : old[k] = hand[k - a]
      /\ \A k \in (a + 1 + 1)..(a + 1 + q) : old[k] = posts[k - (a + 1)]
  BY <1>2, <1>3, <1>6 DEF Joined
<1>8. /\ DOMAIN new = 1..(a + 1 + 0 + q)
      /\ \A k \in 1..(a + 1) : new[k] = Core(more[k])
      /\ \A k \in (a + 1 + 0 + 1)..(a + 1 + 0 + q) : new[k] = posts[k - (a + 1 + 0)]
  BY <1>2, <1>3, <1>4, <1>6 DEF Joined
<1>9. ASSUME NEW k \in 1..(a + q + 1) PROVE new[k] = old[k]
  <2>1. CASE k <= a
    <3>1. k \in 1..(a + 1) /\ k \in 1..a
      BY <2>1
    <3>2. QED
      BY <1>3, <1>7, <1>8, <3>1
  <2>2. CASE k = a + 1
    <3>1. k \in (a + 1)..(a + 1) /\ k \in 1..(a + 1) /\ k - a = 1
      BY <2>2
    <3>2. QED
      BY <1>3, <1>7, <1>8, <2>2, <3>1
  <2>3. CASE k > a + 1
    <3>1. /\ k \in (a + 1 + 1)..(a + 1 + q) /\ k \in (a + 1 + 0 + 1)..(a + 1 + 0 + q)
          /\ k - (a + 1) = k - (a + 1 + 0)
      BY <2>3
    <3>2. QED
      BY <1>7, <1>8, <3>1
  <2>4. QED
    BY <2>1, <2>2, <2>3
<1>10. DOMAIN new = 1..(a + q + 1) /\ DOMAIN old = 1..(a + q + 1)
  BY <1>7, <1>8
<1>11. Same(new, old)
  BY <1>9, <1>10 DEF Same
<1>12. QED
  BY <1>1, <1>4, <1>5, <1>11

\* It is done with what MainWindow waits for no answer to.
LEMMA HandDropped ==
  ASSUME NEW answers \in Seq(Answered), NEW posts \in Seq(Posts), NEW m \in Posts, Inert(m)
  PROVE  Thinned(LineOf(answers, << >>, posts), LineOf(answers, << m >>, posts))
<1>1. PICK hand : hand = << m >>
  OBVIOUS
<1>2. PICK a, q \in Nat : a = Len(answers) /\ q = Len(posts)
  OBVIOUS
<1>3. hand \in Seq(Posts) /\ Len(hand) = 1 /\ hand[1] = m
  BY <1>1
<1>4. PICK none \in Seq(Posts) : none = << >> /\ Len(none) = 0
  <2>1. << >> \in Seq(Posts) /\ Len(<< >>) = 0
    OBVIOUS
  <2>2. QED
    BY <2>1
<1>5. PICK old, new : old = LineOf(answers, hand, posts) /\ new = LineOf(answers, none, posts)
  OBVIOUS
<1>6. Joined(old, answers, hand, posts) /\ Joined(new, answers, none, posts)
  BY <1>3, <1>4, <1>5, LineShape
<1>7. /\ DOMAIN old = 1..(a + 1 + q)
      /\ \A k \in 1..a : old[k] = Core(answers[k])
      /\ \A k \in (a + 1)..(a + 1) : old[k] = hand[k - a]
      /\ \A k \in (a + 1 + 1)..(a + 1 + q) : old[k] = posts[k - (a + 1)]
  BY <1>2, <1>3, <1>6 DEF Joined
<1>8. /\ DOMAIN new = 1..(a + 0 + q)
      /\ \A k \in 1..a : new[k] = Core(answers[k])
      /\ \A k \in (a + 0 + 1)..(a + 0 + q) : new[k] = posts[k - (a + 0)]
  BY <1>2, <1>4, <1>6 DEF Joined
<1>9. ASSUME NEW k \in 1..(a + q)
      PROVE  new[k] = old[IF k < a + 1 THEN k ELSE k + 1]
  <2>1. CASE k <= a
    BY <1>7, <1>8, <2>1
  <2>2. CASE k > a
    <3>1. /\ k + 1 \in (a + 1 + 1)..(a + 1 + q) /\ k \in (a + 0 + 1)..(a + 0 + q)
          /\ (k + 1) - (a + 1) = k - (a + 0) /\ ~(k < a + 1)
      BY <2>2
    <3>2. QED
      BY <1>7, <1>8, <3>1
  <2>3. QED
    BY <2>1, <2>2
<1>10. /\ DOMAIN new = 1..(a + q) /\ DOMAIN old = 1..((a + q) + 1)
       /\ a + 1 \in 1..((a + q) + 1) /\ a + q \in Nat
  BY <1>7, <1>8
<1>11. Removed(new, old, a + 1)
  BY <1>9, <1>10 DEF Removed
<1>12. old[a + 1] = m
  BY <1>3, <1>7
<1>13. Thinned(new, old)
  BY <1>10, <1>11, <1>12 DEF Thinned
<1>14. QED
  BY <1>1, <1>4, <1>5, <1>13


-----------------------------------------------------------------------------
(* The line in a state, and the UI thread's steps.                          *)

LEMMA HandType ==
  ASSUME Typed
  PROVE  /\ Hand \in Seq(Posts)
         /\ lane.stage = "idle" => Hand = << >>
         /\ lane.stage # "idle" => Core(lane) \in Posts /\ Hand = << Core(lane) >>
<1>1. CASE lane.stage = "idle"
  BY <1>1 DEF Hand
<1>2. CASE lane.stage # "idle"
  <2>1. Core(lane) \in Posts
    BY <1>2 DEF Typed
  <2>2. PICK m : m = Core(lane)
    OBVIOUS
  <2>3. << m >> \in Seq(Posts)
    BY <2>1, <2>2
  <2>4. QED
    BY <1>2, <2>1, <2>2, <2>3 DEF Hand
<1>3. QED
  BY <1>1, <1>2

LEMMA LineMembers ==
  ASSUME Typed, NEW m
  PROVE  (\E k \in DOMAIN Line : Line[k] = m) <=>
            \/ \E k \in DOMAIN inbox : Core(inbox[k]) = m
            \/ lane.stage # "idle" /\ Core(lane) = m
            \/ \E k \in DOMAIN queue : queue[k] = m
<1>1. PICK line, hand : line = Line /\ hand = Hand
  OBVIOUS
<1>2. /\ hand \in Seq(Posts)
      /\ lane.stage = "idle" => hand = << >>
      /\ lane.stage # "idle" => Core(lane) \in Posts /\ hand = << Core(lane) >>
  BY <1>1, HandType
<1>3. inbox \in Seq(Answered) /\ queue \in Seq(Posts)
  BY DEF Typed
<1>4. PICK a, h, q \in Nat : a = Len(inbox) /\ h = Len(hand) /\ q = Len(queue)
  BY <1>2, <1>3
<1>5. Joined(line, inbox, hand, queue)
  BY <1>1, <1>2, <1>3, LineShape DEF Line
<1>6. /\ DOMAIN line = 1..(a + h + q)
      /\ \A k \in 1..a : line[k] = Core(inbox[k])
      /\ \A k \in (a + 1)..(a + h) : line[k] = hand[k - a]
      /\ \A k \in (a + h + 1)..(a + h + q) : line[k] = queue[k - (a + h)]
  BY <1>4, <1>5 DEF Joined
<1>7. DOMAIN inbox = 1..a /\ DOMAIN queue = 1..q /\ DOMAIN hand = 1..h
  BY <1>2, <1>3, <1>4
<1>8. (\E k \in DOMAIN hand : hand[k] = m) <=> (lane.stage # "idle" /\ Core(lane) = m)
  <2>1. CASE lane.stage = "idle"
    <3>1. DOMAIN hand = {}
      BY <1>2, <2>1
    <3>2. QED
      BY <2>1, <3>1
  <2>2. CASE lane.stage # "idle"
    <3>1. PICK c : c = Core(lane)
      OBVIOUS
    <3>2. hand = << c >>
      BY <1>2, <2>2, <3>1
    <3>3. DOMAIN hand = {1} /\ hand[1] = c
      BY <3>2
    <3>4. QED
      BY <2>2, <3>1, <3>3
  <2>3. QED
    BY <2>1, <2>2
<1>9. ASSUME NEW k \in DOMAIN line, line[k] = m
      PROVE  \/ \E i \in DOMAIN inbox : Core(inbox[i]) = m
             \/ \E i \in DOMAIN hand : hand[i] = m
             \/ \E i \in DOMAIN queue : queue[i] = m
  <2>1. CASE k <= a
    BY <1>6, <1>7, <1>9, <2>1
  <2>2. CASE k > a /\ k <= a + h
    <3>1. k \in (a + 1)..(a + h) /\ k - a \in 1..h
      BY <1>6, <2>2
    <3>2. QED
      BY <1>6, <1>7, <1>9, <3>1
  <2>3. CASE k > a + h
    <3>1. k \in (a + h + 1)..(a + h + q) /\ k - (a + h) \in 1..q
      BY <1>6, <2>3
    <3>2. QED
      BY <1>6, <1>7, <1>9, <3>1
  <2>4. QED
    BY <1>6, <2>1, <2>2, <2>3
<1>10. ASSUME NEW i \in DOMAIN inbox PROVE Core(inbox[i]) = line[i] /\ i \in DOMAIN line
  BY <1>6, <1>7
<1>11. ASSUME NEW i \in DOMAIN hand PROVE hand[i] = line[a + i] /\ a + i \in DOMAIN line
  <2>1. a + i \in (a + 1)..(a + h) /\ (a + i) - a = i /\ a + i \in 1..(a + h + q)
    BY <1>7
  <2>2. QED
    BY <1>6, <2>1
<1>12. ASSUME NEW i \in DOMAIN queue PROVE queue[i] = line[a + h + i] /\ a + h + i \in DOMAIN line
  <2>1. /\ a + h + i \in (a + h + 1)..(a + h + q) /\ (a + h + i) - (a + h) = i
        /\ a + h + i \in 1..(a + h + q)
    BY <1>7
  <2>2. QED
    BY <1>6, <2>1
<1>13. QED
  BY <1>1, <1>8, <1>9, <1>10, <1>11, <1>12

\* What MainWindow has not heard of is in the line.
LEMMA InLine ==
  ASSUME Typed, IsLine(Line, polls)
  PROVE  /\ Unanswered <=> ~Quiet(Line)
         /\ \A k \in DOMAIN Line : Line[k].id # 0 => Line[k].id \in Outstanding
         /\ \A i \in Outstanding : \E k \in DOMAIN Line : Line[k].id = i
<1>1. \A k \in DOMAIN inbox : inbox[k].type = Core(inbox[k]).type /\ inbox[k].id = Core(inbox[k]).id
  BY DEF Core, Message
<1>2. lane.type = Core(lane).type /\ lane.id = Core(lane).id
  BY DEF Core, Message
<1>3. ASSUME NEW m, \E k \in DOMAIN Line : Line[k] = m
      PROVE  /\ m.type = "activate" => Unanswered
             /\ m.id \in 1..polls => m.id \in Outstanding
  BY <1>1, <1>2, <1>3, LineMembers DEF Unanswered, Outstanding
<1>4. ASSUME Unanswered PROVE ~Quiet(Line)
  <2>1. PICK m : /\ m.type = "activate"
                 /\ \/ \E k \in DOMAIN inbox : Core(inbox[k]) = m
                    \/ lane.stage # "idle" /\ Core(lane) = m
                    \/ \E k \in DOMAIN queue : queue[k] = m
    BY <1>1, <1>2, <1>4 DEF Unanswered
  <2>2. QED
    BY <2>1, LineMembers DEF Quiet
<1>5. ASSUME NEW i \in Outstanding PROVE \E k \in DOMAIN Line : Line[k].id = i
  <2>1. PICK m : /\ m.id = i
                 /\ \/ \E k \in DOMAIN inbox : Core(inbox[k]) = m
                    \/ lane.stage # "idle" /\ Core(lane) = m
                    \/ \E k \in DOMAIN queue : queue[k] = m
    BY <1>1, <1>2 DEF Outstanding
  <2>2. QED
    BY <2>1, LineMembers
<1>6. \A k \in DOMAIN Line : Line[k].id # 0 => Line[k].id \in 1..polls
  <2>1. \A m \in Posts : m.id \in Nat
    BY DEF Posts
  <2>2. polls \in Nat
    BY DEF Typed
  <2>3. QED
    BY <2>1, <2>2 DEF IsLine
<1>7. QED
  BY <1>3, <1>4, <1>5, <1>6 DEF Quiet


\* The line after MainWindow has published or taken something.
LEMMA LineAfter ==
  ASSUME Typed, UNCHANGED lane
  PROVE  /\ Hand' = Hand /\ Hand \in Seq(Posts)
         /\ Line' = LineOf(inbox', Hand, queue')
         /\ Line = LineOf(inbox, Hand, queue)
  BY HandType DEF Hand, Line

\* A request that is forgotten, or was never sent, asks nothing of the line.
LEMMA NothingAsked ==
  ASSUME NEW line, NEW again, NEW a, NEW polled, AllHeard(line, again)
  PROVE  Requested(line, 0, a) /\ Single(line, again, 0, polled)
<1>1. Requested(line, 0, a)
  BY DEF Requested
<1>2. CASE again
  BY <1>1, <1>2 DEF Single
<1>3. CASE Quiet(line) /\ \A k \in DOMAIN line : line[k].id = 0
  BY <1>1, <1>3 DEF Single, Quiet
<1>4. QED
  BY <1>2, <1>3 DEF AllHeard

LEMMA MessageType ==
  /\ \A i \in Nat, a \in Agents : Message("cmd", i, a) \in Posts
  /\ \A a \in Agents : Message("release", 0, a) \in Posts
  /\ \A a \in Primaries : Message("activate", 0, a) \in Posts
  BY DEF Message, Posts, Agents

\* Polling of an agent begins: its summary is asked for, or it has none.
LEMMA PollingBegins ==
  ASSUME Typed, NEW answers \in Seq(Answered), NEW hand \in Seq(Posts), NEW sent \in Seq(Posts),
         NEW a \in Primaries, updateSummaryPolling(sent, a),
         Line' = LineOf(answers, hand, queue'),
         agent' = a, restarted' \in BOOLEAN,
         IsLine(LineOf(answers, hand, sent), polls),
         Chosen(LineOf(answers, hand, sent), page', a, refused'),
         AllHeard(LineOf(answers, hand, sent), restarted')
  PROVE  /\ LineInv' /\ PollingInv'
         /\ queue' \in Seq(Posts) /\ polls' \in Nat /\ request' \in 0..polls'
         /\ polling' \in BOOLEAN
<1>0. polls \in Nat
  BY DEF Typed
<1>1. PICK mid : mid = LineOf(answers, hand, sent)
  OBVIOUS
<1>2. CASE a \in Summarised /\ polls < MaxPolls
  <2>1. PICK m : m = Message("cmd", polls + 1, a)
    OBVIOUS
  <2>2. m \in Posts /\ queue' = Append(sent, m) /\ polls' = polls + 1 /\ request' = polls + 1
        /\ polling' = TRUE /\ summary' = a
    BY <1>0, <1>2, <2>1, MessageType DEF updateSummaryPolling, Ask, Agents
  <2>3. Grown(Line', mid, m)
    BY <1>1, <2>2, PostGrows
  <2>4. a \in Agents
    BY DEF Agents
  <2>5. /\ IsLine(Line', polls + 1) /\ Chosen(Line', page', a, refused')
        /\ Requested(Line', polls + 1, a) /\ Single(Line', restarted', polls + 1, TRUE)
    BY <1>0, <1>1, <2>1, <2>3, <2>4, AskGrown
  <2>6. LineInv'
    BY <2>2, <2>5 DEF LineInv
  <2>7. QED
    BY <1>0, <1>2, <2>2, <2>6 DEF PollingInv
<1>3. CASE a \in Summarised /\ ~(polls < MaxPolls)
  <2>1. queue' = sent /\ polls' = polls /\ request' = 0 /\ polling' = TRUE /\ summary' = a
    BY <1>3 DEF updateSummaryPolling
  <2>2. Requested(mid, 0, a) /\ Single(mid, restarted', 0, TRUE)
    BY <1>1, NothingAsked
  <2>3. LineInv'
    BY <1>1, <2>1, <2>2 DEF LineInv
  <2>4. QED
    BY <1>0, <1>3, <2>1, <2>3 DEF PollingInv
<1>4. CASE a \notin Summarised
  <2>1. queue' = sent /\ polls' = polls /\ request' = 0 /\ polling' = FALSE
    BY <1>4 DEF updateSummaryPolling, StopsPolling
  <2>2. Requested(mid, 0, a) /\ Single(mid, restarted', 0, FALSE)
    BY <1>1, NothingAsked
  <2>3. LineInv'
    BY <1>1, <2>1, <2>2 DEF LineInv
  <2>4. PollingInv'
    BY <2>1, Zenon DEF PollingInv
  <2>5. polls' \in Nat /\ request' \in 0..polls'
    BY <1>0, <2>1
  <2>6. polling' \in BOOLEAN
    BY <2>1, Zenon
  <2>7. QED
    BY <2>1, <2>3, <2>4, <2>5, <2>6
<1>5. QED
  BY <1>2, <1>3, <1>4

LEMMA ActivateStep ==
  ASSUME PageInv, NEW a \in Primaries, activateAgent(a)
  PROVE  PageInv'
<1>0. Typed /\ IsLine(Line, polls) /\ Single(Line, restarted, request, polling)
  BY DEF PageInv, LineInv
<1>1. PICK m : m = Message("activate", 0, a)
  OBVIOUS
<1>2. m \in Posts /\ queue' = Append(queue, m)
  BY <1>1, MessageType DEF activateAgent
<1>3. inbox \in Seq(Answered) /\ queue \in Seq(Posts) /\ polls \in Nat /\ request \in Nat
      /\ restarted \in BOOLEAN /\ polling \in BOOLEAN
  BY <1>0 DEF Typed
<1>4. UNCHANGED <<lane, inbox, polls, shown>>
  BY DEF activateAgent, laneVars
<1>5. Grown(Line', Line, m)
  BY <1>0, <1>2, <1>3, <1>4, LineAfter, PostGrows
<1>6. /\ page' = a /\ agent' = a /\ request' = 0 /\ polling' = FALSE /\ refused' = FALSE
      /\ restarted' = (Unanswered \/ (restarted /\ Outstanding # {}))
  BY DEF activateAgent, StopsPolling
<1>7. restarted' \/ (Quiet(Line) /\ (restarted => \A k \in DOMAIN Line : Line[k].id = 0))
  <2>1. ASSUME ~restarted', restarted PROVE \A k \in DOMAIN Line : Line[k].id = 0
    BY <1>0, <1>6, <2>1, InLine
  <2>2. QED
    BY <1>0, <1>6, <2>1, InLine
<1>8. /\ IsLine(Line', polls) /\ Chosen(Line', a, a, FALSE) /\ Requested(Line', 0, a)
      /\ Single(Line', restarted', 0, FALSE)
  BY <1>0, <1>1, <1>3, <1>5, <1>7, ActivationGrown
<1>9. LineInv'
  BY <1>4, <1>6, <1>8 DEF LineInv
<1>10. restarted' \in BOOLEAN
  BY <1>3, <1>6 DEF Unanswered
<1>11. Typed'
  <2>1. queue' \in Seq(Posts) /\ request' \in 0..polls'
    BY <1>2, <1>3, <1>4, <1>6
  <2>2. lane' = lane
    BY <1>4
  <2>3. QED
    BY <1>0, <1>4, <1>6, <1>10, <2>1, <2>2 DEF Typed, Core
<1>12. QED
  BY <1>4, <1>6, <1>9, <1>11 DEF PageInv, PollingInv, SummaryIsOwn


LEMMA PollStep ==
  ASSUME PageInv, pollAgentSummary
  PROVE  PageInv'
<1>0. Typed /\ PollingInv /\ LineInv
  BY DEF PageInv
<1>1. /\ polling /\ request = 0 /\ request' = polls + 1 /\ polls' = polls + 1
      /\ queue' = Append(queue, Message("cmd", polls + 1, agent))
      /\ UNCHANGED <<page, agent, summary, polling, refused, shown, inbox, lane, restarted>>
  BY DEF pollAgentSummary, Ask, laneVars
<1>2. PICK m : m = Message("cmd", polls + 1, agent)
  OBVIOUS
<1>3. /\ inbox \in Seq(Answered) /\ queue \in Seq(Posts) /\ polls \in Nat
      /\ restarted \in BOOLEAN /\ agent \in Agents
  BY <1>0, <1>1, PagesAssumption DEF Typed, PollingInv, Agents
<1>4. m \in Posts
  BY <1>2, <1>3, MessageType
<1>5. Grown(Line', Line, m)
  BY <1>0, <1>1, <1>2, <1>3, <1>4, LineAfter, PostGrows
<1>6. AllHeard(Line, restarted)
  <2>1. ASSUME ~restarted PROVE Quiet(Line)
    BY <1>0, <1>1, <2>1 DEF LineInv, Single, Quiet
  <2>2. ASSUME ~restarted PROVE \A k \in DOMAIN Line : Line[k].id = 0
    BY <1>0, <1>1, <2>1, <2>2 DEF LineInv, Single
  <2>3. QED
    BY <2>1, <2>2 DEF AllHeard
<1>7. /\ IsLine(Line', polls + 1) /\ Chosen(Line', page, agent, refused)
      /\ Requested(Line', polls + 1, agent) /\ Single(Line', restarted, polls + 1, polling)
  <2>1. IsLine(Line, polls) /\ Chosen(Line, page, agent, refused)
    BY <1>0 DEF LineInv
  <2>2. QED
    BY <1>2, <1>3, <1>5, <1>6, <2>1, AskGrown
<1>8. LineInv'
  BY <1>1, <1>7 DEF LineInv
<1>9. Typed'
  <2>1. queue' \in Seq(Posts) /\ request' \in 0..polls' /\ polls' \in Nat
    BY <1>1, <1>2, <1>3, <1>4
  <2>2. QED
    BY <1>0, <1>1, <2>1 DEF Typed, Core
<1>10. QED
  BY <1>0, <1>1, <1>8, <1>9 DEF PageInv, PollingInv, SummaryIsOwn

LEMMA ActivatedStep ==
  ASSUME PageInv, HandleActivated
  PROVE  PageInv'
<1>0. Typed /\ PollingInv /\ LineInv
  BY DEF PageInv
<1>1. PICK m, rest : m = Head(inbox) /\ rest = Tail(inbox)
  OBVIOUS
<1>2. /\ inbox # << >> /\ m.type = "activate" /\ inbox' = rest /\ refused' = ~m.success
      /\ UNCHANGED <<page, shown, lane, restarted>>
  BY <1>1 DEF HandleActivated, laneVars
<1>3. /\ inbox \in Seq(Answered) /\ queue \in Seq(Posts) /\ restarted \in BOOLEAN
      /\ polls \in Nat
  BY <1>0 DEF Typed
<1>4. m \in Answered /\ rest \in Seq(Answered) /\ m.agent \in Primaries /\ m.success \in BOOLEAN
  <2>1. m \in Answered /\ rest \in Seq(Answered)
    BY <1>1, <1>2, <1>3
  <2>2. QED
    BY <1>2, <2>1 DEF Answered
<1>5. PICK mid : mid = LineOf(rest, Hand, queue)
  OBVIOUS
<1>6. Shrunk(mid, Line) /\ Line[1] = Core(m)
  BY <1>0, <1>1, <1>2, <1>3, <1>5, LineAfter, AnswerShrinks, HandType DEF Line
<1>7. Line[1].type = "activate" /\ Line[1].agent = m.agent
  BY <1>2, <1>6 DEF Core, Message
<1>8. /\ IsLine(mid, polls)
      /\ Chosen(mid, page, m.agent, FALSE)
      /\ Chosen(mid, page, agent, TRUE)
      /\ AllHeard(mid, restarted)
  <2>1. PICK old, id, top, on, was, failed, again, polled :
           /\ old = Line /\ id = request /\ top = polls /\ on = page /\ was = agent
           /\ failed = refused /\ again = restarted /\ polled = polling
    OBVIOUS
  <2>2. /\ IsLine(old, top) /\ Chosen(old, on, was, failed) /\ Single(old, again, id, polled)
        /\ Shrunk(mid, old) /\ old[1].type = "activate" /\ top \in Nat
    BY <1>0, <1>3, <1>6, <1>7, <2>1 DEF LineInv
  <2>3. /\ IsLine(mid, top)
        /\ Chosen(mid, on, old[1].agent, FALSE)
        /\ Chosen(mid, on, was, TRUE)
        /\ AllHeard(mid, again)
    BY <2>2, ActivationShrunk
  <2>4. QED
    BY <1>7, <2>1, <2>3
<1>9. Line' = LineOf(rest, Hand, queue') /\ Hand \in Seq(Posts)
  BY <1>0, <1>2, LineAfter
<1>10. SummaryIsOwn'
  BY <1>2 DEF PageInv, SummaryIsOwn
<1>11. CASE m.success
  <2>1. agent' = m.agent /\ updateSummaryPolling(queue, m.agent) /\ refused' = FALSE
    BY <1>1, <1>2, <1>4, <1>11 DEF HandleActivated
  <2>2. /\ LineInv' /\ PollingInv'
        /\ queue' \in Seq(Posts) /\ polls' \in Nat /\ request' \in 0..polls'
        /\ polling' \in BOOLEAN
    BY <1>0, <1>2, <1>3, <1>4, <1>5, <1>8, <1>9, <2>1, PollingBegins
  <2>3. Typed'
    BY <1>0, <1>2, <1>4, <2>1, <2>2 DEF Typed, Core
  <2>4. QED
    BY <1>10, <2>2, <2>3 DEF PageInv
<1>12. CASE ~m.success
  <2>1. /\ request' = 0 /\ polling' = FALSE /\ refused' = TRUE
        /\ UNCHANGED <<agent, polls, queue>>
    BY <1>1, <1>2, <1>4, <1>12 DEF HandleActivated, StopsPolling
  <2>2. Line' = mid
    BY <1>5, <1>9, <2>1
  <2>3. Requested(mid, 0, agent) /\ Single(mid, restarted, 0, FALSE)
    BY <1>8, NothingAsked
  <2>4. LineInv'
    BY <1>2, <1>8, <2>1, <2>2, <2>3 DEF LineInv
  <2>5. request' \in 0..polls'
    BY <1>3, <2>1
  <2>6. polling' \in BOOLEAN /\ refused' \in BOOLEAN
    BY <2>1, Zenon
  <2>7. Typed'
    BY <1>0, <1>2, <1>4, <2>1, <2>5, <2>6 DEF Typed, Core
  <2>8. PollingInv'
    BY <2>1, Zenon DEF PollingInv
  <2>9. QED
    BY <1>10, <2>4, <2>7, <2>8 DEF PageInv
<1>13. QED
  BY <1>4, <1>11, <1>12


LEMMA AnswerStep ==
  ASSUME PageInv, handleSummaryCmdResult
  PROVE  PageInv'
<1>0. Typed /\ PollingInv /\ LineInv /\ SummaryIsOwn
  BY DEF PageInv
<1>1. PICK m, rest : m = Head(inbox) /\ rest = Tail(inbox)
  OBVIOUS
<1>2. /\ inbox # << >> /\ m.type = "cmd" /\ inbox' = rest
      /\ request' = (IF IsAnswer(m) THEN 0 ELSE request)
      /\ shown' = (IF IsAnswer(m) /\ m.success
                   THEN shown \union {[name |-> summary, from |-> m.agent, on |-> page,
                                       refused |-> refused]}
                   ELSE shown)
      /\ UNCHANGED <<page, agent, summary, polling, refused, queue, lane, restarted, polls>>
  BY <1>1 DEF handleSummaryCmdResult, laneVars
<1>3. /\ inbox \in Seq(Answered) /\ queue \in Seq(Posts) /\ polls \in Nat
      /\ request \in Nat /\ request <= polls
  BY <1>0 DEF Typed
<1>4. m \in Answered /\ rest \in Seq(Answered)
  BY <1>1, <1>2, <1>3
<1>5. Shrunk(Line', Line) /\ Line[1] = Core(m)
  BY <1>0, <1>1, <1>2, <1>3, LineAfter, AnswerShrinks, HandType
<1>6. Line[1].type # "activate" /\ Line[1].agent = m.agent /\ Line[1].id = m.id
  BY <1>2, <1>5 DEF Core, Message
<1>7. /\ IsLine(Line', polls)
      /\ Chosen(Line', page, agent, refused)
      /\ Requested(Line', request', agent)
      /\ Single(Line', restarted, request', polling)
      /\ IsAnswer(m) => m.agent = agent /\ (page = agent \/ refused)
  <2>1. PICK new, old, id, top, on, was, failed, again, polled :
           /\ new = Line' /\ old = Line /\ id = request /\ top = polls /\ on = page /\ was = agent
           /\ failed = refused /\ again = restarted /\ polled = polling
    OBVIOUS
  <2>2. /\ IsLine(old, top) /\ Chosen(old, on, was, failed) /\ Requested(old, id, was)
        /\ Single(old, again, id, polled)
        /\ Shrunk(new, old) /\ old[1].type # "activate" /\ top \in Nat /\ id \in Nat
    BY <1>0, <1>3, <1>5, <1>6, <2>1 DEF LineInv
  <2>3. PICK left : left = IF id # 0 /\ old[1].id = id THEN 0 ELSE id
    OBVIOUS
  <2>4. /\ IsLine(new, top)
        /\ Chosen(new, on, was, failed)
        /\ Requested(new, left, was)
        /\ Single(new, again, left, polled)
        /\ id # 0 /\ old[1].id = id => old[1].agent = was /\ (on = was \/ failed)
    BY <2>2, <2>3, AnswerShrunk
  <2>5. request' = left
    BY <1>2, <1>6, <2>1, <2>3 DEF IsAnswer
  <2>6. IsAnswer(m) => old[1].agent = was /\ (on = was \/ failed)
    BY <1>6, <2>1, <2>4 DEF IsAnswer
  <2>7. QED
    BY <1>6, <2>1, <2>4, <2>5, <2>6
<1>8. LineInv'
  BY <1>2, <1>7 DEF LineInv
<1>9. request' = 0 \/ request' = request
  BY <1>2
<1>10. Typed'
  <2>1. request' \in 0..polls'
    BY <1>2, <1>3, <1>9
  <2>2. QED
    BY <1>0, <1>2, <1>4, <2>1 DEF Typed, Core
<1>11. PollingInv'
  BY <1>0, <1>2, <1>9 DEF PollingInv
<1>12. SummaryIsOwn'
  <2>1. CASE IsAnswer(m) /\ m.success
    <3>1. summary = agent
      BY <1>0, <2>1 DEF PollingInv, IsAnswer
    <3>2. PICK s : s = [name |-> summary, from |-> m.agent, on |-> page, refused |-> refused]
      OBVIOUS
    <3>3. s.name = s.from /\ (s.on = s.from \/ s.refused)
      BY <1>7, <2>1, <3>1, <3>2
    <3>4. shown' = shown \union {s}
      BY <1>2, <2>1, <3>2
    <3>5. QED
      BY <1>0, <3>3, <3>4 DEF SummaryIsOwn
  <2>2. CASE ~(IsAnswer(m) /\ m.success)
    <3>1. shown' = shown
      BY <1>2, <2>2
    <3>2. QED
      BY <1>0, <3>1 DEF SummaryIsOwn
  <2>3. QED
    BY <2>1, <2>2
<1>13. QED
  BY <1>8, <1>10, <1>11, <1>12 DEF PageInv

-----------------------------------------------------------------------------
(* What is published besides, and the lane's steps.                         *)

\* A release, or a script's command, is published.
LEMMA PublishStep ==
  ASSUME PageInv, NEW m \in Posts, Inert(m), queue' = Append(queue, m),
         UNCHANGED <<page, agent, summary, request, polling, refused, shown, inbox, lane,
                     restarted, polls>>
  PROVE  PageInv'
<1>0. Typed /\ PollingInv /\ LineInv /\ SummaryIsOwn
  BY DEF PageInv
<1>1. inbox \in Seq(Answered) /\ queue \in Seq(Posts) /\ polls \in Nat /\ request \in Nat
  BY <1>0 DEF Typed
<1>2. Grown(Line', Line, m)
  BY <1>0, <1>1, LineAfter, PostGrows
<1>3. LineInv'
  <2>1. PICK new, old : new = Line' /\ old = Line
    OBVIOUS
  <2>2. /\ IsLine(old, polls) /\ Chosen(old, page, agent, refused)
        /\ Requested(old, request, agent) /\ Single(old, restarted, request, polling)
        /\ Grown(new, old, m)
    BY <1>0, <1>2, <2>1 DEF LineInv
  <2>3. /\ IsLine(new, polls) /\ Chosen(new, page, agent, refused)
        /\ Requested(new, request, agent) /\ Single(new, restarted, request, polling)
    BY <1>1, <2>2, InertGrown
  <2>4. QED
    BY <2>1, <2>3 DEF LineInv
<1>4. Typed'
  <2>1. queue' \in Seq(Posts)
    BY <1>1
  <2>2. QED
    BY <1>0, <2>1 DEF Typed, Core
<1>5. QED
  BY <1>0, <1>3, <1>4 DEF PageInv, PollingInv, SummaryIsOwn

\* AgentManager does something with the line.
LEMMA LaneKeepsLine ==
  ASSUME PageInv, Thinned(Line', Line), Typed',
         UNCHANGED <<page, agent, summary, request, polling, refused, shown, restarted, polls>>
  PROVE  PageInv'
<1>0. Typed /\ PollingInv /\ LineInv /\ SummaryIsOwn
  BY DEF PageInv
<1>1. LineInv'
  <2>1. PICK new, old : new = Line' /\ old = Line
    OBVIOUS
  <2>2. /\ IsLine(old, polls) /\ Chosen(old, page, agent, refused)
        /\ Requested(old, request, agent) /\ Single(old, restarted, request, polling)
        /\ Thinned(new, old)
    BY <1>0, <2>1 DEF LineInv
  <2>3. /\ IsLine(new, polls) /\ Chosen(new, page, agent, refused)
        /\ Requested(new, request, agent) /\ Single(new, restarted, request, polling)
    BY <2>2, ThinnedLine
  <2>4. QED
    BY <2>1, <2>3 DEF LineInv
<1>2. QED
  BY <1>0, <1>1 DEF PageInv, PollingInv, SummaryIsOwn


\* The end of what AgentManager does with a message: its answer, or none.
LEMMA AnswersGiven ==
  ASSUME Typed, NEW m, Core(m) \in Posts, m.type # "release", NEW success \in BOOLEAN,
         Answers(m, success), NEW posts \in Seq(Posts)
  PROVE  /\ inbox' \in Seq(Answered)
         /\ Thinned(LineOf(inbox', << >>, posts), LineOf(inbox, << Core(m) >>, posts))
<1>1. PICK c : c = Core(m)
  OBVIOUS
<1>2. c \in Posts /\ c.type = m.type /\ c.id = m.id /\ c.agent = m.agent
  BY <1>1 DEF Core, Message
<1>3. inbox \in Seq(Answered)
  BY DEF Typed
<1>4. CASE m.type = "cmd" /\ m.id = 0
  <2>1. inbox' = inbox /\ Inert(c)
    BY <1>2, <1>4 DEF Answers, Inert
  <2>2. QED
    BY <1>1, <1>2, <1>3, <2>1, HandDropped
<1>5. CASE ~(m.type = "cmd" /\ m.id = 0)
  <2>1. PICK answer : answer = [type |-> m.type, id |-> m.id, agent |-> m.agent,
                                success |-> success]
    OBVIOUS
  <2>2. inbox' = Append(inbox, answer)
    BY <1>5, <2>1 DEF Answers
  <2>3. answer \in Answered /\ Core(answer) = c
    BY <1>1, <1>2, <2>1 DEF Posts, Answered, Core, Message
  <2>4. Same(LineOf(inbox', << >>, posts), LineOf(inbox, << Core(m) >>, posts))
    BY <1>1, <1>2, <1>3, <2>2, <2>3, HandAnswered
  <2>5. QED
    BY <1>3, <2>2, <2>3, <2>4 DEF Thinned
<1>6. QED
  BY <1>4, <1>5

LEMMA SameThenThinned ==
  ASSUME NEW new, NEW mid, NEW old, Same(mid, old), Thinned(new, mid)
  PROVE  Thinned(new, old)
<1>1. DOMAIN mid = DOMAIN old /\ \A k \in DOMAIN old : mid[k] = old[k]
  BY DEF Same
<1>2. CASE Same(new, mid)
  <2>1. Same(new, old)
    BY <1>1, <1>2 DEF Same
  <2>2. QED
    BY <2>1 DEF Thinned
<1>3. ASSUME NEW j \in DOMAIN mid, Inert(mid[j]), Removed(new, mid, j)
      PROVE  Thinned(new, old)
  <2>1. PICK n \in Nat : /\ DOMAIN mid = 1..(n + 1) /\ DOMAIN new = 1..n /\ j \in 1..(n + 1)
                         /\ \A k \in 1..n : new[k] = mid[IF k < j THEN k ELSE k + 1]
    BY <1>3 DEF Removed
  <2>2. \A k \in 1..n : (IF k < j THEN k ELSE k + 1) \in 1..(n + 1)
    BY <2>1
  <2>3. Removed(new, old, j)
    BY <1>1, <2>1, <2>2 DEF Removed
  <2>4. QED
    BY <1>1, <1>3, <2>3 DEF Thinned
<1>4. QED
  BY <1>2, <1>3 DEF Thinned

\* A message is in AgentManager's hands, and still in its place.
LEMMA HeadInHand ==
  ASSUME Typed, queue # << >>
  PROVE  /\ Head(queue) \in Posts /\ Tail(queue) \in Seq(Posts)
         /\ Core(Head(queue)) = Head(queue)
         /\ lane.stage = "idle" =>
               Same(LineOf(inbox, << Head(queue) >>, Tail(queue)), Line)
<1>1. queue \in Seq(Posts) /\ inbox \in Seq(Answered)
  BY DEF Typed
<1>2. Head(queue) \in Posts /\ Tail(queue) \in Seq(Posts)
  BY <1>1
<1>3. Core(Head(queue)) = Head(queue)
  BY <1>2, CoreType
<1>4. ASSUME lane.stage = "idle"
      PROVE  Same(LineOf(inbox, << Head(queue) >>, Tail(queue)), Line)
  <2>1. Line = LineOf(inbox, << >>, queue)
    BY <1>4 DEF Line, Hand
  <2>2. QED
    BY <1>1, <2>1, PostTaken
<1>5. QED
  BY <1>2, <1>3, <1>4

LEMMA TakeStep ==
  ASSUME PageInv, Take
  PROVE  PageInv'
<1>0. Typed
  BY DEF PageInv
<1>1. PICK m, rest, mid : /\ m = Head(queue) /\ rest = Tail(queue)
                          /\ mid = LineOf(inbox, << m >>, rest)
  OBVIOUS
<1>2. /\ lane.stage = "idle" /\ queue # << >> /\ m.type # "release" /\ queue' = rest
      /\ UNCHANGED <<page, agent, summary, request, polling, refused, shown, restarted, polls>>
  BY <1>1 DEF Take, Lane, uiVars
<1>3. m \in Posts /\ rest \in Seq(Posts) /\ Core(m) = m /\ Same(mid, Line)
  BY <1>0, <1>1, <1>2, HeadInHand
<1>4. CASE file = Torn
  <2>1. Answers(m, FALSE) /\ UNCHANGED lane
    BY <1>1, <1>4 DEF Take, LoadFails
  <2>2. inbox' \in Seq(Answered) /\ Thinned(LineOf(inbox', << >>, rest), mid)
    BY <1>0, <1>1, <1>2, <1>3, <2>1, AnswersGiven
  <2>3. Line' = LineOf(inbox', << >>, rest)
    BY <1>2, <2>1 DEF Line, Hand
  <2>4. Thinned(Line', Line)
    BY <1>3, <2>2, <2>3, SameThenThinned
  <2>5. Typed'
    BY <1>0, <1>2, <1>3, <2>1, <2>2 DEF Typed, Core
  <2>6. QED
    BY <1>2, <2>4, <2>5, LaneKeepsLine
<1>5. CASE file # Torn
  <2>1. /\ lane' = Working(IF m.type = "cmd" THEN "checked" ELSE "loaded", m)
        /\ UNCHANGED inbox
    BY <1>1, <1>5 DEF Take
  <2>2. /\ lane'.stage \in {"checked", "loaded"}
        /\ lane'.type = m.type /\ lane'.id = m.id /\ lane'.agent = m.agent
    BY <2>1 DEF Working
  <2>3. Core(lane') = m
    BY <1>3, <2>2 DEF Core
  <2>4. Line' = mid
    BY <1>1, <1>2, <2>1, <2>2, <2>3 DEF Line, Hand
  <2>5. Thinned(Line', Line)
    BY <1>3, <2>4 DEF Thinned
  <2>6. Typed'
    <3>1. Core(lane)' = m
      BY <2>3 DEF Core
    <3>2. inbox' \in Seq(Answered) /\ queue' \in Seq(Posts)
      BY <1>0, <1>2, <1>3, <2>1 DEF Typed
    <3>3. QED
      BY <1>0, <1>2, <1>3, <2>2, <3>1, <3>2 DEF Typed
  <2>7. QED
    BY <1>2, <2>5, <2>6, LaneKeepsLine
<1>6. QED
  BY <1>4, <1>5

\* AgentManager lays a message down, answered or not.
LEMMA LaidDown ==
  ASSUME PageInv, lane.stage # "idle", NEW success \in BOOLEAN, Answers(lane, success),
         lane' = Idle, UNCHANGED queue,
         UNCHANGED <<page, agent, summary, request, polling, refused, shown, restarted, polls>>
  PROVE  PageInv'
<1>0. Typed
  BY DEF PageInv
<1>1. PICK m : m = lane
  OBVIOUS
<1>2. Core(m) \in Posts /\ m.type # "release" /\ queue \in Seq(Posts)
  BY <1>0, <1>1 DEF Typed
<1>3. /\ inbox' \in Seq(Answered)
      /\ Thinned(LineOf(inbox', << >>, queue), LineOf(inbox, << Core(m) >>, queue))
  BY <1>0, <1>1, <1>2, AnswersGiven
<1>4. Line = LineOf(inbox, << Core(m) >>, queue) /\ Line' = LineOf(inbox', << >>, queue)
  BY <1>1 DEF Line, Hand, Idle
<1>5. Typed'
  BY <1>0, <1>3 DEF Typed, Idle
<1>6. QED
  BY <1>3, <1>4, <1>5, LaneKeepsLine

LEMMA ReloadStep ==
  ASSUME PageInv, Reload
  PROVE  PageInv'
<1>1. /\ lane.stage = "checked" /\ UNCHANGED queue
      /\ UNCHANGED <<page, agent, summary, request, polling, refused, shown, restarted, polls>>
  BY DEF Reload, Lane, uiVars
<1>2. CASE file = Torn
  <2>1. Answers(lane, FALSE) /\ lane' = Idle
    BY <1>2 DEF Reload, LoadFails
  <2>2. QED
    BY <1>1, <2>1, LaidDown
<1>3. CASE file # Torn
  <2>1. lane' = Working("loaded", lane) /\ UNCHANGED inbox
    BY <1>3 DEF Reload
  <2>2. /\ lane'.stage = "loaded" /\ lane'.type = lane.type
        /\ lane'.id = lane.id /\ lane'.agent = lane.agent
    BY <2>1 DEF Working
  <2>3. Core(lane)' = Core(lane)
    BY <2>2 DEF Core
  <2>4. Line' = Line
    BY <1>1, <2>1, <2>2, <2>3 DEF Line, Hand
  <2>5. Thinned(Line', Line)
    BY <2>4 DEF Thinned, Same
  <2>6. Typed'
    BY <1>1, <2>1, <2>2, <2>3 DEF PageInv, Typed
  <2>7. QED
    BY <1>1, <2>5, <2>6, LaneKeepsLine
<1>4. QED
  BY <1>2, <1>3

LEMMA ExecuteStep ==
  ASSUME PageInv, NEW success \in BOOLEAN, Execute(success)
  PROVE  PageInv'
<1>1. /\ lane.stage # "idle" /\ Answers(lane, success) /\ lane' = Idle /\ UNCHANGED queue
      /\ UNCHANGED <<page, agent, summary, request, polling, refused, shown, restarted, polls>>
  BY DEF Execute, Lane, uiVars
<1>2. QED
  BY <1>1, LaidDown

LEMMA ReleaseServedStep ==
  ASSUME PageInv, doReleaseInactiveAgents
  PROVE  PageInv'
<1>0. Typed
  BY DEF PageInv
<1>1. PICK m, rest, mid : /\ m = Head(queue) /\ rest = Tail(queue)
                          /\ mid = LineOf(inbox, << m >>, rest)
  OBVIOUS
<1>2. /\ lane.stage = "idle" /\ queue # << >> /\ m.type = "release" /\ queue' = rest
      /\ UNCHANGED <<page, agent, summary, request, polling, refused, shown, restarted, polls>>
      /\ UNCHANGED <<inbox, lane>>
  BY <1>1 DEF doReleaseInactiveAgents, Lane, uiVars
<1>3. m \in Posts /\ rest \in Seq(Posts) /\ Same(mid, Line) /\ inbox \in Seq(Answered)
  BY <1>0, <1>1, <1>2, HeadInHand DEF Typed
<1>4. Inert(m)
  BY <1>2, <1>3 DEF Posts, Inert
<1>5. Line' = LineOf(inbox, << >>, rest)
  BY <1>2 DEF Line, Hand
<1>6. Thinned(Line', Line)
  BY <1>1, <1>3, <1>4, <1>5, HandDropped, SameThenThinned
<1>7. Typed'
  BY <1>0, <1>2, <1>3 DEF Typed, Core
<1>8. QED
  BY <1>2, <1>6, <1>7, LaneKeepsLine


\* Neither the line nor what MainWindow remembers is touched.
LEMMA PageUntouched ==
  ASSUME PageInv,
         UNCHANGED <<page, agent, summary, request, polling, refused, shown, inbox, queue, lane,
                     restarted, polls>>
  PROVE  PageInv'
<1>1. Typed'
  BY DEF PageInv, Typed, Core
<1>2. Line' = Line
  BY DEF Line, Hand
<1>3. LineInv'
  BY <1>2 DEF PageInv, LineInv
<1>4. QED
  BY <1>1, <1>3 DEF PageInv, PollingInv, SummaryIsOwn

LEMMA ScriptEndsStep ==
  ASSUME PageInv, NEW stopped \in BOOLEAN, ScriptEnds(stopped)
  PROVE  PageInv'
<1>0. Typed /\ PollingInv /\ LineInv /\ SummaryIsOwn
  BY DEF PageInv
<1>1. PICK m, released : m = Message("release", 0, Ur) /\ released = Append(queue, m)
  OBVIOUS
<1>2. m \in Posts /\ Inert(m)
  BY <1>1, MessageType DEF Agents, Inert, Message
<1>3. UNCHANGED <<page, agent, refused, shown, inbox, lane>>
  BY DEF ScriptEnds, laneVars
<1>4. CASE ~(stopped /\ agent # NoAgent)
  <2>1. queue' = released /\ UNCHANGED <<summary, request, polling, polls, restarted>>
    BY <1>1, <1>4 DEF ScriptEnds
  <2>2. QED
    BY <1>1, <1>2, <1>3, <2>1, PublishStep
<1>5. CASE stopped /\ agent # NoAgent
  <2>1. /\ updateSummaryPolling(released, agent)
        /\ restarted' = (restarted \/ Unanswered \/ Outstanding # {})
    BY <1>1, <1>5 DEF ScriptEnds
  <2>2. /\ inbox \in Seq(Answered) /\ queue \in Seq(Posts) /\ released \in Seq(Posts)
        /\ polls \in Nat /\ request \in Nat /\ agent \in Primaries
    BY <1>0, <1>1, <1>2, <1>5 DEF Typed
  <2>3. PICK hand, old, mid : /\ hand = Hand /\ old = LineOf(inbox, hand, queue)
                              /\ mid = LineOf(inbox, hand, released)
    OBVIOUS
  <2>4. /\ hand \in Seq(Posts) /\ Line' = LineOf(inbox, hand, queue') /\ Line = old
    BY <1>0, <1>3, <2>3, LineAfter
  <2>5. Grown(mid, old, m)
    BY <1>1, <1>2, <2>2, <2>3, <2>4, PostGrows
  <2>6. /\ IsLine(old, polls) /\ Chosen(old, page, agent, refused)
        /\ Requested(old, request, agent) /\ Single(old, restarted, request, polling)
    BY <1>0, <2>4 DEF LineInv
  <2>7. IsLine(mid, polls) /\ Chosen(mid, page, agent, refused)
    BY <1>2, <2>2, <2>5, <2>6, InertGrown
  <2>8. AllHeard(mid, restarted')
    <3>1. ASSUME ~restarted' PROVE Quiet(old) /\ \A k \in DOMAIN old : old[k].id = 0
      <4>1. ~Unanswered /\ Outstanding = {}
        BY <2>1, <3>1
      <4>2. QED
        BY <1>0, <2>4, <2>6, <4>1, InLine
    <3>2. PICK n \in Nat : /\ DOMAIN old = 1..n /\ DOMAIN mid = 1..(n + 1)
                           /\ \A k \in 1..n : mid[k] = old[k]
                           /\ mid[n + 1] = m
      BY <2>5 DEF Grown
    <3>3. \A k \in 1..(n + 1) : k \in 1..n \/ k = n + 1
      OBVIOUS
    <3>4. ASSUME ~restarted', NEW k \in 1..(n + 1)
          PROVE  mid[k].type # "activate" /\ mid[k].id = 0
      <4>1. CASE k \in 1..n
        BY <3>1, <3>2, <3>4, <4>1 DEF Quiet
      <4>2. CASE k = n + 1
        BY <1>2, <3>2, <4>2 DEF Inert
      <4>3. QED
        BY <3>3, <4>1, <4>2
    <3>5. QED
      BY <3>2, <3>4 DEF AllHeard, Quiet
  <2>9. restarted' \in BOOLEAN
    BY <1>0, <2>1, Zenon DEF Typed, Unanswered
  <2>10. /\ LineInv' /\ PollingInv'
         /\ queue' \in Seq(Posts) /\ polls' \in Nat /\ request' \in 0..polls'
         /\ polling' \in BOOLEAN
    BY <1>0, <1>3, <2>1, <2>2, <2>3, <2>4, <2>7, <2>8, <2>9, PollingBegins
  <2>11. Typed'
    BY <1>0, <1>3, <2>9, <2>10 DEF Typed, Core
  <2>12. SummaryIsOwn'
    BY <1>0, <1>3 DEF SummaryIsOwn
  <2>13. QED
    BY <2>10, <2>11, <2>12 DEF PageInv
<1>6. QED
  BY <1>4, <1>5

LEMMA PageInit == Init => PageInv
<1> SUFFICES ASSUME Init PROVE PageInv
  OBVIOUS
<1>1. /\ page = NoAgent /\ agent = NoAgent /\ request = 0 /\ polling = FALSE /\ shown = {}
      /\ refused = FALSE /\ restarted = FALSE /\ polls = 0
      /\ inbox = << >> /\ queue = << >> /\ lane.stage = "idle"
  BY DEF Init, Idle
<1>2. Typed
  <2>1. polling \in BOOLEAN /\ refused \in BOOLEAN /\ restarted \in BOOLEAN
    BY <1>1, Zenon
  <2>2. queue \in Seq(Posts) /\ inbox \in Seq(Answered) /\ polls \in Nat /\ request \in 0..polls
    BY <1>1
  <2>3. QED
    BY <1>1, <2>1, <2>2 DEF Typed
<1>3. DOMAIN Line = {}
  BY <1>1 DEF Line, Hand, LineOf
<1>4. IsLine(Line, polls)
  <2>1. 0 \in Nat /\ 1..0 = {}
    OBVIOUS
  <2>2. QED
    BY <1>3, <2>1 DEF IsLine
<1>5. Chosen(Line, page, agent, refused)
  BY <1>1, <1>3 DEF Chosen, Quiet
<1>6. Requested(Line, request, agent)
  BY <1>3 DEF Requested
<1>7. Single(Line, restarted, request, polling)
  BY <1>3 DEF Single
<1>8. PollingInv /\ SummaryIsOwn
  BY <1>1 DEF PollingInv, SummaryIsOwn
<1>9. QED
  BY <1>2, <1>4, <1>5, <1>6, <1>7, <1>8 DEF PageInv, LineInv

LEMMA PageStep == PageInv /\ [Next]_vars => PageInv'
<1> SUFFICES ASSUME PageInv, [Next]_vars PROVE PageInv'
  OBVIOUS
<1>1. ASSUME NEW a \in Primaries, activateAgent(a) PROVE PageInv'
  BY <1>1, ActivateStep
<1>2. CASE pollAgentSummary
  BY <1>2, PollStep
<1>3. CASE setVirtualUrConfig
  BY <1>3, PageUntouched DEF setVirtualUrConfig, Others, uiVars, laneVars
<1>4. CASE CommandUr
  <2>1. PICK m : m = Message("cmd", 0, Ur)
    OBVIOUS
  <2>2. m \in Posts /\ Inert(m)
    BY <2>1, MessageType DEF Agents, Inert, Message
  <2>3. QED
    BY <1>4, <2>1, <2>2, PublishStep DEF CommandUr, uiVars, laneVars
<1>5. CASE StopUr
  BY <1>5, PageUntouched DEF StopUr, uiVars, laneVars
<1>6. ASSUME NEW stopped \in BOOLEAN, ScriptEnds(stopped) PROVE PageInv'
  BY <1>6, ScriptEndsStep
<1>7. CASE HandleActivated
  BY <1>7, ActivatedStep
<1>8. CASE handleSummaryCmdResult
  BY <1>8, AnswerStep
<1>9. CASE writeEffectiveConfig
  BY <1>9, PageUntouched DEF writeEffectiveConfig, Others, uiVars, laneVars
<1>10. CASE ReleaseProxies
  <2>1. PICK m : m = Message("release", 0, Ur)
    OBVIOUS
  <2>2. m \in Posts /\ Inert(m)
    BY <2>1, MessageType DEF Agents, Inert, Message
  <2>3. QED
    BY <1>10, <2>1, <2>2, PublishStep DEF ReleaseProxies, PublishRelease, Others, uiVars, laneVars
<1>11. CASE LaneStep
  BY <1>11, TakeStep, ReloadStep, ExecuteStep, ReleaseServedStep DEF LaneStep
<1>12. CASE StopStep
  <2>1. Stopper
    BY <1>12 DEF StopStep, TakeStop, ensurePriorityClient, StopEnds
  <2>2. QED
    BY <2>1, PageUntouched DEF Stopper, Lane, uiVars, laneVars
<1>13. CASE UNCHANGED vars
  BY <1>13, PageUntouched DEF vars, uiVars, laneVars
<1>14. QED
  BY <1>1, <1>2, <1>3, <1>4, <1>5, <1>6, <1>7, <1>8, <1>9, <1>10, <1>11, <1>12, <1>13
  DEF Next, UiGoesOn


-----------------------------------------------------------------------------
(* The page: what is shown, and what is outstanding.                        *)

\* For any agents and any number of choices, polls, scripts and changes of the virtual
\* node, a summary is shown under the name of the agent that sent it, and on its page
\* unless the choice of another was refused (main_window.cpp:812-816, 1141-1148,
\* 1233-1310).
THEOREM OwnSummaries == Spec => []SummaryIsOwn
<1>1. PageInv => SummaryIsOwn
  BY DEF PageInv
<1>2. QED
  BY <1>1, PageInit, PageStep, PTL DEF Spec

\* Nor is there ever more than one summary request outstanding, unless polling began
\* anew before what went before it was answered (main_window.cpp:1146, 1233-1259).
THEOREM OneRequest == Spec => []OneOutstanding
<1>1. ASSUME PageInv PROVE OneOutstanding
  <2>1. Typed /\ IsLine(Line, polls) /\ Single(Line, restarted, request, polling)
    BY <1>1 DEF PageInv, LineInv
  <2>2. PICK asked : asked = Outstanding
    OBVIOUS
  <2>3. \A i \in asked : \E k \in DOMAIN Line : Line[k].id = i
    BY <2>1, <2>2, InLine
  <2>4. \A i \in asked : i # 0
    BY <2>2 DEF Outstanding
  <2>5. CASE restarted
    BY <2>5 DEF OneOutstanding
  <2>6. CASE ~restarted
    <3>1. \A k, l \in DOMAIN Line : Line[k].id # 0 /\ Line[l].id # 0 => k = l
      BY <2>1, <2>6 DEF Single
    <3>2. \A i, j \in asked : i = j
      BY <2>3, <2>4, <3>1
    <3>3. CASE asked = {}
      <4>1. Cardinality(asked) = 0
        BY <3>3, FS_EmptySet
      <4>2. QED
        BY <2>2, <4>1 DEF OneOutstanding
    <3>4. CASE asked # {}
      <4>1. PICK i : asked = {i}
        BY <3>2, <3>4
      <4>2. Cardinality(asked) = 1
        BY <4>1, FS_Singleton
      <4>3. QED
        BY <2>2, <4>2 DEF OneOutstanding
    <3>5. QED
      BY <3>3, <3>4
  <2>7. QED
    BY <2>5, <2>6
<1>2. QED
  BY <1>1, PageInit, PageStep, PTL DEF Spec


-----------------------------------------------------------------------------
(* The users of the virtual UR node's configuration.                        *)

Extends(new, old) == \A k \in DOMAIN old : k \in DOMAIN new /\ new[k] = old[k]

LEMMA AppendExtends ==
  ASSUME NEW s \in Seq(Posts), NEW m \in Posts
  PROVE  Append(s, m) \in Seq(Posts) /\ Extends(Append(s, m), s)
<1>0. PICK n \in Nat : n = Len(s)
  OBVIOUS
<1>1. PICK more : more = Append(s, m)
  OBVIOUS
<1>2. more \in Seq(Posts) /\ DOMAIN s = 1..n /\ DOMAIN more = 1..(n + 1)
  BY <1>0, <1>1
<1>3. \A k \in 1..n : k \in 1..(n + 1) /\ more[k] = s[k]
  BY <1>0, <1>1, <1>2
<1>4. Extends(more, s)
  BY <1>2, <1>3 DEF Extends
<1>5. QED
  BY <1>1, <1>2, <1>4

\* What is published stays behind what was.
LEMMA PollingExtends ==
  ASSUME polls \in Nat, NEW sent \in Seq(Posts), NEW a \in Primaries,
         updateSummaryPolling(sent, a)
  PROVE  Extends(queue', sent)
<1>1. Message("cmd", polls + 1, a) \in Posts
  BY MessageType DEF Agents
<1>2. PICK m : m = Message("cmd", polls + 1, a)
  OBVIOUS
<1>3. queue' = sent \/ queue' = Append(sent, m)
  BY <1>2 DEF updateSummaryPolling, Ask
<1>4. Extends(sent, sent)
  BY DEF Extends
<1>5. QED
  BY <1>1, <1>2, <1>3, <1>4, AppendExtends

LEMMA QueueExtended ==
  ASSUME UsersInv, Extends(queue', queue), UNCHANGED <<configVars, laneVars, stopVars>>
  PROVE  UsersInv'
<1>1. UNCHANGED <<writing, config, file, lane, active, proxies>>
  BY DEF configVars, laneVars
<1>2. ReleaseAhead => ReleaseAhead'
  BY <1>1 DEF ReleaseAhead, Extends
<1>3. UsersTyped'
  BY <1>1 DEF UsersInv, UsersTyped
<1>4. ProxyInv'
  BY <1>1, <1>2 DEF UsersInv, ProxyInv
<1>5. QED
  BY <1>3, <1>4 DEF UsersInv

\* What the UI thread does with the file, and after it.
LEMMA SettingStep ==
  ASSUME Typed, UsersInv,
         setVirtualUrConfig \/ writeEffectiveConfig \/ ReleaseProxies
  PROVE  UsersInv'
<1>1. UNCHANGED <<lane, active, proxies>>
  BY DEF setVirtualUrConfig, writeEffectiveConfig, ReleaseProxies, Others, laneVars
<1>2. UsersTyped
  BY DEF UsersInv
<1>3. CASE setVirtualUrConfig /\ writing' = "write"
  <2>1. config' = config + 1 /\ file' \in Int
    BY <1>2, <1>3 DEF setVirtualUrConfig, Torn, UsersTyped
  <2>2. ReleaseAhead'
    BY <1>3 DEF ReleaseAhead
  <2>3. UsersTyped'
    BY <1>1, <1>2, <1>3, <2>1 DEF UsersTyped
  <2>4. QED
    BY <2>2, <2>3 DEF UsersInv, ProxyInv
<1>4. CASE setVirtualUrConfig /\ ~(writing' = "write")
  <2>1. config' = config + 1 /\ UNCHANGED <<writing, file, queue>>
    BY <1>4 DEF setVirtualUrConfig
  <2>2. UsersTyped'
    BY <1>1, <1>2, <2>1 DEF UsersTyped
  <2>3. ReleaseAhead => ReleaseAhead'
    BY <2>1 DEF ReleaseAhead
  <2>4. QED
    BY <1>1, <2>1, <2>2, <2>3 DEF UsersInv, ProxyInv
<1>5. CASE writeEffectiveConfig
  <2>1. file' \in {config, Torn} /\ config' = config /\ writing' = "release"
    BY <1>5 DEF writeEffectiveConfig
  <2>2. ReleaseAhead'
    BY <2>1 DEF ReleaseAhead
  <2>3. UsersTyped'
    BY <1>1, <1>2, <2>1 DEF UsersTyped, Torn
  <2>4. QED
    BY <2>2, <2>3 DEF UsersInv, ProxyInv
<1>6. CASE ReleaseProxies
  <2>1. PICK m, more : m = Message("release", 0, Ur) /\ more = Append(queue, m)
    OBVIOUS
  <2>2. queue' = more /\ writing' = "no" /\ UNCHANGED <<config, file>>
    BY <1>6, <2>1 DEF ReleaseProxies, PublishRelease
  <2>3. m \in Posts /\ m.type = "release" /\ queue \in Seq(Posts)
    BY <2>1, MessageType DEF Agents, Message, Typed
  <2>4. PICK n \in Nat : n = Len(queue)
    BY <2>3
  <2>5. n + 1 \in DOMAIN more /\ more[n + 1] = m
    BY <2>1, <2>3, <2>4
  <2>6. ReleaseAhead'
    BY <2>2, <2>3, <2>5 DEF ReleaseAhead
  <2>7. UsersTyped'
    BY <1>1, <1>2, <2>2 DEF UsersTyped
  <2>8. QED
    BY <2>6, <2>7 DEF UsersInv, ProxyInv
<1>7. QED
  BY <1>3, <1>4, <1>5, <1>6

\* What is taken from the queue, unless it is a release, leaves those behind it.
LEMMA HeadTaken ==
  ASSUME Typed, queue # << >>, Head(queue).type # "release", queue' = Tail(queue),
         UNCHANGED writing, ReleaseAhead
  PROVE  ReleaseAhead'
<1>1. CASE writing # "no"
  BY <1>1 DEF ReleaseAhead
<1>2. CASE \E k \in DOMAIN queue : queue[k].type = "release"
  <2>1. PICK k \in DOMAIN queue : queue[k].type = "release"
    BY <1>2
  <2>2. PICK rest \in Seq(Posts) : rest = Tail(queue)
    BY DEF Typed
  <2>3. PICK n \in Nat : n = Len(rest)
    OBVIOUS
  <2>4. /\ DOMAIN queue = 1..(n + 1) /\ DOMAIN rest = 1..n /\ Head(queue) = queue[1]
        /\ \A j \in 1..n : rest[j] = queue[j + 1]
    BY <2>2, <2>3 DEF Typed
  <2>5. k # 1
    BY <2>1, <2>4
  <2>6. k - 1 \in 1..n /\ (k - 1) + 1 = k
    BY <2>4, <2>5
  <2>7. k - 1 \in DOMAIN rest /\ rest[k - 1] = queue[k]
    BY <2>4, <2>6
  <2>8. QED
    BY <2>1, <2>2, <2>7 DEF ReleaseAhead
<1>3. QED
  BY <1>1, <1>2 DEF ReleaseAhead

LEMMA LaneUsers ==
  ASSUME Typed, UsersInv, LaneStep
  PROVE  UsersInv'
<1>1. UNCHANGED <<writing, config, file>>
  BY DEF LaneStep, Take, Reload, Execute, doReleaseInactiveAgents, Lane, configVars
<1>2. UsersTyped /\ ProxyInv
  BY DEF UsersInv
<1>3. CASE Take
  <2>1. UNCHANGED <<active, proxies>>
    BY <1>3 DEF Take
  <2>2. ReleaseAhead => ReleaseAhead'
    BY <1>1, <1>3, HeadTaken DEF Take
  <2>3. lane.stage = "idle"
    BY <1>3 DEF Take
  <2>4. lane' = lane \/ (lane'.version = file)
    BY <1>3 DEF Take, Working
  <2>5. UsersTyped'
    BY <1>1, <1>2, <2>1, <2>4 DEF UsersTyped
  <2>6. ProxyInv'
    BY <1>1, <1>2, <2>1, <2>2, <2>3, <2>4 DEF ProxyInv
  <2>7. QED
    BY <2>5, <2>6 DEF UsersInv
<1>4. CASE Reload
  <2>1. UNCHANGED <<queue, active, proxies>>
    BY <1>4 DEF Reload
  <2>2. ReleaseAhead => ReleaseAhead'
    BY <1>1, <2>1 DEF ReleaseAhead
  <2>3. \/ lane'.version = file
        \/ lane'.version = 0 /\ lane'.stage = "idle"
    BY <1>4 DEF Reload, Working, Idle
  <2>4. UsersTyped'
    BY <1>1, <1>2, <2>1, <2>3 DEF UsersTyped
  <2>5. ProxyInv'
    BY <1>1, <1>2, <2>1, <2>2, <2>3 DEF ProxyInv
  <2>6. QED
    BY <2>4, <2>5 DEF UsersInv
<1>5. ASSUME NEW success \in BOOLEAN, Execute(success)
      PROVE  UsersInv'
  <2>1. UNCHANGED queue /\ lane.stage = "loaded"
    BY <1>5 DEF Execute
  <2>2. ReleaseAhead => ReleaseAhead'
    BY <1>1, <2>1 DEF ReleaseAhead
  <2>3. lane'.version = 0 /\ lane'.stage = "idle"
    BY <1>5 DEF Execute, Idle
  <2>4. \/ proxies' = proxies
        \/ proxies' = [proxies EXCEPT ![lane.agent] = lane.version] /\ proxies[lane.agent] = None
    BY <1>5 DEF Execute
  <2>5. lane.agent \in Agents /\ (lane.type = "activate" => lane.agent \in Primaries)
    BY <2>1 DEF Typed, Core, Message, Posts
  <2>6. active' \in Primaries \union {NoAgent}
    BY <1>2, <1>5, <2>5 DEF Execute, UsersTyped
  <2>7. UsersTyped'
    <3>1. proxies' \in [Agents -> Int]
      BY <1>2, <2>4, <2>5 DEF UsersTyped
    <3>2. QED
      BY <1>1, <1>2, <2>3, <2>6, <3>1 DEF UsersTyped
  <2>8. ProxyInv'
    <3>1. CASE ReleaseAhead
      BY <2>2, <3>1 DEF ProxyInv
    <3>2. CASE ~ReleaseAhead
      <4>1. proxies[Ur] \in {None, file} /\ (lane.agent = Ur => lane.version = file)
        BY <1>2, <2>1, <3>2 DEF ProxyInv
      <4>2. proxies'[Ur] \in {None, file}
        BY <1>2, <2>4, <2>5, <4>1 DEF UsersTyped, Agents
      <4>3. QED
        BY <1>1, <2>3, <4>2 DEF ProxyInv
    <3>3. QED
      BY <3>1, <3>2
  <2>9. QED
    BY <2>7, <2>8 DEF UsersInv
<1>6. CASE doReleaseInactiveAgents
  <2>1. /\ UNCHANGED <<lane, active>> /\ lane.stage = "idle"
        /\ proxies' = [a \in Agents |-> IF a = active THEN proxies[a] ELSE None]
    BY <1>6 DEF doReleaseInactiveAgents
  <2>2. active # Ur /\ Ur \in Agents
    BY <1>2, PagesAssumption DEF UsersTyped, Agents
  <2>3. UsersTyped'
    <3>1. proxies' \in [Agents -> Int]
      BY <1>2, <2>1 DEF UsersTyped, None
    <3>2. QED
      BY <1>1, <1>2, <2>1, <3>1 DEF UsersTyped
  <2>4. proxies'[Ur] = None
    BY <2>1, <2>2
  <2>5. ProxyInv'
    BY <2>1, <2>4 DEF ProxyInv
  <2>6. QED
    BY <2>3, <2>5 DEF UsersInv
<1>7. QED
  BY <1>3, <1>4, <1>5, <1>6 DEF LaneStep

LEMMA StopUsers ==
  ASSUME UsersInv, StopStep
  PROVE  UsersInv'
<1>1. UNCHANGED <<queue, writing, config, file, lane, active, proxies>>
  BY DEF StopStep, TakeStop, ensurePriorityClient, StopEnds, Stopper, Lane, configVars, laneVars
<1>2. UsersTyped /\ ProxyInv
  BY DEF UsersInv
<1>3. ReleaseAhead <=> ReleaseAhead'
  BY <1>1 DEF ReleaseAhead
<1>4. UsersTyped'
  BY <1>1, <1>2 DEF UsersTyped
<1>5. ProxyInv'
  BY <1>1, <1>2, <1>3 DEF ProxyInv
<1>6. QED
  BY <1>4, <1>5 DEF UsersInv


LEMMA UsersInit == Init => UsersInv
<1> SUFFICES ASSUME Init PROVE UsersInv
  OBVIOUS
<1>1. /\ config = 0 /\ file = 0 /\ lane.version = 0 /\ active = NoAgent /\ writing = "no"
      /\ proxies = [a \in Agents |-> None] /\ lane.stage = "idle"
  BY DEF Init, Idle
<1>2. Ur \in Agents
  BY DEF Agents
<1>3. UsersTyped
  BY <1>1 DEF UsersTyped, None
<1>4. ProxyInv
  BY <1>1, <1>2 DEF ProxyInv
<1>5. QED
  BY <1>3, <1>4 DEF UsersInv

LEMMA UsersStep == PageInv /\ UsersInv /\ [Next]_vars => UsersInv'
<1> SUFFICES ASSUME PageInv, UsersInv, [Next]_vars PROVE UsersInv'
  OBVIOUS
<1>1. Typed /\ PollingInv /\ queue \in Seq(Posts) /\ inbox \in Seq(Answered) /\ polls \in Nat
  BY DEF PageInv, Typed
<1>2. Extends(queue, queue)
  BY DEF Extends
<1>3. Message("release", 0, Ur) \in Posts /\ Message("cmd", 0, Ur) \in Posts
  BY MessageType DEF Agents
<1>4. ASSUME NEW a \in Primaries, activateAgent(a) PROVE UsersInv'
  <2>1. PICK m : m = Message("activate", 0, a)
    OBVIOUS
  <2>2. m \in Posts /\ queue' = Append(queue, m)
    BY <1>4, <2>1, MessageType DEF activateAgent
  <2>3. Extends(queue', queue)
    BY <1>1, <2>2, AppendExtends
  <2>4. QED
    BY <1>4, <2>3, QueueExtended DEF activateAgent
<1>5. CASE pollAgentSummary
  <2>1. PICK m : m = Message("cmd", polls + 1, agent)
    OBVIOUS
  <2>2. agent \in Agents
    BY <1>1, <1>5, PagesAssumption DEF pollAgentSummary, PollingInv, Agents
  <2>3. m \in Posts /\ queue' = Append(queue, m)
    BY <1>1, <1>5, <2>1, <2>2, MessageType DEF pollAgentSummary, Ask
  <2>4. Extends(queue', queue)
    BY <1>1, <2>3, AppendExtends
  <2>5. QED
    BY <1>5, <2>4, QueueExtended DEF pollAgentSummary
<1>6. CASE setVirtualUrConfig \/ writeEffectiveConfig \/ ReleaseProxies
  BY <1>1, <1>6, SettingStep
<1>7. CASE CommandUr
  <2>1. PICK m : m = Message("cmd", 0, Ur)
    OBVIOUS
  <2>2. Extends(queue', queue)
    BY <1>1, <1>3, <1>7, <2>1, AppendExtends DEF CommandUr
  <2>3. QED
    BY <1>7, <2>2, QueueExtended DEF CommandUr
<1>8. CASE StopUr
  <2>1. UNCHANGED <<queue, writing, config, file, lane, active, proxies>>
    BY <1>8 DEF StopUr, configVars, laneVars
  <2>2. ReleaseAhead <=> ReleaseAhead'
    BY <2>1 DEF ReleaseAhead
  <2>3. QED
    BY <2>1, <2>2 DEF UsersInv, UsersTyped, ProxyInv
<1>9. ASSUME NEW stopped \in BOOLEAN, ScriptEnds(stopped) PROVE UsersInv'
  <2>1. PICK m, released : m = Message("release", 0, Ur) /\ released = Append(queue, m)
    OBVIOUS
  <2>2. released \in Seq(Posts) /\ Extends(released, queue)
    BY <1>1, <1>3, <2>1, AppendExtends
  <2>3. Extends(queue', released)
    <3>1. CASE stopped /\ agent # NoAgent
      <4>1. agent \in Primaries /\ updateSummaryPolling(released, agent)
        BY <1>1, <1>9, <2>1, <3>1 DEF ScriptEnds, Typed
      <4>2. QED
        BY <1>1, <2>2, <4>1, PollingExtends
    <3>2. CASE ~(stopped /\ agent # NoAgent)
      BY <1>9, <2>1, <3>2 DEF ScriptEnds, Extends
    <3>3. QED
      BY <3>1, <3>2
  <2>4. Extends(queue', queue)
    BY <2>2, <2>3 DEF Extends
  <2>5. QED
    BY <1>9, <2>4, QueueExtended DEF ScriptEnds
<1>10. CASE HandleActivated
  <2>1. CASE Head(inbox).success
    <3>1. Head(inbox) \in Answered /\ Head(inbox).type = "activate"
      BY <1>1, <1>10 DEF HandleActivated
    <3>2. Head(inbox).agent \in Primaries /\ updateSummaryPolling(queue, Head(inbox).agent)
      BY <1>10, <2>1, <3>1 DEF HandleActivated, Answered
    <3>3. Extends(queue', queue)
      BY <1>1, <3>2, PollingExtends
    <3>4. QED
      BY <1>10, <3>3, QueueExtended DEF HandleActivated
  <2>2. CASE ~Head(inbox).success
    <3>1. queue' = queue
      BY <1>10, <2>2 DEF HandleActivated
    <3>2. QED
      BY <1>2, <1>10, <3>1, QueueExtended DEF HandleActivated
  <2>3. QED
    BY <2>1, <2>2
<1>11. CASE handleSummaryCmdResult
  BY <1>2, <1>11, QueueExtended DEF handleSummaryCmdResult
<1>12. CASE LaneStep
  BY <1>1, <1>12, LaneUsers
<1>13. CASE StopStep
  BY <1>13, StopUsers
<1>14. CASE UNCHANGED vars
  BY <1>2, <1>14, QueueExtended DEF vars
<1>15. QED
  BY <1>4, <1>5, <1>6, <1>7, <1>8, <1>9, <1>10, <1>11, <1>12, <1>13, <1>14
  DEF Next, UiGoesOn

\* Whenever no release is ahead, AgentManager's proxy of the virtual UR node was made
\* from the configuration that is in the file, whatever commands came while it was
\* rewritten (main_window.cpp:1413-1470, agent_manager.cpp:645-658).
THEOREM ProxyFollows == Spec => []ProxiesFollowConfig
<1>1. UsersInv => ProxiesFollowConfig
  BY DEF UsersInv, ProxyInv, ProxiesFollowConfig
<1>2. QED
  BY <1>1, PageInit, PageStep, UsersInit, UsersStep, PTL DEF Spec
=============================================================================
