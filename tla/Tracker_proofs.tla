---------------------------- MODULE Tracker_proofs ----------------------------
(***************************************************************************)
(* The safety of the tracker, for every set of nodes, all their timers,    *)
(* every node timeout and poll timeout, and any number of nested loops.    *)
(***************************************************************************)
EXTENDS Tracker, TLAPS

Pc == {"off", "asking", "first", "joining", "loop", "blocked", "gone"}
Datagram == [type : {"NET_GET_NODE", "NET_ALIVE"}, from : Node]

(* Seconds never run past the bound at which they stop to matter.          *)
LEMMA CappedRange ==
  ASSUME NEW max \in Nat, NEW i \in 0 .. max
  PROVE  Capped(i, max) \in 0 .. max /\ Capped(i, max) <= i + 1
BY DEF Capped

(* A datagram joins the others at the end; the tracker takes the first.    *)
LEMMA AppendedDatagram ==
  ASSUME NEW s \in Seq(Datagram), NEW d \in Datagram
  PROVE  /\ Append(s, d) \in Seq(Datagram)
         /\ Len(Append(s, d)) = Len(s) + 1 /\ Len(s) \in Nat
         /\ DOMAIN Append(s, d) = 1 .. Len(s) + 1 /\ DOMAIN s = 1 .. Len(s)
         /\ \A i \in 1 .. Len(s) : Append(s, d)[i] = s[i]
         /\ Append(s, d)[Len(s) + 1] = d
OBVIOUS

LEMMA TakenDatagram ==
  ASSUME NEW s \in Seq(Datagram), s # <<>>
  PROVE  /\ Head(s) \in Datagram /\ Head(s) = s[1]
         /\ Tail(s) \in Seq(Datagram)
         /\ Len(s) \in Nat \ {0} /\ DOMAIN s = 1 .. Len(s)
         /\ DOMAIN Tail(s) = 1 .. Len(s) - 1
         /\ \A i \in 1 .. Len(s) - 1 : Tail(s)[i] = s[i + 1]
OBVIOUS

LEMMA InboxTypes ==
  ASSUME TypeOK
  PROVE  /\ inbox \in Seq(Datagram)
         /\ \A i \in DOMAIN inbox : inbox[i] \in Datagram /\ inbox[i].from \in Node
<1>1. inbox \in Seq(Datagram)
  BY DEF TypeOK, Datagram
<1>2. \A i \in DOMAIN inbox : inbox[i] \in Datagram
  BY <1>1
<1> QED
  BY <1>1, <1>2 DEF Datagram
-----------------------------------------------------------------------------
(* Types. *)

LEMMA Bounds ==
  /\ \A n \in Node : /\ FirstAlive[n] \in Nat /\ NextAlive[n] \in Nat /\ Wake[n] \in Nat
                     /\ TimerMax(n) \in Nat
  /\ AgeMax \in Nat /\ PollMax \in Nat \ {0} /\ Timeout \in Nat /\ MaxReenter \in Nat
BY TrackerAssumption DEF TimerMax, AgeMax

LEMMA NodeStepTypes ==
  ASSUME TypeOK, NEW n \in Node,
         \/ GetNode(n) \/ EnterLoop(n) \/ Reenter(n) \/ SendAlive(n)
         \/ Block(n) \/ Unblock(n) \/ Exit(n)
  PROVE  TypeOK'
<1> USE DEF TypeOK
<1>1. CASE GetNode(n)
  BY <1>1, AppendedDatagram DEF GetNode, Datagram, loop, known, history
<1>2. CASE EnterLoop(n)
  BY <1>2, Bounds DEF EnterLoop, known, history
<1>3. CASE Reenter(n)
  <2>1. reentered' \in [Node -> 0 .. MaxReenter]
    BY <1>3, Bounds DEF Reenter
  <2>2. timer' \in [Node -> Nat] /\ due' \in [Node -> Nat]
    BY <1>3, Bounds DEF Reenter
  <2>3. \A i \in Node : timer'[i] \in 0 .. TimerMax(i) /\ due'[i] \in {0, FirstAlive[i], NextAlive[i]}
    BY <1>3, Bounds DEF Reenter
  <2> QED
    BY <1>3, <2>1, <2>2, <2>3 DEF Reenter, known
<1>4. CASE SendAlive(n)
  <2>1. inbox' \in Seq(Datagram)
    BY <1>4, AppendedDatagram DEF SendAlive, Datagram
  <2> QED
    BY <1>4, <2>1, Bounds DEF SendAlive, Datagram, known
<1>5. CASE Block(n)
  BY <1>5 DEF Block, loop, known
<1>6. CASE Unblock(n)
  BY <1>6 DEF Unblock, loop, known, history
<1>7. CASE Exit(n)
  BY <1>7 DEF Exit, loop, known, history
<1> QED
  BY <1>1, <1>2, <1>3, <1>4, <1>5, <1>6, <1>7

LEMMA TrackerStepTypes ==
  ASSUME TypeOK, TrackerStep
  PROVE  TypeOK'
<1> USE DEF TypeOK
<1>1. CASE PollReturns
  BY <1>1, Bounds DEF PollReturns, loop, known, history
<1>2. CASE HandlePdu
  <2> DEFINE m == Head(inbox)
  <2>1. m \in Datagram /\ Tail(inbox) \in Seq(Datagram)
    BY <1>2, TakenDatagram DEF HandlePdu, Datagram
  <2>2. m.from \in Node
    BY <2>1 DEF Datagram
  <2>3. inbox' = Tail(inbox) /\ UNCHANGED <<loop, tracker, idle, held, reentered>>
    BY <1>2 DEF HandlePdu
  <2>4. HandleAlive(m.from) \/ AnswerEmpty(m.from) \/ AnswerNode(m.from)
    BY <1>2 DEF HandlePdu
  <2> HIDE DEF m
  <2>5. CASE HandleAlive(m.from)
    <3>1. age' \in [Node -> 0 .. AgeMax]
      BY <2>2, <2>5, Bounds DEF HandleAlive, Heard
    <3>2. nodes' \subseteq Node /\ heard' \subseteq Node /\ pc' = pc
      BY <2>2, <2>5 DEF HandleAlive
    <3> QED
      BY <2>1, <2>3, <3>1, <3>2 DEF Datagram, loop
  <2>6. CASE AnswerEmpty(m.from) \/ AnswerNode(m.from)
    BY <2>1, <2>2, <2>3, <2>6 DEF AnswerEmpty, AnswerNode, Datagram, known, loop
  <2> QED
    BY <2>4, <2>5, <2>6
<1>3. CASE Retain
  BY <1>3 DEF Retain, Outdated, loop, history
<1> QED
  BY <1>1, <1>2, <1>3 DEF TrackerStep

LEMMA TickTypes ==
  ASSUME TypeOK, Tick
  PROVE  TypeOK'
<1> USE DEF TypeOK
<1>1. \A n \in Node : timer'[n] \in 0 .. TimerMax(n)
  BY Bounds, CappedRange DEF Tick
<1>2. age' \in [Node -> 0 .. AgeMax]
  BY Bounds, CappedRange DEF Tick
<1>3. idle' \in 0 .. PollMax
  BY Bounds DEF Tick, PollDue, Capped
<1> QED
  BY <1>1, <1>2, <1>3 DEF Tick, history

(* Every variable keeps its type: no clock or counter leaves its range,    *)
(* and no datagram is ill-formed.                                          *)
THEOREM TypeCorrect == Spec => []TypeOK
<1>1. Init => TypeOK
  BY Bounds DEF Init, TypeOK
<1>2. TypeOK /\ [Next]_vars => TypeOK'
  <2> SUFFICES ASSUME TypeOK, [Next]_vars PROVE TypeOK'
    OBVIOUS
  <2>1. CASE UNCHANGED vars
    BY <2>1 DEF TypeOK, vars, loop, known, history
  <2> QED
    BY <2>1, NodeStepTypes, TrackerStepTypes, TickTypes DEF Next
<1> QED
  BY <1>1, <1>2, PTL DEF Spec
-----------------------------------------------------------------------------
(* How old what the tracker knows may be.  While it waits, as old as it     *)
(* has waited since the last retain; while it handles, one whole poll.     *)
Recent ==
  /\ tracker = "handle" => idle = 0
  /\ \A n \in nodes : age[n] <= Timeout + (IF tracker = "poll" THEN idle ELSE PollMax)

LEMMA NodeStepRecent ==
  ASSUME Recent, UNCHANGED <<known, tracker, idle>>
  PROVE  Recent'
BY DEF Recent, known

LEMMA TrackerStepRecent ==
  ASSUME TypeOK, Recent, TrackerStep
  PROVE  Recent'
<1> USE DEF TypeOK, Recent
<1>1. CASE PollReturns
  BY <1>1, Bounds DEF PollReturns, known
<1>2. CASE HandlePdu
  <2> DEFINE n == Head(inbox).from
  <2>1. n \in Node
    BY <1>2, TakenDatagram DEF HandlePdu, Datagram
  <2>2. HandleAlive(n) \/ AnswerEmpty(n) \/ AnswerNode(n)
    BY <1>2 DEF HandlePdu
  <2>3. tracker = "handle" /\ UNCHANGED <<tracker, idle>>
    BY <1>2 DEF HandlePdu
  <2> HIDE DEF n
  <2>4. CASE HandleAlive(n)
    BY <2>1, <2>3, <2>4, Bounds DEF HandleAlive, Heard
  <2>5. CASE UNCHANGED known
    BY <2>3, <2>5 DEF known
  <2> QED
    BY <2>2, <2>4, <2>5 DEF AnswerEmpty, AnswerNode
<1>3. CASE Retain
  BY <1>3, Bounds DEF Retain, Outdated
<1> QED
  BY <1>1, <1>2, <1>3 DEF TrackerStep

LEMMA TickRecent ==
  ASSUME TypeOK, Recent, Tick
  PROVE  Recent'
<1> USE DEF TypeOK, Recent
<1>1. idle' = idle + 1 /\ idle \in Nat
  BY Bounds DEF Tick, PollDue, Capped
<1>2. ASSUME NEW n \in nodes
      PROVE  age[n] \in Nat /\ age'[n] \in Nat /\ age'[n] <= age[n] + 1
  <2>1. n \in Node /\ age[n] \in 0 .. AgeMax /\ AgeMax \in Nat
    BY Bounds
  <2>2. age'[n] = Capped(age[n], AgeMax)
    BY <2>1 DEF Tick
  <2> QED
    BY <2>1, <2>2, CappedRange
<1>3. nodes' = nodes /\ tracker = "poll" /\ tracker' = "poll"
  BY DEF Tick
<1>4. \A n \in nodes : age[n] <= Timeout + idle
  BY <1>3
<1> QED
  BY <1>1, <1>2, <1>3, <1>4, Bounds

(* A node the tracker may name was alive at most one node timeout and one  *)
(* poll ago (retain), whatever datagrams arrive in whatever order.         *)
THEOREM NamedAreRecent == Spec => []NamedIsRecent
<1>1. Init => Recent
  BY DEF Init, Recent
<1>2. TypeOK /\ Recent /\ [Next]_vars => Recent'
  <2> SUFFICES ASSUME TypeOK, Recent, [Next]_vars PROVE Recent'
    OBVIOUS
  <2>1. CASE UNCHANGED vars
    BY <2>1, NodeStepRecent DEF vars
  <2>2. ASSUME NEW n \in Node,
               \/ GetNode(n) \/ EnterLoop(n) \/ Reenter(n) \/ SendAlive(n)
               \/ Block(n) \/ Unblock(n) \/ Exit(n)
        PROVE  Recent'
    BY <2>2, NodeStepRecent
    DEF GetNode, EnterLoop, Reenter, SendAlive, Block, Unblock, Exit
  <2> QED
    BY <2>1, <2>2, TrackerStepRecent, TickRecent DEF Next
<1>3. TypeOK /\ Recent => NamedIsRecent
  BY Bounds DEF TypeOK, Recent, NamedIsRecent
<1> QED
  BY <1>1, <1>2, <1>3, TypeCorrect, PTL DEF Spec
-----------------------------------------------------------------------------
(* What the tracker knows of a node that serves.                            *)

(* A node asks once, and until it is in the loop nobody has heard of it.    *)
AsksOnce ==
  /\ \A i \in DOMAIN inbox : inbox[i].type = "NET_GET_NODE" => pc[inbox[i].from] = "asking"
  /\ \A i, j \in DOMAIN inbox :
       inbox[i].type = "NET_GET_NODE" /\ inbox[j] = inbox[i] => i = j
  /\ \A n \in Node : pc[n] \in {"off", "asking", "first", "joining"} =>
       n \notin heard /\ ~AliveOnItsWay(n)
  /\ \A n \in Node : pc[n] = "blocked" => n \in held

(* The seconds between the last NET_ALIVE and the last call of q6_state.    *)
Before(n) == IF reentered[n] = 0 THEN 0 ELSE Silence(n) - (FirstAlive[n] + Wake[n])

(* Since its last NET_ALIVE, a node that was not blocked has checked its    *)
(* timer in time, and what the tracker knows is not older than that.        *)
Punctual(n) ==
  pc[n] = "loop" /\ n \notin held /\ (n \in heard \/ AliveOnItsWay(n)) =>
    /\ due[n] = IF reentered[n] = 0 THEN NextAlive[n] ELSE FirstAlive[n]
    /\ timer[n] <= due[n] + Wake[n]
    /\ Silence(n) < Timeout /\ ~AliveOnItsWay(n) =>
         n \in nodes /\ age[n] <= Before(n) + timer[n]

SilenceInv == AsksOnce /\ \A n \in Node : Punctual(n)

Alive(n) == [type |-> "NET_ALIVE", from |-> n]

(* Which NET_ALIVEs are on their way after a datagram was sent ... *)
LEMMA OnItsWayAfterSending ==
  ASSUME TypeOK, NEW d \in Datagram, inbox' = Append(inbox, d), NEW x \in Node
  PROVE  AliveOnItsWay(x)' <=> AliveOnItsWay(x) \/ d = Alive(x)
<1>1. inbox \in Seq(Datagram)
  BY DEF TypeOK, Datagram
<1> QED
  BY <1>1, AppendedDatagram DEF AliveOnItsWay, Alive

(* ... and after the tracker took one. *)
LEMMA OnItsWayAfterTaking ==
  ASSUME TypeOK, inbox # <<>>, inbox' = Tail(inbox), NEW x \in Node
  PROVE  /\ AliveOnItsWay(x)' => AliveOnItsWay(x)
         /\ AliveOnItsWay(x) => AliveOnItsWay(x)' \/ Head(inbox) = Alive(x)
<1>1. inbox \in Seq(Datagram)
  BY DEF TypeOK, Datagram
<1>2. /\ Head(inbox) = inbox[1] /\ Len(inbox) \in Nat \ {0} /\ DOMAIN inbox = 1 .. Len(inbox)
      /\ DOMAIN inbox' = 1 .. Len(inbox) - 1
      /\ \A i \in 1 .. Len(inbox) - 1 : inbox'[i] = inbox[i + 1]
  BY <1>1, TakenDatagram
<1>3. ASSUME NEW i \in DOMAIN inbox', inbox'[i] = Alive(x) PROVE AliveOnItsWay(x)
  <2>1. i + 1 \in DOMAIN inbox /\ inbox[i + 1] = Alive(x)
    BY <1>2, <1>3
  <2> QED
    BY <2>1 DEF AliveOnItsWay, Alive
<1>4. ASSUME NEW i \in DOMAIN inbox, inbox[i] = Alive(x), i # 1 PROVE AliveOnItsWay(x)'
  <2>1. i - 1 \in DOMAIN inbox' /\ inbox'[i - 1] = inbox[(i - 1) + 1] /\ (i - 1) + 1 = i
    BY <1>2, <1>4
  <2>2. i - 1 \in DOMAIN inbox' /\ inbox'[i - 1] = Alive(x)
    BY <1>4, <2>1
  <2> QED
    BY <2>2 DEF AliveOnItsWay, Alive
<1> QED
  BY <1>2, <1>3, <1>4 DEF AliveOnItsWay, Alive

(* The steps of a node and of time leave AsksOnce alone unless they send.   *)
LEMMA SilentStepAsks ==
  ASSUME TypeOK, AsksOnce, UNCHANGED <<inbox, heard>>, NEW n \in Node,
         \A x \in Node \ {n} : pc'[x] = pc[x],
         pc[n] # "asking", pc'[n] \notin {"off", "asking", "first", "joining"} \/ pc'[n] = pc[n],
         held \subseteq held', pc'[n] = "blocked" => n \in held'
  PROVE  AsksOnce'
<1>1. \A x \in Node : AliveOnItsWay(x)' <=> AliveOnItsWay(x)
  BY DEF AliveOnItsWay
<1>2. \A i \in DOMAIN inbox : inbox[i].from \in Node
  BY InboxTypes
<1> QED
  BY <1>1, <1>2 DEF AsksOnce

LEMMA GetNodeAsks ==
  ASSUME TypeOK, AsksOnce, NEW n \in Node, GetNode(n)
  PROVE  AsksOnce'
<1> DEFINE d == [type |-> "NET_GET_NODE", from |-> n]
<1>1. inbox \in Seq(Datagram) /\ d \in Datagram /\ inbox' = Append(inbox, d)
  BY DEF TypeOK, GetNode, Datagram
<1>2. /\ DOMAIN inbox = 1 .. Len(inbox) /\ DOMAIN inbox' = 1 .. Len(inbox) + 1 /\ Len(inbox) \in Nat
      /\ \A i \in 1 .. Len(inbox) : inbox'[i] = inbox[i] /\ inbox[i] \in Datagram
      /\ inbox'[Len(inbox) + 1] = d
  BY <1>1, AppendedDatagram
<1>3. pc[n] = "off" /\ pc' = [pc EXCEPT ![n] = "asking"] /\ heard' = heard /\ held' = held
  BY DEF GetNode, history
<1>4. \A i \in 1 .. Len(inbox) : inbox[i].type = "NET_GET_NODE" => inbox[i].from # n
  BY <1>2, <1>3 DEF AsksOnce
<1>5. \A i \in DOMAIN inbox' : inbox'[i].type = "NET_GET_NODE" => pc'[inbox'[i].from] = "asking"
  <2>1. pc \in [Node -> Pc]
    BY DEF TypeOK, Pc
  <2>2. ASSUME NEW i \in 1 .. Len(inbox), inbox'[i].type = "NET_GET_NODE"
        PROVE  pc'[inbox'[i].from] = "asking"
    <3>1. inbox[i].from \in Node /\ inbox[i].from # n /\ pc[inbox[i].from] = "asking"
      BY <1>2, <1>4, <2>2, InboxTypes DEF AsksOnce
    <3> QED
      BY <1>2, <1>3, <2>1, <3>1
  <2>3. pc'[inbox'[Len(inbox) + 1].from] = "asking"
    BY <1>2, <1>3, <2>1
  <2> QED
    BY <1>2, <2>2, <2>3
<1>6. \A i, j \in DOMAIN inbox' :
        inbox'[i].type = "NET_GET_NODE" /\ inbox'[j] = inbox'[i] => i = j
  BY <1>2, <1>4 DEF AsksOnce
<1>7. \A x \in Node : AliveOnItsWay(x)' <=> AliveOnItsWay(x)
  BY <1>1, OnItsWayAfterSending DEF Alive
<1>8. \A x \in Node : /\ pc'[x] \in {"off", "asking", "first", "joining"} =>
                           x \notin heard' /\ ~AliveOnItsWay(x)'
                      /\ pc'[x] = "blocked" => x \in held'
  BY <1>3, <1>7 DEF AsksOnce, TypeOK
<1> QED
  BY <1>5, <1>6, <1>8 DEF AsksOnce

LEMMA SendAliveAsks ==
  ASSUME TypeOK, AsksOnce, NEW n \in Node, SendAlive(n)
  PROVE  AsksOnce'
<1> DEFINE d == Alive(n)
<1>1. inbox \in Seq(Datagram) /\ d \in Datagram /\ inbox' = Append(inbox, d)
  BY DEF TypeOK, SendAlive, Datagram, Alive
<1>2. /\ DOMAIN inbox = 1 .. Len(inbox) /\ DOMAIN inbox' = 1 .. Len(inbox) + 1 /\ Len(inbox) \in Nat
      /\ \A i \in 1 .. Len(inbox) : inbox'[i] = inbox[i]
      /\ inbox'[Len(inbox) + 1] = d
  BY <1>1, AppendedDatagram
<1>3. pc[n] = "loop" /\ pc' = pc /\ heard' = heard /\ held' = held \ {n}
  BY DEF SendAlive
<1>4. d.type = "NET_ALIVE"
  BY DEF Alive
<1>5. \A i \in DOMAIN inbox' : inbox'[i].type = "NET_GET_NODE" => pc'[inbox'[i].from] = "asking"
  BY <1>2, <1>3, <1>4 DEF AsksOnce
<1>6. \A i, j \in DOMAIN inbox' :
        inbox'[i].type = "NET_GET_NODE" /\ inbox'[j] = inbox'[i] => i = j
  BY <1>2, <1>4 DEF AsksOnce
<1>7. \A x \in Node \ {n} : AliveOnItsWay(x)' <=> AliveOnItsWay(x)
  BY <1>1, OnItsWayAfterSending DEF Alive
<1>8. \A x \in Node : /\ pc'[x] \in {"off", "asking", "first", "joining"} =>
                           x \notin heard' /\ ~AliveOnItsWay(x)'
                      /\ pc'[x] = "blocked" => x \in held'
  BY <1>3, <1>7 DEF AsksOnce
<1> QED
  BY <1>5, <1>6, <1>8 DEF AsksOnce

LEMMA HandlePduAsks ==
  ASSUME TypeOK, AsksOnce, HandlePdu
  PROVE  AsksOnce'
<1> DEFINE m == Head(inbox)
<1>1. inbox \in Seq(Datagram) /\ inbox # <<>> /\ inbox' = Tail(inbox) /\ held' = held
  BY DEF TypeOK, HandlePdu, Datagram
<1>2. /\ m \in Datagram /\ m = inbox[1] /\ Len(inbox) \in Nat \ {0} /\ DOMAIN inbox = 1 .. Len(inbox)
      /\ DOMAIN inbox' = 1 .. Len(inbox) - 1
      /\ \A i \in 1 .. Len(inbox) - 1 : inbox'[i] = inbox[i + 1]
  BY <1>1, TakenDatagram
<1>3. m.from \in Node /\ m = [type |-> m.type, from |-> m.from]
  BY <1>2 DEF Datagram
<1>4. \A i \in DOMAIN inbox' : i + 1 \in DOMAIN inbox /\ i + 1 # 1 /\ inbox'[i] = inbox[i + 1]
  BY <1>2
<1>5. \A i, j \in DOMAIN inbox' :
        inbox'[i].type = "NET_GET_NODE" /\ inbox'[j] = inbox'[i] => i = j
  <2> SUFFICES ASSUME NEW i \in DOMAIN inbox', NEW j \in DOMAIN inbox',
                      inbox'[i].type = "NET_GET_NODE", inbox'[j] = inbox'[i]
               PROVE  i = j
    OBVIOUS
  <2>1. i + 1 = j + 1
    BY <1>4 DEF AsksOnce
  <2> QED
    BY <1>2, <2>1
<1>6. CASE m.type = "NET_ALIVE" /\ HandleAlive(m.from)
  <2>1. m = Alive(m.from) /\ heard' = heard \cup {m.from} /\ pc' = pc
    BY <1>3, <1>6 DEF Alive, HandleAlive
  <2>2. AliveOnItsWay(m.from)
    BY <1>2, <2>1 DEF AliveOnItsWay, Alive
  <2>3. \A x \in Node : AliveOnItsWay(x)' => AliveOnItsWay(x)
    BY <1>1, OnItsWayAfterTaking
  <2> HIDE DEF m
  <2> QED
    BY <1>1, <1>3, <1>4, <1>5, <2>1, <2>2, <2>3 DEF AsksOnce
<1>7. CASE m.type = "NET_GET_NODE" /\ (AnswerEmpty(m.from) \/ AnswerNode(m.from))
  <2>1. /\ pc[m.from] = "asking" /\ heard' = heard
        /\ \/ pc' = [pc EXCEPT ![m.from] = "first"]
           \/ pc' = [pc EXCEPT ![m.from] = "joining"]
    BY <1>2, <1>7 DEF AsksOnce, AnswerEmpty, AnswerNode
  <2>2. \A i \in DOMAIN inbox' : inbox'[i].type = "NET_GET_NODE" => inbox'[i].from # m.from
    <3> SUFFICES ASSUME NEW i \in DOMAIN inbox', inbox'[i].type = "NET_GET_NODE",
                        inbox'[i].from = m.from
                 PROVE  FALSE
      OBVIOUS
    <3>1. i + 1 \in DOMAIN inbox /\ inbox[i + 1] = inbox'[i] /\ inbox[i + 1] \in Datagram
          /\ 1 \in DOMAIN inbox
      BY <1>1, <1>2, <1>4
    <3>2. inbox[i + 1] = inbox[1]
      BY <1>2, <1>3, <1>7, <3>1 DEF Datagram
    <3> QED
      BY <1>2, <1>4, <1>7, <3>1, <3>2 DEF AsksOnce
  <2>3. \A x \in Node : AliveOnItsWay(x)' => AliveOnItsWay(x)
    BY <1>1, OnItsWayAfterTaking
  <2>4. pc \in [Node -> Pc]
    BY DEF TypeOK, Pc
  <2>5. \A i \in DOMAIN inbox' : inbox'[i] = inbox[i + 1] /\ inbox[i + 1] \in Datagram
                                 /\ inbox'[i].from \in Node
    BY <1>4, InboxTypes
  <2> HIDE DEF m
  <2>6. \A i \in DOMAIN inbox' : inbox'[i].type = "NET_GET_NODE" => pc'[inbox'[i].from] = "asking"
    BY <1>4, <2>1, <2>2, <2>4, <2>5 DEF AsksOnce
  <2>7. \A x \in Node : /\ pc'[x] \in {"off", "asking", "first", "joining"} =>
                             x \notin heard' /\ ~AliveOnItsWay(x)'
                        /\ pc'[x] = "blocked" => x \in held'
    BY <1>1, <1>3, <2>1, <2>3, <2>4 DEF AsksOnce
  <2> QED
    BY <1>5, <2>6, <2>7 DEF AsksOnce
<1> QED
  BY <1>6, <1>7 DEF HandlePdu

LEMMA AsksStep ==
  ASSUME TypeOK, AsksOnce, [Next]_vars
  PROVE  AsksOnce'
<1>1. ASSUME UNCHANGED <<pc, inbox, heard, held>> PROVE AsksOnce'
  BY <1>1 DEF AsksOnce, AliveOnItsWay
<1>2. ASSUME NEW n \in Node, EnterLoop(n) \/ Block(n) \/ Unblock(n) \/ Exit(n)
      PROVE  AsksOnce'
  <2>1. /\ UNCHANGED <<inbox, heard>> /\ held \subseteq held'
        /\ pc'[n] = "blocked" => n \in held'
        /\ pc[n] # "asking" /\ pc'[n] \notin {"off", "asking", "first", "joining"}
        /\ \A x \in Node \ {n} : pc'[x] = pc[x]
    BY <1>2 DEF EnterLoop, Block, Unblock, Exit, history, TypeOK
  <2> QED
    BY <2>1, SilentStepAsks
<1>3. ASSUME NEW n \in Node, Reenter(n) PROVE AsksOnce'
  BY <1>1, <1>3 DEF Reenter
<1>4. CASE PollReturns \/ Retain \/ Tick \/ UNCHANGED vars
  BY <1>1, <1>4 DEF PollReturns, Retain, Tick, vars, history
<1> QED
  BY <1>2, <1>3, <1>4, GetNodeAsks, SendAliveAsks, HandlePduAsks DEF Next, TrackerStep
-----------------------------------------------------------------------------
(* How long a node is silent. *)

LEMMA Product ==
  ASSUME NEW r \in Nat, NEW c \in Nat
  PROVE  /\ r * c \in Nat /\ (r + 1) * c = r * c + c
         /\ r # 0 => r * c >= c
<1>1. r * c \in Nat /\ (r + 1) * c = r * c + c
  OBVIOUS
<1>2. ASSUME r # 0 PROVE r * c >= c
  <2>1. r - 1 \in Nat /\ (r - 1) * c \in Nat
    BY <1>2
  <2>2. r * c = (r - 1) * c + c
    OBVIOUS
  <2> QED
    BY <1>1, <2>1, <2>2
<1> QED
  BY <1>1, <1>2

LEMMA SilenceBounds ==
  ASSUME TypeOK, NEW n \in Node
  PROVE  /\ Silence(n) \in Nat /\ Before(n) \in Nat
         /\ reentered[n] = 0 => Silence(n) = NextAlive[n] + Wake[n]
<1> DEFINE c == FirstAlive[n] + Wake[n]
<1>1. reentered[n] \in Nat /\ c \in Nat /\ NextAlive[n] + Wake[n] \in Nat
  BY Bounds DEF TypeOK
<1>2. Silence(n) = (NextAlive[n] + Wake[n]) + reentered[n] * c
  BY DEF Silence
<1>3. Before(n) = IF reentered[n] = 0 THEN 0 ELSE Silence(n) - c
  BY DEF Before
<1>4. /\ reentered[n] * c \in Nat
      /\ reentered[n] # 0 => reentered[n] * c >= c
      /\ reentered[n] = 0 => reentered[n] * c = 0
  BY <1>1, Product
<1> HIDE DEF c
<1> QED
  BY <1>1, <1>2, <1>3, <1>4

(* A step that concerns other nodes. *)
LEMMA OtherStepPunctual ==
  ASSUME NEW x \in Node, Punctual(x),
         pc'[x] = pc[x], timer'[x] = timer[x], due'[x] = due[x], reentered'[x] = reentered[x],
         x \in held' <=> x \in held, x \in heard' <=> x \in heard,
         AliveOnItsWay(x)' <=> AliveOnItsWay(x),
         x \in nodes => x \in nodes', age'[x] = age[x]
  PROVE  Punctual(x)'
<1>1. Silence(x)' = Silence(x)
  BY DEF Silence
<1>2. Before(x)' = Before(x)
  BY <1>1 DEF Before
<1> QED
  BY <1>1, <1>2 DEF Punctual

(* Nothing is asked of a node that is not in the loop, or was blocked. *)
LEMMA ExemptPunctual ==
  ASSUME NEW x \in Node, pc'[x] # "loop" \/ x \in held'
  PROVE  Punctual(x)'
BY DEF Punctual

LEMMA NodeStepPunctual ==
  ASSUME TypeOK, AsksOnce, NEW n \in Node, NEW x \in Node, Punctual(x),
         \/ GetNode(n) \/ EnterLoop(n) \/ Reenter(n) \/ SendAlive(n)
         \/ Block(n) \/ Unblock(n) \/ Exit(n)
  PROVE  Punctual(x)'
<1>1. /\ nodes' = nodes /\ age' = age /\ heard' = heard
  BY DEF GetNode, EnterLoop, Reenter, SendAlive, Block, Unblock, Exit, known, history
<1>2. inbox' = inbox => (AliveOnItsWay(x)' <=> AliveOnItsWay(x))
  BY DEF AliveOnItsWay
<1>3. CASE x # n
  <2>1. /\ pc'[x] = pc[x] /\ timer'[x] = timer[x] /\ due'[x] = due[x]
        /\ reentered'[x] = reentered[x] /\ (x \in held' <=> x \in held)
    BY <1>3 DEF TypeOK, GetNode, EnterLoop, Reenter, SendAlive, Block, Unblock, Exit, loop, history
  <2>2. AliveOnItsWay(x)' <=> AliveOnItsWay(x)
    <3>1. CASE GetNode(n)
      BY <3>1, OnItsWayAfterSending DEF GetNode, Datagram, Alive
    <3>2. CASE SendAlive(n)
      BY <1>3, <3>2, OnItsWayAfterSending DEF SendAlive, Datagram, Alive
    <3> QED
      BY <1>2, <3>1, <3>2 DEF EnterLoop, Reenter, Block, Unblock, Exit
  <2> QED
    BY <1>1, <2>1, <2>2, OtherStepPunctual
<1>4. CASE x = n
  <2>1. CASE GetNode(n) \/ Block(n) \/ Exit(n)
    <3>1. pc'[n] # "loop"
      BY <2>1 DEF TypeOK, GetNode, Block, Exit
    <3> QED
      BY <1>4, <3>1, ExemptPunctual
  <2>2. CASE Unblock(n)
    BY <1>4, <2>2, ExemptPunctual DEF Unblock, AsksOnce, history
  (* Nobody has heard of it yet. *)
  <2>3. CASE EnterLoop(n)
    <3>1. n \notin heard' /\ ~AliveOnItsWay(n)'
      BY <1>1, <1>2, <1>4, <2>3 DEF EnterLoop, AsksOnce
    <3> QED
      BY <1>4, <3>1 DEF Punctual
  (* Its silence begins anew, and its NET_ALIVE is on its way. *)
  <2>4. CASE SendAlive(n)
    <3>1. /\ timer'[n] = 0 /\ due'[n] = NextAlive[n] /\ reentered'[n] = 0
      BY <2>4 DEF SendAlive, TypeOK
    <3>2. AliveOnItsWay(n)'
      BY <2>4, OnItsWayAfterSending DEF SendAlive, Datagram, Alive
    <3> QED
      BY <1>4, <3>1, <3>2, Bounds DEF Punctual
  (* What has passed since the last NET_ALIVE grows by this call. *)
  <2>5. CASE Reenter(n)
    <3> DEFINE c == FirstAlive[n] + Wake[n]
               r == reentered[n]
               first == NextAlive[n] + Wake[n]
    <3>1. /\ pc[n] = "loop" /\ pc'[n] = "loop" /\ held' = held
          /\ timer'[n] = 0 /\ due'[n] = FirstAlive[n] /\ reentered'[n] = r + 1
          /\ AliveOnItsWay(n)' <=> AliveOnItsWay(n)
      BY <1>2, <1>4, <2>5 DEF Reenter, TypeOK
    <3>2. /\ r \in Nat /\ c \in Nat /\ first \in Nat /\ age[n] \in Nat /\ timer[n] \in Nat
          /\ FirstAlive[n] \in Nat /\ Wake[n] \in Nat /\ NextAlive[n] \in Nat
      <4>1. r \in 0 .. MaxReenter /\ age[n] \in 0 .. AgeMax /\ timer[n] \in Nat
        BY DEF TypeOK
      <4> HIDE DEF r
      <4> QED
        BY <4>1, Bounds
    <3>3. r * c \in Nat /\ (r + 1) * c = r * c + c /\ (r # 0 => r * c >= c)
      BY <3>2, Product
    <3>4. Silence(n) = first + r * c /\ Silence(n)' = first + (r * c + c)
      BY <3>1, <3>3 DEF Silence
    <3>5. Before(n)' = Silence(n)
      BY <3>1, <3>2, <3>3, <3>4 DEF Before
    <3>6. Before(n) = IF r = 0 THEN 0 ELSE Silence(n) - c
      BY DEF Before
    <3> HIDE DEF c, r, first
    <3>7. r = 0 => Silence(n) = first
      BY <3>2, <3>4, SilenceBounds DEF r, first
    <3> SUFFICES ASSUME n \notin held, n \in heard \/ AliveOnItsWay(n)
                 PROVE  /\ due'[n] = FirstAlive[n]
                        /\ timer'[n] <= due'[n] + Wake[n]
                        /\ Silence(n)' < Timeout /\ ~AliveOnItsWay(n) =>
                             n \in nodes /\ age[n] <= Before(n)' + timer'[n]
      BY <1>1, <1>4, <3>1, <3>2 DEF Punctual
    <3>8. /\ timer[n] <= (IF r = 0 THEN NextAlive[n] ELSE FirstAlive[n]) + Wake[n]
          /\ Silence(n) < Timeout /\ ~AliveOnItsWay(n) =>
               n \in nodes /\ age[n] <= Before(n) + timer[n]
      BY <1>4, <3>1 DEF Punctual, r
    <3>9. Before(n) + timer[n] <= Silence(n)
      <4>1. CASE r = 0
        BY <3>2, <3>6, <3>7, <3>8, <4>1 DEF first
      <4>2. CASE r # 0
        <5>1. timer[n] <= c
          BY <3>8, <4>2 DEF c
        <5>2. Silence(n) \in Nat
          BY SilenceBounds
        <5> QED
          BY <3>2, <3>6, <4>2, <5>1, <5>2
      <4> QED
        BY <4>1, <4>2
    <3>10. Silence(n)' < Timeout => Silence(n) < Timeout
      BY <3>2, <3>3, <3>4, Bounds
    <3>11. Before(n) \in Nat /\ Silence(n) \in Nat
      BY SilenceBounds
    <3> QED
      BY <3>1, <3>2, <3>5, <3>8, <3>9, <3>10, <3>11
  <2> QED
    BY <2>1, <2>2, <2>3, <2>4, <2>5
<1> QED
  BY <1>3, <1>4

LEMMA TrackerStepPunctual ==
  ASSUME TypeOK, AsksOnce, NEW x \in Node, Punctual(x), TrackerStep
  PROVE  Punctual(x)'
<1>1. CASE PollReturns
  BY <1>1, OtherStepPunctual DEF PollReturns, AliveOnItsWay, loop, known, history
<1>2. CASE HandlePdu
  <2> DEFINE m == Head(inbox)
  <2>1. inbox \in Seq(Datagram) /\ inbox # <<>> /\ inbox' = Tail(inbox)
        /\ UNCHANGED <<timer, due, held, reentered>>
    BY <1>2 DEF TypeOK, HandlePdu, Datagram, loop
  <2>2. m \in Datagram /\ m.from \in Node /\ 1 \in DOMAIN inbox /\ m = inbox[1]
    <3>1. m = inbox[1] /\ 1 \in DOMAIN inbox
      BY <2>1, TakenDatagram
    <3> QED
      BY <3>1, InboxTypes
  <2>3. CASE m.type = "NET_GET_NODE" /\ (AnswerEmpty(m.from) \/ AnswerNode(m.from))
    <3>1. UNCHANGED <<nodes, age, heard>>
      BY <2>3 DEF AnswerEmpty, AnswerNode, known
    <3>2. m # Alive(x)
      BY <2>3 DEF Alive
    <3>3. AliveOnItsWay(x)' <=> AliveOnItsWay(x)
      BY <2>1, <3>2, OnItsWayAfterTaking
    <3>4. pc'[m.from] # "loop" /\ \A y \in Node \ {m.from} : pc'[y] = pc[y]
      BY <2>2, <2>3 DEF AnswerEmpty, AnswerNode, TypeOK
    <3> QED
      BY <2>1, <3>1, <3>3, <3>4, OtherStepPunctual, ExemptPunctual
  <2>4. CASE m.type = "NET_ALIVE" /\ HandleAlive(m.from)
    <3>1. m = Alive(m.from)
      BY <2>2, <2>4 DEF Alive, Datagram
    <3>2. /\ pc' = pc /\ heard' = heard \cup {m.from} /\ nodes' = nodes \cup {m.from}
          /\ age' = [age EXCEPT ![m.from] = 0]
      BY <2>4 DEF HandleAlive, Heard
    <3>3. CASE x = m.from
      <4>1. AliveOnItsWay(x)
        BY <2>2, <3>1, <3>3 DEF AliveOnItsWay, Alive
      <4>2. age'[x] = 0 /\ x \in nodes'
        BY <2>2, <3>2, <3>3 DEF TypeOK
      <4>3. Silence(x)' = Silence(x) /\ Before(x)' = Before(x)
        BY <2>1 DEF Silence, Before
      <4>4. Before(x) \in Nat /\ timer[x] \in Nat
        BY SilenceBounds DEF TypeOK
      <4>5. 0 <= Before(x)' + timer'[x]
        BY <2>1, <4>3, <4>4
      <4> QED
        BY <2>1, <3>2, <4>1, <4>2, <4>5 DEF Punctual
    <3>4. CASE x # m.from
      <4>1. m # Alive(x)
        BY <3>1, <3>4 DEF Alive
      <4>2. AliveOnItsWay(x)' <=> AliveOnItsWay(x)
        BY <2>1, <4>1, OnItsWayAfterTaking
      <4> HIDE DEF m
      <4>3. age'[x] = age[x] /\ (x \in heard' <=> x \in heard) /\ (x \in nodes => x \in nodes')
        BY <2>2, <3>2, <3>4 DEF TypeOK
      <4> QED
        BY <2>1, <3>2, <4>2, <4>3, OtherStepPunctual
    <3> QED
      BY <3>3, <3>4
  <2> QED
    BY <1>2, <2>3, <2>4 DEF HandlePdu
(* retain drops only what is a node timeout old. *)
<1>3. CASE Retain
  <2>1. UNCHANGED <<pc, timer, due, inbox, age, heard, held, reentered>>
    BY <1>3 DEF Retain, loop, history
  <2>2. /\ Silence(x)' = Silence(x) /\ Before(x)' = Before(x)
        /\ AliveOnItsWay(x)' <=> AliveOnItsWay(x)
    BY <2>1 DEF Silence, Before, AliveOnItsWay
  <2>3. x \in nodes /\ age[x] < Timeout => x \in nodes'
    BY <1>3, Bounds DEF Retain, Outdated, TypeOK
  <2> SUFFICES ASSUME pc[x] = "loop", x \notin held, x \in heard \/ AliveOnItsWay(x),
                      Silence(x) < Timeout, ~AliveOnItsWay(x)
               PROVE  x \in nodes'
    BY <2>1, <2>2 DEF Punctual
  <2> DEFINE r == reentered[x]
  <2>4. /\ timer[x] <= (IF r = 0 THEN NextAlive[x] ELSE FirstAlive[x]) + Wake[x]
        /\ x \in nodes /\ age[x] <= Before(x) + timer[x]
    BY DEF Punctual
  <2>5. /\ r \in Nat /\ age[x] \in Nat /\ timer[x] \in Nat
        /\ FirstAlive[x] \in Nat /\ Wake[x] \in Nat /\ NextAlive[x] \in Nat /\ Timeout \in Nat
    BY Bounds DEF TypeOK
  <2>6. /\ Silence(x) \in Nat /\ Before(x) \in Nat
        /\ r = 0 => Silence(x) = NextAlive[x] + Wake[x]
        /\ Before(x) = IF r = 0 THEN 0 ELSE Silence(x) - (FirstAlive[x] + Wake[x])
    BY SilenceBounds DEF Before
  <2> HIDE DEF r
  <2>7. age[x] < Timeout
    BY <2>4, <2>5, <2>6
  <2> QED
    BY <2>3, <2>4, <2>7
<1> QED
  BY <1>1, <1>2, <1>3 DEF TrackerStep

(* A second makes what the tracker knows and the timer older alike. *)
LEMMA TickPunctual ==
  ASSUME TypeOK, NEW x \in Node, Punctual(x), Tick
  PROVE  Punctual(x)'
<1>1. /\ UNCHANGED <<pc, due, inbox, nodes, heard, held, reentered>>
      /\ AliveOnItsWay(x)' <=> AliveOnItsWay(x)
  BY DEF Tick, history, AliveOnItsWay
<1>2. Silence(x)' = Silence(x) /\ Before(x)' = Before(x) /\ Before(x) \in Nat
  BY <1>1, SilenceBounds DEF Silence, Before
<1> SUFFICES ASSUME pc[x] = "loop", x \notin held, x \in heard \/ AliveOnItsWay(x)
             PROVE  /\ timer'[x] <= due[x] + Wake[x]
                    /\ x \in nodes /\ age[x] <= Before(x) + timer[x] =>
                         age'[x] <= Before(x) + timer'[x]
  BY <1>1, <1>2 DEF Punctual
<1>3. /\ timer[x] \in 0 .. TimerMax(x) /\ age[x] \in 0 .. AgeMax
      /\ due[x] \in {0, FirstAlive[x], NextAlive[x]}
  BY DEF TypeOK
<1>4. timer[x] < due[x] + Wake[x]
  BY DEF Tick, OnTime
<1>5. timer[x] < TimerMax(x)
  BY <1>3, <1>4, TrackerAssumption DEF TimerMax
<1>6. timer'[x] = timer[x] + 1
  BY <1>5 DEF Tick, Capped
<1>7. x \in nodes => age'[x] = Capped(age[x], AgeMax)
  BY DEF Tick
<1>8. x \in nodes => age'[x] \in Nat /\ age'[x] <= age[x] + 1
  BY <1>3, <1>7, Bounds, CappedRange
<1> QED
  BY <1>2, <1>3, <1>4, <1>6, <1>8, TrackerAssumption
-----------------------------------------------------------------------------
LEMMA SilenceInvariant == Spec => []SilenceInv
<1>1. Init => SilenceInv
  BY DEF Init, SilenceInv, AsksOnce, Punctual, AliveOnItsWay
<1>2. TypeOK /\ SilenceInv /\ [Next]_vars => SilenceInv'
  <2> SUFFICES ASSUME TypeOK, SilenceInv, [Next]_vars PROVE SilenceInv'
    OBVIOUS
  <2> USE DEF SilenceInv
  <2>1. AsksOnce'
    BY AsksStep
  <2>2. ASSUME NEW x \in Node PROVE Punctual(x)'
    <3>1. CASE UNCHANGED vars
      BY <3>1, OtherStepPunctual DEF vars, AliveOnItsWay, loop, known, history
    <3> QED
      BY <3>1, NodeStepPunctual, TrackerStepPunctual, TickPunctual DEF Next
  <2> QED
    BY <2>1, <2>2
<1> QED
  BY <1>1, <1>2, TypeCorrect, PTL DEF Spec

(* The tracker never forgets a node that is in its loop and has sent its   *)
(* NET_ALIVEs, unless handlers blocked it or called q6_state so often that *)
(* its silence could last a node timeout (q6_state, retain).               *)
THEOREM ServingIsKnown == Spec => []DroppedOnlyIfSilent
<1>1. TypeOK /\ SilenceInv => DroppedOnlyIfSilent
  <2> SUFFICES ASSUME TypeOK, SilenceInv, NEW n \in heard, pc[n] = "loop", ~MayBeSilent(n)
               PROVE  n \in nodes \/ AliveOnItsWay(n)
    BY DEF DroppedOnlyIfSilent
  <2>1. n \in Node /\ Punctual(n)
    BY DEF TypeOK, SilenceInv
  <2>2. n \notin held /\ Silence(n) < Timeout
    BY <2>1, SilenceBounds, Bounds DEF MayBeSilent
  <2> QED
    BY <2>1, <2>2 DEF Punctual
<1> QED
  BY <1>1, TypeCorrect, SilenceInvariant, PTL

(* A second network is founded next to a first only when the tracker has   *)
(* not heard of any of its nodes, or none of them for long.                *)
THEOREM NoSecondFounder == Spec => FoundsAlone
<1>1. TypeOK /\ SilenceInv /\ [Next]_vars =>
        [\A n \in Node : pc[n] = "asking" /\ pc'[n] = "first" =>
           \A m \in Node : pc[m] \in {"loop", "blocked"} =>
             m \notin heard \/ MayBeSilent(m) \/ AliveOnItsWay(m)]_vars
  <2> SUFFICES ASSUME TypeOK, SilenceInv, Next, NEW n \in Node, pc[n] = "asking", pc'[n] = "first",
                      NEW m \in Node, pc[m] \in {"loop", "blocked"}
               PROVE  m \notin heard \/ MayBeSilent(m) \/ AliveOnItsWay(m)
    OBVIOUS
  <2>1. HandlePdu
    <3>1. ASSUME NEW i \in Node,
                 \/ GetNode(i) \/ EnterLoop(i) \/ Reenter(i) \/ SendAlive(i)
                 \/ Block(i) \/ Unblock(i) \/ Exit(i)
          PROVE  FALSE
      BY <3>1 DEF TypeOK, GetNode, EnterLoop, Reenter, SendAlive, Block, Unblock, Exit
    <3>2. CASE PollReturns \/ Retain \/ Tick
      BY <3>2 DEF PollReturns, Retain, Tick
    <3> QED
      BY <3>1, <3>2 DEF Next, TrackerStep
  <2>2. nodes = {}
    <3>1. Head(inbox).from \in Node
      BY <2>1, TakenDatagram DEF HandlePdu, TypeOK, Datagram
    <3> QED
      BY <2>1, <3>1 DEF HandlePdu, HandleAlive, AnswerEmpty, AnswerNode, TypeOK
  <2>3. Punctual(m) /\ AsksOnce
    BY DEF SilenceInv
  <2>4. Silence(m) >= Timeout \/ Silence(m) < Timeout
    BY SilenceBounds, Bounds
  <2> QED
    BY <2>2, <2>3, <2>4 DEF Punctual, AsksOnce, MayBeSilent
<1> QED
  BY <1>1, TypeCorrect, SilenceInvariant, PTL DEF Spec, FoundsAlone
=============================================================================
