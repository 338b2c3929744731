------------------------------- MODULE Tracker -------------------------------
(***************************************************************************)
(* The tracker (tracker.rs) and what nodes do with it: ask for a node of   *)
(* the network when they start (q3_state), and send NET_ALIVE while they   *)
(* are in the poll loop (q6_state; send_alive of the Rust node).           *)
(*                                                                         *)
(* Time is counted in the seconds of time(NULL).  The tracker measures     *)
(* with a clock of its own, whose seconds begin elsewhere: what it finds   *)
(* to be Timeout seconds old is Timeout or Timeout + 1 of ours.            *)
(***************************************************************************)
EXTENDS Integers, Sequences, FiniteSets

CONSTANTS
  Node,         \* the processes that may be started, each with its own address
  FirstAlive,   \* FirstAlive[n]: seconds in the loop before n's first NET_ALIVE
  NextAlive,    \* NextAlive[n]: seconds between two of them
  Wake,         \* Wake[n]: the timeout of n's poll
  Timeout,      \* the tracker's node timeout, 30
  PollMax,      \* the timeout of the tracker's poll, 5
  MaxReenter    \* bound on the nested calls of q6_state between two NET_ALIVEs

ASSUME TrackerAssumption ==
  /\ FirstAlive \in [Node -> Nat] /\ NextAlive \in [Node -> Nat] /\ Wake \in [Node -> Nat]
  /\ Timeout \in Nat /\ PollMax \in Nat \ {0} /\ MaxReenter \in Nat

VARIABLES
  pc,         \* where each process is
  timer,      \* current_time - last_time in the poll loop
  due,        \* timeout in the poll loop
  inbox,      \* datagrams on their way to the tracker
  nodes,      \* the tracker's nodes
  age,        \* last_alive.elapsed() of a node the tracker has heard of
  tracker,    \* "poll" or "handle"
  idle,       \* seconds the tracker has been in poll
  heard,      \* history: the nodes whose NET_ALIVE has reached the tracker
  held,       \* history: the nodes that were blocked since their last NET_ALIVE
  reentered   \* history: the calls of q6_state since the last NET_ALIVE

loop == <<timer, due>>
known == <<nodes, age>>
history == <<heard, held, reentered>>
vars == <<pc, loop, inbox, known, tracker, idle, history>>

Capped(i, max) == IF i < max THEN i + 1 ELSE max
TimerMax(n) == FirstAlive[n] + NextAlive[n] + Wake[n]
AgeMax == Timeout + PollMax + 2
-----------------------------------------------------------------------------
(* Nodes. *)

(* q3_state *)
GetNode(n) ==
  /\ pc[n] = "off"
  /\ pc' = [pc EXCEPT ![n] = "asking"]
  /\ inbox' = Append(inbox, [type |-> "NET_GET_NODE", from |-> n])
  /\ UNCHANGED <<loop, known, tracker, idle, history>>

(* q6_state is called: by q4_state, or at the end of a join. *)
EnterLoop(n) ==
  /\ pc[n] \in {"first", "joining"}
  /\ pc' = [pc EXCEPT ![n] = "loop"]
  /\ timer' = [timer EXCEPT ![n] = 0]
  /\ due' = [due EXCEPT ![n] = FirstAlive[n]]
  /\ UNCHANGED <<inbox, known, tracker, idle, history>>

(* A handler calls q6_state, which starts its timer afresh; the Rust node  *)
(* keeps last_alive and has FirstAlive = 0.                                *)
Reenter(n) ==
  /\ pc[n] = "loop" /\ FirstAlive[n] > 0 /\ reentered[n] < MaxReenter
  /\ timer' = [timer EXCEPT ![n] = 0]
  /\ due' = [due EXCEPT ![n] = FirstAlive[n]]
  /\ reentered' = [reentered EXCEPT ![n] = @ + 1]
  /\ UNCHANGED <<pc, inbox, known, tracker, idle, heard, held>>

SendAlive(n) ==
  /\ pc[n] = "loop" /\ timer[n] >= due[n]
  /\ timer' = [timer EXCEPT ![n] = 0]
  /\ due' = [due EXCEPT ![n] = NextAlive[n]]
  /\ inbox' = Append(inbox, [type |-> "NET_ALIVE", from |-> n])
  /\ held' = held \ {n}
  /\ reentered' = [reentered EXCEPT ![n] = 0]
  /\ UNCHANGED <<pc, known, tracker, idle, heard>>

(* accept and recv in q5, q11 and q17. *)
Block(n) ==
  /\ pc[n] = "loop"
  /\ pc' = [pc EXCEPT ![n] = "blocked"]
  /\ held' = held \cup {n}
  /\ UNCHANGED <<loop, inbox, known, tracker, idle, heard, reentered>>

Unblock(n) ==
  /\ pc[n] = "blocked"
  /\ pc' = [pc EXCEPT ![n] = "loop"]
  /\ UNCHANGED <<loop, inbox, known, tracker, idle, history>>

(* A process ends; nothing tells the tracker. *)
Exit(n) ==
  /\ pc[n] \in {"joining", "loop", "blocked"}
  /\ pc' = [pc EXCEPT ![n] = "gone"]
  /\ UNCHANGED <<loop, inbox, known, tracker, idle, history>>
-----------------------------------------------------------------------------
(* The tracker: poll, the datagrams that have arrived, retain. *)

PollDueNever == FALSE   \* mutant: polls without a timeout
PollDue == idle >= PollMax

PollReturns ==
  /\ tracker = "poll" /\ (inbox # <<>> \/ PollDue)
  /\ tracker' = "handle" /\ idle' = 0
  /\ UNCHANGED <<pc, loop, inbox, known, history>>

(* last_alive of a node is set with every NET_ALIVE. *)
HeardFirst(n) ==    \* mutant: with the first one only
  IF n \in nodes THEN age ELSE [age EXCEPT ![n] = 0]
Heard(n) == [age EXCEPT ![n] = 0]

HandleAlive(n) ==
  /\ nodes' = nodes \cup {n}
  /\ age' = Heard(n)
  /\ heard' = heard \cup {n}
  /\ UNCHANGED pc

AnswerEmpty(n) ==
  /\ nodes = {}
  /\ pc' = [pc EXCEPT ![n] = "first"]
  /\ UNCHANGED <<known, heard>>

(* Which node is named does not matter here. *)
AnswerNode(n) ==
  /\ nodes # {}
  /\ pc' = [pc EXCEPT ![n] = "joining"]
  /\ UNCHANGED <<known, heard>>

HandlePdu ==
  LET m == Head(inbox)
  IN  /\ tracker = "handle" /\ inbox # <<>>
      /\ inbox' = Tail(inbox)
      /\ \/ m.type = "NET_ALIVE" /\ HandleAlive(m.from)
         \/ m.type = "NET_GET_NODE" /\ (AnswerEmpty(m.from) \/ AnswerNode(m.from))
      /\ UNCHANGED <<loop, tracker, idle, held, reentered>>

(* What retain drops: Timeout seconds of the tracker's clock have passed. *)
OutdatedLate == {S \in SUBSET nodes : \A n \in nodes :   \* mutant
  /\ n \in S => age[n] > Timeout
  /\ age[n] > Timeout + 1 => n \in S}
Outdated == {S \in SUBSET nodes : \A n \in nodes :
  /\ n \in S => age[n] >= Timeout
  /\ age[n] > Timeout => n \in S}

Retain ==
  /\ tracker = "handle"
  /\ \E S \in Outdated : nodes' = nodes \ S
  /\ tracker' = "poll"
  /\ UNCHANGED <<pc, loop, inbox, age, idle, history>>
-----------------------------------------------------------------------------
(* A second passes.  Datagrams take less, handlers take no time, the loop  *)
(* of a node checks its timer at least once per Wake seconds, and the      *)
(* tracker's poll returns after PollMax.                                   *)
OnTime(n) == pc[n] = "loop" => timer[n] < due[n] + Wake[n]

Tick ==
  /\ inbox = <<>> /\ tracker = "poll" /\ ~PollDue
  /\ \A n \in Node : OnTime(n)
  /\ timer' = [n \in Node |-> IF pc[n] \in {"loop", "blocked"} THEN Capped(timer[n], TimerMax(n))
                              ELSE timer[n]]
  /\ age' = [n \in Node |-> IF n \in nodes THEN Capped(age[n], AgeMax) ELSE age[n]]
  /\ idle' = Capped(idle, PollMax + 1)
  /\ UNCHANGED <<pc, due, inbox, nodes, tracker, history>>

Init ==
  /\ pc = [n \in Node |-> "off"]
  /\ timer = [n \in Node |-> 0] /\ due = [n \in Node |-> 0]
  /\ inbox = <<>>
  /\ nodes = {} /\ age = [n \in Node |-> 0]
  /\ tracker = "poll" /\ idle = 0
  /\ heard = {} /\ held = {} /\ reentered = [n \in Node |-> 0]

TrackerStep == PollReturns \/ HandlePdu \/ Retain

Next ==
  \/ \E n \in Node : \/ GetNode(n) \/ EnterLoop(n) \/ Reenter(n) \/ SendAlive(n)
                     \/ Block(n) \/ Unblock(n) \/ Exit(n)
  \/ TrackerStep
  \/ Tick

(* Time passes, the loop of a node checks its timer every time round,      *)
(* however often handlers block it in between, and the tracker's thread    *)
(* runs.  HandlePdu is listed because Retain may come first.               *)
Fairness ==
  /\ SF_vars(Tick)
  /\ \A n \in Node : SF_vars(SendAlive(n))
  /\ WF_vars(TrackerStep) /\ SF_vars(HandlePdu)

Spec == Init /\ [][Next]_vars
FairSpec == Spec /\ Fairness
-----------------------------------------------------------------------------
TypeOK ==
  /\ pc \in [Node -> {"off", "asking", "first", "joining", "loop", "blocked", "gone"}]
  /\ timer \in [Node -> Nat] /\ due \in [Node -> Nat]
  /\ \A n \in Node : timer[n] \in 0 .. TimerMax(n) /\ due[n] \in {0, FirstAlive[n], NextAlive[n]}
  /\ inbox \in Seq([type : {"NET_GET_NODE", "NET_ALIVE"}, from : Node])
  /\ nodes \subseteq Node /\ age \in [Node -> 0 .. AgeMax]
  /\ tracker \in {"poll", "handle"} /\ idle \in 0 .. PollMax
  /\ heard \subseteq Node /\ held \subseteq Node
  /\ reentered \in [Node -> 0 .. MaxReenter]

(* A node the tracker may name was alive at most Timeout seconds and one   *)
(* poll ago (retain).                                                      *)
NamedIsRecent == \A n \in nodes : age[n] <= Timeout + PollMax

AliveOnItsWay(n) == \E i \in DOMAIN inbox : inbox[i] = [type |-> "NET_ALIVE", from |-> n]

(* The longest n can be silent without being blocked: every nested call of *)
(* q6_state puts off the next NET_ALIVE by up to FirstAlive + Wake.        *)
Silence(n) == NextAlive[n] + Wake[n] + reentered[n] * (FirstAlive[n] + Wake[n])
MayBeSilent(n) == n \in held \/ Silence(n) >= Timeout

(* A node that has been heard of and is in its loop stays known, unless a  *)
(* handler blocked it or it called q6_state anew too often since then.     *)
DroppedOnlyIfSilent ==
  \A n \in heard :
    pc[n] = "loop" /\ ~MayBeSilent(n) => n \in nodes \/ AliveOnItsWay(n)

(* A starting node founds a network of its own next to nodes that serve    *)
(* one only while none of them has been heard of, or none for long.        *)
FoundsAlone ==
  [][\A n \in Node : pc[n] = "asking" /\ pc'[n] = "first" =>
       \A m \in Node : pc[m] \in {"loop", "blocked"} =>
         m \notin heard \/ MayBeSilent(m) \/ AliveOnItsWay(m)]_vars

(* A node that ended without a word is forgotten for good, although a      *)
(* NET_ALIVE of its may arrive after its end (retain).                     *)
GoneIsForgotten == \A n \in Node : pc[n] = "gone" ~> [](n \notin nodes)
=============================================================================
