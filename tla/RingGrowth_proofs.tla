--------------------------- MODULE RingGrowth_proofs ---------------------------
(***************************************************************************)
(* The ring while nodes only join, for every set of nodes, all requests    *)
(* and any number of joins at once: no process ends, no send fails, every  *)
(* node watches the sockets it has, the ring implements HashRing and is    *)
(* closed whenever it is at rest.                                          *)
(***************************************************************************)
EXTENDS RingValues_proofs

-----------------------------------------------------------------------------
(* Streams: a node sends nothing down to its predecessor, and nothing up    *)
(* after the NET_CLOSE_CONNECTION with which it closes the connection.      *)

Plain(s) == \A i \in DOMAIN s : s[i] # Close
CloseLast(s) == \A i \in DOMAIN s : s[i] = Close => i = Len(s)

LEMMA PlainCloseLast ==
  ASSUME NEW s, Plain(s)
  PROVE  CloseLast(s)
BY DEF Plain, CloseLast

LEMMA PartPlain ==
  ASSUME NEW s \in Seq(Pdu), NEW i \in 0 .. Len(s)
  PROVE  LET prefix == SubSeq(s, 1, i)
             suffix == SubSeq(s, i + 1, Len(s))
         IN  /\ Plain(s) => Plain(prefix) /\ Plain(suffix)
             /\ CloseLast(s) => /\ CloseLast(prefix) /\ CloseLast(suffix)
                                /\ ~Plain(prefix) => i = Len(s)
<1> DEFINE prefix == SubSeq(s, 1, i)
           suffix == SubSeq(s, i + 1, Len(s))
<1>1. Len(s) \in Nat /\ i \in Nat /\ i <= Len(s)
  OBVIOUS
<1>2. /\ prefix \in Seq(Pdu) /\ Len(prefix) = i
      /\ \A j \in 1 .. i : prefix[j] = s[j]
  BY <1>1
<1>3. /\ suffix \in Seq(Pdu) /\ Len(suffix) = Len(s) - i
      /\ \A j \in 1 .. Len(s) - i : suffix[j] = s[i + j]
  BY <1>1
<1>4. DOMAIN prefix = 1 .. i /\ DOMAIN suffix = 1 .. Len(s) - i /\ DOMAIN s = 1 .. Len(s)
  BY <1>1, <1>2, <1>3
<1> HIDE DEF prefix, suffix
<1>5. \A j \in 1 .. i : j \in 1 .. Len(s)
  BY <1>1
<1>6. \A j \in 1 .. Len(s) - i : i + j \in 1 .. Len(s) /\ (i + j = Len(s) => j = Len(s) - i)
  BY <1>1
<1>7. Plain(s) => Plain(prefix) /\ Plain(suffix)
  BY <1>2, <1>3, <1>4, <1>5, <1>6 DEF Plain
<1>8. ASSUME CloseLast(s), NEW j \in 1 .. i, prefix[j] = Close PROVE j = Len(s)
  BY <1>2, <1>4, <1>5, <1>8 DEF CloseLast
<1>9. CloseLast(s) => CloseLast(prefix) /\ (~Plain(prefix) => i = Len(s))
  <2>1. \A j \in 1 .. i : j = Len(s) => i = Len(s) /\ j = i
    BY <1>1
  <2> QED
    BY <1>2, <1>4, <1>8, <2>1 DEF CloseLast, Plain
<1>10. CloseLast(s) => CloseLast(suffix)
  BY <1>3, <1>4, <1>6 DEF CloseLast
<1> QED
  BY <1>7, <1>9, <1>10 DEF prefix, suffix

LEMMA TailPlain ==
  ASSUME NEW s \in Seq(Pdu), s # <<>>
  PROVE  /\ Plain(s) => Plain(Tail(s)) /\ Head(s) # Close
         /\ CloseLast(s) => CloseLast(Tail(s)) /\ (Head(s) = Close => Tail(s) = <<>>)
<1>1. Len(s) \in Nat /\ 1 \in DOMAIN s /\ Head(s) = s[1] /\ DOMAIN s = 1 .. Len(s)
  OBVIOUS
<1>2. Tail(s) \in Seq(Pdu) /\ Len(Tail(s)) = Len(s) - 1 /\ DOMAIN Tail(s) = 1 .. Len(s) - 1
  OBVIOUS
<1>3. \A j \in 1 .. Len(s) - 1 : Tail(s)[j] = s[j + 1] /\ j + 1 \in 1 .. Len(s)
  OBVIOUS
<1>4. \A j \in 1 .. Len(s) - 1 : j + 1 = Len(s) => j = Len(s) - 1
  <2>1. \A l \in Nat : \A j \in 1 .. l - 1 : j + 1 = l => j = l - 1
    OBVIOUS
  <2> QED
    BY <1>1, <2>1
<1>5. Plain(s) => Plain(Tail(s)) /\ Head(s) # Close
  BY <1>1, <1>2, <1>3 DEF Plain
<1>6. CloseLast(s) => CloseLast(Tail(s))
  BY <1>1, <1>2, <1>3, <1>4 DEF CloseLast
<1>7. CloseLast(s) /\ Head(s) = Close => Len(Tail(s)) = 0
  BY <1>1, <1>2 DEF CloseLast
<1>8. Len(Tail(s)) = 0 => Tail(s) = <<>>
  <2>1. \A t \in Seq(Pdu) : Len(t) = 0 => t = <<>>
    OBVIOUS
  <2> QED
    BY <1>2, <2>1
<1> QED
  BY <1>5, <1>6, <1>7, <1>8

LEMMA ConcatPlain ==
  ASSUME NEW s \in Seq(Pdu), NEW t \in Seq(Pdu), Plain(s)
  PROVE  /\ Plain(t) => Plain(s \o t)
         /\ CloseLast(t) => CloseLast(s \o t)
<1>1. Len(s) \in Nat /\ Len(t) \in Nat /\ DOMAIN s = 1 .. Len(s) /\ DOMAIN t = 1 .. Len(t)
  OBVIOUS
<1>2. DOMAIN (s \o t) = 1 .. Len(s) + Len(t) /\ Len(s \o t) = Len(s) + Len(t)
  OBVIOUS
<1>3. \A i \in 1 .. Len(s) + Len(t) :
        (s \o t)[i] = IF i <= Len(s) THEN s[i] ELSE t[i - Len(s)]
  OBVIOUS
<1> DEFINE st == s \o t
<1> HIDE DEF st
<1>4. \A i \in 1 .. Len(s) + Len(t) : i > Len(s) => i - Len(s) \in 1 .. Len(t)
  BY <1>1
<1>5. \A i \in 1 .. Len(s) + Len(t) : i <= Len(s) => i \in 1 .. Len(s)
  BY <1>1
<1>6. \A i \in 1 .. Len(s) + Len(t) : i - Len(s) = Len(t) => i = Len(s) + Len(t)
  BY <1>1
<1>7. Plain(t) => Plain(st)
  <2> SUFFICES ASSUME Plain(t), NEW i \in 1 .. Len(s) + Len(t) PROVE st[i] # Close
    BY <1>2 DEF Plain, st
  <2>1. CASE i <= Len(s)
    BY <1>1, <1>3, <1>5, <2>1 DEF Plain, st
  <2>2. CASE i > Len(s)
    BY <1>1, <1>3, <1>4, <2>2 DEF Plain, st
  <2> QED
    BY <1>1, <2>1, <2>2
<1>8. CloseLast(t) => CloseLast(st)
  <2> SUFFICES ASSUME CloseLast(t), NEW i \in 1 .. Len(s) + Len(t), st[i] = Close
               PROVE  i = Len(s) + Len(t)
    BY <1>2 DEF CloseLast, st
  <2>1. CASE i <= Len(s)
    BY <1>1, <1>3, <1>5, <2>1 DEF Plain, st
  <2>2. CASE i > Len(s)
    BY <1>1, <1>3, <1>4, <1>6, <2>2 DEF CloseLast, st
  <2> QED
    BY <1>1, <2>1, <2>2
<1> QED
  BY <1>7, <1>8 DEF st

LEMMA SingletonPlain ==
  ASSUME NEW m
  PROVE  m # Close => Plain(<<m>>)
BY DEF Plain

LEMMA TransferPlain ==
  ASSUME NEW s
  PROVE  Plain(Inserts(s))
BY DEF Plain, Inserts, Insert, Close

(* What the over-read of q7_state leaves. *)
LEMMA OverReadPlain ==
  ASSUME NEW s \in Seq(Pdu), NEW rest \in AfterOverRead(s)
  PROVE  /\ Plain(s) => Plain(rest)
         /\ CloseLast(s) => CloseLast(rest)
<1>1. rest = s \/ (s # <<>> /\ (rest = Tail(s) \/ rest = <<Garbage>> \o Tail(s)))
  BY DEF AfterOverRead
<1>2. s # <<>> => /\ Plain(s) => Plain(Tail(s))
                  /\ CloseLast(s) => CloseLast(Tail(s))
                  /\ Tail(s) \in Seq(Pdu)
  BY TailPlain
<1>3. <<Garbage>> \in Seq(Pdu) /\ Plain(<<Garbage>>)
  <2>1. Garbage \in Pdu /\ Garbage # Close
    BY PduConstructors DEF Garbage, Close
  <2> QED
    BY <2>1, SingletonPlain
<1> QED
  BY <1>1, <1>2, <1>3, ConcatPlain
-----------------------------------------------------------------------------
(* The invariant. *)

(* The PDUs under way while nobody leaves; a response names a node.         *)
Growing == {m \in Calm : m.type = "NET_JOIN_RESPONSE" => m.next # None}

Stream(r) ==
  /\ r.down = <<>> /\ (r.cli => r.srv)
  /\ CloseLast(r.up) /\ (r.cli => Plain(r.up))
Streams(cs) == \A c \in Conn : Stream(cs[c])

Whole(s) == (s.conn = NoConn => s = NoSock) /\ (s.conn # NoConn => s.fd # NoFd)

(* A node in the ring has a connection to its successor; a node waits in    *)
(* accept for a new predecessor only when the old one is gone and all it    *)
(* sent has been handled.                                                   *)
Sockets(n) ==
  /\ Whole(sockfd_b[n]) /\ Whole(sockfd_d[n])
  /\ sockfd_b[n].fd = sockfd_d[n].fd => sockfd_b[n].fd = NoFd
  /\ ~Serving(n) => sockfd_b[n] = NoSock
  /\ Serving(n) /\ successor[n] # None => sockfd_b[n].conn # NoConn
  /\ pc[n] \in {"q7_accept", "q5_accept", "q17_accept"} => sockfd_d[n] = NoSock /\ queue[n] = <<>>

(* Once a node has read its predecessor's NET_CLOSE_CONNECTION there is     *)
(* nothing more to read from it.                                            *)
Dropping(n) ==
  /\ CloseLast(queue[n])
  /\ ~Plain(queue[n]) =>
       LET c == sockfd_d[n].conn IN c = NoConn \/ (~conn[c].cli /\ conn[c].up = <<>>)

(* The loop of a node in the ring polls both descriptors, or the one to the *)
(* successor while there is no other.                                       *)
Watching(n) ==
  Serving(n) /\ successor[n] # None /\ pc[n] # "q5_accept" =>
    \/ polled[n] = Fd
    \/ pc[n] = "q6" /\ sockfd_d[n] = NoSock /\ sockfd_b[n].fd \in polled[n]

GrowInv ==
  /\ AllIn(Growing, queue, udp, conn) /\ Streams(conn)
  /\ \A n \in Node : /\ pc[n] # "exited" /\ Close \notin udp[n]
                     /\ Sockets(n) /\ Dropping(n) /\ Watching(n)

JoinsOnly == TypeOK /\ JoinInv /\ RangeInv /\ GrowInv

LEMMA WatchingIsPolled ==
  ASSUME JoinsOnly
  PROVE  SocketsPolled
<1> SUFFICES ASSUME NEW n \in Node, pc[n] = "q6"
             PROVE  Fds(sockfd_b[n], sockfd_d[n]) \subseteq polled[n]
  BY DEF SocketsPolled
<1>1. Serving(n)
  BY DEF Serving
<1>2. CASE successor[n] = None
  BY <1>1, <1>2 DEF JoinsOnly, RangeInv, FirstWithWaiting, First, Fds, NoSock
<1>3. CASE successor[n] # None
  <2>1. Fds(sockfd_b[n], sockfd_d[n]) \subseteq Fd
    BY DEF Fds, JoinsOnly, TypeOK, Sock
  <2>2. polled[n] = Fd \/ (sockfd_d[n] = NoSock /\ sockfd_b[n].fd \in polled[n])
    BY <1>1, <1>3 DEF JoinsOnly, GrowInv, Watching
  <2> QED
    BY <2>1, <2>2 DEF Fds, NoSock
<1> QED
  BY <1>2, <1>3

(* What a node in the ring finds at its end of the connection to its        *)
(* successor: it is open at both ends and brings nothing.                   *)
LEMMA SuccessorSocket ==
  ASSUME JoinsOnly, NEW n \in Node, Serving(n), successor[n] # None
  PROVE  LET b == sockfd_b[n]
         IN  /\ b.fd # NoFd /\ b.conn \in Conn /\ b.conn # NoConn
             /\ conn[b.conn].cli /\ conn[b.conn].srv
             /\ ~PeerClosed(conn, "B", b) /\ Inbound(conn, "B", b) = <<>>
             /\ SendOutcomes(conn, "B", b) = {"ok"}
<1> DEFINE b == sockfd_b[n]
<1>1. b \in Sock /\ b.conn # NoConn /\ b.fd # NoFd
  BY DEF JoinsOnly, GrowInv, Sockets, Whole, TypeOK
<1>2. b.conn \in Conn
  BY <1>1 DEF Sock
<1>3. conn[b.conn].cli
  BY <1>1 DEF JoinsOnly, JoinInv, Links, ClientEnds
<1>4. conn[b.conn].srv /\ conn[b.conn].down = <<>>
  BY <1>2, <1>3 DEF JoinsOnly, GrowInv, Streams, Stream
<1> HIDE DEF b
<1>5. ~PeerClosed(conn, "B", b) /\ Inbound(conn, "B", b) = <<>>
  BY <1>1, <1>4 DEF PeerClosed, Inbound
<1>6. SendOutcomes(conn, "B", b) = {"ok"}
  BY <1>1, <1>5 DEF SendOutcomes
<1> QED
  BY <1>1, <1>2, <1>3, <1>4, <1>5, <1>6 DEF b

(* What is handled, and who handles it. *)
LEMMA Handled ==
  ASSUME JoinsOnly, NEW n \in Node, NEW kind \in {"udp", "tcp"}, NEW m, NextPdu(n, kind, m)
  PROVE  /\ m \in Growing /\ m \in Named /\ m \in Pdu
         /\ Serving(n) /\ pc[n] = After(kind) /\ pc[n] \in {"q6", "drain"}
         /\ Alone(n) <=> successor[n] = None
         /\ m = Close => kind = "tcp" /\ Tail(queue[n]) = <<>>
                         /\ successor[n] # None /\ polled[n] = Fd
<1>1. m \in Growing /\ m \in Named
  BY TakenIn DEF JoinsOnly, GrowInv, JoinInv
<1>2. Serving(n) /\ pc[n] = After(kind) /\ pc[n] \in {"q6", "drain"}
  BY DEF NextPdu, Serving, After
<1>3. Alone(n) <=> successor[n] = None
  BY <1>2 DEF Alone, First, JoinsOnly, RangeInv, FirstWithWaiting
<1>4. ASSUME m = Close
      PROVE  kind = "tcp" /\ Tail(queue[n]) = <<>> /\ successor[n] # None /\ polled[n] = Fd
  <2>1. kind = "tcp" /\ queue[n] # <<>> /\ Head(queue[n]) = Close /\ pc[n] = "drain"
    BY <1>4 DEF NextPdu, JoinsOnly, GrowInv
  <2>2. successor[n] # None
    BY <1>2, <2>1 DEF JoinsOnly, RangeInv, FirstWithWaiting, First
  <2>3. queue[n] \in Seq(Pdu) /\ CloseLast(queue[n])
    BY DEF JoinsOnly, TypeOK, GrowInv, Dropping
  <2>4. Tail(queue[n]) = <<>>
    BY <2>1, <2>3, TailPlain
  <2>5. polled[n] = Fd
    BY <1>2, <2>1, <2>2 DEF JoinsOnly, GrowInv, Watching
  <2> QED
    BY <2>1, <2>2, <2>4, <2>5
<1>5. m \in Pdu
  BY <1>1 DEF Named
<1> QED
  BY <1>1, <1>2, <1>3, <1>4, <1>5
-----------------------------------------------------------------------------
(* What a step does to the streams. *)

(* A connection whose sender has closed it stays as it is until it is read. *)
Spares(cs, d) == \A c \in Conn : ~conn[c].cli /\ conn[c].srv /\ c # d => cs[c] = conn[c]

LEMMA SpareAll ==
  ASSUME NEW d
  PROVE  Spares(conn, d)
BY DEF Spares

LEMMA FlowSent ==
  ASSUME JoinsOnly, NEW n \in Node, Serving(n), successor[n] # None,
         NEW pdus \in Seq(Pdu), Plain(pdus)
  PROVE  LET cs == Sent(conn, "B", sockfd_b[n], pdus)
         IN  cs \in Conns /\ Streams(cs) /\ Spares(cs, NoConn)
<1> DEFINE b == sockfd_b[n]
           cs == Sent(conn, "B", b, pdus)
           up == conn[b.conn].up \o pdus
<1>1. /\ b.conn \in Conn /\ b.conn # NoConn /\ ~PeerClosed(conn, "B", b)
      /\ conn[b.conn].cli /\ conn[b.conn].srv
  BY SuccessorSocket
<1>2. conn \in Conns /\ Streams(conn) /\ b \in Sock
  BY DEF JoinsOnly, TypeOK, GrowInv, Conns
<1>3. cs \in Conns
  BY <1>2, ConnTypes
<1>4. conn[b.conn] \in ConnRecord /\ conn[b.conn].up \in Seq(Pdu) /\ Stream(conn[b.conn])
  BY <1>1, <1>2 DEF Conns, ConnRecord, Streams
<1> HIDE DEF b
<1>5. /\ \A c \in Conn \ {b.conn} : cs[c] = conn[c]
      /\ cs[b.conn] = [conn[b.conn] EXCEPT !.up = up]
  BY <1>1, <1>2 DEF Sent, Conns
<1>6. Plain(up)
  BY <1>1, <1>4, ConcatPlain DEF Stream
<1> HIDE DEF cs, up
<1>7. Stream(cs[b.conn])
  BY <1>1, <1>4, <1>5, <1>6, PlainCloseLast DEF Stream, ConnRecord
<1>8. Streams(cs) /\ Spares(cs, NoConn)
  BY <1>1, <1>2, <1>5, <1>7 DEF Streams, Spares
<1> QED
  BY <1>3, <1>8 DEF b, cs

LEMMA ClosedClient ==
  ASSUME NEW r \in ConnRecord, r.srv
  PROVE  LET new == Closed(r, TRUE, FALSE)
         IN  ~new.cli /\ new.srv /\ new.up = r.up /\ new.down = <<>>
<1>1. r.srv = TRUE
  BY DEF ConnRecord
<1> QED
  BY <1>1 DEF Closed

(* q13_state's NET_CLOSE_CONNECTION and close.                              *)
LEMMA FlowClose ==
  ASSUME JoinsOnly, NEW n \in Node, Serving(n), successor[n] # None
  PROVE  LET cs == Shut(Sent(conn, "B", sockfd_b[n], <<Close>>), "B", sockfd_b[n])
         IN  cs \in Conns /\ Streams(cs) /\ Spares(cs, NoConn)
<1> DEFINE b == sockfd_b[n]
           sent == Sent(conn, "B", b, <<Close>>)
           cs == Shut(sent, "B", b)
           up == conn[b.conn].up \o <<Close>>
<1>1. /\ b.conn \in Conn /\ b.conn # NoConn /\ ~PeerClosed(conn, "B", b)
      /\ conn[b.conn].cli /\ conn[b.conn].srv
  BY SuccessorSocket
<1>2. conn \in Conns /\ Streams(conn) /\ b \in Sock /\ <<Close>> \in Seq(Pdu)
  BY PduConstructors DEF JoinsOnly, TypeOK, GrowInv, Conns, Close
<1>3. sent \in Conns
  BY <1>2, ConnTypes
<1>4. cs \in Conns
  BY <1>2, <1>3, ConnTypes
<1>5. conn[b.conn] \in ConnRecord /\ conn[b.conn].up \in Seq(Pdu) /\ Stream(conn[b.conn])
  BY <1>1, <1>2 DEF Conns, ConnRecord, Streams
<1> HIDE DEF b
<1>6. /\ \A c \in Conn \ {b.conn} : sent[c] = conn[c]
      /\ sent[b.conn] = [conn[b.conn] EXCEPT !.up = up]
  BY <1>1, <1>2 DEF Sent, Conns
<1>7. CloseLast(up)
  <2>1. CloseLast(<<Close>>)
    BY DEF CloseLast
  <2> QED
    BY <1>1, <1>2, <1>5, <2>1, ConcatPlain DEF Stream
<1> HIDE DEF sent, up
<1>8. /\ \A c \in Conn \ {b.conn} : cs[c] = conn[c]
      /\ cs[b.conn] = Closed(sent[b.conn], TRUE, FALSE)
  BY <1>1, <1>3, <1>6 DEF Shut, Conns
<1>9. /\ sent[b.conn].cli /\ sent[b.conn].srv /\ sent[b.conn].up = up /\ sent[b.conn].down = <<>>
  BY <1>1, <1>5, <1>6 DEF ConnRecord, Stream
<1>10. Stream(cs[b.conn])
  <2>1. sent[b.conn] \in ConnRecord
    BY <1>1, <1>3 DEF Conns
  <2>2. cs[b.conn].down = <<>> /\ ~cs[b.conn].cli /\ cs[b.conn].up = up
    BY <1>8, <1>9, <2>1, ClosedClient
  <2> QED
    BY <1>7, <2>2 DEF Stream
<1> HIDE DEF cs
<1>11. Streams(cs) /\ Spares(cs, NoConn)
  BY <1>1, <1>2, <1>8, <1>10 DEF Streams, Spares
<1> QED
  BY <1>4, <1>11 DEF b, cs, sent

LEMMA FlowConnect ==
  ASSUME JoinsOnly, NEW n \in Node, NEW to \in Node, NEW cs \in Conns, NEW d,
         Streams(cs), Spares(cs, d), NEW pdus \in Seq(Pdu), Plain(pdus), Connect(n, to, cs, pdus)
  PROVE  /\ Streams(conn') /\ Spares(conn', d)
         /\ \A x \in Node \ {n} : sockfd_b'[x] = sockfd_b[x]
         /\ Whole(sockfd_b[n])' /\ sockfd_b'[n].conn # NoConn
         /\ sockfd_b'[n].fd = LowestFd(sockfd_d[n])
<1>1. PICK c \in Conn :
        /\ IsFree(cs, c)
        /\ conn' = [cs EXCEPT ![c] = [cli |-> TRUE, srv |-> TRUE, up |-> pdus,
                                      down |-> <<>>, rst |-> FALSE]]
        /\ sockfd_b' = [sockfd_b EXCEPT ![n] = [fd |-> LowestFd(sockfd_d[n]), conn |-> c]]
  BY DEF Connect
<1>2. /\ \A x \in Conn \ {c} : conn'[x] = cs[x]
      /\ conn'[c] = [cli |-> TRUE, srv |-> TRUE, up |-> pdus, down |-> <<>>, rst |-> FALSE]
  BY <1>1 DEF Conns
<1>3. Stream(conn'[c])
  BY <1>2, PlainCloseLast DEF Stream
<1>4. Streams(conn')
  BY <1>2, <1>3 DEF Streams
<1>5. Spares(conn', d)
  BY <1>1, <1>2 DEF Spares, IsFree
<1>6. /\ \A x \in Node \ {n} : sockfd_b'[x] = sockfd_b[x]
      /\ sockfd_b'[n] = [fd |-> LowestFd(sockfd_d[n]), conn |-> c]
  BY <1>1 DEF JoinsOnly, TypeOK
<1>7. c # NoConn /\ LowestFd(sockfd_d[n]) # NoFd
  BY DEF Conn, NoConn, LowestFd, NoFd
<1> QED
  BY <1>4, <1>5, <1>6, <1>7 DEF Whole

(* Reading from the predecessor, ... *)
LEMMA FlowRead ==
  ASSUME JoinsOnly, NEW n \in Node, sockfd_d[n].conn # NoConn, NEW data \in Seq(Pdu),
         LET up == conn[sockfd_d[n].conn].up
         IN  (Plain(up) => Plain(data)) /\ (CloseLast(up) => CloseLast(data))
  PROVE  LET cs == SetInbound(conn, "D", sockfd_d[n], data)
         IN  /\ cs \in Conns /\ Streams(cs) /\ Spares(cs, sockfd_d[n].conn)
             /\ cs[sockfd_d[n].conn] = [conn[sockfd_d[n].conn] EXCEPT !.up = data]
<1> DEFINE d == sockfd_d[n]
           cs == SetInbound(conn, "D", d, data)
<1>1. d.conn \in Conn /\ d \in Sock /\ conn \in Conns /\ Streams(conn)
  BY DEF JoinsOnly, TypeOK, GrowInv, Conns, Sock
<1>2. cs \in Conns
  BY <1>1, ConnTypes
<1>3. conn[d.conn] \in ConnRecord /\ Stream(conn[d.conn])
  BY <1>1 DEF Conns, Streams
<1> HIDE DEF d
<1>4. /\ \A c \in Conn \ {d.conn} : cs[c] = conn[c]
      /\ cs[d.conn] = [conn[d.conn] EXCEPT !.up = data]
  BY <1>1 DEF SetInbound, Conns
<1>5. Stream(cs[d.conn])
  <2>1. (Plain(conn[d.conn].up) => Plain(data)) /\ (CloseLast(conn[d.conn].up) => CloseLast(data))
    BY DEF d
  <2> QED
    BY <1>3, <1>4, <2>1 DEF Stream, ConnRecord
<1> HIDE DEF cs
<1>6. Streams(cs) /\ Spares(cs, d.conn)
  BY <1>1, <1>4, <1>5 DEF Streams, Spares
<1> QED
  BY <1>2, <1>4, <1>6 DEF d, cs

(* ... and closing the connection that it has closed.                       *)
LEMMA FlowDrop ==
  ASSUME JoinsOnly, NEW n \in Node, NEW d \in Sock, NEW cs \in Conns, Streams(cs), Spares(cs, d.conn),
         d.conn # NoConn => ~cs[d.conn].cli
  PROVE  LET new == Shut(cs, "D", d)
         IN  Streams(new) /\ Spares(new, d.conn)
<1> DEFINE new == Shut(cs, "D", d)
<1>1. CASE d.conn = NoConn
  BY <1>1 DEF Shut
<1>2. CASE d.conn # NoConn
  <2>1. d.conn \in Conn /\ cs[d.conn] \in ConnRecord /\ ~cs[d.conn].cli
    BY <1>2 DEF Sock, Conns
  <2>2. /\ \A c \in Conn \ {d.conn} : new[c] = cs[c]
        /\ new[d.conn] = Closed(cs[d.conn], FALSE, TRUE)
    BY <1>2, <2>1 DEF Shut, Conns
  <2>3. new[d.conn] = FreeConn
    BY <2>1, <2>2 DEF Closed
  <2>4. Stream(FreeConn)
    BY DEF Stream, FreeConn, Plain, CloseLast
  <2> HIDE DEF new
  <2>5. Streams(new) /\ Spares(new, d.conn)
    BY <2>1, <2>2, <2>3, <2>4 DEF Streams, Spares
  <2> QED
    BY <2>5 DEF new
<1> QED
  BY <1>1, <1>2
-----------------------------------------------------------------------------
(* One node's step. *)

OthersKeep(n) ==
  \A x \in Node \ {n} :
    /\ pc'[x] = pc[x] /\ successor'[x] = successor[x] /\ polled'[x] = polled[x]
    /\ sockfd_b'[x] = sockfd_b[x] /\ sockfd_d'[x] = sockfd_d[x] /\ queue'[x] = queue[x]

LEMMA GrowStep ==
  ASSUME JoinsOnly, NEW n \in Node, OthersKeep(n), NEW d \in {NoConn, sockfd_d[n].conn},
         AllIn(Growing, queue', udp', conn'), Streams(conn'), Spares(conn', d),
         \A x \in Node : Close \notin udp'[x],
         pc'[n] # "exited", Sockets(n)', Dropping(n)', Watching(n)'
  PROVE  GrowInv'
<1> SUFFICES ASSUME NEW x \in Node
             PROVE  pc'[x] # "exited" /\ Sockets(x)' /\ Dropping(x)' /\ Watching(x)'
  BY DEF GrowInv
<1>1. CASE x = n
  BY <1>1
<1>2. CASE x # n
  <2>1. pc[x] # "exited" /\ Sockets(x) /\ Dropping(x) /\ Watching(x)
    BY DEF JoinsOnly, GrowInv
  <2>2. /\ pc'[x] = pc[x] /\ successor'[x] = successor[x] /\ polled'[x] = polled[x]
        /\ sockfd_b'[x] = sockfd_b[x] /\ sockfd_d'[x] = sockfd_d[x] /\ queue'[x] = queue[x]
    BY <1>2 DEF OthersKeep
  <2>3. Sockets(x)'
    BY <2>1, <2>2 DEF Sockets, Serving
  <2>4. Watching(x)'
    BY <2>1, <2>2 DEF Watching, Serving
  <2> DEFINE c == sockfd_d[x].conn
  <2>5. c # NoConn => conn[c].srv /\ c # d /\ c \in Conn
    <3>1. c \in Conn \cup {NoConn}
      BY DEF JoinsOnly, TypeOK, Sock
    <3>2. c # NoConn => c \in Incoming(x)
      BY <3>1 DEF Incoming
    <3>3. c # NoConn /\ c = sockfd_d[n].conn => c \in Incoming(n)
      BY <3>1 DEF Incoming
    <3> QED
      BY <1>2, <3>1, <3>2, <3>3 DEF JoinsOnly, JoinInv, Links, ServerEnds
  <2>6. c # NoConn /\ ~conn[c].cli => conn'[c] = conn[c]
    BY <2>5 DEF Spares
  <2>7. Dropping(x)'
    BY <2>1, <2>2, <2>6 DEF Dropping
  <2> QED
    BY <2>1, <2>2, <2>3, <2>4, <2>7
<1> QED
  BY <1>1, <1>2

(* n keeps its sockets and handles the next PDU, or none.                   *)
LEMMA KeptOwn ==
  ASSUME JoinsOnly, NEW n \in Node, pc[n] \in {"q6", "drain"}, pc'[n] \in {"q6", "drain"},
         successor'[n] = successor[n], sockfd_b'[n] = sockfd_b[n], sockfd_d'[n] = sockfd_d[n],
         queue'[n] = queue[n] \/ (queue[n] # <<>> /\ queue'[n] = Tail(queue[n])),
         Spares(conn', NoConn),
         \/ polled'[n] = polled[n] /\ pc'[n] \in {pc[n], "q6"}
         \/ polled'[n] = Fds(sockfd_b[n], sockfd_d[n]) /\ pc'[n] = "q6"
  PROVE  Sockets(n)' /\ Dropping(n)' /\ Watching(n)'
<1>1. Sockets(n) /\ Dropping(n) /\ Watching(n)
  BY DEF JoinsOnly, GrowInv
<1>2. Serving(n) /\ Serving(n)'
  BY DEF Serving
<1>3. Sockets(n)'
  BY <1>1, <1>2 DEF Sockets
<1>4. Dropping(n)'
  <2>1. queue[n] \in Seq(Pdu)
    BY DEF JoinsOnly, TypeOK
  <2>2. CloseLast(queue'[n]) /\ (Plain(queue[n]) => Plain(queue'[n]))
    BY <1>1, <2>1, TailPlain DEF Dropping
  <2> DEFINE c == sockfd_d[n].conn
  <2>3. c # NoConn => c \in Conn /\ conn[c].srv
    <3>1. c \in Conn \cup {NoConn}
      BY DEF JoinsOnly, TypeOK, Sock
    <3>2. c # NoConn => c \in Incoming(n)
      BY <3>1 DEF Incoming
    <3> QED
      BY <3>1, <3>2 DEF JoinsOnly, JoinInv, Links, ServerEnds
  <2>4. c # NoConn /\ ~conn[c].cli => conn'[c] = conn[c]
    BY <2>3 DEF Spares
  <2> QED
    BY <1>1, <2>2, <2>4 DEF Dropping
<1>5. Watching(n)'
  <2>1. SUFFICES ASSUME successor[n] # None
                 PROVE  \/ polled'[n] = Fd
                        \/ pc'[n] = "q6" /\ sockfd_d[n] = NoSock /\ sockfd_b[n].fd \in polled'[n]
    BY DEF Watching
  <2>2. polled[n] = Fd \/ (pc[n] = "q6" /\ sockfd_d[n] = NoSock /\ sockfd_b[n].fd \in polled[n])
    BY <1>1, <1>2, <2>1 DEF Watching
  <2>3. /\ sockfd_b[n] \in Sock /\ sockfd_d[n] \in Sock /\ sockfd_b[n].fd # NoFd
        /\ Whole(sockfd_d[n]) /\ (sockfd_b[n].fd = sockfd_d[n].fd => sockfd_b[n].fd = NoFd)
    BY <1>1, <1>2, <2>1, SuccessorSocket DEF JoinsOnly, TypeOK, Sockets
  <2>4. Fds(sockfd_b[n], sockfd_d[n]) = Fd \/ sockfd_d[n] = NoSock
    BY <2>3 DEF Fds, Fd, Whole, Sock, NoFd
  <2>5. sockfd_b[n].fd \in Fds(sockfd_b[n], sockfd_d[n])
    BY <2>3 DEF Fds
  <2> QED
    BY <2>2, <2>4, <2>5
<1> QED
  BY <1>3, <1>4, <1>5

(* Taking a PDU. *)
LEMMA TakenGrow ==
  ASSUME JoinsOnly, NEW n \in Node, NEW kind \in {"udp", "tcp"}, NEW m,
         NextPdu(n, kind, m), Taken(n, kind, m)
  PROVE  /\ \A x \in Node \ {n} : queue'[x] = queue[x]
         /\ \A x \in Node : Close \notin udp'[x]
         /\ queue'[n] = queue[n] \/ (queue[n] # <<>> /\ queue'[n] = Tail(queue[n]))
         /\ kind = "tcp" => queue'[n] = Tail(queue[n])
         /\ kind = "udp" => queue'[n] = queue[n]
<1>1. \A x \in Node : Close \notin udp[x]
  BY DEF JoinsOnly, GrowInv
<1>2. queue \in [Node -> Seq(Pdu)] /\ udp \in [Node -> SUBSET Pdu]
  BY DEF JoinsOnly, TypeOK
<1>3. CASE kind = "udp"
  BY <1>1, <1>2, <1>3 DEF Taken
<1>4. CASE kind = "tcp"
  BY <1>1, <1>2, <1>4 DEF Taken, NextPdu
<1> QED
  BY <1>3, <1>4

LEMMA GrowingAdmits ==
  ASSUME JoinsOnly
  PROVE  Admits(Growing)
<1>1. Admits(Calm)
  BY CalmAdmits DEF JoinsOnly
<1>2. {Garbage, Close, NewRangeResponse} \cup ValPdu \subseteq Growing
  BY <1>1, ValFields DEF Admits, Growing, Garbage, Close, NewRangeResponse, ValPdu
<1>3. ASSUME NEW n \in Node, NEW e \in Node, StartJoin(n, e) PROVE JoinPdu(n, None, 0) \in Growing
  BY <1>1, <1>3 DEF Admits, Growing, JoinPdu
<1>4. \A n \in Node : ~Q11(n) /\ ~Q18(n)
  BY DEF Q11, Q18, JoinsOnly, RangeInv, NobodyLeaves
<1>5. ASSUME NEW n \in Node, NEW kind \in {"udp", "tcp"}, NEW m \in Pdu
      PROVE  /\ Q5(n, kind, m) => JoinResponse(n, UpperStart(start[n], end[n]), end[n]) \in Growing
             /\ Q13(n, kind, m) => JoinResponse(successor[n], UpperStart(start[n], end[n]), end[n]) \in Growing
             /\ Q14(n, kind, m) => WithWidest(n, m) \in Growing
  <2>1. Q5(n, kind, m) => JoinResponse(n, UpperStart(start[n], end[n]), end[n]) \in Growing
    <3>1. JoinResponse(n, UpperStart(start[n], end[n]), end[n]).next # None
      BY RingAssumption DEF JoinResponse
    <3> QED
      BY <1>1, <3>1 DEF Admits, Growing
  <2>2. Q13(n, kind, m) => JoinResponse(successor[n], UpperStart(start[n], end[n]), end[n]) \in Growing
    <3>1. ASSUME Q13(n, kind, m)
          PROVE  JoinResponse(successor[n], UpperStart(start[n], end[n]), end[n]).next # None
      <4>1. NextPdu(n, kind, m) /\ ~Alone(n)
        BY <3>1 DEF Q13
      <4>2. successor[n] # None
        BY <4>1, Handled
      <4> QED
        BY <4>2 DEF JoinResponse
    <3> QED
      BY <1>1, <3>1 DEF Admits, Growing
  <2>3. ASSUME Q14(n, kind, m) PROVE WithWidest(n, m) \in Growing
    <3>1. m.type = "NET_JOIN"
      BY <2>3 DEF Q14
    <3>2. WithWidest(n, m).type = "NET_JOIN"
      BY <3>1, JoinFields DEF WithWidest
    <3> QED
      BY <1>1, <2>3, <3>2 DEF Admits, Growing
  <2> QED
    BY <2>1, <2>2, <2>3
<1> QED
  BY <1>2, <1>3, <1>4, <1>5 DEF Admits
-----------------------------------------------------------------------------
(* The handlers. *)

(* No handler's send fails for good, and none finds a prospect gone.        *)
LEMMA NeverHandled ==
  ASSUME JoinsOnly, NEW n \in Node, NEW kind \in {"udp", "tcp"}, NEW m
  PROVE  ~ \/ Q5Refused(n, kind, m) \/ Q13Refused(n, kind, m) \/ SendKilled(n, kind, m)
           \/ Q15(n, kind, m) \/ Q16(n, kind, m) \/ Q16Alone(n, kind, m) \/ Q16Refused(n, kind, m)
<1>1. ~Q5Refused(n, kind, m)
  BY Q5NeverRefused DEF JoinsOnly
<1>2. ASSUME Q13Refused(n, kind, m) PROVE FALSE
  <2>1. NextPdu(n, kind, m) /\ m.type = "NET_JOIN" /\ ~Listening(m.src)
    BY <1>2 DEF Q13Refused
  <2>2. m \in Named /\ m \in Pdu
    BY <2>1, Handled
  <2>3. m.src \in Node /\ pc[m.src] # "off"
    BY <2>1, <2>2, JoinFields DEF Named
  <2>4. pc[m.src] # "exited"
    BY <2>3 DEF JoinsOnly, GrowInv
  <2> QED
    BY <2>1, <2>3, <2>4 DEF Listening
<1>3. ASSUME NextPdu(n, kind, m) PROVE m.type \notin {"NET_NEW_RANGE", "NET_LEAVING"}
  BY <1>3, Handled DEF Growing, Calm
<1>4. ASSUME SendKilled(n, kind, m) PROVE FALSE
  <2>1. NextPdu(n, kind, m) /\ "kill" \in SendOutcomes(conn, "B", sockfd_b[n])
    BY <1>3, <1>4 DEF SendKilled
  <2>2. Serving(n)
    BY <2>1, Handled
  <2>3. CASE successor[n] # None
    BY <2>1, <2>2, <2>3, SuccessorSocket
  <2>4. CASE successor[n] = None
    <3>1. sockfd_b[n] = NoSock
      BY <2>2, <2>4 DEF JoinsOnly, RangeInv, FirstWithWaiting, First
    <3> QED
      BY <2>1, <3>1 DEF SendOutcomes, NoSock
  <2> QED
    BY <2>3, <2>4
<1> QED
  BY <1>1, <1>2, <1>3, <1>4 DEF Q15, Q16, Q16Alone, Q16Refused

(* The handlers that leave the sockets alone.                               *)
LEMMA LocalGrow ==
  ASSUME JoinsOnly, AllIn(Growing, queue', udp', conn'),
         NEW n \in Node, NEW kind \in {"udp", "tcp"}, NEW m,
         \/ Q14(n, kind, m) \/ Q9Serve(n, kind, m) \/ Q9Forward(n, kind, m)
         \/ SendFailed(n, kind, m) \/ Ignore(n, kind, m)
  PROVE  GrowInv'
<1>1. NextPdu(n, kind, m) /\ Taken(n, kind, m) /\ UNCHANGED <<successor, sockfd_b, sockfd_d>>
  BY DEF Q14, Q9Serve, Q9Forward, SendFailed, Ignore, ring, socks
<1>2. Serving(n) /\ pc[n] \in {"q6", "drain"} /\ pc[n] = After(kind) /\ m \in Pdu
      /\ (Alone(n) <=> successor[n] = None)
  BY <1>1, Handled
<1>3. /\ \A x \in Node \ {n} : queue'[x] = queue[x]
      /\ \A x \in Node : Close \notin udp'[x]
      /\ queue'[n] = queue[n] \/ (queue[n] # <<>> /\ queue'[n] = Tail(queue[n]))
  BY <1>1, TakenGrow
<1>4. /\ \A x \in Node \ {n} : pc'[x] = pc[x] /\ polled'[x] = polled[x]
      /\ \/ polled'[n] = polled[n] /\ pc'[n] = pc[n]
         \/ polled'[n] = Fds(sockfd_b[n], sockfd_d[n]) /\ pc'[n] = "q6"
  <2>1. pc \in [Node -> Control] /\ polled \in [Node -> SUBSET Fd]
    BY DEF JoinsOnly, TypeOK
  <2>2. CASE Q14(n, kind, m)
    BY <2>1, <2>2 DEF Q14, Nested, Goto
  <2>3. CASE ~Q14(n, kind, m)
    <3>1. Return(n, kind)
      BY <2>3 DEF Q9Serve, Q9Forward, SendFailed, Ignore
    <3> QED
      BY <1>2, <2>1, <3>1 DEF Return, Goto
  <2> QED
    BY <2>2, <2>3
<1>5. Streams(conn') /\ Spares(conn', NoConn)
  <2>1. CASE conn' = conn
    BY <2>1, SpareAll DEF JoinsOnly, GrowInv
  <2>2. CASE Q14(n, kind, m)
    <3> DEFINE sent == <<WithWidest(n, m)>>
    <3>1. m.type = "NET_JOIN" /\ successor[n] # None
      BY <1>2, <2>2 DEF Q14
    <3>2. WithWidest(n, m) \in Pdu /\ WithWidest(n, m) # Close
      <4>1. WithWidest(n, m).type = "NET_JOIN"
        BY <1>2, <3>1, JoinFields DEF WithWidest
      <4> QED
        BY <1>2, <3>1, <4>1, WithWidestType DEF JoinsOnly, Close
    <3>3. sent \in Seq(Pdu) /\ Plain(sent)
      BY <3>2, SingletonPlain
    <3>4. conn' = Sent(conn, "B", sockfd_b[n], sent)
      BY <2>2 DEF Q14
    <3> HIDE DEF sent
    <3> QED
      BY <1>2, <3>1, <3>3, <3>4, FlowSent
  <2>3. CASE Q9Forward(n, kind, m)
    <3>1. /\ m \in ValPdu /\ "ok" \in SendOutcomes(conn, "B", sockfd_b[n])
          /\ conn' = Sent(conn, "B", sockfd_b[n], <<m>>)
      BY <2>3 DEF Q9Forward
    <3>2. successor[n] # None
      <4>1. successor[n] = None => sockfd_b[n] = NoSock
        BY <1>2 DEF JoinsOnly, RangeInv, FirstWithWaiting, First
      <4> QED
        BY <3>1, <4>1 DEF SendOutcomes, NoSock
    <3>3. m # Close /\ <<m>> \in Seq(Pdu)
      BY <1>2, <3>1 DEF ValPdu, Close
    <3>4. Plain(<<m>>)
      BY <3>3, SingletonPlain
    <3> QED
      BY <1>2, <3>1, <3>2, <3>3, <3>4, FlowSent
  <2> QED
    BY <2>1, <2>2, <2>3 DEF Q9Serve, SendFailed, Ignore, net
<1>6. OthersKeep(n)
  BY <1>1, <1>3, <1>4 DEF OthersKeep
<1>7. Sockets(n)' /\ Dropping(n)' /\ Watching(n)'
  BY <1>1, <1>2, <1>3, <1>4, <1>5, KeptOwn
<1> QED
  BY <1>2, <1>3, <1>4, <1>5, <1>6, <1>7, GrowStep

(* The prospect's connection and what it is sent on it.                     *)
LEMMA GrantGrow ==
  ASSUME JoinsOnly, NEW n \in Node, NEW to \in Node, NEW next \in Node \cup {None},
         NEW cs \in Conns, NEW d, Streams(cs), Spares(cs, d), GrantUpperHalf(n, to, next, cs)
  PROVE  /\ Streams(conn') /\ Spares(conn', d)
         /\ \A x \in Node \ {n} : sockfd_b'[x] = sockfd_b[x]
         /\ Whole(sockfd_b[n])' /\ sockfd_b'[n].conn # NoConn
         /\ sockfd_b'[n].fd = LowestFd(sockfd_d[n])
<1>1. PICK s \in SetToSeqs(Upper(n)) : Connect(n, to, cs, GrantPdus(n, next, s))
  BY DEF GrantUpperHalf
<1> DEFINE response == JoinResponse(next, UpperStart(start[n], end[n]), end[n])
<1>2. response \in Pdu /\ response # Close
  <2>1. start[n] \in Hash /\ end[n] \in Hash /\ UpperStart(start[n], end[n]) \in Hash
    BY HashArithmetic DEF JoinsOnly, TypeOK
  <2>2. response.type # Close.type
    BY DEF JoinResponse, Close
  <2> QED
    BY <2>1, <2>2, PduConstructors
<1>3. Inserts(s) \in Seq(Pdu) /\ Plain(Inserts(s))
  <2>1. Upper(n) \in SUBSET Key
    BY DEF JoinsOnly, TypeOK, Upper
  <2> QED
    BY <2>1, TransferTypes, TransferPlain
<1> HIDE DEF response
<1>4. <<response>> \in Seq(Pdu) /\ Plain(<<response>>)
  BY <1>2, SingletonPlain
<1> DEFINE pdus == <<response>> \o Inserts(s)
<1>5. pdus \in Seq(Pdu) /\ Plain(pdus)
  <2>1. pdus \in Seq(Pdu)
    BY <1>3, <1>4
  <2>2. Plain(pdus)
    BY <1>3, <1>4, ConcatPlain
  <2> QED
    BY <2>1, <2>2
<1>6. Connect(n, to, cs, pdus)
  BY <1>1 DEF GrantPdus, response
<1> HIDE DEF pdus
<1> QED
  BY <1>5, <1>6, FlowConnect

LEMMA LowestFdFree ==
  ASSUME NEW s \in Sock
  PROVE  LowestFd(s) \in Fd /\ LowestFd(s) # s.fd /\ LowestFd(s) # NoFd
         /\ \A b \in Sock : b.fd = LowestFd(s) /\ s.fd # NoFd => Fds(b, s) = Fd
BY DEF LowestFd, Fd, NoFd, Sock, Fds

LEMMA Q5Grow ==
  ASSUME JoinsOnly, AllIn(Growing, queue', udp', conn'),
         NEW n \in Node, NEW kind \in {"udp", "tcp"}, NEW m, Q5(n, kind, m)
  PROVE  GrowInv'
<1>1. NextPdu(n, kind, m) /\ Taken(n, kind, m) /\ m.type = "NET_JOIN" /\ Alone(n)
      /\ GrantUpperHalf(n, m.src, n, conn) /\ UNCHANGED <<sockfd_d, polled>>
  BY DEF Q5
<1>2. m \in Pdu /\ Serving(n) /\ successor[n] = None
  BY <1>1, Handled
<1>3. m.src \in Node /\ conn \in Conns /\ Streams(conn) /\ Spares(conn, NoConn)
  BY <1>1, <1>2, JoinFields, SpareAll DEF JoinsOnly, TypeOK, Conns, GrowInv
<1>4. /\ Streams(conn') /\ Spares(conn', NoConn)
      /\ \A x \in Node \ {n} : sockfd_b'[x] = sockfd_b[x]
      /\ Whole(sockfd_b[n])' /\ sockfd_b'[n].conn # NoConn
      /\ sockfd_b'[n].fd = LowestFd(sockfd_d[n])
  BY <1>1, <1>3, GrantGrow
<1>5. sockfd_d[n] = NoSock /\ queue[n] = <<>>
  BY <1>2 DEF JoinsOnly, RangeInv, FirstWithWaiting, First
<1>6. /\ \A x \in Node \ {n} : pc'[x] = pc[x] /\ successor'[x] = successor[x]
      /\ pc'[n] = "q5_accept"
  BY DEF Q5, Goto, JoinsOnly, TypeOK
<1>7. queue'[n] = <<>> /\ (\A x \in Node \ {n} : queue'[x] = queue[x])
      /\ \A x \in Node : Close \notin udp'[x]
  BY <1>1, <1>5, TakenGrow
<1>8. OthersKeep(n)
  BY <1>1, <1>4, <1>6, <1>7 DEF OthersKeep
<1>9. Sockets(n)'
  <2>1. sockfd_d'[n] = NoSock /\ Whole(sockfd_d[n])' /\ Serving(n)'
    <3>1. sockfd_d'[n] = NoSock /\ Serving(n)'
      BY <1>1, <1>5, <1>6 DEF Serving
    <3> QED
      BY <3>1 DEF Whole, NoSock, NoConn
  <2>2. sockfd_b'[n].fd # sockfd_d'[n].fd
    BY <1>1, <1>4, LowestFdFree DEF JoinsOnly, TypeOK
  <2> QED
    BY <1>4, <1>7, <2>1, <2>2 DEF Sockets
<1>10. Dropping(n)' /\ Watching(n)'
  BY <1>6, <1>7 DEF Dropping, CloseLast, Plain, Watching
<1> QED
  BY <1>4, <1>6, <1>7, <1>8, <1>9, <1>10, GrowStep

LEMMA Q13Grow ==
  ASSUME JoinsOnly, AllIn(Growing, queue', udp', conn'),
         NEW n \in Node, NEW kind \in {"udp", "tcp"}, NEW m, Q13(n, kind, m)
  PROVE  GrowInv'
<1> DEFINE cs == Shut(Sent(conn, "B", sockfd_b[n], <<Close>>), "B", sockfd_b[n])
<1>1. NextPdu(n, kind, m) /\ Taken(n, kind, m) /\ m.type = "NET_JOIN" /\ ~Alone(n)
      /\ GrantUpperHalf(n, m.src, successor[n], cs) /\ UNCHANGED sockfd_d
  BY DEF Q13
<1>2. m \in Pdu /\ Serving(n) /\ successor[n] # None
  BY <1>1, Handled
<1>3. m.src \in Node /\ cs \in Conns /\ Streams(cs) /\ Spares(cs, NoConn)
      /\ successor[n] \in Node \cup {None}
  BY <1>1, <1>2, JoinFields, FlowClose DEF JoinsOnly, TypeOK
<1> HIDE DEF cs
<1>4. /\ Streams(conn') /\ Spares(conn', NoConn)
      /\ \A x \in Node \ {n} : sockfd_b'[x] = sockfd_b[x]
      /\ Whole(sockfd_b[n])' /\ sockfd_b'[n].conn # NoConn
      /\ sockfd_b'[n].fd = LowestFd(sockfd_d[n])
  BY <1>1, <1>3, GrantGrow
<1>5. /\ \A x \in Node \ {n} : pc'[x] = pc[x] /\ successor'[x] = successor[x]
                               /\ polled'[x] = polled[x]
      /\ pc'[n] = "q6" /\ polled'[n] = Fds(sockfd_b'[n], sockfd_d[n])
  BY DEF Q13, Nested, Goto, JoinsOnly, TypeOK
<1>6. /\ queue'[n] = queue[n] \/ (queue[n] # <<>> /\ queue'[n] = Tail(queue[n]))
      /\ \A x \in Node \ {n} : queue'[x] = queue[x]
      /\ \A x \in Node : Close \notin udp'[x]
  BY <1>1, TakenGrow
<1>7. OthersKeep(n)
  BY <1>1, <1>4, <1>5, <1>6 DEF OthersKeep
<1>8. Sockets(n) /\ Dropping(n) /\ queue[n] \in Seq(Pdu) /\ sockfd_d[n] \in Sock
  BY DEF JoinsOnly, GrowInv, TypeOK
<1>9. sockfd_b'[n].fd # sockfd_d[n].fd /\ sockfd_b'[n].fd # NoFd
  BY <1>4, <1>8, LowestFdFree
<1>10. Sockets(n)'
  BY <1>1, <1>4, <1>5, <1>8, <1>9 DEF Sockets, Serving
<1>11. Dropping(n)'
  <2>1. CloseLast(queue'[n]) /\ (Plain(queue[n]) => Plain(queue'[n]))
    BY <1>6, <1>8, TailPlain DEF Dropping
  <2> DEFINE c == sockfd_d[n].conn
  <2>2. c # NoConn => c \in Conn /\ conn[c].srv
    <3>1. c \in Conn \cup {NoConn}
      BY <1>8 DEF Sock
    <3>2. c # NoConn => c \in Incoming(n)
      BY <3>1 DEF Incoming
    <3> QED
      BY <3>1, <3>2 DEF JoinsOnly, JoinInv, Links, ServerEnds
  <2>3. c # NoConn /\ ~conn[c].cli => conn'[c] = conn[c]
    BY <1>4, <2>2 DEF Spares
  <2> QED
    BY <1>1, <1>8, <2>1, <2>3 DEF Dropping
<1>12. Watching(n)'
  <2>1. sockfd_b'[n].fd \in Fds(sockfd_b'[n], sockfd_d[n])
    BY <1>9 DEF Fds
  <2>2. sockfd_d[n] = NoSock \/ sockfd_d[n].fd # NoFd
    BY <1>8 DEF Sockets, Whole
  <2>3. sockfd_d[n].fd # NoFd => Fds(sockfd_b'[n], sockfd_d[n]) = Fd
    BY <1>4, <1>8 DEF LowestFd, Fds, Fd, NoFd, Sock
  <2> QED
    BY <1>1, <1>5, <2>1, <2>2, <2>3 DEF Watching
<1> QED
  BY <1>4, <1>5, <1>6, <1>7, <1>10, <1>11, <1>12, GrowStep
LEMMA Q17Grow ==
  ASSUME JoinsOnly, AllIn(Growing, queue', udp', conn'),
         NEW n \in Node, NEW kind \in {"udp", "tcp"}, NEW m, Q17(n, kind, m)
  PROVE  GrowInv'
<1>1. NextPdu(n, kind, m) /\ Taken(n, kind, m) /\ m.type = "NET_CLOSE_CONNECTION"
      /\ conn' = Shut(conn, "D", sockfd_d[n]) /\ UNCHANGED <<successor, sockfd_b>>
  BY DEF Q17
<1>2. m \in Pdu /\ Serving(n)
  BY <1>1, Handled
<1>3. m = Close
  BY <1>1, <1>2 DEF Pdu, ValPdu, NewRangeResponse, Close, Garbage
<1>4. kind = "tcp" /\ Tail(queue[n]) = <<>> /\ successor[n] # None /\ polled[n] = Fd
  BY <1>1, <1>3, Handled
<1>5. /\ \A x \in Node \ {n} : queue'[x] = queue[x]
      /\ \A x \in Node : Close \notin udp'[x]
      /\ queue'[n] = <<>>
  BY <1>1, <1>4, TakenGrow
<1>6. sockfd_d'[n] = NoSock /\ (\A x \in Node \ {n} : sockfd_d'[x] = sockfd_d[x])
  BY DEF Q17, JoinsOnly, TypeOK
<1>7. /\ \A x \in Node \ {n} : pc'[x] = pc[x] /\ polled'[x] = polled[x]
      /\ \/ pc'[n] = "q6" /\ polled'[n] = Fds(sockfd_b[n], NoSock)
         \/ pc'[n] = "q17_accept" /\ polled'[n] = polled[n]
  BY DEF Q17, Nested, Goto, JoinsOnly, TypeOK
<1>8. Streams(conn') /\ Spares(conn', sockfd_d[n].conn)
  <2>1. sockfd_d[n] \in Sock /\ conn \in Conns /\ Streams(conn) /\ queue[n] \in Seq(Pdu) /\ Dropping(n)
    BY DEF JoinsOnly, TypeOK, Conns, GrowInv
  <2>2. ~Plain(queue[n])
    <3>1. queue[n] # <<>> /\ Head(queue[n]) = Close
      BY <1>1, <1>3, <1>4 DEF NextPdu
    <3> QED
      BY <2>1, <3>1, TailPlain
  <2>3. sockfd_d[n].conn # NoConn => ~conn[sockfd_d[n].conn].cli
    BY <2>1, <2>2 DEF Dropping
  <2> QED
    BY <1>1, <2>1, <2>3, SpareAll, FlowDrop
<1>9. OthersKeep(n)
  BY <1>1, <1>5, <1>6, <1>7 DEF OthersKeep
<1>10. Sockets(n)'
  <2>1. Serving(n)' /\ Sockets(n)
    BY <1>7 DEF Serving, JoinsOnly, GrowInv
  <2>2. sockfd_b'[n].fd # NoFd
    BY <1>1, <1>2, <1>4, SuccessorSocket
  <2>3. Whole(sockfd_d[n])' /\ sockfd_d'[n].fd = NoFd
    BY <1>6 DEF Whole, NoSock, NoConn
  <2> QED
    BY <1>1, <1>5, <1>6, <1>7, <2>1, <2>2, <2>3 DEF Sockets
<1>11. Dropping(n)'
  BY <1>5 DEF Dropping, CloseLast, Plain
<1>12. Watching(n)'
  <2>1. sockfd_b[n].fd \in Fds(sockfd_b[n], NoSock)
    BY <1>2, <1>4, SuccessorSocket DEF Fds
  <2> QED
    BY <1>1, <1>4, <1>6, <1>7, <2>1 DEF Watching
<1> QED
  BY <1>5, <1>7, <1>8, <1>9, <1>10, <1>11, <1>12, GrowStep

LEMMA HandlePduGrow ==
  ASSUME JoinsOnly, AllIn(Growing, queue', udp', conn'), NEW n \in Node, HandlePdu(n)
  PROVE  GrowInv'
BY NeverHandled, LocalGrow, Q5Grow, Q13Grow, Q17Grow DEF HandlePdu
-----------------------------------------------------------------------------
(* The other steps of a node. *)

(* accept, in q5, q7 and q17: it has handled all that the old predecessor   *)
(* sent, and the new socket's descriptor is not the successor's.            *)
LEMMA AcceptGrow ==
  ASSUME JoinsOnly, AllIn(Growing, queue', udp', conn'), NEW n \in Node,
         JoinAccept(n) \/ Q5Accept(n) \/ Q17Accept(n)
  PROVE  GrowInv'
<1> DEFINE b == sockfd_b[n]
<1>1. /\ pc[n] \in {"q7_accept", "q5_accept", "q17_accept"} /\ backlog[n] # <<>>
      /\ UNCHANGED <<successor, sockfd_b, queue, udp, conn>>
      /\ \A x \in Node \ {n} : sockfd_d'[x] = sockfd_d[x] /\ pc'[x] = pc[x] /\ polled'[x] = polled[x]
  BY DEF JoinAccept, Q5Accept, Q17Accept, Goto, JoinsOnly, TypeOK, inbox
<1>2. Head(backlog[n]) \in Conn /\ b \in Sock
  BY <1>1 DEF JoinsOnly, TypeOK
<1>3. Sockets(n) /\ Watching(n) /\ queue[n] = <<>>
  BY <1>1 DEF JoinsOnly, GrowInv, Sockets
<1>4. pc[n] = "q7_accept" => b = NoSock
  BY <1>3 DEF Sockets, Serving
<1>5. sockfd_d'[n] = [fd |-> LowestFd(b), conn |-> Head(backlog[n])]
  BY <1>4 DEF JoinAccept, Q5Accept, Q17Accept, JoinsOnly, TypeOK
<1>6. sockfd_d'[n].fd \in Fd /\ sockfd_d'[n].fd # b.fd /\ sockfd_d'[n].fd # NoFd
      /\ sockfd_d'[n].conn # NoConn
  BY <1>2, <1>5, LowestFdFree DEF Conn, NoConn
<1>7. pc[n] # "q7_accept" => Serving(n) /\ successor[n] # None
  BY <1>1 DEF Serving, JoinsOnly, RangeInv, FirstWithWaiting, First
<1>8. \/ pc[n] = "q7_accept" /\ pc'[n] = "q7_recv"
      \/ pc[n] # "q7_accept" /\ pc'[n] = "q6" /\ polled'[n] = Fds(b, sockfd_d'[n])
      \/ pc[n] = "q17_accept" /\ pc'[n] = "drain" /\ polled'[n] = polled[n]
  BY DEF JoinAccept, Q5Accept, Q17Accept, Goto, JoinsOnly, TypeOK
<1>9. Sockets(n)'
  <2>1. Whole(sockfd_d[n])'
    BY <1>6 DEF Whole
  <2>2. ~Serving(n)' => b = NoSock
    BY <1>4, <1>8 DEF Serving
  <2>3. Serving(n)' => b.conn # NoConn
    BY <1>3, <1>7, <1>8 DEF Serving, Sockets
  <2>4. pc'[n] \notin {"q7_accept", "q5_accept", "q17_accept"}
    BY <1>8
  <2> QED
    BY <1>1, <1>3, <1>6, <2>1, <2>2, <2>3, <2>4 DEF Sockets
<1>10. Dropping(n)'
  BY <1>1, <1>3 DEF Dropping, CloseLast, Plain
<1>11. Watching(n)'
  <2>1. CASE pc[n] = "q7_accept"
    BY <1>8, <2>1 DEF Watching, Serving
  <2>2. CASE pc[n] # "q7_accept" /\ pc'[n] = "q6" /\ polled'[n] = Fds(b, sockfd_d'[n])
    <3>1. b.fd # NoFd
      BY <1>7, <2>2, SuccessorSocket
    <3>2. Fds(b, sockfd_d'[n]) = Fd
      <4>1. b.fd \in Fd
        BY <1>2, <3>1 DEF Sock
      <4> HIDE DEF b
      <4> QED
        BY <1>6, <3>1, <4>1 DEF Fds, Fd
    <3> QED
      BY <2>2, <3>2 DEF Watching
  <2>3. CASE pc[n] = "q17_accept" /\ polled'[n] = polled[n]
    BY <1>3, <1>7, <2>3 DEF Watching
  <2> QED
    BY <1>8, <2>1, <2>2, <2>3
<1>12. OthersKeep(n)
  BY <1>1 DEF OthersKeep
<1>13. Streams(conn') /\ Spares(conn', NoConn) /\ \A x \in Node : Close \notin udp'[x]
  BY <1>1, SpareAll DEF JoinsOnly, GrowInv
<1> QED
  BY <1>8, <1>9, <1>10, <1>11, <1>12, <1>13, GrowStep

(* q7_state's response names a node that still listens.                     *)
LEMMA JoinRecvGrow ==
  ASSUME JoinsOnly, AllIn(Growing, queue', udp', conn'), NEW n \in Node, JoinRecv(n)
  PROVE  GrowInv'
<1> DEFINE d    == sockfd_d[n]
           data == Inbound(conn, "D", d)
           m    == Head(data)
<1>1. conn \in Conns /\ d \in Sock /\ OnConns(Named, conn) /\ OnConns(Growing, conn) /\ Streams(conn)
  BY DEF JoinsOnly, TypeOK, Conns, JoinInv, GrowInv, AllIn
<1>2. /\ data \in Seq(Named) /\ data \in Seq(Growing) /\ data \in Seq(Pdu)
      /\ data # <<>> /\ m.type = "NET_JOIN_RESPONSE"
      /\ d.conn # NoConn /\ data = conn[d.conn].up
      /\ pc[n] = "q7_recv"
  BY <1>1, InboundIn, ConnTypes DEF JoinRecv, Inbound
<1>3. Reachable(m.next)
  <2>1. m \in Named /\ m \in Growing
    <3> HIDE DEF data
    <3> QED
      BY <1>2
  <2>2. ~Unknown(m.next) /\ m.next # None /\ m \in Pdu
    BY <1>2, <2>1 DEF Named, Growing
  <2>3. m.next \in Node
    BY <1>2, <2>2, JoinResponseFields
  <2>4. pc[m.next] # "off" /\ pc[m.next] # "exited"
    BY <2>2, <2>3 DEF Unknown, JoinsOnly, GrowInv
  <2> QED
    BY <2>2, <2>4 DEF Reachable, Listening
<1>4. PICK rest \in AfterOverRead(Tail(data)) :
        LET cs == SetInbound(conn, "D", d, rest)
        IN  /\ Goto(n, "q6") /\ successor' = [successor EXCEPT ![n] = m.next]
            /\ Connect(n, m.next, cs, <<>>)
            /\ polled' = [polled EXCEPT ![n] = Fds(sockfd_b'[n], d)]
            /\ UNCHANGED <<sockfd_d, inbox>>
  BY <1>3 DEF JoinRecv
<1> DEFINE cs == SetInbound(conn, "D", d, rest)
<1>5. /\ rest \in Seq(Pdu) /\ (Plain(data) => Plain(rest)) /\ (CloseLast(data) => CloseLast(rest))
      /\ m \in Pdu
  <2> HIDE DEF data
  <2>1. Tail(data) \in Seq(Pdu) /\ Head(data) \in Pdu
    BY <1>2
  <2>2. rest \in Seq(Pdu) /\ (Plain(Tail(data)) => Plain(rest))
        /\ (CloseLast(Tail(data)) => CloseLast(rest))
    BY <2>1, OverReadTypes, OverReadPlain
  <2>3. (Plain(data) => Plain(Tail(data))) /\ (CloseLast(data) => CloseLast(Tail(data)))
    BY <1>2, TailPlain
  <2> QED
    BY <2>1, <2>2, <2>3
<1>6. cs \in Conns /\ Streams(cs) /\ Spares(cs, d.conn)
  BY <1>2, <1>5, FlowRead
<1>7. m.next \in Node
  BY <1>2, <1>3, <1>5, JoinResponseFields DEF Reachable
<1> HIDE DEF cs, m
<1>8. <<>> \in Seq(Pdu) /\ Plain(<<>>)
  BY DEF Plain
<1>9. Connect(n, m.next, cs, <<>>)
  BY <1>4 DEF cs
<1>10. /\ Streams(conn') /\ Spares(conn', d.conn)
       /\ \A x \in Node \ {n} : sockfd_b'[x] = sockfd_b[x]
       /\ Whole(sockfd_b[n])' /\ sockfd_b'[n].conn # NoConn
       /\ sockfd_b'[n].fd = LowestFd(d)
  BY <1>6, <1>7, <1>8, <1>9, FlowConnect
<1>11. /\ \A x \in Node \ {n} : pc'[x] = pc[x] /\ successor'[x] = successor[x]
                                /\ polled'[x] = polled[x]
       /\ pc'[n] = "q6" /\ polled'[n] = Fds(sockfd_b'[n], d)
       /\ UNCHANGED <<sockfd_d, queue, udp>>
  BY <1>4 DEF Goto, JoinsOnly, TypeOK, inbox
<1>12. Whole(d) /\ d.fd # NoFd /\ sockfd_b'[n].fd # d.fd /\ Fds(sockfd_b'[n], d) = Fd
  <2>1. Whole(d) /\ d.fd # NoFd
    BY <1>2 DEF JoinsOnly, GrowInv, Sockets, Whole
  <2>2. d.fd \in Fd
    BY <1>1, <2>1 DEF Sock
  <2> HIDE DEF d
  <2> QED
    BY <1>10, <2>1, <2>2 DEF LowestFd, Fds, Fd, NoFd
<1>13. queue[n] = <<>>
  BY <1>2 DEF JoinsOnly, RangeInv, EmptyUntilServing, Serving
<1>14. Sockets(n)'
  BY <1>10, <1>11, <1>12 DEF Sockets, Serving
<1>15. Dropping(n)' /\ Watching(n)'
  BY <1>11, <1>12, <1>13 DEF Dropping, CloseLast, Plain, Watching
<1>16. OthersKeep(n)
  BY <1>10, <1>11 DEF OthersKeep
<1>17. \A x \in Node : Close \notin udp'[x]
  BY <1>11 DEF JoinsOnly, GrowInv
<1> QED
  BY <1>10, <1>11, <1>14, <1>15, <1>16, <1>17, GrowStep

(* The successor sends nothing and does not close: what a node reads comes  *)
(* from its predecessor.                                                    *)
LEMMA ReadsPredecessor ==
  ASSUME JoinsOnly, NEW n \in Node, Read(n)
  PROVE  /\ pc[n] = "q6" /\ Serving(n) /\ successor[n] # None
         /\ sockfd_d[n].conn # NoConn /\ sockfd_d[n].fd \in polled[n]
         /\ \E eof \in BOOLEAN : \E i \in 0 .. Len(conn[sockfd_d[n].conn].up) : ReadSocket(n, "D", i, eof)
<1>1. PICK side \in {"B", "D"}, eof \in BOOLEAN :
        \E i \in 0 .. Len(Inbound(conn, side, SockOf(n, side))) : ReadSocket(n, side, i, eof)
  BY DEF Read
<1>2. pc[n] = "q6" /\ Serving(n) /\ SockOf(n, side).conn # NoConn
      /\ SockOf(n, side).fd \in polled[n]
  BY <1>1 DEF ReadSocket, Serving
<1>3. successor[n] # None
  BY <1>2 DEF JoinsOnly, RangeInv, FirstWithWaiting, First, SockOf, NoSock
<1>4. side = "D"
  <2> SUFFICES ASSUME side = "B" PROVE FALSE
    OBVIOUS
  <2>1. Inbound(conn, "B", sockfd_b[n]) = <<>> /\ ~PeerClosed(conn, "B", sockfd_b[n])
    BY <1>2, <1>3, SuccessorSocket
  <2>2. PICK i \in 0 .. Len(Inbound(conn, "B", sockfd_b[n])) : ReadSocket(n, "B", i, eof)
    BY <1>1 DEF SockOf
  <2>3. i = 0
    BY <2>1, <2>2
  <2> QED
    BY <2>1, <2>2, <2>3 DEF ReadSocket, SockOf
<1> QED
  BY <1>1, <1>2, <1>3, <1>4 DEF SockOf, Inbound

(* What the predecessor sent is read to its end before its                  *)
(* NET_CLOSE_CONNECTION is handled.                                         *)
LEMMA ReadGrow ==
  ASSUME JoinsOnly, AllIn(Growing, queue', udp', conn'), NEW n \in Node, Read(n)
  PROVE  GrowInv'
<1> DEFINE d    == sockfd_d[n]
           data == conn[d.conn].up
<1>1. PICK eof \in BOOLEAN : \E j \in 0 .. Len(data) : ReadSocket(n, "D", j, eof)
  BY ReadsPredecessor
<1>2. pc[n] = "q6" /\ Serving(n) /\ d.conn # NoConn /\ d.fd \in polled[n]
  BY ReadsPredecessor
<1>3. successor[n] # None
  BY ReadsPredecessor
<1>4. PICK i \in 0 .. Len(data) : ReadSocket(n, "D", i, eof)
  BY <1>1
<1> DEFINE good == IF "D" \in stalled[n] THEN 0 ELSE Readable(SubSeq(data, 1, i))
           left == SubSeq(data, i + 1, Len(data))
           rest == SetInbound(conn, "D", d, left)
           new  == SubSeq(data, 1, good)
<1>5. /\ d \in Sock /\ d.conn \in Conn /\ d.conn # NoConn /\ conn \in Conns /\ Streams(conn)
      /\ Sockets(n) /\ Dropping(n) /\ Watching(n) /\ queue[n] \in Seq(Pdu)
  BY <1>2 DEF JoinsOnly, TypeOK, Conns, GrowInv, Sock
<1>6. data \in Seq(Pdu) /\ Stream(conn[d.conn]) /\ conn[d.conn] \in ConnRecord
  BY <1>5 DEF Conns, ConnRecord, Streams
<1>7. /\ i > 0 \/ eof
      /\ eof => i = Len(data) /\ ~conn[d.conn].cli
      /\ queue' = [queue EXCEPT ![n] = @ \o new]
      /\ conn' = IF eof THEN Shut(rest, "D", d) ELSE rest
      /\ sockfd_d' = [sockfd_d EXCEPT ![n] = IF eof THEN NoSock ELSE @]
      /\ sockfd_b' = [sockfd_b EXCEPT ![n] = @]
      /\ Goto(n, "drain")
      /\ UNCHANGED <<polled, ring, udp>>
  <2>1. d.conn # NoConn /\ Inbound(conn, "D", d) = data
        /\ (PeerClosed(conn, "D", d) <=> ~conn[d.conn].cli)
    BY <1>5 DEF Inbound, PeerClosed
  <2> QED
    BY <1>4, <2>1 DEF ReadSocket, SockOf
<1>8. good \in 0 .. Len(data) /\ good <= i
  <2>1. SubSeq(data, 1, i) \in Seq(Pdu) /\ Len(SubSeq(data, 1, i)) = i
    <3> HIDE DEF data
    <3> QED
      BY <1>4, <1>6
  <2>2. Readable(SubSeq(data, 1, i)) \in 0 .. i
    <3>1. Readable(SubSeq(data, 1, i)) \in 0 .. Len(SubSeq(data, 1, i))
      BY <2>1, ReadableBound
    <3> QED
      BY <2>1, <3>1
  <2>3. Len(data) \in Nat
    BY <1>6
  <2> HIDE DEF data
  <2> QED
    BY <1>4, <2>2, <2>3
<1>9. /\ left \in Seq(Pdu) /\ new \in Seq(Pdu)
       /\ (Plain(data) => Plain(left) /\ Plain(new))
       /\ (CloseLast(data) => /\ CloseLast(left) /\ CloseLast(new)
                              /\ ~Plain(new) => good = Len(data))
  <2> HIDE DEF good, data
  <2>1. left \in Seq(Pdu) /\ new \in Seq(Pdu)
    BY <1>4, <1>6, <1>8
  <2>2. (Plain(data) => Plain(left)) /\ (CloseLast(data) => CloseLast(left))
    BY <1>4, <1>6, PartPlain
  <2>3. (Plain(data) => Plain(new)) /\ (CloseLast(data) => CloseLast(new))
        /\ (CloseLast(data) /\ ~Plain(new) => good = Len(data))
    BY <1>6, <1>8, PartPlain
  <2> QED
    BY <2>1, <2>2, <2>3
<1> HIDE DEF left, new, good
<1>10. /\ rest \in Conns /\ Streams(rest) /\ Spares(rest, d.conn)
       /\ rest[d.conn] = [conn[d.conn] EXCEPT !.up = left]
  BY <1>5, <1>9, FlowRead
<1>11. rest[d.conn].cli = conn[d.conn].cli /\ rest[d.conn].up = left
  BY <1>6, <1>10 DEF ConnRecord
<1> HIDE DEF rest
<1>12. Streams(conn') /\ Spares(conn', d.conn)
  <2>1. CASE eof
    BY <1>5, <1>7, <1>10, <1>11, <2>1, FlowDrop
  <2>2. CASE ~eof
    BY <1>7, <1>10, <2>2
  <2> QED
    BY <2>1, <2>2
<1>13. /\ queue'[n] = queue[n] \o new /\ sockfd_b' = sockfd_b
       /\ sockfd_d'[n] = IF eof THEN NoSock ELSE d
       /\ pc'[n] = "drain" /\ UNCHANGED <<polled, successor, udp>>
       /\ \A x \in Node \ {n} : pc'[x] = pc[x] /\ sockfd_d'[x] = sockfd_d[x] /\ queue'[x] = queue[x]
  BY <1>7 DEF JoinsOnly, TypeOK, Goto, ring
<1>14. OthersKeep(n)
  BY <1>13 DEF OthersKeep
<1>15. Sockets(n)'
  <2>1. Serving(n)' /\ Whole(NoSock) /\ NoSock.fd = NoFd
    BY <1>13 DEF Serving, Whole, NoSock, NoConn
  <2>2. sockfd_b[n].fd # NoFd
    BY <1>2, <1>3, SuccessorSocket
  <2> QED
    BY <1>2, <1>5, <1>13, <2>1, <2>2 DEF Sockets
<1>16. Watching(n)'
  <2>1. polled[n] = Fd
    BY <1>2, <1>3, <1>5 DEF Watching, NoSock
  <2> QED
    BY <1>13, <2>1 DEF Watching
<1>17. Dropping(n)'
  <2>1. CASE Plain(queue[n])
    <3>1. CloseLast(queue'[n]) /\ (Plain(new) => Plain(queue'[n]))
      BY <1>5, <1>6, <1>9, <1>13, <2>1, ConcatPlain DEF Stream
    <3>2. ASSUME ~Plain(new), ~eof
          PROVE  sockfd_d'[n] = d /\ ~conn'[d.conn].cli /\ conn'[d.conn].up = <<>>
      <4>1. good = Len(data) /\ ~Plain(data)
        BY <1>6, <1>9, <3>2 DEF Stream
      <4>2. i = Len(data)
        BY <1>4, <1>8, <4>1
      <4>3. left = <<>>
        BY <1>6, <4>2 DEF left
      <4>4. ~conn[d.conn].cli
        BY <1>6, <4>1 DEF Stream
      <4> QED
        BY <1>7, <1>11, <1>13, <3>2, <4>3, <4>4
    <3> QED
      BY <1>13, <3>1, <3>2 DEF Dropping, NoSock
  <2>2. CASE ~Plain(queue[n])
    <3>1. data = <<>>
      BY <1>5, <2>2 DEF Dropping
    <3>2. i = 0 /\ good = 0
      BY <1>4, <1>8, <3>1
    <3>3. new = <<>> /\ eof
      BY <1>6, <1>7, <3>2 DEF new
    <3>4. queue'[n] = queue[n]
      BY <1>5, <1>13, <3>3
    <3> QED
      BY <1>5, <1>13, <3>3, <3>4 DEF Dropping, NoSock
  <2> QED
    BY <2>1, <2>2
<1>18. \A x \in Node : Close \notin udp'[x]
  BY <1>13 DEF JoinsOnly, GrowInv
<1> QED
  BY <1>12, <1>13, <1>14, <1>15, <1>16, <1>17, <1>18, GrowStep

LEMMA DrainedGrow ==
  ASSUME JoinsOnly, AllIn(Growing, queue', udp', conn'), NEW n \in Node, Drained(n)
  PROVE  GrowInv'
<1>1. /\ pc[n] = "drain" /\ pc'[n] = "q6" /\ (\A x \in Node \ {n} : pc'[x] = pc[x])
      /\ UNCHANGED <<polled, successor, sockfd_b, sockfd_d, queue, udp, conn>>
  BY DEF Drained, Goto, JoinsOnly, TypeOK, ring, socks, inbox, net
<1>2. Spares(conn', NoConn) /\ Streams(conn') /\ \A x \in Node : Close \notin udp'[x]
  BY <1>1, SpareAll DEF JoinsOnly, GrowInv
<1>3. Sockets(n)' /\ Dropping(n)' /\ Watching(n)'
  BY <1>1, <1>2, KeptOwn
<1>4. OthersKeep(n)
  BY <1>1 DEF OthersKeep
<1> QED
  BY <1>1, <1>2, <1>3, <1>4, GrowStep

(* A process starts, or a client sends. *)
LEMMA StartGrow ==
  ASSUME JoinsOnly, AllIn(Growing, queue', udp', conn'), NEW n \in Node,
         StartFirst(n) \/ \E e \in Node : StartJoin(n, e)
  PROVE  GrowInv'
<1>1. /\ pc[n] = "off" /\ pc'[n] \in {"q6", "q7_accept"} /\ (\A x \in Node \ {n} : pc'[x] = pc[x])
      /\ UNCHANGED <<polled, successor, sockfd_b, sockfd_d, queue, conn>>
  BY DEF StartFirst, StartJoin, Goto, JoinsOnly, TypeOK, ring, socks, inbox, net
<1>2. Spares(conn', NoConn) /\ Streams(conn')
  BY <1>1, SpareAll DEF JoinsOnly, GrowInv
<1>3. \A x \in Node : Close \notin udp'[x]
  <2>1. \A x \in Node : udp'[x] \subseteq udp[x] \cup {JoinPdu(n, None, 0)}
    BY DEF StartFirst, StartJoin, JoinsOnly, TypeOK, inbox
  <2>2. JoinPdu(n, None, 0) # Close
    BY DEF JoinPdu, Close
  <2> QED
    BY <2>1, <2>2 DEF JoinsOnly, GrowInv
<1>4. successor[n] = None /\ sockfd_b[n] = NoSock /\ sockfd_d[n] = NoSock /\ queue[n] = <<>>
  BY <1>1 DEF JoinsOnly, RangeInv, EmptyUntilServing, Serving
<1>5. Sockets(n)'
  BY <1>1, <1>4 DEF Sockets, Whole, NoSock, NoConn, NoFd
<1>6. Dropping(n)' /\ Watching(n)'
  BY <1>1, <1>4 DEF Dropping, CloseLast, Plain, Watching
<1>7. OthersKeep(n)
  BY <1>1 DEF OthersKeep
<1> QED
  BY <1>1, <1>2, <1>3, <1>5, <1>6, <1>7, GrowStep

(* Nothing but a datagram comes. *)
LEMMA SameGrow ==
  ASSUME JoinsOnly, AllIn(Growing, queue', udp', conn'),
         UNCHANGED <<pc, polled, successor, sockfd_b, sockfd_d, queue, conn>>,
         \A x \in Node : Close \notin udp'[x]
  PROVE  GrowInv'
BY DEF JoinsOnly, GrowInv, Sockets, Dropping, Watching, Serving

LEMMA NextGrow ==
  ASSUME Leavers = {}, JoinsOnly, [Next]_vars
  PROVE  GrowInv'
<1>1. AllIn(Growing, queue', udp', conn')
  BY GrowingAdmits, StepIn DEF JoinsOnly, GrowInv
<1>2. ASSUME NEW n \in Node, Step(n) PROVE GrowInv'
  <2>1. ~(Q10(n) \/ Q11(n) \/ Q11SendFailed(n) \/ Q11Abort(n) \/ Q18(n))
    BY DEF JoinsOnly, RangeInv, NobodyLeaves, Q10, Q11, Q11SendFailed, Q11Abort, Q18
  <2> QED
    BY <1>1, <1>2, <2>1, AcceptGrow, JoinRecvGrow, HandlePduGrow, ReadGrow, DrainedGrow DEF Step
<1>3. ASSUME NEW n \in Node, Environment(n) PROVE GrowInv'
  <2>1. ~(Signal(n) \/ InterruptJoin(n) \/ InterruptAccept(n) \/ InterruptRecv(n))
    BY DEF Signal, InterruptJoin, InterruptAccept, InterruptRecv, MayInterrupt
  <2>2. ASSUME NEW r \in requests, ClientSend(n, r) PROVE GrowInv'
    <3>1. /\ UNCHANGED <<pc, polled, successor, sockfd_b, sockfd_d, queue, conn>>
          /\ \A x \in Node : udp'[x] \subseteq udp[x] \cup {r}
      BY <2>2 DEF ClientSend, ctl, ring, socks, net, JoinsOnly, TypeOK
    <3>2. r # Close
      <4>1. r.type # "NET_CLOSE_CONNECTION"
        BY RingAssumption DEF JoinsOnly, TypeOK
      <4> QED
        BY <4>1 DEF Close
    <3>3. \A x \in Node : Close \notin udp'[x]
      BY <3>1, <3>2 DEF JoinsOnly, GrowInv
    <3> QED
      BY <1>1, <3>1, <3>3, SameGrow
  <2> QED
    BY <1>1, <1>3, <2>1, <2>2, StartGrow DEF Environment
<1>4. CASE UNCHANGED vars
  BY <1>1, <1>4, SameGrow DEF vars, ctl, ring, socks, inbox, net, JoinsOnly, GrowInv
<1> QED
  BY <1>2, <1>3, <1>4 DEF Next

LEMMA InitGrow == Init => GrowInv
<1> SUFFICES ASSUME Init PROVE GrowInv
  OBVIOUS
<1>1. AllIn(Growing, queue, udp, conn)
  <2>1. <<>> \in Seq(Growing)
    OBVIOUS
  <2> QED
    BY <2>1 DEF Init, AllIn, OnConns, FreeConn
<1>2. Streams(conn)
  BY DEF Init, Streams, Stream, FreeConn, CloseLast, Plain
<1>3. ASSUME NEW n \in Node
      PROVE  pc[n] # "exited" /\ Close \notin udp[n] /\ Sockets(n) /\ Dropping(n) /\ Watching(n)
  <2>1. pc[n] = "off" /\ udp[n] = {} /\ queue[n] = <<>> /\ sockfd_b[n] = NoSock /\ sockfd_d[n] = NoSock
        /\ successor[n] = None
    BY DEF Init
  <2>2. Sockets(n)
    BY <2>1 DEF Sockets, Whole, Serving, NoSock, NoConn, NoFd
  <2>3. Dropping(n) /\ Watching(n)
    BY <2>1 DEF Dropping, CloseLast, Plain, Watching
  <2> QED
    BY <2>1, <2>2, <2>3
<1> QED
  BY <1>1, <1>2, <1>3 DEF GrowInv

LEMMA JoinsOnlyHolds ==
  ASSUME Leavers = {}
  PROVE  Spec => []JoinsOnly
<1>1. Init => JoinsOnly
  BY InitTypes, InitJoinInv, InitRangeInv, InitGrow DEF JoinsOnly
<1>2. JoinsOnly /\ [Next]_vars => JoinsOnly'
  BY NextTypes, NextJoinInv, NextRangeInv, NextGrow DEF JoinsOnly
<1> QED
  BY <1>1, <1>2, PTL DEF Spec

(* As long as nodes only join, however many at once, a node in poll watches *)
(* every neighbour socket it has: q5, q7 and q13 make a socket and call     *)
(* q6_state anew, q17 makes one with the descriptor of the one it closed,   *)
(* and no second NET_CLOSE_CONNECTION comes before q17 has its socket.      *)
THEOREM AllSocketsPolled ==
  ASSUME Leavers = {}
  PROVE  Spec => []SocketsPolled
<1>1. JoinsOnly => SocketsPolled
  BY WatchingIsPolled
<1> QED
  BY <1>1, JoinsOnlyHolds, PTL

(* As long as nodes only join, no process ends: no send raises SIGPIPE and  *)
(* no connect of a handler or of q8_state finds its target gone.            *)
THEOREM NobodyDies ==
  ASSUME Leavers = {}
  PROVE  Spec => [](\A n \in Node : pc[n] # "exited")
<1>1. JoinsOnly => \A n \in Node : pc[n] # "exited"
  BY DEF JoinsOnly, GrowInv
<1> QED
  BY <1>1, JoinsOnlyHolds, PTL
-----------------------------------------------------------------------------
(* The ring implements HashRing while nodes only join, as long as the hash  *)
(* space has room for them.                                                 *)
-----------------------------------------------------------------------------
(* PDUs of a set T, anywhere: at most one. *)

Queued(T, n) == Carries(queue[n], T) \/ udp[n] \cap T # {}
QueuedOnce(T, n) ==
  /\ Once(queue[n], T)
  /\ ~(Carries(queue[n], T) /\ udp[n] \cap T # {})
  /\ \A a, b \in udp[n] \cap T : a = b

Somewhere(T) == OnWay(conn, T) \/ \E n \in Node : Queued(T, n)
OnceIn(T) ==
  /\ \A n \in Node : QueuedOnce(T, n)
  /\ OnWayOnce(conn, T)
  /\ \A m, n \in Node : Queued(T, m) /\ Queued(T, n) => m = n
  /\ \A n \in Node : ~(Queued(T, n) /\ OnWay(conn, T))

(* A step concerns one node and the connections.                            *)
OthersQueues(n) == \A x \in Node \ {n} : queue'[x] = queue[x] /\ udp'[x] = udp[x]

LEMMA MovedIn ==
  ASSUME NEW T, OnceIn(T), NEW n \in Node, OthersQueues(n),
         QueuedOnce(T, n)', OnWayOnce(conn', T), ~(Queued(T, n)' /\ OnWay(conn', T)),
         Queued(T, n)' \/ OnWay(conn', T) => Queued(T, n) \/ OnWay(conn, T)
  PROVE  OnceIn(T)' /\ (Somewhere(T)' => Somewhere(T))
<1>1. \A x \in Node \ {n} : /\ Queued(T, x)' <=> Queued(T, x)
                            /\ QueuedOnce(T, x)'
  BY DEF OthersQueues, Queued, QueuedOnce, OnceIn
<1>2. OnceIn(T)'
  <2>1. \A x \in Node : QueuedOnce(T, x)'
    BY <1>1
  <2>2. \A x \in Node \ {n} : ~(Queued(T, x) /\ (Queued(T, n)' \/ OnWay(conn', T)))
    BY DEF OnceIn
  <2>3. \A x, y \in Node : Queued(T, x)' /\ Queued(T, y)' => x = y
    BY <1>1, <2>2 DEF OnceIn
  <2>4. \A x \in Node : ~(Queued(T, x)' /\ OnWay(conn', T))
    BY <1>1, <2>2
  <2> QED
    BY <2>1, <2>3, <2>4 DEF OnceIn
<1>3. Somewhere(T)' => Somewhere(T)
  BY <1>1 DEF Somewhere
<1> QED
  BY <1>2, <1>3

(* In particular when nothing is moved between the two. *)
LEMMA KeptIn ==
  ASSUME NEW T, OnceIn(T), NEW n \in Node, OthersQueues(n),
         Once(queue'[n], T), Carries(queue'[n], T) => Carries(queue[n], T),
         udp'[n] \subseteq udp[n],
         OnWayOnce(conn', T), OnWay(conn', T) => OnWay(conn, T)
  PROVE  OnceIn(T)' /\ (Somewhere(T)' => Somewhere(T))
<1>1. QueuedOnce(T, n)' /\ (Queued(T, n)' => Queued(T, n))
  BY DEF OnceIn, Queued, QueuedOnce
<1> QED
  BY <1>1, MovedIn DEF OnceIn

LEMMA StayIn ==
  ASSUME NEW T, OnceIn(T), UNCHANGED <<queue, conn>>,
         \A x \in Node : udp'[x] \cap T = udp[x] \cap T
  PROVE  OnceIn(T)' /\ (Somewhere(T)' => Somewhere(T))
BY DEF OnceIn, Somewhere, Queued, QueuedOnce

(* Taking a PDU. *)
LEMMA TakenOut ==
  ASSUME TypeOK, NEW n \in Node, NEW kind \in {"udp", "tcp"}, NEW m, NextPdu(n, kind, m),
         Taken(n, kind, m), NEW T, OnceIn(T)
  PROVE  /\ OthersQueues(n)
         /\ Once(queue'[n], T) /\ (Carries(queue'[n], T) => Carries(queue[n], T))
         /\ udp'[n] \subseteq udp[n]
         /\ m \in T => Queued(T, n) /\ ~Queued(T, n)'
<1>1. queue[n] \in Seq(Pdu) /\ queue \in [Node -> Seq(Pdu)] /\ udp \in [Node -> SUBSET Pdu]
  BY DEF TypeOK
<1>2. QueuedOnce(T, n)
  BY DEF OnceIn
<1>3. CASE kind = "udp"
  <2>1. m \in udp[n] /\ udp' = [udp EXCEPT ![n] = udp[n] \ {m}] /\ queue' = queue
    BY <1>3 DEF NextPdu, Taken
  <2>2. udp'[n] = udp[n] \ {m} /\ OthersQueues(n)
    BY <1>1, <2>1 DEF OthersQueues
  <2>3. ASSUME m \in T PROVE Queued(T, n) /\ ~Queued(T, n)'
    <3>1. m \in udp[n] \cap T /\ ~Carries(queue[n], T)
      BY <1>2, <2>1, <2>3 DEF QueuedOnce
    <3>2. udp'[n] \cap T = {}
      BY <1>2, <2>2, <3>1 DEF QueuedOnce
    <3> QED
      BY <2>1, <3>1, <3>2 DEF Queued
  <2> QED
    BY <1>2, <2>1, <2>2, <2>3 DEF QueuedOnce
<1>4. CASE kind = "tcp"
  <2>1. /\ queue[n] # <<>> /\ m = Head(queue[n])
        /\ queue' = [queue EXCEPT ![n] = Tail(queue[n])] /\ udp' = udp
    BY <1>4 DEF NextPdu, Taken
  <2>2. queue'[n] = Tail(queue[n]) /\ OthersQueues(n)
    BY <1>1, <2>1 DEF OthersQueues
  <2>3. /\ Once(Tail(queue[n]), T)
        /\ Carries(Tail(queue[n]), T) => Carries(queue[n], T)
        /\ m \in T => Carries(queue[n], T) /\ ~Carries(Tail(queue[n]), T)
    BY <1>1, <1>2, <2>1, TailCarries DEF QueuedOnce
  <2> QED
    BY <1>2, <2>1, <2>2, <2>3 DEF QueuedOnce, Queued
<1> QED
  BY <1>3, <1>4

(* A handler that sends nothing of T.                                       *)
LEMMA TakenKeptIn ==
  ASSUME TypeOK, NEW n \in Node, NEW kind \in {"udp", "tcp"}, NEW m, NextPdu(n, kind, m),
         Taken(n, kind, m), NEW T, OnceIn(T), OnWayOnce(conn', T), OnWay(conn', T) => OnWay(conn, T)
  PROVE  OnceIn(T)' /\ (Somewhere(T)' => Somewhere(T))
BY TakenOut, KeptIn

LEMMA SentOtherIn ==
  ASSUME TypeOK, NEW n \in Node, NEW side \in {"B", "D"}, NEW m \in Pdu, NEW T, m \notin T,
         OnceIn(T)
  PROVE  LET cs == Sent(conn, side, SockOf(n, side), <<m>>)
         IN  cs \in Conns /\ OnWayOnce(cs, T) /\ (OnWay(cs, T) => OnWay(conn, T))
<1>1. <<m>> \in Seq(Pdu) /\ Once(<<m>>, T) /\ ~Carries(<<m>>, T)
  BY SingletonCarries
<1>2. conn \in Conns /\ OnWayOnce(conn, T) /\ SockOf(n, side) \in Sock
  BY SockOfType DEF TypeOK, Conns, OnceIn
<1> QED
  BY <1>1, <1>2, SentOnWay, ConnTypes
-----------------------------------------------------------------------------
(* The NET_JOIN of a node: there is at most one, which q14_state passes on. *)

JoinsOf(x) == {m \in Pdu : m.type = "NET_JOIN" /\ m.src = x}

(* A step brings no NET_JOIN of x.                                          *)
NoneNew(x) == OnceIn(JoinsOf(x))' /\ (Somewhere(JoinsOf(x))' => Somewhere(JoinsOf(x)))

LEMMA OverReadKept ==
  ASSUME NEW rest \in Seq(Pdu), NEW x, Once(rest, JoinsOf(x)), NEW r \in AfterOverRead(rest)
  PROVE  /\ r \in Seq(Pdu) /\ Once(r, JoinsOf(x))
         /\ Carries(r, JoinsOf(x)) => Carries(rest, JoinsOf(x))
<1> DEFINE T == JoinsOf(x)
<1>1. Garbage \notin T
  BY DEF JoinsOf, Garbage
<1> HIDE DEF T
<1>2. r \in Seq(Pdu)
  BY OverReadTypes
<1>3. CASE r = rest
  BY <1>2, <1>3 DEF T
<1>4. CASE rest # <<>> /\ r = Tail(rest)
  BY <1>2, <1>4, TailCarries
<1>5. CASE rest # <<>> /\ r = <<Garbage>> \o Tail(rest)
  <2>1. <<Garbage>> \in Seq(Pdu) /\ Tail(rest) \in Seq(Pdu)
    BY <1>5, PduConstructors
  <2>2. Once(<<Garbage>>, T) /\ ~Carries(<<Garbage>>, T)
    BY <1>1, SingletonCarries
  <2>3. Once(Tail(rest), T) /\ (Carries(Tail(rest), T) => Carries(rest, T))
    BY <1>5, TailCarries DEF T
  <2> HIDE DEF Carries, Once
  <2>4. Once(r, T) /\ (Carries(r, T) => Carries(rest, T))
    BY <1>5, <2>1, <2>2, <2>3, ConcatCarries
  <2> QED
    BY <1>2, <2>4 DEF T
<1> QED
  BY <1>3, <1>4, <1>5 DEF AfterOverRead

(* A joining node reads its response and what is behind it, and connects.   *)
LEMMA JoinRecvStep ==
  ASSUME JoinsOnly, NEW n \in Node, JoinRecv(n)
  PROVE  LET d    == sockfd_d[n]
             data == conn[d.conn].up
             m    == Head(data)
         IN  /\ pc[n] = "q7_recv" /\ d \in Sock /\ d.conn \in Conn /\ d.conn # NoConn
             /\ data \in Seq(Pdu) /\ Response(data)
             /\ m \in Pdu /\ m.next \in Node /\ Listening(m.next) /\ ~Unknown(m.next)
             /\ \E rest \in AfterOverRead(Tail(data)) :
                  Connect(n, m.next, SetInbound(conn, "D", d, rest), <<>>)
             /\ pc' = [pc EXCEPT ![n] = "q6"]
             /\ start' = [start EXCEPT ![n] = m.lo] /\ end' = [end EXCEPT ![n] = m.hi]
             /\ successor' = [successor EXCEPT ![n] = m.next]
             /\ UNCHANGED <<predecessor, sockfd_d, queue, udp>>
<1> DEFINE d    == sockfd_d[n]
           data == Inbound(conn, "D", d)
           m    == Head(data)
<1>1. conn \in Conns /\ d \in Sock /\ OnConns(Named, conn) /\ OnConns(Growing, conn)
  BY DEF JoinsOnly, TypeOK, Conns, JoinInv, GrowInv, AllIn
<1>2. /\ data \in Seq(Named) /\ data \in Seq(Growing) /\ data \in Seq(Pdu)
      /\ data # <<>> /\ m.type = "NET_JOIN_RESPONSE"
      /\ d.conn # NoConn /\ data = conn[d.conn].up
      /\ pc[n] = "q7_recv"
  BY <1>1, InboundIn, ConnTypes DEF JoinRecv, Inbound
<1>3. m \in Named /\ m \in Growing /\ m \in Pdu
  <2> HIDE DEF data
  <2> QED
    BY <1>2
<1>4. ~Unknown(m.next) /\ m.next # None /\ m.next \in Node
  BY <1>2, <1>3, JoinResponseFields DEF Named, Growing
<1>5. pc[m.next] # "off" /\ pc[m.next] # "exited"
  BY <1>4 DEF Unknown, JoinsOnly, GrowInv
<1>6. Reachable(m.next) /\ Listening(m.next)
  BY <1>4, <1>5 DEF Reachable, Listening
<1>7. PICK rest \in AfterOverRead(Tail(data)) :
        /\ Connect(n, m.next, SetInbound(conn, "D", d, rest), <<>>)
        /\ Goto(n, "q6")
        /\ start' = [start EXCEPT ![n] = m.lo] /\ end' = [end EXCEPT ![n] = m.hi]
        /\ successor' = [successor EXCEPT ![n] = m.next]
        /\ UNCHANGED <<predecessor, sockfd_d, inbox>>
  BY <1>6 DEF JoinRecv
<1>8. Response(data) /\ d.conn \in Conn
  BY <1>1, <1>2 DEF Response, Sock
<1> HIDE DEF m
<1> QED
  BY <1>1, <1>2, <1>3, <1>4, <1>6, <1>7, <1>8 DEF Goto, inbox, m

LEMMA JoinRecvKept ==
  ASSUME JoinsOnly, NEW n \in Node, JoinRecv(n), NEW x, OnceIn(JoinsOf(x))
  PROVE  NoneNew(x)
<1> DEFINE d    == sockfd_d[n]
           data == conn[d.conn].up
           T    == JoinsOf(x)
<1>1. PICK to \in Node, rest \in AfterOverRead(Tail(data)) :
        Connect(n, to, SetInbound(conn, "D", d, rest), <<>>)
  BY JoinRecvStep
<1>2. /\ d \in Sock /\ d.conn # NoConn /\ data \in Seq(Pdu) /\ data # <<>>
      /\ UNCHANGED <<queue, udp>>
  BY JoinRecvStep DEF Response
<1>3. conn \in Conns /\ OnWayOnce(conn, T) /\ Inbound(conn, "D", d) = data
  BY <1>2 DEF JoinsOnly, TypeOK, Conns, OnceIn, Inbound
<1>4. Once(data, T)
  BY <1>2, <1>3, InboundOnce
<1>5. rest \in Seq(Pdu) /\ Once(rest, T) /\ (Carries(rest, T) => Carries(data, T))
  <2> HIDE DEF data
  <2>1. Tail(data) \in Seq(Pdu) /\ Once(Tail(data), T) /\ (Carries(Tail(data), T) => Carries(data, T))
    BY <1>2, <1>4, TailCarries
  <2> QED
    BY <2>1, OverReadKept
<1> DEFINE cs == SetInbound(conn, "D", d, rest)
<1>6. cs \in Conns /\ OnWayOnce(cs, T) /\ (OnWay(cs, T) => OnWay(conn, T))
  BY <1>2, <1>3, <1>5, ConnTypes, SetInboundOnWay
<1>7. Connect(n, to, cs, <<>>) /\ <<>> \in Seq(Pdu)
  BY <1>1
<1> HIDE DEF cs, T
<1>8. OnWayOnce(conn', T) /\ (OnWay(conn', T) => OnWay(cs, T))
  BY <1>6, <1>7, EmptyCarries, ConnectOnWay
<1>9. OnceIn(T)' /\ (Somewhere(T)' => Somewhere(T))
  BY <1>2, <1>6, <1>8, KeptIn DEF OthersQueues, OnceIn, QueuedOnce, T
<1> QED
  BY <1>9 DEF NoneNew, T

(* What is read into the queue is gone from the connection.                 *)
LEMMA ReadKept ==
  ASSUME TypeOK, NEW n \in Node, Read(n), NEW x, OnceIn(JoinsOf(x))
  PROVE  NoneNew(x)
<1>1. PICK side \in {"B", "D"}, eof \in BOOLEAN :
        \E j \in 0 .. Len(Inbound(conn, side, SockOf(n, side))) : ReadSocket(n, side, j, eof)
  BY DEF Read
<1>2. PICK i \in 0 .. Len(Inbound(conn, side, SockOf(n, side))) : ReadSocket(n, side, i, eof)
  BY <1>1
<1> DEFINE s    == SockOf(n, side)
           data == Inbound(conn, side, s)
           good == IF side \in stalled[n] THEN 0 ELSE Readable(SubSeq(data, 1, i))
           new  == SubSeq(data, 1, good)
           left == SubSeq(data, i + 1, Len(data))
           rest == SetInbound(conn, side, s, left)
           T    == JoinsOf(x)
<1>3. conn \in Conns /\ s \in Sock /\ s.conn # NoConn /\ OnWayOnce(conn, T)
  BY <1>2, SockOfType DEF ReadSocket, TypeOK, Conns, OnceIn
<1>4. data \in Seq(Pdu) /\ Once(data, T) /\ (Carries(data, T) => OnWay(conn, T))
  BY <1>3, ConnTypes, InboundOnce
<1>5. i \in 0 .. Len(data)
  OBVIOUS
<1>6. good \in 0 .. i
  <2>1. SubSeq(data, 1, i) \in Seq(Pdu) /\ Len(SubSeq(data, 1, i)) = i
    BY <1>4, <1>5
  <2>2. Readable(SubSeq(data, 1, i)) \in 0 .. i
    <3>1. Readable(SubSeq(data, 1, i)) \in 0 .. Len(SubSeq(data, 1, i))
      BY <2>1, ReadableBound
    <3> QED
      BY <2>1, <3>1
  <2> HIDE DEF data
  <2> QED
    BY <1>5, <2>2
<1>7. /\ queue' = [queue EXCEPT ![n] = queue[n] \o new]
      /\ conn' = IF eof THEN Shut(rest, side, s) ELSE rest
      /\ UNCHANGED udp
  BY <1>2 DEF ReadSocket
<1> HIDE DEF s, data, good, T
<1>8. new \in Seq(Pdu) /\ left \in Seq(Pdu)
  BY <1>4, <1>5, <1>6
<1>9. /\ Once(new, T) /\ Once(left, T)
      /\ Carries(new, T) => Carries(data, T)
      /\ Carries(left, T) => Carries(data, T)
      /\ ~(Carries(new, T) /\ Carries(left, T))
  BY <1>4, <1>5, <1>6, PartCarries
<1> HIDE DEF new, left
<1>10. /\ rest \in Conns /\ OnWayOnce(rest, T)
       /\ OnWay(rest, T) => OnWay(conn, T)
       /\ Carries(data, T) /\ ~Carries(left, T) => ~OnWay(rest, T)
  BY <1>3, <1>8, <1>9, ConnTypes, SetInboundOnWay DEF data
<1> HIDE DEF rest
<1>11. OnWayOnce(conn', T) /\ (OnWay(conn', T) => OnWay(rest, T))
  BY <1>3, <1>7, <1>10, ShutOnWay
<1>12. OnceIn(T) /\ queue \in [Node -> Seq(Pdu)]
  BY DEF TypeOK, T
<1>13. queue[n] \in Seq(Pdu) /\ QueuedOnce(T, n) /\ ~(Queued(T, n) /\ OnWay(conn, T))
  BY <1>12 DEF OnceIn
<1>14. Carries(queue[n], T) => Queued(T, n)
  BY DEF Queued
<1>15. /\ Once(queue[n] \o new, T)
       /\ Carries(queue[n] \o new, T) => Carries(queue[n], T) \/ Carries(new, T)
  BY <1>4, <1>8, <1>9, <1>13, <1>14, ConcatCarries DEF QueuedOnce
<1>16. OthersQueues(n) /\ queue'[n] = queue[n] \o new /\ udp'[n] = udp[n]
  BY <1>7, <1>12 DEF OthersQueues
<1>17. OnceIn(T)' /\ (Somewhere(T)' => Somewhere(T))
  <2>1. CASE Carries(new, T)
    <3>1. OnWay(conn, T) /\ ~Queued(T, n) /\ ~OnWay(conn', T)
      BY <1>4, <1>9, <1>10, <1>11, <1>13, <2>1
    <3>2. QueuedOnce(T, n)'
      BY <1>15, <1>16, <3>1 DEF QueuedOnce, Queued
    <3> QED
      BY <1>11, <1>12, <1>16, <3>1, <3>2, MovedIn
  <2>2. CASE ~Carries(new, T)
    BY <1>10, <1>11, <1>12, <1>15, <1>16, <2>2, KeptIn
  <2> QED
    BY <2>1, <2>2
<1> QED
  BY <1>17 DEF NoneNew, T

(* Forwarding a NET_JOIN moves it, and changes no more than the widest      *)
(* range it has met.                                                        *)
LEMMA Q14Kept ==
  ASSUME TypeOK, NEW n \in Node, NEW kind \in {"udp", "tcp"}, NEW m, Q14(n, kind, m),
         NEW x, OnceIn(JoinsOf(x))
  PROVE  NoneNew(x)
<1> DEFINE T    == JoinsOf(x)
           sent == WithWidest(n, m)
<1>1. NextPdu(n, kind, m) /\ Taken(n, kind, m) /\ m.type = "NET_JOIN"
      /\ conn' = Sent(conn, "B", SockOf(n, "B"), <<sent>>)
  BY DEF Q14, SockOf
<1>2. m \in Pdu
  BY <1>1, TakenTypes
<1>3. sent \in Pdu /\ sent.type = "NET_JOIN" /\ sent.src = m.src
  BY <1>1, <1>2, WithWidestType, JoinFields DEF WithWidest
<1>4. sent \in T <=> m \in T
  BY <1>1, <1>2, <1>3 DEF JoinsOf
<1> HIDE DEF T, sent
<1>5. OnceIn(T)
  BY DEF T
<1>6. CASE m \in T
  <2>1. /\ OthersQueues(n)
        /\ Once(queue'[n], T) /\ (Carries(queue'[n], T) => Carries(queue[n], T))
        /\ udp'[n] \subseteq udp[n]
        /\ Queued(T, n) /\ ~Queued(T, n)'
    BY <1>1, <1>5, <1>6, TakenOut
  <2>2. <<sent>> \in Seq(Pdu) /\ Once(<<sent>>, T)
    BY <1>3, SingletonCarries
  <2>3. conn \in Conns /\ OnWayOnce(conn, T) /\ SockOf(n, "B") \in Sock /\ ~OnWay(conn, T)
    BY <1>5, <2>1, SockOfType DEF TypeOK, Conns, OnceIn
  <2>4. OnWayOnce(conn', T)
    BY <1>1, <2>2, <2>3, SentOnWay
  <2>5. QueuedOnce(T, n)'
    BY <2>1 DEF QueuedOnce, Queued
  <2> QED
    BY <1>5, <2>1, <2>4, <2>5, MovedIn DEF NoneNew, T
<1>7. CASE m \notin T
  BY <1>1, <1>3, <1>4, <1>5, <1>7, SentOtherIn, TakenKeptIn DEF NoneNew, T
<1> QED
  BY <1>6, <1>7

(* The handlers that send no NET_JOIN.                                      *)
LEMMA LocalKept ==
  ASSUME TypeOK, NEW n \in Node, NEW kind \in {"udp", "tcp"}, NEW m,
         \/ Q9Serve(n, kind, m) \/ Q9Forward(n, kind, m) \/ Q17(n, kind, m)
         \/ SendFailed(n, kind, m) \/ Ignore(n, kind, m),
         NEW x, OnceIn(JoinsOf(x))
  PROVE  NoneNew(x)
<1> DEFINE T == JoinsOf(x)
<1>1. NextPdu(n, kind, m) /\ Taken(n, kind, m)
  BY DEF Q9Serve, Q9Forward, Q17, SendFailed, Ignore
<1>2. OnWayOnce(conn', T) /\ (OnWay(conn', T) => OnWay(conn, T))
  <2>1. OnWayOnce(conn, T) /\ conn \in Conns /\ sockfd_d[n] \in Sock
    BY DEF OnceIn, TypeOK, Conns
  <2>2. CASE Q9Forward(n, kind, m)
    <3>1. m \in Pdu /\ m \notin T /\ conn' = Sent(conn, "B", SockOf(n, "B"), <<m>>)
      BY <1>1, <2>2, TakenTypes DEF Q9Forward, SockOf, ValPdu, JoinsOf
    <3> QED
      BY <3>1, SentOtherIn
  <2>3. CASE Q17(n, kind, m)
    <3>1. conn' = Shut(conn, "D", sockfd_d[n])
      BY <2>3 DEF Q17
    <3> QED
      BY <2>1, <3>1, ShutOnWay
  <2>4. CASE conn' = conn
    BY <2>1, <2>4
  <2> QED
    BY <2>2, <2>3, <2>4 DEF Q9Serve, SendFailed, Ignore, net
<1> QED
  BY <1>1, <1>2, TakenKeptIn DEF NoneNew

(* q5_state and q13_state grant the upper half of the range: the response   *)
(* is the first PDU on the connection to the prospect.                      *)
Closing(n) == Shut(Sent(conn, "B", sockfd_b[n], <<Close>>), "B", sockfd_b[n])

LEMMA GrantConnects ==
  ASSUME TypeOK, NEW n \in Node, NEW to \in Node, NEW next \in Node \cup {None}, NEW cs,
         GrantUpperHalf(n, to, next, cs)
  PROVE  \E pdus \in Seq(Pdu) :
           /\ Connect(n, to, cs, pdus)
           /\ Response(pdus)
           /\ Head(pdus) = JoinResponse(next, UpperStart(start[n], end[n]), end[n])
           /\ \A x : ~Carries(pdus, JoinsOf(x)) /\ Once(pdus, JoinsOf(x))
<1>1. start[n] \in Hash /\ end[n] \in Hash /\ Upper(n) \in SUBSET Key
  BY DEF TypeOK, Upper
<1>2. PICK s \in SetToSeqs(Upper(n)) : Connect(n, to, cs, GrantPdus(n, next, s))
  BY DEF GrantUpperHalf
<1> DEFINE r == JoinResponse(next, UpperStart(start[n], end[n]), end[n])
           t == Inserts(s)
<1>3. r \in Pdu /\ r.type = "NET_JOIN_RESPONSE"
  BY <1>1, HashArithmetic, PduConstructors DEF JoinResponse
<1>4. t \in Seq(Pdu)
  BY <1>1, TransferTypes
<1>5. GrantPdus(n, next, s) = <<r>> \o t
  BY DEF GrantPdus
<1>6. \A x : ~Carries(t, JoinsOf(x)) /\ Once(t, JoinsOf(x))
  <2>1. \A i \in DOMAIN t : t[i].type # "NET_JOIN"
    BY DEF Inserts, Insert
  <2> HIDE DEF t
  <2> QED
    BY <2>1 DEF Carries, Once, JoinsOf
<1>7. \A x : ~Carries(<<r>>, JoinsOf(x)) /\ Once(<<r>>, JoinsOf(x))
  <2>1. \A x : r \notin JoinsOf(x)
    BY <1>3 DEF JoinsOf
  <2> HIDE DEF r
  <2> QED
    BY <2>1, SingletonCarries
<1> HIDE DEF r, t
<1>8. <<r>> \in Seq(Pdu)
  BY <1>3
<1>9. <<r>> \o t \in Seq(Pdu) /\ Head(<<r>> \o t) = r /\ <<r>> \o t # <<>>
  BY <1>3, <1>4, <1>8
<1>10. \A x : ~Carries(<<r>> \o t, JoinsOf(x)) /\ Once(<<r>> \o t, JoinsOf(x))
  BY <1>4, <1>6, <1>7, <1>8, ConcatCarries
<1>11. Response(<<r>> \o t)
  BY <1>3, <1>9 DEF Response
<1> QED
  BY <1>2, <1>5, <1>9, <1>10, <1>11 DEF r

LEMMA GrantStep ==
  ASSUME JoinsOnly, NEW n \in Node, NEW kind \in {"udp", "tcp"}, NEW m,
         Q5(n, kind, m) \/ Q13(n, kind, m)
  PROVE  /\ NextPdu(n, kind, m) /\ Taken(n, kind, m)
         /\ m \in Pdu /\ m.type = "NET_JOIN" /\ m.src \in Node /\ m \in JoinsOf(m.src)
         /\ Listening(m.src) /\ Serving(n) /\ Serving(n)'
         /\ \A x \in Node \ {n} : pc'[x] = pc[x]
         /\ UNCHANGED <<start, sockfd_d>> /\ end' = [end EXCEPT ![n] = Mid(start[n], end[n])]
         /\ successor' = [successor EXCEPT ![n] = m.src]
         /\ \E next \in Node, cs \in {conn, Closing(n)} :
              /\ next = IF successor[n] = None THEN n ELSE successor[n]
              /\ GrantUpperHalf(n, m.src, next, cs)
<1>1. /\ NextPdu(n, kind, m) /\ Taken(n, kind, m) /\ m.type = "NET_JOIN" /\ Listening(m.src)
      /\ UNCHANGED <<start, sockfd_d>> /\ successor' = [successor EXCEPT ![n] = m.src]
  BY DEF Q5, Q13
<1>2. m \in Pdu /\ m.src \in Node /\ Serving(n)
  BY <1>1, Handled, JoinFields DEF JoinsOnly
<1>3. pc' = [pc EXCEPT ![n] = "q5_accept"] \/ pc' = [pc EXCEPT ![n] = "q6"]
  BY DEF Q5, Q13, Nested, Goto
<1>4. /\ pc'[n] \in {"q5_accept", "q6"}
      /\ \A x \in Node \ {n} : pc'[x] = pc[x]
  BY <1>3 DEF JoinsOnly, TypeOK
<1>5. Serving(n)'
  BY <1>4 DEF Serving
<1>6. \E next \in Node, cs \in {conn, Closing(n)} :
        /\ next = IF successor[n] = None THEN n ELSE successor[n]
        /\ GrantUpperHalf(n, m.src, next, cs)
  <2>1. CASE Q5(n, kind, m)
    BY <2>1 DEF Q5, Alone
  <2>2. CASE Q13(n, kind, m)
    <3>1. ~Alone(n) /\ GrantUpperHalf(n, m.src, successor[n], Closing(n))
      BY <2>2 DEF Q13, Closing
    <3>2. successor[n] # None /\ successor[n] \in Node
      BY <1>1, <3>1, Handled DEF JoinsOnly, TypeOK
    <3> QED
      BY <3>1, <3>2
  <2> QED
    BY <2>1, <2>2
<1>7. end' = [end EXCEPT ![n] = Mid(start[n], end[n])]
  BY <1>6 DEF GrantUpperHalf
<1> QED
  BY <1>1, <1>2, <1>4, <1>5, <1>6, <1>7 DEF JoinsOf

LEMMA ClosingKept ==
  ASSUME TypeOK, NEW n \in Node, NEW x, OnceIn(JoinsOf(x))
  PROVE  /\ Closing(n) \in Conns /\ OnWayOnce(Closing(n), JoinsOf(x))
         /\ OnWay(Closing(n), JoinsOf(x)) => OnWay(conn, JoinsOf(x))
<1> DEFINE cs == Sent(conn, "B", SockOf(n, "B"), <<Close>>)
           T  == JoinsOf(x)
<1>1. Close \in Pdu /\ Close \notin T
  BY PduConstructors DEF Close, JoinsOf
<1>2. OnceIn(T)
  OBVIOUS
<1> HIDE DEF T
<1>3. cs \in Conns /\ OnWayOnce(cs, T) /\ (OnWay(cs, T) => OnWay(conn, T))
  BY <1>1, <1>2, SentOtherIn
<1>4. Closing(n) = Shut(cs, "B", sockfd_b[n]) /\ sockfd_b[n] \in Sock
  BY DEF Closing, SockOf, TypeOK
<1> HIDE DEF cs
<1>5. Closing(n) \in Conns
  BY CloseBTypes DEF Closing
<1> QED
  BY <1>3, <1>4, <1>5, ShutOnWay DEF T

(* The NET_JOIN that is answered was the only one.                          *)
LEMMA GrantKept ==
  ASSUME JoinsOnly, NEW n \in Node, NEW kind \in {"udp", "tcp"}, NEW m,
         Q5(n, kind, m) \/ Q13(n, kind, m), NEW x, OnceIn(JoinsOf(x))
  PROVE  /\ NoneNew(x)
         /\ m \in JoinsOf(x) => ~Somewhere(JoinsOf(x))'
<1> DEFINE T == JoinsOf(x)
<1>1. NextPdu(n, kind, m) /\ Taken(n, kind, m) /\ m.src \in Node /\ TypeOK
  BY GrantStep DEF JoinsOnly
<1>2. PICK next \in Node, cs \in {conn, Closing(n)} : GrantUpperHalf(n, m.src, next, cs)
  BY GrantStep
<1>3. PICK pdus \in Seq(Pdu) : Connect(n, m.src, cs, pdus) /\ ~Carries(pdus, T) /\ Once(pdus, T)
  BY <1>1, <1>2, GrantConnects
<1>4. OnceIn(T)
  OBVIOUS
<1>5. cs \in Conns /\ OnWayOnce(cs, T) /\ (OnWay(cs, T) => OnWay(conn, T))
  BY <1>1, ClosingKept DEF TypeOK, Conns, OnceIn
<1> HIDE DEF T
<1>6. OnWayOnce(conn', T) /\ (OnWay(conn', T) => OnWay(conn, T))
  BY <1>1, <1>3, <1>5, ConnectOnWay
<1>7. OnceIn(T)' /\ (Somewhere(T)' => Somewhere(T))
  BY <1>1, <1>4, <1>6, TakenKeptIn
<1>8. ASSUME m \in T PROVE ~Somewhere(T)'
  <2>1. OthersQueues(n) /\ Queued(T, n) /\ ~Queued(T, n)'
    BY <1>1, <1>4, <1>8, TakenOut
  <2>2. ~OnWay(conn', T) /\ \A y \in Node \ {n} : ~Queued(T, y)
    BY <1>4, <1>6, <2>1 DEF OnceIn
  <2>3. \A y \in Node \ {n} : ~Queued(T, y)'
    BY <2>1, <2>2 DEF OthersQueues, Queued
  <2> QED
    BY <2>1, <2>2, <2>3 DEF Somewhere
<1> QED
  BY <1>7, <1>8 DEF NoneNew, T

(* The steps that move no PDU, and those that bring a datagram.             *)
LEMMA QuietKept ==
  ASSUME TypeOK, NEW n \in Node,
         \/ JoinAccept(n) \/ Q5Accept(n) \/ Q17Accept(n) \/ Drained(n) \/ StartFirst(n)
         \/ \E r \in requests : ClientSend(n, r),
         NEW x, OnceIn(JoinsOf(x))
  PROVE  NoneNew(x)
<1> DEFINE T == JoinsOf(x)
<1>1. UNCHANGED <<queue, conn>>
  BY DEF JoinAccept, Q5Accept, Q17Accept, Drained, StartFirst, ClientSend, inbox, net
<1>2. \A y \in Node : udp'[y] \cap T = udp[y] \cap T
  <2>1. CASE UNCHANGED udp
    BY <2>1
  <2>2. CASE \E r \in requests : ClientSend(n, r)
    <3>1. PICK r \in requests : udp' = [udp EXCEPT ![n] = udp[n] \cup {r}]
      BY <2>2 DEF ClientSend
    <3>2. r.type # "NET_JOIN"
      BY RequestsAreValues
    <3> QED
      BY <3>1, <3>2 DEF TypeOK, JoinsOf
  <2> QED
    BY <2>1, <2>2 DEF JoinAccept, Q5Accept, Q17Accept, Drained, StartFirst, inbox
<1> HIDE DEF T
<1>3. OnceIn(T)
  BY DEF T
<1> QED
  BY <1>1, <1>2, <1>3, StayIn DEF NoneNew, T

LEMMA StartJoinKept ==
  ASSUME TypeOK, NEW n \in Node, NEW e \in Node, StartJoin(n, e), NEW x, OnceIn(JoinsOf(x)),
         x = n => ~Somewhere(JoinsOf(x))
  PROVE  OnceIn(JoinsOf(x))' /\ (x # n => NoneNew(x))
<1> DEFINE T == JoinsOf(x)
           j == JoinPdu(n, None, 0)
<1>1. UNCHANGED <<queue, conn>> /\ udp' = [udp EXCEPT ![e] = udp[e] \cup {j}]
  BY DEF StartJoin, net
<1>2. j \in Pdu /\ j.type = "NET_JOIN" /\ j.src = n
  BY PduConstructors DEF JoinPdu
<1>3. /\ udp'[e] = udp[e] \cup {j}
      /\ \A y \in Node \ {e} : udp'[y] = udp[y]
  BY <1>1 DEF TypeOK
<1>4. CASE x # n
  <2>1. j \notin T
    BY <1>2, <1>4 DEF JoinsOf
  <2> HIDE DEF T, j
  <2>2. \A y \in Node : udp'[y] \cap T = udp[y] \cap T
    BY <1>3, <2>1
  <2>3. OnceIn(T)
    BY DEF T
  <2> QED
    BY <1>1, <2>2, <2>3, StayIn DEF NoneNew, T
<1>5. CASE x = n
  <2> HIDE DEF T, j
  <2>1. ~Somewhere(T) /\ OnceIn(T)
    BY <1>5 DEF T
  <2>2. \A y \in Node \ {e} : QueuedOnce(T, y)' /\ ~Queued(T, y)'
    BY <1>1, <1>3, <2>1 DEF Somewhere, OnceIn, Queued, QueuedOnce
  <2>3. ~Carries(queue'[e], T) /\ Once(queue'[e], T) /\ udp[e] \cap T = {}
    BY <1>1, <2>1 DEF Somewhere, OnceIn, Queued, QueuedOnce
  <2>4. \A a \in udp'[e] \cap T : a = j
    BY <1>3, <2>3
  <2>5. QueuedOnce(T, e)'
    BY <2>3, <2>4 DEF QueuedOnce
  <2>6. OnWayOnce(conn', T) /\ ~OnWay(conn', T)
    BY <1>1, <2>1 DEF OnceIn, Somewhere
  <2>7. OnceIn(T)'
    BY <2>2, <2>5, <2>6 DEF OnceIn
  <2> QED
    BY <1>5, <2>7 DEF T
<1> QED
  BY <1>4, <1>5
-----------------------------------------------------------------------------
(* Grants.  While nobody leaves, a node owns hashes from the time its range *)
(* is on its way to it.                                                     *)

LEMMA GrantsIs ==
  ASSUME NEW x
  PROVE  /\ Grants(x) = IF Joining(x) THEN {c \in Incoming(x) : Response(conn[c].up)} ELSE {}
         /\ Grants(x)' = IF Joining(x)' THEN {c \in Incoming(x)' : Response(conn'[c].up)} ELSE {}
BY DEF Grants, Incoming, Response, ToSet

LoOf(n) == IF ~Member(n) THEN 0 ELSE IF Joining(n) THEN Grant(n).lo ELSE start[n]
HiOf(n) == IF ~Member(n) THEN 0 ELSE IF Joining(n) THEN Grant(n).hi ELSE end[n]

(* The node that n connects to, or will when it reads its response.         *)
NextOf(n) == IF ~Member(n) THEN None ELSE IF Joining(n) THEN Grant(n).next ELSE successor[n]

(* x owns what it owned and has the successor it had.                       *)
Keeps(x) ==
  /\ Member(x)' <=> Member(x)
  /\ LoOf(x)' = LoOf(x) /\ HiOf(x)' = HiOf(x) /\ NextOf(x)' = NextOf(x)

LEMMA ServingOwns ==
  ASSUME NobodyLeaves, NEW x \in Node, Serving(x)
  PROVE  /\ Member(x) /\ Grants(x) = {}
         /\ LoOf(x) = start[x] /\ HiOf(x) = end[x] /\ NextOf(x) = successor[x]
<1>1. ~Joining(x) /\ ~Released(x)
  BY DEF Serving, Joining, NobodyLeaves, Released
<1> QED
  BY <1>1, GrantsIs DEF Member, LoOf, HiOf, NextOf

LEMMA ServingOwnsNext ==
  ASSUME NobodyLeaves', NEW x \in Node, Serving(x)'
  PROVE  /\ Member(x)' /\ Grants(x)' = {}
         /\ LoOf(x)' = start'[x] /\ HiOf(x)' = end'[x] /\ NextOf(x)' = successor'[x]
<1>1. ~Joining(x)' /\ ~Released(x)'
  BY DEF Serving, Joining, NobodyLeaves, Released
<1> QED
  BY <1>1, GrantsIs DEF Member, LoOf, HiOf, NextOf

(* What n sends and takes changes nobody's grant: no response is sent, and  *)
(* only n takes one.                                                        *)
Mute(n, cs) ==
  \A c \in Conn : conn[c].srv /\ c # sockfd_d[n].conn =>
    /\ cs[c].srv
    /\ Response(cs[c].up) <=> Response(conn[c].up)
    /\ Response(conn[c].up) => Head(cs[c].up) = Head(conn[c].up)

LEMMA MuteNothing ==
  ASSUME NEW n
  PROVE  Mute(n, conn)
BY DEF Mute

LEMMA AppendedResponse ==
  ASSUME NEW s \in Seq(Pdu), NEW t \in Seq(Pdu), ~Response(t)
  PROVE  /\ Response(s \o t) <=> Response(s)
         /\ Response(s) => Head(s \o t) = Head(s)
<1>1. CASE s = <<>>
  <2>1. s \o t = t
    BY <1>1
  <2> QED
    BY <1>1, <2>1 DEF Response
<1>2. CASE s # <<>>
  <2>1. s \o t # <<>> /\ Head(s \o t) = Head(s)
    BY <1>2
  <2> QED
    BY <1>2, <2>1 DEF Response
<1> QED
  BY <1>1, <1>2

LEMMA MuteSent ==
  ASSUME TypeOK, NEW n \in Node, NEW cs \in Conns, Mute(n, cs),
         NEW pdus \in Seq(Pdu), ~Response(pdus)
  PROVE  Mute(n, Sent(cs, "B", sockfd_b[n], pdus))
<1> DEFINE b   == sockfd_b[n]
           new == Sent(cs, "B", b, pdus)
<1>1. \A c \in Conn : cs[c].up \in Seq(Pdu)
  BY DEF Conns, ConnRecord
<1>2. \A c \in Conn : /\ new[c].srv = cs[c].srv
                      /\ new[c].up = cs[c].up \/ new[c].up = cs[c].up \o pdus
  BY DEF Sent, Conns, ConnRecord
<1> HIDE DEF new
<1>3. ASSUME NEW c \in Conn
      PROVE  /\ Response(new[c].up) <=> Response(cs[c].up)
             /\ Response(cs[c].up) => Head(new[c].up) = Head(cs[c].up)
  <2>1. CASE new[c].up = cs[c].up
    BY <2>1 DEF Response
  <2>2. CASE new[c].up = cs[c].up \o pdus
    BY <1>1, <2>2, AppendedResponse DEF Response
  <2> QED
    BY <1>2, <2>1, <2>2
<1> HIDE DEF b
<1>4. Mute(n, new)
  BY <1>2, <1>3 DEF Mute
<1> QED
  BY <1>4 DEF new, b

LEMMA MuteShut ==
  ASSUME TypeOK, NEW n \in Node, NEW cs \in Conns, Mute(n, cs), NEW side \in {"B", "D"}
  PROVE  Mute(n, Shut(cs, side, SockOf(n, side)))
<1> DEFINE s   == SockOf(n, side)
           new == Shut(cs, side, s)
<1>1. \A c \in Conn : c # s.conn => new[c] = cs[c]
  BY DEF Shut, Conns
<1>2. CASE side = "D"
  BY <1>1, <1>2 DEF Mute, SockOf
<1>3. CASE side = "B"
  <2>1. \A c \in Conn : cs[c].srv => new[c].srv /\ new[c].up = cs[c].up
    <3>1. \A c \in Conn : c = s.conn /\ s.conn # NoConn => new[c] = Closed(cs[c], TRUE, FALSE)
      BY <1>3 DEF Shut, Conns
    <3>2. \A c \in Conn : c = s.conn /\ s.conn = NoConn => new[c] = cs[c]
      BY DEF Shut
    <3>3. \A c \in Conn : cs[c] \in ConnRecord
      BY DEF Conns
    <3> HIDE DEF new, s
    <3> QED
      BY <1>1, <3>1, <3>2, <3>3, ClosedEnds
  <2> HIDE DEF new
  <2>2. Mute(n, new)
    BY <2>1 DEF Mute, Response
  <2> QED
    BY <2>2 DEF new
<1> QED
  BY <1>2, <1>3

LEMMA MuteSetInbound ==
  ASSUME TypeOK, NEW n \in Node, NEW cs \in Conns, Mute(n, cs), NEW side \in {"B", "D"},
         NEW data \in Seq(Pdu)
  PROVE  Mute(n, SetInbound(cs, side, SockOf(n, side), data))
<1> DEFINE s   == SockOf(n, side)
           new == SetInbound(cs, side, s, data)
<1>1. CASE side = "D"
  <2>1. \A c \in Conn : c # sockfd_d[n].conn => new[c] = cs[c]
    BY <1>1 DEF SetInbound, Conns, SockOf
  <2> QED
    BY <2>1 DEF Mute
<1>2. CASE side = "B"
  <2>1. \A c \in Conn : new[c].srv = cs[c].srv /\ new[c].up = cs[c].up
    BY <1>2 DEF SetInbound, Conns, ConnRecord
  <2> HIDE DEF new
  <2>2. Mute(n, new)
    BY <2>1 DEF Mute, Response
  <2> QED
    BY <2>2 DEF new
<1> QED
  BY <1>1, <1>2

LEMMA MuteConnect ==
  ASSUME TypeOK, NEW n \in Node, NEW to \in Node, NEW cs \in Conns, Mute(n, cs), NEW pdus,
         Connect(n, to, cs, pdus)
  PROVE  /\ Mute(n, conn')
         /\ \E c \in Conn : conn'[c].up = pdus /\ backlog' = [backlog EXCEPT ![to] = Append(@, c)]
<1>1. PICK c \in Conn :
        /\ ~cs[c].srv
        /\ conn' = [cs EXCEPT ![c] = [cli |-> TRUE, srv |-> TRUE, up |-> pdus,
                                      down |-> <<>>, rst |-> FALSE]]
        /\ backlog' = [backlog EXCEPT ![to] = Append(@, c)]
  BY DEF Connect, IsFree
<1>2. conn'[c].up = pdus /\ \A e \in Conn : e # c => conn'[e] = cs[e]
  BY <1>1 DEF Conns
<1>3. Mute(n, conn')
  BY <1>1, <1>2 DEF Mute
<1> QED
  BY <1>1, <1>2, <1>3

LEMMA MuteClosing ==
  ASSUME TypeOK, NEW n \in Node
  PROVE  Closing(n) \in Conns /\ Mute(n, Closing(n))
<1> DEFINE cs == Sent(conn, "B", sockfd_b[n], <<Close>>)
<1>1. <<Close>> \in Seq(Pdu) /\ ~Response(<<Close>>)
  <2>1. Close.type # "NET_JOIN_RESPONSE"
    BY DEF Close
  <2> QED
    BY <2>1, PduConstructors DEF Response
<1>2. conn \in Conns /\ sockfd_b[n] \in Sock
  BY DEF TypeOK, Conns
<1>3. cs \in Conns
  BY <1>1, <1>2, ConnTypes
<1>4. Mute(n, cs)
  BY <1>1, <1>2, MuteNothing, MuteSent
<1> HIDE DEF cs
<1>5. Mute(n, Shut(cs, "B", SockOf(n, "B")))
  BY <1>3, <1>4, MuteShut
<1> QED
  BY <1>5, CloseBTypes DEF Closing, SockOf, cs
-----------------------------------------------------------------------------
(* The grants of the other nodes. *)

LEMMA OtherGrants ==
  ASSUME ServerEnds, NEW n \in Node, NEW x \in Node \ {n}, Mute(n, conn'),
         pc'[x] = pc[x], NEW new \in SUBSET Conn, Incoming(x)' = Incoming(x) \cup new
  PROVE  /\ Grants(x)' = Grants(x) \cup
              IF Joining(x) THEN {c \in new : Response(conn'[c].up)} ELSE {}
         /\ \A c \in Grants(x) : Head(conn'[c].up) = Head(conn[c].up)
<1>1. \A c \in Incoming(x) : c \in Conn /\ conn[c].srv /\ c # sockfd_d[n].conn
  BY DEF ServerEnds, Incoming
<1>2. \A c \in Incoming(x) : /\ Response(conn'[c].up) <=> Response(conn[c].up)
                             /\ Response(conn[c].up) => Head(conn'[c].up) = Head(conn[c].up)
  BY <1>1 DEF Mute, Response
<1>3. Joining(x)' <=> Joining(x)
  BY DEF Joining
<1>4. CASE ~Joining(x)
  BY <1>3, <1>4, GrantsIs
<1>5. CASE Joining(x)
  <2>1. /\ Grants(x) = {c \in Incoming(x) : Response(conn[c].up)}
        /\ Grants(x)' = {c \in Incoming(x)' : Response(conn'[c].up)}
    BY <1>3, <1>5, GrantsIs
  <2>2. Grants(x)' = Grants(x) \cup {c \in new : Response(conn'[c].up)}
    BY <1>2, <2>1 DEF Response
  <2> QED
    BY <1>2, <1>5, <2>1, <2>2
<1> QED
  BY <1>4, <1>5

LEMMA GrantKeeps ==
  ASSUME NobodyLeaves, NobodyLeaves', NEW x \in Node,
         Joining(x)' <=> Joining(x), Serving(x)' <=> Serving(x),
         start'[x] = start[x], end'[x] = end[x], successor'[x] = successor[x],
         Grants(x)' = Grants(x),
         \A c \in Grants(x) : Head(conn'[c].up) = Head(conn[c].up)
  PROVE  Keeps(x)
<1>1. (Joining(x)' <=> Joining(x)) /\ (Serving(x)' <=> Serving(x))
  OBVIOUS
<1>2. ~Released(x) /\ ~Released(x)'
  BY DEF NobodyLeaves, Released
<1>3. Member(x)' <=> Member(x)
  BY <1>1, <1>2 DEF Member
<1>4. CASE Joining(x) /\ Member(x)
  <2>1. Grants(x) # {}
    BY <1>4 DEF Member, Joining, Serving
  <2> DEFINE c == CHOOSE e \in Grants(x) : TRUE
             d == CHOOSE e \in Grants(x)' : TRUE
  <2>2. c \in Grants(x) /\ d = c
    BY <2>1
  <2>3. Grant(x) = Head(conn[c].up) /\ Grant(x)' = Head(conn'[d].up)
    BY DEF Grant
  <2> HIDE DEF c, d
  <2>4. Grant(x)' = Grant(x)
    BY <2>2, <2>3
  <2> QED
    BY <1>1, <1>3, <1>4, <2>4 DEF Keeps, LoOf, HiOf, NextOf
<1>5. CASE ~(Joining(x) /\ Member(x))
  BY <1>1, <1>3, <1>5 DEF Keeps, LoOf, HiOf, NextOf
<1> QED
  BY <1>4, <1>5

(* A node that n does not connect to. *)
LEMMA OtherKeeps ==
  ASSUME JoinsOnly, NobodyLeaves', NEW n \in Node, NEW x \in Node \ {n}, Mute(n, conn'),
         pc'[x] = pc[x], start'[x] = start[x], end'[x] = end[x], successor'[x] = successor[x],
         sockfd_d'[x] = sockfd_d[x], backlog'[x] = backlog[x]
  PROVE  Grants(x)' = Grants(x) /\ Keeps(x)
<1>1. Incoming(x)' = Incoming(x) \cup {}
  BY DEF Incoming
<1>2. ServerEnds /\ NobodyLeaves
  BY DEF JoinsOnly, JoinInv, Links, RangeInv
<1>3. /\ Grants(x)' = Grants(x) \cup IF Joining(x) THEN {c \in {} : Response(conn'[c].up)} ELSE {}
      /\ \A c \in Grants(x) : Head(conn'[c].up) = Head(conn[c].up)
  BY <1>1, <1>2, OtherGrants
<1>4. Grants(x)' = Grants(x)
  BY <1>3
<1>5. (Joining(x)' <=> Joining(x)) /\ (Serving(x)' <=> Serving(x))
  BY DEF Joining, Serving
<1> QED
  BY <1>2, <1>3, <1>4, <1>5, GrantKeeps

(* The node that n connects to. *)
LEMMA TargetGrants ==
  ASSUME JoinsOnly, NobodyLeaves', NEW n \in Node, NEW x \in Node \ {n}, Mute(n, conn'),
         pc'[x] = pc[x], start'[x] = start[x], end'[x] = end[x], successor'[x] = successor[x],
         sockfd_d'[x] = sockfd_d[x], NEW c \in Conn, backlog' = [backlog EXCEPT ![x] = Append(@, c)]
  PROVE  /\ ~Response(conn'[c].up) => Grants(x)' = Grants(x) /\ Keeps(x)
         /\ Response(conn'[c].up) /\ Joining(x) /\ Grants(x) = {} =>
              /\ Grants(x)' = {c} /\ Member(x)'
              /\ LoOf(x)' = Head(conn'[c].up).lo /\ HiOf(x)' = Head(conn'[c].up).hi
              /\ NextOf(x)' = Head(conn'[c].up).next
<1>1. backlog[x] \in Seq(Conn) /\ backlog'[x] = Append(backlog[x], c)
  BY DEF JoinsOnly, TypeOK
<1>2. Incoming(x)' = Incoming(x) \cup {c}
  <2>1. \A e : (\E i \in DOMAIN backlog'[x] : e = backlog'[x][i]) <=>
                 (e = c \/ \E i \in DOMAIN backlog[x] : e = backlog[x][i])
    <3>1. /\ DOMAIN backlog[x] = 1 .. Len(backlog[x]) /\ Len(backlog[x]) \in Nat
          /\ DOMAIN backlog'[x] = 1 .. (Len(backlog[x]) + 1)
          /\ backlog'[x][Len(backlog[x]) + 1] = c
          /\ \A i \in 1 .. Len(backlog[x]) : backlog'[x][i] = backlog[x][i]
      BY <1>1
    <3> QED
      BY <3>1
  <2> QED
    BY <2>1 DEF Incoming
<1>3. ServerEnds /\ NobodyLeaves
  BY DEF JoinsOnly, JoinInv, Links, RangeInv
<1>4. /\ Grants(x)' = Grants(x) \cup IF Joining(x) THEN {e \in {c} : Response(conn'[e].up)} ELSE {}
      /\ \A e \in Grants(x) : Head(conn'[e].up) = Head(conn[e].up)
  <2> DEFINE new == {c}
  <2>1. new \in SUBSET Conn /\ Incoming(x)' = Incoming(x) \cup new
    BY <1>2
  <2> HIDE DEF new
  <2>2. /\ Grants(x)' = Grants(x) \cup IF Joining(x) THEN {e \in new : Response(conn'[e].up)} ELSE {}
        /\ \A e \in Grants(x) : Head(conn'[e].up) = Head(conn[e].up)
    BY <1>3, <2>1, OtherGrants
  <2> QED
    BY <2>2 DEF new
<1>5. CASE ~Response(conn'[c].up)
  <2>1. Grants(x)' = Grants(x)
    BY <1>4, <1>5
  <2>2. (Joining(x)' <=> Joining(x)) /\ (Serving(x)' <=> Serving(x))
    BY DEF Joining, Serving
  <2> QED
    BY <1>3, <1>4, <1>5, <2>1, <2>2, GrantKeeps
<1>6. ASSUME Response(conn'[c].up), Joining(x), Grants(x) = {}
      PROVE  /\ Grants(x)' = {c} /\ Member(x)'
             /\ LoOf(x)' = Head(conn'[c].up).lo /\ HiOf(x)' = Head(conn'[c].up).hi
             /\ NextOf(x)' = Head(conn'[c].up).next
  <2>1. Grants(x)' = {c}
    BY <1>4, <1>6 DEF Response
  <2>2. Member(x)' /\ Joining(x)'
    BY <1>6, <2>1 DEF Member, Joining
  <2> DEFINE d == CHOOSE e \in Grants(x)' : TRUE
  <2>3. d = c
    BY <2>1
  <2>4. Grant(x)' = Head(conn'[d].up)
    BY DEF Grant
  <2> HIDE DEF d
  <2> QED
    BY <2>1, <2>2, <2>3, <2>4 DEF LoOf, HiOf, NextOf
<1> QED
  BY <1>5, <1>6
-----------------------------------------------------------------------------
(* The invariant of a join: whoever's NET_JOIN is under way is waiting, and *)
(* has been granted nothing; nobody is granted two ranges.                  *)

Asking(x) ==
  OnceIn(JoinsOf(x)) /\ (Somewhere(JoinsOf(x)) => Joining(x) /\ Grants(x) = {})
OneGrant(x) == \A c, d \in Grants(x) : c = d
Grantees == \A x \in Node : Asking(x) /\ OneGrant(x)

(* Nobody's range changes. *)
Stutters == \A x \in Node : Keeps(x)

LEMMA AskingStays ==
  ASSUME NEW x, Asking(x), OneGrant(x), NoneNew(x), Grants(x)' \subseteq Grants(x),
         Joining(x) => Joining(x)' \/ Grants(x) # {}
  PROVE  Asking(x)' /\ OneGrant(x)'
<1>1. OneGrant(x)'
  BY DEF OneGrant
<1>2. Asking(x)'
  BY DEF Asking, NoneNew
<1> QED
  BY <1>1, <1>2

(* A step of n that concerns nobody else's socket, no range, no successor.  *)
OnlyOwn(n) ==
  \A x \in Node \ {n} : /\ pc'[x] = pc[x] /\ start'[x] = start[x] /\ end'[x] = end[x]
                        /\ successor'[x] = successor[x]
                        /\ sockfd_d'[x] = sockfd_d[x] /\ backlog'[x] = backlog[x]
OwnStep(n) ==
  /\ OnlyOwn(n) /\ Mute(n, conn')
  /\ Serving(n) /\ Serving(n)' /\ start'[n] = start[n] /\ end'[n] = end[n]
  /\ successor'[n] = successor[n]

LEMMA OwnKeeps ==
  ASSUME NobodyLeaves, NobodyLeaves', NEW n \in Node, Serving(n), Serving(n)',
         start'[n] = start[n], end'[n] = end[n], successor'[n] = successor[n]
  PROVE  Keeps(n) /\ Grants(n) = {} /\ Grants(n)' = {}
BY ServingOwns, ServingOwnsNext DEF Keeps

LEMMA OwnStutters ==
  ASSUME JoinsOnly, JoinsOnly', Grantees, NEW n \in Node, OwnStep(n), \A x \in Node : NoneNew(x)
  PROVE  Stutters /\ Grantees'
<1>1. NobodyLeaves /\ NobodyLeaves'
  BY DEF JoinsOnly, RangeInv
<1>2. Keeps(n) /\ Grants(n) = {} /\ Grants(n)' = {}
  BY <1>1, OwnKeeps DEF OwnStep
<1>3. \A x \in Node \ {n} : Grants(x)' = Grants(x) /\ Keeps(x)
  BY <1>1, OtherKeeps DEF OwnStep, OnlyOwn
<1>4. ASSUME NEW x \in Node PROVE Asking(x)' /\ OneGrant(x)'
  <2>1. Joining(x) => Joining(x)'
    BY DEF OwnStep, OnlyOwn, Joining, Serving
  <2>2. Grants(x)' \subseteq Grants(x)
    BY <1>2, <1>3
  <2> QED
    BY <2>1, <2>2, AskingStays DEF Grantees
<1> QED
  BY <1>2, <1>3, <1>4 DEF Stutters, Grantees

LEMMA SilentPdu ==
  ASSUME NEW m \in Pdu, m.type # "NET_JOIN_RESPONSE"
  PROVE  <<m>> \in Seq(Pdu) /\ ~Response(<<m>>)
BY DEF Response

LEMMA HandlersOwn ==
  ASSUME JoinsOnly, JoinsOnly', NEW n \in Node, NEW kind \in {"udp", "tcp"}, NEW m,
         \/ Q14(n, kind, m) \/ Q17(n, kind, m)
         \/ Q9Serve(n, kind, m) \/ Q9Forward(n, kind, m)
         \/ SendFailed(n, kind, m) \/ Ignore(n, kind, m)
  PROVE  OwnStep(n)
<1>1. /\ NextPdu(n, kind, m) /\ UNCHANGED <<start, end, successor, backlog>>
      /\ \/ Return(n, kind) \/ (\E b, d \in Sock : Nested(n, kind, b, d))
         \/ Goto(n, "q17_accept")
  <2>1. sockfd_b[n] \in Sock /\ sockfd_d[n] \in Sock /\ NoSock \in Sock
    BY SocketTypes DEF JoinsOnly, TypeOK
  <2>2. CASE Q17(n, kind, m)
    BY <2>1, <2>2 DEF Q17
  <2>3. CASE Q14(n, kind, m)
    BY <2>1, <2>3 DEF Q14, ring
  <2>4. CASE ~Q17(n, kind, m) /\ ~Q14(n, kind, m)
    BY <2>4 DEF Q9Serve, Q9Forward, SendFailed, Ignore, ring, net
  <2> QED
    BY <2>2, <2>3, <2>4
<1>2. TypeOK /\ conn \in Conns /\ Serving(n) /\ m \in Pdu
  BY <1>1, Handled DEF JoinsOnly, TypeOK, Conns
<1>3. Running(n) /\ \A x \in Node \ {n} : pc'[x] = pc[x]
  BY <1>1, <1>2, HandlerPlace
<1>4. Serving(n)'
  BY <1>3 DEF Running, Serving, JoinsOnly, GrowInv
<1>5. \A x \in Node \ {n} : sockfd_d'[x] = sockfd_d[x]
  <2>1. CASE Q17(n, kind, m)
    BY <1>2, <2>1 DEF Q17, TypeOK
  <2>2. CASE ~Q17(n, kind, m)
    BY <2>2 DEF Q14, Q9Serve, Q9Forward, SendFailed, Ignore, socks
  <2> QED
    BY <2>1, <2>2
<1>6. Mute(n, conn')
  <2>1. CASE Q17(n, kind, m)
    <3>1. conn' = Shut(conn, "D", SockOf(n, "D"))
      BY <2>1 DEF Q17, SockOf
    <3> QED
      BY <1>2, <3>1, MuteNothing, MuteShut
  <2>2. CASE Q14(n, kind, m)
    <3> DEFINE sent == WithWidest(n, m)
    <3>1. m.type = "NET_JOIN" /\ conn' = Sent(conn, "B", sockfd_b[n], <<sent>>)
      BY <2>2 DEF Q14
    <3>2. sent \in Pdu /\ sent.type # "NET_JOIN_RESPONSE"
      BY <1>2, <3>1, WithWidestType, JoinFields DEF WithWidest
    <3> HIDE DEF sent
    <3>3. <<sent>> \in Seq(Pdu) /\ ~Response(<<sent>>)
      BY <3>2, SilentPdu
    <3> QED
      BY <1>2, <3>1, <3>3, MuteNothing, MuteSent
  <2>3. CASE Q9Forward(n, kind, m)
    <3>1. m.type # "NET_JOIN_RESPONSE" /\ conn' = Sent(conn, "B", sockfd_b[n], <<m>>)
      BY <2>3 DEF Q9Forward, ValPdu
    <3>2. <<m>> \in Seq(Pdu) /\ ~Response(<<m>>)
      BY <1>2, <3>1, SilentPdu
    <3> QED
      BY <1>2, <3>1, <3>2, MuteNothing, MuteSent
  <2>4. CASE Q9Serve(n, kind, m) \/ SendFailed(n, kind, m) \/ Ignore(n, kind, m)
    <3>1. conn' = conn
      BY <2>4 DEF Q9Serve, SendFailed, Ignore, net
    <3> QED
      BY <3>1, MuteNothing
  <2> QED
    BY <2>1, <2>2, <2>3, <2>4
<1> QED
  BY <1>1, <1>2, <1>3, <1>4, <1>5, <1>6 DEF OwnStep, OnlyOwn

LEMMA LoopOwn ==
  ASSUME JoinsOnly, JoinsOnly', NEW n \in Node,
         \/ Q5Accept(n) \/ Q17Accept(n) \/ Drained(n)
         \/ \E r \in requests : ClientSend(n, r)
  PROVE  OwnStep(n)
<1>1. UNCHANGED <<start, end, successor, conn>>
  BY DEF Q5Accept, Q17Accept, Drained, ClientSend, ring, net
<1>2. /\ pc \in [Node -> Control] /\ sockfd_d \in [Node -> Sock] /\ backlog \in [Node -> Seq(Conn)]
  BY DEF JoinsOnly, TypeOK
<1>3. /\ \A x \in Node \ {n} : pc'[x] = pc[x] /\ sockfd_d'[x] = sockfd_d[x] /\ backlog'[x] = backlog[x]
      /\ Serving(n) /\ pc'[n] \in {"q6", "drain", pc[n]}
  <2>1. CASE Q5Accept(n)
    BY <1>2, <2>1 DEF Q5Accept, Goto, Serving
  <2>2. CASE Q17Accept(n)
    BY <1>2, <2>2 DEF Q17Accept, Goto, Serving
  <2>3. CASE Drained(n)
    BY <1>2, <2>3 DEF Drained, Goto, Serving, socks, net
  <2>4. CASE \E r \in requests : ClientSend(n, r)
    BY <2>4 DEF ClientSend, ctl, socks, net
  <2> QED
    BY <2>1, <2>2, <2>3, <2>4
<1>4. Serving(n)'
  BY <1>3 DEF Serving
<1>5. Mute(n, conn')
  BY <1>1, MuteNothing
<1> QED
  BY <1>1, <1>3, <1>4, <1>5 DEF OwnStep, OnlyOwn

LEMMA ReadOwn ==
  ASSUME JoinsOnly, JoinsOnly', NEW n \in Node, Read(n)
  PROVE  OwnStep(n)
<1>1. PICK side \in {"B", "D"}, eof \in BOOLEAN :
        \E j \in 0 .. Len(Inbound(conn, side, SockOf(n, side))) : ReadSocket(n, side, j, eof)
  BY DEF Read
<1>2. PICK i \in 0 .. Len(Inbound(conn, side, SockOf(n, side))) : ReadSocket(n, side, i, eof)
  BY <1>1
<1> DEFINE s    == SockOf(n, side)
           data == Inbound(conn, side, s)
           left == SubSeq(data, i + 1, Len(data))
           rest == SetInbound(conn, side, s, left)
<1>3. TypeOK /\ conn \in Conns /\ s \in Sock /\ s.conn # NoConn
  BY <1>2, SockOfType DEF ReadSocket, JoinsOnly, TypeOK, Conns
<1>4. left \in Seq(Pdu)
  <2>1. data \in Seq(Pdu) /\ i \in 0 .. Len(data)
    BY <1>3, ConnTypes
  <2> HIDE DEF data
  <2> QED
    BY <2>1
<1> HIDE DEF left
<1>5. rest \in Conns /\ Mute(n, rest)
  BY <1>3, <1>4, ConnTypes, MuteNothing, MuteSetInbound
<1>6. conn' = IF eof THEN Shut(rest, side, s) ELSE rest
  BY <1>2 DEF ReadSocket, left
<1> HIDE DEF rest
<1>7. Mute(n, conn')
  BY <1>3, <1>5, <1>6, MuteShut
<1>8. /\ pc[n] = "q6" /\ pc' = [pc EXCEPT ![n] = "drain"]
      /\ \A x \in Node \ {n} : sockfd_d'[x] = sockfd_d[x]
      /\ UNCHANGED <<start, end, successor, backlog>>
  BY <1>2, <1>3 DEF ReadSocket, Goto, ring, TypeOK
<1>9. pc'[n] = "drain" /\ \A x \in Node \ {n} : pc'[x] = pc[x]
  BY <1>3, <1>8 DEF TypeOK
<1> QED
  BY <1>7, <1>8, <1>9 DEF OwnStep, OnlyOwn, Serving

(* A connection that is accepted was in the backlog.                        *)
LEMMA AcceptIncoming ==
  ASSUME TypeOK, NEW n \in Node, sockfd_d[n] = NoSock, backlog[n] # <<>>,
         sockfd_d'[n].conn = Head(backlog[n]), backlog'[n] = Tail(backlog[n])
  PROVE  Incoming(n)' = Incoming(n)
<1>1. backlog[n] \in Seq(Conn) /\ sockfd_d[n].conn \notin Conn
  BY DEF TypeOK, NoSock, NoConn, Conn
<1>2. \A c : (\E i \in DOMAIN backlog[n] : c = backlog[n][i]) <=>
               (c = Head(backlog[n]) \/ \E i \in DOMAIN Tail(backlog[n]) : c = Tail(backlog[n])[i])
  <2> DEFINE s == backlog[n]
  <2>1. s \in Seq(Conn) /\ s # <<>>
    BY <1>1
  <2> HIDE DEF s
  <2>2. /\ DOMAIN s = 1 .. Len(s) /\ Len(s) \in Nat \ {0} /\ Head(s) = s[1]
        /\ DOMAIN Tail(s) = 1 .. (Len(s) - 1)
        /\ \A i \in 1 .. (Len(s) - 1) : Tail(s)[i] = s[i + 1]
    BY <2>1
  <2>3. \A i \in 1 .. Len(s) : i = 1 \/ (i - 1 \in 1 .. (Len(s) - 1) /\ (i - 1) + 1 = i)
    BY <2>2
  <2>4. \A i \in 1 .. (Len(s) - 1) : i + 1 \in 1 .. Len(s)
    BY <2>2
  <2>5. \A c : (\E i \in DOMAIN s : c = s[i]) <=> (c = Head(s) \/ \E i \in DOMAIN Tail(s) : c = Tail(s)[i])
    <3>1. ASSUME NEW i \in 1 .. Len(s), i # 1
          PROVE  i - 1 \in 1 .. (Len(s) - 1) /\ s[i] = Tail(s)[i - 1]
      BY <2>2, <2>3, <3>1
    <3>2. 1 \in 1 .. Len(s)
      BY <2>2
    <3>3. \A c : (\E i \in DOMAIN s : c = s[i]) => (c = Head(s) \/ \E i \in DOMAIN Tail(s) : c = Tail(s)[i])
      BY <2>2, <3>1
    <3>4. \A c : (c = Head(s) \/ \E i \in DOMAIN Tail(s) : c = Tail(s)[i]) => (\E i \in DOMAIN s : c = s[i])
      BY <2>2, <2>4, <3>2
    <3> QED
      BY <3>3, <3>4
  <2> QED
    BY <2>5 DEF s
<1>3. \A c \in Conn : c \in Incoming(n)' <=> c \in Incoming(n)
  <2> DEFINE h == Head(backlog[n])
             t == Tail(backlog[n])
             W(s, c) == \E i \in DOMAIN s : c = s[i]
  <2>1. \A c : W(backlog[n], c) <=> (c = h \/ W(t, c))
    BY <1>2
  <2>2. \A c \in Conn : W(backlog'[n], c) <=> W(t, c)
    OBVIOUS
  <2>3. sockfd_d'[n].conn = h
    OBVIOUS
  <2>4. \A c \in Conn : /\ c \in Incoming(n) <=> (c = sockfd_d[n].conn \/ W(backlog[n], c))
                        /\ c \in Incoming(n)' <=> (c = sockfd_d'[n].conn \/ W(backlog'[n], c))
    BY DEF Incoming
  <2> HIDE DEF h, t, W
  <2> QED
    BY <1>1, <2>1, <2>2, <2>3, <2>4
<1> QED
  BY <1>3 DEF Incoming

(* q7_state accepts: its range is where it was. *)
LEMMA JoinAcceptStutters ==
  ASSUME JoinsOnly, JoinsOnly', Grantees, NEW n \in Node, JoinAccept(n), \A x \in Node : NoneNew(x)
  PROVE  Stutters /\ Grantees'
<1>1. NobodyLeaves /\ NobodyLeaves' /\ TypeOK
  BY DEF JoinsOnly, RangeInv
<1>2. /\ pc[n] = "q7_accept" /\ pc' = [pc EXCEPT ![n] = "q7_recv"] /\ backlog[n] # <<>>
      /\ sockfd_d' = [sockfd_d EXCEPT ![n] = [fd |-> LowestFd(NoSock), conn |-> Head(backlog[n])]]
      /\ backlog' = [backlog EXCEPT ![n] = Tail(backlog[n])]
      /\ UNCHANGED <<start, end, successor, conn>>
  BY DEF JoinAccept, Goto
<1>3. /\ pc'[n] = "q7_recv" /\ sockfd_d'[n].conn = Head(backlog[n]) /\ backlog'[n] = Tail(backlog[n])
      /\ \A x \in Node \ {n} : pc'[x] = pc[x] /\ sockfd_d'[x] = sockfd_d[x] /\ backlog'[x] = backlog[x]
  BY <1>1, <1>2 DEF TypeOK
<1>4. Mute(n, conn')
  BY <1>2, MuteNothing
<1>5. \A x \in Node \ {n} : Grants(x)' = Grants(x) /\ Keeps(x)
  BY <1>1, <1>2, <1>3, <1>4, OtherKeeps
<1>6. Incoming(n)' = Incoming(n)
  <2>1. sockfd_d[n] = NoSock
    BY <1>2 DEF JoinsOnly, GrowInv, Sockets
  <2> QED
    BY <1>1, <1>2, <1>3, <2>1, AcceptIncoming
<1>7. (Joining(n)' <=> Joining(n)) /\ (Serving(n)' <=> Serving(n))
  BY <1>2, <1>3 DEF Joining, Serving
<1>8. Grants(n)' = Grants(n)
  BY <1>2, <1>6, <1>7, GrantsIs
<1>9. Keeps(n)
  BY <1>1, <1>2, <1>7, <1>8, GrantKeeps
<1>10. ASSUME NEW x \in Node PROVE Asking(x)' /\ OneGrant(x)'
  <2>1. Joining(x) => Joining(x)'
    BY <1>3, <1>7 DEF Joining
  <2>2. Grants(x)' \subseteq Grants(x)
    BY <1>5, <1>8
  <2> QED
    BY <2>1, <2>2, AskingStays DEF Grantees
<1> QED
  BY <1>5, <1>9, <1>10 DEF Stutters, Grantees

(* q7_state takes over the range it was granted. *)
LEMMA JoinRecvStutters ==
  ASSUME JoinsOnly, JoinsOnly', Grantees, NEW n \in Node, JoinRecv(n), \A x \in Node : NoneNew(x)
  PROVE  Stutters /\ Grantees'
<1> DEFINE d    == sockfd_d[n]
           data == conn[d.conn].up
           m    == Head(data)
           to   == m.next
<1>1. NobodyLeaves /\ NobodyLeaves' /\ TypeOK /\ conn \in Conns
  BY DEF JoinsOnly, RangeInv, TypeOK, Conns
<1>2. /\ pc[n] = "q7_recv" /\ d \in Sock /\ d.conn \in Conn /\ data \in Seq(Pdu) /\ Response(data)
      /\ to \in Node
      /\ pc' = [pc EXCEPT ![n] = "q6"]
      /\ start' = [start EXCEPT ![n] = m.lo] /\ end' = [end EXCEPT ![n] = m.hi]
      /\ successor' = [successor EXCEPT ![n] = m.next] /\ UNCHANGED sockfd_d
  BY JoinRecvStep
<1>3. PICK rest \in AfterOverRead(Tail(data)) : Connect(n, to, SetInbound(conn, "D", d, rest), <<>>)
  BY JoinRecvStep
<1>4. /\ pc'[n] = "q6" /\ start'[n] = m.lo /\ end'[n] = m.hi /\ successor'[n] = m.next
      /\ \A x \in Node \ {n} : /\ pc'[x] = pc[x] /\ start'[x] = start[x] /\ end'[x] = end[x]
                              /\ successor'[x] = successor[x]
  <2> HIDE DEF m
  <2> QED
    BY <1>1, <1>2 DEF TypeOK
<1>5. rest \in Seq(Pdu)
  <2>1. Tail(data) \in Seq(Pdu)
    <3> HIDE DEF data
    <3> QED
      BY <1>2 DEF Response
  <2> QED
    BY <2>1, OverReadTypes
<1> DEFINE cs == SetInbound(conn, "D", SockOf(n, "D"), rest)
<1>6. cs \in Conns /\ Mute(n, cs)
  <2>1. SockOf(n, "D") = d /\ d.conn # NoConn
    BY <1>2 DEF SockOf, Conn, NoConn
  <2> QED
    BY <1>1, <1>2, <1>5, <2>1, ConnTypes, MuteNothing, MuteSetInbound
<1>7. Connect(n, to, cs, <<>>)
  BY <1>3 DEF SockOf
<1> HIDE DEF cs, to
<1>8. Mute(n, conn') /\ \E c \in Conn : conn'[c].up = <<>> /\ backlog' = [backlog EXCEPT ![to] = Append(@, c)]
  BY <1>1, <1>2, <1>6, <1>7, MuteConnect
<1>9. PICK c \in Conn : conn'[c].up = <<>> /\ backlog' = [backlog EXCEPT ![to] = Append(@, c)]
  BY <1>8
<1>10. ~Response(conn'[c].up)
  BY <1>9 DEF Response
<1>11. ASSUME NEW x \in Node \ {n} PROVE Grants(x)' = Grants(x) /\ Keeps(x)
  <2>1. CASE x = to
    BY <1>1, <1>2, <1>4, <1>8, <1>9, <1>10, <2>1, TargetGrants
  <2>2. CASE x # to
    <3>1. backlog'[x] = backlog[x]
      BY <1>1, <1>9, <2>2 DEF TypeOK
    <3> QED
      BY <1>1, <1>2, <1>4, <1>8, <3>1, OtherKeeps
  <2> QED
    BY <2>1, <2>2
<1>12. Joining(n) /\ Grants(n) = {d.conn}
  <2>1. Joining(n)
    BY <1>2 DEF Joining
  <2>2. d.conn \in Incoming(n)
    BY <1>2 DEF Incoming
  <2>3. d.conn \in {g \in Incoming(n) : Response(conn[g].up)}
    BY <1>2, <2>2 DEF Response
  <2>4. d.conn \in Grants(n)
    BY <2>1, <2>3, GrantsIs
  <2> QED
    BY <2>1, <2>4 DEF Grantees, OneGrant
<1>13. LoOf(n) = m.lo /\ HiOf(n) = m.hi /\ NextOf(n) = m.next /\ Member(n)
  <2>1. Member(n)
    BY <1>12 DEF Member
  <2> DEFINE e == CHOOSE g \in Grants(n) : TRUE
  <2>2. e = d.conn
    BY <1>12
  <2>3. Grant(n) = Head(conn[e].up)
    BY DEF Grant
  <2> HIDE DEF e
  <2> QED
    BY <1>12, <2>1, <2>2, <2>3 DEF LoOf, HiOf, NextOf
<1>14. Serving(n)'
  BY <1>4 DEF Serving
<1>15. /\ Member(n)' /\ Grants(n)' = {}
       /\ LoOf(n)' = m.lo /\ HiOf(n)' = m.hi /\ NextOf(n)' = m.next
  BY <1>1, <1>4, <1>14, ServingOwnsNext
<1> HIDE DEF m
<1>16. Keeps(n)
  BY <1>13, <1>15 DEF Keeps
<1>17. ASSUME NEW x \in Node PROVE Asking(x)' /\ OneGrant(x)'
  <2>1. Joining(x) => Joining(x)' \/ Grants(x) # {}
    BY <1>4, <1>12 DEF Joining
  <2>2. Grants(x)' \subseteq Grants(x)
    BY <1>11, <1>15
  <2> QED
    BY <2>1, <2>2, AskingStays DEF Grantees
<1> QED
  BY <1>11, <1>16, <1>17 DEF Stutters, Grantees

(* A node that starts to ask owns nothing. *)
LEMMA StartJoinStutters ==
  ASSUME JoinsOnly, JoinsOnly', Grantees, NEW n \in Node, NEW e \in Node, StartJoin(n, e)
  PROVE  Stutters /\ Grantees'
<1>1. NobodyLeaves /\ NobodyLeaves' /\ TypeOK
  BY DEF JoinsOnly, RangeInv
<1>2. /\ pc[n] = "off" /\ pc' = [pc EXCEPT ![n] = "q7_accept"]
      /\ UNCHANGED <<start, end, successor, sockfd_d, backlog, conn>>
  BY DEF StartJoin, Goto, ring, socks, net
<1>3. pc'[n] = "q7_accept" /\ \A x \in Node \ {n} : pc'[x] = pc[x]
  BY <1>1, <1>2 DEF TypeOK
<1>4. Mute(n, conn')
  BY <1>2, MuteNothing
<1>5. \A x \in Node \ {n} : Grants(x)' = Grants(x) /\ Keeps(x)
  BY <1>1, <1>2, <1>3, <1>4, OtherKeeps
<1>6. Incoming(n)' = {}
  BY <1>2 DEF Incoming, JoinsOnly, RangeInv, EmptyUntilServing, NoSock, NoConn, Conn
<1>7. ~Joining(n) /\ ~Serving(n) /\ Joining(n)' /\ ~Serving(n)'
  BY <1>2, <1>3 DEF Joining, Serving
<1>8. Grants(n) = {} /\ Grants(n)' = {}
  BY <1>6, <1>7, GrantsIs
<1>9. Keeps(n)
  BY <1>7, <1>8 DEF Keeps, Member, LoOf, HiOf, NextOf
<1>10. ASSUME NEW x \in Node PROVE Asking(x)' /\ OneGrant(x)'
  <2>1. Asking(x) /\ OneGrant(x)
    BY DEF Grantees
  <2>2. CASE x = n
    <3>1. ~Somewhere(JoinsOf(x)) /\ OnceIn(JoinsOf(x))
      BY <1>7, <2>1, <2>2 DEF Asking
    <3>2. OnceIn(JoinsOf(x))'
      BY <1>1, <3>1, StartJoinKept
    <3> QED
      BY <1>7, <1>8, <2>2, <3>2 DEF Asking, OneGrant
  <2>3. CASE x # n
    <3>1. NoneNew(x)
      BY <1>1, <2>1, <2>3, StartJoinKept DEF Asking
    <3>2. Grants(x)' \subseteq Grants(x) /\ (Joining(x) => Joining(x)')
      BY <1>3, <1>5, <2>3 DEF Joining
    <3> QED
      BY <2>1, <3>1, <3>2, AskingStays
  <2> QED
    BY <2>2, <2>3
<1> QED
  BY <1>5, <1>9, <1>10 DEF Stutters, Grantees
-----------------------------------------------------------------------------
(* The steps that change who owns what: the first node starts, ...          *)
Founds(n) ==
  /\ \A x \in Node : ~Member(x)
  /\ \A x \in Node \ {n} : Keeps(x)
  /\ Member(n)' /\ LoOf(n)' = 0 /\ HiOf(n)' = MaxHash /\ NextOf(n)' = None

(* ... or q is granted the upper half of n's range, and goes between n and  *)
(* the node that followed it.                                               *)
NextFor(n) == IF NextOf(n) = None THEN n ELSE NextOf(n)
Splits(n, q) ==
  /\ Member(n) /\ ~Member(q) /\ Member(n)' /\ Member(q)'
  /\ LoOf(n)' = LoOf(n) /\ HiOf(n)' = Mid(LoOf(n), HiOf(n))
  /\ LoOf(q)' = UpperStart(LoOf(n), HiOf(n)) /\ HiOf(q)' = HiOf(n)
  /\ NextOf(n)' = q /\ NextOf(q)' = NextFor(n)
  /\ \A x \in Node \ {n, q} : Keeps(x)

LEMMA StartFirstOwns ==
  ASSUME JoinsOnly, JoinsOnly', Grantees, NEW n \in Node, StartFirst(n), \A x \in Node : NoneNew(x)
  PROVE  Founds(n) /\ Grantees'
<1>1. NobodyLeaves /\ NobodyLeaves' /\ TypeOK
  BY DEF JoinsOnly, RangeInv
<1>2. /\ pc[n] = "off" /\ \A x \in Node : ~Listening(x)
      /\ pc' = [pc EXCEPT ![n] = "q6"]
      /\ start' = [start EXCEPT ![n] = 0] /\ end' = [end EXCEPT ![n] = MaxHash]
      /\ UNCHANGED <<successor, sockfd_d, backlog, conn>>
  BY DEF StartFirst, Goto, socks, net
<1>3. /\ pc'[n] = "q6" /\ start'[n] = 0 /\ end'[n] = MaxHash
      /\ \A x \in Node \ {n} : pc'[x] = pc[x] /\ start'[x] = start[x] /\ end'[x] = end[x]
  BY <1>1, <1>2 DEF TypeOK
<1>4. Mute(n, conn')
  BY <1>2, MuteNothing
<1>5. \A x \in Node \ {n} : Grants(x)' = Grants(x) /\ Keeps(x)
  BY <1>1, <1>2, <1>3, <1>4, OtherKeeps
<1>6. \A x \in Node : ~Joining(x) /\ ~Serving(x)
  BY <1>2 DEF Listening, Joining, Serving
<1>7. \A x \in Node : Grants(x) = {} /\ ~Member(x)
  BY <1>6, GrantsIs DEF Member
<1>8. Serving(n)'
  BY <1>3 DEF Serving
<1>9. /\ Member(n)' /\ Grants(n)' = {}
      /\ LoOf(n)' = 0 /\ HiOf(n)' = MaxHash /\ NextOf(n)' = None
  <2>1. successor'[n] = None
    BY <1>2 DEF JoinsOnly, RangeInv, EmptyUntilServing
  <2> QED
    BY <1>1, <1>3, <1>8, <2>1, ServingOwnsNext
<1>10. ASSUME NEW x \in Node PROVE Asking(x)' /\ OneGrant(x)'
  <2>1. Grants(x)' \subseteq Grants(x)
    BY <1>5, <1>7, <1>9
  <2> QED
    BY <1>6, <2>1, AskingStays DEF Grantees
<1> QED
  BY <1>5, <1>7, <1>9, <1>10 DEF Grantees, Founds

LEMMA GrantOwns ==
  ASSUME JoinsOnly, JoinsOnly', Grantees,
         NEW n \in Node, NEW kind \in {"udp", "tcp"}, NEW m, Q5(n, kind, m) \/ Q13(n, kind, m)
  PROVE  m.src \in Node \ {n} /\ Splits(n, m.src) /\ Grantees'
<1> DEFINE q == m.src
<1>1. NobodyLeaves /\ NobodyLeaves' /\ TypeOK
  BY DEF JoinsOnly, RangeInv
<1>2. /\ NextPdu(n, kind, m) /\ Taken(n, kind, m) /\ q \in Node /\ m \in JoinsOf(q)
      /\ Serving(n) /\ Serving(n)'
      /\ \A x \in Node \ {n} : pc'[x] = pc[x]
      /\ UNCHANGED <<start, sockfd_d>> /\ end' = [end EXCEPT ![n] = Mid(start[n], end[n])]
      /\ successor' = [successor EXCEPT ![n] = q]
  BY GrantStep
<1>3. PICK next \in Node, cs \in {conn, Closing(n)} :
        /\ next = IF successor[n] = None THEN n ELSE successor[n]
        /\ GrantUpperHalf(n, q, next, cs)
  BY GrantStep
<1> HIDE DEF q
<1>4. PICK pdus \in Seq(Pdu) :
        /\ Connect(n, q, cs, pdus) /\ Response(pdus)
        /\ Head(pdus) = JoinResponse(next, UpperStart(start[n], end[n]), end[n])
  BY <1>1, <1>2, <1>3, GrantConnects
<1>5. cs \in Conns /\ Mute(n, cs)
  BY <1>1, MuteClosing, MuteNothing DEF TypeOK, Conns
<1>6. Mute(n, conn') /\ \E c \in Conn : conn'[c].up = pdus /\ backlog' = [backlog EXCEPT ![q] = Append(@, c)]
  BY <1>1, <1>2, <1>4, <1>5, MuteConnect
<1>7. PICK c \in Conn : conn'[c].up = pdus /\ backlog' = [backlog EXCEPT ![q] = Append(@, c)]
  BY <1>6
<1>8. Joining(q) /\ Grants(q) = {}
  <2>1. OnceIn(JoinsOf(q))
    BY <1>2 DEF Grantees, Asking
  <2>2. Queued(JoinsOf(q), n)
    BY <1>1, <1>2, <2>1, TakenOut
  <2>3. Somewhere(JoinsOf(q))
    BY <2>2 DEF Somewhere
  <2> QED
    BY <1>2, <2>3 DEF Grantees, Asking
<1>9. ~Serving(q) /\ q # n
  BY <1>2, <1>8 DEF Joining, Serving
<1>10. ~Member(q)
  BY <1>8, <1>9 DEF Member
<1>11. /\ end'[n] = Mid(start[n], end[n]) /\ successor'[n] = q
       /\ \A x \in Node \ {n} : end'[x] = end[x] /\ successor'[x] = successor[x]
  BY <1>1, <1>2 DEF TypeOK
<1>12. /\ Member(n) /\ LoOf(n) = start[n] /\ HiOf(n) = end[n] /\ Grants(n)' = {}
       /\ Member(n)' /\ LoOf(n)' = start[n] /\ HiOf(n)' = Mid(start[n], end[n])
       /\ NextOf(n) = successor[n] /\ NextOf(n)' = q
  BY <1>1, <1>2, <1>11, ServingOwns, ServingOwnsNext
<1>13. /\ Grants(q)' = {c} /\ Member(q)'
       /\ LoOf(q)' = Head(pdus).lo /\ HiOf(q)' = Head(pdus).hi /\ NextOf(q)' = Head(pdus).next
  <2>1. Response(conn'[c].up)
    BY <1>4, <1>7
  <2>2. q \in Node \ {n}
    BY <1>2, <1>9
  <2>3. /\ Grants(q)' = {c} /\ Member(q)'
        /\ LoOf(q)' = Head(conn'[c].up).lo /\ HiOf(q)' = Head(conn'[c].up).hi
        /\ NextOf(q)' = Head(conn'[c].up).next
    BY <1>1, <1>2, <1>6, <1>7, <1>8, <1>11, <2>1, <2>2, TargetGrants
  <2> QED
    BY <1>7, <2>3
<1>14. LoOf(q)' = UpperStart(start[n], end[n]) /\ HiOf(q)' = end[n] /\ NextOf(q)' = next
  BY <1>4, <1>13 DEF JoinResponse
<1>15. ASSUME NEW x \in Node \ {n, q} PROVE Grants(x)' = Grants(x) /\ Keeps(x)
  <2>1. backlog'[x] = backlog[x]
    BY <1>1, <1>7 DEF TypeOK
  <2> QED
    BY <1>1, <1>2, <1>6, <1>11, <2>1, OtherKeeps
<1>16. ASSUME NEW x \in Node PROVE Asking(x)' /\ OneGrant(x)'
  <2>1. NoneNew(x) /\ (x = q => ~Somewhere(JoinsOf(x))')
    BY <1>2, GrantKept DEF Grantees, Asking
  <2>2. CASE x = q
    BY <1>13, <2>1, <2>2 DEF Asking, OneGrant, NoneNew
  <2>3. CASE x # q
    <3>1. Grants(x)' \subseteq Grants(x)
      BY <1>12, <1>15, <2>3
    <3>2. Joining(x) => Joining(x)'
      BY <1>2 DEF Joining, Serving
    <3> QED
      BY <2>1, <3>1, <3>2, AskingStays DEF Grantees
  <2> QED
    BY <2>2, <2>3
<1>17. q \in Node \ {n}
  BY <1>2, <1>9
<1>18. LoOf(q)' = UpperStart(LoOf(n), HiOf(n)) /\ HiOf(q)' = HiOf(n)
       /\ LoOf(n)' = LoOf(n) /\ HiOf(n)' = Mid(LoOf(n), HiOf(n))
       /\ NextOf(n)' = q /\ NextOf(q)' = NextFor(n)
  BY <1>3, <1>12, <1>14 DEF NextFor
<1>19. Grantees'
  BY <1>16 DEF Grantees
<1>20. Splits(n, q)
  BY <1>10, <1>12, <1>13, <1>15, <1>18 DEF Splits
<1> QED
  BY <1>17, <1>19, <1>20 DEF q
-----------------------------------------------------------------------------
(* Room.  A join halves a range that at least doubles the room there is for *)
(* the nodes that are still outside.                                        *)

Members == {n \in Node : Member(n)}
Size(n) == HiOf(n) - LoOf(n) + 1

IsRoom(Room) ==
  /\ Room \in [Nat -> Nat \ {0}] /\ Room[0] = 1
  /\ \A k \in Nat : Room[k + 1] = 2 * Room[k]

Roomy(Room) ==
  \A x \in Members : /\ LoOf(x) \in Hash /\ HiOf(x) \in Hash
                     /\ Size(x) >= Room[Cardinality(Node) - Cardinality(Members)]

LEMMA Halves ==
  ASSUME NEW a \in Hash, NEW b \in Hash, NEW r \in Nat \ {0}, b - a + 1 >= 2 * r
  PROVE  /\ a < b
         /\ Mid(a, b) \in Hash /\ Mid(a, b) - a + 1 >= r
         /\ UpperStart(a, b) \in Hash /\ b - UpperStart(a, b) + 1 >= r
<1>1. a \in Nat /\ b \in Nat /\ b <= MaxHash /\ MaxHash \in Nat \ {0}
  BY MaxHashAssumption DEF Hash
<1>2. a < b
  BY <1>1
<1> DEFINE h == (b - a) \div 2
<1>3. h \in Nat /\ 2 * h <= b - a /\ b - a <= 2 * h + 1
  BY <1>1, <1>2
<1>4. Half(b - a) = h
  BY <1>1, <1>2 DEF Half
<1> HIDE DEF h
<1>5. h + a \in Nat /\ h + a < b
  BY <1>1, <1>2, <1>3
<1>6. \A i \in Nat : i <= MaxHash => i % (MaxHash + 1) = i
  BY <1>1
<1>7. Mid(a, b) = h + a
  BY <1>1, <1>4, <1>5, <1>6 DEF Mid, UInt8
<1>8. UpperStart(a, b) = h + a + 1
  BY <1>1, <1>5, <1>6, <1>7 DEF UpperStart, UInt8
<1> QED
  BY <1>1, <1>2, <1>3, <1>5, <1>7, <1>8 DEF Hash

LEMMA RoomGrows ==
  ASSUME NEW Room, IsRoom(Room), NEW k \in Nat
  PROVE  Room[k] \in Nat \ {0} /\ Room[k + 1] = 2 * Room[k] /\ Room[k + 1] >= Room[k]
BY DEF IsRoom

LEMMA KeptRoomy ==
  ASSUME NEW Room, Roomy(Room), Stutters
  PROVE  Roomy(Room)'
<1>1. Members' = Members
  BY DEF Stutters, Keeps, Members
<1>2. \A x \in Node : LoOf(x)' = LoOf(x) /\ HiOf(x)' = HiOf(x)
  BY DEF Stutters, Keeps
<1> QED
  BY <1>1, <1>2 DEF Roomy, Size, Members

LEMMA MembersAdd ==
  ASSUME NEW q \in Node, ~Member(q), Member(q)', \A x \in Node \ {q} : Member(x)' <=> Member(x)
  PROVE  /\ Members' = Members \cup {q} /\ q \notin Members
         /\ \E k \in Nat : /\ Cardinality(Node) - Cardinality(Members) = k + 1
                           /\ Cardinality(Node) - Cardinality(Members') = k
<1>1. Members' = Members \cup {q} /\ q \notin Members /\ Members \subseteq Node /\ Members' \subseteq Node
  BY DEF Members
<1>2. IsFiniteSet(Node)
  BY RingAssumption
<1>3. IsFiniteSet(Members) /\ IsFiniteSet(Members')
  BY <1>1, <1>2, FS_Subset
<1>4. Cardinality(Members') = Cardinality(Members) + 1
  BY <1>1, <1>3, FS_AddElement
<1>5. Cardinality(Members') <= Cardinality(Node)
  BY <1>1, <1>2, FS_Subset
<1>6. Cardinality(Members) \in Nat /\ Cardinality(Node) \in Nat
  BY <1>2, <1>3, FS_CardinalityType
<1> DEFINE k == Cardinality(Node) - Cardinality(Members')
<1>7. k \in Nat /\ Cardinality(Node) - Cardinality(Members) = k + 1
  BY <1>4, <1>5, <1>6
<1> QED
  BY <1>1, <1>7

LEMMA GrantRoomy ==
  ASSUME NEW Room, IsRoom(Room), Roomy(Room), NEW n \in Node, NEW q \in Node \ {n},
         Splits(n, q)
  PROVE  Roomy(Room)' /\ LoOf(n) < HiOf(n)
<1>1. \A x \in Node \ {q} : Member(x)' <=> Member(x)
  BY DEF Splits, Keeps
<1>2. /\ Members' = Members \cup {q} /\ q \notin Members
      /\ \E j \in Nat : /\ Cardinality(Node) - Cardinality(Members) = j + 1
                        /\ Cardinality(Node) - Cardinality(Members') = j
  BY <1>1, MembersAdd DEF Splits
<1>3. PICK k \in Nat : /\ Cardinality(Node) - Cardinality(Members) = k + 1
                       /\ Cardinality(Node) - Cardinality(Members') = k
  BY <1>2
<1> DEFINE r == Room[k]
<1>4. r \in Nat \ {0} /\ Room[k + 1] = 2 * r /\ Room[k + 1] >= r
  BY RoomGrows
<1> HIDE DEF r
<1>5. \A x \in Members : LoOf(x) \in Hash /\ HiOf(x) \in Hash /\ Size(x) >= 2 * r
  BY <1>3, <1>4 DEF Roomy
<1>6. n \in Members
  BY DEF Splits, Members
<1>7. /\ LoOf(n) \in Hash /\ HiOf(n) \in Hash
      /\ HiOf(n) - LoOf(n) + 1 >= 2 * r
  BY <1>5, <1>6 DEF Size
<1> DEFINE a == LoOf(n)
           b == HiOf(n)
<1>8. /\ a < b
      /\ Mid(a, b) \in Hash /\ Mid(a, b) - a + 1 >= r
      /\ UpperStart(a, b) \in Hash /\ b - UpperStart(a, b) + 1 >= r
  BY <1>4, <1>7, Halves
<1>9. ASSUME NEW x \in Members'
      PROVE  LoOf(x)' \in Hash /\ HiOf(x)' \in Hash /\ Size(x)' >= r
  <2>1. CASE x = n
    BY <1>7, <1>8, <2>1 DEF Splits, Size
  <2>2. CASE x = q
    BY <1>7, <1>8, <2>2 DEF Splits, Size
  <2>3. CASE x \in Members /\ x # n /\ x # q
    <3>1. LoOf(x)' = LoOf(x) /\ HiOf(x)' = HiOf(x)
      BY <2>3 DEF Splits, Keeps, Members
    <3>2. LoOf(x) \in Hash /\ HiOf(x) \in Hash /\ Size(x) >= 2 * r
      BY <1>5, <2>3
    <3>3. Size(x)' = Size(x) /\ Size(x) \in Int
      BY <3>1, <3>2 DEF Size, Hash
    <3> HIDE DEF Size
    <3>4. Size(x) >= r
      BY <1>4, <3>2, <3>3
    <3> QED
      BY <3>1, <3>2, <3>3, <3>4
  <2> QED
    BY <1>2, <2>1, <2>2, <2>3
<1>10. Roomy(Room)'
  BY <1>3, <1>9 DEF Roomy, r
<1> QED
  BY <1>8, <1>10

LEMMA FirstRoomy ==
  ASSUME NEW Room, IsRoom(Room), Room[Cardinality(Node) - 1] <= MaxHash + 1,
         NEW n \in Node, Founds(n)
  PROVE  Roomy(Room)'
<1>1. Members' = {n}
  BY DEF Founds, Members, Keeps
<1>2. Cardinality(Members') = 1
  BY <1>1, FS_Singleton
<1>3. MaxHash \in Nat \ {0} /\ LoOf(n)' \in Hash /\ HiOf(n)' \in Hash /\ Size(n)' = MaxHash + 1
  BY MaxHashAssumption DEF Founds, Hash, Size
<1> QED
  BY <1>1, <1>2, <1>3 DEF Roomy
-----------------------------------------------------------------------------
(* The refinement. *)

LEMMA Abstract ==
  /\ HR!vars = <<Members, [n \in Node |-> LoOf(n)], [n \in Node |-> HiOf(n)]>>
  /\ HR!vars' = <<Members', [n \in Node |-> LoOf(n)'], [n \in Node |-> HiOf(n)']>>
  /\ HR!Init <=> /\ Members = {}
                 /\ [n \in Node |-> LoOf(n)] = [n \in Node |-> 0]
                 /\ [n \in Node |-> HiOf(n)] = [n \in Node |-> 0]
BY DEF HR!vars, HR!Init, Members, LoOf, HiOf

LEMMA AbstractFirst ==
  ASSUME NEW n \in Node, Founds(n)
  PROVE  HR!Next
<1>1. Members = {} /\ Members' = {n}
  BY DEF Founds, Members, Keeps
<1>2. [x \in Node |-> LoOf(x)'] = [[x \in Node |-> LoOf(x)] EXCEPT ![n] = 0]
  BY DEF Founds, Keeps
<1>3. [x \in Node |-> HiOf(x)'] = [[x \in Node |-> HiOf(x)] EXCEPT ![n] = MaxHash]
  BY DEF Founds, Keeps
<1>4. HR!First(n)
  BY <1>1, <1>2, <1>3 DEF HR!First, Members, LoOf, HiOf
<1> QED
  BY <1>4 DEF HR!Next

LEMMA AbstractJoin ==
  ASSUME NEW n \in Node, NEW q \in Node \ {n}, Splits(n, q), LoOf(n) < HiOf(n)
  PROVE  HR!Next
<1>1. n \in Members /\ q \notin Members /\ Members' = Members \cup {q}
  BY DEF Splits, Members, Keeps
<1> DEFINE lo == [x \in Node |-> LoOf(x)]
           hi == [x \in Node |-> HiOf(x)]
<1>2. lo[n] = LoOf(n) /\ hi[n] = HiOf(n)
  OBVIOUS
<1>3. \A a, b : HR!Mid(a, b) = Mid(a, b) /\ HR!UpperStart(a, b) = UpperStart(a, b)
  BY DEF HR!Mid, HR!UpperStart, HR!UInt8, HR!Half, Mid, UpperStart, UInt8, Half
<1>4. [x \in Node |-> LoOf(x)'] = [lo EXCEPT ![q] = UpperStart(LoOf(n), HiOf(n))]
  BY DEF Splits, Keeps
<1>5. [x \in Node |-> HiOf(x)'] = [hi EXCEPT ![q] = HiOf(n), ![n] = Mid(LoOf(n), HiOf(n))]
  BY DEF Splits, Keeps
<1>6. HR!Join(q, n)
  BY <1>1, <1>2, <1>3, <1>4, <1>5 DEF HR!Join, Members, LoOf, HiOf
<1> QED
  BY <1>6 DEF HR!Next

LEMMA AbstractStutter ==
  ASSUME Stutters
  PROVE  UNCHANGED HR!vars
<1>1. Members' = Members
  BY DEF Stutters, Keeps, Members
<1>2. /\ [n \in Node |-> LoOf(n)'] = [n \in Node |-> LoOf(n)]
      /\ [n \in Node |-> HiOf(n)'] = [n \in Node |-> HiOf(n)]
  BY DEF Stutters, Keeps
<1> QED
  BY <1>1, <1>2, Abstract

LEMMA HandlePduOwns ==
  ASSUME JoinsOnly, JoinsOnly', Grantees, NEW n \in Node, HandlePdu(n)
  PROVE  Grantees' /\ (Stutters \/ \E q \in Node \ {n} : Splits(n, q))
<1>1. PICK kind \in {"udp", "tcp"}, m \in udp[n] \cup (IF queue[n] = <<>> THEN {} ELSE {Head(queue[n])}) :
        \/ Q5(n, kind, m) \/ Q5Refused(n, kind, m)
        \/ Q13(n, kind, m) \/ Q13Refused(n, kind, m)
        \/ Q14(n, kind, m)
        \/ Q15(n, kind, m)
        \/ Q16(n, kind, m) \/ Q16Alone(n, kind, m) \/ Q16Refused(n, kind, m)
        \/ Q17(n, kind, m)
        \/ Q9Serve(n, kind, m) \/ Q9Forward(n, kind, m)
        \/ SendFailed(n, kind, m) \/ SendKilled(n, kind, m) \/ Ignore(n, kind, m)
  BY DEF HandlePdu
<1>2. ~ \/ Q5Refused(n, kind, m) \/ Q13Refused(n, kind, m) \/ SendKilled(n, kind, m)
        \/ Q15(n, kind, m) \/ Q16(n, kind, m) \/ Q16Alone(n, kind, m) \/ Q16Refused(n, kind, m)
  BY NeverHandled
<1>3. CASE Q5(n, kind, m) \/ Q13(n, kind, m)
  BY <1>3, GrantOwns
<1>4. CASE \/ Q14(n, kind, m) \/ Q17(n, kind, m)
           \/ Q9Serve(n, kind, m) \/ Q9Forward(n, kind, m)
           \/ SendFailed(n, kind, m) \/ Ignore(n, kind, m)
  <2>1. OwnStep(n)
    BY <1>4, HandlersOwn
  <2>2. \A x \in Node : NoneNew(x)
    BY <1>4, Q14Kept, LocalKept DEF Grantees, Asking, JoinsOnly
  <2> QED
    BY <2>1, <2>2, OwnStutters
<1> QED
  BY <1>1, <1>2, <1>3, <1>4

LEMMA StepOwns ==
  ASSUME JoinsOnly, JoinsOnly', Grantees, NEW n \in Node, Step(n)
  PROVE  Grantees' /\ (Stutters \/ \E q \in Node \ {n} : Splits(n, q))
<1>1. ~(Q10(n) \/ Q11(n) \/ Q11SendFailed(n) \/ Q11Abort(n) \/ Q18(n))
  BY DEF JoinsOnly, RangeInv, NobodyLeaves, Q10, Q11, Q11SendFailed, Q11Abort, Q18
<1>2. TypeOK /\ \A x \in Node : OnceIn(JoinsOf(x))
  BY DEF JoinsOnly, Grantees, Asking
<1>3. CASE JoinAccept(n)
  <2>1. \A x \in Node : NoneNew(x)
    BY <1>2, <1>3, QuietKept
  <2> QED
    BY <1>3, <2>1, JoinAcceptStutters
<1>4. CASE JoinRecv(n)
  <2>1. \A x \in Node : NoneNew(x)
    BY <1>2, <1>4, JoinRecvKept
  <2> QED
    BY <1>4, <2>1, JoinRecvStutters
<1>5. CASE Q5Accept(n) \/ Q17Accept(n) \/ Drained(n)
  <2>1. \A x \in Node : NoneNew(x)
    BY <1>2, <1>5, QuietKept
  <2>2. OwnStep(n)
    BY <1>5, LoopOwn
  <2> QED
    BY <2>1, <2>2, OwnStutters
<1>6. CASE Read(n)
  <2>1. \A x \in Node : NoneNew(x)
    BY <1>2, <1>6, ReadKept
  <2>2. OwnStep(n)
    BY <1>6, ReadOwn
  <2> QED
    BY <2>1, <2>2, OwnStutters
<1>7. CASE HandlePdu(n)
  BY <1>7, HandlePduOwns
<1> QED
  BY <1>1, <1>3, <1>4, <1>5, <1>6, <1>7 DEF Step

LEMMA EnvironmentOwns ==
  ASSUME Leavers = {}, JoinsOnly, JoinsOnly', Grantees, NEW n \in Node, Environment(n)
  PROVE  Grantees' /\ (Stutters \/ Founds(n))
<1>1. ~(Signal(n) \/ InterruptJoin(n) \/ InterruptAccept(n) \/ InterruptRecv(n))
  BY DEF Signal, InterruptJoin, InterruptAccept, InterruptRecv, MayInterrupt
<1>2. TypeOK /\ \A x \in Node : OnceIn(JoinsOf(x))
  BY DEF JoinsOnly, Grantees, Asking
<1>3. CASE StartFirst(n)
  <2>1. \A x \in Node : NoneNew(x)
    BY <1>2, <1>3, QuietKept
  <2> QED
    BY <1>3, <2>1, StartFirstOwns
<1>4. CASE \E e \in Node : StartJoin(n, e)
  BY <1>4, StartJoinStutters
<1>5. CASE \E r \in requests : ClientSend(n, r)
  <2>1. \A x \in Node : NoneNew(x)
    BY <1>2, <1>5, QuietKept
  <2>2. OwnStep(n)
    BY <1>5, LoopOwn
  <2> QED
    BY <2>1, <2>2, OwnStutters
<1> QED
  BY <1>1, <1>3, <1>4, <1>5 DEF Environment

LEMMA NothingOwns ==
  ASSUME JoinsOnly, JoinsOnly', Grantees, UNCHANGED vars
  PROVE  Grantees' /\ Stutters
<1>1. /\ UNCHANGED <<pc, start, end, successor, conn, queue, udp, sockfd_d, backlog>>
      /\ NobodyLeaves /\ NobodyLeaves'
  BY DEF vars, ctl, ring, socks, inbox, net, JoinsOnly, RangeInv
<1>2. ASSUME NEW x \in Node PROVE Keeps(x) /\ Asking(x)' /\ OneGrant(x)'
  <2>1. (Joining(x)' <=> Joining(x)) /\ (Serving(x)' <=> Serving(x))
    BY <1>1 DEF Joining, Serving
  <2>2. Incoming(x)' = Incoming(x)
    BY <1>1 DEF Incoming
  <2>3. Grants(x)' = Grants(x)
    BY <1>1, <2>1, <2>2, GrantsIs
  <2>4. NoneNew(x)
    BY <1>1, StayIn DEF NoneNew, Grantees, Asking
  <2> QED
    BY <1>1, <2>1, <2>3, <2>4, GrantKeeps, AskingStays DEF Grantees
<1> QED
  BY <1>2 DEF Stutters, Grantees

LEMMA NextOwns ==
  ASSUME Leavers = {}, JoinsOnly, JoinsOnly', Grantees, [Next]_vars
  PROVE  /\ Grantees'
         /\ Stutters \/ \E n \in Node : Founds(n) \/ \E q \in Node \ {n} : Splits(n, q)
BY StepOwns, EnvironmentOwns, NothingOwns DEF Next

LEMMA NextRefines ==
  ASSUME Leavers = {}, NEW Room, IsRoom(Room), Room[Cardinality(Node) - 1] <= MaxHash + 1,
         JoinsOnly, JoinsOnly', Grantees, Roomy(Room), [Next]_vars
  PROVE  Roomy(Room)' /\ [HR!Next]_(HR!vars)
<1>1. CASE Stutters
  BY <1>1, KeptRoomy, AbstractStutter
<1>2. ASSUME NEW n \in Node, Founds(n) PROVE Roomy(Room)' /\ HR!Next
  BY <1>2, FirstRoomy, AbstractFirst
<1>3. ASSUME NEW n \in Node, NEW q \in Node \ {n}, Splits(n, q) PROVE Roomy(Room)' /\ HR!Next
  BY <1>3, GrantRoomy, AbstractJoin
<1> QED
  BY <1>1, <1>2, <1>3, NextOwns

LEMMA InitOwns ==
  ASSUME Init
  PROVE  Grantees /\ (\A x \in Node : ~Member(x)) /\ HR!Init
<1>1. ASSUME NEW x \in Node PROVE Grants(x) = {} /\ ~Member(x) /\ LoOf(x) = 0 /\ HiOf(x) = 0
  <2>1. ~Joining(x) /\ ~Serving(x)
    BY DEF Init, Joining, Serving
  <2>2. Grants(x) = {} /\ ~Member(x)
    BY <2>1, GrantsIs DEF Member
  <2> QED
    BY <2>2 DEF LoOf, HiOf
<1>2. ASSUME NEW x \in Node PROVE OnceIn(JoinsOf(x)) /\ ~Somewhere(JoinsOf(x))
  <2>1. \A n \in Node : ~Queued(JoinsOf(x), n) /\ QueuedOnce(JoinsOf(x), n)
    BY DEF Init, Queued, QueuedOnce, Carries, Once
  <2>2. ~OnWay(conn, JoinsOf(x)) /\ OnWayOnce(conn, JoinsOf(x))
    BY DEF Init, OnWay, OnWayOnce, Has, RecordOnce, Carries, Once, FreeConn
  <2> QED
    BY <2>1, <2>2 DEF OnceIn, Somewhere
<1>3. Grantees
  BY <1>1, <1>2 DEF Grantees, Asking, OneGrant
<1>4. HR!Init
  BY <1>1, Abstract DEF Members
<1> QED
  BY <1>1, <1>3, <1>4

LEMMA GranteesHolds ==
  ASSUME Leavers = {}
  PROVE  Spec => []Grantees
<1>1. Init => Grantees
  BY InitOwns
<1>2. JoinsOnly /\ JoinsOnly' /\ Grantees /\ [Next]_vars => Grantees'
  BY NextOwns
<1> QED
  BY <1>1, <1>2, JoinsOnlyHolds, PTL DEF Spec

(* As long as nodes only join, however many at once, nobody is granted two  *)
(* ranges: q14_state passes a NET_JOIN on and keeps none, and the node that *)
(* grants a range (q5, q13) has taken the only one there was.               *)
THEOREM GrantedOnce ==
  ASSUME Leavers = {}
  PROVE  Spec => [](\A n \in Node : OneGrant(n))
<1>1. Grantees => \A n \in Node : OneGrant(n)
  BY DEF Grantees
<1> QED
  BY <1>1, GranteesHolds, PTL

(* As long as nodes only join, however many at once, the ring divides the   *)
(* hash space the way HashRing says: a range is halved in the step in which *)
(* q5_state or q13_state sends the NET_JOIN_RESPONSE, is the prospect's     *)
(* from then on, and no other step of any node changes who owns what.       *)
(* Room[k], the k-th power of 2, is the room for k joins in whatever range: *)
(* nodes choose the range to halve by what a NET_JOIN has met, which may be *)
(* the narrowest by the time it is halved, and split_range turns a range of *)
(* one hash into an inverted one.                                           *)
THEOREM JoinsImplementHashRing ==
  ASSUME Leavers = {},
         NEW Room, IsRoom(Room), Room[Cardinality(Node) - 1] <= MaxHash + 1
  PROVE  Spec => RingImplementsHashRing
<1>1. Init => HR!Init /\ Roomy(Room)
  BY InitOwns DEF Roomy, Members
<1>2. JoinsOnly /\ JoinsOnly' /\ Grantees /\ Roomy(Room) /\ [Next]_vars
        => Roomy(Room)' /\ [HR!Next]_(HR!vars)
  BY NextRefines
<1> QED
  BY <1>1, <1>2, JoinsOnlyHolds, GranteesHolds, PTL DEF Spec, RingImplementsHashRing, HR!Spec

(* HashRing's theorems, said of the ranges that the nodes of the ring own.  *)
HRT == INSTANCE HashRing_proofs WITH
         members <- {n \in Node : Member(n)},
         lo <- [n \in Node |-> IF ~Member(n) THEN 0 ELSE IF Joining(n) THEN Grant(n).lo ELSE start[n]],
         hi <- [n \in Node |-> IF ~Member(n) THEN 0 ELSE IF Joining(n) THEN Grant(n).hi ELSE end[n]]

(* Hence the nodes of the ring own every hash, and none of them twice, in   *)
(* every state of any number of joins, also between the NET_JOIN_RESPONSE   *)
(* that grants a range and the moment q7_state reads it.                    *)
THEOREM OneOwner ==
  ASSUME Leavers = {},
         NEW Room, IsRoom(Room), Room[Cardinality(Node) - 1] <= MaxHash + 1
  PROVE  Spec => []HR!Partition
<1>1. Spec => RingImplementsHashRing
  BY JoinsImplementHashRing
<1>2. HRT!Spec => []HRT!Partition
  BY HRT!PartitionInvariant, MaxHashAssumption
<1>3. HR!Init => HRT!Init
  BY DEF HR!Init, HRT!Init
<1>4. [HR!Next]_(HR!vars) => [HRT!Next]_(HRT!vars)
  BY DEF HR!Next, HR!vars, HR!First, HR!Join, HR!LeaveDown, HR!LeaveUp, HR!LeaveLast,
         HR!Mid, HR!UpperStart, HR!FollowsRange, HR!UInt8, HR!Half,
         HRT!Next, HRT!vars, HRT!First, HRT!Join, HRT!LeaveDown, HRT!LeaveUp, HRT!LeaveLast,
         HRT!Mid, HRT!UpperStart, HRT!FollowsRange, HRT!UInt8, HRT!Half
<1>5. HRT!Partition => HR!Partition
  BY DEF HR!Partition, HR!Complete, HR!Disjoint, HR!NonEmpty, HR!InRange, HR!Hash,
         HRT!Partition, HRT!Complete, HRT!Disjoint, HRT!NonEmpty, HRT!InRange, HRT!Hash
<1> QED
  BY <1>1, <1>2, <1>3, <1>4, <1>5, PTL DEF RingImplementsHashRing, HR!Spec, HRT!Spec
-----------------------------------------------------------------------------
(* The ring closes.  Every member is followed by the owner of the hashes    *)
(* behind its own; the first member follows itself.                         *)
Follows ==
  \A x \in Members :
    /\ NextOf(x) = None => Members = {x} /\ LoOf(x) = 0 /\ HiOf(x) = MaxHash
    /\ NextOf(x) # None =>
         \E y \in Members \ {x} : y = NextOf(x) /\ LoOf(y) = UInt8(HiOf(x) + 1)

LEMMA KeptFollows ==
  ASSUME Follows, Stutters
  PROVE  Follows'
<1>1. Members' = Members
  BY DEF Stutters, Keeps, Members
<1>2. \A x \in Members : LoOf(x)' = LoOf(x) /\ HiOf(x)' = HiOf(x) /\ NextOf(x)' = NextOf(x)
  BY DEF Stutters, Keeps, Members
<1> QED
  BY <1>1, <1>2 DEF Follows, UInt8

LEMMA FirstFollows ==
  ASSUME NEW n \in Node, Founds(n)
  PROVE  Follows'
<1>1. Members' = {n}
  BY DEF Founds, Members, Keeps
<1> QED
  BY <1>1 DEF Founds, Follows

(* The prospect q goes between n and the node y that followed n, or n       *)
(* itself if that was alone.                                                *)
LEMMA SplitFollows ==
  ASSUME Follows, NEW n \in Node, NEW q \in Node \ {n}, Splits(n, q)
  PROVE  Follows'
<1>1. n \in Members /\ q \notin Members /\ Members' = Members \cup {q}
  BY DEF Splits, Members, Keeps
<1>2. /\ LoOf(n)' = LoOf(n) /\ HiOf(n)' = Mid(LoOf(n), HiOf(n)) /\ NextOf(n)' = q
      /\ LoOf(q)' = UInt8(HiOf(n)' + 1) /\ HiOf(q)' = HiOf(n) /\ NextOf(q)' = NextFor(n)
  BY DEF Splits, UpperStart
<1>3. \A x \in Members \ {n} : LoOf(x)' = LoOf(x) /\ HiOf(x)' = HiOf(x) /\ NextOf(x)' = NextOf(x)
  BY <1>1 DEF Splits, Keeps, Members
<1>4. None \notin Node /\ Members \subseteq Node
  BY RingAssumption DEF Members
<1>5. \A x \in Members : LoOf(x)' = LoOf(x)
  BY <1>2, <1>3
<1>6. \E y \in Members' \ {n} : y = NextOf(n)' /\ LoOf(y)' = UInt8(HiOf(n)' + 1)
  BY <1>1, <1>2
<1>7. \E y \in Members' \ {q} : y = NextOf(q)' /\ LoOf(y)' = UInt8(HiOf(q)' + 1)
  <2>1. CASE NextOf(n) = None
    <3>1. LoOf(n) = 0 /\ HiOf(n) = MaxHash /\ NextFor(n) = n
      BY <1>1, <2>1 DEF Follows, NextFor
    <3>2. UInt8(MaxHash + 1) = 0
      BY MaxHashAssumption DEF UInt8
    <3> QED
      BY <1>1, <1>2, <3>1, <3>2
  <2>2. CASE NextOf(n) # None
    <3>1. PICK y \in Members \ {n} : y = NextOf(n) /\ LoOf(y) = UInt8(HiOf(n) + 1)
      BY <1>1, <2>2 DEF Follows
    <3> QED
      BY <1>1, <1>2, <1>5, <2>2, <3>1 DEF NextFor
  <2> QED
    BY <2>1, <2>2
<1>8. ASSUME NEW x \in Members \ {n}
      PROVE  \E y \in Members' \ {x} : y = NextOf(x)' /\ LoOf(y)' = UInt8(HiOf(x)' + 1)
  <2>1. NextOf(x) # None
    BY <1>1, <1>8 DEF Follows
  <2>2. PICK y \in Members \ {x} : y = NextOf(x) /\ LoOf(y) = UInt8(HiOf(x) + 1)
    BY <2>1 DEF Follows
  <2> QED
    BY <1>1, <1>3, <1>5, <2>2
<1>9. ASSUME NEW x \in Members'
      PROVE  \E y \in Members' \ {x} : y = NextOf(x)' /\ LoOf(y)' = UInt8(HiOf(x)' + 1)
  BY <1>1, <1>6, <1>7, <1>8, <1>9
<1>10. \A x \in Members' : NextOf(x)' # None
  BY <1>1, <1>4, <1>9
<1> QED
  BY <1>9, <1>10 DEF Follows, UInt8

LEMMA NextFollows ==
  ASSUME Leavers = {}, JoinsOnly, JoinsOnly', Grantees, Follows, [Next]_vars
  PROVE  Follows'
BY NextOwns, KeptFollows, FirstFollows, SplitFollows
-----------------------------------------------------------------------------
(* The connections of the closed ring.  The accepting end of a node's       *)
(* connection to its successor is the successor's, which may not have       *)
(* accepted it yet; a node at work has heard of a predecessor unless it is  *)
(* alone.                                                                   *)
Aimed(x) ==
  Serving(x) /\ successor[x] # None =>
    \E y \in Node : y = successor[x] /\ sockfd_b[x].conn \in Incoming(y)
Preceded(x) ==
  /\ pc[x] = "q7_recv" => predecessor[x]
  /\ pc[x] \in {"q6", "drain"} /\ successor[x] # None => predecessor[x]
Wired == \A x \in Node : Aimed(x) /\ Preceded(x)

(* No accepting end is given up whose other end is open. *)
Accepting == \A y \in Node : \A c \in Incoming(y) : conn[c].cli => c \in Incoming(y)'

LinkKept(x) ==
  Serving(x)' /\ successor'[x] # None =>
    Serving(x) /\ successor'[x] = successor[x] /\ sockfd_b'[x] = sockfd_b[x]
PlaceKept(x) == pc'[x] = pc[x] /\ successor'[x] = successor[x] /\ predecessor'[x] = predecessor[x]

LEMMA AimKept ==
  ASSUME JoinsOnly, NEW x \in Node, Aimed(x), LinkKept(x), Accepting
  PROVE  Aimed(x)'
<1> SUFFICES ASSUME Serving(x)', successor'[x] # None
             PROVE  \E y \in Node : y = successor'[x] /\ sockfd_b'[x].conn \in Incoming(y)'
  BY DEF Aimed
<1>1. Serving(x) /\ successor'[x] = successor[x] /\ sockfd_b'[x] = sockfd_b[x]
  BY DEF LinkKept
<1>2. PICK y \in Node : y = successor[x] /\ sockfd_b[x].conn \in Incoming(y)
  BY <1>1 DEF Aimed
<1>3. conn[sockfd_b[x].conn].cli
  BY <1>1, SuccessorSocket
<1> QED
  BY <1>1, <1>2, <1>3 DEF Accepting

LEMMA PrecededKept ==
  ASSUME NEW x, Preceded(x), PlaceKept(x)
  PROVE  Preceded(x)'
BY DEF Preceded, PlaceKept

(* A step of n leaves the others as they are.                               *)
LEMMA OthersWired ==
  ASSUME JoinsOnly, Wired, NEW n \in Node, Accepting,
         \A x \in Node \ {n} : PlaceKept(x) /\ sockfd_b'[x] = sockfd_b[x],
         Aimed(n)', Preceded(n)'
  PROVE  Wired'
<1>1. ASSUME NEW x \in Node \ {n} PROVE Aimed(x)' /\ Preceded(x)'
  <2>1. LinkKept(x)
    BY DEF LinkKept, PlaceKept, Serving
  <2> QED
    BY <2>1, AimKept, PrecededKept DEF Wired
<1> QED
  BY <1>1 DEF Wired

LEMMA SameIncoming ==
  ASSUME \A y \in Node : sockfd_d'[y] = sockfd_d[y] /\ backlog'[y] = backlog[y]
  PROVE  Accepting
BY DEF Accepting, Incoming

(* What a new connection adds to the accepting ends.                        *)
LEMMA ConnectIncoming ==
  ASSUME TypeOK, NEW n \in Node, NEW to \in Node, NEW cs, NEW pdus,
         Connect(n, to, cs, pdus), sockfd_d' = sockfd_d
  PROVE  /\ Accepting /\ sockfd_b'[n].conn \in Incoming(to)'
         /\ \A x \in Node \ {n} : sockfd_b'[x] = sockfd_b[x]
<1>1. PICK c \in Conn :
        /\ backlog' = [backlog EXCEPT ![to] = Append(backlog[to], c)]
        /\ sockfd_b' = [sockfd_b EXCEPT ![n] = [fd |-> LowestFd(sockfd_d[n]), conn |-> c]]
  BY DEF Connect
<1>2. /\ sockfd_b'[n].conn = c
      /\ \A x \in Node \ {n} : sockfd_b'[x] = sockfd_b[x]
      /\ backlog'[to] = Append(backlog[to], c) /\ backlog[to] \in Seq(Conn)
      /\ \A y \in Node \ {to} : backlog'[y] = backlog[y]
  BY <1>1 DEF TypeOK
<1>3. /\ \E i \in DOMAIN backlog'[to] : c = backlog'[to][i]
      /\ \A e : (\E i \in DOMAIN backlog[to] : e = backlog[to][i])
                  => \E i \in DOMAIN backlog'[to] : e = backlog'[to][i]
  <2> DEFINE s == backlog[to]
  <2>1. s \in Seq(Conn) /\ backlog'[to] = Append(s, c)
    BY <1>2
  <2> HIDE DEF s
  <2>2. /\ DOMAIN s = 1 .. Len(s) /\ Len(s) \in Nat
        /\ DOMAIN backlog'[to] = 1 .. (Len(s) + 1)
        /\ backlog'[to][Len(s) + 1] = c
        /\ \A i \in 1 .. Len(s) : backlog'[to][i] = s[i]
    BY <2>1
  <2>3. Len(s) + 1 \in DOMAIN backlog'[to] /\ \A i \in DOMAIN s : i \in DOMAIN backlog'[to]
    BY <2>2
  <2> QED
    BY <2>2, <2>3 DEF s
<1>4. Accepting
  BY <1>2, <1>3 DEF Accepting, Incoming
<1>5. sockfd_b'[n].conn \in Incoming(to)'
  BY <1>2, <1>3 DEF Incoming
<1> QED
  BY <1>2, <1>4, <1>5

(* No node but one that is alone owns every hash.                           *)
NoneWhole == \A n \in Node : Serving(n) /\ successor[n] # None => ~(start[n] = 0 /\ end[n] = MaxHash)

(* q5_state and q13_state connect to the prospect they take as successor,   *)
LEMMA GrantWired ==
  ASSUME JoinsOnly, Wired, NEW n \in Node, NEW kind \in {"udp", "tcp"}, NEW m,
         Q5(n, kind, m) \/ Q13(n, kind, m)
  PROVE  Wired'
<1> DEFINE to == m.src
<1>1. /\ NextPdu(n, kind, m) /\ to \in Node /\ \A x \in Node \ {n} : pc'[x] = pc[x]
      /\ successor' = [successor EXCEPT ![n] = to] /\ UNCHANGED sockfd_d
  BY GrantStep
<1>2. PICK next \in Node, cs \in {conn, Closing(n)} : GrantUpperHalf(n, to, next, cs)
  BY GrantStep
<1>3. PICK pdus \in Seq(Pdu) : Connect(n, to, cs, pdus)
  BY <1>1, <1>2, GrantConnects DEF JoinsOnly
<1> HIDE DEF to
<1>4. /\ Accepting /\ sockfd_b'[n].conn \in Incoming(to)'
      /\ \A x \in Node \ {n} : sockfd_b'[x] = sockfd_b[x]
  BY <1>1, <1>3, ConnectIncoming DEF JoinsOnly
<1>5. /\ successor'[n] = to /\ UNCHANGED predecessor
      /\ \A x \in Node \ {n} : successor'[x] = successor[x]
  BY <1>1 DEF JoinsOnly, TypeOK, Q5, Q13
<1>6. Aimed(n)'
  BY <1>1, <1>4, <1>5 DEF Aimed
<1>7. Preceded(n)'
  <2>1. CASE Q5(n, kind, m)
    <3>1. pc'[n] = "q5_accept"
      BY <2>1 DEF Q5, Goto, JoinsOnly, TypeOK
    <3> QED
      BY <3>1 DEF Preceded
  <2>2. CASE Q13(n, kind, m)
    <3>1. pc'[n] = "q6" /\ ~Alone(n)
      BY <2>2 DEF Q13, Nested, Goto, JoinsOnly, TypeOK
    <3>2. successor[n] # None /\ pc[n] \in {"q6", "drain"}
      BY <1>1, <3>1, Handled
    <3> QED
      BY <1>5, <3>1, <3>2 DEF Wired, Preceded
  <2> QED
    BY <2>1, <2>2
<1> QED
  BY <1>1, <1>4, <1>5, <1>6, <1>7, OthersWired DEF PlaceKept

(* ... and q7_state to the node that its response names.                    *)
LEMMA JoinRecvWired ==
  ASSUME JoinsOnly, Wired, NEW n \in Node, JoinRecv(n)
  PROVE  Wired'
<1> DEFINE next == Head(conn[sockfd_d[n].conn].up).next
<1>1. PICK to \in Node : to = next
  BY JoinRecvStep
<1>2. /\ pc[n] = "q7_recv" /\ pc' = [pc EXCEPT ![n] = "q6"]
      /\ successor' = [successor EXCEPT ![n] = to] /\ UNCHANGED <<predecessor, sockfd_d>>
      /\ \E cs, pdus : Connect(n, to, cs, pdus)
  BY <1>1, JoinRecvStep
<1> HIDE DEF next
<1>3. /\ Accepting /\ sockfd_b'[n].conn \in Incoming(to)'
      /\ \A x \in Node \ {n} : sockfd_b'[x] = sockfd_b[x]
  BY <1>2, ConnectIncoming DEF JoinsOnly
<1>4. /\ successor'[n] = to /\ pc'[n] = "q6"
      /\ \A x \in Node \ {n} : successor'[x] = successor[x] /\ pc'[x] = pc[x]
  BY <1>2 DEF JoinsOnly, TypeOK
<1>5. Aimed(n)'
  BY <1>3, <1>4 DEF Aimed
<1>6. Preceded(n)'
  BY <1>2, <1>4 DEF Wired, Preceded
<1> QED
  BY <1>2, <1>3, <1>4, <1>5, <1>6, OthersWired DEF PlaceKept

(* accept takes the connection from the backlog, and the node has a         *)
(* predecessor.                                                             *)
LEMMA AcceptWired ==
  ASSUME JoinsOnly, Wired, NEW n \in Node, JoinAccept(n) \/ Q5Accept(n) \/ Q17Accept(n)
  PROVE  Wired'
<1>1. /\ pc[n] \in {"q7_accept", "q5_accept", "q17_accept"} /\ backlog[n] # <<>>
      /\ UNCHANGED <<successor, sockfd_b>>
      /\ sockfd_d'[n].conn = Head(backlog[n]) /\ backlog'[n] = Tail(backlog[n]) /\ predecessor'[n]
      /\ \A x \in Node \ {n} : /\ sockfd_d'[x] = sockfd_d[x] /\ backlog'[x] = backlog[x]
                              /\ pc'[x] = pc[x] /\ predecessor'[x] = predecessor[x]
      /\ Serving(n)' => Serving(n)
  BY DEF JoinAccept, Q5Accept, Q17Accept, Goto, Serving, JoinsOnly, TypeOK
<1>2. Incoming(n)' = Incoming(n)
  <2>1. sockfd_d[n] = NoSock
    BY <1>1 DEF JoinsOnly, GrowInv, Sockets
  <2> QED
    BY <1>1, <2>1, AcceptIncoming DEF JoinsOnly
<1>3. Accepting
  <2>1. \A y \in Node \ {n} : Incoming(y)' = Incoming(y)
    BY <1>1 DEF Incoming
  <2> QED
    BY <1>2, <2>1 DEF Accepting
<1>4. Aimed(n)'
  BY <1>1, <1>3, AimKept DEF Wired, LinkKept
<1>5. Preceded(n)'
  BY <1>1 DEF Preceded
<1> QED
  BY <1>1, <1>3, <1>4, <1>5, OthersWired DEF PlaceKept

(* q17_state closes a connection whose other end is closed, and waits for   *)
(* the next one: a node with a successor does not own every hash.           *)
LEMMA Q17Wired ==
  ASSUME JoinsOnly, Wired, NoneWhole, NEW n \in Node, NEW kind \in {"udp", "tcp"}, NEW m,
         Q17(n, kind, m)
  PROVE  Wired'
<1>1. /\ NextPdu(n, kind, m) /\ m.type = "NET_CLOSE_CONNECTION"
      /\ UNCHANGED <<successor, sockfd_b, backlog>>
      /\ \A x \in Node \ {n} : sockfd_d'[x] = sockfd_d[x] /\ predecessor'[x] = predecessor[x]
  BY DEF Q17, JoinsOnly, TypeOK
<1>2. m \in Pdu /\ Serving(n)
  BY <1>1, Handled
<1>3. m = Close
  BY <1>1, <1>2 DEF Pdu, ValPdu, NewRangeResponse, Close, Garbage
<1>4. kind = "tcp" /\ successor[n] # None
  BY <1>1, <1>3, Handled
<1>5. pc' = [pc EXCEPT ![n] = "q17_accept"]
  BY <1>2, <1>4 DEF Q17, Goto, NoneWhole
<1>6. pc'[n] = "q17_accept" /\ \A x \in Node \ {n} : pc'[x] = pc[x]
  BY <1>5 DEF JoinsOnly, TypeOK
<1>7. ~Plain(queue[n])
  <2>1. queue[n] # <<>> /\ Head(queue[n]) = Close /\ queue[n] \in Seq(Pdu)
    BY <1>1, <1>3, <1>4 DEF NextPdu, JoinsOnly, TypeOK
  <2> QED
    BY <2>1, TailPlain
<1>8. sockfd_d[n].conn # NoConn => ~conn[sockfd_d[n].conn].cli
  BY <1>7 DEF JoinsOnly, GrowInv, Dropping
<1>9. Accepting
  BY <1>1, <1>8 DEF Accepting, Incoming, Conn, NoConn
<1>10. Aimed(n)'
  BY <1>1, <1>2, <1>9, AimKept DEF Wired, LinkKept
<1>11. Preceded(n)'
  BY <1>6 DEF Preceded
<1> QED
  BY <1>1, <1>6, <1>9, <1>10, <1>11, OthersWired DEF PlaceKept

(* At the end of the stream q6_state closes a connection whose other end is *)
(* closed.                                                                  *)
LEMMA ReadWired ==
  ASSUME JoinsOnly, Wired, NEW n \in Node, Read(n)
  PROVE  Wired'
<1>1. PICK eof \in BOOLEAN : \E i \in 0 .. Len(conn[sockfd_d[n].conn].up) : ReadSocket(n, "D", i, eof)
  BY ReadsPredecessor
<1>2. /\ pc[n] = "q6" /\ Serving(n) /\ pc' = [pc EXCEPT ![n] = "drain"]
      /\ sockfd_b' = [sockfd_b EXCEPT ![n] = sockfd_b[n]]
      /\ sockfd_d' = [sockfd_d EXCEPT ![n] = IF eof THEN NoSock ELSE sockfd_d[n]]
      /\ eof => ~conn[sockfd_d[n].conn].cli
      /\ UNCHANGED <<successor, predecessor, backlog>>
  <2>1. "D" # "B"
    OBVIOUS
  <2> QED
    BY <1>1, <2>1, ReadsPredecessor DEF ReadSocket, SockOf, PeerClosed, Goto, ring
<1>3. /\ pc'[n] = "drain" /\ UNCHANGED sockfd_b
      /\ \A x \in Node \ {n} : pc'[x] = pc[x] /\ sockfd_d'[x] = sockfd_d[x]
      /\ sockfd_d'[n] = IF eof THEN NoSock ELSE sockfd_d[n]
  BY <1>2 DEF JoinsOnly, TypeOK
<1>4. Accepting
  BY <1>2, <1>3 DEF Accepting, Incoming
<1>5. Aimed(n)'
  BY <1>2, <1>3, <1>4, AimKept DEF Wired, LinkKept
<1>6. Preceded(n)'
  BY <1>2, <1>3 DEF Wired, Preceded
<1> QED
  BY <1>2, <1>3, <1>4, <1>5, <1>6, OthersWired DEF PlaceKept

(* The other steps leave every connection's ends where they are.            *)
LEMMA StayWired ==
  ASSUME JoinsOnly, Wired, NEW n \in Node,
         UNCHANGED <<successor, predecessor, sockfd_b, sockfd_d, backlog>>,
         \A x \in Node \ {n} : pc'[x] = pc[x],
         \/ pc'[n] = pc[n] \/ pc'[n] = "q7_accept"
         \/ pc'[n] = "q6" /\ (pc[n] = "drain" \/ successor[n] = None)
  PROVE  Wired'
<1>1. Accepting
  BY SameIncoming
<1>2. LinkKept(n)
  BY DEF LinkKept, Serving
<1>3. Aimed(n)'
  BY <1>1, <1>2, AimKept DEF Wired
<1>4. Preceded(n)'
  BY DEF Wired, Preceded
<1> QED
  BY <1>1, <1>3, <1>4, OthersWired DEF PlaceKept

LEMMA HandlePduWired ==
  ASSUME JoinsOnly, Wired, NoneWhole, NEW n \in Node, HandlePdu(n)
  PROVE  Wired'
<1>1. PICK kind \in {"udp", "tcp"}, m \in udp[n] \cup (IF queue[n] = <<>> THEN {} ELSE {Head(queue[n])}) :
        \/ Q5(n, kind, m) \/ Q5Refused(n, kind, m)
        \/ Q13(n, kind, m) \/ Q13Refused(n, kind, m)
        \/ Q14(n, kind, m)
        \/ Q15(n, kind, m)
        \/ Q16(n, kind, m) \/ Q16Alone(n, kind, m) \/ Q16Refused(n, kind, m)
        \/ Q17(n, kind, m)
        \/ Q9Serve(n, kind, m) \/ Q9Forward(n, kind, m)
        \/ SendFailed(n, kind, m) \/ SendKilled(n, kind, m) \/ Ignore(n, kind, m)
  BY DEF HandlePdu
<1>2. ~ \/ Q5Refused(n, kind, m) \/ Q13Refused(n, kind, m) \/ SendKilled(n, kind, m)
        \/ Q15(n, kind, m) \/ Q16(n, kind, m) \/ Q16Alone(n, kind, m) \/ Q16Refused(n, kind, m)
  BY NeverHandled
<1>3. CASE Q5(n, kind, m) \/ Q13(n, kind, m)
  BY <1>3, GrantWired
<1>4. CASE Q17(n, kind, m)
  BY <1>4, Q17Wired
<1>5. CASE \/ Q14(n, kind, m) \/ Q9Serve(n, kind, m) \/ Q9Forward(n, kind, m)
           \/ SendFailed(n, kind, m) \/ Ignore(n, kind, m)
  <2>1. UNCHANGED <<successor, predecessor, sockfd_b, sockfd_d, backlog>> /\ NextPdu(n, kind, m)
    BY <1>5 DEF Q14, Q9Serve, Q9Forward, SendFailed, Ignore, ring, socks, net
  <2>2. pc' = [pc EXCEPT ![n] = pc[n]] \/ pc' = [pc EXCEPT ![n] = "q6"]
    BY <1>5, <2>1, Handled DEF Q14, Q9Serve, Q9Forward, SendFailed, Ignore, Return, Nested, Goto
  <2>3. pc[n] \in {"q6", "drain"}
    BY <2>1, Handled
  <2>4. /\ \A x \in Node \ {n} : pc'[x] = pc[x]
        /\ pc'[n] = pc[n] \/ (pc'[n] = "q6" /\ pc[n] = "drain")
    BY <2>2, <2>3 DEF JoinsOnly, TypeOK
  <2> QED
    BY <2>1, <2>4, StayWired
<1> QED
  BY <1>1, <1>2, <1>3, <1>4, <1>5

LEMMA NextWired ==
  ASSUME Leavers = {}, JoinsOnly, Wired, NoneWhole, [Next]_vars
  PROVE  Wired'
<1>1. ASSUME NEW n \in Node, Step(n) PROVE Wired'
  <2>1. ~(Q10(n) \/ Q11(n) \/ Q11SendFailed(n) \/ Q11Abort(n) \/ Q18(n))
    BY DEF JoinsOnly, RangeInv, NobodyLeaves, Q10, Q11, Q11SendFailed, Q11Abort, Q18
  <2>2. CASE Drained(n)
    <3>1. /\ UNCHANGED <<successor, predecessor, sockfd_b, sockfd_d, backlog>>
          /\ pc[n] = "drain" /\ pc'[n] = "q6" /\ \A x \in Node \ {n} : pc'[x] = pc[x]
      BY <2>2 DEF Drained, Goto, ring, socks, net, JoinsOnly, TypeOK
    <3> QED
      BY <3>1, StayWired
  <2> QED
    BY <1>1, <2>1, <2>2, AcceptWired, JoinRecvWired, HandlePduWired, ReadWired DEF Step
<1>2. ASSUME NEW n \in Node, Environment(n) PROVE Wired'
  <2>1. ~(Signal(n) \/ InterruptJoin(n) \/ InterruptAccept(n) \/ InterruptRecv(n))
    BY DEF Signal, InterruptJoin, InterruptAccept, InterruptRecv, MayInterrupt
  <2>2. CASE StartFirst(n)
    <3>1. /\ UNCHANGED <<successor, predecessor, sockfd_b, sockfd_d, backlog>>
          /\ pc[n] = "off" /\ pc'[n] = "q6" /\ \A x \in Node \ {n} : pc'[x] = pc[x]
      BY <2>2 DEF StartFirst, Goto, socks, net, JoinsOnly, TypeOK
    <3>2. successor[n] = None
      BY <3>1 DEF JoinsOnly, RangeInv, EmptyUntilServing
    <3> QED
      BY <3>1, <3>2, StayWired
  <2>3. CASE \E e \in Node : StartJoin(n, e)
    <3>1. /\ UNCHANGED <<successor, predecessor, sockfd_b, sockfd_d, backlog>>
          /\ pc'[n] = "q7_accept" /\ \A x \in Node \ {n} : pc'[x] = pc[x]
      BY <2>3 DEF StartJoin, Goto, ring, socks, net, JoinsOnly, TypeOK
    <3> QED
      BY <3>1, StayWired
  <2>4. CASE \E r \in requests : ClientSend(n, r)
    <3>1. UNCHANGED <<pc, successor, predecessor, sockfd_b, sockfd_d, backlog>>
      BY <2>4 DEF ClientSend, ctl, ring, socks, net
    <3> QED
      BY <3>1, StayWired
  <2> QED
    BY <1>2, <2>1, <2>2, <2>3, <2>4 DEF Environment
<1>3. CASE UNCHANGED vars
  BY <1>3 DEF vars, ctl, ring, socks, net, Wired, Aimed, Preceded, Serving, Incoming
<1> QED
  BY <1>1, <1>2, <1>3 DEF Next

LEMMA PartitionNoneWhole ==
  ASSUME JoinsOnly, Follows, HR!Partition
  PROVE  NoneWhole
<1> SUFFICES ASSUME NEW n \in Node, Serving(n), successor[n] # None, start[n] = 0, end[n] = MaxHash
             PROVE  FALSE
  BY DEF NoneWhole
<1> DEFINE lo == [x \in Node |-> LoOf(x)]
           hi == [x \in Node |-> HiOf(x)]
<1>1. Member(n) /\ LoOf(n) = 0 /\ HiOf(n) = MaxHash /\ NextOf(n) = successor[n]
  BY ServingOwns DEF JoinsOnly, RangeInv
<1>2. PICK y \in Members \ {n} : LoOf(y) = UInt8(MaxHash + 1)
  BY <1>1 DEF Follows, Members
<1>3. MaxHash \in Nat \ {0} /\ UInt8(MaxHash + 1) = 0
  BY MaxHashAssumption DEF UInt8
<1>4. /\ \A x, z \in Members, h \in Hash :
           lo[x] <= h /\ h <= hi[x] /\ lo[z] <= h /\ h <= hi[z] => x = z
      /\ \A x \in Members : lo[x] <= hi[x]
  BY DEF HR!Partition, HR!Disjoint, HR!NonEmpty, HR!InRange, HR!Hash, Hash, Members, LoOf, HiOf
<1>5. n \in Members /\ Members \subseteq Node
  BY <1>1 DEF Members
<1>6. lo[n] = 0 /\ hi[n] = MaxHash /\ lo[y] = 0
  BY <1>1, <1>2, <1>3, <1>5
<1>7. 0 <= hi[y] /\ 0 \in Hash
  BY <1>3, <1>4, <1>6 DEF Hash
<1> HIDE DEF lo, hi
<1>8. \A x, z \in Members :
         lo[x] <= 0 /\ 0 <= hi[x] /\ lo[z] <= 0 /\ 0 <= hi[z] => x = z
  BY <1>4, <1>7
<1>9. lo[n] <= 0 /\ 0 <= hi[n] /\ lo[y] <= 0
  BY <1>3, <1>6
<1> QED
  BY <1>2, <1>5, <1>7, <1>8, <1>9

LEMMA InitWired ==
  ASSUME Init
  PROVE  Follows /\ Wired
<1>1. Members = {}
  BY InitOwns DEF Members
<1>2. Wired
  BY DEF Init, Wired, Aimed, Preceded, Serving
<1> QED
  BY <1>1, <1>2 DEF Follows

LEMMA SettledIsClosed ==
  ASSUME JoinsOnly, Follows, Wired
  PROVE  SettledRing
<1> DEFINE members == {n \in Node : Serving(n)}
<1> SUFFICES ASSUME Settled, NEW n \in members
             PROVE  IF members = {n}
                      THEN /\ sockfd_b[n] = NoSock /\ sockfd_d[n] = NoSock
                           /\ successor[n] = None /\ start[n] = 0 /\ end[n] = MaxHash
                      ELSE /\ successor[n] \in members
                           /\ start[successor[n]] = UInt8(end[n] + 1)
                           /\ sockfd_b[n].conn # NoConn
                           /\ sockfd_b[n].conn = sockfd_d[successor[n]].conn
                           /\ predecessor[n]
  BY DEF SettledRing
<1>1. \A x \in Node : pc[x] \in {"off", "q6"} /\ backlog[x] = <<>>
  BY DEF Settled, Quiet, JoinsOnly, GrowInv
<1>2. Members = members
  <2>1. ASSUME NEW x \in Node PROVE Member(x) <=> Serving(x)
    <3>1. Serving(x) => Member(x)
      BY ServingOwns DEF JoinsOnly, RangeInv
    <3>2. ~Joining(x)
      BY <1>1 DEF Joining
    <3>3. Grants(x) = {}
      BY <3>2, GrantsIs
    <3> QED
      BY <3>1, <3>3 DEF Member
  <2> QED
    BY <2>1 DEF Members
<1>3. \A x \in members : /\ LoOf(x) = start[x] /\ HiOf(x) = end[x] /\ NextOf(x) = successor[x]
                         /\ x \in Node /\ Serving(x)
  BY ServingOwns DEF JoinsOnly, RangeInv
<1>4. CASE successor[n] = None
  <2>1. members = {n} /\ start[n] = 0 /\ end[n] = MaxHash
    BY <1>2, <1>3, <1>4 DEF Follows
  <2>2. sockfd_b[n] = NoSock /\ sockfd_d[n] = NoSock
    BY <1>3, <1>4 DEF JoinsOnly, RangeInv, FirstWithWaiting, First
  <2> QED
    BY <1>4, <2>1, <2>2
<1>5. CASE successor[n] # None
  <2>1. PICK y \in members \ {n} : y = successor[n] /\ LoOf(y) = UInt8(end[n] + 1)
    BY <1>2, <1>3, <1>5 DEF Follows
  <2>2. start[y] = UInt8(end[n] + 1)
    BY <1>3, <2>1
  <2>3. sockfd_b[n].conn \in Conn /\ sockfd_b[n].conn # NoConn
    BY <1>3, <1>5, SuccessorSocket
  <2>4. sockfd_b[n].conn \in Incoming(y)
    BY <1>3, <1>5, <2>1 DEF Wired, Aimed
  <2>5. sockfd_b[n].conn = sockfd_d[y].conn
    BY <1>1, <1>3, <2>1, <2>4 DEF Incoming
  <2>6. predecessor[n]
    BY <1>1, <1>3, <1>5 DEF Wired, Preceded, Serving
  <2> HIDE DEF members
  <2> QED
    BY <2>1, <2>2, <2>3, <2>5, <2>6
<1> QED
  BY <1>4, <1>5

(* As long as nodes only join, however many at once, the ring is closed     *)
(* whenever it is at rest: the node that q5_state, q13_state or q7_state    *)
(* takes as successor owns the hashes behind the node's own and holds the   *)
(* other end of its connection, and q17_state leaves no node without a      *)
(* predecessor.  The room is needed for the last: a node that owned the     *)
(* whole hash space would not wait for the next predecessor.                *)
THEOREM JoinsCloseTheRing ==
  ASSUME Leavers = {},
         NEW Room, IsRoom(Room), Room[Cardinality(Node) - 1] <= MaxHash + 1
  PROVE  Spec => []SettledRing
<1>1. Init => Follows /\ Wired
  BY InitWired
<1>2. JoinsOnly /\ JoinsOnly' /\ Grantees /\ HR!Partition /\ Follows /\ Wired /\ [Next]_vars
        => Follows' /\ Wired'
  BY NextFollows, NextWired, PartitionNoneWhole
<1>3. JoinsOnly /\ Follows /\ Wired => SettledRing
  BY SettledIsClosed
<1>4. Spec => []HR!Partition
  BY OneOwner
<1> QED
  BY <1>1, <1>2, <1>3, <1>4, JoinsOnlyHolds, GranteesHolds, PTL DEF Spec
=============================================================================
