--------------------------- MODULE RingValues_proofs ---------------------------
(***************************************************************************)
(* What becomes of the values in the ring, for every set of nodes and      *)
(* keys, every hash function, all requests, and any node leaving any time: *)
(* there is one copy of each, and, while nodes only join, it is stored     *)
(* where its hash belongs.                                                 *)
(***************************************************************************)
EXTENDS Ring_proofs

-----------------------------------------------------------------------------
(* PDUs of a set T in sequences of PDUs; the values below are those of one  *)
(* PDU, the insertion of a key.                                             *)

Put(k) == {Insert(k)}

Carries(s, T) == \E i \in DOMAIN s : s[i] \in T
Once(s, T) == \A i, j \in DOMAIN s : s[i] \in T /\ s[j] \in T => i = j

LEMMA EmptyCarries ==
  ASSUME NEW T
  PROVE  ~Carries(<<>>, T) /\ Once(<<>>, T)
BY DEF Carries, Once

LEMMA SingletonCarries ==
  ASSUME NEW T, NEW m
  PROVE  (Carries(<<m>>, T) <=> m \in T) /\ Once(<<m>>, T)
BY DEF Carries, Once

LEMMA ConcatCarries ==
  ASSUME NEW s \in Seq(Pdu), NEW t \in Seq(Pdu), NEW T
  PROVE  /\ Carries(s \o t, T) => Carries(s, T) \/ Carries(t, T)
         /\ Once(s, T) /\ Once(t, T) /\ ~(Carries(s, T) /\ Carries(t, T)) => Once(s \o t, T)
<1>1. /\ Len(s) \in Nat /\ DOMAIN s = 1 .. Len(s)
      /\ Len(t) \in Nat /\ DOMAIN t = 1 .. Len(t)
      /\ DOMAIN (s \o t) = 1 .. Len(s) + Len(t)
      /\ \A i \in 1 .. Len(s) + Len(t) : (s \o t)[i] = IF i <= Len(s) THEN s[i] ELSE t[i - Len(s)]
  OBVIOUS
<1>2. ASSUME NEW i \in DOMAIN (s \o t)
      PROVE  \/ i \in DOMAIN s /\ (s \o t)[i] = s[i]
             \/ i - Len(s) \in DOMAIN t /\ (s \o t)[i] = t[i - Len(s)]
  BY <1>1
<1>3. Carries(s \o t, T) => Carries(s, T) \/ Carries(t, T)
  BY <1>2 DEF Carries
<1>4. ASSUME Once(s, T), Once(t, T), ~(Carries(s, T) /\ Carries(t, T)),
             NEW i \in DOMAIN (s \o t), NEW j \in DOMAIN (s \o t),
             (s \o t)[i] \in T, (s \o t)[j] \in T
      PROVE  i = j
  <2>1. CASE Carries(s, T)
    <3>1. i \in DOMAIN s /\ j \in DOMAIN s /\ s[i] \in T /\ s[j] \in T
      BY <1>2, <1>4, <2>1 DEF Carries
    <3> QED
      BY <1>4, <3>1 DEF Once
  <2>2. CASE ~Carries(s, T)
    <3>1. /\ i - Len(s) \in DOMAIN t /\ t[i - Len(s)] \in T
          /\ j - Len(s) \in DOMAIN t /\ t[j - Len(s)] \in T
      BY <1>2, <1>4, <2>2 DEF Carries
    <3>2. i - Len(s) = j - Len(s)
      BY <1>4, <3>1 DEF Once
    <3> QED
      BY <1>1, <3>2
  <2> QED
    BY <2>1, <2>2
<1> QED
  BY <1>3, <1>4 DEF Once

(* The first g PDUs, and those after the first i. *)
LEMMA PartCarries ==
  ASSUME NEW s \in Seq(Pdu), NEW i \in 0 .. Len(s), NEW g \in 0 .. i, NEW T, Once(s, T)
  PROVE  LET a == SubSeq(s, 1, g)
             b == SubSeq(s, i + 1, Len(s))
         IN  /\ Once(a, T) /\ Once(b, T)
             /\ Carries(a, T) => Carries(s, T)
             /\ Carries(b, T) => Carries(s, T)
             /\ ~(Carries(a, T) /\ Carries(b, T))
<1> DEFINE a == SubSeq(s, 1, g)
           b == SubSeq(s, i + 1, Len(s))
<1>1. Len(s) \in Nat /\ DOMAIN s = 1 .. Len(s) /\ i \in Nat /\ g \in Nat /\ g <= i /\ i <= Len(s)
  OBVIOUS
<1>2. DOMAIN a = 1 .. g /\ \A j \in 1 .. g : a[j] = s[j]
  BY <1>1
<1>3. DOMAIN b = 1 .. Len(s) - i /\ \A j \in 1 .. Len(s) - i : b[j] = s[j + i]
  BY <1>1
<1> HIDE DEF a, b
<1>4. \A j \in DOMAIN a : j \in DOMAIN s /\ j <= i /\ a[j] = s[j]
  BY <1>1, <1>2
<1>5. \A j \in DOMAIN b : j + i \in DOMAIN s /\ j + i > i /\ b[j] = s[j + i]
  BY <1>1, <1>3
<1>6. Carries(a, T) => Carries(s, T)
  BY <1>4 DEF Carries
<1>7. Carries(b, T) => Carries(s, T)
  BY <1>5 DEF Carries
<1>8. Once(a, T)
  BY <1>4 DEF Once
<1>9. Once(b, T)
  <2> SUFFICES ASSUME NEW x \in DOMAIN b, NEW y \in DOMAIN b, b[x] \in T, b[y] \in T
               PROVE  x = y
    BY DEF Once
  <2>1. x + i = y + i
    BY <1>5 DEF Once
  <2> QED
    BY <1>1, <1>3, <2>1
<1>10. ASSUME NEW x \in DOMAIN a, NEW y \in DOMAIN b, a[x] \in T, b[y] \in T
       PROVE  FALSE
  <2>1. x = y + i
    BY <1>4, <1>5, <1>10 DEF Once
  <2> QED
    BY <1>1, <1>2, <1>3, <1>4, <1>5, <2>1
<1> QED
  BY <1>6, <1>7, <1>8, <1>9, <1>10 DEF Carries, a, b

LEMMA TailCarries ==
  ASSUME NEW s \in Seq(Pdu), s # <<>>, NEW T, Once(s, T)
  PROVE  /\ Once(Tail(s), T)
         /\ Carries(Tail(s), T) => Carries(s, T)
         /\ Head(s) \in T => Carries(s, T) /\ ~Carries(Tail(s), T)
<1>1. /\ Len(s) \in Nat \ {0} /\ DOMAIN s = 1 .. Len(s) /\ Head(s) = s[1]
      /\ DOMAIN Tail(s) = 1 .. Len(s) - 1
      /\ \A i \in 1 .. Len(s) - 1 : Tail(s)[i] = s[i + 1]
  OBVIOUS
<1>2. \A i \in DOMAIN Tail(s) : i + 1 \in DOMAIN s /\ i + 1 # 1 /\ Tail(s)[i] = s[i + 1]
  BY <1>1
<1>3. Once(Tail(s), T)
  <2> SUFFICES ASSUME NEW x \in DOMAIN Tail(s), NEW y \in DOMAIN Tail(s),
                      Tail(s)[x] \in T, Tail(s)[y] \in T
               PROVE  x = y
    BY DEF Once
  <2>1. x + 1 = y + 1
    BY <1>2 DEF Once
  <2> QED
    BY <1>1, <2>1
<1>4. Carries(Tail(s), T) => Carries(s, T)
  BY <1>2 DEF Carries
<1>5. ASSUME Head(s) \in T PROVE Carries(s, T) /\ ~Carries(Tail(s), T)
  <2>1. 1 \in DOMAIN s /\ s[1] \in T
    BY <1>1, <1>5
  <2> QED
    BY <1>2, <2>1 DEF Carries, Once
<1> QED
  BY <1>3, <1>4, <1>5

LEMMA InsertInjective ==
  ASSUME NEW k, NEW x, Insert(k) = Insert(x)
  PROVE  k = x
<1>1. Insert(k).ssn = k /\ Insert(x).ssn = x
  BY DEF Insert
<1> QED
  BY <1>1

(* A transfer names each entry once. *)
LEMMA TransferCarries ==
  ASSUME NEW S \in SUBSET Key, NEW s \in SetToSeqs(S), NEW k
  PROVE  (Carries(Inserts(s), Put(k)) => k \in S) /\ Once(Inserts(s), Put(k))
<1>1. /\ s \in [1 .. Cardinality(S) -> S]
      /\ \A i, j \in 1 .. Cardinality(S) : i # j => s[i] # s[j]
  BY DEF SetToSeqs
<1>2. DOMAIN Inserts(s) = 1 .. Cardinality(S) /\ \A i \in 1 .. Cardinality(S) : Inserts(s)[i] = Insert(s[i])
  BY <1>1 DEF Inserts
<1>3. \A i \in DOMAIN Inserts(s) : Inserts(s)[i] = Insert(k) => s[i] = k /\ s[i] \in S
  BY <1>1, <1>2, InsertInjective
<1> QED
  BY <1>1, <1>2, <1>3 DEF Carries, Once, Put
-----------------------------------------------------------------------------
(* PDUs of a set on connections. *)

Has(r, T) == Carries(r.up, T) \/ Carries(r.down, T)
RecordOnce(r, T) ==
  Once(r.up, T) /\ Once(r.down, T) /\ ~(Carries(r.up, T) /\ Carries(r.down, T))

OnWay(cs, T) == \E c \in Conn : Has(cs[c], T)
OnWayOnce(cs, T) ==
  /\ \A c \in Conn : RecordOnce(cs[c], T)
  /\ \A c, d \in Conn : Has(cs[c], T) /\ Has(cs[d], T) => c = d

(* Changing one connection, so that it has no more than it had ... *)
LEMMA ReplaceFewer ==
  ASSUME NEW cs \in Conns, NEW c \in Conn, NEW r, NEW T, OnWayOnce(cs, T),
         RecordOnce(r, T), Has(r, T) => Has(cs[c], T)
  PROVE  LET new == [cs EXCEPT ![c] = r]
         IN  /\ OnWayOnce(new, T)
             /\ OnWay(new, T) => OnWay(cs, T)
             /\ Has(cs[c], T) /\ ~Has(r, T) => ~OnWay(new, T)
<1>1. \A d \in Conn : [cs EXCEPT ![c] = r][d] = IF d = c THEN r ELSE cs[d]
  BY DEF Conns
<1> QED
  BY <1>1 DEF OnWay, OnWayOnce

(* ... or, if nothing is on its way, at all. *)
LEMMA ReplaceFirst ==
  ASSUME NEW cs \in Conns, NEW c \in Conn, NEW r, NEW T, OnWayOnce(cs, T),
         RecordOnce(r, T), ~OnWay(cs, T)
  PROVE  LET new == [cs EXCEPT ![c] = r]
         IN  /\ OnWayOnce(new, T)
             /\ OnWay(new, T) => Has(r, T)
<1>1. \A d \in Conn : [cs EXCEPT ![c] = r][d] = IF d = c THEN r ELSE cs[d]
  BY DEF Conns
<1> QED
  BY <1>1 DEF OnWay, OnWayOnce

LEMMA ClosedHas ==
  ASSUME NEW r \in ConnRecord, NEW cli \in BOOLEAN, NEW srv \in BOOLEAN, NEW T, RecordOnce(r, T)
  PROVE  /\ RecordOnce(Closed(r, cli, srv), T)
         /\ Has(Closed(r, cli, srv), T) => Has(r, T)
<1>1. /\ Closed(r, cli, srv).up \in {r.up, <<>>}
      /\ Closed(r, cli, srv).down \in {r.down, <<>>}
  BY DEF Closed, FreeConn, ConnRecord
<1> QED
  BY <1>1, EmptyCarries DEF RecordOnce, Has

LEMMA ShutOnWay ==
  ASSUME NEW cs \in Conns, NEW side \in {"B", "D"}, NEW s \in Sock, NEW T, OnWayOnce(cs, T)
  PROVE  /\ OnWayOnce(Shut(cs, side, s), T)
         /\ OnWay(Shut(cs, side, s), T) => OnWay(cs, T)
<1>1. CASE s.conn = NoConn
  BY <1>1 DEF Shut
<1>2. CASE s.conn # NoConn
  <2> DEFINE r == Closed(cs[s.conn], side = "B", side = "D")
  <2>1. s.conn \in Conn /\ cs[s.conn] \in ConnRecord
    BY <1>2 DEF Sock, Conns
  <2>2. RecordOnce(r, T) /\ (Has(r, T) => Has(cs[s.conn], T))
    BY <2>1, ClosedHas DEF OnWayOnce
  <2>3. Shut(cs, side, s) = [cs EXCEPT ![s.conn] = r]
    BY <1>2 DEF Shut
  <2> HIDE DEF r
  <2> QED
    BY <2>1, <2>2, <2>3, ReplaceFewer
<1> QED
  BY <1>1, <1>2

(* The end of a process closes many connections at once. *)
LEMMA ClosedOnWay ==
  ASSUME NEW cs \in Conns, NEW cli \in [Conn -> BOOLEAN], NEW srv \in [Conn -> BOOLEAN], NEW T,
         OnWayOnce(cs, T)
  PROVE  LET new == [c \in Conn |-> Closed(cs[c], cli[c], srv[c])]
         IN  OnWayOnce(new, T) /\ (OnWay(new, T) => OnWay(cs, T))
<1> DEFINE new == [c \in Conn |-> Closed(cs[c], cli[c], srv[c])]
<1>1. \A c \in Conn : RecordOnce(new[c], T) /\ (Has(new[c], T) => Has(cs[c], T))
  BY ClosedHas DEF OnWayOnce, Conns
<1> HIDE DEF new
<1>2. OnWayOnce(new, T) /\ (OnWay(new, T) => OnWay(cs, T))
  BY <1>1 DEF OnWayOnce, OnWay
<1> QED
  BY <1>2 DEF new

(* Sending. *)
LEMMA SentOnWay ==
  ASSUME NEW cs \in Conns, NEW side \in {"B", "D"}, NEW s \in Sock, NEW pdus \in Seq(Pdu), NEW T,
         OnWayOnce(cs, T), Once(pdus, T), ~(OnWay(cs, T) /\ Carries(pdus, T))
  PROVE  /\ OnWayOnce(Sent(cs, side, s, pdus), T)
         /\ OnWay(Sent(cs, side, s, pdus), T) => OnWay(cs, T) \/ Carries(pdus, T)
<1> DEFINE r == cs[s.conn]
<1>1. CASE s.conn = NoConn
  BY <1>1 DEF Sent
<1>2. CASE s.conn # NoConn
  <2>1. s.conn \in Conn /\ r \in ConnRecord /\ r.up \in Seq(Pdu) /\ r.down \in Seq(Pdu)
    BY <1>2 DEF Sock, Conns, ConnRecord
  <2>2. PICK new \in {[r EXCEPT !.rst = TRUE], [r EXCEPT !.up = @ \o pdus], [r EXCEPT !.down = @ \o pdus]} :
          Sent(cs, side, s, pdus) = [cs EXCEPT ![s.conn] = new]
    BY <1>2 DEF Sent
  <2>3. /\ new.up \in {r.up, r.up \o pdus} /\ new.down \in {r.down, r.down \o pdus}
        /\ new.up = r.up \/ new.down = r.down
    BY <2>1, <2>2 DEF ConnRecord
  <2>4. RecordOnce(r, T) /\ (Has(r, T) => OnWay(cs, T))
    BY <2>1 DEF OnWayOnce, OnWay
  <2> HIDE DEF r
  <2>5. /\ Carries(r.up \o pdus, T) => Carries(r.up, T) \/ Carries(pdus, T)
        /\ Carries(r.down \o pdus, T) => Carries(r.down, T) \/ Carries(pdus, T)
    BY <2>1, ConcatCarries
  <2>6. /\ Once(r.up \o pdus, T) /\ Once(r.down \o pdus, T)
    BY <2>1, <2>4, ConcatCarries DEF Has, RecordOnce
  <2>7. RecordOnce(new, T) /\ (Has(new, T) => Has(r, T) \/ Carries(pdus, T))
    <3>1. CASE new.up = r.up /\ new.down \in {r.down, r.down \o pdus}
      BY <2>4, <2>5, <2>6, <3>1 DEF Has, RecordOnce
    <3>2. CASE new.down = r.down /\ new.up \in {r.up, r.up \o pdus}
      BY <2>4, <2>5, <2>6, <3>2 DEF Has, RecordOnce
    <3> QED
      BY <2>3, <3>1, <3>2
  <2>8. CASE Carries(pdus, T)
    <3>1. ~OnWay(cs, T)
      BY <2>8
    <3>2. OnWayOnce([cs EXCEPT ![s.conn] = new], T)
      BY <2>1, <2>7, <3>1, ReplaceFirst
    <3> QED
      BY <2>2, <2>8, <3>2
  <2>9. CASE ~Carries(pdus, T)
    <3>1. Has(new, T) => Has(cs[s.conn], T)
      BY <2>7, <2>9 DEF r
    <3> QED
      BY <2>1, <2>2, <2>7, <3>1, ReplaceFewer
  <2> QED
    BY <2>8, <2>9
<1> QED
  BY <1>1, <1>2

(* Taking data from a connection. *)
LEMMA SetInboundOnWay ==
  ASSUME NEW cs \in Conns, NEW side \in {"B", "D"}, NEW s \in Sock, s.conn # NoConn,
         NEW data \in Seq(Pdu), NEW T, OnWayOnce(cs, T), Once(data, T),
         Carries(data, T) => Carries(Inbound(cs, side, s), T)
  PROVE  LET new == SetInbound(cs, side, s, data)
         IN  /\ OnWayOnce(new, T)
             /\ OnWay(new, T) => OnWay(cs, T)
             /\ Carries(Inbound(cs, side, s), T) => OnWay(cs, T)
             /\ Carries(Inbound(cs, side, s), T) /\ ~Carries(data, T) => ~OnWay(new, T)
             /\ Once(Inbound(cs, side, s), T)
<1> DEFINE r == cs[s.conn]
           new == IF side = "B" THEN [r EXCEPT !.down = data] ELSE [r EXCEPT !.up = data]
<1>1. s.conn \in Conn /\ r \in ConnRecord
  BY DEF Sock, Conns
<1>2. SetInbound(cs, side, s, data) = [cs EXCEPT ![s.conn] = new]
  BY DEF SetInbound
<1>3. Inbound(cs, side, s) = IF side = "B" THEN r.down ELSE r.up
  BY DEF Inbound
<1>4. IF side = "B" THEN new.up = r.up /\ new.down = data ELSE new.up = data /\ new.down = r.down
  BY <1>1 DEF ConnRecord
<1>5. RecordOnce(r, T) /\ (Has(r, T) => OnWay(cs, T))
  BY <1>1 DEF OnWayOnce, OnWay
<1> HIDE DEF new
<1>6. /\ RecordOnce(new, T) /\ (Has(new, T) => Has(r, T))
      /\ Carries(Inbound(cs, side, s), T) => Has(r, T)
      /\ Carries(Inbound(cs, side, s), T) /\ ~Carries(data, T) => ~Has(new, T)
      /\ Once(Inbound(cs, side, s), T)
  BY <1>3, <1>4, <1>5 DEF RecordOnce, Has
<1>7. /\ OnWayOnce([cs EXCEPT ![s.conn] = new], T)
      /\ OnWay([cs EXCEPT ![s.conn] = new], T) => OnWay(cs, T)
      /\ Has(r, T) /\ ~Has(new, T) => ~OnWay([cs EXCEPT ![s.conn] = new], T)
  BY <1>1, <1>6, ReplaceFewer
<1> HIDE DEF r
<1> QED
  BY <1>2, <1>5, <1>6, <1>7

LEMMA InboundOnce ==
  ASSUME NEW cs \in Conns, NEW side \in {"B", "D"}, NEW s \in Sock, NEW T, OnWayOnce(cs, T)
  PROVE  /\ Once(Inbound(cs, side, s), T)
         /\ Carries(Inbound(cs, side, s), T) => OnWay(cs, T)
<1>1. s.conn # NoConn => s.conn \in Conn
  BY DEF Sock
<1> QED
  BY <1>1, EmptyCarries DEF Inbound, OnWayOnce, OnWay, RecordOnce, Has

(* The first PDUs on a new connection. *)
LEMMA ConnectOnWay ==
  ASSUME NEW n \in Node, NEW to \in Node, NEW cs \in Conns, NEW pdus \in Seq(Pdu), NEW T,
         Connect(n, to, cs, pdus),
         OnWayOnce(cs, T), Once(pdus, T), ~(OnWay(cs, T) /\ Carries(pdus, T))
  PROVE  /\ OnWayOnce(conn', T)
         /\ OnWay(conn', T) => OnWay(cs, T) \/ Carries(pdus, T)
<1>1. PICK c \in Conn :
        conn' = [cs EXCEPT ![c] = [cli |-> TRUE, srv |-> TRUE, up |-> pdus,
                                   down |-> <<>>, rst |-> FALSE]]
  BY DEF Connect
<1> DEFINE r == [cli |-> TRUE, srv |-> TRUE, up |-> pdus, down |-> <<>>, rst |-> FALSE]
<1>2. RecordOnce(r, T) /\ (Has(r, T) <=> Carries(pdus, T))
  BY EmptyCarries DEF RecordOnce, Has
<1> HIDE DEF r
<1>3. CASE Carries(pdus, T)
  BY <1>1, <1>2, <1>3, ReplaceFirst DEF r
<1>4. CASE ~Carries(pdus, T)
  BY <1>1, <1>2, <1>4, ReplaceFewer DEF r
<1> QED
  BY <1>3, <1>4
-----------------------------------------------------------------------------
(* The invariant: a key is in one place at most, counting the request that  *)
(* a client has not sent yet.                                               *)

Holds(k, n) == Carries(queue[n], Put(k)) \/ Insert(k) \in udp[n] \/ k \in hash_table[n]
HoldsOnce(k, n) ==
  /\ Once(queue[n], Put(k))
  /\ ~(Carries(queue[n], Put(k)) /\ Insert(k) \in udp[n])
  /\ ~(Carries(queue[n], Put(k)) /\ k \in hash_table[n])
  /\ ~(Insert(k) \in udp[n] /\ k \in hash_table[n])

OnePlace(k) ==
  /\ \A n \in Node : HoldsOnce(k, n)
  /\ OnWayOnce(conn, Put(k))
  /\ \A m, n \in Node : Holds(k, m) /\ Holds(k, n) => m = n
  /\ \A n \in Node : ~(Holds(k, n) /\ OnWay(conn, Put(k)))
  /\ Insert(k) \in requests => ~OnWay(conn, Put(k)) /\ \A n \in Node : ~Holds(k, n)

(* A step concerns one node and the connections.  It may move the key from  *)
(* one to the other, but not add it.                                        *)
OnlyAt(n) ==
  /\ \A x \in Node \ {n} :
       queue'[x] = queue[x] /\ udp'[x] = udp[x] /\ hash_table'[x] = hash_table[x]
  /\ requests' = requests

LEMMA MovedOnce ==
  ASSUME NEW k, OnePlace(k), NEW n \in Node, OnlyAt(n),
         HoldsOnce(k, n)', OnWayOnce(conn', Put(k)), ~(Holds(k, n)' /\ OnWay(conn', Put(k))),
         Holds(k, n)' \/ OnWay(conn', Put(k)) => Holds(k, n) \/ OnWay(conn, Put(k))
  PROVE  OnePlace(k)'
<1>1. \A x \in Node \ {n} : /\ Holds(k, x)' <=> Holds(k, x)
                            /\ HoldsOnce(k, x)'
  BY DEF OnlyAt, Holds, HoldsOnce, OnePlace
<1>2. (Insert(k) \in requests)' <=> Insert(k) \in requests
  BY DEF OnlyAt
<1> QED
  BY <1>1, <1>2 DEF OnePlace

(* In particular when nothing is moved. *)
LEMMA KeptOnce ==
  ASSUME NEW k, OnePlace(k), NEW n \in Node, OnlyAt(n),
         Once(queue'[n], Put(k)), Carries(queue'[n], Put(k)) => Carries(queue[n], Put(k)),
         udp'[n] \subseteq udp[n] \/ Insert(k) \notin udp'[n],
         hash_table'[n] \subseteq hash_table[n],
         OnWayOnce(conn', Put(k)), OnWay(conn', Put(k)) => OnWay(conn, Put(k))
  PROVE  OnePlace(k)'
<1>1. /\ Carries(queue[n], Put(k))' => Carries(queue[n], Put(k))
      /\ Insert(k) \in udp'[n] => Insert(k) \in udp[n]
      /\ k \in hash_table'[n] => k \in hash_table[n]
  BY DEF Carries
<1>2. HoldsOnce(k, n)' /\ (Holds(k, n)' => Holds(k, n))
  BY <1>1 DEF OnePlace, Holds, HoldsOnce
<1> QED
  BY <1>2, MovedOnce DEF OnePlace

LEMMA Unmoved ==
  ASSUME NEW k, OnePlace(k), UNCHANGED <<queue, udp, hash_table, conn, requests>>
  PROVE  OnePlace(k)'
BY DEF OnePlace, Holds, HoldsOnce

(* Taking a PDU. *)
LEMMA TakenOnce ==
  ASSUME TypeOK, NEW n \in Node, NEW kind \in {"udp", "tcp"}, NEW m, NextPdu(n, kind, m),
         Taken(n, kind, m), NEW k, OnePlace(k)
  PROVE  /\ \A x \in Node \ {n} : queue'[x] = queue[x] /\ udp'[x] = udp[x]
         /\ Once(queue'[n], Put(k)) /\ (Carries(queue'[n], Put(k)) => Carries(queue[n], Put(k)))
         /\ udp'[n] \subseteq udp[n]
         /\ m = Insert(k) => /\ Carries(queue[n], Put(k)) \/ Insert(k) \in udp[n]
                             /\ ~Carries(queue'[n], Put(k)) /\ Insert(k) \notin udp'[n]
<1>1. queue[n] \in Seq(Pdu) /\ queue \in [Node -> Seq(Pdu)] /\ udp \in [Node -> SUBSET Pdu]
  BY DEF TypeOK
<1>2. Once(queue[n], Put(k)) /\ ~(Carries(queue[n], Put(k)) /\ Insert(k) \in udp[n])
  BY DEF OnePlace, HoldsOnce
<1>3. CASE kind = "udp"
  <2>1. m \in udp[n] /\ udp' = [udp EXCEPT ![n] = udp[n] \ {m}] /\ queue' = queue
    BY <1>3 DEF NextPdu, Taken
  <2> QED
    BY <1>1, <1>2, <2>1
<1>4. CASE kind = "tcp"
  <2>1. /\ queue[n] # <<>> /\ m = Head(queue[n])
        /\ queue' = [queue EXCEPT ![n] = Tail(queue[n])] /\ udp' = udp
    BY <1>4 DEF NextPdu, Taken
  <2>2. queue'[n] = Tail(queue[n]) /\ \A x \in Node \ {n} : queue'[x] = queue[x]
    BY <1>1, <2>1
  <2> QED
    BY <1>1, <1>2, <2>1, <2>2, TailCarries DEF Put
<1> QED
  BY <1>3, <1>4

(* The end of a process. *)
LEMMA ExitOnce ==
  ASSUME TypeOK, NEW n \in Node, NEW cs \in Conns, Exit(n, cs), NEW k, OnePlace(k),
         OnWayOnce(cs, Put(k)), OnWay(cs, Put(k)) => OnWay(conn, Put(k)) \/ Holds(k, n)
  PROVE  OnePlace(k)'
<1> DEFINE cli == [c \in Conn |-> c = sockfd_b[n].conn]
           srv == [c \in Conn |-> c = sockfd_d[n].conn \/ \E i \in DOMAIN backlog[n] : c = backlog[n][i]]
<1>1. cli \in [Conn -> BOOLEAN] /\ srv \in [Conn -> BOOLEAN]
  OBVIOUS
<1>2. conn' = [c \in Conn |-> Closed(cs[c], cli[c], srv[c])]
  BY DEF Exit
<1> HIDE DEF cli, srv
<1>3. OnWayOnce(conn', Put(k)) /\ (OnWay(conn', Put(k)) => OnWay(cs, Put(k)))
  BY <1>1, <1>2, ClosedOnWay
<1>4. OnlyAt(n) /\ queue'[n] = <<>> /\ udp'[n] = {} /\ hash_table'[n] = {}
  BY DEF Exit, OnlyAt, TypeOK
<1>5. HoldsOnce(k, n)' /\ ~Holds(k, n)'
  BY <1>4, EmptyCarries DEF HoldsOnce, Holds
<1> QED
  BY <1>3, <1>4, <1>5, MovedOnce

(* The end of a q6_state. *)
LEMMA LeaveLoopOnce ==
  ASSUME TypeOK, NEW n \in Node, NEW cs \in Conns, NEW table \in {hash_table[n], {}},
         LeaveLoop(n, cs, table), NEW k, OnePlace(k), OnWayOnce(cs, Put(k)),
         OnWay(cs, Put(k)) => OnWay(conn, Put(k)) \/ (k \in hash_table[n] /\ table = {})
  PROVE  OnePlace(k)'
<1>1. CASE stack[n] = <<>>
  BY <1>1, ExitOnce DEF LeaveLoop, Holds
<1>2. CASE stack[n] # <<>>
  <2>1. /\ conn' = cs /\ hash_table' = [hash_table EXCEPT ![n] = table]
        /\ UNCHANGED <<queue, udp, requests>>
    BY <1>2 DEF LeaveLoop, inbox
  <2>2. OnlyAt(n) /\ hash_table'[n] = table
    BY <2>1 DEF OnlyAt, TypeOK
  <2>3. HoldsOnce(k, n)' /\ (Holds(k, n)' => Holds(k, n))
    BY <2>1, <2>2 DEF OnePlace, HoldsOnce, Holds
  <2>4. ~(Holds(k, n)' /\ OnWay(conn', Put(k)))
    BY <2>1, <2>2, <2>3 DEF OnePlace, HoldsOnce, Holds
  <2> QED
    BY <2>1, <2>2, <2>3, <2>4, MovedOnce DEF Holds
<1> QED
  BY <1>1, <1>2
-----------------------------------------------------------------------------
(* The steps. *)

LEMMA CurrentOnce ==
  ASSUME TypeOK, NEW n \in Node, NEW k, OnePlace(k)
  PROVE  /\ conn \in Conns /\ OnWayOnce(conn, Put(k))
         /\ sockfd_b[n] \in Sock /\ sockfd_d[n] \in Sock
         /\ queue[n] \in Seq(Pdu) /\ Once(queue[n], Put(k))
BY DEF TypeOK, Conns, OnePlace, HoldsOnce

LEMMA StartJoinOnce ==
  ASSUME TypeOK, NEW n \in Node, NEW e \in Node, StartJoin(n, e), NEW k, OnePlace(k)
  PROVE  OnePlace(k)'
<1>1. JoinPdu(n, None, 0) # Insert(k)
  BY DEF JoinPdu, Insert
<1>2. /\ udp' = [udp EXCEPT ![e] = udp[e] \cup {JoinPdu(n, None, 0)}]
      /\ UNCHANGED <<queue, hash_table, conn, requests>>
  BY DEF StartJoin, net
<1>3. \A x \in Node : Insert(k) \in udp'[x] <=> Insert(k) \in udp[x]
  BY <1>1, <1>2 DEF TypeOK
<1> QED
  BY <1>2, <1>3 DEF OnePlace, Holds, HoldsOnce

LEMMA AcceptOnce ==
  ASSUME NEW n \in Node, JoinAccept(n) \/ Q5Accept(n) \/ Q17Accept(n), NEW k, OnePlace(k)
  PROVE  OnePlace(k)'
BY Unmoved DEF JoinAccept, Q5Accept, Q17Accept, inbox

LEMMA OverReadOnce ==
  ASSUME NEW rest \in Seq(Pdu), NEW k, Once(rest, Put(k)), NEW r \in AfterOverRead(rest)
  PROVE  r \in Seq(Pdu) /\ Once(r, Put(k)) /\ (Carries(r, Put(k)) => Carries(rest, Put(k)))
<1>1. r \in Seq(Pdu)
  BY OverReadTypes
<1>2. CASE r = rest
  BY <1>1, <1>2
<1>3. CASE rest # <<>> /\ r = Tail(rest)
  BY <1>1, <1>3, TailCarries
<1>4. CASE rest # <<>> /\ r = <<Garbage>> \o Tail(rest)
  <2>1. <<Garbage>> \in Seq(Pdu) /\ Tail(rest) \in Seq(Pdu)
    BY <1>4, PduConstructors
  <2>2. Once(<<Garbage>>, Put(k)) /\ ~Carries(<<Garbage>>, Put(k))
    <3>1. Garbage # Insert(k)
      BY DEF Garbage, Insert
    <3> QED
      BY <3>1, SingletonCarries DEF Put
  <2>3. Once(Tail(rest), Put(k)) /\ (Carries(Tail(rest), Put(k)) => Carries(rest, Put(k)))
    BY <1>4, TailCarries
  <2> HIDE DEF Carries, Once
  <2> QED
    BY <1>1, <1>4, <2>1, <2>2, <2>3, ConcatCarries
<1> QED
  BY <1>2, <1>3, <1>4 DEF AfterOverRead

LEMMA JoinRecvOnce ==
  ASSUME TypeOK, NEW n \in Node, JoinRecv(n), NEW k, OnePlace(k)
  PROVE  OnePlace(k)'
<1> DEFINE data == Inbound(conn, "D", sockfd_d[n])
           m    == Head(data)
<1>1. conn \in Conns /\ sockfd_d[n] \in Sock /\ OnWayOnce(conn, Put(k))
  BY CurrentOnce
<1>2. data \in Seq(Pdu) /\ data # <<>> /\ sockfd_d[n].conn # NoConn /\ m \in Pdu
      /\ m.type = "NET_JOIN_RESPONSE"
  <2>1. data \in Seq(Pdu) /\ data # <<>> /\ m.type = "NET_JOIN_RESPONSE"
    BY <1>1, ConnTypes DEF JoinRecv
  <2> QED
    BY <2>1 DEF Inbound
<1>3. PICK rest \in AfterOverRead(Tail(data)) :
        LET cs == SetInbound(conn, "D", sockfd_d[n], rest)
        IN  \/ /\ Reachable(m.next)
               /\ Connect(n, m.next, cs, <<>>)
               /\ UNCHANGED <<inbox, hash_table, requests>>
            \/ Exit(n, cs)
  BY DEF JoinRecv
<1> DEFINE cs == SetInbound(conn, "D", sockfd_d[n], rest)
<1>4. Once(data, Put(k))
  BY <1>1, InboundOnce
<1>5. rest \in Seq(Pdu) /\ Once(rest, Put(k)) /\ (Carries(rest, Put(k)) => Carries(data, Put(k)))
  <2> HIDE DEF data
  <2>1. Tail(data) \in Seq(Pdu) /\ Once(Tail(data), Put(k)) /\ (Carries(Tail(data), Put(k)) => Carries(data, Put(k)))
    BY <1>2, <1>4, TailCarries
  <2> QED
    BY <2>1, OverReadOnce
<1>6. cs \in Conns /\ OnWayOnce(cs, Put(k)) /\ (OnWay(cs, Put(k)) => OnWay(conn, Put(k)))
  BY <1>1, <1>2, <1>5, ConnTypes, SetInboundOnWay
<1>7. Reachable(m.next) => m.next \in Node
  BY <1>2, JoinResponseFields DEF Reachable
<1> HIDE DEF data, m, cs
<1>8. CASE Exit(n, cs)
  BY <1>6, <1>8, ExitOnce
<1>9. CASE /\ Reachable(m.next) /\ Connect(n, m.next, cs, <<>>)
           /\ UNCHANGED <<inbox, hash_table, requests>>
  <2>1. OnWayOnce(conn', Put(k)) /\ (OnWay(conn', Put(k)) => OnWay(cs, Put(k)))
    <3>1. <<>> \in Seq(Pdu)
      OBVIOUS
    <3> QED
      BY <1>6, <1>7, <1>9, <3>1, EmptyCarries, ConnectOnWay
  <2>2. OnlyAt(n) /\ queue'[n] = queue[n] /\ udp'[n] = udp[n] /\ hash_table'[n] = hash_table[n]
    BY <1>9 DEF OnlyAt, inbox
  <2> QED
    BY <1>6, <2>1, <2>2, CurrentOnce, KeptOnce
<1> QED
  BY <1>3, <1>8, <1>9 DEF data, m, cs
-----------------------------------------------------------------------------
(* The entries that go with a granted range leave the table. *)
LEMMA GrantOnce ==
  ASSUME TypeOK, NEW n \in Node, NEW to \in Node, NEW next \in Node \cup {None},
         NEW cs \in Conns, GrantUpperHalf(n, to, next, cs),
         NEW k, OnePlace(k), OnWayOnce(cs, Put(k)), OnWay(cs, Put(k)) => OnWay(conn, Put(k))
  PROVE  /\ \A x \in Node \ {n} : hash_table'[x] = hash_table[x]
         /\ hash_table'[n] \subseteq hash_table[n]
         /\ OnWayOnce(conn', Put(k))
         /\ OnWay(conn', Put(k)) => OnWay(conn, Put(k)) \/ (k \in hash_table[n] /\ k \notin hash_table'[n])
<1>1. /\ start[n] \in Hash /\ end[n] \in Hash
      /\ hash_table[n] \in SUBSET Key /\ hash_table \in [Node -> SUBSET Key]
  BY DEF TypeOK
<1>2. Upper(n) \subseteq hash_table[n] /\ hash_table' = [hash_table EXCEPT ![n] = hash_table[n] \ Upper(n)]
  BY DEF GrantUpperHalf, Kept, Upper
<1>3. PICK s \in SetToSeqs(Upper(n)) : Connect(n, to, cs, GrantPdus(n, next, s))
  BY DEF GrantUpperHalf
<1> DEFINE r == JoinResponse(next, UpperStart(start[n], end[n]), end[n])
           t == Inserts(s)
<1>4. r \in Pdu /\ r # Insert(k)
  <2>1. UpperStart(start[n], end[n]) \in Hash
    BY <1>1, HashArithmetic
  <2>2. r \in Pdu
    BY <1>1, <2>1, PduConstructors
  <2> QED
    BY <2>2 DEF JoinResponse, Insert
<1>5. t \in Seq(Pdu) /\ Once(t, Put(k)) /\ (Carries(t, Put(k)) => k \in Upper(n))
  BY <1>1, <1>2, TransferTypes, TransferCarries
<1>6. GrantPdus(n, next, s) = <<r>> \o t
  BY DEF GrantPdus
<1> HIDE DEF r, t
<1>7. <<r>> \in Seq(Pdu) /\ Once(<<r>>, Put(k)) /\ ~Carries(<<r>>, Put(k))
  BY <1>4, SingletonCarries DEF Put
<1>8. /\ <<r>> \o t \in Seq(Pdu) /\ Once(<<r>> \o t, Put(k))
      /\ Carries(<<r>> \o t, Put(k)) => k \in Upper(n)
  <2>1. <<r>> \o t \in Seq(Pdu)
    BY <1>5, <1>7
  <2> QED
    BY <1>5, <1>7, <2>1, ConcatCarries
<1>9. ~(OnWay(cs, Put(k)) /\ Carries(<<r>> \o t, Put(k)))
  BY <1>2, <1>8 DEF OnePlace, Holds
<1>10. OnWayOnce(conn', Put(k)) /\ (OnWay(conn', Put(k)) => OnWay(cs, Put(k)) \/ Carries(<<r>> \o t, Put(k)))
  BY <1>3, <1>6, <1>8, <1>9, ConnectOnWay
<1> QED
  BY <1>1, <1>2, <1>8, <1>10

(* Granting a range, having taken a PDU. *)
LEMMA TakenGrantOnce ==
  ASSUME TypeOK, NEW n \in Node, NEW kind \in {"udp", "tcp"}, NEW m, NextPdu(n, kind, m),
         Taken(n, kind, m), requests' = requests,
         NEW to \in Node, NEW next \in Node \cup {None}, NEW cs \in Conns,
         GrantUpperHalf(n, to, next, cs),
         NEW k, OnePlace(k), OnWayOnce(cs, Put(k)), OnWay(cs, Put(k)) => OnWay(conn, Put(k))
  PROVE  OnePlace(k)'
<1>1. /\ \A x \in Node \ {n} : hash_table'[x] = hash_table[x]
      /\ hash_table'[n] \subseteq hash_table[n]
      /\ OnWayOnce(conn', Put(k))
      /\ OnWay(conn', Put(k)) => OnWay(conn, Put(k)) \/ (k \in hash_table[n] /\ k \notin hash_table'[n])
  BY GrantOnce
<1>2. /\ \A x \in Node \ {n} : queue'[x] = queue[x] /\ udp'[x] = udp[x]
      /\ Once(queue'[n], Put(k)) /\ (Carries(queue'[n], Put(k)) => Carries(queue[n], Put(k)))
      /\ udp'[n] \subseteq udp[n]
  BY TakenOnce
<1>3. OnlyAt(n)
  BY <1>1, <1>2 DEF OnlyAt
<1>4. HoldsOnce(k, n)' /\ (Holds(k, n)' => Holds(k, n))
  BY <1>1, <1>2 DEF OnePlace, HoldsOnce, Holds
<1>5. ~(Holds(k, n)' /\ OnWay(conn', Put(k)))
  BY <1>1, <1>2 DEF OnePlace, HoldsOnce, Holds
<1> QED
  BY <1>1, <1>3, <1>4, <1>5, MovedOnce DEF Holds

(* The connections after NET_CLOSE_CONNECTION and close on sockfd_b. *)
LEMMA CloseBOnce ==
  ASSUME TypeOK, NEW n \in Node, NEW k, OnePlace(k)
  PROVE  LET cs == Shut(Sent(conn, "B", sockfd_b[n], <<Close>>), "B", sockfd_b[n])
         IN  cs \in Conns /\ OnWayOnce(cs, Put(k)) /\ (OnWay(cs, Put(k)) => OnWay(conn, Put(k)))
<1> DEFINE cs == Sent(conn, "B", sockfd_b[n], <<Close>>)
<1>1. conn \in Conns /\ sockfd_b[n] \in Sock /\ OnWayOnce(conn, Put(k))
  BY CurrentOnce
<1>2. <<Close>> \in Seq(Pdu) /\ Once(<<Close>>, Put(k)) /\ ~Carries(<<Close>>, Put(k))
  <2>1. Close \in Pdu /\ Close # Insert(k)
    BY PduConstructors DEF Close, Insert
  <2> QED
    BY <2>1, SingletonCarries DEF Put
<1>3. cs \in Conns /\ OnWayOnce(cs, Put(k)) /\ (OnWay(cs, Put(k)) => OnWay(conn, Put(k)))
  BY <1>1, <1>2, ConnTypes, SentOnWay
<1> HIDE DEF cs
<1>4. OnWayOnce(Shut(cs, "B", sockfd_b[n]), Put(k)) /\ (OnWay(Shut(cs, "B", sockfd_b[n]), Put(k)) => OnWay(cs, Put(k)))
  BY <1>1, <1>3, ShutOnWay
<1> QED
  BY <1>3, <1>4, CloseBTypes DEF cs

LEMMA Q5Q13Once ==
  ASSUME TypeOK, NEW n \in Node, NEW kind \in {"udp", "tcp"}, NEW m,
         Q5(n, kind, m) \/ Q13(n, kind, m), NEW k, OnePlace(k)
  PROVE  OnePlace(k)'
<1>1. NextPdu(n, kind, m) /\ Taken(n, kind, m) /\ m.type = "NET_JOIN" /\ requests' = requests
  BY DEF Q5, Q13
<1>2. m.src \in Node
  BY <1>1, TakenTypes, JoinFields
<1>3. CASE Q5(n, kind, m)
  <2>1. GrantUpperHalf(n, m.src, n, conn) /\ n \in Node \cup {None}
    BY <1>3 DEF Q5
  <2> QED
    BY <1>1, <1>2, <2>1, CurrentOnce, TakenGrantOnce
<1>4. CASE Q13(n, kind, m)
  <2> DEFINE cs == Shut(Sent(conn, "B", sockfd_b[n], <<Close>>), "B", sockfd_b[n])
  <2>1. GrantUpperHalf(n, m.src, successor[n], cs) /\ successor[n] \in Node \cup {None}
    BY <1>4 DEF Q13, TypeOK
  <2>2. cs \in Conns /\ OnWayOnce(cs, Put(k)) /\ (OnWay(cs, Put(k)) => OnWay(conn, Put(k)))
    BY CloseBOnce
  <2> HIDE DEF cs
  <2> QED
    BY <1>1, <1>2, <2>1, <2>2, TakenGrantOnce
<1> QED
  BY <1>3, <1>4

(* A handler that leaves the table alone, and sends only PDUs of another   *)
(* type or none.                                                           *)
LEMMA TakenKeptOnce ==
  ASSUME TypeOK, NEW n \in Node, NEW kind \in {"udp", "tcp"}, NEW m, NextPdu(n, kind, m),
         Taken(n, kind, m), UNCHANGED <<hash_table, requests>>,
         NEW k, OnePlace(k), OnWayOnce(conn', Put(k)), OnWay(conn', Put(k)) => OnWay(conn, Put(k))
  PROVE  OnePlace(k)'
<1>1. /\ \A x \in Node \ {n} : queue'[x] = queue[x] /\ udp'[x] = udp[x]
      /\ Once(queue'[n], Put(k)) /\ (Carries(queue'[n], Put(k)) => Carries(queue[n], Put(k)))
      /\ udp'[n] \subseteq udp[n]
  BY TakenOnce
<1>2. OnlyAt(n)
  BY <1>1 DEF OnlyAt
<1> QED
  BY <1>1, <1>2, KeptOnce

(* Sending one PDU that is not an insertion of k. *)
LEMMA SentOtherOnce ==
  ASSUME TypeOK, NEW n \in Node, NEW side \in {"B", "D"}, NEW m \in Pdu, NEW k, m # Insert(k),
         OnePlace(k), conn' = Sent(conn, side, SockOf(n, side), <<m>>)
  PROVE  OnWayOnce(conn', Put(k)) /\ (OnWay(conn', Put(k)) => OnWay(conn, Put(k)))
<1>1. <<m>> \in Seq(Pdu) /\ Once(<<m>>, Put(k)) /\ ~Carries(<<m>>, Put(k))
  BY SingletonCarries DEF Put
<1>2. conn \in Conns /\ OnWayOnce(conn, Put(k)) /\ SockOf(n, side) \in Sock
  BY CurrentOnce, SockOfType
<1> QED
  BY <1>1, <1>2, SentOnWay

LEMMA ShutOnce ==
  ASSUME TypeOK, NEW n \in Node, NEW side \in {"B", "D"}, NEW k, OnePlace(k)
  PROVE  LET cs == Shut(conn, side, SockOf(n, side))
         IN  cs \in Conns /\ OnWayOnce(cs, Put(k)) /\ (OnWay(cs, Put(k)) => OnWay(conn, Put(k)))
BY CurrentOnce, ShutTypes, SockOfType, ShutOnWay

LEMMA RefusedOnce ==
  ASSUME TypeOK, NEW n \in Node, NEW kind \in {"udp", "tcp"}, NEW m,
         Q5Refused(n, kind, m) \/ Q13Refused(n, kind, m), NEW k, OnePlace(k)
  PROVE  OnePlace(k)'
<1>1. CASE Q5Refused(n, kind, m)
  BY <1>1, CurrentOnce, TakenKeptOnce DEF Q5Refused, ConnectRefused
<1>2. CASE Q13Refused(n, kind, m)
  BY <1>2, CloseBOnce, TakenKeptOnce DEF Q13Refused, ConnectRefused
<1> QED
  BY <1>1, <1>2

LEMMA Q14Once ==
  ASSUME TypeOK, NEW n \in Node, NEW kind \in {"udp", "tcp"}, NEW m, Q14(n, kind, m),
         NEW k, OnePlace(k)
  PROVE  OnePlace(k)'
<1>1. m \in Pdu /\ m.type = "NET_JOIN"
  BY TakenTypes DEF Q14
<1>2. WithWidest(n, m) \in Pdu
  BY <1>1, WithWidestType
<1>3. WithWidest(n, m).type = "NET_JOIN"
  BY <1>1, JoinFields DEF WithWidest
<1>4. WithWidest(n, m) # Insert(k)
  BY <1>3 DEF Insert
<1>5. conn' = Sent(conn, "B", SockOf(n, "B"), <<WithWidest(n, m)>>)
  BY DEF Q14, SockOf
<1> QED
  BY <1>2, <1>4, <1>5, SentOtherOnce, TakenKeptOnce DEF Q14

LEMMA Q15Once ==
  ASSUME TypeOK, NEW n \in Node, NEW kind \in {"udp", "tcp"}, NEW m, Q15(n, kind, m),
         NEW k, OnePlace(k)
  PROVE  OnePlace(k)'
<1>1. conn' = Sent(conn, AnswerSide(n, m), SockOf(n, AnswerSide(n, m)), <<NewRangeResponse>>)
  BY DEF Q15
<1>2. AnswerSide(n, m) \in {"B", "D"}
  BY DEF AnswerSide
<1>3. NewRangeResponse \in Pdu /\ NewRangeResponse # Insert(k)
  BY PduConstructors DEF NewRangeResponse, Insert
<1>4. NextPdu(n, kind, m) /\ Taken(n, kind, m) /\ UNCHANGED <<hash_table, requests>>
  BY DEF Q15
<1> QED
  BY <1>1, <1>2, <1>3, <1>4, SentOtherOnce, TakenKeptOnce

LEMMA Q16Once ==
  ASSUME TypeOK, NEW n \in Node, NEW kind \in {"udp", "tcp"}, NEW m,
         Q16(n, kind, m) \/ Q16Alone(n, kind, m) \/ Q16Refused(n, kind, m), NEW k, OnePlace(k)
  PROVE  OnePlace(k)'
<1> DEFINE cs == Shut(conn, "B", SockOf(n, "B"))
<1>1. cs \in Conns /\ OnWayOnce(cs, Put(k)) /\ (OnWay(cs, Put(k)) => OnWay(conn, Put(k)))
  BY ShutOnce
<1>2. NextPdu(n, kind, m) /\ Taken(n, kind, m) /\ UNCHANGED <<hash_table, requests>>
  BY DEF Q16, Q16Alone, Q16Refused
<1>3. CASE Q16(n, kind, m)
  <2>1. m.new \in Node
    BY <1>3, TakenTypes, LeavingFields DEF Q16, Reachable
  <2>2. Connect(n, m.new, cs, <<>>) /\ <<>> \in Seq(Pdu)
    BY <1>3 DEF Q16, SockOf
  <2> HIDE DEF cs
  <2>3. OnWayOnce(conn', Put(k)) /\ (OnWay(conn', Put(k)) => OnWay(cs, Put(k)))
    BY <1>1, <2>1, <2>2, EmptyCarries, ConnectOnWay
  <2> QED
    BY <1>1, <1>2, <2>3, TakenKeptOnce
<1>4. CASE Q16Alone(n, kind, m) \/ Q16Refused(n, kind, m)
  <2>1. conn' = cs
    BY <1>4 DEF Q16Alone, Q16Refused, SockOf
  <2> QED
    BY <1>1, <1>2, <2>1, TakenKeptOnce
<1> QED
  BY <1>3, <1>4

LEMMA Q17Once ==
  ASSUME TypeOK, NEW n \in Node, NEW kind \in {"udp", "tcp"}, NEW m, Q17(n, kind, m),
         NEW k, OnePlace(k)
  PROVE  OnePlace(k)'
<1>1. NextPdu(n, kind, m) /\ Taken(n, kind, m) /\ UNCHANGED <<hash_table, requests>>
  BY DEF Q17
<1>2. conn' = Shut(conn, "D", SockOf(n, "D"))
  BY DEF Q17, SockOf
<1> QED
  BY <1>1, <1>2, ShutOnce, TakenKeptOnce

LEMMA Q9ServeOnce ==
  ASSUME TypeOK, NEW n \in Node, NEW kind \in {"udp", "tcp"}, NEW m, Q9Serve(n, kind, m),
         NEW k, OnePlace(k)
  PROVE  OnePlace(k)'
<1>1. /\ NextPdu(n, kind, m) /\ Taken(n, kind, m) /\ UNCHANGED <<conn, requests>>
      /\ m \in ValPdu
  BY DEF Q9Serve, net
<1>2. /\ \A x \in Node \ {n} : queue'[x] = queue[x] /\ udp'[x] = udp[x]
      /\ Once(queue'[n], Put(k)) /\ (Carries(queue'[n], Put(k)) => Carries(queue[n], Put(k)))
      /\ udp'[n] \subseteq udp[n]
      /\ m = Insert(k) => /\ Carries(queue[n], Put(k)) \/ Insert(k) \in udp[n]
                          /\ ~Carries(queue'[n], Put(k)) /\ Insert(k) \notin udp'[n]
  BY <1>1, TakenOnce
<1>3. /\ \A x \in Node \ {n} : hash_table'[x] = hash_table[x]
      /\ k \in hash_table'[n] => k \in hash_table[n] \/ m = Insert(k)
  BY <1>1 DEF Q9Serve, TypeOK, ValPdu, Insert
<1>4. OnlyAt(n)
  BY <1>1, <1>2, <1>3 DEF OnlyAt
<1>5. HoldsOnce(k, n)' /\ (Holds(k, n)' => Holds(k, n))
  BY <1>2, <1>3 DEF OnePlace, HoldsOnce, Holds
<1>6. OnWayOnce(conn, Put(k)) /\ ~(Holds(k, n) /\ OnWay(conn, Put(k)))
  BY DEF OnePlace
<1> QED
  BY <1>1, <1>4, <1>5, <1>6, MovedOnce

LEMMA Q9ForwardOnce ==
  ASSUME TypeOK, NEW n \in Node, NEW kind \in {"udp", "tcp"}, NEW m, Q9Forward(n, kind, m),
         NEW k, OnePlace(k)
  PROVE  OnePlace(k)'
<1>1. /\ NextPdu(n, kind, m) /\ Taken(n, kind, m) /\ UNCHANGED <<hash_table, requests>>
      /\ conn' = Sent(conn, "B", SockOf(n, "B"), <<m>>)
  BY DEF Q9Forward, SockOf
<1>2. m \in Pdu
  BY <1>1, TakenTypes
<1>3. CASE m # Insert(k)
  BY <1>1, <1>2, <1>3, SentOtherOnce, TakenKeptOnce
<1>4. CASE m = Insert(k)
  <2>1. /\ \A x \in Node \ {n} : queue'[x] = queue[x] /\ udp'[x] = udp[x]
        /\ Once(queue'[n], Put(k))
        /\ Carries(queue[n], Put(k)) \/ Insert(k) \in udp[n]
        /\ ~Carries(queue'[n], Put(k)) /\ Insert(k) \notin udp'[n]
    BY <1>1, <1>4, TakenOnce
  <2>2. Holds(k, n) /\ k \notin hash_table[n] /\ ~OnWay(conn, Put(k))
    BY <2>1 DEF OnePlace, HoldsOnce, Holds
  <2>3. HoldsOnce(k, n)' /\ ~Holds(k, n)'
    BY <1>1, <2>1, <2>2 DEF HoldsOnce, Holds
  <2>4. OnlyAt(n)
    BY <1>1, <2>1 DEF OnlyAt
  <2>5. OnWayOnce(conn', Put(k))
    <3>1. <<m>> \in Seq(Pdu) /\ Once(<<m>>, Put(k))
      BY <1>2, SingletonCarries
    <3>2. conn \in Conns /\ OnWayOnce(conn, Put(k)) /\ SockOf(n, "B") \in Sock
      BY CurrentOnce, SockOfType
    <3> QED
      BY <1>1, <2>2, <3>1, <3>2, SentOnWay
  <2> QED
    BY <2>2, <2>3, <2>4, <2>5, MovedOnce
<1> QED
  BY <1>3, <1>4

LEMMA HandlePduOnce ==
  ASSUME TypeOK, NEW n \in Node, HandlePdu(n), NEW k, OnePlace(k)
  PROVE  OnePlace(k)'
<1>1. PICK kind \in {"udp", "tcp"}, m \in udp[n] \cup (IF queue[n] = <<>> THEN {} ELSE {Head(queue[n])}) :
        \/ Q5(n, kind, m) \/ Q5Refused(n, kind, m)
        \/ Q13(n, kind, m) \/ Q13Refused(n, kind, m)
        \/ Q14(n, kind, m) \/ Q15(n, kind, m)
        \/ Q16(n, kind, m) \/ Q16Alone(n, kind, m) \/ Q16Refused(n, kind, m)
        \/ Q17(n, kind, m)
        \/ Q9Serve(n, kind, m) \/ Q9Forward(n, kind, m)
        \/ SendFailed(n, kind, m) \/ SendKilled(n, kind, m) \/ Ignore(n, kind, m)
  BY DEF HandlePdu
<1>2. CASE SendFailed(n, kind, m) \/ Ignore(n, kind, m)
  <2>1. /\ NextPdu(n, kind, m) /\ Taken(n, kind, m)
        /\ UNCHANGED <<hash_table, conn, requests>>
    BY <1>2 DEF SendFailed, Ignore, net
  <2> QED
    BY <2>1, CurrentOnce, TakenKeptOnce
<1>3. CASE SendKilled(n, kind, m)
  BY <1>3, CurrentOnce, ExitOnce DEF SendKilled
<1> QED
  BY <1>1, <1>2, <1>3, Q5Q13Once, RefusedOnce, Q14Once, Q15Once, Q16Once, Q17Once,
     Q9ServeOnce, Q9ForwardOnce
-----------------------------------------------------------------------------
(* What is read into the queue is gone from the connection. *)
LEMMA ReadOnce ==
  ASSUME TypeOK, NEW n \in Node, NEW side \in {"B", "D"}, NEW eof \in BOOLEAN,
         NEW i \in 0 .. Len(Inbound(conn, side, SockOf(n, side))), ReadSocket(n, side, i, eof),
         NEW k, OnePlace(k)
  PROVE  OnePlace(k)'
<1> DEFINE s    == SockOf(n, side)
           data == Inbound(conn, side, s)
           good == IF side \in stalled[n] THEN 0 ELSE Readable(SubSeq(data, 1, i))
           new  == SubSeq(data, 1, good)
           left == SubSeq(data, i + 1, Len(data))
           rest == SetInbound(conn, side, s, left)
<1>1. conn \in Conns /\ s \in Sock /\ s.conn # NoConn /\ OnWayOnce(conn, Put(k))
  BY SockOfType, CurrentOnce DEF ReadSocket
<1>2. data \in Seq(Pdu) /\ Once(data, Put(k)) /\ (Carries(data, Put(k)) => OnWay(conn, Put(k)))
  BY <1>1, ConnTypes, InboundOnce
<1>3. i \in 0 .. Len(data)
  OBVIOUS
<1>4. good \in 0 .. i
  <2>1. SubSeq(data, 1, i) \in Seq(Pdu) /\ Len(SubSeq(data, 1, i)) = i
    BY <1>2, <1>3
  <2>2. Readable(SubSeq(data, 1, i)) \in 0 .. i
    <3>1. Readable(SubSeq(data, 1, i)) \in 0 .. Len(SubSeq(data, 1, i))
      BY <2>1, ReadableBound
    <3> QED
      BY <2>1, <3>1
  <2> HIDE DEF data
  <2> QED
    BY <1>3, <2>2
<1>5. /\ queue' = [queue EXCEPT ![n] = queue[n] \o new]
      /\ conn' = IF eof THEN Shut(rest, side, s) ELSE rest
      /\ UNCHANGED <<udp, hash_table, requests>>
  BY DEF ReadSocket
<1> HIDE DEF s, data, good
<1>6. new \in Seq(Pdu) /\ left \in Seq(Pdu)
  BY <1>2, <1>3, <1>4
<1>7. /\ Once(new, Put(k)) /\ Once(left, Put(k))
      /\ Carries(new, Put(k)) => Carries(data, Put(k))
      /\ Carries(left, Put(k)) => Carries(data, Put(k))
      /\ ~(Carries(new, Put(k)) /\ Carries(left, Put(k)))
  BY <1>2, <1>3, <1>4, PartCarries
<1> HIDE DEF new, left
<1>8. /\ rest \in Conns /\ OnWayOnce(rest, Put(k))
      /\ OnWay(rest, Put(k)) => OnWay(conn, Put(k))
      /\ Carries(data, Put(k)) /\ ~Carries(left, Put(k)) => ~OnWay(rest, Put(k))
  BY <1>1, <1>6, <1>7, ConnTypes, SetInboundOnWay DEF data
<1> HIDE DEF rest
<1>9. OnWayOnce(conn', Put(k)) /\ (OnWay(conn', Put(k)) => OnWay(rest, Put(k)))
  BY <1>1, <1>5, <1>8, ShutOnWay
<1>10. queue[n] \in Seq(Pdu) /\ Once(queue[n], Put(k)) /\ ~(Holds(k, n) /\ OnWay(conn, Put(k)))
  BY CurrentOnce DEF OnePlace
<1>11. Carries(queue[n], Put(k)) => Holds(k, n)
  BY DEF Holds
<1>12. /\ Once(queue[n] \o new, Put(k))
       /\ Carries(queue[n] \o new, Put(k)) => Carries(queue[n], Put(k)) \/ Carries(new, Put(k))
  BY <1>2, <1>6, <1>7, <1>10, <1>11, ConcatCarries
<1>13. OnlyAt(n) /\ queue'[n] = queue[n] \o new /\ udp'[n] = udp[n] /\ hash_table'[n] = hash_table[n]
  <2>1. queue \in [Node -> Seq(Pdu)]
    BY DEF TypeOK
  <2> QED
    BY <1>5, <2>1 DEF OnlyAt
<1>14. CASE Carries(new, Put(k))
  <2>1. OnWay(conn, Put(k)) /\ ~Holds(k, n) /\ ~OnWay(conn', Put(k))
    BY <1>2, <1>7, <1>8, <1>9, <1>10, <1>14
  <2>2. HoldsOnce(k, n)'
    BY <1>12, <1>13, <2>1 DEF HoldsOnce, Holds
  <2> QED
    BY <1>9, <1>13, <2>1, <2>2, MovedOnce
<1>15. CASE ~Carries(new, Put(k))
  BY <1>8, <1>9, <1>12, <1>13, <1>15, KeptOnce
<1> QED
  BY <1>14, <1>15
-----------------------------------------------------------------------------
(* Leaving. *)

LEMMA Q11Once ==
  ASSUME TypeOK, NEW n \in Node, Q11(n), NEW k, OnePlace(k)
  PROVE  OnePlace(k)'
<1>1. LeaveSide(n) \in {"B", "D"}
  BY LeaveSideType
<1>2. NewRange(start[n], end[n]) \in Pdu /\ NewRange(start[n], end[n]) # Insert(k)
  <2>1. NewRange(start[n], end[n]) \in Pdu
    BY PduConstructors DEF TypeOK
  <2> QED
    BY <2>1 DEF NewRange, Insert
<1>3. /\ conn' = Sent(conn, LeaveSide(n), SockOf(n, LeaveSide(n)), <<NewRange(start[n], end[n])>>)
      /\ UNCHANGED <<queue, udp, hash_table, requests>>
  BY DEF Q11, inbox
<1>4. OnWayOnce(conn', Put(k)) /\ (OnWay(conn', Put(k)) => OnWay(conn, Put(k)))
  BY <1>1, <1>2, <1>3, SentOtherOnce
<1> QED
  BY <1>3, <1>4, CurrentOnce, KeptOnce DEF OnlyAt

LEMMA Q11FailedOnce ==
  ASSUME TypeOK, NEW n \in Node, Q11SendFailed(n), NEW k, OnePlace(k)
  PROVE  OnePlace(k)'
BY CurrentOnce, LeaveLoopOnce, ExitOnce DEF Q11SendFailed

LEMMA Q11AbortOnce ==
  ASSUME TypeOK, NEW n \in Node, Q11Abort(n), NEW k, OnePlace(k)
  PROVE  OnePlace(k)'
<1> DEFINE side == LeaveSide(n)
           s    == SockOf(n, side)
           data == Inbound(conn, side, s)
           left == IF Head(data).type = "NET_CLOSE_CONNECTION"
                     THEN Tail(data) ELSE <<Garbage>> \o Tail(data)
<1>1. side \in {"B", "D"} /\ s \in Sock /\ conn \in Conns /\ OnWayOnce(conn, Put(k))
  BY LeaveSideType, CurrentOnce
<1>2. data \in Seq(Pdu) /\ Once(data, Put(k))
  BY <1>1, ConnTypes, InboundOnce
<1>3. \/ data # <<>> /\ LeaveLoop(n, SetInbound(conn, side, s, left), hash_table[n])
      \/ LeaveLoop(n, conn, hash_table[n])
  BY DEF Q11Abort
<1>4. CASE data # <<>> /\ LeaveLoop(n, SetInbound(conn, side, s, left), hash_table[n])
  <2>1. s.conn # NoConn
    BY <1>4 DEF Inbound
  <2>2. Tail(data) \in Seq(Pdu) /\ Once(Tail(data), Put(k)) /\ (Carries(Tail(data), Put(k)) => Carries(data, Put(k)))
    BY <1>2, <1>4, TailCarries
  <2>3. left \in Seq(Pdu) /\ Once(left, Put(k)) /\ (Carries(left, Put(k)) => Carries(data, Put(k)))
    <3>1. CASE left = Tail(data)
      BY <2>2, <3>1
    <3>2. CASE left = <<Garbage>> \o Tail(data)
      <4> HIDE DEF data, left
      <4>1. <<Garbage>> \in Seq(Pdu) /\ Once(<<Garbage>>, Put(k)) /\ ~Carries(<<Garbage>>, Put(k))
        <5>1. Garbage \in Pdu /\ Garbage # Insert(k)
          BY PduConstructors DEF Garbage, Insert
        <5> QED
          BY <5>1, SingletonCarries DEF Put
      <4>2. <<Garbage>> \o Tail(data) \in Seq(Pdu)
        BY <2>2, <4>1
      <4> QED
        BY <2>2, <3>2, <4>1, <4>2, ConcatCarries
    <3> QED
      BY <3>1, <3>2
  <2> HIDE DEF side, s, left
  <2>4. /\ SetInbound(conn, side, s, left) \in Conns
        /\ OnWayOnce(SetInbound(conn, side, s, left), Put(k))
        /\ OnWay(SetInbound(conn, side, s, left), Put(k)) => OnWay(conn, Put(k))
    BY <1>1, <2>1, <2>3, ConnTypes, SetInboundOnWay
  <2> QED
    BY <1>4, <2>4, LeaveLoopOnce
<1>5. CASE LeaveLoop(n, conn, hash_table[n])
  BY <1>1, <1>5, LeaveLoopOnce
<1> QED
  BY <1>3, <1>4, <1>5

(* A send that may fail. *)
LEMMA SendResultsOnce ==
  ASSUME NEW cs \in Conns, NEW side \in {"B", "D"}, NEW s \in Sock, NEW pdus \in Seq(Pdu),
         NEW t \in SendResults(cs, side, s, pdus), NEW k,
         OnWayOnce(cs, Put(k)), Once(pdus, Put(k)), ~(OnWay(cs, Put(k)) /\ Carries(pdus, Put(k)))
  PROVE  /\ t[2] \in Conns /\ OnWayOnce(t[2], Put(k))
         /\ OnWay(t[2], Put(k)) => OnWay(cs, Put(k)) \/ Carries(pdus, Put(k))
<1>1. t[2] = cs \/ t[2] = Sent(cs, side, s, pdus)
  BY DEF SendResults
<1> QED
  BY <1>1, SendResultsTypes, SentOnWay

LEMMA Q18Once ==
  ASSUME TypeOK, NEW n \in Node, Q18(n), NEW k, OnePlace(k)
  PROVE  OnePlace(k)'
<1> DEFINE side == LeaveSide(n)
           s    == SockOf(n, side)
           data == Inbound(conn, side, s)
           cs   == SetInbound(conn, side, s, Tail(data))
           Outcome(t, c, l) ==
             IF t[1] = "kill" THEN Exit(n, t[2])
             ELSE IF c[1] = "kill" THEN Exit(n, c[2])
             ELSE IF c[1] = "fail" THEN LeaveLoop(n, c[2], {})
             ELSE IF l[1] = "fail" THEN LeaveLoop(n, l[2], {})
             ELSE Exit(n, l[2])
<1>1. side \in {"B", "D"} /\ s \in Sock /\ conn \in Conns /\ OnWayOnce(conn, Put(k))
  BY LeaveSideType, CurrentOnce
<1>2. /\ sockfd_b[n] \in Sock /\ sockfd_d[n] \in Sock
      /\ hash_table[n] \in SUBSET Key /\ successor[n] \in Node \cup {None}
  BY DEF TypeOK
<1>3. data \in Seq(Pdu) /\ data # <<>> /\ Once(data, Put(k))
  BY <1>1, ConnTypes, InboundOnce DEF Q18
<1>4. s.conn # NoConn
  BY <1>3 DEF Inbound
<1>5. Tail(data) \in Seq(Pdu) /\ Once(Tail(data), Put(k)) /\ (Carries(Tail(data), Put(k)) => Carries(data, Put(k)))
  <2> HIDE DEF data
  <2> QED
    BY <1>3, TailCarries
<1>6. PICK entries \in Entries(n) :
        \E t \in SendResults(cs, side, s, entries) :
        \E c \in SendResults(t[2], "B", sockfd_b[n], <<Close>>) :
        \E l \in SendResults(c[2], "D", sockfd_d[n], <<Leaving(successor[n])>>) :
          Outcome(t, c, l)
  BY DEF Q18
<1>7. entries \in Seq(Pdu) /\ Once(entries, Put(k)) /\ (Carries(entries, Put(k)) => k \in hash_table[n])
  BY <1>2, TransferTypes, TransferCarries DEF Entries
<1>8. ASSUME NEW m \in {Close, Leaving(successor[n])}
      PROVE  <<m>> \in Seq(Pdu) /\ Once(<<m>>, Put(k)) /\ ~Carries(<<m>>, Put(k))
  <2>1. m \in Pdu /\ m # Insert(k)
    BY <1>2, PduConstructors DEF Close, Leaving, Insert
  <2> QED
    BY <2>1, SingletonCarries DEF Put
<1> HIDE DEF side, s, data
<1>9. cs \in Conns /\ OnWayOnce(cs, Put(k)) /\ (OnWay(cs, Put(k)) => OnWay(conn, Put(k)))
  <2>1. data = Inbound(conn, side, s)
    BY DEF data
  <2>2. cs \in Conns
    BY <1>1, <1>4, <1>5, ConnTypes
  <2>3. /\ OnWayOnce(SetInbound(conn, side, s, Tail(data)), Put(k))
        /\ OnWay(SetInbound(conn, side, s, Tail(data)), Put(k)) => OnWay(conn, Put(k))
    BY <1>1, <1>4, <1>5, <2>1, SetInboundOnWay
  <2> QED
    BY <2>2, <2>3
<1> HIDE DEF cs, Outcome
<1>10. ~(OnWay(conn, Put(k)) /\ k \in hash_table[n])
  BY DEF OnePlace, Holds
<1>11. PICK t \in SendResults(cs, side, s, entries) :
         \E c \in SendResults(t[2], "B", sockfd_b[n], <<Close>>) :
         \E l \in SendResults(c[2], "D", sockfd_d[n], <<Leaving(successor[n])>>) :
           Outcome(t, c, l)
  BY <1>6
<1>12. /\ t[2] \in Conns /\ OnWayOnce(t[2], Put(k))
       /\ OnWay(t[2], Put(k)) => OnWay(conn, Put(k)) \/ k \in hash_table[n]
  BY <1>1, <1>7, <1>9, <1>10, SendResultsOnce
<1>13. PICK c \in SendResults(t[2], "B", sockfd_b[n], <<Close>>) :
         \E l \in SendResults(c[2], "D", sockfd_d[n], <<Leaving(successor[n])>>) :
           Outcome(t, c, l)
  BY <1>11
<1>14. /\ c[2] \in Conns /\ OnWayOnce(c[2], Put(k))
       /\ OnWay(c[2], Put(k)) => OnWay(conn, Put(k)) \/ k \in hash_table[n]
  BY <1>2, <1>8, <1>12, SendResultsOnce
<1>15. PICK l \in SendResults(c[2], "D", sockfd_d[n], <<Leaving(successor[n])>>) :
         Outcome(t, c, l)
  BY <1>13
<1>16. /\ l[2] \in Conns /\ OnWayOnce(l[2], Put(k))
       /\ OnWay(l[2], Put(k)) => OnWay(conn, Put(k)) \/ k \in hash_table[n]
  BY <1>2, <1>8, <1>14, SendResultsOnce
<1>17. ASSUME NEW new \in Conns, OnWayOnce(new, Put(k)),
              OnWay(new, Put(k)) => OnWay(conn, Put(k)) \/ k \in hash_table[n],
              Exit(n, new) \/ LeaveLoop(n, new, {})
       PROVE  OnePlace(k)'
  BY <1>17, ExitOnce, LeaveLoopOnce DEF Holds
<1> QED
  BY <1>12, <1>14, <1>15, <1>16, <1>17 DEF Outcome
-----------------------------------------------------------------------------
(* A client sends a request once. *)
LEMMA ClientSendOnce ==
  ASSUME TypeOK, NEW n \in Node, NEW r \in requests, ClientSend(n, r), NEW k, OnePlace(k)
  PROVE  OnePlace(k)'
<1>1. /\ udp' = [udp EXCEPT ![n] = udp[n] \cup {r}] /\ requests' = requests \ {r}
      /\ UNCHANGED <<queue, hash_table, conn>>
  BY DEF ClientSend, net
<1>2. /\ udp'[n] = udp[n] \cup {r}
      /\ \A x \in Node \ {n} : udp'[x] = udp[x]
  BY <1>1 DEF TypeOK
<1>3. CASE r = Insert(k)
  <2>1. ~OnWay(conn, Put(k)) /\ \A x \in Node : ~Holds(k, x)
    BY <1>3 DEF OnePlace
  <2>2. \A x \in Node : HoldsOnce(k, x)' /\ (Holds(k, x)' => x = n)
    BY <1>1, <1>2, <2>1 DEF OnePlace, HoldsOnce, Holds
  <2> QED
    BY <1>1, <1>3, <2>1, <2>2 DEF OnePlace
<1>4. CASE r # Insert(k)
  <2>1. \A x \in Node : HoldsOnce(k, x)' /\ (Holds(k, x)' <=> Holds(k, x))
    BY <1>1, <1>2, <1>4 DEF OnePlace, HoldsOnce, Holds
  <2> QED
    BY <1>1, <1>4, <2>1 DEF OnePlace
<1> QED
  BY <1>3, <1>4

LEMMA NextOnce ==
  ASSUME TypeOK, [Next]_vars, NEW k, OnePlace(k)
  PROVE  OnePlace(k)'
<1>1. ASSUME NEW n \in Node, Step(n) PROVE OnePlace(k)'
  <2>1. CASE Read(n)
    BY <2>1, ReadOnce DEF Read
  <2>2. CASE Drained(n)
    BY <2>2, Unmoved DEF Drained, inbox, net
  <2>3. CASE Q10(n)
    BY <2>3, CurrentOnce, ExitOnce DEF Q10
  <2> QED
    BY <1>1, <2>1, <2>2, <2>3, AcceptOnce, JoinRecvOnce, HandlePduOnce, Q11Once, Q11FailedOnce,
       Q11AbortOnce, Q18Once
    DEF Step
<1>2. ASSUME NEW n \in Node, Environment(n) PROVE OnePlace(k)'
  <2>1. CASE StartFirst(n) \/ Signal(n) \/ InterruptAccept(n)
    BY <2>1, Unmoved DEF StartFirst, Signal, InterruptAccept, inbox, net
  <2>2. CASE InterruptJoin(n) \/ InterruptRecv(n)
    BY <2>2, CurrentOnce, ExitOnce, LeaveLoopOnce DEF InterruptJoin, InterruptRecv
  <2> QED
    BY <1>2, <2>1, <2>2, StartJoinOnce, ClientSendOnce DEF Environment
<1>3. CASE UNCHANGED vars
  BY <1>3, Unmoved DEF vars, inbox, net
<1> QED
  BY <1>1, <1>2, <1>3 DEF Next
-----------------------------------------------------------------------------
(* One place holds one copy. *)
LEMMA OnePlaceOneCopy ==
  ASSUME TypeOK, NEW k, OnePlace(k)
  PROVE  Copies(k) <= 1
<1> DEFINE T == {<<"hash_table", n, 1>> : n \in {m \in Node : k \in hash_table[m]}}
           U == {<<"udp", n, 1>> : n \in {m \in Node : Insert(k) \in udp[m]}}
           Q == UNION {Positions("queue", n, queue[n], Insert(k)) : n \in Node}
           Up == UNION {Positions("up", c, conn[c].up, Insert(k)) : c \in Conn}
           Down == UNION {Positions("down", c, conn[c].down, Insert(k)) : c \in Conn}
<1>1. Places(k) = T \cup U \cup Q \cup Up \cup Down
  BY DEF Places
<1>2. \A p \in T : \E n \in Node : p = <<"hash_table", n, 1>> /\ k \in hash_table[n] /\ Holds(k, n)
  BY DEF Holds
<1>3. \A p \in U : \E n \in Node : p = <<"udp", n, 1>> /\ Insert(k) \in udp[n] /\ Holds(k, n)
  BY DEF Holds
<1>4. \A p \in Q : \E n \in Node : \E i \in DOMAIN queue[n] :
        p = <<"queue", n, i>> /\ queue[n][i] = Insert(k) /\ Carries(queue[n], Put(k)) /\ Holds(k, n)
  <2>1. \A p \in Q : \E n \in Node : \E i \in DOMAIN queue[n] :
          p = <<"queue", n, i>> /\ queue[n][i] = Insert(k)
    BY DEF Positions
  <2>2. \A n \in Node : \A i \in DOMAIN queue[n] :
          queue[n][i] = Insert(k) => Carries(queue[n], Put(k)) /\ Holds(k, n)
    BY DEF Carries, Holds, Put
  <2> HIDE DEF Q
  <2> QED
    BY <2>1, <2>2
<1>5. \A p \in Up : \E c \in Conn : \E i \in DOMAIN conn[c].up :
        p = <<"up", c, i>> /\ conn[c].up[i] = Insert(k) /\ Carries(conn[c].up, Put(k)) /\ Has(conn[c], Put(k))
  BY DEF Positions, Carries, Has, Put
<1>6. \A p \in Down : \E c \in Conn : \E i \in DOMAIN conn[c].down :
        p = <<"down", c, i>> /\ conn[c].down[i] = Insert(k) /\ Carries(conn[c].down, Put(k)) /\ Has(conn[c], Put(k))
  BY DEF Positions, Carries, Has, Put
<1> HIDE DEF T, U, Q, Up, Down
<1>7. /\ \A n \in Node : HoldsOnce(k, n)
      /\ OnWayOnce(conn, Put(k))
      /\ \A m, n \in Node : Holds(k, m) /\ Holds(k, n) => m = n
      /\ \A n \in Node, c \in Conn : ~(Holds(k, n) /\ Has(conn[c], Put(k)))
  BY DEF OnePlace, OnWay
<1>8. ASSUME NEW p \in T \cup U \cup Q, NEW q \in T \cup U \cup Q PROVE p = q
  <2>1. PICK n \in Node : /\ Holds(k, n)
                          /\ \/ p = <<"hash_table", n, 1>> /\ k \in hash_table[n]
                             \/ p = <<"udp", n, 1>> /\ Insert(k) \in udp[n]
                             \/ Carries(queue[n], Put(k)) /\ \E i \in DOMAIN queue[n] :
                                  p = <<"queue", n, i>> /\ queue[n][i] = Insert(k)
    BY <1>2, <1>3, <1>4, <1>8
  <2>2. PICK m \in Node : /\ Holds(k, m)
                          /\ \/ q = <<"hash_table", m, 1>> /\ k \in hash_table[m]
                             \/ q = <<"udp", m, 1>> /\ Insert(k) \in udp[m]
                             \/ Carries(queue[m], Put(k)) /\ \E i \in DOMAIN queue[m] :
                                  q = <<"queue", m, i>> /\ queue[m][i] = Insert(k)
    BY <1>2, <1>3, <1>4, <1>8
  <2>3. m = n
    BY <1>7, <2>1, <2>2
  <2> QED
    BY <1>7, <2>1, <2>2, <2>3 DEF HoldsOnce, Once, Put
<1>9. ASSUME NEW p \in Up \cup Down, NEW q \in Up \cup Down PROVE p = q
  <2>1. PICK c \in Conn :
          /\ Has(conn[c], Put(k))
          /\ \/ Carries(conn[c].up, Put(k)) /\ \E i \in DOMAIN conn[c].up :
                  p = <<"up", c, i>> /\ conn[c].up[i] = Insert(k)
             \/ Carries(conn[c].down, Put(k)) /\ \E i \in DOMAIN conn[c].down :
                  p = <<"down", c, i>> /\ conn[c].down[i] = Insert(k)
    BY <1>5, <1>6, <1>9
  <2>2. PICK d \in Conn :
          /\ Has(conn[d], Put(k))
          /\ \/ Carries(conn[d].up, Put(k)) /\ \E i \in DOMAIN conn[d].up :
                  q = <<"up", d, i>> /\ conn[d].up[i] = Insert(k)
             \/ Carries(conn[d].down, Put(k)) /\ \E i \in DOMAIN conn[d].down :
                  q = <<"down", d, i>> /\ conn[d].down[i] = Insert(k)
    BY <1>5, <1>6, <1>9
  <2>3. c = d /\ RecordOnce(conn[c], Put(k))
    BY <1>7, <2>1, <2>2 DEF OnWayOnce
  <2> QED
    BY <2>1, <2>2, <2>3 DEF RecordOnce, Once, Put
<1>10. ASSUME NEW p \in T \cup U \cup Q, NEW q \in Up \cup Down PROVE FALSE
  <2>1. \E n \in Node : Holds(k, n)
    BY <1>2, <1>3, <1>4, <1>10
  <2>2. \E c \in Conn : Has(conn[c], Put(k))
    BY <1>5, <1>6, <1>10
  <2> QED
    BY <1>7, <2>1, <2>2
<1>11. \A p, q \in Places(k) : p = q
  BY <1>1, <1>8, <1>9, <1>10
<1>12. CASE Places(k) = {}
  BY <1>12, FS_EmptySet DEF Copies
<1>13. CASE Places(k) # {}
  <2>1. PICK p \in Places(k) : TRUE
    BY <1>13
  <2>2. Places(k) = {p}
    BY <1>11, <2>1
  <2>3. Cardinality({p}) = 1
    BY FS_Singleton
  <2> QED
    BY <2>2, <2>3 DEF Copies
<1> QED
  BY <1>12, <1>13

(* There never are two copies of a value in the network, stored or on       *)
(* their way, whatever joins, leaves, failures and transfers interleave:    *)
(* q5 and q13 grant the upper half of the entries and delete it, q18 hands  *)
(* over what it deletes, and q9 stores or forwards what it takes.           *)
THEOREM OneCopy == Spec => []AtMostOneCopy
<1> DEFINE Inv == \A k \in Key : OnePlace(k)
<1>1. Init => Inv
  <2> SUFFICES ASSUME Init, NEW k \in Key PROVE OnePlace(k)
    OBVIOUS
  <2>1. \A c \in Conn : RecordOnce(conn[c], Put(k)) /\ ~Has(conn[c], Put(k))
    <3>1. \A c \in Conn : conn[c].up = <<>> /\ conn[c].down = <<>>
      BY DEF Init, FreeConn
    <3> QED
      BY <3>1, EmptyCarries DEF RecordOnce, Has
  <2>2. \A n \in Node : HoldsOnce(k, n) /\ ~Holds(k, n)
    BY EmptyCarries DEF Init, HoldsOnce, Holds
  <2> QED
    BY <2>1, <2>2 DEF OnePlace, OnWayOnce, OnWay
<1>2. TypeOK /\ Inv /\ [Next]_vars => Inv'
  BY NextOnce
<1>3. TypeOK /\ Inv => AtMostOneCopy
  BY OnePlaceOneCopy DEF AtMostOneCopy
<1> HIDE DEF Inv
<1> QED
  BY <1>1, <1>2, <1>3, TypeCorrect, PTL DEF Spec
-----------------------------------------------------------------------------
(* Values and ranges while nodes only join.                                 *)

Calm == {m \in Pdu : m.type \notin {"NET_NEW_RANGE", "NET_LEAVING"}}

(* The first node, until it has answered a NET_JOIN.                        *)
First(n) == Serving(n) /\ successor[n] = None

(* x is not in a ring and nobody has connected to it. *)
Outside(x) == pc[x] \in {"off", "exited"} \/ (pc[x] = "q7_accept" /\ backlog[x] = <<>>)

NobodyLeaves ==
  /\ \A n \in Node : ~should_close[n] /\ pc[n] # "q11_recv"
  /\ AllIn(Calm, queue, udp, conn)

EmptyUntilServing ==
  /\ \A n \in Node : ~Serving(n) => hash_table[n] = {} /\ queue[n] = <<>>
  /\ \A n \in Node : pc[n] = "off" =>
       /\ udp[n] = {} /\ backlog[n] = <<>> /\ ~predecessor[n] /\ successor[n] = None
       /\ sockfd_b[n] = NoSock /\ sockfd_d[n] = NoSock

(* While a node is the first, whoever asked it to join still waits. *)
FirstWithWaiting ==
  \A n \in Node : First(n) =>
    /\ ~predecessor[n] /\ queue[n] = <<>> /\ backlog[n] = <<>>
    /\ sockfd_b[n] = NoSock /\ sockfd_d[n] = NoSock
    /\ \A x \in Node \ {n} : Outside(x)
    /\ \A m \in udp[n] : m.type = "NET_JOIN" => pc[m.src] = "q7_accept"

RangeInv == NobodyLeaves /\ EmptyUntilServing /\ FirstWithWaiting /\ EntriesInRange

(* A node that halves its range keeps the values of the lower half. *)
LEMMA LowerHalf ==
  ASSUME NEW a \in Hash, NEW b \in Hash, NEW h \in Hash, InRange(h, a, b),
         ~InRange(h, UpperStart(a, b), b)
  PROVE  InRange(h, a, Mid(a, b))
<1>1. MaxHash \in Nat /\ a \in 0 .. MaxHash /\ b \in 0 .. MaxHash /\ h \in 0 .. MaxHash /\ a <= h /\ h <= b
  BY MaxHashAssumption DEF Hash, InRange
<1>2. PICK q \in Nat : q = (b - a) \div 2 /\ q + a <= b
  BY <1>1
<1>3. \A i \in 0 .. MaxHash : i % (MaxHash + 1) = i
  BY <1>1
<1>4. Mid(a, b) = q + a
  BY <1>1, <1>2, <1>3 DEF Mid, Half, UInt8
<1>5. CASE q + a < MaxHash
  <2>1. q + a + 1 \in 0 .. MaxHash
    BY <1>1, <1>2, <1>5
  <2>2. UpperStart(a, b) = q + a + 1
    BY <1>3, <1>4, <2>1 DEF UpperStart, UInt8
  <2> QED
    BY <1>1, <1>2, <1>4, <2>2 DEF InRange
<1>6. CASE q + a = MaxHash
  BY <1>1, <1>4, <1>6 DEF InRange
<1> QED
  BY <1>1, <1>2, <1>5, <1>6

(* One step of a node that is not outside, the others standing still. *)
LEMMA InsideStep ==
  ASSUME TypeOK, RangeInv, NEW n \in Node, ~Outside(n),
         pc' \in [Node -> Control], hash_table' \in [Node -> SUBSET Key],
         \A x \in Node \ {n} :
           /\ pc'[x] = pc[x] /\ hash_table'[x] = hash_table[x] /\ queue'[x] = queue[x]
           /\ start'[x] = start[x] /\ end'[x] = end[x] /\ successor'[x] = successor[x]
           /\ predecessor'[x] = predecessor[x] /\ udp'[x] = udp[x]
           /\ sockfd_b'[x] = sockfd_b[x] /\ sockfd_d'[x] = sockfd_d[x]
           /\ ~Listening(x) => backlog'[x] = backlog[x],
         pc'[n] \notin {"off", "q7_accept"},
         ~Serving(n)' => hash_table'[n] = {} /\ queue'[n] = <<>>,
         \A k \in hash_table'[n] : Owns(n, k)',
         First(n)' =>
           /\ First(n) /\ ~predecessor'[n] /\ queue'[n] = <<>> /\ backlog' = backlog
           /\ sockfd_b'[n] = NoSock /\ sockfd_d'[n] = NoSock
           /\ \A m \in udp'[n] : m.type = "NET_JOIN" => m \in udp[n]
  PROVE  EmptyUntilServing' /\ FirstWithWaiting' /\ EntriesInRange'
<1>1. \A x \in Node \ {n} : (Serving(x)' <=> Serving(x)) /\ (First(x)' <=> First(x))
  BY DEF Serving, First
<1>2. EmptyUntilServing'
  <2>1. ASSUME NEW x \in Node, ~Serving(x)' PROVE hash_table'[x] = {} /\ queue'[x] = <<>>
    BY <1>1, <2>1 DEF RangeInv, EmptyUntilServing
  <2>2. ASSUME NEW x \in Node, pc'[x] = "off"
        PROVE  /\ udp'[x] = {} /\ backlog'[x] = <<>> /\ ~predecessor'[x] /\ successor'[x] = None
               /\ sockfd_b'[x] = NoSock /\ sockfd_d'[x] = NoSock
    BY <2>2 DEF RangeInv, EmptyUntilServing, Listening
  <2> QED
    BY <2>1, <2>2 DEF EmptyUntilServing
<1>3. FirstWithWaiting'
  <2> SUFFICES ASSUME NEW x \in Node, First(x)'
               PROVE  /\ ~predecessor'[x] /\ queue'[x] = <<>> /\ backlog'[x] = <<>>
                      /\ sockfd_b'[x] = NoSock /\ sockfd_d'[x] = NoSock
                      /\ \A y \in Node \ {x} : Outside(y)'
                      /\ \A m \in udp'[x] : m.type = "NET_JOIN" => pc'[m.src] = "q7_accept"
    BY DEF FirstWithWaiting
  <2>1. x = n
    BY <1>1 DEF RangeInv, FirstWithWaiting
  <2>2. First(n) /\ backlog' = backlog
    BY <2>1
  <2>3. \A y \in Node \ {n} : Outside(y)'
    BY <2>2 DEF RangeInv, FirstWithWaiting, Outside
  <2>4. ASSUME NEW m \in udp'[n], m.type = "NET_JOIN" PROVE pc'[m.src] = "q7_accept"
    <3>1. m \in udp[n]
      BY <2>1, <2>4
    <3>2. m.src \in Node
      BY <2>4, <3>1, JoinFields DEF TypeOK
    <3>3. pc[m.src] = "q7_accept"
      BY <2>2, <2>4, <3>1 DEF RangeInv, FirstWithWaiting
    <3> QED
      BY <2>2, <3>2, <3>3 DEF First, Serving
  <2> QED
    BY <2>1, <2>2, <2>3, <2>4 DEF RangeInv, FirstWithWaiting
<1>4. EntriesInRange'
  BY DEF RangeInv, EntriesInRange, Owns
<1> QED
  BY <1>2, <1>3, <1>4

(* What taking a PDU does, and what there is to take. *)
LEMMA CalmTaken ==
  ASSUME TypeOK, RangeInv, NEW n \in Node, NEW kind \in {"udp", "tcp"}, NEW m, NextPdu(n, kind, m)
  PROVE  /\ m \in Pdu /\ m.type \notin {"NET_NEW_RANGE", "NET_LEAVING"}
         /\ ~Outside(n) /\ Serving(n)
         /\ First(n) => kind = "udp" /\ m \in udp[n]
         /\ Taken(n, kind, m) =>
              /\ \A x \in Node \ {n} : queue'[x] = queue[x] /\ udp'[x] = udp[x]
              /\ udp'[n] \subseteq udp[n]
              /\ First(n) => queue'[n] = <<>>
<1>1. m \in Calm
  BY TakenIn DEF RangeInv, NobodyLeaves
<1>2. ~Outside(n) /\ Serving(n)
  BY DEF NextPdu, Outside, Serving
<1>3. First(n) => kind = "udp" /\ m \in udp[n]
  BY DEF NextPdu, RangeInv, FirstWithWaiting
<1>4. ASSUME Taken(n, kind, m)
      PROVE  /\ \A x \in Node \ {n} : queue'[x] = queue[x] /\ udp'[x] = udp[x]
             /\ udp'[n] \subseteq udp[n]
             /\ First(n) => queue'[n] = <<>>
  BY <1>3, <1>4 DEF Taken, TypeOK, RangeInv, FirstWithWaiting
<1> QED
  BY <1>1, <1>2, <1>3, <1>4 DEF Calm

(* The process of a node that was not outside ends. *)
LEMMA ExitRange ==
  ASSUME TypeOK, RangeInv, NEW n \in Node, ~Outside(n), NEW cs \in Conns, Exit(n, cs)
  PROVE  EmptyUntilServing' /\ FirstWithWaiting' /\ EntriesInRange'
<1>1. pc' \in [Node -> Control] /\ hash_table' \in [Node -> SUBSET Key]
  BY ExitTypes DEF TypeOK
<1>2. /\ \A x \in Node \ {n} :
           /\ pc'[x] = pc[x] /\ hash_table'[x] = hash_table[x] /\ queue'[x] = queue[x]
           /\ start'[x] = start[x] /\ end'[x] = end[x] /\ successor'[x] = successor[x]
           /\ predecessor'[x] = predecessor[x] /\ udp'[x] = udp[x]
           /\ sockfd_b'[x] = sockfd_b[x] /\ sockfd_d'[x] = sockfd_d[x]
           /\ backlog'[x] = backlog[x]
      /\ pc'[n] = "exited" /\ hash_table'[n] = {} /\ queue'[n] = <<>>
  BY DEF Exit, Goto, TypeOK
<1>3. ~First(n)'
  BY <1>2 DEF First, Serving
<1> QED
  BY <1>1, <1>2, <1>3, InsideStep

(* A connection is made to a process that listens. *)
LEMMA ConnectBacklog ==
  ASSUME TypeOK, NEW n \in Node, NEW to \in Node, Listening(to), NEW cs, NEW pdus,
         Connect(n, to, cs, pdus)
  PROVE  /\ \A x \in Node : ~Listening(x) => backlog'[x] = backlog[x]
         /\ \A x \in Node \ {n} : sockfd_b'[x] = sockfd_b[x]
BY DEF Connect, TypeOK

LEMMA JoinRecvRange ==
  ASSUME TypeOK, RangeInv, TypeOK', NEW n \in Node, JoinRecv(n)
  PROVE  EmptyUntilServing' /\ FirstWithWaiting' /\ EntriesInRange'
<1> DEFINE data == Inbound(conn, "D", sockfd_d[n])
           m    == Head(data)
<1>1. pc[n] = "q7_recv" /\ ~Outside(n)
  BY DEF JoinRecv, Outside
<1>2. PICK rest \in AfterOverRead(Tail(data)) :
        LET cs == SetInbound(conn, "D", sockfd_d[n], rest)
        IN  \/ /\ Reachable(m.next)
               /\ Goto(n, "q6")
               /\ start' = [start EXCEPT ![n] = m.lo]
               /\ end' = [end EXCEPT ![n] = m.hi]
               /\ successor' = [successor EXCEPT ![n] = m.next]
               /\ Connect(n, m.next, cs, <<>>)
               /\ UNCHANGED <<predecessor, sockfd_d, inbox, hash_table>>
            \/ ~Reachable(m.next) /\ Exit(n, cs)
  BY DEF JoinRecv
<1> DEFINE cs == SetInbound(conn, "D", sockfd_d[n], rest)
<1>3. data # <<>> /\ m \in Pdu /\ m.type = "NET_JOIN_RESPONSE" /\ cs \in Conns
  <2>1. data \in Seq(Pdu) /\ data # <<>> /\ sockfd_d[n] \in Sock
    BY ConnTypes DEF JoinRecv, TypeOK, Conns
  <2>2. m \in Pdu /\ Tail(data) \in Seq(Pdu)
    BY <2>1
  <2>3. rest \in Seq(Pdu)
    BY <1>2, <2>2, OverReadTypes
  <2>4. conn \in Conns
    BY DEF TypeOK, Conns
  <2>5. sockfd_d[n].conn # NoConn
    BY <2>1 DEF Inbound
  <2>6. cs \in Conns
    BY <2>1, <2>3, <2>4, <2>5, ConnTypes
  <2> QED
    BY <2>1, <2>2, <2>6 DEF JoinRecv
<1>4. m.next \in Node \cup {None}
  BY <1>3, JoinResponseFields
<1>5. CASE Reachable(m.next) /\ Goto(n, "q6") /\ UNCHANGED <<predecessor, sockfd_d, inbox, hash_table>>
           /\ start' = [start EXCEPT ![n] = m.lo] /\ end' = [end EXCEPT ![n] = m.hi]
           /\ successor' = [successor EXCEPT ![n] = m.next] /\ Connect(n, m.next, cs, <<>>)
  <2> DEFINE to == m.next
  <2>1. to \in Node /\ to # None /\ Listening(to)
    BY <1>4, <1>5, RingAssumption DEF Reachable
  <2> HIDE DEF m, cs, data
  <2>2. /\ \A x \in Node : ~Listening(x) => backlog'[x] = backlog[x]
        /\ \A x \in Node \ {n} : sockfd_b'[x] = sockfd_b[x]
    BY <1>5, <2>1, ConnectBacklog
  <2>3. hash_table'[n] = {} /\ pc'[n] = "q6" /\ successor'[n] = to
    BY <1>1, <1>5 DEF RangeInv, EmptyUntilServing, Serving, Goto, TypeOK
  <2>4. \A x \in Node \ {n} :
           /\ pc'[x] = pc[x] /\ hash_table'[x] = hash_table[x] /\ queue'[x] = queue[x]
           /\ start'[x] = start[x] /\ end'[x] = end[x] /\ successor'[x] = successor[x]
           /\ predecessor'[x] = predecessor[x] /\ udp'[x] = udp[x] /\ sockfd_d'[x] = sockfd_d[x]
    BY <1>5 DEF Goto, TypeOK, inbox
  <2>5. pc' \in [Node -> Control] /\ hash_table' \in [Node -> SUBSET Key]
    BY DEF TypeOK
  <2>6. ~First(n)' /\ Serving(n)'
    BY <2>1, <2>3 DEF First, Serving
  <2> HIDE DEF to
  <2> QED
    BY <1>1, <2>2, <2>3, <2>4, <2>5, <2>6, InsideStep
<1>6. CASE Exit(n, cs)
  <2> HIDE DEF cs
  <2> QED
    BY <1>1, <1>3, <1>6, ExitRange
<1> QED
  BY <1>2, <1>5, <1>6

(* Halving the range gives the values of the upper half away. *)
LEMMA GrantRange ==
  ASSUME TypeOK, RangeInv, NEW n \in Node, NEW to \in Node, Listening(to),
         NEW next \in Node \cup {None}, NEW cs, GrantUpperHalf(n, to, next, cs), start' = start
  PROVE  /\ \A k \in hash_table'[n] : Owns(n, k)'
         /\ \A x \in Node \ {n} : /\ end'[x] = end[x] /\ hash_table'[x] = hash_table[x]
                                  /\ sockfd_b'[x] = sockfd_b[x]
                                  /\ ~Listening(x) => backlog'[x] = backlog[x]
<1>1. PICK s \in SetToSeqs(Upper(n)) : Connect(n, to, cs, GrantPdus(n, next, s))
  BY DEF GrantUpperHalf
<1>2. end'[n] = Mid(start[n], end[n]) /\ hash_table'[n] = Kept(n)
  BY DEF GrantUpperHalf, TypeOK
<1>3. ASSUME NEW k \in Kept(n) PROVE InRange(hash_ssn[k], start[n], Mid(start[n], end[n]))
  <2>1. k \in Key /\ k \in hash_table[n] /\ ~InRange(hash_ssn[k], UpperStart(start[n], end[n]), end[n])
    BY DEF Kept, Upper, TypeOK
  <2>2. hash_ssn[k] \in Hash /\ start[n] \in Hash /\ end[n] \in Hash
    BY <2>1, RingAssumption DEF TypeOK
  <2>3. InRange(hash_ssn[k], start[n], end[n])
    BY <2>1 DEF RangeInv, EntriesInRange, Owns
  <2> QED
    BY <2>1, <2>2, <2>3, LowerHalf
<1>4. \A x \in Node \ {n} : end'[x] = end[x] /\ hash_table'[x] = hash_table[x]
  BY DEF GrantUpperHalf, TypeOK
<1>5. \A k \in hash_table'[n] : Owns(n, k)'
  BY <1>2, <1>3 DEF Owns
<1> QED
  BY <1>1, <1>4, <1>5, ConnectBacklog

LEMMA Q5Range ==
  ASSUME TypeOK, RangeInv, TypeOK', NEW n \in Node, NEW kind \in {"udp", "tcp"}, NEW m, Q5(n, kind, m)
  PROVE  EmptyUntilServing' /\ FirstWithWaiting' /\ EntriesInRange'
<1>1. NextPdu(n, kind, m) /\ m.type = "NET_JOIN" /\ Taken(n, kind, m)
  BY DEF Q5
<1>2. m \in Pdu /\ ~Outside(n) /\ m.src \in Node
  BY <1>1, CalmTaken, JoinFields
<1>3. /\ \A x \in Node \ {n} : queue'[x] = queue[x] /\ udp'[x] = udp[x]
      /\ udp'[n] \subseteq udp[n]
  BY <1>1, CalmTaken
<1>4. Listening(m.src) /\ GrantUpperHalf(n, m.src, n, conn) /\ start' = start
  BY DEF Q5
<1>5. /\ \A k \in hash_table'[n] : Owns(n, k)'
      /\ \A x \in Node \ {n} : /\ end'[x] = end[x] /\ hash_table'[x] = hash_table[x]
                               /\ sockfd_b'[x] = sockfd_b[x]
                               /\ ~Listening(x) => backlog'[x] = backlog[x]
  BY <1>2, <1>4, GrantRange
<1>6. /\ pc'[n] = "q5_accept" /\ successor'[n] = m.src
      /\ \A x \in Node \ {n} :
           /\ pc'[x] = pc[x] /\ start'[x] = start[x] /\ successor'[x] = successor[x]
           /\ predecessor'[x] = predecessor[x] /\ sockfd_d'[x] = sockfd_d[x]
  BY DEF Q5, Goto, TypeOK
<1>7. ~First(n)' /\ Serving(n)'
  BY <1>2, <1>6, RingAssumption DEF First, Serving
<1>8. pc' \in [Node -> Control] /\ hash_table' \in [Node -> SUBSET Key]
  BY DEF TypeOK
<1> QED
  BY <1>2, <1>3, <1>5, <1>6, <1>7, <1>8, InsideStep

LEMMA Q13Range ==
  ASSUME TypeOK, RangeInv, TypeOK', NEW n \in Node, NEW kind \in {"udp", "tcp"}, NEW m, Q13(n, kind, m)
  PROVE  EmptyUntilServing' /\ FirstWithWaiting' /\ EntriesInRange'
<1>1. NextPdu(n, kind, m) /\ m.type = "NET_JOIN" /\ Taken(n, kind, m)
  BY DEF Q13
<1>2. m \in Pdu /\ ~Outside(n) /\ m.src \in Node
  BY <1>1, CalmTaken, JoinFields
<1>3. /\ \A x \in Node \ {n} : queue'[x] = queue[x] /\ udp'[x] = udp[x]
      /\ udp'[n] \subseteq udp[n]
  BY <1>1, CalmTaken
<1>4. PICK y \in Node \cup {None} : y = successor[n]
  BY DEF TypeOK
<1>5. PICK cs : Listening(m.src) /\ GrantUpperHalf(n, m.src, y, cs) /\ start' = start
  BY <1>4 DEF Q13
<1>6. /\ \A k \in hash_table'[n] : Owns(n, k)'
      /\ \A x \in Node \ {n} : /\ end'[x] = end[x] /\ hash_table'[x] = hash_table[x]
                               /\ sockfd_b'[x] = sockfd_b[x]
                               /\ ~Listening(x) => backlog'[x] = backlog[x]
  BY <1>2, <1>5, GrantRange
<1>7. /\ pc'[n] = "q6" /\ successor'[n] = m.src
      /\ \A x \in Node \ {n} :
           /\ pc'[x] = pc[x] /\ start'[x] = start[x] /\ successor'[x] = successor[x]
           /\ predecessor'[x] = predecessor[x] /\ sockfd_d'[x] = sockfd_d[x]
  BY DEF Q13, Nested, Goto, TypeOK
<1>8. ~First(n)' /\ Serving(n)'
  BY <1>2, <1>7, RingAssumption DEF First, Serving
<1>9. pc' \in [Node -> Control] /\ hash_table' \in [Node -> SUBSET Key]
  BY DEF TypeOK
<1> QED
  BY <1>2, <1>3, <1>6, <1>7, <1>8, <1>9, InsideStep

(* The first node is never asked by a node that is gone (q5_state would     *)
(* give it half of the range and keep the values), ...                      *)
LEMMA Q5NeverRefused ==
  ASSUME TypeOK, RangeInv, NEW n \in Node, NEW kind \in {"udp", "tcp"}, NEW m, Q5Refused(n, kind, m)
  PROVE  FALSE
<1>1. NextPdu(n, kind, m) /\ m.type = "NET_JOIN" /\ Alone(n) /\ ~Listening(m.src)
  BY DEF Q5Refused
<1>2. m \in Pdu /\ Serving(n) /\ First(n)
  BY <1>1, CalmTaken DEF Alone, First
<1>3. m \in udp[n]
  BY <1>1, <1>2, CalmTaken
<1>4. pc[m.src] = "q7_accept"
  BY <1>1, <1>2, <1>3 DEF RangeInv, FirstWithWaiting
<1> QED
  BY <1>1, <1>4 DEF Listening

(* ... and a node in the ring refuses one without changing its range.       *)
LEMMA Q13RefusedRange ==
  ASSUME TypeOK, RangeInv, TypeOK', NEW n \in Node, NEW kind \in {"udp", "tcp"}, NEW m,
         Q13Refused(n, kind, m)
  PROVE  EmptyUntilServing' /\ FirstWithWaiting' /\ EntriesInRange'
<1>1. NextPdu(n, kind, m) /\ Taken(n, kind, m) /\ ~Alone(n)
  BY DEF Q13Refused
<1>2. ~Outside(n) /\ Serving(n)
  BY <1>1, CalmTaken
<1>3. /\ \A x \in Node \ {n} : queue'[x] = queue[x] /\ udp'[x] = udp[x]
      /\ udp'[n] \subseteq udp[n]
  BY <1>1, CalmTaken
<1>4. /\ UNCHANGED <<start, end, successor, predecessor, sockfd_d, hash_table, backlog>>
      /\ \A x \in Node \ {n} : sockfd_b'[x] = sockfd_b[x]
  BY DEF Q13Refused, ConnectRefused, ring, TypeOK
<1>5. pc'[n] \in {"q6", "drain"} /\ \A x \in Node \ {n} : pc'[x] = pc[x]
  BY DEF Q13Refused, Return, Goto, After, TypeOK
<1>6. ~First(n)' /\ Serving(n)'
  BY <1>1, <1>2, <1>4, <1>5 DEF First, Serving, Alone, RangeInv, FirstWithWaiting
<1>7. pc' \in [Node -> Control] /\ hash_table' \in [Node -> SUBSET Key]
  BY DEF TypeOK
<1>8. \A k \in hash_table'[n] : Owns(n, k)'
  BY <1>4 DEF RangeInv, EntriesInRange, Owns
<1> QED
  BY <1>2, <1>3, <1>4, <1>5, <1>6, <1>7, <1>8, InsideStep

(* The handlers that leave the ring as it is.                               *)
LEMMA RingKeptRange ==
  ASSUME TypeOK, RangeInv, TypeOK', NEW n \in Node, NEW kind \in {"udp", "tcp"}, NEW m,
         NextPdu(n, kind, m), Taken(n, kind, m), UNCHANGED <<ring, socks, backlog>>,
         pc'[n] \in {"q6", "drain"}, \A x \in Node \ {n} : pc'[x] = pc[x] /\ hash_table'[x] = hash_table[x],
         \A k \in hash_table'[n] : k \in hash_table[n] \/ Owns(n, k)
  PROVE  EmptyUntilServing' /\ FirstWithWaiting' /\ EntriesInRange'
<1>1. ~Outside(n) /\ Serving(n)
  BY CalmTaken
<1>2. /\ \A x \in Node \ {n} : queue'[x] = queue[x] /\ udp'[x] = udp[x]
      /\ udp'[n] \subseteq udp[n]
      /\ First(n) => queue'[n] = <<>>
  BY CalmTaken
<1>3. UNCHANGED <<start, end, successor, predecessor, sockfd_b, sockfd_d, backlog>>
  BY DEF ring, socks
<1>4. \A k \in hash_table'[n] : Owns(n, k)'
  BY <1>3 DEF RangeInv, EntriesInRange, Owns
<1>5. First(n)' => First(n) /\ ~predecessor[n] /\ sockfd_b[n] = NoSock /\ sockfd_d[n] = NoSock
  BY <1>1, <1>3 DEF First, RangeInv, FirstWithWaiting
<1>6. pc' \in [Node -> Control] /\ hash_table' \in [Node -> SUBSET Key]
  BY DEF TypeOK
<1>7. Serving(n)'
  BY DEF Serving
<1> QED
  BY <1>1, <1>2, <1>3, <1>4, <1>5, <1>6, <1>7, InsideStep

LEMMA ValuesRange ==
  ASSUME TypeOK, RangeInv, TypeOK', NEW n \in Node, NEW kind \in {"udp", "tcp"}, NEW m,
         \/ Q14(n, kind, m) \/ Q9Serve(n, kind, m) \/ Q9Forward(n, kind, m)
         \/ SendFailed(n, kind, m) \/ Ignore(n, kind, m)
  PROVE  EmptyUntilServing' /\ FirstWithWaiting' /\ EntriesInRange'
<1>1. /\ NextPdu(n, kind, m) /\ Taken(n, kind, m) /\ UNCHANGED <<ring, socks, backlog>>
      /\ pc'[n] \in {"q6", "drain"} /\ \A x \in Node \ {n} : pc'[x] = pc[x]
  BY DEF Q14, Q9Serve, Q9Forward, SendFailed, Ignore, Nested, Return, Goto, After, net, TypeOK
<1>2. /\ \A x \in Node \ {n} : hash_table'[x] = hash_table[x]
      /\ \A k \in hash_table'[n] : k \in hash_table[n] \/ Owns(n, k)
  <2>1. CASE Q9Serve(n, kind, m)
    <3>1. /\ m.type \in {"VAL_INSERT", "VAL_REMOVE", "VAL_LOOKUP"} /\ Owns(n, m.ssn)
          /\ hash_table' = [hash_table EXCEPT ![n] =
                      CASE m.type = "VAL_INSERT" -> hash_table[n] \cup {m.ssn}
                        [] m.type = "VAL_REMOVE" -> hash_table[n] \ {m.ssn}
                        [] m.type = "VAL_LOOKUP" -> hash_table[n]]
      BY <2>1, ValFields DEF Q9Serve, ValPdu
    <3>2. hash_table'[n] \subseteq hash_table[n] \cup {m.ssn}
      BY <3>1 DEF TypeOK
    <3> QED
      BY <3>1, <3>2 DEF TypeOK
  <2>2. CASE ~Q9Serve(n, kind, m)
    BY <2>2 DEF Q14, Q9Forward, SendFailed, Ignore
  <2> QED
    BY <2>1, <2>2
<1> QED
  BY <1>1, <1>2, RingKeptRange

LEMMA Q17Range ==
  ASSUME TypeOK, RangeInv, TypeOK', NEW n \in Node, NEW kind \in {"udp", "tcp"}, NEW m, Q17(n, kind, m)
  PROVE  EmptyUntilServing' /\ FirstWithWaiting' /\ EntriesInRange'
<1>1. NextPdu(n, kind, m) /\ Taken(n, kind, m)
  BY DEF Q17
<1>2. ~Outside(n) /\ Serving(n)
  BY <1>1, CalmTaken
<1>3. /\ \A x \in Node \ {n} : queue'[x] = queue[x] /\ udp'[x] = udp[x]
      /\ udp'[n] \subseteq udp[n]
      /\ First(n) => queue'[n] = <<>>
  BY <1>1, CalmTaken
<1>4. UNCHANGED <<start, end, successor, sockfd_b, hash_table, backlog>>
  BY DEF Q17
<1>5. /\ pc'[n] \in {"q6", "q17_accept"} /\ sockfd_d'[n] = NoSock /\ (predecessor'[n] => predecessor[n])
      /\ \A x \in Node \ {n} : /\ pc'[x] = pc[x] /\ sockfd_d'[x] = sockfd_d[x]
                               /\ predecessor'[x] = predecessor[x]
  BY DEF Q17, Nested, Goto, TypeOK
<1>6. \A k \in hash_table'[n] : Owns(n, k)'
  BY <1>4 DEF RangeInv, EntriesInRange, Owns
<1>7. First(n)' => First(n) /\ ~predecessor'[n] /\ sockfd_b[n] = NoSock
  BY <1>2, <1>4, <1>5 DEF First, RangeInv, FirstWithWaiting
<1>8. pc' \in [Node -> Control] /\ hash_table' \in [Node -> SUBSET Key]
  BY DEF TypeOK
<1>9. Serving(n)'
  BY <1>5 DEF Serving
<1> QED
  BY <1>2, <1>3, <1>4, <1>5, <1>6, <1>7, <1>8, <1>9, InsideStep

LEMMA HandlePduRange ==
  ASSUME TypeOK, RangeInv, TypeOK', NEW n \in Node, HandlePdu(n)
  PROVE  EmptyUntilServing' /\ FirstWithWaiting' /\ EntriesInRange'
<1>1. PICK kind \in {"udp", "tcp"}, m \in udp[n] \cup (IF queue[n] = <<>> THEN {} ELSE {Head(queue[n])}) :
        \/ Q5(n, kind, m) \/ Q5Refused(n, kind, m)
        \/ Q13(n, kind, m) \/ Q13Refused(n, kind, m)
        \/ Q14(n, kind, m)
        \/ Q15(n, kind, m)
        \/ Q16(n, kind, m) \/ Q16Alone(n, kind, m) \/ Q16Refused(n, kind, m)
        \/ Q17(n, kind, m)
        \/ Q9Serve(n, kind, m) \/ Q9Forward(n, kind, m)
        \/ SendFailed(n, kind, m) \/ SendKilled(n, kind, m) \/ Ignore(n, kind, m)
  BY DEF HandlePdu
<1>2. ~(Q15(n, kind, m) \/ Q16(n, kind, m) \/ Q16Alone(n, kind, m) \/ Q16Refused(n, kind, m))
  BY CalmTaken DEF Q15, Q16, Q16Alone, Q16Refused
<1>3. CASE SendKilled(n, kind, m)
  <2>1. NextPdu(n, kind, m) /\ Exit(n, conn)
    BY <1>3 DEF SendKilled
  <2>2. ~Outside(n) /\ conn \in Conns
    BY <2>1, CalmTaken DEF TypeOK, Conns
  <2> QED
    BY <2>1, <2>2, ExitRange
<1> QED
  BY <1>1, <1>2, <1>3, Q5Range, Q5NeverRefused, Q13Range, Q13RefusedRange, ValuesRange, Q17Range

LEMMA ReadRange ==
  ASSUME TypeOK, RangeInv, TypeOK', NEW n \in Node, Read(n)
  PROVE  EmptyUntilServing' /\ FirstWithWaiting' /\ EntriesInRange'
<1>1. PICK side \in {"B", "D"} :
        /\ pc[n] = "q6" /\ SockOf(n, side).conn # NoConn /\ Goto(n, "drain")
        /\ UNCHANGED <<should_close, ring, udp, hash_table, backlog>>
        /\ \A x \in Node \ {n} : /\ queue'[x] = queue[x] /\ sockfd_b'[x] = sockfd_b[x]
                                 /\ sockfd_d'[x] = sockfd_d[x]
  BY DEF Read, ReadSocket, TypeOK
<1>2. UNCHANGED <<start, end, successor, predecessor>>
  BY <1>1 DEF ring
<1>3. pc'[n] = "drain" /\ \A x \in Node \ {n} : pc'[x] = pc[x]
  BY <1>1 DEF Goto, TypeOK
<1>4. ~First(n)
  BY <1>1 DEF RangeInv, FirstWithWaiting, SockOf, NoSock
<1>5. ~Outside(n) /\ Serving(n) /\ Serving(n)' /\ ~First(n)'
  BY <1>1, <1>2, <1>3, <1>4 DEF Outside, Serving, First
<1>6. \A k \in hash_table'[n] : Owns(n, k)'
  BY <1>1, <1>2 DEF RangeInv, EntriesInRange, Owns
<1>7. pc' \in [Node -> Control] /\ hash_table' \in [Node -> SUBSET Key]
  BY DEF TypeOK
<1> QED
  BY <1>1, <1>2, <1>3, <1>5, <1>6, <1>7, InsideStep

(* accept, in q5, q7 and q17.                                               *)
LEMMA AcceptRange ==
  ASSUME TypeOK, RangeInv, TypeOK', NEW n \in Node, JoinAccept(n) \/ Q5Accept(n) \/ Q17Accept(n)
  PROVE  EmptyUntilServing' /\ FirstWithWaiting' /\ EntriesInRange'
<1>1. backlog[n] # <<>> /\ pc[n] \in {"q7_accept", "q5_accept", "q17_accept"}
  BY DEF JoinAccept, Q5Accept, Q17Accept
<1>2. ~Outside(n) /\ ~First(n)
  BY <1>1 DEF Outside, RangeInv, FirstWithWaiting
<1>3. /\ UNCHANGED <<start, end, successor, sockfd_b, queue, udp, hash_table>>
      /\ \A x \in Node \ {n} : /\ predecessor'[x] = predecessor[x] /\ sockfd_d'[x] = sockfd_d[x]
                               /\ backlog'[x] = backlog[x] /\ pc'[x] = pc[x]
      /\ pc'[n] \in IF pc[n] = "q7_accept" THEN {"q7_recv"} ELSE {"q6", "drain"}
  <2>1. /\ pc \in [Node -> Control] /\ predecessor \in [Node -> BOOLEAN]
        /\ sockfd_d \in [Node -> Sock] /\ backlog \in [Node -> Seq(Conn)]
    BY DEF TypeOK
  <2>2. CASE JoinAccept(n)
    BY <2>1, <2>2 DEF JoinAccept, inbox, Goto
  <2>3. CASE Q5Accept(n)
    BY <2>1, <2>3 DEF Q5Accept, inbox, Goto
  <2>4. CASE Q17Accept(n)
    BY <2>1, <2>4 DEF Q17Accept, inbox, Goto
  <2> QED
    BY <2>2, <2>3, <2>4
<1>4. ~First(n)'
  BY <1>1, <1>2, <1>3 DEF First, Serving
<1>5. ~Serving(n)' => hash_table'[n] = {} /\ queue'[n] = <<>>
  BY <1>1, <1>3 DEF Serving, RangeInv, EmptyUntilServing
<1>6. \A k \in hash_table'[n] : Owns(n, k)'
  BY <1>3 DEF RangeInv, EntriesInRange, Owns
<1>7. pc' \in [Node -> Control] /\ hash_table' \in [Node -> SUBSET Key] /\ pc'[n] \notin {"off", "q7_accept"}
  BY <1>3 DEF TypeOK
<1> QED
  BY <1>2, <1>3, <1>4, <1>5, <1>6, <1>7, InsideStep

LEMMA DrainedRange ==
  ASSUME TypeOK, RangeInv, TypeOK', NEW n \in Node, Drained(n)
  PROVE  EmptyUntilServing' /\ FirstWithWaiting' /\ EntriesInRange'
<1>1. /\ UNCHANGED <<start, end, successor, predecessor, sockfd_b, sockfd_d, queue, udp,
                     hash_table, backlog>>
      /\ pc[n] = "drain" /\ pc'[n] = "q6" /\ \A x \in Node \ {n} : pc'[x] = pc[x]
  BY DEF Drained, ring, socks, inbox, net, Goto, TypeOK
<1>2. ~Outside(n) /\ Serving(n) /\ Serving(n)' /\ (First(n)' => First(n))
  BY <1>1 DEF Outside, Serving, First
<1>3. \A k \in hash_table'[n] : Owns(n, k)'
  BY <1>1 DEF RangeInv, EntriesInRange, Owns
<1>4. pc' \in [Node -> Control] /\ hash_table' \in [Node -> SUBSET Key]
  BY DEF TypeOK
<1>5. First(n) => /\ ~predecessor[n] /\ queue[n] = <<>>
                  /\ sockfd_b[n] = NoSock /\ sockfd_d[n] = NoSock
  BY DEF RangeInv, FirstWithWaiting
<1> QED
  BY <1>1, <1>2, <1>3, <1>4, <1>5, InsideStep

(* A node starts a network of its own only where there is none.             *)
LEMMA StartFirstRange ==
  ASSUME TypeOK, RangeInv, TypeOK', NEW n \in Node, StartFirst(n)
  PROVE  EmptyUntilServing' /\ FirstWithWaiting' /\ EntriesInRange'
<1>1. /\ pc[n] = "off" /\ pc'[n] = "q6" /\ \A x \in Node \ {n} : pc'[x] = pc[x]
      /\ \A x \in Node : ~Listening(x)
      /\ \A x \in Node \ {n} : start'[x] = start[x] /\ end'[x] = end[x]
      /\ UNCHANGED <<successor, predecessor, sockfd_b, sockfd_d, queue, udp, hash_table, backlog>>
  BY DEF StartFirst, Goto, TypeOK, socks, inbox, net
<1>2. /\ udp[n] = {} /\ backlog[n] = <<>> /\ ~predecessor[n]
      /\ sockfd_b[n] = NoSock /\ sockfd_d[n] = NoSock /\ queue[n] = <<>> /\ hash_table[n] = {}
  BY <1>1 DEF RangeInv, EmptyUntilServing, Serving
<1>3. \A x \in Node \ {n} : Outside(x)' /\ ~First(x)' /\ (Serving(x)' <=> Serving(x))
  BY <1>1 DEF Outside, First, Serving, Listening
<1>4. EmptyUntilServing'
  BY <1>1, <1>3 DEF RangeInv, EmptyUntilServing, Serving
<1>5. FirstWithWaiting'
  BY <1>1, <1>2, <1>3 DEF FirstWithWaiting
<1>6. EntriesInRange'
  BY <1>1, <1>2 DEF RangeInv, EntriesInRange, Owns
<1> QED
  BY <1>4, <1>5, <1>6

(* A node asks a serving one: the first node is the only one there is.      *)
LEMMA StartJoinRange ==
  ASSUME TypeOK, RangeInv, TypeOK', NEW n \in Node, NEW e \in Node, StartJoin(n, e)
  PROVE  EmptyUntilServing' /\ FirstWithWaiting' /\ EntriesInRange'
<1>1. /\ pc[n] = "off" /\ pc'[n] = "q7_accept" /\ \A x \in Node \ {n} : pc'[x] = pc[x]
      /\ Serving(e) /\ \A x \in Node \ {e} : udp'[x] = udp[x]
      /\ udp'[e] = udp[e] \cup {JoinPdu(n, None, 0)}
      /\ UNCHANGED <<start, end, successor, predecessor, sockfd_b, sockfd_d, queue, hash_table, backlog>>
  BY DEF StartJoin, Goto, TypeOK, socks, ring, net
<1>2. \A x \in Node : (Serving(x)' <=> Serving(x)) /\ (First(x)' <=> First(x))
  BY <1>1 DEF Serving, First
<1>3. EmptyUntilServing'
  <2>1. \A x \in Node : pc'[x] = "off" => pc[x] = "off" /\ x # e
    BY <1>1 DEF Serving
  <2> QED
    BY <1>1, <1>2, <2>1 DEF RangeInv, EmptyUntilServing
<1>4. FirstWithWaiting'
  <2> SUFFICES ASSUME NEW x \in Node, First(x)
               PROVE  /\ ~predecessor'[x] /\ queue'[x] = <<>> /\ backlog'[x] = <<>>
                      /\ sockfd_b'[x] = NoSock /\ sockfd_d'[x] = NoSock
                      /\ \A y \in Node \ {x} : Outside(y)'
                      /\ \A m \in udp'[x] : m.type = "NET_JOIN" => pc'[m.src] = "q7_accept"
    BY <1>2 DEF FirstWithWaiting
  <2>1. /\ ~predecessor[x] /\ queue[x] = <<>> /\ backlog[x] = <<>>
        /\ sockfd_b[x] = NoSock /\ sockfd_d[x] = NoSock
        /\ \A y \in Node \ {x} : Outside(y)
        /\ \A m \in udp[x] : m.type = "NET_JOIN" => pc[m.src] = "q7_accept"
    BY DEF RangeInv, FirstWithWaiting
  <2>2. backlog[n] = <<>>
    BY <1>1 DEF RangeInv, EmptyUntilServing
  <2>3. \A y \in Node \ {x} : Outside(y)'
    BY <1>1, <2>1, <2>2 DEF Outside
  <2>4. ASSUME NEW m \in udp'[x], m.type = "NET_JOIN" PROVE pc'[m.src] = "q7_accept"
    <3>1. CASE m \in udp[x]
      <4>1. m.src \in Node
        BY <2>4, <3>1, JoinFields DEF TypeOK
      <4> QED
        BY <1>1, <2>1, <2>4, <3>1, <4>1
    <3>2. CASE m = JoinPdu(n, None, 0)
      BY <1>1, <3>2 DEF JoinPdu
    <3> QED
      BY <1>1, <3>1, <3>2
  <2> QED
    BY <1>1, <2>1, <2>3, <2>4
<1>5. EntriesInRange'
  BY <1>1 DEF RangeInv, EntriesInRange, Owns
<1> QED
  BY <1>3, <1>4, <1>5

LEMMA RequestsAreValues ==
  ASSUME TypeOK, NEW r \in requests
  PROVE  r.type # "NET_JOIN"
<1>1. r \in Requests
  BY DEF TypeOK
<1> QED
  BY <1>1, RingAssumption

LEMMA ClientSendRange ==
  ASSUME TypeOK, RangeInv, TypeOK', NEW n \in Node, NEW r \in requests, ClientSend(n, r)
  PROVE  EmptyUntilServing' /\ FirstWithWaiting' /\ EntriesInRange'
<1>1. r.type # "NET_JOIN"
  BY RequestsAreValues
<1>2. /\ UNCHANGED <<pc, start, end, successor, predecessor, sockfd_b, sockfd_d, queue,
                     hash_table, backlog>>
      /\ Serving(n) /\ udp'[n] = udp[n] \cup {r} /\ \A x \in Node \ {n} : udp'[x] = udp[x]
  BY DEF ClientSend, ctl, ring, socks, net, TypeOK
<1>3. ~Outside(n) /\ Serving(n)' /\ pc'[n] \notin {"off", "q7_accept"} /\ (First(n)' => First(n))
  BY <1>2 DEF Outside, Serving, First
<1>4. \A k \in hash_table'[n] : Owns(n, k)'
  BY <1>2 DEF RangeInv, EntriesInRange, Owns
<1>5. pc' \in [Node -> Control] /\ hash_table' \in [Node -> SUBSET Key]
  BY DEF TypeOK
<1>6. First(n) => /\ ~predecessor[n] /\ queue[n] = <<>>
                  /\ sockfd_b[n] = NoSock /\ sockfd_d[n] = NoSock
  BY DEF RangeInv, FirstWithWaiting
<1> QED
  BY <1>1, <1>2, <1>3, <1>4, <1>5, <1>6, InsideStep

LEMMA CalmAdmits ==
  ASSUME TypeOK, RangeInv
  PROVE  Admits(Calm)
<1>1. {Garbage, Close, NewRangeResponse} \cup ValPdu \subseteq Calm
  BY PduConstructors, ValFields DEF Calm, Garbage, Close, NewRangeResponse, ValPdu
<1>2. \A n \in Node : JoinPdu(n, None, 0) \in Calm
  BY PduConstructors DEF Calm, JoinPdu
<1>3. \A n \in Node : ~Q11(n) /\ ~Q18(n)
  BY DEF Q11, Q18, RangeInv, NobodyLeaves
<1>4. ASSUME NEW n \in Node, NEW y \in Node \cup {None}
      PROVE  JoinResponse(y, UpperStart(start[n], end[n]), end[n]) \in Calm
  <2>1. start[n] \in Hash /\ end[n] \in Hash /\ UpperStart(start[n], end[n]) \in Hash
    BY HashArithmetic DEF TypeOK
  <2> QED
    BY <2>1, PduConstructors DEF JoinResponse, Calm
<1>5. ASSUME NEW n \in Node, NEW kind \in {"udp", "tcp"}, NEW m \in Pdu, Q14(n, kind, m)
      PROVE  WithWidest(n, m) \in Calm
  <2>1. NextPdu(n, kind, m) /\ m.type = "NET_JOIN"
    BY <1>5 DEF Q14
  <2>2. WithWidest(n, m) \in Pdu /\ WithWidest(n, m).type = "NET_JOIN"
    BY <2>1, WithWidestType, JoinFields DEF WithWidest
  <2> QED
    BY <2>2 DEF Calm
<1>6. \A n \in Node : successor[n] \in Node \cup {None}
  BY DEF TypeOK
<1> QED
  BY <1>1, <1>2, <1>3, <1>4, <1>5, <1>6 DEF Admits

(* Nobody is told to leave, so nobody begins to. *)
LEMMA NextNobodyLeaves ==
  ASSUME Leavers = {}, TypeOK, RangeInv, [Next]_vars
  PROVE  NobodyLeaves'
<1>1. AllIn(Calm, queue', udp', conn')
  BY CalmAdmits, StepIn DEF RangeInv, NobodyLeaves
<1>2. ASSUME NEW n \in Node, Step(n) \/ Environment(n)
      PROVE  /\ should_close' = should_close
             /\ \A x \in Node : pc'[x] # "q11_recv"
  <2>1. \A x \in Node : ~should_close[x] /\ pc[x] # "q11_recv"
    BY DEF RangeInv, NobodyLeaves
  <2>2. CASE HandlePdu(n)
    <3>1. PICK kind \in {"udp", "tcp"}, m \in udp[n] \cup (IF queue[n] = <<>> THEN {} ELSE {Head(queue[n])}) :
            \/ Q5(n, kind, m) \/ Q5Refused(n, kind, m)
            \/ Q13(n, kind, m) \/ Q13Refused(n, kind, m)
            \/ Q14(n, kind, m)
            \/ Q15(n, kind, m)
            \/ Q16(n, kind, m) \/ Q16Alone(n, kind, m) \/ Q16Refused(n, kind, m)
            \/ Q17(n, kind, m)
            \/ Q9Serve(n, kind, m) \/ Q9Forward(n, kind, m)
            \/ SendFailed(n, kind, m) \/ SendKilled(n, kind, m) \/ Ignore(n, kind, m)
      BY <2>2 DEF HandlePdu
    <3>2. should_close' = should_close
      BY <3>1 DEF Q5, Q5Refused, Q13, Q13Refused, Q14, Q15, Q16, Q16Alone, Q16Refused, Q17,
         Q9Serve, Q9Forward, SendFailed, SendKilled, Ignore, Exit
    <3>3. \E label \in Control \ {"q11_recv"} : Goto(n, label)
      BY <3>1 DEF Q5, Q5Refused, Q13, Q13Refused, Q14, Q15, Q16, Q16Alone, Q16Refused, Q17,
         Q9Serve, Q9Forward, SendFailed, SendKilled, Ignore, Exit, Return, Nested, After, Control
    <3> QED
      BY <2>1, <3>2, <3>3 DEF Goto, TypeOK
  <2>3. CASE JoinAccept(n) \/ JoinRecv(n) \/ Q5Accept(n) \/ Q17Accept(n) \/ Read(n) \/ Drained(n)
    BY <2>1, <2>3 DEF JoinAccept, JoinRecv, Q5Accept, Q17Accept, Read, ReadSocket, Drained, Exit,
       Goto, TypeOK
  <2>4. ~(Q10(n) \/ Q11(n) \/ Q11SendFailed(n) \/ Q11Abort(n) \/ Q18(n))
    BY <2>1 DEF Q10, Q11, Q11SendFailed, Q11Abort, Q18
  <2>5. ~(Signal(n) \/ InterruptJoin(n) \/ InterruptAccept(n) \/ InterruptRecv(n))
    BY DEF Signal, InterruptJoin, InterruptAccept, InterruptRecv, MayInterrupt
  <2>6. ASSUME NEW e \in Node, StartJoin(n, e)
        PROVE  should_close' = should_close /\ \A x \in Node : pc'[x] # "q11_recv"
    BY <2>1, <2>6 DEF StartJoin, Goto, TypeOK
  <2>7. ASSUME NEW r, ClientSend(n, r)
        PROVE  should_close' = should_close /\ \A x \in Node : pc'[x] # "q11_recv"
    BY <2>1, <2>7 DEF ClientSend, ctl
  <2>8. CASE StartFirst(n)
    BY <2>1, <2>8 DEF StartFirst, Goto, TypeOK
  <2> QED
    BY <1>2, <2>2, <2>3, <2>4, <2>5, <2>6, <2>7, <2>8 DEF Step, Environment
<1>3. CASE UNCHANGED vars
  BY <1>1, <1>3 DEF vars, ctl, RangeInv, NobodyLeaves
<1> QED
  BY <1>1, <1>2, <1>3 DEF Next, RangeInv, NobodyLeaves

LEMMA NextRangeInv ==
  ASSUME Leavers = {}, TypeOK, RangeInv, [Next]_vars
  PROVE  RangeInv'
<1>1. TypeOK' /\ NobodyLeaves'
  BY NextTypes, NextNobodyLeaves
<1>2. ASSUME NEW n \in Node, Step(n)
      PROVE  EmptyUntilServing' /\ FirstWithWaiting' /\ EntriesInRange'
  <2>1. ~(Q10(n) \/ Q11(n) \/ Q11SendFailed(n) \/ Q11Abort(n) \/ Q18(n))
    BY DEF RangeInv, NobodyLeaves, Q10, Q11, Q11SendFailed, Q11Abort, Q18
  <2> QED
    BY <1>1, <1>2, <2>1, AcceptRange, JoinRecvRange, HandlePduRange, ReadRange, DrainedRange DEF Step
<1>3. ASSUME NEW n \in Node, Environment(n)
      PROVE  EmptyUntilServing' /\ FirstWithWaiting' /\ EntriesInRange'
  <2>1. ~(Signal(n) \/ InterruptJoin(n) \/ InterruptAccept(n) \/ InterruptRecv(n))
    BY DEF Signal, InterruptJoin, InterruptAccept, InterruptRecv, MayInterrupt
  <2> QED
    BY <1>1, <1>3, <2>1, StartFirstRange, StartJoinRange, ClientSendRange DEF Environment
<1>4. CASE UNCHANGED vars
  <2>1. UNCHANGED <<pc, start, end, successor, predecessor, sockfd_b, sockfd_d, queue, udp,
                    hash_table, backlog>>
    BY <1>4 DEF vars, ctl, ring, socks, inbox, net
  <2>2. EmptyUntilServing'
    BY <2>1 DEF RangeInv, EmptyUntilServing, Serving
  <2>3. FirstWithWaiting'
    BY <2>1 DEF RangeInv, FirstWithWaiting, First, Serving, Outside
  <2>4. EntriesInRange'
    BY <2>1 DEF RangeInv, EntriesInRange, Owns
  <2> QED
    BY <1>1, <2>2, <2>3, <2>4 DEF RangeInv
<1> QED
  BY <1>1, <1>2, <1>3, <1>4 DEF Next, RangeInv

LEMMA InitRangeInv == Init => RangeInv
<1> SUFFICES ASSUME Init PROVE RangeInv
  OBVIOUS
<1>1. AllIn(Calm, queue, udp, conn)
  <2>1. <<>> \in Seq(Calm)
    OBVIOUS
  <2> QED
    BY <2>1 DEF Init, AllIn, OnConns, FreeConn
<1> QED
  BY <1>1 DEF Init, RangeInv, NobodyLeaves, EmptyUntilServing, FirstWithWaiting, EntriesInRange,
     First, Serving, NoSock

(* As long as nodes only join, however many at once, every value a node     *)
(* stores has its hash in the node's range: split_range and                 *)
(* transfer_upper_half give away exactly the values whose hashes leave the  *)
(* range, a PDU queued before a split is judged by the range after it, and  *)
(* q5_state's early change of the range never meets a prospect that is      *)
(* gone.                                                                    *)
THEOREM ValuesInRange ==
  ASSUME Leavers = {}
  PROVE  Spec => []EntriesInRange
<1>1. Init => TypeOK /\ RangeInv
  BY InitTypes, InitRangeInv
<1>2. TypeOK /\ RangeInv /\ [Next]_vars => (TypeOK /\ RangeInv)'
  BY NextTypes, NextRangeInv
<1>3. RangeInv => EntriesInRange
  BY DEF RangeInv
<1> QED
  BY <1>1, <1>2, <1>3, PTL DEF Spec
=============================================================================
