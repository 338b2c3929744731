-------------------------- MODULE ValueStore_proofs --------------------------
(***************************************************************************)
(* The values of one node: the counters of the table, lookups, transfers   *)
(* and crashes, for every set of keys and every size of the table.         *)
(***************************************************************************)
EXTENDS ValueStore, FiniteSetTheorems, Sequence_lemmas

-----------------------------------------------------------------------------
(* What is in a chain and in the table.                                     *)

Ssns(b) == {b[i].entry.ssn : i \in DOMAIN b}
Holds(b, k, d) == \E i \in DOMAIN b : b[i].entry = [ssn |-> k, data |-> d]

(* A chain node is in the bucket of its entry, and its key, unless it was   *)
(* freed, is that entry's.                                                  *)
InOne(b, h) ==
  \A i \in DOMAIN b : hash_ssn[b[i].entry.ssn] = h /\ b[i].key \in {Freed, b[i].entry.ssn}
InBucket == \A h \in Hash : InOne(table[h], h)

(* In a bucket in which no key was inserted twice no key was freed, and no  *)
(* key is there twice.                                                      *)
Clean(b) ==
  /\ \A i \in DOMAIN b : b[i].key # Freed
  /\ \A i, j \in DOMAIN b : b[i].entry.ssn = b[j].entry.ssn => i = j
Untouched == \A h \in Hash \ overwritten : Clean(table[h])

(* Only the pass that removes makes table and history differ, and only      *)
(* from the first hash it moves on.                                         *)
Keeps(b, k) == IF stored[k] = Absent THEN k \notin Ssns(b) ELSE Holds(b, k, stored[k])
Remembered ==
  \A k \in Key : hash_ssn[k] \notin overwritten /\ (pc = "remove" => hash_ssn[k] < moving)
    => Keeps(table[hash_ssn[k]], k)

Within == pc = "idle" => \A h \in Hash \ overwritten : h > end => table[h] = <<>>
-----------------------------------------------------------------------------
(* A transfer. *)

Transferring == pc \in {"size", "send", "remove"}

(* What is to go are the keys from the first hash moved, ... *)
Collected ==
  /\ Transferring => /\ leaving \/ moving = end + 1
                     /\ Range(todo) \subseteq Range(batch)
                     /\ \A k \in Range(batch) : hash_ssn[k] >= moving
  /\ pc \in {"size", "send"} =>
       \A k \in Key : hash_ssn[k] \notin overwritten =>
         (k \in Range(batch) <=> hash_ssn[k] >= moving /\ k \in Ssns(table[hash_ssn[k]]))

(* ... and what is left of them to remove.                                  *)
Removing ==
  pc = "remove" =>
    \A k \in Key : hash_ssn[k] \notin overwritten /\ hash_ssn[k] >= moving
                     /\ k \in Ssns(table[hash_ssn[k]]) => k \in Range(todo)

(* The entries sent so far are those of the first keys of the batch.        *)
Distinct(s) == \A i, j \in DOMAIN s : s[i] = s[j] => i = j
GivenKeys == {k \in Key : hash_ssn[k] >= moving /\ stored[k] # Absent}

SentSoFar ==
  Transferring /\ overwritten = {} =>
    /\ Distinct(batch) /\ Range(batch) = GivenKeys
    /\ \A i \in DOMAIN sent : sent[i] = [ssn |-> batch[i], data |-> stored[batch[i]]]
    /\ pc = "size" => sent = <<>>
    /\ pc = "send" => /\ Len(sent) + Len(todo) = Len(batch)
                      /\ \A i \in DOMAIN todo : todo[i] = batch[Len(sent) + i]
    /\ pc = "remove" => Len(sent) = Len(batch)

IInv ==
  /\ TypeOK /\ CountersAgree
  /\ InBucket /\ Untouched /\ Remembered /\ Within
  /\ Collected /\ Removing /\ SentSoFar
  /\ CrashesOnlyOverwritten
-----------------------------------------------------------------------------
(* Sums over a table of chains: what FoldFunction computes. *)

SomeOf(s) == CHOOSE x \in s : TRUE
IsSum(sum, t, S) ==
  sum = [s \in SUBSET S |->
           IF s = {} THEN 0
           ELSE Len(t[SomeOf(s)]) + sum[s \ {SomeOf(s)}]]
Total(t, S) == CHOOSE sum : IsSum(sum, t, S)

LEMMA FoldIsSum ==
  ASSUME NEW t
  PROVE  FoldFunction(LAMBDA b, sum : Len(b) + sum, 0, t) = Total(t, DOMAIN t)[DOMAIN t]
BY DEF FoldFunction, FoldFunctionOnSet, MapThenFoldSet, Total, IsSum, SomeOf

(* A sum is defined: every finite set of buckets has one. *)
LEMMA SumFrom ==
  ASSUME NEW t, NEW S, NEW sum, IsSum(sum, t, S)
  PROVE  \A s \in SUBSET S : s # {} =>
           /\ SomeOf(s) \in s
           /\ sum[s] = Len(t[SomeOf(s)]) + sum[s \ {SomeOf(s)}]
<1> SUFFICES ASSUME NEW s \in SUBSET S, s # {}
             PROVE  SomeOf(s) \in s /\ sum[s] = Len(t[SomeOf(s)]) + sum[s \ {SomeOf(s)}]
  OBVIOUS
<1>1. SomeOf(s) \in s
  BY DEF SomeOf
<1> DEFINE f == [u \in SUBSET S |->
           IF u = {} THEN 0
           ELSE Len(t[SomeOf(u)]) + sum[u \ {SomeOf(u)}]]
<1>2. sum = f
  BY DEF IsSum
<1>3. f[s] = Len(t[SomeOf(s)]) + sum[s \ {SomeOf(s)}]
  OBVIOUS
<1> QED
  BY <1>1, <1>2, <1>3, Zenon

(* The sets of at most n buckets, and a sum that is defined on them.        *)
UpTo(S, n) == {s \in SUBSET S : Cardinality(s) <= n}
IsSumTo(sum, t, S, n) ==
  sum = [s \in UpTo(S, n) |->
           IF s = {} THEN 0
           ELSE Len(t[SomeOf(s)]) + sum[s \ {SomeOf(s)}]]

LEMMA SumToMore ==
  ASSUME NEW t, NEW S, IsFiniteSet(S), NEW n \in Nat, NEW g, IsSumTo(g, t, S, n)
  PROVE  \E h : IsSumTo(h, t, S, n + 1)
<1> DEFINE Def(f, s) == IF s = {} THEN 0 ELSE Len(t[SomeOf(s)]) + f[s \ {SomeOf(s)}]
           h == [s \in UpTo(S, n + 1) |-> Def(g, s)]
<1>1. ASSUME NEW s \in UpTo(S, n + 1), s # {} PROVE s \ {SomeOf(s)} \in UpTo(S, n)
  <2>1. s \subseteq S /\ IsFiniteSet(s) /\ Cardinality(s) <= n + 1 /\ SomeOf(s) \in s
    BY <1>1, FS_Subset DEF UpTo, SomeOf
  <2>2. IsFiniteSet(s \ {SomeOf(s)}) /\ Cardinality(s \ {SomeOf(s)}) = Cardinality(s) - 1
    BY <2>1, FS_RemoveElement
  <2>3. Cardinality(s) \in Nat
    BY <2>1, FS_CardinalityType
  <2> QED
    BY <2>1, <2>2, <2>3 DEF UpTo
<1>2. ASSUME NEW s \in UpTo(S, n) PROVE h[s] = g[s]
  <2>1. s \in UpTo(S, n + 1)
    <3>1. IsFiniteSet(s)
      BY <1>2, FS_Subset DEF UpTo
    <3> QED
      BY <1>2, <3>1, FS_CardinalityType DEF UpTo
  <2>2. h[s] = Def(g, s)
    BY <2>1
  <2>3. g = [u \in UpTo(S, n) |-> Def(g, u)]
    BY DEF IsSumTo
  <2> HIDE DEF h
  <2> DEFINE gg == [u \in UpTo(S, n) |-> Def(g, u)]
  <2>4. gg[s] = Def(g, s)
    OBVIOUS
  <2> QED
    BY <2>2, <2>3, <2>4, Zenon
<1>3. ASSUME NEW s \in UpTo(S, n + 1) PROVE Def(g, s) = Def(h, s)
  <2>1. CASE s = {}
    BY <2>1
  <2>2. CASE s # {}
    <3>1. h[s \ {SomeOf(s)}] = g[s \ {SomeOf(s)}]
      BY <1>1, <1>2, <2>2
    <3> HIDE DEF h
    <3> QED
      BY <3>1
  <2> QED
    BY <2>1, <2>2
<1>4. h = [s \in UpTo(S, n + 1) |-> Def(h, s)]
  <2> DEFINE hh == [s \in UpTo(S, n + 1) |-> Def(h, s)]
  <2>1. \A s \in UpTo(S, n + 1) : h[s] = hh[s]
    BY <1>3
  <2> QED
    BY <2>1, Zenon
<1> HIDE DEF h
<1>5. IsSumTo(h, t, S, n + 1)
  BY <1>4 DEF IsSumTo
<1> QED
  BY <1>5

LEMMA SumExists ==
  ASSUME NEW t, NEW S, IsFiniteSet(S)
  PROVE  IsSum(Total(t, S), t, S)
<1> DEFINE T == {n \in Nat : \E g : IsSumTo(g, t, S, n)}
<1>1. 0 \in T
  <2>1. UpTo(S, 0) = {{}}
    <3>1. ASSUME NEW s \in UpTo(S, 0) PROVE s = {}
      <4>1. IsFiniteSet(s) /\ Cardinality(s) <= 0
        BY FS_Subset DEF UpTo
      <4> QED
        BY <4>1, FS_CardinalityType, FS_EmptySet
    <3> QED
      BY <3>1, FS_EmptySet DEF UpTo
  <2>2. IsSumTo([s \in {{}} |-> 0], t, S, 0)
    BY <2>1 DEF IsSumTo
  <2> QED
    BY <2>2
<1>2. \A n \in Nat : n \in T => n + 1 \in T
  BY SumToMore
<1>3. Cardinality(S) \in Nat
  BY FS_CardinalityType
<1>4. \E g : IsSumTo(g, t, S, Cardinality(S))
  <2> HIDE DEF T
  <2>1. Cardinality(S) \in T
    BY <1>1, <1>2, <1>3, Induction
  <2> QED
    BY <2>1 DEF T
<1>5. UpTo(S, Cardinality(S)) = SUBSET S
  BY FS_Subset DEF UpTo
<1>6. \E g : IsSum(g, t, S)
  BY <1>4, <1>5 DEF IsSum, IsSumTo
<1> QED
  BY <1>6 DEF Total

LEMMA SubsetInduction ==
  ASSUME NEW S, IsFiniteSet(S), NEW Q,
         \A s \in SUBSET S : (\A x \in s : s \ {x} \in Q) => s \in Q
  PROVE  \A s \in SUBSET S : s \in Q
<1> DEFINE T == {n \in Nat : \A s \in SUBSET S : Cardinality(s) = n => s \in Q}
<1>1. \A s \in SUBSET S : IsFiniteSet(s) /\ Cardinality(s) \in Nat
  BY FS_Subset, FS_CardinalityType
<1>2. 0 \in T
  BY <1>1, FS_EmptySet
<1>3. ASSUME NEW n \in Nat, n \in T PROVE n + 1 \in T
  <2>1. ASSUME NEW s \in SUBSET S, Cardinality(s) = n + 1, NEW x \in s PROVE s \ {x} \in Q
    <3>1. Cardinality(s \ {x}) = Cardinality(s) - 1
      BY <1>1, FS_RemoveElement
    <3> QED
      BY <1>3, <2>1, <3>1
  <2> QED
    BY <2>1
<1> HIDE DEF T
<1>4. \A n \in Nat : n \in T
  BY <1>2, <1>3, Induction
<1> QED
  BY <1>1, <1>4 DEF T

Chains(t, S) == \A x \in S : Len(t[x]) \in Nat
Same(t, u, s) == \A x \in s : t[x] = u[x]

LEMMA SumNat ==
  ASSUME NEW S, IsFiniteSet(S), NEW t, Chains(t, S), NEW sum, IsSum(sum, t, S)
  PROVE  \A s \in SUBSET S : sum[s] \in Nat
<1> DEFINE Q == {s \in SUBSET S : sum[s] \in Nat}
<1>1. ASSUME NEW s \in SUBSET S, \A x \in s : s \ {x} \in Q PROVE s \in Q
  <2>1. CASE s = {}
    <3>1. sum[s] = 0
      BY <2>1 DEF IsSum
    <3> QED
      BY <3>1
  <2>2. CASE s # {}
    <3>1. SomeOf(s) \in s /\ sum[s] = Len(t[SomeOf(s)]) + sum[s \ {SomeOf(s)}]
      BY <2>2, SumFrom
    <3>2. Len(t[SomeOf(s)]) \in Nat
      BY <3>1 DEF Chains
    <3>3. sum[s \ {SomeOf(s)}] \in Nat
      BY <1>1, <3>1
    <3>4. sum[s] \in Nat
      BY <3>1, <3>2, <3>3
    <3> QED
      BY <3>4
  <2> QED
    BY <2>1, <2>2
<1>2. \A s \in SUBSET S : (\A x \in s : s \ {x} \in Q) => s \in Q
  BY <1>1
<1> HIDE DEF Q
<1>3. \A s \in SUBSET S : s \in Q
  BY <1>2, SubsetInduction
<1> QED
  BY <1>3 DEF Q

(* Any bucket may be taken out of a sum. *)
LEMMA SumWithout ==
  ASSUME NEW S, IsFiniteSet(S), NEW t, Chains(t, S), NEW sum, IsSum(sum, t, S),
         NEW z \in SUBSET S, NEW w \in z
  PROVE  sum[z] = Len(t[w]) + sum[z \ {w}]
<1> DEFINE Q == {s \in SUBSET S : \A x \in s : sum[s] = Len(t[x]) + sum[s \ {x}]}
<1>1. \A s \in SUBSET S : sum[s] \in Nat
  BY SumNat
<1>2. ASSUME NEW s \in SUBSET S, \A x \in s : s \ {x} \in Q, NEW x \in s
      PROVE  sum[s] = Len(t[x]) + sum[s \ {x}]
  <2>1. PICK y \in s : sum[s] = Len(t[y]) + sum[s \ {y}]
    <3>1. SomeOf(s) \in s /\ sum[s] = Len(t[SomeOf(s)]) + sum[s \ {SomeOf(s)}]
      BY SumFrom
    <3> QED
      BY <3>1
  <2>2. CASE x = y
    BY <2>1, <2>2
  <2>3. CASE x # y
    <3>1. sum[s \ {y}] = Len(t[x]) + sum[(s \ {y}) \ {x}]
      BY <1>2, <2>3
    <3>2. sum[s \ {x}] = Len(t[y]) + sum[(s \ {x}) \ {y}]
      BY <1>2, <2>3
    <3>3. (s \ {y}) \ {x} = (s \ {x}) \ {y}
      OBVIOUS
    <3>4. PICK r \in Nat : r = sum[(s \ {x}) \ {y}]
      BY <1>1
    <3>5. PICK m \in Nat, n \in Nat : m = Len(t[x]) /\ n = Len(t[y])
      BY DEF Chains
    <3>6. sum[s] = n + (m + r) /\ sum[s \ {x}] = n + r
      BY <2>1, <3>1, <3>2, <3>3, <3>4, <3>5
    <3>7. n + (m + r) = m + (n + r)
      OBVIOUS
    <3> QED
      BY <3>5, <3>6, <3>7, Zenon
  <2> QED
    BY <2>2, <2>3
<1>3. \A s \in SUBSET S : (\A x \in s : s \ {x} \in Q) => s \in Q
  BY <1>2
<1> HIDE DEF Q
<1>4. \A s \in SUBSET S : s \in Q
  BY <1>3, SubsetInduction
<1> QED
  BY <1>4 DEF Q

(* Sums depend only on the chains they are over.                            *)
LEMMA SumSame ==
  ASSUME NEW S, IsFiniteSet(S), NEW t, NEW sum, IsSum(sum, t, S),
         NEW u, NEW new, IsSum(new, u, S)
  PROVE  \A s \in SUBSET S : Same(t, u, s) => sum[s] = new[s]
<1> DEFINE Q == {s \in SUBSET S : Same(t, u, s) => sum[s] = new[s]}
<1>1. ASSUME NEW s \in SUBSET S, \A x \in s : s \ {x} \in Q, Same(t, u, s)
      PROVE  sum[s] = new[s]
  <2>1. CASE s = {}
    <3>1. sum[s] = 0
      BY <2>1 DEF IsSum
    <3>2. new[s] = 0
      BY <2>1 DEF IsSum
    <3> QED
      BY <3>1, <3>2
  <2>2. CASE s # {}
    <3>1. SomeOf(s) \in s /\ sum[s] = Len(t[SomeOf(s)]) + sum[s \ {SomeOf(s)}]
      BY <2>2, SumFrom
    <3>2. SomeOf(s) \in s /\ new[s] = Len(u[SomeOf(s)]) + new[s \ {SomeOf(s)}]
      BY <2>2, SumFrom
    <3>3. sum[s \ {SomeOf(s)}] = new[s \ {SomeOf(s)}]
      BY <1>1, <3>1 DEF Same
    <3>4. t[SomeOf(s)] = u[SomeOf(s)]
      BY <1>1, <3>1 DEF Same
    <3> QED
      BY <3>1, <3>2, <3>3, <3>4
  <2> QED
    BY <2>1, <2>2
<1>2. \A s \in SUBSET S : (\A x \in s : s \ {x} \in Q) => s \in Q
  BY <1>1
<1> HIDE DEF Q
<1>3. \A s \in SUBSET S : s \in Q
  BY <1>2, SubsetInduction
<1> QED
  BY <1>3 DEF Q

LEMMA SumPart ==
  ASSUME NEW S, IsFiniteSet(S), NEW t, Chains(t, S), NEW sum, IsSum(sum, t, S)
  PROVE  \A s \in SUBSET S : sum[s] <= sum[S]
<1> DEFINE Q == {s \in SUBSET S : sum[S \ s] <= sum[S]}
<1>1. \A s \in SUBSET S : sum[s] \in Nat
  BY SumNat
<1>2. ASSUME NEW s \in SUBSET S, \A x \in s : s \ {x} \in Q PROVE s \in Q
  <2>1. CASE s = {}
    <3>1. S \ s = S
      BY <2>1
    <3>2. sum[S] \in Nat
      BY <1>1
    <3>3. sum[S \ s] <= sum[S]
      BY <3>1, <3>2
    <3> QED
      BY <3>3
  <2>2. ASSUME NEW x \in s PROVE s \in Q
    <3>1. sum[S \ (s \ {x})] = Len(t[x]) + sum[(S \ (s \ {x})) \ {x}]
      BY SumWithout
    <3>2. (S \ (s \ {x})) \ {x} = S \ s
      OBVIOUS
    <3>3. sum[S \ (s \ {x})] <= sum[S]
      BY <1>2, <2>2
    <3>4. PICK p \in Nat, q \in Nat : p = sum[S \ s] /\ q = sum[S]
      BY <1>1
    <3>5. PICK n \in Nat : n = Len(t[x])
      BY DEF Chains
    <3>6. n + p <= q
      BY <3>1, <3>2, <3>3, <3>4, <3>5
    <3>7. sum[S \ s] <= sum[S]
      BY <3>4, <3>6
    <3> QED
      BY <3>7
  <2> QED
    BY <2>1, <2>2
<1>3. \A s \in SUBSET S : (\A x \in s : s \ {x} \in Q) => s \in Q
  BY <1>2
<1> HIDE DEF Q
<1>4. \A s \in SUBSET S : s \in Q
  BY <1>3, SubsetInduction
<1>5. ASSUME NEW s \in SUBSET S PROVE sum[s] <= sum[S]
  <2>1. sum[S \ (S \ s)] <= sum[S]
    BY <1>4 DEF Q
  <2>2. S \ (S \ s) = s
    OBVIOUS
  <2> QED
    BY <2>1, <2>2
<1> QED
  BY <1>5

LEMMA SumNothing ==
  ASSUME NEW S, IsFiniteSet(S), NEW t, \A x \in S : t[x] = <<>>, NEW sum, IsSum(sum, t, S)
  PROVE  sum[S] = 0
<1> DEFINE Q == {s \in SUBSET S : sum[s] = 0}
<1>1. ASSUME NEW s \in SUBSET S, \A x \in s : s \ {x} \in Q PROVE s \in Q
  <2>1. CASE s = {}
    <3>1. sum[s] = 0
      BY <2>1 DEF IsSum
    <3> QED
      BY <3>1
  <2>2. CASE s # {}
    <3>1. SomeOf(s) \in s /\ sum[s] = Len(t[SomeOf(s)]) + sum[s \ {SomeOf(s)}]
      BY <2>2, SumFrom
    <3>2. Len(t[SomeOf(s)]) = 0
      BY <3>1
    <3>3. sum[s \ {SomeOf(s)}] = 0
      BY <1>1, <3>1
    <3>4. sum[s] = 0
      BY <3>1, <3>2, <3>3
    <3> QED
      BY <3>4
  <2> QED
    BY <2>1, <2>2
<1>2. \A s \in SUBSET S : (\A x \in s : s \ {x} \in Q) => s \in Q
  BY <1>1
<1> HIDE DEF Q
<1>3. \A s \in SUBSET S : s \in Q
  BY <1>2, SubsetInduction
<1> QED
  BY <1>3 DEF Q

(* One chain is replaced by another. *)
LEMMA SumOther ==
  ASSUME NEW S, IsFiniteSet(S), NEW t, Chains(t, S), NEW u, Chains(u, S),
         NEW h \in S, Same(t, u, S \ {h})
  PROVE  Total(u, S)[S] = Total(t, S)[S] + Len(u[h]) - Len(t[h])
<1> DEFINE sum == Total(t, S)
           new == Total(u, S)
<1>0. IsSum(sum, t, S) /\ IsSum(new, u, S)
  BY SumExists
<1> HIDE DEF sum, new
<1>1. new[S \ {h}] = sum[S \ {h}]
  BY <1>0, SumSame
<1>2. sum[S] = Len(t[h]) + sum[S \ {h}]
  BY <1>0, SumWithout
<1>4. new[S] = Len(u[h]) + new[S \ {h}]
  BY <1>0, SumWithout
<1>6. PICK r \in Nat : r = sum[S \ {h}]
  BY <1>0, SumNat
<1>7. PICK m \in Nat, n \in Nat : m = Len(t[h]) /\ n = Len(u[h])
  BY DEF Chains
<1>8. sum[S] = m + r /\ new[S] = n + r
  BY <1>1, <1>2, <1>4, <1>6, <1>7
<1>9. n + r = (m + r) + n - m
  OBVIOUS
<1> QED
  BY <1>7, <1>8, <1>9, Zenon DEF sum, new
-----------------------------------------------------------------------------
(* The counters.  What they count of a table is changed by one chain.       *)

Load(t) == FoldFunction(LAMBDA b, sum : Len(b) + sum, 0, t)
Used(t) == {h \in Hash : t[h] # <<>>}
Tables == [Hash -> Seq(ChainNode)]

LEMMA HashFinite == IsFiniteSet(Hash)
BY MaxHashAssumption, FS_Interval DEF Hash

LEMMA LoadIsTotal ==
  ASSUME NEW t \in Tables
  PROVE  /\ Load(t) = Total(t, Hash)[Hash]
         /\ IsSum(Total(t, Hash), t, Hash)
         /\ Chains(t, Hash)
<1>1. DOMAIN t = Hash
  BY DEF Tables
<1>2. Load(t) = Total(t, Hash)[Hash]
  BY <1>1, FoldIsSum DEF Load
<1>3. IsSum(Total(t, Hash), t, Hash)
  BY HashFinite, SumExists
<1>4. Chains(t, Hash)
  BY DEF Chains, Tables
<1> QED
  BY <1>2, <1>3, <1>4

LEMMA LoadReplaced ==
  ASSUME NEW t \in Tables, NEW h \in Hash, NEW b \in Seq(ChainNode)
  PROVE  /\ [t EXCEPT ![h] = b] \in Tables
         /\ Load([t EXCEPT ![h] = b]) = Load(t) + Len(b) - Len(t[h])
<1> DEFINE u == [t EXCEPT ![h] = b]
<1>1. u \in Tables /\ u[h] = b /\ Same(t, u, Hash \ {h})
  BY DEF Tables, Same
<1> HIDE DEF u
<1>2. /\ Load(t) = Total(t, Hash)[Hash] /\ IsSum(Total(t, Hash), t, Hash) /\ Chains(t, Hash)
      /\ Load(u) = Total(u, Hash)[Hash] /\ IsSum(Total(u, Hash), u, Hash) /\ Chains(u, Hash)
  BY <1>1, LoadIsTotal
<1>3. Total(u, Hash)[Hash] = Total(t, Hash)[Hash] + Len(u[h]) - Len(t[h])
  BY <1>1, <1>2, HashFinite, SumOther
<1>4. Load(u) = Load(t) + Len(b) - Len(t[h])
  BY <1>1, <1>2, <1>3, Zenon
<1> QED
  BY <1>1, <1>4 DEF u

LEMMA LoadNothing == Load([h \in Hash |-> <<>>]) = 0
<1> DEFINE t == [h \in Hash |-> <<>>]
<1>1. t \in Tables /\ \A h \in Hash : t[h] = <<>>
  BY DEF Tables
<1> HIDE DEF t
<1>2. Load(t) = Total(t, Hash)[Hash] /\ IsSum(Total(t, Hash), t, Hash)
  BY <1>1, LoadIsTotal
<1>3. Total(t, Hash)[Hash] = 0
  BY <1>1, <1>2, HashFinite, SumNothing
<1>4. Load(t) = 0
  BY <1>2, <1>3
<1> QED
  BY <1>4 DEF t

LEMMA UsedReplaced ==
  ASSUME NEW t \in Tables, NEW h \in Hash, NEW b \in Seq(ChainNode)
  PROVE  LET u == [t EXCEPT ![h] = b]
         IN  /\ Cardinality(Used(t)) \in Nat
             /\ Cardinality(Used(u)) =
                  IF t[h] = <<>> /\ b # <<>> THEN Cardinality(Used(t)) + 1
                  ELSE IF t[h] # <<>> /\ b = <<>> THEN Cardinality(Used(t)) - 1
                  ELSE Cardinality(Used(t))
<1> DEFINE u == [t EXCEPT ![h] = b]
<1>1. u[h] = b /\ \A g \in Hash \ {h} : u[g] = t[g]
  BY DEF Tables
<1> HIDE DEF u
<1>2. IsFiniteSet(Used(t)) /\ Cardinality(Used(t)) \in Nat
  BY HashFinite, FS_Subset, FS_CardinalityType DEF Used
<1>3. CASE t[h] = <<>> /\ b # <<>>
  <2>1. Used(u) = Used(t) \cup {h} /\ h \notin Used(t)
    BY <1>1, <1>3 DEF Used
  <2> QED
    BY <1>2, <1>3, <2>1, FS_AddElement DEF u
<1>4. CASE t[h] # <<>> /\ b = <<>>
  <2>1. Used(u) = Used(t) \ {h} /\ h \in Used(t)
    BY <1>1, <1>4 DEF Used
  <2> QED
    BY <1>2, <1>4, <2>1, FS_RemoveElement DEF u
<1>5. CASE (t[h] = <<>>) = (b = <<>>)
  <2>1. Used(u) = Used(t)
    BY <1>1, <1>5 DEF Used
  <2> QED
    BY <1>2, <1>5, <2>1 DEF u
<1> QED
  BY <1>3, <1>4, <1>5

LEMMA CountersAre ==
  CountersAgree <=> length = Load(table) /\ num_entries = Cardinality(Used(table))
BY DEF CountersAgree, Load, Used

LEMMA CountersWillAgree ==
  ASSUME length' = Load(table'), num_entries' = Cardinality(Used(table'))
  PROVE  CountersAgree'
<1>1. (CountersAgree <=> length = Load(table) /\ num_entries = Cardinality(Used(table)))'
  BY CountersAre, PTL
<1> QED
  BY <1>1
-----------------------------------------------------------------------------
(* Finding an entry. *)

LEMMA LeastOf ==
  ASSUME NEW M, M \subseteq Nat, M # {}
  PROVE  Min(M) \in M /\ \A m \in M : Min(M) <= m
<1>1. \E n \in M : \A m \in M : n <= m
  BY LeastNumber
<1> QED
  BY <1>1 DEF Min

LEMMA PositionIs ==
  ASSUME NEW b \in Seq(ChainNode), NEW k, NEW chance \in SUBSET Dangling(b)
  PROVE  LET p == Position(b, k, chance)
         IN  /\ p \in Nat
             /\ p = 0 <=> Matches(b, k, chance) = {}
             /\ p # 0 => p \in DOMAIN b /\ b[p].key \in {k, Freed}
<1> DEFINE M == Matches(b, k, chance)
<1>1. M \subseteq DOMAIN b /\ DOMAIN b \subseteq Nat \ {0}
  BY DEF Matches, Dangling
<1>2. \A i \in M : b[i].key \in {k, Freed}
  BY DEF Matches, Dangling
<1>3. CASE M = {}
  BY <1>3 DEF Position
<1>4. CASE M # {}
  <2>1. Position(b, k, chance) = Min(M)
    BY <1>4 DEF Position
  <2> HIDE DEF M
  <2>2. Min(M) \in M
    BY <1>1, <1>4, LeastOf
  <2>3. Min(M) \in DOMAIN b /\ Min(M) \in Nat \ {0} /\ b[Min(M)].key \in {k, Freed}
    BY <1>1, <1>2, <2>2
  <2> QED
    BY <1>4, <2>1, <2>3 DEF M
<1> QED
  BY <1>3, <1>4

LEMMA HeldIsThere ==
  ASSUME NEW b, NEW k, NEW d, Holds(b, k, d)
  PROVE  k \in Ssns(b)
<1>1. PICK i \in DOMAIN b : b[i].entry = [ssn |-> k, data |-> d]
  BY DEF Holds
<1>2. b[i].entry.ssn = k
  BY <1>1
<1> QED
  BY <1>2 DEF Ssns

LEMMA NodeType ==
  ASSUME NEW b \in Seq(ChainNode), NEW i \in DOMAIN b
  PROVE  /\ b[i] \in ChainNode /\ b[i].entry \in Entry /\ b[i].entry.ssn \in Key
         /\ b[i].entry = [ssn |-> b[i].entry.ssn, data |-> b[i].entry.data]
<1>1. b[i] \in ChainNode
  OBVIOUS
<1> QED
  BY <1>1 DEF ChainNode, Entry

(* In a clean chain a key is found where it is. *)
LEMMA CleanFinds ==
  ASSUME NEW b \in Seq(ChainNode), NEW h, InOne(b, h), Clean(b),
         NEW k \in Key, NEW chance \in SUBSET Dangling(b)
  PROVE  LET p == Position(b, k, chance)
         IN  /\ chance = {}
             /\ p \in Nat
             /\ p = 0 <=> k \notin Ssns(b)
             /\ p # 0 => p \in DOMAIN b /\ b[p].entry.ssn = k
<1>1. chance = {}
  BY DEF Clean, Dangling
<1>2. \A i \in DOMAIN b : b[i].key = b[i].entry.ssn
  BY DEF Clean, InOne
<1>3. Matches(b, k, chance) = {i \in DOMAIN b : b[i].entry.ssn = k}
  BY <1>1, <1>2 DEF Matches
<1>4. Matches(b, k, chance) = {} <=> k \notin Ssns(b)
  BY <1>3 DEF Ssns
<1> DEFINE p == Position(b, k, chance)
<1>5. /\ p \in Nat
      /\ p = 0 <=> Matches(b, k, chance) = {}
      /\ p # 0 => p \in DOMAIN b /\ b[p].key \in {k, Freed}
  BY PositionIs
<1> HIDE DEF p
<1>6. p # 0 => b[p].entry.ssn = k
  BY <1>2, <1>5 DEF Clean
<1>7. chance = {} /\ p \in Nat /\ (p = 0 <=> k \notin Ssns(b)) /\ (p # 0 => p \in DOMAIN b /\ b[p].entry.ssn = k)
  BY <1>1, <1>4, <1>5, <1>6
<1> QED
  BY <1>7 DEF p

LEMMA InsertedIs ==
  ASSUME NEW b \in Seq(ChainNode), NEW e \in Entry, NEW p \in {0} \cup DOMAIN b,
         InOne(b, hash_ssn[e.ssn])
  PROVE  LET new == Inserted(b, e, p)
         IN  /\ new \in Seq(ChainNode)
             /\ Len(new) = IF p = 0 THEN Len(b) + 1 ELSE Len(b)
             /\ new # <<>>
             /\ InOne(new, hash_ssn[e.ssn])
<1> DEFINE new == Inserted(b, e, p)
<1>1. CASE p = 0
  <2> DEFINE n == [key |-> e.ssn, entry |-> e]
  <2>1. n \in ChainNode
    BY DEF ChainNode, Entry
  <2>2. new = Append(b, n)
    BY <1>1 DEF Inserted
  <2>4. n.entry = e /\ n.key = e.ssn
    OBVIOUS
  <2> HIDE DEF new, n
  <2>3. new \in Seq(ChainNode) /\ Len(new) = Len(b) + 1 /\ new # <<>>
    BY <2>1, <2>2, AppendProperties
  <2>5. \A i \in DOMAIN new : new[i] = n \/ (i \in DOMAIN b /\ new[i] = b[i])
    BY <2>1, <2>2
  <2>6. InOne(new, hash_ssn[e.ssn])
    BY <2>4, <2>5 DEF InOne
  <2> QED
    BY <1>1, <2>3, <2>6 DEF new
<1>2. CASE p # 0
  <2> DEFINE n == [key |-> Freed, entry |-> e]
  <2>1. n \in ChainNode
    BY DEF ChainNode
  <2>2. new = [b EXCEPT ![p] = n] /\ p \in 1 .. Len(b)
    BY <1>2 DEF Inserted
  <2>4. n.entry = e /\ n.key = Freed
    OBVIOUS
  <2> HIDE DEF new, n
  <2>3. new \in Seq(ChainNode) /\ Len(new) = Len(b)
    BY <2>1, <2>2
  <2>5. \A i \in DOMAIN new : i \in DOMAIN b /\ (new[i] = n \/ new[i] = b[i])
    BY <2>1, <2>2
  <2>6. InOne(new, hash_ssn[e.ssn])
    BY <2>4, <2>5 DEF InOne
  <2>7. new # <<>>
    BY <2>2, <2>3
  <2> QED
    BY <1>2, <2>3, <2>6, <2>7 DEF new
<1> QED
  BY <1>1, <1>2

(* A new key leaves a clean chain clean. *)
LEMMA InsertedClean ==
  ASSUME NEW b \in Seq(ChainNode), NEW e \in Entry, Clean(b), e.ssn \notin Ssns(b),
         Freed \notin Key
  PROVE  LET new == Inserted(b, e, 0)
         IN  /\ Clean(new)
             /\ Ssns(new) = Ssns(b) \cup {e.ssn}
             /\ Holds(new, e.ssn, e.data)
             /\ \A k, d : Holds(b, k, d) => Holds(new, k, d)
<1> DEFINE new == Inserted(b, e, 0)
           n == [key |-> e.ssn, entry |-> e]
<1>1. n \in ChainNode /\ e.ssn # Freed /\ e = [ssn |-> e.ssn, data |-> e.data]
  BY DEF ChainNode, Entry
<1>2. new = Append(b, n)
  BY DEF Inserted
<1>3. n.entry = e /\ n.key = e.ssn
  OBVIOUS
<1> HIDE DEF new, n
<1>4. /\ DOMAIN new = DOMAIN b \cup {Len(b) + 1} /\ Len(b) + 1 \notin DOMAIN b
      /\ new[Len(b) + 1] = n
      /\ \A i \in DOMAIN b : new[i] = b[i]
  BY <1>1, <1>2
<1>5. Clean(new)
  <2>1. \A i \in DOMAIN new : new[i].key # Freed
    BY <1>1, <1>3, <1>4 DEF Clean
  <2>2. \A i \in DOMAIN b : new[i].entry.ssn # e.ssn
    BY <1>4 DEF Ssns
  <2>3. \A i, j \in DOMAIN new : new[i].entry.ssn = new[j].entry.ssn => i = j
    BY <1>3, <1>4, <2>2 DEF Clean
  <2> QED
    BY <2>1, <2>3 DEF Clean
<1>6. Ssns(new) = Ssns(b) \cup {e.ssn}
  BY <1>3, <1>4 DEF Ssns
<1>7. Holds(new, e.ssn, e.data)
  BY <1>1, <1>3, <1>4 DEF Holds
<1>8. \A k, d : Holds(b, k, d) => Holds(new, k, d)
  BY <1>4 DEF Holds
<1> QED
  BY <1>5, <1>6, <1>7, <1>8 DEF new

LEMMA RemoveAtIs ==
  ASSUME NEW C, NEW b \in Seq(C), NEW p \in DOMAIN b
  PROVE  LET new == RemoveAt(b, p)
         IN  /\ new \in Seq(C) /\ Len(new) = Len(b) - 1
             /\ \A i \in 1 .. Len(b) - 1 : new[i] = IF i < p THEN b[i] ELSE b[i + 1]
<1> DEFINE front == SubSeq(b, 1, p - 1)
           back == SubSeq(b, p + 1, Len(b))
<1>1. Len(b) \in Nat /\ p \in 1 .. Len(b)
  OBVIOUS
<1>2. front \in Seq(C) /\ Len(front) = p - 1 /\ \A i \in 1 .. p - 1 : front[i] = b[i]
  BY <1>1
<1>3. /\ back \in Seq(C) /\ Len(back) = Len(b) - p
      /\ \A i \in 1 .. Len(b) - p : back[i] = b[p + i]
  <2>1. \A i \in p + 1 .. Len(b) : b[i] \in C
    BY <1>1
  <2>2. p + 1 \in Int /\ Len(b) \in Int
    BY <1>1
  <2>3. /\ back \in Seq(C) /\ Len(back) = IF p + 1 <= Len(b) THEN Len(b) - (p + 1) + 1 ELSE 0
        /\ \A i \in 1 .. Len(b) - (p + 1) + 1 : back[i] = b[p + 1 + i - 1]
    BY <2>1, <2>2, SubSeqProperties
  <2> HIDE DEF back
  <2>4. Len(back) = Len(b) - p
    BY <1>1, <2>3
  <2>5. ASSUME NEW i \in 1 .. Len(b) - p PROVE back[i] = b[p + i]
    <3>1. i \in 1 .. Len(b) - (p + 1) + 1 /\ p + 1 + i - 1 = p + i
      BY <1>1
    <3> QED
      BY <2>3, <3>1
  <2> QED
    BY <2>3, <2>4, <2>5
<1> HIDE DEF front, back
<1> DEFINE new == front \o back
<1>4. /\ new \in Seq(C) /\ Len(new) = Len(front) + Len(back)
      /\ \A i \in 1 .. Len(front) + Len(back) :
           new[i] = IF i <= Len(front) THEN front[i] ELSE back[i - Len(front)]
  BY <1>2, <1>3, ConcatProperties
<1> HIDE DEF new
<1>5. Len(new) = Len(b) - 1
  BY <1>1, <1>2, <1>3, <1>4
<1>6. ASSUME NEW i \in 1 .. Len(b) - 1 PROVE new[i] = IF i < p THEN b[i] ELSE b[i + 1]
  <2>1. new[i] = IF i <= p - 1 THEN front[i] ELSE back[i - (p - 1)]
    <3>1. Len(front) + Len(back) = Len(b) - 1
      BY <1>1, <1>2, <1>3
    <3>2. i \in 1 .. Len(front) + Len(back)
      BY <3>1
    <3>3. new[i] = IF i <= Len(front) THEN front[i] ELSE back[i - Len(front)]
      BY <1>4, <3>2
    <3> QED
      BY <1>2, <3>3
  <2>2. CASE i < p
    <3>1. i <= p - 1 /\ i \in 1 .. p - 1
      BY <1>1, <2>2
    <3> QED
      BY <1>2, <2>1, <2>2, <3>1
  <2>3. CASE ~(i < p)
    <3>1. ~(i <= p - 1) /\ i - (p - 1) \in 1 .. Len(b) - p /\ p + (i - (p - 1)) = i + 1
      BY <1>1, <2>3
    <3> QED
      BY <1>3, <2>1, <2>3, <3>1
  <2> QED
    BY <2>2, <2>3
<1> QED
  BY <1>4, <1>5, <1>6 DEF RemoveAt, new, front, back

LEMMA RemovedIs ==
  ASSUME NEW b \in Seq(ChainNode), NEW p \in DOMAIN b
  PROVE  LET new == Removed(b, p)
         IN  /\ new \in Seq(ChainNode) /\ Len(new) = Len(b) - 1
             /\ \A h : InOne(b, h) => InOne(new, h)
             /\ Clean(b) =>
                  /\ Clean(new)
                  /\ Ssns(new) = Ssns(b) \ {b[p].entry.ssn}
                  /\ \A k, d : Holds(b, k, d) /\ k # b[p].entry.ssn => Holds(new, k, d)
<1> DEFINE new == Removed(b, p)
           at(i) == IF i < p THEN i ELSE i + 1
<1>1. p \in 1 .. Len(b) /\ p # 0 /\ Len(b) \in Nat
  OBVIOUS
<1>2. new = RemoveAt(b, p)
  BY <1>1 DEF Removed
<1> HIDE DEF new
<1>3. /\ new \in Seq(ChainNode) /\ Len(new) = Len(b) - 1
      /\ \A i \in 1 .. Len(b) - 1 : new[i] = IF i < p THEN b[i] ELSE b[i + 1]
  BY <1>2, RemoveAtIs
<1>4. DOMAIN new = 1 .. Len(b) - 1
  BY <1>1, <1>3
<1>5. \A i \in DOMAIN new : at(i) \in DOMAIN b /\ at(i) # p /\ new[i] = b[at(i)]
  BY <1>1, <1>3, <1>4
<1>6. \A i, j \in DOMAIN new : at(i) = at(j) => i = j
  BY <1>1, <1>4
<1>7. ASSUME NEW j \in DOMAIN b, j # p PROVE \E i \in DOMAIN new : at(i) = j
  <2>1. CASE j < p
    <3>1. j \in DOMAIN new /\ at(j) = j
      BY <1>1, <1>4, <2>1
    <3> QED
      BY <3>1
  <2>2. CASE j > p
    <3>1. j - 1 \in DOMAIN new /\ at(j - 1) = j
      BY <1>1, <1>4, <2>2
    <3> QED
      BY <3>1
  <2> QED
    BY <1>1, <1>7, <2>1, <2>2
<1> HIDE DEF at
<1>8. ASSUME NEW h, InOne(b, h) PROVE InOne(new, h)
  BY <1>5, <1>8 DEF InOne
<1>9. ASSUME Clean(b)
      PROVE  /\ Clean(new)
             /\ Ssns(new) = Ssns(b) \ {b[p].entry.ssn}
             /\ \A k, d : Holds(b, k, d) /\ k # b[p].entry.ssn => Holds(new, k, d)
  <2>1. Clean(new)
    BY <1>5, <1>6, <1>9 DEF Clean
  <2>2. ASSUME NEW i \in DOMAIN new PROVE new[i].entry.ssn \in Ssns(b) \ {b[p].entry.ssn}
    BY <1>5, <1>9 DEF Ssns, Clean
  <2>3. ASSUME NEW k \in Ssns(b) \ {b[p].entry.ssn} PROVE k \in Ssns(new)
    <3>1. PICK j \in DOMAIN b : b[j].entry.ssn = k
      BY DEF Ssns
    <3>2. PICK i \in DOMAIN new : at(i) = j
      BY <1>7, <3>1
    <3> QED
      BY <1>5, <3>1, <3>2 DEF Ssns
  <2>4. ASSUME NEW k, NEW d, Holds(b, k, d), k # b[p].entry.ssn PROVE Holds(new, k, d)
    <3>1. PICK j \in DOMAIN b : b[j].entry = [ssn |-> k, data |-> d]
      BY <2>4 DEF Holds
    <3>2. j # p
      BY <2>4, <3>1
    <3>3. PICK i \in DOMAIN new : at(i) = j
      BY <1>7, <3>2
    <3> QED
      BY <1>5, <3>1, <3>3 DEF Holds
  <2>5. Ssns(new) = Ssns(b) \ {b[p].entry.ssn}
    <3>1. Ssns(new) \subseteq Ssns(b) \ {b[p].entry.ssn}
      BY <2>2 DEF Ssns
    <3> QED
      BY <2>3, <3>1
  <2> QED
    BY <2>1, <2>4, <2>5
<1> QED
  BY <1>3, <1>8, <1>9 DEF new
-----------------------------------------------------------------------------
(* The walk that collects keys; see FlattenSeq in Sequence_lemmas.          *)

LEMMA DistinctConcat ==
  ASSUME NEW K, NEW s \in Seq(K), NEW t \in Seq(K), Distinct(s), Distinct(t),
         Range(s) \cap Range(t) = {}
  PROVE  Distinct(s \o t)
<1> DEFINE u == s \o t
           m == Len(s)
<1>1. /\ DOMAIN u = 1 .. m + Len(t) /\ m \in Nat /\ Len(t) \in Nat
      /\ DOMAIN s = 1 .. m /\ DOMAIN t = 1 .. Len(t)
      /\ \A i \in DOMAIN u : u[i] = IF i <= m THEN s[i] ELSE t[i - m]
  OBVIOUS
<1> HIDE DEF u, m
<1>2. ASSUME NEW i \in DOMAIN u
      PROVE  \/ i \in DOMAIN s /\ u[i] = s[i] /\ u[i] \in Range(s)
             \/ i \notin DOMAIN s /\ i - m \in DOMAIN t /\ u[i] = t[i - m] /\ u[i] \in Range(t)
  BY <1>1 DEF Range
<1>3. ASSUME NEW i \in DOMAIN u, NEW j \in DOMAIN u, u[i] = u[j] PROVE i = j
  <2>1. CASE i \in DOMAIN s /\ j \in DOMAIN s
    BY <1>2, <1>3, <2>1 DEF Distinct
  <2>2. CASE i \notin DOMAIN s /\ j \notin DOMAIN s
    <3>1. i - m = j - m
      BY <1>2, <1>3, <2>2 DEF Distinct
    <3> QED
      BY <1>1, <3>1
  <2>3. CASE (i \in DOMAIN s) # (j \in DOMAIN s)
    BY <1>2, <1>3, <2>3
  <2> QED
    BY <2>1, <2>2, <2>3
<1> QED
  BY <1>3 DEF Distinct, u

LEMMA ChainKeysAre ==
  ASSUME table \in Tables, NEW h \in Hash
  PROVE  /\ ChainKeys(h) \in Seq(Key)
         /\ Len(ChainKeys(h)) = Len(table[h])
         /\ Range(ChainKeys(h)) = Ssns(table[h])
         /\ Clean(table[h]) => Distinct(ChainKeys(h))
<1> DEFINE b == table[h]
           f == ChainKeys(h)
<1>1. b \in Seq(ChainNode)
  BY DEF Tables
<1>2. \A i \in DOMAIN b : b[i].entry.ssn \in Key
  BY <1>1, NodeType
<1>3. DOMAIN f = DOMAIN b /\ \A i \in DOMAIN b : f[i] = b[i].entry.ssn
  BY DEF ChainKeys
<1>4. f \in Seq(Key) /\ Len(f) = Len(b)
  BY <1>1, <1>2 DEF ChainKeys
<1>5. Range(f) = Ssns(b)
  BY DEF ChainKeys, Range, Ssns
<1> HIDE DEF f, b
<1>6. Clean(b) => Distinct(f)
  BY <1>3 DEF Clean, Distinct
<1> QED
  BY <1>4, <1>5, <1>6 DEF f, b

(* The keys of the buckets from lo to end, in the order of the walk.        *)
LEMMA KeysFromSome ==
  ASSUME table \in Tables, end \in Hash, NEW lo \in Hash, lo <= end
  PROVE  /\ KeysFrom(lo) \in Seq(Key)
         /\ Range(KeysFrom(lo)) = UNION {Ssns(table[h]) : h \in lo .. end}
         /\ Len(KeysFrom(lo)) <= Load(table)
         /\ InBucket /\ (\A h \in Hash : Clean(table[h])) => Distinct(KeysFrom(lo))
<1> DEFINE c == end - lo + 1
           s == [i \in 1 .. c |-> ChainKeys(lo + i - 1)]
           sum == Total(table, Hash)
           g == Flat(s)
           part(n) == lo .. lo + n - 1
<1>1. /\ lo \in Nat /\ end \in Nat /\ end <= MaxHash /\ MaxHash \in Nat
      /\ c \in Nat \ {0} /\ lo + c - 1 = end
  BY MaxHashAssumption DEF Hash
<1>2. \A n \in 1 .. c : lo + n - 1 \in Hash /\ part(n) \subseteq Hash
  BY <1>1 DEF Hash
<1>3. Len(s) = c
  BY <1>1
<1>4. s[1] = ChainKeys(lo) /\ \A n \in Nat \ {0} : n + 1 <= c => s[n + 1] = ChainKeys(lo + n)
  <2>1. s[1] = ChainKeys(lo + 1 - 1) /\ lo + 1 - 1 = lo
    BY <1>1
  <2>2. ASSUME NEW n \in Nat \ {0}, n + 1 <= c PROVE s[n + 1] = ChainKeys(lo + n)
    <3>1. n + 1 \in 1 .. c /\ lo + (n + 1) - 1 = lo + n
      BY <1>1, <2>2
    <3>2. s[n + 1] = ChainKeys(lo + (n + 1) - 1)
      BY <3>1
    <3> QED
      BY <3>1, <3>2
  <2> QED
    BY <2>1, <2>2
<1>5. KeysFrom(lo) = g[c]
  <2>1. KeysFrom(lo) = FlattenSeq(s)
    BY DEF KeysFrom
  <2> HIDE DEF s
  <2> QED
    BY <1>1, <1>3, <2>1, FlatIs
<1>6. IsSum(sum, table, Hash) /\ Load(table) = sum[Hash] /\ Chains(table, Hash)
  BY LoadIsTotal
<1> HIDE DEF s, sum, c
<1>7. IsFlat(g, s, c)
  BY <1>1, <1>3, FlatExists
<1> HIDE DEF g
<1>8. g[1] = ChainKeys(lo) /\ \A n \in Nat \ {0} : n + 1 <= c => g[n + 1] = g[n] \o ChainKeys(lo + n)
  <2>1. g[1] = s[1] /\ \A n \in Nat \ {0} : n + 1 <= c => g[n + 1] = g[n] \o s[n + 1]
    BY <1>1, <1>7, FlatSteps
  <2> QED
    BY <1>4, <2>1
<1> DEFINE From(n) == UNION {Ssns(table[h]) : h \in part(n)}
           Right(n) ==
             /\ g[n] \in Seq(Key)
             /\ Range(g[n]) = From(n)
             /\ Len(g[n]) = sum[part(n)]
             /\ InBucket /\ (\A h \in Hash : Clean(table[h])) => Distinct(g[n])
           T == {m \in Nat : m + 1 <= c => Right(m + 1)}
<1>9. 0 \in T
  <2>1. part(1) = {lo}
    BY <1>1
  <2>2. sum[{lo}] = Len(table[lo])
    <3>1. sum[{lo}] = Len(table[lo]) + sum[{lo} \ {lo}]
      BY <1>6, HashFinite, SumWithout
    <3>2. {lo} \ {lo} = {} /\ sum[{}] = 0
      BY <1>6 DEF IsSum
    <3>3. PICK m \in Nat : m = Len(table[lo])
      BY DEF Tables
    <3>4. sum[{lo}] = m + 0
      BY <3>1, <3>2, <3>3, Zenon
    <3>5. m + 0 = m
      OBVIOUS
    <3> QED
      BY <3>3, <3>4, <3>5, Zenon
  <2>3. From(1) = Ssns(table[lo])
    BY <2>1
  <2>4. Right(1)
    BY <1>8, <2>1, <2>2, <2>3, ChainKeysAre
  <2> HIDE DEF Right
  <2> QED
    BY <2>4
<1>10. ASSUME NEW m \in Nat, m \in T PROVE m + 1 \in T
  <2> SUFFICES ASSUME m + 2 <= c PROVE Right(m + 2)
    <3> HIDE DEF Right
    <3> QED
      BY <1>1
  <2> DEFINE n == m + 1
             h == lo + n
  <2>1. n \in Nat \ {0} /\ n + 1 <= c /\ n + 1 = m + 2 /\ n \in 1 .. c
    BY <1>1
  <2>2. Right(n)
    <3> HIDE DEF Right
    <3> QED
      BY <1>1, <1>10, <2>1
  <2> HIDE DEF n
  <2>3. /\ h \in Hash /\ part(n + 1) = part(n) \cup {h} /\ h \notin part(n)
        /\ part(n + 1) \subseteq Hash /\ part(n) \subseteq Hash
    <3>1. n + 1 \in 1 .. c /\ lo + (n + 1) - 1 = h
      BY <1>1, <2>1
    <3>2. h \in Hash /\ part(n + 1) \subseteq Hash /\ part(n) \subseteq Hash
      BY <1>2, <2>1, <3>1
    <3> QED
      BY <1>1, <2>1, <3>2 DEF Hash
  <2>4. g[n + 1] = g[n] \o ChainKeys(h)
    BY <1>8, <2>1
  <2> HIDE DEF h
  <2>5. /\ ChainKeys(h) \in Seq(Key) /\ Len(ChainKeys(h)) = Len(table[h])
        /\ Range(ChainKeys(h)) = Ssns(table[h])
        /\ Clean(table[h]) => Distinct(ChainKeys(h))
    BY <2>3, ChainKeysAre
  <2>6. g[n + 1] \in Seq(Key) /\ Len(g[n + 1]) = Len(g[n]) + Len(table[h])
    <3>1. g[n] \in Seq(Key)
      BY <2>2
    <3>2. g[n + 1] \in Seq(Key) /\ Len(g[n + 1]) = Len(g[n]) + Len(ChainKeys(h))
      BY <2>4, <2>5, <3>1, ConcatProperties
    <3> QED
      BY <2>5, <3>2
  <2>7. Range(g[n + 1]) = From(n + 1)
    <3>1. Range(g[n + 1]) = Range(g[n]) \cup Ssns(table[h])
      BY <2>2, <2>4, <2>5, RangeConcatenation
    <3>2. From(n + 1) = From(n) \cup Ssns(table[h])
      BY <2>3
    <3> QED
      BY <2>2, <3>1, <3>2
  <2>8. Len(g[n + 1]) = sum[part(n + 1)]
    <3> DEFINE w == part(n + 1)
               v == part(n)
    <3>1. w \ {h} = v /\ w \in SUBSET Hash /\ v \in SUBSET Hash /\ h \in w
      BY <2>3
    <3>2. Len(g[n]) = sum[v]
      BY <2>2
    <3> HIDE DEF w, v
    <3>3. sum[w] = Len(table[h]) + sum[v]
      BY <1>6, <3>1, HashFinite, SumWithout
    <3>4. Len(table[h]) \in Nat /\ sum[v] \in Nat
      BY <1>6, <2>3, <3>1, HashFinite, SumNat DEF Chains
    <3>5. Len(g[n + 1]) = sum[w]
      BY <2>6, <3>2, <3>3, <3>4
    <3> QED
      BY <3>5 DEF w
  <2>9. ASSUME InBucket, \A b \in Hash : Clean(table[b]) PROVE Distinct(g[n + 1])
    <3>1. Distinct(g[n]) /\ Distinct(ChainKeys(h))
      BY <2>2, <2>3, <2>5, <2>9
    <3>2. ASSUME NEW b \in Hash, NEW k \in Ssns(table[b]) PROVE hash_ssn[k] = b
      BY <2>9 DEF InBucket, InOne, Ssns
    <3>3. ASSUME NEW k, k \in Range(g[n]), k \in Range(ChainKeys(h)) PROVE FALSE
      <4>1. PICK b \in part(n) : k \in Ssns(table[b])
        BY <2>2, <3>3
      <4>2. hash_ssn[k] = b /\ hash_ssn[k] = h
        BY <2>3, <2>5, <3>2, <3>3, <4>1
      <4> QED
        BY <2>3, <4>1, <4>2
    <3>4. Range(g[n]) \cap Range(ChainKeys(h)) = {}
      BY <3>3
    <3> QED
      BY <2>2, <2>4, <2>5, <3>1, <3>3, <3>4, DistinctConcat
  <2>10. Right(n + 1)
    BY <2>6, <2>7, <2>8, <2>9
  <2> HIDE DEF Right
  <2> QED
    BY <2>1, <2>10
<1>11. Right(c)
  <2>1. c - 1 \in Nat /\ (c - 1) + 1 = c
    BY <1>1
  <2> HIDE DEF T
  <2>2. c - 1 \in T
    BY <1>9, <1>10, <2>1, Induction
  <2> USE DEF T
  <2> HIDE DEF Right
  <2> QED
    BY <1>1, <2>1, <2>2
<1>12. part(c) = lo .. end
  BY <1>1
<1>13. sum[lo .. end] <= sum[Hash]
  <2>1. lo .. end \in SUBSET Hash
    BY <1>1 DEF Hash
  <2> QED
    BY <1>6, <2>1, HashFinite, SumPart
<1> QED
  BY <1>5, <1>6, <1>11, <1>12, <1>13

LEMMA CountsAreNat ==
  ASSUME NEW t \in Tables
  PROVE  Load(t) \in Nat /\ Cardinality(Used(t)) \in Nat
<1>1. Total(t, Hash)[Hash] \in Nat
  BY LoadIsTotal, HashFinite, SumNat
<1> QED
  BY <1>1, LoadIsTotal, HashFinite, FS_Subset, FS_CardinalityType DEF Used

(* The range of a transfer may be empty, one past the end of the node's.   *)
LEMMA KeysFromAre ==
  ASSUME table \in Tables, end \in Hash, NEW lo \in Hash, lo <= end + 1
  PROVE  /\ KeysFrom(lo) \in Seq(Key)
         /\ Range(KeysFrom(lo)) = UNION {Ssns(table[h]) : h \in lo .. end}
         /\ Len(KeysFrom(lo)) <= Load(table)
         /\ InBucket /\ (\A h \in Hash : Clean(table[h])) => Distinct(KeysFrom(lo))
<1>1. lo \in Nat /\ end \in Nat
  BY MaxHashAssumption DEF Hash
<1>2. CASE lo <= end
  BY <1>2, KeysFromSome
<1>3. CASE lo = end + 1
  <2>1. end - lo + 1 = 0 /\ lo .. end = {}
    BY <1>1, <1>3
  <2>2. [i \in 1 .. end - lo + 1 |-> ChainKeys(lo + i - 1)] = <<>>
    BY <2>1
  <2>3. KeysFrom(lo) = <<>>
    BY <2>2 DEF KeysFrom, FlattenSeq
  <2>4. Range(<<>>) = {} /\ Distinct(<<>>)
    BY DEF Range, Distinct
  <2>5. Load(table) \in Nat
    BY CountsAreNat
  <2> QED
    BY <2>1, <2>3, <2>4, <2>5
<1> QED
  BY <1>1, <1>2, <1>3
-----------------------------------------------------------------------------
(* ht_insert and ht_remove. *)

LEMMA BucketIs ==
  ASSUME TypeOK, NEW k \in Key
  PROVE  /\ hash_ssn[k] \in Hash /\ table \in Tables
         /\ table[hash_ssn[k]] \in Seq(ChainNode)
         /\ InBucket => InOne(table[hash_ssn[k]], hash_ssn[k])
BY ValueStoreAssumption DEF TypeOK, Tables, InBucket

LEMMA HtInsertIs ==
  ASSUME TypeOK, CountersAgree, InBucket, Untouched,
         NEW e \in Entry, NEW chance \in Chances(e.ssn), HtInsert(e, chance)
  PROVE  LET h == hash_ssn[e.ssn]
         IN  /\ table' \in Tables /\ length' \in Nat /\ num_entries' \in Nat
             /\ overwritten' \subseteq Hash /\ overwritten \subseteq overwritten'
             /\ \A g \in Hash \ {h} : table'[g] = table[g]
             /\ CountersAgree' /\ InBucket' /\ Untouched'
             /\ h \notin overwritten' =>
                  /\ h \notin overwritten
                  /\ Ssns(table'[h]) = Ssns(table[h]) \cup {e.ssn}
                  /\ Holds(table'[h], e.ssn, e.data)
                  /\ \A k, d : Holds(table[h], k, d) => Holds(table'[h], k, d)
<1> DEFINE h == hash_ssn[e.ssn]
           b == table[h]
           p == Position(b, e.ssn, chance)
           new == Inserted(b, e, p)
<1>1. e.ssn \in Key
  BY DEF Entry
<1>2. h \in Hash /\ table \in Tables /\ b \in Seq(ChainNode) /\ InOne(b, h)
  BY <1>1, BucketIs
<1>3. chance \in SUBSET Dangling(b)
  BY DEF Chances
<1>4. p \in {0} \cup DOMAIN b
  BY <1>2, <1>3, PositionIs
<1>5. /\ table' = [table EXCEPT ![h] = new]
      /\ length' = IF p = 0 THEN length + 1 ELSE length
      /\ num_entries' = IF b = <<>> THEN num_entries + 1 ELSE num_entries
      /\ overwritten' = IF p = 0 THEN overwritten ELSE overwritten \cup {h}
  BY DEF HtInsert
<1>6. Clean(b) => (p = 0 <=> e.ssn \notin Ssns(b))
  BY <1>1, <1>2, <1>3, CleanFinds
<1> HIDE DEF p, h
<1>7. /\ new \in Seq(ChainNode) /\ Len(new) = IF p = 0 THEN Len(b) + 1 ELSE Len(b)
      /\ new # <<>> /\ InOne(new, h)
  BY <1>2, <1>4, InsertedIs DEF h
<1>8. p = 0 /\ Clean(b) =>
        /\ Clean(new)
        /\ Ssns(new) = Ssns(b) \cup {e.ssn}
        /\ Holds(new, e.ssn, e.data)
        /\ \A k, d : Holds(b, k, d) => Holds(new, k, d)
  <2> SUFFICES ASSUME p = 0, Clean(b)
               PROVE  LET n == Inserted(b, e, 0)
                      IN  /\ Clean(n)
                          /\ Ssns(n) = Ssns(b) \cup {e.ssn}
                          /\ Holds(n, e.ssn, e.data)
                          /\ \A k, d : Holds(b, k, d) => Holds(n, k, d)
    BY Zenon
  <2> QED
    BY <1>2, <1>6, InsertedClean, ValueStoreAssumption
<1> HIDE DEF new
<1>9. /\ table' \in Tables /\ table'[h] = new
      /\ \A g \in Hash \ {h} : table'[g] = table[g]
  BY <1>2, <1>5, <1>7 DEF Tables
<1>10. overwritten' \subseteq Hash /\ overwritten \subseteq overwritten'
  BY <1>2, <1>5 DEF TypeOK
<1>11. length' = Load(table')
  <2>1. Load(table') = Load(table) + Len(new) - Len(b)
    BY <1>2, <1>5, <1>7, LoadReplaced
  <2>2. length = Load(table) /\ length \in Nat
    BY CountersAre DEF TypeOK
  <2>3. Len(b) \in Nat
    BY <1>2
  <2> QED
    BY <1>5, <1>7, <2>1, <2>2, <2>3
<1>12. num_entries' = Cardinality(Used(table'))
  <2>1. Cardinality(Used(table')) = IF b = <<>> THEN Cardinality(Used(table)) + 1
                                     ELSE Cardinality(Used(table))
    BY <1>2, <1>5, <1>7, UsedReplaced
  <2>2. num_entries = Cardinality(Used(table))
    BY CountersAre
  <2> QED
    BY <1>5, <2>1, <2>2
<1>13. length' \in Nat /\ num_entries' \in Nat
  BY <1>9, <1>11, <1>12, CountsAreNat
<1>14. CountersAgree'
  BY <1>11, <1>12, CountersWillAgree
<1>15. InBucket'
  <2>1. ASSUME NEW g \in Hash PROVE InOne(table'[g], g)
    <3>1. CASE g = h
      BY <1>7, <1>9, <3>1
    <3>2. CASE g # h
      BY <1>9, <3>2 DEF InBucket
    <3> QED
      BY <3>1, <3>2
  <2> QED
    BY <2>1 DEF InBucket
<1>16. Clean(b) \/ h \in overwritten
  BY <1>2 DEF Untouched
<1>17. h \notin overwritten' => p = 0 /\ h \notin overwritten /\ Clean(b)
  BY <1>5, <1>16
<1>18. Untouched'
  <2>1. ASSUME NEW g \in Hash, g \notin overwritten' PROVE Clean(table'[g])
    <3>1. CASE g = h
      BY <1>8, <1>9, <1>17, <2>1, <3>1
    <3>2. CASE g # h
      BY <1>9, <1>10, <2>1, <3>2 DEF Untouched
    <3> QED
      BY <3>1, <3>2
  <2> QED
    BY <2>1 DEF Untouched
<1>19. h \notin overwritten' =>
         /\ h \notin overwritten
         /\ Ssns(table'[h]) = Ssns(b) \cup {e.ssn}
         /\ Holds(table'[h], e.ssn, e.data)
         /\ \A k, d : Holds(b, k, d) => Holds(table'[h], k, d)
  BY <1>8, <1>9, <1>17
<1> QED
  BY <1>9, <1>10, <1>13, <1>14, <1>15, <1>18, <1>19 DEF h

LEMMA HtRemoveIs ==
  ASSUME TypeOK, CountersAgree, InBucket, Untouched,
         NEW k \in Key, NEW chance \in Chances(k), HtRemove(k, chance),
         UNCHANGED overwritten
  PROVE  LET h == hash_ssn[k]
         IN  /\ table' \in Tables /\ length' \in Nat /\ num_entries' \in Nat
             /\ \A g \in Hash \ {h} : table'[g] = table[g]
             /\ CountersAgree' /\ InBucket' /\ Untouched'
             /\ h \notin overwritten =>
                  /\ Ssns(table'[h]) = Ssns(table[h]) \ {k}
                  /\ \A l, d : Holds(table[h], l, d) /\ l # k => Holds(table'[h], l, d)
<1> DEFINE h == hash_ssn[k]
           b == table[h]
           p == Position(b, k, chance)
           new == Removed(b, p)
<1>2. h \in Hash /\ table \in Tables /\ b \in Seq(ChainNode) /\ InOne(b, h)
  BY BucketIs
<1>3. chance \in SUBSET Dangling(b)
  BY DEF Chances
<1>4. p \in {0} \cup DOMAIN b
  BY <1>2, <1>3, PositionIs
<1>5. /\ table' = [table EXCEPT ![h] = new]
      /\ length' = IF p = 0 THEN length ELSE length - 1
      /\ num_entries' = IF p = 1 /\ Len(b) = 1 THEN num_entries - 1 ELSE num_entries
  BY DEF HtRemove
<1>6. Clean(b) => (p = 0 <=> k \notin Ssns(b)) /\ (p # 0 => b[p].entry.ssn = k)
  BY <1>2, <1>3, CleanFinds
<1> HIDE DEF p, h
<1>7. /\ new \in Seq(ChainNode) /\ Len(new) = IF p = 0 THEN Len(b) ELSE Len(b) - 1
      /\ InOne(new, h)
  <2>1. CASE p = 0
    BY <1>2, <2>1 DEF Removed
  <2>2. CASE p # 0
    BY <1>2, <1>4, <2>2, RemovedIs
  <2> QED
    BY <2>1, <2>2
<1>8. Clean(b) =>
        /\ Clean(new)
        /\ Ssns(new) = Ssns(b) \ {k}
        /\ \A l, d : Holds(b, l, d) /\ l # k => Holds(new, l, d)
  <2>1. CASE p = 0
    BY <1>6, <2>1 DEF Removed
  <2>2. CASE p # 0
    BY <1>2, <1>4, <1>6, <2>2, RemovedIs
  <2> QED
    BY <2>1, <2>2
<1>0. b = <<>> => new = <<>>
  BY <1>2, <1>4, <1>7
<1> HIDE DEF new
<1>9. /\ table' \in Tables /\ table'[h] = new
      /\ \A g \in Hash \ {h} : table'[g] = table[g]
  BY <1>2, <1>5, <1>7 DEF Tables
<1>10. Len(b) \in Nat /\ (b = <<>> <=> Len(b) = 0) /\ (new = <<>> <=> Len(new) = 0)
  <2>1. \A s \in Seq(ChainNode) : Len(s) \in Nat /\ (s = <<>> <=> Len(s) = 0)
    OBVIOUS
  <2> QED
    BY <1>2, <1>7, <2>1
<1>11. length' = Load(table')
  <2>1. Load(table') = Load(table) + Len(new) - Len(b)
    BY <1>2, <1>5, <1>7, LoadReplaced
  <2>2. length = Load(table) /\ length \in Nat
    BY CountersAre DEF TypeOK
  <2> QED
    BY <1>5, <1>7, <1>10, <2>1, <2>2
<1>12. num_entries' = Cardinality(Used(table'))
  <2>1. Cardinality(Used(table')) =
          IF b = <<>> /\ new # <<>> THEN Cardinality(Used(table)) + 1
          ELSE IF b # <<>> /\ new = <<>> THEN Cardinality(Used(table)) - 1
          ELSE Cardinality(Used(table))
    BY <1>2, <1>5, <1>7, UsedReplaced
  <2>2. num_entries = Cardinality(Used(table))
    BY CountersAre
  <2>3. p = 1 /\ Len(b) = 1 <=> b # <<>> /\ new = <<>>
    BY <1>2, <1>4, <1>7, <1>10
  <2>4. ~(b = <<>> /\ new # <<>>)
    BY <1>0
  <2> QED
    BY <1>5, <2>1, <2>2, <2>3, <2>4
<1>13. length' \in Nat /\ num_entries' \in Nat
  BY <1>9, <1>11, <1>12, CountsAreNat
<1>14. CountersAgree'
  BY <1>11, <1>12, CountersWillAgree
<1>15. InBucket'
  <2>1. ASSUME NEW g \in Hash PROVE InOne(table'[g], g)
    <3>1. CASE g = h
      BY <1>7, <1>9, <3>1
    <3>2. CASE g # h
      BY <1>9, <3>2 DEF InBucket
    <3> QED
      BY <3>1, <3>2
  <2> QED
    BY <2>1 DEF InBucket
<1>16. Clean(b) \/ h \in overwritten
  BY <1>2 DEF Untouched
<1>18. Untouched'
  <2>1. ASSUME NEW g \in Hash, g \notin overwritten PROVE Clean(table'[g])
    <3>1. CASE g = h
      BY <1>8, <1>9, <1>16, <2>1, <3>1
    <3>2. CASE g # h
      BY <1>9, <2>1, <3>2 DEF Untouched
    <3> QED
      BY <3>1, <3>2
  <2> QED
    BY <2>1 DEF Untouched
<1>19. h \notin overwritten =>
         /\ Ssns(table'[h]) = Ssns(b) \ {k}
         /\ \A l, d : Holds(b, l, d) /\ l # k => Holds(table'[h], l, d)
  BY <1>8, <1>9, <1>16
<1> QED
  BY <1>9, <1>13, <1>14, <1>15, <1>18, <1>19 DEF h
-----------------------------------------------------------------------------
(* The invariant holds initially and is preserved by every action.          *)

LEMMA InitInv ==
  ASSUME Init
  PROVE  IInv
<1> USE DEF Init
<1>1. /\ table \in Tables /\ \A h \in Hash : table[h] = <<>> /\ DOMAIN table[h] = {}
  BY DEF Tables
<1>2. TypeOK
  BY <1>1, MaxHashAssumption DEF TypeOK, Hash, Tables
<1>3. CountersAgree
  <2>1. Used(table) = {}
    BY <1>1 DEF Used
  <2> QED
    BY <2>1, LoadNothing, FS_EmptySet, CountersAre
<1>4. InBucket /\ Untouched /\ Within
  BY <1>1 DEF InBucket, InOne, Untouched, Clean, Within
<1>5. Remembered
  BY <1>1, ValueStoreAssumption DEF Remembered, Keeps, Ssns
<1>6. Collected /\ Removing /\ SentSoFar /\ CrashesOnlyOverwritten
  BY DEF Collected, Removing, SentSoFar, CrashesOnlyOverwritten, Transferring
<1> QED
  BY <1>2, <1>3, <1>4, <1>5, <1>6 DEF IInv

LEMMA CountersStay ==
  ASSUME CountersAgree, UNCHANGED ht
  PROVE  CountersAgree'
BY CountersAre, CountersWillAgree DEF ht

(* A step that only sends. *)
OutTypes ==
  {<<>>} \cup
  [type : {"VAL_INSERT", "VAL_REMOVE", "VAL_LOOKUP"}, to : {"successor"}, ssn : Key] \cup
  {Answer(k, e) : k \in Key, e \in Entry \cup {[ssn |-> Absent, data |-> Absent]}}

LEMMA OnlyOutInv ==
  ASSUME IInv, UNCHANGED <<end, ht, pc, transfer, history>>, out' \in OutTypes
  PROVE  IInv'
<1> USE DEF ht, transfer, history
<1>1. TypeOK'
  BY DEF IInv, TypeOK, OutTypes
<1>2. CountersAgree'
  BY CountersStay DEF IInv
<1>3. InBucket' /\ Untouched' /\ Within' /\ Remembered'
  BY DEF IInv, InBucket, Untouched, Within, Remembered, Keeps
<1>4. Collected' /\ Removing' /\ SentSoFar' /\ CrashesOnlyOverwritten'
  BY DEF IInv, Collected, Removing, SentSoFar, GivenKeys, CrashesOnlyOverwritten, Transferring
<1> QED
  BY <1>1, <1>2, <1>3, <1>4 DEF IInv

LEMMA ForwardInv ==
  ASSUME IInv, NEW type \in {"VAL_INSERT", "VAL_REMOVE", "VAL_LOOKUP"}, NEW k \in Key,
         Forward(type, k)
  PROVE  IInv'
<1>1. out' \in OutTypes
  BY DEF Forward, OutTypes
<1> QED
  BY <1>1, OnlyOutInv DEF Forward

LEMMA LookupInv ==
  ASSUME IInv, NEW k \in Key, lookup_value(k)
  PROVE  IInv'
<1> DEFINE b == table[hash_ssn[k]]
<1>1. PICK chance \in Chances(k) :
        out' = Answer(k, IF Position(b, k, chance) = 0 THEN [ssn |-> Absent, data |-> Absent]
                         ELSE b[Position(b, k, chance)].entry)
  BY DEF lookup_value
<1>2. b \in Seq(ChainNode)
  BY BucketIs DEF IInv
<1>3. chance \in SUBSET Dangling(b)
  BY DEF Chances
<1> DEFINE p == Position(b, k, chance)
<1>4. p # 0 => p \in DOMAIN b
  BY <1>2, <1>3, PositionIs
<1> HIDE DEF b, p
<1>5. p # 0 => b[p].entry \in Entry
  BY <1>2, <1>4, NodeType
<1>6. out' \in OutTypes
  <2>1. out' = Answer(k, IF p = 0 THEN [ssn |-> Absent, data |-> Absent] ELSE b[p].entry)
    BY <1>1 DEF b, p
  <2>2. (IF p = 0 THEN [ssn |-> Absent, data |-> Absent] ELSE b[p].entry)
          \in Entry \cup {[ssn |-> Absent, data |-> Absent]}
    BY <1>5
  <2> QED
    BY <2>1, <2>2 DEF OutTypes
<1> QED
  BY <1>6, OnlyOutInv DEF lookup_value

LEMMA InsertionInv ==
  ASSUME IInv, NEW k \in Key, NEW d \in Data, insertion_of_value(k, d)
  PROVE  IInv'
<1> DEFINE e == [ssn |-> k, data |-> d]
           h == hash_ssn[k]
<1>1. e \in Entry /\ e.ssn = k /\ e.data = d
  BY DEF Entry
<1>2. PICK chance \in Chances(k) : HtInsert(e, chance)
  BY DEF insertion_of_value
<1>3. /\ pc = "idle" /\ h <= end /\ stored' = [stored EXCEPT ![k] = d] /\ out' = <<>>
      /\ UNCHANGED <<end, pc, transfer>>
  BY DEF insertion_of_value, Mine, InRange
<1> HIDE DEF e
<1>4. /\ table' \in Tables /\ length' \in Nat /\ num_entries' \in Nat
      /\ overwritten' \subseteq Hash /\ overwritten \subseteq overwritten'
      /\ \A g \in Hash \ {h} : table'[g] = table[g]
      /\ CountersAgree' /\ InBucket' /\ Untouched'
      /\ h \notin overwritten' =>
           /\ h \notin overwritten
           /\ Ssns(table'[h]) = Ssns(table[h]) \cup {k}
           /\ Holds(table'[h], k, d)
           /\ \A l, c : Holds(table[h], l, c) => Holds(table'[h], l, c)
  BY <1>1, <1>2, HtInsertIs, Zenon DEF IInv
<1>5. h \in Hash /\ stored \in [Key -> Data \cup {Absent}] /\ d # Absent
  BY ValueStoreAssumption DEF IInv, TypeOK
<1>6. stored' \in [Key -> Data \cup {Absent}] /\ stored'[k] = d /\ \A l \in Key \ {k} : stored'[l] = stored[l]
  BY <1>3, <1>5
<1>7. TypeOK'
  BY <1>3, <1>4, <1>6 DEF IInv, TypeOK, Tables, transfer
<1>8. Remembered'
  <2> SUFFICES ASSUME NEW l \in Key, hash_ssn[l] \notin overwritten'
               PROVE  Keeps(table[hash_ssn[l]], l)'
    BY DEF Remembered
  <2>1. hash_ssn[l] \in Hash /\ hash_ssn[l] \notin overwritten
    BY <1>4, ValueStoreAssumption
  <2>2. Keeps(table[hash_ssn[l]], l)
    BY <1>3, <2>1 DEF IInv, Remembered
  <2>3. CASE l = k
    BY <1>4, <1>5, <1>6, <2>3 DEF Keeps
  <2>4. CASE l # k
    <3>1. CASE hash_ssn[l] = h
      BY <1>4, <1>6, <2>2, <2>4, <3>1 DEF Keeps
    <3>2. CASE hash_ssn[l] # h
      BY <1>4, <1>6, <2>1, <2>2, <2>4, <3>2 DEF Keeps
    <3> QED
      BY <3>1, <3>2
  <2> QED
    BY <2>3, <2>4
<1>9. Within'
  <2> SUFFICES ASSUME NEW g \in Hash \ overwritten', g > end PROVE table'[g] = <<>>
    BY <1>3 DEF Within
  <2>1. g # h
    BY <1>3, <1>5 DEF IInv, TypeOK, Hash
  <2> QED
    BY <1>3, <1>4, <2>1 DEF IInv, Within
<1>10. Collected' /\ Removing' /\ SentSoFar' /\ CrashesOnlyOverwritten'
  BY <1>3 DEF Collected, Removing, SentSoFar, CrashesOnlyOverwritten, Transferring
<1> QED
  BY <1>4, <1>7, <1>8, <1>9, <1>10 DEF IInv

LEMMA RemoveInv ==
  ASSUME IInv, NEW k \in Key, remove_value(k)
  PROVE  IInv'
<1> DEFINE h == hash_ssn[k]
<1>2. PICK chance \in Chances(k) : HtRemove(k, chance)
  BY DEF remove_value
<1>3. /\ pc = "idle" /\ h <= end /\ stored' = [stored EXCEPT ![k] = Absent] /\ out' = <<>>
      /\ UNCHANGED <<end, pc, transfer, overwritten>>
  BY DEF remove_value, Mine, InRange
<1>4. /\ table' \in Tables /\ length' \in Nat /\ num_entries' \in Nat
      /\ \A g \in Hash \ {h} : table'[g] = table[g]
      /\ CountersAgree' /\ InBucket' /\ Untouched'
      /\ h \notin overwritten =>
           /\ Ssns(table'[h]) = Ssns(table[h]) \ {k}
           /\ \A l, c : Holds(table[h], l, c) /\ l # k => Holds(table'[h], l, c)
  BY <1>2, <1>3, HtRemoveIs, Zenon DEF IInv
<1>5. h \in Hash /\ stored \in [Key -> Data \cup {Absent}]
  BY ValueStoreAssumption DEF IInv, TypeOK
<1>6. stored' \in [Key -> Data \cup {Absent}] /\ stored'[k] = Absent /\ \A l \in Key \ {k} : stored'[l] = stored[l]
  BY <1>3, <1>5
<1>7. TypeOK'
  BY <1>3, <1>4, <1>6 DEF IInv, TypeOK, Tables, transfer
<1>8. Remembered'
  <2> SUFFICES ASSUME NEW l \in Key, hash_ssn[l] \notin overwritten
               PROVE  Keeps(table[hash_ssn[l]], l)'
    BY <1>3 DEF Remembered
  <2>1. hash_ssn[l] \in Hash
    BY ValueStoreAssumption
  <2>2. Keeps(table[hash_ssn[l]], l)
    BY <1>3 DEF IInv, Remembered
  <2>3. CASE l = k
    BY <1>4, <1>6, <2>3 DEF Keeps
  <2>4. CASE l # k
    <3>1. CASE hash_ssn[l] = h
      BY <1>4, <1>6, <2>2, <2>4, <3>1 DEF Keeps
    <3>2. CASE hash_ssn[l] # h
      BY <1>4, <1>6, <2>1, <2>2, <2>4, <3>2 DEF Keeps
    <3> QED
      BY <3>1, <3>2
  <2> QED
    BY <2>3, <2>4
<1>9. Within'
  <2> SUFFICES ASSUME NEW g \in Hash \ overwritten, g > end PROVE table'[g] = <<>>
    BY <1>3 DEF Within
  <2>1. g # h
    BY <1>3, <1>5 DEF IInv, TypeOK, Hash
  <2> QED
    BY <1>3, <1>4, <2>1 DEF IInv, Within
<1>10. Collected' /\ Removing' /\ SentSoFar' /\ CrashesOnlyOverwritten'
  BY <1>3 DEF Collected, Removing, SentSoFar, CrashesOnlyOverwritten, Transferring
<1> QED
  BY <1>4, <1>7, <1>8, <1>9, <1>10 DEF IInv

LEMMA CrashInv ==
  ASSUME IInv, Crash, pc # "remove", overwritten # {} \/ length > TransferMax
  PROVE  IInv'
<1> USE DEF Crash, ht, transfer, history
<1>1. TypeOK'
  BY DEF IInv, TypeOK
<1>2. CountersAgree'
  BY CountersStay DEF IInv
<1>3. InBucket' /\ Untouched' /\ Within' /\ Remembered'
  BY DEF IInv, InBucket, Untouched, Within, Remembered, Keeps
<1>4. Collected' /\ Removing' /\ SentSoFar' /\ CrashesOnlyOverwritten'
  BY DEF IInv, Collected, Removing, SentSoFar, CrashesOnlyOverwritten, Transferring
<1> QED
  BY <1>1, <1>2, <1>3, <1>4 DEF IInv

(* A transfer starts with the upper half or with the whole range. *)
LEMMA FirstMoved ==
  ASSUME end \in Hash
  PROVE  /\ 0 \in Hash /\ 0 <= end
         /\ LET lo == UpperStart(Start, end)
            IN  lo \in Hash /\ lo <= end + 1 /\ Mid(Start, end) \in Hash
                /\ lo = Mid(Start, end) + 1
<1>1. MaxHash \in Nat \ {0} /\ end \in Nat /\ end <= MaxHash
  BY MaxHashAssumption DEF Hash
<1>2. LET m == end \div 2
      IN  m \in Nat /\ m <= end /\ m < MaxHash /\ m % (MaxHash + 1) = m /\ (m + 1) % (MaxHash + 1) = m + 1
  <2> DEFINE m == end \div 2
  <2>1. m \in Nat /\ m <= end /\ m < MaxHash
    BY <1>1
  <2> HIDE DEF m
  <2>2. m \in 0 .. MaxHash /\ m + 1 \in 0 .. MaxHash
    BY <1>1, <2>1
  <2>3. \A i \in 0 .. MaxHash : i % (MaxHash + 1) = i
    BY <1>1
  <2>4. m % (MaxHash + 1) = m /\ (m + 1) % (MaxHash + 1) = m + 1
    BY <2>2, <2>3
  <2> QED
    BY <2>1, <2>4 DEF m
<1>3. Mid(0, end) = end \div 2 /\ UpperStart(0, end) = end \div 2 + 1
  <2> DEFINE m == end \div 2
  <2>1. m \in Nat /\ m % (MaxHash + 1) = m /\ (m + 1) % (MaxHash + 1) = m + 1
    BY <1>2
  <2>2. Half(end - 0) = m
    BY <1>1 DEF Half
  <2> HIDE DEF m
  <2>3. Mid(0, end) = m
    BY <2>1, <2>2 DEF Mid, UInt8
  <2>4. UpperStart(0, end) = m + 1
    BY <2>1, <2>3 DEF UpperStart, UInt8
  <2> QED
    BY <2>3, <2>4 DEF m
<1>4. LET lo == UpperStart(0, end)
      IN  lo \in Hash /\ lo <= end + 1 /\ Mid(0, end) \in Hash /\ lo = Mid(0, end) + 1
  <2> DEFINE m == end \div 2
  <2>1. m \in Nat /\ m <= end /\ m < MaxHash /\ Mid(0, end) = m /\ UpperStart(0, end) = m + 1
    BY <1>2, <1>3
  <2> HIDE DEF m
  <2> QED
    BY <1>1, <2>1 DEF Hash
<1>5. 0 \in Hash /\ 0 <= end
  BY <1>1 DEF Hash
<1> QED
  BY <1>4, <1>5 DEF Start

LEMMA BeginInv ==
  ASSUME IInv, pc = "idle", NEW lo \in Hash, lo <= end + 1, NEW last \in BOOLEAN, Begin(lo, last),
         end' \in Hash, last \/ lo = end' + 1
  PROVE  IInv'
<1> DEFINE keys == KeysFrom(lo)
<1>1. /\ pc' = "size" /\ batch' = keys /\ todo' = keys /\ moving' = lo /\ leaving' = last
      /\ sent' = <<>> /\ out' = <<>> /\ UNCHANGED <<ht, history>>
  BY DEF Begin
<1>2. table \in Tables /\ end \in Hash /\ InBucket
  BY DEF IInv, TypeOK, Tables
<1>3. /\ keys \in Seq(Key)
      /\ Range(keys) = UNION {Ssns(table[h]) : h \in lo .. end}
      /\ (\A h \in Hash : Clean(table[h])) => Distinct(keys)
  BY <1>2, KeysFromAre
<1> HIDE DEF keys
<1>4. TypeOK'
  BY <1>1, <1>3 DEF IInv, TypeOK, ht, history
<1>5. CountersAgree'
  BY <1>1, CountersStay DEF IInv
<1>6. InBucket' /\ Untouched' /\ Within' /\ Remembered'
  BY <1>1 DEF IInv, InBucket, Untouched, Within, Remembered, Keeps, ht, history
<1>7. lo .. end \subseteq Hash
  BY <1>2, MaxHashAssumption DEF Hash
<1>8. ASSUME NEW h \in Hash, NEW k \in Ssns(table[h]) PROVE hash_ssn[k] = h
  BY <1>2 DEF InBucket, InOne, Ssns
<1>9. ASSUME NEW k \in Range(keys)
      PROVE  hash_ssn[k] >= lo /\ k \in Ssns(table[hash_ssn[k]])
  <2>1. PICK h \in lo .. end : k \in Ssns(table[h])
    BY <1>3
  <2>2. hash_ssn[k] = h
    BY <1>7, <1>8, <2>1
  <2> QED
    BY <1>2, <2>1, <2>2 DEF Hash
<1>10. ASSUME NEW k \in Key, hash_ssn[k] \notin overwritten, hash_ssn[k] >= lo,
              k \in Ssns(table[hash_ssn[k]])
       PROVE  k \in Range(keys)
  <2> DEFINE h == hash_ssn[k]
  <2>1. h \in Hash
    BY ValueStoreAssumption
  <2>2. CASE h > end
    <3>1. table[h] = <<>>
      BY <1>10, <2>1, <2>2 DEF IInv, Within
    <3> QED
      BY <1>10, <3>1 DEF Ssns
  <2>3. CASE ~(h > end)
    <3>1. h \in lo .. end
      BY <1>2, <1>10, <2>1, <2>3 DEF Hash
    <3> QED
      BY <1>3, <1>10, <3>1
  <2> QED
    BY <2>2, <2>3
<1>11. Collected'
  <2>1. Range(keys) \subseteq Key
    BY <1>3 DEF Range
  <2> QED
    BY <1>1, <1>9, <1>10, <2>1 DEF Collected, Transferring, ht, history
<1>12. ASSUME overwritten = {}
       PROVE  /\ Distinct(keys)
              /\ Range(keys) = {k \in Key : hash_ssn[k] >= lo /\ stored[k] # Absent}
  <2>1. \A h \in Hash : Clean(table[h])
    BY <1>12 DEF IInv, Untouched
  <2>2. \A k \in Key : Keeps(table[hash_ssn[k]], k)
    BY <1>12 DEF IInv, Remembered
  <2>3. \A k \in Key : stored[k] # Absent <=> k \in Ssns(table[hash_ssn[k]])
    <3>1. ASSUME NEW b, NEW k, NEW d, Holds(b, k, d) PROVE k \in Ssns(b)
      BY <3>1, HeldIsThere
    <3> QED
      BY <2>2, <3>1 DEF Keeps
  <2>4. Range(keys) \subseteq Key
    BY <1>3 DEF Range
  <2>5. \A k \in Key : k \in Range(keys) <=> hash_ssn[k] >= lo /\ stored[k] # Absent
    BY <1>9, <1>10, <1>12, <2>3
  <2> QED
    BY <1>3, <2>1, <2>4, <2>5
<1>13. SentSoFar'
  <2> SUFFICES ASSUME overwritten = {} PROVE SentSoFar'
    BY <1>1 DEF SentSoFar, history
  <2>1. GivenKeys' = {k \in Key : hash_ssn[k] >= lo /\ stored[k] # Absent}
    BY <1>1 DEF GivenKeys, history
  <2> QED
    BY <1>1, <1>12, <2>1 DEF SentSoFar
<1>14. Removing' /\ CrashesOnlyOverwritten'
  BY <1>1 DEF Removing, CrashesOnlyOverwritten
<1> QED
  BY <1>4, <1>5, <1>6, <1>11, <1>13, <1>14 DEF IInv

LEMMA OverrunInv ==
  ASSUME IInv, pc = "idle", NEW lo \in Hash, lo <= end + 1, Overruns(lo), Crash
  PROVE  IInv'
<1>1. table \in Tables /\ end \in Hash /\ length = Load(table) /\ TransferMax \in Nat
  BY CountersAre, ValueStoreAssumption DEF IInv, TypeOK, Tables
<1>2. KeysFrom(lo) \in Seq(Key) /\ Len(KeysFrom(lo)) <= Load(table)
  BY <1>1, KeysFromAre
<1>3. Load(table) \in Nat /\ Len(KeysFrom(lo)) \in Nat
  BY <1>1, <1>2, CountsAreNat
<1>4. length > TransferMax
  BY <1>1, <1>2, <1>3 DEF Overruns
<1> QED
  BY <1>4, CrashInv

LEMMA UpperHalfInv ==
  ASSUME IInv, transfer_upper_half
  PROVE  IInv'
<1> DEFINE lo == UpperStart(Start, end)
<1>1. pc = "idle" /\ IF Overruns(lo) THEN Crash ELSE Begin(lo, FALSE)
  BY DEF transfer_upper_half
<1>2. lo \in Hash /\ lo <= end + 1 /\ Mid(Start, end) \in Hash /\ lo = Mid(Start, end) + 1
  BY FirstMoved DEF IInv, TypeOK
<1> HIDE DEF lo
<1>3. CASE Overruns(lo)
  BY <1>1, <1>2, <1>3, OverrunInv
<1>4. CASE ~Overruns(lo)
  <2>1. Begin(lo, FALSE) /\ end' = Mid(Start, end)
    BY <1>1, <1>4 DEF Begin
  <2> QED
    BY <1>1, <1>2, <2>1, BeginInv
<1> QED
  BY <1>3, <1>4

LEMMA AllEntriesInv ==
  ASSUME IInv, transfer_all_entries
  PROVE  IInv'
<1>1. pc = "idle" /\ IF Overruns(Start) THEN Crash ELSE Begin(Start, TRUE)
  BY DEF transfer_all_entries
<1>2. Start \in Hash /\ Start <= end + 1 /\ end \in Hash
  BY FirstMoved, MaxHashAssumption DEF Hash, IInv, TypeOK, Start
<1>3. CASE Overruns(Start)
  BY <1>1, <1>2, <1>3, OverrunInv
<1>4. CASE ~Overruns(Start)
  <2>1. Begin(Start, TRUE) /\ end' = end
    BY <1>1, <1>4 DEF Begin
  <2> QED
    BY <1>1, <1>2, <2>1, BeginInv
<1> QED
  BY <1>3, <1>4

(* The key a pass visits is one of the batch; ht_lookup finds it. *)
LEMMA VisitedIs ==
  ASSUME IInv, Transferring, todo # <<>>
  PROVE  /\ Visited \in Key /\ Visited = todo[1] /\ Visited \in Range(batch)
         /\ hash_ssn[Visited] \in Hash /\ hash_ssn[Visited] >= moving
         /\ Tail(todo) \in Seq(Key) /\ Range(todo) = {Visited} \cup Range(Tail(todo))
         /\ Len(Tail(todo)) = Len(todo) - 1
         /\ \A i \in DOMAIN Tail(todo) : i + 1 \in DOMAIN todo /\ Tail(todo)[i] = todo[i + 1]
<1>1. todo \in Seq(Key) /\ Range(todo) \subseteq Range(batch)
  BY DEF IInv, TypeOK, Collected
<1>2. 1 \in DOMAIN todo /\ Visited = todo[1] /\ Visited \in Key
  BY <1>1 DEF Visited
<1>3. /\ Tail(todo) \in Seq(Key) /\ Len(Tail(todo)) = Len(todo) - 1
      /\ DOMAIN todo = 1 .. Len(todo) /\ DOMAIN Tail(todo) = 1 .. Len(todo) - 1
      /\ Len(todo) \in Nat
  BY <1>1
<1>4. \A i \in DOMAIN Tail(todo) : i + 1 \in DOMAIN todo /\ Tail(todo)[i] = todo[i + 1]
  BY <1>1, <1>3
<1>5. Range(todo) = {Visited} \cup Range(Tail(todo))
  <2>1. ASSUME NEW i \in DOMAIN todo, i # 1 PROVE todo[i] \in Range(Tail(todo))
    <3>1. i - 1 \in DOMAIN Tail(todo) /\ (i - 1) + 1 = i
      BY <1>3, <2>1
    <3> QED
      BY <1>4, <3>1 DEF Range
  <2>2. Range(todo) \subseteq {Visited} \cup Range(Tail(todo))
    BY <1>2, <2>1 DEF Range
  <2>3. {Visited} \cup Range(Tail(todo)) \subseteq Range(todo)
    BY <1>2, <1>4 DEF Range
  <2> QED
    BY <2>2, <2>3
<1>6. Visited \in Range(batch)
  BY <1>1, <1>5
<1>7. hash_ssn[Visited] \in Hash /\ hash_ssn[Visited] >= moving
  BY <1>2, <1>6, ValueStoreAssumption DEF IInv, Collected
<1> QED
  BY <1>2, <1>3, <1>4, <1>5, <1>6, <1>7

LEMMA VisitedFound ==
  ASSUME IInv, pc \in {"size", "send"}, todo # <<>>, NEW chance \in Chances(Visited)
  PROVE  LET b == table[hash_ssn[Visited]]
             p == Position(b, Visited, chance)
         IN  /\ p = 0 => overwritten # {}
             /\ p # 0 => p \in DOMAIN b /\ b[p].entry \in Entry
             /\ overwritten = {} => b[p].entry = [ssn |-> Visited, data |-> stored[Visited]]
<1> DEFINE h == hash_ssn[Visited]
           b == table[h]
           p == Position(b, Visited, chance)
<1>1. Visited \in Key /\ Visited \in Range(batch) /\ h \in Hash
  BY VisitedIs DEF Transferring
<1>2. b \in Seq(ChainNode) /\ InOne(b, h) /\ chance \in SUBSET Dangling(b)
  BY <1>1, BucketIs DEF IInv, Chances
<1>3. p # 0 => p \in DOMAIN b
  BY <1>2, PositionIs
<1>4. h \notin overwritten => Visited \in Ssns(b) /\ Clean(b) /\ Keeps(b, Visited)
  BY <1>1 DEF IInv, Collected, Untouched, Remembered
<1>5. h \notin overwritten => p # 0 /\ b[p].entry.ssn = Visited
  BY <1>1, <1>2, <1>4, CleanFinds
<1> HIDE DEF p, b, h
<1>6. p # 0 => b[p].entry \in Entry
  BY <1>2, <1>3, NodeType
<1>7. ASSUME overwritten = {}
      PROVE  b[p].entry = [ssn |-> Visited, data |-> stored[Visited]]
  <2>1. Holds(b, Visited, stored[Visited]) /\ Clean(b)
    BY <1>4, <1>7 DEF Keeps
  <2>2. PICK i \in DOMAIN b : b[i].entry = [ssn |-> Visited, data |-> stored[Visited]]
    BY <2>1 DEF Holds
  <2>3. p \in DOMAIN b /\ b[p].entry.ssn = b[i].entry.ssn
    BY <1>3, <1>5, <1>7, <2>2
  <2>4. i = p
    BY <2>1, <2>3 DEF Clean
  <2> QED
    BY <2>2, <2>4
<1>8. p = 0 => overwritten # {}
  BY <1>5
<1> QED
  BY <1>3, <1>6, <1>7, <1>8 DEF p, b, h

(* The pass that adds up the sizes, and in part the one that sends. *)
LEMMA AdvanceInv ==
  ASSUME IInv, pc \in {"size", "send"}, todo # <<>>, todo' = Tail(todo),
         UNCHANGED <<end, ht, pc, batch, moving, leaving, out, history>>,
         sent' \in Seq(Entry), SentSoFar'
  PROVE  IInv'
<1> USE DEF ht, history
<1>1. Tail(todo) \in Seq(Key) /\ Range(Tail(todo)) \subseteq Range(todo)
  BY VisitedIs DEF Transferring
<1>2. TypeOK'
  BY <1>1 DEF IInv, TypeOK
<1>3. CountersAgree'
  BY CountersStay DEF IInv
<1>4. InBucket' /\ Untouched' /\ Within' /\ Remembered'
  BY DEF IInv, InBucket, Untouched, Within, Remembered, Keeps
<1>5. Collected'
  BY <1>1 DEF IInv, Collected, Transferring
<1>6. Removing' /\ CrashesOnlyOverwritten'
  BY DEF IInv, Removing, CrashesOnlyOverwritten
<1> QED
  BY <1>2, <1>3, <1>4, <1>5, <1>6 DEF IInv

LEMMA VisitSizeInv ==
  ASSUME IInv, VisitSize
  PROVE  IInv'
<1>1. pc = "size" /\ todo # <<>>
  BY DEF VisitSize
<1>2. PICK chance \in Chances(Visited) :
        IF Position(table[hash_ssn[Visited]], Visited, chance) = 0 THEN Crash
        ELSE /\ todo' = Tail(todo)
             /\ UNCHANGED <<end, ht, pc, batch, moving, leaving, sent, out, history>>
  BY DEF VisitSize
<1> DEFINE p == Position(table[hash_ssn[Visited]], Visited, chance)
<1>3. p = 0 => overwritten # {}
  BY <1>1, VisitedFound
<1>4. CASE p = 0
  BY <1>1, <1>2, <1>3, <1>4, CrashInv
<1>5. CASE p # 0
  <2> HIDE DEF p
  <2>1. /\ todo' = Tail(todo)
        /\ UNCHANGED <<end, ht, pc, batch, moving, leaving, sent, out, history>>
    BY <1>2, <1>5 DEF p
  <2>2. SentSoFar'
    BY <1>1, <2>1 DEF IInv, SentSoFar, Transferring, GivenKeys, history
  <2>3. sent' \in Seq(Entry)
    BY <2>1 DEF IInv, TypeOK
  <2> QED
    BY <1>1, <2>1, <2>2, <2>3, AdvanceInv
<1> QED
  BY <1>4, <1>5

LEMMA VisitSendInv ==
  ASSUME IInv, VisitSend
  PROVE  IInv'
<1> DEFINE b == table[hash_ssn[Visited]]
<1>1. pc = "send" /\ todo # <<>>
  BY DEF VisitSend
<1>2. PICK chance \in Chances(Visited) :
        IF Position(b, Visited, chance) = 0 THEN Crash
        ELSE /\ sent' = Append(sent, b[Position(b, Visited, chance)].entry) /\ todo' = Tail(todo)
             /\ UNCHANGED <<end, ht, pc, batch, moving, leaving, out, history>>
  BY DEF VisitSend
<1> DEFINE p == Position(b, Visited, chance)
<1>3. /\ p = 0 => overwritten # {}
      /\ p # 0 => b[p].entry \in Entry
      /\ overwritten = {} => b[p].entry = [ssn |-> Visited, data |-> stored[Visited]]
  BY <1>1, VisitedFound
<1>4. CASE p = 0
  BY <1>1, <1>2, <1>3, <1>4, CrashInv
<1>5. CASE p # 0
  <2> DEFINE e == b[p].entry
  <2>1. /\ sent' = Append(sent, e) /\ todo' = Tail(todo)
        /\ UNCHANGED <<end, ht, pc, batch, moving, leaving, out, history>>
    BY <1>2, <1>5
  <2>2. e \in Entry /\ (overwritten = {} => e = [ssn |-> Visited, data |-> stored[Visited]])
    BY <1>3, <1>5
  <2> HIDE DEF p, b, e
  <2>3. sent \in Seq(Entry) /\ sent' \in Seq(Entry)
    BY <2>1, <2>2 DEF IInv, TypeOK
  <2>4. SentSoFar'
    <3> SUFFICES ASSUME overwritten = {} PROVE SentSoFar'
      BY <2>1 DEF SentSoFar, history
    <3>1. /\ Distinct(batch) /\ Range(batch) = GivenKeys
          /\ \A i \in DOMAIN sent : sent[i] = [ssn |-> batch[i], data |-> stored[batch[i]]]
          /\ Len(sent) + Len(todo) = Len(batch)
          /\ \A i \in DOMAIN todo : todo[i] = batch[Len(sent) + i]
      BY <1>1 DEF IInv, SentSoFar, Transferring
    <3>2. /\ Visited = todo[1] /\ 1 \in DOMAIN todo /\ Len(Tail(todo)) = Len(todo) - 1
          /\ \A i \in DOMAIN Tail(todo) : i + 1 \in DOMAIN todo /\ Tail(todo)[i] = todo[i + 1]
      <4>1. todo \in Seq(Key)
        BY DEF IInv, TypeOK
      <4>2. 1 \in DOMAIN todo
        BY <1>1, <4>1
      <4> QED
        BY <1>1, <4>2, VisitedIs DEF Transferring
    <3>3. Len(sent) \in Nat /\ Len(todo) \in Nat /\ Len(batch) \in Nat /\ Len(sent') = Len(sent) + 1
      BY <2>1, <2>2, <2>3 DEF IInv, TypeOK
    <3>4. e = [ssn |-> batch[Len(sent) + 1], data |-> stored[batch[Len(sent) + 1]]]
      BY <2>2, <3>1, <3>2
    <3>5. \A i \in DOMAIN sent' : (i \in DOMAIN sent /\ sent'[i] = sent[i])
                                  \/ (i = Len(sent) + 1 /\ sent'[i] = e)
      BY <2>1, <2>2, <2>3
    <3>6. \A i \in DOMAIN sent' : sent'[i] = [ssn |-> batch[i], data |-> stored[batch[i]]]
      BY <3>1, <3>4, <3>5
    <3>7. Len(sent') + Len(todo') = Len(batch)
      <4>1. Len(todo') = Len(todo) - 1
        BY <2>1, <3>2
      <4> QED
        BY <3>1, <3>3, <4>1
    <3>8. ASSUME NEW i \in DOMAIN todo' PROVE todo'[i] = batch[Len(sent') + i]
      <4>1. i + 1 \in DOMAIN todo /\ todo'[i] = batch[Len(sent) + (i + 1)]
        BY <2>1, <3>1, <3>2
      <4>2. i \in Nat
        <5>1. todo \in Seq(Key)
          BY DEF IInv, TypeOK
        <5>2. Tail(todo) \in Seq(Key)
          BY <1>1, <5>1
        <5> QED
          BY <2>1, <5>2
      <4>3. Len(sent) + (i + 1) = Len(sent') + i
        BY <3>3, <4>2
      <4> QED
        BY <4>1, <4>3
    <3>9. GivenKeys' = GivenKeys
      BY <2>1 DEF GivenKeys, history
    <3> QED
      BY <1>1, <2>1, <3>1, <3>6, <3>7, <3>8, <3>9 DEF SentSoFar, history
  <2> QED
    BY <1>1, <2>1, <2>3, <2>4, AdvanceInv
<1> QED
  BY <1>4, <1>5

LEMMA VisitRemoveInv ==
  ASSUME IInv, VisitRemove
  PROVE  IInv'
<1> DEFINE k == Visited
           h == hash_ssn[k]
<1>1. /\ pc = "remove" /\ todo # <<>> /\ todo' = Tail(todo)
      /\ UNCHANGED <<end, pc, batch, moving, leaving, sent, out, history>>
  BY DEF VisitRemove
<1>2. PICK chance \in Chances(k) : HtRemove(k, chance)
  BY DEF VisitRemove
<1>3. /\ k \in Key /\ h \in Hash /\ h >= moving
      /\ Tail(todo) \in Seq(Key) /\ Range(todo) = {k} \cup Range(Tail(todo))
  BY <1>1, VisitedIs DEF Transferring
<1> HIDE DEF k
<1>4. /\ table' \in Tables /\ length' \in Nat /\ num_entries' \in Nat
      /\ \A g \in Hash \ {h} : table'[g] = table[g]
      /\ CountersAgree' /\ InBucket' /\ Untouched'
      /\ h \notin overwritten =>
           /\ Ssns(table'[h]) = Ssns(table[h]) \ {k}
           /\ \A l, c : Holds(table[h], l, c) /\ l # k => Holds(table'[h], l, c)
  <2>1. UNCHANGED overwritten
    BY <1>1 DEF history
  <2> QED
    BY <1>2, <1>3, <2>1, HtRemoveIs, Zenon DEF IInv
<1>5. TypeOK'
  BY <1>1, <1>3, <1>4 DEF IInv, TypeOK, Tables, history
<1>6. Remembered'
  <2> SUFFICES ASSUME NEW l \in Key, hash_ssn[l] \notin overwritten, hash_ssn[l] < moving
               PROVE  Keeps(table[hash_ssn[l]], l)'
    BY <1>1 DEF Remembered, history
  <2>1. hash_ssn[l] \in Hash
    BY ValueStoreAssumption
  <2>2. Keeps(table[hash_ssn[l]], l)
    BY <1>1 DEF IInv, Remembered
  <2>3. hash_ssn[l] # h
    BY <1>3, <2>1 DEF IInv, TypeOK, Hash
  <2> QED
    BY <1>1, <1>4, <2>1, <2>2, <2>3 DEF Keeps, history
<1>7. Removing'
  <2> SUFFICES ASSUME NEW l \in Key, hash_ssn[l] \notin overwritten, hash_ssn[l] >= moving,
                      l \in Ssns(table'[hash_ssn[l]])
               PROVE  l \in Range(Tail(todo))
    BY <1>1 DEF Removing, history
  <2>1. hash_ssn[l] \in Hash
    BY ValueStoreAssumption
  <2>2. l \in Ssns(table[hash_ssn[l]]) /\ l # k
    <3>1. CASE hash_ssn[l] = h
      BY <1>4, <3>1
    <3>2. CASE hash_ssn[l] # h
      BY <1>4, <2>1, <3>2
    <3> QED
      BY <3>1, <3>2
  <2>3. l \in Range(todo)
    BY <1>1, <2>2 DEF IInv, Removing
  <2> QED
    BY <1>3, <2>2, <2>3
<1>8. Collected'
  BY <1>1, <1>3 DEF IInv, Collected, Transferring, history
<1>9. SentSoFar'
  BY <1>1 DEF IInv, SentSoFar, Transferring, GivenKeys, history
<1>10. Within' /\ CrashesOnlyOverwritten'
  BY <1>1 DEF Within, CrashesOnlyOverwritten
<1> QED
  BY <1>4, <1>5, <1>6, <1>7, <1>8, <1>9, <1>10 DEF IInv

LEMMA NextPassInv ==
  ASSUME IInv, NextPass
  PROVE  IInv'
<1>1. /\ pc \in {"size", "send"} /\ todo = <<>> /\ todo' = batch
      /\ pc' = IF pc = "size" THEN "send" ELSE "remove"
      /\ UNCHANGED <<end, ht, batch, moving, leaving, sent, out, history>>
  BY DEF NextPass
<1> USE DEF ht, history
<1>2. TypeOK'
  BY <1>1 DEF IInv, TypeOK
<1>3. CountersAgree'
  BY <1>1, CountersStay DEF IInv
<1>4. InBucket' /\ Untouched' /\ Within'
  BY <1>1 DEF IInv, InBucket, Untouched, Within
<1>5. Remembered'
  BY <1>1 DEF IInv, Remembered, Keeps
<1>6. Collected'
  BY <1>1 DEF IInv, Collected, Transferring
<1>7. Removing'
  BY <1>1 DEF IInv, Removing, Collected
<1>8. SentSoFar'
  <2> SUFFICES ASSUME overwritten = {} PROVE SentSoFar'
    BY <1>1 DEF SentSoFar
  <2>1. /\ Distinct(batch) /\ Range(batch) = GivenKeys
        /\ \A i \in DOMAIN sent : sent[i] = [ssn |-> batch[i], data |-> stored[batch[i]]]
        /\ pc = "size" => sent = <<>>
        /\ pc = "send" => Len(sent) + Len(todo) = Len(batch)
    BY <1>1 DEF IInv, SentSoFar, Transferring
  <2>2. GivenKeys' = GivenKeys
    BY <1>1 DEF GivenKeys
  <2>3. Len(batch) \in Nat /\ Len(sent) \in Nat /\ \A i \in DOMAIN batch : i \in Nat
    BY DEF IInv, TypeOK
  <2>4. CASE pc = "size"
    <3>1. sent = <<>> /\ Len(sent) = 0 /\ pc' = "send"
      BY <1>1, <2>1, <2>4
    <3>2. 0 + Len(batch) = Len(batch) /\ \A i \in DOMAIN batch : 0 + i = i
      BY <2>3
    <3> QED
      BY <1>1, <2>1, <2>2, <3>1, <3>2 DEF SentSoFar
  <2>5. CASE pc = "send"
    <3>1. Len(todo) = 0 /\ pc' = "remove"
      BY <1>1, <2>5
    <3>2. Len(sent) = Len(batch)
      BY <2>1, <2>3, <2>5, <3>1
    <3> QED
      BY <1>1, <2>1, <2>2, <3>1, <3>2 DEF SentSoFar
  <2> QED
    BY <1>1, <2>4, <2>5
<1>9. CrashesOnlyOverwritten'
  BY <1>1 DEF CrashesOnlyOverwritten
<1> QED
  BY <1>2, <1>3, <1>4, <1>5, <1>6, <1>7, <1>8, <1>9 DEF IInv

LEMMA EndTransferInv ==
  ASSUME IInv, EndTransfer
  PROVE  IInv'
<1>1. /\ pc = "remove" /\ todo = <<>>
      /\ pc' = IF leaving THEN "destroy" ELSE "idle"
      /\ stored' = [k \in Key |-> IF hash_ssn[k] >= moving THEN Absent ELSE stored[k]]
      /\ batch' = <<>> /\ sent' = <<>>
      /\ UNCHANGED <<end, ht, todo, moving, leaving, out, overwritten>>
  BY DEF EndTransfer
<1> USE DEF ht
<1>2. TypeOK'
  BY <1>1 DEF IInv, TypeOK
<1>3. CountersAgree'
  BY <1>1, CountersStay DEF IInv
<1>4. InBucket' /\ Untouched'
  BY <1>1 DEF IInv, InBucket, Untouched
<1>5. ASSUME NEW k \in Key, hash_ssn[k] \notin overwritten, hash_ssn[k] >= moving
      PROVE  k \notin Ssns(table[hash_ssn[k]])
  <2>1. k \notin Range(todo)
    BY <1>1 DEF Range
  <2> QED
    BY <1>1, <1>5, <2>1 DEF IInv, Removing
<1>6. Remembered'
  <2> SUFFICES ASSUME NEW k \in Key, hash_ssn[k] \notin overwritten
               PROVE  Keeps(table[hash_ssn[k]], k)'
    BY <1>1 DEF Remembered
  <2>1. stored'[k] = IF hash_ssn[k] >= moving THEN Absent ELSE stored[k]
    BY <1>1
  <2>2. CASE hash_ssn[k] >= moving
    BY <1>1, <1>5, <2>1, <2>2 DEF Keeps
  <2>3. CASE ~(hash_ssn[k] >= moving)
    <3>1. hash_ssn[k] < moving
      BY <2>3, ValueStoreAssumption DEF IInv, TypeOK, Hash
    <3>2. Keeps(table[hash_ssn[k]], k)
      BY <3>1 DEF IInv, Remembered
    <3> QED
      BY <1>1, <2>1, <2>3, <3>2 DEF Keeps
  <2> QED
    BY <2>2, <2>3
<1>7. Within'
  <2> SUFFICES ASSUME ~leaving, NEW h \in Hash \ overwritten, h > end PROVE table[h] = <<>>
    BY <1>1 DEF Within
  <2>1. moving = end + 1
    BY <1>1 DEF IInv, Collected, Transferring
  <2>2. h >= moving
    BY <2>1 DEF IInv, TypeOK, Hash
  <2>3. table[h] \in Seq(ChainNode)
    BY DEF IInv, TypeOK
  <2>4. CASE table[h] # <<>>
    <3>1. 1 \in DOMAIN table[h]
      BY <2>3, <2>4
    <3>2. table[h][1].entry.ssn \in Key /\ hash_ssn[table[h][1].entry.ssn] = h
      BY <2>3, <3>1, NodeType DEF IInv, InBucket, InOne
    <3>3. table[h][1].entry.ssn \in Ssns(table[h])
      BY <3>1 DEF Ssns
    <3> QED
      BY <1>5, <2>2, <3>2, <3>3
  <2> QED
    BY <2>4
<1>8. Collected' /\ Removing' /\ SentSoFar' /\ CrashesOnlyOverwritten'
  BY <1>1 DEF Collected, Removing, SentSoFar, CrashesOnlyOverwritten, Transferring
<1> QED
  BY <1>2, <1>3, <1>4, <1>6, <1>7, <1>8 DEF IInv

LEMMA DestroyInv ==
  ASSUME IInv, ht_destroy
  PROVE  IInv'
<1>1. pc \in {"idle", "destroy"}
  BY DEF ht_destroy
<1>2. PICK found \in SUBSET {h \in Hash : Dangling(table[h]) # {}} :
        IF \A h \in Hash : Dangling(table[h]) = {} \/ h \in found
          THEN /\ pc' = "exited"
               /\ table' = [h \in Hash |-> <<>>] /\ length' = 0 /\ num_entries' = 0
               /\ stored' = [k \in Key |-> Absent] /\ out' = <<>>
               /\ UNCHANGED <<end, transfer, overwritten>>
          ELSE Crash
  BY DEF ht_destroy
<1>3. CASE \A h \in Hash : Dangling(table[h]) = {} \/ h \in found
  <2>1. /\ pc' = "exited"
        /\ table' = [h \in Hash |-> <<>>] /\ length' = 0 /\ num_entries' = 0
        /\ stored' = [k \in Key |-> Absent] /\ out' = <<>>
        /\ UNCHANGED <<end, transfer, overwritten>>
    BY <1>2, <1>3
  <2>2. table' \in Tables /\ \A h \in Hash : table'[h] = <<>> /\ DOMAIN table'[h] = {}
    BY <2>1 DEF Tables
  <2>3. TypeOK'
    BY <2>1, <2>2 DEF IInv, TypeOK, Tables, transfer
  <2>4. CountersAgree'
    <3>1. Used(table') = {}
      BY <2>2 DEF Used
    <3> QED
      BY <2>1, <3>1, LoadNothing, FS_EmptySet, CountersWillAgree
  <2>5. InBucket' /\ Untouched' /\ Within'
    BY <2>1, <2>2 DEF InBucket, InOne, Untouched, Clean, Within
  <2>6. Remembered'
    BY <2>1, <2>2, ValueStoreAssumption DEF Remembered, Keeps, Ssns
  <2>7. Collected' /\ Removing' /\ SentSoFar' /\ CrashesOnlyOverwritten'
    BY <2>1 DEF Collected, Removing, SentSoFar, CrashesOnlyOverwritten, Transferring
  <2> QED
    BY <2>3, <2>4, <2>5, <2>6, <2>7 DEF IInv
<1>4. CASE ~\A h \in Hash : Dangling(table[h]) = {} \/ h \in found
  <2>1. PICK h \in Hash : Dangling(table[h]) # {}
    BY <1>4
  <2>2. h \in overwritten
    BY <2>1 DEF IInv, Untouched, Clean, Dangling
  <2>3. overwritten # {}
    BY <2>2
  <2> QED
    BY <1>1, <1>2, <1>4, <2>3, CrashInv
<1> QED
  BY <1>3, <1>4

LEMMA StepInv ==
  ASSUME IInv, [Next]_vars
  PROVE  IInv'
<1>1. CASE q9_state
  <2>1. PICK k \in Key :
          \/ \E type \in {"VAL_INSERT", "VAL_REMOVE", "VAL_LOOKUP"} : Forward(type, k)
          \/ \E d \in Data : insertion_of_value(k, d)
          \/ remove_value(k)
          \/ lookup_value(k)
    BY <1>1 DEF q9_state
  <2> QED
    BY <2>1, ForwardInv, InsertionInv, RemoveInv, LookupInv
<1>2. CASE transfer_upper_half
  BY <1>2, UpperHalfInv
<1>3. CASE transfer_all_entries
  BY <1>3, AllEntriesInv
<1>4. CASE VisitSize
  BY <1>4, VisitSizeInv
<1>5. CASE VisitSend
  BY <1>5, VisitSendInv
<1>6. CASE VisitRemove
  BY <1>6, VisitRemoveInv
<1>7. CASE NextPass
  BY <1>7, NextPassInv
<1>8. CASE EndTransfer
  BY <1>8, EndTransferInv
<1>9. CASE ht_destroy
  BY <1>9, DestroyInv
<1>10. CASE UNCHANGED vars
  <2>1. UNCHANGED <<end, ht, pc, transfer, history>> /\ out' = out
    BY <1>10 DEF vars
  <2>2. out' \in OutTypes
    BY <2>1 DEF IInv, TypeOK, OutTypes
  <2> QED
    BY <2>1, <2>2, OnlyOutInv
<1> QED
  BY <1>1, <1>2, <1>3, <1>4, <1>5, <1>6, <1>7, <1>8, <1>9, <1>10 DEF Next

LEMMA Invariance == Spec => []IInv
BY InitInv, StepInv, PTL DEF Spec
-----------------------------------------------------------------------------
(* What the invariant says of lookups and transfers.                        *)

LEMMA LookupFromInv ==
  ASSUME IInv
  PROVE  LookupIsRight
<1> SUFFICES ASSUME pc = "idle", NEW k \in Key, hash_ssn[k] \notin overwritten
             PROVE  LET b == table[hash_ssn[k]]
                        p == Position(b, k, {})
                    IN  IF stored[k] = Absent THEN p = 0
                        ELSE p # 0 /\ b[p].entry = [ssn |-> k, data |-> stored[k]]
  BY DEF LookupIsRight
<1> DEFINE b == table[hash_ssn[k]]
           p == Position(b, k, {})
<1>1. /\ hash_ssn[k] \in Hash /\ b \in Seq(ChainNode) /\ InOne(b, hash_ssn[k])
  BY BucketIs DEF IInv
<1>2. Clean(b) /\ Keeps(b, k)
  BY <1>1 DEF IInv, Untouched, Remembered
<1>3. (p = 0 <=> k \notin Ssns(b)) /\ (p # 0 => p \in DOMAIN b /\ b[p].entry.ssn = k)
  BY <1>1, <1>2, CleanFinds
<1> HIDE DEF b, p
<1>4. CASE stored[k] = Absent
  <2>1. p = 0
    BY <1>2, <1>3, <1>4 DEF Keeps
  <2> QED
    BY <1>4, <2>1 DEF b, p
<1>5. CASE stored[k] # Absent
  <2>1. Holds(b, k, stored[k])
    BY <1>2, <1>5 DEF Keeps
  <2>2. PICK i \in DOMAIN b : b[i].entry = [ssn |-> k, data |-> stored[k]]
    BY <2>1 DEF Holds
  <2>3. p \in DOMAIN b /\ p # 0 /\ b[p].entry.ssn = b[i].entry.ssn
    BY <1>3, <2>1, <2>2, HeldIsThere
  <2>4. i = p
    BY <1>2, <2>3 DEF Clean
  <2>5. p # 0 /\ b[p].entry = [ssn |-> k, data |-> stored[k]]
    BY <2>2, <2>3, <2>4
  <2> QED
    BY <1>5, <2>5 DEF b, p
<1> QED
  BY <1>4, <1>5

(* A sequence that runs once through a set is one of its orders.            *)
LEMMA OrderOf ==
  ASSUME NEW S, NEW s \in Seq(S), Distinct(s), Range(s) = S
  PROVE  s \in SetToSeqs(S)
<1> DEFINE n == Len(s)
<1>1. n \in Nat /\ DOMAIN s = 1 .. n /\ s \in [1 .. n -> S]
  OBVIOUS
<1>2. s \in Bijection(1 .. n, S)
  <2>1. \A x \in S : \E i \in 1 .. n : s[i] = x
    BY <1>1 DEF Range
  <2> QED
    BY <1>1, <2>1 DEF Bijection, Injection, Surjection, IsInjective, Distinct
<1>3. ExistsBijection(1 .. n, S)
  BY <1>2 DEF ExistsBijection
<1> HIDE DEF n
<1>4. Cardinality(S) = n
  BY <1>1, <1>3, FS_CountingElements
<1> QED
  BY <1>1, <1>4 DEF SetToSeqs, Distinct

LEMMA TransferFromInv ==
  ASSUME IInv
  PROVE  TransferIsComplete
<1> SUFFICES ASSUME pc = "remove", overwritten = {} PROVE sent \in SetToSeqs(Given)
  BY DEF TransferIsComplete
<1>1. /\ Distinct(batch) /\ Range(batch) = GivenKeys
      /\ \A i \in DOMAIN sent : sent[i] = [ssn |-> batch[i], data |-> stored[batch[i]]]
      /\ Len(sent) = Len(batch)
  BY DEF IInv, SentSoFar, Transferring
<1>2. /\ batch \in Seq(Key) /\ sent \in Seq(Entry)
      /\ DOMAIN sent = 1 .. Len(sent) /\ DOMAIN batch = 1 .. Len(batch)
  BY DEF IInv, TypeOK
<1>3. Given = {[ssn |-> k, data |-> stored[k]] : k \in GivenKeys}
  BY DEF Given, GivenKeys
<1>4. \A i \in DOMAIN sent : batch[i] \in GivenKeys /\ sent[i] \in Given
  BY <1>1, <1>2, <1>3 DEF Range
<1>5. Distinct(sent)
  <2>1. \A i \in DOMAIN sent : sent[i].ssn = batch[i]
    BY <1>1
  <2> QED
    BY <1>1, <1>2, <2>1 DEF Distinct
<1>6. ASSUME NEW e \in Given PROVE e \in Range(sent)
  <2>1. PICK k \in GivenKeys : e = [ssn |-> k, data |-> stored[k]]
    BY <1>3
  <2>2. PICK i \in DOMAIN batch : batch[i] = k
    BY <1>1, <2>1 DEF Range
  <2>3. i \in DOMAIN sent /\ sent[i] = e
    BY <1>1, <1>2, <2>1, <2>2
  <2> QED
    BY <2>3 DEF Range
<1>7. Range(sent) = Given
  BY <1>4, <1>6 DEF Range
<1>8. sent \in Seq(Given)
  BY <1>2, <1>4
<1> QED
  BY <1>5, <1>7, <1>8, OrderOf
-----------------------------------------------------------------------------
(* The theorems. *)

(* Whatever is inserted, looked up, removed and given away, and in any      *)
(* order, the state of the node keeps its types.                            *)
THEOREM ValuesTyped == Spec => []TypeOK
<1>1. IInv => TypeOK
  BY DEF IInv
<1> QED
  BY <1>1, Invariance, PTL

(* ht->length counts the chain nodes and ht->num_entries the buckets in     *)
(* use, after every ht_insert, ht_remove and ht_destroy, also when keys     *)
(* were overwritten.                                                        *)
THEOREM CountersAlwaysAgree == Spec => []CountersAgree
<1>1. IInv => CountersAgree
  BY DEF IInv
<1> QED
  BY <1>1, Invariance, PTL

(* Between two PDUs ht_lookup answers with the value last inserted for the  *)
(* key and not removed or given away since, in every bucket in which no key *)
(* was inserted twice.                                                      *)
THEOREM LookupsAlwaysRight == Spec => []LookupIsRight
BY LookupFromInv, Invariance, PTL

(* transfer_upper_half and transfer_all_entries, once all entries are sent, *)
(* have sent each entry of the range given away exactly once and no other.  *)
THEOREM TransfersComplete == Spec => []TransferIsComplete
BY TransferFromInv, Invariance, PTL

(* Without a key that was inserted twice nothing but a table with more      *)
(* entries than entries_to_transfer holds makes the process crash.          *)
THEOREM OnlyOverwrittenCrash == Spec => []CrashesOnlyOverwritten
<1>1. IInv => CrashesOnlyOverwritten
  BY DEF IInv
<1> QED
  BY <1>1, Invariance, PTL
=============================================================================
