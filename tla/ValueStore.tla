----------------------------- MODULE ValueStore -----------------------------
(***************************************************************************)
(* The values of one node: the chained hash table (Nodes/hashtable.c), the *)
(* value operations of q9_state (client_communication.c) and the transfers *)
(* to a neighbour (utils.c).  Ring takes the table as a set of keys; here  *)
(* it is chains of nodes that point to their keys.                         *)
(*                                                                         *)
(* The key of a chain node is the ssn of the entry it was created with.    *)
(* ht_insert of a key that is there frees that entry and puts the new one  *)
(* in its place, so that the key points to freed memory from then on.      *)
(* What a comparison with such a key yields is left open.                  *)
(***************************************************************************)
EXTENDS HashRange, SequencesExt

CONSTANTS
  Key,          \* the social security numbers
  hash_ssn,     \* hash_ssn[k] is the hash of key k
  Data,         \* names and emails
  Freed,        \* a key that points to freed memory
  Absent,       \* the dummy entry of a lookup that finds nothing
  TransferMax,  \* the size of entries_to_transfer, 1024 in the code
  MaxLength     \* bound on the length of a chain

ASSUME ValueStoreAssumption ==
  /\ hash_ssn \in [Key -> Hash]
  /\ Freed \notin Key /\ Absent \notin Data
  /\ TransferMax \in Nat /\ MaxLength \in Nat

Start == 0      \* hash_range_start; the node shares its upper half with others

VARIABLES
  end,          \* hash_range_end
  table,        \* ht->entries: the chain of each bucket
  length,       \* ht->length
  num_entries,  \* ht->num_entries
  pc,           \* "idle", the pass of a transfer, "destroy", "exited" or "crashed"
  batch,        \* entries_to_transfer
  todo,         \* what the running pass has still to visit
  moving,       \* the first hash that is transferred
  leaving,      \* the transfer is q18_state's
  sent,         \* the entries put into the transfer's buffer
  out,          \* the PDU the last step sent, if it was q9_state's
  stored,       \* history: the value last inserted for each key
  overwritten   \* history: the buckets in which a key was inserted twice

ht == <<table, length, num_entries>>
transfer == <<batch, todo, moving, leaving, sent>>
history == <<stored, overwritten>>
vars == <<end, ht, pc, transfer, out, history>>
-----------------------------------------------------------------------------
(* Chains.  chance are the nodes with a freed key that happen to read as   *)
(* the key that is looked for.                                             *)

Entry == [ssn : Key, data : Data]
ChainNode == [key : Key \cup {Freed}, entry : Entry]

Dangling(b) == {i \in DOMAIN b : b[i].key = Freed}
Matches(b, k, chance) == {i \in DOMAIN b : b[i].key = k} \cup chance

(* The first node that compares equal, 0 if there is none. *)
PositionOfHead(b, k, chance) ==   \* mutant: looks no further than the first node
  IF 1 \in Matches(b, k, chance) THEN 1 ELSE 0
Position(b, k, chance) ==
  IF Matches(b, k, chance) = {} THEN 0 ELSE Min(Matches(b, k, chance))

(* The chain after ht_insert and ht_remove. *)
InsertedAtHead(b, e, p) ==        \* mutant: the chain is lost
  IF p = 0 THEN <<[key |-> e.ssn, entry |-> e]>>
  ELSE [b EXCEPT ![p] = [key |-> Freed, entry |-> e]]
Inserted(b, e, p) ==
  IF p = 0 THEN Append(b, [key |-> e.ssn, entry |-> e])
  ELSE [b EXCEPT ![p] = [key |-> Freed, entry |-> e]]

Removed(b, p) == IF p = 0 THEN b ELSE RemoveAt(b, p)

HtInsert(e, chance) ==
  LET h == hash_ssn[e.ssn]
      p == Position(table[h], e.ssn, chance)
  IN  /\ Len(table[h]) < MaxLength
      /\ table' = [table EXCEPT ![h] = Inserted(@, e, p)]
      /\ length' = IF p = 0 THEN length + 1 ELSE length
      /\ num_entries' = IF table[h] = <<>> THEN num_entries + 1 ELSE num_entries
      /\ overwritten' = IF p = 0 THEN overwritten ELSE overwritten \cup {h}

HtRemoveCounting(k, chance) ==    \* mutant: counts buckets as if they were entries
  LET h == hash_ssn[k]
      p == Position(table[h], k, chance)
  IN  /\ table' = [table EXCEPT ![h] = Removed(@, p)]
      /\ length' = IF p = 0 THEN length ELSE length - 1
      /\ num_entries' = IF p = 0 THEN num_entries ELSE num_entries - 1
HtRemove(k, chance) ==
  LET h == hash_ssn[k]
      p == Position(table[h], k, chance)
  IN  /\ table' = [table EXCEPT ![h] = Removed(@, p)]
      /\ length' = IF p = 0 THEN length ELSE length - 1
      /\ num_entries' = IF p = 1 /\ Len(table[h]) = 1 THEN num_entries - 1 ELSE num_entries

Chances(k) == SUBSET Dangling(table[hash_ssn[k]])
-----------------------------------------------------------------------------
(* q9_state.  What is not in the range goes on to the successor. *)

Mine(k) == InRange(hash_ssn[k], Start, end)

Forward(type, k) ==
  /\ pc = "idle" /\ ~Mine(k)
  /\ out' = [type |-> type, to |-> "successor", ssn |-> k]
  /\ UNCHANGED <<end, ht, pc, transfer, history>>

insertion_of_value(k, d) ==
  /\ pc = "idle" /\ Mine(k)
  /\ \E chance \in Chances(k) : HtInsert([ssn |-> k, data |-> d], chance)
  /\ stored' = [stored EXCEPT ![k] = d]
  /\ out' = <<>>
  /\ UNCHANGED <<end, pc, transfer>>

remove_value(k) ==
  /\ pc = "idle" /\ Mine(k)
  /\ \E chance \in Chances(k) : HtRemove(k, chance)
  /\ stored' = [stored EXCEPT ![k] = Absent]
  /\ out' = <<>>
  /\ UNCHANGED <<end, pc, transfer, overwritten>>

(* The answer goes to the address in the VAL_LOOKUP; it carries the ssn of *)
(* the entry, or zeros.                                                    *)
Answer(k, e) == [type |-> "VAL_LOOKUP_RESPONSE", to |-> "sender", asked |-> k, entry |-> e]

lookup_value(k) ==
  /\ pc = "idle" /\ Mine(k)
  /\ \E chance \in Chances(k) :
       LET b == table[hash_ssn[k]]
           p == Position(b, k, chance)
       IN  out' = Answer(k, IF p = 0 THEN [ssn |-> Absent, data |-> Absent] ELSE b[p].entry)
  /\ UNCHANGED <<end, ht, pc, transfer, history>>
-----------------------------------------------------------------------------
(* transfer_upper_half and transfer_all_entries: collect the keys, then    *)
(* visit them three times, to add up the sizes, to copy the entries, and   *)
(* to remove them.  Every visit looks the key up again.                    *)

Crash ==
  /\ pc' = "crashed" /\ out' = <<>>
  /\ UNCHANGED <<end, ht, transfer, history>>

ChainKeysOfHead(h) ==   \* mutant: takes one entry of each bucket
  IF table[h] = <<>> THEN <<>> ELSE <<table[h][1].entry.ssn>>
ChainKeys(h) == [i \in DOMAIN table[h] |-> table[h][i].entry.ssn]

KeysFrom(lo) == FlattenSeq([i \in 1 .. end - lo + 1 |-> ChainKeys(lo + i - 1)])

Begin(lo, last) ==
  /\ pc' = "size"
  /\ end' = IF last THEN end ELSE Mid(Start, end)
  /\ batch' = KeysFrom(lo) /\ todo' = KeysFrom(lo)
  /\ moving' = lo /\ leaving' = last /\ sent' = <<>> /\ out' = <<>>
  /\ UNCHANGED <<ht, history>>

(* The walk writes behind entries_to_transfer. *)
Overruns(lo) == Len(KeysFrom(lo)) > TransferMax

(* q5_state and q13_state, behind their split_range, which gives away an   *)
(* inverted range, without entries, when the node has a single hash left.  *)
transfer_upper_half ==
  LET lo == UpperStart(Start, end)
  IN  /\ pc = "idle"
      /\ IF Overruns(lo) THEN Crash ELSE Begin(lo, FALSE)

(* q18_state *)
transfer_all_entries ==
  /\ pc = "idle"
  /\ IF Overruns(Start) THEN Crash ELSE Begin(Start, TRUE)

Visited == Head(todo)

(* The entry looked up is used without a test for NULL. *)
VisitSize ==
  /\ pc = "size" /\ todo # <<>>
  /\ \E chance \in Chances(Visited) :
       IF Position(table[hash_ssn[Visited]], Visited, chance) = 0 THEN Crash
       ELSE todo' = Tail(todo) /\ UNCHANGED <<end, ht, pc, batch, moving, leaving, sent, out, history>>

VisitSend ==
  /\ pc = "send" /\ todo # <<>>
  /\ \E chance \in Chances(Visited) :
       LET b == table[hash_ssn[Visited]]
           p == Position(b, Visited, chance)
       IN  IF p = 0 THEN Crash
           ELSE /\ sent' = Append(sent, b[p].entry) /\ todo' = Tail(todo)
                /\ UNCHANGED <<end, ht, pc, batch, moving, leaving, out, history>>

VisitRemove ==
  /\ pc = "remove" /\ todo # <<>>
  /\ \E chance \in Chances(Visited) : HtRemove(Visited, chance)
  /\ todo' = Tail(todo)
  /\ UNCHANGED <<end, pc, batch, moving, leaving, sent, out, history>>

NextPass ==
  /\ pc \in {"size", "send"} /\ todo = <<>>
  /\ pc' = IF pc = "size" THEN "send" ELSE "remove"
  /\ todo' = batch
  /\ UNCHANGED <<end, ht, batch, moving, leaving, sent, out, history>>

EndTransfer ==
  /\ pc = "remove" /\ todo = <<>>
  /\ pc' = IF leaving THEN "destroy" ELSE "idle"
  /\ stored' = [k \in Key |-> IF hash_ssn[k] >= moving THEN Absent ELSE stored[k]]
  /\ batch' = <<>> /\ sent' = <<>>
  /\ UNCHANGED <<end, ht, todo, moving, leaving, out, overwritten>>

(* close_connection, called by q18_state or, in the last node, q10_state.  *)
(* ht_destroy empties bucket after bucket until length is 0; an entry it   *)
(* cannot find again sends it past the last bucket.                        *)
ht_destroy ==
  /\ pc \in {"idle", "destroy"}
  /\ \E found \in SUBSET {h \in Hash : Dangling(table[h]) # {}} :
       IF \A h \in Hash : Dangling(table[h]) = {} \/ h \in found
         THEN /\ pc' = "exited"
              /\ table' = [h \in Hash |-> <<>>] /\ length' = 0 /\ num_entries' = 0
              /\ stored' = [k \in Key |-> Absent] /\ out' = <<>>
              /\ UNCHANGED <<end, transfer, overwritten>>
         ELSE Crash

Init ==
  /\ end = MaxHash
  /\ table = [h \in Hash |-> <<>>] /\ length = 0 /\ num_entries = 0
  /\ pc = "idle" /\ batch = <<>> /\ todo = <<>> /\ moving = 0 /\ leaving = FALSE
  /\ sent = <<>> /\ out = <<>>
  /\ stored = [k \in Key |-> Absent] /\ overwritten = {}

q9_state ==
  \E k \in Key :
    \/ \E type \in {"VAL_INSERT", "VAL_REMOVE", "VAL_LOOKUP"} : Forward(type, k)
    \/ \E d \in Data : insertion_of_value(k, d)
    \/ remove_value(k)
    \/ lookup_value(k)

Next ==
  \/ q9_state
  \/ transfer_upper_half \/ transfer_all_entries
  \/ VisitSize \/ VisitSend \/ VisitRemove \/ NextPass \/ EndTransfer
  \/ ht_destroy

Spec == Init /\ [][Next]_vars
-----------------------------------------------------------------------------
TypeOK ==
  /\ end \in Hash /\ moving \in Hash /\ leaving \in BOOLEAN
  /\ table \in [Hash -> Seq(ChainNode)]
  /\ length \in Nat /\ num_entries \in Nat
  /\ pc \in {"idle", "size", "send", "remove", "destroy", "exited", "crashed"}
  /\ batch \in Seq(Key) /\ todo \in Seq(Key) /\ sent \in Seq(Entry)
  /\ out \in {<<>>} \cup
             [type : {"VAL_INSERT", "VAL_REMOVE", "VAL_LOOKUP"}, to : {"successor"}, ssn : Key] \cup
             {Answer(k, e) : k \in Key, e \in Entry \cup {[ssn |-> Absent, data |-> Absent]}}
  /\ stored \in [Key -> Data \cup {Absent}]
  /\ overwritten \subseteq Hash

(* ht_destroy relies on length, and nothing on num_entries but its name:   *)
(* they count the chain nodes and the buckets in use, also after keys were *)
(* overwritten (ht_insert, ht_remove).                                     *)
CountersAgree ==
  /\ length = FoldFunction(LAMBDA b, sum : Len(b) + sum, 0, table)
  /\ num_entries = Cardinality({h \in Hash : table[h] # <<>>})

(* As long as no key of a bucket was inserted twice, the bucket answers    *)
(* every lookup with the value last inserted and not removed or given      *)
(* away, collisions notwithstanding.                                       *)
LookupIsRight ==
  pc = "idle" =>
    \A k \in Key : hash_ssn[k] \notin overwritten =>
      LET b == table[hash_ssn[k]]
          p == Position(b, k, {})
      IN  IF stored[k] = Absent THEN p = 0
          ELSE p # 0 /\ b[p].entry = [ssn |-> k, data |-> stored[k]]

(* A transfer that reaches its last pass has put every entry of the range  *)
(* it gives away into the buffer, once, and no other.                      *)
Given == {[ssn |-> k, data |-> stored[k]] :
            k \in {l \in Key : hash_ssn[l] >= moving /\ stored[l] # Absent}}
TransferIsComplete ==
  pc = "remove" /\ overwritten = {} => sent \in SetToSeqs(Given)

(* The process only crashes if a key was inserted twice or if it has more  *)
(* entries to give away than entries_to_transfer holds: every other key    *)
(* that a walk collects is found again by ht_lookup.                       *)
CrashesOnlyOverwritten ==
  pc = "crashed" => overwritten # {} \/ length > TransferMax
=============================================================================
