------------------------------ MODULE OrderedStore ------------------------------
(* InMemoryL2StoreAdapter, the store of mode 'l1-only': a Map in iteration order with   *)
(* lazy expiry and LRU or LFU eviction. It is also what L1MemoryStoreAdapter promises.   *)
EXTENDS Integers, FiniteSets, SequencesExt

CONSTANTS
  Key, Value, None,
  MaxSize,
  Ttls,              \* lives given to set(), in ticks
  HasTouches,        \* has() counts as a use: so here, not in L1MemoryStoreAdapter
  MaxUses            \* BOUND on the frequency of an entry

VARIABLES
  policy,  \* evictionPolicy, "lru" or "lfu": configured once
  order,   \* the keys of the Map, the last in iteration order first
  entry,   \* the node of each of them
  answer,  \* what the last operation returned
  since    \* history: the other keys used since the last use of each key

vars == <<policy, order, entry, answer, since>>

\* A node: its value, how long it stays readable (-1: expired) and its frequency.
Node == [val : Value, left : {-1} \cup UNION {0..t : t \in Ttls}, freq : 1..MaxUses]
Held == ToSet(order)

TypeOK ==
  /\ policy \in {"lru", "lfu"}
  /\ order \in Seq(Key) /\ IsInjective(order)
  /\ entry \in [Held -> Node]
  /\ since \in [Key -> SUBSET Key]

Init ==
  /\ policy \in {"lru", "lfu"}
  /\ order = <<>> /\ entry = [k \in {} |-> None]
  /\ answer = None /\ since = [k \in Key |-> {}]

Without(k) == SelectSeq(order, LAMBDA x : x # k)
Used(k) == [x \in Key |-> IF x = k THEN {} ELSE since[x] \cup {k}]
Readable(k) == k \in Held /\ entry[k].left >= 0

\* touch(): to the end of the Map, or one use more.
Touch(k, n) ==
  IF policy = "lru" THEN order' = <<k>> \o Without(k) /\ entry' = [entry EXCEPT ![k] = n]
  ELSE /\ n.freq < MaxUses /\ UNCHANGED order
       /\ entry' = [entry EXCEPT ![k] = [n EXCEPT !.freq = @ + 1]]

Forget(k) == order' = Without(k) /\ entry' = [x \in Held \ {k} |-> entry[x]]

\* evict(): the oldest key, of the least used ones under LFU.
LeastUsed == {k \in Held : \A x \in Held : entry[k].freq <= entry[x].freq}
Oldest(s) == CHOOSE k \in s : \A i, j \in DOMAIN order : order[i] = k /\ order[j] \in s => j <= i
Victim == Oldest(IF policy = "lru" THEN Held ELSE LeastUsed)

Full == Len(order) >= MaxSize

Insert(k, n) ==
  LET kept == IF Full THEN Without(Victim) ELSE order
  IN /\ order' = <<k>> \o kept
     /\ entry' = [x \in ToSet(kept) \cup {k} |-> IF x = k THEN n ELSE entry[x]]

--------------------------------------------------------------------------------
Get(k) ==
  \/ /\ Readable(k) /\ Touch(k, entry[k])
     /\ answer' = entry[k].val /\ since' = Used(k)
  \/ /\ ~Readable(k) /\ Forget(k) /\ answer' = None /\ UNCHANGED since

Has(k) ==
  \/ /\ Readable(k) /\ answer' = None
     /\ IF HasTouches THEN Touch(k, entry[k]) /\ since' = Used(k) ELSE UNCHANGED <<order, entry, since>>
  \/ /\ ~Readable(k) /\ Forget(k) /\ answer' = None /\ UNCHANGED since

AskTtl(k) == IF Readable(k) THEN answer' = None /\ UNCHANGED <<order, entry, since>>
          ELSE Forget(k) /\ answer' = None /\ UNCHANGED since

\* An entry that is there is written over, expired or not, and keeps its frequency.
Set(k, v, ttl) ==
  /\ IF k \in Held THEN Touch(k, [entry[k] EXCEPT !.val = v, !.left = ttl])
     ELSE Insert(k, [val |-> v, left |-> ttl, freq |-> 1])
  /\ since' = Used(k) /\ answer' = None

Delete(k) == k \in Held /\ Forget(k) /\ answer' = None /\ UNCHANGED since

Clear == order' = <<>> /\ entry' = [k \in {} |-> None] /\ answer' = None /\ UNCHANGED since

\* scan() drops what has expired.
Scan ==
  /\ order' = SelectSeq(order, Readable)
  /\ entry' = [k \in {x \in Held : Readable(x)} |-> entry[k]]
  /\ answer' = None /\ UNCHANGED since

Tick ==
  /\ entry' = [k \in Held |-> IF entry[k].left < 0 THEN entry[k] ELSE [entry[k] EXCEPT !.left = @ - 1]]
  /\ answer' = None /\ UNCHANGED <<order, since>>

Next ==
  /\ UNCHANGED policy
  /\ \/ \E k \in Key : Get(k) \/ Has(k) \/ AskTtl(k) \/ Delete(k) \/ \E v \in Value, ttl \in Ttls : Set(k, v, ttl)
     \/ Clear \/ Scan \/ Tick

Spec == Init /\ [][Next]_vars

--------------------------------------------------------------------------------
Leaves(k) == k \in Held /\ k \notin ToSet(order')
Inserts == \E k \in Key : k \notin Held /\ k \in ToSet(order')
\* LRU: set() pushes out a key only when every other place was used since its last use.
\* LFU: a key is never pushed out while a key that was used less often stays.
LeastUsedGoes ==
  \A k \in Key : Inserts /\ Leaves(k) =>
    IF policy = "lru" THEN Cardinality(since[k]) >= MaxSize - 1
    ELSE \A x \in Held : entry[k].freq <= entry[x].freq
EvictsLeastUsed == [][LeastUsedGoes]_vars
================================================================================
