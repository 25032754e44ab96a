------------------------------- MODULE MemoryStore -------------------------------
(* L1MemoryStoreAdapter: a Map of nodes that are also linked in a doubly linked list,     *)
(* from the most recently used (LRU) or inserted (LFU) one, the head, to the tail.        *)
EXTENDS Integers, FiniteSets, Sequences

CONSTANTS Key, Value, None, MaxSize, Ttls, MaxUses

StoreAssumption ==
  /\ IsFiniteSet(Key) /\ None \notin Value \cup Key
  /\ MaxSize \in Nat \ {0} /\ MaxUses \in Nat \ {0}
  /\ Ttls \subseteq Nat

VARIABLES
  policy,  \* evictionPolicy, "lru" or "lfu": configured once
  node,    \* the Map: the node of each key in it
  head, tail,
  answer, since   \* as in OrderedStore

vars == <<policy, node, head, tail, answer, since>>

Held == DOMAIN node
List == [node |-> node, head |-> head, tail |-> tail]

TypeOK ==
  /\ policy \in {"lru", "lfu"}
  /\ Held \subseteq Key
  /\ head \in Held \cup {None} /\ tail \in Held \cup {None}
  /\ \A k \in Held : /\ node[k].prev \in Held \cup {None} /\ node[k].next \in Held \cup {None}
                     /\ node[k].freq \in 1..MaxUses
                     /\ node[k].val \in Value

Init ==
  /\ policy \in {"lru", "lfu"}
  /\ node = [k \in {} |-> None] /\ head = None /\ tail = None
  /\ answer = None /\ since = [k \in Key |-> {}]

Becomes(l) == node' = l.node /\ head' = l.head /\ tail' = l.tail
Used(k) == [x \in Key |-> IF x = k THEN {} ELSE since[x] \cup {k}]
Readable(k) == k \in Held /\ node[k].left >= 0

\* removeNode(): the neighbours are linked to each other; the node itself keeps its links.
UnlinkedKeepsTail(l, k) ==
  LET before == l.node[k].prev  after == l.node[k].next
  IN [node |-> [x \in DOMAIN l.node |-> [l.node[x] EXCEPT !.next = IF x = before THEN after ELSE @,
                                                          !.prev = IF x = after THEN before ELSE @]],
      head |-> IF before = None THEN after ELSE l.head,
      tail |-> l.tail]
Unlinked(l, k) ==
  LET before == l.node[k].prev  after == l.node[k].next
  IN [node |-> [x \in DOMAIN l.node |-> [l.node[x] EXCEPT !.next = IF x = before THEN after ELSE @,
                                                          !.prev = IF x = after THEN before ELSE @]],
      head |-> IF before = None THEN after ELSE l.head,
      tail |-> IF after = None THEN before ELSE l.tail]

Removed(l, k) ==
  LET u == Unlinked(l, k) IN [u EXCEPT !.node = [x \in DOMAIN u.node \ {k} |-> u.node[x]]]

\* A node put before the head.
Pushed(l, k, n) ==
  [node |-> [x \in DOMAIN l.node \cup {k} |->
               IF x = k THEN [n EXCEPT !.prev = None, !.next = l.head]
               ELSE IF x = l.head THEN [l.node[x] EXCEPT !.prev = k]
               ELSE l.node[x]],
   head |-> k,
   tail |-> IF l.tail = None THEN k ELSE l.tail]

MovedToFront(l, k) == IF k = l.head THEN l ELSE LET u == Unlinked(l, k) IN Pushed(u, k, u.node[k])

Touched(l, k) ==
  IF policy = "lru" THEN MovedToFront(l, k) ELSE [l EXCEPT !.node[k].freq = @ + 1]
MayTouch(k) == policy = "lfu" => node[k].freq < MaxUses

\* evictLFU(): from the tail, the first key of the lowest frequency.
FromTail == [i \in 1..Cardinality(Held) |->
  LET back[j \in 1..i] == IF j = 1 THEN tail ELSE IF back[j - 1] = None THEN None ELSE node[back[j - 1]].prev
  IN back[i]]
LastOfLeastUsed ==
  LET least == {i \in DOMAIN FromTail : \A j \in DOMAIN FromTail :
                  node[FromTail[i]].freq < node[FromTail[j]].freq \/ (node[FromTail[i]].freq = node[FromTail[j]].freq /\ i >= j)}
  IN FromTail[CHOOSE i \in least : TRUE]
FirstOfLeastUsed ==
  LET least == {i \in DOMAIN FromTail : \A j \in DOMAIN FromTail :
                  node[FromTail[i]].freq < node[FromTail[j]].freq \/ (node[FromTail[i]].freq = node[FromTail[j]].freq /\ i <= j)}
  IN FromTail[CHOOSE i \in least : TRUE]

EvictedTail(l) == IF tail = None THEN l ELSE Removed(l, tail)
Evicted(l) ==
  IF tail = None THEN l ELSE Removed(l, IF policy = "lru" THEN tail ELSE FirstOfLeastUsed)

Full == Cardinality(Held) >= MaxSize

--------------------------------------------------------------------------------
Forgets(k) == IF k \in Held THEN Becomes(Removed(List, k)) ELSE UNCHANGED <<node, head, tail>>

Get(k) ==
  \/ /\ Readable(k) /\ MayTouch(k) /\ Becomes(Touched(List, k))
     /\ answer' = node[k].val /\ since' = Used(k)
  \/ /\ ~Readable(k) /\ Forgets(k) /\ answer' = None /\ UNCHANGED since

Has(k) ==
  /\ IF Readable(k) THEN UNCHANGED <<node, head, tail>> ELSE Forgets(k)
  /\ answer' = None /\ UNCHANGED since

Set(k, v, ttl) ==
  /\ IF k \in Held
     THEN MayTouch(k) /\ Becomes(Touched([List EXCEPT !.node[k].val = v, !.node[k].left = ttl], k))
     ELSE Becomes(Pushed(IF Full THEN Evicted(List) ELSE List, k,
                         [val |-> v, left |-> ttl, freq |-> 1, prev |-> None, next |-> None]))
  /\ since' = Used(k) /\ answer' = None

Delete(k) == k \in Held /\ Forgets(k) /\ answer' = None /\ UNCHANGED since

Clear ==
  /\ node' = [k \in {} |-> None] /\ head' = None /\ tail' = None
  /\ answer' = None /\ UNCHANGED since

Tick ==
  /\ node' = [k \in Held |-> IF node[k].left < 0 THEN node[k] ELSE [node[k] EXCEPT !.left = @ - 1]]
  /\ answer' = None /\ UNCHANGED <<head, tail, since>>

Next ==
  /\ UNCHANGED policy
  /\ \/ \E k \in Key : Get(k) \/ Has(k) \/ Delete(k) \/ \E v \in Value, ttl \in Ttls : Set(k, v, ttl)
     \/ Clear \/ Tick

Spec == Init /\ [][Next]_vars

--------------------------------------------------------------------------------
\* The list and the Map hold the same keys: walking from the head meets every key of the
\* Map once, walking from the tail meets them in the opposite order.
FromHead == [i \in 1..Cardinality(Held) |->
  LET on[j \in 1..i] == IF j = 1 THEN head ELSE IF on[j - 1] = None THEN None ELSE node[on[j - 1]].next
  IN on[i]]
Linked ==
  LET n == Cardinality(Held)
  IN /\ {FromHead[i] : i \in 1..n} = Held
     /\ \A i \in 1..n : FromTail[i] = FromHead[n + 1 - i]
     /\ n = 0 => head = None /\ tail = None

\* The list does what a Map in order of use does: the same answers, the same victims.
Ordered == INSTANCE OrderedStore WITH
  order <- FromHead, HasTouches <- FALSE,
  entry <- [k \in Held |-> [val |-> node[k].val, left |-> node[k].left, freq |-> node[k].freq]]
IsOrderedStore == Ordered!Spec

\* So the victims are the least recently, or the least frequently, used ones.
EvictsLeastUsed == Ordered!EvictsLeastUsed
================================================================================
