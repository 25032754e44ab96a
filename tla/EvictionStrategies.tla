------------------------- MODULE EvictionStrategies -------------------------
(* LruStrategy, LfuStrategy and FifoStrategy, which the cache package exports
   for callers that bound a store of their own: all three are told of the
   same insertions, uses and deletions, one call after another. *)
EXTENDS Naturals, FiniteSets, SequencesExt

CONSTANTS Key, MaxCalls    \* BOUND: calls since the last clear()

VARIABLES keyOrder, timestamp,      \* LruStrategy
          entries, insertCounter,   \* LfuStrategy
          queue, keySet,            \* FifoStrategy
          log                       \* history: the calls since the last clear()
vars == <<keyOrder, timestamp, entries, insertCounter, queue, keySet, log>>

NoRecords == [k \in {} |-> 0]
Without(f, k) == [x \in DOMAIN f \ {k} |-> f[x]]
With(f, k, v) == [x \in DOMAIN f \union {k} |-> IF x = k THEN v ELSE f[x]]

Init == /\ keyOrder = NoRecords /\ timestamp = 0 /\ entries = NoRecords /\ insertCounter = 0
        /\ queue = <<>> /\ keySet = {} /\ log = <<>>

Stamped(k) == timestamp' = timestamp + 1 /\ keyOrder' = With(keyOrder, k, timestamp + 1)

RecordAccess(k) ==
  /\ Stamped(k)
  /\ entries' = IF k \in DOMAIN entries THEN [entries EXCEPT ![k].frequency = @ + 1] ELSE entries
  /\ UNCHANGED <<insertCounter, queue, keySet>>

NewEntry(k) == /\ insertCounter' = insertCounter + 1
               /\ entries' = With(entries, k, [frequency |-> 1, insertOrder |-> insertCounter + 1])
LfuInsertAnew(k) == NewEntry(k)    \* mutant: an insertion of a known key starts it again
LfuInsert(k) == IF k \in DOMAIN entries THEN UNCHANGED <<entries, insertCounter>> ELSE NewEntry(k)
RecordInsert(k) ==
  /\ Stamped(k) /\ LfuInsert(k)
  /\ IF k \in keySet THEN UNCHANGED <<queue, keySet>> ELSE queue' = Append(queue, k) /\ keySet' = keySet \union {k}

RecordDelete(k) ==
  /\ keyOrder' = Without(keyOrder, k) /\ entries' = Without(entries, k)
  /\ queue' = IF k \in keySet THEN Remove(queue, k) ELSE queue
  /\ keySet' = keySet \ {k}
  /\ UNCHANGED <<timestamp, insertCounter>>

Clear == /\ keyOrder' = NoRecords /\ timestamp' = 0 /\ entries' = NoRecords /\ insertCounter' = 0
         /\ queue' = <<>> /\ keySet' = {} /\ log' = <<>>

Next == \/ /\ Len(log) < MaxCalls
           /\ \E k \in Key : \/ RecordAccess(k) /\ log' = Append(log, <<"use", k>>)
                             \/ RecordInsert(k) /\ log' = Append(log, <<"insert", k>>)
                             \/ RecordDelete(k) /\ log' = Append(log, <<"delete", k>>)
        \/ Clear
Spec == Init /\ [][Next]_vars

\* --------------------------------------------------------------- what the strategies answer
LessUsed(j, k) == \/ entries[j].frequency < entries[k].frequency
                  \/ entries[j].frequency = entries[k].frequency /\ entries[j].insertOrder < entries[k].insertOrder
LruKeys == SetToSortSeq(DOMAIN keyOrder, LAMBDA j, k : keyOrder[j] < keyOrder[k])
LfuKeys == SetToSortSeq(DOMAIN entries, LessUsed)
LruVictim == CHOOSE k \in DOMAIN keyOrder : \A j \in DOMAIN keyOrder : keyOrder[k] <= keyOrder[j]
LfuVictim == CHOOSE k \in DOMAIN entries : \A j \in DOMAIN entries \ {k} : LessUsed(k, j)
FifoVictim == queue[1]
Victims(keys, target) == IF Len(keys) <= target THEN <<>> ELSE SubSeq(keys, 1, Len(keys) - target)

\* --------------------------------------------------------------- properties
Since(k) == LET ends == {i \in DOMAIN log : log[i] = <<"delete", k>>} IN
            {i \in DOMAIN log : log[i][2] = k /\ \A e \in ends : e < i}
Inserts(k) == {i \in Since(k) : log[i][1] = "insert"}
Earliest(S) == CHOOSE i \in S : \A j \in S : i <= j
Latest(S) == CHOOSE i \in S : \A j \in S : j <= i
Present == {k \in Key : Inserts(k) # {}}
Uses(k) == Cardinality({i \in Since(k) : log[i][1] = "use" /\ i > Earliest(Inserts(k))})
Ordered(keys, Before(_, _)) == \A i, j \in DOMAIN keys : i < j => Before(keys[i], keys[j])

(* Whatever was called in whatever order: FIFO and LFU know the keys that are
   inserted and not deleted since, LRU also those that were only used; FIFO
   orders them by their first insertion, LFU by their uses since and then by
   that, LRU by their last use or insertion; the victim is the first in that
   order; and taking getVictims(n) away leaves n. *)
VictimsByHistory ==
  /\ Range(queue) = Present /\ DOMAIN entries = Present /\ keySet = Present
  /\ DOMAIN keyOrder = {k \in Key : Since(k) # {}}
  /\ Ordered(queue, LAMBDA j, k : Earliest(Inserts(j)) < Earliest(Inserts(k)))
  /\ Ordered(LfuKeys, LAMBDA j, k : \/ Uses(j) < Uses(k)
                                    \/ Uses(j) = Uses(k) /\ Earliest(Inserts(j)) < Earliest(Inserts(k)))
  /\ Ordered(LruKeys, LAMBDA j, k : Latest(Since(j)) < Latest(Since(k)))
  /\ Present # {} => /\ FifoVictim = Head(queue) /\ LfuVictim = Head(LfuKeys) /\ LruVictim = Head(LruKeys)
  /\ \A keys \in {queue, LfuKeys, LruKeys}, n \in 0..Cardinality(Key) :
       Len(keys) >= n => Cardinality(Range(keys) \ Range(Victims(keys, n))) = n /\ Len(Victims(keys, n)) = Len(keys) - n
=============================================================================
