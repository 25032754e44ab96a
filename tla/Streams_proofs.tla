----------------------------- MODULE Streams_proofs -----------------------------
(* Machine-checked proofs about Streams for every set of messages and consumers, every   *)
(* batch, concurrency and number of retries, and any number of mishaps.                   *)
EXTENDS Streams, FiniteSetTheorems, SequenceTheorems, TLAPS

--------------------------------------------------------------------------------
(* The inductive invariant. *)

LogStates == {"missed", "new", "pending", "acked"}
PollPhases == {"ready", "reading", "answered", "orphan", "done"}
ClaimPhases == {"asleep", "awake", "ranged", "claimed", "done"}
JobPhases == {"run", "ack", "backoff", "bury", "drop"}
LogEntry == [msg : Msg, att : 1..MaxRetries, by : Consumer \cup {None}, idle : BOOLEAN, st : LogStates]
JobOn(ids) == [c : Consumer, i : ids, n : Nat, pc : JobPhases, inner : BOOLEAN]

Typed ==
  /\ log \in Seq(LogEntry) /\ group \in BOOLEAN
  /\ dlq \in [Msg -> Nat] /\ handled \in [Msg -> Nat] /\ failed \in [Msg -> Nat]
  /\ life \in [Consumer -> {"new", "up", "stopping", "gone"}]
  /\ poll \in [Consumer -> [pc : PollPhases, ids : SUBSET Id]]
  /\ claim \in [Consumer -> [pc : ClaimPhases, ids : SUBSET Id]]
  /\ jobs \subseteq JobOn(Id)
  /\ requeue \in Msg \cup {None}
  /\ faults \in Nat /\ crashes \in Nat /\ slow \in Nat /\ requeues \in Nat

\* A loop that reads, or has read, found a free slot, and holds one batch.
Bounded ==
  /\ IsFiniteSet(jobs)
  /\ \A c \in Consumer : /\ Busy(c) <= MostJobs
                         /\ poll[c].pc \in {"reading", "answered"} => Busy(c) <= Concurrency
                         /\ Cardinality(poll[c].ids) <= BatchSize

\* Every attempt before the one an entry stands for has failed; what is retried or given
\* up has failed once more; what requeue() is about to take away is still there.
Earned ==
  /\ \A i \in Id : failed[log[i].msg] >= log[i].att - 1
  /\ \A j \in jobs :
       /\ j.pc = "backoff" => log[j.i].att < MaxRetries /\ failed[log[j.i].msg] >= log[j.i].att
       /\ j.pc = "bury" => failed[log[j.i].msg] >= MaxRetries
  /\ DeadLettersEarned
  /\ requeue # None => dlq[requeue] > 0

Owed(m) == IF requeue = m THEN 1 ELSE 0
Alive(i) == log[i].st \in {"new", "pending"}
Safe(m) == handled[m] > 0 \/ dlq[m] > Owed(m)

\* What a consumer has in its hands was delivered to it, and there is no dead letter and
\* no delivery before there is a group.
Delivered ==
  /\ \A j \in jobs : log[j.i].st \in {"pending", "acked"}
  /\ \A c \in Consumer : \A i \in poll[c].ids \cup claim[c].ids : log[i].st \in {"pending", "acked"}
  /\ ~group => /\ \A i \in Id : log[i].st = "missed"
               /\ \A m \in Msg : dlq[m] = 0

\* An entry about to be acknowledged was handled or buried, or a later one takes its place.
Kept ==
  DlqEnabled =>
    /\ \A m \in Msg : Reached(m) => Safe(m) \/ \E i \in Id : log[i].msg = m /\ Alive(i)
    /\ \A j \in jobs : j.pc \in {"ack", "drop"} =>
         Safe(log[j.i].msg) \/ \E i \in Id : i > j.i /\ log[i].msg = log[j.i].msg /\ Alive(i)

StreamInv == Typed /\ Bounded /\ Earned /\ Delivered /\ Kept

\* While all is calm an entry is in one pair of hands, and of the entries of a message one
\* at most may still be handled, and none once the message was.
CalmNow == faults + crashes + slow + requeues = 0
Finishing(i) == log[i].st = "acked" \/ \E j \in jobs : j.i = i /\ j.pc \in {"ack", "drop"}
Claimed(c) == IF claim[c].pc = "claimed" THEN claim[c].ids ELSE {}
InHand(c) == poll[c].ids \cup Claimed(c)
InOnePair ==
  /\ \A j, k \in jobs : j.i = k.i => j = k
  /\ \A c, d \in Consumer : /\ c # d => poll[c].ids \cap poll[d].ids = {} /\ Claimed(c) \cap Claimed(d) = {}
                            /\ poll[c].ids \cap Claimed(d) = {}
  /\ \A j \in jobs, c \in Consumer : j.i \notin InHand(c)
  /\ \A c \in Consumer : \A i \in InHand(c) : log[i].st = "pending" /\ ~log[i].idle
  /\ \A j \in jobs : ~log[j.i].idle /\ (j.pc \in {"run", "backoff", "bury"} => log[j.i].st = "pending")
OneActive ==
  /\ \A i, k \in Id : log[i].msg = log[k].msg /\ ~Finishing(i) /\ ~Finishing(k) => i = k
  /\ \A m \in Msg : /\ handled[m] <= 1
                    /\ handled[m] > 0 => /\ \A i \in Id : log[i].msg = m => Finishing(i)
                                         /\ \E i \in Id : log[i].msg = m
Calm == CalmNow => requeue = None /\ InOnePair /\ OneActive

--------------------------------------------------------------------------------
(* Finite sets, and the operators the model is built from. *)

LEMMA ConstantFacts ==
  /\ BatchSize \in Nat /\ BatchSize > 0 /\ Concurrency \in Nat /\ Concurrency > 0
  /\ MaxRetries \in Nat /\ MaxRetries > 0 /\ None \notin Msg
  /\ MostJobs \in Nat /\ MostJobs = Concurrency + BatchSize
BY StreamsAssumption DEF StreamsAssumption, MostJobs

\* A set of numbers up to N that is not empty has a greatest one.
LEMMA Greatest ==
  ASSUME NEW N \in Nat, NEW S, S \subseteq 1..N, S # {}
  PROVE  \E x \in S : \A y \in S : y <= x
<1> DEFINE T == {N - x : x \in S}
           R == OpToRel(<, Nat)
<1>1. T \subseteq Nat /\ T # {}
  OBVIOUS
<1>2. PICK y \in T : \A z \in T : <<z, y>> \notin R
  BY <1>1, WFMin, NatLessThanWellFounded
<1>3. \A z \in T : ~(z < y)
  BY <1>1, <1>2 DEF OpToRel
<1>4. PICK x \in S : y = N - x
  OBVIOUS
<1>5. ASSUME NEW z \in S PROVE z <= x
  <2>1. N - z \in T
    OBVIOUS
  <2> HIDE DEF T
  <2> QED BY <1>3, <1>4, <2>1
<1> QED BY <1>5

\* First() takes no more than it is asked for.
LEMMA FirstBounded ==
  ASSUME NEW N \in Nat, NEW ids, ids \subseteq 1..N, NEW n \in Nat
  PROVE  /\ First(ids, n) \subseteq ids
         /\ IsFiniteSet(First(ids, n))
         /\ Cardinality(First(ids, n)) \in Nat
         /\ Cardinality(First(ids, n)) <= n
<1> DEFINE F == First(ids, n)
<1>1. F \subseteq ids
  BY DEF First
<1>2. IsFiniteSet(ids)
  <2>1. IsFiniteSet(1..N)
    BY FS_Interval
  <2> QED BY <2>1, FS_Subset
<1>3. IsFiniteSet(F) /\ Cardinality(F) \in Nat
  BY <1>1, <1>2, FS_Subset, FS_CardinalityType
<1>4. CASE F = {}
  BY <1>1, <1>3, <1>4, FS_EmptySet
<1>5. CASE F # {}
  <2>1. PICK m \in F : \A k \in F : k <= m
    BY <1>1, <1>5, Greatest
  <2> DEFINE B == {k \in ids : k < m}
  <2>2. Cardinality(B) < n
    BY <2>1 DEF First
  <2>3. ASSUME NEW k \in F \ {m} PROVE k \in B
    <3>1. k \in ids /\ m \in ids /\ k \in 1..N /\ m \in 1..N
      BY <1>1
    <3>2. k <= m /\ k # m
      BY <2>1
    <3> HIDE DEF F
    <3> QED BY <3>1, <3>2
  <2>4. IsFiniteSet(B) /\ Cardinality(B) \in Nat
    BY <1>2, FS_Subset, FS_CardinalityType
  <2>5. Cardinality(F \ {m}) <= Cardinality(B)
    <3>1. F \ {m} \subseteq B
      BY <2>3
    <3> QED BY <2>4, <3>1, FS_Subset
  <2>6. Cardinality(F \ {m}) = Cardinality(F) - 1
    BY <1>3, <2>1, FS_RemoveElement
  <2> QED BY <1>1, <1>3, <2>2, <2>4, <2>5, <2>6
<1> QED BY <1>4, <1>5

\* The image of a finite set is no larger than the set.
LEMMA ImageBounded ==
  ASSUME NEW S, IsFiniteSet(S), NEW T, NEW f \in [S -> T], \A t \in T : \E s \in S : f[s] = t
  PROVE  IsFiniteSet(T) /\ Cardinality(T) \in Nat /\ Cardinality(T) <= Cardinality(S)
<1>1. f \in Surjection(S, T)
  BY DEF Surjection
<1> QED BY <1>1, FS_Surjection, FS_CardinalityType

LEMMA BusyFinite ==
  ASSUME IsFiniteSet(jobs), NEW c
  PROVE  IsFiniteSet({j \in jobs : j.c = c}) /\ Busy(c) \in Nat
BY FS_Subset, FS_CardinalityType DEF Busy

\* processMessage() calls for one more entry have a number nobody else has.
LEMMA UnusedExists ==
  ASSUME Typed, IsFiniteSet(jobs), NEW c \in Consumer, NEW i, Busy(c) <= MostJobs
  PROVE  Unused(c, i) \in Nat /\ Unused(c, i) \notin Copies(c, i)
<1> DEFINE J == {x \in jobs : x.c = c /\ x.i = i}
           f == [x \in J |-> x.n]
<1>1. IsFiniteSet(J) /\ Cardinality(J) <= Busy(c) /\ Cardinality(J) \in Nat
  <2>1. J \subseteq {x \in jobs : x.c = c}
    OBVIOUS
  <2> QED BY <2>1, BusyFinite, FS_Subset, FS_CardinalityType DEF Busy
<1>2. f \in [J -> Copies(c, i)] /\ \A t \in Copies(c, i) : \E s \in J : f[s] = t
  BY DEF Copies
<1>3. IsFiniteSet(Copies(c, i)) /\ Cardinality(Copies(c, i)) <= Cardinality(J) /\ Cardinality(Copies(c, i)) \in Nat
  <2> HIDE DEF f, J
  <2> QED BY <1>1, <1>2, ImageBounded
<1>4. ~(0..MostJobs \subseteq Copies(c, i))
  <2>1. Cardinality(0..MostJobs) = MostJobs + 1
    BY ConstantFacts, FS_Interval
  <2>2. Cardinality(Copies(c, i)) <= MostJobs
    <3>1. Busy(c) \in Nat
      BY BusyFinite
    <3> HIDE DEF J
    <3> QED BY <1>1, <1>3, <3>1, ConstantFacts
  <2> QED BY <1>3, <2>1, <2>2, FS_Subset, ConstantFacts
<1>5. \E n \in 0..MostJobs : n \notin Copies(c, i)
  BY <1>4
<1>6. Unused(c, i) \in 0..MostJobs /\ Unused(c, i) \notin Copies(c, i)
  BY <1>5 DEF Unused
<1> QED BY <1>6, ConstantFacts

\* The calls that begin: one for each entry, by this consumer, and all of them run.
LEMMA BeganFacts ==
  ASSUME Typed, IsFiniteSet(jobs), NEW c \in Consumer, Busy(c) <= MostJobs,
         NEW ids, ids \subseteq Id
  PROVE  /\ Began(c, ids) \subseteq JobOn(Id)
         /\ jobs \subseteq Began(c, ids)
         /\ \A k \in Began(c, ids) \ jobs : k.c = c /\ k.i \in ids /\ k.pc = "run"
         /\ \A k, l \in Began(c, ids) \ jobs : k.i = l.i => k = l
<1> DEFINE R(i) == [c |-> c, i |-> i, n |-> Unused(c, i), pc |-> "run", inner |-> FALSE]
<1>1. \A i \in ids : R(i) \in JobOn(Id)
  BY UnusedExists DEF JobOn, JobPhases
<1>2. \A k \in Began(c, ids) \ jobs : \E i \in ids : k = R(i)
  BY DEF Began
<1>3. \A i : R(i).c = c /\ R(i).i = i /\ R(i).pc = "run"
  OBVIOUS
<1>4. jobs \subseteq Began(c, ids)
  BY DEF Began
<1>5. Began(c, ids) \subseteq JobOn(Id)
  BY <1>1, <1>2 DEF Typed
<1> HIDE DEF R
<1>6. \A k, l \in Began(c, ids) \ jobs : k.i = l.i => k = l
  BY <1>2, <1>3
<1> QED BY <1>2, <1>3, <1>4, <1>5, <1>6

\* What a consumer has in process grows by the entries it begins, at most.
LEMMA BeganBounded ==
  ASSUME IsFiniteSet(jobs), NEW c \in Consumer, NEW ids, IsFiniteSet(ids), jobs' = Began(c, ids)
  PROVE  /\ IsFiniteSet(jobs')
         /\ Busy(c)' <= Busy(c) + Cardinality(ids)
         /\ \A d \in Consumer \ {c} : Busy(d)' = Busy(d)
<1> DEFINE R(i) == [c |-> c, i |-> i, n |-> Unused(c, i), pc |-> "run", inner |-> FALSE]
           New == {R(i) : i \in ids}
           f == [i \in ids |-> R(i)]
           Old == {j \in jobs : j.c = c}
<1>1. f \in [ids -> New] /\ \A t \in New : \E i \in ids : f[i] = t
  OBVIOUS
<1>2. IsFiniteSet(New) /\ Cardinality(New) \in Nat /\ Cardinality(New) <= Cardinality(ids)
  <2> HIDE DEF f, New
  <2> QED BY <1>1, ImageBounded
<1>3. jobs' = jobs \cup New
  BY DEF Began
<1>4. \A k \in New : k.c = c
  OBVIOUS
<1> HIDE DEF New, R
<1>5. IsFiniteSet(jobs')
  BY <1>2, <1>3, FS_Union
<1>6. {j \in jobs' : j.c = c} = Old \cup New
  BY <1>3, <1>4
<1>7. IsFiniteSet(Old) /\ Cardinality(Old) \in Nat
  BY FS_Subset, FS_CardinalityType
<1>8. Busy(c)' = Cardinality(Old \cup New)
  BY <1>6 DEF Busy
<1>9. Cardinality(Old \cup New) <= Cardinality(Old) + Cardinality(New)
  <2>1. IsFiniteSet(Old \cap New) /\ Cardinality(Old \cap New) \in Nat
    BY <1>7, FS_Subset, FS_CardinalityType
  <2>2. Cardinality(Old \cup New) = Cardinality(Old) + Cardinality(New) - Cardinality(Old \cap New)
    <3> HIDE DEF Old
    <3> QED BY <1>2, <1>7, FS_Union
  <2> HIDE DEF Old
  <2> QED BY <1>2, <1>7, <2>1, <2>2
<1>10. \A d \in Consumer \ {c} : {j \in jobs' : j.c = d} = {j \in jobs : j.c = d}
  BY <1>3, <1>4
<1>11. Cardinality(ids) \in Nat
  BY FS_CardinalityType
<1>12. Busy(c)' <= Busy(c) + Cardinality(ids)
  <2>1. Busy(c) = Cardinality(Old)
    BY DEF Busy
  <2>2. Cardinality(Old \cup New) \in Nat
    BY <1>2, <1>7, FS_Union, FS_CardinalityType
  <2> HIDE DEF Old
  <2> QED BY <1>2, <1>7, <1>8, <1>9, <1>11, <2>1, <2>2
<1> QED BY <1>5, <1>10, <1>12 DEF Busy

\* A step that ends calls, or moves one of them on, makes nobody busier.
LEMMA MovedBounded ==
  ASSUME IsFiniteSet(jobs), NEW j \in jobs, NEW k, k.c = j.c, jobs' \subseteq (jobs \ {j}) \cup {k}
  PROVE  IsFiniteSet(jobs') /\ \A c \in Consumer : Busy(c)' <= Busy(c) /\ Busy(c)' \in Nat
<1>1. IsFiniteSet(jobs \ {j})
  BY FS_RemoveElement
<1>2. IsFiniteSet((jobs \ {j}) \cup {k})
  BY <1>1, FS_AddElement
<1>3. IsFiniteSet(jobs')
  BY <1>2, FS_Subset
<1>4. ASSUME NEW c \in Consumer PROVE Busy(c)' <= Busy(c) /\ Busy(c)' \in Nat
  <2> DEFINE Old == {x \in jobs : x.c = c}
             After == {x \in jobs' : x.c = c}
  <2>1. IsFiniteSet(Old) /\ Cardinality(Old) \in Nat /\ IsFiniteSet(After) /\ Cardinality(After) \in Nat
    BY <1>3, FS_Subset, FS_CardinalityType
  <2>2. CASE j.c # c
    <3>1. After \subseteq Old
      BY <2>2
    <3> QED BY <2>1, <3>1, FS_Subset DEF Busy
  <2>3. CASE j.c = c
    <3>1. After \subseteq (Old \ {j}) \cup {k}
      BY <2>3
    <3>2. IsFiniteSet(Old \ {j}) /\ Cardinality(Old \ {j}) = Cardinality(Old) - 1
      BY <2>1, <2>3, FS_RemoveElement
    <3>3. IsFiniteSet((Old \ {j}) \cup {k}) /\ Cardinality((Old \ {j}) \cup {k}) <= Cardinality(Old)
      <4> HIDE DEF Old
      <4>1. /\ IsFiniteSet((Old \ {j}) \cup {k})
            /\ Cardinality((Old \ {j}) \cup {k}) = IF k \in Old \ {j} THEN Cardinality(Old \ {j}) ELSE Cardinality(Old \ {j}) + 1
        BY <3>2, FS_AddElement
      <4> QED BY <2>1, <3>2, <4>1
    <3>4. Cardinality(After) <= Cardinality((Old \ {j}) \cup {k}) /\ Cardinality((Old \ {j}) \cup {k}) \in Nat
      BY <3>1, <3>3, FS_Subset, FS_CardinalityType
    <3> HIDE DEF Old, After
    <3>5. Cardinality(After) <= Cardinality(Old)
      BY <2>1, <3>3, <3>4
    <3> QED BY <2>1, <3>5 DEF Busy, Old, After
  <2> QED BY <2>2, <2>3
<1> QED BY <1>3, <1>4

\* What the commands make of the log: an entry more, other holders, an entry less to do.
LEMMA LogFacts ==
  ASSUME Typed
  PROVE  /\ Len(log) \in Nat /\ Id = 1..Len(log) /\ log \in [Id -> LogEntry]
         /\ \A i \in Id : /\ i \in Nat /\ log[i] \in LogEntry /\ log[i].msg \in Msg
                          /\ log[i].att \in 1..MaxRetries
<1>1. Len(log) \in Nat /\ Id = 1..Len(log) /\ log \in [Id -> LogEntry]
  <2>1. log \in Seq(LogEntry)
    BY DEF Typed
  <2> QED BY <2>1, LenProperties DEF Id
<1> QED BY <1>1 DEF LogEntry

LEMMA LogFactsNext ==
  ASSUME Typed'
  PROVE  \A i \in Id' : /\ i \in Nat /\ log'[i] \in LogEntry /\ log'[i].msg \in Msg
                        /\ log'[i].att \in 1..MaxRetries
<1>1. log' \in Seq(LogEntry)
  BY DEF Typed
<1>2. Len(log') \in Nat /\ Id' = 1..Len(log') /\ log' \in [1..Len(log') -> LogEntry]
  BY <1>1, LenProperties DEF Id
<1> QED BY <1>2 DEF LogEntry

\* What an entry becomes keeps its message and its attempt.
LEMMA NowFacts ==
  ASSUME Typed, NEW i \in Id, NEW by \in Consumer \cup {None}, NEW idle \in BOOLEAN, NEW st \in LogStates
  PROVE  /\ Now(i, by, idle, st) \in LogEntry
         /\ Now(i, by, idle, st).msg = log[i].msg /\ Now(i, by, idle, st).att = log[i].att
         /\ Now(i, by, idle, st).idle = idle /\ Now(i, by, idle, st).st = st
BY LogFacts DEF Now, LogEntry

LEMMA AddedFacts ==
  ASSUME Typed, NEW m \in Msg, NEW att \in 1..MaxRetries, log' = Added(m, att)
  PROVE  /\ log' \in Seq(LogEntry)
         /\ Id' = Id \cup {Len(log) + 1} /\ \A i \in Id : i < Len(log) + 1 /\ log'[i] = log[i]
         /\ log'[Len(log) + 1] = Entry(m, att)
         /\ Entry(m, att).msg = m /\ Entry(m, att).att = att /\ ~Entry(m, att).idle
         /\ Entry(m, att).st = IF group THEN "new" ELSE "missed"
<1>1. Entry(m, att) \in LogEntry
  BY DEF Entry, LogEntry, LogStates
<1>2. log \in Seq(LogEntry) /\ log' = Append(log, Entry(m, att))
  BY DEF Added, Typed
<1>3. /\ log' \in Seq(LogEntry) /\ Len(log') = Len(log) + 1
      /\ \A i \in 1..Len(log) : log'[i] = log[i]
      /\ log'[Len(log) + 1] = Entry(m, att)
  BY <1>1, <1>2, AppendProperties
<1>4. Len(log) \in Nat /\ Id = 1..Len(log) /\ DOMAIN log' = 1..Len(log')
  BY <1>2, <1>3, LenProperties DEF Id
<1>5. Id' = 1..(Len(log) + 1)
  BY <1>3, <1>4 DEF Id
<1> QED BY <1>3, <1>4, <1>5 DEF Entry

LEMMA GivenFacts ==
  ASSUME Typed, NEW c \in Consumer, NEW ids, ids \subseteq Id, log' = Given(c, ids)
  PROVE  /\ log' \in Seq(LogEntry) /\ Id' = Id
         /\ \A i \in Id : /\ log'[i].msg = log[i].msg /\ log'[i].att = log[i].att
                          /\ i \notin ids => log'[i] = log[i]
                          /\ i \in ids => log'[i].st = "pending" /\ ~log'[i].idle
<1>1. \A i \in Id : log'[i] = IF i \in ids THEN Now(i, c, FALSE, "pending") ELSE log[i]
  BY DEF Given
<1>2. Id' = 1..Len(log) /\ Len(log) \in Nat
  BY LogFacts DEF Given, Id
<1>3. \A i \in Id : /\ log'[i] \in LogEntry
                    /\ log'[i].msg = log[i].msg /\ log'[i].att = log[i].att
                    /\ i \in ids => log'[i].st = "pending" /\ ~log'[i].idle
  <2> SUFFICES ASSUME NEW i \in Id
               PROVE  /\ log'[i] \in LogEntry
                      /\ log'[i].msg = log[i].msg /\ log'[i].att = log[i].att
                      /\ i \in ids => log'[i].st = "pending" /\ ~log'[i].idle
    OBVIOUS
  <2>1. CASE i \in ids
    <3>1. log'[i] = Now(i, c, FALSE, "pending")
      BY <1>1, <2>1
    <3>2. FALSE \in BOOLEAN /\ "pending" \in LogStates /\ c \in Consumer \cup {None}
      BY DEF LogStates
    <3> DEFINE e == Now(i, c, FALSE, "pending")
    <3>3. e \in LogEntry /\ e.msg = log[i].msg /\ e.att = log[i].att /\ ~e.idle /\ e.st = "pending"
      BY <3>2, LogFacts DEF Now, LogEntry
    <3> HIDE DEF e
    <3> QED BY <3>1, <3>3 DEF e
  <2>2. CASE i \notin ids
    BY <1>1, <2>2, LogFacts
  <2> QED BY <2>1, <2>2
<1>4. log' \in [1..Len(log) -> LogEntry]
  BY <1>2, <1>3, LogFacts DEF Given
<1>5. log' \in Seq(LogEntry)
  BY <1>2, <1>4
<1> QED BY <1>1, <1>2, <1>3, <1>5, LogFacts

LEMMA AckedFacts ==
  ASSUME Typed, NEW i \in Id, log' = Acked(i)
  PROVE  /\ log' \in Seq(LogEntry) /\ Id' = Id
         /\ \A k \in Id : /\ log'[k].msg = log[k].msg /\ log'[k].att = log[k].att /\ log'[k].idle = log[k].idle
                          /\ k # i => log'[k] = log[k]
         /\ log'[i].st = IF log[i].st = "pending" THEN "acked" ELSE log[i].st
<1> DEFINE st == IF log[i].st = "pending" THEN "acked" ELSE log[i].st
           e == Now(i, log[i].by, log[i].idle, st)
<1>1. log' = [log EXCEPT ![i] = e]
  BY DEF Acked
<1>2. st \in LogStates /\ log[i].by \in Consumer \cup {None} /\ log[i].idle \in BOOLEAN
  BY LogFacts DEF LogEntry, LogStates
<1>3. e \in LogEntry /\ e.msg = log[i].msg /\ e.att = log[i].att /\ e.idle = log[i].idle /\ e.st = st
  <2> HIDE DEF st
  <2> QED BY <1>2, NowFacts
<1> HIDE DEF e, st
<1>4. log' \in [1..Len(log) -> LogEntry] /\ Len(log) \in Nat
  BY <1>1, <1>3, LogFacts
<1>5. log' \in Seq(LogEntry)
  BY <1>4
<1>6. Id' = Id /\ \A k \in Id : log'[k] = IF k = i THEN e ELSE log[k]
  BY <1>1, LogFacts DEF Id
<1> QED BY <1>3, <1>5, <1>6 DEF st

--------------------------------------------------------------------------------
(* Type correctness. *)

\* Entries are never removed: what loops and jobs hold stays what it is.
LEMMA HandsKept ==
  ASSUME Typed, Id \subseteq Id'
  PROVE  /\ poll \in [Consumer -> [pc : PollPhases, ids : SUBSET (Id')]]
         /\ claim \in [Consumer -> [pc : ClaimPhases, ids : SUBSET (Id')]]
         /\ JobOn(Id) \subseteq JobOn(Id')
BY DEF Typed, JobOn

LEMMA JobFacts ==
  ASSUME Typed, NEW j \in jobs
  PROVE  /\ j \in JobOn(Id) /\ j.c \in Consumer /\ j.i \in Id /\ j.inner \in BOOLEAN /\ j.pc \in JobPhases
         /\ j.n \in Nat
         /\ log[j.i].msg \in Msg /\ log[j.i].att \in 1..MaxRetries
         /\ AfterFailure(j.i) \in {"bury", "backoff"}
<1>1. j \in JobOn(Id)
  BY DEF Typed
<1>2. /\ j.c \in Consumer /\ j.i \in Id /\ j.inner \in BOOLEAN /\ j.pc \in JobPhases /\ j.n \in Nat
  BY <1>1 DEF JobOn
<1> QED BY <1>1, <1>2, LogFacts DEF AfterFailure

\* Where a job goes: it is replaced by one of the same consumer on the same entry.
LEMMA AtFacts ==
  ASSUME Typed, NEW j \in jobs, NEW pc \in JobPhases, NEW inner \in BOOLEAN
  PROVE  /\ At(j, pc, inner) \subseteq JobOn(Id)
         /\ \A k \in At(j, pc, inner) : k \in jobs \ {j} \/ (k.c = j.c /\ k.i = j.i /\ k.pc = pc)
         /\ \E k : k.c = j.c /\ k.i = j.i /\ k.pc = pc /\ At(j, pc, inner) = (jobs \ {j}) \cup {k}
<1> DEFINE k == [c |-> j.c, i |-> j.i, n |-> j.n, pc |-> pc, inner |-> inner]
<1>1. k \in JobOn(Id) /\ k.c = j.c /\ k.i = j.i /\ k.pc = pc
  BY JobFacts DEF JobOn
<1>2. At(j, pc, inner) = (jobs \ {j}) \cup {k} /\ jobs \subseteq JobOn(Id)
  BY DEF At, Typed
<1> HIDE DEF k
<1> QED BY <1>1, <1>2

\* An attempt's end: the jobs after it are jobs on known entries, and one of them moved.
Moved(j) ==
  /\ jobs' \subseteq JobOn(Id)
  /\ \E k : /\ k.c = j.c /\ k.i = j.i
            /\ jobs' = jobs \ {j} \/ jobs' = (jobs \ {j}) \cup {k}
            /\ k.pc \in {"ack", "drop", "bury", "backoff"}
            /\ k.pc \in {"bury", "backoff"} => k.pc = AfterFailure(j.i) /\ failed' = [failed EXCEPT ![log[j.i].msg] = @ + 1]

LEMMA JobStepMoves ==
  ASSUME Typed, NEW j \in jobs, JobStep(j) \/ AckFails(j) \/ FailureFails(j) \/ LosesConnection(j)
  PROVE  Moved(j)
<1>1. /\ AfterFailure(j.i) \in JobPhases /\ "ack" \in JobPhases /\ "drop" \in JobPhases
      /\ TRUE \in BOOLEAN /\ FALSE \in BOOLEAN /\ j.inner \in BOOLEAN
      /\ AfterFailure(j.i) \in {"bury", "backoff"}
  BY JobFacts DEF JobPhases
<1>2. CASE jobs' = jobs \ {j}
  <2>1. jobs' \subseteq JobOn(Id)
    BY <1>2 DEF Typed
  <2>2. \E k : k.c = j.c /\ k.i = j.i /\ k.pc = "ack"
    BY <1>1, AtFacts
  <2> QED BY <1>2, <2>1, <2>2 DEF Moved
<1>3. ASSUME NEW pc \in {"ack", "drop"}, jobs' = Goes(j, pc) PROVE Moved(j)
  BY <1>1, <1>3, AtFacts DEF Moved, Goes
<1>4. ASSUME NEW inner \in BOOLEAN, jobs' = At(j, AfterFailure(j.i), inner), Failed(j) PROVE Moved(j)
  BY <1>1, <1>4, AtFacts DEF Moved, Failed
<1>5. ASSUME Throws(j) PROVE Moved(j)
  BY <1>1, <1>2, <1>4, <1>5 DEF Throws, Goes
<1>6. ASSUME FailsAgain(j) PROVE Moved(j)
  BY <1>1, <1>2, <1>4, <1>6 DEF FailsAgain
<1>7. CASE JobStep(j)
  BY <1>1, <1>2, <1>3, <1>4, <1>5, <1>7 DEF JobStep, Unreadable, Succeeds, Rejects, Ack, Readd, Bury, Drop
<1>8. CASE AckFails(j) \/ FailureFails(j)
  BY <1>2, <1>6, <1>8 DEF AckFails, FailureFails, GivesUp
<1>9. CASE LosesConnection(j)
  BY <1>2, <1>9 DEF LosesConnection
<1> QED BY <1>7, <1>8, <1>9

\* What such a step writes: nothing, a new entry for the next attempt, a dead letter or an
\* acknowledgement.
LEMMA JobStepWrites ==
  ASSUME Typed, Earned, NEW j \in jobs, JobStep(j) \/ AckFails(j) \/ FailureFails(j) \/ LosesConnection(j)
  PROVE  /\ \/ log' = log
            \/ j.pc = "backoff" /\ log' = Added(log[j.i].msg, log[j.i].att + 1) /\ log[j.i].att + 1 \in 1..MaxRetries
            \/ j.pc \in {"ack", "drop"} /\ log' = Acked(j.i)
         /\ dlq' = dlq \/ (j.pc = "bury" /\ dlq' = Buried(j))
         /\ handled' = handled \/ (j.pc = "run" /\ Handled(j))
         /\ failed' = failed \/ Failed(j)
         /\ UNCHANGED <<group, life, poll, claim, requeue, crashes, slow, requeues>>
         /\ faults' = faults \/ faults' = faults + 1
<1>1. j.pc = "backoff" => log[j.i].att + 1 \in 1..MaxRetries
  BY JobFacts, ConstantFacts DEF Earned
<1>2. CASE JobStep(j)
  BY <1>1, <1>2 DEF JobStep, Unreadable, Succeeds, Throws, Rejects, Ack, Readd, Bury, Drop, JobVars, budgets
<1>3. CASE AckFails(j) \/ LosesConnection(j)
  BY <1>3 DEF AckFails, LosesConnection, FailsAgain, Faulty, JobVars
<1>4. CASE FailureFails(j)
  BY <1>1, <1>4 DEF FailureFails, FailsAgain, Faulty, JobVars
<1> QED BY <1>2, <1>3, <1>4

\* Counters stay counters.
LEMMA Bumped ==
  ASSUME NEW f \in [Msg -> Nat], NEW m \in Msg
  PROVE  /\ [f EXCEPT ![m] = @ + 1] \in [Msg -> Nat]
         /\ \A x \in Msg : [f EXCEPT ![m] = @ + 1][x] = IF x = m THEN f[x] + 1 ELSE f[x]
         /\ f[m] > 0 => [f EXCEPT ![m] = @ - 1] \in [Msg -> Nat]
OBVIOUS

LEMMA TypedStep ==
  ASSUME Typed, Bounded, Earned, [Next]_vars
  PROVE  Typed'
<1>1. ASSUME NEW m \in Msg, Publish(m) \/ Requeue(m) PROVE Typed'
  <2>1. log' = Added(m, 1) /\ 1 \in 1..MaxRetries
    BY <1>1, ConstantFacts DEF Publish, Requeue
  <2>2. log' \in Seq(LogEntry) /\ Id \subseteq Id'
    BY <2>1, AddedFacts
  <2>3. /\ UNCHANGED <<group, dlq, life, poll, claim, jobs, handled, failed, faults, crashes, slow>>
        /\ requeue' = requeue \/ requeue' = m
        /\ requeues' = requeues \/ requeues' = requeues + 1
    BY <1>1 DEF Publish, Requeue, budgets
  <2>4. /\ poll' \in [Consumer -> [pc : PollPhases, ids : SUBSET (Id')]]
        /\ claim' \in [Consumer -> [pc : ClaimPhases, ids : SUBSET (Id')]]
        /\ jobs' \subseteq JobOn(Id')
    BY <2>2, <2>3, HandsKept DEF Typed
  <2> QED BY <2>2, <2>3, <2>4 DEF Typed
<1>2. ASSUME NEW m \in Msg, RequeueDel(m) PROVE Typed'
  <2>1. dlq' \in [Msg -> Nat]
    BY <1>2, Bumped, ConstantFacts DEF RequeueDel, Earned, Typed
  <2> QED BY <1>2, <2>1 DEF RequeueDel, Typed, budgets, Id
<1>3. ASSUME NEW m \in Msg, RequeueFails(m) PROVE Typed'
  BY <1>3 DEF RequeueFails, Typed, budgets, Id
<1>4. ASSUME NEW c \in Consumer, Start(c) PROVE Typed'
  BY <1>4 DEF Start, Typed, budgets, Loop, Id, PollPhases, ClaimPhases
<1>5. ASSUME NEW c \in Consumer, Read(c) \/ ReadNothing(c) \/ PollEnds(c) \/ ClaimEnds(c) \/ Stop(c) PROVE Typed'
  <2>1. CASE Read(c)
    BY <2>1 DEF Read, Typed, PollVars, budgets, Loop, Id, PollPhases
  <2>2. CASE ReadNothing(c)
    BY <2>2 DEF ReadNothing, Typed, PollVars, budgets, Loop, Id, PollPhases
  <2>3. CASE PollEnds(c)
    BY <2>3 DEF PollEnds, Typed, PollVars, budgets, Loop, Id, PollPhases
  <2>4. CASE ClaimEnds(c)
    BY <2>4 DEF ClaimEnds, Typed, ClaimVars, budgets, Loop, Id, ClaimPhases
  <2>5. CASE Stop(c)
    BY <2>5 DEF Stop, Typed, budgets, Id
  <2> QED BY <1>5, <2>1, <2>2, <2>3, <2>4, <2>5
<1>6. ASSUME NEW c \in Consumer, ReadExec(c) PROVE Typed'
  <2> DEFINE ids == First(InState("new"), BatchSize)
  <2>1. ids \subseteq Id
    BY DEF First, InState
  <2>2. log' = Given(c, ids)
    BY <1>6 DEF ReadExec
  <2>3. log' \in Seq(LogEntry) /\ Id' = Id
    BY <2>1, <2>2, GivenFacts
  <2>4. poll' = [poll EXCEPT ![c] = IF poll[c].pc = "orphan" THEN Loop("done") ELSE [pc |-> "answered", ids |-> ids]]
    BY <1>6 DEF ReadExec
  <2>5. poll' \in [Consumer -> [pc : PollPhases, ids : SUBSET Id]]
    <3> HIDE DEF ids
    <3> QED BY <2>1, <2>4 DEF Typed, Loop, PollPhases
  <2> QED BY <1>6, <2>3, <2>5 DEF ReadExec, Typed, PollVars, budgets
<1>7. ASSUME NEW c \in Consumer, Deliver(c) PROVE Typed'
  <2>1. Busy(c) <= MostJobs /\ poll[c].ids \subseteq Id
    BY DEF Bounded, Typed
  <2>2. jobs' \subseteq JobOn(Id)
    BY <1>7, <2>1, BeganFacts DEF Deliver, Bounded
  <2> QED BY <1>7, <2>2 DEF Deliver, Typed, PollVars, budgets, Loop, Id, PollPhases
<1>8. ASSUME NEW c \in Consumer, Scan(c) PROVE Typed'
  <2>1. {i \in Scanned : Idle(i)} \subseteq Id
    BY DEF Scanned, First, InState
  <2>2. claim' \in [Consumer -> [pc : ClaimPhases, ids : SUBSET Id]]
    BY <1>8, <2>1 DEF Scan, Typed, Loop, ClaimPhases
  <2> QED BY <1>8, <2>2 DEF Scan, Typed, ClaimVars, budgets, Id
<1>9. ASSUME NEW c \in Consumer, ClaimExec(c) \/ ClaimFails(c) PROVE Typed'
  <2>1. Claimable(c) \subseteq Id
    BY DEF Claimable, Typed
  <2>2. log' = log \/ log' = Given(c, Claimable(c))
    BY <1>9 DEF ClaimExec, ClaimFails
  <2>3. log' \in Seq(LogEntry) /\ Id' = Id
    <3>1. CASE log' = log
      BY <3>1 DEF Id, Typed
    <3>2. CASE log' = Given(c, Claimable(c))
      BY <2>1, <3>2, GivenFacts
    <3> QED BY <2>2, <3>1, <3>2
  <2>4. claim' \in [Consumer -> [pc : ClaimPhases, ids : SUBSET Id]]
    <3>1. CASE ClaimExec(c)
      BY <2>1, <3>1 DEF ClaimExec, Typed, Loop, ClaimPhases
    <3>2. CASE ClaimFails(c)
      BY <3>2 DEF ClaimFails, Typed, Loop, ClaimPhases
    <3> QED BY <1>9, <3>1, <3>2
  <2>5. /\ UNCHANGED <<group, dlq, life, poll, jobs, requeue, handled, failed, crashes, slow, requeues>>
        /\ faults' = faults \/ faults' = faults + 1
    BY <1>9 DEF ClaimExec, ClaimFails, ClaimVars, budgets, Faulty
  <2> QED BY <2>3, <2>4, <2>5 DEF Typed
<1>10. ASSUME NEW c \in Consumer, Spawn(c) PROVE Typed'
  <2> DEFINE one == First(claim[c].ids, 1)
  <2>1. Busy(c) <= MostJobs /\ one \subseteq Id /\ claim[c].ids \ one \subseteq Id
    BY DEF Bounded, Typed, First
  <2>2. jobs' \subseteq JobOn(Id)
    BY <1>10, <2>1, BeganFacts DEF Spawn, Bounded
  <2>3. claim' = [claim EXCEPT ![c] = IF claim[c].ids \ one = {} THEN Loop("asleep") ELSE [pc |-> "claimed", ids |-> claim[c].ids \ one]]
    BY <1>10 DEF Spawn
  <2>4. claim' \in [Consumer -> [pc : ClaimPhases, ids : SUBSET Id]]
    <3> HIDE DEF one
    <3> QED BY <2>1, <2>3 DEF Typed, Loop, ClaimPhases
  <2> QED BY <1>10, <2>2, <2>4 DEF Spawn, Typed, ClaimVars, budgets, Id
<1>11. ASSUME NEW c \in Consumer, ReadFails(c) PROVE Typed'
  <2>1. poll' \in [Consumer -> [pc : PollPhases, ids : SUBSET Id]]
    BY <1>11 DEF ReadFails, Typed, Loop, PollPhases
  <2> QED BY <1>11, <2>1 DEF ReadFails, Typed, PollVars, Faulty, Id
<1>12. ASSUME NEW c \in Consumer, Drained(c) \/ Crash(c) PROVE Typed'
  <2>1. jobs' \subseteq JobOn(Id) /\ UNCHANGED <<log, group, dlq, requeue, handled, failed>>
    BY <1>12 DEF Drained, Crash, Gone, Typed
  <2>2. life' \in [Consumer -> {"new", "up", "stopping", "gone"}]
    BY <1>12 DEF Drained, Crash, Gone, Typed
  <2>3. /\ poll' \in [Consumer -> [pc : PollPhases, ids : SUBSET Id]]
        /\ claim' \in [Consumer -> [pc : ClaimPhases, ids : SUBSET Id]]
    <3>1. poll' = poll \/ poll' = [poll EXCEPT ![c] = Loop("done")]
      BY <1>12 DEF Drained, Crash
    <3>2. claim' = [claim EXCEPT ![c] = Loop("done")]
      BY <1>12 DEF Drained, Crash, Gone
    <3>3. Loop("done") \in [pc : PollPhases, ids : SUBSET Id] /\ Loop("done") \in [pc : ClaimPhases, ids : SUBSET Id]
      BY DEF Loop, PollPhases, ClaimPhases
    <3>4. poll' \in [Consumer -> [pc : PollPhases, ids : SUBSET Id]]
      BY <3>1, <3>3 DEF Typed
    <3>5. claim' \in [Consumer -> [pc : ClaimPhases, ids : SUBSET Id]]
      BY <3>2, <3>3 DEF Typed
    <3> QED BY <3>4, <3>5
  <2> QED BY <1>12, <2>1, <2>2, <2>3 DEF Drained, Crash, Typed, budgets, Id
<1>13. ASSUME NEW j \in jobs, JobStep(j) \/ AckFails(j) \/ FailureFails(j) \/ LosesConnection(j) PROVE Typed'
  <2>1. jobs' \subseteq JobOn(Id)
    BY <1>13, JobStepMoves DEF Moved
  <2>2. log[j.i].msg \in Msg /\ j.i \in Id
    BY JobFacts
  <2>3. log' \in Seq(LogEntry) /\ Id \subseteq Id'
    <3>1. CASE log' = log
      BY <3>1 DEF Id, Typed
    <3>2. CASE log' = Added(log[j.i].msg, log[j.i].att + 1) /\ log[j.i].att + 1 \in 1..MaxRetries
      BY <2>2, <3>2, AddedFacts
    <3>3. CASE log' = Acked(j.i)
      BY <2>2, <3>3, AckedFacts
    <3> QED BY <1>13, <3>1, <3>2, <3>3, JobStepWrites
  <2>4. dlq' \in [Msg -> Nat] /\ handled' \in [Msg -> Nat] /\ failed' \in [Msg -> Nat]
    <3>1. dlq' = dlq \/ dlq' = Buried(j)
      BY <1>13, JobStepWrites
    <3>2. handled' = handled \/ Handled(j)
      BY <1>13, JobStepWrites
    <3>3. failed' = failed \/ Failed(j)
      BY <1>13, JobStepWrites
    <3>4. dlq \in [Msg -> Nat] /\ handled \in [Msg -> Nat] /\ failed \in [Msg -> Nat]
      BY DEF Typed
    <3>5. dlq' \in [Msg -> Nat]
      BY <2>2, <3>1, <3>4, Bumped DEF Buried
    <3>6. handled' \in [Msg -> Nat]
      BY <2>2, <3>2, <3>4, Bumped DEF Handled
    <3>7. failed' \in [Msg -> Nat]
      BY <2>2, <3>3, <3>4, Bumped DEF Failed
    <3> QED BY <3>5, <3>6, <3>7
  <2>5. /\ UNCHANGED <<group, life, poll, claim, requeue, crashes, slow, requeues>>
        /\ faults' = faults \/ faults' = faults + 1
    BY <1>13, JobStepWrites
  <2>6. /\ poll' \in [Consumer -> [pc : PollPhases, ids : SUBSET (Id')]]
        /\ claim' \in [Consumer -> [pc : ClaimPhases, ids : SUBSET (Id')]]
        /\ jobs' \subseteq JobOn(Id')
    BY <2>1, <2>3, <2>5, HandsKept
  <2>7. JobOn(Id)' = JobOn(Id')
    BY DEF JobOn
  <2> QED BY <2>3, <2>4, <2>5, <2>6, <2>7 DEF Typed
<1>14. ASSUME CreateGroup PROVE Typed'
  <2>1. log' \in Seq(LogEntry) /\ Id' = Id
    <3>1. \A i \in Id : log'[i] \in LogEntry
      BY <1>14, LogFacts DEF CreateGroup, Now, LogEntry, LogStates
    <3>2. log' \in [1..Len(log) -> LogEntry] /\ Len(log) \in Nat
      BY <1>14, <3>1, LogFacts DEF CreateGroup
    <3> QED BY <1>14, <3>2, LogFacts DEF CreateGroup, Id
  <2> QED BY <1>14, <2>1 DEF CreateGroup, Typed, budgets
<1>15. ASSUME Tick PROVE Typed'
  <2>1. log' \in Seq(LogEntry) /\ Id' = Id
    <3>1. \A i \in Id : log'[i] \in LogEntry
      BY <1>15, LogFacts DEF Tick, Now, LogEntry, LogStates
    <3>2. log' \in [1..Len(log) -> LogEntry] /\ Len(log) \in Nat
      BY <1>15, <3>1, LogFacts DEF Tick
    <3> QED BY <1>15, <3>2, LogFacts DEF Tick, Id
  <2>2. claim' \in [Consumer -> [pc : ClaimPhases, ids : SUBSET Id]]
    BY <1>15 DEF Tick, Typed, Loop, ClaimPhases
  <2> QED BY <1>15, <2>1, <2>2 DEF Tick, Typed
<1>16. CASE UNCHANGED vars
  BY <1>16 DEF Typed, vars, budgets, Id
<1> QED
  BY <1>1, <1>2, <1>3, <1>4, <1>5, <1>6, <1>7, <1>8, <1>9, <1>10, <1>11, <1>12, <1>13, <1>14, <1>15, <1>16
  DEF Next, PollStep, ClaimStep

--------------------------------------------------------------------------------
(* No consumer takes on more than its slots and one batch. *)

LEMMA BoundedStep ==
  ASSUME Typed, Bounded, [Next]_vars
  PROVE  Bounded'
<1>1. \A c \in Consumer : Busy(c) \in Nat
  BY BusyFinite DEF Bounded
<1>2. Cardinality({}) = 0 /\ BatchSize \in Nat
  BY FS_EmptySet, ConstantFacts
\* Most steps make nobody busier, and no loop begins to read.
<1>3. ASSUME IsFiniteSet(jobs'), \A c \in Consumer : Busy(c)' <= Busy(c) /\ Busy(c)' \in Nat,
             \A c \in Consumer : /\ poll'[c].pc \in {"reading", "answered"} => poll[c].pc \in {"reading", "answered"}
                                 /\ poll'[c].ids = poll[c].ids \/ Cardinality(poll'[c].ids) <= BatchSize
      PROVE  Bounded'
  <2> SUFFICES ASSUME NEW c \in Consumer
               PROVE  /\ Busy(c)' <= MostJobs
                      /\ poll'[c].pc \in {"reading", "answered"} => Busy(c)' <= Concurrency
                      /\ Cardinality(poll'[c].ids) <= BatchSize
    BY <1>3 DEF Bounded
  <2>1. Busy(c)' <= MostJobs
    BY <1>1, <1>3, ConstantFacts DEF Bounded
  <2>2. poll'[c].pc \in {"reading", "answered"} => Busy(c)' <= Concurrency
    BY <1>1, <1>3, ConstantFacts DEF Bounded
  <2>3. Cardinality(poll'[c].ids) <= BatchSize
    BY <1>3 DEF Bounded
  <2> QED BY <2>1, <2>2, <2>3
<1>4. ASSUME jobs' = jobs
      PROVE  IsFiniteSet(jobs') /\ \A c \in Consumer : Busy(c)' <= Busy(c) /\ Busy(c)' \in Nat
  BY <1>1, <1>4 DEF Bounded, Busy
<1>5. ASSUME jobs' = jobs, poll' = poll PROVE Bounded'
  BY <1>3, <1>4, <1>5
<1>6. ASSUME NEW c \in Consumer, jobs' = jobs, NEW pc \in {"ready", "orphan", "done"}, poll' = [poll EXCEPT ![c] = Loop(pc)]
      PROVE  Bounded'
  <2>1. \A d \in Consumer : poll'[d] = IF d = c THEN Loop(pc) ELSE poll[d]
    BY <1>6 DEF Typed
  <2>2. Loop(pc).pc = pc /\ Cardinality(Loop(pc).ids) <= BatchSize
    BY <1>2 DEF Loop
  <2> QED BY <1>3, <1>4, <1>6, <2>1, <2>2
<1>7. ASSUME NEW c \in Consumer, Read(c) PROVE Bounded'
  <2>1. \A d \in Consumer : poll'[d] = IF d = c THEN Loop("reading") ELSE poll[d]
    BY <1>7 DEF Read, Typed
  <2>2. Cardinality(Loop("reading").ids) <= BatchSize
    BY <1>2 DEF Loop
  <2>3. Busy(c) < Concurrency /\ jobs' = jobs
    BY <1>7 DEF Read, SlotFree
  <2>4. \A d \in Consumer : Busy(d)' = Busy(d)
    BY <2>3 DEF Busy
  <2> QED BY <1>1, <2>1, <2>2, <2>3, <2>4, ConstantFacts DEF Bounded
<1>8. ASSUME NEW c \in Consumer, ReadExec(c) PROVE Bounded'
  <2> DEFINE ids == First(InState("new"), BatchSize)
             batch == [pc |-> "answered", ids |-> ids]
  <2>1. Cardinality(ids) <= BatchSize
    <3>1. InState("new") \subseteq 1..Len(log) /\ Len(log) \in Nat
      BY LogFacts DEF InState
    <3> QED BY <1>2, <3>1, FirstBounded
  <2>2. \A d \in Consumer : poll'[d] = IF d = c THEN IF poll[c].pc = "orphan" THEN Loop("done") ELSE batch ELSE poll[d]
    BY <1>8 DEF ReadExec, Typed
  <2>3. poll[c].pc \in {"reading", "orphan"} /\ jobs' = jobs
    BY <1>8 DEF ReadExec
  <2>4. Loop("done").pc = "done" /\ Cardinality(Loop("done").ids) <= BatchSize
    BY <1>2 DEF Loop
  <2>5. batch.ids = ids
    OBVIOUS
  <2> HIDE DEF ids, batch
  <2> QED BY <1>3, <1>4, <2>1, <2>2, <2>3, <2>4, <2>5
<1>9. ASSUME NEW c \in Consumer, Deliver(c) PROVE Bounded'
  <2>1. poll[c].pc = "answered" /\ jobs' = Began(c, poll[c].ids)
    BY <1>9 DEF Deliver
  <2>2. Cardinality(poll[c].ids) <= BatchSize /\ Busy(c) <= Concurrency
    BY <2>1 DEF Bounded
  <2>3. IsFiniteSet(poll[c].ids) /\ Cardinality(poll[c].ids) \in Nat
    <3>1. IsFiniteSet(Id)
      BY LogFacts, FS_Interval
    <3> QED BY <3>1, FS_Subset, FS_CardinalityType DEF Typed
  <2>4. IsFiniteSet(jobs') /\ Busy(c)' <= Busy(c) + Cardinality(poll[c].ids) /\ \A d \in Consumer \ {c} : Busy(d)' = Busy(d)
    BY <2>1, <2>3, BeganBounded DEF Bounded
  <2>5. \A d \in Consumer : poll'[d] = IF d = c THEN Loop("ready") ELSE poll[d]
    BY <1>9 DEF Deliver, Typed
  <2>6. Loop("ready").pc = "ready" /\ Cardinality(Loop("ready").ids) <= BatchSize
    BY <1>2 DEF Loop
  <2>7. Busy(c)' \in Nat
    BY <2>4, FS_Subset, FS_CardinalityType DEF Busy
  <2>8. Busy(c)' <= MostJobs
    BY <1>1, <2>2, <2>3, <2>4, <2>7, ConstantFacts
  <2> QED BY <1>1, <2>4, <2>5, <2>6, <2>8 DEF Bounded
<1>10. ASSUME NEW c \in Consumer, Spawn(c) PROVE Bounded'
  <2> DEFINE one == First(claim[c].ids, 1)
  <2>1. jobs' = Began(c, one) /\ Busy(c) < Concurrency /\ poll' = poll
    BY <1>10 DEF Spawn, ClaimVars
  <2>2. IsFiniteSet(one) /\ Cardinality(one) \in Nat /\ Cardinality(one) <= 1
    <3>1. claim[c].ids \subseteq 1..Len(log) /\ Len(log) \in Nat
      BY LogFacts DEF Typed
    <3> QED BY <3>1, FirstBounded
  <2> HIDE DEF one
  <2>3. IsFiniteSet(jobs') /\ Busy(c)' <= Busy(c) + Cardinality(one) /\ \A d \in Consumer \ {c} : Busy(d)' = Busy(d)
    BY <2>1, <2>2, BeganBounded DEF Bounded
  <2>4. Busy(c)' \in Nat
    BY <2>3, FS_Subset, FS_CardinalityType DEF Busy
  <2>5. Busy(c)' <= Concurrency
    BY <1>1, <2>1, <2>2, <2>3, <2>4, ConstantFacts
  <2>6. Busy(c)' <= MostJobs
    BY <2>4, <2>5, ConstantFacts
  <2> QED BY <2>1, <2>3, <2>5, <2>6 DEF Bounded
<1>11. ASSUME NEW c \in Consumer, Drained(c) \/ Crash(c) PROVE Bounded'
  <2>1. jobs' \subseteq jobs
    BY <1>11 DEF Drained, Crash, Gone
  <2>2. IsFiniteSet(jobs')
    BY <2>1, FS_Subset DEF Bounded
  <2>3. ASSUME NEW d \in Consumer PROVE Busy(d)' <= Busy(d) /\ Busy(d)' \in Nat
    <3>1. {j \in jobs' : j.c = d} \subseteq {j \in jobs : j.c = d} /\ IsFiniteSet({j \in jobs : j.c = d})
      BY <2>1, BusyFinite DEF Bounded
    <3> QED BY <3>1, FS_Subset, FS_CardinalityType DEF Busy
  <2>4. poll' = poll \/ poll' = [poll EXCEPT ![c] = Loop("done")]
    BY <1>11 DEF Drained, Crash
  <2>5. \A d \in Consumer : poll'[d] = poll[d] \/ poll'[d] = Loop("done")
    BY <2>4 DEF Typed
  <2>6. Loop("done").pc = "done" /\ Cardinality(Loop("done").ids) <= BatchSize
    BY <1>2 DEF Loop
  <2> QED BY <1>3, <2>2, <2>3, <2>5, <2>6
<1>12. ASSUME NEW j \in jobs, JobStep(j) \/ AckFails(j) \/ FailureFails(j) \/ LosesConnection(j) PROVE Bounded'
  <2>1. PICK k : k.c = j.c /\ (jobs' = jobs \ {j} \/ jobs' = (jobs \ {j}) \cup {k})
    BY <1>12, JobStepMoves DEF Moved
  <2>2. jobs' \subseteq (jobs \ {j}) \cup {k}
    BY <2>1
  <2>3. IsFiniteSet(jobs') /\ \A c \in Consumer : Busy(c)' <= Busy(c) /\ Busy(c)' \in Nat
    BY <2>1, <2>2, MovedBounded DEF Bounded
  <2>4. poll' = poll
    BY <1>12 DEF JobStep, Unreadable, Succeeds, Throws, Rejects, Ack, Readd, Bury, Drop, AckFails, FailureFails, LosesConnection, JobVars
  <2> QED BY <1>3, <2>3, <2>4
<1>13. ASSUME NEW c \in Consumer, ReadNothing(c) \/ PollEnds(c) \/ ReadFails(c) PROVE Bounded'
  <2>1. jobs' = jobs
    BY <1>13 DEF ReadNothing, PollEnds, ReadFails
  <2>2. \E pc \in {"ready", "orphan", "done"} : poll' = [poll EXCEPT ![c] = Loop(pc)]
    BY <1>13 DEF ReadNothing, PollEnds, ReadFails
  <2> QED BY <1>6, <2>1, <2>2
<1>14. ASSUME NEW c \in Consumer, Start(c) PROVE Bounded'
  BY <1>6, <1>14 DEF Start
<1>15. ASSUME NEW c \in Consumer, Scan(c) \/ ClaimExec(c) \/ ClaimEnds(c) \/ ClaimFails(c) \/ Stop(c) PROVE Bounded'
  BY <1>5, <1>15 DEF Scan, ClaimExec, ClaimEnds, ClaimFails, Stop, ClaimVars
<1>16. ASSUME NEW m \in Msg, Publish(m) \/ Requeue(m) \/ RequeueDel(m) \/ RequeueFails(m) PROVE Bounded'
  BY <1>5, <1>16 DEF Publish, Requeue, RequeueDel, RequeueFails
<1>17. ASSUME CreateGroup \/ Tick \/ UNCHANGED vars PROVE Bounded'
  BY <1>5, <1>17 DEF CreateGroup, Tick, vars
<1> QED
  BY <1>7, <1>8, <1>9, <1>10, <1>11, <1>12, <1>13, <1>14, <1>15, <1>16, <1>17
  DEF Next, PollStep, ClaimStep

--------------------------------------------------------------------------------
(* What the steps of publishers, loops and consumers leave alone. *)

LoopStep(c) ==
  \/ Start(c) \/ PollStep(c) \/ ClaimStep(c) \/ ReadFails(c) \/ ClaimFails(c)
  \/ Stop(c) \/ Drained(c) \/ Crash(c)
WorkStep(j) == JobStep(j) \/ AckFails(j) \/ FailureFails(j) \/ LosesConnection(j)

\* A loop hands out again what is new or idle, and begins what it holds.
LEMMA LoopStepFacts ==
  ASSUME Typed, Bounded, NEW c \in Consumer, LoopStep(c)
  PROVE  /\ UNCHANGED <<dlq, requeue, handled, failed>> /\ (group' = group \/ (group' = TRUE /\ UNCHANGED log))
         /\ \/ UNCHANGED log
            \/ \E ids \in SUBSET Id : log' = Given(c, ids) /\ \A i \in ids : log[i].st \in {"new", "pending"}
         /\ \A k \in jobs' : k \in jobs \/ (k.pc = "run" /\ k.c = c /\ k.i \in InHand(c))
         /\ \A d \in Consumer \ {c} : poll'[d] = poll[d] /\ claim'[d] = claim[d]
<1>1. CASE \/ Start(c) \/ Read(c) \/ ReadNothing(c) \/ PollEnds(c) \/ Scan(c) \/ ClaimEnds(c)
           \/ ReadFails(c) \/ Stop(c) \/ Drained(c) \/ Crash(c)
  <2>1. UNCHANGED <<dlq, requeue, handled, failed, log>> /\ (group' = group \/ group' = TRUE) /\ jobs' \subseteq jobs
    BY <1>1 DEF Start, Read, ReadNothing, PollEnds, Scan, ClaimEnds, ReadFails, Stop, Drained, Crash, Gone, PollVars, ClaimVars
  <2>2. \A d \in Consumer \ {c} : poll'[d] = poll[d]
    BY <1>1 DEF Start, Read, ReadNothing, PollEnds, Scan, ClaimEnds, ReadFails, Stop, Drained, Crash, ClaimVars, Typed
  <2>3. \A d \in Consumer \ {c} : claim'[d] = claim[d]
    BY <1>1 DEF Start, Read, ReadNothing, PollEnds, Scan, ClaimEnds, ReadFails, Stop, Drained, Crash, Gone, PollVars, Typed
  <2> QED BY <2>1, <2>2, <2>3
<1>2. CASE ReadExec(c)
  <2> DEFINE ids == First(InState("new"), BatchSize)
  <2>1. ids \in SUBSET Id /\ \A i \in ids : log[i].st = "new"
    BY DEF First, InState
  <2>2. log' = Given(c, ids) /\ UNCHANGED <<dlq, requeue, handled, failed, group, jobs, claim>>
    BY <1>2 DEF ReadExec, PollVars
  <2>3. \A d \in Consumer \ {c} : poll'[d] = poll[d]
    BY <1>2 DEF ReadExec, Typed
  <2> HIDE DEF ids
  <2> QED BY <2>1, <2>2, <2>3
<1>3. CASE Deliver(c)
  <2>1. jobs' = Began(c, poll[c].ids) /\ UNCHANGED <<dlq, requeue, handled, failed, group, log, claim>>
    BY <1>3 DEF Deliver, PollVars
  <2>2. \A d \in Consumer \ {c} : poll'[d] = poll[d]
    BY <1>3 DEF Deliver, Typed
  <2>3. \A k \in jobs' : k \in jobs \/ (k.pc = "run" /\ k.c = c /\ k.i \in poll[c].ids)
    <3>1. Busy(c) <= MostJobs /\ IsFiniteSet(jobs) /\ poll[c].ids \subseteq Id
      BY DEF Typed, Bounded
    <3> QED BY <2>1, <3>1, BeganFacts
  <2> QED BY <2>1, <2>2, <2>3 DEF InHand, Claimed
<1>4. CASE ClaimExec(c) \/ ClaimFails(c)
  <2>1. Claimable(c) \in SUBSET Id /\ \A i \in Claimable(c) : log[i].st = "pending"
    BY DEF Claimable, Typed
  <2>2. log' = log \/ log' = Given(c, Claimable(c))
    BY <1>4 DEF ClaimExec, ClaimFails
  <2>3. UNCHANGED <<dlq, requeue, handled, failed, group, jobs, poll>>
    BY <1>4 DEF ClaimExec, ClaimFails, ClaimVars
  <2>4. \A d \in Consumer \ {c} : claim'[d] = claim[d]
    BY <1>4 DEF ClaimExec, ClaimFails, Typed
  <2> QED BY <2>1, <2>2, <2>3, <2>4
<1>5. CASE Spawn(c)
  <2> DEFINE one == First(claim[c].ids, 1)
  <2>1. one \subseteq claim[c].ids /\ claim[c].ids \subseteq Id /\ claim[c].pc = "claimed"
    BY <1>5 DEF First, Typed, Spawn
  <2>2. jobs' = Began(c, one) /\ UNCHANGED <<dlq, requeue, handled, failed, group, log, poll>>
    BY <1>5 DEF Spawn, ClaimVars
  <2>3. \A d \in Consumer \ {c} : claim'[d] = claim[d]
    BY <1>5 DEF Spawn, Typed
  <2> HIDE DEF one
  <2>4. \A k \in jobs' : k \in jobs \/ (k.pc = "run" /\ k.c = c /\ k.i \in one)
    BY <2>1, <2>2, BeganFacts DEF Bounded
  <2> QED BY <2>1, <2>2, <2>3, <2>4 DEF InHand, Claimed
<1> QED BY <1>1, <1>2, <1>3, <1>4, <1>5 DEF LoopStep, PollStep, ClaimStep

\* The steps, by who takes them.
LEMMA NextCases ==
  ASSUME [Next]_vars
  PROVE  \/ \E m \in Msg : Publish(m) \/ Requeue(m) \/ RequeueDel(m) \/ RequeueFails(m)
         \/ \E c \in Consumer : LoopStep(c)
         \/ \E j \in jobs : WorkStep(j)
         \/ CreateGroup \/ Tick \/ UNCHANGED vars
BY DEF Next, LoopStep, WorkStep

\* An entry keeps its message and its attempt; an entry nobody retries is a first attempt.
LEMMA EntriesKept ==
  ASSUME Typed, Bounded, Earned, [Next]_vars
  PROVE  /\ \A i \in Id : i \in Id' /\ log'[i].msg = log[i].msg /\ log'[i].att = log[i].att
         /\ (\A j \in jobs : ~WorkStep(j)) => \A i \in Id' : i \in Id \/ log'[i].att = 1
<1> DEFINE Same == \A i \in Id : i \in Id' /\ log'[i].msg = log[i].msg /\ log'[i].att = log[i].att
<1>1. ASSUME NEW m \in Msg, Publish(m) \/ Requeue(m) PROVE Same /\ \A i \in Id' : i \in Id \/ log'[i].att = 1
  <2>1. log' = Added(m, 1) /\ 1 \in 1..MaxRetries
    BY <1>1, ConstantFacts DEF Publish, Requeue
  <2> QED BY <2>1, AddedFacts
<1>2. CASE UNCHANGED log
  BY <1>2 DEF Id
<1>3. ASSUME NEW c \in Consumer, LoopStep(c) PROVE Same /\ Id' = Id
  <2>1. CASE UNCHANGED log
    BY <2>1 DEF Id
  <2>2. ASSUME NEW ids \in SUBSET Id, log' = Given(c, ids) PROVE Same /\ Id' = Id
    BY <2>2, GivenFacts
  <2> QED BY <1>3, <2>1, <2>2, LoopStepFacts
<1>4. ASSUME NEW j \in jobs, WorkStep(j) PROVE Same
  <2>1. log[j.i].msg \in Msg /\ j.i \in Id
    BY JobFacts
  <2>2. CASE log' = Added(log[j.i].msg, log[j.i].att + 1) /\ log[j.i].att + 1 \in 1..MaxRetries
    BY <2>1, <2>2, AddedFacts
  <2>3. CASE log' = Acked(j.i)
    BY <2>1, <2>3, AckedFacts
  <2>4. CASE log' = log
    BY <2>4 DEF Id
  <2> QED BY <1>4, <2>2, <2>3, <2>4, JobStepWrites DEF WorkStep
<1>5. CASE CreateGroup \/ Tick
  <2>1. Id' = Id
    BY <1>5 DEF CreateGroup, Tick, Id
  <2> QED BY <1>5, <2>1 DEF CreateGroup, Tick, Now
<1>6. ASSUME NEW m \in Msg, RequeueDel(m) \/ RequeueFails(m) PROVE UNCHANGED log
  BY <1>6 DEF RequeueDel, RequeueFails
<1>7. UNCHANGED vars => UNCHANGED log
  BY DEF vars
<1>8. CASE CreateGroup \/ Tick
  BY <1>5, <1>8 DEF CreateGroup, Tick, Id
<1> QED BY <1>1, <1>2, <1>3, <1>4, <1>5, <1>6, <1>7, <1>8, NextCases

--------------------------------------------------------------------------------
(* Dead letters have cost their attempts. *)

LEMMA EarnedStep ==
  ASSUME Typed, Bounded, Earned, [Next]_vars
  PROVE  Earned'
<1> USE DEF DeadLettersEarned
<1>1. \A m \in Msg : dlq[m] \in Nat /\ failed[m] \in Nat
  BY DEF Typed
<1>2. \A i \in Id : log[i].msg \in Msg /\ log[i].att \in Nat
  BY LogFacts
\* Steps that record no failure.
<1>3. ASSUME UNCHANGED failed, \A j \in jobs : ~WorkStep(j),
             \A k \in jobs' : k \in jobs \/ k.pc = "run",
             \A m \in Msg : dlq'[m] > 0 => dlq[m] > 0,
             requeue' # None => dlq'[requeue'] > 0
      PROVE  Earned'
  <2>1. \A i \in Id' : failed'[log'[i].msg] >= log'[i].att - 1
    <3>1. \A i \in Id' : log'[i].msg \in Msg
      BY TypedStep, LogFactsNext
    <3> QED BY <1>1, <1>3, <3>1, EntriesKept DEF Earned
  <2>2. ASSUME NEW k \in jobs'
        PROVE /\ k.pc = "backoff" => log'[k.i].att < MaxRetries /\ failed'[log'[k.i].msg] >= log'[k.i].att
              /\ k.pc = "bury" => failed'[log'[k.i].msg] >= MaxRetries
    <3>1. CASE k \in jobs
      <4>1. k.i \in Id
        BY <3>1, JobFacts
      <4> QED BY <1>3, <3>1, <4>1, EntriesKept DEF Earned
    <3>2. CASE k.pc = "run"
      BY <3>2
    <3> QED BY <1>3, <3>1, <3>2
  <2> QED BY <1>3, <2>1, <2>2 DEF Earned
<1>4. ASSUME NEW j \in jobs, WorkStep(j) PROVE Earned'
  <2> DEFINE mj == log[j.i].msg
  <2>1. mj \in Msg /\ j.i \in Id /\ log[j.i].att \in 1..MaxRetries
    BY JobFacts
  <2>2. \A m \in Msg : failed'[m] \in Nat /\ failed'[m] >= failed[m]
    <3>1. failed' = failed \/ Failed(j)
      BY <1>4, JobStepWrites DEF WorkStep
    <3>2. failed \in [Msg -> Nat]
      BY DEF Typed
    <3> QED BY <2>1, <3>1, <3>2, Bumped DEF Failed
  <2>3. \A i \in Id' : failed'[log'[i].msg] >= log'[i].att - 1
    <3>1. CASE j.pc = "backoff" /\ log' = Added(mj, log[j.i].att + 1) /\ log[j.i].att + 1 \in 1..MaxRetries
      <4>1. /\ Id' = Id \cup {Len(log) + 1} /\ \A i \in Id : log'[i] = log[i]
            /\ log'[Len(log) + 1].msg = mj /\ log'[Len(log) + 1].att = log[j.i].att + 1
        BY <2>1, <3>1, AddedFacts
      <4>2. failed[mj] >= log[j.i].att
        BY <2>1, <3>1 DEF Earned
      <4>3. failed'[mj] >= log[j.i].att /\ failed'[mj] \in Nat
        BY <1>1, <2>1, <2>2, <4>2
      <4>4. \A i \in Id : failed'[log[i].msg] >= log[i].att - 1
        BY <1>1, <1>2, <2>2 DEF Earned
      <4> QED BY <2>1, <4>1, <4>3, <4>4
    <3>2. CASE Id' = Id
      BY <1>1, <1>2, <2>2, <3>2, EntriesKept DEF Earned
    <3>3. log' = log \/ log' = Acked(j.i) => Id' = Id
      BY <2>1, AckedFacts DEF Id
    <3> QED BY <1>4, <3>1, <3>2, <3>3, JobStepWrites DEF WorkStep
  <2>4. ASSUME NEW k \in jobs'
        PROVE /\ k.pc = "backoff" => log'[k.i].att < MaxRetries /\ failed'[log'[k.i].msg] >= log'[k.i].att
              /\ k.pc = "bury" => failed'[log'[k.i].msg] >= MaxRetries
    <3>1. CASE k \in jobs
      <4>1. k.i \in Id
        BY <3>1, JobFacts
      <4>2. log'[k.i].msg = log[k.i].msg /\ log'[k.i].att = log[k.i].att /\ log[k.i].att \in Nat /\ log[k.i].msg \in Msg
        BY <1>2, <4>1, EntriesKept
      <4> QED BY <1>1, <2>2, <3>1, <4>2, ConstantFacts DEF Earned
    <3>2. CASE k.i = j.i /\ k.pc \in {"bury", "backoff"} /\ k.pc = AfterFailure(j.i) /\ failed' = [failed EXCEPT ![mj] = @ + 1]
      <4>1. failed'[mj] = failed[mj] + 1
        BY <2>1, <3>2 DEF Typed
      <4>2. failed[mj] >= log[j.i].att - 1
        BY <2>1 DEF Earned
      <4>3. log'[k.i].msg = mj /\ log'[k.i].att = log[j.i].att
        BY <2>1, <3>2, EntriesKept
      <4>4. k.pc = "bury" => log[j.i].att >= MaxRetries
        BY <3>2 DEF AfterFailure, LastAttempt
      <4>5. k.pc = "backoff" => log[j.i].att < MaxRetries
        BY <2>1, <3>2, ConstantFacts DEF AfterFailure, LastAttempt
      <4> QED BY <1>1, <2>1, <3>2, <4>1, <4>2, <4>3, <4>4, <4>5, ConstantFacts
    <3>3. CASE k.pc \in {"ack", "drop"}
      BY <3>3
    <3> QED BY <1>4, <3>1, <3>2, <3>3, JobStepMoves DEF WorkStep, Moved
  <2>5. ASSUME NEW m \in Msg, dlq'[m] > 0 PROVE failed'[m] >= MaxRetries
    <3>1. CASE dlq' = dlq
      BY <1>1, <2>2, <2>5, <3>1, ConstantFacts DEF Earned
    <3>2. CASE j.pc = "bury" /\ dlq' = Buried(j)
      <4>1. m = mj \/ dlq'[m] = dlq[m]
        BY <2>1, <3>2 DEF Buried, Typed
      <4> QED BY <1>1, <2>2, <2>5, <3>2, <4>1, ConstantFacts DEF Earned
    <3> QED BY <1>4, <3>1, <3>2, JobStepWrites DEF WorkStep
  <2>6. requeue' # None => dlq'[requeue'] > 0
    <3>1. \A m \in Msg : dlq'[m] >= dlq[m]
      <4>1. dlq' = dlq \/ dlq' = Buried(j)
        BY <1>4, JobStepWrites DEF WorkStep
      <4>2. dlq \in [Msg -> Nat]
        BY DEF Typed
      <4> QED BY <1>1, <2>1, <4>1, <4>2, Bumped DEF Buried
    <3>2. requeue' = requeue
      BY <1>4, JobStepWrites DEF WorkStep
    <3>3. \A m \in Msg : dlq'[m] \in Nat
      BY TypedStep DEF Typed
    <3> QED BY <1>1, <3>1, <3>2, <3>3 DEF Earned, Typed
  <2> QED BY <2>3, <2>4, <2>5, <2>6 DEF Earned
<1>5. ASSUME NEW m \in Msg, Requeue(m), \A j \in jobs : ~WorkStep(j) PROVE Earned'
  <2>1. UNCHANGED <<failed, jobs, dlq>> /\ requeue' = m /\ dlq[m] > 0
    BY <1>5 DEF Requeue
  <2> QED BY <1>3, <1>5, <2>1
<1>6. ASSUME NEW m \in Msg, RequeueDel(m), \A j \in jobs : ~WorkStep(j) PROVE Earned'
  <2>1. UNCHANGED <<failed, jobs>> /\ requeue' = None
    BY <1>6 DEF RequeueDel
  <2>2. \A x \in Msg : dlq'[x] > 0 => dlq[x] > 0
    BY <1>1, <1>6 DEF RequeueDel, Typed
  <2> QED BY <1>3, <1>6, <2>1, <2>2
<1>7. ASSUME UNCHANGED <<failed, dlq, requeue>>, \A j \in jobs : ~WorkStep(j),
             \A k \in jobs' : k \in jobs \/ k.pc = "run"
      PROVE  Earned'
  BY <1>3, <1>7 DEF Earned
<1>8. ASSUME NEW m \in Msg, RequeueFails(m), \A j \in jobs : ~WorkStep(j) PROVE Earned'
  BY <1>3, <1>8 DEF RequeueFails
<1>9. ASSUME NEW m \in Msg, Publish(m), \A j \in jobs : ~WorkStep(j) PROVE Earned'
  BY <1>7, <1>9 DEF Publish
<1>10. ASSUME NEW c \in Consumer, LoopStep(c), \A j \in jobs : ~WorkStep(j) PROVE Earned'
  BY <1>7, <1>10, LoopStepFacts
<1>11. ASSUME CreateGroup \/ Tick \/ UNCHANGED vars, \A j \in jobs : ~WorkStep(j) PROVE Earned'
  BY <1>7, <1>11 DEF CreateGroup, Tick, vars
<1> QED BY <1>4, <1>5, <1>6, <1>8, <1>9, <1>10, <1>11, NextCases

--------------------------------------------------------------------------------
(* What is in process was delivered, and no message is lost. *)

\* What a loop has in its hands after a step, it had before, or it was just given, or it
\* is about to ask for what is pending.
LEMMA HandsFilled ==
  ASSUME Typed, Bounded, NEW c \in Consumer, LoopStep(c)
  PROVE  \A i \in poll'[c].ids \cup claim'[c].ids :
           i \in poll[c].ids \cup claim[c].ids \/ (i \in Id /\ log'[i].st = "pending")
<1> DEFINE Had == poll[c].ids \cup claim[c].ids
<1>1. ASSUME NEW pc, poll' = [poll EXCEPT ![c] = Loop(pc)] PROVE poll'[c].ids = {}
  BY <1>1 DEF Typed, Loop
<1>2. ASSUME NEW pc, claim' = [claim EXCEPT ![c] = Loop(pc)] PROVE claim'[c].ids = {}
  BY <1>2 DEF Typed, Loop
<1>3. CASE \/ Start(c) \/ Read(c) \/ ReadNothing(c) \/ PollEnds(c) \/ ClaimEnds(c)
           \/ ReadFails(c) \/ ClaimFails(c) \/ Stop(c) \/ Drained(c) \/ Crash(c) \/ Deliver(c)
  <2>1. poll' = poll \/ \E pc : poll' = [poll EXCEPT ![c] = Loop(pc)]
    BY <1>3 DEF Start, Read, ReadNothing, PollEnds, ClaimEnds, ReadFails, ClaimFails, Stop, Drained, Crash, Deliver, ClaimVars
  <2>2. claim' = claim \/ \E pc : claim' = [claim EXCEPT ![c] = Loop(pc)]
    BY <1>3 DEF Start, Read, ReadNothing, PollEnds, ClaimEnds, ReadFails, ClaimFails, Stop, Drained, Crash, Gone, Deliver, PollVars
  <2> QED BY <1>1, <1>2, <2>1, <2>2
<1>4. CASE ReadExec(c)
  <2> DEFINE ids == First(InState("new"), BatchSize)
  <2>1. ids \subseteq Id
    BY DEF First, InState
  <2>2. log' = Given(c, ids) /\ claim' = claim
    BY <1>4 DEF ReadExec, PollVars
  <2>3. poll' = [poll EXCEPT ![c] = IF poll[c].pc = "orphan" THEN Loop("done") ELSE [pc |-> "answered", ids |-> ids]]
    BY <1>4 DEF ReadExec
  <2> HIDE DEF ids
  <2>4. poll'[c].ids \subseteq ids
    BY <2>3 DEF Typed, Loop
  <2> QED BY <2>1, <2>2, <2>4, GivenFacts
<1>5. CASE Scan(c)
  <2>1. {i \in Scanned : Idle(i)} \subseteq {i \in Id : log[i].st = "pending"}
    BY DEF Scanned, First, InState
  <2>2. claim'[c].ids \subseteq {i \in Scanned : Idle(i)}
    BY <1>5 DEF Scan, Typed, Loop
  <2> QED BY <1>5, <2>1, <2>2 DEF Scan, ClaimVars
<1>6. CASE ClaimExec(c)
  <2>1. claim'[c].ids \subseteq claim[c].ids /\ poll' = poll
    BY <1>6 DEF ClaimExec, Claimable, ClaimVars, Typed, Loop
  <2> QED BY <2>1
<1>7. CASE Spawn(c)
  <2>1. claim'[c].ids \subseteq claim[c].ids /\ poll' = poll
    BY <1>7 DEF Spawn, ClaimVars, Typed, Loop
  <2> QED BY <2>1
<1> QED BY <1>3, <1>4, <1>5, <1>6, <1>7 DEF LoopStep, PollStep, ClaimStep

\* Nothing delivered becomes new again, and only an acknowledgement ends the wait for one.
LEMMA EntriesMove ==
  ASSUME Typed, Bounded, Earned, Delivered, [Next]_vars
  PROVE  \A i \in Id :
           /\ log[i].st \in {"pending", "acked"} => log'[i].st \in {"pending", "acked"}
           /\ group /\ log'[i].st # log[i].st =>
                \/ log[i].st = "new" /\ log'[i].st = "pending"
                \/ /\ log[i].st = "pending" /\ log'[i].st = "acked"
                   /\ \E j \in jobs : WorkStep(j) /\ j.i = i /\ j.pc \in {"ack", "drop"} /\ log' = Acked(i)
<1> DEFINE Fine(i) ==
             /\ log[i].st \in {"pending", "acked"} => log'[i].st \in {"pending", "acked"}
             /\ group /\ log'[i].st # log[i].st =>
                  \/ log[i].st = "new" /\ log'[i].st = "pending"
                  \/ /\ log[i].st = "pending" /\ log'[i].st = "acked"
                     /\ \E j \in jobs : WorkStep(j) /\ j.i = i /\ j.pc \in {"ack", "drop"} /\ log' = Acked(i)
<1> SUFFICES ASSUME NEW i \in Id PROVE Fine(i)
  OBVIOUS
<1>1. log'[i] = log[i] => Fine(i)
  OBVIOUS
<1>2. ASSUME NEW m \in Msg, Publish(m) \/ Requeue(m) PROVE Fine(i)
  <2>1. log' = Added(m, 1) /\ 1 \in 1..MaxRetries
    BY <1>2, ConstantFacts DEF Publish, Requeue
  <2> QED BY <1>1, <2>1, AddedFacts
<1>3. ASSUME NEW c \in Consumer, LoopStep(c) PROVE Fine(i)
  <2>1. ASSUME NEW ids \in SUBSET Id, log' = Given(c, ids), \A k \in ids : log[k].st \in {"new", "pending"} PROVE Fine(i)
    <3>1. i \in ids => log'[i].st = "pending"
      BY <2>1, GivenFacts
    <3>2. i \notin ids => log'[i] = log[i]
      BY <2>1, GivenFacts
    <3> QED BY <2>1, <3>1, <3>2
  <2> QED BY <1>1, <1>3, <2>1, LoopStepFacts
<1>4. ASSUME NEW j \in jobs, WorkStep(j) PROVE Fine(i)
  <2>1. log[j.i].msg \in Msg /\ j.i \in Id
    BY JobFacts
  <2>2. CASE log' = Added(log[j.i].msg, log[j.i].att + 1) /\ log[j.i].att + 1 \in 1..MaxRetries
    BY <1>1, <2>1, <2>2, AddedFacts
  <2>3. CASE j.pc \in {"ack", "drop"} /\ log' = Acked(j.i)
    <3>1. i # j.i => log'[i] = log[i]
      BY <2>1, <2>3, AckedFacts
    <3>2. log'[j.i].st = IF log[j.i].st = "pending" THEN "acked" ELSE log[j.i].st
      BY <2>1, <2>3, AckedFacts
    <3> QED BY <1>4, <2>3, <3>1, <3>2
  <2>4. CASE log' = log
    BY <1>1, <2>4
  <2> QED BY <1>4, <2>2, <2>3, <2>4, JobStepWrites DEF WorkStep
<1>5. CASE CreateGroup
  BY <1>5 DEF CreateGroup, Delivered
<1>6. CASE Tick
  <2>1. log'[i].st = log[i].st
    BY <1>6 DEF Tick, Now
  <2> QED BY <2>1
<1>7. ASSUME NEW m \in Msg, RequeueDel(m) \/ RequeueFails(m) PROVE Fine(i)
  BY <1>1, <1>7 DEF RequeueDel, RequeueFails
<1>8. CASE UNCHANGED vars
  BY <1>1, <1>8 DEF vars
<1> HIDE DEF Fine
<1> QED BY <1>2, <1>3, <1>4, <1>5, <1>6, <1>7, <1>8, NextCases

LEMMA DeliveredStep ==
  ASSUME Typed, Bounded, Earned, Delivered, [Next]_vars
  PROVE  Delivered'
<1> DEFINE Out(i) == i \in Id /\ log[i].st \in {"pending", "acked"}
           OutNow(i) == log'[i].st \in {"pending", "acked"}
<1>1. \A i : Out(i) => OutNow(i)
  BY EntriesMove
<1>2. /\ \A j \in jobs : Out(j.i)
      /\ \A c \in Consumer : \A i \in poll[c].ids \cup claim[c].ids : Out(i)
  BY JobFacts DEF Delivered, Typed
<1> HIDE DEF Out
<1>3. \A k \in jobs' : OutNow(k.i)
  <2>1. ASSUME NEW c \in Consumer, LoopStep(c), NEW k \in jobs' PROVE OutNow(k.i)
    <3>1. k \in jobs \/ k.i \in poll[c].ids \cup claim[c].ids
      BY <2>1, LoopStepFacts DEF InHand, Claimed
    <3> QED BY <1>1, <1>2, <3>1
  <2>2. ASSUME NEW j \in jobs, WorkStep(j), NEW k \in jobs' PROVE OutNow(k.i)
    <3>1. k \in jobs \/ k.i = j.i
      BY <2>2, JobStepMoves DEF WorkStep, Moved
    <3> QED BY <1>1, <1>2, <3>1
  <2>3. ASSUME jobs' = jobs, NEW k \in jobs' PROVE OutNow(k.i)
    BY <1>1, <1>2, <2>3
  <2>4. (\E m \in Msg : Publish(m) \/ Requeue(m) \/ RequeueDel(m) \/ RequeueFails(m)) \/ CreateGroup \/ Tick \/ UNCHANGED vars
        => jobs' = jobs
    BY DEF Publish, Requeue, RequeueDel, RequeueFails, CreateGroup, Tick, vars
  <2> QED BY <2>1, <2>2, <2>3, <2>4, NextCases
<1>4. \A d \in Consumer : \A i \in poll'[d].ids \cup claim'[d].ids : OutNow(i)
  <2>1. ASSUME NEW c \in Consumer, LoopStep(c), NEW d \in Consumer, NEW i \in poll'[d].ids \cup claim'[d].ids PROVE OutNow(i)
    <3>1. CASE d = c
      BY <1>1, <1>2, <2>1, <3>1, HandsFilled
    <3>2. CASE d # c
      <4>1. i \in poll[d].ids \cup claim[d].ids
        BY <2>1, <3>2, LoopStepFacts
      <4> QED BY <1>1, <1>2, <4>1
    <3> QED BY <3>1, <3>2
  <2>2. ASSUME \A d \in Consumer : poll'[d].ids = poll[d].ids /\ claim'[d].ids \subseteq claim[d].ids,
               NEW d \in Consumer, NEW i \in poll'[d].ids \cup claim'[d].ids PROVE OutNow(i)
    <3>1. i \in poll[d].ids \cup claim[d].ids
      BY <2>2
    <3> QED BY <1>1, <1>2, <3>1
  <2>3. ASSUME UNCHANGED <<poll, claim>> PROVE \A d \in Consumer : poll'[d].ids = poll[d].ids /\ claim'[d].ids \subseteq claim[d].ids
    BY <2>3
  <2>4. ASSUME Tick PROVE \A d \in Consumer : poll'[d].ids = poll[d].ids /\ claim'[d].ids \subseteq claim[d].ids
    BY <2>4 DEF Tick, Loop
  <2>5. ASSUME NEW j \in jobs, WorkStep(j) PROVE UNCHANGED <<poll, claim>>
    BY <2>5, JobStepWrites DEF WorkStep
  <2>6. (\E m \in Msg : Publish(m) \/ Requeue(m) \/ RequeueDel(m) \/ RequeueFails(m)) \/ CreateGroup \/ UNCHANGED vars
        => UNCHANGED <<poll, claim>>
    BY DEF Publish, Requeue, RequeueDel, RequeueFails, CreateGroup, vars
  <2> QED BY <2>1, <2>2, <2>3, <2>4, <2>5, <2>6, NextCases
<1>5. ASSUME ~group'
      PROVE  /\ \A i \in Id' : log'[i].st = "missed"
             /\ \A m \in Msg : dlq'[m] = 0
  <2>1. ~group
    <3>1. group' = group \/ group' = TRUE
      <4>1. ASSUME NEW c \in Consumer, LoopStep(c) PROVE group' = group \/ group' = TRUE
        BY <4>1, LoopStepFacts
      <4>2. ASSUME NEW j \in jobs, WorkStep(j) PROVE group' = group
        BY <4>2, JobStepWrites DEF WorkStep
      <4> QED BY <4>1, <4>2, NextCases DEF Publish, Requeue, RequeueDel, RequeueFails, CreateGroup, Tick, vars
    <3> QED BY <1>5, <3>1
  <2>2. (\A i \in Id : log[i].st = "missed") /\ (\A m \in Msg : dlq[m] = 0)
    BY <2>1 DEF Delivered
  <2>3. ASSUME NEW m \in Msg, Publish(m) PROVE (\A i \in Id' : log'[i].st = "missed") /\ dlq' = dlq
    <3>1. log' = Added(m, 1) /\ 1 \in 1..MaxRetries /\ dlq' = dlq
      BY <2>3, ConstantFacts DEF Publish
    <3> QED BY <2>1, <2>2, <3>1, AddedFacts
  <2>4. ASSUME NEW m \in Msg PROVE ~Requeue(m) /\ ~RequeueDel(m)
    <3>1. dlq[m] = 0
      BY <2>2
    <3>2. requeue # m
      BY <3>1, ConstantFacts DEF Earned
    <3> QED BY <3>1, <3>2 DEF Requeue, RequeueDel
  <2>5. ASSUME NEW m \in Msg, RequeueFails(m) PROVE UNCHANGED <<log, dlq>>
    BY <2>5 DEF RequeueFails
  <2>6. ASSUME NEW c \in Consumer, LoopStep(c) PROVE UNCHANGED <<log, dlq>>
    <3>1. ASSUME NEW ids \in SUBSET Id, log' = Given(c, ids), \A i \in ids : log[i].st \in {"new", "pending"} PROVE log' = log
      <4>1. ids = {}
        BY <2>2, <3>1
      <4> QED BY <3>1, <4>1, LogFacts DEF Given
    <3> QED BY <2>6, <3>1, LoopStepFacts
  <2>7. jobs = {}
    BY <1>2, <2>2 DEF Out
  <2>8. Tick => dlq' = dlq /\ \A i \in Id' : log'[i].st = "missed"
    BY <2>2 DEF Tick, Now, Id
  <2>9. ~CreateGroup
    BY <1>5 DEF CreateGroup
  <2>10. UNCHANGED vars => UNCHANGED <<log, dlq>>
    BY DEF vars
  <2>11. UNCHANGED <<log, dlq>> => (\A i \in Id' : log'[i].st = "missed") /\ \A m \in Msg : dlq'[m] = 0
    BY <2>2 DEF Id
  <2>12. dlq' = dlq => \A m \in Msg : dlq'[m] = 0
    BY <2>2
  <2> QED BY <2>3, <2>4, <2>5, <2>6, <2>7, <2>8, <2>9, <2>10, <2>11, <2>12, NextCases
<1> QED BY <1>3, <1>4, <1>5 DEF Delivered

\* Message m is handled or a dead letter, or an entry after p is still to be seen to.
Answered(m, p) == Safe(m) \/ \E i \in Id : i > p /\ log[i].msg = m /\ Alive(i)

\* An entry that is added while there is a group will be delivered.
LEMMA AddedAlive ==
  ASSUME Typed, NEW m \in Msg, NEW att \in 1..MaxRetries, log' = Added(m, att), group, NEW p \in Id \cup {0}
  PROVE  Answered(m, p)'
<1> DEFINE n == Len(log) + 1
<1>1. n \in Id' /\ log'[n].msg = m /\ log'[n].st = "new" /\ n > p
  BY AddedFacts, LogFacts
<1> QED BY <1>1 DEF Answered, Alive

\* A message that is safe stays so, but for one requeue() puts back, which has a new entry.
LEMMA SafeStep ==
  ASSUME StreamInv, [Next]_vars, group, NEW m \in Msg, Safe(m), NEW p \in Id \cup {0}
  PROVE  Answered(m, p)'
<1>1. \A x \in Msg : dlq[x] \in Nat /\ handled[x] \in Nat
  BY DEF StreamInv, Typed
<1> USE DEF Safe, Owed
<1>2. Safe(m)' => Answered(m, p)'
  BY DEF Answered
<1>3. ASSUME UNCHANGED <<dlq, handled, requeue>> PROVE Safe(m)'
  BY <1>3
<1>4. ASSUME NEW x \in Msg, Requeue(x) PROVE Answered(m, p)'
  <2>1. log' = Added(x, 1) /\ 1 \in 1..MaxRetries /\ UNCHANGED <<dlq, handled>> /\ requeue' = x /\ requeue = None
    BY <1>4, ConstantFacts DEF Requeue
  <2>2. CASE x = m
    BY <2>1, <2>2, AddedAlive DEF StreamInv
  <2>3. CASE x # m
    BY <1>2, <2>1, <2>3, ConstantFacts
  <2> QED BY <2>2, <2>3
<1>5. ASSUME NEW x \in Msg, RequeueDel(x) PROVE Safe(m)'
  <2>1. requeue = x /\ requeue' = None /\ handled' = handled /\ dlq' = [dlq EXCEPT ![x] = @ - 1]
    BY <1>5 DEF RequeueDel
  <2>2. dlq'[m] = IF m = x THEN dlq[m] - 1 ELSE dlq[m]
    BY <2>1 DEF StreamInv, Typed
  <2> QED BY <1>1, <2>1, <2>2, ConstantFacts
<1>6. ASSUME NEW x \in Msg, RequeueFails(x) PROVE Safe(m)'
  <2>1. requeue = x /\ requeue' = None /\ UNCHANGED <<dlq, handled>>
    BY <1>6 DEF RequeueFails
  <2> QED BY <1>1, <2>1, ConstantFacts
<1>7. ASSUME NEW j \in jobs, WorkStep(j) PROVE Safe(m)'
  <2>1. log[j.i].msg \in Msg /\ dlq \in [Msg -> Nat] /\ handled \in [Msg -> Nat]
    BY JobFacts DEF StreamInv, Typed
  <2>2. (dlq' = dlq \/ dlq' = Buried(j)) /\ (handled' = handled \/ Handled(j)) /\ requeue' = requeue
    BY <1>7, JobStepWrites DEF WorkStep, StreamInv
  <2>3. dlq'[m] \in Nat /\ dlq'[m] >= dlq[m]
    BY <1>1, <2>1, <2>2, Bumped DEF Buried
  <2>4. handled'[m] \in Nat /\ handled'[m] >= handled[m]
    BY <1>1, <2>1, <2>2, Bumped DEF Handled
  <2> QED BY <1>1, <2>2, <2>3, <2>4
<1>8. ASSUME NEW c \in Consumer, LoopStep(c) PROVE Safe(m)'
  BY <1>3, <1>8, LoopStepFacts DEF StreamInv
<1>9. ASSUME NEW x \in Msg, Publish(x) PROVE Safe(m)'
  BY <1>3, <1>9 DEF Publish
<1>10. ASSUME CreateGroup \/ Tick \/ UNCHANGED vars PROVE Safe(m)'
  BY <1>3, <1>10 DEF CreateGroup, Tick, vars
<1> QED BY <1>2, <1>4, <1>5, <1>6, <1>7, <1>8, <1>9, <1>10, NextCases

\* Whoever is answered stays so: what is acknowledged has been seen to, or has a successor.
LEMMA AnsweredStep ==
  ASSUME StreamInv, DlqEnabled, [Next]_vars, group, NEW m \in Msg, NEW p \in Id \cup {0}, Answered(m, p)
  PROVE  Answered(m, p)'
<1>1. CASE Safe(m)
  BY <1>1, SafeStep
<1>2. ASSUME NEW i \in Id, i > p, log[i].msg = m, Alive(i) PROVE Answered(m, p)'
  <2>1. i \in Id' /\ log'[i].msg = m
    BY <1>2, EntriesKept DEF StreamInv
  <2>2. CASE log'[i].st \in {"new", "pending"}
    BY <1>2, <2>1, <2>2 DEF Answered, Alive
  <2>3. CASE log'[i].st \notin {"new", "pending"}
    <3>1. PICK j \in jobs : j.i = i /\ j.pc \in {"ack", "drop"} /\ log' = Acked(i)
      BY <1>2, <2>3, EntriesMove DEF StreamInv, Alive
    <3>2. CASE \E k \in Id : k > i /\ log[k].msg = m /\ Alive(k)
      <4>1. PICK k \in Id : k > i /\ log[k].msg = m /\ Alive(k)
        BY <3>2
      <4>2. k \in Nat /\ i \in Nat /\ p \in Nat
        BY LogFacts DEF StreamInv
      <4>3. k \in Id' /\ log'[k] = log[k]
        BY <3>1, <4>1, <4>2, AckedFacts DEF StreamInv
      <4>4. k > p
        BY <1>2, <4>1, <4>2
      <4> QED BY <4>1, <4>3, <4>4 DEF Answered, Alive
    <3>3. Safe(m) \/ \E k \in Id : k > i /\ log[k].msg = m /\ Alive(k)
      BY <1>2, <3>1 DEF StreamInv, Kept
    <3> QED BY <3>2, <3>3, SafeStep
  <2> QED BY <2>2, <2>3
<1> QED BY <1>1, <1>2 DEF Answered

\* A call comes to acknowledge an entry when it has handled or buried the message, has
\* added the entry of the next attempt, or has acknowledged it before.
LEMMA Finishes ==
  ASSUME Typed, NEW j \in jobs, WorkStep(j), NEW k \in jobs', k \notin jobs, k.pc \in {"ack", "drop"}
  PROVE  /\ k.i = j.i
         /\ \/ j.pc = "run" /\ Handled(j)
            \/ j.pc = "drop"
            \/ j.pc = "backoff" /\ log' = Added(log[j.i].msg, log[j.i].att + 1)
            \/ j.pc = "bury" /\ dlq' = Buried(j)
<1>1. /\ AfterFailure(j.i) \in JobPhases /\ AfterFailure(j.i) \notin {"ack", "drop"} /\ "ack" \in JobPhases /\ "drop" \in JobPhases
      /\ TRUE \in BOOLEAN /\ FALSE \in BOOLEAN /\ j.inner \in BOOLEAN
  BY JobFacts DEF JobPhases
<1>2. jobs' # jobs \ {j}
  OBVIOUS
<1>3. ASSUME NEW inner \in BOOLEAN PROVE jobs' # At(j, AfterFailure(j.i), inner)
  BY <1>1, AtFacts
<1>4. ~FailsAgain(j)
  BY <1>1, <1>2, <1>3 DEF FailsAgain
<1>5. JobStep(j)
  BY <1>2, <1>4 DEF WorkStep, AckFails, FailureFails, LosesConnection, GivesUp
<1>6. Succeeds(j) \/ Readd(j) \/ Bury(j) \/ Drop(j)
  BY <1>1, <1>2, <1>3, <1>5 DEF JobStep, Unreadable, Throws, Rejects, Ack, Goes
<1>7. \E pc \in {"ack", "drop"} : jobs' = At(j, pc, j.inner)
  BY <1>2, <1>6 DEF Succeeds, Readd, Bury, Drop, Goes
<1>8. k.i = j.i
  BY <1>1, <1>7, AtFacts
<1> QED BY <1>6, <1>8 DEF Succeeds, Readd, Bury, Drop

LEMMA KeptStep ==
  ASSUME StreamInv, [Next]_vars
  PROVE  Kept'
<1> SUFFICES ASSUME DlqEnabled
             PROVE  /\ \A m \in Msg : Reached(m)' => Answered(m, 0)'
                    /\ \A k \in jobs' : k.pc \in {"ack", "drop"} => Answered(log[k.i].msg, k.i)'
  <2>1. ASSUME Typed' PROVE \A i \in Id' : i \in Nat /\ i > 0
    <3>1. log' \in Seq(LogEntry)
      BY <2>1 DEF Typed
    <3>2. Len(log') \in Nat /\ Id' = 1..Len(log')
      BY <3>1, LenProperties DEF Id
    <3> QED BY <3>2
  <2>2. Typed'
    BY TypedStep DEF StreamInv
  <2> QED BY <2>1, <2>2 DEF Kept, Answered
<1>1. Typed /\ Bounded /\ Earned /\ Delivered /\ Kept
  BY DEF StreamInv
<1>2. Typed' /\ Delivered'
  BY <1>1, TypedStep, DeliveredStep
<1>3. CASE ~group
  <2>1. \A i \in Id : log[i].st = "missed"
    BY <1>1, <1>3 DEF Delivered
  <2>2. jobs = {}
    BY <1>1, <2>1, JobFacts DEF Delivered
  <2>3. ASSUME ~group' PROVE jobs' = {} /\ \A m \in Msg : ~Reached(m)'
    <3>1. \A i \in Id' : log'[i].st = "missed"
      BY <1>2, <2>3 DEF Delivered
    <3>2. \A k \in jobs' : k.i \in Id'
      BY <1>2 DEF Typed, JobOn
    <3> QED BY <1>2, <3>1, <3>2 DEF Delivered, Reached
  <2>4. ASSUME NEW c \in Consumer, LoopStep(c), group' PROVE jobs' = {} /\ \A m \in Msg : ~Reached(m)'
    <3>1. log' = log
      BY <1>1, <1>3, <2>4, LoopStepFacts
    <3>2. \A i \in Id' : log'[i].st = "missed"
      BY <2>1, <3>1 DEF Id
    <3>3. \A k \in jobs' : k.i \in Id'
      BY <1>2 DEF Typed, JobOn
    <3> QED BY <1>2, <3>2, <3>3 DEF Reached, Delivered
  <2>5. ASSUME CreateGroup PROVE jobs' = {} /\ \A m \in Msg : Reached(m)' => Answered(m, 0)'
    <3>1. jobs' = {} /\ Id' = Id /\ \A i \in Id : log'[i].st = "new"
      BY <2>2, <2>5 DEF CreateGroup, Id, Now
    <3>2. \A i \in Id : i > 0
      BY <1>1, LogFacts
    <3> QED BY <3>1, <3>2 DEF Reached, Answered, Alive
  <2>6. CASE group' /\ ~CreateGroup /\ \A c \in Consumer : ~LoopStep(c)
    BY <1>3, <2>2, <2>6, NextCases DEF Publish, Requeue, RequeueDel, RequeueFails, Tick, vars
  <2> QED BY <2>3, <2>4, <2>5, <2>6
<1>4. CASE group
  <2>1. ASSUME NEW m \in Msg, Reached(m)' PROVE Answered(m, 0)'
    <3>1. PICK i \in Id' : log'[i].msg = m /\ log'[i].st # "missed"
      BY <2>1 DEF Reached
    <3>2. CASE i \in Id
      <4>1. log[i].msg = m /\ log[i].st # "missed"
        BY <1>1, <1>4, <3>1, <3>2, EntriesKept, EntriesMove
      <4>2. Reached(m)
        BY <3>2, <4>1 DEF Reached
      <4>3. Answered(m, 0)
        BY <1>1, <4>2, LogFacts DEF Kept, Answered
      <4> QED BY <1>4, <4>3, AnsweredStep
    <3>3. CASE i \notin Id
      <4>1. ASSUME NEW x \in Msg, NEW att \in 1..MaxRetries, log' = Added(x, att) PROVE Answered(m, 0)'
        <5>1. i = Len(log) + 1 /\ log'[i].msg = x
          BY <1>1, <3>3, <4>1, AddedFacts
        <5> QED BY <1>1, <1>4, <3>1, <4>1, <5>1, AddedAlive
      <4>2. ASSUME NEW x \in Msg, Publish(x) \/ Requeue(x) PROVE Answered(m, 0)'
        <5>1. log' = Added(x, 1) /\ 1 \in 1..MaxRetries
          BY <4>2, ConstantFacts DEF Publish, Requeue
        <5> QED BY <4>1, <5>1
      <4>3. ASSUME NEW c \in Consumer, LoopStep(c) PROVE Id' = Id
        BY <1>1, <4>3, LoopStepFacts, GivenFacts DEF Id
      <4>4. ASSUME NEW j \in jobs, WorkStep(j) PROVE Answered(m, 0)'
        <5>1. log[j.i].msg \in Msg /\ j.i \in Id
          BY <1>1, JobFacts
        <5>2. log' # log
          BY <3>3 DEF Id
        <5>3. log' # Acked(j.i)
          BY <1>1, <3>3, <5>1, AckedFacts
        <5> QED BY <1>1, <4>1, <4>4, <5>1, <5>2, <5>3, JobStepWrites DEF WorkStep
      <4>5. CreateGroup \/ Tick \/ UNCHANGED vars => Id' = Id
        BY DEF CreateGroup, Tick, vars, Id
      <4>6. ASSUME NEW x \in Msg, RequeueDel(x) \/ RequeueFails(x) PROVE Id' = Id
        BY <4>6 DEF RequeueDel, RequeueFails, Id
      <4> QED BY <3>3, <4>2, <4>3, <4>4, <4>5, <4>6, NextCases
    <3> QED BY <3>2, <3>3
  <2>2. ASSUME NEW k \in jobs, k.pc \in {"ack", "drop"} PROVE Answered(log[k.i].msg, k.i)'
    <3>1. k.i \in Id /\ log[k.i].msg \in Msg
      BY <1>1, JobFacts
    <3>2. Answered(log[k.i].msg, k.i)
      BY <1>1, <2>2 DEF Kept, Answered
    <3>3. log'[k.i].msg = log[k.i].msg
      BY <1>1, <3>1, EntriesKept
    <3>4. ASSUME NEW x \in Msg, Answered(x, k.i) PROVE Answered(x, k.i)'
      BY <1>4, <3>1, <3>4, AnsweredStep
    <3> QED BY <3>1, <3>2, <3>3, <3>4 DEF Answered, Safe, Owed
  <2>3. ASSUME NEW k \in jobs', k \notin jobs, k.pc \in {"ack", "drop"} PROVE Answered(log[k.i].msg, k.i)'
    <3>1. ASSUME NEW c \in Consumer PROVE ~LoopStep(c)
      BY <1>1, <2>3, LoopStepFacts
    <3>2. PICK j \in jobs : WorkStep(j)
      BY <2>3, <3>1, NextCases DEF Publish, Requeue, RequeueDel, RequeueFails, CreateGroup, Tick, vars
    <3>3. j.i \in Id /\ log[j.i].msg \in Msg /\ log'[j.i].msg = log[j.i].msg
      BY <1>1, JobFacts, EntriesKept
    <3>4. PICK x \in Msg : x = log[j.i].msg
      BY <3>3
    <3>5. k.i = j.i
      BY <1>1, <2>3, <3>2, Finishes
    <3>6. SUFFICES Answered(x, j.i)'
      BY <3>3, <3>4, <3>5 DEF Answered, Safe, Owed
    <3>7. CASE Handled(j)
      <4>1. handled'[x] > 0
        BY <3>4, <3>7 DEF Handled, StreamInv, Typed
      <4> QED BY <4>1 DEF Answered, Safe
    <3>8. CASE j.pc = "drop"
      <4>1. Answered(x, j.i)
        BY <1>1, <3>4, <3>8 DEF Kept, Answered
      <4> QED BY <1>4, <3>3, <4>1, AnsweredStep
    <3>9. CASE j.pc = "backoff" /\ log' = Added(log[j.i].msg, log[j.i].att + 1)
      <4>1. log[j.i].att + 1 \in 1..MaxRetries
        BY <1>1, <3>9, JobFacts, ConstantFacts DEF Earned
      <4>2. PICK att \in 1..MaxRetries : att = log[j.i].att + 1
        BY <4>1
      <4>3. log' = Added(x, att)
        BY <3>4, <3>9, <4>2
      <4> QED BY <1>1, <1>4, <3>3, <4>3, AddedAlive
    <3>10. CASE j.pc = "bury" /\ dlq' = Buried(j)
      <4>1. dlq'[x] = dlq[x] + 1 /\ dlq[x] \in Nat
        BY <3>4, <3>10 DEF Buried, StreamInv, Typed
      <4>2. requeue' = requeue
        BY <1>1, <3>2, JobStepWrites DEF WorkStep
      <4>3. requeue = x => dlq[x] > 0
        BY <1>1, ConstantFacts DEF Earned
      <4> QED BY <4>1, <4>2, <4>3 DEF Answered, Safe, Owed
    <3> QED BY <1>1, <2>3, <3>2, <3>7, <3>8, <3>9, <3>10, Finishes
  <2> QED BY <2>1, <2>2, <2>3
<1> QED BY <1>3, <1>4

--------------------------------------------------------------------------------
(* While all is calm no message is handled twice. *)

LEMMA NoneOfFour ==
  ASSUME NEW a \in Nat, NEW b \in Nat, NEW c \in Nat, NEW d \in Nat, a + b + c + d = 0
  PROVE  a = 0 /\ b = 0 /\ c = 0 /\ d = 0
OBVIOUS

\* What does not happen while all is calm.
LEMMA CalmBefore ==
  ASSUME StreamInv, [Next]_vars, CalmNow'
  PROVE  /\ CalmNow
         /\ \A m \in Msg : ~Requeue(m)
         /\ \A c \in Consumer : ~ReadFails(c) /\ ~ClaimFails(c) /\ ~Crash(c)
         /\ \A j \in jobs : WorkStep(j) => JobStep(j)
         /\ Tick => \A i \in InState("pending") : ~InProcess(i)
<1>1. faults \in Nat /\ crashes \in Nat /\ slow \in Nat /\ requeues \in Nat
  BY DEF StreamInv, Typed
<1>2. faults' \in Nat /\ crashes' \in Nat /\ slow' \in Nat /\ requeues' \in Nat
  BY TypedStep DEF StreamInv, Typed
<1>3. faults' = 0 /\ crashes' = 0 /\ slow' = 0 /\ requeues' = 0
  <2>1. faults' + crashes' + slow' + requeues' = 0
    BY DEF CalmNow
  <2> QED BY <1>2, <2>1, NoneOfFour
<1>4. ~Faulty
  BY <1>1, <1>3 DEF Faulty
<1>5. \A m \in Msg : ~Requeue(m)
  BY <1>1, <1>3 DEF Requeue
<1>6. \A c \in Consumer : ~ReadFails(c) /\ ~ClaimFails(c) /\ ~Crash(c)
  BY <1>1, <1>3, <1>4 DEF ReadFails, ClaimFails, Crash
<1>7. \A j \in jobs : WorkStep(j) => JobStep(j)
  BY <1>4 DEF WorkStep, AckFails, FailureFails, LosesConnection
<1>8. Tick => slow' = slow /\ \A i \in InState("pending") : ~InProcess(i)
  BY <1>1, <1>3 DEF Tick
<1>9. UNCHANGED budgets
  <2>1. ASSUME NEW m \in Msg, Publish(m) \/ RequeueDel(m) \/ RequeueFails(m) PROVE UNCHANGED budgets
    BY <2>1 DEF Publish, RequeueDel, RequeueFails
  <2>2. ASSUME NEW c \in Consumer, LoopStep(c) PROVE UNCHANGED budgets
    BY <1>6, <2>2 DEF LoopStep, PollStep, ClaimStep, Start, Read, ReadExec, ReadNothing, Deliver, PollEnds, Scan, ClaimExec, Spawn, ClaimEnds, Stop, Drained
  <2>3. ASSUME NEW j \in jobs, WorkStep(j) PROVE UNCHANGED budgets
    BY <1>7, <2>3 DEF JobStep, Unreadable, Succeeds, Throws, Rejects, Ack, Readd, Bury, Drop
  <2>4. CreateGroup \/ UNCHANGED vars => UNCHANGED budgets
    BY DEF CreateGroup, vars
  <2>5. Tick => UNCHANGED budgets
    BY <1>8 DEF Tick, budgets
  <2> QED BY <1>5, <2>1, <2>2, <2>3, <2>4, <2>5, NextCases
<1>10. CalmNow
  BY <1>3, <1>9 DEF CalmNow, budgets
<1> QED BY <1>5, <1>6, <1>7, <1>8, <1>10

\* A step that takes nothing into a hand leaves what is held in one pair of hands.
LEMMA HandsShrink ==
  ASSUME StreamInv, InOnePair, jobs' \subseteq jobs,
         \A c \in Consumer : poll'[c].ids \subseteq poll[c].ids /\ Claimed(c)' \subseteq Claimed(c),
         \A i \in Id : log[i].st \in {"pending", "acked"} => log'[i].st = log[i].st /\ (log[i].idle \/ ~log'[i].idle)
  PROVE  InOnePair'
<1>1. \A c \in Consumer : InHand(c)' \subseteq InHand(c) /\ InHand(c) \subseteq Id
  BY DEF InHand, Claimed, StreamInv, Typed
<1>2. \A j \in jobs : j.i \in Id /\ log[j.i].st \in {"pending", "acked"}
  BY JobFacts DEF StreamInv, Delivered
<1>3. \A c \in Consumer : \A i \in InHand(c) : log'[i].st = "pending" /\ ~log'[i].idle
  BY <1>1 DEF InOnePair
<1>4. \A j \in jobs : ~log'[j.i].idle /\ (j.pc \in {"run", "backoff", "bury"} => log'[j.i].st = "pending")
  BY <1>2 DEF InOnePair
<1>5. \A c, d \in Consumer : /\ c # d => poll'[c].ids \cap poll'[d].ids = {} /\ Claimed(c)' \cap Claimed(d)' = {}
                             /\ poll'[c].ids \cap Claimed(d)' = {}
  BY DEF InOnePair
<1>6. \A j \in jobs', c \in Consumer : j.i \notin InHand(c)'
  BY <1>1 DEF InOnePair
<1> QED BY <1>1, <1>3, <1>4, <1>5, <1>6 DEF InOnePair

\* An entry goes from the log to one loop, and from there to one call of processMessage().
LEMMA LoopOnePair ==
  ASSUME StreamInv, InOnePair, NEW c \in Consumer, LoopStep(c), ~ReadFails(c), ~ClaimFails(c), ~Crash(c)
  PROVE  InOnePair' /\ jobs \subseteq jobs'
<1> USE DEF StreamInv
<1>1. \A j \in jobs : j.i \in Id /\ log[j.i].st \in {"pending", "acked"}
  BY JobFacts DEF Delivered
<1>2. \A d \in Consumer : InHand(d) \subseteq Id /\ \A i \in InHand(d) : log[i].st = "pending" /\ ~log[i].idle
  BY DEF InHand, Claimed, Typed, InOnePair
<1>3. ASSUME NEW pc, poll' = [poll EXCEPT ![c] = Loop(pc)] PROVE \A d \in Consumer : poll'[d].ids \subseteq poll[d].ids
  BY <1>3 DEF Typed, Loop
<1>4. ASSUME NEW pc \in {"asleep", "done"}, claim' = [claim EXCEPT ![c] = Loop(pc)] PROVE \A d \in Consumer : Claimed(d)' \subseteq Claimed(d)
  BY <1>4 DEF Typed, Loop, Claimed
<1>5. (poll' = poll => \A d \in Consumer : poll'[d].ids \subseteq poll[d].ids) /\ (claim' = claim => \A d \in Consumer : Claimed(d)' = Claimed(d))
  BY DEF Claimed
<1>6. CASE Start(c) \/ Read(c) \/ ReadNothing(c) \/ PollEnds(c) \/ ClaimEnds(c) \/ Stop(c) \/ Drained(c)
  <2>1. jobs' = jobs
    <3>1. CASE Drained(c)
      <4>1. {j \in jobs : j.c = c} = {}
        BY <3>1, FS_EmptySet, BusyFinite DEF Drained, Busy, Bounded
      <4> QED BY <3>1, <4>1 DEF Drained, Gone
    <3> QED BY <1>6, <3>1 DEF Start, Read, ReadNothing, PollEnds, ClaimEnds, Stop
  <2>2. log' = log
    BY <1>6 DEF Start, Read, ReadNothing, PollEnds, ClaimEnds, Stop, Drained, Gone
  <2>3. \A d \in Consumer : poll'[d].ids \subseteq poll[d].ids
    <3>1. poll' = poll \/ \E pc : poll' = [poll EXCEPT ![c] = Loop(pc)]
      BY <1>6 DEF Start, Read, ReadNothing, PollEnds, ClaimEnds, Stop, Drained, ClaimVars
    <3> QED BY <1>3, <1>5, <3>1
  <2>4. \A d \in Consumer : Claimed(d)' \subseteq Claimed(d)
    <3>1. claim' = claim \/ \E pc \in {"asleep", "done"} : claim' = [claim EXCEPT ![c] = Loop(pc)]
      BY <1>6 DEF Start, Read, ReadNothing, PollEnds, ClaimEnds, Stop, Drained, Gone, PollVars
    <3> QED BY <1>4, <1>5, <3>1
  <2> QED BY <2>1, <2>2, <2>3, <2>4, HandsShrink
<1>7. CASE Scan(c)
  <2>1. jobs' = jobs /\ log' = log /\ poll' = poll /\ claim[c].pc = "awake"
    BY <1>7 DEF Scan, ClaimVars
  <2>2. Claimed(c)' = {} /\ \A d \in Consumer \ {c} : Claimed(d)' = Claimed(d)
    BY <1>7 DEF Scan, Claimed, Loop, Typed
  <2> QED BY <1>5, <2>1, <2>2, HandsShrink
<1>8. CASE ReadExec(c)
  <2> DEFINE ids == First(InState("new"), BatchSize)
  <2>1. ids \subseteq Id /\ \A i \in ids : log[i].st = "new"
    BY DEF First, InState
  <2>2. log' = Given(c, ids) /\ jobs' = jobs /\ claim' = claim
    BY <1>8 DEF ReadExec, PollVars
  <2>3. poll'[c].ids \subseteq ids /\ \A d \in Consumer \ {c} : poll'[d] = poll[d]
    BY <1>8 DEF ReadExec, Typed, Loop
  <2> HIDE DEF ids
  <2>4. \A i \in Id : /\ i \notin ids => log'[i] = log[i]
                      /\ i \in ids => log'[i].st = "pending" /\ ~log'[i].idle
    BY <2>1, <2>2, GivenFacts
  <2>5. \A d \in Consumer : Claimed(d)' = Claimed(d) /\ Claimed(d) \subseteq InHand(d) /\ poll[d].ids \subseteq InHand(d)
    BY <2>2 DEF Claimed, InHand
  <2>6. \A d \in Consumer : ids \cap InHand(d) = {}
    BY <1>2, <2>1
  <2>7. \A j \in jobs : j.i \notin ids
    BY <1>1, <2>1
  <2>8. \A d \in Consumer : InHand(d)' = poll'[d].ids \cup Claimed(d) /\ InHand(d) = poll[d].ids \cup Claimed(d)
    BY <2>5 DEF InHand
  <2>9. \A d, e \in Consumer : /\ d # e => poll'[d].ids \cap poll'[e].ids = {} /\ Claimed(d)' \cap Claimed(e)' = {}
                               /\ poll'[d].ids \cap Claimed(e)' = {}
    BY <2>3, <2>5, <2>6 DEF InOnePair
  <2>10. \A j \in jobs', d \in Consumer : j.i \notin InHand(d)'
    BY <2>2, <2>3, <2>7, <2>8 DEF InOnePair
  <2>11. \A d \in Consumer : \A i \in InHand(d)' : log'[i].st = "pending" /\ ~log'[i].idle
    BY <1>2, <2>1, <2>3, <2>4, <2>8
  <2>12. \A j \in jobs' : ~log'[j.i].idle /\ (j.pc \in {"run", "backoff", "bury"} => log'[j.i].st = "pending")
    BY <1>1, <2>2, <2>4, <2>7 DEF InOnePair
  <2> QED BY <2>2, <2>9, <2>10, <2>11, <2>12 DEF InOnePair
<1>9. CASE Deliver(c)
  <2>1. jobs' = Began(c, poll[c].ids) /\ log' = log /\ claim' = claim
    BY <1>9 DEF Deliver, PollVars
  <2>2. poll'[c].ids = {} /\ \A d \in Consumer \ {c} : poll'[d] = poll[d]
    BY <1>9 DEF Deliver, Typed, Loop
  <2>3. /\ jobs \subseteq jobs'
        /\ \A k \in jobs' \ jobs : k.i \in poll[c].ids /\ k.pc = "run"
        /\ \A k, l \in jobs' \ jobs : k.i = l.i => k = l
    <3>1. poll[c].ids \subseteq Id /\ Busy(c) <= MostJobs /\ IsFiniteSet(jobs)
      BY DEF Typed, Bounded
    <3> QED BY <2>1, <3>1, BeganFacts
  <2>4. \A d \in Consumer : InHand(d)' \subseteq InHand(d) /\ Claimed(d)' = Claimed(d) /\ poll[d].ids \subseteq InHand(d)
    BY <2>1, <2>2 DEF InHand, Claimed
  <2>5. \A j, k \in jobs' : j.i = k.i => j = k
    BY <2>3, <2>4 DEF InOnePair
  <2>6. \A j \in jobs', d \in Consumer : j.i \notin InHand(d)'
    <3>1. \A d \in Consumer : poll[c].ids \cap InHand(d)' = {}
      BY <2>1, <2>2, <2>4 DEF InOnePair, InHand
    <3> QED BY <2>3, <2>4, <3>1 DEF InOnePair
  <2>7. \A d, e \in Consumer : /\ d # e => poll'[d].ids \cap poll'[e].ids = {} /\ Claimed(d)' \cap Claimed(e)' = {}
                               /\ poll'[d].ids \cap Claimed(e)' = {}
    BY <2>2, <2>4 DEF InOnePair
  <2>8. \A d \in Consumer : \A i \in InHand(d)' : log'[i].st = "pending" /\ ~log'[i].idle
    BY <1>2, <2>1, <2>4
  <2>9. \A j \in jobs' : ~log'[j.i].idle /\ (j.pc \in {"run", "backoff", "bury"} => log'[j.i].st = "pending")
    BY <1>2, <2>1, <2>3, <2>4 DEF InOnePair
  <2> QED BY <2>3, <2>5, <2>6, <2>7, <2>8, <2>9 DEF InOnePair
<1>10. CASE ClaimExec(c)
  <2> DEFINE ids == Claimable(c)
  <2>1. ids \subseteq Id /\ \A i \in ids : log[i].idle
    BY DEF Claimable, Typed, Idle
  <2>2. log' = Given(c, ids) /\ jobs' = jobs /\ poll' = poll
    BY <1>10 DEF ClaimExec, ClaimVars
  <2>3. Claimed(c)' \subseteq ids /\ \A d \in Consumer \ {c} : Claimed(d)' = Claimed(d)
    BY <1>10 DEF ClaimExec, Typed, Loop, Claimed
  <2> HIDE DEF ids
  <2>4. \A i \in Id : /\ i \notin ids => log'[i] = log[i]
                      /\ i \in ids => log'[i].st = "pending" /\ ~log'[i].idle
    BY <2>1, <2>2, GivenFacts
  <2>5. \A d \in Consumer : Claimed(d) \subseteq InHand(d) /\ poll[d].ids \subseteq InHand(d)
    BY DEF InHand
  <2>6. \A d \in Consumer : ids \cap InHand(d) = {}
    BY <1>2, <2>1
  <2>7. \A j \in jobs : j.i \notin ids
    BY <2>1 DEF InOnePair
  <2>8. \A d \in Consumer : InHand(d)' \subseteq InHand(d) \cup ids
    BY <2>2, <2>3 DEF InHand
  <2>9. \A d, e \in Consumer : /\ d # e => poll'[d].ids \cap poll'[e].ids = {} /\ Claimed(d)' \cap Claimed(e)' = {}
                               /\ poll'[d].ids \cap Claimed(e)' = {}
    BY <2>2, <2>3, <2>5, <2>6 DEF InOnePair
  <2>10. \A j \in jobs', d \in Consumer : j.i \notin InHand(d)'
    BY <2>2, <2>7, <2>8 DEF InOnePair
  <2>11. \A d \in Consumer : \A i \in InHand(d)' : log'[i].st = "pending" /\ ~log'[i].idle
    BY <1>2, <2>1, <2>4, <2>8
  <2>12. \A j \in jobs' : ~log'[j.i].idle /\ (j.pc \in {"run", "backoff", "bury"} => log'[j.i].st = "pending")
    BY <1>1, <2>2, <2>4, <2>7 DEF InOnePair
  <2> QED BY <2>2, <2>9, <2>10, <2>11, <2>12 DEF InOnePair
<1>11. CASE Spawn(c)
  <2> DEFINE one == First(claim[c].ids, 1)
  <2>1. one \subseteq Claimed(c) /\ one \subseteq Id
    BY <1>11 DEF First, Spawn, Claimed, Typed
  <2>2. jobs' = Began(c, one) /\ log' = log /\ poll' = poll
    BY <1>11 DEF Spawn, ClaimVars
  <2>3. Claimed(c)' \subseteq Claimed(c) \ one /\ \A d \in Consumer \ {c} : Claimed(d)' = Claimed(d)
    BY <1>11 DEF Spawn, Typed, Loop, Claimed
  <2> HIDE DEF one
  <2>4. /\ jobs \subseteq jobs'
        /\ \A k \in jobs' \ jobs : k.i \in one /\ k.pc = "run"
        /\ \A k, l \in jobs' \ jobs : k.i = l.i => k = l
    <3>1. Busy(c) <= MostJobs /\ IsFiniteSet(jobs)
      BY DEF Bounded
    <3> QED BY <2>1, <2>2, <3>1, BeganFacts
  <2>5. \A d \in Consumer : InHand(d)' \subseteq InHand(d) /\ one \cap InHand(d)' = {}
    BY <2>1, <2>2, <2>3 DEF InHand, InOnePair
  <2>6. one \subseteq InHand(c)
    BY <2>1 DEF InHand
  <2>7. \A j, k \in jobs' : j.i = k.i => j = k
    BY <2>4, <2>6 DEF InOnePair
  <2>8. \A j \in jobs', d \in Consumer : j.i \notin InHand(d)'
    BY <2>4, <2>5 DEF InOnePair
  <2>9. \A d, e \in Consumer : /\ d # e => poll'[d].ids \cap poll'[e].ids = {} /\ Claimed(d)' \cap Claimed(e)' = {}
                               /\ poll'[d].ids \cap Claimed(e)' = {}
    BY <2>2, <2>3 DEF InOnePair
  <2>10. \A d \in Consumer : \A i \in InHand(d)' : log'[i].st = "pending" /\ ~log'[i].idle
    BY <1>2, <2>2, <2>5
  <2>11. \A j \in jobs' : ~log'[j.i].idle /\ (j.pc \in {"run", "backoff", "bury"} => log'[j.i].st = "pending")
    BY <1>2, <2>2, <2>4, <2>6 DEF InOnePair
  <2> QED BY <2>4, <2>7, <2>8, <2>9, <2>10, <2>11 DEF InOnePair
<1> QED BY <1>6, <1>7, <1>8, <1>9, <1>10, <1>11 DEF LoopStep, PollStep, ClaimStep

\* What the call on an entry does to it, and to the other calls.
LEMMA JobOnePair ==
  ASSUME StreamInv, InOnePair, NEW j \in jobs, JobStep(j)
  PROVE  InOnePair'
<1> USE DEF StreamInv
<1>1. \A k \in jobs : k.i \in Id /\ log[k.i].st \in {"pending", "acked"}
  BY JobFacts DEF Delivered
<1>2. /\ j.i \in Id /\ log[j.i].msg \in Msg
      /\ AfterFailure(j.i) \in JobPhases /\ "ack" \in JobPhases /\ "drop" \in JobPhases
      /\ TRUE \in BOOLEAN /\ j.inner \in BOOLEAN
  BY JobFacts DEF JobPhases
<1>3. UNCHANGED <<poll, claim>>
  BY JobStepWrites
<1>4. \A c \in Consumer : InHand(c)' = InHand(c) /\ Claimed(c)' = Claimed(c) /\ InHand(c) \subseteq Id
  BY <1>3 DEF InHand, Claimed, Typed
<1>5. \A k \in jobs' : k \in jobs \ {j} \/ (k.i = j.i /\ (k.pc \in {"bury", "backoff"} => j.pc = "run"))
  <2>1. jobs' = jobs \ {j} \/ \E pc \in JobPhases, inner \in BOOLEAN : jobs' = At(j, pc, inner)
                                /\ (pc \in {"bury", "backoff"} => j.pc = "run")
    BY <1>2 DEF JobStep, Unreadable, Succeeds, Throws, Rejects, Ack, Readd, Bury, Drop, Goes
  <2> QED BY <2>1, AtFacts
<1>6. \A k \in jobs' : k.i = j.i \/ (k \in jobs /\ k.i # j.i)
  BY <1>5 DEF InOnePair
<1>7. \A k, l \in jobs' : k.i = l.i => k = l
  <2>1. jobs' = jobs \ {j} \/ \E pc \in JobPhases, inner \in BOOLEAN : jobs' = At(j, pc, inner)
    BY <1>2 DEF JobStep, Unreadable, Succeeds, Throws, Rejects, Ack, Readd, Bury, Drop, Goes
  <2>2. \E x : x.i = j.i /\ jobs' \subseteq (jobs \ {j}) \cup {x}
    BY <2>1, AtFacts
  <2> QED BY <2>2 DEF InOnePair
<1>8. \A i \in Id : /\ i # j.i => log'[i] = log[i]
                    /\ ~log[i].idle => ~log'[i].idle
                    /\ j.pc = "run" => log'[i] = log[i]
  <2>1. CASE log' = log
    BY <2>1
  <2>2. CASE j.pc \in {"ack", "drop"} /\ log' = Acked(j.i)
    BY <1>2, <2>2, AckedFacts
  <2>3. CASE j.pc = "backoff" /\ log' = Added(log[j.i].msg, log[j.i].att + 1) /\ log[j.i].att + 1 \in 1..MaxRetries
    BY <1>2, <2>3, AddedFacts
  <2> QED BY <2>1, <2>2, <2>3, JobStepWrites
<1>9. \A k \in jobs' : ~log'[k.i].idle /\ (k.pc \in {"run", "backoff", "bury"} => log'[k.i].st = "pending")
  <2>1. \A k \in jobs' : k.pc \in {"run", "backoff", "bury"} => (k \in jobs /\ k.i # j.i) \/ (k.i = j.i /\ j.pc = "run")
    <3>1. \A k \in jobs' : k.pc = "run" => k \in jobs \ {j}
      <4>1. jobs' = jobs \ {j} \/ \E pc \in JobPhases, inner \in BOOLEAN : jobs' = At(j, pc, inner) /\ pc # "run"
        BY <1>2, JobFacts DEF JobStep, Unreadable, Succeeds, Throws, Rejects, Ack, Readd, Bury, Drop, Goes
      <4> QED BY <4>1, AtFacts
    <3> QED BY <1>5, <3>1 DEF InOnePair
  <2>2. \A k \in jobs' : k.i \in Id
    BY <1>1, <1>2, <1>6
  <2>3. ~log[j.i].idle /\ (j.pc = "run" => log[j.i].st = "pending")
    BY DEF InOnePair
  <2> QED BY <1>1, <1>2, <1>6, <1>8, <2>1, <2>2, <2>3 DEF InOnePair
<1>10. \A k \in jobs', c \in Consumer : k.i \notin InHand(c)'
  BY <1>4, <1>5 DEF InOnePair
<1>11. \A c \in Consumer : \A i \in InHand(c)' : log'[i].st = "pending" /\ ~log'[i].idle
  <2>1. \A c \in Consumer : j.i \notin InHand(c)
    BY DEF InOnePair
  <2> QED BY <1>4, <1>8, <2>1 DEF InOnePair
<1> QED BY <1>3, <1>4, <1>7, <1>9, <1>10, <1>11 DEF InOnePair

\* A step that neither handles nor adds an entry, and forgets nothing that is finishing.
LEMMA NoNewActive ==
  ASSUME StreamInv, OneActive, handled' = handled, Id' = Id, \A i \in Id : log'[i].msg = log[i].msg,
         \A i \in Id : Finishing(i) => Finishing(i)'
  PROVE  OneActive'
BY DEF OneActive

\* The entry of an added attempt is the one of its message that may still be handled.
LEMMA AddedActive ==
  ASSUME StreamInv, OneActive, handled' = handled, NEW m \in Msg, NEW att \in 1..MaxRetries, log' = Added(m, att),
         \A i \in Id : Finishing(i) => Finishing(i)',
         \A i \in Id : log[i].msg = m => Finishing(i)',
         handled[m] = 0
  PROVE  OneActive'
<1> DEFINE n == Len(log) + 1
<1>1. Id' = Id \cup {n} /\ n \notin Id /\ (\A i \in Id : log'[i] = log[i]) /\ log'[n].msg = m
  BY AddedFacts, LogFacts DEF StreamInv
<1>2. \A x \in Msg : handled[x] \in Nat
  BY DEF StreamInv, Typed
<1> HIDE DEF n
<1>3. \A i, k \in Id' : log'[i].msg = log'[k].msg /\ ~Finishing(i)' /\ ~Finishing(k)' => i = k
  BY <1>1 DEF OneActive
<1>4. \A x \in Msg : /\ handled'[x] <= 1
                     /\ handled'[x] > 0 => /\ \A i \in Id' : log'[i].msg = x => Finishing(i)'
                                           /\ \E i \in Id' : log'[i].msg = x
  BY <1>1, <1>2 DEF OneActive
<1> QED BY <1>3, <1>4 DEF OneActive

LEMMA LoopOneActive ==
  ASSUME StreamInv, InOnePair, OneActive, NEW c \in Consumer, LoopStep(c), ~ReadFails(c), ~ClaimFails(c), ~Crash(c)
  PROVE  OneActive'
<1>1. jobs \subseteq jobs' /\ handled' = handled
  BY LoopOnePair, LoopStepFacts DEF StreamInv
<1>2. Id' = Id /\ \A i \in Id : log'[i].msg = log[i].msg /\ (log[i].st = "acked" => log'[i].st = "acked")
  <2>1. CASE UNCHANGED log
    BY <2>1 DEF Id
  <2>2. ASSUME NEW ids \in SUBSET Id, log' = Given(c, ids), \A i \in ids : log[i].st \in {"new", "pending"}
        PROVE Id' = Id /\ \A i \in Id : log'[i].msg = log[i].msg /\ (log[i].st = "acked" => log'[i].st = "acked")
    BY <2>2, GivenFacts DEF StreamInv
  <2> QED BY <2>1, <2>2, LoopStepFacts DEF StreamInv
<1>3. \A i \in Id : Finishing(i) => Finishing(i)'
  BY <1>1, <1>2 DEF Finishing
<1> QED BY <1>1, <1>2, <1>3, NoNewActive

LEMMA JobOneActive ==
  ASSUME StreamInv, InOnePair, OneActive, NEW j \in jobs, JobStep(j)
  PROVE  OneActive'
<1> USE DEF StreamInv
<1>1. \A k \in jobs : k.i \in Id /\ log[k.i].st \in {"pending", "acked"}
  BY JobFacts DEF Delivered
<1>2. /\ j.i \in Id /\ log[j.i].msg \in Msg
      /\ AfterFailure(j.i) \in JobPhases /\ "ack" \in JobPhases /\ "drop" \in JobPhases
      /\ TRUE \in BOOLEAN /\ j.inner \in BOOLEAN
  BY JobFacts DEF JobPhases
<1>3. \A m \in Msg : handled[m] \in Nat
  BY DEF Typed
<1>4. \A i \in Id : i \in Id' /\ log'[i].msg = log[i].msg
  <2>1. Next
    BY DEF Next
  <2> QED BY <2>1, EntriesKept
<1>5. \A i \in Id : log[i].st = "acked" => log'[i].st = "acked"
  <2>1. CASE log' = log
    BY <2>1
  <2>2. CASE log' = Acked(j.i)
    BY <1>2, <2>2, AckedFacts
  <2>3. CASE log' = Added(log[j.i].msg, log[j.i].att + 1) /\ log[j.i].att + 1 \in 1..MaxRetries
    BY <1>2, <2>3, AddedFacts
  <2> QED BY <2>1, <2>2, <2>3, JobStepWrites
\* The other calls stay.
<1>6. jobs \ {j} \subseteq jobs'
  <2>1. jobs' = jobs \ {j} \/ \E pc \in JobPhases, inner \in BOOLEAN : jobs' = At(j, pc, inner)
    BY <1>2 DEF JobStep, Unreadable, Succeeds, Throws, Rejects, Ack, Readd, Bury, Drop, Goes
  <2> QED BY <2>1 DEF At
<1>7. ASSUME NEW i \in Id, Finishing(i), i # j.i PROVE Finishing(i)'
  BY <1>5, <1>6, <1>7 DEF Finishing
<1>8. ASSUME NEW pc \in {"ack", "drop"}, jobs' = At(j, pc, j.inner) PROVE Finishing(j.i)'
  <2>1. \E k \in jobs' : k.i = j.i /\ k.pc = pc
    BY <1>2, <1>8, AtFacts
  <2> QED BY <2>1 DEF Finishing
<1>9. ASSUME log' = Acked(j.i) PROVE Finishing(j.i)'
  <2>1. log'[j.i].st = "acked"
    BY <1>1, <1>2, <1>9, AckedFacts
  <2> QED BY <2>1 DEF Finishing
<1>10. j.pc \in {"run", "backoff", "bury"} => ~Finishing(j.i)
  BY DEF Finishing, InOnePair
<1>11. CASE Unreadable(j) \/ Throws(j) \/ Rejects(j)
  <2>1. handled' = handled /\ log' = log /\ j.pc = "run"
    BY <1>11 DEF Unreadable, Throws, Rejects
  <2>2. \A i \in Id : Finishing(i) => Finishing(i)'
    BY <1>7, <1>10, <2>1
  <2> QED BY <1>4, <2>1, <2>2, NoNewActive DEF Id
<1>12. CASE Ack(j) \/ Drop(j)
  <2>1. handled' = handled /\ log' = Acked(j.i)
    BY <1>12 DEF Ack, Drop
  <2>2. \A i \in Id : Finishing(i) => Finishing(i)'
    BY <1>7, <1>9, <2>1
  <2>3. Id' = Id
    BY <1>2, <2>1, AckedFacts
  <2> QED BY <1>4, <2>1, <2>2, <2>3, NoNewActive
<1>13. CASE Bury(j)
  <2>1. handled' = handled /\ log' = log /\ jobs' = At(j, "drop", j.inner)
    BY <1>13 DEF Bury, Goes
  <2>2. \A i \in Id : Finishing(i) => Finishing(i)'
    BY <1>7, <1>8, <2>1
  <2> QED BY <1>4, <2>1, <2>2, NoNewActive DEF Id
<1>14. CASE Readd(j)
  <2>1. handled' = handled /\ log' = Added(log[j.i].msg, log[j.i].att + 1) /\ jobs' = At(j, "drop", j.inner) /\ j.pc = "backoff"
    BY <1>14 DEF Readd, Goes
  <2>2. \A i \in Id : Finishing(i) => Finishing(i)'
    BY <1>7, <1>8, <2>1
  <2>3. PICK m \in Msg, att \in 1..MaxRetries : m = log[j.i].msg /\ att = log[j.i].att + 1
    BY <1>2, <2>1, JobFacts, ConstantFacts DEF Earned
  <2>4. \A i \in Id : log[i].msg = m => Finishing(i)'
    BY <1>2, <1>8, <1>10, <2>1, <2>2, <2>3 DEF OneActive
  <2>5. handled[m] = 0
    BY <1>2, <1>3, <1>10, <2>1, <2>3 DEF OneActive
  <2> QED BY <2>1, <2>2, <2>3, <2>4, <2>5, AddedActive
<1>15. CASE Succeeds(j)
  <2>1. Handled(j) /\ log' = log /\ jobs' = At(j, "ack", j.inner) /\ j.pc = "run"
    BY <1>15 DEF Succeeds, Goes
  <2>2. \A i \in Id : Finishing(i) => Finishing(i)'
    BY <1>7, <1>8, <2>1
  <2>3. Id' = Id
    BY <2>1 DEF Id
  <2>4. handled[log[j.i].msg] = 0
    BY <1>2, <1>3, <1>10, <2>1 DEF OneActive
  <2>5. \A m \in Msg : handled'[m] = IF m = log[j.i].msg THEN 1 ELSE handled[m]
    BY <1>2, <2>1, <2>4 DEF Handled, Typed
  <2>6. \A i \in Id : log[i].msg = log[j.i].msg => Finishing(i)'
    BY <1>2, <1>8, <1>10, <2>1, <2>2 DEF OneActive
  <2>7. \A i, k \in Id' : log'[i].msg = log'[k].msg /\ ~Finishing(i)' /\ ~Finishing(k)' => i = k
    BY <2>1, <2>2, <2>3 DEF OneActive
  <2>8. \A m \in Msg : /\ handled'[m] <= 1
                       /\ handled'[m] > 0 => /\ \A i \in Id' : log'[i].msg = m => Finishing(i)'
                                             /\ \E i \in Id' : log'[i].msg = m
    BY <1>2, <2>1, <2>2, <2>3, <2>5, <2>6 DEF OneActive
  <2> QED BY <2>7, <2>8 DEF OneActive
<1> QED BY <1>11, <1>12, <1>13, <1>14, <1>15 DEF JobStep

LEMMA CalmStep ==
  ASSUME StreamInv, Calm, [Next]_vars
  PROVE  Calm'
<1> SUFFICES ASSUME CalmNow' PROVE (requeue = None /\ InOnePair /\ OneActive)'
  BY DEF Calm
<1> USE DEF StreamInv
<1>1. requeue = None /\ InOnePair /\ OneActive
  BY CalmBefore DEF Calm
<1>2. ASSUME NEW c \in Consumer, LoopStep(c) PROVE (requeue = None /\ InOnePair /\ OneActive)'
  <2>1. ~ReadFails(c) /\ ~ClaimFails(c) /\ ~Crash(c)
    BY CalmBefore
  <2>2. requeue' = requeue
    BY <1>2, LoopStepFacts
  <2> QED BY <1>1, <1>2, <2>1, <2>2, LoopOnePair, LoopOneActive
<1>3. ASSUME NEW j \in jobs, WorkStep(j) PROVE (requeue = None /\ InOnePair /\ OneActive)'
  <2>1. JobStep(j)
    BY <1>3, CalmBefore
  <2>2. requeue' = requeue
    BY <1>3, JobStepWrites DEF WorkStep
  <2> QED BY <1>1, <2>1, <2>2, JobOnePair, JobOneActive
<1>4. ASSUME NEW m \in Msg PROVE ~Requeue(m) /\ ~RequeueDel(m) /\ ~RequeueFails(m)
  BY <1>1, CalmBefore, ConstantFacts DEF RequeueDel, RequeueFails
<1>5. ASSUME NEW m \in Msg, Publish(m) PROVE (requeue = None /\ InOnePair /\ OneActive)'
  <2>1. /\ log' = Added(m, 1) /\ 1 \in 1..MaxRetries /\ UNCHANGED <<jobs, poll, claim, handled, requeue>>
        /\ \A i \in Id : log[i].msg # m
    BY <1>5, ConstantFacts DEF Publish
  <2>2. \A i \in Id : log'[i] = log[i]
    BY <2>1, AddedFacts
  <2>3. InOnePair'
    BY <1>1, <2>1, <2>2, HandsShrink DEF Claimed
  <2>4. \A i \in Id : Finishing(i) => Finishing(i)'
    BY <2>1, <2>2 DEF Finishing
  <2>5. handled[m] = 0
    <3>1. handled[m] \in Nat
      BY DEF Typed
    <3>2. ~(handled[m] > 0)
      BY <1>1, <2>1 DEF OneActive
    <3> QED BY <3>1, <3>2
  <2> QED BY <1>1, <2>1, <2>3, <2>4, <2>5, AddedActive
<1>6. CASE CreateGroup
  <2>1. jobs = {} /\ \A c \in Consumer : InHand(c) = {}
    BY <1>6, JobFacts DEF CreateGroup, Delivered, InHand, Claimed, Typed
  <2>2. UNCHANGED <<jobs, poll, claim, handled, requeue>> /\ Id' = Id /\ \A i \in Id : log'[i].msg = log[i].msg /\ log[i].st = "missed"
    BY <1>6 DEF CreateGroup, Id, Now, Delivered
  <2>3. InOnePair'
    BY <1>1, <2>1, <2>2 DEF InOnePair, InHand, Claimed
  <2>4. \A i \in Id : ~Finishing(i)
    BY <2>1, <2>2 DEF Finishing
  <2> QED BY <1>1, <2>2, <2>3, <2>4, NoNewActive
<1>7. CASE Tick
  <2>1. UNCHANGED <<jobs, poll, handled, requeue>> /\ Id' = Id
        /\ \A i \in Id : log'[i].msg = log[i].msg /\ log'[i].st = log[i].st /\ (log'[i].idle <=> log[i].st = "pending")
    BY <1>7 DEF Tick, Id, Now
  <2>2. \A c \in Consumer : Claimed(c)' = Claimed(c)
    BY <1>7 DEF Tick, Claimed, Loop
  <2>3. \A i \in Id : log[i].st = "pending" => ~InProcess(i)
    BY <1>7, CalmBefore DEF InState
  <2>4. \A c \in Consumer : \A i \in InHand(c) : i \in Id /\ InProcess(i)
    BY DEF InHand, Claimed, InProcess, Typed
  <2>5. \A c \in Consumer : InHand(c) = {}
    BY <1>1, <2>3, <2>4 DEF InOnePair
  <2>6. \A j \in jobs : j.i \in Id /\ log[j.i].st # "pending"
    BY <2>3, JobFacts DEF InProcess
  <2>7. InOnePair'
    BY <1>1, <2>1, <2>2, <2>5, <2>6 DEF InOnePair, InHand
  <2>8. \A i \in Id : Finishing(i) => Finishing(i)'
    BY <2>1 DEF Finishing
  <2> QED BY <1>1, <2>1, <2>7, <2>8, NoNewActive
<1>8. CASE UNCHANGED vars
  <2>1. UNCHANGED <<jobs, poll, claim, handled, requeue, log>>
    BY <1>8 DEF vars
  <2>2. InOnePair'
    BY <1>1, <2>1 DEF InOnePair, InHand, Claimed
  <2>3. OneActive'
    BY <1>1, <2>1 DEF OneActive, Finishing, Id
  <2> QED BY <1>1, <2>1, <2>2, <2>3
<1> QED BY <1>2, <1>3, <1>4, <1>5, <1>6, <1>7, <1>8, NextCases

--------------------------------------------------------------------------------
(* The theorems. *)

LEMMA StreamInit ==
  ASSUME Init
  PROVE  StreamInv
<1>1. IsFiniteSet({}) /\ Cardinality({}) = 0 /\ \A c \in Consumer : {j \in {} : j.c = c} = {}
  BY FS_EmptySet
<1>2. \A c \in Consumer : Busy(c) = 0 /\ Cardinality(poll[c].ids) = 0
  BY <1>1 DEF Init, Busy, Loop
<1>3. log = <<>> /\ Id = {} /\ log \in Seq(LogEntry)
  BY DEF Init, Id
<1>4. Typed
  BY <1>3 DEF Init, Typed, Loop, PollPhases, ClaimPhases
<1>5. Bounded
  BY <1>1, <1>2, ConstantFacts DEF Init, Bounded
<1>6. Earned
  BY <1>3 DEF Init, Earned, DeadLettersEarned
<1>7. Delivered
  BY <1>3 DEF Init, Delivered, Loop
<1>8. Kept
  BY <1>3 DEF Init, Kept, Reached
<1> QED BY <1>4, <1>5, <1>6, <1>7, <1>8 DEF StreamInv

LEMMA StreamStep ==
  ASSUME StreamInv, [Next]_vars
  PROVE  StreamInv'
BY TypedStep, BoundedStep, EarnedStep, DeliveredStep, KeptStep DEF StreamInv

LEMMA StreamInvariant == Spec => []StreamInv
<1>1. Init => StreamInv
  BY StreamInit
<1>2. StreamInv /\ [Next]_vars => StreamInv'
  BY StreamStep
<1> QED BY <1>1, <1>2, PTL DEF Spec

LEMMA KeptImplies ==
  ASSUME StreamInv
  PROVE  TypeOK /\ NothingLost /\ DeadLettersEarned
<1>1. TypeOK
  <2>1. \A i \in Id : log[i] \in [msg : Msg, att : 1..MaxRetries, by : Consumer \cup {None}, idle : BOOLEAN,
                                 st : {"missed", "new", "pending", "acked"}]
    BY LogFacts DEF StreamInv, LogEntry, LogStates
  <2>2. \A j \in jobs : /\ j.c \in Consumer /\ j.i \in Id /\ j.n \in Nat /\ j.inner \in BOOLEAN
                        /\ j.pc \in {"run", "ack", "backoff", "bury", "drop"}
    BY JobFacts DEF StreamInv, JobPhases
  <2> QED BY <2>1, <2>2 DEF TypeOK, StreamInv, Typed, PollPhases, ClaimPhases
<1>2. NothingLost
  <2> SUFFICES ASSUME DlqEnabled, NEW m \in Msg, Reached(m)
               PROVE  \/ handled[m] > 0 \/ dlq[m] > 0
                      \/ \E i \in Id : log[i].msg = m /\ log[i].st \in {"new", "pending"}
    BY DEF NothingLost
  <2>1. dlq[m] > Owed(m) => dlq[m] > 0
    BY DEF Owed, StreamInv, Typed
  <2> QED BY <2>1 DEF StreamInv, Kept, Safe, Alive
<1> QED BY <1>1, <1>2 DEF StreamInv, Earned

\* No message is lost and none is given up early, whatever fails, dies or is requeued:
\* the guarantee of at-least-once delivery (consumer-instance.ts, dead-letter.service.ts).
THEOREM NoMessageLost == Spec => []MessagesKept
<1>1. StreamInv => MessagesKept
  BY KeptImplies DEF MessagesKept
<1> QED BY <1>1, StreamInvariant, PTL

\* A consumer never has more than its concurrency and one batch in process, and while no
\* command fails, nobody dies and no handler outlasts claimIdleTimeout, whatever stops and
\* whatever is claimed, no message is handled twice.
THEOREM WorkIsBounded == Spec => []WorkBounded
<1>1. Init => Calm
  BY DEF Init, Calm, InOnePair, OneActive, InHand, Claimed, Loop, Id
<1>2. StreamInv /\ Calm /\ [Next]_vars => Calm'
  BY CalmStep
<1>3. StreamInv => ProcessingBounded
  BY DEF StreamInv, Bounded, ProcessingBounded
<1>4. Calm => OnceWhenCalm
  BY DEF Calm, CalmNow, OneActive, OnceWhenCalm
<1>5. StreamInv /\ Calm => WorkBounded
  BY <1>3, <1>4 DEF WorkBounded
<1> QED BY <1>1, <1>2, <1>5, StreamInvariant, PTL DEF Spec
================================================================================
