--------------------------- MODULE StaleEntries_proofs ---------------------------
(* Machine-checked proofs about StaleEntries for every set of calls and of processes, every *)
(* ttl, stale time and window, and every number of failures, hanging loaders and clears;    *)
(* about InvalidationEvents for all messages, rules, targets and numbers of workers; about  *)
(* CachedCalls for all calls, decorators, changes of the data and errors; and about         *)
(* CacheKeys for all keys, contexts and options.                                            *)
EXTENDS StaleEntries, InvalidationEvents, CachedCalls, CacheKeys, FiniteSetTheorems, TLAPS

--------------------------------------------------------------------------------
(* The inductive invariant: whatever holds a value says how old it can be.                  *)

Phases == {"new", "reading", "read", "joined", "salvaging", "getting", "gotten", "setting", "deleting", "done"}
Outcomes == {"none", "hit", "loaded", "salvaged", "got", "got expired", "null", "set", "deleted", "error", "crashed"}
Stages == {"none", "checking", "loading", "loaded", "writing", "hung", "over"}
Item == [val : 0..Versions, age : Nat, left : Nat, plain : BOOLEAN]

CallRecord == [pc : Phases, t : Nat, seen : Item, on : Call \cup {None}, val : 0..Versions, out : Outcomes, lag : Nat]
LoadRecord == [for : {"none", "job", "flight"}, st : Stages, val : 0..Versions, age : Nat, t : Nat]
Copy == [val : 0..Versions, left : Nat]

CallsTyped == call \in [Call -> CallRecord]
WorkTyped == work \in [Call -> LoadRecord]
RestTyped ==
  /\ flights \in [Process -> Call \cup {None}] /\ jobs \in [Process -> Call \cup {None}]
  /\ entry \in Item /\ l1 \in [Process -> Copy]
  /\ faults \in Nat /\ hangs \in Nat /\ clears \in Nat

\* Only what was replaced grows older.
Clocked ==
  /\ source \in 1..Versions /\ since \in [1..Versions -> Nat]
  /\ \A v \in 1..Versions : v >= source => since[v] = 0

\* An entry of a loader was loaded for MaxLoad at most before its age counts, one of set() was
\* sent for MaxDelay at most; and Redis keeps no entry for longer than it was told.
Fits(e, late, s, f) ==
  /\ e.val \in 1..s /\ e.left >= 1
  /\ e.plain => f[e.val] <= e.age + MaxDelay /\ e.age + e.left <= Ttl + late
  /\ ~e.plain => f[e.val] <= e.age + MaxLoad /\ e.age + e.left <= Retain + MaxDelay + late

CallFits(r, s, f) ==
  /\ r.pc \in Waiting => r.t <= MaxDelay
  /\ r.pc \in {"new", "reading", "getting"} => r.seen = Nothing
  /\ r.pc \in {"read", "gotten"} => r.seen = Nothing \/ Fits(r.seen, r.t, s, f)
  /\ r.pc = "setting" => r.val \in 1..s /\ f[r.val] <= r.t
CallsFit == \A c \in Call : CallFits(call[c], source, since)

LoadFits(r, s, f) ==
  /\ r.st \in {"loading", "loaded"} => r.t <= MaxLoad
  /\ r.st = "loaded" => r.val \in 1..s /\ f[r.val] <= r.t
  /\ r.st = "writing" => /\ r.val \in 1..s /\ r.t <= MaxDelay /\ r.age = r.t
                         /\ f[r.val] <= MaxLoad + r.age
WorkFits == \A w \in Call : LoadFits(work[w], source, since)

EntryFits == entry = Nothing \/ Fits(entry, 0, source, since)

CopyFits(m, s, f) == m.val # 0 => m.val \in 1..s /\ f[m.val] + m.left <= MaxLoad + 2 * MaxDelay + Retain + L1Ttl
MemoryFits == \A p \in Process : CopyFits(l1[p], source, since)

\* A call that has not read yet, or read and did not go on, started no work.
Unburdened == \A c \in Call : call[c].pc \notin {"joined", "salvaging", "done"} => work[c].st = "none"

\* Beside the revalidation in the map a process runs at most one for each time it was cleared.
Runs(r) == r.for = "job" /\ r.st \notin {"none", "over"}
Spare(p) == IF jobs[p] = None THEN clears ELSE clears + 1
Tracked ==
  \A p \in Process :
    /\ jobs[p] # None => jobs[p] \in Running(p)
    /\ IsFiniteSet(Running(p)) /\ Cardinality(Running(p)) <= Spare(p)

Inv ==
  /\ CallsTyped /\ WorkTyped /\ RestTyped /\ Clocked
  /\ CallsFit /\ WorkFits /\ EntryFits /\ MemoryFits /\ ServedInTime /\ Unburdened /\ Tracked

LEMMA ConstantFacts ==
  /\ Call \subseteq Nat /\ Home \in [Call -> Process] /\ None \notin Call
  /\ Ttl \in Nat /\ Ttl >= 1 /\ L1Ttl \in Nat /\ MaxDelay \in Nat /\ MaxLoad \in Nat
  /\ Versions \in Nat /\ Versions >= 1
  /\ Kept \in Nat /\ Retain \in Nat /\ Ttl <= Kept /\ Kept <= Retain
  /\ Horizon = MaxLoad + 2 * MaxDelay + Retain + L1Ttl + 1
<1>1. Kept \in Nat /\ Ttl <= Kept
  BY StaleAssumption DEF Kept, StaleFor
<1>2. Retain \in Nat /\ Kept <= Retain
  BY StaleAssumption, <1>1 DEF Retain
<1> QED
  BY StaleAssumption, <1>1, <1>2 DEF Horizon

LEMMA RecordFacts ==
  /\ Nothing \in Item /\ Nothing.val = 0
  /\ Empty \in Copy /\ Empty.val = 0
  /\ Idle \in LoadRecord
  /\ Idle.for = "none" /\ Idle.st = "none"
BY StaleAssumption DEF Nothing, Empty, Idle, Item, Copy, LoadRecord, Stages

LEMMA BoundFacts ==
  /\ \A out \in Outcomes : Bound(out) \in Nat /\ Bound(out) <= MaxLoad + 2 * MaxDelay + Retain + L1Ttl
  /\ Bound("hit") = MaxLoad + 2 * MaxDelay + Kept /\ Bound("loaded") = MaxLoad + MaxDelay
  /\ Bound("salvaged") = MaxLoad + 2 * MaxDelay + Retain
  /\ \A out \in {"got", "got expired", "null"} : Bound(out) = MaxLoad + 2 * MaxDelay + Retain + L1Ttl
BY ConstantFacts DEF Bound, Outcomes

\* What the invariant says of one call, one load, one memory.
LEMMA Facts ==
  ASSUME Inv
  PROVE  /\ \A c \in Call : call[c] \in CallRecord /\ CallFits(call[c], source, since) /\ Home[c] \in Process
         /\ \A w \in Call : work[w] \in LoadRecord /\ LoadFits(work[w], source, since)
         /\ \A p \in Process : l1[p] \in Copy /\ CopyFits(l1[p], source, since)
         /\ entry \in Item /\ (entry = Nothing \/ Fits(entry, 0, source, since))
         /\ source \in 1..Versions /\ source \in Nat /\ since \in [1..Versions -> Nat]
BY ConstantFacts DEF Inv, CallsTyped, CallsFit, WorkTyped, WorkFits, RestTyped, MemoryFits, EntryFits, Clocked

--------------------------------------------------------------------------------
(* One call, one load changes: what is to be shown of its new record.                       *)

LEMMA OneCall ==
  ASSUME Inv, NEW c \in Call, NEW r \in CallRecord, CallFits(r, source, since),
         r.out # "none" => r.lag <= Bound(r.out),
         call' = [call EXCEPT ![c] = r], UNCHANGED <<source, since>>
  PROVE  CallsTyped' /\ CallsFit' /\ ServedInTime' /\ \A d \in Call : call'[d] = IF d = c THEN r ELSE call[d]
<1>1. call \in [Call -> CallRecord]
  BY DEF Inv, CallsTyped
<1>2. call' \in [Call -> CallRecord] /\ \A d \in Call : call'[d] = IF d = c THEN r ELSE call[d]
  BY <1>1
<1>3. \A d \in Call : CallFits(call'[d], source, since)
  BY <1>2, Facts
<1>4. \A d \in Call : call'[d].out # "none" => call'[d].lag <= Bound(call'[d].out)
  BY <1>2 DEF Inv, ServedInTime
<1> QED
  BY <1>2, <1>3, <1>4 DEF CallsTyped, CallsFit, ServedInTime

LEMMA SameCalls ==
  ASSUME Inv, UNCHANGED <<call, source, since>>
  PROVE  CallsTyped' /\ CallsFit' /\ ServedInTime'
BY DEF Inv, CallsTyped, CallsFit, ServedInTime

LEMMA EndedFits ==
  ASSUME Inv, NEW c \in Call, NEW out \in Outcomes \ {"none"}, NEW val \in 0..source,
         val # 0 => since[val] <= Bound(out)
  PROVE  LET r == Ended(call[c], out, val) IN
         /\ r \in CallRecord /\ r.pc = "done" /\ CallFits(r, source, since)
         /\ r.out # "none" => r.lag <= Bound(r.out)
<1>1. call[c] \in CallRecord
  BY Facts
<1>2. (IF val = 0 THEN 0 ELSE since[val]) \in Nat /\ val \in 0..Versions
  BY Facts, ConstantFacts
<1>3. Ended(call[c], out, val) \in CallRecord
  BY <1>1, <1>2, RecordFacts DEF Ended, CallRecord, Phases
<1>4. /\ Ended(call[c], out, val).pc = "done" /\ Ended(call[c], out, val).out = out
      /\ Ended(call[c], out, val).lag = IF val = 0 THEN 0 ELSE since[val]
  BY <1>1 DEF Ended, CallRecord
<1>5. CallFits(Ended(call[c], out, val), source, since)
  BY <1>4 DEF CallFits, Waiting
<1>6. Ended(call[c], out, val).lag <= Bound(out)
  <2>1. Bound(out) \in Nat
    BY BoundFacts
  <2>2. CASE val = 0
    BY <1>4, <2>1, <2>2
  <2>3. CASE val # 0
    BY <1>4, <2>3
  <2> QED
    BY <2>2, <2>3
<1> QED
  BY <1>3, <1>4, <1>5, <1>6

LEMMA EndKeeps ==
  ASSUME Inv, NEW c \in Call, NEW out \in Outcomes \ {"none"}, NEW val \in 0..source,
         val # 0 => since[val] <= Bound(out), End(c, out, val), UNCHANGED <<source, since>>
  PROVE  CallsTyped' /\ CallsFit' /\ ServedInTime' /\ \A d \in Call : call'[d].pc = IF d = c THEN "done" ELSE call[d].pc
<1>1. call' = [call EXCEPT ![c] = Ended(call[c], out, val)]
  BY DEF End
<1> DEFINE r == Ended(call[c], out, val)
<1>2. r \in CallRecord /\ r.pc = "done" /\ CallFits(r, source, since) /\ (r.out # "none" => r.lag <= Bound(r.out))
  BY EndedFits
<1> HIDE DEF r
<1>3. call' = [call EXCEPT ![c] = r]
  BY <1>1 DEF r
<1>4. CallsTyped' /\ CallsFit' /\ ServedInTime' /\ \A d \in Call : call'[d] = IF d = c THEN r ELSE call[d]
  BY <1>2, <1>3, OneCall
<1> QED
  BY <1>2, <1>4

LEMMA SettleKeeps ==
  ASSUME Inv, NEW w \in Call, NEW out \in Outcomes \ {"none"}, NEW val \in 0..source,
         val # 0 => since[val] <= Bound(out), Settles(w, out, val), UNCHANGED <<source, since>>
  PROVE  /\ CallsTyped' /\ CallsFit' /\ ServedInTime'
         /\ \A d \in Call : \/ call'[d].pc = call[d].pc
                            \/ call[d].pc = "joined" /\ call'[d].pc \in {"done", "salvaging"}
<1>1. call \in [Call -> CallRecord]
  BY DEF Inv, CallsTyped
<1> DEFINE Salvaged(r) == [r EXCEPT !.pc = "salvaging", !.on = None, !.t = 0]
<1>2. ASSUME NEW r \in CallRecord
      PROVE  /\ Salvaged(r) \in CallRecord /\ Salvaged(r).pc = "salvaging" /\ CallFits(Salvaged(r), source, since)
             /\ Salvaged(r).out = r.out /\ Salvaged(r).lag = r.lag
  <2>1. Salvaged(r) \in CallRecord
    BY DEF CallRecord, Phases
  <2>2. /\ Salvaged(r).pc = "salvaging" /\ Salvaged(r).t = 0
        /\ Salvaged(r).out = r.out /\ Salvaged(r).lag = r.lag
    BY DEF CallRecord
  <2> QED
    BY <2>1, <2>2, ConstantFacts DEF CallFits
<1>3. /\ DOMAIN call' = Call /\ call' = [d \in Call |-> call'[d]]
      /\ \A d \in Call : \/ call'[d] = call[d]
                         \/ call[d].pc = "joined" /\ call'[d] = Salvaged(call[d])
                         \/ call[d].pc = "joined" /\ call'[d] = Ended(call[d], out, val)
  BY DEF Settles, OnFlight
<1> HIDE DEF Salvaged
<1>4. ASSUME NEW d \in Call
      PROVE  /\ call'[d] \in CallRecord /\ CallFits(call'[d], source, since)
             /\ call'[d].out # "none" => call'[d].lag <= Bound(call'[d].out)
             /\ \/ call'[d].pc = call[d].pc
                \/ call[d].pc = "joined" /\ call'[d].pc \in {"done", "salvaging"}
  <2>1. call[d] \in CallRecord /\ CallFits(call[d], source, since) /\ (call[d].out # "none" => call[d].lag <= Bound(call[d].out))
    BY Facts DEF Inv, ServedInTime
  <2>2. CASE call'[d] = call[d]
    BY <2>1, <2>2
  <2>3. CASE call[d].pc = "joined" /\ call'[d] = Salvaged(call[d])
    BY <2>1, <2>3, <1>2
  <2>4. CASE call[d].pc = "joined" /\ call'[d] = Ended(call[d], out, val)
    BY <2>4, EndedFits
  <2> QED
    BY <2>2, <2>3, <2>4, <1>3
<1> QED
  BY <1>3, <1>4 DEF CallsTyped, CallsFit, ServedInTime

LEMMA OneLoad ==
  ASSUME Inv, NEW w \in Call, NEW r \in LoadRecord, LoadFits(r, source, since),
         work' = [work EXCEPT ![w] = r], UNCHANGED <<source, since>>
  PROVE  WorkTyped' /\ WorkFits' /\ \A d \in Call : work'[d] = IF d = w THEN r ELSE work[d]
<1>1. work \in [Call -> LoadRecord]
  BY DEF Inv, WorkTyped
<1>2. work' \in [Call -> LoadRecord] /\ \A d \in Call : work'[d] = IF d = w THEN r ELSE work[d]
  BY <1>1
<1>3. \A d \in Call : LoadFits(work'[d], source, since)
  BY <1>2, Facts
<1> QED
  BY <1>2, <1>3 DEF WorkTyped, WorkFits

LEMMA SameLoads ==
  ASSUME Inv, UNCHANGED <<work, source, since>>
  PROVE  WorkTyped' /\ WorkFits'
BY DEF Inv, WorkTyped, WorkFits

LEMMA SameClock ==
  ASSUME Inv, UNCHANGED <<source, since>> PROVE Clocked'
BY DEF Inv, Clocked

LEMMA SameEntry ==
  ASSUME Inv, UNCHANGED <<entry, source, since>> PROVE EntryFits'
BY DEF Inv, EntryFits

LEMMA SameMemory ==
  ASSUME Inv, UNCHANGED <<l1, source, since>> PROVE MemoryFits'
BY DEF Inv, MemoryFits

LEMMA OneCopy ==
  ASSUME Inv, NEW p \in Process, NEW m \in Copy, CopyFits(m, source, since),
         l1' = [l1 EXCEPT ![p] = m], UNCHANGED <<source, since>>
  PROVE  l1' \in [Process -> Copy] /\ MemoryFits'
<1>1. l1 \in [Process -> Copy]
  BY DEF Inv, RestTyped
<1>2. l1' \in [Process -> Copy] /\ \A q \in Process : l1'[q] = IF q = p THEN m ELSE l1[q]
  BY <1>1
<1>3. \A q \in Process : CopyFits(l1'[q], source, since)
  BY <1>2, Facts
<1> QED
  BY <1>2, <1>3 DEF MemoryFits

LEMMA SameRest ==
  ASSUME Inv, entry' \in Item, l1' \in [Process -> Copy], UNCHANGED <<flights, jobs>>,
         faults' \in Nat, hangs' \in Nat, clears' \in Nat
  PROVE  RestTyped'
BY DEF Inv, RestTyped

--------------------------------------------------------------------------------
(* Revalidations that run, and the map that names them.                                     *)

LEMMA RunningFacts ==
  \A p \in Process : Running(p) = {w \in Call : Home[w] = p /\ Runs(work[w])}
BY DEF Running, Runs

LEMMA TrackedFacts ==
  ASSUME Inv, NEW p \in Process
  PROVE  /\ IsFiniteSet(Running(p)) /\ Cardinality(Running(p)) \in Nat
         /\ Spare(p) \in Nat /\ Cardinality(Running(p)) <= Spare(p)
         /\ clears \in Nat /\ jobs[p] \in Call \cup {None}
         /\ Spare(p) = IF jobs[p] = None THEN clears ELSE clears + 1
<1>1. IsFiniteSet(Running(p)) /\ Cardinality(Running(p)) <= Spare(p)
  BY DEF Inv, Tracked
<1>2. Cardinality(Running(p)) \in Nat
  BY <1>1, FS_CardinalityType
<1> QED
  BY <1>1, <1>2 DEF Spare, Inv, RestTyped

LEMMA TrackedKept ==
  ASSUME Inv, UNCHANGED <<jobs, clears>>, \A w \in Call : Runs(work'[w]) <=> Runs(work[w])
  PROVE  Tracked'
<1>1. \A p \in Process : {w \in Call : Home[w] = p /\ Runs(work'[w])} = {w \in Call : Home[w] = p /\ Runs(work[w])}
  OBVIOUS
<1>2. \A p \in Process : Running(p)' = Running(p)
  BY <1>1 DEF Running, Runs
<1>3. \A p \in Process : Spare(p)' = Spare(p)
  BY DEF Spare
<1> QED
  BY <1>2, <1>3 DEF Inv, Tracked

\* A revalidation that ends clears the map of its process, whoever is in it.
LEMMA TrackedOver ==
  ASSUME Inv, NEW w \in Call, Over(w), work[w].st \notin {"none", "over"}, UNCHANGED clears
  PROVE  Tracked'
<1>1. work \in [Call -> LoadRecord] /\ Home[w] \in Process /\ jobs \in [Process -> Call \cup {None}]
  BY ConstantFacts DEF Inv, WorkTyped, RestTyped
<1>2. /\ work' \in [Call -> LoadRecord] /\ ~Runs(work'[w])
      /\ \A d \in Call : d # w => work'[d] = work[d]
  BY <1>1, RecordFacts DEF Over, Runs, Idle, LoadRecord, Stages
<1>3. CASE work[w].for # "job"
  <2>1. jobs' = jobs /\ ~Runs(work[w])
    BY <1>3 DEF Over, Leave, LeaveAlways, Runs
  <2> QED
    BY <1>2, <2>1, TrackedKept
<1>4. CASE work[w].for = "job"
  <2>1. jobs' = [jobs EXCEPT ![Home[w]] = None] /\ Runs(work[w])
    BY <1>4 DEF Over, Leave, LeaveAlways, Runs
  <2> SUFFICES ASSUME NEW p \in Process
               PROVE  /\ jobs'[p] # None => jobs'[p] \in Running(p)'
                      /\ IsFiniteSet(Running(p)') /\ Cardinality(Running(p)') <= Spare(p)'
    BY DEF Tracked
  <2>2. CASE p = Home[w]
    <3>1. {d \in Call : Home[d] = p /\ Runs(work'[d])} = {d \in Call : Home[d] = p /\ Runs(work[d])} \ {w}
      BY <1>2, <2>2
    <3>2. Running(p)' = Running(p) \ {w} /\ w \in Running(p)
      BY <2>1, <2>2, <3>1, RunningFacts DEF Running, Runs
    <3>3. IsFiniteSet(Running(p)') /\ Cardinality(Running(p)') = Cardinality(Running(p)) - 1
      BY <3>2, TrackedFacts, FS_RemoveElement
    <3>4. jobs'[p] = None /\ Spare(p)' = clears
      BY <1>1, <2>1, <2>2 DEF Spare
    <3> QED
      BY <3>3, <3>4, TrackedFacts
  <2>3. CASE p # Home[w]
    <3>1. {d \in Call : Home[d] = p /\ Runs(work'[d])} = {d \in Call : Home[d] = p /\ Runs(work[d])}
      BY <1>2, <2>3
    <3>2. Running(p)' = Running(p)
      BY <3>1, RunningFacts DEF Running, Runs
    <3>3. jobs'[p] = jobs[p] /\ Spare(p)' = Spare(p)
      BY <1>1, <2>1, <2>3 DEF Spare
    <3> QED
      BY <3>2, <3>3 DEF Inv, Tracked
  <2> QED
    BY <2>2, <2>3
<1> QED
  BY <1>3, <1>4

\* One is added only where the map has none.
LEMMA TrackedAdded ==
  ASSUME Inv, NEW c \in Call, jobs[Home[c]] = None, ~Runs(work[c]),
         jobs' = [jobs EXCEPT ![Home[c]] = c], NEW r \in LoadRecord, Runs(r), work' = [work EXCEPT ![c] = r], UNCHANGED clears
  PROVE  Tracked'
<1>1. work \in [Call -> LoadRecord] /\ Home[c] \in Process /\ jobs \in [Process -> Call \cup {None}]
  BY ConstantFacts DEF Inv, WorkTyped, RestTyped
<1>2. Runs(work'[c]) /\ \A d \in Call : d # c => work'[d] = work[d]
  BY <1>1
<1> SUFFICES ASSUME NEW p \in Process
             PROVE  /\ jobs'[p] # None => jobs'[p] \in Running(p)'
                    /\ IsFiniteSet(Running(p)') /\ Cardinality(Running(p)') <= Spare(p)'
  BY DEF Tracked
<1>3. CASE p = Home[c]
  <2>1. {d \in Call : Home[d] = p /\ Runs(work'[d])} = {d \in Call : Home[d] = p /\ Runs(work[d])} \cup {c}
    BY <1>2, <1>3
  <2>2. Running(p)' = Running(p) \cup {c} /\ c \notin Running(p)
    BY <2>1, RunningFacts DEF Running, Runs
  <2>3. IsFiniteSet(Running(p)') /\ Cardinality(Running(p)') = Cardinality(Running(p)) + 1
    BY <2>2, TrackedFacts, FS_AddElement
  <2>4. jobs'[p] = c /\ Spare(p)' = clears + 1 /\ Spare(p) = clears
    BY <1>1, <1>3, ConstantFacts DEF Spare
  <2> QED
    BY <2>2, <2>3, <2>4, TrackedFacts
<1>4. CASE p # Home[c]
  <2>1. {d \in Call : Home[d] = p /\ Runs(work'[d])} = {d \in Call : Home[d] = p /\ Runs(work[d])}
    BY <1>2, <1>4
  <2>2. Running(p)' = Running(p)
    BY <2>1, RunningFacts DEF Running, Runs
  <2>3. jobs'[p] = jobs[p] /\ Spare(p)' = Spare(p)
    BY <1>1, <1>4 DEF Spare
  <2> QED
    BY <2>2, <2>3 DEF Inv, Tracked
<1> QED
  BY <1>3, <1>4

--------------------------------------------------------------------------------
(* A call begins, goes on or is answered; its load does not change.                         *)

LEMMA NoWork ==
  ASSUME Inv, UNCHANGED <<work, flights, jobs, source, since, clears>>,
         entry' \in Item, EntryFits', l1' \in [Process -> Copy], MemoryFits', faults' \in Nat, hangs' \in Nat,
         CallsTyped', CallsFit', ServedInTime',
         \A c \in Call : call'[c].pc \notin {"joined", "salvaging", "done"} => call[c].pc \notin {"joined", "salvaging", "done"}
  PROVE  Inv'
<1>1. WorkTyped' /\ WorkFits' /\ Clocked'
  BY SameLoads, SameClock
<1>2. RestTyped'
  BY SameRest DEF Inv, RestTyped
<1>3. Tracked'
  BY TrackedKept
<1>4. Unburdened'
  BY DEF Inv, Unburdened
<1> QED
  BY <1>1, <1>2, <1>3, <1>4 DEF Inv

\* The same, where the entry and the memories stay as they are.
LEMMA CallOnly ==
  ASSUME Inv, UNCHANGED <<work, flights, jobs, entry, l1, source, since, clears>>, faults' \in Nat, hangs' \in Nat,
         CallsTyped', CallsFit', ServedInTime',
         \A c \in Call : call'[c].pc \notin {"joined", "salvaging", "done"} => call[c].pc \notin {"joined", "salvaging", "done"}
  PROVE  Inv'
<1>1. entry' \in Item /\ EntryFits' /\ l1' \in [Process -> Copy] /\ MemoryFits'
  BY SameEntry, SameMemory DEF Inv, RestTyped
<1> QED
  BY <1>1, NoWork

\* What is known of an entry that was read, or is still there, this long ago.
LEMMA FitsFacts ==
  ASSUME Inv, NEW e \in Item, NEW late \in Nat, late <= MaxDelay, Fits(e, late, source, since)
  PROVE  /\ e.val \in 1..source /\ e.val \in 0..source /\ since[e.val] \in Nat
         /\ since[e.val] + L1Ttl <= MaxLoad + 2 * MaxDelay + Retain + L1Ttl
         /\ ~IsExpired(e) => since[e.val] <= MaxLoad + 2 * MaxDelay + Kept
         /\ ~PastKeepUntil(e) => since[e.val] <= MaxLoad + 2 * MaxDelay + Retain
<1>1. e.val \in 1..source /\ e.val \in 0..source /\ since[e.val] \in Nat
  <2>1. e.val \in 1..source /\ source \in 1..Versions /\ since \in [1..Versions -> Nat]
    BY Facts DEF Fits
  <2> QED
    BY <2>1, ConstantFacts
<1>2. e.age \in Nat /\ e.left \in Nat /\ e.left >= 1 /\ e.plain \in BOOLEAN
  BY DEF Fits, Item
<1>3. CASE e.plain
  <2>1. since[e.val] <= e.age + MaxDelay /\ e.age + e.left <= Ttl + late
    BY <1>3 DEF Fits
  <2> QED
    BY <1>1, <1>2, <2>1, ConstantFacts
<1>4. CASE ~e.plain
  <2>1. since[e.val] <= e.age + MaxLoad /\ e.age + e.left <= Retain + MaxDelay + late
    BY <1>4 DEF Fits
  <2>2. (~IsExpired(e) => e.age <= Kept) /\ (~PastKeepUntil(e) => e.age <= Retain)
    BY <1>2, <1>4, ConstantFacts DEF IsExpired, PastKeepUntil
  <2> QED
    BY <1>1, <1>2, <2>1, <2>2, ConstantFacts
<1> QED
  BY <1>3, <1>4

\* An entry just read may grow old in the call that read it.
LEMMA FitsRead ==
  ASSUME Inv, NEW late \in Nat, entry # Nothing
  PROVE  Fits(entry, late, source, since)
<1>1. Fits(entry, 0, source, since) /\ entry.age \in Nat /\ entry.left \in Nat
  BY Facts DEF Item
<1>2. Ttl + 0 <= Ttl + late /\ Retain + MaxDelay + 0 <= Retain + MaxDelay + late
  BY ConstantFacts
<1> QED
  BY <1>1, <1>2, ConstantFacts DEF Fits

\* The record of a call that goes on with the same outcome.
LEMMA CallGoesOn ==
  ASSUME Inv, NEW c \in Call, NEW r \in CallRecord, r.out = call[c].out, r.lag = call[c].lag,
         CallFits(r, source, since), r.pc \notin {"joined", "salvaging", "done"} => call[c].pc \notin {"joined", "salvaging", "done"},
         call' = [call EXCEPT ![c] = r], UNCHANGED <<source, since>>
  PROVE  /\ CallsTyped' /\ CallsFit' /\ ServedInTime'
         /\ \A d \in Call : call'[d].pc \notin {"joined", "salvaging", "done"} => call[d].pc \notin {"joined", "salvaging", "done"}
<1>1. r.out # "none" => r.lag <= Bound(r.out)
  BY DEF Inv, ServedInTime
<1>2. CallsTyped' /\ CallsFit' /\ ServedInTime' /\ \A d \in Call : call'[d] = IF d = c THEN r ELSE call[d]
  BY <1>1, OneCall
<1> QED
  BY <1>2

LEMMA BeginInv ==
  ASSUME Inv, NEW c \in Call, NEW pc \in {"reading", "getting"}, Begin(c, pc) PROVE Inv'
<1> DEFINE r == [call[c] EXCEPT !.pc = pc, !.t = 0]
<1>1. call[c] \in CallRecord /\ call[c].pc = "new" /\ CallFits(call[c], source, since)
  BY Facts DEF Begin, New
<1>2. r \in CallRecord /\ r.pc = pc /\ r.t = 0 /\ r.out = call[c].out /\ r.lag = call[c].lag /\ r.seen = call[c].seen
  BY <1>1 DEF CallRecord, Phases
<1>3. CallFits(r, source, since)
  BY <1>1, <1>2, ConstantFacts DEF CallFits
<1>4. call' = [call EXCEPT ![c] = r]
  BY DEF Begin, To
<1> HIDE DEF r
<1>5. UNCHANGED <<work, flights, jobs, entry, l1, source, since, clears>> /\ faults' \in Nat /\ hangs' \in Nat
  BY DEF Begin, Maps, Past, Spent, Inv, RestTyped
<1> QED
  BY <1>1, <1>2, <1>3, <1>4, <1>5, CallGoesOn, CallOnly

LEMMA ReadInv ==
  ASSUME Inv, NEW c \in Call, NEW from \in {"reading", "getting"}, NEW to \in {"read", "gotten"},
         Read(c, from, to) \/ ReadFails(c, from, to)
  PROVE  Inv'
<1> DEFINE r == [call[c] EXCEPT !.pc = to, !.seen = IF Read(c, from, to) THEN entry ELSE @]
<1>1. call[c] \in CallRecord /\ CallFits(call[c], source, since) /\ call[c].pc = from
  BY Facts DEF Read, ReadFails
<1>2. r.pc = to /\ r.t = call[c].t /\ r.out = call[c].out /\ r.lag = call[c].lag /\ r.seen \in {entry, call[c].seen}
  BY <1>1 DEF CallRecord
<1>3. r \in CallRecord
  BY <1>1, Facts DEF CallRecord, Phases
<1>4. call[c].seen = Nothing /\ call[c].t <= MaxDelay /\ call[c].t \in Nat
  BY <1>1 DEF CallFits, Waiting, CallRecord
<1>5. r.seen = Nothing \/ Fits(r.seen, r.t, source, since)
  BY <1>2, <1>4, FitsRead
<1>6. CallFits(r, source, since)
  BY <1>2, <1>4, <1>5 DEF CallFits
<1>7. call' = [call EXCEPT ![c] = r]
  <2>1. CASE Read(c, from, to)
    BY <2>1 DEF Read
  <2>2. CASE ~Read(c, from, to)
    <3>1. r = [call[c] EXCEPT !.pc = to]
      BY <1>1, <2>2 DEF CallRecord
    <3>2. call' = [call EXCEPT ![c].pc = to]
      BY <2>2 DEF ReadFails
    <3> QED
      BY <3>1, <3>2
  <2> QED
    BY <2>1, <2>2
<1> HIDE DEF r
<1>8. UNCHANGED <<work, flights, jobs, entry, l1, source, since, clears>> /\ faults' \in Nat /\ hangs' \in Nat
  BY DEF Read, ReadFails, Fails, Maps, Past, Spent, Inv, RestTyped
<1> QED
  BY <1>1, <1>2, <1>3, <1>6, <1>7, <1>8, CallGoesOn, CallOnly

LEMMA JoinInv ==
  ASSUME Inv, NEW c \in Call, Join(c) PROVE Inv'
<1> DEFINE r == [call[c] EXCEPT !.pc = "joined", !.t = 0, !.on = flights[Home[c]]]
<1>1. call[c] \in CallRecord /\ flights[Home[c]] \in Call \cup {None}
  BY Facts DEF Inv, RestTyped
<1>2. r \in CallRecord /\ r.pc = "joined" /\ r.out = call[c].out /\ r.lag = call[c].lag
  BY <1>1 DEF CallRecord, Phases
<1>3. CallFits(r, source, since)
  BY <1>2 DEF CallFits, Waiting
<1>4. call' = [call EXCEPT ![c] = r]
  BY DEF Join, To
<1> HIDE DEF r
<1>5. UNCHANGED <<work, flights, jobs, entry, l1, source, since, clears>> /\ faults' \in Nat /\ hangs' \in Nat
  BY DEF Join, Maps, Past, Spent, Inv, RestTyped
<1> QED
  BY <1>2, <1>3, <1>4, <1>5, CallGoesOn, CallOnly

LEMMA SalvageInv ==
  ASSUME Inv, NEW c \in Call, Salvage(c) PROVE Inv'
<1>1. UNCHANGED <<work, flights, jobs, entry, l1, source, since, clears>> /\ faults' \in Nat /\ hangs' \in Nat
  BY DEF Salvage, Maps, Past, Spent, Inv, RestTyped
<1>2. PICK out \in Outcomes \ {"none"}, val \in 0..source : End(c, out, val) /\ (val # 0 => since[val] <= Bound(out))
  <2>1. CASE entry # Nothing /\ ~PastKeepUntil(entry) /\ End(c, "salvaged", entry.val)
    <3>1. Fits(entry, 0, source, since) /\ entry \in Item
      BY <2>1, Facts
    <3>2. entry.val \in 0..source /\ since[entry.val] <= Bound("salvaged")
      <4>1. 0 \in Nat /\ 0 <= MaxDelay
        BY ConstantFacts
      <4>2. entry.val \in 0..source /\ since[entry.val] <= MaxLoad + 2 * MaxDelay + Retain
        BY <2>1, <3>1, <4>1, FitsFacts
      <4> QED
        BY <4>2, BoundFacts
    <3>3. "salvaged" \in Outcomes \ {"none"}
      BY DEF Outcomes
    <3> QED
      BY <2>1, <3>2, <3>3
  <2>2. CASE End(c, "error", 0)
    <3>1. "error" \in Outcomes \ {"none"} /\ 0 \in 0..source
      BY Facts DEF Outcomes
    <3> QED
      BY <2>2, <3>1
  <2> QED
    BY <2>1, <2>2 DEF Salvage
<1> QED
  BY <1>1, <1>2, EndKeeps, CallOnly

LEMMA GetFromL1Inv ==
  ASSUME Inv, NEW c \in Call, GetFromL1(c) PROVE Inv'
<1>1. UNCHANGED <<work, flights, jobs, entry, l1, source, since, clears>> /\ faults' \in Nat /\ hangs' \in Nat
  BY DEF GetFromL1, Maps, Past, Spent, Inv, RestTyped
<1> DEFINE m == l1[Home[c]]
<1>2. m \in Copy /\ CopyFits(m, source, since) /\ m.val # 0 /\ End(c, "got", m.val)
  BY Facts DEF GetFromL1
<1> HIDE DEF m
<1>3. m.val \in 1..source /\ m.left \in Nat /\ since[m.val] + m.left <= MaxLoad + 2 * MaxDelay + Retain + L1Ttl
  BY <1>2 DEF CopyFits, Copy
<1>4. m.val \in 0..source /\ since[m.val] <= Bound("got") /\ "got" \in Outcomes \ {"none"}
  <2>1. source \in 1..Versions /\ since \in [1..Versions -> Nat]
    BY Facts
  <2>2. m.val \in 0..source /\ since[m.val] \in Nat
    BY <1>3, <2>1, ConstantFacts
  <2>3. Bound("got") = MaxLoad + 2 * MaxDelay + Retain + L1Ttl /\ "got" \in Outcomes \ {"none"}
    BY BoundFacts DEF Outcomes
  <2> QED
    BY <1>3, <2>2, <2>3, ConstantFacts
<1> QED
  BY <1>1, <1>2, <1>4, EndKeeps, CallOnly

LEMMA GetAnsweredInv ==
  ASSUME Inv, NEW c \in Call, GetAnswered(c) PROVE Inv'
<1> DEFINE e == call[c].seen
           out == IF e = Nothing THEN "null" ELSE IF IsExpired(e) THEN "got expired" ELSE "got"
           m == [val |-> e.val, left |-> L1Ttl]
<1>1. /\ call[c].pc = "gotten" /\ End(c, out, e.val)
      /\ l1' = IF e = Nothing THEN l1 ELSE [l1 EXCEPT ![Home[c]] = m]
  BY DEF GetAnswered
<1>2. e \in Item /\ call[c].t \in Nat /\ call[c].t <= MaxDelay /\ (e = Nothing \/ Fits(e, call[c].t, source, since))
  BY <1>1, Facts DEF CallRecord, CallFits, Waiting
<1>3. out \in {"got", "got expired", "null"} /\ out \in Outcomes \ {"none"}
  BY DEF Outcomes
<1> HIDE DEF out
<1>4. e.val \in 0..source /\ (e.val # 0 => since[e.val] <= Bound(out))
  <2>1. CASE e = Nothing
    BY <2>1, RecordFacts, Facts
  <2>2. CASE e # Nothing
    <3>1. e.val \in 0..source /\ since[e.val] \in Nat /\ since[e.val] + L1Ttl <= MaxLoad + 2 * MaxDelay + Retain + L1Ttl
      BY <1>2, <2>2, FitsFacts
    <3>2. Bound(out) = MaxLoad + 2 * MaxDelay + Retain + L1Ttl
      BY <1>3, BoundFacts
    <3> QED
      BY <3>1, <3>2, ConstantFacts
  <2> QED
    BY <2>1, <2>2
<1>5. UNCHANGED <<work, flights, jobs, entry, source, since, clears>> /\ faults' \in Nat /\ hangs' \in Nat /\ entry' \in Item
  BY DEF GetAnswered, Maps, Past, Spent, Inv, RestTyped
<1>6. l1' \in [Process -> Copy] /\ MemoryFits'
  <2>1. CASE e = Nothing
    BY <1>1, <1>5, <2>1, SameMemory DEF Inv, RestTyped
  <2>2. CASE e # Nothing
    <3>1. e.val \in 1..source /\ since[e.val] + L1Ttl <= MaxLoad + 2 * MaxDelay + Retain + L1Ttl
      BY <1>2, <2>2, FitsFacts
    <3>2. m.val = e.val /\ m.left = L1Ttl
      OBVIOUS
    <3>3. source \in 1..Versions /\ Versions \in Nat
      BY Facts, ConstantFacts
    <3>4. e.val \in 0..Versions
      BY <3>1, <3>3
    <3>5. m \in Copy
      BY <3>4, ConstantFacts DEF Copy
    <3>6. CopyFits(m, source, since)
      BY <3>1, <3>2 DEF CopyFits
    <3> QED
      BY <1>1, <1>5, <2>2, <3>5, <3>6, OneCopy, Facts
  <2> QED
    BY <2>1, <2>2
<1>7. EntryFits'
  BY <1>5, SameEntry
<1>8. CallsTyped' /\ CallsFit' /\ ServedInTime' /\ \A d \in Call : call'[d].pc = IF d = c THEN "done" ELSE call[d].pc
  BY <1>1, <1>3, <1>4, <1>5, EndKeeps
<1> QED
  BY <1>5, <1>6, <1>7, <1>8, NoWork

LEMMA SetInv ==
  ASSUME Inv, NEW c \in Call, Set(c) PROVE Inv'
<1> DEFINE r == [call[c] EXCEPT !.pc = "setting", !.t = 0, !.val = source]
<1>1. call[c] \in CallRecord /\ source \in 1..Versions /\ since[source] = 0 /\ call[c].pc = "new"
  BY Facts DEF Inv, Clocked, Set, New
<1>2. r \in CallRecord /\ r.pc = "setting" /\ r.t = 0 /\ r.val = source /\ r.out = call[c].out /\ r.lag = call[c].lag
  <2>1. source \in 0..Versions
    BY <1>1, ConstantFacts
  <2> QED
    BY <1>1, <2>1 DEF CallRecord, Phases
<1>3. CallFits(r, source, since)
  BY <1>1, <1>2, ConstantFacts DEF CallFits
<1>4. call' = [call EXCEPT ![c] = r]
  BY DEF Set, To
<1> HIDE DEF r
<1>5. UNCHANGED <<work, flights, jobs, entry, l1, source, since, clears>> /\ faults' \in Nat /\ hangs' \in Nat
  BY DEF Set, Maps, Past, Spent, Inv, RestTyped
<1> QED
  BY <1>1, <1>2, <1>3, <1>4, <1>5, CallGoesOn, CallOnly

LEMMA SetExecInv ==
  ASSUME Inv, NEW c \in Call, SetExec(c) PROVE Inv'
<1> DEFINE v == call[c].val
           e == [val |-> v, age |-> 0, left |-> Ttl, plain |-> TRUE]
           m == [val |-> v, left |-> Least(Ttl, L1Ttl)]
<1>1. entry' = e /\ l1' = [l1 EXCEPT ![Home[c]] = m] /\ End(c, "set", 0) /\ call[c].pc = "setting"
  BY DEF SetExec
<1>2. UNCHANGED <<work, flights, jobs, source, since, clears>> /\ faults' \in Nat /\ hangs' \in Nat
  BY DEF SetExec, Maps, Past, Spent, Inv, RestTyped
<1>3. v \in 1..source /\ since[v] <= MaxDelay /\ since[v] \in Nat /\ v \in 0..Versions
  <2>1. v \in 1..source /\ since[v] <= call[c].t /\ call[c].t <= MaxDelay /\ call[c].t \in Nat
    BY <1>1, Facts DEF CallFits, CallRecord, Waiting
  <2>2. source \in 1..Versions /\ since \in [1..Versions -> Nat]
    BY Facts
  <2> QED
    BY <2>1, <2>2, ConstantFacts
<1> HIDE DEF v
<1>4. e \in Item /\ Fits(e, 0, source, since)
  BY <1>3, ConstantFacts DEF Item, Fits
<1>5. Least(Ttl, L1Ttl) \in Nat /\ Least(Ttl, L1Ttl) <= L1Ttl
  BY ConstantFacts DEF Least
<1>6. m \in Copy /\ CopyFits(m, source, since)
  BY <1>3, <1>5, ConstantFacts DEF Copy, CopyFits
<1>7. l1' \in [Process -> Copy] /\ MemoryFits' /\ Home[c] \in Process
  BY <1>1, <1>2, <1>6, OneCopy, Facts
<1>8. EntryFits' /\ entry' \in Item
  BY <1>1, <1>2, <1>4 DEF EntryFits
<1>9. "set" \in Outcomes \ {"none"} /\ 0 \in 0..source
  BY Facts DEF Outcomes
<1>10. CallsTyped' /\ CallsFit' /\ ServedInTime' /\ \A d \in Call : call'[d].pc = IF d = c THEN "done" ELSE call[d].pc
  BY <1>1, <1>2, <1>9, EndKeeps
<1> QED
  BY <1>2, <1>7, <1>8, <1>10, NoWork

LEMMA DeleteInv ==
  ASSUME Inv, NEW c \in Call, Delete(c) PROVE Inv'
<1> DEFINE r == [call[c] EXCEPT !.pc = "deleting", !.t = 0]
<1>1. call[c] \in CallRecord /\ call[c].pc = "new" /\ Home[c] \in Process
  BY Facts DEF Delete, New
<1>2. r \in CallRecord /\ r.pc = "deleting" /\ r.t = 0 /\ r.out = call[c].out /\ r.lag = call[c].lag
  BY <1>1 DEF CallRecord, Phases
<1>3. CallFits(r, source, since)
  BY <1>2, ConstantFacts DEF CallFits
<1>4. call' = [call EXCEPT ![c] = r] /\ l1' = [l1 EXCEPT ![Home[c]] = Empty]
  BY DEF Delete, To
<1> HIDE DEF r
<1>5. /\ UNCHANGED <<work, flights, jobs, entry, source, since, clears>> /\ faults' \in Nat /\ hangs' \in Nat
      /\ entry' \in Item /\ EntryFits'
  BY SameEntry DEF Delete, Maps, Past, Spent, Inv, RestTyped
<1>6. Empty \in Copy /\ CopyFits(Empty, source, since)
  BY RecordFacts DEF CopyFits
<1>7. l1' \in [Process -> Copy] /\ MemoryFits'
  BY <1>1, <1>4, <1>5, <1>6, OneCopy
<1>8. /\ CallsTyped' /\ CallsFit' /\ ServedInTime'
      /\ \A d \in Call : call'[d].pc \notin {"joined", "salvaging", "done"} => call[d].pc \notin {"joined", "salvaging", "done"}
  BY <1>1, <1>2, <1>3, <1>4, <1>5, CallGoesOn
<1> QED
  BY <1>5, <1>7, <1>8, NoWork

LEMMA DeleteExecInv ==
  ASSUME Inv, NEW c \in Call, DeleteExec(c) PROVE Inv'
<1>1. /\ UNCHANGED <<work, flights, jobs, l1, source, since, clears>> /\ faults' \in Nat /\ hangs' \in Nat
      /\ entry' = Nothing /\ End(c, "deleted", 0) /\ l1' \in [Process -> Copy] /\ MemoryFits'
  BY SameMemory DEF DeleteExec, Maps, Past, Spent, Inv, RestTyped
<1>2. "deleted" \in Outcomes \ {"none"} /\ 0 \in 0..source
  BY Facts DEF Outcomes
<1>3. CallsTyped' /\ CallsFit' /\ ServedInTime' /\ \A d \in Call : call'[d].pc = IF d = c THEN "done" ELSE call[d].pc
  BY <1>1, <1>2, EndKeeps
<1>4. entry' \in Item /\ EntryFits'
  BY <1>1, RecordFacts DEF EntryFits
<1> QED
  BY <1>1, <1>3, <1>4, NoWork

LEMMA WriteFailsInv ==
  ASSUME Inv, NEW c \in Call, WriteFails(c) PROVE Inv'
<1>1. /\ UNCHANGED <<work, flights, jobs, entry, l1, source, since, clears>> /\ faults' \in Nat /\ hangs' \in Nat
      /\ End(c, "error", 0)
  BY DEF WriteFails, Fails, Maps, Past, Spent, Inv, RestTyped
<1>2. "error" \in Outcomes \ {"none"} /\ 0 \in 0..source
  BY Facts DEF Outcomes
<1> QED
  BY <1>1, <1>2, EndKeeps, CallOnly

--------------------------------------------------------------------------------
(* Loads and revalidations.                                                                 *)

\* A load goes on: calls, maps, entry and memories stay.
LEMMA LoadGoesOn ==
  ASSUME Inv, NEW w \in Call, NEW r \in LoadRecord, LoadFits(r, source, since), work[w].st # "none",
         Runs(r) <=> Runs(work[w]), work' = [work EXCEPT ![w] = r],
         UNCHANGED <<call, flights, jobs, entry, l1, source, since, clears>>, faults' \in Nat, hangs' \in Nat
  PROVE  Inv'
<1>1. WorkTyped' /\ WorkFits' /\ \A d \in Call : work'[d] = IF d = w THEN r ELSE work[d]
  BY OneLoad
<1>2. CallsTyped' /\ CallsFit' /\ ServedInTime' /\ Clocked' /\ EntryFits' /\ MemoryFits'
  BY SameCalls, SameClock, SameEntry, SameMemory
<1>3. RestTyped'
  BY SameRest DEF Inv, RestTyped
<1>4. Tracked'
  BY <1>1, TrackedKept
<1>5. Unburdened'
  BY <1>1 DEF Inv, Unburdened
<1> QED
  BY <1>1, <1>2, <1>3, <1>4, <1>5 DEF Inv

LEMMA LoaderReadsInv ==
  ASSUME Inv, NEW w \in Call, LoaderReads(w) PROVE Inv'
<1> DEFINE r == [work[w] EXCEPT !.st = "loaded", !.val = source]
<1>1. work[w] \in LoadRecord /\ LoadFits(work[w], source, since) /\ work[w].st = "loading" /\ source \in 1..Versions /\ since[source] = 0
  BY Facts DEF LoaderReads, Inv, Clocked
<1>2. r \in LoadRecord /\ r.st = "loaded" /\ r.val = source /\ r.t = work[w].t /\ r.for = work[w].for /\ r.t \in Nat
  <2>1. source \in 0..Versions
    BY <1>1, ConstantFacts
  <2> QED
    BY <1>1, <2>1 DEF LoadRecord, Stages
<1>3. LoadFits(r, source, since) /\ (Runs(r) <=> Runs(work[w]))
  BY <1>1, <1>2, ConstantFacts DEF LoadFits, Runs
<1>4. work' = [work EXCEPT ![w] = r]
  BY DEF LoaderReads
<1> HIDE DEF r
<1>5. UNCHANGED <<call, flights, jobs, entry, l1, source, since, clears>> /\ faults' \in Nat /\ hangs' \in Nat
  BY DEF LoaderReads, Maps, Past, Spent, Inv, RestTyped
<1> QED
  BY <1>1, <1>2, <1>3, <1>4, <1>5, LoadGoesOn

LEMMA LoaderReturnsInv ==
  ASSUME Inv, NEW w \in Call, LoaderReturns(w) PROVE Inv'
<1> DEFINE r == [work[w] EXCEPT !.st = "writing", !.age = 0, !.t = 0]
<1>1. work[w] \in LoadRecord /\ LoadFits(work[w], source, since) /\ work[w].st = "loaded"
  BY Facts DEF LoaderReturns
<1>2. r \in LoadRecord /\ r.st = "writing" /\ r.val = work[w].val /\ r.t = 0 /\ r.age = 0 /\ r.for = work[w].for
  BY <1>1 DEF LoadRecord, Stages
<1>3. work[w].val \in 1..source /\ since[work[w].val] <= MaxLoad
  <2>1. work[w].val \in 1..source /\ since[work[w].val] <= work[w].t /\ work[w].t <= MaxLoad /\ work[w].t \in Nat
    BY <1>1 DEF LoadFits, LoadRecord
  <2>2. source \in 1..Versions /\ since \in [1..Versions -> Nat]
    BY Facts
  <2>3. work[w].val \in 1..Versions
    BY <2>1, <2>2, ConstantFacts
  <2>4. since[work[w].val] \in Nat
    BY <2>2, <2>3
  <2> QED
    BY <2>1, <2>4, ConstantFacts
<1>4. LoadFits(r, source, since) /\ (Runs(r) <=> Runs(work[w]))
  BY <1>1, <1>2, <1>3, ConstantFacts DEF LoadFits, Runs
<1>5. work' = [work EXCEPT ![w] = r]
  BY DEF LoaderReturns
<1> HIDE DEF r
<1>6. UNCHANGED <<call, flights, jobs, entry, l1, source, since, clears>> /\ faults' \in Nat /\ hangs' \in Nat
  BY DEF LoaderReturns, Maps, Past, Spent, Inv, RestTyped
<1> QED
  BY <1>1, <1>2, <1>4, <1>5, <1>6, LoadGoesOn

LEMMA LoaderHangsInv ==
  ASSUME Inv, NEW w \in Call, LoaderHangs(w) PROVE Inv'
<1> DEFINE r == [work[w] EXCEPT !.st = "hung", !.t = 0]
<1>1. work[w] \in LoadRecord /\ work[w].st = "loading"
  BY Facts DEF LoaderHangs
<1>2. r \in LoadRecord /\ r.st = "hung" /\ r.for = work[w].for
  BY <1>1 DEF LoadRecord, Stages
<1>3. LoadFits(r, source, since) /\ (Runs(r) <=> Runs(work[w]))
  BY <1>1, <1>2 DEF LoadFits, Runs
<1>4. work' = [work EXCEPT ![w] = r]
  BY DEF LoaderHangs
<1> HIDE DEF r
<1>5. UNCHANGED <<call, flights, jobs, entry, l1, source, since, clears>> /\ faults' \in Nat /\ hangs' \in Nat
  BY DEF LoaderHangs, Maps, Past, Spent, Inv, RestTyped
<1> QED
  BY <1>1, <1>2, <1>3, <1>4, <1>5, LoadGoesOn

\* A load is over: its flight settles, or its job leaves the map.
LEMMA OverKeeps ==
  ASSUME Inv, NEW w \in Call, Over(w), work[w].st \notin {"none", "over"}, UNCHANGED <<source, since, clears>>,
         faults' \in Nat, hangs' \in Nat, entry' \in Item, EntryFits', l1' \in [Process -> Copy], MemoryFits',
         CallsTyped', CallsFit', ServedInTime',
         \A d \in Call : call'[d].pc \notin {"joined", "salvaging", "done"} => call[d].pc \notin {"joined", "salvaging", "done"}
  PROVE  Inv'
<1> DEFINE r == [Idle EXCEPT !.for = work[w].for, !.st = "over"]
<1>1. work[w] \in LoadRecord /\ work' = [work EXCEPT ![w] = r] /\ Home[w] \in Process
  BY Facts DEF Over
<1>2. r \in LoadRecord /\ r.st = "over"
  BY <1>1, RecordFacts DEF LoadRecord, Stages
<1>3. LoadFits(r, source, since)
  BY <1>2 DEF LoadFits
<1> HIDE DEF r
<1>4. WorkTyped' /\ WorkFits' /\ \A d \in Call : work'[d] = IF d = w THEN r ELSE work[d]
  BY <1>1, <1>2, <1>3, OneLoad
<1>5. Tracked' /\ Clocked'
  BY TrackedOver, SameClock
<1>6. flights' \in [Process -> Call \cup {None}] /\ jobs' \in [Process -> Call \cup {None}] /\ clears' \in Nat
  BY <1>1 DEF Over, Leave, LeaveAlways, Inv, RestTyped
<1>7. RestTyped'
  BY <1>6 DEF RestTyped
<1>8. Unburdened'
  BY <1>4 DEF Inv, Unburdened
<1> QED
  BY <1>4, <1>5, <1>7, <1>8 DEF Inv

LEMMA RecheckInv ==
  ASSUME Inv, NEW w \in Call, Recheck(w) PROVE Inv'
<1>1. /\ work[w].st = "checking" /\ UNCHANGED <<entry, l1, source, since, clears>> /\ faults' \in Nat /\ hangs' \in Nat
      /\ entry' \in Item /\ l1' \in [Process -> Copy] /\ EntryFits' /\ MemoryFits'
  BY SameEntry, SameMemory DEF Recheck, Past, Spent, Inv, RestTyped
<1>2. CASE Usable(entry) /\ Settles(w, "hit", entry.val) /\ Over(w)
  <2>1. Settles(w, "hit", entry.val) /\ Over(w)
    BY <1>2
  <2>2. Fits(entry, 0, source, since) /\ entry \in Item /\ ~IsExpired(entry)
    BY <1>2, Facts DEF Usable
  <2>3. 0 \in Nat /\ 0 <= MaxDelay /\ "hit" \in Outcomes \ {"none"}
    BY ConstantFacts DEF Outcomes
  <2>4. entry.val \in 0..source /\ since[entry.val] <= Bound("hit")
    BY <2>2, <2>3, FitsFacts, BoundFacts
  <2>5. /\ CallsTyped' /\ CallsFit' /\ ServedInTime'
        /\ \A d \in Call : \/ call'[d].pc = call[d].pc
                           \/ call[d].pc = "joined" /\ call'[d].pc \in {"done", "salvaging"}
    BY <1>1, <2>1, <2>3, <2>4, SettleKeeps
  <2> QED
    BY <1>1, <2>1, <2>5, OverKeeps
<1>3. CASE work' = [work EXCEPT ![w].st = "loading", ![w].t = 0] /\ UNCHANGED <<call, Maps>>
  <2> DEFINE r == [work[w] EXCEPT !.st = "loading", !.t = 0]
  <2>1. work[w] \in LoadRecord
    BY Facts
  <2>2. r \in LoadRecord /\ r.st = "loading" /\ r.t = 0 /\ r.for = work[w].for
    BY <2>1 DEF LoadRecord, Stages
  <2>3. LoadFits(r, source, since) /\ (Runs(r) <=> Runs(work[w]))
    BY <1>1, <2>2, ConstantFacts DEF LoadFits, Runs
  <2>4. work' = [work EXCEPT ![w] = r] /\ UNCHANGED <<call, flights, jobs>>
    BY <1>3 DEF Maps
  <2> HIDE DEF r
  <2> QED
    BY <1>1, <2>2, <2>3, <2>4, LoadGoesOn
<1> QED
  BY <1>2, <1>3 DEF Recheck

LEMMA LoadedEntry ==
  ASSUME Inv, NEW w \in Call, work[w].st = "writing"
  PROVE  /\ Entry(w) \in Item /\ Fits(Entry(w), 0, source, since)
         /\ work[w].val \in 0..source /\ work[w].val \in 1..source /\ since[work[w].val] \in Nat
         /\ since[work[w].val] <= MaxLoad + MaxDelay
<1>1. /\ work[w].val \in 1..source /\ work[w].t <= MaxDelay /\ work[w].age = work[w].t
      /\ since[work[w].val] <= MaxLoad + work[w].age /\ work[w].t \in Nat /\ work[w] \in LoadRecord
  BY Facts DEF LoadFits, LoadRecord
<1>2. source \in 1..Versions /\ since \in [1..Versions -> Nat]
  BY Facts
<1>3. work[w].val \in 0..Versions /\ work[w].val \in 0..source /\ since[work[w].val] \in Nat
  <2>1. Versions \in Nat
    BY ConstantFacts
  <2>2. work[w].val \in 1..Versions /\ work[w].val \in 0..Versions /\ work[w].val \in 0..source
    BY <1>1, <1>2, <2>1
  <2>3. since[work[w].val] \in Nat
    BY <1>2, <2>2
  <2> QED
    BY <2>2, <2>3
<1>4. Entry(w).val = work[w].val /\ Entry(w).age = work[w].age /\ Entry(w).left = Retain /\ ~Entry(w).plain
  BY DEF Entry
<1>5. Entry(w) \in Item
  BY <1>1, <1>3, ConstantFacts DEF Entry, Item
<1>6. Fits(Entry(w), 0, source, since)
  BY <1>1, <1>3, <1>4, ConstantFacts DEF Fits
<1> QED
  BY <1>1, <1>3, <1>5, <1>6, ConstantFacts

LEMMA SetSwrInv ==
  ASSUME Inv, NEW w \in Call, SetSwr(w) PROVE Inv'
<1> DEFINE v == work[w].val
           m == [val |-> v, left |-> L1Ttl]
<1>1. /\ work[w].st = "writing" /\ entry' = Entry(w) /\ Over(w) /\ UNCHANGED <<source, since, clears>>
      /\ faults' \in Nat /\ hangs' \in Nat
  BY DEF SetSwr, Past, Spent, Inv, RestTyped
<1>2. /\ v \in 0..source /\ v \in 1..source /\ since[v] \in Nat /\ since[v] <= MaxLoad + MaxDelay
      /\ entry' \in Item /\ EntryFits'
  BY <1>1, LoadedEntry DEF EntryFits
<1>3. CASE work[w].for = "job"
  <2>1. l1' = [l1 EXCEPT ![Home[w]] = m] /\ call' = call /\ Home[w] \in Process
    BY <1>3, Facts DEF SetSwr
  <2>2. m \in Copy /\ CopyFits(m, source, since)
    <3>1. source \in 1..Versions
      BY Facts
    <3> HIDE DEF v
    <3> QED
      BY <1>2, <3>1, ConstantFacts DEF Copy, CopyFits
  <2>3. l1' \in [Process -> Copy] /\ MemoryFits'
    BY <1>1, <2>1, <2>2, OneCopy
  <2>4. CallsTyped' /\ CallsFit' /\ ServedInTime'
    BY <1>1, <2>1, SameCalls
  <2> QED
    BY <1>1, <1>2, <2>1, <2>3, <2>4, OverKeeps
<1>4. CASE work[w].for # "job"
  <2>1. l1' = l1 /\ Settles(w, "loaded", v)
    BY <1>4 DEF SetSwr
  <2>2. l1' \in [Process -> Copy] /\ MemoryFits'
    BY <1>1, <2>1, SameMemory DEF Inv, RestTyped
  <2>3. "loaded" \in Outcomes \ {"none"} /\ since[v] <= Bound("loaded")
    BY <1>2, BoundFacts DEF Outcomes
  <2> HIDE DEF v
  <2>4. /\ CallsTyped' /\ CallsFit' /\ ServedInTime'
        /\ \A d \in Call : \/ call'[d].pc = call[d].pc
                           \/ call[d].pc = "joined" /\ call'[d].pc \in {"done", "salvaging"}
    BY <1>1, <1>2, <2>1, <2>3, SettleKeeps
  <2> QED
    BY <1>1, <1>2, <2>2, <2>4, OverKeeps
<1> QED
  BY <1>3, <1>4

LEMMA WorkFailsInv ==
  ASSUME Inv, NEW w \in Call, WorkFails(w) PROVE Inv'
<1>1. /\ work[w].st \in {"loading", "loaded", "writing"} /\ Over(w) /\ UNCHANGED <<l1, source, since, clears>>
      /\ faults' \in Nat /\ hangs' \in Nat /\ l1' \in [Process -> Copy] /\ MemoryFits'
  BY SameMemory DEF WorkFails, Fails, Past, Inv, RestTyped
<1>2. entry' \in Item /\ EntryFits'
  <2>1. CASE entry' = entry
    BY <1>1, <2>1, SameEntry DEF Inv, RestTyped
  <2>2. CASE work[w].st = "writing" /\ entry' = Entry(w)
    BY <1>1, <2>2, LoadedEntry DEF EntryFits
  <2> QED
    BY <2>1, <2>2 DEF WorkFails
<1>3. CASE work[w].for = "job"
  <2>1. CallsTyped' /\ CallsFit' /\ ServedInTime' /\ call' = call
    BY <1>1, <1>3, SameCalls DEF WorkFails
  <2> QED
    BY <1>1, <1>2, <2>1, OverKeeps
<1>4. CASE work[w].for # "job"
  <2>1. Settles(w, "error", 0) /\ "error" \in Outcomes \ {"none"} /\ 0 \in 0..source
    BY <1>4, Facts DEF WorkFails, Outcomes
  <2>2. /\ CallsTyped' /\ CallsFit' /\ ServedInTime'
        /\ \A d \in Call : \/ call'[d].pc = call[d].pc
                           \/ call[d].pc = "joined" /\ call'[d].pc \in {"done", "salvaging"}
    BY <1>1, <2>1, SettleKeeps
  <2> QED
    BY <1>1, <1>2, <2>2, OverKeeps
<1> QED
  BY <1>3, <1>4

\* A stale entry is served, and a revalidation scheduled unless one is in the map.
LEMMA HitInv ==
  ASSUME Inv, NEW c \in Call, Hit(c) PROVE Inv'
<1> DEFINE e == call[c].seen
           r == [Idle EXCEPT !.for = "job", !.st = "loading"]
<1>1. /\ UNCHANGED <<flights, entry, l1, source, since, clears>> /\ faults' \in Nat /\ hangs' \in Nat
      /\ call[c].pc = "read" /\ Usable(e) /\ End(c, "hit", e.val)
      /\ entry' \in Item /\ l1' \in [Process -> Copy] /\ EntryFits' /\ MemoryFits' /\ Clocked'
  BY SameEntry, SameMemory, SameClock DEF Hit, Past, Spent, Inv, RestTyped
<1>2. /\ e \in Item /\ call[c].t \in Nat /\ call[c].t <= MaxDelay /\ Fits(e, call[c].t, source, since) /\ ~IsExpired(e)
      /\ Home[c] \in Process
  BY <1>1, Facts DEF CallRecord, CallFits, Waiting, Usable
<1>3. e.val \in 0..source /\ since[e.val] <= Bound("hit") /\ "hit" \in Outcomes \ {"none"}
  BY <1>2, FitsFacts, BoundFacts DEF Outcomes
<1>4. CallsTyped' /\ CallsFit' /\ ServedInTime' /\ \A d \in Call : call'[d].pc = IF d = c THEN "done" ELSE call[d].pc
  BY <1>1, <1>3, EndKeeps
<1>5. CASE Revalidates(c)
  <2>1. jobs[Home[c]] = None /\ jobs' = [jobs EXCEPT ![Home[c]] = c] /\ work' = [work EXCEPT ![c] = r]
    BY <1>5 DEF Hit, Revalidates, MayRevalidate
  <2>2. r \in LoadRecord /\ r.st = "loading" /\ r.t = 0 /\ r.for = "job"
    BY RecordFacts DEF LoadRecord, Stages, Idle
  <2>3. LoadFits(r, source, since) /\ Runs(r)
    BY <2>2, ConstantFacts DEF LoadFits, Runs
  <2>4. work[c].st = "none"
    BY <1>1 DEF Inv, Unburdened
  <2> HIDE DEF r
  <2>5. WorkTyped' /\ WorkFits' /\ \A d \in Call : work'[d] = IF d = c THEN r ELSE work[d]
    BY <1>1, <2>1, <2>2, <2>3, OneLoad
  <2>6. Tracked'
    BY <1>1, <2>1, <2>2, <2>3, <2>4, TrackedAdded DEF Runs
  <2>7. RestTyped'
    BY <1>1, <1>2, <2>1 DEF Inv, RestTyped
  <2>8. Unburdened'
    BY <1>4, <2>5 DEF Inv, Unburdened
  <2> QED
    BY <1>1, <1>4, <2>5, <2>6, <2>7, <2>8 DEF Inv
<1>6. CASE ~Revalidates(c)
  <2>1. UNCHANGED <<jobs, work>>
    BY <1>6 DEF Hit
  <2> QED
    BY <1>1, <1>4, <2>1, NoWork
<1> QED
  BY <1>5, <1>6

LEMMA LeadInv ==
  ASSUME Inv, NEW c \in Call, Lead(c) PROVE Inv'
<1> DEFINE k == [call[c] EXCEPT !.pc = "joined", !.t = 0, !.on = c]
           r == [Idle EXCEPT !.for = "flight", !.st = "checking"]
<1>1. call[c] \in CallRecord /\ call[c].pc = "read" /\ work[c].st = "none" /\ Home[c] \in Process
  BY Facts DEF Lead, Miss, Inv, Unburdened
<1>2. k \in CallRecord /\ k.pc = "joined" /\ k.out = call[c].out /\ k.lag = call[c].lag
  BY <1>1 DEF CallRecord, Phases
<1>3. CallFits(k, source, since)
  BY <1>2 DEF CallFits, Waiting
<1>4. call' = [call EXCEPT ![c] = k] /\ work' = [work EXCEPT ![c] = r] /\ flights' = [flights EXCEPT ![Home[c]] = c]
  BY DEF Lead, To
<1>5. r \in LoadRecord /\ r.st = "checking" /\ r.for = "flight"
  BY RecordFacts DEF LoadRecord, Stages, Idle
<1>6. LoadFits(r, source, since) /\ ~Runs(r) /\ ~Runs(work[c])
  BY <1>1, <1>5 DEF LoadFits, Runs
<1> HIDE DEF k, r
<1>7. /\ UNCHANGED <<jobs, entry, l1, source, since, clears>> /\ faults' \in Nat /\ hangs' \in Nat
      /\ EntryFits' /\ MemoryFits' /\ Clocked'
  BY SameEntry, SameMemory, SameClock DEF Lead, Past, Spent, Inv, RestTyped
<1>8. call[c].out # "none" => k.lag <= Bound(k.out)
  BY <1>2 DEF Inv, ServedInTime
<1>9. CallsTyped' /\ CallsFit' /\ ServedInTime' /\ \A d \in Call : call'[d] = IF d = c THEN k ELSE call[d]
  BY <1>2, <1>3, <1>4, <1>7, <1>8, OneCall
<1>10. WorkTyped' /\ WorkFits' /\ \A d \in Call : work'[d] = IF d = c THEN r ELSE work[d]
  BY <1>4, <1>5, <1>6, <1>7, OneLoad
<1>11. Tracked'
  BY <1>6, <1>7, <1>10, TrackedKept
<1>12. RestTyped'
  BY <1>1, <1>4, <1>7 DEF Inv, RestTyped
<1>13. Unburdened'
  BY <1>2, <1>9, <1>10 DEF Inv, Unburdened
<1> QED
  BY <1>7, <1>9, <1>10, <1>11, <1>12, <1>13 DEF Inv

LEMMA ClearRevalidationsInv ==
  ASSUME Inv, NEW p \in Process, ClearRevalidations(p) PROVE Inv'
<1>1. /\ UNCHANGED <<call, work, flights, entry, l1, source, since>> /\ faults' \in Nat /\ hangs' \in Nat
      /\ clears' = clears + 1 /\ jobs[p] # None /\ jobs' = [jobs EXCEPT ![p] = None] /\ clears \in Nat
  BY DEF ClearRevalidations, Past, Inv, RestTyped
<1>2. CallsTyped' /\ CallsFit' /\ ServedInTime' /\ WorkTyped' /\ WorkFits' /\ Clocked' /\ EntryFits' /\ MemoryFits'
  BY <1>1, SameCalls, SameLoads, SameClock, SameEntry, SameMemory
<1>3. RestTyped' /\ Unburdened'
  BY <1>1 DEF Inv, RestTyped, Unburdened
<1>4. Tracked'
  <2> SUFFICES ASSUME NEW q \in Process
               PROVE  /\ jobs'[q] # None => jobs'[q] \in Running(q)'
                      /\ IsFiniteSet(Running(q)') /\ Cardinality(Running(q)') <= Spare(q)'
    BY DEF Tracked
  <2>1. Running(q)' = Running(q)
    BY <1>1 DEF Running
  <2>2. jobs'[q] = IF q = p THEN None ELSE jobs[q]
    BY <1>1 DEF Inv, RestTyped
  <2>3. Spare(q)' \in Nat /\ Spare(q) <= Spare(q)'
    BY <1>1, <2>2 DEF Spare
  <2> QED
    BY <2>1, <2>2, <2>3, TrackedFacts DEF Inv, Tracked
<1> QED
  BY <1>2, <1>3, <1>4 DEF Inv

LEMMA CrashInv ==
  ASSUME Inv, NEW p \in Process, Crash(p) PROVE Inv'
<1>1. /\ UNCHANGED <<entry, source, since, clears>> /\ faults' \in Nat /\ hangs' \in Nat
      /\ EntryFits' /\ Clocked' /\ entry' \in Item
      /\ flights' = [flights EXCEPT ![p] = None] /\ jobs' = [jobs EXCEPT ![p] = None] /\ l1' = [l1 EXCEPT ![p] = Empty]
  BY SameEntry, SameClock DEF Crash, Fails, Past, Inv, RestTyped
<1>2. "crashed" \in Outcomes \ {"none"} /\ 0 \in 0..source
  BY Facts DEF Outcomes
<1>3. /\ call' = [c \in Call |-> call'[c]]
      /\ \A c \in Call : call'[c] = IF Home[c] = p /\ call[c].pc # "new" THEN Ended(call[c], "crashed", 0) ELSE call[c]
      /\ \A c \in Call : call'[c] \in CallRecord /\ CallFits(call'[c], source, since)
                         /\ (call'[c].out # "none" => call'[c].lag <= Bound(call'[c].out))
                         /\ call'[c].pc \in {"done", call[c].pc}
  <2>1. /\ call' = [c \in Call |-> call'[c]]
        /\ \A c \in Call : call'[c] = IF Home[c] = p /\ call[c].pc # "new" THEN Ended(call[c], "crashed", 0) ELSE call[c]
    BY DEF Crash
  <2>2. ASSUME NEW c \in Call
        PROVE  /\ call'[c] \in CallRecord /\ CallFits(call'[c], source, since)
               /\ (call'[c].out # "none" => call'[c].lag <= Bound(call'[c].out))
               /\ call'[c].pc \in {"done", call[c].pc}
    <3>1. CASE call'[c] = call[c]
      BY <3>1, Facts DEF Inv, ServedInTime
    <3>2. CASE call'[c] = Ended(call[c], "crashed", 0)
      BY <1>2, <3>2, EndedFits
    <3> QED
      BY <2>1, <3>1, <3>2
  <2> QED
    BY <2>1, <2>2
<1>4. CallsTyped' /\ CallsFit' /\ ServedInTime'
  BY <1>1, <1>3 DEF CallsTyped, CallsFit, ServedInTime
<1>5. work' = [c \in Call |-> work'[c]] /\ \A c \in Call : work'[c] = IF Home[c] = p THEN Idle ELSE work[c]
  BY DEF Crash
<1>6. LoadFits(Idle, source, since) /\ ~Runs(Idle)
  BY RecordFacts DEF LoadFits, Runs
<1>7. \A c \in Call : work'[c] \in LoadRecord /\ LoadFits(work'[c], source, since)
  BY <1>5, <1>6, Facts, RecordFacts
<1>8. WorkTyped' /\ WorkFits'
  BY <1>1, <1>5, <1>7 DEF WorkTyped, WorkFits
<1>9. l1' \in [Process -> Copy] /\ MemoryFits'
  BY <1>1, OneCopy, RecordFacts DEF CopyFits
<1>10. RestTyped'
  BY <1>1, <1>9 DEF Inv, RestTyped
<1>11. Unburdened'
  BY <1>3, <1>5, RecordFacts DEF Inv, Unburdened
<1>12. Tracked'
  <2> SUFFICES ASSUME NEW q \in Process
               PROVE  /\ jobs'[q] # None => jobs'[q] \in Running(q)'
                      /\ IsFiniteSet(Running(q)') /\ Cardinality(Running(q)') <= Spare(q)'
    BY DEF Tracked
  <2>1. jobs'[q] = IF q = p THEN None ELSE jobs[q]
    BY <1>1 DEF Inv, RestTyped
  <2>2. CASE q = p
    <3>1. {d \in Call : Home[d] = q /\ Runs(work'[d])} = {}
      BY <1>5, <1>6, <2>2
    <3>2. Running(q)' = {}
      BY <3>1 DEF Running, Runs
    <3>3. IsFiniteSet({}) /\ Cardinality({}) = 0
      BY FS_EmptySet
    <3>4. Spare(q)' = clears /\ clears \in Nat
      BY <1>1, <2>1, <2>2 DEF Spare, Inv, RestTyped
    <3> QED
      BY <2>1, <2>2, <3>2, <3>3, <3>4
  <2>3. CASE q # p
    <3>1. {d \in Call : Home[d] = q /\ Runs(work'[d])} = {d \in Call : Home[d] = q /\ Runs(work[d])}
      BY <1>5, <2>3
    <3>2. Running(q)' = Running(q)
      BY <3>1, RunningFacts DEF Running, Runs
    <3>3. jobs'[q] = jobs[q] /\ Spare(q)' = Spare(q)
      BY <1>1, <2>1, <2>3 DEF Spare
    <3> QED
      BY <3>2, <3>3 DEF Inv, Tracked
  <2> QED
    BY <2>2, <2>3
<1> QED
  BY <1>1, <1>4, <1>8, <1>9, <1>10, <1>11, <1>12 DEF Inv

--------------------------------------------------------------------------------
(* The source changes, and time passes.                                                     *)

LEMMA UpdateInv ==
  ASSUME Inv, Update PROVE Inv'
<1>1. /\ UNCHANGED <<call, work, flights, jobs, entry, l1, since, clears, faults, hangs>>
      /\ source < Versions /\ source' = source + 1 /\ source \in 1..Versions
  BY Facts DEF Update, Maps, Spent
<1>2. 1..source \subseteq 1..source' /\ source' \in 1..Versions /\ \A v \in 1..Versions : v >= source' => v >= source
  BY <1>1, ConstantFacts
<1>3. Clocked'
  BY <1>1, <1>2 DEF Inv, Clocked
<1>4. CallsTyped' /\ WorkTyped' /\ RestTyped' /\ Unburdened' /\ ServedInTime'
  BY <1>1 DEF Inv, CallsTyped, WorkTyped, RestTyped, Unburdened, ServedInTime
<1>5. Tracked'
  BY <1>1, TrackedKept
<1>6. \A e, late : Fits(e, late, source, since) => Fits(e, late, source', since)
  BY <1>2 DEF Fits
<1>7. CallsFit'
  BY <1>1, <1>2, <1>6 DEF Inv, CallsFit, CallFits
<1>8. WorkFits'
  BY <1>1, <1>2 DEF Inv, WorkFits, LoadFits
<1>9. EntryFits'
  BY <1>1, <1>6 DEF Inv, EntryFits
<1>10. MemoryFits'
  BY <1>1, <1>2 DEF Inv, MemoryFits, CopyFits
<1> QED
  BY <1>3, <1>4, <1>5, <1>7, <1>8, <1>9, <1>10 DEF Inv

LEMMA ClockTicks ==
  ASSUME Inv, Tick
  PROVE  /\ source' = source /\ since' \in [1..Versions -> Nat]
         /\ \A v \in 1..Versions : since'[v] <= since[v] + 1 /\ (v >= source => since'[v] = 0)
         /\ \A v \in 1..source : v \in 1..Versions /\ since[v] \in Nat /\ since'[v] \in Nat /\ since'[v] <= since[v] + 1
<1>1. /\ source' = source /\ source \in 1..Versions /\ since \in [1..Versions -> Nat]
      /\ since' = [v \in 1..Versions |-> IF v < source THEN Least(since[v] + 1, Horizon) ELSE 0]
  BY Facts DEF Tick
<1>2. Horizon \in Nat
  BY ConstantFacts
<1>3. \A n \in Nat : Least(n + 1, Horizon) \in Nat /\ Least(n + 1, Horizon) <= n + 1
  BY <1>2 DEF Least
<1>4. since' \in [1..Versions -> Nat]
  BY <1>1, <1>3
<1>5. \A v \in 1..Versions : since'[v] <= since[v] + 1 /\ (v >= source => since'[v] = 0)
  BY <1>1, <1>3, ConstantFacts
<1> QED
  BY <1>1, <1>4, <1>5, ConstantFacts

\* What an entry is a tick later, wherever it is.
LEMMA OlderFits ==
  ASSUME Inv, Tick, NEW e \in Item, NEW late \in Nat, Fits(e, late, source, since), e # Nothing
  PROVE  /\ Older(e) \in Item /\ Fits(Older(e), late + 1, source, since')
         /\ Older(e).left = e.left /\ Older(e).age = e.age + 1 /\ Older(e).val = e.val /\ Older(e).plain = e.plain
<1>1. Older(e) = [e EXCEPT !.age = e.age + 1]
  BY DEF Older
<1>2. /\ Older(e) \in Item /\ Older(e).left = e.left /\ Older(e).age = e.age + 1
      /\ Older(e).val = e.val /\ Older(e).plain = e.plain
  BY <1>1 DEF Item
<1>3. e.val \in 1..source /\ since[e.val] \in Nat /\ since'[e.val] \in Nat /\ since'[e.val] <= since[e.val] + 1
  BY ClockTicks DEF Fits
<1>4. e.age \in Nat /\ e.left \in Nat
  BY DEF Item
<1>5. Fits(Older(e), late + 1, source, since')
  BY <1>2, <1>3, <1>4, ConstantFacts DEF Fits
<1> QED
  BY <1>2, <1>5

LEMMA TickCalls ==
  ASSUME Inv, Tick PROVE CallsTyped' /\ CallsFit' /\ ServedInTime' /\ Unburdened'
<1> DEFINE Later(r) == [r EXCEPT !.t = r.t + 1, !.seen = Older(r.seen)]
<1>1. /\ call' = [c \in Call |-> IF call[c].pc \in Waiting THEN Later(call[c]) ELSE call[c]]
      /\ \A c \in Call : call[c].pc \in Waiting => call[c].t < MaxDelay
  BY DEF Tick, MayPass
<1>2. ASSUME NEW c \in Call
      PROVE  /\ call'[c] \in CallRecord /\ CallFits(call'[c], source, since')
             /\ call'[c].out = call[c].out /\ call'[c].lag = call[c].lag /\ call'[c].pc = call[c].pc
  <2> DEFINE k == call[c]
  <2>1. k \in CallRecord /\ CallFits(k, source, since) /\ (k.pc \in Waiting => k.t < MaxDelay)
        /\ call'[c] = IF k.pc \in Waiting THEN Later(k) ELSE k
    BY <1>1, Facts
  <2> HIDE DEF k
  <2>2. CASE k.pc \notin Waiting
    BY <2>1, <2>2 DEF CallFits, Waiting, k
  <2>3. CASE k.pc \in Waiting
    <3>1. k.t \in Nat /\ k.t + 1 <= MaxDelay /\ k.seen \in Item
      BY <2>1, <2>3, ConstantFacts DEF CallRecord
    <3>2. Older(k.seen) \in Item
      <4>1. k.seen.age + 1 \in Nat
        BY <3>1 DEF Item
      <4> QED
        BY <3>1, <4>1 DEF Older, Item
    <3>3. /\ Later(k).pc = k.pc /\ Later(k).t = k.t + 1 /\ Later(k).seen = Older(k.seen) /\ Later(k).val = k.val
          /\ Later(k).out = k.out /\ Later(k).lag = k.lag
      BY <2>1 DEF CallRecord
    <3>4. Later(k) \in CallRecord
      <4>1. k.t + 1 \in Nat
        BY <3>1
      <4> QED
        BY <2>1, <3>2, <4>1 DEF CallRecord
    <3> HIDE DEF Later
    <3>5. k.pc \in {"reading", "getting"} => Older(k.seen) = Nothing
      BY <2>1 DEF CallFits, Older
    <3>6. k.pc \in {"read", "gotten"} => Older(k.seen) = Nothing \/ Fits(Older(k.seen), k.t + 1, source, since')
      <4>1. CASE k.seen = Nothing
        BY <4>1 DEF Older
      <4>2. CASE k.seen # Nothing
        BY <2>1, <3>1, <4>2, OlderFits DEF CallFits
      <4> QED
        BY <4>1, <4>2
    <3>7. k.pc = "setting" => k.val \in 1..source /\ since'[k.val] <= k.t + 1
      <4> SUFFICES ASSUME k.pc = "setting" PROVE k.val \in 1..source /\ since'[k.val] <= k.t + 1
        OBVIOUS
      <4>1. k.val \in 1..source /\ since[k.val] <= k.t
        BY <2>1 DEF CallFits
      <4>2. since[k.val] \in Nat /\ since'[k.val] \in Nat /\ since'[k.val] <= since[k.val] + 1
        BY <4>1, ClockTicks
      <4> QED
        BY <3>1, <4>1, <4>2
    <3>8. CallFits(Later(k), source, since')
      BY <2>3, <3>1, <3>3, <3>5, <3>6, <3>7 DEF CallFits, Waiting
    <3> QED
      BY <2>1, <2>3, <3>3, <3>4, <3>8 DEF k
  <2> QED
    BY <2>2, <2>3
<1>3. call' = [c \in Call |-> call'[c]]
  BY <1>1
<1> HIDE DEF Later
<1>4. CallsTyped'
  BY <1>2, <1>3 DEF CallsTyped
<1>5. CallsFit'
  BY <1>2, ClockTicks DEF CallsFit
<1>6. ServedInTime'
  BY <1>2 DEF Inv, ServedInTime
<1>7. \A c \in Call : work'[c].st = "none" <=> work[c].st = "none"
  <2>1. ASSUME NEW c \in Call PROVE work[c] \in LoadRecord
    BY Facts
  <2> QED
    BY <2>1 DEF Tick, LoadRecord
<1>8. Unburdened'
  BY <1>2, <1>7 DEF Inv, Unburdened
<1> QED
  BY <1>4, <1>5, <1>6, <1>8

LEMMA TickLoads ==
  ASSUME Inv, Tick PROVE WorkTyped' /\ WorkFits' /\ Tracked'
<1> DEFINE Older1(r) == [r EXCEPT !.t = r.t + 1, !.age = r.age + 1]
           Older2(r) == [r EXCEPT !.t = r.t + 1]
<1>1. /\ work' = [w \in Call |-> work'[w]]
      /\ \A w \in Call : /\ work[w].st = "writing" => work'[w] = Older1(work[w])
                         /\ work[w].st \in {"checking", "loading", "loaded"} => work'[w] = Older2(work[w])
                         /\ work[w].st \notin {"writing", "checking", "loading", "loaded"} => work'[w] = work[w]
                         /\ work[w].st \in {"checking", "writing"} => work[w].t < MaxDelay
                         /\ work[w].st \in {"loading", "loaded"} => work[w].t < MaxLoad
  BY DEF Tick, MayPass
<1>2. ASSUME NEW w \in Call
      PROVE  work'[w] \in LoadRecord /\ LoadFits(work'[w], source, since') /\ (Runs(work'[w]) <=> Runs(work[w]))
  <2> DEFINE k == work[w]
  <2>1. k \in LoadRecord /\ LoadFits(k, source, since) /\ k.t \in Nat /\ k.age \in Nat
    BY Facts DEF LoadRecord
  <2> HIDE DEF k
  <2>2. CASE k.st = "writing"
    <3>1. work'[w] = Older1(k) /\ k.t < MaxDelay
      BY <1>1, <2>2 DEF k
    <3>2. Older1(k) \in LoadRecord
      <4>1. k.t + 1 \in Nat /\ k.age + 1 \in Nat
        BY <2>1
      <4> QED
        BY <2>1, <4>1 DEF LoadRecord
    <3>3. /\ Older1(k).st = "writing" /\ Older1(k).for = k.for /\ Older1(k).val = k.val
          /\ Older1(k).t = k.t + 1 /\ Older1(k).age = k.age + 1
      BY <2>1, <2>2 DEF LoadRecord
    <3> HIDE DEF Older1
    <3>4. k.val \in 1..source /\ k.age = k.t /\ since[k.val] <= MaxLoad + k.age
      BY <2>1, <2>2 DEF LoadFits
    <3>5. since[k.val] \in Nat /\ since'[k.val] \in Nat /\ since'[k.val] <= since[k.val] + 1
      BY <3>4, ClockTicks
    <3>6. since'[k.val] <= MaxLoad + (k.age + 1) /\ k.t + 1 <= MaxDelay
      BY <2>1, <3>1, <3>4, <3>5, ConstantFacts
    <3>7. LoadFits(Older1(k), source, since')
      BY <3>3, <3>4, <3>6 DEF LoadFits
    <3> QED
      BY <2>2, <3>1, <3>2, <3>3, <3>7 DEF Runs, k
  <2>3. CASE k.st \in {"checking", "loading", "loaded"}
    <3>1. work'[w] = Older2(k) /\ (k.st \in {"loading", "loaded"} => k.t < MaxLoad)
      BY <1>1, <2>3 DEF k
    <3>2. Older2(k) \in LoadRecord
      BY <2>1 DEF LoadRecord
    <3>3. Older2(k).st = k.st /\ Older2(k).for = k.for /\ Older2(k).val = k.val /\ Older2(k).t = k.t + 1
      BY <2>1 DEF LoadRecord
    <3> HIDE DEF Older2
    <3>4. k.st = "loaded" => k.val \in 1..source /\ since'[k.val] <= k.t + 1
      <4> SUFFICES ASSUME k.st = "loaded" PROVE k.val \in 1..source /\ since'[k.val] <= k.t + 1
        OBVIOUS
      <4>1. k.val \in 1..source /\ since[k.val] <= k.t
        BY <2>1 DEF LoadFits
      <4>2. since[k.val] \in Nat /\ since'[k.val] \in Nat /\ since'[k.val] <= since[k.val] + 1
        BY <4>1, ClockTicks
      <4> QED
        BY <2>1, <4>1, <4>2
    <3>5. k.st \in {"loading", "loaded"} => k.t + 1 <= MaxLoad
      BY <2>1, <3>1, ConstantFacts
    <3>6. LoadFits(Older2(k), source, since')
      BY <2>3, <3>3, <3>4, <3>5 DEF LoadFits
    <3> QED
      BY <2>3, <3>1, <3>2, <3>3, <3>6 DEF Runs, k
  <2>4. CASE k.st \notin {"writing", "checking", "loading", "loaded"}
    <3>1. work'[w] = k
      BY <1>1, <2>4 DEF k
    <3>2. LoadFits(k, source, since')
      BY <2>4 DEF LoadFits
    <3> QED
      BY <2>1, <3>1, <3>2 DEF k
  <2> QED
    BY <2>2, <2>3, <2>4
<1> HIDE DEF Older1, Older2
<1>3. WorkTyped'
  BY <1>1, <1>2 DEF WorkTyped
<1>4. WorkFits'
  BY <1>2, ClockTicks DEF WorkFits
<1>5. UNCHANGED <<jobs, clears>>
  BY DEF Tick, Maps, Spent
<1>6. Tracked'
  BY <1>2, <1>5, TrackedKept
<1> QED
  BY <1>3, <1>4, <1>6

\* Redis counts down the life of the entry while its age grows.
LEMMA TickEntry ==
  ASSUME Inv, Tick PROVE entry' \in Item /\ EntryFits'
<1>1. entry' = Gone(Older(entry)) /\ entry \in Item /\ source' = source
  BY Facts, ClockTicks DEF Tick
<1>2. CASE entry = Nothing
  <2>1. entry' = Nothing
    BY <1>1, <1>2 DEF Older, Gone, Nothing
  <2> QED
    BY <2>1, RecordFacts DEF EntryFits
<1>3. CASE entry # Nothing
  <2> DEFINE e == Older(entry)
             g == [e EXCEPT !.left = e.left - 1]
  <2>1. Fits(entry, 0, source, since) /\ 0 \in Nat
    BY <1>3, Facts
  <2>2. e \in Item /\ Fits(e, 0 + 1, source, since')
    BY <1>1, <1>3, <2>1, OlderFits
  <2> HIDE DEF e
  <2>3. entry' = IF e.left > 1 THEN g ELSE Nothing
    BY <1>1 DEF Gone, e
  <2>4. CASE e.left > 1
    <3>1. e.left \in Nat /\ e.age \in Nat /\ e.left - 1 \in Nat /\ e.left - 1 >= 1
      BY <2>2, <2>4 DEF Item
    <3>2. g \in Item
      BY <2>2, <3>1 DEF Item
    <3>3. g.left = e.left - 1 /\ g.age = e.age /\ g.val = e.val /\ g.plain = e.plain
      BY <2>2 DEF Item
    <3> HIDE DEF g
    <3>4. Fits(g, 0, source, since')
      BY <2>2, <3>1, <3>3, ConstantFacts DEF Fits
    <3> QED
      BY <1>1, <2>3, <2>4, <3>2, <3>4 DEF EntryFits
  <2>5. CASE ~(e.left > 1)
    BY <2>3, <2>5, RecordFacts DEF EntryFits
  <2> QED
    BY <2>4, <2>5
<1> QED
  BY <1>2, <1>3

LEMMA TickMemory ==
  ASSUME Inv, Tick PROVE l1' \in [Process -> Copy] /\ MemoryFits'
<1>1. l1' = [p \in Process |-> IF l1[p].left > 1 THEN [l1[p] EXCEPT !.left = l1[p].left - 1] ELSE Empty]
  BY DEF Tick
<1>2. ASSUME NEW p \in Process PROVE l1'[p] \in Copy /\ CopyFits(l1'[p], source, since')
  <2> DEFINE m == l1[p]
             n == [m EXCEPT !.left = m.left - 1]
  <2>1. m \in Copy /\ CopyFits(m, source, since) /\ m.left \in Nat
    BY Facts DEF Copy
  <2>2. l1'[p] = IF m.left > 1 THEN n ELSE Empty
    BY <1>1
  <2> HIDE DEF m
  <2>3. CASE m.left > 1
    <3>1. n \in Copy
      BY <2>1, <2>3 DEF Copy
    <3>2. n.val = m.val /\ n.left = m.left - 1
      BY <2>1 DEF Copy
    <3> HIDE DEF n
    <3>3. ASSUME m.val # 0
          PROVE  m.val \in 1..source /\ since'[m.val] + (m.left - 1) <= MaxLoad + 2 * MaxDelay + Retain + L1Ttl
      <4>1. m.val \in 1..source /\ since[m.val] + m.left <= MaxLoad + 2 * MaxDelay + Retain + L1Ttl
        BY <2>1, <3>3 DEF CopyFits
      <4>2. since[m.val] \in Nat /\ since'[m.val] \in Nat /\ since'[m.val] <= since[m.val] + 1
        BY <4>1, ClockTicks
      <4> QED
        BY <2>1, <4>1, <4>2, ConstantFacts
    <3>4. CopyFits(n, source, since')
      BY <3>2, <3>3 DEF CopyFits
    <3> QED
      BY <2>2, <2>3, <3>1, <3>4
  <2>4. CASE ~(m.left > 1)
    BY <2>2, <2>4, RecordFacts DEF CopyFits
  <2> QED
    BY <2>3, <2>4
<1>3. l1' \in [Process -> Copy]
  BY <1>1, <1>2
<1>4. MemoryFits'
  BY <1>2, ClockTicks DEF MemoryFits
<1> QED
  BY <1>3, <1>4

LEMMA TickInv ==
  ASSUME Inv, Tick PROVE Inv'
<1>1. Clocked'
  BY ClockTicks, Facts DEF Clocked
<1>2. entry' \in Item /\ l1' \in [Process -> Copy]
  BY TickEntry, TickMemory
<1>3. RestTyped'
  BY <1>2, SameRest DEF Tick, Maps, Spent, Inv, RestTyped
<1> QED
  BY <1>1, <1>3, TickCalls, TickLoads, TickEntry, TickMemory DEF Inv

--------------------------------------------------------------------------------
(* The theorem.                                                                             *)

LEMMA InvInit == Init => Inv
<1> SUFFICES ASSUME Init PROVE Inv
  OBVIOUS
<1> USE DEF Init
<1>1. \A c \in Call : /\ call[c] \in CallRecord /\ call[c].pc = "new" /\ call[c].seen = Nothing /\ call[c].out = "none"
                      /\ work[c] = Idle
  <2>1. 0 \in 0..Versions /\ 0 \in Nat
    BY ConstantFacts
  <2>2. [pc |-> "new", t |-> 0, seen |-> Nothing, on |-> None, val |-> 0, out |-> "none", lag |-> 0] \in CallRecord
    BY <2>1, RecordFacts DEF CallRecord, Phases, Outcomes
  <2> QED
    BY <2>2
<1>2. CallsTyped /\ WorkTyped
  BY <1>1, RecordFacts DEF CallsTyped, WorkTyped
<1>3. RestTyped /\ Clocked
  BY RecordFacts, ConstantFacts DEF RestTyped, Clocked
<1>4. CallsFit /\ ServedInTime
  BY <1>1 DEF CallsFit, CallFits, Waiting, ServedInTime
<1>5. WorkFits /\ Unburdened
  BY <1>1, RecordFacts DEF WorkFits, LoadFits, Unburdened
<1>6. EntryFits /\ MemoryFits
  BY RecordFacts DEF EntryFits, MemoryFits, CopyFits
<1>7. Tracked
  <2> SUFFICES ASSUME NEW p \in Process
               PROVE  jobs[p] = None /\ IsFiniteSet(Running(p)) /\ Cardinality(Running(p)) <= Spare(p)
    BY DEF Tracked
  <2>1. Running(p) = {}
    BY <1>1, RecordFacts DEF Running
  <2>2. jobs[p] = None /\ Spare(p) = 0
    BY DEF Spare
  <2> QED
    BY <2>1, <2>2, FS_EmptySet
<1> QED
  BY <1>2, <1>3, <1>4, <1>5, <1>6, <1>7 DEF Inv

LEMMA InvNext == Inv /\ [Next]_vars => Inv'
<1> SUFFICES ASSUME Inv, [Next]_vars PROVE Inv'
  OBVIOUS
<1>1. ASSUME NEW c \in Call,
             Begin(c, "reading") \/ Read(c, "reading", "read") \/ ReadFails(c, "reading", "read") \/ Hit(c) \/ Join(c) \/ Lead(c) \/ Salvage(c)
      PROVE  Inv'
  BY <1>1, BeginInv, ReadInv, HitInv, JoinInv, LeadInv, SalvageInv
<1>2. ASSUME NEW c \in Call,
             Recheck(c) \/ LoaderReads(c) \/ LoaderReturns(c) \/ SetSwr(c) \/ WorkFails(c) \/ LoaderHangs(c)
      PROVE  Inv'
  BY <1>2, RecheckInv, LoaderReadsInv, LoaderReturnsInv, SetSwrInv, WorkFailsInv, LoaderHangsInv
<1>3. ASSUME NEW c \in Call,
             GetFromL1(c) \/ Get(c) \/ Read(c, "getting", "gotten") \/ ReadFails(c, "getting", "gotten") \/ GetAnswered(c)
      PROVE  Inv'
  BY <1>3, GetFromL1Inv, BeginInv, ReadInv, GetAnsweredInv DEF Get
<1>4. ASSUME NEW c \in Call, Set(c) \/ SetExec(c) \/ Delete(c) \/ DeleteExec(c) \/ WriteFails(c)
      PROVE  Inv'
  BY <1>4, SetInv, SetExecInv, DeleteInv, DeleteExecInv, WriteFailsInv
<1>5. ASSUME NEW p \in Process, ClearRevalidations(p) \/ Crash(p)
      PROVE  Inv'
  BY <1>5, ClearRevalidationsInv, CrashInv
<1>6. CASE UNCHANGED vars
  <2>1. UNCHANGED <<call, work, flights, jobs, entry, l1, source, since, faults, hangs, clears>>
    BY <1>6 DEF vars
  <2> QED
    BY <2>1, SameEntry, SameMemory, SameCalls, CallOnly DEF Inv, RestTyped
<1> QED
  BY <1>1, <1>2, <1>3, <1>4, <1>5, <1>6, UpdateInv, TickInv DEF Next

\* Whatever calls, loads and revalidations do in however many processes, no caller is served a
\* value that was out of date for longer than its options allow; the map of revalidations names
\* running ones only, and a process runs one and at most one more for each time it was cleared.
THEOREM BoundedStaleness == Spec => []StaleBounded
<1>1. Inv => StaleBounded
  <2> SUFFICES ASSUME Inv PROVE StaleBounded
    OBVIOUS
  <2>1. \A p \in Process : /\ jobs[p] # None => jobs[p] \in Running(p)
                           /\ Cardinality(Running(p)) <= 1 + clears
    <3> TAKE p \in Process
    <3>1. Spare(p) <= 1 + clears
      BY TrackedFacts
    <3> QED
      BY <3>1, TrackedFacts DEF Inv, Tracked
  <2> QED
    BY <2>1 DEF StaleBounded, RevalidationsTracked, Inv
<1> QED
  BY <1>1, InvInit, InvNext, PTL DEF Spec

--------------------------------------------------------------------------------
(* InvalidationEvents: the inductive invariant.                                             *)

\* What one delivery is like: once it has begun it stands for emissions that took place.
DeliveryFits(d, issued) ==
  /\ d = [pc |-> d.pc, msg |-> d.msg, tags |-> d.tags, keys |-> d.keys, upto |-> d.upto]
  /\ d.pc \in {"free", "check", "tags", "keys", "mark"}
  /\ d.pc # "free" => d.msg \in Message /\ d.upto \in Nat /\ d.upto <= issued[d.msg]
EventsTyped ==
  /\ rules \subseteq Rule
  /\ emits \in [Message -> Nat] /\ marks \in [Message -> Nat]
  /\ stale = [t \in Target |-> stale[t]]
  /\ delivery = [w \in Worker |-> delivery[w]]
  /\ \A w \in Worker : DeliveryFits(delivery[w], emits)
MarksPast == \A m \in Message : marks[m] <= emits[m]

\* What an entry lacks was announced, while the rule that covers it was registered.
Announced ==
  \A t \in Target, m \in Message, n \in Nat, r \in Rule :
    <<m, n, r>> \in stale[t] => n <= emits[m] /\ r \in rules \cup gone /\ Applies(r, m) /\ t \in Covers(r, m)

\* What a delivery has still to remove: whatever of its emissions an entry lacks by a rule that stays.
ToRemove(d) == IF d.pc = "tags" THEN d.tags \cup d.keys ELSE IF d.pc = "keys" THEN d.keys ELSE {}
Leaves(d, t, r) == \A n \in 1..d.upto : <<d.msg, n, r>> \notin stale[t]
WorkLeft ==
  \A w \in Worker : delivery[w].pc \in {"tags", "keys", "mark"} =>
    \A t \in Target, r \in rules : t \in ToRemove(delivery[w]) \/ Leaves(delivery[w], t, r)

EventsInv == EventsTyped /\ MarksPast /\ Announced /\ WorkLeft /\ MarkedIsDone

LEMMA EventsStart == EventsInit => EventsInv
<1> SUFFICES ASSUME EventsInit PROVE EventsInv
  OBVIOUS
<1> USE DEF EventsInit
<1>1. \A w \in Worker : DeliveryFits(delivery[w], emits) /\ delivery[w].pc = "free"
  BY DEF DeliveryFits, Free, EmptyHanded
<1>2. EventsTyped
  BY <1>1 DEF EventsTyped
<1>3. MarksPast /\ Announced
  BY DEF MarksPast, Announced
<1>4. WorkLeft
  BY <1>1 DEF WorkLeft
<1>5. MarkedIsDone
  BY DEF MarkedIsDone
<1> QED
  BY <1>2, <1>3, <1>4, <1>5 DEF EventsInv

\* A step that announces nothing, marks nothing new and starts no delivery keeps the invariant: entries
\* come to lack no more, rules leave for good, and one that comes was never there.
LEMMA NothingNew ==
  ASSUME EventsInv,
         UNCHANGED <<emits, delivery>>,
         rules' \subseteq Rule, rules \cup gone \subseteq rules' \cup gone', (rules' \ rules) \cap gone = {},
         stale' = [t \in Target |-> stale'[t]], \A t \in Target : stale'[t] \subseteq stale[t],
         marks' \in [Message -> Nat], \A m \in Message : marks'[m] <= marks[m]
  PROVE  EventsInv'
<1> USE DEF EventsInv
<1>1. EventsTyped'
  BY DEF EventsTyped
<1>2. MarksPast'
  BY DEF MarksPast, EventsTyped
<1>3. Announced'
  BY DEF Announced
<1>4. \A t \in Target, m \in Message, n \in Nat, r \in rules' : <<m, n, r>> \in stale'[t] => r \in rules
  BY DEF Announced, EventsTyped
<1>5. WorkLeft'
  <2> SUFFICES ASSUME NEW w \in Worker, delivery[w].pc \in {"tags", "keys", "mark"}, NEW t \in Target, NEW r \in rules',
                      t \notin ToRemove(delivery[w]), NEW n \in 1..delivery[w].upto, <<delivery[w].msg, n, r>> \in stale'[t]
               PROVE  FALSE
    BY DEF WorkLeft, Leaves, ToRemove
  <2>1. delivery[w].msg \in Message /\ delivery[w].upto \in Nat
    BY DEF EventsTyped, DeliveryFits
  <2>2. r \in rules
    BY <1>4, <2>1
  <2> QED
    BY <2>2 DEF WorkLeft, Leaves
<1>6. MarkedIsDone'
  <2> SUFFICES ASSUME NEW m \in Message, NEW t \in Target, NEW r \in rules', NEW n \in 1..marks'[m], <<m, n, r>> \in stale'[t]
               PROVE  FALSE
    BY DEF MarkedIsDone
  <2>1. n \in Nat /\ n \in 1..marks[m]
    BY DEF EventsTyped
  <2> QED
    BY <1>4, <2>1 DEF MarkedIsDone
<1> QED
  BY <1>1, <1>2, <1>3, <1>5, <1>6

\* A change is announced: nothing stands for the emission yet.
LEMMA EmitInv == ASSUME EventsInv, NEW m \in Message, Emit(m) PROVE EventsInv'
<1> USE DEF EventsInv, Emit
<1>1. emits' \in [Message -> Nat] /\ emits[m] \in Nat /\ \A o \in Message : emits[o] <= emits'[o]
  BY DEF EventsTyped
<1>2. \A t \in Target, o \in Message, n \in Nat, r \in Rule :
        <<o, n, r>> \in stale'[t] => <<o, n, r>> \in stale[t] \/ (o = m /\ n = emits[m] + 1 /\ r \in Applicable(m) /\ t \in Covers(r, m))
  BY Zenon
<1>3. EventsTyped'
  <2>1. \A w \in Worker : DeliveryFits(delivery[w], emits')
    <3> SUFFICES ASSUME NEW w \in Worker, DeliveryFits(delivery[w], emits), delivery[w].pc # "free"
                 PROVE  delivery[w].upto <= emits'[delivery[w].msg]
      BY DEF EventsTyped, DeliveryFits
    <3> QED
      BY <1>1 DEF EventsTyped, DeliveryFits
  <2> QED
    BY <1>1, <2>1 DEF EventsTyped
<1>4. MarksPast'
  BY <1>1 DEF MarksPast, EventsTyped
<1>5. Announced'
  <2> SUFFICES ASSUME NEW t \in Target, NEW o \in Message, NEW n \in Nat, NEW r \in Rule, <<o, n, r>> \in stale'[t]
               PROVE  n <= emits'[o] /\ r \in rules \cup gone /\ Applies(r, o) /\ t \in Covers(r, o)
    BY DEF Announced
  <2>1. CASE <<o, n, r>> \in stale[t]
    BY <2>1, <1>1 DEF Announced, EventsTyped
  <2>2. CASE o = m /\ n = emits[m] + 1 /\ r \in Applicable(m) /\ t \in Covers(r, m)
    BY <2>2, <1>1 DEF Applicable, EventsTyped
  <2> QED
    BY <1>2, <2>1, <2>2
<1>6. WorkLeft'
  <2> SUFFICES ASSUME NEW w \in Worker, delivery[w].pc \in {"tags", "keys", "mark"}, NEW t \in Target, NEW r \in rules,
                      t \notin ToRemove(delivery[w]), NEW n \in 1..delivery[w].upto, <<delivery[w].msg, n, r>> \in stale'[t]
               PROVE  FALSE
    BY DEF WorkLeft, Leaves, ToRemove
  <2>1. delivery[w].msg \in Message /\ delivery[w].upto \in Nat /\ delivery[w].upto <= emits[delivery[w].msg]
    BY DEF EventsTyped, DeliveryFits
  <2>2. n \in Nat /\ n # emits[delivery[w].msg] + 1
    BY <1>1, <2>1 DEF EventsTyped
  <2>3. <<delivery[w].msg, n, r>> \in stale[t]
    BY <1>2, <2>1, <2>2 DEF EventsTyped
  <2> QED
    BY <2>3 DEF WorkLeft, Leaves
<1>7. MarkedIsDone'
  <2> SUFFICES ASSUME NEW o \in Message, NEW t \in Target, NEW r \in rules, NEW n \in 1..marks[o], <<o, n, r>> \in stale'[t]
               PROVE  FALSE
    BY DEF MarkedIsDone
  <2>1. n \in Nat /\ n # emits[o] + 1
    BY <1>1 DEF EventsTyped, MarksPast
  <2>2. <<o, n, r>> \in stale[t]
    BY <1>2, <2>1 DEF EventsTyped
  <2> QED
    BY <2>2 DEF MarkedIsDone
<1> QED
  BY <1>3, <1>4, <1>5, <1>6, <1>7

\* A step of one delivery: what is to be shown of its new record and of a mark it sets.
LEMMA Delivers ==
  ASSUME EventsInv, NEW w \in Worker, NEW d,
         UNCHANGED <<rules, gone, emits>>,
         stale' = [t \in Target |-> stale'[t]], \A t \in Target : stale'[t] \subseteq stale[t],
         delivery' = [delivery EXCEPT ![w] = d], DeliveryFits(d, emits),
         d.pc \in {"tags", "keys", "mark"} => \A t \in Target, r \in rules :
           t \in ToRemove(d) \/ \A n \in 1..d.upto : <<d.msg, n, r>> \notin stale'[t],
         marks' \in [Message -> Nat],
         \A m \in Message : marks'[m] <= emits[m] /\
           (marks'[m] <= marks[m] \/ \A t \in Target, r \in rules, n \in 1..marks'[m] : <<m, n, r>> \notin stale'[t])
  PROVE  EventsInv'
<1> USE DEF EventsInv
<1>1. \A v \in Worker : delivery'[v] = IF v = w THEN d ELSE delivery[v]
  BY DEF EventsTyped
<1>2. EventsTyped'
  <2>1. delivery' = [v \in Worker |-> delivery'[v]]
    BY DEF EventsTyped
  <2>2. \A v \in Worker : DeliveryFits(delivery'[v], emits)
    BY <1>1 DEF EventsTyped
  <2> QED
    BY <2>1, <2>2 DEF EventsTyped
<1>3. MarksPast'
  BY DEF MarksPast
<1>4. Announced'
  BY DEF Announced
<1>5. WorkLeft'
  <2> SUFFICES ASSUME NEW v \in Worker, delivery'[v].pc \in {"tags", "keys", "mark"}, NEW t \in Target, NEW r \in rules,
                      t \notin ToRemove(delivery'[v]), NEW n \in 1..delivery'[v].upto, <<delivery'[v].msg, n, r>> \in stale'[t]
               PROVE  FALSE
    BY DEF WorkLeft, Leaves, ToRemove
  <2>1. CASE v = w
    BY <1>1, <2>1
  <2>2. CASE v # w
    BY <1>1, <2>2 DEF WorkLeft, Leaves
  <2> QED
    BY <2>1, <2>2
<1>6. MarkedIsDone'
  <2> SUFFICES ASSUME NEW m \in Message, NEW t \in Target, NEW r \in rules, NEW n \in 1..marks'[m], <<m, n, r>> \in stale'[t]
               PROVE  FALSE
    BY DEF MarkedIsDone
  <2>1. marks'[m] \in Nat /\ marks[m] \in Nat
    BY DEF EventsTyped
  <2>2. marks'[m] <= marks[m]
    OBVIOUS
  <2>3. n \in 1..marks[m]
    BY <2>1, <2>2
  <2> QED
    BY <2>3 DEF MarkedIsDone
<1> QED
  BY <1>2, <1>3, <1>4, <1>5, <1>6

\* Edits of a delivery's record.
LEMMA Edited ==
  ASSUME NEW p, NEW m, NEW t, NEW k, NEW u, NEW x, NEW r, r = [pc |-> p, msg |-> m, tags |-> t, keys |-> k, upto |-> u]
  PROVE  [r EXCEPT !.pc = x] = [pc |-> x, msg |-> m, tags |-> t, keys |-> k, upto |-> u]
OBVIOUS

LEMMA EditedTags ==
  ASSUME NEW p, NEW m, NEW t, NEW k, NEW u, NEW x, NEW r, r = [pc |-> p, msg |-> m, tags |-> t, keys |-> k, upto |-> u]
  PROVE  [r EXCEPT !.tags = x] = [pc |-> p, msg |-> m, tags |-> x, keys |-> k, upto |-> u]
OBVIOUS

LEMMA FreeFits == DeliveryFits(Free, emits) /\ Free.pc = "free"
BY DEF DeliveryFits, Free, EmptyHanded

\* A step that changes a delivery only.
LEMMA OnlyDelivers ==
  ASSUME EventsInv, NEW w \in Worker, NEW d, UNCHANGED <<rules, gone, emits, stale, marks>>,
         delivery' = [delivery EXCEPT ![w] = d], DeliveryFits(d, emits),
         d.pc \in {"tags", "keys", "mark"} => \A t \in Target, r \in rules : t \in ToRemove(d) \/ Leaves(d, t, r)
  PROVE  EventsInv'
<1>1. stale' = [t \in Target |-> stale'[t]] /\ (\A t \in Target : stale'[t] \subseteq stale[t])
  BY DEF EventsInv, EventsTyped
<1>2. marks' \in [Message -> Nat]
  BY DEF EventsInv, EventsTyped
<1>3. \A m \in Message : marks'[m] <= emits[m] /\ marks'[m] <= marks[m]
  BY DEF EventsInv, EventsTyped, MarksPast
<1>4. d.pc \in {"tags", "keys", "mark"} => \A t \in Target, r \in rules :
        t \in ToRemove(d) \/ \A n \in 1..d.upto : <<d.msg, n, r>> \notin stale'[t]
  BY DEF Leaves
<1> QED
  BY <1>1, <1>2, <1>3, <1>4, Delivers

LEMMA ReceiveInv == ASSUME EventsInv, NEW w \in Worker, NEW m \in Message, Receive(w, m) PROVE EventsInv'
<1> DEFINE d == EmptyHanded("check", m)
<1>1. DeliveryFits(d, emits) /\ d.pc = "check"
  BY DEF DeliveryFits, EmptyHanded, EventsInv, EventsTyped
<1>2. delivery' = [delivery EXCEPT ![w] = d]
  BY DEF Receive
<1> HIDE DEF d
<1> QED
  BY <1>1, <1>2, OnlyDelivers DEF Receive

\* What the rules resolve for a message is whatever lacks a change by a rule that is still registered.
LEMMA ResolvesAll ==
  ASSUME EventsInv, NEW m \in Message, NEW n \in Nat, NEW t \in Target, NEW r \in rules, <<m, n, r>> \in stale[t]
  PROVE  t \in Tags(m) \cup Keys(m)
<1>1. r \in Applicable(m) /\ t \in Covers(r, m)
  BY DEF EventsInv, EventsTyped, Announced, Applicable
<1> QED
  BY <1>1 DEF Covers, Tags, Keys

LEMMA ProceedsInv ==
  ASSUME EventsInv, NEW w \in Worker, NEW m \in Message, Proceeds(w, m), UNCHANGED <<rules, gone, emits, stale, marks>>
  PROVE  EventsInv'
<1> DEFINE d == [pc |-> "tags", msg |-> m, tags |-> Tags(m), keys |-> Keys(m), upto |-> emits[m]]
<1>1. CASE Targets(m) = {}
  BY <1>1, OnlyDelivers, FreeFits DEF Proceeds
<1>2. CASE Targets(m) # {}
  <2>1. delivery' = [delivery EXCEPT ![w] = d]
    BY <1>2 DEF Proceeds
  <2>2. emits[m] \in Nat
    BY DEF EventsInv, EventsTyped
  <2>3. DeliveryFits(d, emits)
    BY <2>2 DEF DeliveryFits
  <2>4. \A t \in Target, r \in rules : t \in ToRemove(d) \/ Leaves(d, t, r)
    <3> SUFFICES ASSUME NEW t \in Target, NEW r \in rules, NEW n \in 1..emits[m], <<m, n, r>> \in stale[t] PROVE t \in Tags(m) \cup Keys(m)
      BY DEF ToRemove, Leaves
    <3> QED
      BY <2>2, ResolvesAll
  <2> HIDE DEF d
  <2> QED
    BY <2>1, <2>3, <2>4, OnlyDelivers
<1> QED
  BY <1>1, <1>2

LEMMA CheckInv == ASSUME EventsInv, NEW w \in Worker, Check(w) \/ CheckFails(w) PROVE EventsInv'
<1>1. delivery[w].pc = "check" /\ delivery[w].msg \in Message
  BY DEF Check, CheckFails, EventsInv, EventsTyped, DeliveryFits
<1>2. CASE Check(w) /\ Duplicate(delivery[w].msg)
  BY <1>2, OnlyDelivers, FreeFits DEF Check
<1>3. CASE Check(w) /\ ~Duplicate(delivery[w].msg)
  BY <1>1, <1>3, ProceedsInv DEF Check
<1>4. CASE CheckFails(w)
  BY <1>1, <1>4, ProceedsInv DEF CheckFails
<1> QED
  BY <1>2, <1>3, <1>4

\* What a delivery removes no entry lacks any more.
LEMMA RemovedFacts ==
  ASSUME EventsInv, NEW ts, Removed(ts)
  PROVE  /\ stale' = [t \in Target |-> stale'[t]]
         /\ \A t \in Target : stale'[t] \subseteq stale[t] /\ (t \in ts => stale'[t] = {})
BY DEF Removed

\* Removing leaves the marks as they are, and a delivery with less to remove.
LEMMA RemovesInv ==
  ASSUME EventsInv, NEW w \in Worker, NEW d, NEW ts, Removed(ts), UNCHANGED <<rules, gone, emits, marks>>,
         delivery[w].pc \in {"tags", "keys"}, delivery' = [delivery EXCEPT ![w] = d],
         d = [pc |-> d.pc, msg |-> delivery[w].msg, tags |-> d.tags, keys |-> d.keys, upto |-> delivery[w].upto],
         d.pc \in {"tags", "keys", "mark"}, ToRemove(delivery[w]) \subseteq ToRemove(d) \cup ts
  PROVE  EventsInv'
<1>1. DeliveryFits(delivery[w], emits)
  BY DEF EventsInv, EventsTyped
<1>2. DeliveryFits(d, emits)
  BY <1>1 DEF DeliveryFits
<1>3. stale' = [t \in Target |-> stale'[t]] /\ \A t \in Target : stale'[t] \subseteq stale[t] /\ (t \in ts => stale'[t] = {})
  BY RemovedFacts
<1>4. \A t \in Target, r \in rules : t \in ToRemove(d) \/ \A n \in 1..d.upto : <<d.msg, n, r>> \notin stale'[t]
  <2> SUFFICES ASSUME NEW t \in Target, NEW r \in rules, t \notin ToRemove(d), NEW n \in 1..d.upto, <<d.msg, n, r>> \in stale'[t]
               PROVE  FALSE
    OBVIOUS
  <2>1. d.msg = delivery[w].msg /\ d.upto = delivery[w].upto
    OBVIOUS
  <2>2. t \notin ToRemove(delivery[w])
    BY <1>3
  <2>3. Leaves(delivery[w], t, r)
    BY <2>2 DEF EventsInv, WorkLeft
  <2> QED
    BY <1>3, <2>1, <2>3 DEF Leaves
<1>5. marks' \in [Message -> Nat] /\ \A m \in Message : marks'[m] <= emits[m] /\ marks'[m] <= marks[m]
  BY DEF EventsInv, EventsTyped, MarksPast
<1> QED
  BY <1>2, <1>3, <1>4, <1>5, Delivers

LEMMA RemoveTagInv == ASSUME EventsInv, NEW w \in Worker, RemoveTag(w) PROVE EventsInv'
<1> DEFINE from == delivery[w]
<1>1. from.pc = "tags" /\ from = [pc |-> from.pc, msg |-> from.msg, tags |-> from.tags, keys |-> from.keys, upto |-> from.upto]
  BY DEF RemoveTag, EventsInv, EventsTyped, DeliveryFits
<1>2. ASSUME NEW t \in from.tags, Removed({t}), delivery' = [delivery EXCEPT ![w].tags = @ \ {t}]
      PROVE  EventsInv'
  <2> DEFINE d == [pc |-> "tags", msg |-> from.msg, tags |-> from.tags \ {t}, keys |-> from.keys, upto |-> from.upto]
  <2>0. [from EXCEPT !.tags = from.tags \ {t}] = d
    <3> DEFINE r == from
    <3> HIDE DEF r
    <3>1. r = [pc |-> "tags", msg |-> r.msg, tags |-> r.tags, keys |-> r.keys, upto |-> r.upto]
      BY <1>1 DEF r
    <3>2. [r EXCEPT !.tags = r.tags \ {t}] = [pc |-> "tags", msg |-> r.msg, tags |-> r.tags \ {t}, keys |-> r.keys, upto |-> r.upto]
      BY <3>1, EditedTags
    <3> QED
      BY <3>2 DEF r
  <2>1. delivery' = [delivery EXCEPT ![w] = d]
    BY <1>2, <2>0 DEF EventsInv, EventsTyped
  <2>2. ToRemove(from) \subseteq ToRemove(d) \cup {t}
    BY <1>1 DEF ToRemove
  <2>3. d.pc = "tags" /\ d = [pc |-> d.pc, msg |-> from.msg, tags |-> d.tags, keys |-> d.keys, upto |-> from.upto]
    OBVIOUS
  <2> HIDE DEF d
  <2> QED
    BY <1>1, <1>2, <2>1, <2>2, <2>3, RemovesInv DEF RemoveTag
<1>3. CASE from.tags = {} /\ delivery' = [delivery EXCEPT ![w].pc = AfterTags] /\ UNCHANGED stale
  <2> DEFINE d == [pc |-> "keys", msg |-> from.msg, tags |-> from.tags, keys |-> from.keys, upto |-> from.upto]
  <2>0. [from EXCEPT !.pc = "keys"] = d
    BY <1>1, Edited
  <2>1. delivery' = [delivery EXCEPT ![w] = d]
    BY <1>3, <2>0 DEF AfterTags
  <2>2. DeliveryFits(from, emits)
    BY DEF EventsInv, EventsTyped
  <2>3. DeliveryFits(d, emits)
    BY <1>1, <2>2 DEF DeliveryFits
  <2>4. \A t \in Target, r \in rules : t \in ToRemove(d) \/ Leaves(d, t, r)
    <3>1. ToRemove(d) = ToRemove(from)
      BY <1>1, <1>3 DEF ToRemove
    <3>2. \A t \in Target, r \in rules : t \in ToRemove(from) \/ Leaves(from, t, r)
      BY <1>1 DEF EventsInv, WorkLeft
    <3> QED
      BY <3>1, <3>2 DEF Leaves
  <2> HIDE DEF d
  <2> QED
    BY <1>3, <2>1, <2>3, <2>4, OnlyDelivers DEF RemoveTag
<1> QED
  BY <1>2, <1>3 DEF RemoveTag

LEMMA RemoveKeysInv == ASSUME EventsInv, NEW w \in Worker, RemoveKeys(w) PROVE EventsInv'
<1> DEFINE from == delivery[w]
           d == [pc |-> "mark", msg |-> from.msg, tags |-> from.tags, keys |-> from.keys, upto |-> from.upto]
<1>1. from.pc = "keys" /\ from = [pc |-> from.pc, msg |-> from.msg, tags |-> from.tags, keys |-> from.keys, upto |-> from.upto]
  BY DEF RemoveKeys, EventsInv, EventsTyped, DeliveryFits
<1>0. [from EXCEPT !.pc = "mark"] = d
  BY <1>1, Edited
<1>2. delivery' = [delivery EXCEPT ![w] = d]
  BY <1>0 DEF RemoveKeys, EventsInv, EventsTyped
<1>3. ToRemove(from) \subseteq ToRemove(d) \cup from.keys
  BY <1>1 DEF ToRemove
<1>4. d.pc = "mark" /\ d = [pc |-> d.pc, msg |-> from.msg, tags |-> d.tags, keys |-> d.keys, upto |-> from.upto]
  OBVIOUS
<1> HIDE DEF d
<1> QED
  BY <1>1, <1>2, <1>3, <1>4, RemovesInv DEF RemoveKeys

\* The mark says of a message what its delivery has done.
LEMMA MarkInv == ASSUME EventsInv, NEW w \in Worker, Mark(w) PROVE EventsInv'
<1>1. delivery[w].pc = "mark" /\ delivery[w].msg \in Message /\ delivery[w].upto \in Nat /\ delivery[w].upto <= emits[delivery[w].msg]
  BY DEF Mark, EventsInv, EventsTyped, DeliveryFits
<1>2. CASE UNCHANGED marks
  BY <1>2, OnlyDelivers, FreeFits DEF Mark
<1>3. CASE marks' = [marks EXCEPT ![delivery[w].msg] = IF @ > delivery[w].upto THEN @ ELSE delivery[w].upto]
  <2>1. marks' \in [Message -> Nat] /\ \A m \in Message : marks[m] \in Nat /\ emits[m] \in Nat
    BY <1>1, <1>3 DEF EventsInv, EventsTyped
  <2>2. \A m \in Message : marks'[m] <= emits[m] /\ (marks'[m] <= marks[m] \/ (m = delivery[w].msg /\ marks'[m] = delivery[w].upto))
    BY <1>1, <1>3, <2>1 DEF EventsInv, EventsTyped, MarksPast
  <2>3. \A t \in Target, r \in rules : Leaves(delivery[w], t, r)
    BY <1>1 DEF EventsInv, WorkLeft, ToRemove
  <2>4. \A m \in Message : marks'[m] <= emits[m] /\
          (marks'[m] <= marks[m] \/ \A t \in Target, r \in rules, n \in 1..marks'[m] : <<m, n, r>> \notin stale'[t])
    BY <2>2, <2>3 DEF Leaves, Mark
  <2>5. stale' = [t \in Target |-> stale'[t]] /\ (\A t \in Target : stale'[t] \subseteq stale[t])
    BY DEF Mark, EventsInv, EventsTyped
  <2>6. UNCHANGED <<rules, gone, emits>> /\ delivery' = [delivery EXCEPT ![w] = Free]
    BY DEF Mark
  <2> QED
    BY <2>1, <2>4, <2>5, <2>6, FreeFits, Delivers
<1> QED
  BY <1>2, <1>3 DEF Mark

LEMMA SetbackInv == ASSUME EventsInv, NEW w \in Worker, GivesUp(w) \/ Redeliver(w) PROVE EventsInv'
<1>1. CASE GivesUp(w)
  BY <1>1, OnlyDelivers, FreeFits DEF GivesUp
<1>2. CASE Redeliver(w)
  <2>1. UNCHANGED <<rules, gone, emits, delivery, stale, marks>>
    BY <1>2 DEF Redeliver
  <2> QED
    BY <2>1, NothingNew DEF EventsInv, EventsTyped
<1> QED
  BY <1>1, <1>2

LEMMA RegistryInv ==
  ASSUME EventsInv, (\E r \in Rule : Register(r) \/ Unregister(r.pattern)) PROVE EventsInv'
<1>1. ASSUME NEW r \in Rule, Register(r) PROVE EventsInv'
  BY <1>1, NothingNew DEF EventsInv, EventsTyped, Register
<1>2. ASSUME NEW r \in Rule, Unregister(r.pattern) PROVE EventsInv'
  BY <1>2, NothingNew DEF EventsInv, EventsTyped, Unregister
<1> QED
  BY <1>1, <1>2

LEMMA FillForgetInv ==
  ASSUME EventsInv, (\E t \in Target : Fill(t)) \/ (\E m \in Message : Forget(m)) PROVE EventsInv'
<1>1. ASSUME NEW t \in Target, Fill(t) PROVE EventsInv'
  BY <1>1, NothingNew DEF EventsInv, EventsTyped, Fill
<1>2. ASSUME NEW m \in Message, Forget(m) PROVE EventsInv'
  <2>1. marks' \in [Message -> Nat] /\ \A o \in Message : marks'[o] <= marks[o]
    BY <1>2 DEF EventsInv, EventsTyped, Forget
  <2> QED
    BY <1>2, <2>1, NothingNew DEF EventsInv, EventsTyped, Forget
<1> QED
  BY <1>1, <1>2

LEMMA EventsStep == EventsInv /\ [EventsNext]_eventVars => EventsInv'
<1> SUFFICES ASSUME EventsInv, [EventsNext]_eventVars PROVE EventsInv'
  OBVIOUS
<1>1. CASE UNCHANGED eventVars
  BY <1>1, NothingNew DEF EventsInv, EventsTyped, eventVars
<1>2. ASSUME NEW w \in Worker, Work(w) PROVE EventsInv'
  BY <1>2, CheckInv, RemoveTagInv, RemoveKeysInv, MarkInv, SetbackInv DEF Work
<1> QED
  BY <1>1, <1>2, RegistryInv, FillForgetInv, EmitInv, ReceiveInv DEF EventsNext

\* Whatever is lost, repeated or processed at the same time, by however many workers and for any rules that
\* come and go: once a delivery is marked as processed, so that duplicates of it are skipped, no entry lacks a
\* change that it stood for and that a rule registered since then covers.
THEOREM MarkedStaysDone == EventsSpec => []MarkedIsDone
<1>1. EventsInv => MarkedIsDone
  BY DEF EventsInv
<1> QED
  BY <1>1, EventsStart, EventsStep, PTL DEF EventsSpec

--------------------------------------------------------------------------------
(* CachedCalls: the inductive invariant.                                                     *)

Kind == (UNION {Kinds[c] : c \in DecoratedCall}) \cup {Absent}
Outcome == {"value", "own error", "cache error", Absent}
AnsweredAt == {"done", "write", "remove", "behind"}
Wrapped == [pc : {"new", "get", "joined", "load", "write", "before", "method", "remove", "behind", "done"},
            kind : Kind, val : Nat, joined : DecoratedCall \cup {Absent},
            out : Outcome, must : Nat]

\* A call that may still store what it has read or changed.
Stores(r) == r.pc = "write" \/ (r.pc = "behind" /\ r.kind \in {"Cacheable", "Put"})

\* What is promised is promised to calls that begin; what may still be stored is as new, and so is what
\* a reader answers with.
CallCurrent(r, p, d) ==
  /\ r.must <= p
  /\ Stores(r) => r.val >= p
  /\ r.pc = "remove" => r.val <= d
  /\ r.pc \in {"before", "method", "remove"} => r.kind \notin Reading
  /\ r.kind \in Reading /\ r.out = "value" => r.val >= r.must

ReadsInv ==
  /\ db \in Nat /\ promised \in Nat /\ promised <= db
  /\ wrapped \in [DecoratedCall -> Wrapped]
  /\ stored = Absent \/ (stored \in Nat /\ stored >= promised)
  /\ \A c \in DecoratedCall : CallCurrent(wrapped[c], promised, db)

LEMMA UnstartedTyped == NotStarted \in Wrapped
<1>1. Absent \in Kind
  BY DEF Kind
<1> QED
  BY <1>1 DEF NotStarted, Wrapped, Outcome

LEMMA ReadsStart == DecoratorsInit => ReadsInv
<1> SUFFICES ASSUME DecoratorsInit PROVE ReadsInv
  OBVIOUS
<1>1. CallCurrent(NotStarted, 0, 1)
  BY DecoratorsAssumption DEF NotStarted, CallCurrent, Stores, Reading
<1> QED
  BY <1>1, UnstartedTyped DEF DecoratorsInit, ReadsInv

\* An answer, to the caller or to nobody yet.
LEMMA AnsweredFits ==
  ASSUME ReadsInv, NEW c \in DecoratedCall, NEW out \in Outcome, NEW val \in Nat,
         NEW pc \in AnsweredAt
  PROVE  /\ Answered(c, out, val, pc) \in Wrapped
         /\ Answered(c, out, val, pc).out = out
         /\ Answered(c, out, val, pc).val = val
         /\ Answered(c, out, val, pc).pc = pc
         /\ Answered(c, out, val, pc).kind = wrapped[c].kind
         /\ Answered(c, out, val, pc).must = wrapped[c].must
<1>1. wrapped[c] \in Wrapped
  BY DEF ReadsInv
<1> QED
  BY <1>1 DEF Answered, Wrapped, AnsweredAt

\* An answer whose value is not older than what is promised.
LEMMA AnswerCurrent ==
  ASSUME ReadsInv, NEW c \in DecoratedCall, NEW out \in Outcome, NEW val \in Nat,
         NEW pc \in AnsweredAt, NEW d \in Nat,
         out = "value" \/ pc \in {"write", "behind"} => val >= promised,
         pc = "remove" => val <= d /\ wrapped[c].kind \notin Reading
  PROVE  CallCurrent(Answered(c, out, val, pc), promised, d)
<1> DEFINE r == Answered(c, out, val, pc)
<1>1. r.out = out /\ r.val = val /\ r.pc = pc /\ r.kind = wrapped[c].kind /\ r.must = wrapped[c].must
  BY AnsweredFits
<1>2. wrapped[c].must <= promised /\ wrapped[c].must \in Nat /\ promised \in Nat
  BY DEF ReadsInv, CallCurrent, Wrapped
<1> HIDE DEF r
<1>3. CallCurrent(r, promised, d)
  BY <1>1, <1>2 DEF CallCurrent, Stores, AnsweredAt
<1> QED
  BY <1>3 DEF r

\* A step of one call that promises nothing.
LEMMA CallSteps ==
  ASSUME ReadsInv, NEW c \in DecoratedCall, NEW r \in Wrapped, wrapped' = [wrapped EXCEPT ![c] = r],
         UNCHANGED promised, db' \in Nat, db' >= db, CallCurrent(r, promised, db'),
         stored' = Absent \/ stored' = stored \/ (stored' \in Nat /\ stored' >= promised)
  PROVE  ReadsInv'
<1>1. \A d \in DecoratedCall : wrapped'[d] = IF d = c THEN r ELSE wrapped[d]
  BY DEF ReadsInv
<1>2. wrapped' \in [DecoratedCall -> Wrapped]
  BY DEF ReadsInv
<1>3. \A d \in DecoratedCall : wrapped[d].val \in Nat
  BY DEF ReadsInv, Wrapped
<1>4. \A d \in DecoratedCall : CallCurrent(wrapped'[d], promised, db')
  BY <1>1, <1>3 DEF ReadsInv, CallCurrent
<1> QED
  BY <1>2, <1>4 DEF ReadsInv

\* A step of one call that only moves it.
LEMMA MoveSteps ==
  ASSUME ReadsInv, NEW c \in DecoratedCall, NEW pc \in {"load", "method", "done"}, Moves(c, pc),
         pc = "method" => wrapped[c].kind \notin Reading, UNCHANGED <<db, promised>>,
         stored' = Absent \/ stored' = stored \/ (stored' \in Nat /\ stored' >= promised)
  PROVE  ReadsInv'
<1> DEFINE r == [wrapped[c] EXCEPT !.pc = pc]
<1>1. wrapped[c] \in Wrapped /\ CallCurrent(wrapped[c], promised, db)
  BY DEF ReadsInv
<1>2. r \in Wrapped
  BY <1>1 DEF Wrapped
<1>3. /\ r.pc = pc /\ r.out = wrapped[c].out /\ r.val = wrapped[c].val
      /\ r.kind = wrapped[c].kind /\ r.must = wrapped[c].must
  BY <1>1 DEF Wrapped
<1>4. wrapped' = [wrapped EXCEPT ![c] = r]
  BY DEF Moves
<1> HIDE DEF r
<1>5. CallCurrent(r, promised, db)
  BY <1>1, <1>3 DEF CallCurrent, Stores
<1> QED
  BY <1>2, <1>4, <1>5, CallSteps DEF ReadsInv

\* The outcome of a flight is the outcome of the calls that wait for it.
LEMMA LandsFits ==
  ASSUME ReadsInv, NEW c \in DecoratedCall, NEW out \in {"value", "own error", "cache error"}, NEW val \in Nat,
         Lands(c, out, val), out = "value" => val >= promised, UNCHANGED <<db, promised>>,
         stored' = stored \/ (stored' \in Nat /\ stored' >= promised)
  PROVE  ReadsInv'
<1>1. \A d \in DecoratedCall : wrapped'[d] = wrapped[d] \/ wrapped'[d] = Answered(d, out, val, "done")
  BY DEF Lands
<1>2. \A d \in DecoratedCall : wrapped[d] \in Wrapped /\ CallCurrent(wrapped[d], promised, db)
  BY DEF ReadsInv
<1>. out \in Outcome /\ "done" \in AnsweredAt
  BY DEF Outcome, AnsweredAt
<1>3. \A d \in DecoratedCall : Answered(d, out, val, "done") \in Wrapped
  BY AnsweredFits
<1>4. \A d \in DecoratedCall : CallCurrent(Answered(d, out, val, "done"), promised, db)
  <2> TAKE d \in DecoratedCall
  <2>1. db \in Nat
    BY DEF ReadsInv
  <2> QED
    BY <2>1, AnswerCurrent
<1>5. wrapped' \in [DecoratedCall -> Wrapped]
  BY <1>1, <1>2, <1>3 DEF Lands
<1> QED
  BY <1>1, <1>2, <1>4, <1>5 DEF ReadsInv

\* An answer of one call that promises nothing.
LEMMA AnswerSteps ==
  ASSUME ReadsInv, NEW c \in DecoratedCall, NEW out \in Outcome, NEW val \in Nat, NEW pc \in AnsweredAt,
         wrapped' = [wrapped EXCEPT ![c] = Answered(c, out, val, pc)],
         out = "value" \/ pc \in {"write", "behind"} => val >= promised,
         pc = "remove" => val <= db' /\ wrapped[c].kind \notin Reading,
         UNCHANGED promised, db' \in Nat, db' >= db,
         stored' = Absent \/ stored' = stored \/ (stored' \in Nat /\ stored' >= promised)
  PROVE  ReadsInv'
<1>1. Answered(c, out, val, pc) \in Wrapped
  BY AnsweredFits
<1>2. CallCurrent(Answered(c, out, val, pc), promised, db')
  BY AnswerCurrent
<1> QED
  BY <1>1, <1>2, CallSteps

\* A call begins: it may rely on what is promised by now.
LEMMA StartStep ==
  ASSUME ReadsInv, NEW c \in DecoratedCall, NEW k \in Kinds[c], Start(c, k)
  PROVE  ReadsInv'
<1> DEFINE r == [NotStarted EXCEPT !.pc = Starts(k), !.kind = k, !.must = promised]
<1>1. k \in Kind
  BY DEF Kind
<1>2. promised \in Nat /\ db \in Nat
  BY DEF ReadsInv
<1>3. /\ Starts(k) \in {"get", "before", "method"}
      /\ k \in Reading => Starts(k) = "get"
  BY DEF Starts
<1>4. NotStarted \in Wrapped /\ NotStarted.out = Absent
  BY UnstartedTyped DEF NotStarted
<1>5. r \in Wrapped
  BY <1>1, <1>2, <1>3, <1>4 DEF Wrapped
<1>6. r.out # "value" /\ r.pc = Starts(k) /\ r.kind = k /\ r.must = promised
  BY <1>4, DecoratorsAssumption DEF Wrapped
<1> HIDE DEF r
<1>7. CallCurrent(r, promised, db)
  BY <1>2, <1>3, <1>6 DEF CallCurrent, Stores
<1>8. wrapped' = [wrapped EXCEPT ![c] = r]
  BY DEF Start, r
<1>9. db' = db /\ promised' = promised /\ stored' = stored
  BY DEF Start
<1>10. db' \in Nat /\ db' >= db /\ CallCurrent(r, promised, db')
  BY <1>2, <1>7, <1>9
<1> QED
  BY <1>5, <1>8, <1>9, <1>10, CallSteps

LEMMA BypassStep ==
  ASSUME ReadsInv, NEW c \in DecoratedCall, Bypass(c)
  PROVE  ReadsInv'
<1>1. "value" \in Outcome /\ "done" \in AnsweredAt /\ db \in Nat /\ db >= promised /\ promised \in Nat
  BY DEF Outcome, AnsweredAt, ReadsInv
<1>2. wrapped' = [wrapped EXCEPT ![c] = Answered(c, "value", db, "done")]
  BY DEF Bypass
<1>3. db' = db /\ promised' = promised /\ stored' = stored
  BY DEF Bypass
<1>4. db' \in Nat /\ db' >= db
  BY <1>1, <1>3
<1> QED
  BY <1>1, <1>2, <1>3, <1>4, AnswerSteps

\* What is stored is as new as what is promised, and a flight is a call.
LEMMA GetCachedStep ==
  ASSUME ReadsInv, NEW c \in DecoratedCall, GetCached(c)
  PROVE  ReadsInv'
<1>1. "value" \in Outcome /\ "done" \in AnsweredAt /\ db \in Nat /\ db >= promised /\ promised \in Nat
  BY DEF Outcome, AnsweredAt, ReadsInv
<1>5. db' = db /\ promised' = promised /\ stored' = stored
  BY DEF GetCached
<1>6. db' \in Nat /\ db' >= db
  BY <1>1, <1>5
<1>2. CASE up /\ stored # Absent
  <2>1. stored \in Nat /\ stored >= promised
    BY <1>2 DEF ReadsInv
  <2> QED
    BY <1>1, <1>2, <2>1, AnswerSteps DEF GetCached
<1>3. CASE ~(up /\ stored # Absent) /\ Is(c, {"Cached"}) /\ Flights # {}
  <2> DEFINE f == CHOOSE d \in Flights : TRUE
             r == [wrapped[c] EXCEPT !.pc = "joined", !.joined = f]
  <2>1. f \in DecoratedCall
    <3>1. Flights \subseteq DecoratedCall
      BY DEF Flights
    <3> QED
      BY <1>3, <3>1
  <2>2. wrapped[c] \in Wrapped /\ CallCurrent(wrapped[c], promised, db) /\ wrapped \in [DecoratedCall -> Wrapped]
    BY DEF ReadsInv
  <2>3. wrapped' = [wrapped EXCEPT ![c].pc = "joined", ![c].joined = f]
    BY <1>3 DEF GetCached
  <2> HIDE DEF f
  <2>4. wrapped' = [wrapped EXCEPT ![c] = r]
    BY <2>2, <2>3
  <2>5. r \in Wrapped
    BY <2>1, <2>2 DEF Wrapped
  <2>6. /\ r.pc = "joined" /\ r.out = wrapped[c].out /\ r.val = wrapped[c].val
        /\ r.kind = wrapped[c].kind /\ r.must = wrapped[c].must
    BY <2>2 DEF Wrapped
  <2> HIDE DEF r
  <2>7. CallCurrent(r, promised, db')
    BY <1>5, <2>2, <2>6 DEF CallCurrent, Stores
  <2> QED
    BY <1>5, <1>6, <2>4, <2>5, <2>7, CallSteps
<1>4. CASE ~(up /\ stored # Absent) /\ ~(Is(c, {"Cached"}) /\ Flights # {})
  <2>1. Moves(c, "load")
    BY <1>4 DEF GetCached
  <2> QED
    BY <2>1, MoveSteps DEF GetCached
<1> QED
  BY <1>2, <1>3, <1>4

LEMMA LoadStep ==
  ASSUME ReadsInv, NEW c \in DecoratedCall, Load(c)
  PROVE  ReadsInv'
<1>1. {"value", Absent} \subseteq Outcome /\ {"behind", "write"} \subseteq AnsweredAt
  BY DEF Outcome, AnsweredAt
<1>2. db \in Nat /\ db >= promised /\ promised \in Nat
  BY DEF ReadsInv
<1>3. PICK out \in {"value", Absent}, pc \in {"behind", "write"} :
        wrapped' = [wrapped EXCEPT ![c] = Answered(c, out, db, pc)]
  BY DEF Load
<1>4. db' = db /\ promised' = promised /\ stored' = stored
  BY DEF Load
<1>5. db' \in Nat /\ db' >= db
  BY <1>2, <1>4
<1> QED
  BY <1>1, <1>2, <1>3, <1>4, <1>5, AnswerSteps

\* What a load is about to store is as new as what is promised.
LEMMA ToWrite ==
  ASSUME ReadsInv, NEW c \in DecoratedCall, At(c, "write")
  PROVE  wrapped[c].val \in Nat /\ wrapped[c].val >= promised
  BY DEF ReadsInv, Wrapped, CallCurrent, Stores, At

LEMMA NotCachedStep ==
  ASSUME ReadsInv, NEW c \in DecoratedCall, NotCached(c)
  PROVE  ReadsInv'
  BY ToWrite, LandsFits DEF NotCached

LEMMA WriteStep ==
  ASSUME ReadsInv, NEW c \in DecoratedCall, Write(c)
  PROVE  ReadsInv'
  BY ToWrite, LandsFits DEF Write

LEMMA WriteRefusedStep ==
  ASSUME ReadsInv, NEW c \in DecoratedCall, WriteRefused(c)
  PROVE  ReadsInv'
<1>1. "value" \in Outcome /\ "done" \in AnsweredAt /\ db \in Nat /\ db >= promised /\ promised \in Nat
  BY DEF Outcome, AnsweredAt, ReadsInv
<1>2. CASE stampede
  BY <1>2, LandsFits DEF WriteRefused
<1>3. CASE ~stampede
  BY <1>1, <1>3, AnswerSteps DEF WriteRefused
<1> QED
  BY <1>2, <1>3

LEMMA ThrowsStep ==
  ASSUME ReadsInv, NEW c \in DecoratedCall, NEW marked \in BOOLEAN, Throws(c, marked)
  PROVE  ReadsInv'
<1>1. "value" \in Outcome /\ "done" \in AnsweredAt /\ db \in Nat /\ db >= promised /\ promised \in Nat
  BY DEF Outcome, AnsweredAt, ReadsInv
<1>2. CASE Is(c, {"Cacheable"}) \/ stampede \/ marked
  BY <1>2, LandsFits DEF Throws
<1>3. CASE ~(Is(c, {"Cacheable"}) \/ stampede \/ marked)
  BY <1>1, <1>3, AnswerSteps DEF Throws
<1> QED
  BY <1>2, <1>3

LEMMA BeforeStep ==
  ASSUME ReadsInv, NEW c \in DecoratedCall, Before(c)
  PROVE  ReadsInv'
<1>1. wrapped[c].kind \notin Reading
  BY DEF ReadsInv, CallCurrent, Before, At
<1>2. Moves(c, "method") /\ db' = db /\ promised' = promised /\ (stored' = Absent \/ stored' = stored)
  BY DEF Before
<1> QED
  BY <1>1, <1>2, MoveSteps

\* A change is as new as what is promised; nothing is promised before its removal.
LEMMA ChangeStep ==
  ASSUME ReadsInv, NEW c \in DecoratedCall, Change(c)
  PROVE  ReadsInv'
<1> DEFINE pc == AfterMethod(wrapped[c].kind)
           out == IF pc = "remove" THEN Absent ELSE "value"
<1>1. db \in Nat /\ db >= promised /\ promised \in Nat /\ wrapped[c].kind \notin Reading
  BY DEF ReadsInv, CallCurrent, Change, At
<1>2. pc \in AnsweredAt /\ (pc # "remove" => wrapped[c].kind \notin {"TagsAfter", "On"})
  BY DEF AfterMethod, AnsweredAt
<1>3. out \in Outcome /\ (out # Absent => pc # "remove")
  BY DEF Outcome
<1>4. db' = db + 1 /\ stored' = stored /\ wrapped' = [wrapped EXCEPT ![c] = Answered(c, out, db + 1, pc)]
  BY DEF Change
<1>5. promised' = IF out = Absent THEN promised ELSE Promise(c, db + 1)
  BY DEF Change
<1> HIDE DEF out, pc
<1>6. promised' = promised
  BY <1>2, <1>3, <1>5 DEF Promise, Is
<1>7. db' \in Nat /\ db' >= db /\ db + 1 \in Nat /\ db + 1 >= promised /\ db + 1 <= db'
  BY <1>1, <1>4
<1> QED
  BY <1>1, <1>2, <1>3, <1>4, <1>6, <1>7, AnswerSteps

\* A call that removes answers with the change it made.
LEMMA AfterRemoving ==
  ASSUME ReadsInv, NEW c \in DecoratedCall, At(c, "remove")
  PROVE  /\ wrapped[c].val \in Nat /\ wrapped[c].val <= db /\ wrapped[c].kind \notin Reading
         /\ Answered(c, "value", wrapped[c].val, "done") \in Wrapped
<1>1. wrapped[c].val \in Nat
  BY DEF ReadsInv, Wrapped
<1>2. "value" \in Outcome /\ "done" \in AnsweredAt
  BY DEF Outcome, AnsweredAt
<1>3. Answered(c, "value", wrapped[c].val, "done") \in Wrapped
  BY <1>1, <1>2, AnsweredFits
<1> QED
  BY <1>1, <1>3 DEF ReadsInv, CallCurrent, At

\* What its answer says of the call: only reads owe a version.
LEMMA RemoverCurrent ==
  ASSUME ReadsInv, NEW c \in DecoratedCall, At(c, "remove"), NEW p \in Nat, p >= promised, NEW d \in Nat
  PROVE  CallCurrent(Answered(c, "value", wrapped[c].val, "done"), p, d)
<1> DEFINE r == Answered(c, "value", wrapped[c].val, "done")
<1>1. "value" \in Outcome /\ "done" \in AnsweredAt
  BY DEF Outcome, AnsweredAt
<1>2. r.pc = "done" /\ r.kind = wrapped[c].kind /\ r.must = wrapped[c].must
  BY <1>1, AfterRemoving, AnsweredFits
<1>3. wrapped[c].kind \notin Reading
  BY AfterRemoving
<1>4. wrapped[c].must \in Nat /\ promised \in Nat /\ wrapped[c].must <= promised
  BY DEF ReadsInv, Wrapped, CallCurrent
<1> HIDE DEF r
<1>5. CallCurrent(r, p, d)
  BY <1>2, <1>3, <1>4 DEF CallCurrent, Stores
<1> QED
  BY <1>5 DEF r

\* A removal promises its change when nothing older is left to be stored.
LEMMA RemoveStep ==
  ASSUME ReadsInv, NEW c \in DecoratedCall, Remove(c)
  PROVE  ReadsInv'
<1> DEFINE v == wrapped[c].val
           r == Answered(c, "value", v, "done")
<1>1. At(c, "remove") /\ db' = db /\ wrapped' = [wrapped EXCEPT ![c] = r] /\ promised' = Promise(c, v)
  BY DEF Remove
<1>2. v \in Nat /\ v <= db /\ r \in Wrapped
  BY <1>1, AfterRemoving
<1>3. db \in Nat /\ promised \in Nat /\ promised <= db /\ wrapped \in [DecoratedCall -> Wrapped]
  BY DEF ReadsInv
<1>4. stored' = IF up THEN Absent ELSE stored
  BY DEF Remove
<1>5. /\ promised' \in Nat /\ promised' >= promised /\ promised' <= db
      /\ promised' # promised => up /\ Late(v) = {} /\ promised' = v
  BY <1>1, <1>2, <1>3 DEF Promise
<1>6. \A d \in DecoratedCall : CallCurrent(wrapped[d], promised', db)
  <2> TAKE d \in DecoratedCall
  <2>1. wrapped[d] \in Wrapped /\ CallCurrent(wrapped[d], promised, db)
    BY DEF ReadsInv
  <2>2. Stores(wrapped[d]) => wrapped[d].val >= promised'
    <3>1. CASE promised' = promised
      BY <2>1, <3>1 DEF CallCurrent
    <3>2. CASE promised' # promised
      <4>1. d \notin Late(v)
        BY <1>5, <3>2
      <4>2. Stores(wrapped[d]) => wrapped[d].val >= v
        BY <1>2, <2>1, <4>1 DEF Late, Stores, At, Is, Wrapped
      <4> QED
        BY <1>5, <3>2, <4>2
    <3> QED
      BY <3>1, <3>2
  <2>3. wrapped[d].must <= promised'
    BY <1>3, <1>5, <2>1 DEF CallCurrent, Wrapped
  <2> QED
    BY <2>1, <2>2, <2>3 DEF CallCurrent
<1>7. CallCurrent(r, promised', db)
  BY <1>1, <1>3, <1>5, RemoverCurrent
<1> HIDE DEF r, v
<1>8. \A d \in DecoratedCall : wrapped'[d] = IF d = c THEN r ELSE wrapped[d]
  BY <1>1, <1>3
<1>9. wrapped' \in [DecoratedCall -> Wrapped]
  BY <1>1, <1>2, <1>3
<1>10. stored' = Absent \/ (stored' \in Nat /\ stored' >= promised')
  BY <1>4, <1>5 DEF ReadsInv
<1>11. \A d \in DecoratedCall : CallCurrent(wrapped'[d], promised', db')
  BY <1>1, <1>6, <1>7, <1>8
<1> QED
  BY <1>1, <1>3, <1>5, <1>9, <1>10, <1>11 DEF ReadsInv

LEMMA RemovesNothingStep ==
  ASSUME ReadsInv, NEW c \in DecoratedCall, RemovesNothing(c)
  PROVE  ReadsInv'
<1> DEFINE r == Answered(c, "value", wrapped[c].val, "done")
<1>1. At(c, "remove") /\ wrapped' = [wrapped EXCEPT ![c] = r]
  BY DEF RemovesNothing
<1>2. db' = db /\ promised' = promised /\ stored' = stored
  BY DEF RemovesNothing
<1>3. db \in Nat /\ promised \in Nat
  BY DEF ReadsInv
<1>4. r \in Wrapped /\ CallCurrent(r, promised, db)
  BY <1>1, <1>3, AfterRemoving, RemoverCurrent
<1>5. db' \in Nat /\ db' >= db /\ CallCurrent(r, promised, db')
  BY <1>2, <1>3, <1>4
<1> QED
  BY <1>1, <1>2, <1>4, <1>5, CallSteps

\* What is stored behind an answer is as new as what is promised.
LEMMA BehindStep ==
  ASSUME ReadsInv, NEW c \in DecoratedCall, Behind(c)
  PROVE  ReadsInv'
<1>1. Is(c, {"Cacheable", "Put"}) => wrapped[c].val \in Nat /\ wrapped[c].val >= promised
  BY DEF ReadsInv, Wrapped, CallCurrent, Stores, Behind, At, Is
<1>2. stored' = Absent \/ stored' = stored \/ (stored' \in Nat /\ stored' >= promised)
  BY <1>1 DEF Behind
<1>3. Moves(c, "done") /\ db' = db /\ promised' = promised
  BY DEF Behind
<1> QED
  BY <1>2, <1>3, MoveSteps

LEMMA NothingBehindStep ==
  ASSUME ReadsInv, NEW c \in DecoratedCall, NothingBehind(c)
  PROVE  ReadsInv'
<1>1. Moves(c, "done") /\ db' = db /\ promised' = promised /\ stored' = stored
  BY DEF NothingBehind
<1> QED
  BY <1>1, MoveSteps

\* Redis fails or returns, the entry expires, or nothing happens.
LEMMA WorldStep ==
  ASSUME ReadsInv, Down \/ Up \/ Expires \/ UNCHANGED decoratorVars
  PROVE  ReadsInv'
<1>1. db' = db /\ promised' = promised /\ wrapped' = wrapped /\ (stored' = Absent \/ stored' = stored)
  BY DEF Down, Up, Expires, decoratorVars
<1> QED
  BY <1>1 DEF ReadsInv

LEMMA ReadsStep == ReadsInv /\ [DecoratorsNext]_decoratorVars => ReadsInv'
<1> SUFFICES ASSUME ReadsInv, [DecoratorsNext]_decoratorVars PROVE ReadsInv'
  OBVIOUS
<1>1. CASE Down \/ Up \/ Expires \/ UNCHANGED decoratorVars
  BY <1>1, WorldStep
<1>2. ASSUME NEW c \in DecoratedCall, NEW k \in Kinds[c], Start(c, k) PROVE ReadsInv'
  BY <1>2, StartStep
<1>3. ASSUME NEW c \in DecoratedCall, Reads(c) PROVE ReadsInv'
  BY <1>3, BypassStep, GetCachedStep, LoadStep, NotCachedStep, WriteStep, WriteRefusedStep, ThrowsStep DEF Reads
<1>4. ASSUME NEW c \in DecoratedCall, Changes(c) PROVE ReadsInv'
  BY <1>4, BeforeStep, ChangeStep, RemoveStep, RemovesNothingStep DEF Changes
<1>5. ASSUME NEW c \in DecoratedCall, Behind(c) \/ NothingBehind(c) PROVE ReadsInv'
  BY <1>5, BehindStep, NothingBehindStep
<1> QED
  BY <1>1, <1>2, <1>3, <1>4, <1>5 DEF DecoratorsNext

\* A read that begins after a removal with nothing older still on its way to the cache sees the change
\* the removal was for, however many calls of however many decorators run: the writes that @Cacheable
\* and @CachePut make behind their answers (handleCacheable(), handleCachePut()) are counted with the
\* loads that @Cached has in flight, and errors, bypasses and a Redis that comes and goes only lose.
THEOREM ReadsStayCurrent == DecoratorsSpec => []ReadsSeeChanges
<1>1. ReadsInv => ReadsSeeChanges
  BY DEF ReadsInv, CallCurrent, ReadsSeeChanges, Is
<1> QED
  BY <1>1, ReadsStart, ReadsStep, PTL DEF DecoratorsSpec

--------------------------------------------------------------------------------
(* CacheKeys: the inductive invariant.                                                       *)

Context == [Name -> Value \cup {Undefined}]
\* A key with at most one suffix.
Suffixed(b, pairs) == [base |-> b, ctx |-> IF pairs = {} THEN <<>> ELSE <<pairs>>]
\* A suffix says nothing else than the context does; it has a say in all names that are asked for.
SaysOf(pairs, c) == \A x \in pairs : \E n \in Name : c[n] # Undefined /\ x = <<n, Clean[c[n]]>>
Tells(pairs, c, asked) == \A n \in asked : c[n] # Undefined => <<n, Clean[c[n]]>> \in pairs

Written(k, c) == c \in Context /\ \E b \in Base : \E pairs : k = Suffixed(b, pairs) /\ SaysOf(pairs, c)

KeysInv == ctx \in Context /\ (\A k \in DOMAIN entries : Written(k, entries[k])) /\ ContextKept

LEMMA WithPlain ==
  ASSUME NEW b, NEW pairs
  PROVE  With(Plain(b), pairs) = Suffixed(b, pairs)
<1>1. CASE pairs = {}
  BY <1>1 DEF With, Plain, Suffixed
<1>2. CASE pairs # {}
  <2>1. Append(<<>>, pairs) = <<pairs>>
    OBVIOUS
  <2>2. [Plain(b) EXCEPT !.ctx = Append(@, pairs)] = [base |-> b, ctx |-> <<pairs>>]
    BY <2>1 DEF Plain
  <2> QED
    BY <1>2, <2>2 DEF With, Suffixed
<1> QED
  BY <1>1, <1>2

LEMMA SuffixedParts ==
  ASSUME NEW b, NEW pairs
  PROVE  /\ Suffixed(b, pairs).base = b
         /\ Marked(Suffixed(b, pairs)) <=> pairs # {}
         /\ Suffixed(b, {}) = Plain(b)
<1>1. <<pairs>> # <<>>
  OBVIOUS
<1> QED
  BY <1>1 DEF Suffixed, Marked, Plain

LEMMA SuffixedApart ==
  ASSUME NEW b, NEW pairs, NEW d, NEW others, Suffixed(b, pairs) = Suffixed(d, others)
  PROVE  pairs = others
<1>1. Suffixed(b, pairs).ctx = Suffixed(d, others).ctx
  OBVIOUS
<1>2. (IF pairs = {} THEN <<>> ELSE <<pairs>>) = (IF others = {} THEN <<>> ELSE <<others>>)
  BY <1>1 DEF Suffixed
<1>3. <<pairs>> # <<>> /\ <<others>> # <<>> /\ (<<pairs>> = <<others>> => pairs = others)
  OBVIOUS
<1> QED
  BY <1>2, <1>3

LEMMA OverrideNothing == ctx \in Context => Override(<<>>) = ctx
  BY DEF Context, Override

LEMMA VaryFits ==
  ASSUME NEW vary \in Vary \cup {<<>>}
  PROVE  DOMAIN vary \subseteq Name /\ \A n \in DOMAIN vary : vary[n] \in Value /\ vary[n] # Undefined
<1>1. CASE vary = <<>>
  BY <1>1
<1>2. CASE vary \in Vary
  BY <1>2, KeysAssumption
<1> QED
  BY <1>1, <1>2

LEMMA OverrideContext ==
  ASSUME ctx \in Context, NEW vary \in Vary \cup {<<>>}
  PROVE  Override(vary) \in Context
  BY VaryFits DEF Context, Override

LEMMA PairsTell ==
  ASSUME NEW c \in Context, NEW names \in SUBSET Name
  PROVE  /\ SaysOf(Pairs(c, names), c) /\ Tells(Pairs(c, names), c, names)
         /\ Pairs(c, names) = {} <=> \A n \in names : c[n] = Undefined
<1>1. \A n \in names : c[n] # Undefined => n \in Name /\ c[n] \in Value
  BY DEF Context
<1>2. SaysOf(Pairs(c, names), c)
  BY DEF Pairs, SaysOf
<1>3. Tells(Pairs(c, names), c, names)
  BY DEF Pairs, Tells
<1>4. Pairs(c, names) = {} <=> \A n \in names : c[n] = Undefined
  BY DEF Pairs
<1> QED
  BY <1>2, <1>3, <1>4

\* The context of a call with varyBy, and the names that it asks for.
LEMMA VaryNames ==
  ASSUME NEW vary \in Vary \cup {<<>>}
  PROVE  Global \cup DOMAIN vary \in SUBSET Name
  BY VaryFits, KeysAssumption

\* A key that carries a suffix is left alone.
LEMMA EnrichedKey ==
  ASSUME NEW b, NEW pairs, NEW vary
  PROVE  Enriched(Suffixed(b, pairs), vary)
         = Suffixed(b, IF pairs # {} THEN pairs ELSE Pairs(Override(vary), Global \cup DOMAIN vary))
<1>1. CASE pairs # {}
  BY <1>1, SuffixedParts DEF Enriched
<1>2. CASE pairs = {}
  <2>1. ~Marked(Suffixed(b, pairs)) /\ Suffixed(b, pairs) = Plain(b)
    BY <1>2, SuffixedParts
  <2>2. Enriched(Suffixed(b, pairs), vary) = With(Plain(b), Pairs(Override(vary), Global \cup DOMAIN vary))
    BY <2>1 DEF Enriched
  <2> QED
    BY <1>2, <2>2, WithPlain
<1> QED
  BY <1>1, <1>2

\* The second enrichment adds nothing to the first.
LEMMA EnrichedOnce ==
  ASSUME ctx \in Context, NEW b, NEW pairs, NEW vary \in Vary \cup {<<>>}
  PROVE  Enriched(Enriched(Suffixed(b, pairs), vary), <<>>)
         = Suffixed(b, IF pairs # {} THEN pairs ELSE Pairs(Override(vary), Global \cup DOMAIN vary))
<1> DEFINE first == Pairs(Override(vary), Global \cup DOMAIN vary)
           second == Pairs(Override(<<>>), Global \cup DOMAIN <<>>)
           final == IF pairs # {} THEN pairs ELSE first
<1>1. Enriched(Suffixed(b, pairs), vary) = Suffixed(b, final)
  BY EnrichedKey
<1>2. Enriched(Suffixed(b, final), <<>>) = Suffixed(b, IF final # {} THEN final ELSE second)
  BY EnrichedKey
<1>3. ASSUME first = {} PROVE second = {}
  <2>1. Override(vary) \in Context /\ Global \cup DOMAIN vary \in SUBSET Name
    BY OverrideContext, VaryNames
  <2>2. \A n \in Global \cup DOMAIN vary : Override(vary)[n] = Undefined
    BY <1>3, <2>1, PairsTell
  <2>3. \A n \in DOMAIN vary : n \in Name /\ Override(vary)[n] = vary[n] /\ vary[n] # Undefined
    BY VaryFits DEF Override
  <2>4. \A n \in Global : n \in Name /\ Override(vary)[n] = ctx[n]
    BY <2>2, <2>3, KeysAssumption DEF Override
  <2>5. \A n \in Global : ctx[n] = Undefined
    BY <2>2, <2>4
  <2>6. second = Pairs(ctx, Global)
    BY OverrideNothing
  <2> QED
    BY <2>5, <2>6, PairsTell, KeysAssumption
<1> HIDE DEF first, second
<1>4. (IF final # {} THEN final ELSE second) = final
  BY <1>3
<1> QED
  BY <1>1, <1>2, <1>4 DEF first

\* A call is served with an entry whose key says of the context what the call asks for.
LEMMA Serves ==
  ASSUME KeysInv, NEW b \in Base, NEW pairs, NEW in \in Context, SaysOf(pairs, in),
         NEW asked \in SUBSET Name, NEW key, Tells(pairs, in, asked), Found(Suffixed(b, pairs)),
         Did("serve", key, asked, in, entries[Suffixed(b, pairs)]), UNCHANGED <<ctx, entries>>
  PROVE  KeysInv'
<1> DEFINE k == Suffixed(b, pairs)
<1>1. PICK d, others : d \in Base /\ k = Suffixed(d, others) /\ SaysOf(others, entries[k])
  BY DEF KeysInv, Found, Written
<1>2. SaysOf(pairs, entries[k])
  BY <1>1, SuffixedApart
<1>3. ASSUME NEW n \in asked, in[n] # Undefined
      PROVE  entries[k][n] # Undefined /\ Clean[entries[k][n]] = Clean[in[n]]
  <2>1. <<n, Clean[in[n]]>> \in pairs
    BY <1>3 DEF Tells
  <2>2. PICK m \in Name : entries[k][m] # Undefined /\ <<n, Clean[in[n]]>> = <<m, Clean[entries[k][m]]>>
    BY <1>2, <2>1 DEF SaysOf
  <2> QED
    BY <2>2
<1>4. last' = [op |-> "serve", key |-> key, asked |-> asked, in |-> in, from |-> entries[k]]
  BY DEF Did
<1> HIDE DEF k
<1>5. ContextKept'
  BY <1>3, <1>4 DEF ContextKept
<1> QED
  BY <1>5 DEF KeysInv

\* A call stores an entry whose key says nothing else than its context.
LEMMA Stored ==
  ASSUME KeysInv, NEW b \in Base, NEW pairs, NEW in \in Context, SaysOf(pairs, in),
         Caches(Suffixed(b, pairs), in), Did("none", Undefined, {}, Nobody, Nobody), UNCHANGED ctx
  PROVE  KeysInv'
<1> DEFINE k == Suffixed(b, pairs)
<1>1. Written(k, in)
  BY DEF Written
<1>2. entries' = [x \in DOMAIN entries \cup {k} |-> IF x = k THEN in ELSE entries[x]]
  BY DEF Caches
<1> HIDE DEF k
<1>3. \A x \in DOMAIN entries' : Written(x, entries'[x])
  BY <1>1, <1>2 DEF KeysInv
<1>4. ContextKept'
  BY DEF Did, ContextKept
<1> QED
  BY <1>3, <1>4 DEF KeysInv

\* getOrSet() and @Cached.
LEMMA ReadThroughStep ==
  ASSUME KeysInv, NEW b \in Base, NEW pairs, NEW vary \in Vary \cup {<<>>}, SaysOf(pairs, Override(vary)),
         NEW asked \in SUBSET Name, Tells(IF pairs # {} THEN pairs ELSE Pairs(Override(vary), Global \cup DOMAIN vary), Override(vary), asked),
         ReadThrough(Suffixed(b, pairs), asked, vary)
  PROVE  KeysInv'
<1> DEFINE in == Override(vary)
           final == IF pairs # {} THEN pairs ELSE Pairs(in, Global \cup DOMAIN vary)
           k == Enriched(Enriched(Suffixed(b, pairs), vary), <<>>)
<1>1. in \in Context /\ ctx \in Context
  BY OverrideContext DEF KeysInv
<1>2. k = Suffixed(b, final)
  BY <1>1, EnrichedOnce
<1>3. SaysOf(final, in)
  BY <1>1, PairsTell, VaryNames
<1>4. CASE Found(k)
  <2>1. Did("serve", Suffixed(b, pairs), asked, in, entries[k]) /\ UNCHANGED <<ctx, entries>>
    BY <1>4 DEF ReadThrough
  <2> HIDE DEF k, in, final
  <2>2. Tells(final, in, asked)
    BY DEF final, in
  <2> QED
    BY <1>1, <1>2, <1>3, <1>4, <2>1, <2>2, Serves
<1>5. CASE ~Found(k)
  <2>1. Caches(k, in) /\ Did("none", Undefined, {}, Nobody, Nobody) /\ UNCHANGED ctx
    BY <1>5 DEF ReadThrough
  <2> HIDE DEF k, in, final
  <2> QED
    BY <1>1, <1>2, <1>3, <2>1, Stored
<1> QED
  BY <1>4, <1>5

LEMMA GetOrSetStep ==
  ASSUME KeysInv, NEW b \in Base, NEW vary \in Vary, GetOrSet(b, vary)
  PROVE  KeysInv'
<1>1. Suffixed(b, {}) = Plain(b)
  BY SuffixedParts
<1>2. SaysOf({}, Override(vary))
  BY DEF SaysOf
<1>3. Global \cup DOMAIN vary \in SUBSET Name /\ Override(vary) \in Context
  BY VaryNames, OverrideContext DEF KeysInv
<1>4. Tells(Pairs(Override(vary), Global \cup DOMAIN vary), Override(vary), Global \cup DOMAIN vary)
  BY <1>3, PairsTell
<1>5. ReadThrough(Suffixed(b, {}), Global \cup DOMAIN vary, vary)
  BY <1>1 DEF GetOrSet
<1> QED
  BY <1>2, <1>3, <1>4, <1>5, ReadThroughStep

\* The service adds nothing to what @Cached asked for, unless none of that has a value.
LEMMA CachedCallStep ==
  ASSUME KeysInv, NEW b \in Base, NEW o \in Options, CachedCall(b, o)
  PROVE  KeysInv'
<1> DEFINE asked == IF o.skip THEN {} ELSE Asks(o)
           pairs == IF o.skip THEN {} ELSE Pairs(ctx, Asks(o))
           final == IF pairs # {} THEN pairs ELSE Pairs(ctx, Global \cup DOMAIN <<>>)
<1>1. ctx \in Context /\ Override(<<>>) = ctx /\ <<>> \in Vary \cup {<<>>}
  BY OverrideNothing DEF KeysInv
<1>2. Asks(o) \in SUBSET Name
  BY KeysAssumption DEF Asks
<1>3. Suffixed(b, pairs) = Decorated(b, o)
  BY WithPlain, SuffixedParts DEF Decorated
<1>4. SaysOf(Pairs(ctx, Asks(o)), ctx) /\ Tells(Pairs(ctx, Asks(o)), ctx, Asks(o))
  BY <1>1, <1>2, PairsTell
<1>5. SaysOf(pairs, ctx)
  BY <1>4 DEF SaysOf
<1>6. Tells(final, ctx, asked)
  <2>1. CASE pairs # {} \/ o.skip
    BY <1>4, <2>1 DEF Tells
  <2>2. CASE pairs = {} /\ ~o.skip
    BY <1>1, <1>2, <2>2, PairsTell DEF Tells
  <2> QED
    BY <2>1, <2>2
<1>7. ReadThrough(Suffixed(b, pairs), asked, <<>>) /\ asked \in SUBSET Name
  BY <1>2, <1>3 DEF CachedCall
<1> HIDE DEF asked, pairs
<1> QED
  BY <1>1, <1>5, <1>6, <1>7, ReadThroughStep

LEMMA GetKeyStep ==
  ASSUME KeysInv, NEW b \in Base, GetKey(b)
  PROVE  KeysInv'
<1> DEFINE pairs == Pairs(ctx, Global)
<1>1. ctx \in Context /\ Override(<<>>) = ctx /\ Global \cup DOMAIN <<>> = Global /\ Global \in SUBSET Name
  BY OverrideNothing, KeysAssumption DEF KeysInv
<1>2. Enriched(Suffixed(b, {}), <<>>) = Suffixed(b, pairs)
  BY <1>1, EnrichedKey
<1>3. Enriched(Plain(b), <<>>) = Suffixed(b, pairs)
  BY <1>2, SuffixedParts
<1>4. SaysOf(pairs, ctx) /\ Tells(pairs, ctx, Global)
  BY <1>1, PairsTell
<1>5. /\ Found(Suffixed(b, pairs)) /\ Did("serve", Plain(b), Global, ctx, entries[Suffixed(b, pairs)])
      /\ UNCHANGED <<ctx, entries>>
  BY <1>3 DEF GetKey
<1> HIDE DEF pairs
<1> QED
  BY <1>1, <1>4, <1>5, Serves

LEMMA SetKeyStep ==
  ASSUME KeysInv, NEW b \in Base, NEW vary \in Vary, SetKey(b, vary)
  PROVE  KeysInv'
<1> DEFINE pairs == Pairs(Override(vary), Global \cup DOMAIN vary)
           in == Override(vary)
<1>1. in \in Context /\ Global \cup DOMAIN vary \in SUBSET Name
  BY OverrideContext, VaryNames DEF KeysInv
<1>2. Enriched(Suffixed(b, {}), vary) = Suffixed(b, pairs)
  BY EnrichedKey
<1>3. Enriched(Plain(b), vary) = Suffixed(b, pairs)
  BY <1>2, SuffixedParts
<1>4. SaysOf(pairs, in)
  BY <1>1, PairsTell
<1>5. Caches(Suffixed(b, pairs), in) /\ Did("none", Undefined, {}, Nobody, Nobody) /\ UNCHANGED ctx
  BY <1>3 DEF SetKey
<1> HIDE DEF pairs, in
<1> QED
  BY <1>1, <1>4, <1>5, Stored

\* What a read with the plain key would look for, with the context added by @Cached or not.
PlainReads ==
  ctx \in Context =>
    \A b : \A skip \in BOOLEAN :
      Enriched(Enriched(Decorated(b, [skip |-> skip, keys |-> Undefined, vary |-> {}]), <<>>), <<>>) = Suffixed(b, Pairs(ctx, Global))
LEMMA PlainReadsSame == PlainReads
<1> SUFFICES ASSUME ctx \in Context, NEW b, NEW skip \in BOOLEAN
             PROVE  Enriched(Enriched(Decorated(b, [skip |-> skip, keys |-> Undefined, vary |-> {}]), <<>>), <<>>)
                    = Suffixed(b, Pairs(ctx, Global))
  BY DEF PlainReads
<1> DEFINE o == [skip |-> skip, keys |-> Undefined, vary |-> {}]
           pairs == IF skip THEN {} ELSE Pairs(ctx, Global)
<1>1. Override(<<>>) = ctx /\ Global \cup DOMAIN <<>> = Global /\ <<>> \in Vary \cup {<<>>}
  BY OverrideNothing
<1>2. Decorated(b, o) = Suffixed(b, pairs)
  BY WithPlain, SuffixedParts DEF Decorated, Asks
<1>3. Enriched(Enriched(Suffixed(b, pairs), <<>>), <<>>) = Suffixed(b, IF pairs # {} THEN pairs ELSE Pairs(ctx, Global))
  BY <1>1, EnrichedOnce
<1> QED
  BY <1>2, <1>3
LEMMA PlainReadsNext == PlainReads'
  BY PlainReadsSame, PTL

\* What remains after a deletion does not include what a read of the key would find.
LEMMA DeleteKeyStep ==
  ASSUME KeysInv, NEW key, DeleteKey(key), (\E b \in Base : key = Plain(b)) \/ key \in DOMAIN entries
  PROVE  KeysInv'
<1> DEFINE k == Enriched(key, <<>>)
<1>1. PICK b, pairs : key = Suffixed(b, pairs)
  <2>1. CASE \E b \in Base : key = Plain(b)
    BY <2>1, SuffixedParts
  <2>2. CASE key \in DOMAIN entries
    BY <2>2 DEF KeysInv, Written
  <2> QED
    BY <2>1, <2>2
<1>2. ctx \in Context /\ ctx' = ctx /\ Override(<<>>) = ctx /\ Global \cup DOMAIN <<>> = Global
  BY OverrideNothing DEF KeysInv, DeleteKey
<1>3. k = Suffixed(b, IF pairs # {} THEN pairs ELSE Pairs(ctx, Global))
  BY <1>1, <1>2, EnrichedKey
<1>4. entries' = [x \in DOMAIN entries \ {k} |-> entries[x]]
  BY DEF DeleteKey
<1>5. last'.op = "delete" /\ last'.key = key
  BY DEF DeleteKey, Did
<1>6. key.base = b /\ (Marked(key) <=> pairs # {})
  BY <1>1, SuffixedParts
<1>7. k \notin DOMAIN entries'
  BY <1>4
<1>8. \A skip \in BOOLEAN :
        Enriched(Enriched(Decorated(b, [skip |-> skip, keys |-> Undefined, vary |-> {}]), <<>>), <<>>)' = Suffixed(b, Pairs(ctx, Global))
  <2>1. Pairs(ctx', Global) = Pairs(ctx, Global) /\ ctx' \in Context
    BY <1>2
  <2>2. \A d : \A skip \in BOOLEAN :
          Enriched(Enriched(Decorated(d, [skip |-> skip, keys |-> Undefined, vary |-> {}]), <<>>), <<>>)' = Suffixed(d, Pairs(ctx', Global))
    BY <2>1, PlainReadsNext DEF PlainReads
  <2> QED
    BY <2>1, <2>2
<1> HIDE DEF k
<1>9. ContextKept'
  <2>1. ASSUME ~Marked(key), NEW skip \in BOOLEAN
        PROVE  ~Found(Enriched(Enriched(Decorated(key.base, [skip |-> skip, keys |-> Undefined, vary |-> {}]), <<>>), <<>>))'
    BY <1>2, <1>3, <1>6, <1>7, <1>8, <2>1 DEF Found
  <2>2. Marked(key) => ~Found(key)'
    BY <1>1, <1>3, <1>6, <1>7 DEF Found
  <2> QED
    BY <1>5, <2>1, <2>2 DEF ContextKept
<1> QED
  BY <1>2, <1>4, <1>9 DEF KeysInv

LEMMA QuietStep ==
  ASSUME KeysInv, (\E c \in Context : Request(c)) \/ (\E b \in Base : Refused(b)) \/ UNCHANGED keyVars
  PROVE  KeysInv'
<1>1. CASE UNCHANGED keyVars
  <2>1. ctx' = ctx /\ entries' = entries /\ last' = last /\ ctx \in Context
    BY <1>1 DEF keyVars, KeysInv
  <2>2. \A skip \in BOOLEAN :
          Enriched(Enriched(Decorated(last.key.base, [skip |-> skip, keys |-> Undefined, vary |-> {}]), <<>>), <<>>)'
          = Enriched(Enriched(Decorated(last.key.base, [skip |-> skip, keys |-> Undefined, vary |-> {}]), <<>>), <<>>)
    BY <2>1 DEF Enriched, Override, Decorated, Asks, With, Plain, Marked, Pairs
  <2>3. ContextKept'
    BY <2>1, <2>2 DEF KeysInv, ContextKept, Found
  <2> QED
    BY <2>1, <2>3 DEF KeysInv
<1>2. ASSUME NEW c \in Context, Request(c) PROVE KeysInv'
  <2>1. ContextKept'
    BY <1>2 DEF Request, Did, ContextKept
  <2> QED
    BY <1>2, <2>1 DEF KeysInv, Request
<1>3. ASSUME NEW b \in Base, Refused(b) PROVE KeysInv'
  <2>1. ContextKept'
    BY <1>3 DEF Refused, Did, ContextKept
  <2> QED
    BY <1>3, <2>1 DEF KeysInv, Refused
<1> QED
  BY <1>1, <1>2, <1>3

LEMMA KeysStart == KeysInit => KeysInv
<1> SUFFICES ASSUME KeysInit PROVE KeysInv
  OBVIOUS
<1>1. ctx \in Context
  BY DEF KeysInit, Nobody, Context
<1>2. ContextKept
  BY DEF KeysInit, ContextKept
<1> QED
  BY <1>1, <1>2 DEF KeysInit, KeysInv

LEMMA KeysStep == KeysInv /\ [KeysNext]_keyVars => KeysInv'
<1> SUFFICES ASSUME KeysInv, [KeysNext]_keyVars PROVE KeysInv'
  OBVIOUS
<1>1. ASSUME NEW c \in Context, Request(c) PROVE KeysInv'
  BY <1>1, QuietStep
<1>2. ASSUME NEW b \in Base, NEW vary \in Vary, GetOrSet(b, vary) \/ SetKey(b, vary) PROVE KeysInv'
  BY <1>2, GetOrSetStep, SetKeyStep
<1>3. ASSUME NEW b \in Base, NEW o \in Options, CachedCall(b, o) PROVE KeysInv'
  BY <1>3, CachedCallStep
<1>4. ASSUME NEW b \in Base, GetKey(b) \/ Refused(b) \/ DeleteKey(Plain(b)) PROVE KeysInv'
  BY <1>4, GetKeyStep, QuietStep, DeleteKeyStep
<1>5. ASSUME NEW k \in DOMAIN entries, DeleteKey(k) PROVE KeysInv'
  BY <1>5, DeleteKeyStep
<1>6. CASE UNCHANGED keyVars
  BY <1>6, QuietStep
<1> QED
  BY <1>1, <1>2, <1>3, <1>4, <1>5, <1>6 DEF KeysNext, Context

\* Whatever names are global or asked for, whatever is passed as varyBy, however often a key goes through
\* enrichKeyWithContext() and enrichWithContext(): a read is served with what was stored in a context that is
\* the same in all it asked for, up to what sanitizeForKey() makes of the values, and what is deleted is found no more.
THEOREM KeysKeepContext == KeysSpec => []ContextKept
<1>1. KeysInv => ContextKept
  BY DEF KeysInv
<1> QED
  BY <1>1, KeysStart, KeysStep, PTL DEF KeysSpec
================================================================================
