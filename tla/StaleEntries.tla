------------------------------ MODULE StaleEntries ------------------------------
(* One key of a cache with stale-while-revalidate and stale-if-error: entries that are  *)
(* fresh, then stale, then kept for errors only; the background revalidations of each    *)
(* process; the loads of calls that missed; get(), set() and delete() beside them. How    *)
(* loads of several processes exclude each other is Stampede's subject: here they may      *)
(* overlap. A value is the version of the source it was read from.                          *)
EXTENDS Integers, FiniteSets

CONSTANTS
  Call, Process, Home,     \* calls are numbers; Home[c]: the process of call c
  None,
  SwrOn, SieOn,            \* swr.enabled, staleIfError.enabled
  Ttl, StaleTime, Window,  \* ttl, staleTime and the window of stale-if-error
  L1Ttl,
  MaxDelay, MaxLoad,       \* a command, a loader end within so many ticks
  Versions,                \* BOUND: versions of the source
  Faults, Hangs, Clears    \* BOUND: failures, loaders that never return, clearRevalidations()

ASSUME StaleAssumption ==
  /\ Call \subseteq Nat /\ Home \in [Call -> Process] /\ None \notin Call
  /\ SwrOn \in BOOLEAN /\ SieOn \in BOOLEAN /\ (SwrOn \/ SieOn)
  /\ Ttl \in Nat \ {0} /\ StaleTime \in Nat /\ Window \in Nat \ {0} /\ L1Ttl \in Nat \ {0}
  /\ MaxDelay \in Nat /\ MaxLoad \in Nat /\ Versions \in Nat \ {0}
  /\ Faults \in Nat /\ Hangs \in Nat /\ Clears \in Nat

VARIABLES
  call,     \* each call: its phase and since when, the entry it read, its answer and how
            \* long the source had then been without it
  work,     \* the load a call started: as a flight others join, or as a revalidation job
  flights, jobs,   \* of each process: the call whose flight, whose job is in the map
  entry,    \* the key in Redis, with the age of what it holds and the life it has left
  l1,       \* the memory of each process
  source,
  since,    \* history: ticks since each version of the source was replaced
  faults, hangs, clears

vars == <<call, work, flights, jobs, entry, l1, source, since, faults, hangs, clears>>
Maps == <<flights, jobs>>
Spent == <<faults, hangs, clears>>
Past == <<source, since>>

Nothing == [val |-> 0, age |-> 0, left |-> 0, plain |-> FALSE]
Empty == [val |-> 0, left |-> 0]
Idle == [for |-> "none", st |-> "none", val |-> 0, age |-> 0, t |-> 0]

StaleFor == IF SwrOn THEN StaleTime ELSE 0
Kept == Ttl + StaleFor
Retain == IF SieOn THEN Kept + Window ELSE Kept

Init ==
  /\ call = [c \in Call |-> [pc |-> "new", t |-> 0, seen |-> Nothing, on |-> None, val |-> 0, out |-> "none", lag |-> 0]]
  /\ work = [c \in Call |-> Idle]
  /\ flights = [p \in Process |-> None] /\ jobs = [p \in Process |-> None]
  /\ entry = Nothing /\ l1 = [p \in Process |-> Empty]
  /\ source = 1 /\ since = [v \in 1..Versions |-> 0]
  /\ faults = 0 /\ hangs = 0 /\ clears = 0

--------------------------------------------------------------------------------
\* A plain entry, which set() writes, has no staleAt or expiresAt to be compared with.
IsStale(e) == ~e.plain /\ e.age > Ttl
PastKeepUntil(e) == ~e.plain /\ e.age > Retain
IsExpired(e) == ~e.plain /\ e.age > Kept
Usable(e) == e # Nothing /\ ~IsExpired(e)

To(c, pc) == [call EXCEPT ![c].pc = pc, ![c].t = 0]
Ended(r, out, val) ==
  [r EXCEPT !.pc = "done", !.t = 0, !.seen = Nothing, !.on = None,
            !.out = out, !.val = val, !.lag = IF val = 0 THEN 0 ELSE since[val]]
End(c, out, val) == call' = [call EXCEPT ![c] = Ended(@, out, val)]
Fails == faults < Faults /\ faults' = faults + 1 /\ UNCHANGED <<hangs, clears>>

\* The calls of a process are interchangeable: they begin in their order.
New(c) == call[c].pc = "new" /\ \A d \in Call : d < c /\ Home[d] = Home[c] => call[d].pc # "new"

\* getOrSet() reads the entry; a read that fails is a miss.
Begin(c, pc) ==
  /\ New(c)
  /\ call' = To(c, pc)
  /\ UNCHANGED <<work, Maps, entry, l1, Past, Spent>>

Read(c, from, to) ==
  /\ call[c].pc = from
  /\ call' = [call EXCEPT ![c].pc = to, ![c].seen = entry]
  /\ UNCHANGED <<work, Maps, entry, l1, Past, Spent>>

ReadFails(c, from, to) ==
  /\ call[c].pc = from /\ Fails /\ call' = [call EXCEPT ![c].pc = to]
  /\ UNCHANGED <<work, Maps, entry, l1, Past>>

\* What is not expired is served; if it is stale, and no revalidation of the process is in
\* the map, one is scheduled.
MayRevalidateAlways(c) == TRUE
MayRevalidate(c) == jobs[Home[c]] = None
Revalidates(c) == IsStale(call[c].seen) /\ SwrOn /\ MayRevalidate(c)
Hit(c) ==
  /\ call[c].pc = "read" /\ Usable(call[c].seen)
  /\ End(c, "hit", call[c].seen.val)
  /\ IF Revalidates(c)
     THEN /\ jobs' = [jobs EXCEPT ![Home[c]] = c]
          /\ work' = [work EXCEPT ![c] = [Idle EXCEPT !.for = "job", !.st = "loading"]]
     ELSE UNCHANGED <<jobs, work>>
  /\ UNCHANGED <<flights, entry, l1, Past, Spent>>

\* A miss joins the flight of its process or leads one.
Miss(c) == call[c].pc = "read" /\ ~Usable(call[c].seen)
Join(c) ==
  /\ Miss(c) /\ flights[Home[c]] # None
  /\ call' = [To(c, "joined") EXCEPT ![c].on = flights[Home[c]]]
  /\ UNCHANGED <<work, Maps, entry, l1, Past, Spent>>

Lead(c) ==
  /\ Miss(c) /\ flights[Home[c]] = None
  /\ call' = [To(c, "joined") EXCEPT ![c].on = c]
  /\ flights' = [flights EXCEPT ![Home[c]] = c]
  /\ work' = [work EXCEPT ![c] = [Idle EXCEPT !.for = "flight", !.st = "checking"]]
  /\ UNCHANGED <<jobs, entry, l1, Past, Spent>>

\* A flight settles everybody on it. If it fails, stale-if-error reads the entry again.
OnFlight(w) == {c \in Call : call[c].pc = "joined" /\ call[c].on = w}
Settles(w, out, val) ==
  call' = [c \in Call |-> IF c \notin OnFlight(w) THEN call[c]
             ELSE IF out = "error" /\ SieOn THEN [call[c] EXCEPT !.pc = "salvaging", !.on = None, !.t = 0]
             ELSE Ended(call[c], out, val)]
LeaveAlways(w) ==
  IF work[w].for = "job" THEN jobs' = [jobs EXCEPT ![Home[w]] = None] /\ UNCHANGED flights
                         ELSE flights' = [flights EXCEPT ![Home[w]] = None] /\ UNCHANGED jobs
LeaveOnSuccess(w) == IF work[w].st = "writing" THEN LeaveAlways(w) ELSE UNCHANGED <<flights, jobs>>
Leave(w) == LeaveAlways(w)
Over(w) == work' = [work EXCEPT ![w] = [Idle EXCEPT !.for = work[w].for, !.st = "over"]] /\ Leave(w)

\* The leader of a flight that waited for another instance's lock finds its entry, or loads too; the
\* one that got the lock loads at once (the lock itself is in Stampede).
Recheck(w) ==
  /\ work[w].st = "checking"
  /\ \/ Usable(entry) /\ Settles(w, "hit", entry.val) /\ Over(w)
     \/ work' = [work EXCEPT ![w].st = "loading", ![w].t = 0] /\ UNCHANGED <<call, Maps>>
  /\ UNCHANGED <<entry, l1, Past, Spent>>

\* A loader reads the source, returns what it read, and the entry made of it is written.
LoaderReads(w) ==
  /\ work[w].st = "loading"
  /\ work' = [work EXCEPT ![w].st = "loaded", ![w].val = source]
  /\ UNCHANGED <<call, Maps, entry, l1, Past, Spent>>

LoaderReturns(w) ==
  /\ work[w].st = "loaded"
  /\ work' = [work EXCEPT ![w].st = "writing", ![w].age = 0, ![w].t = 0]
  /\ UNCHANGED <<call, Maps, entry, l1, Past, Spent>>

Entry(w) == [val |-> work[w].val, age |-> work[w].age, left |-> Retain, plain |-> FALSE]
SetSwr(w) ==
  /\ work[w].st = "writing"
  /\ entry' = Entry(w)
  /\ IF work[w].for = "job"
     THEN l1' = [l1 EXCEPT ![Home[w]] = [val |-> work[w].val, left |-> L1Ttl]] /\ UNCHANGED call
     ELSE UNCHANGED l1 /\ Settles(w, "loaded", work[w].val)
  /\ Over(w) /\ UNCHANGED <<Past, Spent>>

\* The loader throws, or the write fails or its answer is lost. A job only logs it.
WorkFails(w) ==
  /\ work[w].st \in {"loading", "loaded", "writing"} /\ Fails
  /\ entry' \in IF work[w].st = "writing" THEN {entry, Entry(w)} ELSE {entry}
  /\ IF work[w].for = "job" THEN UNCHANGED call ELSE Settles(w, "error", 0)
  /\ Over(w) /\ UNCHANGED <<l1, Past>>

LoaderHangs(w) ==
  /\ work[w].for = "job" /\ work[w].st = "loading" /\ hangs < Hangs
  /\ work' = [work EXCEPT ![w].st = "hung", ![w].t = 0] /\ hangs' = hangs + 1
  /\ UNCHANGED <<call, Maps, entry, l1, Past, faults, clears>>

\* serveStaleOnError(): what Redis still holds, if shouldServe() agrees.
Salvage(c) ==
  /\ call[c].pc = "salvaging"
  /\ \/ entry # Nothing /\ ~PastKeepUntil(entry) /\ End(c, "salvaged", entry.val)
     \/ End(c, "error", 0)
  /\ UNCHANGED <<work, Maps, entry, l1, Past, Spent>>

\* clearRevalidations() empties the map; the loaders go on.
ClearRevalidations(p) ==
  /\ clears < Clears /\ clears' = clears + 1 /\ jobs[p] # None
  /\ jobs' = [jobs EXCEPT ![p] = None]
  /\ UNCHANGED <<call, work, flights, entry, l1, Past, faults, hangs>>

--------------------------------------------------------------------------------
\* get() knows no expiry but that of the memory tier and of Redis.
GetFromL1(c) ==
  /\ New(c) /\ l1[Home[c]].val # 0
  /\ End(c, "got", l1[Home[c]].val)
  /\ UNCHANGED <<work, Maps, entry, l1, Past, Spent>>

Get(c) == l1[Home[c]].val = 0 /\ Begin(c, "getting")

GetAnswered(c) ==
  LET e == call[c].seen IN
  /\ call[c].pc = "gotten"
  /\ End(c, IF e = Nothing THEN "null" ELSE IF IsExpired(e) THEN "got expired" ELSE "got", e.val)
  /\ l1' = IF e = Nothing THEN l1 ELSE [l1 EXCEPT ![Home[c]] = [val |-> e.val, left |-> L1Ttl]]
  /\ UNCHANGED <<work, Maps, entry, Past, Spent>>

\* set() stores the current version as a plain entry, in Redis and then in memory.
Set(c) ==
  /\ New(c)
  /\ call' = [To(c, "setting") EXCEPT ![c].val = source]
  /\ UNCHANGED <<work, Maps, entry, l1, Past, Spent>>

Least(a, b) == IF a < b THEN a ELSE b
SetExec(c) ==
  /\ call[c].pc = "setting"
  /\ entry' = [val |-> call[c].val, age |-> 0, left |-> Ttl, plain |-> TRUE]
  /\ l1' = [l1 EXCEPT ![Home[c]] = [val |-> call[c].val, left |-> Least(Ttl, L1Ttl)]]
  /\ End(c, "set", 0)
  /\ UNCHANGED <<work, Maps, Past, Spent>>

Delete(c) ==
  /\ New(c) /\ call' = To(c, "deleting")
  /\ l1' = [l1 EXCEPT ![Home[c]] = Empty]
  /\ UNCHANGED <<work, Maps, entry, Past, Spent>>

DeleteExec(c) ==
  /\ call[c].pc = "deleting" /\ End(c, "deleted", 0)
  /\ entry' = Nothing
  /\ UNCHANGED <<work, Maps, l1, Past, Spent>>

WriteFails(c) ==
  /\ call[c].pc \in {"setting", "deleting"} /\ Fails /\ End(c, "error", 0)
  /\ UNCHANGED <<work, Maps, entry, l1, Past>>

--------------------------------------------------------------------------------
Update ==
  /\ source < Versions /\ source' = source + 1
  /\ UNCHANGED <<call, work, Maps, entry, l1, since, Spent>>

Crash(p) ==
  /\ Fails
  /\ call' = [c \in Call |-> IF Home[c] = p /\ call[c].pc # "new" THEN Ended(call[c], "crashed", 0) ELSE call[c]]
  /\ work' = [c \in Call |-> IF Home[c] = p THEN Idle ELSE work[c]]
  /\ flights' = [flights EXCEPT ![p] = None] /\ jobs' = [jobs EXCEPT ![p] = None]
  /\ l1' = [l1 EXCEPT ![p] = Empty]
  /\ UNCHANGED <<entry, Past>>

Waiting == {"reading", "read", "getting", "gotten", "salvaging", "setting", "deleting"}
MayPass ==
  /\ \A c \in Call : call[c].pc \in Waiting => call[c].t < MaxDelay
  /\ \A w \in Call : /\ work[w].st \in {"checking", "writing"} => work[w].t < MaxDelay
                     /\ work[w].st \in {"loading", "loaded"} => work[w].t < MaxLoad
Older(e) == IF e = Nothing THEN e ELSE [e EXCEPT !.age = @ + 1]
Gone(e) == IF e.left > 1 THEN [e EXCEPT !.left = @ - 1] ELSE Nothing
Horizon == MaxLoad + 2 * MaxDelay + Retain + L1Ttl + 1
Tick ==
  /\ MayPass
  /\ call' = [c \in Call |-> IF call[c].pc \in Waiting
                             THEN [call[c] EXCEPT !.t = @ + 1, !.seen = Older(@)] ELSE call[c]]
  /\ work' = [w \in Call |->
       CASE work[w].st = "writing" -> [work[w] EXCEPT !.t = @ + 1, !.age = @ + 1]
         [] work[w].st \in {"checking", "loading", "loaded"} -> [work[w] EXCEPT !.t = @ + 1]
         [] OTHER -> work[w]]
  /\ entry' = Gone(Older(entry))
  /\ l1' = [p \in Process |-> IF l1[p].left > 1 THEN [l1[p] EXCEPT !.left = @ - 1] ELSE Empty]
  /\ since' = [v \in 1..Versions |-> IF v < source THEN Least(since[v] + 1, Horizon) ELSE 0]
  /\ UNCHANGED <<Maps, source, Spent>>

Next ==
  \/ \E c \in Call :
       \/ Begin(c, "reading") \/ Read(c, "reading", "read") \/ ReadFails(c, "reading", "read")
       \/ Hit(c) \/ Join(c) \/ Lead(c) \/ Salvage(c)
       \/ Recheck(c) \/ LoaderReads(c) \/ LoaderReturns(c) \/ SetSwr(c) \/ WorkFails(c) \/ LoaderHangs(c)
       \/ GetFromL1(c) \/ Get(c) \/ Read(c, "getting", "gotten") \/ ReadFails(c, "getting", "gotten") \/ GetAnswered(c)
       \/ Set(c) \/ SetExec(c) \/ Delete(c) \/ DeleteExec(c) \/ WriteFails(c)
  \/ \E p \in Process : ClearRevalidations(p) \/ Crash(p)
  \/ Update \/ Tick

Spec == Init /\ [][Next]_vars

--------------------------------------------------------------------------------
\* How long the source may have been without a value when a call is served with it:
\* getOrSet() within ttl and staleTime, after an error within the window, get() as long as
\* Redis and then its memory keep the entry.
Bound(out) ==
  CASE out = "hit" -> MaxLoad + 2 * MaxDelay + Kept
    [] out = "loaded" -> MaxLoad + MaxDelay
    [] out = "salvaged" -> MaxLoad + 2 * MaxDelay + Retain
    [] OTHER -> MaxLoad + 2 * MaxDelay + Retain + L1Ttl

\* Whatever revalidates, loads, sets, deletes or fails at the same time, and in whatever
\* order their writes land, no caller is served a value that has been out of date for longer.
ServedInTime == \A c \in Call : call[c].out # "none" => call[c].lag <= Bound(call[c].out)

\* The map of revalidations names running ones only, so a failed one blocks no later one;
\* and but for clearRevalidations() a process runs one at a time.
Running(p) == {w \in Call : Home[w] = p /\ work[w].for = "job" /\ work[w].st \notin {"none", "over"}}
RevalidationsTracked ==
  \A p \in Process : /\ jobs[p] # None => jobs[p] \in Running(p)
                     /\ Cardinality(Running(p)) <= 1 + clears

\* Both.
StaleBounded == ServedInTime /\ RevalidationsTracked

\* What the port's comment says: past expiresAt a value is served only when the loader fails.
ErrorServingOnly == \A c \in Call : call[c].out # "got expired"
================================================================================
