-------------------------------- MODULE Stampede --------------------------------
(* getOrSet() calls for one key in several processes: the cache read, the local     *)
(* singleflight and the distributed lock of StampedeProtectionService, the load and  *)
(* its write, timeouts and the fallback of CacheService. The memory tier is off, or    *)
(* its copy has expired: what the calls of all processes share is the value in Redis.  *)
(* Values are versions of the data source. Times count the ticks of the present wait. *)
EXTENDS Integers, FiniteSets

CONSTANTS
  Call, Process, Home,   \* Home[c]: the process of call c
  None,
  LockTimeout, WaitTimeout,
  Fallback,              \* "load", "null" or "error"
  WritesShared,          \* the value is written to Redis: not strategy 'l1-only', not unless()
  MaxDelay,              \* a command is answered within so many ticks
  MaxLoad,               \* a loader reads the source within so many ticks, Hangs apart
  Hangs,                 \* BOUND: loaders that never return
  Faults,                \* BOUND: lost commands, failing loaders and writes
  Versions,              \* BOUND: versions of the source
  Drops                  \* BOUND: deletions and expiries of the cached value, calls of clearKey()

ASSUME StampedeAssumption ==
  /\ Home \in [Call -> Process] /\ IsFiniteSet(Call) /\ None \notin Call
  /\ LockTimeout \in Nat \ {0} /\ WaitTimeout \in Nat \ {0}
  /\ Fallback \in {"load", "null", "error"} /\ WritesShared \in BOOLEAN
  /\ MaxDelay \in Nat /\ MaxLoad \in Nat
  /\ Hangs \in Nat /\ Faults \in Nat /\ Versions \in Nat \ {0} /\ Drops \in Nat

VARIABLES
  call,     \* what each call is doing, since when, the value it has, the flight it joined
  flights,  \* the map of each process: the call whose flight it holds
  flight,   \* each call's flight: the promise, whether waiters were counted and whether
            \* anybody holds the promise, its age
  load,     \* the loader of each call's flight, and the one of its fallback
  holder,   \* calls that were told they hold the lock
  lock,     \* the key _stampede:<key>: who holds it and how long
  letting,  \* calls whose release script is on its way
  cache,    \* the cached version, 0 without one
  source,   \* the current version
  faults, hangs, drops

vars == <<call, flights, flight, load, holder, lock, letting, cache, source, faults, hangs, drops>>

Free == [by |-> None, left |-> 0]
Load == Call \X {"flight", "direct"}
LockTtlHalf == LockTimeout \div 2
LockTtl == LockTimeout

Phases == {"new", "getting", "got", "locking", "locked", "refused", "polling", "checking",
           "sleeping", "woken",
           "leading", "joined", "direct", "done"}
Outcomes == {"none", "value", "null", "timeout", "error"}

Time == 0..(WaitTimeout + LockTimeout + MaxDelay)
Version == 0..Versions
CallType == [pc : Phases, t : Time, val : Version, out : Outcomes, on : Call \cup {None}]
FlightType == [st : {"none", "pending", "value", "timeout", "error", "cancelled"}, val : Version,
               waited : BOOLEAN, held : BOOLEAN, age : 0..(LockTimeout + 1)]
LoadType == [st : {"none", "reading", "writing", "over", "hung"}, val : Version, t : Nat]

TypeOK ==
  /\ call \in [Call -> CallType]
  /\ flights \in [Process -> Call \cup {None}]
  /\ flight \in [Call -> FlightType]
  /\ load \in [Load -> LoadType]
  /\ lock \in [by : Call, left : 1..LockTtl] \cup {Free}
  /\ holder \subseteq Call /\ letting \subseteq Call
  /\ cache \in Version /\ source \in 1..Versions
  /\ faults \in 0..Faults /\ hangs \in 0..Hangs /\ drops \in 0..Drops

Init ==
  /\ call = [c \in Call |-> [pc |-> "new", t |-> 0, val |-> 0, out |-> "none", on |-> None]]
  /\ flights = [p \in Process |-> None]
  /\ flight = [c \in Call |-> [st |-> "none", val |-> 0, waited |-> FALSE, held |-> FALSE, age |-> 0]]
  /\ load = [l \in Load |-> [st |-> "none", val |-> 0, t |-> 0]]
  /\ lock = Free /\ holder = {} /\ letting = {}
  /\ cache = 0 /\ source = 1
  /\ faults = 0 /\ hangs = 0 /\ drops = 0

Shared == <<lock, cache, source>>
Budgets == <<faults, hangs, drops>>

\* call c goes on in its wait, begins another one, joins the flight of d, or ends.
At(pc, t, val, on) == [pc |-> pc, t |-> t, val |-> val, out |-> "none", on |-> on]
Still(c, pc, val) == At(pc, call[c].t, val, None)
To(c, pc) == At(pc, 0, call[c].val, None)
End(c, out, val) == [pc |-> "done", t |-> 0, val |-> val, out |-> out, on |-> None]

Loader(st, val, t) == [st |-> st, val |-> val, t |-> t]
Starts(l) == [load EXCEPT ![l] = Loader("reading", 0, 0)]
Ends(l, st) == [load EXCEPT ![l] = Loader(st, load[l].val, load[l].t)]

\* The flight of c gets a result, or somebody waits for it.
Result(c, st, val) ==
  [flight EXCEPT ![c] = [st |-> st, val |-> val, waited |-> @.waited, held |-> @.held, age |-> @.age]]
Counted(d, held) ==
  [flight EXCEPT ![d] = [st |-> @.st, val |-> @.val, waited |-> TRUE, held |-> held, age |-> @.age]]

\* handleStampedeFallback.
AfterStampedeError(c) ==
  IF Fallback = "load"
  THEN call' = [call EXCEPT ![c] = To(c, "direct")] /\ load' = Starts(<<c, "direct">>)
  ELSE /\ call' = [call EXCEPT ![c] = End(c, IF Fallback = "null" THEN "null" ELSE "timeout", 0)]
       /\ UNCHANGED load

\* The finally of protect(): the flight leaves the map whatever it holds by now; the
\* lock, if this call got it, is let go by a script nobody awaits.
LeavesLate(c) == flights
Leaves(c) == [flights EXCEPT ![Home[c]] = None]
Releases(c) == IF c \in holder THEN letting \cup {c} ELSE letting

--------------------------------------------------------------------------------
\* getOrSet(): the cached value is read, and what was read is answered later.
Begin(c) ==
  /\ call[c].pc = "new"
  /\ call' = [call EXCEPT ![c] = To(c, "getting")]
  /\ UNCHANGED <<flights, flight, load, holder, letting, Shared, Budgets>>

GetExec(c) ==
  /\ call[c].pc = "getting"
  /\ call' = [call EXCEPT ![c] = Still(c, "got", cache)]
  /\ UNCHANGED <<flights, flight, load, holder, letting, Shared, Budgets>>

\* A read that fails counts as a miss.
GetFails(c) ==
  /\ call[c].pc = "getting" /\ faults < Faults
  /\ call' = [call EXCEPT ![c] = Still(c, "got", 0)]
  /\ faults' = faults + 1
  /\ UNCHANGED <<flights, flight, load, holder, letting, Shared, hangs, drops>>

Hit(c) ==
  /\ call[c].pc = "got" /\ call[c].val # 0
  /\ call' = [call EXCEPT ![c] = End(c, "value", call[c].val)]
  /\ UNCHANGED <<flights, flight, load, holder, letting, Shared, Budgets>>

JoinsLoading(p) == flights[p] # None /\ call[flights[p]].pc = "leading"
Joins(p) == flights[p] # None

\* protect(): a waiter of this process's flight is counted; a flight that is too old
\* is not waited for.
Join(c) ==
  LET d == flights[Home[c]]
  IN /\ call[c].pc = "got" /\ call[c].val = 0 /\ Joins(Home[c])
     /\ IF flight[d].age > LockTimeout
        THEN /\ flight' = Counted(d, flight[d].held)
             /\ AfterStampedeError(c)
        ELSE /\ flight' = Counted(d, TRUE)
             /\ call' = [call EXCEPT ![c] = At("joined", 0, 0, d)]
             /\ UNCHANGED load
     /\ UNCHANGED <<flights, holder, letting, Shared, Budgets>>

\* protect(): a new flight, registered before anything is awaited.
Fly(c) ==
  /\ call[c].pc = "got" /\ call[c].val = 0 /\ ~Joins(Home[c])
  /\ flights' = [flights EXCEPT ![Home[c]] = c]
  /\ flight' = Result(c, "pending", 0)
  /\ call' = [call EXCEPT ![c] = To(c, "locking")]
  /\ UNCHANGED <<load, holder, letting, Shared, Budgets>>

SetTakes == TRUE
SetNxTakes == lock = Free
\* SET NX EX, and its answer.
LockExec(c) ==
  /\ call[c].pc = "locking"
  /\ IF SetNxTakes
     THEN lock' = [by |-> c, left |-> LockTtl] /\ call' = [call EXCEPT ![c] = Still(c, "locked", 0)]
     ELSE call' = [call EXCEPT ![c] = Still(c, "refused", 0)] /\ UNCHANGED lock
  /\ UNCHANGED <<flights, flight, load, holder, letting, cache, source, Budgets>>

Locked(c) ==
  /\ call[c].pc = "locked"
  /\ call' = [call EXCEPT ![c] = To(c, "leading")]
  /\ load' = Starts(<<c, "flight">>)
  /\ holder' = holder \cup {c}
  /\ UNCHANGED <<flights, flight, letting, Shared, Budgets>>

Refused(c) ==
  /\ call[c].pc = "refused"
  /\ call' = [call EXCEPT ![c] = To(c, "polling")]
  /\ UNCHANGED <<flights, flight, load, holder, letting, Shared, Budgets>>

\* The SET failed, executed or not: the call goes on as one that was refused.
LockFails(c) ==
  /\ call[c].pc = "locking" /\ faults < Faults
  /\ call' = [call EXCEPT ![c] = To(c, "polling")]
  /\ \/ SetNxTakes /\ lock' = [by |-> c, left |-> LockTtl]
     \/ UNCHANGED lock
  /\ faults' = faults + 1
  /\ UNCHANGED <<flights, flight, load, holder, letting, cache, source, hangs, drops>>

\* waitForDistributedLoad: EXISTS, and the recheck once the lock is gone.
Poll(c) ==
  /\ call[c].pc = "polling"
  /\ call' = [call EXCEPT ![c] = Still(c, IF lock = Free THEN "checking" ELSE "sleeping", 0)]
  /\ UNCHANGED <<flights, flight, load, holder, letting, Shared, Budgets>>

Recheck(c) ==
  /\ call[c].pc = "checking" /\ cache # 0
  /\ flight' = IF flight[c].st = "pending" THEN Result(c, "value", cache) ELSE flight
  /\ flights' = Leaves(c)
  /\ call' = [call EXCEPT ![c] = End(c, "value", cache)]
  /\ UNCHANGED <<load, holder, letting, Shared, Budgets>>

PollsAgain(c) ==
  /\ call[c].pc = "woken" /\ call[c].t < WaitTimeout
  /\ call' = [call EXCEPT ![c] = Still(c, "polling", 0)]
  /\ UNCHANGED <<flights, flight, load, holder, letting, Shared, Budgets>>

\* The recheck found nothing, the wait is over, or a command failed: the loader runs
\* without the lock.
LeadsAlone(c) ==
  /\ call' = [call EXCEPT ![c] = To(c, "leading")]
  /\ load' = Starts(<<c, "flight">>)
  /\ UNCHANGED <<flights, flight, holder, letting, Shared, hangs, drops>>

FallThrough(c) ==
  /\ \/ call[c].pc = "checking" /\ cache = 0
     \/ call[c].pc = "woken" /\ call[c].t >= WaitTimeout
  /\ LeadsAlone(c) /\ UNCHANGED faults

PollFails(c) ==
  /\ call[c].pc \in {"polling", "checking"} /\ faults < Faults
  /\ LeadsAlone(c) /\ faults' = faults + 1

--------------------------------------------------------------------------------
\* loadAndWrite: the loader reads the source, then the value is written.
Reads(l) ==
  /\ load[l].st = "reading"
  /\ load' = [load EXCEPT ![l] = Loader("writing", source, 0)]
  /\ UNCHANGED <<call, flights, flight, holder, letting, Shared, Budgets>>

\* What becomes of call and flight when its loader is over (or goes on unattended).
Attended(l) == call[l[1]].pc = IF l[2] = "flight" THEN "leading" ELSE "direct"
Rejects(c) == flight[c].waited

Settles(l, out, val) ==
  LET c == l[1]
  IN IF ~Attended(l) THEN UNCHANGED <<call, flights, flight, letting>>
     ELSE /\ call' = [call EXCEPT ![c] = End(c, out, val)]
          /\ IF l[2] = "direct" THEN UNCHANGED <<flights, flight, letting>>
             ELSE /\ flights' = Leaves(c)
                  /\ letting' = Releases(c)
                  /\ flight' = IF flight[c].st # "pending" \/ (out # "value" /\ ~Rejects(c)) THEN flight
                               ELSE Result(c, out, val)

NotWritten(l) == cache
Written(l) == IF WritesShared THEN load[l].val ELSE cache
Writes(l) ==
  /\ load[l].st = "writing"
  /\ load' = Ends(l, "over")
  /\ Settles(l, "value", load[l].val)
  /\ cache' = Written(l)
  /\ UNCHANGED <<holder, lock, source, Budgets>>

\* The loader throws, or the write does.
Throws(l) ==
  /\ load[l].st \in {"reading", "writing"} /\ faults < Faults
  /\ load' = Ends(l, "over")
  /\ Settles(l, "error", 0)
  /\ faults' = faults + 1
  /\ UNCHANGED <<holder, Shared, hangs, drops>>

Hang(l) ==
  /\ load[l].st = "reading" /\ hangs < Hangs
  /\ load' = Ends(l, "hung")
  /\ hangs' = hangs + 1
  /\ UNCHANGED <<call, flights, flight, holder, letting, Shared, faults, drops>>

\* executeLoader: the timer won; the loader goes on and its result is not waited for.
TimesOut(c) == call[c].t >= LockTimeout
LeaderTimeout(c) ==
  /\ call[c].pc = "leading" /\ TimesOut(c)
  /\ flights' = Leaves(c)
  /\ letting' = Releases(c)
  /\ flight' = IF flight[c].st = "pending" /\ Rejects(c) THEN Result(c, "timeout", 0) ELSE flight
  /\ AfterStampedeError(c)
  /\ UNCHANGED <<holder, Shared, Budgets>>

\* RELEASE_LOCK_SCRIPT, which may get lost.
ReleaseExec(c) ==
  /\ c \in letting
  /\ letting' = letting \ {c}
  /\ lock' = IF lock.by = c THEN Free ELSE lock
  /\ UNCHANGED <<call, flights, flight, load, holder, cache, source, Budgets>>

ReleaseLost(c) ==
  /\ c \in letting /\ faults < Faults
  /\ letting' = letting \ {c} /\ faults' = faults + 1
  /\ UNCHANGED <<call, flights, flight, load, holder, Shared, hangs, drops>>

\* waitForFlight.
Answered(c) ==
  /\ call[c].pc = "joined"
  /\ \/ /\ flight[call[c].on].st = "value"
        /\ call' = [call EXCEPT ![c] = End(c, "value", flight[call[c].on].val)] /\ UNCHANGED load
     \/ /\ flight[call[c].on].st \in {"error", "cancelled"}
        /\ call' = [call EXCEPT ![c] = End(c, "error", 0)] /\ UNCHANGED load
     \/ flight[call[c].on].st = "timeout" /\ AfterStampedeError(c)
  /\ UNCHANGED <<flights, flight, holder, letting, Shared, Budgets>>

WaitsOut(c) == call[c].t >= WaitTimeout
WaiterTimeout(c) ==
  /\ call[c].pc = "joined" /\ flight[call[c].on].st = "pending" /\ WaitsOut(c)
  /\ AfterStampedeError(c)
  /\ UNCHANGED <<flights, flight, holder, letting, Shared, Budgets>>

\* clearKey().
ClearKey(p) ==
  /\ flights[p] # None /\ drops < Drops
  /\ drops' = drops + 1
  /\ flight' = Result(flights[p], "cancelled", 0)
  /\ flights' = [flights EXCEPT ![p] = None]
  /\ UNCHANGED <<call, load, holder, letting, Shared, faults, hangs>>

--------------------------------------------------------------------------------
\* The data changes; the cached value is invalidated, deleted or expires.
Mutate ==
  /\ source < Versions /\ source' = source + 1
  /\ UNCHANGED <<call, flights, flight, load, holder, letting, lock, cache, Budgets>>

Drop ==
  /\ cache # 0 /\ drops < Drops
  /\ cache' = 0 /\ drops' = drops + 1
  /\ UNCHANGED <<call, flights, flight, load, holder, letting, lock, source, faults, hangs>>

\* Commands are answered and loaders return within their bounds; a command of the poll
\* may take what is left of the wait. What is settled is taken up before time passes.
MayPass ==
  /\ \A c \in Call : /\ call[c].pc \in {"getting", "got", "locking", "locked", "refused"} => call[c].t < MaxDelay
                     /\ call[c].pc \in {"polling", "checking"} => MaxDelay > 0 /\ call[c].t < WaitTimeout + MaxDelay
                     /\ call[c].pc # "woken"
                     /\ call[c].pc = "leading" => call[c].t < LockTimeout
                     /\ call[c].pc = "joined" => call[c].t < WaitTimeout /\ flight[call[c].on].st = "pending"
  /\ \A l \in Load : /\ load[l].st = "reading" => load[l].t < MaxLoad
                     /\ load[l].st = "writing" => load[l].t < MaxDelay

Aged(c) ==
  [st |-> flight[c].st, val |-> flight[c].val, waited |-> flight[c].waited, held |-> flight[c].held,
   age |-> flight[c].age + 1]
Waiting(c) == call[c].pc \notin {"new", "direct", "done"}
Tick ==
  /\ MayPass
  /\ call' = [c \in Call |-> IF ~Waiting(c) THEN call[c]
                ELSE At(IF call[c].pc = "sleeping" THEN "woken" ELSE call[c].pc, call[c].t + 1, call[c].val, call[c].on)]
  /\ load' = [l \in Load |-> IF load[l].st \notin {"reading", "writing"} THEN load[l]
                             ELSE Loader(load[l].st, load[l].val, load[l].t + 1)]
  /\ lock' = IF lock.left > 1 THEN [by |-> lock.by, left |-> lock.left - 1] ELSE Free
  /\ flight' = [c \in Call |-> IF flights[Home[c]] = c /\ flight[c].age <= LockTimeout
                                THEN Aged(c) ELSE flight[c]]
  /\ UNCHANGED <<flights, holder, letting, cache, source, Budgets>>

Steps(c) ==
  \/ GetExec(c) \/ Hit(c) \/ Join(c) \/ Fly(c) \/ LockExec(c) \/ Locked(c) \/ Refused(c)
  \/ Poll(c) \/ PollsAgain(c) \/ Recheck(c) \/ FallThrough(c) \/ LeaderTimeout(c) \/ Answered(c) \/ WaiterTimeout(c)

Next ==
  \/ \E c \in Call : Begin(c) \/ Steps(c) \/ GetFails(c) \/ LockFails(c) \/ PollFails(c) \/ ReleaseExec(c) \/ ReleaseLost(c)
  \/ \E l \in Load : Reads(l) \/ Writes(l) \/ Throws(l) \/ Hang(l)
  \/ \E p \in Process : ClearKey(p)
  \/ Mutate \/ Drop \/ Tick

Spec == Init /\ [][Next]_vars

--------------------------------------------------------------------------------
Cleared == \E c \in Call : flight[c].st = "cancelled"

\* No failure, no hanging loader, no deletion and no clearKey() so far.
Smooth == faults = 0 /\ hangs = 0 /\ drops = 0

\* A process leads one load of the key at a time: whoever finds a flight in the map
\* joins it, from before the lock is asked for until after the value is written.
OneLeaderPerProcess ==
  ~Cleared => \A c, d \in Call :
    c # d /\ Home[c] = Home[d] /\ call[c].pc = "leading" => call[d].pc # "leading"

\* "A finished flight is NEVER served to later calls": the flight in the map has no
\* result yet, and it is that of a call still at work.
SettledFlightLeaves ==
  \A p \in Process : flights[p] # None =>
    /\ flight[flights[p]].st = "pending"
    /\ call[flights[p]].pc \notin {"direct", "done"}

\* "so the write is covered by the lock": while loads are shorter than the lock's time
\* to live, what is written was loaded by the call that holds the lock at that moment.
WriteCovered ==
  [][Smooth' => \A l \in Load : load[l].st = "writing" /\ load'[l].st = "over" => lock.by = l[1]]_vars

\* The call that waited for the lock to clear finds the value: it never loads itself.
FollowerFinds ==
  [][Smooth' => \A c \in Call :
       call[c].pc = "checking" /\ call'[c].pc # "checking" => call'[c].pc = "done"]_vars

\* Nor is a newer version in the cache overwritten by an older one.
CacheNeverGoesBack == [][Smooth' => cache' >= cache]_vars

\* What is checked as one: the flights of a process lead one load each and are left ...
FlightsSound == TypeOK /\ OneLeaderPerProcess /\ SettledFlightLeaves

\* ... and what is written is covered by the lock, found by those who wait, and never older.
LoadsCovered == WriteCovered /\ FollowerFinds /\ CacheNeverGoesBack
================================================================================
