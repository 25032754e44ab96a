---------------------------- MODULE Stampede_proofs ----------------------------
(* Proofs about Stampede. The flights of a process are sound whatever times out, fails,   *)
(* hangs or is cleared (SoundInv). While nothing fails, and commands are faster than a       *)
(* tick and loads than the lock, one call at a time loads under the lock (SmoothInv). And    *)
(* about LocalCache: the removals of mode l1-only are final (LocalInv).                      *)
EXTENDS Stampede, LocalCache, FiniteSetTheorems, SequenceTheorems, TLAPS

\* The calls whose flight is under way.
Flying == {"locking", "locked", "refused", "polling", "checking", "sleeping", "woken", "leading"}
Unborn == {"new", "getting", "got"}

\* A wait ends at its deadline: what TypeOK says of the times, phase by phase.
InTime(x) ==
  /\ x.pc \in {"getting", "got", "locking", "locked", "refused"} => x.t <= MaxDelay
  /\ x.pc \in {"polling", "checking", "sleeping"} => x.t <= WaitTimeout + MaxDelay
  /\ x.pc = "leading" => x.t <= LockTimeout
  /\ x.pc = "joined" => x.t <= WaitTimeout /\ x.on \in Call
Paced == \A c \in Call : InTime(call[c])
Typed == TypeOK /\ Paced

\* A call that has no flight yet has none, the one in the map is under way, and as long
\* as clearKey() took none out of the map, whoever flies is in it.
Fresh == \A c \in Call : call[c].pc \in Unborn => flight[c].st = "none"
InMap ==
  \A p \in Process : flights[p] # None =>
    Home[flights[p]] = p /\ flight[flights[p]].st = "pending" /\ call[flights[p]].pc \in Flying
Registered == ~Cleared => \A c \in Call : call[c].pc \in Flying => flights[Home[c]] = c

FlightInv == Fresh /\ InMap /\ Registered

SoundInv == Typed /\ FlightInv

--------------------------------------------------------------------------------
Pollers == {"refused", "polling", "checking", "sleeping", "woken"}
LoadOf(c) == load[<<c, "flight">>]
Longest == MaxLoad + LockTtl

\* Loads and flights are where their calls are: nobody loads without a lock.
LoadsFit ==
  \A c \in Call :
    /\ call[c].pc # "direct" /\ load[<<c, "direct">>].st = "none"
    /\ call[c].pc = "leading" <=> LoadOf(c).st \in {"reading", "writing"}
    /\ LoadOf(c).st \in {"none", "reading", "writing", "over"}

\* The lock is held by the call that loads, as long as it loads.
LockFits ==
  /\ \A c \in Call : /\ call[c].pc = "leading" =>
                          /\ lock.by = c /\ lock.left + call[c].t = LockTtl /\ call[c].t <= MaxLoad
                          /\ LoadOf(c).st = "reading" => LoadOf(c).t = call[c].t
                     /\ call[c].pc = "locked" => lock.by = c /\ lock.left = LockTtl
                     /\ c \in letting => call[c].pc = "done"
  /\ lock.by # None => call[lock.by].pc \in {"locked", "leading", "done"}

\* What is written next is no older than what is cached.
ValuesFit ==
  /\ cache <= source
  /\ \A c \in Call : LoadOf(c).st = "writing" => LoadOf(c).val >= cache /\ LoadOf(c).val \in 1..source

\* Without a cached value no call is over.
NothingYet ==
  cache = 0 => \A c \in Call : /\ call[c].pc # "done" /\ flight[c].st # "value"
                               /\ call[c].pc = "got" => call[c].val = 0
                               /\ call[c].pc \in Pollers => lock.by # None /\ call[c].pc # "checking"

\* Somebody read a miss and may still ask for the lock.
Asking == \E d \in Call : call[d].pc = "locking" \/ (call[d].pc = "got" /\ call[d].val = 0)

\* A call that waits for the lock finds it free before its wait is over.
WaitsEnd ==
  \A c \in Call : call[c].pc \in Pollers =>
    /\ call[c].t <= Longest
    /\ call[c].pc = "sleeping" => call[c].t < Longest
    /\ lock.by # None => lock.left + call[c].t <= Longest
    /\ cache = 0 => lock.left + call[c].t <= LockTtl
    /\ Asking => call[c].t <= MaxLoad

\* Flights are as old as the wait of their calls, and nobody waits longer for them.
AgesFit ==
  \A c \in Call :
    /\ flight[c].st \in {"none", "pending", "value"}
    /\ call[c].pc \in Unborn => flight[c].age = 0
    /\ flight[c].st = "pending" => flights[Home[c]] = c /\ flight[c].age <= call[c].t
    /\ call[c].pc = "joined" =>
         /\ flight[call[c].on].st \in {"pending", "value"}
         /\ flight[call[c].on].st = "pending" => call[c].t <= call[call[c].on].t

SmoothInv == LoadsFit /\ LockFits /\ ValuesFit /\ NothingYet /\ WaitsEnd /\ AgesFit
SmoothSound == Smooth => SmoothInv

\* Commands are answered before a tick has passed; a loader returns before the lock
\* expires, and two locks in a row are over before a wait for them is.
Timely == MaxDelay = 0 /\ MaxLoad < LockTimeout /\ LockTimeout + MaxLoad < WaitTimeout /\ WritesShared

--------------------------------------------------------------------------------
\* The records of the state and their parts.
LEMMA Built ==
  /\ \A pc \in Phases, t \in Time, val \in Version, on \in Call \cup {None} : At(pc, t, val, on) \in CallType
  /\ \A c \in Call, out \in Outcomes, val \in Version : End(c, out, val) \in CallType
  /\ \A st \in {"none", "reading", "writing", "over", "hung"}, val \in Version, t \in Nat : Loader(st, val, t) \in LoadType
BY StampedeAssumption DEF At, End, CallType, Phases, Outcomes, Loader, LoadType, Version, Time

LEMMA Parts ==
  /\ \A x \in CallType : /\ x.pc \in Phases /\ x.t \in Time /\ x.val \in Version
                         /\ x.out \in Outcomes /\ x.on \in Call \cup {None}
  /\ \A x \in LoadType : x.st \in {"none", "reading", "writing", "over", "hung"} /\ x.val \in Version /\ x.t \in Nat
  /\ \A x \in FlightType : /\ x.st \in {"none", "pending", "value", "timeout", "error", "cancelled"} /\ x.val \in Version
                           /\ x.waited \in BOOLEAN /\ x.held \in BOOLEAN /\ x.age \in 0..(LockTimeout + 1)
BY DEF CallType, LoadType, FlightType

LEMMA Numbers ==
  /\ 0 \in Time /\ 0 \in Version /\ Time \subseteq Nat /\ Version \subseteq Nat
  /\ LockTtl \in Nat \ {0} /\ WaitTimeout \in Nat \ {0} /\ MaxDelay \in Nat /\ MaxLoad \in Nat
  /\ None \notin Call /\ \A c \in Call : Home[c] \in Process
BY StampedeAssumption DEF Time, Version, LockTtl

LEMMA FlightChanges ==
  ASSUME TypeOK, NEW c \in Call
  PROVE  /\ \A st \in {"none", "pending", "value", "timeout", "error", "cancelled"}, val \in Version :
              Result(c, st, val) \in [Call -> FlightType]
         /\ \A held \in BOOLEAN : Counted(c, held) \in [Call -> FlightType]
         /\ flight[c].age <= LockTimeout => Aged(c) \in FlightType
BY Parts, StampedeAssumption DEF TypeOK, FlightType, Result, Counted, Aged, Version

LEMMA LoadChanges ==
  ASSUME TypeOK
  PROVE  /\ \A c \in Call, k \in {"flight", "direct"} : Starts(<<c, k>>) \in [Load -> LoadType]
         /\ \A l \in Load, st \in {"over", "hung"} : Ends(l, st) \in [Load -> LoadType]
<1>1. \A l \in Load : load[l] \in LoadType
  BY DEF TypeOK
<1> QED BY <1>1, Built, Parts, Numbers DEF TypeOK, Starts, Ends

--------------------------------------------------------------------------------
\* Every step keeps the types. What a call becomes fits its type and its pace.
Fits(x) == x \in CallType /\ InTime(x)

LEMMA Fitting ==
  /\ \A pc \in Phases, val \in Version : pc # "joined" => Fits(At(pc, 0, val, None))
  /\ \A d \in Call, val \in Version : Fits(At("joined", 0, val, d))
  /\ \A c \in Call, out \in Outcomes, val \in Version : Fits(End(c, out, val))
<1>1. \A pc \in Phases, val \in Version : pc # "joined" => InTime(At(pc, 0, val, None))
  BY Numbers, StampedeAssumption DEF InTime, At, LockTtl
<1>2. \A d \in Call, val \in Version : InTime(At("joined", 0, val, d))
  BY Numbers DEF InTime, At
<1>3. \A c \in Call, out \in Outcomes, val \in Version : InTime(End(c, out, val))
  BY DEF InTime, End
<1> QED BY <1>1, <1>2, <1>3, Built, Numbers DEF Fits, Phases

\* A call that goes on in its wait may wait as long as in the phase it leaves.
LEMMA StillFits ==
  ASSUME Typed, NEW c \in Call, NEW pc \in Phases \ {"joined", "leading"}, NEW val \in Version,
         \/ call[c].pc \in {"getting", "got", "locking", "locked", "refused"}
         \/ /\ call[c].pc \in {"polling", "checking", "sleeping"} \/ (call[c].pc = "woken" /\ call[c].t < WaitTimeout)
            /\ pc \in {"polling", "checking", "sleeping"}
  PROVE  Fits(Still(c, pc, val))
<1>1. call[c] \in CallType /\ InTime(call[c])
  BY DEF Typed, TypeOK, Paced
<1>2. call[c].t \in Time /\ call[c].t \in Nat
  BY <1>1, Parts, Numbers
<1>3. Still(c, pc, val) \in CallType
  BY <1>2, Built DEF Still
<1>4. InTime(Still(c, pc, val))
  BY <1>1, <1>2, Numbers DEF InTime, Still, At
<1> QED BY <1>3, <1>4 DEF Fits

LEMMA CallTyped ==
  ASSUME Typed, NEW c \in Call, NEW x, Fits(x), call' = [call EXCEPT ![c] = x]
  PROVE  call' \in [Call -> CallType] /\ Paced'
<1>1. \A d \in Call : call'[d] = IF d = c THEN x ELSE call[d]
  BY DEF Typed, TypeOK
<1>2. \A d \in Call : InTime(call'[d])
  BY <1>1 DEF Typed, Paced, Fits
<1> QED BY <1>1, <1>2 DEF Typed, TypeOK, Paced, Fits

LEMMA GetTyped ==
  ASSUME Typed, NEW c \in Call, Begin(c) \/ GetExec(c) \/ GetFails(c) \/ Hit(c)
  PROVE  Typed'
<1>1. call[c] \in CallType /\ {"getting", "got"} \subseteq Phases /\ "value" \in Outcomes /\ cache \in Version
  BY DEF Typed, TypeOK, Phases, Outcomes
<1>2. PICK x : Fits(x) /\ call' = [call EXCEPT ![c] = x]
  <2>1. Fits(To(c, "getting")) /\ Fits(End(c, "value", call[c].val))
    BY <1>1, Fitting, Parts DEF To
  <2>2. call[c].pc = "getting" => Fits(Still(c, "got", cache)) /\ Fits(Still(c, "got", 0))
    BY <1>1, StillFits, Numbers
  <2> QED BY <2>1, <2>2 DEF Begin, GetExec, GetFails, Hit
<1>3. faults' \in 0..Faults
  BY StampedeAssumption DEF Typed, TypeOK, Begin, GetExec, GetFails, Hit, Budgets
<1>4. call' \in [Call -> CallType] /\ Paced'
  BY <1>2, CallTyped
<1> QED BY <1>3, <1>4 DEF Typed, TypeOK, Begin, GetExec, GetFails, Hit, Shared, Budgets

LEMMA ErrorTyped ==
  ASSUME Typed, NEW c \in Call, AfterStampedeError(c)
  PROVE  call' \in [Call -> CallType] /\ Paced' /\ load' \in [Load -> LoadType]
<1>1. call[c].val \in Version /\ "direct" \in Phases /\ {"null", "timeout"} \subseteq Outcomes
  BY Parts DEF Typed, TypeOK, Phases, Outcomes
<1>2. Fits(To(c, "direct")) /\ Fits(End(c, "null", 0)) /\ Fits(End(c, "timeout", 0))
  BY <1>1, Fitting, Numbers DEF To
<1>3. call' \in [Call -> CallType] /\ Paced'
  BY <1>2, CallTyped DEF AfterStampedeError
<1>4. load' \in [Load -> LoadType]
  BY LoadChanges DEF AfterStampedeError, Typed, TypeOK
<1> QED BY <1>3, <1>4

LEMMA JoinTyped ==
  ASSUME Typed, NEW c \in Call, Join(c)
  PROVE  Typed'
<1> DEFINE d == flights[Home[c]]
<1>1. d \in Call /\ flight[d].held \in BOOLEAN
  BY Parts, StampedeAssumption DEF Typed, TypeOK, Join, Joins
<1>2. Fits(At("joined", 0, 0, d))
  BY <1>1, Fitting, Numbers
<1>3. call' \in [Call -> CallType] /\ Paced' /\ load' \in [Load -> LoadType]
  <2>1. CASE AfterStampedeError(c)
    BY <2>1, ErrorTyped
  <2>2. CASE call' = [call EXCEPT ![c] = At("joined", 0, 0, d)] /\ UNCHANGED load
    BY <2>2, <1>2, CallTyped DEF Typed, TypeOK
  <2> QED BY <2>1, <2>2 DEF Join
<1>4. flight' \in [Call -> FlightType]
  BY <1>1, FlightChanges DEF Join, Typed
<1> QED BY <1>3, <1>4 DEF Typed, TypeOK, Join, Shared, Budgets

LEMMA FlyTyped ==
  ASSUME Typed, NEW c \in Call, Fly(c)
  PROVE  Typed'
<1>1. Fits(To(c, "locking"))
  BY Fitting, Parts DEF Typed, TypeOK, To, Phases
<1>2. call' \in [Call -> CallType] /\ Paced'
  BY <1>1, CallTyped DEF Fly
<1>3. flight' \in [Call -> FlightType]
  BY FlightChanges, Numbers DEF Fly, Typed
<1>4. flights' \in [Process -> Call \cup {None}]
  BY DEF Fly, Typed, TypeOK
<1> QED BY <1>2, <1>3, <1>4 DEF Typed, TypeOK, Fly, Shared, Budgets

LEMMA LockTyped ==
  ASSUME Typed, NEW c \in Call, LockExec(c) \/ LockFails(c) \/ Locked(c) \/ Refused(c)
  PROVE  Typed'
<1>1. call[c].val \in Version /\ {"polling", "leading", "locked", "refused"} \subseteq Phases
  BY Parts DEF Typed, TypeOK, Phases
<1>2. Fits(To(c, "polling")) /\ Fits(To(c, "leading"))
  BY <1>1, Fitting DEF To
<1>3. call[c].pc = "locking" => Fits(Still(c, "locked", 0)) /\ Fits(Still(c, "refused", 0))
  BY <1>1, StillFits, Numbers
<1>4. call' \in [Call -> CallType] /\ Paced'
  BY <1>2, <1>3, CallTyped DEF LockExec, LockFails, Locked, Refused
<1>5. lock' \in [by : Call, left : 1..LockTtl] \cup {Free} /\ faults' \in 0..Faults
  BY Numbers, StampedeAssumption DEF Typed, TypeOK, LockExec, LockFails, Locked, Refused, Shared, Budgets
<1>6. load' \in [Load -> LoadType]
  BY LoadChanges DEF Typed, TypeOK, LockExec, LockFails, Locked, Refused
<1> QED BY <1>4, <1>5, <1>6 DEF Typed, TypeOK, LockExec, LockFails, Locked, Refused, Shared, Budgets

LEMMA PollTyped ==
  ASSUME Typed, NEW c \in Call, Poll(c) \/ PollsAgain(c) \/ FallThrough(c) \/ PollFails(c)
  PROVE  Typed'
<1>1. call[c].val \in Version /\ {"polling", "leading", "checking", "sleeping"} \subseteq Phases
  BY Parts DEF Typed, TypeOK, Phases
<1>2. Fits(To(c, "leading"))
  BY <1>1, Fitting DEF To
<1>3. call[c].pc = "polling" => Fits(Still(c, "checking", 0)) /\ Fits(Still(c, "sleeping", 0))
  BY <1>1, StillFits, Numbers
<1>4. call[c].pc = "woken" /\ call[c].t < WaitTimeout => Fits(Still(c, "polling", 0))
  BY <1>1, StillFits, Numbers
<1>5. call' \in [Call -> CallType] /\ Paced'
  BY <1>2, <1>3, <1>4, CallTyped DEF Poll, PollsAgain, FallThrough, PollFails, LeadsAlone
<1>6. load' \in [Load -> LoadType]
  <2>1. CASE load' = Starts(<<c, "flight">>)
    BY <2>1, LoadChanges DEF Typed
  <2>2. CASE UNCHANGED load
    BY <2>2 DEF Typed, TypeOK
  <2> QED BY <2>1, <2>2 DEF Poll, PollsAgain, FallThrough, PollFails, LeadsAlone
<1>7. faults' \in 0..Faults
  BY StampedeAssumption DEF Typed, TypeOK, Poll, PollsAgain, FallThrough, PollFails, LeadsAlone, Budgets
<1> QED BY <1>5, <1>6, <1>7 DEF Typed, TypeOK, Poll, PollsAgain, FallThrough, PollFails, LeadsAlone, Shared, Budgets
LEMMA SettlesTyped ==
  ASSUME Typed, NEW l \in Load, NEW out \in {"value", "error"}, NEW val \in Version, Settles(l, out, val)
  PROVE  /\ call' \in [Call -> CallType] /\ Paced' /\ flights' \in [Process -> Call \cup {None}]
         /\ flight' \in [Call -> FlightType] /\ letting' \subseteq Call
<1> DEFINE c == l[1]
<1>1. c \in Call /\ out \in Outcomes
  BY DEF Load, Outcomes
<1>2. CASE ~Attended(l)
  BY <1>2 DEF Settles, Typed, TypeOK, Paced
<1>3. CASE Attended(l)
  <2>1. call' \in [Call -> CallType] /\ Paced'
    BY <1>1, <1>3, Fitting, CallTyped DEF Settles
  <2>2. flights' \in [Process -> Call \cup {None}]
    BY <1>3 DEF Settles, Typed, TypeOK, Leaves
  <2>3. flight' \in [Call -> FlightType]
    BY <1>1, <1>3, FlightChanges DEF Settles, Typed, TypeOK
  <2>4. letting' \subseteq Call
    BY <1>1, <1>3 DEF Settles, Typed, TypeOK, Releases
  <2> QED BY <2>1, <2>2, <2>3, <2>4
<1> QED BY <1>2, <1>3

LEMMA LoadTyped ==
  ASSUME Typed, NEW l \in Load, Reads(l) \/ Writes(l) \/ Throws(l) \/ Hang(l)
  PROVE  Typed'
<1>1. load[l] \in LoadType /\ load[l].val \in Version /\ source \in Version
  BY Parts, StampedeAssumption DEF Typed, TypeOK, Version
<1>2. load' \in [Load -> LoadType]
  <2>1. Loader("writing", source, 0) \in LoadType
    BY <1>1, Built
  <2>2. CASE Reads(l)
    BY <2>1, <2>2 DEF Reads, Typed, TypeOK
  <2>3. CASE ~Reads(l)
    BY <2>3, LoadChanges DEF Typed, Writes, Throws, Hang
  <2> QED BY <2>2, <2>3
<1>3. /\ call' \in [Call -> CallType] /\ Paced' /\ flights' \in [Process -> Call \cup {None}]
      /\ flight' \in [Call -> FlightType] /\ letting' \subseteq Call
  <2>1. CASE UNCHANGED <<call, flights, flight, letting>>
    BY <2>1 DEF Typed, TypeOK, Paced
  <2>2. CASE Settles(l, "value", load[l].val) \/ Settles(l, "error", 0)
    BY <2>2, <1>1, SettlesTyped, Numbers
  <2> QED BY <2>1, <2>2 DEF Reads, Writes, Throws, Hang
<1>4. cache' \in Version /\ lock' = lock /\ source' = source /\ holder' = holder /\ drops' = drops
  BY <1>1 DEF Reads, Writes, Throws, Hang, Written, Typed, TypeOK, Shared, Budgets
<1>5. faults' \in 0..Faults /\ hangs' \in 0..Hangs
  BY StampedeAssumption DEF Typed, TypeOK, Reads, Writes, Throws, Hang, Budgets
<1> QED BY <1>2, <1>3, <1>4, <1>5 DEF Typed, TypeOK

LEMMA EndTyped ==
  ASSUME Typed, NEW c \in Call, Recheck(c) \/ LeaderTimeout(c) \/ Answered(c) \/ WaiterTimeout(c)
  PROVE  Typed'
<1>1. {"value", "error"} \subseteq Outcomes /\ cache \in Version
  BY DEF Typed, TypeOK, Outcomes
<1>2. flights' \in [Process -> Call \cup {None}] /\ letting' \subseteq Call
  BY DEF Typed, TypeOK, Recheck, LeaderTimeout, Answered, WaiterTimeout, Leaves, Releases
<1>2a. flight' \in [Call -> FlightType]
  BY <1>1, FlightChanges, Numbers DEF Typed, TypeOK, Recheck, LeaderTimeout, Answered, WaiterTimeout
<1>3. call' \in [Call -> CallType] /\ Paced' /\ load' \in [Load -> LoadType]
  <2>1. CASE AfterStampedeError(c)
    BY <2>1, ErrorTyped
  <2>2. CASE Recheck(c)
    BY <2>2, <1>1, Fitting, CallTyped DEF Recheck, Typed, TypeOK
  <2>3. CASE Answered(c) /\ ~AfterStampedeError(c)
    <3>1. flight[call[c].on].val \in Version
      BY <2>3, Parts DEF Answered, Typed, TypeOK, Paced, InTime
    <3>2. Fits(End(c, "value", flight[call[c].on].val)) /\ Fits(End(c, "error", 0))
      BY <3>1, <1>1, Fitting, Numbers
    <3> QED BY <2>3, <3>2, CallTyped DEF Answered, Typed, TypeOK
  <2> QED BY <2>1, <2>2, <2>3 DEF LeaderTimeout, WaiterTimeout
<1> QED BY <1>2, <1>2a, <1>3 DEF Typed, TypeOK, Recheck, LeaderTimeout, Answered, WaiterTimeout, Shared, Budgets

LEMMA OtherTyped ==
  ASSUME Typed, \/ \E c \in Call : ReleaseExec(c) \/ ReleaseLost(c)
                \/ \E p \in Process : ClearKey(p)
                \/ Mutate \/ Drop
  PROVE  Typed'
<1>1. flight' \in [Call -> FlightType]
  BY FlightChanges, Numbers DEF Typed, TypeOK, ReleaseExec, ReleaseLost, ClearKey, Mutate, Drop
<1>2. /\ lock' \in [by : Call, left : 1..LockTtl] \cup {Free}
      /\ faults' \in 0..Faults /\ drops' \in 0..Drops /\ hangs' \in 0..Hangs
      /\ source' \in 1..Versions /\ cache' \in Version
  BY StampedeAssumption
  DEF Typed, TypeOK, ReleaseExec, ReleaseLost, ClearKey, Mutate, Drop, Shared, Budgets, Version
<1>3. flights' \in [Process -> Call \cup {None}]
  BY DEF Typed, TypeOK, ReleaseExec, ReleaseLost, ClearKey, Mutate, Drop
<1>4. letting' \subseteq Call /\ UNCHANGED <<call, load, holder>>
  BY DEF Typed, TypeOK, ReleaseExec, ReleaseLost, ClearKey, Mutate, Drop
<1> QED BY <1>1, <1>2, <1>3, <1>4 DEF Typed, TypeOK, Paced

LEMMA TickTyped ==
  ASSUME Typed, Tick
  PROVE  Typed'
<1>1. ASSUME NEW c \in Call  PROVE call'[c] \in CallType /\ InTime(call'[c])
  <2> DEFINE x == call[c]
  <2>1. x \in CallType /\ InTime(x) /\ x.t \in Nat /\ x.pc \in Phases /\ x.val \in Version /\ x.on \in Call \cup {None}
    BY Parts, Numbers DEF Typed, TypeOK, Paced
  <2>2. CASE ~Waiting(c)
    BY <2>1, <2>2 DEF Tick
  <2>3. CASE Waiting(c)
    <3> DEFINE pc == IF x.pc = "sleeping" THEN "woken" ELSE x.pc
    <3>1. call'[c] = At(pc, x.t + 1, x.val, x.on)
      BY <2>3 DEF Tick
    <3>2. /\ x.pc \in {"getting", "got", "locking", "locked", "refused"} => x.t < MaxDelay
          /\ x.pc \in {"polling", "checking"} => x.t < WaitTimeout + MaxDelay
          /\ x.pc # "woken"
          /\ x.pc = "leading" => x.t < LockTimeout
          /\ x.pc = "joined" => x.t < WaitTimeout
      BY DEF Tick, MayPass
    <3>3. /\ x.pc \in {"getting", "got", "locking", "locked", "refused", "polling", "checking", "sleeping",
                        "leading", "joined"}
          /\ LockTimeout \in Nat \ {0}
      BY <2>1, <2>3, <3>2, StampedeAssumption DEF Waiting, Phases
    <3>4. x.t + 1 \in Time
      BY <2>1, <3>2, <3>3, Numbers DEF Time, InTime
    <3>5. InTime(At(pc, x.t + 1, x.val, x.on))
      BY <2>1, <3>2, <3>3, Numbers DEF InTime, At
    <3> HIDE DEF x
    <3>6. pc \in Phases
      BY <2>1 DEF Phases
    <3> QED BY <2>1, <3>1, <3>4, <3>5, <3>6, Built
  <2> QED BY <2>2, <2>3
<1>2. call' \in [Call -> CallType] /\ Paced'
  BY <1>1 DEF Tick, Paced
<1>3. load' \in [Load -> LoadType]
  BY Built, Parts DEF Tick, Typed, TypeOK
<1>4. flight' \in [Call -> FlightType]
  BY FlightChanges DEF Tick, Typed, TypeOK
<1>5. lock' \in [by : Call, left : 1..LockTtl] \cup {Free}
  BY Numbers DEF Tick, Typed, TypeOK, Free
<1> QED BY <1>2, <1>3, <1>4, <1>5 DEF Typed, TypeOK, Tick, Budgets

LEMMA TypedStep ==
  ASSUME Typed, [Next]_vars
  PROVE  Typed'
<1>1. CASE UNCHANGED vars
  BY <1>1 DEF vars, Typed, TypeOK, Paced
<1> QED BY <1>1, GetTyped, JoinTyped, FlyTyped, LockTyped, PollTyped, LoadTyped, EndTyped, OtherTyped, TickTyped
    DEF Next, Steps
--------------------------------------------------------------------------------
\* What the steps mean for the flights: nothing, the end of one, a new one, or clearKey().
Keeps ==
  /\ flights' = flights
  /\ \A d \in Call : /\ flight'[d].st = flight[d].st
                     /\ call'[d].pc \in Flying <=> call[d].pc \in Flying
                     /\ call'[d].pc \in Unborn => call[d].pc \in Unborn

Finishes(c) ==
  /\ flights' = Leaves(c) /\ call[c].pc \in Flying /\ call'[c].pc \in {"direct", "done"}
  /\ flight[c].st = "cancelled" => flight'[c].st = "cancelled"
  /\ \A d \in Call \ {c} : call'[d] = call[d] /\ flight'[d] = flight[d]

LEMMA KeepsFlights ==
  ASSUME FlightInv, Typed, Keeps
  PROVE  FlightInv'
<1>1. Fresh'
  BY DEF FlightInv, Fresh, Keeps
<1>2. InMap'
  BY DEF FlightInv, InMap, Keeps, Typed, TypeOK
<1>3. Registered'
  BY DEF FlightInv, Registered, Keeps, Cleared
<1> QED BY <1>1, <1>2, <1>3 DEF FlightInv

LEMMA FinishesFlights ==
  ASSUME FlightInv, Typed, NEW c \in Call, Finishes(c)
  PROVE  FlightInv'
<1>1. \A p \in Process : flights'[p] = IF p = Home[c] THEN None ELSE flights[p]
  BY DEF Finishes, Leaves, Typed, TypeOK
<1>2. Fresh'
  BY DEF FlightInv, Fresh, Finishes, Unborn
<1>3. InMap'
  BY <1>1 DEF FlightInv, InMap, Finishes, Typed, TypeOK
<1>4. Registered'
  <2>1. SUFFICES ASSUME ~Cleared', NEW d \in Call, call'[d].pc \in Flying  PROVE flights'[Home[d]] = d
    BY DEF Registered
  <2>2. ~Cleared
    BY <2>1 DEF Cleared, Finishes
  <2>3. d # c /\ call[d].pc \in Flying
    BY <2>1 DEF Finishes, Flying
  <2>4. flights[Home[d]] = d /\ flights[Home[c]] = c
    BY <2>2, <2>3 DEF FlightInv, Registered, Finishes
  <2> QED BY <1>1, <2>3, <2>4, Numbers
<1> QED BY <1>2, <1>3, <1>4 DEF FlightInv

LEMMA FlyFlights ==
  ASSUME FlightInv, Typed, NEW c \in Call, Fly(c)
  PROVE  FlightInv'
<1>1. /\ \A p \in Process : flights'[p] = IF p = Home[c] THEN c ELSE flights[p]
      /\ \A d \in Call : call'[d] = IF d = c THEN To(c, "locking") ELSE call[d]
      /\ \A d \in Call : flight'[d].st = IF d = c THEN "pending" ELSE flight[d].st
      /\ To(c, "locking").pc = "locking" /\ call[c].pc = "got" /\ flights[Home[c]] = None
  BY DEF Fly, Typed, TypeOK, Result, To, At, Joins
<1>2. Fresh'
  BY <1>1 DEF FlightInv, Fresh, Unborn
<1>3. InMap'
  BY <1>1 DEF FlightInv, InMap, Flying, Typed, TypeOK
<1>4. Registered'
  <2>1. flight[c].st = "none"
    BY <1>1 DEF FlightInv, Fresh, Unborn
  <2>2. ~Cleared' => ~Cleared
    BY <1>1, <2>1 DEF Cleared
  <2> QED BY <1>1, <2>2, Numbers DEF FlightInv, Registered
<1> QED BY <1>2, <1>3, <1>4 DEF FlightInv

LEMMA ClearFlights ==
  ASSUME FlightInv, Typed, NEW p \in Process, ClearKey(p)
  PROVE  FlightInv'
<1>1. /\ flights[p] \in Call /\ call' = call
      /\ \A q \in Process : flights'[q] = IF q = p THEN None ELSE flights[q]
      /\ \A d \in Call : flight'[d].st = IF d = flights[p] THEN "cancelled" ELSE flight[d].st
  BY DEF ClearKey, Typed, TypeOK, Result
<1>2. call[flights[p]].pc \in Flying /\ Home[flights[p]] = p
  BY <1>1, Numbers DEF FlightInv, InMap
<1>3. Fresh'
  BY <1>1, <1>2 DEF FlightInv, Fresh, Unborn, Flying
<1>4. InMap'
  BY <1>1, <1>2 DEF FlightInv, InMap, Typed, TypeOK
<1>5. Cleared'
  BY <1>1 DEF Cleared
<1> QED BY <1>3, <1>4, <1>5 DEF FlightInv, Registered

LEMMA ErrorEnds ==
  ASSUME Typed, NEW c \in Call, AfterStampedeError(c)
  PROVE  call'[c].pc \in {"direct", "done"} /\ \A d \in Call \ {c} : call'[d] = call[d]
BY DEF AfterStampedeError, Typed, TypeOK, To, End, At

LEMMA CallsKeep ==
  ASSUME Typed, NEW c \in Call,
         \/ Begin(c) \/ GetExec(c) \/ GetFails(c) \/ Hit(c) \/ Join(c) \/ LockExec(c) \/ LockFails(c)
         \/ Locked(c) \/ Refused(c) \/ Poll(c) \/ PollsAgain(c) \/ FallThrough(c) \/ PollFails(c)
         \/ Answered(c) \/ WaiterTimeout(c)
  PROVE  Keeps
<1>1. CASE Begin(c) \/ GetExec(c) \/ GetFails(c) \/ Hit(c)
  BY <1>1 DEF Begin, GetExec, GetFails, Hit, Keeps, Typed, TypeOK, To, Still, End, At, Flying, Unborn
<1>2. CASE Join(c)
  <2>1. flights[Home[c]] \in Call /\ \A d \in Call : flight'[d].st = flight[d].st
    BY <1>2, Numbers DEF Join, Joins, Counted, Typed, TypeOK
  <2>2. /\ call'[c].pc \in {"direct", "done", "joined"}
        /\ \A d \in Call \ {c} : call'[d] = call[d]
    <3>1. CASE AfterStampedeError(c)
      BY <3>1, ErrorEnds
    <3>2. CASE call' = [call EXCEPT ![c] = At("joined", 0, 0, flights[Home[c]])]
      BY <3>2 DEF At, Typed, TypeOK
    <3> QED BY <1>2, <3>1, <3>2 DEF Join
  <2> QED BY <1>2, <2>1, <2>2 DEF Join, Keeps, Flying, Unborn
<1>3. CASE LockExec(c) \/ LockFails(c) \/ Locked(c) \/ Refused(c)
  BY <1>3 DEF LockExec, LockFails, Locked, Refused, Keeps, Typed, TypeOK, To, Still, At, Flying, Unborn
<1>4. CASE Poll(c) \/ PollsAgain(c) \/ FallThrough(c) \/ PollFails(c)
  BY <1>4 DEF Poll, PollsAgain, FallThrough, PollFails, LeadsAlone, Keeps, Typed, TypeOK, To, Still, At, Flying, Unborn
<1>5. CASE Answered(c) \/ WaiterTimeout(c)
  <2>1. call[c].pc = "joined" /\ flights' = flights /\ flight' = flight
    BY <1>5 DEF Answered, WaiterTimeout
  <2>2. call'[c].pc \in {"direct", "done"} /\ \A d \in Call \ {c} : call'[d] = call[d]
    BY <1>5, ErrorEnds DEF Answered, WaiterTimeout, End, Typed, TypeOK
  <2> QED BY <2>1, <2>2 DEF Keeps, Flying, Unborn
<1> QED BY <1>1, <1>2, <1>3, <1>4, <1>5

LEMMA SettlesEnds ==
  ASSUME Typed, NEW l \in Load, NEW out, out # "cancelled", NEW val, Settles(l, out, val)
  PROVE  Keeps \/ Finishes(l[1])
<1> DEFINE c == l[1]
<1>1. c \in Call /\ l[2] \in {"flight", "direct"}
  BY DEF Load
<1>2. CASE ~Attended(l)
  BY <1>2 DEF Settles, Keeps
<1>3. CASE Attended(l) /\ l[2] = "direct"
  BY <1>1, <1>3 DEF Settles, Attended, Keeps, End, Typed, TypeOK, Flying, Unborn
<1>4. CASE Attended(l) /\ l[2] = "flight"
  <2>1. call[c].pc = "leading" /\ call'[c].pc = "done" /\ \A d \in Call \ {c} : call'[d] = call[d]
    BY <1>1, <1>4 DEF Settles, Attended, End, Typed, TypeOK
  <2>2. \A d \in Call \ {c} : flight'[d] = flight[d]
    BY <1>1, <1>4 DEF Settles, Typed, TypeOK, Result
  <2>3. flight[c].st = "cancelled" => flight'[c].st = "cancelled"
    BY <1>1, <1>4 DEF Settles
  <2> QED BY <1>4, <2>1, <2>2, <2>3 DEF Settles, Finishes, Flying
<1> QED BY <1>1, <1>2, <1>3, <1>4

LEMMA FlightStep ==
  ASSUME FlightInv, Typed, [Next]_vars
  PROVE  FlightInv'
<1>1. CASE \/ UNCHANGED vars
           \/ \E c \in Call : ReleaseExec(c) \/ ReleaseLost(c)
           \/ \E l \in Load : Reads(l) \/ Hang(l)
           \/ Mutate \/ Drop
  <2>1. Keeps
    BY <1>1 DEF vars, ReleaseExec, ReleaseLost, Reads, Hang, Mutate, Drop, Keeps
  <2> QED BY <2>1, KeepsFlights
<1>2. ASSUME NEW c \in Call, Recheck(c) \/ LeaderTimeout(c)  PROVE FlightInv'
  <2>1. call[c].pc \in Flying /\ flights' = Leaves(c)
    BY <1>2 DEF Recheck, LeaderTimeout, Flying
  <2>2. call'[c].pc \in {"direct", "done"} /\ \A d \in Call \ {c} : call'[d] = call[d]
    BY <1>2, ErrorEnds DEF Recheck, LeaderTimeout, End, Typed, TypeOK
  <2>3. /\ flight[c].st = "cancelled" => flight'[c].st = "cancelled"
        /\ \A d \in Call \ {c} : flight'[d] = flight[d]
    BY <1>2 DEF Recheck, LeaderTimeout, Result, Typed, TypeOK
  <2> QED BY <2>1, <2>2, <2>3, FinishesFlights DEF Finishes
<1>3. ASSUME NEW l \in Load, Writes(l) \/ Throws(l)  PROVE FlightInv'
  <2>1. l[1] \in Call
    BY DEF Load
  <2>2. Keeps \/ Finishes(l[1])
    BY <1>3, SettlesEnds DEF Writes, Throws
  <2> QED BY <2>1, <2>2, KeepsFlights, FinishesFlights
<1>4. CASE Tick
  <2>1. \A d \in Call : /\ flight'[d].st = flight[d].st
                        /\ call'[d].pc = call[d].pc \/ (call[d].pc = "sleeping" /\ call'[d].pc = "woken")
    BY <1>4 DEF Tick, Aged, At
  <2> QED BY <1>4, <2>1, KeepsFlights DEF Tick, Keeps, Flying, Unborn
<1> QED BY <1>1, <1>2, <1>3, <1>4, CallsKeep, KeepsFlights, FlyFlights, ClearFlights DEF Next, Steps

LEMMA SoundInit == Init => SoundInv
<1> SUFFICES ASSUME Init  PROVE SoundInv
  OBVIOUS
<1>1. TypeOK
  BY StampedeAssumption
  DEF Init, TypeOK, CallType, FlightType, LoadType, Phases, Outcomes, Time, Version
<1>2. Paced
  BY DEF Init, Paced, InTime
<1>3. FlightInv
  BY Numbers DEF Init, FlightInv, Fresh, InMap, Registered, Flying
<1> QED BY <1>1, <1>2, <1>3 DEF SoundInv, Typed

LEMMA SoundInvariant == Spec => []SoundInv
<1>1. SoundInv /\ [Next]_vars => SoundInv'
  BY TypedStep, FlightStep DEF SoundInv
<1> QED BY <1>1, SoundInit, PTL DEF Spec

\* Whatever fails, hangs, times out or is cleared: a process leads one load of a key at a
\* time unless clearKey() let go of it, and the flight that later calls join is one that
\* is still under way (stampede-protection.service.ts, the map of flights and protect()).
THEOREM FlightsStaySound == Spec => []FlightsSound
<1>1. SoundInv => OneLeaderPerProcess
  BY Numbers DEF SoundInv, FlightInv, Registered, OneLeaderPerProcess, Flying
<1>2. SoundInv => SettledFlightLeaves
  BY DEF SoundInv, FlightInv, InMap, SettledFlightLeaves, Flying
<1>3. SoundInv => FlightsSound
  BY <1>1, <1>2 DEF SoundInv, Typed, FlightsSound
<1> QED BY <1>3, SoundInvariant, PTL
--------------------------------------------------------------------------------
\* What the invariant says of a call, in the form the steps need.
Calm == Timely /\ Typed /\ FlightInv /\ SmoothInv

LEMMA CallFacts ==
  ASSUME Typed, NEW c \in Call
  PROVE  /\ call[c].pc \in Phases /\ call[c].t \in Nat /\ call[c].val \in Nat
         /\ call[c].pc = "joined" => call[c].on \in Call
         /\ flight[c].age \in Nat
         /\ MaxDelay = 0 /\ call[c].pc \in {"getting", "got", "locking", "locked", "refused"} => call[c].t = 0
<1>1. call[c] \in CallType /\ InTime(call[c]) /\ flight[c] \in FlightType
  BY DEF Typed, TypeOK, Paced
<1>2. call[c].t \in Nat /\ call[c].val \in Nat /\ call[c].pc \in Phases
  BY <1>1, Parts, Numbers
<1>3. flight[c].age \in Nat
  BY <1>1, StampedeAssumption DEF FlightType
<1> QED BY <1>1, <1>2, <1>3 DEF InTime

LEMMA LoadFacts ==
  ASSUME Typed, NEW l \in Load
  PROVE  load[l].t \in Nat /\ load[l].val \in Nat /\ source \in Nat \ {0} /\ cache \in Nat
<1>1. load[l] \in LoadType /\ cache \in Version /\ source \in 1..Versions
  BY DEF Typed, TypeOK
<1>2. source \in Nat \ {0}
  BY <1>1, StampedeAssumption
<1> QED BY <1>1, <1>2, Parts, Numbers

LEMMA LockFacts ==
  ASSUME Typed
  PROVE  \/ lock = Free /\ lock.by = None /\ lock.left = 0
         \/ lock # Free /\ lock.by \in Call /\ lock.by # None /\ lock.left \in 1..LockTtl /\ lock.left \in Nat
BY Numbers DEF Typed, TypeOK, Free

\* Before the first value is cached, whoever waits has waited no longer than the first load.
LEMMA FirstLoad ==
  ASSUME Calm, cache = 0, NEW c \in Call, call[c].pc \in Pollers
  PROVE  call[c].t <= MaxLoad /\ lock # Free
<1>1. lock.by \in Call /\ lock.left \in Nat /\ lock.left + call[c].t <= LockTtl /\ lock # Free
  BY LockFacts DEF Calm, SmoothInv, NothingYet, WaitsEnd
<1>2. call[lock.by].pc \in {"locked", "leading"}
  BY <1>1, LockFacts DEF Calm, SmoothInv, NothingYet, LockFits
<1>3. lock.left = LockTtl \/ \E n \in Nat : n <= MaxLoad /\ lock.left + n = LockTtl
  BY <1>1, <1>2, CallFacts DEF Calm, SmoothInv, LockFits
<1> QED BY <1>1, <1>3, CallFacts, Numbers DEF Calm

\* The calls that answer from elsewhere give up on nobody.
LEMMA NobodyGivesUp ==
  ASSUME Calm, NEW c \in Call
  PROVE  /\ ~LeaderTimeout(c) /\ ~FallThrough(c) /\ ~WaiterTimeout(c)
         /\ Join(c) => flight[flights[Home[c]]].age <= LockTimeout
<1>1. ~LeaderTimeout(c)
  BY CallFacts, Numbers, StampedeAssumption DEF Calm, Timely, SmoothInv, LockFits, LeaderTimeout, TimesOut
<1>2. ~FallThrough(c)
  BY CallFacts, Numbers, StampedeAssumption
  DEF Calm, Timely, SmoothInv, NothingYet, WaitsEnd, FallThrough, Pollers, Longest, LockTtl
<1>3. \A d \in Call : call[d].pc \in Flying => call[d].t <= Longest /\ (Asking => call[d].t <= MaxLoad)
  <2> TAKE d \in Call
  <2>1. CASE call[d].pc \in Pollers
    BY <2>1 DEF Calm, SmoothInv, WaitsEnd
  <2>2. CASE call[d].pc = "leading"
    BY <2>2, CallFacts, Numbers DEF Calm, SmoothInv, LockFits, Longest
  <2>3. CASE call[d].pc \in {"locking", "locked"}
    BY <2>3, CallFacts, Numbers DEF Calm, Timely, Longest
  <2> QED BY <2>1, <2>2, <2>3 DEF Flying, Pollers
<1>4. ~WaiterTimeout(c)
  <2>1. SUFFICES ASSUME WaiterTimeout(c)  PROVE FALSE
    OBVIOUS
  <2> DEFINE d == call[c].on
  <2>2. d \in Call /\ flight[d].st = "pending" /\ call[c].t >= WaitTimeout /\ call[c].pc = "joined"
    BY <2>1, CallFacts DEF WaiterTimeout, WaitsOut, Calm
  <2>3. flights[Home[d]] = d /\ call[c].t <= call[d].t
    BY <2>2 DEF Calm, SmoothInv, AgesFit
  <2>4. call[d].pc \in Flying
    BY <2>2, <2>3, Numbers DEF Calm, FlightInv, InMap
  <2>5. call[d].t <= Longest /\ call[d].t \in Nat /\ call[c].t \in Nat
    BY <1>3, <2>2, <2>4, CallFacts DEF Calm
  <2> HIDE DEF d
  <2> QED BY <2>2, <2>3, <2>5, Numbers, StampedeAssumption DEF Calm, Timely, Longest, LockTtl
<1>5. Join(c) => flight[flights[Home[c]]].age <= LockTimeout
  <2>1. SUFFICES ASSUME Join(c)  PROVE flight[flights[Home[c]]].age <= LockTimeout
    OBVIOUS
  <2> DEFINE d == flights[Home[c]]
  <2>2. d \in Call /\ Asking
    BY <2>1, Numbers DEF Join, Joins, Calm, Typed, TypeOK, Asking
  <2>3. call[d].pc \in Flying /\ flight[d].st = "pending" /\ Home[d] = Home[c]
    BY <2>1, <2>2, Numbers DEF Join, Joins, Calm, FlightInv, InMap
  <2>4. flight[d].age <= call[d].t /\ call[d].t <= MaxLoad /\ flight[d].age \in Nat /\ call[d].t \in Nat
    BY <1>3, <2>2, <2>3, CallFacts DEF Calm, SmoothInv, AgesFit
  <2> HIDE DEF d
  <2>5. flight[d].age <= LockTimeout
    BY <2>4, Numbers, StampedeAssumption DEF Calm, Timely
  <2> QED BY <2>5 DEF d
<1> QED BY <1>1, <1>2, <1>4, <1>5
--------------------------------------------------------------------------------
\* Each step of a quiet system keeps what the invariant says, one part at a time.
LEMMA LoadsStay ==
  ASSUME LoadsFit, UNCHANGED load,
         \A c \in Call : call'[c].pc # "direct" /\ (call'[c].pc = "leading" <=> call[c].pc = "leading")
  PROVE  LoadsFit'
BY DEF LoadsFit, LoadOf

LEMMA BeginCalm ==
  ASSUME Calm, NEW c \in Call, Begin(c)
  PROVE  SmoothInv'
<1>1. /\ call[c].pc = "new" /\ call'[c].pc = "getting" /\ call'[c].t = 0
      /\ \A d \in Call \ {c} : call'[d] = call[d]
      /\ UNCHANGED <<flights, flight, load, letting, lock, cache, source>>
  BY DEF Begin, Shared, To, At, Calm, Typed, TypeOK
<1>2. LoadsFit'
  BY <1>1, LoadsStay DEF Calm, SmoothInv, LoadsFit
<1>3. LockFits'
  BY <1>1, LockFacts DEF Calm, SmoothInv, LockFits, LoadOf
<1>4. ValuesFit'
  BY <1>1 DEF Calm, SmoothInv, ValuesFit, LoadOf
<1>5. NothingYet'
  BY <1>1 DEF Calm, SmoothInv, NothingYet, Pollers
<1>6. WaitsEnd'
  BY <1>1 DEF Calm, SmoothInv, WaitsEnd, Asking, Pollers
<1>7. AgesFit'
  BY <1>1, CallFacts DEF Calm, SmoothInv, AgesFit, Unborn, FlightInv, Fresh
<1> QED BY <1>2, <1>3, <1>4, <1>5, <1>6, <1>7 DEF SmoothInv

LEMMA GetCalm ==
  ASSUME Calm, NEW c \in Call, GetExec(c)
  PROVE  SmoothInv'
<1>1. /\ call[c].pc = "getting" /\ call'[c].pc = "got" /\ call'[c].t = call[c].t /\ call'[c].val = cache
      /\ \A d \in Call \ {c} : call'[d] = call[d]
      /\ UNCHANGED <<flights, flight, load, letting, lock, cache, source>>
  BY DEF GetExec, Shared, Still, At, Calm, Typed, TypeOK
<1>2. LoadsFit'
  BY <1>1, LoadsStay DEF Calm, SmoothInv, LoadsFit
<1>3. LockFits'
  BY <1>1, LockFacts DEF Calm, SmoothInv, LockFits, LoadOf
<1>4. ValuesFit'
  BY <1>1 DEF Calm, SmoothInv, ValuesFit, LoadOf
<1>5. NothingYet'
  BY <1>1 DEF Calm, SmoothInv, NothingYet, Pollers
<1>6. WaitsEnd'
  BY <1>1, FirstLoad DEF Calm, SmoothInv, WaitsEnd, Asking, Pollers
<1>7. AgesFit'
  BY <1>1, CallFacts DEF Calm, SmoothInv, AgesFit, Unborn, FlightInv, Fresh
<1> QED BY <1>2, <1>3, <1>4, <1>5, <1>6, <1>7 DEF SmoothInv

LEMMA HitCalm ==
  ASSUME Calm, NEW c \in Call, Hit(c)
  PROVE  SmoothInv'
<1>1. /\ call[c].pc = "got" /\ call[c].val # 0 /\ call'[c].pc = "done" /\ call'[c].t = 0
      /\ \A d \in Call \ {c} : call'[d] = call[d]
      /\ UNCHANGED <<flights, flight, load, letting, lock, cache, source>>
  BY DEF Hit, Shared, End, Calm, Typed, TypeOK
<1>2. LoadsFit'
  BY <1>1, LoadsStay DEF Calm, SmoothInv, LoadsFit
<1>3. LockFits'
  BY <1>1, LockFacts DEF Calm, SmoothInv, LockFits, LoadOf
<1>4. ValuesFit'
  BY <1>1 DEF Calm, SmoothInv, ValuesFit, LoadOf
<1>5. NothingYet'
  BY <1>1 DEF Calm, SmoothInv, NothingYet, Pollers
<1>6. WaitsEnd'
  BY <1>1 DEF Calm, SmoothInv, WaitsEnd, Asking, Pollers
<1>7. AgesFit'
  BY <1>1, CallFacts DEF Calm, SmoothInv, AgesFit, Unborn, FlightInv, Fresh
<1> QED BY <1>2, <1>3, <1>4, <1>5, <1>6, <1>7 DEF SmoothInv

LEMMA JoinCalm ==
  ASSUME Calm, NEW c \in Call, Join(c)
  PROVE  SmoothInv'
<1> DEFINE e == flights[Home[c]]
<1>1. /\ e \in Call /\ flight[e].st = "pending" /\ e # c
      /\ call[c].pc = "got" /\ call'[c].pc = "joined" /\ call'[c].t = 0 /\ call'[c].on = e
      /\ \A d \in Call \ {c} : call'[d] = call[d]
      /\ \A d \in Call : flight'[d].st = flight[d].st /\ flight'[d].age = flight[d].age
      /\ UNCHANGED <<flights, load, letting, lock, cache, source>>
  <2>1. e \in Call /\ flight[e].st = "pending" /\ call[e].pc \in Flying /\ call[c].pc = "got"
    BY Numbers DEF Join, Joins, Calm, Typed, TypeOK, FlightInv, InMap
  <2>2. call' = [call EXCEPT ![c] = At("joined", 0, 0, e)] /\ UNCHANGED load /\ flight' = Counted(e, TRUE)
    <3>1. flight[e].age <= LockTimeout
      BY NobodyGivesUp
    <3>2. ~(flight[e].age > LockTimeout)
      BY <3>1, <2>1, CallFacts, StampedeAssumption DEF Calm
    <3> QED BY <3>2 DEF Join
  <2>3. UNCHANGED <<flights, letting, lock, cache, source>>
    BY DEF Join, Shared
  <2> HIDE DEF e
  <2>4. call'[c].pc = "joined" /\ call'[c].t = 0 /\ call'[c].on = e /\ \A d \in Call \ {c} : call'[d] = call[d]
    BY <2>2 DEF At, Calm, Typed, TypeOK
  <2>5. \A d \in Call : flight'[d].st = flight[d].st /\ flight'[d].age = flight[d].age
    BY <2>1, <2>2 DEF Counted, Calm, Typed, TypeOK
  <2> QED BY <2>1, <2>2, <2>3, <2>4, <2>5 DEF Flying
<1> HIDE DEF e
<1>2. LoadsFit'
  BY ZenonT(30), <1>1, LoadsStay DEF Calm, SmoothInv, LoadsFit
<1>3. LockFits'
  BY <1>1, LockFacts DEF Calm, SmoothInv, LockFits, LoadOf
<1>4. ValuesFit'
  BY <1>1 DEF Calm, SmoothInv, ValuesFit, LoadOf
<1>5. NothingYet'
  BY <1>1 DEF Calm, SmoothInv, NothingYet, Pollers
<1>6. WaitsEnd'
  BY <1>1 DEF Calm, SmoothInv, WaitsEnd, Asking, Pollers
<1>7. AgesFit'
  BY <1>1, CallFacts DEF Calm, SmoothInv, AgesFit, Unborn, FlightInv, Fresh
<1> QED BY <1>2, <1>3, <1>4, <1>5, <1>6, <1>7 DEF SmoothInv

LEMMA FlyCalm ==
  ASSUME Calm, NEW c \in Call, Fly(c)
  PROVE  SmoothInv'
<1>1. /\ call[c].pc = "got" /\ call[c].val = 0 /\ call'[c].pc = "locking" /\ call'[c].t = 0
      /\ flight'[c].st = "pending" /\ flight'[c].age = flight[c].age /\ flights[Home[c]] = None
      /\ \A d \in Call \ {c} : call'[d] = call[d] /\ flight'[d] = flight[d]
      /\ \A p \in Process : flights'[p] = IF p = Home[c] THEN c ELSE flights[p]
      /\ UNCHANGED <<load, letting, lock, cache, source>>
  BY DEF Fly, Joins, Result, Shared, To, At, Calm, Typed, TypeOK
<1>2. LoadsFit'
  BY <1>1, LoadsStay DEF Calm, SmoothInv, LoadsFit
<1>3. LockFits'
  BY <1>1, LockFacts DEF Calm, SmoothInv, LockFits, LoadOf
<1>4. ValuesFit'
  BY <1>1 DEF Calm, SmoothInv, ValuesFit, LoadOf
<1>5. NothingYet'
  BY <1>1 DEF Calm, SmoothInv, NothingYet, Pollers
<1>6. WaitsEnd'
  BY <1>1 DEF Calm, SmoothInv, WaitsEnd, Asking, Pollers
<1>7. AgesFit'
  <2>1. flight[c].st = "none" /\ flight[c].age = 0
    BY <1>1, CallFacts DEF Calm, SmoothInv, AgesFit, Unborn, FlightInv, Fresh
  <2>2. \A d \in Call \ {c} : flight[d].st = "pending" => Home[d] # Home[c]
    BY <1>1, Numbers DEF Calm, SmoothInv, AgesFit
  <2> QED BY <1>1, <2>1, <2>2, Numbers, CallFacts DEF Calm, SmoothInv, AgesFit, Unborn
<1> QED BY <1>2, <1>3, <1>4, <1>5, <1>6, <1>7 DEF SmoothInv
LEMMA LockCalm ==
  ASSUME Calm, NEW c \in Call, LockExec(c)
  PROVE  SmoothInv'
<1>1. /\ call[c].pc = "locking" /\ call'[c].t = call[c].t /\ call[c].t = 0 /\ call[c].pc # call'[c].pc
      /\ \/ lock = Free /\ call'[c].pc = "locked" /\ lock'.by = c /\ lock'.left = LockTtl
         \/ lock # Free /\ call'[c].pc = "refused" /\ lock' = lock
      /\ \A d \in Call \ {c} : call'[d] = call[d]
      /\ UNCHANGED <<flights, flight, load, letting, cache, source>>
  BY CallFacts DEF LockExec, SetNxTakes, Still, At, Calm, Timely, Typed, TypeOK
<1>2. LoadsFit'
  BY <1>1, LoadsStay DEF Calm, SmoothInv, LoadsFit
<1>3. LockFits'
  <2>1. CASE lock = Free
    <3>1. lock.by = None /\ \A d \in Call : call[d].pc \notin {"locked", "leading"}
      BY <2>1, LockFacts, Numbers DEF Calm, SmoothInv, LockFits
    <3>2. c \notin letting /\ lock'.by = c /\ lock'.left = LockTtl /\ call'[c].pc = "locked"
      BY <1>1, <2>1 DEF Calm, SmoothInv, LockFits
    <3> QED BY <1>1, <3>1, <3>2 DEF Calm, SmoothInv, LockFits
  <2>2. CASE lock # Free
    BY <1>1, <2>2, LockFacts DEF Calm, SmoothInv, LockFits, LoadOf
  <2> QED BY <2>1, <2>2
<1>4. ValuesFit'
  BY <1>1 DEF Calm, SmoothInv, ValuesFit, LoadOf
<1>5. NothingYet'
  BY <1>1, LockFacts, Numbers DEF Calm, SmoothInv, NothingYet, Pollers
<1>6. WaitsEnd'
  <2>1. Asking' => Asking
    BY <1>1 DEF Asking
  <2>2. CASE lock = Free
    <3>1. Asking
      BY <1>1 DEF Asking
    <3>2. SUFFICES ASSUME NEW d \in Call, call'[d].pc \in Pollers
                   PROVE  /\ call[d].t <= Longest /\ LockTtl + call[d].t <= Longest
                          /\ call[d].pc = "sleeping" => call[d].t < Longest
                          /\ call[d].t <= MaxLoad /\ d # c
      <4>1. \A d \in Call : call'[d].pc \in Pollers => cache # 0
        BY <1>1, <2>2, FirstLoad DEF Pollers
      <4> QED BY <1>1, <2>2, <4>1 DEF WaitsEnd, Pollers
    <3>3. d # c /\ call[d].pc \in Pollers
      BY <1>1, <2>2, <3>2 DEF Pollers
    <3> QED BY <3>1, <3>3, CallFacts, Numbers DEF Calm, SmoothInv, WaitsEnd, Longest
  <2>3. CASE lock # Free
    BY <1>1, <2>1, <2>3, LockFacts, Numbers DEF Calm, SmoothInv, WaitsEnd, Pollers, Longest
  <2> QED BY <2>2, <2>3
<1>7. AgesFit'
  BY <1>1, CallFacts DEF Calm, SmoothInv, AgesFit, Unborn
<1> QED BY <1>2, <1>3, <1>4, <1>5, <1>6, <1>7 DEF SmoothInv

LEMMA LockedCalm ==
  ASSUME Calm, NEW c \in Call, Locked(c)
  PROVE  SmoothInv'
<1>1. /\ call[c].pc = "locked" /\ call'[c].pc = "leading" /\ call'[c].t = 0 /\ call[c].t = 0
      /\ \A d \in Call \ {c} : call'[d] = call[d]
      /\ load' = [load EXCEPT ![<<c, "flight">>] = Loader("reading", 0, 0)]
      /\ UNCHANGED <<flights, flight, letting, lock, cache, source>>
  BY CallFacts DEF Locked, Starts, Shared, To, At, Calm, Timely, Typed, TypeOK
<1>1a. /\ LoadOf(c)'.st = "reading" /\ LoadOf(c)'.t = 0
       /\ \A d \in Call \ {c} : LoadOf(d)' = LoadOf(d)
       /\ \A d \in Call : load'[<<d, "direct">>] = load[<<d, "direct">>]
  BY <1>1 DEF LoadOf, Loader, Calm, Typed, TypeOK, Load
<1>2. LoadsFit'
  BY <1>1, <1>1a DEF Calm, SmoothInv, LoadsFit
<1>3. LockFits'
  BY <1>1, <1>1a, LockFacts, Numbers DEF Calm, SmoothInv, LockFits
<1>4. ValuesFit'
  BY <1>1, <1>1a DEF Calm, SmoothInv, ValuesFit
<1>5. NothingYet'
  BY <1>1 DEF Calm, SmoothInv, NothingYet, Pollers
<1>6. WaitsEnd'
  BY <1>1 DEF Calm, SmoothInv, WaitsEnd, Asking, Pollers
<1>7. AgesFit'
  BY <1>1, CallFacts DEF Calm, SmoothInv, AgesFit, Unborn
<1> QED BY <1>2, <1>3, <1>4, <1>5, <1>6, <1>7 DEF SmoothInv

LEMMA PollCalm ==
  ASSUME Calm, NEW c \in Call, Refused(c) \/ Poll(c) \/ PollsAgain(c)
  PROVE  SmoothInv'
<1>1. /\ call[c].pc \in Pollers /\ call'[c].pc \in Pollers /\ call'[c].t = call[c].t
      /\ call'[c].pc = "checking" => lock = Free
      /\ call'[c].pc = "sleeping" => lock # Free
      /\ \A d \in Call \ {c} : call'[d] = call[d]
      /\ UNCHANGED <<flights, flight, load, letting, lock, cache, source>>
  BY CallFacts DEF Refused, Poll, PollsAgain, Pollers, Shared, To, Still, At, Calm, Timely, Typed, TypeOK
<1>2. LoadsFit'
  BY <1>1, LoadsStay DEF Calm, SmoothInv, LoadsFit, Pollers
<1>3. LockFits'
  BY <1>1, LockFacts DEF Calm, SmoothInv, LockFits, LoadOf, Pollers
<1>4. ValuesFit'
  BY <1>1 DEF Calm, SmoothInv, ValuesFit, LoadOf
<1>5. NothingYet'
  BY <1>1, LockFacts DEF Calm, SmoothInv, NothingYet, Pollers
<1>6. WaitsEnd'
  <2>1. Asking' => Asking
    BY <1>1 DEF Asking, Pollers
  <2>2. call'[c].pc = "sleeping" => call[c].t < Longest
    BY <1>1, LockFacts, CallFacts, Numbers DEF Calm, SmoothInv, WaitsEnd, Longest
  <2> QED BY <1>1, <2>1, <2>2 DEF Calm, SmoothInv, WaitsEnd
<1>7. AgesFit'
  BY <1>1, CallFacts DEF Calm, SmoothInv, AgesFit, Unborn, Pollers
<1> QED BY <1>2, <1>3, <1>4, <1>5, <1>6, <1>7 DEF SmoothInv

LEMMA RecheckCalm ==
  ASSUME Calm, NEW c \in Call, Recheck(c)
  PROVE  SmoothInv'
<1>1. /\ call[c].pc = "checking" /\ cache # 0 /\ call'[c].pc = "done"
      /\ flight'[c].st \in {"none", "value"} /\ (flight[c].st \in {"pending", "value"} => flight'[c].st = "value")
      /\ \A d \in Call \ {c} : call'[d] = call[d] /\ flight'[d] = flight[d]
      /\ \A p \in Process : flights'[p] = IF p = Home[c] THEN None ELSE flights[p]
      /\ UNCHANGED <<load, letting, lock, cache, source>>
  <2>1. flight[c].st \in {"none", "pending", "value"}
    BY DEF Calm, SmoothInv, AgesFit
  <2> QED BY <2>1 DEF Recheck, Result, Leaves, End, Shared, Calm, Typed, TypeOK
<1>2. LoadsFit'
  BY <1>1, LoadsStay DEF Calm, SmoothInv, LoadsFit
<1>3. LockFits'
  BY <1>1, LockFacts DEF Calm, SmoothInv, LockFits, LoadOf
<1>4. ValuesFit'
  BY <1>1 DEF Calm, SmoothInv, ValuesFit, LoadOf
<1>5. NothingYet'
  BY <1>1 DEF NothingYet
<1>6. WaitsEnd'
  BY <1>1 DEF Calm, SmoothInv, WaitsEnd, Asking, Pollers
<1>7. AgesFit'
  <2>1. flights[Home[c]] = c
    BY <1>1 DEF Calm, SmoothInv, AgesFit, FlightInv, Registered, Cleared, Flying
  <2>2. \A d \in Call \ {c} : flight[d].st = "pending" => flights'[Home[d]] = d
    BY <1>1, <2>1, Numbers DEF Calm, SmoothInv, AgesFit
  <2> QED BY <1>1, <2>2, CallFacts DEF Calm, SmoothInv, AgesFit, Unborn
<1> QED BY <1>2, <1>3, <1>4, <1>5, <1>6, <1>7 DEF SmoothInv

LEMMA AnsweredCalm ==
  ASSUME Calm, NEW c \in Call, Answered(c)
  PROVE  SmoothInv'
<1>1. /\ call[c].pc = "joined" /\ flight[call[c].on].st = "value" /\ call[c].on \in Call /\ call'[c].pc = "done"
      /\ \A d \in Call \ {c} : call'[d] = call[d]
      /\ UNCHANGED <<flights, flight, load, letting, lock, cache, source>>
  <2>1. call[c].pc = "joined" /\ call[c].on \in Call
    BY CallFacts DEF Answered, Calm
  <2>2. flight[call[c].on].st \in {"pending", "value"}
    BY <2>1 DEF Calm, SmoothInv, AgesFit
  <2> QED BY <2>1, <2>2 DEF Answered, End, Shared, Calm, Typed, TypeOK
<1>2. LoadsFit'
  BY <1>1, LoadsStay DEF Calm, SmoothInv, LoadsFit
<1>3. LockFits'
  BY <1>1, LockFacts DEF Calm, SmoothInv, LockFits, LoadOf
<1>4. ValuesFit'
  BY <1>1 DEF Calm, SmoothInv, ValuesFit, LoadOf
<1>5. NothingYet'
  BY <1>1 DEF Calm, SmoothInv, NothingYet
<1>6. WaitsEnd'
  BY <1>1 DEF Calm, SmoothInv, WaitsEnd, Asking, Pollers
<1>7. AgesFit'
  <2>1. flight[c].st = "pending" => flights[Home[c]] = c /\ call[c].pc \in Flying
    BY Numbers DEF Calm, SmoothInv, AgesFit, FlightInv, InMap
  <2>2. flight[c].st # "pending"
    BY <1>1, <2>1 DEF Flying
  <2> QED BY <1>1, <2>2, CallFacts DEF Calm, SmoothInv, AgesFit, Unborn
<1> QED BY <1>2, <1>3, <1>4, <1>5, <1>6, <1>7 DEF SmoothInv
LEMMA ReleaseCalm ==
  ASSUME Calm, NEW c \in Call, ReleaseExec(c)
  PROVE  SmoothInv'
<1>1. /\ call[c].pc = "done" /\ cache # 0 /\ letting' = letting \ {c}
      /\ lock' = IF lock.by = c THEN Free ELSE lock
      /\ UNCHANGED <<call, flights, flight, load, cache, source>>
  BY DEF ReleaseExec, Calm, SmoothInv, LockFits, NothingYet
<1>2. LoadsFit'
  BY <1>1, LoadsStay DEF Calm, SmoothInv, LoadsFit
<1>3. LockFits'
  BY <1>1, LockFacts, Numbers DEF Calm, SmoothInv, LockFits, LoadOf, Free
<1>4. ValuesFit'
  BY <1>1 DEF Calm, SmoothInv, ValuesFit, LoadOf
<1>5. NothingYet'
  BY <1>1 DEF NothingYet
<1>6. WaitsEnd'
  BY <1>1 DEF Calm, SmoothInv, WaitsEnd, Asking, Free
<1>7. AgesFit'
  BY <1>1 DEF Calm, SmoothInv, AgesFit
<1> QED BY <1>2, <1>3, <1>4, <1>5, <1>6, <1>7 DEF SmoothInv

\* Only the flight of a call that leads has a loader.
LEMMA OneLoader ==
  ASSUME Calm, NEW l \in Load, load[l].st \in {"reading", "writing"}
  PROVE  /\ l[1] \in Call /\ l = <<l[1], "flight">> /\ load[l] = LoadOf(l[1])
         /\ call[l[1]].pc = "leading" /\ lock.by = l[1] /\ Attended(l)
<1>1. PICK c \in Call, k \in {"flight", "direct"} : l = <<c, k>>
  BY DEF Load
<1>2. k = "flight"
  BY <1>1 DEF Calm, SmoothInv, LoadsFit
<1> QED BY <1>1, <1>2 DEF Calm, SmoothInv, LoadsFit, LockFits, LoadOf, Attended

LEMMA ReadsCalm ==
  ASSUME Calm, NEW l \in Load, Reads(l)
  PROVE  SmoothInv'
<1> DEFINE c == l[1]
<1>1. /\ c \in Call /\ call[c].pc = "leading" /\ LoadOf(c).st = "reading"
      /\ LoadOf(c)'.st = "writing" /\ LoadOf(c)'.val = source
      /\ \A d \in Call \ {c} : LoadOf(d)' = LoadOf(d)
      /\ \A d \in Call : load'[<<d, "direct">>] = load[<<d, "direct">>]
      /\ UNCHANGED <<call, flights, flight, letting, lock, cache, source>>
  BY OneLoader DEF Reads, Shared, LoadOf, Loader, Calm, Typed, TypeOK, Load
<1> HIDE DEF c
<1>2. LoadsFit'
  BY <1>1 DEF Calm, SmoothInv, LoadsFit
<1>3. LockFits'
  BY <1>1 DEF Calm, SmoothInv, LockFits
<1>4. ValuesFit'
  <2>1. source \in Nat \ {0}
    BY LoadFacts DEF Reads, Calm
  <2> QED BY <1>1, <2>1 DEF Calm, SmoothInv, ValuesFit
<1>5. NothingYet'
  BY <1>1 DEF Calm, SmoothInv, NothingYet
<1>6. WaitsEnd'
  BY <1>1 DEF Calm, SmoothInv, WaitsEnd, Asking
<1>7. AgesFit'
  BY <1>1 DEF Calm, SmoothInv, AgesFit
<1> QED BY <1>2, <1>3, <1>4, <1>5, <1>6, <1>7 DEF SmoothInv

LEMMA WritesCalm ==
  ASSUME Calm, NEW l \in Load, Writes(l)
  PROVE  SmoothInv'
<1> DEFINE c == l[1]
<1>1. /\ c \in Call /\ l = <<c, "flight">> /\ LoadOf(c) = load[l] /\ LoadOf(c).st = "writing"
      /\ call[c].pc = "leading" /\ lock.by = c /\ Attended(l)
  BY OneLoader DEF Writes
<1>2. /\ LoadOf(c)'.st = "over" /\ cache' = LoadOf(c).val
      /\ \A d \in Call \ {c} : LoadOf(d)' = LoadOf(d)
      /\ \A d \in Call : load'[<<d, "direct">>] = load[<<d, "direct">>]
      /\ UNCHANGED <<lock, source>>
  <2> HIDE DEF c
  <2> QED BY <1>1 DEF Writes, Written, Ends, Loader, LoadOf, Calm, Timely, Typed, TypeOK, Load
<1>3. Settles(l, "value", load[l].val)
  BY DEF Writes
<1>4. /\ call'[c].pc = "done" /\ \A d \in Call \ {c} : call'[d] = call[d]
      /\ \A p \in Process : flights'[p] = IF p = Home[c] THEN None ELSE flights[p]
      /\ letting' \subseteq letting \cup {c}
  BY <1>1, <1>3 DEF Settles, End, Leaves, Releases, Calm, Typed, TypeOK
<1>5. /\ flight'[c].st \in {"none", "value"} /\ (flight[c].st \in {"pending", "value"} => flight'[c].st = "value")
      /\ \A d \in Call \ {c} : flight'[d] = flight[d]
  <2>1. flight[c].st \in {"none", "pending", "value"}
    BY <1>1 DEF Calm, SmoothInv, AgesFit
  <2> QED BY <1>1, <1>3, <2>1 DEF Settles, Result, Calm, Typed, TypeOK
<1>6. cache' # 0 /\ cache' <= source /\ \A d \in Call : LoadOf(d).st = "writing" => d = c
  <2>1. LoadOf(c).val \in 1..source /\ source \in Nat
    BY <1>1, LoadFacts DEF Calm, SmoothInv, ValuesFit
  <2>2. \A d \in Call : LoadOf(d).st = "writing" => d = c
    BY <1>1 DEF Calm, SmoothInv, LoadsFit, LockFits
  <2> QED BY <1>2, <2>1, <2>2
<1> HIDE DEF c
<1>7. LoadsFit' /\ LockFits' /\ ValuesFit'
  <2>1. LoadsFit'
    <3>1. \A d \in Call \ {c} : call'[d].pc = call[d].pc /\ LoadOf(d)'.st = LoadOf(d).st
      BY <1>2, <1>4
    <3>2. \A d \in Call : load'[<<d, "direct">>].st = "none" /\ call[d].pc # "direct"
      BY <1>2 DEF Calm, SmoothInv, LoadsFit
    <3> QED BY ZenonT(30), <1>2, <1>4, <3>1, <3>2 DEF Calm, SmoothInv, LoadsFit
  <2>2. LockFits'
    BY <1>1, <1>2, <1>4, LockFacts DEF Calm, SmoothInv, LockFits
  <2>3. ValuesFit'
    BY <1>1, <1>2, <1>6 DEF ValuesFit
  <2> QED BY <2>1, <2>2, <2>3
<1>8. NothingYet'
  BY <1>6 DEF NothingYet
<1>9. WaitsEnd'
  BY <1>1, <1>2, <1>4, <1>6 DEF Calm, SmoothInv, WaitsEnd, Asking, Pollers
<1>10. AgesFit'
  <2>1. flights[Home[c]] = c
    BY <1>1 DEF Calm, SmoothInv, AgesFit, FlightInv, Registered, Cleared, Flying
  <2>2. \A d \in Call \ {c} : flight[d].st = "pending" => flights'[Home[d]] = d
    BY <1>4, <2>1, Numbers DEF Calm, SmoothInv, AgesFit
  <2> QED BY <1>1, <1>4, <1>5, <2>2, CallFacts DEF Calm, SmoothInv, AgesFit, Unborn
<1> QED BY <1>7, <1>8, <1>9, <1>10 DEF SmoothInv

LEMMA MutateCalm ==
  ASSUME Calm, Mutate
  PROVE  SmoothInv'
<1>1. UNCHANGED <<call, flights, flight, load, letting, lock, cache>> /\ source' = source + 1
  BY DEF Mutate
<1>2. ValuesFit'
  <2>1. source \in Nat /\ cache \in Nat
    BY StampedeAssumption, Numbers DEF Calm, Typed, TypeOK
  <2> QED BY <1>1, <2>1 DEF Calm, SmoothInv, ValuesFit, LoadOf
<1> QED BY <1>1, <1>2
    DEF Calm, SmoothInv, LoadsFit, LockFits, LoadOf, NothingYet, WaitsEnd, Asking, AgesFit

LEMMA TickCalm ==
  ASSUME Calm, Tick
  PROVE  SmoothInv'
<1>1. \A d \in Call :
        /\ call[d].pc \notin {"getting", "got", "locking", "locked", "refused", "polling", "checking", "woken"}
        /\ LoadOf(d).st # "writing" /\ (LoadOf(d).st = "reading" => LoadOf(d).t < MaxLoad)
        /\ call[d].pc = "joined" => flight[call[d].on].st = "pending"
  <2>1. \A d \in Call : <<d, "flight">> \in Load
    BY DEF Load
  <2>2. \A d \in Call : call[d].t \in Nat /\ LoadOf(d).t \in Nat
    BY <2>1, CallFacts, LoadFacts DEF Calm, LoadOf
  <2>3. \A d \in Call :
          /\ call[d].pc \in {"getting", "got", "locking", "locked", "refused"} => call[d].t < MaxDelay
          /\ call[d].pc \in {"polling", "checking"} => MaxDelay > 0
          /\ call[d].pc # "woken" /\ (call[d].pc = "joined" => flight[call[d].on].st = "pending")
    BY DEF Tick, MayPass
  <2>4. \A d \in Call : /\ LoadOf(d).st = "reading" => LoadOf(d).t < MaxLoad
                        /\ LoadOf(d).st = "writing" => LoadOf(d).t < MaxDelay
    BY <2>1 DEF Tick, MayPass, LoadOf
  <2>5. MaxDelay = 0
    BY DEF Calm, Timely
  <2> QED BY <2>2, <2>3, <2>4, <2>5
<1>2. \A d \in Call :
        /\ call'[d].pc = IF call[d].pc = "sleeping" THEN "woken" ELSE call[d].pc
        /\ call'[d].t = IF call[d].pc \in {"sleeping", "leading", "joined"} THEN call[d].t + 1 ELSE call[d].t
        /\ call'[d].val = call[d].val /\ call'[d].on = call[d].on
  BY <1>1, CallFacts DEF Tick, Waiting, At, Calm, Phases
<1>3. \A d \in Call :
        /\ LoadOf(d)'.st = LoadOf(d).st /\ load'[<<d, "direct">>].st = load[<<d, "direct">>].st
        /\ LoadOf(d).st = "reading" => LoadOf(d)'.t = LoadOf(d).t + 1
  BY DEF Tick, LoadOf, Load, Loader
<1>4. \/ lock.by # None /\ lock' = Free /\ lock.left = 1
      \/ lock.by # None /\ lock'.by = lock.by /\ lock'.left = lock.left - 1 /\ lock.left > 1 /\ lock.left \in Nat
      \/ lock.by = None /\ lock' = Free
  BY LockFacts DEF Tick, Calm, Free
<1>5. \A d \in Call : /\ flight'[d].st = flight[d].st
                      /\ flight'[d].age = flight[d].age \/ (flights[Home[d]] = d /\ flight'[d].age = flight[d].age + 1)
  BY DEF Tick, Aged
<1>6. UNCHANGED <<flights, letting, cache, source>>
  BY DEF Tick
<1>7. \A d \in Call : call[d].pc = "leading" => lock.by = d /\ lock.left > 1 /\ call[d].t < MaxLoad /\ LoadOf(d).st = "reading"
  <2> TAKE d \in Call
  <2>1. CASE call[d].pc = "leading"
    <3>1. LoadOf(d).st = "reading" /\ LoadOf(d).t = call[d].t /\ lock.by = d /\ lock.left + call[d].t = LockTtl
      BY <1>1, <2>1 DEF Calm, SmoothInv, LoadsFit, LockFits
    <3>2. call[d].t < MaxLoad
      BY <1>1, <3>1
    <3> QED BY <3>1, <3>2, CallFacts, LockFacts, Numbers, StampedeAssumption DEF Calm, Timely, LockTtl
  <2> QED BY <2>1
<1>8. LoadsFit'
  BY <1>2, <1>3 DEF Calm, SmoothInv, LoadsFit
<1>9. LockFits'
  <2>1. ASSUME NEW d \in Call, call'[d].pc = "leading"
        PROVE  /\ lock'.by = d /\ lock'.left + call'[d].t = LockTtl /\ call'[d].t <= MaxLoad
               /\ LoadOf(d)'.st = "reading" => LoadOf(d)'.t = call'[d].t
    <3>1. call[d].pc = "leading" /\ call'[d].t = call[d].t + 1
      BY <1>2, <2>1
    <3>2. lock.by = d /\ lock.left > 1 /\ call[d].t < MaxLoad
      BY <1>7, <3>1
    <3>3. lock'.by = d /\ lock'.left = lock.left - 1 /\ lock.left \in Nat
      BY <1>4, <3>2, LockFacts, Numbers DEF Calm
    <3>4. lock.left + call[d].t = LockTtl /\ (LoadOf(d).st = "reading" => LoadOf(d).t = call[d].t)
      BY <3>1 DEF Calm, SmoothInv, LockFits
    <3>5. call[d].t \in Nat /\ MaxLoad \in Nat
      BY CallFacts, Numbers DEF Calm
    <3>6. lock'.left + call'[d].t = LockTtl /\ call'[d].t <= MaxLoad
      BY <3>1, <3>2, <3>3, <3>4, <3>5
    <3>7. LoadOf(d)'.st = "reading" => LoadOf(d)'.t = call'[d].t
      BY <1>3, <3>1, <3>4
    <3> QED BY <3>2, <3>3, <3>6, <3>7
  <2>2. \A d \in Call : call'[d].pc # "locked" /\ (d \in letting' => call'[d].pc = "done")
    BY <1>1, <1>2, <1>6 DEF Calm, SmoothInv, LockFits
  <2>3. lock'.by # None => call'[lock'.by].pc \in {"locked", "leading", "done"}
    BY <1>2, <1>4, LockFacts DEF Calm, SmoothInv, LockFits, Free
  <2> QED BY <2>1, <2>2, <2>3 DEF LockFits
<1>10. ValuesFit'
  BY <1>1, <1>3, <1>6 DEF Calm, SmoothInv, ValuesFit
<1>11. NothingYet'
  <2>1. SUFFICES ASSUME cache = 0, NEW d \in Call
                 PROVE  /\ call'[d].pc # "done" /\ flight'[d].st # "value"
                        /\ call'[d].pc = "got" => call'[d].val = 0
                        /\ call'[d].pc \in Pollers => lock'.by # None /\ call'[d].pc # "checking"
    BY <1>6 DEF NothingYet
  <2>2. ASSUME call'[d].pc \in Pollers  PROVE lock'.by # None
    <3>1. call[d].pc \in Pollers
      BY <1>2, <2>2 DEF Pollers
    <3>2. lock.by \in Call
      BY <2>1, <3>1, FirstLoad, LockFacts DEF Calm
    <3>3. call[lock.by].pc = "leading"
      <4>1. call[lock.by].pc \in {"locked", "leading", "done"}
        BY <3>2, Numbers DEF Calm, SmoothInv, LockFits
      <4> QED BY <1>1, <2>1, <3>2, <4>1 DEF Calm, SmoothInv, NothingYet
    <3> QED BY <1>4, <1>7, <3>2, <3>3, LockFacts DEF Calm
  <2> QED BY <1>1, <1>2, <1>5, <2>1, <2>2 DEF Calm, SmoothInv, NothingYet
<1>12. WaitsEnd'
  <2>1. SUFFICES ASSUME NEW d \in Call, call'[d].pc \in Pollers
                 PROVE  /\ call'[d].t <= Longest
                        /\ call'[d].pc # "sleeping"
                        /\ lock'.by # None => lock'.left + call'[d].t <= Longest
                        /\ cache = 0 => lock'.left + call'[d].t <= LockTtl
                        /\ ~Asking'
    <3>1. ~Asking'
      BY <1>1, <1>2 DEF Asking
    <3>2. \A d \in Call : call'[d].pc # "sleeping"
      BY <1>2
    <3> QED BY <1>6, <2>1, <3>1, <3>2 DEF WaitsEnd
  <2>2. call[d].pc = "sleeping" /\ call'[d].t = call[d].t + 1
    BY <1>1, <1>2, <2>1 DEF Pollers
  <2>3. /\ call[d].t < Longest /\ (lock.by # None => lock.left + call[d].t <= Longest)
        /\ cache = 0 => lock.left + call[d].t <= LockTtl
        /\ call[d].t \in Nat /\ Longest \in Nat
    BY <2>2, CallFacts, Numbers DEF Calm, SmoothInv, WaitsEnd, Pollers, Longest
  <2>4. ~Asking' /\ call'[d].pc # "sleeping"
    BY <1>1, <1>2 DEF Asking
  <2>5. cache = 0 => lock'.by # None
    BY <1>6, <1>11, <2>1 DEF NothingYet
  <2> QED BY <1>4, <2>2, <2>3, <2>4, <2>5, Numbers DEF Free
<1>13. AgesFit'
  <2>1. \A d \in Call : flight[d].st = "pending" => flights[Home[d]] = d /\ call[d].pc \in Flying
    BY Numbers DEF Calm, SmoothInv, AgesFit, FlightInv, InMap
  <2>2. \A d \in Call : flight[d].st = "pending" => call'[d].t = call[d].t + 1
    BY <1>1, <1>2, <2>1 DEF Flying
  <2>3. ASSUME NEW d \in Call  PROVE flight'[d].st \in {"none", "pending", "value"}
    BY <1>5 DEF Calm, SmoothInv, AgesFit
  <2>4. ASSUME NEW d \in Call, call'[d].pc \in Unborn  PROVE flight'[d].age = 0
    <3>1. call[d].pc \in Unborn
      BY <1>2, <2>4 DEF Unborn
    <3>2. flight[d].age = 0 /\ flights[Home[d]] # d
      BY <3>1, Numbers DEF Calm, SmoothInv, AgesFit, FlightInv, InMap, Flying, Unborn
    <3> QED BY <1>5, <3>2
  <2>5. ASSUME NEW d \in Call, flight'[d].st = "pending"
        PROVE  flights'[Home[d]] = d /\ flight'[d].age <= call'[d].t
    BY <1>5, <1>6, <2>1, <2>2, <2>5, CallFacts DEF Calm, SmoothInv, AgesFit
  <2>6. ASSUME NEW d \in Call, call'[d].pc = "joined"
        PROVE  /\ flight'[call'[d].on].st \in {"pending", "value"}
               /\ flight'[call'[d].on].st = "pending" => call'[d].t <= call'[call'[d].on].t
    <3>1. call[d].pc = "joined" /\ call'[d].on = call[d].on /\ call[d].on \in Call /\ call'[d].t = call[d].t + 1
      BY <1>2, <2>6, CallFacts DEF Calm
    <3>2. flight[call[d].on].st = "pending" /\ call[d].t <= call[call[d].on].t
      BY <1>1, <3>1 DEF Calm, SmoothInv, AgesFit
    <3> QED BY <1>5, <2>2, <3>1, <3>2, CallFacts DEF Calm
  <2> QED BY <2>3, <2>4, <2>5, <2>6 DEF AgesFit
<1> QED BY <1>8, <1>9, <1>10, <1>11, <1>12, <1>13 DEF SmoothInv
--------------------------------------------------------------------------------
LEMMA QuietNow ==
  ASSUME Typed, [Next]_vars, Smooth'
  PROVE  Smooth
<1>1. faults \in Nat /\ hangs \in Nat /\ drops \in Nat
  BY StampedeAssumption DEF Typed, TypeOK
<1> DEFINE Grows == faults' \in {faults, faults + 1} /\ hangs' \in {hangs, hangs + 1} /\ drops' \in {drops, drops + 1}
<1>2. ASSUME NEW c \in Call, Begin(c) \/ Steps(c)  PROVE Grows
  <2>1. CASE Begin(c) \/ GetExec(c) \/ Hit(c) \/ Join(c) \/ Fly(c) \/ LockExec(c) \/ Locked(c) \/ Refused(c)
    BY <2>1 DEF Begin, GetExec, Hit, Join, Fly, LockExec, Locked, Refused, Budgets
  <2>2. CASE Poll(c) \/ PollsAgain(c) \/ Recheck(c) \/ FallThrough(c) \/ LeaderTimeout(c) \/ Answered(c) \/ WaiterTimeout(c)
    BY <2>2 DEF Poll, PollsAgain, Recheck, FallThrough, LeadsAlone, LeaderTimeout, Answered, WaiterTimeout, Budgets
  <2> QED BY <1>2, <2>1, <2>2 DEF Steps
<1>3. ASSUME NEW c \in Call, GetFails(c) \/ LockFails(c) \/ PollFails(c) \/ ReleaseExec(c) \/ ReleaseLost(c)  PROVE Grows
  BY <1>3 DEF GetFails, LockFails, PollFails, LeadsAlone, ReleaseExec, ReleaseLost, Budgets
<1>4. ASSUME NEW l \in Load, Reads(l) \/ Writes(l) \/ Throws(l) \/ Hang(l)  PROVE Grows
  BY <1>4 DEF Reads, Writes, Throws, Hang, Budgets
<1>5. ASSUME Mutate \/ Drop \/ Tick \/ (\E p \in Process : ClearKey(p)) \/ UNCHANGED vars  PROVE Grows
  BY <1>5 DEF Mutate, Drop, Tick, ClearKey, vars, Budgets
<1>6. Grows
  BY <1>2, <1>3, <1>4, <1>5 DEF Next
<1> QED BY <1>1, <1>6 DEF Smooth

\* What can still happen while nothing fails, hangs, expires early or is deleted.
LEMMA QuietSteps ==
  ASSUME Typed, Smooth, [Next]_vars, Smooth'
  PROVE  \/ UNCHANGED vars \/ Mutate \/ Tick
         \/ \E c \in Call : Begin(c) \/ Steps(c) \/ ReleaseExec(c)
         \/ \E l \in Load : Reads(l) \/ Writes(l)
<1>1. \A c \in Call : ~GetFails(c) /\ ~LockFails(c) /\ ~PollFails(c) /\ ~ReleaseLost(c)
  BY DEF Smooth, GetFails, LockFails, PollFails, ReleaseLost
<1>2. \A l \in Load : ~Throws(l) /\ ~Hang(l)
  BY DEF Smooth, Throws, Hang
<1>3. ~Drop /\ \A p \in Process : ~ClearKey(p)
  BY DEF Smooth, Drop, ClearKey
<1> QED BY <1>1, <1>2, <1>3 DEF Next

LEMMA SmoothStep ==
  ASSUME Calm, Smooth, [Next]_vars, Smooth'
  PROVE  SmoothInv'
<1>1. CASE UNCHANGED vars
  BY <1>1 DEF Calm, SmoothInv, LoadsFit, LockFits, LoadOf, ValuesFit, NothingYet, WaitsEnd, Asking, AgesFit, vars
<1>2. ASSUME NEW c \in Call, Steps(c)  PROVE SmoothInv'
  BY <1>2, NobodyGivesUp, GetCalm, HitCalm, JoinCalm, FlyCalm, LockCalm, LockedCalm, PollCalm, RecheckCalm, AnsweredCalm
  DEF Steps
<1> QED BY <1>1, <1>2, QuietSteps, BeginCalm, ReleaseCalm, ReadsCalm, WritesCalm, MutateCalm, TickCalm DEF Calm

LEMMA SmoothInvariant ==
  ASSUME Timely
  PROVE  Spec => []SmoothSound
<1>1. Init => SmoothSound
  BY Numbers DEF Init, SmoothSound, SmoothInv, LoadsFit, LockFits, LoadOf, ValuesFit, NothingYet, WaitsEnd, Asking, AgesFit,
     Pollers, Free, Load
<1>2. SoundInv /\ SmoothSound /\ [Next]_vars => SmoothSound'
  BY QuietNow, SmoothStep DEF SoundInv, SmoothSound, Calm
<1> QED BY <1>1, <1>2, SoundInvariant, PTL DEF Spec

\* Under the lock: the step that ends a load, and the answer of the recheck.
LEMMA CoveredStep ==
  ASSUME Calm, Smooth, [Next]_vars, Smooth'
  PROVE  /\ \A l \in Load : load[l].st = "writing" /\ load'[l].st = "over" => lock.by = l[1]
         /\ \A c \in Call : call[c].pc = "checking" /\ call'[c].pc # "checking" => call'[c].pc = "done"
         /\ cache' >= cache
<1>1. \A l \in Load : load[l].st = "writing" => lock.by = l[1]
  BY OneLoader
<1>2. \A c \in Call : call[c].pc = "checking" /\ call'[c].pc # "checking" => call'[c].pc = "done"
  <2> SUFFICES ASSUME NEW c \in Call, call[c].pc = "checking", call'[c].pc # "checking"  PROVE call'[c].pc = "done"
    OBVIOUS
  <2>1. CASE Tick
    BY <2>1 DEF Tick, At
  <2>2. CASE UNCHANGED call
    BY <2>2
  <2>3. ASSUME NEW d \in Call, Begin(d) \/ Steps(d)  PROVE call'[c].pc = "done"
    <3>1. CASE d = c
      <4>1. /\ ~Begin(c) /\ ~GetExec(c) /\ ~Hit(c) /\ ~Join(c) /\ ~Fly(c) /\ ~LockExec(c) /\ ~Locked(c) /\ ~Refused(c)
            /\ ~Poll(c) /\ ~PollsAgain(c) /\ ~Answered(c)
        BY DEF Begin, GetExec, Hit, Join, Fly, LockExec, Locked, Refused, Poll, PollsAgain, Answered
      <4>2. Recheck(c)
        BY <2>3, <3>1, <4>1, NobodyGivesUp DEF Steps
      <4> QED BY <4>2 DEF Recheck, End, Calm, Typed, TypeOK
    <3>2. CASE d # c
      BY <2>3, <3>2 DEF Steps, Begin, GetExec, Hit, Join, Fly, LockExec, Locked, Refused, Poll, PollsAgain, Recheck, Answered,
          FallThrough, LeadsAlone, LeaderTimeout, WaiterTimeout, AfterStampedeError, Calm, Typed, TypeOK
    <3> QED BY <3>1, <3>2
  <2>4. ASSUME NEW l \in Load, Writes(l)  PROVE FALSE
    <3>1. l[1] \in Call /\ call[l[1]].pc = "leading" /\ Settles(l, "value", load[l].val)
      BY <2>4, OneLoader DEF Writes
    <3> QED BY <3>1 DEF Settles, Calm, Typed, TypeOK
  <2> QED BY <2>1, <2>2, <2>3, <2>4, QuietSteps DEF vars, ReleaseExec, Reads, Mutate, Calm
<1>3. cache' >= cache
  <2>1. CASE UNCHANGED cache
    <3>1. cache \in Nat
      BY Numbers DEF Calm, Typed, TypeOK
    <3> QED BY <2>1, <3>1
  <2>2. ASSUME NEW l \in Load, Writes(l)  PROVE cache' >= cache
    <3>1. load[l] = LoadOf(l[1]) /\ l[1] \in Call /\ load[l].st = "writing" /\ cache' = load[l].val
      BY <2>2, OneLoader DEF Writes, Written, Calm, Timely
    <3> QED BY <3>1 DEF Calm, SmoothInv, ValuesFit
  <2>3. \A c \in Call : Begin(c) \/ Steps(c) => UNCHANGED cache
    BY DEF Steps, Begin, GetExec, Hit, Join, Fly, LockExec, Locked, Refused, Poll, PollsAgain, Recheck, Answered,
       FallThrough, LeadsAlone, LeaderTimeout, WaiterTimeout, Shared
  <2>4. Mutate \/ Tick \/ (\E c \in Call : ReleaseExec(c)) \/ (\E l \in Load : Reads(l)) => UNCHANGED cache
    BY DEF Mutate, Tick, ReleaseExec, Reads, Shared
  <2> QED BY <2>1, <2>2, <2>3, <2>4, QuietSteps DEF vars, Calm
<1> QED BY <1>1, <1>2, <1>3

\* As long as nothing fails, whatever calls come in whatever processes: a load is written
\* under its lock, who waits for the lock finds the value and loads nothing, and the cache
\* never goes back to an older version ("so the write is covered by the lock").
THEOREM LoadsStayCovered ==
  ASSUME Timely
  PROVE  Spec => LoadsCovered
<1>1. /\ SoundInv /\ SmoothSound /\ [Next]_vars
      => /\ Smooth' => \A l \in Load : load[l].st = "writing" /\ load'[l].st = "over" => lock.by = l[1]
         /\ Smooth' => \A c \in Call : call[c].pc = "checking" /\ call'[c].pc # "checking" => call'[c].pc = "done"
         /\ Smooth' => cache' >= cache
  BY QuietNow, CoveredStep DEF SoundInv, SmoothSound, Calm
<1> QED BY <1>1, SoundInvariant, SmoothInvariant, PTL DEF Spec, LoadsCovered, WriteCovered, FollowerFinds, CacheNeverGoesBack

--------------------------------------------------------------------------------
(* The cache in mode l1-only: what is removed stays away.                                *)

Places == {"new", "store", "storeNear", "index", "readNear", "read", "fill", "hasNear", "hasFar", "dropNear", "dropFar",
           "clearNear", "clearFar", "clearTags", "members", "dropMembers", "walk", "walking", "done"}
Operations == Writing \cup Reading \cup Removing
LocalRecord == [op : Operations \cup {"none"}, keys : SUBSET Key, pc : Places, todo : SUBSET Key,
                val : SUBSET LocalCall, mine : Nat, before : SUBSET LocalCall]

\* Which phases belong to an operation, and what it has in hand there.
RecordFits(r) ==
  /\ r.pc = "new" => r.op = "none" /\ r.keys = {}
  /\ r.op = "none" => r.pc = "new"
  /\ r.pc \in {"store", "storeNear", "index"} => r.op \in Writing
  /\ r.pc \in {"store", "storeNear"} => r.todo = r.keys
  /\ r.pc \in {"readNear", "fill"} => r.op = "get"
  /\ r.pc = "read" => r.op \in {"get", "getMany"}
  /\ r.pc \in {"hasNear", "hasFar"} => r.op = "has"
  /\ r.pc \in {"dropNear", "dropFar"} => r.op \in {"delete", "deleteMany"}
  /\ r.pc \in {"clearNear", "clearFar", "clearTags"} => r.op = "clear"
  /\ r.pc \in {"members", "dropMembers", "walk", "walking"} => r.op = "invalidate"
  /\ r.op = "clear" => r.keys = Key
  /\ r.op \in {"get", "has"} => \E k \in Key : r.keys = {k}
  /\ r.pc = "fill" => r.val # {}

LocalTyped ==
  /\ near \in [Key -> LocalCall \cup {Nothing}] /\ far \in [Key -> LocalCall \cup {Nothing}]
  /\ sets \in Seq(SUBSET Key) /\ current \in 0..Len(sets)
  /\ calls \in [LocalCall -> LocalRecord]
  /\ \A c \in LocalCall : calls[c].pc = "walking" => calls[c].mine \in 1..Len(sets)
Shaped == \A c \in LocalCall : RecordFits(calls[c]) /\ calls[c].before \subseteq Done

\* A value is kept under keys of the call that wrote it, and carried to no other.
Located ==
  /\ \A k \in Key : near[k] # Nothing => k \in calls[near[k]].keys
  /\ \A k \in Key : far[k] # Nothing => k \in calls[far[k]].keys
  /\ \A g \in LocalCall : calls[g].pc = "fill" => \A v \in calls[g].val : calls[g].keys \subseteq calls[v].keys

\* A write that no removal by tag and no clear() overlaps is known to the index, or its value
\* is gone from the store, and from memory too unless a get() carried it over.
Unmet(v) == ~\E d \in LocalCall : Is(d, {"invalidate", "clear"}) /\ Overlap(v, d)
AnyGet == \E g \in LocalCall : Is(g, {"get"})
Carried(c) == \E g \in LocalCall : Is(g, {"get"}) /\ c \notin calls[g].before
Indexed(v, k) == calls[v].pc = "done" \/ (calls[v].pc = "index" /\ k \notin calls[v].todo)
KnownOrGone ==
  \A v \in LocalCall : Is(v, Writing) /\ Unmet(v) =>
    \A k \in calls[v].keys \cap Tagged : Indexed(v, k) => k \in Members \/ (far[k] # v /\ (near[k] = v => AnyGet))

\* What a removal has still to take away of a value written before it, phase by phase.
NearGone(c, v, k) == near[k] = v => Carried(c)
Takes(c, v, k) ==
  /\ calls[c].pc \in {"dropNear", "dropMembers"} => k \in calls[c].todo \/ NearGone(c, v, k)
  /\ calls[c].pc \in {"dropFar", "clearFar", "clearTags", "walk", "walking", "done"} => NearGone(c, v, k)
  /\ calls[c].pc \in {"clearTags", "done"} => far[k] # v
  /\ calls[c].pc = "walking" => k \in sets[calls[c].mine] \ calls[c].todo \/ far[k] # v
Removals(c, v) == Is(c, Removing) /\ v \in calls[c].before /\ Is(v, Writing) /\ Unmet(v)
RemovalsWork == \A c, v \in LocalCall : Removals(c, v) => \A k \in Reaches(c, v) : Takes(c, v, k)

\* A read that began after the removal carries nothing back, and answers with what was carried.
ReadsLate ==
  \A c, v, g \in LocalCall : Removals(c, v) /\ c \in calls[g].before =>
    /\ calls[g].pc = "fill" => \A k \in Reaches(c, v) \cap calls[g].keys : v \notin calls[g].val
    /\ Is(g, Reading) /\ calls[v].keys = Reaches(c, v) /\ v \in calls[g].val => Carried(c)

LocalInv == LocalTyped /\ Shaped /\ Located /\ KnownOrGone /\ RemovalsWork /\ ReadsLate

--------------------------------------------------------------------------------
(* A step of a call changes the call only, and nothing of what it was asked.              *)

Onward(c, pc, todo, val, mine) ==
  [op |-> calls[c].op, keys |-> calls[c].keys, pc |-> pc, todo |-> todo, val |-> val, mine |-> mine,
   before |-> calls[c].before]
Moves(c, r) == calls' = [calls EXCEPT ![c] = r]
Persist ==
  \A d \in LocalCall : calls[d].pc # "new" =>
    /\ calls'[d].op = calls[d].op /\ calls'[d].keys = calls[d].keys /\ calls'[d].before = calls[d].before
    /\ calls'[d].pc # "new"
    /\ calls[d].pc = "done" => calls'[d] = calls[d]

LEMMA LocalRecords ==
  ASSUME LocalTyped, NEW c \in LocalCall
  PROVE  /\ calls[c] \in LocalRecord /\ calls[c].keys \subseteq Key /\ calls[c].todo \subseteq Key
         /\ calls[c].val \subseteq LocalCall /\ calls[c].mine \in Nat /\ calls[c].before \subseteq LocalCall
         /\ calls[c].op \in Operations \cup {"none"} /\ calls[c].pc \in Places
BY DEF LocalTyped, LocalRecord

LEMMA OneField ==
  ASSUME NEW r \in LocalRecord, NEW x
  PROVE  /\ [r EXCEPT !.pc = x] = [op |-> r.op, keys |-> r.keys, pc |-> x, todo |-> r.todo, val |-> r.val, mine |-> r.mine, before |-> r.before]
         /\ [r EXCEPT !.todo = x] = [op |-> r.op, keys |-> r.keys, pc |-> r.pc, todo |-> x, val |-> r.val, mine |-> r.mine, before |-> r.before]
         /\ [r EXCEPT !.val = x] = [op |-> r.op, keys |-> r.keys, pc |-> r.pc, todo |-> r.todo, val |-> x, mine |-> r.mine, before |-> r.before]
         /\ [r EXCEPT !.mine = x] = [op |-> r.op, keys |-> r.keys, pc |-> r.pc, todo |-> r.todo, val |-> r.val, mine |-> x, before |-> r.before]
BY DEF LocalRecord

\* The ways a call goes on, each as its next record.
LEMMA Onwards ==
  ASSUME LocalTyped, NEW c \in LocalCall, NEW pc \in Places, NEW todo \in SUBSET Key, NEW val \in SUBSET LocalCall, NEW mine \in Nat
  PROVE  /\ Goes(c, pc) => Moves(c, Onward(c, pc, calls[c].todo, calls[c].val, calls[c].mine))
         /\ Goes2(c, pc, todo) => Moves(c, Onward(c, pc, todo, calls[c].val, calls[c].mine))
         /\ calls' = [calls EXCEPT ![c].pc = pc, ![c].val = val] => Moves(c, Onward(c, pc, calls[c].todo, val, calls[c].mine))
         /\ calls' = [calls EXCEPT ![c].val = val, ![c].pc = pc] => Moves(c, Onward(c, pc, calls[c].todo, val, calls[c].mine))
         /\ calls' = [calls EXCEPT ![c].pc = pc, ![c].mine = mine, ![c].todo = todo] => Moves(c, Onward(c, pc, todo, calls[c].val, mine))
<1> DEFINE r == calls[c]
           p == [r EXCEPT !.pc = pc]
           v == [r EXCEPT !.val = val]
           m == [p EXCEPT !.mine = mine]
<1>1. r \in LocalRecord /\ calls \in [LocalCall -> LocalRecord]
  BY LocalRecords DEF LocalTyped
<1>2. p = [op |-> r.op, keys |-> r.keys, pc |-> pc, todo |-> r.todo, val |-> r.val, mine |-> r.mine, before |-> r.before] /\ p \in LocalRecord
  BY <1>1, OneField DEF LocalRecord
<1>3. v = [op |-> r.op, keys |-> r.keys, pc |-> r.pc, todo |-> r.todo, val |-> val, mine |-> r.mine, before |-> r.before] /\ v \in LocalRecord
  BY <1>1, OneField DEF LocalRecord
<1> HIDE DEF r, p, v
<1>4. m = [op |-> r.op, keys |-> r.keys, pc |-> pc, todo |-> r.todo, val |-> r.val, mine |-> mine, before |-> r.before] /\ m \in LocalRecord
  BY <1>1, <1>2, OneField DEF LocalRecord
<1> HIDE DEF m
<1>5. /\ p = Onward(c, pc, calls[c].todo, calls[c].val, calls[c].mine)
      /\ [p EXCEPT !.todo = todo] = Onward(c, pc, todo, calls[c].val, calls[c].mine)
      /\ [p EXCEPT !.val = val] = Onward(c, pc, calls[c].todo, val, calls[c].mine)
      /\ [v EXCEPT !.pc = pc] = Onward(c, pc, calls[c].todo, val, calls[c].mine)
      /\ [m EXCEPT !.todo = todo] = Onward(c, pc, todo, calls[c].val, mine)
  <2>1. p = Onward(c, pc, calls[c].todo, calls[c].val, calls[c].mine)
    BY <1>2 DEF Onward, r
  <2>2. /\ p.op = calls[c].op /\ p.keys = calls[c].keys /\ p.pc = pc /\ p.todo = calls[c].todo
        /\ p.val = calls[c].val /\ p.mine = calls[c].mine /\ p.before = calls[c].before
    BY <1>2 DEF r
  <2>3. /\ v.op = calls[c].op /\ v.keys = calls[c].keys /\ v.todo = calls[c].todo
        /\ v.val = val /\ v.mine = calls[c].mine /\ v.before = calls[c].before
    BY <1>3 DEF r
  <2>4. /\ m.op = calls[c].op /\ m.keys = calls[c].keys /\ m.pc = pc
        /\ m.val = calls[c].val /\ m.mine = mine /\ m.before = calls[c].before
    BY <1>4 DEF r
  <2>5. [p EXCEPT !.todo = todo] = Onward(c, pc, todo, calls[c].val, calls[c].mine)
    BY <1>2, <2>2 DEF Onward, LocalRecord
  <2>6. [p EXCEPT !.val = val] = Onward(c, pc, calls[c].todo, val, calls[c].mine)
    BY <1>2, <2>2 DEF Onward, LocalRecord
  <2>7. [v EXCEPT !.pc = pc] = Onward(c, pc, calls[c].todo, val, calls[c].mine)
    BY <1>3, <2>3 DEF Onward, LocalRecord
  <2>8. [m EXCEPT !.todo = todo] = Onward(c, pc, todo, calls[c].val, mine)
    BY <1>4, <2>4 DEF Onward, LocalRecord
  <2> QED
    BY <2>1, <2>5, <2>6, <2>7, <2>8
<1>6. /\ Goes(c, pc) => calls' = [calls EXCEPT ![c] = p]
      /\ Goes2(c, pc, todo) => calls' = [calls EXCEPT ![c] = [p EXCEPT !.todo = todo]]
      /\ calls' = [calls EXCEPT ![c].pc = pc, ![c].val = val] => calls' = [calls EXCEPT ![c] = [p EXCEPT !.val = val]]
      /\ calls' = [calls EXCEPT ![c].val = val, ![c].pc = pc] => calls' = [calls EXCEPT ![c] = [v EXCEPT !.pc = pc]]
      /\ calls' = [calls EXCEPT ![c].pc = pc, ![c].mine = mine, ![c].todo = todo] => calls' = [calls EXCEPT ![c] = [m EXCEPT !.todo = todo]]
  BY <1>1 DEF Goes, Goes2, r, p, v, m
<1> QED
  BY <1>5, <1>6 DEF Moves

\* What a call's step leaves of the types and of the other calls.
LEMMA MovesOn ==
  ASSUME LocalTyped, Shaped, NEW c \in LocalCall, calls[c].pc \notin {"new", "done"},
         NEW pc \in Places, NEW todo \in SUBSET Key, NEW val \in SUBSET LocalCall, NEW mine \in Nat,
         Moves(c, Onward(c, pc, todo, val, mine)), RecordFits(Onward(c, pc, todo, val, mine)),
         near' \in [Key -> LocalCall \cup {Nothing}], far' \in [Key -> LocalCall \cup {Nothing}],
         sets' \in Seq(SUBSET Key), current' \in 0..Len(sets'), Len(sets) <= Len(sets'),
         pc = "walking" => mine \in 1..Len(sets)
  PROVE  LocalTyped' /\ Shaped' /\ Persist
<1> DEFINE r == Onward(c, pc, todo, val, mine)
<1>1. r \in LocalRecord /\ r.op = calls[c].op /\ r.keys = calls[c].keys /\ r.before = calls[c].before /\ r.pc = pc /\ r.mine = mine
  BY LocalRecords DEF Onward, LocalRecord
<1>2. calls \in [LocalCall -> LocalRecord] /\ calls' = [calls EXCEPT ![c] = r] /\ RecordFits(r)
  BY DEF LocalTyped, Moves
<1> HIDE DEF r
<1>3. calls' \in [LocalCall -> LocalRecord] /\ calls'[c] = r /\ \A d \in LocalCall \ {c} : calls'[d] = calls[d]
  BY <1>1, <1>2
<1>4. pc # "new"
  BY <1>1, <1>2 DEF RecordFits, Shaped
<1>5. Persist
  BY <1>1, <1>3, <1>4 DEF Persist
<1>6. Done \subseteq Done'
  BY <1>3 DEF Done
<1>7. Shaped'
  BY <1>1, <1>2, <1>3, <1>6 DEF Shaped
<1>8. Len(sets) \in Nat /\ Len(sets') \in Nat
  BY DEF LocalTyped
<1>9. \A d \in LocalCall : calls'[d].pc = "walking" => calls'[d].mine \in 1..Len(sets')
  BY <1>1, <1>3, <1>8 DEF LocalTyped
<1> QED
  BY <1>3, <1>5, <1>7, <1>9 DEF LocalTyped

LEMMA OneKey ==
  ASSUME LocalTyped, Shaped, NEW c \in LocalCall, calls[c].op \in {"get", "has"}
  PROVE  One(c) \in Key /\ calls[c].keys = {One(c)}
BY DEF Shaped, RecordFits, One

LEMMA PutTyped ==
  ASSUME LocalTyped, NEW K, NEW v \in LocalCall \cup {Nothing}
  PROVE  /\ Put(near, K, v) \in [Key -> LocalCall \cup {Nothing}] /\ Put(far, K, v) \in [Key -> LocalCall \cup {Nothing}]
         /\ \A k \in Key : Put(near, K, v)[k] = (IF k \in K THEN v ELSE near[k]) /\ Put(far, K, v)[k] = (IF k \in K THEN v ELSE far[k])
BY DEF LocalTyped, Put

\* What is to be filled.
Filling(c) == CHOOSE v \in calls[c].val : TRUE
LEMMA FillValue ==
  ASSUME LocalTyped, Shaped, NEW c \in LocalCall, calls[c].pc = "fill"
  PROVE  Filling(c) \in calls[c].val /\ Filling(c) \in LocalCall
BY LocalRecords DEF Shaped, RecordFits, Filling

LEMMA StoreTyped ==
  ASSUME LocalTyped, Shaped, NEW c \in LocalCall, Store(c) \/ StoreNear(c)
  PROVE  LocalTyped' /\ Shaped' /\ Persist
<1> DEFINE next == IF calls[c].op = "set" /\ calls[c].pc = "store" THEN "storeNear" ELSE "index"
<1>1. Goes(c, next) /\ calls[c].pc \in {"store", "storeNear"} /\ next \in Places
  BY DEF Store, StoreNear, Stands, Places
<1>2. /\ near' \in [Key -> LocalCall \cup {Nothing}] /\ far' \in [Key -> LocalCall \cup {Nothing}]
      /\ sets' \in Seq(SUBSET Key) /\ current' \in 0..Len(sets') /\ Len(sets) <= Len(sets')
  BY PutTyped DEF Store, StoreNear, LocalTyped
<1>3. RecordFits(Onward(c, next, calls[c].todo, calls[c].val, calls[c].mine))
  BY <1>1 DEF Shaped, RecordFits, Onward
<1> QED
  BY <1>1, <1>2, <1>3, LocalRecords, Onwards, MovesOn

\* The Set objects only grow.
SetsGrow == Len(sets) <= Len(sets') /\ \A i \in 1..Len(sets) : sets[i] \subseteq sets'[i]

LEMMA IndexSets ==
  ASSUME LocalTyped, NEW c \in LocalCall, NEW k \in Key, Index(c, k)
  PROVE  /\ sets' \in Seq(SUBSET Key) /\ current' \in 0..Len(sets') /\ SetsGrow
         /\ Members \subseteq Members' /\ (k \in Tagged => k \in Members')
<1> USE DEF LocalTyped, SetsGrow, Members
<1>1. CASE k \notin Tagged
  BY <1>1 DEF Index
<1>2. CASE k \in Tagged /\ current = 0
  <2>1. sets' = Append(sets, {k}) /\ current' = Len(sets) + 1
    BY <1>2 DEF Index
  <2>2. sets' \in Seq(SUBSET Key) /\ Len(sets') = Len(sets) + 1 /\ (\A i \in 1..Len(sets) : sets'[i] = sets[i]) /\ sets'[Len(sets) + 1] = {k}
    BY <2>1
  <2> QED
    BY <1>2, <2>1, <2>2
<1>3. CASE k \in Tagged /\ current # 0
  <2>1. sets' = [sets EXCEPT ![current] = @ \cup {k}] /\ current' = current /\ current \in 1..Len(sets)
    BY <1>3 DEF Index
  <2>2. sets[current] \cup {k} \in SUBSET Key
    BY <2>1
  <2>3. sets' \in Seq(SUBSET Key) /\ Len(sets') = Len(sets) /\ (\A i \in 1..Len(sets) : sets'[i] = IF i = current THEN sets[current] \cup {k} ELSE sets[i])
    BY <2>1, <2>2, ExceptSeq
  <2> QED
    BY <1>3, <2>1, <2>3
<1> QED
  BY <1>1, <1>2, <1>3

LEMMA IndexTyped ==
  ASSUME LocalTyped, Shaped, NEW c \in LocalCall, NEW k \in Key, Index(c, k)
  PROVE  LocalTyped' /\ Shaped' /\ Persist
<1> DEFINE next == IF calls[c].todo = {k} THEN "done" ELSE "index"
<1>1. Goes2(c, next, calls[c].todo \ {k}) /\ calls[c].pc = "index" /\ next \in Places /\ near' = near /\ far' = far
  BY DEF Index, Stands, Places
<1>2. sets' \in Seq(SUBSET Key) /\ current' \in 0..Len(sets') /\ Len(sets) <= Len(sets')
  BY IndexSets DEF SetsGrow
<1>3. RecordFits(Onward(c, next, calls[c].todo \ {k}, calls[c].val, calls[c].mine))
  BY <1>1 DEF Shaped, RecordFits, Onward
<1>4. near' \in [Key -> LocalCall \cup {Nothing}] /\ far' \in [Key -> LocalCall \cup {Nothing}] /\ calls[c].todo \ {k} \in SUBSET Key
  BY <1>1, LocalRecords DEF LocalTyped
<1> QED
  BY <1>1, <1>2, <1>3, <1>4, LocalRecords, Onwards, MovesOn

LEMMA ReadTyped ==
  ASSUME LocalTyped, Shaped, NEW c \in LocalCall, ReadNear(c) \/ Read(c) \/ HasNear(c) \/ HasFar(c)
  PROVE  LocalTyped' /\ Shaped' /\ Persist
<1>1. /\ near' \in [Key -> LocalCall \cup {Nothing}] /\ far' \in [Key -> LocalCall \cup {Nothing}]
      /\ sets' \in Seq(SUBSET Key) /\ current' \in 0..Len(sets') /\ Len(sets) <= Len(sets')
  BY DEF ReadNear, Read, HasNear, HasFar, LocalTyped
<1>2. ASSUME NEW next \in Places, NEW val \in SUBSET LocalCall, Moves(c, Onward(c, next, calls[c].todo, val, calls[c].mine)),
             calls[c].pc \in {"readNear", "read", "hasNear", "hasFar"},
             \/ next = "done"
             \/ next = "read" /\ calls[c].op = "get"
             \/ next = "hasFar" /\ calls[c].op = "has"
             \/ next = "fill" /\ calls[c].op = "get" /\ val # {}
      PROVE  LocalTyped' /\ Shaped' /\ Persist
  <2>1. RecordFits(Onward(c, next, calls[c].todo, val, calls[c].mine))
    BY <1>2 DEF Shaped, RecordFits, Onward
  <2> QED
    BY <1>1, <1>2, <2>1, LocalRecords, MovesOn
<1>3. CASE ReadNear(c) /\ near[One(c)] # Nothing
  <2>1. {near[One(c)]} \in SUBSET LocalCall /\ calls[c].pc = "readNear"
    BY <1>3, OneKey DEF ReadNear, Stands, Shaped, RecordFits, LocalTyped
  <2>2. Moves(c, Onward(c, "done", calls[c].todo, {near[One(c)]}, calls[c].mine))
    BY <1>3, <2>1, Onwards DEF ReadNear, Places
  <2> QED
    BY <1>2, <2>1, <2>2 DEF Places
<1>4. CASE ReadNear(c) /\ near[One(c)] = Nothing
  <2>1. Goes(c, "read") /\ calls[c].pc = "readNear" /\ calls[c].op = "get"
    BY <1>4 DEF ReadNear, Stands, Shaped, RecordFits
  <2> QED
    BY <1>2, <2>1, Onwards, LocalRecords DEF Places
<1>5. CASE Read(c)
  <2> DEFINE vals == {far[k] : k \in calls[c].keys} \ {Nothing}
             next == IF calls[c].pc = "read" /\ calls[c].op = "get" /\ vals # {} THEN "fill" ELSE "done"
  <2>1. vals \in SUBSET LocalCall /\ calls[c].pc = "read" /\ next \in Places
    BY <1>5, LocalRecords DEF Read, Stands, LocalTyped, Places
  <2>2. Moves(c, Onward(c, next, calls[c].todo, vals, calls[c].mine))
    <3>1. calls' = [calls EXCEPT ![c].val = vals, ![c].pc = next]
      BY <1>5 DEF Read, LocalTyped
    <3> QED
      BY <2>1, <3>1, Onwards
  <2> QED
    BY <1>2, <2>1, <2>2
<1>6. CASE HasNear(c) \/ HasFar(c)
  <2>1. calls[c].op = "has" /\ calls[c].pc \in {"hasNear", "hasFar"}
    BY <1>6 DEF HasNear, HasFar, Stands, Shaped, RecordFits
  <2>2. near[One(c)] \in LocalCall \cup {Nothing} /\ far[One(c)] \in LocalCall \cup {Nothing}
    BY <2>1, OneKey DEF LocalTyped
  <2>3. ASSUME NEW v \in LocalCall \cup {Nothing}, Answers(c, v)
        PROVE  LocalTyped' /\ Shaped' /\ Persist
    <3>1. {v} \ {Nothing} \in SUBSET LocalCall
      BY <2>3
    <3>2. Moves(c, Onward(c, "done", calls[c].todo, {v} \ {Nothing}, calls[c].mine))
      BY <2>3, <3>1, Onwards DEF Answers, Places
    <3> QED
      BY <1>2, <2>1, <3>1, <3>2 DEF Places
  <2>4. CASE Goes(c, "hasFar")
    <3>1. Moves(c, Onward(c, "hasFar", calls[c].todo, calls[c].val, calls[c].mine)) /\ "hasFar" \in Places
      BY <2>4, Onwards, LocalRecords DEF Places
    <3> QED
      BY <1>2, <2>1, <3>1, LocalRecords
  <2> QED
    <3>1. Answers(c, near[One(c)]) \/ Answers(c, far[One(c)]) \/ Goes(c, "hasFar")
      BY <1>6 DEF HasNear, HasFar
    <3>2. CASE Answers(c, near[One(c)])
      BY <2>2, <2>3, <3>2
    <3>3. CASE Answers(c, far[One(c)])
      BY <2>2, <2>3, <3>3
    <3> QED
      BY <2>4, <3>1, <3>2, <3>3
<1> QED
  BY <1>3, <1>4, <1>5, <1>6

LEMMA FillTyped ==
  ASSUME LocalTyped, Shaped, NEW c \in LocalCall, Fill(c)
  PROVE  LocalTyped' /\ Shaped' /\ Persist
<1>1. Goes(c, "done") /\ calls[c].pc = "fill" /\ near' = Put(near, calls[c].keys, Filling(c)) /\ "done" \in Places
  BY DEF Fill, Stands, Filling, Places
<1>2. /\ near' \in [Key -> LocalCall \cup {Nothing}] /\ far' \in [Key -> LocalCall \cup {Nothing}]
      /\ sets' \in Seq(SUBSET Key) /\ current' \in 0..Len(sets') /\ Len(sets) <= Len(sets')
  <2>1. Filling(c) \in LocalCall \cup {Nothing}
    BY <1>1, FillValue
  <2>2. near' \in [Key -> LocalCall \cup {Nothing}]
    BY <1>1, <2>1, PutTyped
  <2> QED
    BY <2>2 DEF Fill, LocalTyped
<1>3. RecordFits(Onward(c, "done", calls[c].todo, calls[c].val, calls[c].mine))
  BY <1>1 DEF Shaped, RecordFits, Onward
<1> QED
  BY <1>1, <1>2, <1>3, LocalRecords, Onwards, MovesOn

LEMMA DropTyped ==
  ASSUME LocalTyped, Shaped, NEW c \in LocalCall, NEW k \in Key, DropNear(c, k)
  PROVE  LocalTyped' /\ Shaped' /\ Persist
<1> DEFINE next == IF calls[c].todo = {k} THEN "dropFar" ELSE "dropNear"
<1>1. Goes2(c, next, calls[c].todo \ {k}) /\ calls[c].pc = "dropNear" /\ next \in Places /\ calls[c].todo \ {k} \in SUBSET Key
  BY LocalRecords DEF DropNear, Stands, Places
<1>2. /\ near' \in [Key -> LocalCall \cup {Nothing}] /\ far' \in [Key -> LocalCall \cup {Nothing}]
      /\ sets' \in Seq(SUBSET Key) /\ current' \in 0..Len(sets') /\ Len(sets) <= Len(sets')
  BY PutTyped DEF DropNear, LocalTyped
<1>3. RecordFits(Onward(c, next, calls[c].todo \ {k}, calls[c].val, calls[c].mine))
  BY <1>1 DEF Shaped, RecordFits, Onward
<1> QED
  BY <1>1, <1>2, <1>3, LocalRecords, Onwards, MovesOn

LEMMA ClearTyped ==
  ASSUME LocalTyped, Shaped, NEW c \in LocalCall,
         DropFar(c) \/ ClearNear(c) \/ ClearFar(c) \/ ClearTags(c) \/ DropMembers(c) \/ Walked(c) \/ (Walk(c) /\ Members = {})
  PROVE  LocalTyped' /\ Shaped' /\ Persist
<1>1. /\ near' \in [Key -> LocalCall \cup {Nothing}] /\ far' \in [Key -> LocalCall \cup {Nothing}]
      /\ sets' \in Seq(SUBSET Key) /\ current' \in 0..Len(sets') /\ Len(sets) <= Len(sets')
  BY PutTyped DEF DropFar, ClearNear, ClearFar, ClearTags, DropMembers, Walked, Walk, LocalTyped
<1>2. PICK next \in {"done", "clearFar", "clearTags", "walk"} :
        Goes(c, next) /\ (next \in {"clearFar", "clearTags"} => calls[c].op = "clear") /\ (next = "walk" => calls[c].op = "invalidate")
  BY DEF DropFar, ClearNear, ClearFar, ClearTags, DropMembers, Walked, Walk, Stands, Shaped, RecordFits
<1>3. calls[c].pc \notin {"new", "done"} /\ next \in Places /\ next # "walking"
  BY DEF DropFar, ClearNear, ClearFar, ClearTags, DropMembers, Walked, Walk, Stands, Places
<1>4. RecordFits(Onward(c, next, calls[c].todo, calls[c].val, calls[c].mine))
  BY <1>2, <1>3 DEF Shaped, RecordFits, Onward
<1> QED
  BY <1>1, <1>2, <1>3, <1>4, LocalRecords, Onwards, MovesOn

LEMMA WalkTyped ==
  ASSUME LocalTyped, Shaped, NEW c \in LocalCall,
         ReadMembers(c) \/ (Walk(c) /\ Members # {}) \/ \E k \in Key : WalkTo(c, k)
  PROVE  LocalTyped' /\ Shaped' /\ Persist
<1>1. /\ near' \in [Key -> LocalCall \cup {Nothing}] /\ far' \in [Key -> LocalCall \cup {Nothing}]
      /\ sets' \in Seq(SUBSET Key) /\ current' \in 0..Len(sets') /\ Len(sets) <= Len(sets')
  <2>1. CASE ReadMembers(c) \/ (Walk(c) /\ Members # {})
    <3>1. near' = near /\ far' = far /\ sets' = sets /\ current' = current
      BY <2>1 DEF ReadMembers, Walk
    <3> QED
      BY <3>1 DEF LocalTyped
  <2>2. ASSUME NEW k \in Key, WalkTo(c, k)
        PROVE  /\ near' \in [Key -> LocalCall \cup {Nothing}] /\ far' \in [Key -> LocalCall \cup {Nothing}]
               /\ sets' \in Seq(SUBSET Key) /\ current' \in 0..Len(sets') /\ Len(sets) <= Len(sets')
    <3>1. far' = Put(far, {k}, Nothing) /\ near' = near /\ sets' = sets /\ current' = current
      BY <2>2 DEF WalkTo
    <3> QED
      BY <3>1, PutTyped DEF LocalTyped
  <2> QED
    BY <2>1, <2>2
<1>2. calls[c].op = "invalidate" /\ calls[c].pc \notin {"new", "done"}
  BY DEF ReadMembers, Walk, WalkTo, Stands, Shaped, RecordFits
<1>3. ASSUME NEW next \in {"dropMembers", "walking"}, NEW todo \in SUBSET Key, NEW mine \in Nat,
             Moves(c, Onward(c, next, todo, calls[c].val, mine)), next = "walking" => mine \in 1..Len(sets)
      PROVE  LocalTyped' /\ Shaped' /\ Persist
  <2>1. RecordFits(Onward(c, next, todo, calls[c].val, mine)) /\ next \in Places
    BY <1>2, <1>3 DEF Shaped, RecordFits, Onward, Places
  <2> QED
    BY <1>1, <1>2, <1>3, <2>1, LocalRecords, MovesOn
<1>4. Members \in SUBSET Key
  BY DEF Members, LocalTyped
<1>5. CASE ReadMembers(c)
  <2>1. Moves(c, Onward(c, "dropMembers", Members, calls[c].val, calls[c].mine))
    BY <1>4, <1>5, Onwards, LocalRecords DEF ReadMembers, Places
  <2> QED
    BY <1>3, <1>4, <2>1, LocalRecords
<1>6. CASE Walk(c) /\ Members # {}
  <2>1. current \in 1..Len(sets) /\ current \in Nat
    BY <1>6 DEF Members, LocalTyped
  <2>2. Moves(c, Onward(c, "walking", {}, calls[c].val, current))
    <3>1. calls' = [calls EXCEPT ![c].pc = "walking", ![c].mine = current, ![c].todo = {}]
      BY <1>6 DEF Walk
    <3> QED
      BY <2>1, <3>1, Onwards, LocalRecords DEF Places
  <2> QED
    BY <1>3, <2>1, <2>2
<1>7. CASE \E k \in Key : WalkTo(c, k)
  <2>1. PICK k \in Key : WalkTo(c, k)
    BY <1>7
  <2>2. calls[c].mine \in 1..Len(sets) /\ calls[c].todo \cup {k} \in SUBSET Key
    BY <2>1, LocalRecords DEF WalkTo, Stands, LocalTyped
  <2>3. Moves(c, Onward(c, "walking", calls[c].todo \cup {k}, calls[c].val, calls[c].mine))
    BY <2>1, <2>2, Onwards, LocalRecords DEF WalkTo, Places
  <2> QED
    BY <1>3, <2>2, <2>3, LocalRecords
<1> QED
  BY <1>5, <1>6, <1>7

LEMMA StartTyped ==
  ASSUME LocalTyped, Shaped, NEW c \in LocalCall, NEW o \in Operations, NEW K \in SUBSET Key \ {{}}, Start(c, o, K)
  PROVE  /\ LocalTyped' /\ Shaped' /\ Persist /\ calls[c].pc = "new"
         /\ calls' = [calls EXCEPT ![c] = Begun(o, K)] /\ calls'[c].pc = FirstStep(o)
         /\ Done' = Done
<1>1. calls' = [calls EXCEPT ![c] = Begun(o, K)] /\ calls[c].pc = "new"
  BY DEF Start
<1>2. FirstStep(o) \in Places /\ FirstStep(o) \notin {"new", "done", "walking"}
  BY DEF FirstStep, Operations, Writing, Reading, Removing, Places
<1>3. Begun(o, K) \in LocalRecord
  BY <1>2 DEF Begun, LocalRecord, Done
<1>4. calls' \in [LocalCall -> LocalRecord] /\ calls'[c] = Begun(o, K) /\ \A d \in LocalCall \ {c} : calls'[d] = calls[d]
  BY <1>1, <1>3 DEF LocalTyped
<1>5. o \in {"get", "has"} => \E k \in Key : K = {k}
  <2>1. SUFFICES ASSUME o \in {"get", "has"} PROVE \E k \in Key : K = {k}
    OBVIOUS
  <2>2. Cardinality(K) = 1 /\ IsFiniteSet(K)
    BY <2>1, LocalAssumption, FS_Subset DEF Start, Single
  <2> QED
    BY <2>2, FS_Singleton
<1>6. o = "clear" => K = Key
  BY DEF Start
<1>7. RecordFits(Begun(o, K))
  BY <1>2, <1>5, <1>6 DEF RecordFits, Begun, FirstStep, Operations, Writing, Reading, Removing
<1>8. Done' = Done /\ Begun(o, K).pc = FirstStep(o) /\ Begun(o, K).before = Done
  BY <1>1, <1>2, <1>4 DEF Done, Begun
<1>9. Shaped'
  BY <1>4, <1>7, <1>8 DEF Shaped
<1>10. Persist
  BY <1>1, <1>4 DEF Persist
<1>11. LocalTyped'
  BY <1>2, <1>4, <1>8 DEF LocalTyped, Start
<1> QED
  BY <1>1, <1>4, <1>8, <1>9, <1>10, <1>11

LEMMA LocalTypedStep ==
  ASSUME LocalTyped, Shaped, LocalNext
  PROVE  LocalTyped' /\ Shaped' /\ Persist
<1>1. CASE \E k \in Key : Vanish(k)
  <2>1. near' \in [Key -> LocalCall \cup {Nothing}] /\ far' = far /\ sets' = sets /\ current' = current /\ calls' = calls
    BY <1>1, PutTyped DEF Vanish
  <2> QED
    BY <2>1 DEF LocalTyped, Shaped, Persist, Done
<1> QED
  BY <1>1, StoreTyped, IndexTyped, ReadTyped, FillTyped, DropTyped, ClearTyped, WalkTyped, StartTyped DEF LocalNext, Operations

--------------------------------------------------------------------------------
(* What a step makes of the values kept, and what it cannot undo.                        *)

LEMMA SetsOnlyGrow ==
  ASSUME LocalTyped, LocalNext
  PROVE  SetsGrow
<1>1. CASE \E c \in LocalCall, k \in Key : Index(c, k)
  BY <1>1, IndexSets
<1>2. CASE sets' = sets
  <2>1. Len(sets) \in Nat
    BY DEF LocalTyped
  <2> QED
    BY <1>2, <2>1 DEF SetsGrow
<1> QED
  BY <1>1, <1>2 DEF LocalNext, Start, Store, StoreNear, ReadNear, Read, Fill, HasNear, HasFar, DropFar, ClearNear, ClearFar, ClearTags,
     ReadMembers, DropMembers, Walk, Walked, DropNear, WalkTo, Vanish

LEMMA FarAfter ==
  ASSUME LocalTyped, LocalNext, NEW k \in Key
  PROVE  \/ far'[k] = far[k] \/ far'[k] = Nothing
         \/ \E v \in LocalCall : Store(v) /\ far'[k] = v /\ k \in calls[v].keys
<1>1. ASSUME NEW K, NEW v \in LocalCall \cup {Nothing}, far' = Put(far, K, v)
      PROVE  far'[k] = IF k \in K THEN v ELSE far[k]
  BY <1>1, PutTyped
<1>2. CASE \E c \in LocalCall : Store(c)
  <2>1. PICK c \in LocalCall : Store(c)
    BY <1>2
  <2>2. far' = Put(far, calls[c].keys, c)
    BY <2>1 DEF Store
  <2> QED
    BY <1>1, <2>1, <2>2
<1>3. CASE \E K : far' = Put(far, K, Nothing)
  BY <1>1, <1>3
<1>4. CASE far' = far
  BY <1>4
<1> QED
  BY <1>2, <1>3, <1>4 DEF LocalNext, Start, StoreNear, ReadNear, Read, Fill, HasNear, HasFar, DropFar, ClearNear, ClearFar, ClearTags,
     ReadMembers, DropMembers, Walk, Walked, Index, DropNear, WalkTo, Vanish

LEMMA NearAfter ==
  ASSUME LocalTyped, Shaped, LocalNext, NEW k \in Key
  PROVE  \/ near'[k] = near[k] \/ near'[k] = Nothing
         \/ \E v \in LocalCall : StoreNear(v) /\ near'[k] = v /\ k \in calls[v].keys
         \/ \E g \in LocalCall : calls[g].pc = "fill" /\ near'[k] = Filling(g) /\ k \in calls[g].keys
<1>1. ASSUME NEW K, NEW v \in LocalCall \cup {Nothing}, near' = Put(near, K, v)
      PROVE  near'[k] = IF k \in K THEN v ELSE near[k]
  BY <1>1, PutTyped
<1>2. CASE \E c \in LocalCall : StoreNear(c)
  <2>1. PICK c \in LocalCall : StoreNear(c)
    BY <1>2
  <2>2. near' = Put(near, calls[c].keys, c)
    BY <2>1 DEF StoreNear
  <2> QED
    BY <1>1, <2>1, <2>2
<1>3. CASE \E g \in LocalCall : Fill(g)
  <2>1. PICK g \in LocalCall : Fill(g)
    BY <1>3
  <2>2. near' = Put(near, calls[g].keys, Filling(g)) /\ calls[g].pc = "fill"
    BY <2>1 DEF Fill, Filling, Stands
  <2>3. Filling(g) \in LocalCall
    BY <2>2, FillValue
  <2> QED
    BY <1>1, <2>2, <2>3
<1>4. CASE \E K : near' = Put(near, K, Nothing)
  BY <1>1, <1>4
<1>5. CASE near' = near
  BY <1>5
<1> QED
  BY <1>2, <1>3, <1>4, <1>5 DEF LocalNext, Start, Store, ReadNear, Read, HasNear, HasFar, DropFar, ClearNear, ClearFar, ClearTags,
     ReadMembers, DropMembers, Walk, Walked, Index, DropNear, WalkTo, Vanish

\* One call at a time goes on.
Works(c) ==
  \/ Store(c) \/ StoreNear(c) \/ ReadNear(c) \/ Read(c) \/ Fill(c) \/ HasNear(c) \/ HasFar(c) \/ DropFar(c)
  \/ ClearNear(c) \/ ClearFar(c) \/ ClearTags(c) \/ ReadMembers(c) \/ DropMembers(c) \/ Walk(c) \/ Walked(c)
  \/ \E k \in Key : Index(c, k) \/ DropNear(c, k) \/ WalkTo(c, k)

LEMMA OneAtATime ==
  ASSUME LocalNext
  PROVE  \/ \E k \in Key : Vanish(k)
         \/ \E c \in LocalCall, o \in Operations, K \in SUBSET Key \ {{}} : Start(c, o, K)
         \/ \E c \in LocalCall : Works(c)
BY DEF LocalNext, Works, Operations

LEMMA OthersStay ==
  ASSUME NEW c \in LocalCall, Works(c), LocalTyped
  PROVE  calls[c].pc # "new" /\ \A g \in LocalCall \ {c} : calls'[g] = calls[g]
BY DEF Works, LocalTyped, Store, StoreNear, ReadNear, Read, Fill, HasNear, HasFar, DropFar, ClearNear, ClearFar, ClearTags, ReadMembers,
   DropMembers, Walk, Walked, Index, DropNear, WalkTo, Stands, Goes, Goes2, Answers

LEMMA NewStays ==
  ASSUME LocalTyped, LocalNext, NEW g \in LocalCall, calls[g].pc = "new"
  PROVE  calls'[g] = calls[g] \/ \E o \in Operations, K \in SUBSET Key \ {{}} : Start(g, o, K)
<1>1. CASE \E k \in Key : Vanish(k)
  BY <1>1 DEF Vanish
<1>2. ASSUME NEW c \in LocalCall, NEW o \in Operations, NEW K \in SUBSET Key \ {{}}, Start(c, o, K), c # g
      PROVE  calls'[g] = calls[g]
  BY <1>2 DEF Start, LocalTyped
<1> QED
  BY <1>1, <1>2, OneAtATime, OthersStay

\* What a call has read: before, or now.
LEMMA ValAfter ==
  ASSUME LocalTyped, Shaped, LocalNext, NEW g \in LocalCall, calls[g].pc # "new"
  PROVE  /\ \A v \in calls'[g].val : v \in calls[g].val \/ \E k \in calls[g].keys : far[k] = v \/ near[k] = v
         /\ calls'[g].pc = "fill" =>
              \/ calls'[g] = calls[g]
              \/ calls[g].op = "get" /\ \A v \in calls'[g].val : \E k \in calls[g].keys : far[k] = v
<1> USE DEF LocalTyped
<1>1. ASSUME calls[g].op \in {"get", "has"}, calls'[g].pc # "fill", \A v \in calls'[g].val : v \in {near[One(g)], far[One(g)]}
      PROVE  /\ \A v \in calls'[g].val : v \in calls[g].val \/ \E k \in calls[g].keys : far[k] = v \/ near[k] = v
             /\ calls'[g].pc # "fill"
  BY <1>1, OneKey
<1>2. CASE ReadNear(g) /\ near[One(g)] # Nothing
  <2>1. calls' = [calls EXCEPT ![g].pc = "done", ![g].val = {near[One(g)]}] /\ calls[g].op = "get"
    BY <1>2 DEF ReadNear, Stands, Shaped, RecordFits
  <2>2. calls'[g].val = {near[One(g)]} /\ calls'[g].pc = "done"
    BY <2>1, LocalRecords DEF LocalRecord
  <2> QED
    BY <1>1, <2>1, <2>2
<1>3. CASE HasNear(g) /\ near[One(g)] # Nothing
  <2>1. calls' = [calls EXCEPT ![g].pc = "done", ![g].val = {near[One(g)]} \ {Nothing}] /\ calls[g].op = "has"
    BY <1>3 DEF HasNear, Answers, Stands, Shaped, RecordFits
  <2>2. calls'[g].val = {near[One(g)]} \ {Nothing} /\ calls'[g].pc = "done"
    BY <2>1, LocalRecords DEF LocalRecord
  <2> QED
    BY <1>1, <2>1, <2>2
<1>4. CASE HasFar(g)
  <2>1. calls' = [calls EXCEPT ![g].pc = "done", ![g].val = {far[One(g)]} \ {Nothing}] /\ calls[g].op = "has"
    BY <1>4 DEF HasFar, Answers, Stands, Shaped, RecordFits
  <2>2. calls'[g].val = {far[One(g)]} \ {Nothing} /\ calls'[g].pc = "done"
    BY <2>1, LocalRecords DEF LocalRecord
  <2> QED
    BY <1>1, <2>1, <2>2
<1>5. CASE Read(g)
  <2> DEFINE vals == {far[k] : k \in calls[g].keys} \ {Nothing}
             next == IF calls[g].pc = "read" /\ calls[g].op = "get" /\ vals # {} THEN "fill" ELSE "done"
  <2>1. calls' = [calls EXCEPT ![g].val = vals, ![g].pc = next]
    BY <1>5 DEF Read
  <2> HIDE DEF vals
  <2>2. calls'[g].val = vals /\ calls'[g].pc = next
    BY <2>1, LocalRecords DEF LocalRecord
  <2>3. \A v \in vals : \E k \in calls[g].keys : far[k] = v
    BY DEF vals
  <2> QED
    BY <2>2, <2>3
<1>6. ASSUME NEW pc, pc # "fill", Goes(g, pc) \/ \E todo : Goes2(g, pc, todo)
      PROVE  calls'[g].val = calls[g].val /\ calls'[g].pc # "fill"
  BY <1>6, LocalRecords DEF LocalRecord, Goes, Goes2
<1>7. CASE Walk(g)
  <2>1. calls'[g].val = calls[g].val /\ calls'[g].pc \in {"done", "walking"}
    BY <1>7, LocalRecords DEF LocalRecord, Walk, Goes
  <2> QED
    BY <2>1
<1>8. CASE calls'[g] = calls[g]
  BY <1>8
<1>9. CASE \E k \in Key : Index(g, k) \/ DropNear(g, k) \/ WalkTo(g, k)
  <2>1. \E pc \in {"done", "index", "dropFar", "dropNear", "walking"} : \E todo : Goes2(g, pc, todo)
    BY <1>9 DEF Index, DropNear, WalkTo
  <2> QED
    BY <1>6, <2>1
<1>10. CASE \/ Store(g) \/ StoreNear(g) \/ (ReadNear(g) /\ near[One(g)] = Nothing) \/ Fill(g) \/ (HasNear(g) /\ near[One(g)] = Nothing)
            \/ DropFar(g) \/ ClearNear(g) \/ ClearFar(g) \/ ClearTags(g) \/ ReadMembers(g) \/ DropMembers(g) \/ Walked(g)
  <2>1. \E pc \in Places \ {"fill"} : Goes(g, pc) \/ \E todo : Goes2(g, pc, todo)
    BY <1>10 DEF Store, StoreNear, ReadNear, Fill, HasNear, DropFar, ClearNear, ClearFar, ClearTags, ReadMembers, DropMembers, Walked, Places
  <2> QED
    BY <1>6, <2>1
<1>11. ASSUME NEW c \in LocalCall, c # g, \E r : calls' = [calls EXCEPT ![c] = r]
       PROVE  calls'[g] = calls[g]
  BY <1>11
<1>12. ASSUME NEW c \in LocalCall, c # g, Works(c)
       PROVE  calls'[g] = calls[g]
  BY <1>12, OthersStay
<1>13. ASSUME NEW c \in LocalCall, NEW o \in Operations, NEW K \in SUBSET Key \ {{}}, Start(c, o, K)
       PROVE  calls'[g] = calls[g]
  BY <1>11, <1>13 DEF Start
<1>14. CASE \E k \in Key : Vanish(k)
  BY <1>8, <1>14 DEF Vanish
<1>15. CASE Works(g)
  BY <1>2, <1>3, <1>4, <1>5, <1>7, <1>9, <1>10, <1>15 DEF Works
<1> QED
  BY <1>12, <1>13, <1>14, <1>15, OneAtATime

\* What was asked and has begun stays: a write overlapped by a removal remains so, and a get()
\* that began before a removal was over has done so for good.
LEMMA Lasting ==
  ASSUME LocalTyped, Shaped, LocalNext
  PROVE  /\ \A v \in LocalCall : calls[v].pc # "new" /\ Unmet(v)' => Unmet(v)
         /\ \A c \in LocalCall : Carried(c) => Carried(c)'
         /\ AnyGet => AnyGet'
<1>1. Persist
  BY LocalTypedStep
<1>2. \A d \in LocalCall : calls[d].op # "none" => calls[d].pc # "new"
  BY DEF Shaped, RecordFits
<1>3. \A v, d \in LocalCall : Overlap(v, d) => Overlap(v, d)' /\ calls'[d].op = calls[d].op
  BY <1>1 DEF Persist, Overlap
<1>4. \A v \in LocalCall : Unmet(v)' => Unmet(v)
  BY <1>3 DEF Unmet, Is
<1>5. \A g \in LocalCall : calls[g].op = "get" => calls'[g].op = "get" /\ calls'[g].before = calls[g].before
  BY <1>1, <1>2 DEF Persist
<1> QED
  BY <1>4, <1>5 DEF Carried, AnyGet, Is

\* A removal and a write before it have begun, and what is between them stays.
LEMMA RemovalsLast ==
  ASSUME LocalTyped, Shaped, LocalNext, NEW c \in LocalCall, NEW v \in LocalCall, calls[c].pc # "new", Removals(c, v)'
  PROVE  /\ Removals(c, v) /\ Reaches(c, v)' = Reaches(c, v)
         /\ calls[v].pc = "done" /\ calls'[v] = calls[v] /\ Reaches(c, v) \subseteq Key
<1>1. Persist
  BY LocalTypedStep
<1>2. calls'[c].op = calls[c].op /\ calls'[c].keys = calls[c].keys /\ calls'[c].before = calls[c].before
  BY <1>1 DEF Persist
<1>3. v \in Done
  BY <1>2 DEF Removals, Shaped
<1>4. calls[v].pc = "done" /\ calls'[v] = calls[v]
  BY <1>1, <1>3 DEF Done, Persist
<1>5. Unmet(v)' => Unmet(v)
  BY <1>4, Lasting
<1>6. calls[v].keys \subseteq Key
  BY LocalRecords
<1> QED
  BY <1>2, <1>4, <1>5, <1>6 DEF Removals, Reaches, Is

\* What a removal took away does not come back, but by a get() that began before it was over.
LEMMA GoneLasts ==
  ASSUME LocalInv, LocalNext, NEW c \in LocalCall, NEW v \in LocalCall, Removals(c, v), NEW k \in Reaches(c, v), k \in Key
  PROVE  /\ far[k] # v => far'[k] # v
         /\ NearGone(c, v, k) => NearGone(c, v, k)'
<1>1. calls[v].pc = "done" /\ v # Nothing
  BY LocalAssumption DEF LocalInv, Shaped, Removals, Done
<1>2. far[k] # v => far'[k] # v
  BY <1>1, FarAfter DEF LocalInv, Store, Stands
<1>3. Carried(c) => Carried(c)'
  BY Lasting DEF LocalInv
<1>4. ASSUME NEW g \in LocalCall, calls[g].pc = "fill", v = Filling(g), k \in calls[g].keys
      PROVE  Carried(c)
  <2>1. v \in calls[g].val
    BY <1>4, FillValue DEF LocalInv
  <2>2. c \notin calls[g].before
    BY <1>4, <2>1 DEF LocalInv, ReadsLate
  <2>3. Is(g, {"get"})
    BY <1>4 DEF LocalInv, Shaped, RecordFits, Is
  <2> QED
    BY <2>2, <2>3 DEF Carried
<1>5. near'[k] = v => near[k] = v \/ Carried(c)
  BY <1>1, <1>4, NearAfter DEF LocalInv, StoreNear, Stands
<1> QED
  BY <1>2, <1>3, <1>5 DEF NearGone

LEMMA LocatedStep ==
  ASSUME LocalInv, LocalNext
  PROVE  Located'
<1> USE DEF LocalInv
<1>1. Persist /\ LocalTyped' /\ Shaped'
  BY LocalTypedStep
<1>2. \A v \in LocalCall : calls[v].keys # {} => calls'[v].keys = calls[v].keys /\ calls[v].pc # "new"
  BY <1>1 DEF Persist, Shaped, RecordFits
<1>3. ASSUME NEW k \in Key, near'[k] # Nothing
      PROVE  k \in calls'[near'[k]].keys
  <2>1. near[k] = near'[k] => near[k] \in LocalCall /\ k \in calls[near[k]].keys
    BY <1>3 DEF Located, LocalTyped
  <2>2. ASSUME NEW g \in LocalCall, calls[g].pc = "fill", near'[k] = Filling(g), k \in calls[g].keys
        PROVE  Filling(g) \in LocalCall /\ k \in calls[Filling(g)].keys
    BY <2>2, FillValue DEF Located
  <2>3. near'[k] \in LocalCall /\ k \in calls[near'[k]].keys
    BY <1>3, <2>1, <2>2, NearAfter
  <2> QED
    BY <1>2, <2>3
<1>4. ASSUME NEW k \in Key, far'[k] # Nothing
      PROVE  k \in calls'[far'[k]].keys
  <2>1. far[k] = far'[k] => far[k] \in LocalCall /\ k \in calls[far[k]].keys
    BY <1>4 DEF Located, LocalTyped
  <2>2. far'[k] \in LocalCall /\ k \in calls[far'[k]].keys
    BY <1>4, <2>1, FarAfter
  <2> QED
    BY <1>2, <2>2
<1>5. ASSUME NEW g \in LocalCall, calls'[g].pc = "fill", NEW v \in calls'[g].val
      PROVE  calls'[g].keys \subseteq calls'[v].keys
  <2>1. calls[g].pc # "new"
    <3>1. calls[g].pc = "new" /\ calls'[g] # calls[g] => \E o \in Operations, K \in SUBSET Key \ {{}} : Start(g, o, K)
      BY NewStays
    <3>2. ASSUME NEW o \in Operations, NEW K \in SUBSET Key \ {{}}, Start(g, o, K)
          PROVE  calls'[g].pc # "fill"
      BY <3>2, StartTyped DEF FirstStep, Operations, Writing, Reading, Removing
    <3> QED
      BY <1>5, <3>1, <3>2
  <2>2. calls'[g].keys = calls[g].keys
    BY <1>1, <2>1 DEF Persist
  <2>3. CASE calls'[g] = calls[g]
    <3>1. calls[g].keys \subseteq calls[v].keys /\ v \in LocalCall /\ calls[g].keys # {}
      BY <1>5, <2>3, LocalRecords DEF Located, Shaped, RecordFits
    <3> QED
      BY <1>2, <2>2, <3>1
  <2>4. CASE calls[g].op = "get" /\ \A x \in calls'[g].val : \E k \in calls[g].keys : far[k] = x
    <3>1. PICK k \in calls[g].keys : far[k] = v
      BY <1>5, <2>4
    <3>2. calls[g].keys = {k} /\ k \in Key /\ v \in LocalCall
      BY <1>1, <1>5, <2>4, <3>1, OneKey, LocalRecords DEF LocalTyped, LocalRecord
    <3>3. k \in calls[v].keys
      BY <3>1, <3>2, LocalAssumption DEF Located
    <3> QED
      BY <1>2, <2>2, <3>2, <3>3
  <2> QED
    BY <1>5, <2>1, <2>3, <2>4, ValAfter
<1> QED
  BY <1>3, <1>4, <1>5 DEF Located

\* When the index forgets a tag, what the tag's keys held is gone.
LEMMA TagLost ==
  ASSUME LocalInv, LocalNext, NEW v \in LocalCall, Is(v, Writing), Unmet(v), NEW k \in calls[v].keys \cap Tagged, Indexed(v, k),
         k \in Members, k \notin Members'
  PROVE  far'[k] # v /\ (near'[k] = v => AnyGet')
<1> USE DEF LocalInv
<1>1. PICK d \in LocalCall : ClearTags(d) \/ Walked(d)
  <2>1. current' # current \/ sets' # sets
    BY DEF Members
  <2>2. ASSUME NEW c \in LocalCall, NEW n \in Key, Index(c, n) PROVE FALSE
    BY <2>2, IndexSets
  <2>3. ASSUME NEW c \in LocalCall, Walk(c) PROVE FALSE
    BY <2>1, <2>3 DEF Walk
  <2>4. CASE \E n \in Key : Vanish(n)
    BY <2>1, <2>4 DEF Vanish
  <2>5. CASE \E c \in LocalCall, o \in Operations, K \in SUBSET Key \ {{}} : Start(c, o, K)
    BY <2>1, <2>5 DEF Start
  <2>6. ASSUME NEW c \in LocalCall, Works(c) PROVE ClearTags(c) \/ Walked(c)
    BY <2>1, <2>2, <2>3, <2>6 DEF Works, Store, StoreNear, ReadNear, Read, Fill, HasNear, HasFar, DropFar, ClearNear, ClearFar,
       ReadMembers, DropMembers, DropNear, WalkTo
  <2> QED
    BY <2>4, <2>5, <2>6, OneAtATime
<1>2. near' = near /\ far' = far
  BY <1>1 DEF ClearTags, Walked
<1>3. Is(d, {"invalidate", "clear"}) /\ calls[d].pc \in {"clearTags", "walking"} /\ d # v
  BY <1>1 DEF ClearTags, Walked, Stands, Shaped, RecordFits, Is, Writing
<1>4. v \in calls[d].before
  <2>1. calls[v].pc # "new" /\ calls[d].pc # "new" /\ d \notin calls[v].before
    BY <1>3 DEF Indexed, Shaped, Done
  <2> QED
    BY <1>3, <2>1 DEF Unmet, Overlap
<1>5. Removals(d, v)
  BY <1>3, <1>4 DEF Removals, Is, Removing
<1>6. k \in Reaches(d, v)
  <2>1. k \in Key
    BY LocalRecords
  <2> QED
    BY <1>3, <2>1 DEF Reaches, Is, Shaped, RecordFits
<1>7. Takes(d, v, k)
  BY <1>5, <1>6 DEF RemovalsWork
<1>8. far[k] # v
  BY <1>1, <1>7 DEF Takes, ClearTags, Walked, Stands
<1>9. near[k] = v => AnyGet
  BY <1>3, <1>7 DEF Takes, NearGone, Carried, AnyGet
<1> QED
  BY <1>2, <1>8, <1>9, Lasting

LEMMA KnownStep ==
  ASSUME LocalInv, LocalNext
  PROVE  KnownOrGone'
<1> USE DEF LocalInv
<1>1. Persist /\ LocalTyped' /\ Shaped'
  BY LocalTypedStep
<1>2. SUFFICES ASSUME NEW v \in LocalCall, Is(v, Writing)', Unmet(v)', NEW k \in Key, k \in calls'[v].keys \cap Tagged, Indexed(v, k)'
               PROVE  k \in Members' \/ (far'[k] # v /\ (near'[k] = v => AnyGet'))
  <2>1. \A v \in LocalCall : calls'[v].keys \subseteq Key
    BY <1>1 DEF LocalTyped, LocalRecord
  <2> QED
    BY <2>1 DEF KnownOrGone
<1>3. calls[v].pc # "new"
  <2>1. ASSUME NEW o \in Operations, NEW K \in SUBSET Key \ {{}}, Start(v, o, K)
        PROVE  calls'[v].pc \notin {"index", "done"}
    BY <2>1, StartTyped DEF FirstStep, Operations, Writing, Reading, Removing
  <2>2. calls'[v].pc \in {"index", "done"} /\ calls'[v].pc # "new"
    BY <1>2 DEF Indexed
  <2> QED
    BY <2>1, <2>2, NewStays
<1>4. Is(v, Writing) /\ Unmet(v) /\ calls[v].keys = calls'[v].keys
  BY <1>1, <1>2, <1>3, Lasting DEF Persist, Is
<1>5. CASE Indexed(v, k)
  <2>1. calls[v].pc \in {"done", "index"} /\ v # Nothing
    BY <1>5, LocalAssumption DEF Indexed
  <2>2. far[k] # v => far'[k] # v
    BY <2>1, FarAfter DEF Store, Stands
  <2>3. near'[k] = v => near[k] = v \/ AnyGet
    <3>1. \A g \in LocalCall : calls[g].pc = "fill" => Is(g, {"get"})
      BY DEF Shaped, RecordFits, Is
    <3> QED
      BY <2>1, <3>1, NearAfter DEF StoreNear, Stands, AnyGet
  <2>4. CASE k \in Members
    BY <1>2, <1>4, <1>5, <2>4, TagLost
  <2>5. CASE k \notin Members
    <3>1. far[k] # v /\ (near[k] = v => AnyGet)
      BY <1>2, <1>4, <1>5, <2>5 DEF KnownOrGone
    <3> QED
      BY <2>2, <2>3, <3>1, Lasting
  <2> QED
    BY <2>4, <2>5
<1>6. CASE ~Indexed(v, k)
  <2>1. calls'[v] # calls[v]
    BY <1>2, <1>6 DEF Indexed
  <2>2. Works(v)
    <3>1. ~\E n \in Key : Vanish(n)
      BY <2>1 DEF Vanish
    <3>2. ASSUME NEW c \in LocalCall, NEW o \in Operations, NEW K \in SUBSET Key \ {{}}, Start(c, o, K) PROVE FALSE
      BY <1>3, <2>1, <3>2 DEF Start, LocalTyped
    <3> QED
      BY <2>1, <3>1, <3>2, OneAtATime, OthersStay
  <2>3. calls[v].pc \in {"store", "storeNear", "index"}
    <3>1. RecordFits(calls[v]) /\ calls[v].op \in Writing /\ calls[v].pc \in Places /\ calls[v].pc # "done"
      BY <1>4, <1>6, LocalRecords DEF Shaped, Is, Indexed
    <3> QED
      BY <1>3, <3>1 DEF RecordFits, Writing, Places
  <2>4. (\E n \in Key : Index(v, n)) \/ Store(v) \/ StoreNear(v)
    BY <2>2, <2>3 DEF Works, ReadNear, Read, Fill, HasNear, HasFar, DropFar, ClearNear, ClearFar, ClearTags, ReadMembers, DropMembers,
       Walk, Walked, DropNear, WalkTo, Stands
  <2>5. CASE Store(v) \/ StoreNear(v)
    <3>1. \E pc \in {"storeNear", "index"} : Goes(v, pc)
      BY <2>5 DEF Store, StoreNear
    <3>2. calls'[v].pc # "done" /\ calls'[v].todo = calls[v].todo
      BY <3>1, LocalRecords DEF Goes, LocalTyped, LocalRecord
    <3>3. k \in calls[v].todo
      BY <1>2, <1>4, <2>5 DEF Store, StoreNear, Stands, Shaped, RecordFits
    <3> QED
      BY <1>2, <3>2, <3>3 DEF Indexed
  <2>6. ASSUME NEW n \in Key, Index(v, n)
        PROVE  k \in Members'
    <3>1. Goes2(v, IF calls[v].todo = {n} THEN "done" ELSE "index", calls[v].todo \ {n}) /\ calls[v].pc = "index"
      BY <2>6 DEF Index, Stands
    <3>2. /\ calls'[v].todo = calls[v].todo \ {n}
          /\ calls'[v].pc = IF calls[v].todo = {n} THEN "done" ELSE "index"
      BY <3>1, LocalRecords DEF Goes2, LocalTyped, LocalRecord
    <3>3. k = n /\ k \in Tagged
      BY <1>2, <1>6, <3>1, <3>2 DEF Indexed
    <3> QED
      BY <2>6, <3>3, IndexSets
  <2> QED
    BY <2>4, <2>5, <2>6
<1> QED
  BY <1>5, <1>6

\* A removal that has not ended meets only get()s that began before it was over.
LEMMA CarriedBefore ==
  ASSUME LocalTyped, Shaped, NEW c \in LocalCall, calls[c].pc # "done", AnyGet
  PROVE  Carried(c)
BY DEF Shaped, Done, AnyGet, Carried

LEMMA RemovalsStep ==
  ASSUME LocalInv, LocalNext
  PROVE  RemovalsWork'
<1> USE DEF LocalInv
<1>1. Persist /\ LocalTyped' /\ Shaped'
  BY LocalTypedStep
<1>2. SUFFICES ASSUME NEW c \in LocalCall, NEW v \in LocalCall, Removals(c, v)', NEW k \in Key, k \in Reaches(c, v)'
               PROVE  Takes(c, v, k)'
  <2>1. \A x \in LocalCall : calls'[x].keys \subseteq Key
    BY <1>1 DEF LocalTyped, LocalRecord
  <2> QED
    BY <2>1 DEF RemovalsWork, Reaches
<1>3. CASE calls[c].pc = "new"
  <2>1. PICK o \in Operations, K \in SUBSET Key \ {{}} : Start(c, o, K)
    <3>1. calls[c].op = "none"
      BY <1>3 DEF Shaped, RecordFits
    <3>2. calls'[c].op # "none"
      BY <1>2 DEF Removals, Is, Removing
    <3> QED
      BY <1>3, <3>1, <3>2, NewStays
  <2>2. calls' = [calls EXCEPT ![c] = Begun(o, K)] /\ calls'[c] = Begun(o, K)
    BY <2>1, StartTyped DEF LocalTyped
  <2>3. calls'[c].op = o /\ calls'[c].todo = K /\ calls'[c].keys = K /\ calls'[c].pc = FirstStep(o) /\ o \in Removing
    BY <1>2, <2>2 DEF Begun, Removals, Is
  <2>4. calls'[c].pc = "dropNear" => k \in calls'[c].todo
    BY <1>2, <2>3 DEF Reaches, Is, FirstStep, Removing, Writing
  <2>5. calls'[c].pc \in {"dropNear", "clearNear", "members"}
    BY <2>3 DEF FirstStep, Removing, Writing
  <2> QED
    BY <2>4, <2>5 DEF Takes
<1>4. CASE calls[c].pc # "new"
  <2>1. Removals(c, v) /\ k \in Reaches(c, v) /\ calls[v].pc = "done" /\ Takes(c, v, k)
    BY <1>2, <1>4, RemovalsLast DEF RemovalsWork
  <2>2. (far[k] # v => far'[k] # v) /\ (NearGone(c, v, k) => NearGone(c, v, k)')
    BY <2>1, GoneLasts
  <2>3. SetsGrow
    BY SetsOnlyGrow
  <2>4. CASE calls'[c] = calls[c]
    <3>1. calls[c].pc = "walking" => sets[calls[c].mine] \subseteq sets'[calls[c].mine]
      BY <2>3 DEF SetsGrow, LocalTyped
    <3> QED
      BY <2>1, <2>2, <2>4, <3>1 DEF Takes
  <2>5. CASE calls'[c] # calls[c]
    <3>1. Works(c)
      <4>1. ~\E n \in Key : Vanish(n)
        BY <2>5 DEF Vanish
      <4>2. ASSUME NEW d \in LocalCall, NEW o \in Operations, NEW K \in SUBSET Key \ {{}}, Start(d, o, K) PROVE FALSE
        BY <1>4, <2>5, <4>2 DEF Start, LocalTyped
      <4> QED
        BY <2>5, <4>1, <4>2, OneAtATime, OthersStay
    <3>2. v # Nothing
      BY LocalAssumption
    <3>3. ASSUME NEW pc \in Places, NEW todo, Goes(c, pc) \/ Goes2(c, pc, todo)
          PROVE  /\ calls'[c].pc = pc /\ calls'[c].mine = calls[c].mine
                 /\ Goes(c, pc) => calls'[c].todo = calls[c].todo
                 /\ Goes2(c, pc, todo) => calls'[c].todo = todo
      BY <3>3, LocalRecords DEF Goes, Goes2, LocalTyped, LocalRecord
    <3>4. ASSUME NEW n \in Key, DropNear(c, n)
          PROVE  Takes(c, v, k)'
      <4>1. /\ calls'[c].pc = IF calls[c].todo = {n} THEN "dropFar" ELSE "dropNear"
            /\ calls'[c].todo = calls[c].todo \ {n} /\ calls[c].pc = "dropNear"
        BY <3>3, <3>4 DEF DropNear, Stands, Places
      <4>2. n = k => near'[k] # v
        BY <3>2, <3>4, PutTyped DEF DropNear
      <4>3. k \in calls[c].todo \ {n} \/ NearGone(c, v, k)'
        BY <2>1, <2>2, <4>1, <4>2 DEF Takes, NearGone
      <4> QED
        BY <4>1, <4>3 DEF Takes
    <3>5. CASE DropFar(c)
      <4>1. calls'[c].pc = "done" /\ calls[c].pc = "dropFar"
        BY <3>3, <3>5 DEF DropFar, Stands, Places
      <4>2. k \in calls[c].keys
        BY <2>1, <4>1 DEF Reaches, Is, Shaped, RecordFits
      <4>3. far'[k] # v
        BY <3>2, <3>5, <4>2, PutTyped DEF DropFar
      <4> QED
        BY <2>1, <2>2, <4>1, <4>3 DEF Takes
    <3>6. CASE ClearNear(c)
      <4>1. calls'[c].pc = "clearFar"
        BY <3>3, <3>6 DEF ClearNear, Places
      <4>2. near'[k] # v
        BY <3>2, <3>6, PutTyped DEF ClearNear
      <4> QED
        BY <4>1, <4>2 DEF Takes, NearGone
    <3>7. CASE ClearFar(c)
      <4>1. calls'[c].pc = "clearTags" /\ calls[c].pc = "clearFar"
        BY <3>3, <3>7 DEF ClearFar, Stands, Places
      <4>2. far'[k] # v
        BY <3>2, <3>7, PutTyped DEF ClearFar
      <4> QED
        BY <2>1, <2>2, <4>1, <4>2 DEF Takes
    <3>8. CASE ClearTags(c)
      <4>1. calls'[c].pc = "done" /\ calls[c].pc = "clearTags"
        BY <3>3, <3>8 DEF ClearTags, Stands, Places
      <4> QED
        BY <2>1, <2>2, <4>1 DEF Takes
    <3>9. CASE ReadMembers(c)
      <4>1. calls'[c].pc = "dropMembers" /\ calls'[c].todo = Members /\ calls[c].pc = "members"
        BY <3>3, <3>9 DEF ReadMembers, Stands, Places
      <4>2. k \in calls[v].keys \cap Tagged /\ Indexed(v, k) /\ Is(v, Writing) /\ Unmet(v)
        BY <2>1, <4>1 DEF Reaches, Is, Shaped, RecordFits, Indexed, Removals
      <4>3. k \in Members \/ (near[k] = v => AnyGet)
        BY <4>2 DEF KnownOrGone
      <4>4. k \in Members \/ NearGone(c, v, k)
        BY <4>1, <4>3, CarriedBefore DEF NearGone
      <4> QED
        BY <2>2, <4>1, <4>4 DEF Takes
    <3>10. CASE DropMembers(c)
      <4>1. calls'[c].pc = "walk" /\ calls[c].pc = "dropMembers"
        BY <3>3, <3>10 DEF DropMembers, Stands, Places
      <4>2. k \in calls[c].todo => near'[k] # v
        BY <3>2, <3>10, PutTyped DEF DropMembers
      <4> QED
        BY <2>1, <2>2, <4>1, <4>2 DEF Takes, NearGone
    <3>11. CASE Walk(c)
      <4>1. calls[c].pc = "walk"
        BY <3>11 DEF Walk, Stands
      <4>2. k \in calls[v].keys \cap Tagged /\ Indexed(v, k) /\ Is(v, Writing) /\ Unmet(v)
        BY <2>1, <4>1 DEF Reaches, Is, Shaped, RecordFits, Indexed, Removals
      <4>3. k \in Members \/ far[k] # v
        BY <4>2 DEF KnownOrGone
      <4>4. NearGone(c, v, k)'
        BY <2>1, <2>2, <4>1 DEF Takes
      <4>5. CASE Members = {}
        <5>1. calls'[c].pc = "done"
          BY <3>3, <3>11, <4>5 DEF Walk, Places
        <5> QED
          BY <2>2, <4>3, <4>4, <4>5, <5>1 DEF Takes
      <4>6. CASE Members # {}
        <5>1. calls' = [calls EXCEPT ![c].pc = "walking", ![c].mine = current, ![c].todo = {}] /\ sets' = sets /\ far' = far
          BY <3>11, <4>6 DEF Walk
        <5>2. calls'[c].pc = "walking" /\ calls'[c].mine = current /\ calls'[c].todo = {}
          BY <5>1, LocalRecords DEF LocalTyped, LocalRecord
        <5>3. Members = sets[current]
          BY <4>6 DEF Members
        <5> QED
          BY <4>3, <4>4, <5>1, <5>2, <5>3 DEF Takes
      <4> QED
        BY <4>5, <4>6
    <3>12. ASSUME NEW n \in Key, WalkTo(c, n)
           PROVE  Takes(c, v, k)'
      <4>1. /\ calls'[c].pc = "walking" /\ calls'[c].todo = calls[c].todo \cup {n} /\ calls'[c].mine = calls[c].mine
            /\ calls[c].pc = "walking" /\ sets' = sets
        BY <3>3, <3>12 DEF WalkTo, Stands, Places
      <4>2. n = k => far'[k] # v
        BY <3>2, <3>12, PutTyped DEF WalkTo
      <4> QED
        BY <2>1, <2>2, <4>1, <4>2 DEF Takes
    <3>13. CASE Walked(c)
      <4>1. calls'[c].pc = "done" /\ calls[c].pc = "walking" /\ sets[calls[c].mine] \subseteq calls[c].todo
        BY <3>3, <3>13 DEF Walked, Stands, Places
      <4> QED
        BY <2>1, <2>2, <4>1 DEF Takes
    <3>14. calls[c].pc \notin {"store", "storeNear", "index", "readNear", "read", "fill", "hasNear", "hasFar"}
      BY <2>1 DEF Removals, Is, Removing, Writing, Shaped, RecordFits
    <3> QED
      BY <3>1, <3>4, <3>5, <3>6, <3>7, <3>8, <3>9, <3>10, <3>11, <3>12, <3>13, <3>14
      DEF Works, Store, StoreNear, ReadNear, Read, Fill, HasNear, HasFar, Index, Stands
  <2> QED
    BY <2>4, <2>5
<1> QED
  BY <1>3, <1>4

LEMMA ReadsStep ==
  ASSUME LocalInv, LocalNext
  PROVE  ReadsLate'
<1> USE DEF LocalInv
<1>1. Persist /\ LocalTyped' /\ Shaped'
  BY LocalTypedStep
<1>2. SUFFICES ASSUME NEW c \in LocalCall, NEW v \in LocalCall, NEW g \in LocalCall, Removals(c, v)', c \in calls'[g].before
               PROVE  /\ calls'[g].pc = "fill" => \A k \in Reaches(c, v)' \cap calls'[g].keys : v \notin calls'[g].val
                      /\ Is(g, Reading)' /\ calls'[v].keys = Reaches(c, v)' /\ v \in calls'[g].val => Carried(c)'
  BY DEF ReadsLate
<1>3. CASE calls[g].pc = "new"
  <2>1. CASE calls'[g] = calls[g]
    <3>1. calls'[g].pc = "new" /\ calls'[g].op = "none"
      BY <1>3, <2>1 DEF Shaped, RecordFits
    <3> QED
      BY <3>1 DEF Is, Reading
  <2>2. ASSUME NEW o \in Operations, NEW K \in SUBSET Key \ {{}}, Start(g, o, K)
        PROVE  calls'[g].val = {}
    <3>1. calls'[g] = Begun(o, K)
      <4>1. calls' = [calls EXCEPT ![g] = Begun(o, K)]
        BY <2>2 DEF Start
      <4> QED
        BY <4>1 DEF LocalTyped
    <3> QED
      BY <3>1 DEF Begun
  <2> QED
    BY <1>3, <2>1, <2>2, NewStays
<1>4. CASE calls[g].pc # "new"
  <2>1. calls'[g].before = calls[g].before /\ calls'[g].keys = calls[g].keys /\ calls'[g].op = calls[g].op
    BY <1>1, <1>4 DEF Persist
  <2>2. calls[c].pc = "done"
    BY <1>2, <2>1 DEF Shaped, Done
  <2>3. Removals(c, v) /\ Reaches(c, v)' = Reaches(c, v) /\ calls[v].pc = "done" /\ calls'[v] = calls[v] /\ Reaches(c, v) \subseteq Key
    BY <1>2, <2>2, RemovalsLast
  <2>4. \A k \in Reaches(c, v) : far[k] # v /\ NearGone(c, v, k)
    BY <2>2, <2>3 DEF RemovalsWork, Takes
  <2>5. Carried(c) => Carried(c)'
    BY Lasting
  <2>6. ASSUME calls'[g].pc = "fill", NEW k \in Reaches(c, v) \cap calls[g].keys
        PROVE  v \notin calls'[g].val
    <3>1. CASE calls'[g] = calls[g]
      BY <1>2, <2>1, <2>3, <2>6, <3>1 DEF ReadsLate
    <3>2. CASE calls[g].op = "get" /\ \A x \in calls'[g].val : \E n \in calls[g].keys : far[n] = x
      BY <2>4, <2>6, <3>2, OneKey
    <3> QED
      BY <1>4, <2>6, <3>1, <3>2, ValAfter
  <2>7. ASSUME Is(g, Reading), calls[v].keys = Reaches(c, v), v \in calls'[g].val
        PROVE  Carried(c)
    <3>1. CASE v \in calls[g].val
      BY <1>2, <2>1, <2>3, <2>7, <3>1 DEF ReadsLate
    <3>2. CASE \E k \in calls[g].keys : far[k] = v \/ near[k] = v
      <4>1. PICK k \in calls[g].keys : far[k] = v \/ near[k] = v
        BY <3>2
      <4>2. k \in Key /\ v # Nothing
        BY LocalRecords, LocalAssumption
      <4>3. k \in calls[v].keys
        BY <4>1, <4>2 DEF Located
      <4> QED
        BY <2>4, <2>7, <4>1, <4>3 DEF NearGone
    <3> QED
      BY <1>4, <2>7, <3>1, <3>2, ValAfter
  <2> QED
    BY <2>1, <2>3, <2>5, <2>6, <2>7 DEF Is
<1> QED
  BY <1>3, <1>4

LEMMA LocalStart == LocalInit => LocalInv
<1> SUFFICES ASSUME LocalInit PROVE LocalInv
  OBVIOUS
<1>1. Unbegun \in LocalRecord /\ RecordFits(Unbegun)
  BY DEF Unbegun, LocalRecord, Places, RecordFits
<1>2. calls = [c \in LocalCall |-> Unbegun] /\ sets = <<>> /\ Len(sets) = 0
  BY DEF LocalInit
<1>3. \A c \in LocalCall : calls[c] = Unbegun
  BY <1>2
<1>4. LocalTyped
  BY <1>1, <1>2 DEF LocalTyped, LocalInit, Unbegun
<1>5. Shaped
  BY <1>1, <1>3 DEF Shaped, Unbegun
<1>6. Located
  BY <1>3 DEF Located, LocalInit, Unbegun
<1>7. \A c \in LocalCall : ~Is(c, Writing) /\ ~Is(c, Removing)
  BY <1>3 DEF Is, Unbegun, Writing, Removing
<1>8. KnownOrGone /\ RemovalsWork /\ ReadsLate
  BY <1>7 DEF KnownOrGone, RemovalsWork, ReadsLate, Removals
<1> QED
  BY <1>4, <1>5, <1>6, <1>8 DEF LocalInv

LEMMA LocalInvariant == LocalSpec => []LocalInv
<1>1. LocalInv /\ [LocalNext]_localVars => LocalInv'
  <2> SUFFICES ASSUME LocalInv, [LocalNext]_localVars PROVE LocalInv'
    OBVIOUS
  <2>1. CASE LocalNext
    BY <2>1, LocalTypedStep, LocatedStep, KnownStep, RemovalsStep, ReadsStep DEF LocalInv
  <2>2. CASE UNCHANGED localVars
    <3>1. near' = near /\ far' = far /\ sets' = sets /\ current' = current /\ calls' = calls
      BY <2>2 DEF localVars
    <3>2. LocalTyped' /\ Shaped' /\ Located' /\ KnownOrGone'
      BY <3>1 DEF LocalInv, LocalTyped, Shaped, Located, KnownOrGone, AnyGet, Unmet, Overlap, Indexed, Members, Done, Is
    <3>3. \A c, v \in LocalCall : Removals(c, v)' = Removals(c, v) /\ Reaches(c, v)' = Reaches(c, v) /\ Carried(c)' = Carried(c)
      BY <3>1 DEF Removals, Unmet, Overlap, Is, Reaches, Carried
    <3>4. RemovalsWork'
      BY <3>1, <3>3 DEF LocalInv, RemovalsWork, Takes, NearGone
    <3>5. ReadsLate'
      BY <3>1, <3>3 DEF LocalInv, ReadsLate, Is
    <3> QED
      BY <3>2, <3>4, <3>5 DEF LocalInv
  <2> QED
    BY <2>1, <2>2
<1> QED
  BY <1>1, LocalStart, PTL DEF LocalSpec

\* In mode l1-only a value that was written before a removal began, by a write that no removal by tag and
\* no clear() overlaps, is gone when the removal is over, unless a get() that began earlier carries it over.
THEOREM RemovalsAreFinal == LocalSpec => []RemovedForGood
<1>1. LocalInv => RemovedForGood
  <2> SUFFICES ASSUME LocalInv, NEW c \in Done, Is(c, Removing), NEW v \in calls[c].before, Is(v, Writing), Unmet(v)
               PROVE  /\ \A k \in Reaches(c, v) : far[k] # v
                      /\ \A k \in Reaches(c, v) : near[k] = v => Carried(c)
                      /\ \A g \in Done : c \in calls[g].before /\ Is(g, Reading) /\ calls[v].keys = Reaches(c, v) /\ v \in calls[g].val
                           => \E h \in LocalCall \ {g} : Is(h, {"get"}) /\ c \notin calls[h].before
    BY DEF RemovedForGood, Unmet, Carried
  <2>1. c \in LocalCall /\ calls[c].pc = "done" /\ v \in LocalCall
    BY LocalRecords DEF LocalInv, Done
  <2>2. Removals(c, v)
    BY DEF Removals
  <2>3. \A k \in Reaches(c, v) : far[k] # v /\ (near[k] = v => Carried(c))
    BY <2>1, <2>2 DEF LocalInv, RemovalsWork, Takes, NearGone
  <2>4. ASSUME NEW g \in Done, c \in calls[g].before, Is(g, Reading), calls[v].keys = Reaches(c, v), v \in calls[g].val
        PROVE  \E h \in LocalCall \ {g} : Is(h, {"get"}) /\ c \notin calls[h].before
    <3>1. Carried(c)
      BY <2>1, <2>2, <2>4 DEF LocalInv, ReadsLate, Done
    <3> QED
      BY <2>4, <3>1 DEF Carried
  <2> QED
    BY <2>3, <2>4
<1> QED
  BY <1>1, LocalInvariant, PTL
================================================================================
