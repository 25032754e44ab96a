---------------------------- MODULE DistributedLock ----------------------------
(* @nestjs-redisx/locks: LockService, the Lock entity, RedisLockStoreAdapter   *)
(* and its Lua scripts, for one lock key shared by several processes.          *)
(*                                                                             *)
(* A handle is one acquire()/tryAcquire() call with the token it generated and *)
(* the Lock it may return. Every Redis command is three steps: the call that   *)
(* sends it, its execution by Redis, and the continuation after the await; the *)
(* connection may fail in between, and a command given up by its caller may    *)
(* still be executed later. Time is relative: every timer is a countdown that  *)
(* Tick decrements, so the state space is finite without a bound on the clock. *)
EXTENDS Integers, FiniteSets

CONSTANTS
  Service,        \* application processes, each with one LockService
  Handle,         \* the acquire calls of a behaviour (each is its own token)
  Home,           \* Handle -> Service, the process that makes the call
  Scoped,         \* handles taken by withLock(), released once when fn settles
  Retrying,       \* handles taken by acquire(); the others by tryAcquire()
  Renewed,        \* handles whose autoRenew option is on
  Extending,      \* handles whose caller calls lock.extend() itself
  NoOwner,        \* the lock key is absent
  Ttl,            \* options.ttl after resolveTtl
  ExtendTtls,     \* the ttl arguments users give to extend()
  RenewEvery,     \* ttl * autoRenew.intervalFraction
  MaxRetries, InitialDelay, MaxDelay, Multiplier,   \* retry configuration
  WaitTimeout,    \* options.waitTimeout
  MaxFaults,      \* BOUND: how many commands fail, processes crash, keys are forced out
  Rtt, Lag        \* prompt: round trips take at most Rtt, timers lag at most Lag

ASSUME LockAssumption ==
  /\ Home \in [Handle -> Service]
  /\ Scoped \subseteq Handle /\ Retrying \subseteq Handle /\ Renewed \subseteq Handle
  /\ Extending \subseteq Handle
  /\ Scoped \subseteq Retrying
  /\ NoOwner \notin Handle
  /\ Ttl \in Nat \ {0} /\ ExtendTtls \subseteq Nat \ {0}
  /\ RenewEvery \in Nat \ {0}
  /\ MaxFaults \in Nat
  /\ MaxRetries \in Nat /\ InitialDelay \in Nat \ {0} /\ MaxDelay \in Nat \ {0}
  /\ Multiplier \in Nat \ {0} /\ WaitTimeout \in Nat
  /\ Rtt \in Nat /\ Lag \in Nat

\* For instances: all calls in one process.
OneProcess == [h \in Handle |-> CHOOSE s \in Service : TRUE]

VARIABLES
  owner,      \* the token under the lock key in Redis, or NoOwner
  ttlLeft,    \* the time until the key expires, 0 when it is absent or never expires
  call,       \* the Redis command in flight for each handle and operation
  pc,         \* where each acquire call stands
  retry,      \* acquire()'s loop variables, and the time left of its sleep
  released,   \* Lock.released
  renewing,   \* Lock.autoRenewTimer # null
  renewIn,    \* time until that interval fires
  expiresIn,  \* Lock._expiresAt minus now
  result,     \* how the last release() of the caller ended
  active,     \* LockService.activeLocks
  gauge,      \* the redisx_locks_active gauge
  stage,      \* where each process stands in its shutdown
  faults,     \* failures so far
  \* History of a handle, read by no action.
  lease,      \* what is left of Ttl since its last confirmed command was sent
  letGo,      \* a release of it has been sent
  evicted,    \* forceRelease() took the key from it
  lost,       \* it has owned the key and lost it
  prompt      \* no round trip took longer than Rtt, no timer lagged more than Lag

redisVars  == <<owner, ttlLeft>>
entityVars == <<released, renewing, renewIn, expiresIn, result>>
serviceVars == <<active, gauge, stage>>
ghostVars  == <<faults, lease, letGo, evicted, lost, prompt>>
timerVars == <<renewing, renewIn>>
vars == <<redisVars, call, pc, retry, entityVars, serviceVars, ghostVars>>

Op == {"acquire", "release", "destroy", "renew", "extend"}
Timed == {"acquire", "renew", "extend"}   \* the commands whose age decides anything
Status == {"idle", "sent", "orphan", "yes", "no"}
Idle == [st |-> "idle", age |-> 0, ttl |-> 0]
NoLoop == [attempt |-> 0, delay |-> 0, wakeIn |-> 0, waited |-> 0]
Sent(d) == [st |-> "sent", age |-> 0, ttl |-> d]
Ttls == ExtendTtls \cup {Ttl}
Cell == [st : Status, age : 0..Ttl, ttl : Ttls \cup {0}]
Delays == {InitialDelay} \cup 0..MaxDelay
MaxSleep == IF InitialDelay > MaxDelay THEN InitialDelay ELSE MaxDelay
Loop == [attempt : Nat, delay : Delays, wakeIn : 0..MaxSleep, waited : 0..WaitTimeout]

Least(a, b) == IF a <= b THEN a ELSE b
Less1(n) == IF n > 0 THEN n - 1 ELSE 0

\* store.acquire(): SET key token NX PX ttl.
SetWithoutPx == Sent(0)
SetNxPx == Sent(Ttl)

\* createLock() renews at a fraction of the TTL, with the TTL of the lock.
IntervalIsTtl == Ttl
RenewInterval == RenewEvery
RenewalTtl == Ttl

\* Math.min(delay * multiplier, maxDelay)
UncappedDelay(d) == d * Multiplier
NextDelay(d) == Least(d * Multiplier, MaxDelay)

\* The ownership test of both scripts: GET key == token.
AnyOwner(h) == owner # NoOwner
Owns(h) == owner = h

\* Every step that fails something counts against the bound.
Faulty == faults < MaxFaults /\ faults' = faults + 1

\* stopAutoRenew() on a set of handles.
Disarm(S) ==
  /\ renewing' = [h \in Handle |-> renewing[h] /\ h \notin S]
  /\ renewIn' = [h \in Handle |-> IF h \in S THEN 0 ELSE renewIn[h]]

TypeOK ==
  /\ owner \in Handle \cup {NoOwner}
  /\ ttlLeft \in Nat
  /\ call \in [Handle -> [Op -> Cell]]
  /\ pc \in [Handle -> {"idle", "acquiring", "backoff", "held", "failed", "dead"}]
  /\ retry \in [Handle -> Loop]
  /\ released \in [Handle -> BOOLEAN]
  /\ renewing \in [Handle -> BOOLEAN]
  /\ renewIn \in [Handle -> (-Lag)..RenewEvery]
  /\ expiresIn \in [Handle -> Nat]
  /\ result \in [Handle -> {"none", "ok", "notOwned", "error"}]
  /\ active \in [Service -> SUBSET Handle]
  /\ gauge \in [Service -> Int]
  /\ stage \in [Service -> {"up", "stopping", "down", "crashed"}]
  /\ faults \in 0..MaxFaults
  /\ lease \in [Handle -> 0..Ttl]
  /\ letGo \in [Handle -> BOOLEAN]
  /\ evicted \in [Handle -> BOOLEAN]
  /\ lost \in SUBSET Handle
  /\ prompt \in BOOLEAN

Init ==
  /\ owner = NoOwner
  /\ ttlLeft = 0
  /\ call = [h \in Handle |-> [op \in Op |-> Idle]]
  /\ pc = [h \in Handle |-> "idle"]
  /\ retry = [h \in Handle |-> NoLoop]
  /\ released = [h \in Handle |-> FALSE]
  /\ renewing = [h \in Handle |-> FALSE]
  /\ renewIn = [h \in Handle |-> 0]
  /\ expiresIn = [h \in Handle |-> 0]
  /\ result = [h \in Handle |-> "none"]
  /\ active = [s \in Service |-> {}]
  /\ gauge = [s \in Service |-> 0]
  /\ stage = [s \in Service |-> "up"]
  /\ faults = 0
  /\ lease = [h \in Handle |-> 0]
  /\ letGo = [h \in Handle |-> FALSE]
  /\ evicted = [h \in Handle |-> FALSE]
  /\ lost = {}
  /\ prompt = TRUE

--------------------------------------------------------------------------------
(* Acquiring. *)

\* acquire() or tryAcquire(): generate a token and send the first SET NX PX.
StartAcquire(h) ==
  /\ pc[h] = "idle"
  /\ stage[Home[h]] # "crashed"
  /\ pc' = [pc EXCEPT ![h] = "acquiring"]
  /\ retry' = [retry EXCEPT ![h].delay = InitialDelay]
  /\ call' = [call EXCEPT ![h]["acquire"] = SetNxPx]
  /\ UNCHANGED <<redisVars, entityVars, serviceVars, ghostVars>>

\* SET answered OK: createLock() starts the renewal and the Lock becomes active.
AcquireGranted(h) ==
  /\ pc[h] = "acquiring"
  /\ call[h]["acquire"].st = "yes"
  /\ call' = [call EXCEPT ![h]["acquire"] = Idle]
  /\ pc' = [pc EXCEPT ![h] = "held"]
  /\ expiresIn' = [expiresIn EXCEPT ![h] = Ttl]
  /\ retry' = [retry EXCEPT ![h] = NoLoop]
  /\ renewing' = [renewing EXCEPT ![h] = (h \in Renewed)]
  /\ renewIn' = [renewIn EXCEPT ![h] = IF h \in Renewed THEN RenewInterval ELSE 0]
  /\ active' = [active EXCEPT ![Home[h]] = @ \cup {h}]
  /\ gauge' = [gauge EXCEPT ![Home[h]] = @ + 1]
  /\ lease' = [lease EXCEPT ![h] = Ttl - call[h]["acquire"].age]
  /\ UNCHANGED <<redisVars, released, result, stage, faults, letGo, evicted, lost, prompt>>

\* The retry cap is reached, or sleeping again would pass the wait budget.
GivesUp(h) ==
  \/ h \notin Retrying
  \/ retry[h].attempt = MaxRetries
  \/ retry[h].waited + retry[h].delay >= WaitTimeout

\* SET answered nil: give up, or sleep before the next attempt.
AcquireRefused(h) ==
  /\ pc[h] = "acquiring"
  /\ call[h]["acquire"].st = "no"
  /\ call' = [call EXCEPT ![h]["acquire"] = Idle]
  /\ \/ /\ GivesUp(h)
        /\ pc' = [pc EXCEPT ![h] = "failed"]
        /\ retry' = [retry EXCEPT ![h] = NoLoop]
     \/ /\ ~GivesUp(h)
        /\ pc' = [pc EXCEPT ![h] = "backoff"]
        /\ retry' = [retry EXCEPT ![h].wakeIn = retry[h].delay]
  /\ UNCHANGED <<redisVars, entityVars, serviceVars, ghostVars>>

SleepOver(h) == retry[h].wakeIn = 0

\* The sleep is over: back off further next time and send SET NX PX again.
RetryAcquire(h) ==
  /\ pc[h] = "backoff"
  /\ SleepOver(h)
  /\ pc' = [pc EXCEPT ![h] = "acquiring"]
  /\ retry' = [retry EXCEPT ![h].attempt = @ + 1,
                            ![h].delay = NextDelay(@)]
  /\ call' = [call EXCEPT ![h]["acquire"] = SetNxPx]
  /\ UNCHANGED <<redisVars, entityVars, serviceVars, ghostVars>>

--------------------------------------------------------------------------------
(* The Lock entity. *)

\* The caller calls lock.release(). withLock() does so once, when fn settles.
Release(h) ==
  /\ pc[h] = "held"
  /\ ~released[h]
  /\ call[h]["release"] = Idle
  /\ h \in Scoped => result[h] = "none"
  /\ Disarm({h})
  /\ call' = [call EXCEPT ![h]["release"] = Sent(0)]
  /\ gauge' = [gauge EXCEPT ![Home[h]] = IF h \in Scoped THEN @ - 1 ELSE @]
  /\ letGo' = [letGo EXCEPT ![h] = TRUE]
  /\ UNCHANGED <<redisVars, pc, retry, released, expiresIn, result, active, stage,
                 faults, lease, evicted, lost, prompt>>

\* withLock()'s release() finds the lock released by the shutdown and returns.
ReleaseAgain(h) ==
  /\ pc[h] = "held"
  /\ released[h]
  /\ h \in Scoped
  /\ result[h] = "none"
  /\ call[h]["release"] = Idle
  /\ result' = [result EXCEPT ![h] = "ok"]
  /\ gauge' = [gauge EXCEPT ![Home[h]] = @ - 1]
  /\ active' = [active EXCEPT ![Home[h]] = @ \ {h}]
  /\ UNCHANGED <<redisVars, call, pc, retry, released, timerVars, expiresIn, stage,
                 ghostVars>>

ReleasedInFinally(h, op, answer) == released[h] \/ op \in {"release", "destroy"}
ReleasedAfter(h, op, answer) ==
  released[h] \/ (op \in {"release", "destroy"} /\ answer = "yes")

\* After the await of release(): success sets released, 0 throws LockNotOwnedError.
\* onModuleDestroy() swallows the error; withLock() forgets the lock either way.
ReleaseReply(h, op) ==
  /\ op \in {"release", "destroy"}
  /\ call[h][op].st \in {"yes", "no"}
  /\ call' = [call EXCEPT ![h][op] = Idle]
  /\ released' = [released EXCEPT ![h] = ReleasedAfter(h, op, call[h][op].st)]
  /\ result' = [result EXCEPT ![h] =
                  IF op = "destroy" THEN @
                  ELSE IF call[h][op].st = "yes" THEN "ok" ELSE "notOwned"]
  /\ active' = [active EXCEPT ![Home[h]] =
                  IF op = "release" /\ h \in Scoped THEN @ \ {h} ELSE @]
  /\ UNCHANGED <<redisVars, pc, retry, timerVars, expiresIn, gauge, stage, ghostVars>>

\* The caller calls lock.extend(d).
Extend(h, d) ==
  /\ h \in Extending
  /\ pc[h] = "held"
  /\ ~released[h]
  /\ call[h]["extend"] = Idle
  /\ call' = [call EXCEPT ![h]["extend"] = Sent(d)]
  /\ UNCHANGED <<redisVars, pc, retry, entityVars, serviceVars, ghostVars>>

\* The renewal interval fires and calls extend(this.ttl); the timer is rearmed.
\* (The timer of a released lock is always stopped: see RenewingIsUnreleased.)
\* BOUND: at most one renewal of a handle is in flight.
RenewTimer(h) ==
  /\ renewing[h]
  /\ renewIn[h] <= 0
  /\ call[h]["renew"] = Idle
  /\ renewIn' = [renewIn EXCEPT ![h] = RenewInterval]
  /\ call' = [call EXCEPT ![h]["renew"] = Sent(RenewalTtl)]
  /\ UNCHANGED <<redisVars, pc, retry, released, renewing, expiresIn, result, serviceVars,
                 ghostVars>>

\* After the await of extend(): success moves expiresAt, 0 throws; a renewal
\* that throws stops renewing.
ExtendReply(h, op) ==
  /\ op \in {"renew", "extend"}
  /\ call[h][op].st \in {"yes", "no"}
  /\ call' = [call EXCEPT ![h][op] = Idle]
  /\ \/ /\ call[h][op].st = "yes"
        /\ expiresIn' = [expiresIn EXCEPT ![h] = call[h][op].ttl]
        /\ lease' = [lease EXCEPT ![h] = Ttl - call[h][op].age]
        /\ UNCHANGED timerVars
     \/ /\ call[h][op].st = "no"
        /\ Disarm(IF op = "renew" THEN {h} ELSE {})
        /\ UNCHANGED <<expiresIn, lease>>
  /\ UNCHANGED <<redisVars, pc, retry, released, result, serviceVars, faults, letGo,
                 evicted, lost, prompt>>

\* lock.stopAutoRenew() called by the user.
StopAutoRenew(h) ==
  /\ pc[h] = "held"
  /\ renewing[h]
  /\ Disarm({h})
  /\ UNCHANGED <<redisVars, call, pc, retry, released, expiresIn, result, serviceVars,
                 ghostVars>>

--------------------------------------------------------------------------------
(* The service. *)

\* onModuleDestroy(): release every active lock in parallel.
Destroy(s) ==
  /\ stage[s] = "up"
  /\ LET toRelease == {h \in active[s] : ~released[h]} IN
     /\ Disarm(toRelease)
     /\ call' = [h \in Handle |->
                   IF h \in toRelease THEN [call[h] EXCEPT !["destroy"] = Sent(0)] ELSE call[h]]
     /\ letGo' = [h \in Handle |-> letGo[h] \/ h \in toRelease]
  /\ stage' = [stage EXCEPT ![s] = "stopping"]
  /\ UNCHANGED <<redisVars, pc, retry, released, expiresIn, result, active, gauge,
                 faults, lease, evicted, lost, prompt>>

\* Promise.all has settled: activeLocks.clear().
Destroyed(s) ==
  /\ stage[s] = "stopping"
  /\ \A h \in Handle : Home[h] = s => call[h]["destroy"].st \in {"idle", "orphan"}
  /\ stage' = [stage EXCEPT ![s] = "down"]
  /\ active' = [active EXCEPT ![s] = {}]
  /\ UNCHANGED <<redisVars, call, pc, retry, entityVars, gauge, ghostVars>>

\* The process dies or exits: its timers and awaits are gone, what it has sent
\* may still reach Redis.
Crash(s) ==
  /\ Faulty
  /\ stage[s] # "crashed"
  /\ stage' = [stage EXCEPT ![s] = "crashed"]
  /\ active' = [active EXCEPT ![s] = {}]
  /\ gauge' = [gauge EXCEPT ![s] = 0]
  /\ pc' = [h \in Handle |-> IF Home[h] = s THEN "dead" ELSE pc[h]]
  /\ retry' = [h \in Handle |-> IF Home[h] = s THEN NoLoop ELSE retry[h]]
  /\ Disarm({h \in Handle : Home[h] = s})
  /\ call' = [h \in Handle |-> [op \in Op |->
                IF Home[h] # s THEN call[h][op]
                ELSE IF call[h][op].st \in {"sent", "orphan"}
                       THEN [call[h][op] EXCEPT !.st = "orphan"] ELSE Idle]]
  /\ UNCHANGED <<redisVars, released, expiresIn, result, lease, letGo, evicted, lost, prompt>>

\* forceRelease(): DEL without an ownership check, from any process.
ForceRelease ==
  /\ Faulty
  /\ owner # NoOwner
  /\ owner' = NoOwner
  /\ ttlLeft' = 0
  /\ evicted' = [evicted EXCEPT ![owner] = TRUE]
  /\ lost' = lost \cup {owner}
  /\ UNCHANGED <<call, pc, retry, entityVars, serviceVars, lease, letGo, prompt>>

--------------------------------------------------------------------------------
(* Redis and the connection. *)

\* The answer reaches the caller later; nobody waits for an orphan's.
Answered(h, op, ok) ==
  call' = [call EXCEPT ![h][op] =
             IF @.st = "orphan" THEN Idle
             ELSE [@ EXCEPT !.st = IF ok THEN "yes" ELSE "no"]]

Waiting(h, op) == call[h][op].st \in {"sent", "orphan"}

\* SET key token NX PX ttl
ExecSet(h) ==
  /\ Waiting(h, "acquire")
  /\ Answered(h, "acquire", owner = NoOwner)
  /\ \/ /\ owner = NoOwner
        /\ owner' = h
        /\ ttlLeft' = call[h]["acquire"].ttl
     \/ /\ owner # NoOwner
        /\ UNCHANGED redisVars
  /\ UNCHANGED <<pc, retry, entityVars, serviceVars, ghostVars>>

\* RELEASE_LOCK_SCRIPT: if GET = token then DEL.
ExecRelease(h, op) ==
  /\ op \in {"release", "destroy"}
  /\ Waiting(h, op)
  /\ Answered(h, op, Owns(h))
  /\ \/ /\ Owns(h)
        /\ owner' = NoOwner
        /\ ttlLeft' = 0
        /\ lost' = lost \cup {owner}
     \/ /\ ~Owns(h)
        /\ UNCHANGED <<redisVars, lost>>
  /\ UNCHANGED <<pc, retry, entityVars, serviceVars, faults, lease, letGo, evicted, prompt>>

\* EXTEND_LOCK_SCRIPT: if GET = token then PEXPIRE.
ExecExtend(h, op) ==
  /\ op \in {"renew", "extend"}
  /\ Waiting(h, op)
  /\ Answered(h, op, Owns(h))
  /\ ttlLeft' = IF Owns(h) THEN call[h][op].ttl ELSE ttlLeft
  /\ UNCHANGED <<owner, pc, retry, entityVars, serviceVars, ghostVars>>

\* acquire() and tryAcquire() let the store's error out and never try again.
RetryOnError(h, op) == IF op = "acquire" THEN "backoff" ELSE pc[h]
AfterError(h, op) == IF op = "acquire" THEN "failed" ELSE pc[h]

\* The driver rejects the command: the caller's await throws. Redis may have
\* executed it, may never do, or may still do so.
Fail(h, op) ==
  /\ Faulty
  /\ call[h][op].st \in {"sent", "yes", "no"}
  /\ \/ call' = [call EXCEPT ![h][op] = Idle]
     \/ /\ call[h][op].st = "sent"
        /\ call' = [call EXCEPT ![h][op].st = "orphan"]
  /\ pc' = [pc EXCEPT ![h] = AfterError(h, op)]
  /\ retry' = [retry EXCEPT ![h] = IF op = "acquire" THEN NoLoop ELSE @]
  /\ Disarm(IF op = "renew" THEN {h} ELSE {})
  /\ released' = [released EXCEPT ![h] = ReleasedAfter(h, op, "error")]
  /\ result' = [result EXCEPT ![h] = IF op = "release" THEN "error" ELSE @]
  /\ active' = [active EXCEPT ![Home[h]] =
                  IF op = "release" /\ h \in Scoped THEN @ \ {h} ELSE @]
  /\ UNCHANGED <<redisVars, expiresIn, gauge, stage, lease, letGo, evicted, lost, prompt>>

\* No command has been in flight for Rtt and no timer is Lag late.
InTime ==
  /\ \A h \in Handle, op \in Timed :
        call[h][op].st \in {"sent", "yes", "no"} => call[h][op].age < Rtt
  /\ \A h \in Handle : renewing[h] => renewIn[h] > -Lag
  /\ \A h \in Handle : pc[h] = "backoff" => retry[h].wakeIn > 0

Waits(h) == pc[h] \in {"acquiring", "backoff"}

\* One unit of time. The key expires when its TTL runs out.
Tick ==
  /\ prompt' = (prompt /\ InTime)
  /\ ttlLeft' = Less1(ttlLeft)
  /\ owner' = IF ttlLeft = 1 THEN NoOwner ELSE owner
  /\ lost' = IF ttlLeft = 1 THEN lost \cup {owner} ELSE lost
  /\ call' = [h \in Handle |-> [op \in Op |->
                IF call[h][op].st \in {"sent", "yes", "no"} /\ op \in Timed
                  THEN [call[h][op] EXCEPT !.age = Least(@ + 1, Ttl)] ELSE call[h][op]]]
  /\ retry' = [h \in Handle |->
                 [retry[h] EXCEPT !.wakeIn = Less1(@),
                                  !.waited = IF Waits(h) THEN Least(@ + 1, WaitTimeout) ELSE @]]
  /\ renewIn' = [h \in Handle |->
                   IF renewing[h] /\ renewIn[h] > -Lag THEN renewIn[h] - 1 ELSE renewIn[h]]
  /\ expiresIn' = [h \in Handle |-> Less1(expiresIn[h])]
  /\ lease' = [h \in Handle |-> Less1(lease[h])]
  /\ UNCHANGED <<pc, released, renewing, result, serviceVars, faults, letGo, evicted>>

--------------------------------------------------------------------------------

Execute(h, op) ==
  \/ op = "acquire" /\ ExecSet(h)
  \/ ExecRelease(h, op)
  \/ ExecExtend(h, op)

Settle(h, op) ==
  \/ op = "acquire" /\ (AcquireGranted(h) \/ AcquireRefused(h))
  \/ ReleaseReply(h, op)
  \/ ExtendReply(h, op)

Next ==
  \/ \E h \in Handle :
       \/ StartAcquire(h) \/ RetryAcquire(h)
       \/ Release(h) \/ ReleaseAgain(h) \/ RenewTimer(h) \/ StopAutoRenew(h)
       \/ \E d \in ExtendTtls : Extend(h, d)
       \/ \E op \in Op : Execute(h, op) \/ Settle(h, op) \/ Fail(h, op)
  \/ \E s \in Service : Destroy(s) \/ Destroyed(s) \/ Crash(s)
  \/ ForceRelease
  \/ Tick

Spec == Init /\ [][Next]_vars

\* Time passes, sleeps end, and the commands of every handle get executed and
\* answered; callers, operators and failures owe nothing.
Fairness ==
  /\ WF_vars(Tick)
  /\ \A h \in Handle :
       /\ WF_vars(RetryAcquire(h))
       /\ WF_vars(\E op \in Op : Execute(h, op) \/ Settle(h, op))

FairSpec == Spec /\ Fairness

--------------------------------------------------------------------------------
(* Properties. *)

\* The handle believes, on evidence Redis confirmed, that it is inside its lease.
Confident(h) == pc[h] = "held" /\ lease[h] > 0 /\ ~letGo[h] /\ ~evicted[h]

\* Mutual exclusion while the TTL is valid (concepts.md:135): Ttl counted from the
\* moment the last confirmed SET or PEXPIRE was sent, Redis still holds the key for
\* this handle and for at least that long, whatever commands of this or of other
\* handles, stale or orphaned, have reached Redis in between.
LeaseHeld ==
  \A h \in Handle : Confident(h) => owner = h /\ lease[h] <= ttlLeft

\* A lock whose release() succeeded never shows up in Redis again: no late retry,
\* renewal or orphaned SET of its token can take the key back.
ReleasedNeverOwns == \A h \in Handle : released[h] => owner # h

\* With prompt round trips and timers the renewal at RenewEvery keeps the lock for
\* as long as it runs; only forceRelease() takes it away (auto-renewal.md:47-53).
RenewalKeepsLock ==
  prompt => \A h \in Handle : renewing[h] /\ ~evicted[h] => owner = h

\* The detailed lock is an implementation of the abstract one: the key passes from
\* token to token through the unowned state, and no token owns it twice.
Lease == INSTANCE LockLease WITH Token <- Handle, retired <- lost
ImplementsLease == Lease!Spec

\* Deadlock freedom (concepts.md:137): a key that nobody can release any more, its
\* acquire having failed on a lost answer or its process having died, lapses.
AbandonedLockLapses ==
  \A h \in Handle : pc[h] \in {"failed", "dead"} ~> owner # h
================================================================================
