# Verification of nestjs-redisx

TLA+ models of the distributed primitives of nestjs-redisx, checked with TLC and, for the
parts that matter most, proved with TLAPS. `PROJECT.json` lists the components, the runs, a
mutant of the code for every property, the source lines every definition stands for, the
hazards the properties are aimed at, and the theorems. Paths below are relative to
`src/packages/` unless they start with `website/`.

1. [The system](#1-the-system) · 2. [Conventions](#2-conventions) ·
3. [Modules](#3-modules) · 4. [Runs](#4-runs) · 5. [Fairness](#5-fairness) ·
6. [Proofs](#6-proofs) · 7. [Disagreements](#7-disagreements-between-code-and-documentation) ·
8. [Not modelled](#8-what-is-not-modelled) · 9. [Plan](#9-plan)

## 1. The system

A monorepo of NestJS modules over Redis. A process holds Redis connections (core) and any of
the plugins; processes share nothing but Redis. Inside a process everything runs on one
JavaScript thread: code between two `await`s is atomic, and every command to Redis is three
events: it is sent, Redis executes it, its answer resumes the caller. Between them anything
else may happen, in this process or in another.

| Component | State | Operations | Interacts with | What is hard | What makes it correct |
|---|---|---|---|---|---|
| `locks` | key `_lock:<key>`: token, PX; per process the active locks, renewal timers | acquire (retries), tryAcquire, withLock, release, extend, renewal, forceRelease, shutdown | Redis SET NX PX, two scripts | expiry with a command under way, stale renewals, SETs executed after their promise was rejected, double release, shutdown during acquire | inside its lease a holder owns the key; a released lock never owns it again; abandoned keys lapse |
| `idempotency` | hash `idempotency:<key>`: status, fingerprint, startedAt, expiry | check-and-lock, wait loop, take-over, complete, fail, delete | one script, HSET + EXPIRE, HTTP interceptor | the record expires or is taken over while its handler runs; complete() that nobody awaits; clocks; fail-open | one winner per lock window; no parallel handlers; a stored success is final; replays match the payload; no immortal record |
| `circuit-breaker` | state hash, sorted sets of failures and probes; the pure `CircuitBreakerState` | canRequest, recordSuccess, recordFailure, reset, execute | four scripts; callers' clocks | late outcomes, lost probes, idle expiry, clock skew, script and object drifting apart | cooldown, probe budget, closes by its probes, recovers; scripts and object agree |
| `cache`: stampede protection | per process the flights; key `_stampede:<key>` | getOrSet, protect, waitForFlight, poll, recheck, fallback, clearKey | CacheService, Redis SET NX PX | a loader outliving its lock, a settled or cancelled flight joined, errors nobody hears | one loader per process; written under the lock; followers find the value; never back to an older value |
| `cache`: tiers and tags | memory of each process, values in Redis, tag sets | set, get, delete, invalidateTag, clear, invalidateByPattern, batches | L1, L2, tag index | refills during a removal, a tag set read twice, life of a tag set, half a batch | bounded staleness; removals that succeed removed what was there; the index covers the cache |
| `cache`: in-memory stores | Map and linked list | get, set, has, delete, evict | – | list and Map parting, wrong victim | list = Map; least recently or least often used leaves |
| `cache`: SWR, stale-if-error | staleAt, expiresAt, keepUntil; jobs | getOrSet, scheduleRevalidation | L2, flights | a revalidation overwriting newer or deleted data, a job that never returns | served data is out of date for a bounded time; one revalidation per key and process |
| `cache`: mode `l1-only` | memory, in-memory store and tag index of one process | set, get, delete, batches, invalidateTag, clear | each other, at every await | an invalidation walking a Set that others add to | what is removed stays removed |
| `cache`: decorators, events, keys, values | entries; marks of processed events; context | @Cached, @CachePut, @CacheEvict, @InvalidateTags, @InvalidateOn; rules; enrichKeyWithContext, KeyBuilder; TTL, Tags | CacheService; emitter or AMQP | work behind the caller's answer, half an invalidation, a key enriched twice, a refused tag after the write | reads see finished changes; a marked event is done; contexts and keys stay apart; accepted values are found by their tags |
| `streams` | stream, group, pending entries, dead letters; per consumer its loops and messages in process | publish, createGroup, consume, claim, ack, reject, retry, requeue, stop | XADD, XREADGROUP, XPENDING, XCLAIM, XACK | claims of work in progress, failed acks, crash between two commands, starved claims | at least once; once when calm; dead letters earned; bounded work; eventually settled |
| `rate-limit` | counters, sorted sets, buckets | check, peek, reset, guard | three scripts; callers' clocks | scripts out of order of their stamps, rounding, fail-open, a guard bound twice | never more than the limit; waits that are told suffice |
| `pubsub` | handlers per channel, subscriptions of the connection | subscribe, unsubscribe, dispatch, unsubscribeAll | SUBSCRIBE, UNSUBSCRIBE | a subscribe racing an unsubscribe or the shutdown | who is subscribed is served; a sweep leaves nobody |
| `core`: client manager | client, status, timer, attempts per name | getClient, closeClient, closeAll, reconnection | driver events | events out of order, a client being closed, several callers connecting | closed stays closed; a client recovers; nobody waits for ever |
| `core`: drivers | prefix, routing, pipelines, scripts, connection options | every command, exec, EVALSHA with fallback | ioredis, node-redis | lists of key positions kept beside the calls; a URL beside a configuration; NOSCRIPT | both drivers do the same to the same server |
| `core`: module, registry, plugin options | factories, hooks, wiring | forRoot, forRootAsync, registerAsync, mergeDefaults, shutdown | all plugins | options known after the wiring, cycles, factories that wait for each other, a drain without end | dependencies first; options arrive; the application stops |
| `@WithLock`, `@WithCircuitBreaker` | a stack of guards per call | acquire, admit, run, record, release | locks, breaker | a refusal or a failure in the middle of the stack | no lock and no probe is left |
| `metrics`, `tracing` | registry, hook, spans | init, close, command | every client | a registry that outlives the module, a client hooked twice | one span per command; a guest leaves |
| errors | chains of causes | wrap, rethrow, answer, peel, filter | every package; HTTP filters | a word in a text decides (NOSCRIPT, BUSYGROUP), a type decides (`instanceof`) whose failure it was | causes and texts arrive; an own error is thrown as it is; statuses blame whom they should |
| `testing` | keys, streams, bus of the in-memory driver | the commands | tests of the packages | expiry while a command runs, pending entries, a message queued before its subscriber leaves | commands keep the rules the packages rely on |

## 2. Conventions

* One module per component, `X.tla`, its properties at its end; one `.cfg` per run. Proofs are in
  `X_proofs.tla`, together with those of the smaller modules that share a run or a package with X: `EXTENDS` of
  the proof module names them. Where constants are functions or parts share a run, the instance is a module `MCX.tla`; the `lock_`
  and `streams_` runs and `circuit` check the component's module as it is.
* Small components share a run. Its MC module extends those that theorems are about (their properties are
  then the run's own definitions; their Init, Next and variables carry a prefix where two of them meet) and
  instantiates the others on variables that the parts share; `part` is chosen initially and never changes, so a behaviour is one
  of one component and the run is the union of their state spaces. A property of the run
  names the parts it speaks about and is the conjunction of what their modules state.
* An operation is a record per caller with a phase for every await: sent, executed, answered.
  A lost command, a lost answer (executed, promise rejected), a late execution of a command
  its caller gave up, and a crash are actions, bounded by a constant marked BOUND.
* Time is discrete. Where possible timers are relative: `Tick` decrements them, so that the
  state space is finite without cutting behaviours. Idempotency and BreakerMirror carry
  absolute times (they compare clocks) up to a named horizon.
* What is assumed of delays (`MaxDelay`, `Rtt`, `Prompt`) is an assumption of the run or of the
  property that names it (`prompt => ...`, `calm => ...`, `Smooth' => ...`). The other
  properties hold for arbitrary delays.
* Data are model values. History variables are named as such and read by no guard.

## 3. Modules

**LockLease, DistributedLock** (locks). `LockLease` is what a lock
promises: a key with at most one owner that passes from token to token through the unowned
state. `DistributedLock` is LockService, Lock, the store adapter and its two scripts for one
key: a *handle* is one call of acquire(), tryAcquire() or withLock() with its token. `call[h][op]`
is the command in flight per operation (acquire, release, extend, renew, destroy). StartAcquire, RetryAcquire,
AcquireGranted, AcquireRefused are acquire() with its loop (lock.service.ts:90-150); Release,
ReleaseReply, Extend, ExtendReply, RenewTimer and StopAutoRenew the Lock entity; Destroy and
Destroyed onModuleDestroy(); ExecSet, ExecRelease, ExecExtend what Redis does; Fail the rejected
promise whose command may still be executed (`"orphan"`).

**Idempotency**. The requests of one key, each with the clock of its process:
Arrive and Check… are interceptor, service and script; Poll, Wake, WaitOver the wait loop with its
take-over; Handled, Store, StoreError the unawaited complete()/fail(); Orphan, LoseWrite, Crash,
Delete the environment. The record is `rec`, its expiry `expires`.

**BreakerScripts, BreakerMirror, CircuitBreaker**. The Lua scripts and the pure
state machine are operators on the stored keys and on the object; `BreakerMirror` feeds both the
same calls. `CircuitBreaker` puts the scripts under concurrent calls: Ask/Gate (canRequest,
executed late), Settle (fn ends), RecordSuccess/RecordFailure, Report (manual recording), Lose,
Reset, and a dependency that goes down and comes up (Flip).

**Stampede**. getOrSet() of several processes for one key: Begin, GetExec, Hit (cache read); Join,
Fly (local flight); LockExec, Locked, Refused, Poll, Recheck, PollsAgain, FallThrough (distributed
lock); Reads, Writes, Throws, Hang (loader and its write-back); LeaderTimeout, Answered,
WaiterTimeout (time limits); AfterStampedeError (fallback); ClearKey. A value is the version of the data source it was read from.

**CacheTiers**. CacheService over memory, Redis and tag index: an operation (`call`, its phase `pc`, what it read `val`,
the keys it found `snap`) sends one command after another on its process's connection (`wire`, `back`, first in first
out) and continues with each answer: Setex → Sadd → Expire for set(); GetExec → fill of L1 for get(); Members,
MembersAgain, Dels, DelTag for invalidateTag(); Scan…, DelOne, DelTags for patterns and clear(). A value is named by the
operation that wrote it. History: `gone` counts since when a value is no longer in Redis; `seen` is, for a removal, what was
set before it began, and for a read the removals under way when its answer came.

**OrderedStore, MemoryStore**. `OrderedStore` is the store of mode `l1-only` (a Map in iteration
order) and the specification of `MemoryStore`, the linked list of the first tier, through the
refinement mapping *order := walk from the head*.

**Streams**. One stream and group. `log` is the stream as the group sees it: each entry with its attempt,
its state (missed, new, pending, acked), holder and whether it has been idle for
claimIdleTimeout. Per consumer `life`, the poll loop (Read, ReadExec, Deliver, PollEnds) and the
claim loop (Range, ClaimExec, Spawn); `jobs` are the processMessage() calls: Succeeds, Throws,
Rejects, Unreadable, then Ack, or Readd/Bury and Drop. Requeue is the dead letter service, Tick
the passing of claimIdleTimeout.

**StaleEntries** (SWR and stale-if-error). One key with its stored entry and the memory of each process;
Begin, Read, Hit, Miss, Join, Lead are getOrSet(); Recheck, LoaderReads, SetSwr, WorkFails, LoaderHangs the load
or the job; Salvage the answer from a stale entry after an error; Get, Set, Delete beside them. `since`
and `lag` (history) say for how long a value had been out of date when it was served.

**CachedCalls** (decorators). The wrapper of each decorator around a method that reads or changes one
piece of data: what it does before its answer, and Behind what it leaves running afterwards; Down and Up are
Redis. **InvalidationEvents**: rules, templates, deliveries by several workers, the mark of a processed event.
**CacheKeys**: the context suffix as each call appends it (some twice), and the keys of
KeyBuilder, templates and arguments on sequences of characters. **StoredEntries**: which values,
lifetimes and tags set() and setMany() refuse, and what is stored all the same.
**LocalCache**: the calls of mode `l1-only` with a step at every await. **EvictionStrategies**: the three exported
strategies fed with the same calls.

**MCStampede** extends Stampede and LocalCache, **MCCaching** extends StaleEntries, CachedCalls, InvalidationEvents
and CacheKeys, **MCServices** BreakerMirror, GuardedCalls and
Observability, **MCInfrastructure** Connections, **MCCacheTiers** CacheTiers; the other parts of these runs are INSTANCEs.

**RateLimit**. The guard of each request (Skip, Check, Decide, OnError), the three scripts (Execute, up
to Lag after their stamp, in any order), reset() and peek(). Its Init, Next and Spec are RLInit, RLNext and RLSpec, so that
MCIdempotency extends both modules. A bucket refills Rate tokens in Per seconds and
counts in parts of a token (One); the code computes in floating point.

**Connections** (client manager). The clients registered under one name one after the other: driver, library client,
status, timer; callers of getClient(); the server going down and up; closeClient(), closeAll(). **Commands**: every
call of a driver as the sequence of its arguments, the prefix of both adapters, cluster routing, pipelines. The tables `Declared...`
say what each command of the driver's interface takes (a key, a word, a script); SentAsDeclared compares them with
what the adapters send.
**Scripts**: loading, EVALSHA, its fallback, a Redis that forgets. **ConnectionSetup**: URL and configuration to
the options each library gets, three of them converted (ReadyCheck, QueueLength, Replicas); OptionsAsDeclared compares them with every option and default that the interfaces declare, those that an adapter passes to nobody (Unread) named apart. **Lifecycle**: providers' factories with what they wait for, the sort of the plugins,
their hooks, the shutdown. **PluginOptions**: the options of every plugin from the application
to its services.

**GuardedCalls** (@WithLock, @WithCircuitBreaker): a call is a stack of guards around a body; inwards
Acquire or Admitted or a refusal, outwards Release and Record. **PubSub**: the chain of operations of each
target, the connection that answers in order, the sweep of unsubscribeAll(). **Observability**: metrics in an own or
the application's registry (the standard ones, the application's own, and the default metrics of prom-client, which the service
has collected and does not know), starts that fail at a name that is taken, the command hook, external instrumentation.

**MemoryKeyspace, StreamValue, PubSubBus** (in-memory driver of `packages/testing`): what each
command makes of the keys; the log and the group with the X commands; the bus with its microtasks.
MemoryKeyspace runs every command in every state of its instance; those that only read
are operators whose replies the properties compare with each other.

**Failures** (errors of all packages). The codes; the classes with their parents and the codes of their
constructors; and the catch blocks as records that say what a block wraps, rethrows or does. `Stacks` are
the stacks of such blocks that the code's calls make, from a driver's command or a method of the
application up to a caller, a decorator or an HTTP filter. `error` is the chain of causes, `Here` the block
it has reached; a block wraps (Catches), answers instead (Swallows, FallsBack, LockFails, the filters),
looks for a word in the text (EvalshaFails, StoreFails, GroupExists), applies an errorPolicy
(LimiterDecides, InterceptorDecides, BreakerDecides) or peels (CachedThrows). Of a text the model
keeps whether it quotes the cause's.

## 4. Runs

| Run | States | Instance | Shows |
|---|---|---|---|
| `lock_safety` | 0.94 M | two handles of one process, one renewed, retries, arbitrary delays, one fault | LeaseHeld, ReleasedNeverOwns, refinement of LockLease |
| `lock_renewal` | 0.22 M | one renewed and extended handle, TTL 3 renewed every 1, timers up to 1 late | RenewalKeepsLock, AbandonedLockLapses |
| `idem_safety` | 1.9 M | three requests, two payloads, fail-open, one fault, delays unbounded; or three requests to a route with the rate-limit guard bound twice, limit 2 | RecordExpires, NoParallelRuns, OneWinnerPerWindow, AnswersFinal; NeverOverLimit, AnswersHonest |
| `circuit` | 0.14 M | two callers, one reporter, commands up to a tick late, one fault | OpenHolds, ProbesDecide, Recovers |
| `stampede` | 1.8 M | three calls in two processes, a hanging loader, one fault, one deletion or clearKey(); or three calls, overlapping in any way, of mode `l1-only` on two keys | FlightsSound, LoadsCovered; RemovedForGood |
| `tiers` | 0.66 M | a writer or reader, a remover or reader in its process, a second process, one fault; or, below the tiers, one of Commands, Scripts, MemoryKeyspace | ServedBriefly, RemovalsReach; SentAsMeant |
| `streams_safety` | 1.1 M | two consumers, one mortal, one message that may fail, one mishap | MessagesKept, WorkBounded |
| `streams_live` | 0.14 M | a readable and an unreadable message, one consumer may stop or die | EventuallySettled |
| `caching` | 1.4 M | seven parts: StaleEntries, CachedCalls, StoredEntries, MemoryStore, EvictionStrategies, CacheKeys, InvalidationEvents | StaleBounded, ReadsSeeChanges, IsOrderedStore, KeptAsAsked, ContextKept, MarkedIsDone |
| `services` | 1.3 M | nine parts: ConnectionSetup; PluginOptions; GuardedCalls; PubSub, StreamValue, PubSubBus; Observability; Failures; BreakerMirror | ConfiguredAsMeant, SettledLeavesNothing, Delivered, Observed, ErrorsExplained, SameDecision, SameSnapshot |
| `infrastructure` | 0.14 M | two clients of a name, two callers, an outage, a lost connection; or an application with up to three plugins | ClientsUsable, Recovers; StartsInOrder, AppStops |
| `options_dropped` | violation | the PluginOptions part of `services` | OptionsArrive does not hold |

Names that stand for several statements, each with its comment in the module named:

| Property | is |
|---|---|
| OpenHolds, ProbesDecide (CircuitBreaker) | CooldownHolds and NotForgottenEarly; ProbesBounded and ClosesByProbes |
| AnswersFinal (Idempotency) | DirectReplayMatches, CompletedIsFinal, TypeOK |
| NeverOverLimit, AnswersHonest (RateLimit) | SlidingBounded, FixedBounded, TokenBounded, GuardHolds; RetryHonest, PeekSafe |
| FlightsSound, LoadsCovered (Stampede) | OneLeaderPerProcess, SettledFlightLeaves, TypeOK; WriteCovered, FollowerFinds, CacheNeverGoesBack |
| ServedBriefly, RemovalsReach (CacheTiers) | StalenessBounded, TypeOK; RemovedFromRedis, RemovedFromMemory, IndexCovers |
| MessagesKept, WorkBounded (Streams) | NothingLost, DeadLettersEarned, TypeOK; OnceWhenCalm, ProcessingBounded |
| StaleBounded (StaleEntries) | ServedInTime, RevalidationsTracked |
| KeptAsAsked | StoredEntries: TagsReach, AcceptedReadBack, LifeBounded; EvictionStrategies: VictimsByHistory; CacheKeys: KeysApart; InvalidationEvents: MatchesAsTopic |
| SentAsMeant | Commands: SameKeys, PipelineAgrees, SentAsDeclared; Scripts: RunsOnce; MemoryKeyspace: CommandsLawful, RangesRight, ScoresSplit |
| ConfiguredAsMeant | ConnectionSetup: SameServer, OptionsAsDeclared; PluginOptions: WiringAgrees |
| Delivered | PubSub: Served, Delivered, SweepComplete; StreamValue: GroupKept; PubSubBus: BusKept |
| Observed (Observability) | TracedOnce, GuestLeaves |
| ErrorsExplained | Failures: CauseKept, TextReaches, OwnErrorKept, LimiterAnswers, BlameIsFair, CodesKnown |
| ClientsUsable, StartsInOrder | Connections: ClosedUnlessRevived, DriversUsable; Lifecycle: HooksOrdered, ConfiguredClientsFound |

KeysApart, MatchesAsTopic, RangesRight and ScoresSplit check pure functions against a definition
of what they should give, over every input of the instance: texts of up to two characters,
patterns and events of up to three words, lists and sorted sets of two elements with all bounds.

**Why the bounds are enough.** The hazards involve two or three actors and one mishap: a holder,
a contender and a stale command; a winner, a taker and a late write; a leader, a follower and an
older loader; a remover, a filler and a second process. Each instance has
these actors. PROJECT.json has, for every property, a mutant of the code that breaks it, and TLC finds
the violation under the same configuration: the bounds do not hide the case the property is about. Budgets of
one fault per run let the fault fall at every point; two independent faults are covered only
where theorems remove the bound (section 6). Durations are the smallest that keep the
orders apart that the code distinguishes (renewal interval < TTL, poll < lock < wait, cooldown < probe
timeout). The parts that share a run are of three kinds: configurations (ConnectionSetup, PluginOptions),
where the instance holds every combination of two options with all the values the code tells apart; sequences of calls on one object
(StoredEntries, MemoryStore, EvictionStrategies, StreamValue, MemoryKeyspace), long enough to fill it and to
empty it again; and overlapping calls (the others), two or three of them with one fault.
`CHECK_DEADLOCK FALSE` appears where a behaviour ends: the clock stops at its horizon
or all requests and calls are answered. In all other runs Tick keeps the system going, and
deadlock is checked. `SYMMETRY` is used in runs of safety properties, on values nothing orders
(suffixes, keys and values, two requests that are alike).

**What some properties leave out on purpose.** LeaseHeld speaks of the lease counted from the
*sending* of the last confirmed command; counted from the constructor's `expiresAt` it is false
(section 7). NoParallelRuns and CompletedIsFinal hold while handlers end in the lock
window. CacheNeverGoesBack and WriteCovered hold while nothing fails, hangs or is deleted: an
overrunning loader writes without lock. RemovedFromRedis for tags assumes that no other removal
takes tag sets away meanwhile. RemovedFromMemory excepts, by name, a value that a get() of the same
process, answered while the removal went on, brought back (`Refilled`; section 7). NothingLost speaks of messages the group was created before, with the dead letter queue enabled.
OnceWhenCalm is about histories without mishaps; with one, at-least-once is all the code promises.
ClosedUnlessRevived excepts by name three things that may be under way when a client is closed.
SameKeys excepts the commands that node-redis prefixes or routes differently, SameServer TLS behind
sentinels and how long a library retries, OptionsAsDeclared by name the options that an adapter passes to nobody (Unread) and reads of 'all'
from a cluster, GuestLeaves the default metrics in the application's registry, CauseKept the check of a cache key, OwnErrorKept three classes that the decorators take for their
own failures (section 7). Modules also state what the code or its documentation claims and the
models refute; no run checks these: OpenOnlyOnStoreError, LocksReleasedAtShutdown,
RemovedNotReconnected, PeekAccurate, EmulatesKeyPrefix, ErrorServingOnly, FailsOpen,
TlsBehindSentinels, CommonOptionsReach, RemovesItsOwn, GaugeCountsHeld, EmptyPageIsEnd. Section 7 has the counterexamples in words.

## 5. Fairness

Only actions of the program's own scheduling, of Redis and of time are fair; failures, crashes,
callers' decisions and operators never are.

* locks (`FairSpec`): time, the sleep of acquire()'s loop, execution and answer of commands. A
  command that Redis never executes is a Fail, so weak fairness of the rest is justified.
* circuit: commands are executed, functions return, callers come back, time passes. Recovery is
  claimed only for a circuit somebody keeps asking, because the code changes state on requests
  only.
* streams: timers fire, handlers return, commands are answered (weak fairness). The poll loop has
  strong fairness: it looks for a free slot every 10 ms (BACKPRESSURE_WAIT_MS), and a slot that
  is freed again and again is eventually seen free.
* infrastructure: the network answers an attempt to connect, timers of reconnection fire, the library
  retries, the server comes back; factories and hooks whose dependencies are there run to their
  end, and QUIT and the release of locks are executed. Whether a message handler ends is not fair: AppStops holds because the
  drain stops waiting after its timeout. All weak fairness; outages and lost connections are not fair.

## 6. Proofs

All constants are arbitrary within the ASSUMEs of the modules: any number of processes, handles,
requests, probes; any TTLs and thresholds; any number of faults. A hypothesis beyond them is stated in the theorem
(`ASSUME ...`) and named here; the state space of the run beside it satisfies it. Most of the invariants below were
TLC invariants of a run before they were proved.

**DistributedLock_proofs.** `TypeCorrect`, `KeysExpire`, `ReleasedForGood`, `LockImplementsLease`,
`LeaseTheorem`. TypeOK alone is not inductive for the expiry; the invariant is

    SafeInv == TypeOK /\ GrantedOnce /\ Phases /\ ReleasedIsLost /\ KeyExpires /\ TtlSent

GrantedOnce: a token whose SET is under way, or may still be sent, has never owned the key, so a
key that was lost is lost for good (needed against orphaned SETs). Phases ties commands in flight to the phase of the call.
ReleasedIsLost: release() reports success only after the key was given up. From SafeInv every step
maps to Grant, Lose or a stutter of LockLease (`LeaseStep`). For the lease,

    LeaseInv == SafeInv /\ LetGoSent /\ EnoughTtl /\ ConfirmedLease /\ LeaseHeld

where ConfirmedLease says of an executed command what LeaseHeld will say once it is answered,
EnoughTtl that no command under way shortens the key's life below the TTL, and LetGoSent that a
handle with a release under way is no longer confident.
`LeaseTheorem` assumes that no extend() asks for less than the TTL (LongExtends): with a shorter
one the claim is false, the lease being counted in TTLs. `RenewalTheorem` adds to LeaseInv

    RenewInv == PromptCells /\ RenewsHeld /\ RenewsInTime

where RenewsInTime relates the three clocks of a renewed handle: while no renewal is under way the lease is as old as
the timer, up to a round trip; while one is, the command and the timer count the same time. It assumes
that the TTL leaves room for an interval, a late timer and two round trips, RenewEvery + Lag + 2 * Rtt < Ttl.

**Idempotency_proofs.** `TypeCorrect`; `Expiry`; `OneWinner`, assuming clocks that agree; and
`SingleRun`, assuming besides Rtt + HandlerTime < LockTimeout. SafeInv adds to TypeOK that
commands were sent in the past (CmdPast), that expiries lie ahead (RecordExpires) and that
inside the window the record says when it began (WindowGuarded); RunInv adds that, as long as
the history is calm, scripts in flight are fresh (CmdPrompt), a running handler is the last winner's and
inside its window (RunGuarded), and writes belong to ended handlers (WriteDone). `ReplayMatches` needs no assumption:
fingerprints, in commands and in the record, are those of the request that sent them (CmdPrints, RecPrint).
`AnswersStay` (CompletedIsFinal) assumes that clocks agree and that the whole attempt, two round trips and the handler, fits
into the lock window; PromptEnough does not suffice, because the unawaited complete() may then land after a take-over.
Its invariant Held says that a request that runs or whose outcome is on its way is the only one and the record is its lock.

*RateLimit* (in Idempotency_proofs): `LimitsKept` (NeverOverLimit), `GuardKept` (GuardHolds) and `AnswersKept` (AnswersHonest) for any requests, limits,
windows, rates (any fraction Rate / Per), faults and resets. They assume

    Setting == Lag <= S

A script runs at most a second after its stamp was taken, the second of slack that TOKEN_BUCKET_SCRIPT adds to the expiry: a bucket that
is forgotten sooner than it is full again would be full too early. A process
whose clock is slow by less than that looks like lag; one whose clock is ahead is not covered. Inv says for each algorithm what Redis still knows of the history: every admission of a sliding window is the entry of a
request of its own as long as it may have to be counted (Logs, an injection); a counter has counted what ran since it began, and was begun
again at most once and only after its window (CounterInv); what a bucket holds together with what was taken since any
admission is at most what it held and was refilled since (BucketInv, from which TakenSince). RefusalInv says, while the script that refused a
request is the last one that ran, what makes room when the time is over: an entry that leaves the log, a token that is refilled, or a window in
which nothing was counted.

**CircuitBreaker_proofs.** `TypeCorrect`, `BaseHolds` and `CooldownKept` (OpenHolds) hold without assumption, for any
number of callers and reporters, delays and faults, from

    Base == TypeOK /\ Calls /\ Sized /\ Kept /\ Opened

Opened says that `openedAt` lies at most a delay before the trip and that the keys outlive the cooldown; Sized that the
sorted sets never hold as many entries as would trip, so a new suffix is always free. `ProbesAlone` (ProbesDecide) assumes
Brief: a call with its delays is shorter than the cooldown, as many of them in a row as close the circuit are
shorter than the probe timeout, and nobody reports outcomes by hand unless one success closes. Without the first a success
from before the trip closes the circuit; without the second the slot of a slow probe is given again; without the
third a report frees the slot of a probe under way (section 7). The proof gives every
probe under way a slot of its own (Paired): a recorded success frees the newest slot, be it its own or not, so a slot may be
older than its holder, by one call for each success.

*BreakerMirror* (in the same module): `MirrorTypeCorrect`, `SnapshotsAgree`, `DecisionsAgree`. The invariant couples
the two machines (Twin: equal but for failures the store has already dropped and the object has not)
and explains why the keys never expire meanwhile (Alive). It assumes one clock and that somebody
asks at least once every max(window, cooldown, probe timeout) + 60 s; without either the two differ (section 7).

**Stampede_proofs.** `FlightsStaySound` (FlightsSound) for any number of calls, processes, faults and hanging loaders: a flight in a
process's map is pending and led by a call of that process, and a flight under way is in the map unless clearKey() removed it (InMap,
Registered). `LoadsStayCovered` assumes Timely: commands are answered within a tick, a loader ends before the lock expires,
and a wait outlasts a lock and a load. SmoothInv follows a quiet history: loads run under the lock of their call
(LoadsFit, LockFits), no value is newer than what loads in order can have written (ValuesFit), nothing is written before the first
load (NothingYet), and waits are longer than what they wait for (WaitsEnd, AgesFit).

*LocalCache* (in the same module): `RemovalsAreFinal` (RemovedForGood), without assumption, for any number of calls of mode `l1-only` on any
keys, tagged or not, interleaved at every await. That a removal that has ended took the value away is not
inductive: whether it did was decided at steps of it that other calls came between. The invariant is

    LocalInv == LocalTyped /\ Shaped /\ Located /\ KnownOrGone /\ RemovalsWork /\ ReadsLate

KnownOrGone is what the tag index is worth: the value of a write that no removal by tag or clear() overlaps is known to the index from
the step that indexes it on, or it is gone from the store (and from memory, unless a get() carried it there). RemovalsWork says phase by
phase what a removal has still to take away of the values that were there before it began (Takes): first from memory, then through
the index or the walk, then from the store. ReadsLate says that a read that began after the removal holds nothing of them that it could bring
back. Located (values lie under keys of the call that wrote them) keeps calls on different keys apart.

**Streams_proofs.** `NoMessageLost` (MessagesKept) and `WorkIsBounded` (WorkBounded), for any number of consumers, messages, faults,
crashes and requeues, by

    StreamInv == Typed /\ Bounded /\ Earned /\ Delivered /\ Kept

Kept is the heart: a message that reached the group was handled, is a dead letter that no requeue() is about to take
away, or has an entry that is new or pending; and an entry about to be acknowledged leaves its message so. Earned counts the failures
behind attempts and dead letters. OnceWhenCalm has an invariant of its own: without mishaps an entry is in one pair of
hands, and at most one entry of a message may still be handled.

**CacheTiers_proofs.** `TypeCorrect`; `MemoryCatchesUp` (ServedBriefly): a value in Redis is not gone, and what an answer
brings into memory has been gone no longer than its answer was under way (Fresh), so memory is out of date for at most l1.ttl
plus a delay, whatever fails. `DirectRemovalsReach`: a delete() that succeeded removed what was there, without assumption.
`AllRemovalsReach` (RemovalsReach), for tags and patterns too, assumes

    Timely == MaxDelay = 0 /\ \A n \in Ttls : n + L1Ttl <= TagTtl

Both halves are needed, and TLC shows why: a tag set that expires between SADD and EXPIRE loses the key for good, and one that
expires before the copies in memory leaves them to no invalidateTag(). The invariant ReachInv says, phase by phase, which values a
removal has still to take away and that one of its commands, sent or to be sent, will.

**StaleEntries_proofs.** `BoundedStaleness` (StaleBounded), without assumption: any calls and processes, any ttl, stale time and stale-if-error window,
any number of failures, hanging loaders and clearKey()s. Its two halves need different facts. For ServedInTime,
whatever holds a value says how old it can be: the stored entry what its age and its remaining life add up to (EntryFits), a call what it has
read and for how long its answer was under way (CallsFit), a load or job how long ago it read the data source (WorkFits), the memory of a
process the sum of all of them (MemoryFits). Clocked ties these ages to the time since when a value is out of date. Without the halves about values
in flight the invariant is not kept: an entry is written by a job that read the source MaxLoad and was under way MaxDelay before. For
RevalidationsTracked, a process runs at most one job more than were cleared from its map (Tracked), and the job in the map is running.

**Connections_proofs.** `UsableClients` (ClientsUsable), for any clients, callers, outages, dropped connections and attempts, with libraries that give up and
those that do not:

    Inv == TypeOK /\ Linked /\ Seasoned /\ Owned /\ Leaving /\ Awaited /\ ClosedUnlessRevived

Linked ties the driver's `connected` and the attempt under way to the state of the library's client; Owned says that the timer of
the client that has the name runs only while its driver counts as connected, hence no caller meets an attempt of the timer; Leaving that
a client being closed still has the name; Awaited that a caller waits for an attempt that is under way. ClosedUnlessRevived
alone is not inductive: that closing a client leaves no timer behind depends on what may have started one.

*GuardedCalls* (in the same module): `GuardsLeaveNothing` (SettledLeavesNothing), for stacks of any height over any locks and breakers, any number of calls and
failing commands, by

    GuardsInv == CallsFit /\ OwnersTyped /\ LocksHeld /\ OwnersHold /\ AllRecorded

CallsFit says what each guard of a stack has done while the call is at a given depth on its way in or out. LocksHeld and OwnersHold are the two
directions between the keys in Redis and the guards that hold them (the second while no command has failed: a failed release leaves the
key to its TTL), and AllRecorded that, again while none has failed, every guard of a breaker that was admitted has reported its one outcome
once the call has left it.

*Observability* (in the same module): `ObservedOnce` (Observed), for any metrics, clients and commands, in an own registry or in the application's:

    ObservedInv == ObservedTypeOK /\ HooksFollow /\ KnowsItsOwn /\ KeepsItsOwn /\ Observed

A command is traced once because every client has one hook while the service is up and none otherwise (HooksFollow). KnowsItsOwn says
that the service knows every metric of the registry that it registered, but for those of a start that failed, so that onModuleDestroy()
takes away these and nothing else; KeepsItsOwn that nobody else uses a registry of its own, which is empty when the service is down.
A start finds a name taken only by the application, by an earlier failure of the same kind, or by default metrics that stayed.

*InvalidationEvents* (in the same module): `MarkedStaysDone` (MarkedIsDone), for any messages, rules that are registered and unregistered at any
time, targets and workers, any number of lost calls and repeated deliveries:

    EventsInv == EventsTyped /\ MarksPast /\ Announced /\ WorkLeft /\ MarkedIsDone

WorkLeft says of a delivery that was checked what it has still to remove: a target that a rule still registered covers lacks nothing of
the changes the delivery stands for, or it is among the tags and keys it has not come to yet. Announced says that what an entry lacks was
announced while the rule that counts it was registered; MarksPast that no mark is ahead of the announcements. The promise is only of
rules registered at the announcement and since: of one registered later it would be false, because it may share a target with a rule that
was unregistered in between and for which nobody removed anything.

*CachedCalls* (in the same module): `ReadsStayCurrent` (ReadsSeeChanges), for any calls of any decorators, any number of changes, errors and
interruptions, by

    ReadsInv == types /\ promised <= db /\ (stored = Absent \/ stored >= promised) /\ \A c : CallCurrent(wrapped[c], promised, db)

CallCurrent says of a call that it has nothing older than the promise still to store, also behind its answer, and that the promise it began
with is not ahead of the present one. A promise is raised by a removal only when nothing older is on its way to the cache. It assumes what DecoratorsAssumption says of the kinds of calls.

*CacheKeys* (in the same module): `KeysKeepContext` (ContextKept), for any keys, names, contexts and options. KeysInv says that a key in the cache
carries at most one suffix and that it says of names only what the context of its entry does (Written): a second enrichment then
adds nothing to a key that has a suffix, and to a plain key nothing that the first left out. It assumes KeysAssumption: options and global names are names of contexts.

Only model-checked:

* liveness, which the prover does not reach: Recovers (of the circuit, of the clients), AbandonedLockLapses, EventuallySettled, AppStops;
* properties that need an induction over data or a recursive definition: IsOrderedStore (MemoryStore's walk along its list meets every
  node), StartsInOrder (the sort of the plugins is a fold), the parts MatchesAsTopic and KeysApart of KeptAsAsked
  and RangesRight and ScoresSplit of SentAsMeant;
* properties that are a comparison over a finite table or over every configuration of an instance, where TLC's enumeration is the
  argument: SentAsMeant, ConfiguredAsMeant, KeptAsAsked, ErrorsExplained (Failures has no constants: the run holds every stack there is);
* Delivered: it relates the order of commands, answers and messages in sequences that the modules filter (SelectSeq), which is an induction over data.

## 7. Disagreements between code and documentation

`options_dropped` is a run that expects a violation. The others were met while modelling; the models
contain the behaviour, and the properties are stated so that it is excluded by name.

*idempotency*
* With fail-open every error of checkAndLock(), the wait timeout and the mismatch
  found while waiting included, runs the handler unprotected although Redis is up
  (idempotency.interceptor.ts:86-95; line 87 says only when the store is down: OpenOnlyOnStoreError).
* A waiter is answered with the record of another payload when the first record vanished and was
  re-created (idempotency.service.ts:136); website/…/idempotency/concepts.md:100 promises a mismatch.
* Clocks that disagree by more than the lock timeout let a contender take over a live lock
  (lua-scripts.ts:67).
* A late fail() overwrites a stored success of the attempt that took over
  (redis-idempotency-store.adapter.ts:81).

*streams*
* The claim loop looks at the first batchSize pending entries; unparsable
  entries are never acknowledged (consumer-instance.ts:214, 244) and can fill that batch for ever: with BatchSize 1
  EventuallySettled fails.
* A whole batch is processed at once: `concurrency` bounds the start of a read, not the work
  (consumer-instance.ts:198); configuration.md:62 calls it the parallel message processing. Hence
  ProcessingBounded allows concurrency + batchSize.
* An error whose text looks like a closing connection (ECONNRESET, ECONNREFUSED, ...; line 24) ends
  the poll or the claim loop for good and leaves a message uncounted, also while the consumer runs
  (consumer-instance.ts:134, 202, 238); the comment at line 20 speaks of graceful shutdown only. The
  model has these steps (ReadFails, ClaimFails, LosesConnection), and for that reason `streams_live`
  has no failing command: after one a running consumer may read nothing more.
* A failed XACK after a successful handler counts as a failure of the message: it is re-added or
  becomes a dead letter though it was handled (consumer-instance.ts:230, 244).
* consume() creates a missing group at `$`: messages published before are not delivered
  (`missed` in the model). A failed creation leaves a consumer that is registered and never polls
  (stream-consumer.service.ts:85); the model's Start does not fail.

*locks*
* `expiresAt` is counted from the answer, so it lies after the key's expiry (lock.entity.ts:22, 108).
* release() is not idempotent while another release is under way: the second throws
  (lock.entity.ts:129-134).
* A lock granted while onModuleDestroy() is running is not released (lock.service.ts:59).
* The gauge of held locks is decremented by withLock() only (lock.service.ts:153, 172).

*circuit-breaker*
* Late successes of calls admitted before the circuit opened count as successes of probes once it
  is half-open and close it (lua-scripts.ts:126); slots carry no identity (121).
* Callers' clocks that disagree change what the scripts count (lua-scripts.ts:7, 169), and the idle TTL
  forgets an open circuit that nobody asks (46), which the pure object never does.
* A breaker that is only told outcomes never leaves OPEN: requests move it (recipes.md:28).

*cache*
* A loader that overruns its timeout writes later without the lock
  (stampede-protection.service.ts:273; line 10 says the write is covered).
* The fallback "load" executes the loader a second time beside the first (stampede port:12).
* setMany() does not touch L1: this process serves the old values (cache.service.ts:728).
* get() fills L1 for the whole l1.ttl, also from an entry about to expire or deleted while its answer was under
  way (cache.service.ts:122; concepts.md:159). So a get() that is answered while a delete() or an invalidateTag() of the
  same process goes on brings the removed value back into memory, although both report success.
* A tag set gets its expiry by a second command (tag-index.repository.ts:35-75): when the set expires between the
  SADD and the EXPIRE of a later set(), the EXPIRE finds nothing and the key is cached with no tag knowing it. A
  tag set that lives shorter than a value and its copy in memory leaves the copy to no invalidateTag().
* A key tagged while invalidateTag() runs is in no set afterwards (tag-index.repository.ts:124), and
  a pattern or clear() removes tag sets of keys that stay.
* deleteMany() reports a failed DEL as a missing key (cache.service.ts:522; configuration.md:202).

* setMany() leaves stale values in L1 and getMany() never reads it; in mode `l1-only` a write that
  overlaps invalidateTag() or clear() may stay cached with no tag knowing it, and a get() that
  overlaps a removal may refill the memory (in-memory-tag-index.repository.ts:97).
* get() serves entries past expiresAt, up to keepUntil, and copies them into L1 (cache.service.ts:112;
  swr-manager.port.ts:78 says they serve errors only: ErrorServingOnly). delete() takes no varyBy, the
  SWR flow never reads L1, and a revalidation ignores `unless`. A delete() during a revalidation
  lasts until its write.
* `cache.plugin.ts:80` drops contextProvider and contextKeys (`options_dropped`). Where they are given
  to CacheService directly, `skipContext` and `contextKeys: []` do not keep its context away (decorators.md:180),
  and an entry written outside a request is not found from inside one by the key getKeysByTag() tells.
* With stampede protection an error of the cache's write reaches the caller of a @Cached method; without
  it the method runs a second time (cached.decorator.ts:261-273; decorators.md:320 "Fail-open": FailsOpen).
* A `#` in front or in the middle of a pattern needs a word (event-pattern.vo.ts:3 says zero or more); a second
  event with the same payload within deduplicationTtl is skipped; the internal source loses
  events whose processing failed; the priority of a rule has no effect.
* TTL.create() checks before it rounds: less than half a second becomes 0, which SETEX refuses. set()
  writes both tiers before it looks at the tags (cache.service.ts:184); an l1.ttl above l2.maxTtl makes every
  set() fail after its write. setMany() neither checks nor rounds.
* Default keys of @Cached join their arguments with `:` unescaped; KeyBuilder with a separator of several
  characters and values of templates can give two lists of values one key.
* LruStrategy tracks a key it is told of by recordAccess() only, so its victim may be a key nobody holds.

*rate-limit*
* peek() of a fixed window reads `<key>:<window>` and reset() deletes `<key>`, while the script counts
  under `{<key>}:<window>` (redis-rate-limit-store.adapter.ts:112, 168; lua-scripts.ts:25;
  website/…/rate-limit/service-api.md:89: PeekAccurate). A sliding peek() counts expired entries; a
  token-bucket peek() without duration refills at another rate than the check (rate-limit.service.ts:110, 126), a
  higher one when the capacity is more than ten times the default duration: PeekSafe excludes it (PeekRate <= Rate).
* A script that runs after the end of its window answers with a Retry-After of 0 or less.

*core*
* closeClient() emits CLOSE while the client counts as connected, so the manager schedules a reconnection
  for what it removes (redis-client.manager.ts:483; client-manager.interface.ts:95:
  RemovedNotReconnected). The driver's `connected` is never cleared: attempts and backoff of a live
  client do not grow (health-monitoring.md:159). node-redis gives up after ten attempts and nobody learns of it.
* applyKeyPrefix() "emulates ioredis keyPrefix functionality" (node-redis.adapter.ts:622) but prefixes
  non-keys of XREADGROUP, XREAD, XGROUP, XINFO, SCAN, OBJECT and BITOP, and misses keys of EVAL and EVALSHA (locks
  are then never released), of the set, sorted set and blocking commands with several keys, and others (EmulatesKeyPrefix).
* A pipeline of node-redis that fails returns one pair for all its commands; set() in a pipeline drops `ex: 0`.
* Options that the interfaces declare for every connection and the documentation shows for both drivers (connection-types.md:225-310)
  reach no library (Unread): the adapter of node-redis passes on neither commandTimeout, maxRetriesPerRequest, keepAlive,
  enableAutoReconnect nor reconnectOnError, beside sentinels no sentinelRetryStrategy, and for clusters no retry delays and no
  enableReadyCheck (node-redis.adapter.ts:359-370, 399-411, 443-507; sentinelRetryStrategy is among the "common options",
  connection-types.md:304-310: CommonOptionsReach). ioredis gets no enableOfflineQueue, and for clusters and sentinels no keepAlive,
  enableAutoReconnect and reconnectOnError; preferredSlaves, documented for ioredis (line 316), is passed by nobody
  (ioredis.adapter.ts:145-240).
* Three options reach the library as another one: ioredis takes enableAutoReconnect for enableReadyCheck (ioredis.adapter.ts:161), so
  it goes on reconnecting when told not to; enableOfflineQueue: false is a queue of length 0 for node-redis (node-redis.adapter.ts:369);
  scaleReads: 'all' reads from masters only (node-redis.adapter.ts:410; connection-types.md:174-177 "Read from any node").
* exec() of a node-redis pipeline keeps its commands: a pipeline that is used again sends them again
  (node-redis.adapter.ts:744-758); ioredis empties its queue.
* `tls` beside sentinels is not applied by ioredis (connection-types.md:354: TlsBehindSentinels),
  a cluster has no TLS, `tls: {}` without `enabled` neither (security.md:19), and an explicit
  `host: undefined` hides the host of the URL.
* The manager's QUIT goes before LockService releases its locks, so they stay until they expire
  (lock.service.ts:55, docs locks/index.md:27: LocksReleasedAtShutdown), and streams drain when the
  connections are closed already (plugin-system.md:124 "Dependencies are still alive").
* Without a client named "default" the application does not start (multiple-clients.md:166); a client named
  "host", "url" or "type" is taken for a single configuration; gracefulShutdown options are read by nobody.
* `isGlobal` has no effect; exposeEndpoint and registerExceptionFilter are read from synchronous options only;
  an explicit undefined inside a group defeats its default.

*guards, pubsub, observability*
* A LockAcquisitionError of the method itself is taken for the guard's: `onLockFailed: 'skip'` answers
  undefined though the method ran (with-lock.decorator.ts:84, 160).
* A pattern subscribed while unsubscribeAll() awaits the channels may lose against its PUNSUBSCRIBE
  (pubsub.service.ts:136; comment 157-163); calls that share a handler function share one entry.
* "On shutdown it removes only its OWN metrics" (metrics/configuration.md:121): the default metrics that collectDefaultMetrics put into a
  registry of the application are in none of the maps that onModuleDestroy() walks (metrics.service.ts:58-85). They stay, and the
  next start in that registry throws at their names (RemovesItsOwn). A start that throws at a name leaves the metrics it had registered before.
* `redisx_locks_active` is decremented by withLock() only (lock.service.ts:172; docs locks/monitoring.md:19:
  GaugeCountsHeld); names with `redisx_` are hard-coded, so another prefix loses the
  plugins' metrics (metrics/prometheus.md:301); pipelines and transactions are not traced (tracing/configuration.md:286).

*errors*
* RedisScriptError of a timeout has OP_SCRIPT_ERROR, not OP_SCRIPT_TIMEOUT (operation.errors.ts:138);
  RedisTimeoutError has CONN_TIMEOUT for connections and OP_TIMEOUT otherwise (error-handling.md:126 names the first);
  StampedeError, LoaderError and TagInvalidationError have general codes although ErrorCode has one for each.
* invalidateTags() wraps the TagInvalidationError that invalidateTag() rethrows "so callers can catch it by type"
  (cache.service.ts:604, 626). A CacheKeyError drops the error it was made from (cache.service.ts:847).
* An own error that is a StampedeError is taken for the flight's timeout (cache.service.ts:343), so the method runs again or
  null is the answer; an own LoaderError is peeled where nothing wrapped it (cached.decorator.ts:269).

*testing*
* A history read gives ids from the given one on, where its comment says greater than it
  (stream-value.ts:173-175, 194), so reading one by one never advances; it counts deleted entries, so an empty page does
  not mean that nothing is pending (EmptyPageIsEnd). XPENDING takes an exclusive bound for an inclusive one.
* SET ignores EXAT, PXAT and KEEPTTL, which the base driver sends (memory-driver.md: "Unsupported commands
  fail loudly"); SET and SETNX on a key of another kind fail; SETEX 0 is accepted; LREM ignores its count;
  ZADD and HINCRBY that fail leave an empty key behind.
* A message queued before its adapter unsubscribes or disconnects is still delivered.

## 8. What is not modelled

* Tiers: several tags per key and batches of more than one key (LocalCache and StoredEntries have them, without
  Redis' delays), strategies `l2-only`; the tag index's removeKeyFromTags(). Streams: MAXLEN trimming
  of the service's stream (it may drop unread entries by design), purge(), claimIdle(), handlers that call ack()
  themselves, XADD replies that are lost during publish().
* The client manager's healthCheck(), getStats() and metadata, which nothing reads back; options of commands other than
  set()'s, conversion of arguments and answers; what the libraries do with the timeouts and retry strategies they are given. A caller that
  waits for another's connect() is answered in the step that ends it, or before it by an ERROR of the library (ErrorWhileConnecting).
* Hashes of objects (stableStringify(), hashKey()), alternative serializers, warmup (getOrSet() for each configured
  key), the Lua interpreter and the globs of the in-memory driver, its Nest module, exporters and samplers of
  tracing, counters and histograms, layouts of responses, texts and JSON of errors, ValidationErrorCollector.
* Demos, documentation, tooling.
* Redis itself is external: commands and scripts are atomic, keys expire on time (a key is never
  served after its PX), data survives. Failover that loses acknowledged writes is not modelled.

## 9. Plan

Done: locks, idempotency and the breaker scripts with proofs; the circuit under concurrency, stampede
protection, tiers, memory stores with refinement, streams; rate-limit, stale entries, pubsub, the client
manager, drivers, module and plugins, decorators, events, keys and values, observability, the in-memory driver, errors.

Theorems: the safety invariants of locks, idempotency, breaker, rate limits, stampede protection, mode `l1-only`, tiers, stale entries,
decorators, events, keys, streams, the client manager, guards and observability (section 6).

Next:
1. HooksOrdered of Lifecycle as a theorem; MemoryStore implements OrderedStore, as far as one step of the list goes.
2. An abstract at-least-once queue implemented by Streams; an abstract single-writer cache
   implemented by CacheTiers without L1.
3. Compositions: DistributedLock under Lifecycle's shutdown, Streams over Connections, CachedCalls over CacheTiers.
