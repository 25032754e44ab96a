------------------------------ MODULE Idempotency ------------------------------
(* @nestjs-redisx/idempotency: IdempotencyInterceptor, IdempotencyService, the *)
(* Redis store adapter and its Lua scripts, for the requests that share one    *)
(* idempotency key, served by processes with their own clocks.                 *)
(*                                                                             *)
(* A checkAndLock is sent with the sender's clock and executed by Redis later; *)
(* its promise may be rejected and the script still run. Polling reads, and    *)
(* the writes of complete() and fail(), are single commands.                   *)
EXTENDS Integers, FiniteSets

CONSTANTS
  Req,           \* the requests with this key
  NoReq,         \* not a request
  Payload,       \* Req -> what the fingerprint is computed from
  Sorted,        \* payloads whose canonical and plain serializations coincide
  Past,          \* requests answered by the version before canonical fingerprints
  Skew,          \* Req -> offset of the clock of the process that serves it
  LockTimeout, WaitTimeout, PollEvery, CompleteTtl, FailTtl,
  Validate,      \* validateFingerprint
  FailOpen,      \* errorPolicy = 'fail-open'
  Rtt, HandlerTime,   \* what is prompt for a command, and for a handler
  MaxFaults,     \* BOUND: failing commands, crashes, deletions
  Horizon        \* BOUND: the clock stops here

ASSUME IdempotencyAssumption ==
  /\ NoReq \notin Req
  /\ Past \subseteq Req
  /\ Skew \in [Req -> Nat]
  /\ LockTimeout \in Nat \ {0} /\ WaitTimeout \in Nat /\ PollEvery \in Nat \ {0}
  /\ CompleteTtl \in Nat /\ FailTtl \in Nat
  /\ CompleteTtl >= LockTimeout /\ FailTtl >= LockTimeout
  /\ Validate \in BOOLEAN /\ FailOpen \in BOOLEAN
  /\ Rtt \in Nat /\ HandlerTime \in Nat /\ MaxFaults \in Nat /\ Horizon \in Nat

VARIABLES
  clock,     \* the true time
  rec,       \* the hash under the idempotency key
  expires,   \* when Redis drops it
  pc,        \* where each request stands
  cmd,       \* its checkAndLock in flight
  plain,     \* it is using the fingerprint of the previous version
  since,     \* when it entered its phase
  waitFrom,  \* when its wait for another request began, 0 before
  write,     \* its complete() or fail() in flight
  faults,
  \* History, read by no action.
  winner,    \* the request granted the key less than lockTimeout ago
  wonAt,     \* when that request sent its script
  got,       \* whose record a request was answered with
  why,       \* why its checkAndLock threw
  calm       \* every command and handler was prompt, and nobody deleted the key

timeVars == <<clock, calm>>
storeVars == <<rec, expires>>
winVars == <<winner, wonAt>>
reqVars == <<plain, since, waitFrom>>
vars == <<timeVars, storeVars, pc, cmd, reqVars, write, faults, winVars, got, why>>

NoCmd == [fp |-> NoReq, sentAt |-> 0]
NoFp == <<"none", NoReq>>
Absent == [st |-> "absent", fp |-> NoFp, startedAt |-> 0, from |-> NoReq]

\* canonicalStringify sorts object keys, JSON.stringify keeps their order.
Canonical(r) == <<"canonical", Payload[r]>>
Plain(r) == IF Payload[r] \in Sorted THEN Canonical(r) ELSE <<"plain", Payload[r]>>
PrintOf(r) == IF plain[r] THEN Plain(r) ELSE Canonical(r)

Fingerprints == {Canonical(r) : r \in Req} \cup {Plain(r) : r \in Req}
Records == [st : {"processing", "completed", "failed"}, fp : Fingerprints, startedAt : Nat,
            from : Req \cup {NoReq}]
Phase == {"idle", "check", "poll", "recheck", "sleep", "run", "open",
          "done", "replayed", "answered", "mismatch", "timeout", "error", "dead"}
Asking == {"check", "recheck"}

Faulty == faults < MaxFaults /\ faults' = faults + 1

TypeOK ==
  /\ clock \in Nat
  /\ rec \in Records \cup {Absent}
  /\ expires \in Nat
  /\ pc \in [Req -> Phase]
  /\ cmd \in [Req -> {NoCmd} \cup [fp : Fingerprints, sentAt : Nat]]
  /\ plain \in [Req -> BOOLEAN]
  /\ since \in [Req -> Nat] /\ waitFrom \in [Req -> Nat]
  /\ write \in [Req -> {"none", "completed", "failed"}]
  /\ faults \in 0..MaxFaults
  /\ winner \in Req \cup {NoReq} /\ wonAt \in Nat
  /\ got \in [Req -> Req \cup {NoReq}]
  /\ why \in [Req -> {"none", "mismatch", "timeout", "error"}]
  /\ calm \in BOOLEAN

\* A record the previous version left behind, its owner gone.
PastRecord(p, st) == [st |-> st, fp |-> Plain(p), startedAt |-> 1, from |-> p]

Init ==
  /\ clock = 1
  /\ \/ rec = Absent /\ expires = 0 /\ winner = NoReq
     \/ \E p \in Past, st \in {"processing", "completed", "failed"} :
          rec = PastRecord(p, st) /\ expires = 1 + 2 * LockTimeout /\ winner = p
  /\ wonAt = IF winner = NoReq THEN 0 ELSE 1
  /\ pc = [r \in Req |-> IF r \in Past THEN "dead" ELSE "idle"]
  /\ cmd = [r \in Req |-> NoCmd]
  /\ plain = [r \in Req |-> FALSE]
  /\ since = [r \in Req |-> 0]
  /\ waitFrom = [r \in Req |-> 0]
  /\ write = [r \in Req |-> "none"]
  /\ faults = 0
  /\ got = [r \in Req |-> NoReq]
  /\ why = [r \in Req |-> "none"]
  /\ calm = TRUE

--------------------------------------------------------------------------------
(* The scripts. *)

\* store.checkAndLock() reads Date.now() and sends the script.
Send(r, fp) == cmd' = [cmd EXCEPT ![r] = [fp |-> fp, sentAt |-> clock]]

DiffersWhileProcessing(r) == Validate /\ rec.fp # cmd[r].fp /\ rec.st = "processing"
Differs(r) == Validate /\ rec.fp # cmd[r].fp

HalfTimeout(now) == now - rec.startedAt >= LockTimeout \div 2
Stale(now) == now - rec.startedAt > LockTimeout

StaleWhateverStatus(r) ==
  \/ rec.st = "absent"
  \/ ~Differs(r) /\ Stale(cmd[r].sentAt + Skew[r])
\* CHECK_AND_LOCK: the key is free, or held by an attempt presumed dead.
Grants(r) ==
  \/ rec.st = "absent"
  \/ ~Differs(r) /\ rec.st = "processing" /\ Stale(cmd[r].sentAt + Skew[r])

Verdict(r) ==
  CASE Grants(r) -> "new"
    [] ~Grants(r) /\ Differs(r) -> "mismatch"
    [] ~Grants(r) /\ ~Differs(r) -> rec.st

StartOf(r) == cmd[r].sentAt + Skew[r]

\* HMSET fingerprint, status, startedAt and PEXPIRE 2 * lockTimeout.
Lock(r) ==
  /\ rec' = [st |-> "processing", fp |-> cmd[r].fp, startedAt |-> StartOf(r), from |-> NoReq]
  /\ expires' = clock + 2 * LockTimeout
  /\ \/ /\ clock < cmd[r].sentAt + LockTimeout
        /\ winner' = r /\ wonAt' = cmd[r].sentAt
     \/ /\ clock >= cmd[r].sentAt + LockTimeout
        /\ winner' = NoReq /\ wonAt' = 0

NoPrintWhenGone(r) == IF rec.st = "absent" THEN NoFp ELSE rec.fp
StoredPrint(r) == Canonical(r)

LeftoverExpiry(st) == expires
StoreExpiry(st) == clock + (IF st = "completed" THEN CompleteTtl ELSE FailTtl)

--------------------------------------------------------------------------------
(* A request. *)

\* intercept(): the first checkAndLock, with the canonical fingerprint.
Arrive(r) ==
  /\ pc[r] = "idle"
  /\ pc' = [pc EXCEPT ![r] = "check"]
  /\ Send(r, Canonical(r))
  /\ UNCHANGED <<timeVars, storeVars, reqVars, write, faults, winVars, got, why>>

\* The catch of intercept(): rethrow, or go on without idempotency.
Throw(r, reason) ==
  /\ pc' = [pc EXCEPT ![r] = IF FailOpen THEN "open" ELSE reason]
  /\ why' = [why EXCEPT ![r] = reason]
  /\ since' = [since EXCEPT ![r] = 0]
  /\ waitFrom' = [waitFrom EXCEPT ![r] = 0]

Replay(r, how) ==
  /\ pc' = [pc EXCEPT ![r] = how]
  /\ got' = [got EXCEPT ![r] = rec.from]
  /\ since' = [since EXCEPT ![r] = 0]
  /\ waitFrom' = [waitFrom EXCEPT ![r] = 0]

\* Redis runs the script of a request that waits for it. A replay returns the
\* record as it is then.
CheckNew(r) ==
  /\ pc[r] \in Asking /\ cmd[r] # NoCmd
  /\ Verdict(r) = "new"
  /\ Lock(r)
  /\ cmd' = [cmd EXCEPT ![r] = NoCmd]
  /\ pc' = [pc EXCEPT ![r] = "run"]
  /\ since' = [since EXCEPT ![r] = clock]
  /\ waitFrom' = [waitFrom EXCEPT ![r] = 0]
  /\ UNCHANGED <<timeVars, plain, write, faults, got, why>>

CheckReplay(r) ==
  /\ pc[r] \in Asking /\ cmd[r] # NoCmd
  /\ Verdict(r) \in {"completed", "failed"}
  /\ cmd' = [cmd EXCEPT ![r] = NoCmd]
  /\ Replay(r, "replayed")
  /\ UNCHANGED <<timeVars, storeVars, plain, write, faults, winVars, why>>

\* Another request holds the key: wait for it, or go on waiting.
CheckProcessing(r) ==
  /\ pc[r] \in Asking /\ cmd[r] # NoCmd
  /\ Verdict(r) = "processing"
  /\ cmd' = [cmd EXCEPT ![r] = NoCmd]
  /\ \/ /\ pc[r] = "check"
        /\ pc' = [pc EXCEPT ![r] = "poll"]
        /\ waitFrom' = [waitFrom EXCEPT ![r] = clock]
     \/ /\ pc[r] = "recheck"
        /\ pc' = [pc EXCEPT ![r] = "sleep"]
        /\ UNCHANGED waitFrom
  /\ since' = [since EXCEPT ![r] = clock]
  /\ UNCHANGED <<timeVars, storeVars, plain, write, faults, winVars, got, why>>

\* The key holds another fingerprint. The interceptor tries once more with the
\* fingerprint of the previous version; the wait loop throws.
CheckMismatch(r) ==
  /\ pc[r] \in Asking /\ cmd[r] # NoCmd
  /\ Verdict(r) = "mismatch"
  /\ \/ /\ pc[r] = "check" /\ ~plain[r] /\ Plain(r) # Canonical(r)
        /\ plain' = [plain EXCEPT ![r] = TRUE]
        /\ Send(r, Plain(r))
        /\ UNCHANGED <<pc, why, since, waitFrom>>
     \/ /\ pc[r] = "check" /\ (plain[r] \/ Plain(r) = Canonical(r))
        /\ cmd' = [cmd EXCEPT ![r] = NoCmd]
        /\ pc' = [pc EXCEPT ![r] = "mismatch"]
        /\ UNCHANGED <<plain, why, since, waitFrom>>
     \/ /\ pc[r] = "recheck"
        /\ cmd' = [cmd EXCEPT ![r] = NoCmd]
        /\ Throw(r, "mismatch")
        /\ UNCHANGED plain
  /\ UNCHANGED <<timeVars, storeVars, write, faults, winVars, got>>

\* The takeover triggers of the wait loop.
Abandoned(r) ==
  \/ rec.st = "absent"
  \/ rec.st = "processing" /\ Stale(clock + Skew[r])

\* One turn of waitForCompletion(): read the record, then replay it, try to take
\* the key over, or sleep. The outcome is returned whatever its fingerprint.
Poll(r) ==
  /\ pc[r] = "poll"
  /\ clock - waitFrom[r] < WaitTimeout
  /\ \/ /\ rec.st \in {"completed", "failed"}
        /\ Replay(r, "answered")
        /\ UNCHANGED cmd
     \/ /\ Abandoned(r)
        /\ pc' = [pc EXCEPT ![r] = "recheck"]
        /\ Send(r, PrintOf(r))
        /\ UNCHANGED <<since, waitFrom, got>>
     \/ /\ rec.st \notin {"completed", "failed"} /\ ~Abandoned(r)
        /\ pc' = [pc EXCEPT ![r] = "sleep"]
        /\ since' = [since EXCEPT ![r] = clock]
        /\ UNCHANGED <<cmd, waitFrom, got>>
  /\ UNCHANGED <<timeVars, storeVars, plain, write, faults, winVars, why>>

WaitOver(r) ==
  /\ pc[r] = "poll"
  /\ clock - waitFrom[r] >= WaitTimeout
  /\ Throw(r, "timeout")
  /\ UNCHANGED <<timeVars, storeVars, cmd, plain, write, faults, winVars, got>>

Wake(r) ==
  /\ pc[r] = "sleep"
  /\ clock >= since[r] + PollEvery
  /\ pc' = [pc EXCEPT ![r] = "poll"]
  /\ UNCHANGED <<timeVars, storeVars, cmd, reqVars, write, faults, winVars, got, why>>

\* The handler emitted its response, or threw: the outcome is stored without
\* being awaited.
Handled(r, outcome) ==
  /\ pc[r] = "run"
  /\ pc' = [pc EXCEPT ![r] = "done"]
  /\ since' = [since EXCEPT ![r] = clock]
  /\ write' = [write EXCEPT ![r] = outcome]
  /\ UNCHANGED <<timeVars, storeVars, cmd, plain, waitFrom, faults, winVars, got, why>>

\* A handler that runs without protection stores nothing.
HandledOpen(r) ==
  /\ pc[r] = "open"
  /\ pc' = [pc EXCEPT ![r] = "done"]
  /\ UNCHANGED <<timeVars, storeVars, cmd, reqVars, write, faults, winVars, got, why>>

\* STORE_RECORD: HSET the fields over whatever is there, and PEXPIRE. (startedAt
\* stays in the hash, where only a processing record's is ever read.)
Store(r) ==
  /\ write[r] # "none"
  /\ rec' = [st |-> write[r], fp |-> StoredPrint(r), startedAt |-> 0, from |-> r]
  /\ expires' = StoreExpiry(write[r])
  /\ write' = [write EXCEPT ![r] = "none"]
  /\ since' = [since EXCEPT ![r] = 0]
  /\ UNCHANGED <<timeVars, pc, cmd, plain, waitFrom, faults, winVars, got, why>>

--------------------------------------------------------------------------------
(* Failures, and time. *)

\* The promise of checkAndLock, or of a poll, is rejected; a script that was sent
\* may still be executed.
StoreError(r) ==
  /\ pc[r] \in Asking \cup {"poll"}
  /\ Faulty
  /\ Throw(r, "error")
  /\ UNCHANGED <<timeVars, storeVars, cmd, plain, write, winVars, got>>

\* The script of a request that no longer waits for it.
Orphan(r) ==
  /\ pc[r] \notin Asking /\ cmd[r] # NoCmd
  /\ \/ Verdict(r) = "new" /\ Lock(r)
     \/ Verdict(r) # "new" /\ UNCHANGED <<storeVars, winVars>>
  /\ cmd' = [cmd EXCEPT ![r] = NoCmd]
  /\ UNCHANGED <<timeVars, pc, reqVars, write, faults, got, why>>

LoseWrite(r) ==
  /\ write[r] # "none"
  /\ Faulty
  /\ write' = [write EXCEPT ![r] = "none"]
  /\ since' = [since EXCEPT ![r] = 0]
  /\ UNCHANGED <<timeVars, storeVars, pc, cmd, plain, waitFrom, winVars, got, why>>

\* The process dies while it holds the key or may be granted it. (A request that
\* only waits leaves nothing behind.)
Crash(r) ==
  /\ pc[r] \in Asking \cup {"run"}
  /\ Faulty
  /\ pc' = [pc EXCEPT ![r] = "dead"]
  /\ since' = [since EXCEPT ![r] = 0]
  /\ waitFrom' = [waitFrom EXCEPT ![r] = 0]
  /\ UNCHANGED <<timeVars, storeVars, cmd, plain, write, winVars, got, why>>

\* service.delete(): the key is free again, and its history with it.
Delete ==
  /\ rec.st # "absent"
  /\ Faulty
  /\ rec' = Absent /\ expires' = 0
  /\ calm' = FALSE
  /\ winner' = NoReq /\ wonAt' = 0
  /\ UNCHANGED <<clock, pc, cmd, reqVars, write, got, why>>

\* No command has waited for Rtt, no handler run for HandlerTime, no sleep is over.
InTime ==
  \A r \in Req :
    /\ cmd[r] # NoCmd => clock - cmd[r].sentAt < Rtt
    /\ pc[r] = "run" => clock - since[r] < HandlerTime
    /\ write[r] # "none" => clock - since[r] < Rtt
    /\ pc[r] # "poll"
    /\ pc[r] = "sleep" => clock < since[r] + PollEvery

Tick ==
  /\ clock < Horizon
  /\ calm' = (calm /\ InTime)
  /\ clock' = clock + 1
  /\ \/ /\ rec.st # "absent" /\ expires = clock + 1
        /\ rec' = Absent /\ expires' = 0
     \/ /\ rec.st = "absent" \/ expires # clock + 1
        /\ UNCHANGED storeVars
  /\ \/ /\ winner # NoReq /\ clock + 1 >= wonAt + LockTimeout
        /\ winner' = NoReq /\ wonAt' = 0
     \/ /\ winner = NoReq \/ clock + 1 < wonAt + LockTimeout
        /\ UNCHANGED winVars
  /\ UNCHANGED <<pc, cmd, reqVars, write, faults, got, why>>

Next ==
  \/ \E r \in Req :
       \/ Arrive(r) \/ CheckNew(r) \/ CheckReplay(r) \/ CheckProcessing(r) \/ CheckMismatch(r)
       \/ Poll(r) \/ WaitOver(r) \/ Wake(r)
       \/ Handled(r, "completed") \/ Handled(r, "failed") \/ HandledOpen(r)
       \/ Store(r) \/ LoseWrite(r)
       \/ StoreError(r) \/ Orphan(r) \/ Crash(r)
  \/ Delete
  \/ Tick

Spec == Init /\ [][Next]_vars

--------------------------------------------------------------------------------
(* Properties. *)

\* Exactly one contender wins a lock window (lua-scripts.ts:64-67): no request is
\* granted the key until lockTimeout has passed since the previous winner read its
\* clock, however many requests race, retry, die or write late.
OneWinnerPerWindow ==
  [][winner # NoReq => winner' = winner \/ winner' = NoReq]_vars

\* No record is immortal (lua-scripts.ts:91-97): whatever writes the hash, the key
\* has an expiry, and it lies in the future.
RecordExpires == rec.st # "absent" => expires > clock

\* A record is replayed by checkAndLock only to a request with the payload of the
\* request that wrote it, even when it was re-created after the lock had expired.
DirectReplayMatches ==
  Validate => \A r \in Req :
    pc[r] = "replayed" => Payload[r] = Payload[got[r]]

\* With handlers that end inside the lock window the handler never runs twice in
\* parallel, crashes and lost writes included (concurrent-requests.md:167-170).
NoParallelRuns ==
  calm => \A q, r \in Req : pc[q] = "run" /\ pc[r] = "run" => q = r

\* A stored success is the answer until its TTL runs out: while handlers end inside
\* the lock window no later event turns it into a failure or frees the key
\* (concepts.md:103-118).
CompletedIsFinal ==
  [][rec.st = "completed" /\ calm' => \/ rec'.st = "completed"
                                      \/ rec'.st = "absent" /\ clock' = expires]_vars

\* What is checked as one: an answer is that of the same payload, and a success stays one.
AnswersFinal == [](TypeOK /\ DirectReplayMatches) /\ CompletedIsFinal

--------------------------------------------------------------------------------
\* What the documentation says and the code does not do, configuration.md:63-66: with
\* fail-open a request goes on without protection only while the store is down.
OpenOnlyOnStoreError == \A r \in Req : pc[r] = "open" => why[r] = "error"
================================================================================
