----------------------------- MODULE CircuitBreaker -----------------------------
(* One circuit of @nestjs-redisx/circuit-breaker: execute() calls of several        *)
(* processes, reports of a health probe, the scripts of BreakerScripts in Redis,    *)
(* and a dependency that goes down and comes back.                                  *)
(* Times are relative: now is 0, every stored time is at most 0, and Tick moves     *)
(* all of them into the past. What is too old to matter is cut off there.           *)
EXTENDS BreakerScripts

CONSTANTS
  Callers,    \* execute() calls under way at a time
  Reporters,  \* users of recordSuccess() and recordFailure()
  MaxDelay,   \* a command is executed at most so long after Date.now() was read
  MaxRun,     \* a guarded function returns within so much time
  MaxIdle,    \* callers come at least so often
  FailOpen,   \* errorPolicy
  Faults      \* BOUND: lost commands and crashes

ASSUME CircuitAssumption ==
  /\ MaxDelay \in Nat /\ MaxRun \in Nat /\ MaxIdle \in Nat \ {0}
  /\ FailOpen \in BOOLEAN /\ Faults \in Nat
  /\ Callers \cap Reporters = {}

VARIABLES
  store,   \* the keys of the circuit
  left,    \* time until Redis drops the state hash, 0 without one
  call,    \* what each caller or reporter is doing
  up,      \* the dependency works
  faults,
  \* history
  tripAge, \* time since the circuit last opened, up to OpenDuration
  credit,  \* successes of its probes, and reported ones, since the circuit turned half-open
  by,      \* what closed it last
  quiet    \* time since a caller came

vars == <<store, left, call, up, faults, tripAge, credit, by, quiet>>

Actor == Callers \cup Reporters

\* pc; since when (the Date.now() of a command, or the start of the function);
\* whether it was admitted as a probe of the present half-open period; the outcome.
Call(pc, at, probe, ok) == [pc |-> pc, at |-> at, probe |-> probe, ok |-> ok]
Begun(pc) == Call(pc, 0, FALSE, FALSE)
Idle == Begun("idle")
CallType == [pc : {"idle", "asking", "running", "recording", "unguarded"},
             at : -(MaxDelay + MaxRun)..0, probe : BOOLEAN, ok : BOOLEAN]

Suffix == 1..(FailureThreshold + HalfOpenMaxCalls)
Entry(span) == [at : -(span + MaxDelay)..0, id : Suffix]
StoreType == [mode : Mode, openedAt : -(OpenDuration + MaxDelay)..0, succ : 0..(SuccessThreshold - 1),
              fails : SUBSET Entry(Window), probes : SUBSET Entry(ProbeTimeout)]

TypeOK ==
  /\ store \in StoreType
  /\ left \in 0..IdleTtl /\ (store.mode # "closed" => left > 0)
  /\ call \in [Actor -> CallType]
  /\ up \in BOOLEAN /\ faults \in 0..Faults
  /\ tripAge \in 0..OpenDuration /\ credit \in 0..(SuccessThreshold - 1)
  /\ by \in {"none", "probes", "late", "forgotten", "reset"}
  /\ quiet \in 0..MaxIdle

Init ==
  /\ store = ClosedStore /\ left = 0
  /\ call = [c \in Actor |-> Idle]
  /\ up = TRUE /\ faults = 0
  /\ tripAge = OpenDuration /\ credit = 0 /\ by = "none" /\ quiet = 0

\* uniqueMember.
Fresh == CHOOSE id \in Suffix : \A m \in store.fails \cup store.probes : m.id # id

\* The history after the keys became s: left, tripAge, credit and by, and which of
\* the calls in f are still probes of the present half-open period.
Became(s, ttl, closer, credited, f) ==
  /\ store' = s
  /\ left' = IF s.mode = "closed" THEN 0 ELSE ttl
  /\ tripAge' = IF s.mode = "open" /\ store.mode # "open" THEN 0 ELSE tripAge
  /\ credit' = IF s.mode = "half-open" /\ store.mode = "half-open" THEN credited ELSE 0
  /\ by' = IF s.mode # "closed" THEN "none" ELSE IF store.mode = "closed" THEN by ELSE closer
  /\ call' = IF s.mode = "half-open" /\ store.mode = "half-open" THEN f
             ELSE [c \in Actor |-> Call(f[c].pc, f[c].at,
                     s.mode = "half-open" /\ call[c].pc = "asking" /\ f[c].pc = "running", f[c].ok)]

Unmoved == UNCHANGED <<store, left, tripAge, credit, by>>

\* execute(): Date.now() is read and the script sent.
Ask(c) ==
  /\ c \in Callers /\ call[c] = Idle
  /\ call' = [call EXCEPT ![c] = Begun("asking")]
  /\ quiet' = 0
  /\ Unmoved /\ UNCHANGED <<up, faults>>

\* canRequest() and its answer; a refused call is over (fallback or error).
Decide(c, next) ==
  LET d == LuaCanRequest(store, call[c].at, Fresh)
      answered == IF d.ok THEN Call("running", 0, d.store.mode = "half-open", FALSE)
                  ELSE Idle
      renewed == d.store.mode = "half-open" /\ (d.ok \/ store.mode = "open")
  IN Became(d.store, IF renewed THEN IdleTtl ELSE left, by, credit,
            [call EXCEPT ![c] = IF next = "answer" THEN answered ELSE Begun(next)])

Gate(c) ==
  /\ call[c].pc = "asking"
  /\ Decide(c, "answer")
  /\ UNCHANGED <<up, faults, quiet>>

\* The store failed, before or after the script: fail-open runs the function unguarded.
StoreError(c) ==
  LET next == IF FailOpen THEN "unguarded" ELSE "idle"
  IN /\ call[c].pc = "asking" /\ faults < Faults
     /\ \/ Decide(c, next)
        \/ Unmoved /\ call' = [call EXCEPT ![c] = Begun(next)]
     /\ faults' = faults + 1
     /\ UNCHANGED <<up, quiet>>

\* The function settles; its outcome is about to be recorded, unless it ran unguarded.
Settle(c) ==
  /\ call[c].pc \in {"running", "unguarded"}
  /\ call' = [call EXCEPT ![c] = IF call[c].pc = "unguarded" THEN Idle
                ELSE Call("recording", 0, call[c].probe, up)]
  /\ Unmoved /\ UNCHANGED <<up, faults, quiet>>

\* recordSuccess() or recordFailure() by hand, after a look at the dependency.
Report(c) ==
  /\ c \in Reporters /\ call[c] = Idle
  /\ call' = [call EXCEPT ![c] = Call("recording", 0, FALSE, up)]
  /\ Unmoved /\ UNCHANGED <<up, faults, quiet>>

RecordSuccess(c) ==
  LET s == LuaRecordSuccess(store, call[c].at)
      credited == IF call[c].probe \/ c \in Reporters THEN credit + 1 ELSE credit
  IN /\ call[c].pc = "recording" /\ call[c].ok
     /\ Became(s, IF s.mode = "half-open" THEN IdleTtl ELSE left,
               IF credited >= SuccessThreshold THEN "probes" ELSE "late",
               credited, [call EXCEPT ![c] = Idle])
     /\ UNCHANGED <<up, faults, quiet>>

RecordFailure(c) ==
  LET s == LuaRecordFailure(store, call[c].at, Fresh)
  IN /\ call[c].pc = "recording" /\ ~call[c].ok
     /\ Became(s, IF s.mode = "open" /\ store.mode # "open" THEN IdleTtl ELSE left,
               by, credit, [call EXCEPT ![c] = Idle])
     /\ UNCHANGED <<up, faults, quiet>>

\* safeRecordSuccess and safeRecordFailure log a failed command and go on; a process
\* may also die with its call.
Lose(c) ==
  /\ call[c].pc \in {"running", "recording"} /\ faults < Faults
  /\ call' = [call EXCEPT ![c] = Idle]
  /\ faults' = faults + 1
  /\ Unmoved /\ UNCHANGED <<up, quiet>>

Reset ==
  /\ store # ClosedStore
  /\ Became(ClosedStore, 0, "reset", 0, call)
  /\ UNCHANGED <<up, faults, quiet>>

Flip == up' = ~up /\ Unmoved /\ UNCHANGED <<call, faults, quiet>>

\* Nothing is older than its bound, and a caller came lately (if one is free to).
MayPass ==
  /\ \A c \in Actor : /\ call[c].pc \in {"asking", "recording"} => call[c].at > -MaxDelay
                      /\ call[c].pc \in {"running", "unguarded"} => call[c].at > -MaxRun
  /\ (\E c \in Callers : call[c] = Idle) => quiet < MaxIdle

\* What is too old for any later command to count stays where it is.
Older(time, oldest) == IF time > oldest THEN time - 1 ELSE time
Aged(S, span) == {[at |-> Older(m.at, -(span + MaxDelay)), id |-> m.id] : m \in S}

Tick ==
  /\ MayPass
  /\ LET dropped == left = 1 /\ store.mode # "closed"
         mode == IF dropped THEN "closed" ELSE store.mode
     IN /\ store' = [mode |-> mode,
                     openedAt |-> IF mode = "open"
                                  THEN Older(store.openedAt, -(OpenDuration + MaxDelay)) ELSE 0,
                     succ |-> IF dropped THEN 0 ELSE store.succ,
                     fails |-> Aged(store.fails, Window),
                     probes |-> Aged(store.probes, ProbeTimeout)]
        /\ left' = IF left > 0 THEN left - 1 ELSE 0
        /\ by' = IF dropped THEN "forgotten" ELSE by
        /\ credit' = IF dropped THEN 0 ELSE credit
        /\ call' = [c \in Actor |->
                      IF call[c] = Idle THEN Idle
                      ELSE Call(call[c].pc, call[c].at - 1, call[c].probe /\ ~dropped, call[c].ok)]
  /\ tripAge' = IF tripAge < OpenDuration THEN tripAge + 1 ELSE tripAge
  /\ quiet' = IF \E c \in Callers : call[c] = Idle THEN quiet + 1 ELSE quiet
  /\ UNCHANGED <<up, faults>>

Next ==
  \/ \E c \in Actor :
       \/ Ask(c) \/ Gate(c) \/ StoreError(c) \/ Settle(c)
       \/ Report(c) \/ RecordSuccess(c) \/ RecordFailure(c) \/ Lose(c)
  \/ Reset \/ Flip \/ Tick

Spec == Init /\ [][Next]_vars

\* Commands are executed, functions return, callers and reporters come back, time passes.
Fairness ==
  /\ WF_vars(Tick)
  /\ \A c \in Callers : WF_vars(Ask(c))
  /\ \A c \in Reporters : WF_vars(Report(c))
  /\ \A c \in Actor : WF_vars(Gate(c) \/ Settle(c) \/ RecordSuccess(c) \/ RecordFailure(c))

FairSpec == Spec /\ Fairness

--------------------------------------------------------------------------------
Admitted(c) == call[c].pc = "asking" /\ call'[c].pc = "running"

\* Once open, the circuit admits nobody before its cooldown is over, whatever was
\* delayed and whoever recorded what: concepts.md, OPEN.
CooldownHolds ==
  [][\A c \in Callers : store.mode = "open" /\ Admitted(c) => tripAge >= OpenDuration - MaxDelay]_vars

\* At most halfOpenMaxCalls probes run at a time: algorithm.md, HALF_OPEN.
ProbesBounded == Cardinality({c \in Callers : call[c].pc = "running" /\ call[c].probe}) <= HalfOpenMaxCalls

\* The circuit is closed by successThreshold successes of the probes of this half-open
\* period (or reported by hand), not by calls that were under way before it opened: algorithm.md, HALF_OPEN.
ClosesByProbes == by # "late"

\* An open circuit is not forgotten before its cooldown is over: PREAMBLE, ttl_ms.
NotForgottenEarly ==
  [][store.mode = "open" /\ by' = "forgotten" => tripAge >= OpenDuration - 1]_vars

\* When the dependency stays up the circuit ends up closed, and it gets there by probing
\* (or by reset) and not because Redis forgot it.
Recovers == <>[]up => <>[](store.mode = "closed" /\ by # "forgotten")

\* What is checked as one: the cooldown of an open circuit is kept and not forgotten ...
OpenHolds == CooldownHolds /\ NotForgottenEarly

\* ... and a half-open one admits its probes only, and is closed by them alone.
ProbesDecide == ProbesBounded /\ ClosesByProbes
================================================================================
