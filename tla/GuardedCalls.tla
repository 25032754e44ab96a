---------------------------- MODULE GuardedCalls ----------------------------
(* Methods under @WithLock and @WithCircuitBreaker: the decorators wrap one
   another, on one method or on methods that call each other, so a call is a
   stack of guards around a body. Locks do not run out here (DistributedLock),
   and what the breaker's store decides is left open (CircuitBreaker). *)
EXTENDS Naturals, Sequences, FiniteSets

CONSTANTS GuardedCall, LockKey, Nobody,
          CallStacks,    \* the guards a call may have, the outermost first
          GuardFaults     \* BOUND: commands that fail

VARIABLES ready,     \* the plugins whose getter is registered: "lock", "breaker"
          calls,     \* each call: its guards, how far it is in them, what each did, its outcome
          owner,     \* the lock keys: the call and the guard that hold each, or Nobody
          records,   \* history: what was recorded for each admitted guard
          faults
guardsVars == <<ready, calls, owner, records, faults>>

Lock(key, on) == [kind |-> "lock", key |-> key, on |-> on]          \* onLockFailed
Breaker(on) == [kind |-> "breaker", key |-> Nobody, on |-> on]      \* fallback or onOpen
LockModes == {"throw", "skip", "custom"}
BreakerModes == {"throw", "skip", "fallback", "bypass"}
AnyGuard == {Lock(k, on) : k \in LockKey, on \in LockModes} \union {Breaker(on) : on \in BreakerModes}
ASSUME GuardsAssumption == GuardedCall \subseteq Nat /\ Nobody \notin GuardedCall \X Nat /\ CallStacks \subseteq Seq(AnyGuard)

Errors == {"failed", "lockError", "customError", "openError", "storeError"}
Ok(out) == out \notin Errors

Fresh == [stack |-> <<>>, at |-> 0, did |-> <<>>, out |-> "none", ran |-> 0, phase |-> "new"]
GuardsInit ==
  /\ ready \in SUBSET {"lock", "breaker"}
  /\ calls = [c \in GuardedCall |-> Fresh] /\ owner = [k \in LockKey |-> Nobody]
  /\ records = [c \in GuardedCall |-> <<>>] /\ faults = 0

\* The initializer services register the getters when their modules start.
Register(p) == p \notin ready /\ ready' = ready \union {p} /\ UNCHANGED <<calls, owner, records, faults>>

Start(c) ==
  /\ calls[c].phase = "new" /\ (\A d \in GuardedCall : d < c => calls[d].phase # "new")   \* calls are interchangeable
  /\ \E s \in CallStacks :
       /\ calls' = [calls EXCEPT ![c] = [Fresh EXCEPT !.stack = s, !.at = 1, !.phase = "in", !.did = [i \in DOMAIN s |-> "none"]]]
       /\ records' = [records EXCEPT ![c] = [i \in DOMAIN s |-> <<>>]]
  /\ UNCHANGED <<ready, owner, faults>>

\* --------------------------------------------------------------- on the way in
Guard(c) == calls[c].stack[calls[c].at]
Entering(c, kind) == calls[c].phase = "in" /\ calls[c].at <= Len(calls[c].stack) /\ Guard(c).kind = kind
Inward(c, did) == calls' = [calls EXCEPT ![c].did[calls[c].at] = did, ![c].at = @ + 1]
Turns(c, did, out) == calls' = [calls EXCEPT ![c].did[calls[c].at] = did, ![c].at = @ - 1, ![c].out = out, ![c].phase = "out"]
Fails == faults < GuardFaults /\ faults' = faults + 1

\* Without a getter, or when skip() says so, the method runs bare.
Bare(c) == /\ \/ Entering(c, "lock") /\ "lock" \notin ready
              \/ Entering(c, "breaker") /\ ("breaker" \notin ready \/ Guard(c).on = "bypass")
           /\ Inward(c, "bare") /\ UNCHANGED <<ready, owner, records, faults>>

\* handleLockFailed()
LockFailed(on) == CASE on = "throw" -> "lockError" [] on = "skip" -> "skipped" [] on = "custom" -> "customError"
Acquires(c) == Entering(c, "lock") /\ "lock" \in ready
Acquire(c) == /\ Acquires(c) /\ owner[Guard(c).key] = Nobody
              /\ owner' = [owner EXCEPT ![Guard(c).key] = <<c, calls[c].at>>]
              /\ Inward(c, "holds") /\ UNCHANGED <<ready, records, faults>>
AcquireTimesOut(c) == /\ Acquires(c) /\ owner[Guard(c).key] # Nobody
                      /\ Turns(c, "refused", LockFailed(Guard(c).on)) /\ UNCHANGED <<ready, owner, records, faults>>
\* The store's error is not a LockAcquisitionError; the key may have been set all the same.
AcquireFails(c) == /\ Acquires(c) /\ Fails /\ Turns(c, "error", "storeError")
                   /\ owner' \in {owner} \union (IF owner[Guard(c).key] # Nobody THEN {}
                                                ELSE {[owner EXCEPT ![Guard(c).key] = <<c, 0>>]})
                   /\ UNCHANGED <<ready, records>>

Asks(c) == Entering(c, "breaker") /\ "breaker" \in ready /\ Guard(c).on # "bypass"
Admitted(c) == Asks(c) /\ Inward(c, "admitted") /\ UNCHANGED <<ready, owner, records, faults>>
Rejection(on) == CASE on = "throw" -> "openError" [] on \in {"skip", "fallback"} -> "fallback"
Rejected(c) == Asks(c) /\ Turns(c, "rejected", Rejection(Guard(c).on)) /\ UNCHANGED <<ready, owner, records, faults>>
CanRequestFails(c, policy) ==
  /\ Asks(c) /\ Fails /\ UNCHANGED <<ready, owner, records>>
  /\ IF policy = "fail-open" THEN Inward(c, "bare") ELSE Turns(c, "error", "storeError")

Body(c, out) ==
  /\ calls[c].phase = "in" /\ calls[c].at > Len(calls[c].stack)
  /\ calls' = [calls EXCEPT ![c].at = @ - 1, ![c].out = out, ![c].ran = @ + 1, ![c].phase = "out"]
  /\ UNCHANGED <<ready, owner, records, faults>>

\* --------------------------------------------------------------- on the way out
Did(c, did) == calls[c].phase = "out" /\ calls[c].at > 0 /\ calls[c].did[calls[c].at] = did
Outward(c) == [calls[c] EXCEPT !.at = @ - 1]
PassBare(c) == Did(c, "bare") /\ calls' = [calls EXCEPT ![c] = Outward(c)] /\ UNCHANGED <<ready, owner, records, faults>>

\* The catch clause takes any LockAcquisitionError for its own; then the lock is released,
\* and a release that fails is logged.
Caught(c) == [Outward(c) EXCEPT !.out = IF @ = "lockError" THEN LockFailed(Guard(c).on) ELSE @]
ReleasedOnSuccess(c) == IF Ok(calls[c].out) THEN [owner EXCEPT ![Guard(c).key] = Nobody] ELSE owner
Released(c) == [owner EXCEPT ![Guard(c).key] = Nobody]
Release(c) == /\ Did(c, "holds") /\ calls' = [calls EXCEPT ![c] = Caught(c)]
              /\ owner' = Released(c) /\ UNCHANGED <<ready, records, faults>>
ReleaseFails(c) == /\ Did(c, "holds") /\ Fails /\ calls' = [calls EXCEPT ![c] = Caught(c)]
                   /\ owner' \in {owner, Released(c)} /\ UNCHANGED <<ready, records>>

\* recordSuccess() or recordFailure(); one that fails is logged.
Verdict(c) == IF Ok(calls[c].out) THEN "success" ELSE "failure"
Record(c) == /\ Did(c, "admitted") /\ calls' = [calls EXCEPT ![c] = Outward(c)]
             /\ records' = [records EXCEPT ![c][calls[c].at] = Append(@, Verdict(c))]
             /\ UNCHANGED <<ready, owner, faults>>
RecordFails(c) == /\ Did(c, "admitted") /\ Fails /\ calls' = [calls EXCEPT ![c] = Outward(c)]
                  /\ UNCHANGED <<ready, owner, records>>

Settle(c) == /\ calls[c].phase = "out" /\ calls[c].at = 0
             /\ calls' = [calls EXCEPT ![c].phase = "done"] /\ UNCHANGED <<ready, owner, records, faults>>

GuardsNext ==
  \/ \E p \in {"lock", "breaker"} : Register(p)
  \/ \E c \in GuardedCall :
       \/ Start(c) \/ Bare(c) \/ Acquire(c) \/ AcquireTimesOut(c) \/ AcquireFails(c)
       \/ Admitted(c) \/ Rejected(c) \/ \E p \in {"fail-open", "fail-closed"} : CanRequestFails(c, p)
       \/ \E o \in {"value", "failed"} : Body(c, o)
       \/ PassBare(c) \/ Release(c) \/ ReleaseFails(c) \/ Record(c) \/ RecordFails(c) \/ Settle(c)
GuardsSpec == GuardsInit /\ [][GuardsNext]_guardsVars

\* --------------------------------------------------------------- properties
Done(c) == calls[c].phase = "done"
Inside(c) == calls[c].phase = "in" /\ calls[c].at > Len(calls[c].stack)
Locked(c) == {calls[c].stack[i].key : i \in {j \in DOMAIN calls[c].stack : calls[c].did[j] = "holds"}}

(* However the guards are stacked and whoever refuses, throws or fails: the body
   runs at most once, never in two calls that hold the same lock, and a call
   that ends with its value ran it; when no command failed, a call that is over
   holds no lock, and of every guard that admitted it the outcome was recorded
   once, as a success only if nothing below it threw. *)
SettledLeavesNothing ==
  /\ \A c \in GuardedCall : calls[c].ran <= 1 /\ (calls[c].out = "value" => calls[c].ran = 1)
  /\ \A c, d \in GuardedCall : c # d /\ Inside(c) /\ Inside(d) => Locked(c) \intersect Locked(d) = {}
  /\ \A c \in GuardedCall : Done(c) /\ faults = 0 =>
       /\ \A k \in LockKey : owner[k] = Nobody \/ owner[k][1] # c
       /\ \A i \in DOMAIN calls[c].stack :
            /\ Len(records[c][i]) = (IF calls[c].did[i] = "admitted" THEN 1 ELSE 0)
            /\ records[c][i] = <<"success">> => Ok(calls[c].out)
            /\ records[c][i] = <<"failure">> => calls[c].out # "value"
=============================================================================
