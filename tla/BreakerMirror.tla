------------------------------ MODULE BreakerMirror ------------------------------
(* The Redis store and the pure state machine run side by side on the same calls:  *)
(* "Semantics mirror the pure CircuitBreakerState one-to-one" (lua-scripts.ts:7).   *)
EXTENDS BreakerScripts

CONSTANTS
  Id,         \* the unique suffixes the adapter draws
  Skew,       \* how far a caller's clock may lie behind the latest time seen
  MaxPause,    \* the longest pause between two requests
  Horizon     \* BOUND: the clock stops here

ASSUME MirrorAssumption ==
  Skew \in Nat /\ MaxPause \in Nat /\ Horizon \in Nat

VARIABLES
  clock,     \* the latest time a call carried
  lua,       \* the keys in Redis
  pure,      \* the object
  touched,   \* when the state hash last got its expiry
  asked,     \* when a request was last made
  verdicts   \* what the two answered to the last request

--------------------------------------------------------------------------------
(* CircuitBreakerState, the pure state machine of the domain layer: the same      *)
(* operations on its fields. Its arrays of timestamps are sets of pairs of a       *)
(* timestamp and an identity, since two entries may carry the same time.           *)

NewState == [state |-> "closed", openedAt |-> 0, successes |-> 0, failures |-> {}, probes |-> {}]

Pruned(S, now, span) == {m \in S : m.at > now - span}

ToOpen(now) == [state |-> "open", openedAt |-> now, successes |-> 0, failures |-> {}, probes |-> {}]
ToHalfOpen(c) == [state |-> "half-open", openedAt |-> c.openedAt, successes |-> 0,
                  failures |-> c.failures, probes |-> {}]

\* tryHalfOpenProbe.
TryProbe(c, now, id) ==
  LET probes == Pruned(c.probes, now, ProbeTimeout)
  IN IF Cardinality(probes) < HalfOpenMaxCalls
     THEN [ok |-> TRUE, next |-> [c EXCEPT !.probes = probes \cup {[at |-> now, id |-> id]}]]
     ELSE [ok |-> FALSE, next |-> [c EXCEPT !.probes = probes]]

CanRequest(c, now, id) ==
  CASE c.state = "closed" -> [ok |-> TRUE, next |-> c]
    [] c.state = "open" /\ now - c.openedAt >= OpenDuration ->
         TryProbe(ToHalfOpen(c), now, id)
    [] c.state = "open" /\ ~(now - c.openedAt >= OpenDuration) -> [ok |-> FALSE, next |-> c]
    [] c.state = "half-open" -> TryProbe(c, now, id)

\* releaseNewestProbe.
ReleaseNewest(S) ==
  IF S = {} THEN S ELSE S \ {CHOOSE m \in S : \A n \in S : n.at <= m.at}

PureRecordSuccess(c, now) ==
  CASE c.state \in {"closed", "open"} -> c
    [] c.state = "half-open" /\ c.successes + 1 >= SuccessThreshold -> NewState
    [] c.state = "half-open" /\ ~(c.successes + 1 >= SuccessThreshold) ->
         [c EXCEPT !.probes = ReleaseNewest(Pruned(c.probes, now, ProbeTimeout)),
                   !.successes = @ + 1]

PureRecordFailure(c, now, id) ==
  LET failures == Pruned(c.failures \cup {[at |-> now, id |-> id]}, now, Window)
  IN CASE c.state = "open" -> c
       [] c.state = "half-open" -> ToOpen(now)
       [] c.state = "closed" /\ Cardinality(failures) >= FailureThreshold -> ToOpen(now)
       [] c.state = "closed" /\ ~(Cardinality(failures) >= FailureThreshold) ->
            [c EXCEPT !.failures = failures]

Snapshot(c, now) ==
  [mode |-> c.state,
   failures |-> Cardinality(Pruned(c.failures, now, Window)),
   succ |-> c.successes,
   inFlight |-> Cardinality(Pruned(c.probes, now, ProbeTimeout))]

--------------------------------------------------------------------------------
(* Both on the same calls. *)

mirrorVars == <<clock, lua, pure, touched, asked, verdicts>>

Entries == [at : Int, id : Id]
Stores == [mode : Mode, openedAt : Int, succ : 0..(SuccessThreshold - 1),
           fails : SUBSET Entries, probes : SUBSET Entries]
Machines == [state : Mode, openedAt : Int, successes : 0..(SuccessThreshold - 1),
             failures : SUBSET Entries, probes : SUBSET Entries]

MirrorTypeOK ==
  /\ clock \in Nat /\ touched \in Nat /\ asked \in Nat
  /\ lua \in Stores /\ pure \in Machines
  /\ verdicts \in {<<TRUE, TRUE>>, <<TRUE, FALSE>>, <<FALSE, TRUE>>, <<FALSE, FALSE>>}

MirrorInit ==
  /\ clock = 1 /\ touched = 0 /\ asked = 1
  /\ lua = ClosedStore /\ pure = NewState
  /\ verdicts = <<TRUE, TRUE>>

\* The callers' clocks: within Skew of the latest one.
Times == {t \in (clock - Skew)..clock : t >= 1}

Drawn(id, now) ==
  [at |-> now, id |-> id] \notin lua.fails \cup lua.probes \cup pure.failures \cup pure.probes

Request(now, id) ==
  LET l == LuaCanRequest(lua, now, id)
      p == CanRequest(pure, now, id)
  IN /\ Drawn(id, now)
     /\ lua' = l.store /\ pure' = p.next
     /\ verdicts' = <<l.ok, p.ok>>
     /\ asked' = clock
     /\ touched' = IF l.store.mode = "half-open" /\ l.ok THEN clock ELSE touched
     /\ UNCHANGED clock

Success(now) ==
  /\ lua' = LuaRecordSuccess(lua, now)
  /\ pure' = PureRecordSuccess(pure, now)
  /\ touched' = IF lua'.mode = "half-open" THEN clock ELSE touched
  /\ UNCHANGED <<clock, asked, verdicts>>

Failure(now, id) ==
  /\ Drawn(id, now)
  /\ lua' = LuaRecordFailure(lua, now, id)
  /\ pure' = PureRecordFailure(pure, now, id)
  /\ touched' = IF lua.mode # "open" /\ lua'.mode = "open" THEN clock ELSE touched
  /\ UNCHANGED <<clock, asked, verdicts>>

MirrorReset ==
  /\ lua' = ClosedStore /\ pure' = NewState
  /\ UNCHANGED <<clock, touched, asked, verdicts>>

\* Time passes; Redis drops a state hash that nobody touched.
MirrorTick ==
  /\ clock < Horizon
  /\ clock + 1 <= asked + MaxPause
  /\ clock' = clock + 1
  /\ lua' = IF lua.mode # "closed" /\ clock + 1 >= touched + IdleTtl
            THEN [mode |-> "closed", openedAt |-> 0, succ |-> 0,
                  fails |-> lua.fails, probes |-> lua.probes]
            ELSE lua
  /\ UNCHANGED <<pure, touched, asked, verdicts>>

MirrorNext ==
  \/ \E now \in Times :
       \/ Success(now)
       \/ \E id \in Id : Request(now, id) \/ Failure(now, id)
  \/ MirrorReset
  \/ MirrorTick

MirrorSpec == MirrorInit /\ [][MirrorNext]_mirrorVars

--------------------------------------------------------------------------------
\* Both admit and refuse the same requests.
SameDecision == verdicts[1] = verdicts[2]

\* getState() and snapshot() report the same at any time from now on.
SameSnapshot ==
  \A ahead \in 0..Longest : LuaSnapshot(lua, clock + ahead) = Snapshot(pure, clock + ahead)
================================================================================
