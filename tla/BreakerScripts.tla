----------------------------- MODULE BreakerScripts -----------------------------
(* The Lua scripts of @nestjs-redisx/circuit-breaker, as functions from what the *)
(* keys of one circuit hold to what they hold afterwards and the reply. Times    *)
(* are the callers' clocks; members of the sorted sets are pairs of a score and  *)
(* the unique suffix the adapter draws.                                          *)
EXTENDS Integers, FiniteSets

CONSTANTS FailureThreshold, Window, OpenDuration, HalfOpenMaxCalls, SuccessThreshold, ProbeTimeout,
  IdleSlack  \* 60000 ms in PREAMBLE

\* validateCircuitBreakerConfig
ASSUME BreakerAssumption ==
  /\ FailureThreshold \in Nat \ {0} /\ Window \in Nat \ {0} /\ OpenDuration \in Nat \ {0}
  /\ HalfOpenMaxCalls \in Nat \ {0} /\ SuccessThreshold \in Nat \ {0} /\ ProbeTimeout \in Nat \ {0}
  /\ SuccessThreshold <= HalfOpenMaxCalls /\ IdleSlack \in Nat \ {0}

Longest == LET m == IF Window > OpenDuration THEN Window ELSE OpenDuration
           IN IF m > ProbeTimeout THEN m ELSE ProbeTimeout
IdleTtlOfCooldown == OpenDuration - 1
\* PREAMBLE: ttl_ms, after which Redis forgets a state hash nobody touched.
IdleTtl == 2 * Longest + IdleSlack

Mode == {"closed", "open", "half-open"}

\* The state hash (absent means closed), the failures and the probes.
ClosedStore == [mode |-> "closed", openedAt |-> 0, succ |-> 0, fails |-> {}, probes |-> {}]

\* ZREMRANGEBYSCORE key -inf now - span.
Recent(S, now, span) == {m \in S : m.at > now - span}

LuaKeepsOpenedAt(s, now) == [s EXCEPT !.mode = "open", !.succ = 0, !.fails = {}, !.probes = {}]
LuaOpen(s, now) == [mode |-> "open", openedAt |-> now, succ |-> 0, fails |-> {}, probes |-> {}]

LuaTurnsAtOnce(s, now) ==
  IF s.mode = "open"
  THEN [mode |-> "half-open", openedAt |-> s.openedAt, succ |-> 0, fails |-> s.fails, probes |-> {}]
  ELSE s
\* CAN_REQUEST: an open circuit whose cooldown is over turns half-open first.
LuaTurned(s, now) ==
  IF s.mode = "open" /\ now - s.openedAt >= OpenDuration
  THEN [mode |-> "half-open", openedAt |-> s.openedAt, succ |-> 0, fails |-> s.fails, probes |-> {}]
  ELSE s

LuaKeepsDeadProbes(s, now) == s
LuaReclaimed(s, now) == [s EXCEPT !.probes = Recent(s.probes, now, ProbeTimeout)]

HasSlotNoLimit(s) == TRUE
HasSlot(s) == Cardinality(s.probes) < HalfOpenMaxCalls

LuaCanRequest(s, now, id) ==
  LET turned == LuaTurned(s, now)
      swept == LuaReclaimed(turned, now)
  IN CASE turned.mode = "open" -> [ok |-> FALSE, store |-> s]
       [] turned.mode = "half-open" /\ HasSlot(swept) ->
            [ok |-> TRUE, store |-> [swept EXCEPT !.probes = @ \cup {[at |-> now, id |-> id]}]]
       [] turned.mode = "half-open" /\ ~HasSlot(swept) -> [ok |-> FALSE, store |-> swept]
       [] turned.mode = "closed" ->
            [ok |-> TRUE, store |-> [s EXCEPT !.fails = Recent(s.fails, now, Window)]]

\* ZRANGE -1 -1: a member with the highest score.
Newest(S) == CHOOSE m \in S : \A n \in S : n.at <= m.at
WithoutNewest(S) == IF S = {} THEN S ELSE S \ {Newest(S)}

ClosesLate(succ) == succ > SuccessThreshold
Closes(succ) == succ >= SuccessThreshold

LuaRecordSuccess(s, now) ==
  LET swept == LuaReclaimed(s, now)
  IN CASE s.mode = "closed" -> [s EXCEPT !.fails = Recent(s.fails, now, Window)]
       [] s.mode = "open" -> s
       [] s.mode = "half-open" /\ Closes(s.succ + 1) -> ClosedStore
       [] s.mode = "half-open" /\ ~Closes(s.succ + 1) ->
            [swept EXCEPT !.probes = WithoutNewest(@), !.succ = s.succ + 1]

TripsLate(fails) == Cardinality(fails) > FailureThreshold
Trips(fails) == Cardinality(fails) >= FailureThreshold

LuaRecordFailure(s, now, id) ==
  LET fails == Recent(s.fails \cup {[at |-> now, id |-> id]}, now, Window)
  IN CASE s.mode = "open" -> s
       [] s.mode = "half-open" -> LuaOpen(s, now)
       [] s.mode = "closed" /\ Trips(fails) -> LuaOpen(s, now)
       [] s.mode = "closed" /\ ~Trips(fails) -> [s EXCEPT !.fails = fails]

\* GET_STATE, and the snapshot part of every reply.
LuaSnapshot(s, now) ==
  [mode |-> s.mode,
   failures |-> IF s.mode = "closed" THEN Cardinality(Recent(s.fails, now, Window)) ELSE 0,
   succ |-> IF s.mode = "half-open" THEN s.succ ELSE 0,
   inFlight |-> IF s.mode = "half-open" THEN Cardinality(Recent(s.probes, now, ProbeTimeout)) ELSE 0]
================================================================================
