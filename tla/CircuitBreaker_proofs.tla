-------------------------- MODULE CircuitBreaker_proofs --------------------------
(* For every configuration of the breaker, any number of callers and any traffic: *)
(* an open circuit holds its cooldown and is not forgotten before it is over; and *)
(* when guarded calls are brief, its probes stay within their budget and they     *)
(* alone close it. The second part is about BreakerMirror.                        *)
EXTENDS CircuitBreaker, BreakerMirror, FiniteSetTheorems, TLAPS

--------------------------------------------------------------------------------
(* The invariant. *)

\* How old what is under way can be, and who can be a probe.
Fine(c, v, mode) ==
  /\ v.pc = "idle" => v = Idle
  /\ v.pc \in {"asking", "recording"} => v.at >= -MaxDelay
  /\ v.pc \in {"running", "unguarded"} => v.at >= -MaxRun
  /\ v.pc \in {"asking", "running", "unguarded"} => c \in Callers
  /\ v.probe => c \in Callers /\ mode = "half-open" /\ v.pc \in {"running", "recording"}

Calls == \A c \in Actor : Fine(c, call[c], store.mode)

\* The sorted sets leave a suffix unused.
Sized ==
  /\ IsFiniteSet(store.fails) /\ Cardinality(store.fails) < FailureThreshold
  /\ IsFiniteSet(store.probes) /\ Cardinality(store.probes) <= HalfOpenMaxCalls

\* What the keys hold in each state.
Kept ==
  /\ store.mode # "closed" => store.fails = {} /\ by = "none"
  /\ store.mode = "open" => store.probes = {}
  /\ store.mode # "half-open" => store.succ = 0 /\ credit = 0
  /\ credit <= store.succ

\* The opening time is as late as its clock was, and the keys outlive the cooldown.
Opened ==
  store.mode = "open" =>
    /\ store.openedAt >= -(tripAge + MaxDelay)
    /\ tripAge = OpenDuration \/ left + tripAge >= IdleTtl

Base == TypeOK /\ Calls /\ Sized /\ Kept /\ Opened

--------------------------------------------------------------------------------
(* Types. *)

Pcs == {"idle", "asking", "running", "recording", "unguarded"}

LEMMA ConstantFacts ==
  /\ FailureThreshold \in Nat /\ FailureThreshold > 0 /\ Window \in Nat /\ Window > 0
  /\ OpenDuration \in Nat /\ OpenDuration > 0 /\ ProbeTimeout \in Nat /\ ProbeTimeout > 0
  /\ HalfOpenMaxCalls \in Nat /\ HalfOpenMaxCalls > 0
  /\ SuccessThreshold \in Nat /\ SuccessThreshold > 0
  /\ MaxDelay \in Nat /\ MaxRun \in Nat /\ MaxIdle \in Nat /\ MaxIdle > 0 /\ Faults \in Nat
  /\ Callers \cap Reporters = {}
BY BreakerAssumption, CircuitAssumption DEF BreakerAssumption, CircuitAssumption

LEMMA TtlFacts == IdleTtl \in Nat /\ IdleTtl >= OpenDuration + 1
<1>1. Longest \in Nat /\ Longest >= OpenDuration
  BY ConstantFacts DEF Longest
<1>2. IdleSlack \in Nat /\ IdleSlack > 0
  BY BreakerAssumption DEF BreakerAssumption
<1> QED BY <1>1, <1>2, ConstantFacts DEF IdleTtl

LEMMA CallFacts ==
  ASSUME NEW k \in CallType
  PROVE  /\ k.pc \in Pcs /\ k.at \in -(MaxDelay + MaxRun)..0 /\ k.at \in Int /\ k.at <= 0
         /\ k.probe \in BOOLEAN /\ k.ok \in BOOLEAN
         /\ k = Call(k.pc, k.at, k.probe, k.ok)
BY ConstantFacts DEF CallType, Call, Pcs

LEMMA Built ==
  ASSUME NEW pc \in Pcs, NEW at \in -(MaxDelay + MaxRun)..0, NEW probe \in BOOLEAN, NEW ok \in BOOLEAN
  PROVE  /\ Call(pc, at, probe, ok) \in CallType
         /\ Call(pc, at, probe, ok).pc = pc /\ Call(pc, at, probe, ok).at = at
         /\ Call(pc, at, probe, ok).probe = probe /\ Call(pc, at, probe, ok).ok = ok
BY DEF CallType, Call, Pcs

LEMMA BegunFacts ==
  ASSUME NEW pc \in Pcs
  PROVE  /\ Begun(pc) \in CallType /\ Begun(pc).pc = pc /\ Begun(pc).at = 0
         /\ Begun(pc).probe = FALSE /\ Begun(pc).ok = FALSE
BY ConstantFacts DEF Begun, CallType, Call, Pcs

LEMMA IdleFacts == Idle \in CallType /\ Idle.pc = "idle" /\ Idle.at = 0 /\ Idle.probe = FALSE
BY BegunFacts DEF Idle, Pcs

LEMMA StoreFacts ==
  ASSUME NEW s \in StoreType
  PROVE  /\ s.mode \in Mode /\ s.openedAt \in -(OpenDuration + MaxDelay)..0 /\ s.openedAt \in Int
         /\ s.succ \in 0..(SuccessThreshold - 1) /\ s.succ \in Nat
         /\ s.fails \subseteq Entry(Window) /\ s.probes \subseteq Entry(ProbeTimeout)
BY ConstantFacts DEF StoreType

\* What becomes of the history when the keys become s and the calls f.
LEMMA BecameFacts ==
  ASSUME NEW s, NEW ttl, NEW closer, NEW credited, NEW f \in [Actor -> CallType],
         call \in [Actor -> CallType], Became(s, ttl, closer, credited, f)
  PROVE  /\ store' = s /\ left' = (IF s.mode = "closed" THEN 0 ELSE ttl)
         /\ tripAge' = (IF s.mode = "open" /\ store.mode # "open" THEN 0 ELSE tripAge)
         /\ credit' = (IF s.mode = "half-open" /\ store.mode = "half-open" THEN credited ELSE 0)
         /\ by' = (IF s.mode # "closed" THEN "none" ELSE IF store.mode = "closed" THEN by ELSE closer)
         /\ call' \in [Actor -> CallType]
         /\ s.mode = "half-open" /\ store.mode = "half-open" => call' = f
         /\ ~(s.mode = "half-open" /\ store.mode = "half-open") => \A k \in Actor :
              call'[k] = Call(f[k].pc, f[k].at,
                              s.mode = "half-open" /\ call[k].pc = "asking" /\ f[k].pc = "running", f[k].ok)
<1>1. \A k \in Actor : f[k].pc \in Pcs /\ f[k].at \in -(MaxDelay + MaxRun)..0 /\ f[k].ok \in BOOLEAN
  BY CallFacts
<1>2. \A k \in Actor :
        Call(f[k].pc, f[k].at, s.mode = "half-open" /\ call[k].pc = "asking" /\ f[k].pc = "running", f[k].ok)
          \in CallType
  BY <1>1, Built
<1> QED BY <1>2 DEF Became

--------------------------------------------------------------------------------
(* The scripts. *)

\* The member a command of c would add.
Member(c) == [at |-> call[c].at, id |-> Fresh]

LEMMA RequestClosed ==
  ASSUME NEW s \in StoreType, NEW t, NEW id, s.mode = "closed"
  PROVE  LuaCanRequest(s, t, id) =
           [ok |-> TRUE, store |-> [mode |-> "closed", openedAt |-> s.openedAt, succ |-> s.succ,
                                    fails |-> Recent(s.fails, t, Window), probes |-> s.probes]]
BY DEF LuaCanRequest, LuaTurned, StoreType, Mode

LEMMA RequestOpen ==
  ASSUME NEW s \in StoreType, NEW t, NEW id, s.mode = "open", ~(t - s.openedAt >= OpenDuration)
  PROVE  LuaCanRequest(s, t, id) = [ok |-> FALSE, store |-> s]
BY DEF LuaCanRequest, LuaTurned, StoreType, Mode

LEMMA RequestTurns ==
  ASSUME NEW s \in StoreType, NEW t \in Int, NEW id, s.mode = "open", t - s.openedAt >= OpenDuration
  PROVE  LuaCanRequest(s, t, id) =
           [ok |-> TRUE, store |-> [mode |-> "half-open", openedAt |-> s.openedAt, succ |-> 0,
                                    fails |-> s.fails, probes |-> {[at |-> t, id |-> id]}]]
<1> DEFINE u == [mode |-> "half-open", openedAt |-> s.openedAt, succ |-> 0, fails |-> s.fails, probes |-> {}]
<1>1. LuaTurned(s, t) = u
  BY DEF LuaTurned
<1>2. LuaReclaimed(u, t) = u /\ u.mode = "half-open" /\ u.probes = {}
  <2>1. Recent({}, t, ProbeTimeout) = {}
    BY DEF Recent
  <2>2. [u EXCEPT !.probes = {}] = u
    OBVIOUS
  <2> QED BY <2>1, <2>2 DEF LuaReclaimed
<1>3. HasSlot(u)
  BY <1>2, ConstantFacts, FS_EmptySet DEF HasSlot
<1>4. [u EXCEPT !.probes = @ \cup {[at |-> t, id |-> id]}]
        = [mode |-> "half-open", openedAt |-> s.openedAt, succ |-> 0, fails |-> s.fails,
           probes |-> {[at |-> t, id |-> id]}]
  OBVIOUS
<1> HIDE DEF u
<1> QED BY <1>1, <1>2, <1>3, <1>4 DEF LuaCanRequest

LEMMA RequestHalfOpen ==
  ASSUME NEW s \in StoreType, NEW t, NEW id, s.mode = "half-open"
  PROVE  LET recent == Recent(s.probes, t, ProbeTimeout)
             slot == Cardinality(recent) < HalfOpenMaxCalls
         IN /\ slot => LuaCanRequest(s, t, id) =
                 [ok |-> TRUE,
                  store |-> [mode |-> "half-open", openedAt |-> s.openedAt, succ |-> s.succ, fails |-> s.fails,
                             probes |-> recent \cup {[at |-> t, id |-> id]}]]
            /\ ~slot => LuaCanRequest(s, t, id) =
                 [ok |-> FALSE,
                  store |-> [mode |-> "half-open", openedAt |-> s.openedAt, succ |-> s.succ, fails |-> s.fails,
                             probes |-> recent]]
<1> DEFINE u == [mode |-> "half-open", openedAt |-> s.openedAt, succ |-> s.succ, fails |-> s.fails,
                 probes |-> Recent(s.probes, t, ProbeTimeout)]
<1>1. LuaTurned(s, t) = s /\ s.mode = "half-open"
  BY DEF LuaTurned
<1>2. LuaReclaimed(s, t) = u
  BY DEF LuaReclaimed, StoreType
<1>3. HasSlot(u) <=> Cardinality(Recent(s.probes, t, ProbeTimeout)) < HalfOpenMaxCalls
  BY DEF HasSlot
<1>4. [u EXCEPT !.probes = @ \cup {[at |-> t, id |-> id]}]
        = [mode |-> "half-open", openedAt |-> s.openedAt, succ |-> s.succ, fails |-> s.fails,
           probes |-> Recent(s.probes, t, ProbeTimeout) \cup {[at |-> t, id |-> id]}]
  OBVIOUS
<1> HIDE DEF u
<1>5. CASE HasSlot(u)
  <2>1. LuaCanRequest(s, t, id) = [ok |-> TRUE, store |-> [u EXCEPT !.probes = @ \cup {[at |-> t, id |-> id]}]]
    BY <1>1, <1>2, <1>5 DEF LuaCanRequest
  <2> QED BY <2>1, <1>3, <1>4, <1>5
<1>6. CASE ~HasSlot(u)
  <2>1. LuaCanRequest(s, t, id) = [ok |-> FALSE, store |-> u]
    BY <1>1, <1>2, <1>6 DEF LuaCanRequest
  <2> QED BY <2>1, <1>3, <1>6 DEF u
<1> QED BY <1>5, <1>6

LEMMA SuccessFacts ==
  ASSUME NEW s \in StoreType, NEW t
  PROVE  /\ s.mode = "open" => LuaRecordSuccess(s, t) = s
         /\ s.mode = "closed" => LuaRecordSuccess(s, t) =
              [mode |-> "closed", openedAt |-> s.openedAt, succ |-> s.succ,
               fails |-> Recent(s.fails, t, Window), probes |-> s.probes]
         /\ s.mode = "half-open" /\ s.succ + 1 >= SuccessThreshold => LuaRecordSuccess(s, t) = ClosedStore
         /\ s.mode = "half-open" /\ ~(s.succ + 1 >= SuccessThreshold) => LuaRecordSuccess(s, t) =
              [mode |-> "half-open", openedAt |-> s.openedAt, succ |-> s.succ + 1, fails |-> s.fails,
               probes |-> WithoutNewest(Recent(s.probes, t, ProbeTimeout))]
<1>1. CASE s.mode = "open"
  BY <1>1 DEF LuaRecordSuccess
<1>2. CASE s.mode = "closed"
  BY <1>2 DEF LuaRecordSuccess, StoreType
<1>3. CASE s.mode = "half-open"
  <2> DEFINE u == [mode |-> "half-open", openedAt |-> s.openedAt, succ |-> s.succ, fails |-> s.fails,
                   probes |-> Recent(s.probes, t, ProbeTimeout)]
             v == [u EXCEPT !.probes = WithoutNewest(@), !.succ = s.succ + 1]
  <2>1. LuaReclaimed(s, t) = u
    BY <1>3 DEF LuaReclaimed, StoreType
  <2> DEFINE w == [mode |-> "half-open", openedAt |-> s.openedAt, succ |-> s.succ, fails |-> s.fails,
                   probes |-> WithoutNewest(Recent(s.probes, t, ProbeTimeout))]
  <2>4. [u EXCEPT !.probes = WithoutNewest(@)] = w
    OBVIOUS
  <2>5. [w EXCEPT !.succ = s.succ + 1] =
            [mode |-> "half-open", openedAt |-> s.openedAt, succ |-> s.succ + 1, fails |-> s.fails,
             probes |-> WithoutNewest(Recent(s.probes, t, ProbeTimeout))]
    OBVIOUS
  <2> HIDE DEF u, w
  <2>2. v = [mode |-> "half-open", openedAt |-> s.openedAt, succ |-> s.succ + 1, fails |-> s.fails,
             probes |-> WithoutNewest(Recent(s.probes, t, ProbeTimeout))]
    BY <2>4, <2>5
  <2>3. LuaRecordSuccess(s, t) = IF s.succ + 1 >= SuccessThreshold THEN ClosedStore ELSE v
    BY <1>3, <2>1 DEF LuaRecordSuccess, Closes
  <2> HIDE DEF v
  <2> QED BY <1>3, <2>2, <2>3
<1> QED BY <1>1, <1>2, <1>3 DEF StoreType, Mode

LEMMA FailureFacts ==
  ASSUME NEW s \in StoreType, NEW t, NEW id
  PROVE  LET fails == Recent(s.fails \cup {[at |-> t, id |-> id]}, t, Window)
             trips == Cardinality(fails) >= FailureThreshold
         IN /\ s.mode = "open" => LuaRecordFailure(s, t, id) = s
            /\ s.mode = "half-open" \/ (s.mode = "closed" /\ trips) => LuaRecordFailure(s, t, id) = LuaOpen(s, t)
            /\ s.mode = "closed" /\ ~trips => LuaRecordFailure(s, t, id) =
                 [mode |-> "closed", openedAt |-> s.openedAt, succ |-> s.succ, fails |-> fails,
                  probes |-> s.probes]
<1> DEFINE fails == Recent(s.fails \cup {[at |-> t, id |-> id]}, t, Window)
<1>1. s.mode = "closed" => [s EXCEPT !.fails = fails]
        = [mode |-> "closed", openedAt |-> s.openedAt, succ |-> s.succ, fails |-> fails, probes |-> s.probes]
  BY DEF StoreType
<1>2. /\ s.mode = "open" => LuaRecordFailure(s, t, id) = s
      /\ s.mode = "half-open" => LuaRecordFailure(s, t, id) = LuaOpen(s, t)
      /\ s.mode = "closed" /\ Trips(fails) => LuaRecordFailure(s, t, id) = LuaOpen(s, t)
      /\ s.mode = "closed" /\ ~Trips(fails) => LuaRecordFailure(s, t, id) = [s EXCEPT !.fails = fails]
  BY DEF LuaRecordFailure
<1> HIDE DEF fails
<1>3. /\ s.mode = "open" => LuaRecordFailure(s, t, id) = s
      /\ s.mode = "half-open" \/ (s.mode = "closed" /\ Cardinality(fails) >= FailureThreshold)
           => LuaRecordFailure(s, t, id) = LuaOpen(s, t)
      /\ s.mode = "closed" /\ ~(Cardinality(fails) >= FailureThreshold) => LuaRecordFailure(s, t, id) =
           [mode |-> "closed", openedAt |-> s.openedAt, succ |-> s.succ, fails |-> fails, probes |-> s.probes]
  BY <1>1, <1>2 DEF Trips
<1> QED BY <1>3 DEF fails

\* Some suffix is always unused.
LEMMA FreshFacts ==
  ASSUME Sized
  PROVE  Fresh \in Suffix /\ \A m \in store.fails \cup store.probes : m.id # Fresh
<1> DEFINE S == store.fails \cup store.probes
<1>1. IsFiniteSet(S) /\ Cardinality(S) < FailureThreshold + HalfOpenMaxCalls
  <2>1. /\ IsFiniteSet(S) /\ Cardinality(S) = Cardinality(store.fails) + Cardinality(store.probes)
                                                - Cardinality(store.fails \cap store.probes)
    BY FS_Union DEF Sized
  <2>2. IsFiniteSet(store.fails \cap store.probes)
    BY FS_Subset DEF Sized
  <2>3. /\ Cardinality(store.fails) \in Nat /\ Cardinality(store.probes) \in Nat
        /\ Cardinality(store.fails \cap store.probes) \in Nat
    BY <2>2, FS_CardinalityType DEF Sized
  <2> QED BY <2>1, <2>3, ConstantFacts DEF Sized
<1>2. IsFiniteSet(Suffix) /\ Cardinality(Suffix) = FailureThreshold + HalfOpenMaxCalls
  BY ConstantFacts, FS_Interval DEF Suffix
<1> HIDE DEF S
<1>3. \E id \in Suffix : \A m \in S : m.id # id
  <2> SUFFICES ASSUME \A id \in Suffix : \E m \in S : m.id = id PROVE FALSE
    OBVIOUS
  <2> DEFINE f == [id \in Suffix |-> CHOOSE m \in S : m.id = id]
  <2>1. f \in [Suffix -> S] /\ \A id \in Suffix : f[id].id = id
    OBVIOUS
  <2> HIDE DEF f
  <2>2. PICK x \in Suffix, y \in Suffix : x # y /\ f[x] = f[y]
    BY <1>1, <1>2, <2>1, FS_PigeonHole
  <2> QED BY <2>1, <2>2
<1> QED BY <1>3 DEF Fresh, S

--------------------------------------------------------------------------------
(* What the steps do. *)

Filled(mode, openedAt, succ, fails, probes) ==
  [mode |-> mode, openedAt |-> openedAt, succ |-> succ, fails |-> fails, probes |-> probes]

Running(probe) == Call("running", 0, probe, FALSE)

\* A request is refused at once, counted in no way, turns the circuit half-open, takes
\* a slot of it or finds none.
Refused(c) == store.mode = "open" /\ store' = store /\ left' = left /\ call'[c].pc # "running"
Watched(c) ==
  /\ store.mode = "closed" /\ left' = 0
  /\ store' = Filled("closed", store.openedAt, store.succ, Recent(store.fails, call[c].at, Window), store.probes)
  /\ call'[c].pc = "running" => call'[c] = Running(FALSE)
Turned(c) ==
  /\ store.mode = "open" /\ call[c].at - store.openedAt >= OpenDuration /\ left' = IdleTtl
  /\ store' = Filled("half-open", store.openedAt, 0, store.fails, {Member(c)})
  /\ call'[c].pc = "running" => call'[c] = Running(TRUE)
Joined(c) ==
  /\ store.mode = "half-open" /\ left' = IdleTtl
  /\ Cardinality(Recent(store.probes, call[c].at, ProbeTimeout)) < HalfOpenMaxCalls
  /\ store' = Filled("half-open", store.openedAt, store.succ, store.fails,
                     Recent(store.probes, call[c].at, ProbeTimeout) \cup {Member(c)})
  /\ call'[c].pc = "running" => call'[c] = Running(TRUE)
Swept(c) ==
  /\ store.mode = "half-open" /\ left' = left /\ call'[c].pc # "running"
  /\ store' = Filled("half-open", store.openedAt, store.succ, store.fails,
                     Recent(store.probes, call[c].at, ProbeTimeout))

\* Only c moves, and it is not recording next.
Answers(c) ==
  /\ call' \in [Actor -> CallType] /\ \A k \in Actor : k # c => call'[k] = call[k]
  /\ call'[c] \in {Idle, Begun("unguarded"), Running(TRUE), Running(FALSE)}

LEMMA BaseFacts ==
  ASSUME Base
  PROVE  /\ store \in StoreType /\ call \in [Actor -> CallType] /\ left \in 0..IdleTtl
         /\ tripAge \in 0..OpenDuration /\ credit \in 0..(SuccessThreshold - 1)
         /\ \A k \in Actor : /\ call[k] \in CallType /\ call[k].pc \in Pcs
                             /\ call[k].at \in -(MaxDelay + MaxRun)..0 /\ call[k].at \in Int
                             /\ call[k].probe \in BOOLEAN /\ call[k].ok \in BOOLEAN
                             /\ call[k] = Call(call[k].pc, call[k].at, call[k].probe, call[k].ok)
         /\ store.mode \in Mode /\ store.mode \in {"closed", "open", "half-open"}
         /\ Fresh \in Suffix /\ \A m \in store.fails \cup store.probes : m.id # Fresh
<1>1. store \in StoreType /\ call \in [Actor -> CallType] /\ Sized
      /\ left \in 0..IdleTtl /\ tripAge \in 0..OpenDuration /\ credit \in 0..(SuccessThreshold - 1)
  BY DEF Base, TypeOK
<1>2. \A k \in Actor : call[k] \in CallType
  BY <1>1
<1> QED BY <1>1, <1>2, CallFacts, StoreFacts, FreshFacts DEF Mode

LEMMA AnswerFacts ==
  /\ Running(TRUE) \in CallType /\ Running(FALSE) \in CallType
  /\ Begun("unguarded") \in CallType /\ Idle \in CallType /\ Begun("asking") \in CallType
  /\ Running(TRUE).pc = "running" /\ Running(FALSE).pc = "running"
  /\ Begun("unguarded").pc = "unguarded" /\ Idle.pc = "idle" /\ Begun("asking").pc = "asking"
  /\ Running(TRUE).probe = TRUE /\ Running(FALSE).probe = FALSE /\ Running(TRUE).ok = FALSE /\ Running(FALSE).ok = FALSE
  /\ Begun("unguarded").probe = FALSE /\ Idle.probe = FALSE /\ Begun("asking").probe = FALSE
  /\ Begun("unguarded").ok = FALSE /\ Idle.ok = FALSE
  /\ Running(TRUE).at = 0 /\ Running(FALSE).at = 0 /\ Idle.at = 0
  /\ Begun("unguarded").at = 0 /\ Begun("asking").at = 0
BY ConstantFacts DEF Running, Begun, Idle, Call, CallType

\* The calls a step leaves alone keep their record when it turns the circuit.
LEMMA Untouched ==
  ASSUME Base, NEW k \in Actor, store.mode # "half-open", NEW b \in BOOLEAN
  PROVE  Call(call[k].pc, call[k].at, b /\ call[k].pc = "asking" /\ call[k].pc = "running", call[k].ok) = call[k]
<1>1. ~call[k].probe /\ call[k].probe \in BOOLEAN
  BY BaseFacts DEF Base, Calls, Fine
<1>2. (b /\ call[k].pc = "asking" /\ call[k].pc = "running") = FALSE
  OBVIOUS
<1>3. call[k].probe = FALSE
  BY <1>1
<1>4. call[k] = Call(call[k].pc, call[k].at, call[k].probe, call[k].ok)
  BY BaseFacts
<1> QED BY <1>2, <1>3, <1>4

LEMMA DecideFacts ==
  ASSUME Base, NEW c \in Actor, call[c].pc = "asking",
         NEW next \in {"answer", "idle", "unguarded"}, Decide(c, next)
  PROVE  /\ Answers(c) /\ UNCHANGED <<tripAge, credit, by>>
         /\ Refused(c) \/ Watched(c) \/ Turned(c) \/ Joined(c) \/ Swept(c)
<1> DEFINE d == LuaCanRequest(store, call[c].at, Fresh)
           answered == IF d.ok THEN Call("running", 0, d.store.mode = "half-open", FALSE) ELSE Idle
           ttl == IF d.store.mode = "half-open" /\ (d.ok \/ store.mode = "open") THEN IdleTtl ELSE left
           new == IF next = "answer" THEN answered ELSE Begun(next)
           f == [call EXCEPT ![c] = new]
<1>1. Became(d.store, ttl, by, credit, f)
  BY DEF Decide
<1>2. new \in {Idle, Begun("unguarded"), Running(TRUE), Running(FALSE)}
  <2>1. CASE d.store.mode = "half-open"
    BY <2>1 DEF Running, Idle
  <2>2. CASE d.store.mode # "half-open"
    BY <2>2 DEF Running, Idle
  <2> QED BY <2>1, <2>2
<1>3. /\ d.ok = FALSE => new.pc # "running"
      /\ d.ok = TRUE /\ d.store.mode = "half-open" /\ new.pc = "running" => new = Running(TRUE)
      /\ d.ok = TRUE /\ d.store.mode # "half-open" /\ new.pc = "running" => new = Running(FALSE)
  BY AnswerFacts DEF Running, Idle
<1>4. new \in CallType /\ new.probe \in BOOLEAN /\ new = Call(new.pc, new.at, new.probe, new.ok)
      /\ new.pc \in {"idle", "unguarded", "running"} /\ new.ok = FALSE
      /\ (new.pc # "running" => new.probe = FALSE)
  BY ZenonT(30), <1>2, AnswerFacts, CallFacts
<1> HIDE DEF new, ttl, d
<1>5. f \in [Actor -> CallType] /\ f[c] = new /\ \A k \in Actor : k # c => f[k] = call[k]
  BY <1>4, BaseFacts
<1> HIDE DEF f
<1>6. /\ store' = d.store /\ left' = (IF d.store.mode = "closed" THEN 0 ELSE ttl)
      /\ tripAge' = (IF d.store.mode = "open" /\ store.mode # "open" THEN 0 ELSE tripAge)
      /\ credit' = (IF d.store.mode = "half-open" /\ store.mode = "half-open" THEN credit ELSE 0)
      /\ by' = (IF d.store.mode # "closed" THEN "none" ELSE IF store.mode = "closed" THEN by ELSE by)
      /\ call' \in [Actor -> CallType]
  BY <1>1, <1>5, BaseFacts, BecameFacts
<1>7. d.store.mode = "half-open" /\ store.mode = "half-open" => call' = f
  BY <1>1, <1>5, BaseFacts, BecameFacts
<1>8. ~(d.store.mode = "half-open" /\ store.mode = "half-open") => \A k \in Actor :
        call'[k] = Call(f[k].pc, f[k].at,
                        d.store.mode = "half-open" /\ call[k].pc = "asking" /\ f[k].pc = "running", f[k].ok)
  BY <1>1, <1>5, BaseFacts, BecameFacts
<1>9. ~(d.store.mode = "half-open" /\ store.mode = "half-open") /\ store.mode # "half-open" =>
        /\ \A k \in Actor : k # c => call'[k] = call[k]
        /\ call'[c] = Call(new.pc, new.at, d.store.mode = "half-open" /\ new.pc = "running", FALSE)
  BY <1>4, <1>5, <1>8, Untouched
<1>10. Kept
  BY DEF Base
<1>11. CASE store.mode = "closed"
  <2>1. d = [ok |-> TRUE, store |-> Filled("closed", store.openedAt, store.succ,
                                           Recent(store.fails, call[c].at, Window), store.probes)]
    BY <1>11, BaseFacts, RequestClosed DEF Filled, d
  <2>2. d.ok = TRUE /\ d.store.mode = "closed"
        /\ d.store = Filled("closed", store.openedAt, store.succ, Recent(store.fails, call[c].at, Window), store.probes)
    BY <2>1 DEF Filled
  <2>3. new.probe = FALSE
    BY <1>2, <1>3, <1>4, <2>2, AnswerFacts
  <2>4. call'[c] = new
    BY <1>4, <1>9, <1>11, <2>2, <2>3
  <2>5. UNCHANGED <<tripAge, credit, by>>
    BY <1>6, <1>10, <1>11, <2>2 DEF Kept
  <2>6. Watched(c)
    BY <1>3, <1>6, <1>11, <2>2, <2>4 DEF Watched
  <2>7. Answers(c)
    BY <1>2, <1>6, <1>9, <1>11, <2>4 DEF Answers
  <2> QED BY <2>5, <2>6, <2>7
<1>12. CASE store.mode = "open" /\ ~(call[c].at - store.openedAt >= OpenDuration)
  <2>1. d = [ok |-> FALSE, store |-> store]
    BY <1>12, BaseFacts, RequestOpen DEF d
  <2>2. d.ok = FALSE /\ d.store = store
    BY <2>1
  <2>3. new.probe = FALSE /\ new.pc # "running"
    BY <1>3, <1>4, <2>2
  <2>4. call'[c] = new
    BY <1>4, <1>9, <1>12, <2>2, <2>3
  <2>5. UNCHANGED <<tripAge, credit, by>>
    BY <1>6, <1>10, <1>12, <2>2 DEF Kept
  <2>6. left' = left
    BY <1>6, <1>12, <2>2 DEF ttl
  <2>7. Refused(c)
    BY <1>6, <1>12, <2>2, <2>3, <2>4, <2>6 DEF Refused
  <2>8. Answers(c)
    BY <1>2, <1>6, <1>9, <1>12, <2>2, <2>4 DEF Answers
  <2> QED BY <2>5, <2>7, <2>8
<1>13. CASE store.mode = "open" /\ call[c].at - store.openedAt >= OpenDuration
  <2>1. d = [ok |-> TRUE, store |-> Filled("half-open", store.openedAt, 0, store.fails, {Member(c)})]
    BY <1>13, BaseFacts, RequestTurns DEF Filled, Member, d
  <2>2. d.ok = TRUE /\ d.store.mode = "half-open"
        /\ d.store = Filled("half-open", store.openedAt, 0, store.fails, {Member(c)})
    BY <2>1 DEF Filled
  <2>3. new.probe = (new.pc = "running")
    BY <1>3, <1>4, <2>2, AnswerFacts
  <2>4. call'[c] = new
    <3>1. CASE new.pc = "running"
      BY <1>4, <1>9, <1>13, <2>2, <2>3, <3>1
    <3>2. CASE new.pc # "running"
      BY <1>4, <1>9, <1>13, <2>2, <3>2
    <3> QED BY <3>1, <3>2
  <2>5. UNCHANGED <<tripAge, credit, by>>
    BY <1>6, <1>10, <1>13, <2>2 DEF Kept
  <2>6. left' = IdleTtl
    BY <1>6, <1>13, <2>2 DEF ttl
  <2>7. Turned(c)
    BY <1>3, <1>6, <1>13, <2>2, <2>4, <2>6 DEF Turned
  <2>8. Answers(c)
    BY <1>2, <1>6, <1>9, <1>13, <2>2, <2>4 DEF Answers
  <2> QED BY <2>5, <2>7, <2>8
<1>14. CASE store.mode = "half-open"
  <2> DEFINE recent == Recent(store.probes, call[c].at, ProbeTimeout)
  <2> HIDE DEF recent
  <2>1. /\ Cardinality(recent) < HalfOpenMaxCalls => d = [ok |-> TRUE, store |->
             Filled("half-open", store.openedAt, store.succ, store.fails, recent \cup {Member(c)})]
        /\ ~(Cardinality(recent) < HalfOpenMaxCalls) => d = [ok |-> FALSE, store |->
             Filled("half-open", store.openedAt, store.succ, store.fails, recent)]
    BY <1>14, BaseFacts, RequestHalfOpen DEF Filled, Member, d, recent
  <2>2. d.store.mode = "half-open"
    BY <2>1 DEF Filled
  <2>3. call' = f /\ call'[c] = new
    BY <1>5, <1>7, <1>14, <2>2
  <2>4. UNCHANGED <<tripAge, credit, by>>
    BY <1>6, <1>10, <1>14, <2>2 DEF Kept
  <2>5. Answers(c)
    BY <1>2, <1>5, <1>6, <2>3 DEF Answers
  <2>6. CASE Cardinality(recent) < HalfOpenMaxCalls
    <3>1. d.ok = TRUE /\ d.store = Filled("half-open", store.openedAt, store.succ, store.fails, recent \cup {Member(c)})
      BY <2>1, <2>6
    <3>2. left' = IdleTtl
      BY <1>6, <2>2, <3>1 DEF ttl
    <3>3. Joined(c)
      BY <1>3, <1>6, <1>14, <2>2, <2>3, <2>6, <3>1, <3>2 DEF Joined, recent
    <3> QED BY <2>4, <2>5, <3>3
  <2>7. CASE ~(Cardinality(recent) < HalfOpenMaxCalls)
    <3>1. d.ok = FALSE /\ d.store = Filled("half-open", store.openedAt, store.succ, store.fails, recent)
      BY <2>1, <2>7
    <3>2. left' = left
      BY <1>6, <1>14, <2>2, <3>1 DEF ttl
    <3>3. Swept(c)
      BY <1>3, <1>6, <1>14, <2>3, <3>1, <3>2 DEF Swept, recent
    <3> QED BY <2>4, <2>5, <3>3
  <2> QED BY <2>6, <2>7
<1> QED BY <1>11, <1>12, <1>13, <1>14, BaseFacts

\* A record is over; nobody else is a probe any more.
Silences(c) ==
  /\ call' \in [Actor -> CallType] /\ call'[c] = Idle
  /\ \A k \in Actor : k # c => call'[k] = Call(call[k].pc, call[k].at, FALSE, call[k].ok)

\* A record means nothing to an open circuit, is counted, closes or opens the circuit.
Ignored(c) == store.mode = "open" /\ store' = store /\ left' = left /\ Silences(c) /\ UNCHANGED <<tripAge, credit, by>>
Culled(c) ==
  /\ store.mode = "closed" /\ left' = 0 /\ Silences(c) /\ UNCHANGED <<tripAge, credit, by>>
  /\ store' = Filled("closed", store.openedAt, store.succ, Recent(store.fails, call[c].at, Window), store.probes)
Credits(c) == IF call[c].probe \/ c \in Reporters THEN credit + 1 ELSE credit
ClosedBy(c) ==
  /\ store.mode = "half-open" /\ store.succ + 1 >= SuccessThreshold
  /\ store' = ClosedStore /\ left' = 0 /\ credit' = 0 /\ Silences(c) /\ UNCHANGED tripAge
  /\ by' = IF Credits(c) >= SuccessThreshold THEN "probes" ELSE "late"
Credited(c) ==
  /\ store.mode = "half-open" /\ ~(store.succ + 1 >= SuccessThreshold)
  /\ store' = Filled("half-open", store.openedAt, store.succ + 1, store.fails,
                     WithoutNewest(Recent(store.probes, call[c].at, ProbeTimeout)))
  /\ left' = IdleTtl /\ credit' = Credits(c) /\ UNCHANGED <<tripAge, by>>
  /\ call' \in [Actor -> CallType] /\ call'[c] = Idle /\ \A k \in Actor : k # c => call'[k] = call[k]
Tripped(c) ==
  /\ store.mode # "open" /\ store' = LuaOpen(store, call[c].at)
  /\ left' = IdleTtl /\ tripAge' = 0 /\ credit' = 0 /\ by' = "none" /\ Silences(c)
Failures(c) == Recent(store.fails \cup {Member(c)}, call[c].at, Window)
Counted(c) ==
  /\ store.mode = "closed" /\ ~(Cardinality(Failures(c)) >= FailureThreshold)
  /\ store' = Filled("closed", store.openedAt, store.succ, Failures(c), store.probes)
  /\ left' = 0 /\ Silences(c) /\ UNCHANGED <<tripAge, credit, by>>

\* The calls when the circuit is not half-open afterwards, whatever it was.
LEMMA SilencedBy ==
  ASSUME Base, NEW c \in Actor, NEW s, s.mode # "half-open",
         NEW ttl, NEW closer, NEW credited, Became(s, ttl, closer, credited, [call EXCEPT ![c] = Idle])
  PROVE  /\ Silences(c) /\ store' = s /\ left' = (IF s.mode = "closed" THEN 0 ELSE ttl)
         /\ tripAge' = (IF s.mode = "open" /\ store.mode # "open" THEN 0 ELSE tripAge)
         /\ credit' = 0
         /\ by' = (IF s.mode # "closed" THEN "none" ELSE IF store.mode = "closed" THEN by ELSE closer)
<1> DEFINE f == [call EXCEPT ![c] = Idle]
<1>1. f \in [Actor -> CallType] /\ f[c] = Idle /\ \A k \in Actor : k # c => f[k] = call[k]
  BY BaseFacts, IdleFacts
<1>2. Became(s, ttl, closer, credited, f)
  OBVIOUS
<1> HIDE DEF f
<1>3. \A k \in Actor : call'[k] = Call(f[k].pc, f[k].at,
        s.mode = "half-open" /\ call[k].pc = "asking" /\ f[k].pc = "running", f[k].ok)
  BY <1>1, <1>2, BaseFacts, BecameFacts
<1>4. (s.mode = "half-open") = FALSE
  OBVIOUS
<1>5. \A k \in Actor : call'[k] = Call(f[k].pc, f[k].at, FALSE, f[k].ok)
  BY <1>3, <1>4
<1>6. Call(Idle.pc, Idle.at, FALSE, Idle.ok) = Idle
  BY DEF Idle, Begun, Call
<1>7. /\ store' = s /\ left' = (IF s.mode = "closed" THEN 0 ELSE ttl) /\ call' \in [Actor -> CallType]
      /\ tripAge' = (IF s.mode = "open" /\ store.mode # "open" THEN 0 ELSE tripAge)
      /\ credit' = (IF s.mode = "half-open" /\ store.mode = "half-open" THEN credited ELSE 0)
      /\ by' = (IF s.mode # "closed" THEN "none" ELSE IF store.mode = "closed" THEN by ELSE closer)
  BY <1>1, <1>2, BaseFacts, BecameFacts
<1>8. Silences(c)
  BY <1>1, <1>5, <1>6, <1>7 DEF Silences
<1> QED BY <1>7, <1>8

LEMMA SuccessActs ==
  ASSUME Base, NEW c \in Actor, RecordSuccess(c)
  PROVE  /\ call[c].pc = "recording" /\ UNCHANGED <<up, faults, quiet>>
         /\ Ignored(c) \/ Culled(c) \/ ClosedBy(c) \/ Credited(c)
<1> DEFINE s == LuaRecordSuccess(store, call[c].at)
           ttl == IF s.mode = "half-open" THEN IdleTtl ELSE left
           closer == IF Credits(c) >= SuccessThreshold THEN "probes" ELSE "late"
           f == [call EXCEPT ![c] = Idle]
<1>1. call[c].pc = "recording" /\ UNCHANGED <<up, faults, quiet>> /\ Became(s, ttl, closer, Credits(c), f)
  BY DEF RecordSuccess, Credits
<1>2. Kept
  BY DEF Base
<1>3. ClosedStore.mode = "closed"
  BY DEF ClosedStore
<1> HIDE DEF closer
<1>4. CASE store.mode = "open"
  <2>1. s = store
    BY <1>4, SuccessFacts, BaseFacts
  <2> HIDE DEF s
  <2>2. Silences(c) /\ store' = store /\ left' = left /\ tripAge' = tripAge /\ credit' = 0 /\ by' = "none"
    BY <1>1, <1>4, <2>1, SilencedBy
  <2> QED BY <1>1, <1>2, <1>4, <2>2 DEF Ignored, Kept
<1>5. CASE store.mode = "closed"
  <2>1. s = Filled("closed", store.openedAt, store.succ, Recent(store.fails, call[c].at, Window), store.probes)
    BY <1>5, SuccessFacts, BaseFacts DEF Filled
  <2> HIDE DEF s
  <2>2. s.mode = "closed"
    BY <2>1 DEF Filled
  <2>3. Silences(c) /\ store' = s /\ left' = 0 /\ tripAge' = tripAge /\ credit' = 0 /\ by' = by
    BY <1>1, <1>5, <2>2, SilencedBy
  <2> QED BY <1>1, <1>2, <1>5, <2>1, <2>3 DEF Culled, Kept
<1>6. CASE store.mode = "half-open" /\ store.succ + 1 >= SuccessThreshold
  <2>1. s = ClosedStore
    BY <1>6, SuccessFacts, BaseFacts
  <2> HIDE DEF s
  <2>2. Silences(c) /\ store' = s /\ left' = 0 /\ tripAge' = tripAge /\ credit' = 0 /\ by' = closer
    BY <1>1, <1>3, <1>6, <2>1, SilencedBy
  <2> QED BY <1>1, <1>6, <2>1, <2>2 DEF ClosedBy, closer
<1>7. CASE store.mode = "half-open" /\ ~(store.succ + 1 >= SuccessThreshold)
  <2>1. s = Filled("half-open", store.openedAt, store.succ + 1, store.fails,
                   WithoutNewest(Recent(store.probes, call[c].at, ProbeTimeout)))
    BY <1>7, SuccessFacts, BaseFacts DEF Filled
  <2> HIDE DEF s
  <2>2. s.mode = "half-open"
    BY <2>1 DEF Filled
  <2>3. f \in [Actor -> CallType] /\ f[c] = Idle /\ \A k \in Actor : k # c => f[k] = call[k]
    BY BaseFacts, IdleFacts
  <2> HIDE DEF f
  <2>4. call' = f /\ store' = s /\ left' = IdleTtl /\ tripAge' = tripAge /\ credit' = Credits(c) /\ by' = "none"
    BY <1>1, <1>7, <2>2, <2>3, BaseFacts, BecameFacts
  <2> QED BY <1>1, <1>2, <1>7, <2>1, <2>3, <2>4 DEF Credited, Kept
<1> QED BY <1>4, <1>5, <1>6, <1>7, BaseFacts

LEMMA FailureActs ==
  ASSUME Base, NEW c \in Actor, RecordFailure(c)
  PROVE  /\ call[c].pc = "recording" /\ UNCHANGED <<up, faults, quiet>>
         /\ Ignored(c) \/ Tripped(c) \/ Counted(c)
<1> DEFINE s == LuaRecordFailure(store, call[c].at, Fresh)
           ttl == IF s.mode = "open" /\ store.mode # "open" THEN IdleTtl ELSE left
           trips == Cardinality(Failures(c)) >= FailureThreshold
<1>1. call[c].pc = "recording" /\ UNCHANGED <<up, faults, quiet>>
      /\ Became(s, ttl, by, credit, [call EXCEPT ![c] = Idle])
  BY DEF RecordFailure
<1>2. Kept
  BY DEF Base
<1>3. LuaOpen(store, call[c].at).mode = "open"
  BY DEF LuaOpen
<1>s. /\ store.mode = "open" => s = store
      /\ store.mode = "half-open" \/ (store.mode = "closed" /\ trips) => s = LuaOpen(store, call[c].at)
      /\ store.mode = "closed" /\ ~trips =>
           s = Filled("closed", store.openedAt, store.succ, Failures(c), store.probes)
  BY FailureFacts, BaseFacts DEF Filled, Failures, Member
<1> HIDE DEF s, trips
<1>4. CASE store.mode = "open"
  <2>1. Silences(c) /\ store' = store /\ left' = left /\ tripAge' = tripAge /\ credit' = 0 /\ by' = "none"
    BY <1>1, <1>4, <1>s, SilencedBy
  <2> QED BY <1>1, <1>2, <1>4, <2>1 DEF Ignored, Kept
<1>5. CASE store.mode = "half-open" \/ (store.mode = "closed" /\ trips)
  <2>1. s = LuaOpen(store, call[c].at) /\ s.mode = "open" /\ store.mode # "open"
    BY <1>3, <1>5, <1>s
  <2>2. Silences(c) /\ store' = s /\ left' = IdleTtl /\ tripAge' = 0 /\ credit' = 0 /\ by' = "none"
    BY <1>1, <2>1, SilencedBy
  <2> QED BY <1>1, <2>1, <2>2 DEF Tripped
<1>6. CASE store.mode = "closed" /\ ~trips
  <2>1. s = Filled("closed", store.openedAt, store.succ, Failures(c), store.probes)
    BY <1>6, <1>s
  <2>2. s.mode = "closed"
    BY <2>1 DEF Filled
  <2>3. Silences(c) /\ store' = s /\ left' = 0 /\ tripAge' = tripAge /\ credit' = 0 /\ by' = by
    BY <1>1, <1>6, <2>2, SilencedBy
  <2> QED BY <1>1, <1>2, <1>6, <2>1, <2>3 DEF Counted, Kept, trips
<1> QED BY <1>4, <1>5, <1>6, BaseFacts

--------------------------------------------------------------------------------
(* The base invariant is preserved: the keys and their history. *)

\* The part of the invariant about the keys.
StoreSound ==
  /\ store \in StoreType /\ left \in 0..IdleTtl /\ (store.mode # "closed" => left > 0)
  /\ tripAge \in 0..OpenDuration /\ credit \in 0..(SuccessThreshold - 1)
  /\ by \in {"none", "probes", "late", "forgotten", "reset"}
  /\ Sized /\ Kept /\ Opened

LEMMA StoreMade ==
  ASSUME NEW m \in Mode, NEW o \in -(OpenDuration + MaxDelay)..0, NEW n \in 0..(SuccessThreshold - 1),
         NEW F, F \subseteq Entry(Window), NEW P, P \subseteq Entry(ProbeTimeout)
  PROVE  /\ Filled(m, o, n, F, P) \in StoreType
         /\ Filled(m, o, n, F, P).mode = m /\ Filled(m, o, n, F, P).openedAt = o
         /\ Filled(m, o, n, F, P).succ = n /\ Filled(m, o, n, F, P).fails = F
         /\ Filled(m, o, n, F, P).probes = P
BY DEF Filled, StoreType

LEMMA ClosedFacts ==
  /\ ClosedStore = Filled("closed", 0, 0, {}, {}) /\ ClosedStore \in StoreType
  /\ ClosedStore.mode = "closed" /\ ClosedStore.succ = 0 /\ ClosedStore.fails = {} /\ ClosedStore.probes = {}
<1>1. ClosedStore = Filled("closed", 0, 0, {}, {})
  BY DEF ClosedStore, Filled
<1>2. 0 \in -(OpenDuration + MaxDelay)..0 /\ 0 \in 0..(SuccessThreshold - 1) /\ "closed" \in Mode
  BY ConstantFacts DEF Mode
<1> QED BY <1>1, <1>2, StoreMade

LEMMA RecentFacts ==
  ASSUME NEW S, NEW t, NEW span, IsFiniteSet(S)
  PROVE  /\ Recent(S, t, span) \subseteq S /\ IsFiniteSet(Recent(S, t, span))
         /\ Cardinality(Recent(S, t, span)) <= Cardinality(S)
<1>1. Recent(S, t, span) \in SUBSET S
  BY DEF Recent
<1> QED BY <1>1, FS_Subset

LEMMA MemberFacts ==
  ASSUME Base, NEW c \in Actor, call[c].pc \in {"asking", "recording"}, NEW span \in Nat
  PROVE  Member(c) \in Entry(span) /\ Member(c).at = call[c].at
         /\ Member(c) \notin store.fails /\ Member(c) \notin store.probes
<1>1. call[c].at \in -(span + MaxDelay)..0
  BY BaseFacts, ConstantFacts DEF Base, Calls, Fine
<1>2. Member(c).id = Fresh /\ Member(c).at = call[c].at
  BY DEF Member
<1> QED BY <1>1, <1>2, BaseFacts DEF Member, Entry

\* What the invariant says of the present keys, for use one step later.
LEMMA KeyFacts ==
  ASSUME Base
  PROVE  /\ store = Filled(store.mode, store.openedAt, store.succ, store.fails, store.probes)
         /\ store.mode \in Mode /\ store.openedAt \in -(OpenDuration + MaxDelay)..0
         /\ store.succ \in 0..(SuccessThreshold - 1)
         /\ store.fails \subseteq Entry(Window) /\ store.probes \subseteq Entry(ProbeTimeout)
         /\ IsFiniteSet(store.fails) /\ Cardinality(store.fails) \in Nat
         /\ IsFiniteSet(store.probes) /\ Cardinality(store.probes) \in Nat
         /\ Cardinality(store.fails) < FailureThreshold /\ Cardinality(store.probes) <= HalfOpenMaxCalls
         /\ StoreSound
<1>1. store \in StoreType
  BY BaseFacts
<1>2. store = Filled(store.mode, store.openedAt, store.succ, store.fails, store.probes)
  BY <1>1 DEF StoreType, Filled
<1> QED BY <1>1, <1>2, StoreFacts, FS_CardinalityType DEF Base, Sized, StoreSound, TypeOK

\* The parts, put together for keys given by what they hold.
LEMMA SoundAfter ==
  ASSUME NEW m \in Mode, NEW o \in -(OpenDuration + MaxDelay)..0, NEW n \in 0..(SuccessThreshold - 1),
         NEW F, F \subseteq Entry(Window), NEW P, P \subseteq Entry(ProbeTimeout),
         IsFiniteSet(F), Cardinality(F) < FailureThreshold,
         IsFiniteSet(P), Cardinality(P) <= HalfOpenMaxCalls,
         store' = Filled(m, o, n, F, P), left' \in 0..IdleTtl, m # "closed" => left' > 0,
         tripAge' \in 0..OpenDuration, credit' \in 0..n,
         by' \in {"none", "probes", "late", "forgotten", "reset"},
         m # "closed" => F = {} /\ by' = "none", m = "open" => P = {},
         m # "half-open" => n = 0,
         m = "open" => o >= -(tripAge' + MaxDelay) /\ (tripAge' = OpenDuration \/ left' + tripAge' >= IdleTtl)
  PROVE  StoreSound' /\ store'.mode = m
<1>1. /\ store' \in StoreType /\ store'.mode = m /\ store'.openedAt = o /\ store'.succ = n
      /\ store'.fails = F /\ store'.probes = P
  BY StoreMade
<1>2. credit' \in 0..(SuccessThreshold - 1) /\ credit' <= n /\ (n = 0 => credit' = 0)
  BY ConstantFacts
<1> QED BY <1>1, <1>2 DEF StoreSound, Sized, Kept, Opened

LEMMA EmptyFacts ==
  /\ IsFiniteSet({}) /\ Cardinality({}) = 0
  /\ Cardinality({}) < FailureThreshold /\ Cardinality({}) <= HalfOpenMaxCalls
BY FS_EmptySet, ConstantFacts

LEMMA RequestSound ==
  ASSUME Base, NEW c \in Actor, call[c].pc = "asking", UNCHANGED <<tripAge, credit, by>>,
         Refused(c) \/ Watched(c) \/ Turned(c) \/ Joined(c) \/ Swept(c)
  PROVE  StoreSound'
<1> DEFINE P == Recent(store.probes, call[c].at, ProbeTimeout)
           F == Recent(store.fails, call[c].at, Window)
<1>1. /\ P \subseteq Entry(ProbeTimeout) /\ IsFiniteSet(P) /\ Cardinality(P) <= HalfOpenMaxCalls
      /\ F \subseteq Entry(Window) /\ IsFiniteSet(F) /\ Cardinality(F) < FailureThreshold
  <2>1. /\ P \subseteq store.probes /\ IsFiniteSet(P) /\ Cardinality(P) <= Cardinality(store.probes)
        /\ F \subseteq store.fails /\ IsFiniteSet(F) /\ Cardinality(F) <= Cardinality(store.fails)
    BY KeyFacts, RecentFacts
  <2>2. Cardinality(P) \in Nat /\ Cardinality(F) \in Nat
    BY <2>1, FS_CardinalityType
  <2> QED BY <2>1, <2>2, KeyFacts, ConstantFacts
<1> HIDE DEF P, F
<1>2. Member(c) \in Entry(ProbeTimeout)
  BY MemberFacts, ConstantFacts
<1>3. /\ left \in 0..IdleTtl /\ (store.mode # "closed" => left > 0) /\ tripAge \in 0..OpenDuration
      /\ credit \in 0..store.succ /\ (store.mode # "half-open" => store.succ = 0 /\ credit = 0)
      /\ (store.mode # "closed" => store.fails = {} /\ by = "none") /\ (store.mode = "open" => store.probes = {})
      /\ by \in {"none", "probes", "late", "forgotten", "reset"}
      /\ IdleTtl \in 0..IdleTtl /\ IdleTtl > 0 /\ 0 \in 0..IdleTtl
  BY KeyFacts, TtlFacts, ConstantFacts DEF StoreSound, Kept
<1>4. "closed" \in Mode /\ "open" \in Mode /\ "half-open" \in Mode /\ 0 \in 0..(SuccessThreshold - 1)
  BY ConstantFacts DEF Mode
<1>5. CASE Refused(c)
  <2>1. UNCHANGED <<store, left, tripAge, credit, by>>
    BY <1>5 DEF Refused
  <2> QED BY <2>1, KeyFacts DEF StoreSound, Sized, Kept, Opened
<1>6. CASE Watched(c)
  <2>1. store' = Filled("closed", store.openedAt, store.succ, F, store.probes) /\ left' = 0 /\ store.mode = "closed"
    BY <1>6 DEF Watched, F
  <2> QED BY <1>1, <1>3, <1>4, <2>1, KeyFacts, SoundAfter
<1>7. CASE Turned(c)
  <2>1. /\ store' = Filled("half-open", store.openedAt, 0, store.fails, {Member(c)})
        /\ left' = IdleTtl /\ store.mode = "open"
    BY <1>7 DEF Turned
  <2>2. {Member(c)} \subseteq Entry(ProbeTimeout) /\ IsFiniteSet({Member(c)}) /\ Cardinality({Member(c)}) <= HalfOpenMaxCalls
    <3>1. IsFiniteSet({Member(c)}) /\ Cardinality({Member(c)}) = 1
      BY FS_Singleton
    <3> QED BY <1>2, <3>1, ConstantFacts
  <2> QED BY <1>3, <1>4, <2>1, <2>2, KeyFacts, SoundAfter
<1>8. CASE Joined(c)
  <2>1. /\ store' = Filled("half-open", store.openedAt, store.succ, store.fails, P \cup {Member(c)})
        /\ left' = IdleTtl /\ store.mode = "half-open" /\ Cardinality(P) < HalfOpenMaxCalls
    BY <1>8 DEF Joined, P
  <2>2. IsFiniteSet(P \cup {Member(c)}) /\ Cardinality(P \cup {Member(c)}) <= HalfOpenMaxCalls
    <3>1. Cardinality(P) \in Nat
      BY <1>1, FS_CardinalityType
    <3>2. /\ IsFiniteSet(P \cup {Member(c)})
          /\ Cardinality(P \cup {Member(c)}) = IF Member(c) \in P THEN Cardinality(P) ELSE Cardinality(P) + 1
      BY <1>1, FS_AddElement
    <3> QED BY <2>1, <3>1, <3>2, ConstantFacts
  <2>3. P \cup {Member(c)} \subseteq Entry(ProbeTimeout)
    BY <1>1, <1>2
  <2> QED BY <1>3, <1>4, <2>1, <2>2, <2>3, KeyFacts, SoundAfter
<1>9. CASE Swept(c)
  <2>1. /\ store' = Filled("half-open", store.openedAt, store.succ, store.fails, P)
        /\ left' = left /\ store.mode = "half-open"
    BY <1>9 DEF Swept, P
  <2> QED BY <1>1, <1>3, <1>4, <2>1, KeyFacts, SoundAfter
<1> QED BY <1>5, <1>6, <1>7, <1>8, <1>9

LEMMA RecordSound ==
  ASSUME Base, NEW c \in Actor, call[c].pc = "recording",
         Ignored(c) \/ Culled(c) \/ ClosedBy(c) \/ Credited(c) \/ Tripped(c) \/ Counted(c)
  PROVE  StoreSound'
<1> DEFINE P == Recent(store.probes, call[c].at, ProbeTimeout)
           F == Recent(store.fails, call[c].at, Window)
<1>1. /\ P \subseteq Entry(ProbeTimeout) /\ IsFiniteSet(P) /\ Cardinality(P) <= HalfOpenMaxCalls
      /\ F \subseteq Entry(Window) /\ IsFiniteSet(F) /\ Cardinality(F) < FailureThreshold
  <2>1. /\ P \subseteq store.probes /\ IsFiniteSet(P) /\ Cardinality(P) <= Cardinality(store.probes)
        /\ F \subseteq store.fails /\ IsFiniteSet(F) /\ Cardinality(F) <= Cardinality(store.fails)
    BY KeyFacts, RecentFacts
  <2>2. Cardinality(P) \in Nat /\ Cardinality(F) \in Nat
    BY <2>1, FS_CardinalityType
  <2> QED BY <2>1, <2>2, KeyFacts, ConstantFacts
<1> HIDE DEF P, F
<1>2. Member(c) \in Entry(Window)
  BY MemberFacts, ConstantFacts
<1>3. /\ left \in 0..IdleTtl /\ (store.mode # "closed" => left > 0) /\ tripAge \in 0..OpenDuration
      /\ credit \in 0..store.succ /\ (store.mode # "half-open" => store.succ = 0 /\ credit = 0)
      /\ (store.mode # "closed" => store.fails = {} /\ by = "none") /\ (store.mode = "open" => store.probes = {})
      /\ by \in {"none", "probes", "late", "forgotten", "reset"}
      /\ IdleTtl \in 0..IdleTtl /\ IdleTtl > 0 /\ 0 \in 0..IdleTtl
  BY KeyFacts, TtlFacts, ConstantFacts DEF StoreSound, Kept
<1>4. /\ "closed" \in Mode /\ "open" \in Mode /\ "half-open" \in Mode /\ 0 \in 0..(SuccessThreshold - 1)
      /\ 0 \in -(OpenDuration + MaxDelay)..0 /\ 0 \in 0..OpenDuration
  BY ConstantFacts DEF Mode
<1>5. CASE Ignored(c)
  <2>1. UNCHANGED <<store, left, tripAge, credit, by>>
    BY <1>5 DEF Ignored
  <2> QED BY <2>1, KeyFacts DEF StoreSound, Sized, Kept, Opened
<1>6. CASE Culled(c)
  <2>1. /\ store' = Filled("closed", store.openedAt, store.succ, F, store.probes) /\ left' = 0
        /\ store.mode = "closed" /\ UNCHANGED <<tripAge, credit, by>>
    BY <1>6 DEF Culled, F
  <2> QED BY <1>1, <1>3, <1>4, <2>1, KeyFacts, SoundAfter
<1>7. CASE ClosedBy(c)
  <2>1. /\ store' = Filled("closed", 0, 0, {}, {}) /\ left' = 0 /\ credit' = 0 /\ tripAge' = tripAge
        /\ by' \in {"probes", "late"}
    BY <1>7, ClosedFacts DEF ClosedBy
  <2> QED BY <1>3, <1>4, <2>1, EmptyFacts, SoundAfter
<1>8. CASE Credited(c)
  <2> DEFINE Q == WithoutNewest(P)
  <2>1. /\ store' = Filled("half-open", store.openedAt, store.succ + 1, store.fails, Q)
        /\ left' = IdleTtl /\ store.mode = "half-open" /\ store.succ + 1 < SuccessThreshold
        /\ credit' = Credits(c) /\ tripAge' = tripAge /\ by' = by
    BY <1>8, KeyFacts, ConstantFacts DEF Credited, P
  <2>2. Q \subseteq P
    BY DEF WithoutNewest
  <2>3. IsFiniteSet(Q) /\ Cardinality(Q) <= HalfOpenMaxCalls
    <3>1. Cardinality(P) \in Nat /\ IsFiniteSet(Q) /\ Cardinality(Q) <= Cardinality(P) /\ Cardinality(Q) \in Nat
      BY <1>1, <2>2, FS_Subset, FS_CardinalityType
    <3> QED BY <1>1, <3>1, ConstantFacts
  <2>4. Q \subseteq Entry(ProbeTimeout)
    BY <1>1, <2>2
  <2>5. store.succ + 1 \in 0..(SuccessThreshold - 1) /\ credit' \in 0..(store.succ + 1)
    BY <1>3, <2>1, KeyFacts, ConstantFacts DEF Credits
  <2> HIDE DEF Q
  <2> QED BY <1>3, <1>4, <2>1, <2>3, <2>4, <2>5, KeyFacts, SoundAfter
<1>9. CASE Tripped(c)
  <2>1. /\ store' = Filled("open", call[c].at, 0, {}, {}) /\ left' = IdleTtl /\ tripAge' = 0
        /\ credit' = 0 /\ by' = "none"
    BY <1>9 DEF Tripped, LuaOpen, Filled
  <2>2. call[c].at >= -MaxDelay /\ call[c].at \in Int /\ call[c].at <= 0
    BY BaseFacts, ConstantFacts DEF Base, Calls, Fine
  <2>3. call[c].at \in -(OpenDuration + MaxDelay)..0 /\ call[c].at >= -(tripAge' + MaxDelay)
        /\ left' + tripAge' >= IdleTtl
    BY <2>1, <2>2, ConstantFacts, TtlFacts
  <2> QED BY <1>3, <1>4, <2>1, <2>3, EmptyFacts, SoundAfter
<1>10. CASE Counted(c)
  <2> DEFINE G == Failures(c)
  <2>1. /\ store' = Filled("closed", store.openedAt, store.succ, G, store.probes) /\ left' = 0
        /\ store.mode = "closed" /\ UNCHANGED <<tripAge, credit, by>> /\ ~(Cardinality(G) >= FailureThreshold)
    BY <1>10 DEF Counted
  <2>2. G \subseteq store.fails \cup {Member(c)} /\ IsFiniteSet(G)
    <3>1. IsFiniteSet(store.fails \cup {Member(c)})
      BY KeyFacts, FS_AddElement
    <3> QED BY <3>1, RecentFacts DEF Failures
  <2> HIDE DEF G
  <2>3. Cardinality(G) < FailureThreshold
    BY <2>1, <2>2, FS_CardinalityType, ConstantFacts
  <2>4. G \subseteq Entry(Window)
    BY <1>2, <2>2, KeyFacts
  <2> QED BY KeyFacts, SoundAfter, <1>3, <1>4, <2>4, <2>1, <2>2, <2>3
<1> QED BY <1>5, <1>6, <1>7, <1>8, <1>9, <1>10

\* Time passes over a sorted set: no two members become one.
LEMMA AgedFacts ==
  ASSUME NEW span \in Nat, NEW S, S \subseteq Entry(span), IsFiniteSet(S)
  PROVE  /\ Aged(S, span) \subseteq Entry(span) /\ IsFiniteSet(Aged(S, span))
         /\ Cardinality(Aged(S, span)) <= Cardinality(S)
<1> DEFINE older(m) == [at |-> Older(m.at, -(span + MaxDelay)), id |-> m.id]
           f == [m \in S |-> older(m)]
<1>1. \A m \in S : m.at \in -(span + MaxDelay)..0 /\ m.id \in Suffix
  BY DEF Entry
<1>2. \A m \in S : Older(m.at, -(span + MaxDelay)) \in -(span + MaxDelay)..0
  <2> SUFFICES ASSUME NEW m \in S PROVE Older(m.at, -(span + MaxDelay)) \in -(span + MaxDelay)..0
    OBVIOUS
  <2> QED BY <1>1, ConstantFacts DEF Older
<1>3. Aged(S, span) \subseteq Entry(span)
  <2>1. \A m \in S : older(m) \in Entry(span)
    BY <1>1, <1>2 DEF Entry
  <2> QED BY <2>1 DEF Aged
<1>4. f \in Surjection(S, Aged(S, span))
  <2>1. f \in [S -> Aged(S, span)]
    BY DEF Aged
  <2>2. \A n \in Aged(S, span) : \E m \in S : f[m] = n
    BY DEF Aged
  <2> QED BY <2>1, <2>2 DEF Surjection
<1> QED BY <1>3, <1>4, FS_Surjection

\* The keys are dropped when their idle time is over.
Dropped == left = 1 /\ store.mode # "closed"

LEMMA TickActs ==
  ASSUME Base, Tick
  PROVE  /\ MayPass
         /\ store' = Filled(IF Dropped THEN "closed" ELSE store.mode,
                            IF store.mode = "open" /\ ~Dropped
                              THEN Older(store.openedAt, -(OpenDuration + MaxDelay)) ELSE 0,
                            IF Dropped THEN 0 ELSE store.succ,
                            Aged(store.fails, Window), Aged(store.probes, ProbeTimeout))
         /\ left' = (IF left > 0 THEN left - 1 ELSE 0)
         /\ by' = (IF Dropped THEN "forgotten" ELSE by)
         /\ credit' = (IF Dropped THEN 0 ELSE credit)
         /\ tripAge' = (IF tripAge < OpenDuration THEN tripAge + 1 ELSE tripAge)
         /\ quiet' = (IF \E c \in Callers : call[c] = Idle THEN quiet + 1 ELSE quiet)
         /\ UNCHANGED <<up, faults>>
<1>1. (left = 1 /\ store.mode # "closed") = Dropped
  BY DEF Dropped
<1> DEFINE mode == IF Dropped THEN "closed" ELSE store.mode
<1>2. (mode = "open") = (store.mode = "open" /\ ~Dropped)
  OBVIOUS
<1>3. /\ MayPass
      /\ store' = [mode |-> mode,
                   openedAt |-> IF mode = "open" THEN Older(store.openedAt, -(OpenDuration + MaxDelay)) ELSE 0,
                   succ |-> IF Dropped THEN 0 ELSE store.succ,
                   fails |-> Aged(store.fails, Window), probes |-> Aged(store.probes, ProbeTimeout)]
      /\ left' = (IF left > 0 THEN left - 1 ELSE 0)
      /\ by' = (IF Dropped THEN "forgotten" ELSE by)
      /\ credit' = (IF Dropped THEN 0 ELSE credit)
      /\ tripAge' = (IF tripAge < OpenDuration THEN tripAge + 1 ELSE tripAge)
      /\ quiet' = (IF \E c \in Callers : call[c] = Idle THEN quiet + 1 ELSE quiet)
      /\ UNCHANGED <<up, faults>>
  BY Zenon DEF Tick, Dropped
<1> QED BY <1>2, <1>3 DEF Filled

LEMMA TickSound ==
  ASSUME Base, Tick
  PROVE  StoreSound'
<1> DEFINE F == Aged(store.fails, Window)
           P == Aged(store.probes, ProbeTimeout)
<1>1. /\ P \subseteq Entry(ProbeTimeout) /\ IsFiniteSet(P) /\ Cardinality(P) <= HalfOpenMaxCalls
      /\ F \subseteq Entry(Window) /\ IsFiniteSet(F) /\ Cardinality(F) < FailureThreshold
  <2>1. /\ P \subseteq Entry(ProbeTimeout) /\ IsFiniteSet(P) /\ Cardinality(P) <= Cardinality(store.probes)
        /\ F \subseteq Entry(Window) /\ IsFiniteSet(F) /\ Cardinality(F) <= Cardinality(store.fails)
    BY KeyFacts, ConstantFacts, AgedFacts
  <2>2. Cardinality(P) \in Nat /\ Cardinality(F) \in Nat
    BY <2>1, FS_CardinalityType
  <2> QED BY <2>1, <2>2, KeyFacts, ConstantFacts
<1>2. (store.fails = {} => F = {}) /\ (store.probes = {} => P = {})
  BY DEF Aged
<1>3. /\ left \in 0..IdleTtl /\ (store.mode # "closed" => left > 0) /\ tripAge \in 0..OpenDuration
      /\ credit \in 0..store.succ /\ (store.mode # "half-open" => store.succ = 0 /\ credit = 0)
      /\ (store.mode # "closed" => store.fails = {} /\ by = "none") /\ (store.mode = "open" => store.probes = {})
      /\ by \in {"none", "probes", "late", "forgotten", "reset"}
      /\ store.mode = "open" => /\ store.openedAt >= -(tripAge + MaxDelay)
                                /\ tripAge = OpenDuration \/ left + tripAge >= IdleTtl
  BY KeyFacts, ConstantFacts DEF StoreSound, Kept, Opened
<1>4. /\ "closed" \in Mode /\ "open" \in Mode /\ "half-open" \in Mode /\ 0 \in 0..(SuccessThreshold - 1)
      /\ 0 \in -(OpenDuration + MaxDelay)..0
  BY ConstantFacts DEF Mode
<1> HIDE DEF F, P
<1>5. left' \in 0..IdleTtl /\ tripAge' \in 0..OpenDuration /\ (~Dropped /\ store.mode # "closed" => left' > 0)
  BY <1>3, TickActs, TtlFacts, ConstantFacts DEF Dropped
<1>6. CASE Dropped
  <2>1. store' = Filled("closed", 0, 0, F, P) /\ credit' = 0 /\ by' = "forgotten"
    BY <1>6, TickActs DEF F, P
  <2> QED BY <1>1, <1>4, <1>5, <2>1, SoundAfter
<1>7. CASE ~Dropped /\ store.mode = "open"
  <2> DEFINE o == Older(store.openedAt, -(OpenDuration + MaxDelay))
  <2>1. store' = Filled("open", o, store.succ, F, P) /\ credit' = credit /\ by' = by
    BY <1>7, TickActs DEF F, P
  <2>2. o \in -(OpenDuration + MaxDelay)..0 /\ o >= -(tripAge' + MaxDelay)
    <3>1. store.openedAt \in -(OpenDuration + MaxDelay)..0
      BY KeyFacts
    <3>2. tripAge' = (IF tripAge < OpenDuration THEN tripAge + 1 ELSE tripAge)
      BY TickActs
    <3> QED BY <1>3, <1>7, <3>1, <3>2, ConstantFacts DEF Older
  <2>3. tripAge' = OpenDuration \/ left' + tripAge' >= IdleTtl
    <3>1. /\ tripAge' = (IF tripAge < OpenDuration THEN tripAge + 1 ELSE tripAge)
          /\ left' = (IF left > 0 THEN left - 1 ELSE 0)
      BY TickActs
    <3> QED BY <1>3, <1>7, <3>1, ConstantFacts, TtlFacts
  <2> HIDE DEF o
  <2> QED BY <1>1, <1>2, <1>3, <1>4, <1>5, <1>7, <2>1, <2>2, <2>3, KeyFacts, SoundAfter
<1>8. CASE ~Dropped /\ store.mode # "open"
  <2>1. store' = Filled(store.mode, 0, store.succ, F, P) /\ credit' = credit /\ by' = by
    BY <1>8, TickActs DEF F, P
  <2> QED BY <1>1, <1>2, <1>3, <1>4, <1>5, <1>8, <2>1, KeyFacts, SoundAfter
<1> QED BY <1>6, <1>7, <1>8

--------------------------------------------------------------------------------
(* The base invariant is preserved: the calls. *)

CallsSound == call \in [Actor -> CallType] /\ Calls

LEMMA FineAnswers ==
  ASSUME NEW c, NEW m
  PROVE  /\ Fine(c, Idle, m)
         /\ c \in Callers => Fine(c, Begun("asking"), m) /\ Fine(c, Begun("unguarded"), m) /\ Fine(c, Running(FALSE), m)
         /\ c \in Callers /\ m = "half-open" => Fine(c, Running(TRUE), m)
<1>1. -MaxDelay <= 0 /\ -MaxRun <= 0
  BY ConstantFacts
<1>2. Fine(c, Idle, m)
  BY AnswerFacts DEF Fine
<1>3. c \in Callers => Fine(c, Begun("asking"), m)
  BY <1>1, AnswerFacts DEF Fine
<1>4. c \in Callers => Fine(c, Begun("unguarded"), m)
  BY <1>1, AnswerFacts DEF Fine
<1>5. c \in Callers => Fine(c, Running(FALSE), m)
  BY <1>1, AnswerFacts DEF Fine
<1>6. c \in Callers /\ m = "half-open" => Fine(c, Running(TRUE), m)
  BY <1>1, AnswerFacts DEF Fine
<1> QED BY <1>2, <1>3, <1>4, <1>5, <1>6

LEMMA FineSilenced ==
  ASSUME NEW c, NEW v \in CallType, NEW m, NEW n, Fine(c, v, m)
  PROVE  Call(v.pc, v.at, FALSE, v.ok) \in CallType /\ Fine(c, Call(v.pc, v.at, FALSE, v.ok), n)
<1> DEFINE w == Call(v.pc, v.at, FALSE, v.ok)
<1>1. w \in CallType /\ w.pc = v.pc /\ w.at = v.at /\ w.probe = FALSE
  BY DEF Call, CallType
<1>2. v.pc = "idle" => w = Idle
  BY AnswerFacts DEF Fine, Idle, Begun, Call
<1> HIDE DEF w
<1>3. w \in CallType /\ Fine(c, w, n)
  BY <1>1, <1>2 DEF Fine
<1> QED BY <1>3 DEF w

LEMMA AnswersSound ==
  ASSUME Base, NEW c \in Actor, call[c].pc = "asking", Answers(c),
         Refused(c) \/ Watched(c) \/ Turned(c) \/ Joined(c) \/ Swept(c)
  PROVE  CallsSound'
<1>1. c \in Callers /\ \A k \in Actor : Fine(k, call[k], store.mode)
  BY DEF Base, Calls, Fine
<1>3. Turned(c) \/ Joined(c) \/ Swept(c) => store'.mode = "half-open"
  <2>1. CASE Turned(c)
    BY <2>1 DEF Turned, Filled
  <2>2. CASE Joined(c)
    BY <2>2 DEF Joined, Filled
  <2>3. CASE Swept(c)
    BY <2>3 DEF Swept, Filled
  <2> QED BY <2>1, <2>2, <2>3
<1>2. store.mode = "half-open" => store'.mode = "half-open"
  BY <1>3 DEF Refused, Watched
<1>4. call'[c] = Running(TRUE) => Turned(c) \/ Joined(c)
  BY AnswerFacts DEF Refused, Watched, Swept
<1>5. Fine(c, call'[c], store'.mode)
  BY <1>1, <1>3, <1>4, FineAnswers DEF Answers
<1>6. \A k \in Actor : k # c => Fine(k, call'[k], store'.mode)
  BY <1>1, <1>2 DEF Answers, Fine
<1> QED BY <1>5, <1>6 DEF CallsSound, Calls, Answers

LEMMA RecordsSound ==
  ASSUME Base, NEW c \in Actor,
         Ignored(c) \/ Culled(c) \/ ClosedBy(c) \/ Credited(c) \/ Tripped(c) \/ Counted(c)
  PROVE  CallsSound'
<1>1. \A k \in Actor : Fine(k, call[k], store.mode) /\ call[k] \in CallType
  BY BaseFacts DEF Base, Calls
<1>2. CASE Silences(c)
  <2>1. \A k \in Actor : Fine(k, call'[k], store'.mode)
    BY ZenonT(30), <1>1, <1>2, FineSilenced, FineAnswers DEF Silences
  <2> QED BY <1>2, <2>1 DEF CallsSound, Calls, Silences
<1>3. CASE Credited(c)
  <2>1. store.mode = "half-open" /\ store'.mode = "half-open"
    BY <1>3 DEF Credited, Filled
  <2>2. \A k \in Actor : Fine(k, call'[k], store'.mode)
    BY <1>1, <1>3, <2>1, FineAnswers DEF Credited
  <2> QED BY <1>3, <2>2 DEF CallsSound, Calls, Credited
<1> QED BY <1>2, <1>3 DEF Ignored, Culled, ClosedBy, Tripped, Counted

\* Reset
LEMMA ResetActs ==
  ASSUME Base, Reset
  PROVE  /\ store' = ClosedStore /\ left' = 0 /\ tripAge' = tripAge /\ credit' = 0
         /\ by' = (IF store.mode = "closed" THEN by ELSE "reset")
         /\ call' \in [Actor -> CallType]
         /\ \A k \in Actor : call'[k] = Call(call[k].pc, call[k].at, FALSE, call[k].ok)
         /\ UNCHANGED <<up, faults, quiet>>
<1>1. Became(ClosedStore, 0, "reset", 0, call) /\ UNCHANGED <<up, faults, quiet>>
  BY DEF Reset
<1>2. ClosedStore.mode = "closed"
  BY ClosedFacts
<1>3. (ClosedStore.mode = "half-open") = FALSE
  BY <1>2
<1>4. \A k \in Actor : call'[k] = Call(call[k].pc, call[k].at,
        ClosedStore.mode = "half-open" /\ call[k].pc = "asking" /\ call[k].pc = "running", call[k].ok)
  BY <1>1, <1>2, BaseFacts, BecameFacts
<1>5. \A k \in Actor : call'[k] = Call(call[k].pc, call[k].at, FALSE, call[k].ok)
  BY <1>3, <1>4
<1>6. /\ store' = ClosedStore /\ left' = 0 /\ tripAge' = tripAge /\ credit' = 0
      /\ by' = (IF store.mode = "closed" THEN by ELSE "reset") /\ call' \in [Actor -> CallType]
  BY <1>1, <1>2, BaseFacts, BecameFacts
<1> QED BY <1>1, <1>5, <1>6

LEMMA ResetSound ==
  ASSUME Base, Reset
  PROVE  StoreSound' /\ CallsSound'
<1>1. StoreSound'
  <2>1. store' = Filled("closed", 0, 0, {}, {}) /\ left' = 0 /\ credit' = 0
    BY ResetActs, ClosedFacts
  <2>2. /\ "closed" \in Mode /\ 0 \in -(OpenDuration + MaxDelay)..0 /\ 0 \in 0..(SuccessThreshold - 1)
        /\ 0 \in 0..IdleTtl
    BY ConstantFacts, TtlFacts DEF Mode
  <2>3. tripAge' \in 0..OpenDuration /\ by' \in {"none", "probes", "late", "forgotten", "reset"}
    BY ResetActs, KeyFacts DEF StoreSound
  <2> QED BY <2>1, <2>2, <2>3, EmptyFacts, SoundAfter
<1>2. \A k \in Actor : Fine(k, call[k], store.mode) /\ call[k] \in CallType
  BY BaseFacts DEF Base, Calls
<1>3. CallsSound'
  BY <1>2, ResetActs, FineSilenced DEF CallsSound, Calls
<1> QED BY <1>1, <1>3

\* The calls a Tick ages.
LEMMA TickCalls ==
  ASSUME Base, Tick, NEW k \in Actor
  PROVE  /\ call[k] = Idle => call'[k] = Idle
         /\ call[k] # Idle => /\ call'[k].pc = call[k].pc /\ call'[k].at = call[k].at - 1
                              /\ call'[k].probe = (call[k].probe /\ ~Dropped) /\ call'[k].ok = call[k].ok
                              /\ call[k].pc \in {"asking", "recording"} => call[k].at > -MaxDelay
                              /\ call[k].pc \in {"running", "unguarded"} => call[k].at > -MaxRun
         /\ call' = [j \in Actor |-> call'[j]] /\ call'[k] \in CallType
<1>1. call' = [c \in Actor |-> IF call[c] = Idle THEN Idle
                               ELSE Call(call[c].pc, call[c].at - 1, call[c].probe /\ ~Dropped, call[c].ok)]
  BY Zenon DEF Tick, Dropped
<1>2. /\ call[k].pc \in {"asking", "recording"} => call[k].at > -MaxDelay
      /\ call[k].pc \in {"running", "unguarded"} => call[k].at > -MaxRun
  BY TickActs DEF MayPass
<1>3. CASE call[k] = Idle
  BY <1>1, <1>3, IdleFacts
<1>4. CASE call[k] # Idle
  <2>1. call[k].pc # "idle"
    BY <1>4 DEF Base, Calls, Fine
  <2>2. call[k].at - 1 \in -(MaxDelay + MaxRun)..0
    BY <1>2, <2>1, BaseFacts, ConstantFacts DEF Pcs
  <2>3. call'[k] = Call(call[k].pc, call[k].at - 1, call[k].probe /\ ~Dropped, call[k].ok)
    BY <1>1, <1>4
  <2>4. /\ call'[k] \in CallType /\ call'[k].pc = call[k].pc /\ call'[k].at = call[k].at - 1
        /\ call'[k].probe = (call[k].probe /\ ~Dropped) /\ call'[k].ok = call[k].ok
    <3>1. call[k].pc \in Pcs /\ call[k].ok \in BOOLEAN /\ (call[k].probe /\ ~Dropped) \in BOOLEAN
      BY BaseFacts
    <3> QED BY <2>2, <2>3, <3>1 DEF Call, CallType, Pcs
  <2> QED BY <1>1, <1>2, <1>4, <2>4
<1> QED BY <1>3, <1>4

LEMMA TickCallsSound ==
  ASSUME Base, Tick
  PROVE  CallsSound'
<1>1. store'.mode = (IF Dropped THEN "closed" ELSE store.mode)
  BY TickActs DEF Filled
<1>2. ASSUME NEW k \in Actor PROVE call'[k] \in CallType /\ Fine(k, call'[k], store'.mode)
  <2>1. CASE call[k] = Idle
    BY <2>1, TickCalls, FineAnswers
  <2>2. CASE call[k] # Idle
    <3>1. Fine(k, call[k], store.mode) /\ call[k].pc # "idle"
      BY <2>2 DEF Base, Calls, Fine
    <3>2. call'[k].probe => call[k].probe /\ ~Dropped
      BY <2>2, TickCalls
    <3> QED BY <1>1, <2>2, <3>1, <3>2, TickCalls, BaseFacts, ConstantFacts DEF Fine
  <2> QED BY <2>1, <2>2
<1>3. CASE Actor = {}
  <2>1. call' = [c \in Actor |-> IF call[c] = Idle THEN Idle
                               ELSE Call(call[c].pc, call[c].at - 1, call[c].probe /\ ~Dropped, call[c].ok)]
    BY Zenon DEF Tick, Dropped
  <2> QED BY <1>3, <2>1 DEF CallsSound, Calls
<1>4. CASE Actor # {}
  BY <1>2, <1>4, TickCalls DEF CallsSound, Calls
<1> QED BY <1>3, <1>4

\* The steps that leave the keys alone: a call begins, ends, or is about to be recorded.
Quiet(c) ==
  /\ Unmoved /\ call' \in [Actor -> CallType] /\ \A k \in Actor : k # c => call'[k] = call[k]
  /\ \/ c \in Callers /\ call[c] = Idle /\ call'[c] = Begun("asking")
     \/ call'[c] = Idle
     \/ c \in Callers /\ call'[c] = Begun("unguarded")
     \/ call[c].pc = "running" /\ call'[c] = Call("recording", 0, call[c].probe, up)
     \/ c \in Reporters /\ call[c] = Idle /\ call'[c] = Call("recording", 0, FALSE, up)

LEMMA Replaced ==
  ASSUME call \in [Actor -> CallType], NEW c \in Actor, NEW v \in CallType, call' = [call EXCEPT ![c] = v]
  PROVE  call' \in [Actor -> CallType] /\ call'[c] = v /\ \A k \in Actor : k # c => call'[k] = call[k]
OBVIOUS

\* A call about to be recorded.
LEMMA OutcomeFacts ==
  ASSUME NEW b \in BOOLEAN, NEW ok \in BOOLEAN
  PROVE  /\ Call("recording", 0, b, ok) \in CallType /\ Call("recording", 0, b, ok).pc = "recording"
         /\ Call("recording", 0, b, ok).at = 0 /\ Call("recording", 0, b, ok).probe = b
BY ConstantFacts DEF Call, CallType

LEMMA QuietActs ==
  ASSUME Base, NEW c \in Actor,
         \/ Ask(c) \/ Settle(c) \/ Report(c) \/ Lose(c)
         \/ call[c].pc = "asking" /\ Unmoved
              /\ call' = [call EXCEPT ![c] = Begun(IF FailOpen THEN "unguarded" ELSE "idle")]
  PROVE  Quiet(c)
<1>1. call \in [Actor -> CallType] /\ up \in BOOLEAN /\ call[c].probe \in BOOLEAN
  BY BaseFacts DEF Base, TypeOK
<1>2. CASE Ask(c)
  BY <1>1, <1>2, Replaced, AnswerFacts DEF Ask, Quiet
<1>3. CASE Settle(c)
  <2>1. CASE call[c].pc = "unguarded"
    <3>1. Unmoved /\ call' = [call EXCEPT ![c] = Idle]
      BY <1>3, <2>1 DEF Settle
    <3> QED BY <1>1, <3>1, Replaced, AnswerFacts DEF Quiet
  <2>2. CASE call[c].pc = "running"
    <3>1. Unmoved /\ call' = [call EXCEPT ![c] = Call("recording", 0, call[c].probe, up)]
      BY <1>3, <2>2 DEF Settle
    <3>2. Call("recording", 0, call[c].probe, up) \in CallType
      BY <1>1, OutcomeFacts
    <3> QED BY <1>1, <2>2, <3>1, <3>2, Replaced DEF Quiet
  <2> QED BY <1>3, <2>1, <2>2 DEF Settle
<1>4. CASE Report(c)
  <2>1. Call("recording", 0, FALSE, up) \in CallType
    BY <1>1, OutcomeFacts
  <2>2. /\ Unmoved /\ c \in Reporters /\ call[c] = Idle
        /\ call' = [call EXCEPT ![c] = Call("recording", 0, FALSE, up)]
    BY <1>4 DEF Report
  <2> QED BY <1>1, <2>1, <2>2, Replaced DEF Quiet
<1>5. CASE Lose(c)
  <2>1. Unmoved /\ call' = [call EXCEPT ![c] = Idle]
    BY <1>5 DEF Lose
  <2> QED BY <1>1, <2>1, Replaced, AnswerFacts DEF Quiet
<1>6. CASE call[c].pc = "asking" /\ Unmoved
             /\ call' = [call EXCEPT ![c] = Begun(IF FailOpen THEN "unguarded" ELSE "idle")]
  <2> DEFINE v == Begun(IF FailOpen THEN "unguarded" ELSE "idle")
  <2>1. v \in {Idle, Begun("unguarded")} /\ c \in Callers
    BY <1>6 DEF Idle, Base, Calls, Fine
  <2>2. Unmoved /\ call' = [call EXCEPT ![c] = v]
    BY <1>6
  <2> HIDE DEF v
  <2>3. v \in CallType
    BY <2>1, AnswerFacts
  <2>4. call' \in [Actor -> CallType] /\ call'[c] = v /\ \A k \in Actor : k # c => call'[k] = call[k]
    BY <1>1, <2>2, <2>3, Replaced
  <2> QED BY <2>1, <2>2, <2>4 DEF Quiet
<1> QED BY <1>2, <1>3, <1>4, <1>5, <1>6

LEMMA QuietSound ==
  ASSUME Base, NEW c \in Actor, Quiet(c)
  PROVE  StoreSound' /\ CallsSound'
<1>1. StoreSound'
  BY KeyFacts DEF Quiet, Unmoved, StoreSound, Sized, Kept, Opened
<1>2. \A k \in Actor : Fine(k, call[k], store.mode) /\ call[k] \in CallType
  BY BaseFacts DEF Base, Calls
<1>3. store'.mode = store.mode
  BY DEF Quiet, Unmoved
<1>4. Fine(c, call'[c], store.mode)
  <2>1. CASE call'[c] \in {Idle, Begun("asking"), Begun("unguarded")} /\ (call'[c] # Idle => c \in Callers)
    BY <2>1, FineAnswers
  <2>2. CASE call[c].pc = "running" /\ call'[c] = Call("recording", 0, call[c].probe, up)
    <3>1. call[c].probe \in BOOLEAN /\ up \in BOOLEAN
      BY BaseFacts DEF Base, TypeOK
    <3> QED BY <1>2, <2>2, <3>1, OutcomeFacts, ConstantFacts DEF Fine
  <2>3. CASE call'[c] = Call("recording", 0, FALSE, up)
    <3>1. up \in BOOLEAN
      BY DEF Base, TypeOK
    <3>2. call'[c].pc = "recording" /\ call'[c].at = 0 /\ call'[c].probe = FALSE
      BY <2>3 DEF Call
    <3> QED BY <3>2, ConstantFacts DEF Fine
  <2> QED BY <2>1, <2>2, <2>3 DEF Quiet
<1>5. CallsSound'
  BY <1>2, <1>3, <1>4 DEF Quiet, CallsSound, Calls
<1> QED BY <1>1, <1>5

--------------------------------------------------------------------------------
(* The base invariant. *)

Requests(c) ==
  /\ call[c].pc = "asking" /\ Answers(c) /\ UNCHANGED <<tripAge, credit, by>>
  /\ Refused(c) \/ Watched(c) \/ Turned(c) \/ Joined(c) \/ Swept(c)
Records(c) ==
  /\ call[c].pc = "recording"
  /\ Ignored(c) \/ Culled(c) \/ ClosedBy(c) \/ Credited(c) \/ Tripped(c) \/ Counted(c)
Still == Unmoved /\ call' = call

\* Every step is one of these.
LEMMA StepActs ==
  ASSUME Base, [Next]_vars
  PROVE  \/ \E c \in Actor : Requests(c) \/ Records(c) \/ Quiet(c)
         \/ Reset \/ Tick \/ Still
<1>1. CASE UNCHANGED vars
  BY <1>1 DEF vars, Still, Unmoved
<1>2. ASSUME NEW c \in Actor, Gate(c) \/ StoreError(c)
      PROVE  Requests(c) \/ Quiet(c)
  <2>1. call[c].pc = "asking"
    BY <1>2 DEF Gate, StoreError
  <2>2. ASSUME NEW next \in {"answer", "idle", "unguarded"}, Decide(c, next)
        PROVE  Requests(c)
    BY <2>1, <2>2, DecideFacts DEF Requests
  <2>3. (IF FailOpen THEN "unguarded" ELSE "idle") \in {"answer", "idle", "unguarded"}
    OBVIOUS
  <2>4. \/ Decide(c, "answer") \/ Decide(c, IF FailOpen THEN "unguarded" ELSE "idle")
        \/ Unmoved /\ call' = [call EXCEPT ![c] = Begun(IF FailOpen THEN "unguarded" ELSE "idle")]
    BY <1>2 DEF Gate, StoreError
  <2> QED BY QuietActs, <2>1, <2>4, <2>2, <2>3
<1>3. ASSUME NEW c \in Actor, Ask(c) \/ Settle(c) \/ Report(c) \/ Lose(c)
      PROVE  Quiet(c)
  BY <1>3, QuietActs
<1>4. ASSUME NEW c \in Actor, RecordSuccess(c) \/ RecordFailure(c)
      PROVE  Records(c)
  BY <1>4, SuccessActs, FailureActs DEF Records
<1>5. CASE Flip
  BY <1>5 DEF Flip, Still
<1> QED BY <1>1, <1>2, <1>3, <1>4, <1>5 DEF Next

\* The rest of the types.
Counts == up \in BOOLEAN /\ faults \in 0..Faults /\ quiet \in 0..MaxIdle

LEMMA CountsStep ==
  ASSUME Base, [Next]_vars
  PROVE  Counts'
<1>1. Counts /\ Faults \in Nat /\ MaxIdle \in Nat /\ MaxIdle > 0
  BY ConstantFacts DEF Base, TypeOK, Counts
<1>2. CASE UNCHANGED vars
  BY <1>1, <1>2 DEF vars, Counts
<1>3. ASSUME NEW c \in Actor, Ask(c)
      PROVE  Counts'
  BY <1>1, <1>3 DEF Ask, Counts
<1>4. ASSUME NEW c \in Actor, Gate(c) \/ Settle(c) \/ Report(c)
      PROVE  Counts'
  BY <1>1, <1>4 DEF Gate, Settle, Report, Counts
<1>5. ASSUME NEW c \in Actor, StoreError(c) \/ Lose(c)
      PROVE  Counts'
  <2>1. faults < Faults /\ faults' = faults + 1 /\ UNCHANGED <<up, quiet>>
    BY <1>5 DEF StoreError, Lose
  <2> QED BY <1>1, <2>1 DEF Counts
<1>6. ASSUME NEW c \in Actor, RecordSuccess(c) \/ RecordFailure(c)
      PROVE  Counts'
  BY <1>1, <1>6, SuccessActs, FailureActs DEF Counts
<1>7. CASE Reset
  BY <1>1, <1>7, ResetActs DEF Counts
<1>8. CASE Flip
  BY <1>1, <1>8 DEF Flip, Counts
<1>9. CASE Tick
  <2>1. /\ (\E c \in Callers : call[c] = Idle) => quiet < MaxIdle
        /\ quiet' = (IF \E c \in Callers : call[c] = Idle THEN quiet + 1 ELSE quiet)
        /\ UNCHANGED <<up, faults>>
    BY <1>9, TickActs DEF MayPass
  <2> QED BY <1>1, <2>1 DEF Counts
<1> QED BY <1>2, <1>3, <1>4, <1>5, <1>6, <1>7, <1>8, <1>9 DEF Next

LEMMA BaseStep ==
  ASSUME Base, [Next]_vars
  PROVE  Base'
<1>1. StoreSound' /\ CallsSound'
  <2>1. ASSUME NEW c \in Actor, Requests(c)
        PROVE  StoreSound' /\ CallsSound'
    BY <2>1, RequestSound, AnswersSound DEF Requests
  <2>2. ASSUME NEW c \in Actor, Records(c)
        PROVE  StoreSound' /\ CallsSound'
    BY <2>2, RecordSound, RecordsSound DEF Records
  <2>3. CASE Still
    BY <2>3, KeyFacts DEF Still, Unmoved, StoreSound, Sized, Kept, Opened, CallsSound, Calls, Base, TypeOK
  <2> QED BY <2>1, <2>2, <2>3, StepActs, QuietSound, ResetSound, TickSound, TickCallsSound
<1> QED BY <1>1, CountsStep DEF Base, TypeOK, StoreSound, CallsSound, Counts

LEMMA BaseInit == Init => Base
<1> SUFFICES ASSUME Init PROVE Base
  OBVIOUS
<1>1. /\ store = ClosedStore /\ left = 0 /\ call = [c \in Actor |-> Idle] /\ up = TRUE /\ faults = 0
      /\ tripAge = OpenDuration /\ credit = 0 /\ by = "none" /\ quiet = 0
  BY DEF Init
<1>2. TypeOK
  BY <1>1, ClosedFacts, IdleFacts, ConstantFacts, TtlFacts DEF TypeOK
<1>3. Calls
  BY <1>1, FineAnswers DEF Calls
<1>4. Sized
  BY <1>1, ClosedFacts, EmptyFacts DEF Sized
<1>5. Kept /\ Opened
  BY <1>1, ClosedFacts DEF Kept, Opened
<1> QED BY <1>2, <1>3, <1>4, <1>5 DEF Base

THEOREM BaseHolds == Spec => []Base
BY BaseInit, BaseStep, PTL DEF Spec

\* The keys, the calls and the history keep their types: the times stay within the
\* bounds given by the delay of a command and the length of a call.
THEOREM TypeCorrect == Spec => []TypeOK
<1>1. Base => TypeOK
  BY DEF Base
<1> QED BY <1>1, BaseHolds, PTL

--------------------------------------------------------------------------------
(* An open circuit. *)

\* Who runs next that was asking got it from the open circuit by its cooldown.
LEMMA CooldownStep ==
  ASSUME Base, [Next]_vars, NEW c \in Callers, store.mode = "open", Admitted(c)
  PROVE  tripAge >= OpenDuration - MaxDelay
<1>1. c \in Actor /\ call[c].pc = "asking" /\ call'[c].pc = "running" /\ call[c] # Idle
  BY IdleFacts DEF Admitted, Actor
<1>2. ASSUME NEW k \in Actor, Requests(k)
      PROVE  tripAge >= OpenDuration - MaxDelay
  <2>1. k = c
    BY <1>1, <1>2 DEF Requests, Answers
  <2>2. call[c].at - store.openedAt >= OpenDuration
    BY <1>1, <1>2, <2>1 DEF Requests, Refused, Watched, Turned, Joined, Swept
  <2>3. store.openedAt >= -(tripAge + MaxDelay) /\ store.openedAt \in Int /\ tripAge \in Nat
        /\ call[c].at \in Int /\ call[c].at <= 0
    BY <1>1, BaseFacts, StoreFacts, ConstantFacts DEF Base, Opened
  <2> QED BY <2>2, <2>3, ConstantFacts
<1>3. ASSUME NEW k \in Actor, Records(k)
      PROVE  FALSE
  <2>1. Silences(k)
    BY <1>3 DEF Records, Ignored, Culled, ClosedBy, Credited, Tripped, Counted
  <2>2. k # c
    BY <1>1, <1>3 DEF Records
  <2> QED BY <1>1, <2>1, <2>2 DEF Silences, Call
<1>4. ASSUME NEW k \in Actor, Quiet(k)
      PROVE  FALSE
  <2>1. k = c
    BY <1>1, <1>4 DEF Quiet
  <2> QED BY <1>1, <1>4, <2>1 DEF Quiet, Idle, Begun, Call
<1>5. ~Reset /\ ~Still
  <2>1. ~Still
    BY <1>1 DEF Still
  <2>2. Reset => call'[c] = Call(call[c].pc, call[c].at, FALSE, call[c].ok)
    BY <1>1, ResetActs
  <2> QED BY <1>1, <2>1, <2>2 DEF Call
<1>6. ~Tick
  BY <1>1, TickCalls
<1> QED BY <1>2, <1>3, <1>4, <1>5, <1>6, StepActs

LEMMA ForgottenStep ==
  ASSUME Base, [Next]_vars, store.mode = "open", by' = "forgotten"
  PROVE  tripAge >= OpenDuration - 1
<1>1. by = "none" /\ (tripAge = OpenDuration \/ left + tripAge >= IdleTtl)
  BY DEF Base, Kept, Opened
<1>2. ~Reset /\ ~Still /\ \A k \in Actor : ~Requests(k) /\ ~Quiet(k)
  BY <1>1, ResetActs DEF Still, Unmoved, Requests, Quiet
<1>3. ASSUME NEW k \in Actor, Records(k)
      PROVE  FALSE
  BY <1>1, <1>3 DEF Records, Ignored, Culled, ClosedBy, Credited, Tripped, Counted
<1>4. Tick
  BY <1>2, <1>3, StepActs
<1>5. left = 1
  BY <1>1, <1>4, TickActs DEF Dropped
<1> QED BY <1>1, <1>5, BaseFacts, TtlFacts, ConstantFacts

\* An open circuit admits nobody before its cooldown is over, up to the delay of a
\* command, and Redis does not forget it earlier: CAN_REQUEST compares the caller's clock
\* with opened_at, and the idle TTL of PREAMBLE is longer than the cooldown.
THEOREM CooldownKept == Spec => OpenHolds
<1>1. Base /\ [Next]_vars =>
        [\A c \in Callers : store.mode = "open" /\ Admitted(c) => tripAge >= OpenDuration - MaxDelay]_vars
  BY CooldownStep
<1>2. Base /\ [Next]_vars =>
        [store.mode = "open" /\ by' = "forgotten" => tripAge >= OpenDuration - 1]_vars
  BY ForgottenStep
<1> QED BY <1>1, <1>2, BaseHolds, PTL DEF Spec, OpenHolds, CooldownHolds, NotForgottenEarly

--------------------------------------------------------------------------------
(* A half-open circuit. *)

\* What makes a half-open period belong to its probes: a call and the delays around it
\* are shorter than the cooldown, so no call from before is left when it is over; as many
\* of them as it takes to close the circuit fit into the time a probe keeps its slot; and
\* nobody reports a success that would free the slot of a probe under way.
Brief ==
  /\ MaxRun + 2 * MaxDelay < OpenDuration
  /\ SuccessThreshold * (MaxRun + 2 * MaxDelay) < ProbeTimeout
  /\ Reporters = {} \/ SuccessThreshold = 1

\* Every guarded call of a half-open circuit is one of its probes.
OwnProbes ==
  store.mode = "half-open" =>
    /\ credit = store.succ
    /\ \A c \in Callers : call[c].pc \in {"running", "recording"} => call[c].probe

\* A guarded call under way while the circuit is open was admitted before it opened.
Outlived ==
  store.mode = "open" => \A c \in Callers :
    /\ call[c].pc = "running" => tripAge <= -call[c].at
    /\ call[c].pc = "recording" => tripAge <= MaxRun - call[c].at

\* A call with its delays, and the earliest admission of a probe.
Span == MaxRun + 2 * MaxDelay
Since(c) == IF call[c].pc = "running" THEN call[c].at - MaxDelay ELSE call[c].at - MaxRun - MaxDelay
Probing == {c \in Callers : call[c].probe}

\* Every probe under way holds a slot of its own. A recorded success frees the newest
\* slot, be it its own or not, so a slot may be older than its holder, by one call
\* for each success.
Slots(f) ==
  /\ f \in [Probing -> store.probes]
  /\ \A c \in Probing, d \in Probing : c # d => f[c] # f[d]
  /\ \A c \in Probing : f[c].at >= Since(c) - store.succ * Span

Paired == store.mode = "half-open" => \E f : Slots(f)

Probed == OwnProbes /\ Outlived /\ ClosesByProbes /\ Paired

LEMMA SpanFacts ==
  ASSUME Brief, NEW n \in 0..(SuccessThreshold - 1)
  PROVE  /\ Span \in Nat /\ Span < OpenDuration /\ n * Span \in Nat /\ (n + 1) * Span = n * Span + Span
         /\ n * Span + Span < ProbeTimeout
<1>1. Span \in Nat /\ Span < OpenDuration /\ SuccessThreshold * Span < ProbeTimeout
  BY ConstantFacts DEF Brief, Span
<1> DEFINE k == SuccessThreshold - (n + 1)
<1>2. n \in Nat /\ k \in Nat /\ SuccessThreshold = (n + 1) + k
  BY ConstantFacts
<1> HIDE DEF k
<1>3. n * Span \in Nat /\ k * Span \in Nat /\ (n + 1) * Span = n * Span + Span
  BY <1>1, <1>2
<1>4. SuccessThreshold * Span = (n * Span + Span) + k * Span
  BY <1>1, <1>2
<1> QED BY <1>1, <1>3, <1>4, ConstantFacts

\* A probe under way is young, and so is its slot.
LEMMA ProbeFacts ==
  ASSUME Base, NEW c \in Probing
  PROVE  /\ c \in Callers /\ c \in Actor /\ call[c] # Idle /\ store.mode = "half-open"
         /\ call[c].pc \in {"running", "recording"}
         /\ Since(c) \in Int /\ Since(c) >= -Span /\ Since(c) <= 0
<1>1. c \in Callers /\ c \in Actor /\ call[c].probe
  BY DEF Probing, Actor
<1>2. /\ call[c].pc \in {"running", "recording"} /\ store.mode = "half-open"
      /\ call[c].pc = "recording" => call[c].at >= -MaxDelay
      /\ call[c].pc = "running" => call[c].at >= -MaxRun
  BY <1>1 DEF Base, Calls, Fine
<1>3. call[c].at \in Int /\ call[c].at <= 0
  BY <1>1, BaseFacts, ConstantFacts
<1> QED BY <1>1, <1>2, <1>3, IdleFacts, ConstantFacts DEF Since, Span

LEMMA SlotFacts ==
  ASSUME Brief, Base, NEW f, Slots(f), NEW c \in Probing
  PROVE  /\ f[c] \in store.probes /\ f[c] \in Entry(ProbeTimeout) /\ f[c].at \in Int /\ f[c].at > -ProbeTimeout
         /\ f[c].at >= -(store.succ * Span + Span)
         /\ \A t \in Int : t <= 0 => f[c] \in Recent(store.probes, t, ProbeTimeout)
<1>1. f[c] \in store.probes /\ f[c].at >= Since(c) - store.succ * Span
  BY DEF Slots
<1>2. f[c] \in Entry(ProbeTimeout) /\ store.succ \in 0..(SuccessThreshold - 1)
  BY <1>1, KeyFacts
<1>3. f[c].at \in Int
  BY <1>2, ConstantFacts DEF Entry
<1>4. store.succ * Span \in Nat /\ store.succ * Span + Span < ProbeTimeout /\ Span \in Nat
  BY <1>2, SpanFacts
<1>5. Since(c) \in Int /\ Since(c) >= -Span
  BY ProbeFacts
<1>6. f[c].at > -ProbeTimeout /\ f[c].at >= -(store.succ * Span + Span)
  BY <1>1, <1>3, <1>4, <1>5, ConstantFacts
<1>7. \A t \in Int : t <= 0 => f[c] \in Recent(store.probes, t, ProbeTimeout)
  BY <1>1, <1>3, <1>6, ConstantFacts DEF Recent
<1> QED BY <1>1, <1>2, <1>3, <1>6, <1>7

\* When the circuit turns half-open no call from before it opened is left.
LEMMA TurnedAlone ==
  ASSUME Brief, Base, Outlived, NEW c \in Actor, Turned(c), NEW k \in Callers
  PROVE  call[k].pc \notin {"running", "recording"}
<1>1. /\ store.mode = "open" /\ call[c].at - store.openedAt >= OpenDuration
      /\ store.openedAt >= -(tripAge + MaxDelay) /\ store.openedAt \in Int /\ tripAge \in Nat
      /\ call[c].at \in Int /\ call[c].at <= 0
  BY BaseFacts, StoreFacts, ConstantFacts DEF Base, Opened, Turned
<1>2. tripAge > MaxRun + MaxDelay
  BY <1>1, ConstantFacts DEF Brief
<1>3. k \in Actor /\ call[k].at \in Int
  BY BaseFacts DEF Actor
<1>4. /\ call[k].pc = "recording" => call[k].at >= -MaxDelay
      /\ call[k].pc = "running" => call[k].at >= -MaxRun
  BY <1>3 DEF Base, Calls, Fine
<1> QED BY <1>1, <1>2, <1>3, <1>4, ConstantFacts DEF Outlived

\* What the calls of a step look like to the parts below.
LEMMA CallSteps ==
  ASSUME Base, [Next]_vars, NEW k \in Callers
  PROVE  \/ call'[k] = call[k]
         \/ Requests(k) /\ call'[k].pc # "running" /\ call'[k].pc # "recording" /\ call'[k].probe = FALSE
         \/ Requests(k) /\ call'[k].pc = "running" /\ call'[k].at = 0
              /\ (call'[k].probe \/ Watched(k)) /\ ~Refused(k) /\ ~Swept(k)
         \/ Quiet(k) /\ call'[k].pc \notin {"running", "recording"} /\ call'[k].probe = FALSE
         \/ Quiet(k) /\ call[k].pc = "running" /\ call'[k].pc = "recording" /\ call'[k].at = 0
              /\ call'[k].probe = call[k].probe
         \/ call'[k] = Idle /\ Records(k)
         \/ Tick /\ call[k] # Idle /\ call'[k].pc = call[k].pc /\ call'[k].at = call[k].at - 1
              /\ call'[k].probe = (call[k].probe /\ ~Dropped)
         \/ /\ call'[k].pc = call[k].pc /\ call'[k].at = call[k].at /\ call'[k].probe = FALSE
            /\ Reset \/ \E c \in Actor : Records(c) /\ Silences(c)
<1>1. k \in Actor /\ k \notin Reporters /\ call[k].probe \in BOOLEAN /\ up \in BOOLEAN
  BY BaseFacts, ConstantFacts DEF Actor, Base, TypeOK
<1>2. ASSUME NEW c \in Actor, Requests(c)
      PROVE  \/ call'[k] = call[k]
             \/ Requests(k) /\ call'[k].pc # "running" /\ call'[k].pc # "recording" /\ call'[k].probe = FALSE
             \/ Requests(k) /\ call'[k].pc = "running" /\ call'[k].at = 0
                  /\ (call'[k].probe \/ Watched(k)) /\ ~Refused(k) /\ ~Swept(k)
  <2>1. k # c => call'[k] = call[k]
    BY <1>1, <1>2 DEF Requests, Answers
  <2>2. CASE k = c /\ call'[k] \in {Idle, Begun("unguarded")}
    BY <1>2, <2>2, AnswerFacts
  <2>3. CASE k = c /\ call'[k] \in {Running(TRUE), Running(FALSE)}
    <3>1. call'[k].pc = "running" /\ call'[k].at = 0 /\ ~Refused(k) /\ ~Swept(k)
      BY <2>3, AnswerFacts DEF Refused, Swept
    <3>2. call'[k].probe \/ Watched(k)
      BY <1>2, <2>3, <3>1, AnswerFacts DEF Requests, Turned, Joined
    <3> QED BY <1>2, <2>3, <3>1, <3>2
  <2> QED BY <1>2, <2>1, <2>2, <2>3 DEF Requests, Answers
<1>3. ASSUME NEW c \in Actor, Records(c)
      PROVE  \/ call'[k] = call[k] \/ (call'[k] = Idle /\ Records(k))
             \/ /\ call'[k].pc = call[k].pc /\ call'[k].at = call[k].at /\ call'[k].probe = FALSE
                /\ Records(c) /\ Silences(c)
  <2>1. CASE k = c
    BY ZenonT(30), <1>3, <2>1 DEF Records, Ignored, Culled, ClosedBy, Credited, Tripped, Counted, Silences
  <2>2. CASE k # c /\ Silences(c)
    <3>1. call'[k] = Call(call[k].pc, call[k].at, FALSE, call[k].ok)
      BY <1>1, <2>2 DEF Silences
    <3> QED BY <1>3, <2>2, <3>1 DEF Call
  <2>3. CASE k # c /\ Credited(c)
    BY <1>1, <2>3 DEF Credited
  <2> QED BY <1>3, <2>1, <2>2, <2>3 DEF Records, Ignored, Culled, ClosedBy, Tripped, Counted
<1>4. ASSUME NEW c \in Actor, Quiet(c)
      PROVE  \/ call'[k] = call[k]
             \/ Quiet(k) /\ call'[k].pc \notin {"running", "recording"} /\ call'[k].probe = FALSE
             \/ Quiet(k) /\ call[k].pc = "running" /\ call'[k].pc = "recording" /\ call'[k].at = 0
                  /\ call'[k].probe = call[k].probe
  <2>1. k # c => call'[k] = call[k]
    BY <1>1, <1>4 DEF Quiet
  <2>2. CASE k = c /\ call'[k] \in {Begun("asking"), Idle, Begun("unguarded")}
    BY <1>4, <2>2, AnswerFacts
  <2>3. CASE k = c /\ call[c].pc = "running" /\ call'[c] = Call("recording", 0, call[c].probe, up)
    BY <1>1, <1>4, <2>3, OutcomeFacts
  <2> QED BY <1>1, <1>4, <2>1, <2>2, <2>3 DEF Quiet
<1>5. CASE Reset
  <2>1. call'[k] = Call(call[k].pc, call[k].at, FALSE, call[k].ok)
    BY <1>1, <1>5, ResetActs
  <2> QED BY <1>5, <2>1 DEF Call
<1>6. CASE Tick
  <2>1. call[k] = Idle => call'[k] = call[k]
    BY <1>1, <1>6, TickCalls
  <2>2. call[k] # Idle => call'[k].pc = call[k].pc /\ call'[k].at = call[k].at - 1
                            /\ call'[k].probe = (call[k].probe /\ ~Dropped)
    BY <1>1, <1>6, TickCalls
  <2> QED BY <1>6, <2>1, <2>2
<1>7. CASE Still
  BY <1>7 DEF Still
<1> QED BY <1>2, <1>3, <1>4, <1>5, <1>6, <1>7, StepActs

\* How the circuit gets, and stays, open or half-open.
LEMMA ModeSteps ==
  ASSUME Base, [Next]_vars
  PROVE  /\ store'.mode = "open" =>
              \/ tripAge' = 0
              \/ store.mode = "open" /\ (tripAge' = tripAge \/ (Tick /\ tripAge' <= tripAge + 1))
         /\ store'.mode = "open" => \A c \in Actor : Requests(c) => Refused(c)
         /\ store'.mode = "half-open" =>
              \/ \E c \in Actor : Requests(c) /\ Turned(c)
              \/ store.mode = "half-open" /\ \A c \in Actor : ~(Records(c) /\ Silences(c)) \/ Credited(c)
         /\ store'.mode = "half-open" => ~Reset /\ (Tick => ~Dropped)
<1>1. ASSUME NEW c \in Actor, Requests(c)
      PROVE  /\ store'.mode = "open" => Refused(c)
             /\ store'.mode = "half-open" => Turned(c) \/ (store.mode = "half-open" /\ ~Refused(c) /\ ~Watched(c))
             /\ Refused(c) => store.mode = "open" /\ store'.mode = "open" /\ tripAge' = tripAge
             /\ call[c].pc = "asking"
  <2>1. /\ Refused(c) => store.mode = "open" /\ store' = store /\ tripAge' = tripAge
        /\ Watched(c) => store.mode = "closed" /\ store'.mode = "closed"
        /\ Turned(c) => store.mode = "open" /\ store'.mode = "half-open"
        /\ Joined(c) \/ Swept(c) => store.mode = "half-open" /\ store'.mode = "half-open"
    <3>1. Refused(c) => store.mode = "open" /\ store' = store /\ tripAge' = tripAge
      BY <1>1 DEF Requests, Refused
    <3>2. Watched(c) => store.mode = "closed" /\ store'.mode = "closed"
      BY DEF Watched, Filled
    <3>3. Turned(c) => store.mode = "open" /\ store'.mode = "half-open"
      BY DEF Turned, Filled
    <3>4. Joined(c) => store.mode = "half-open" /\ store'.mode = "half-open"
      BY DEF Joined, Filled
    <3>5. Swept(c) => store.mode = "half-open" /\ store'.mode = "half-open"
      BY DEF Swept, Filled
    <3> QED BY <3>1, <3>2, <3>3, <3>4, <3>5
  <2>2. call[c].pc = "asking" /\ (Refused(c) \/ Watched(c) \/ Turned(c) \/ Joined(c) \/ Swept(c))
    BY <1>1 DEF Requests
  <2> QED BY <2>1, <2>2
<1>2. ASSUME NEW c \in Actor, Records(c)
      PROVE  /\ store'.mode = "open" => tripAge' = 0 \/ (store.mode = "open" /\ tripAge' = tripAge)
             /\ store'.mode = "half-open" => Credited(c) /\ store.mode = "half-open"
             /\ call[c].pc = "recording"
  <2>1. /\ Ignored(c) => store.mode = "open" /\ store' = store /\ tripAge' = tripAge
        /\ Culled(c) \/ ClosedBy(c) \/ Counted(c) => store'.mode = "closed"
        /\ Credited(c) => store'.mode = "half-open" /\ store.mode = "half-open"
        /\ Tripped(c) => store'.mode = "open" /\ tripAge' = 0
    BY ClosedFacts DEF Ignored, Culled, ClosedBy, Credited, Tripped, Counted, Filled, LuaOpen
  <2>2. /\ call[c].pc = "recording"
        /\ Ignored(c) \/ Culled(c) \/ ClosedBy(c) \/ Credited(c) \/ Tripped(c) \/ Counted(c)
    BY <1>2 DEF Records
  <2> QED BY <2>1, <2>2
<1>3. ASSUME NEW c \in Actor, Quiet(c)
      PROVE  store' = store /\ tripAge' = tripAge
  BY <1>3 DEF Quiet, Unmoved
<1>4. Reset => store'.mode = "closed"
  BY ResetActs, ClosedFacts
<1>5. Tick => /\ store'.mode = (IF Dropped THEN "closed" ELSE store.mode)
              /\ tripAge' <= tripAge + 1
  <2>1. tripAge \in Nat
    BY BaseFacts
  <2> QED BY <2>1, TickActs DEF Filled
<1>6. Still => store' = store /\ tripAge' = tripAge
  BY DEF Still, Unmoved
<1>7. store'.mode = "open" =>
        \/ tripAge' = 0
        \/ store.mode = "open" /\ (tripAge' = tripAge \/ (Tick /\ tripAge' <= tripAge + 1))
  BY <1>1, <1>2, <1>3, <1>4, <1>5, <1>6, StepActs
<1>8. store'.mode = "half-open" =>
        \/ \E c \in Actor : Requests(c) /\ Turned(c)
        \/ store.mode = "half-open"
  BY <1>1, <1>2, <1>3, <1>4, <1>5, <1>6, StepActs
<1>9. store'.mode = "half-open" => \A c \in Actor : ~(Records(c) /\ Silences(c)) \/ Credited(c)
  BY <1>2
<1> QED BY <1>1, <1>4, <1>5, <1>7, <1>8, <1>9

LEMMA OutlivedStep ==
  ASSUME Base, [Next]_vars, Outlived
  PROVE  Outlived'
<1> SUFFICES ASSUME store'.mode = "open", NEW k \in Callers
             PROVE  /\ call'[k].pc = "running" => tripAge' <= -call'[k].at
                    /\ call'[k].pc = "recording" => tripAge' <= MaxRun - call'[k].at
  BY DEF Outlived
<1>1. /\ k \in Actor /\ call[k].at \in Int /\ call[k].at <= 0 /\ tripAge \in Nat /\ MaxRun \in Nat
      /\ call[k].pc = "running" => call[k].at >= -MaxRun
  BY BaseFacts, ConstantFacts DEF Actor, Base, Calls, Fine
<1>2. call'[k].at \in Int /\ call'[k].at <= 0 /\ tripAge' \in Nat
  <2>1. Base'
    BY BaseStep
  <2>2. call'[k] \in CallType /\ tripAge' \in 0..OpenDuration
    BY <1>1, <2>1 DEF Base, TypeOK
  <2> QED BY <2>2, CallFacts, ConstantFacts
<1>3. CASE tripAge' = 0
  BY <1>1, <1>2, <1>3
<1>4. CASE store.mode = "open" /\ (tripAge' = tripAge \/ (Tick /\ tripAge' <= tripAge + 1))
  <2>1. /\ call[k].pc = "running" => tripAge <= -call[k].at
        /\ call[k].pc = "recording" => tripAge <= MaxRun - call[k].at
    BY <1>4 DEF Outlived
  <2>2. CASE call'[k].pc = call[k].pc /\ call'[k].at = call[k].at /\ tripAge' = tripAge
    BY <2>1, <2>2
  <2>3. CASE Tick
    <3>1. call[k] # Idle => call'[k].pc = call[k].pc /\ call'[k].at = call[k].at - 1
      BY <1>1, <2>3, TickCalls
    <3>2. call[k] = Idle => call'[k].pc = "idle"
      BY <1>1, <2>3, TickCalls, IdleFacts
    <3> QED BY <1>1, <1>2, <1>4, <2>1, <3>1, <3>2
  <2>4. CASE call'[k].pc \notin {"running", "recording"}
    BY <2>4
  <2>5. CASE call[k].pc = "running" /\ call'[k].pc = "recording" /\ call'[k].at = 0 /\ ~Tick
    BY <1>1, <1>4, <2>1, <2>5
  <2>6. ~Reset
    BY ResetActs, ClosedFacts
  <2>7. ~(Requests(k) /\ ~Refused(k))
    BY <1>1, ModeSteps
  <2>8. CASE ~Tick
    BY <1>4, <2>2, <2>4, <2>5, <2>6, <2>7, <2>8, CallSteps, IdleFacts
  <2> QED BY <2>3, <2>8
<1> QED BY <1>3, <1>4, ModeSteps

\* Every recorded success of a half-open circuit is one of its probes', or reported.
LEMMA CreditsFacts ==
  ASSUME Base, OwnProbes, store.mode = "half-open", NEW c \in Actor, call[c].pc = "recording"
  PROVE  Credits(c) = credit + 1 /\ credit = store.succ /\ (c \in Callers => c \in Probing)
<1>1. c \in Callers => call[c].probe
  BY DEF OwnProbes
<1> QED BY <1>1 DEF Credits, Actor, OwnProbes, Probing

LEMMA OwnStep ==
  ASSUME Brief, Base, [Next]_vars, OwnProbes, Outlived
  PROVE  OwnProbes'
<1> SUFFICES ASSUME store'.mode = "half-open"
             PROVE  /\ credit' = store'.succ
                    /\ \A k \in Callers : call'[k].pc \in {"running", "recording"} => call'[k].probe
  BY DEF OwnProbes
<1>1. ASSUME NEW c \in Actor, Requests(c), Turned(c)
      PROVE  /\ credit' = store'.succ
             /\ \A k \in Callers : call'[k].pc \in {"running", "recording"} => call'[k].probe
  <2>1. credit' = 0 /\ store'.succ = 0
    BY <1>1 DEF Requests, Turned, Filled, Base, Kept
  <2>2. ASSUME NEW k \in Callers, call'[k].pc \in {"running", "recording"}
        PROVE  call'[k].probe
    <3>1. call[k].pc \notin {"running", "recording"} /\ k \in Actor
      BY <1>1, TurnedAlone DEF Actor
    <3>2. k = c
      BY <1>1, <2>2, <3>1 DEF Requests, Answers
    <3> QED BY <1>1, <2>2, <3>2, AnswerFacts DEF Requests, Answers, Turned
  <2> QED BY <2>1, <2>2
<1>2. CASE store.mode = "half-open" /\ \A c \in Actor : ~(Records(c) /\ Silences(c)) \/ Credited(c)
  <2>1. credit = store.succ /\ \A k \in Callers : call[k].pc \in {"running", "recording"} => call[k].probe
    BY <1>2 DEF OwnProbes
  <2>2. credit' = store'.succ
    <3>1. ASSUME NEW c \in Actor, Requests(c)
          PROVE  credit' = store'.succ
      <4>1. credit' = credit /\ (Joined(c) \/ Swept(c))
        BY <1>2, <3>1 DEF Requests, Refused, Watched, Turned
      <4>2. Joined(c) => store'.succ = store.succ
        BY DEF Joined, Filled
      <4>3. Swept(c) => store'.succ = store.succ
        BY DEF Swept, Filled
      <4> QED BY <2>1, <4>1, <4>2, <4>3
    <3>2. ASSUME NEW c \in Actor, Records(c)
          PROVE  credit' = store'.succ
      <4>1. Credited(c)
        BY <1>2, <3>2 DEF Records, Ignored, Culled, ClosedBy, Tripped, Counted
      <4>2. credit' = Credits(c) /\ store'.succ = store.succ + 1
        BY <4>1 DEF Credited, Filled
      <4> QED BY <1>2, <3>2, <4>2, CreditsFacts DEF Records
    <3>3. ASSUME NEW c \in Actor, Quiet(c)
          PROVE  credit' = store'.succ
      BY <2>1, <3>3 DEF Quiet, Unmoved
    <3>4. CASE Tick
      <4>1. ~Dropped
        BY <3>4, ModeSteps
      <4> QED BY <2>1, <3>4, <4>1, TickActs DEF Filled
    <3>5. CASE Still
      BY <2>1, <3>5 DEF Still, Unmoved
    <3>6. ~Reset
      BY ModeSteps
    <3> QED BY <3>1, <3>2, <3>3, <3>4, <3>5, <3>6, StepActs
  <2>3. ASSUME NEW k \in Callers, call'[k].pc \in {"running", "recording"}
        PROVE  call'[k].probe
    <3>1. ~Watched(k) /\ ~Reset /\ (Tick => ~Dropped)
      BY <1>2, ModeSteps DEF Watched
    <3>2. ~(call'[k] = Idle)
      BY <2>3, IdleFacts
    <3>3. ASSUME NEW c \in Actor, Records(c), Silences(c), call'[k].probe = FALSE, call'[k].pc = call[k].pc
          PROVE  FALSE
      <4>1. Credited(c) /\ k \in Actor
        BY <1>2, <3>3 DEF Actor
      <4>2. k # c => call'[k] = call[k]
        BY <4>1 DEF Credited
      <4>3. k # c
        BY <3>2, <4>1 DEF Credited
      <4> QED BY <2>1, <2>3, <3>3, <4>2, <4>3
    <3> QED BY <2>1, <2>3, <3>1, <3>2, <3>3, CallSteps
  <2> QED BY <2>2, <2>3
<1> QED BY <1>1, <1>2, ModeSteps

LEMMA LateStep ==
  ASSUME Base, [Next]_vars, OwnProbes, ClosesByProbes
  PROVE  ClosesByProbes'
<1>1. by # "late"
  BY DEF ClosesByProbes
<1>2. ASSUME NEW c \in Actor, Requests(c) \/ Quiet(c)
      PROVE  by' = by
  BY <1>2 DEF Requests, Quiet, Unmoved
<1>3. ASSUME NEW c \in Actor, Records(c)
      PROVE  by' # "late"
  <2>1. CASE ClosedBy(c)
    <3>1. Credits(c) = store.succ + 1
      BY <1>3, <2>1, CreditsFacts DEF Records, ClosedBy
    <3> QED BY <2>1, <3>1 DEF ClosedBy
  <2>2. CASE ~ClosedBy(c)
    BY <1>1, <1>3, <2>2 DEF Records, Ignored, Culled, Credited, Tripped, Counted
  <2> QED BY <2>1, <2>2
<1>4. Reset \/ Tick => by' \in {by, "reset", "forgotten"}
  BY ResetActs, TickActs
<1>5. Still => by' = by
  BY DEF Still, Unmoved
<1> QED BY <1>1, <1>2, <1>3, <1>4, <1>5, StepActs DEF ClosesByProbes

\* Probes that end, settle or see others join keep their slots.
LEMMA SlotsStay ==
  ASSUME Brief, Base, NEW f, Slots(f), store'.succ = store.succ,
         Probing' \subseteq Probing, \A c \in Probing' : f[c] \in store'.probes,
         \A c \in Probing' : Since(c)' \in Int /\ Since(c)' <= Since(c)
  PROVE  \E g : Slots(g)'
<1>1. PICK g : g = [c \in Probing' |-> f[c]]
  OBVIOUS
<1>2. g \in [Probing' -> store'.probes] /\ \A c \in Probing' : g[c] = f[c]
  BY <1>1
<1>3. \A c \in Probing', d \in Probing' : c # d => g[c] # g[d]
  BY <1>2 DEF Slots
<1>4. ASSUME NEW c \in Probing'
      PROVE  g[c].at >= Since(c)' - store'.succ * Span
  <2>1. f[c].at >= Since(c) - store.succ * Span /\ g[c] = f[c] /\ c \in Probing
    BY <1>2, <1>4 DEF Slots
  <2>2. store.succ * Span \in Nat
    BY KeyFacts, SpanFacts
  <2>3. f[c].at \in Int /\ Since(c) \in Int
    BY <2>1, SlotFacts, ProbeFacts
  <2>4. Since(c)' \in Int /\ Since(c)' <= Since(c)
    BY <1>4
  <2> QED BY <2>4, <2>1, <2>2, <2>3
<1>5. Slots(g)'
  BY <1>2, <1>3, <1>4 DEF Slots
<1> QED BY <1>5

\* The first probe takes the only slot.
LEMMA SlotsBegin ==
  ASSUME Brief, Base, Outlived, [Next]_vars, NEW c \in Actor, Requests(c), Turned(c)
  PROVE  \E g : Slots(g)'
<1>1. /\ store'.probes = {Member(c)} /\ store'.succ = 0 /\ store'.mode = "half-open"
  BY DEF Turned, Filled
<1>2. Base'
  BY BaseStep
<1>3. ASSUME NEW k \in Probing'
      PROVE  k = c /\ call'[k] = Running(TRUE)
  <2>1. k \in Callers /\ k \in Actor /\ call'[k].probe /\ call'[k].pc \in {"running", "recording"}
    BY <1>2, <1>3 DEF Probing, Base, Calls, Fine, Actor
  <2>2. call[k].pc \notin {"running", "recording"}
    BY <2>1, TurnedAlone
  <2>3. k = c
    BY <2>1, <2>2 DEF Requests, Answers
  <2> QED BY <2>1, <2>3, AnswerFacts DEF Requests, Answers, Turned
<1>4. call[c].at >= -MaxDelay /\ Member(c).at = call[c].at /\ call[c].at \in Int
  BY BaseFacts, ConstantFacts DEF Base, Calls, Fine, Requests, Member
<1>5. PICK g : g = [k \in Probing' |-> Member(c)]
  OBVIOUS
<1>6. ASSUME NEW k \in Probing'
      PROVE  g[k].at >= Since(k)' - store'.succ * Span
  <2>1. Since(k)' = 0 - MaxDelay
    BY <1>3, <1>6, AnswerFacts DEF Since
  <2>2. store'.succ * Span = 0
    <3>1. Span \in Nat
      BY ConstantFacts DEF Span
    <3> QED BY <1>1, <3>1
  <2> QED BY <1>4, <1>5, <1>6, <2>1, <2>2, ConstantFacts
<1>7. /\ g \in [Probing' -> store'.probes]
      /\ \A k \in Probing', d \in Probing' : k # d => g[k] # g[d]
  BY <1>1, <1>3, <1>5
<1>8. Slots(g)'
  BY <1>6, <1>7 DEF Slots
<1> QED BY <1>8

\* A probe that joins takes a slot of its own.
LEMMA SlotsJoined ==
  ASSUME Brief, Base, NEW f, Slots(f), NEW c \in Actor, Requests(c), Joined(c), call'[c] = Running(TRUE)
  PROVE  \E g : Slots(g)'
<1> DEFINE recent == Recent(store.probes, call[c].at, ProbeTimeout)
<1>1. store'.probes = recent \cup {Member(c)} /\ store'.succ = store.succ
  BY DEF Joined, Filled
<1>2. call[c].pc = "asking" /\ call[c].at \in Int /\ call[c].at <= 0 /\ call[c].at >= -MaxDelay
  BY BaseFacts, ConstantFacts DEF Base, Calls, Fine, Requests
<1>3. c \in Callers /\ c \notin Probing
  BY <1>2, ProbeFacts DEF Base, Calls, Fine
<1>4. Probing' = Probing \cup {c}
  <2>1. call'[c].probe = TRUE /\ \A k \in Actor : k # c => call'[k] = call[k]
    BY AnswerFacts DEF Requests, Answers
  <2> QED BY <1>3, <2>1 DEF Probing, Actor
<1>5. Member(c) \notin store.probes /\ Member(c).at = call[c].at
  BY <1>2, MemberFacts, ConstantFacts
<1>6. \A k \in Probing : f[k] \in recent /\ f[k] \in store.probes
  BY <1>2, SlotFacts
<1> HIDE DEF recent
<1>7. PICK g : g = [k \in Probing' |-> IF k = c THEN Member(c) ELSE f[k]]
  OBVIOUS
<1>8. g[c] = Member(c) /\ \A k \in Probing : g[k] = f[k]
  BY <1>3, <1>4, <1>7
<1>9. g \in [Probing' -> store'.probes]
  BY <1>1, <1>4, <1>6, <1>7
<1>10. \A k \in Probing', d \in Probing' : k # d => g[k] # g[d]
  BY <1>4, <1>5, <1>6, <1>8 DEF Slots
<1>11. store.succ * Span \in Nat
  BY KeyFacts, SpanFacts
<1>12. \A k \in Probing' : g[k].at >= Since(k)' - store'.succ * Span
  <2>1. Since(c)' = 0 - MaxDelay
    BY AnswerFacts DEF Since
  <2>2. g[c].at >= Since(c)' - store'.succ * Span
    BY <1>1, <1>2, <1>5, <1>8, <1>11, <2>1, ConstantFacts
  <2>3. ASSUME NEW k \in Probing
        PROVE  g[k].at >= Since(k)' - store'.succ * Span
    <3>1. call'[k] = call[k]
      BY <1>3, <2>3 DEF Requests, Answers, Probing, Actor
    <3>2. Since(k)' = Since(k)
      BY <3>1 DEF Since
    <3> QED BY <1>1, <1>8, <2>3, <3>2 DEF Slots
  <2> QED BY <1>4, <2>2, <2>3
<1>13. Slots(g)'
  BY <1>9, <1>10, <1>12 DEF Slots
<1> QED BY <1>13

\* A recorded success frees the newest slot: who held it goes on with the one of the
\* probe that is over.
LEMMA SlotsCredited ==
  ASSUME Brief, Base, OwnProbes, NEW f, Slots(f), NEW c \in Actor, Records(c), Credited(c)
  PROVE  \E g : Slots(g)'
<1> DEFINE recent == Recent(store.probes, call[c].at, ProbeTimeout)
           newest == Newest(recent)
<1>1. store.mode = "half-open" /\ call[c].pc = "recording" /\ ~(store.succ + 1 >= SuccessThreshold)
  BY DEF Records, Credited
<1>2. c \in Callers /\ c \in Probing
  <2>1. store.succ \in Nat
    BY KeyFacts
  <2>2. SuccessThreshold # 1
    BY <1>1, <2>1
  <2>3. c \in Callers
    BY <2>2 DEF Brief, Actor
  <2> QED BY <1>1, <2>3, CreditsFacts
<1>3. store'.probes = WithoutNewest(recent) /\ store'.succ = store.succ + 1
  BY DEF Credited, Filled
<1>4. call[c].at \in Int /\ call[c].at <= 0
  BY BaseFacts, ConstantFacts
<1>5. \A k \in Probing : f[k] \in recent
  BY <1>4, SlotFacts
<1>6. store'.probes = recent \ {newest}
  BY <1>2, <1>3, <1>5 DEF WithoutNewest
<1>7. Probing' = Probing \ {c}
  <2>1. call'[c].probe = FALSE /\ \A k \in Actor : k # c => call'[k] = call[k]
    BY IdleFacts DEF Credited
  <2> QED BY <1>2, <2>1 DEF Probing, Actor
<1>8. \A k \in Probing, d \in Probing : k # d => f[k] # f[d]
  BY DEF Slots
<1> HIDE DEF recent, newest
<1>9. PICK g : g = [k \in Probing' |-> IF f[k] = newest THEN f[c] ELSE f[k]]
  OBVIOUS
<1>10. g \in [Probing' -> store'.probes]
  <2>1. \A k \in Probing' : (IF f[k] = newest THEN f[c] ELSE f[k]) \in store'.probes
    BY <1>2, <1>5, <1>6, <1>7, <1>8
  <2> QED BY <1>9, <2>1
<1>11. \A k \in Probing', d \in Probing' : k # d => g[k] # g[d]
  BY <1>2, <1>7, <1>8, <1>9
<1>12. \A k \in Probing' : g[k].at >= Since(k)' - store'.succ * Span
  <2> SUFFICES ASSUME NEW k \in Probing' PROVE g[k].at >= Since(k)' - store'.succ * Span
    OBVIOUS
  <2>1. k \in Probing /\ k # c /\ k \in Actor
    BY <1>7, ProbeFacts
  <2>2. call'[k] = call[k]
    BY <2>1 DEF Credited
  <2>3. Since(k)' = Since(k)
    BY <2>2 DEF Since
  <2>4. store.succ * Span \in Nat /\ (store.succ + 1) * Span = store.succ * Span + Span /\ Span \in Nat
    BY KeyFacts, SpanFacts
  <2>5. Since(k) \in Int /\ Since(k) <= 0
    BY <2>1, ProbeFacts
  <2>6. f[c].at \in Int /\ f[c].at >= -(store.succ * Span + Span) /\ f[k].at \in Int
    BY <1>2, <2>1, SlotFacts
  <2>7. f[k].at >= Since(k) - store.succ * Span
    BY <2>1 DEF Slots
  <2>8. g[k] = f[c] \/ g[k] = f[k]
    BY <1>9
  <2>9. store'.succ * Span = store.succ * Span + Span
    BY <1>3, <2>4
  <2> QED BY <2>3, <2>4, <2>5, <2>6, <2>7, <2>8, <2>9
<1>13. Slots(g)'
  BY <1>10, <1>11, <1>12 DEF Slots
<1> QED BY <1>13

\* A slot ages with its holder.
LEMMA SlotsTick ==
  ASSUME Brief, Base, NEW f, Slots(f), Tick, ~Dropped
  PROVE  \E g : Slots(g)'
<1> DEFINE older(m) == [at |-> Older(m.at, -(ProbeTimeout + MaxDelay)), id |-> m.id]
<1>1. store'.probes = {older(m) : m \in store.probes} /\ store'.succ = store.succ
  BY TickActs DEF Filled, Aged
<1>2. Probing' = Probing
  <2>1. \A k \in Callers : call'[k].probe = call[k].probe
    <3> SUFFICES ASSUME NEW k \in Callers PROVE call'[k].probe = call[k].probe
      OBVIOUS
    <3>1. k \in Actor /\ call[k].probe \in BOOLEAN
      BY BaseFacts DEF Actor
    <3> QED BY <3>1, TickCalls, IdleFacts
  <2> QED BY <2>1 DEF Probing
<1>3. ASSUME NEW k \in Probing
      PROVE  Since(k)' = Since(k) - 1 /\ Since(k) \in Int
  <2>1. k \in Actor /\ call[k] # Idle /\ Since(k) \in Int
    BY <1>3, ProbeFacts
  <2>2. call'[k].pc = call[k].pc /\ call'[k].at = call[k].at - 1 /\ call[k].at \in Int
    BY <2>1, TickCalls, BaseFacts, ConstantFacts
  <2> QED BY <2>1, <2>2, ConstantFacts DEF Since
<1>4. ASSUME NEW k \in Probing
      PROVE  /\ f[k] \in store.probes /\ f[k].at \in Int /\ older(f[k]) = [at |-> f[k].at - 1, id |-> f[k].id]
             /\ f[k] = [at |-> f[k].at, id |-> f[k].id]
  <2>1. f[k] \in store.probes /\ f[k] \in Entry(ProbeTimeout) /\ f[k].at \in Int /\ f[k].at > -ProbeTimeout
    BY <1>4, SlotFacts
  <2>2. f[k] = [at |-> f[k].at, id |-> f[k].id]
    BY <2>1 DEF Entry
  <2>3. Older(f[k].at, -(ProbeTimeout + MaxDelay)) = f[k].at - 1
    BY <2>1, ConstantFacts DEF Older
  <2> QED BY <2>1, <2>2, <2>3
<1>5. PICK g : g = [k \in Probing' |-> older(f[k])]
  OBVIOUS
<1>6. \A k \in Probing : g[k] = older(f[k]) /\ g[k] = [at |-> f[k].at - 1, id |-> f[k].id]
  BY <1>2, <1>4, <1>5
<1> HIDE DEF older
<1>7. g \in [Probing' -> store'.probes]
  BY <1>1, <1>2, <1>4, <1>5
<1>8. \A k \in Probing', d \in Probing' : k # d => g[k] # g[d]
  <2> SUFFICES ASSUME NEW k \in Probing, NEW d \in Probing, k # d, g[k] = g[d] PROVE FALSE
    BY <1>2
  <2>1. [at |-> f[k].at - 1, id |-> f[k].id] = [at |-> f[d].at - 1, id |-> f[d].id]
    BY <1>6
  <2>2. f[k].at - 1 = f[d].at - 1 /\ f[k].id = f[d].id /\ f[k].at \in Int /\ f[d].at \in Int
    BY <1>4, <2>1
  <2>3. f[k] = f[d]
    <3>1. f[k].at = f[d].at
      BY <2>2
    <3> QED BY <1>4, <2>2, <3>1
  <2> QED BY <2>3 DEF Slots
<1>9. \A k \in Probing' : g[k].at >= Since(k)' - store'.succ * Span
  <2> SUFFICES ASSUME NEW k \in Probing PROVE g[k].at >= Since(k)' - store'.succ * Span
    BY <1>2
  <2>1. f[k].at \in Int /\ Since(k)' = Since(k) - 1 /\ Since(k) \in Int
    BY <1>3, <1>4
  <2>4. g[k] = [at |-> f[k].at - 1, id |-> f[k].id]
    BY <1>6
  <2>5. g[k].at = f[k].at - 1
    BY <2>4
  <2>2. f[k].at >= Since(k) - store.succ * Span
    BY DEF Slots
  <2>3. store.succ * Span \in Nat
    BY KeyFacts, SpanFacts
  <2> QED BY <1>1, <2>1, <2>2, <2>3, <2>5
<1>10. Slots(g)'
  BY <1>7, <1>8, <1>9 DEF Slots
<1> QED BY <1>10

LEMMA PairedStep ==
  ASSUME Brief, Base, [Next]_vars, Probed
  PROVE  Paired'
<1> USE DEF Probed
<1> SUFFICES ASSUME store'.mode = "half-open" PROVE \E g : Slots(g)'
  BY DEF Paired
<1>1. CASE \E c \in Actor : Requests(c) /\ Turned(c)
  BY <1>1, SlotsBegin
<1>2. CASE store.mode = "half-open"
  <2>1. PICK f : Slots(f)
    BY <1>2 DEF Paired
  <2>2. ASSUME NEW c \in Actor, Requests(c)
        PROVE  \E g : Slots(g)'
    <3>1. Joined(c) \/ Swept(c)
      BY <1>2, <2>2 DEF Requests, Refused, Watched, Turned
    <3>2. CASE Joined(c) /\ call'[c] = Running(TRUE)
      BY <2>1, <2>2, <3>2, SlotsJoined
    <3>3. CASE call'[c] # Running(TRUE)
      <4>1. call'[c].probe = FALSE /\ \A k \in Actor : k # c => call'[k] = call[k]
        BY <2>2, <3>3, AnswerFacts DEF Requests, Answers
      <4>2. \A k \in Probing' : k \in Probing /\ call'[k] = call[k]
        BY <4>1 DEF Probing, Actor
      <4>3. call[c].at \in Int /\ call[c].at <= 0
        BY BaseFacts, ConstantFacts
      <4>4. Recent(store.probes, call[c].at, ProbeTimeout) \subseteq store'.probes /\ store'.succ = store.succ
        <5>1. CASE Joined(c)
          BY <5>1 DEF Joined, Filled
        <5>2. CASE Swept(c)
          BY <5>2 DEF Swept, Filled
        <5> QED BY <3>1, <5>1, <5>2
      <4>5. \A k \in Probing' : f[k] \in store'.probes
        BY <2>1, <4>2, <4>3, <4>4, SlotFacts
      <4>6. \A k \in Probing' : Since(k)' \in Int /\ Since(k)' <= Since(k)
        <5> SUFFICES ASSUME NEW k \in Probing' PROVE Since(k)' \in Int /\ Since(k)' <= Since(k)
          OBVIOUS
        <5>1. Since(k)' = Since(k)
          BY <4>2 DEF Since
        <5>2. Since(k) \in Int
          BY <4>2, ProbeFacts
        <5> QED BY <5>1, <5>2
      <4> QED BY <2>1, <4>2, <4>4, <4>5, <4>6, SlotsStay
    <3>4. CASE Swept(c) /\ call'[c] = Running(TRUE)
      BY <3>4, AnswerFacts DEF Swept
    <3> QED BY <3>1, <3>2, <3>3, <3>4
  <2>3. ASSUME NEW c \in Actor, Records(c)
        PROVE  \E g : Slots(g)'
    <3>1. Credited(c)
      <4>1. ~(Records(c) /\ Silences(c)) \/ Credited(c)
        <5>1. ~Ignored(c)
          BY <1>2 DEF Ignored
        <5>2. /\ Culled(c) => store'.mode = "closed"
              /\ ClosedBy(c) => store'.mode = "closed"
              /\ Counted(c) => store'.mode = "closed"
              /\ Tripped(c) => store'.mode = "open"
          BY ClosedFacts DEF Culled, ClosedBy, Counted, Tripped, LuaOpen, Filled
        <5> QED BY <2>3, <5>1, <5>2 DEF Records
      <4> QED BY <2>3, <4>1 DEF Records, Ignored, Culled, ClosedBy, Counted, Tripped
    <3> QED BY <2>1, <2>3, <3>1, SlotsCredited
  <2>4. ASSUME NEW c \in Actor, Quiet(c)
        PROVE  \E g : Slots(g)'
    <3>1. store' = store /\ \A k \in Actor : k # c => call'[k] = call[k]
      BY <2>4 DEF Quiet, Unmoved
    <3>2. c \in Callers => \/ call'[c] = call[c] \/ call'[c].probe = FALSE
                           \/ /\ call[c].pc = "running" /\ call'[c].pc = "recording" /\ call'[c].at = 0
                              /\ call'[c].probe = call[c].probe
      <4>1. CASE call'[c] \in {Begun("asking"), Idle, Begun("unguarded")}
        BY <4>1, AnswerFacts
      <4>2. CASE call[c].pc = "running" /\ call'[c] = Call("recording", 0, call[c].probe, up)
        <5>1. call[c].probe \in BOOLEAN /\ up \in BOOLEAN
          BY BaseFacts DEF Base, TypeOK
        <5> QED BY <4>2, <5>1, OutcomeFacts
      <4>3. CASE c \in Reporters
        BY <4>3, ConstantFacts
      <4> QED BY <2>4, <4>1, <4>2, <4>3 DEF Quiet
    <3>3. ASSUME NEW k \in Probing'
          PROVE  k \in Probing /\ Since(k)' \in Int /\ Since(k)' <= Since(k)
      <4>1. k \in Callers /\ k \in Actor /\ call'[k].probe
        BY <3>3 DEF Probing, Actor
      <4>2. call[k].at \in Int /\ call[k].at <= 0 /\ (call[k].pc = "running" => call[k].at >= -MaxRun)
        BY <4>1, BaseFacts, ConstantFacts DEF Base, Calls, Fine
      <4>3. CASE call'[k] = call[k]
        <5>1. Since(k)' = Since(k) /\ k \in Probing
          BY <4>1, <4>3 DEF Since, Probing
        <5> QED BY <5>1, ProbeFacts
      <4>4. CASE /\ call[k].pc = "running" /\ call'[k].pc = "recording" /\ call'[k].at = 0
                 /\ call'[k].probe = call[k].probe
        BY <4>1, <4>2, <4>4, ConstantFacts DEF Since, Probing
      <4> QED BY <3>1, <3>2, <4>1, <4>3, <4>4
    <3>4. store'.succ = store.succ /\ \A k \in Probing' : f[k] \in store'.probes
      BY <2>1, <3>1, <3>3, SlotFacts
    <3> QED BY <2>1, <3>3, <3>4, SlotsStay
  <2>5. CASE Still
    <3>1. store' = store /\ call' = call
      BY <2>5 DEF Still, Unmoved
    <3>2. Probing' = Probing /\ \A k \in Probing : Since(k)' = Since(k)
      BY <3>1 DEF Probing, Since
    <3> QED BY <2>1, <3>1, <3>2, SlotsStay, ProbeFacts, SlotFacts
  <2>6. CASE Tick
    BY <2>1, <2>6, SlotsTick, ModeSteps
  <2>7. ~Reset
    BY ModeSteps
  <2> QED BY <2>2, <2>3, <2>4, <2>5, <2>6, <2>7, StepActs
<1> QED BY <1>1, <1>2, ModeSteps

\* The slots bound the probes.
LEMMA BoundedBySlots ==
  ASSUME Base, Paired
  PROVE  ProbesBounded
<1> DEFINE R == {c \in Callers : call[c].pc = "running" /\ call[c].probe}
<1>1. CASE store.mode # "half-open"
  <2>1. \A c \in Callers : ~call[c].probe
    BY <1>1 DEF Base, Calls, Fine, Actor
  <2>2. R = {}
    BY <2>1
  <2> HIDE DEF R
  <2>3. Cardinality(R) <= HalfOpenMaxCalls
    BY <2>2, EmptyFacts
  <2> QED BY <2>3 DEF ProbesBounded, R
<1>2. CASE store.mode = "half-open"
  <2>1. PICK f : Slots(f)
    BY <1>2 DEF Paired
  <2>2. f \in Injection(Probing, store.probes)
    BY <2>1 DEF Slots, Injection, IsInjective
  <2>3. /\ IsFiniteSet(Probing) /\ Cardinality(Probing) <= Cardinality(store.probes)
        /\ Cardinality(store.probes) \in Nat /\ Cardinality(store.probes) <= HalfOpenMaxCalls
    BY <2>2, KeyFacts, FS_Injection
  <2>4. R \in SUBSET Probing
    BY DEF Probing
  <2> HIDE DEF R
  <2>5. IsFiniteSet(R) /\ Cardinality(R) <= Cardinality(Probing)
    BY <2>3, <2>4, FS_Subset
  <2>6. Cardinality(R) \in Nat /\ Cardinality(Probing) \in Nat
    BY <2>3, <2>5, FS_CardinalityType
  <2>7. Cardinality(R) <= HalfOpenMaxCalls
    BY <2>3, <2>5, <2>6, ConstantFacts
  <2> QED BY <2>7 DEF ProbesBounded, R
<1> QED BY <1>1, <1>2

LEMMA ProbedInit == Init => Probed
BY ClosedFacts DEF Init, Probed, OwnProbes, Outlived, ClosesByProbes, Paired

\* With brief calls, the probes of a half-open circuit stay within halfOpenMaxCalls,
\* although a recorded success frees the newest slot and not its own, and they alone
\* close it: no call from before the circuit opened is still there when its cooldown
\* is over (CAN_REQUEST, RECORD_SUCCESS).
THEOREM ProbesAlone == ASSUME Brief PROVE Spec => []ProbesDecide
<1>1. Base /\ Probed /\ [Next]_vars => Probed'
  BY OutlivedStep, OwnStep, LateStep, PairedStep DEF Probed
<1>2. Base /\ Probed => ProbesDecide
  BY BoundedBySlots DEF Probed, ProbesDecide
<1> QED BY <1>1, <1>2, ProbedInit, BaseHolds, PTL DEF Spec

--------------------------------------------------------------------------------
(* The second part: BreakerMirror. Callers whose clocks agree and who ask often enough to keep  *)
(* the keys alive cannot tell the Redis store from the pure state machine.                     *)

\* The coupling of the two: the store may have dropped failures that left the window; nothing else differs.
Twin(l, p, t) ==
  /\ l.mode = p.state /\ l.openedAt = p.openedAt /\ l.succ = p.successes /\ l.probes = p.probes
  /\ l.fails \subseteq p.failures
  /\ \A m \in p.failures : m.at > t - Window => m \in l.fails
  /\ l.mode # "closed" => p.failures = {}
  /\ l.mode # "half-open" => p.successes = 0 /\ p.probes = {}

\* Why the state hash is never idle for its TTL: while the circuit is open or half-open
\* the last request was refused soon after the hash was touched.
Alive ==
  /\ asked <= clock /\ touched <= clock
  /\ lua.mode = "open" => touched = lua.openedAt /\ asked < touched + OpenDuration
  /\ lua.mode = "half-open" => asked < touched + ProbeTimeout
  /\ \A m \in lua.probes : m.at <= touched

Coupled == Twin(lua, pure, clock) /\ Alive

OneClock == Skew = 0
NeverIdle == MaxPause <= Longest + IdleSlack

--------------------------------------------------------------------------------
LEMMA MirrorFacts ==
  /\ FailureThreshold \in Nat /\ FailureThreshold > 0
  /\ Window \in Nat /\ Window > 0
  /\ OpenDuration \in Nat /\ OpenDuration > 0
  /\ ProbeTimeout \in Nat /\ ProbeTimeout > 0
  /\ HalfOpenMaxCalls \in Nat /\ HalfOpenMaxCalls > 0
  /\ SuccessThreshold \in Nat /\ SuccessThreshold > 0
  /\ IdleSlack \in Nat /\ IdleSlack > 0 /\ MaxPause \in Nat
BY BreakerAssumption, MirrorAssumption DEF BreakerAssumption, MirrorAssumption

LEMMA LongestFacts ==
  /\ Longest \in Nat /\ Longest >= OpenDuration /\ Longest >= ProbeTimeout /\ Longest >= Window
  /\ IdleTtl = 2 * Longest + IdleSlack
BY MirrorFacts DEF Longest, IdleTtl

LEMMA EmptyHasNoMembers == Cardinality({}) = 0
BY FS_EmptySet

\* What both answer to a request, and where it leaves them.
LEMMA TwinRequest ==
  ASSUME NEW l \in Stores, NEW p \in Machines, NEW t \in Int, NEW id \in Id, Twin(l, p, t)
  PROVE  /\ LuaCanRequest(l, t, id).ok = CanRequest(p, t, id).ok
         /\ Twin(LuaCanRequest(l, t, id).store, CanRequest(p, t, id).next, t)
<1> USE MirrorFacts DEF Twin, Stores, Machines, Mode
<1>1. CASE l.mode = "closed"
  BY <1>1 DEF LuaCanRequest, LuaTurned, CanRequest, Recent, Entries
<1>2. CASE l.mode = "open" /\ ~(t - l.openedAt >= OpenDuration)
  <2>1. LuaCanRequest(l, t, id) = [ok |-> FALSE, store |-> l]
    BY <1>2 DEF LuaCanRequest, LuaTurned
  <2>2. CanRequest(p, t, id) = [ok |-> FALSE, next |-> p]
    BY <1>2 DEF CanRequest
  <2> QED
    BY <2>1, <2>2
<1>3. CASE l.mode = "open" /\ t - l.openedAt >= OpenDuration
  <2> DEFINE T == [mode |-> "half-open", openedAt |-> l.openedAt, succ |-> 0, fails |-> l.fails, probes |-> {}]
             Q == ToHalfOpen(p)
  <2>1. LuaTurned(l, t) = T
    BY <1>3 DEF LuaTurned
  <2>2. T.mode = "half-open" /\ T.probes = {} /\ Q.probes = {}
    BY DEF ToHalfOpen
  <2>3. Recent({}, t, ProbeTimeout) = {} /\ Pruned({}, t, ProbeTimeout) = {}
    BY DEF Recent, Pruned
  <2>4. LuaReclaimed(T, t) = T
    BY <2>2, <2>3 DEF LuaReclaimed
  <2>5. HasSlot(T)
    BY <2>2, EmptyHasNoMembers DEF HasSlot
  <2> DEFINE one == {[at |-> t, id |-> id]}
  <2>6. LuaCanRequest(l, t, id) = [ok |-> TRUE, store |-> [T EXCEPT !.probes = one]]
    <3>1. T.probes \cup one = one
      BY <2>2
    <3> HIDE DEF T, one
    <3> QED
      BY <2>1, <2>2, <2>4, <2>5, <3>1 DEF LuaCanRequest, one
  <2>7. CanRequest(p, t, id) = TryProbe(Q, t, id)
    BY <1>3 DEF CanRequest
  <2>8. TryProbe(Q, t, id) = [ok |-> TRUE, next |-> [Q EXCEPT !.probes = one]]
    BY <2>2, <2>3, EmptyHasNoMembers DEF TryProbe
  <2> HIDE DEF one
  <2> DEFINE L == [T EXCEPT !.probes = one]
             P == [Q EXCEPT !.probes = one]
  <2>9. L.mode = "half-open" /\ L.openedAt = l.openedAt /\ L.succ = 0 /\ L.fails = l.fails /\ L.probes = one
    OBVIOUS
  <2>10. P.state = "half-open" /\ P.openedAt = p.openedAt /\ P.successes = 0
         /\ P.failures = p.failures /\ P.probes = one
    BY DEF ToHalfOpen
  <2>11. Twin(L, P, t)
    <3> HIDE DEF L, P, one
    <3> QED
      BY <1>3, <2>9, <2>10
  <2> HIDE DEF L, P
  <2>12. LuaCanRequest(l, t, id) = [ok |-> TRUE, store |-> L]
    BY <2>6 DEF L
  <2>13. CanRequest(p, t, id) = [ok |-> TRUE, next |-> P]
    BY <2>7, <2>8 DEF P
  <2> QED
    BY <2>11, <2>12, <2>13
<1>4. CASE l.mode = "half-open"
  BY <1>4 DEF LuaCanRequest, LuaTurned, LuaReclaimed, HasSlot, CanRequest, TryProbe, Recent, Pruned
<1> QED
  BY <1>1, <1>2, <1>3, <1>4

LEMMA TwinSuccess ==
  ASSUME NEW l \in Stores, NEW p \in Machines, NEW t \in Int, Twin(l, p, t)
  PROVE  Twin(LuaRecordSuccess(l, t), PureRecordSuccess(p, t), t)
<1> USE MirrorFacts DEF Twin, Stores, Machines, Mode
<1>1. CASE l.mode = "closed"
  BY <1>1 DEF LuaRecordSuccess, PureRecordSuccess, Recent, Entries
<1>2. CASE l.mode = "open"
  BY <1>2 DEF LuaRecordSuccess, PureRecordSuccess
<1>3. CASE l.mode = "half-open" /\ l.succ + 1 >= SuccessThreshold
  BY <1>3 DEF LuaRecordSuccess, PureRecordSuccess, Closes, ClosedStore, NewState
<1>4. CASE l.mode = "half-open" /\ ~(l.succ + 1 >= SuccessThreshold)
  <2> DEFINE rest == WithoutNewest(Recent(l.probes, t, ProbeTimeout))
  <2>1. LuaRecordSuccess(l, t) = [l EXCEPT !.probes = rest, !.succ = l.succ + 1]
    BY <1>4 DEF LuaRecordSuccess, Closes, LuaReclaimed
  <2>2. rest = ReleaseNewest(Pruned(p.probes, t, ProbeTimeout))
    BY DEF WithoutNewest, Newest, ReleaseNewest, Recent, Pruned
  <2>3. PureRecordSuccess(p, t) = [p EXCEPT !.probes = rest, !.successes = p.successes + 1]
    BY <1>4, <2>2 DEF PureRecordSuccess
  <2>4. LuaRecordSuccess(l, t) = [mode |-> "half-open", openedAt |-> l.openedAt, succ |-> l.succ + 1,
                                  fails |-> l.fails, probes |-> rest]
    BY <1>4, <2>1
  <2>5. PureRecordSuccess(p, t) = [state |-> "half-open", openedAt |-> p.openedAt,
                               successes |-> p.successes + 1, failures |-> p.failures, probes |-> rest]
    BY <1>4, <2>3
  <2> HIDE DEF rest
  <2> QED
    BY <1>4, <2>4, <2>5
<1> QED
  BY <1>1, <1>2, <1>3, <1>4

LEMMA TwinFailure ==
  ASSUME NEW l \in Stores, NEW p \in Machines, NEW t \in Int, NEW id \in Id, Twin(l, p, t)
  PROVE  Twin(LuaRecordFailure(l, t, id), PureRecordFailure(p, t, id), t)
<1> USE MirrorFacts DEF Twin, Stores, Machines, Mode
<1>1. CASE l.mode = "open"
  BY <1>1 DEF LuaRecordFailure, PureRecordFailure
<1>2. CASE l.mode = "half-open"
  BY <1>2 DEF LuaRecordFailure, PureRecordFailure, LuaOpen, ToOpen
<1>3. CASE l.mode = "closed"
  <2> DEFINE F == Recent(l.fails \cup {[at |-> t, id |-> id]}, t, Window)
             G == Pruned(p.failures \cup {[at |-> t, id |-> id]}, t, Window)
  <2>1. F = G
    BY <1>3 DEF Recent, Pruned, Entries
  <2>2. Cardinality(F) = Cardinality(G)
    BY <2>1
  <2>3. Trips(F) <=> Cardinality(G) >= FailureThreshold
    BY <2>2 DEF Trips
  <2> HIDE DEF F
  <2>4. CASE Trips(F)
    <3>1. LuaRecordFailure(l, t, id) = LuaOpen(l, t)
      BY <1>3, <2>4 DEF LuaRecordFailure, F
    <3>2. PureRecordFailure(p, t, id) = ToOpen(t)
      BY <1>3, <2>3, <2>4 DEF PureRecordFailure
    <3> QED
      BY <3>1, <3>2 DEF LuaOpen, ToOpen
  <2>5. CASE ~Trips(F)
    <3>1. LuaRecordFailure(l, t, id) = [l EXCEPT !.fails = F]
      BY <1>3, <2>5 DEF LuaRecordFailure, F
    <3>2. PureRecordFailure(p, t, id) = [p EXCEPT !.failures = G]
      BY <1>3, <2>3, <2>5 DEF PureRecordFailure
    <3> QED
      BY <3>1, <3>2, <2>1, <1>3
  <2> QED
    BY <2>4, <2>5
<1> QED
  BY <1>1, <1>2, <1>3

--------------------------------------------------------------------------------
(* Types, and what each script does to the mode and the probes. *)

LEMMA RequestFacts ==
  ASSUME NEW l \in Stores, NEW t \in Int, NEW id \in Id
  PROVE  LET L == LuaCanRequest(l, t, id) IN
         /\ L.store \in Stores /\ L.ok \in BOOLEAN
         /\ L.store.mode = "open" => L.store = l /\ ~(t - l.openedAt >= OpenDuration)
         /\ L.store.mode = "closed" => L.store.probes = l.probes
         /\ L.store.mode = "half-open" /\ L.ok =>
              L.store.probes \subseteq l.probes \cup {[at |-> t, id |-> id]}
         /\ L.store.mode = "half-open" /\ ~L.ok =>
              /\ L.store.probes \subseteq l.probes /\ L.store.probes # {}
              /\ \A m \in L.store.probes : m.at > t - ProbeTimeout
<1> DEFINE turned == LuaTurned(l, t)
           swept == LuaReclaimed(turned, t)
           one == [at |-> t, id |-> id]
<1>1. one \in Entries
  BY DEF Entries
<1>2. /\ turned \in Stores /\ turned.mode \in Mode /\ turned.probes \subseteq l.probes
      /\ turned.mode = "open" => l.mode = "open" /\ ~(t - l.openedAt >= OpenDuration)
      /\ turned.mode = "closed" => l.mode = "closed"
  BY MirrorFacts DEF LuaTurned, Stores, Mode
<1> HIDE DEF turned
<1>3. /\ swept \in Stores /\ swept.mode = turned.mode /\ swept.probes \subseteq turned.probes
      /\ \A m \in swept.probes : m.at > t - ProbeTimeout
  BY <1>2 DEF LuaReclaimed, Recent, Stores
<1> HIDE DEF swept
<1>4. ~HasSlot(swept) => swept.probes # {}
  BY EmptyHasNoMembers, MirrorFacts DEF HasSlot
<1>5. CASE turned.mode = "open"
  <2>1. LuaCanRequest(l, t, id) = [ok |-> FALSE, store |-> l]
    BY <1>5 DEF LuaCanRequest, turned
  <2> QED
    BY <1>2, <1>5, <2>1
<1>6. CASE turned.mode = "half-open" /\ HasSlot(swept)
  <2> DEFINE S == [swept EXCEPT !.probes = @ \cup {one}]
  <2>1. LuaCanRequest(l, t, id) = [ok |-> TRUE, store |-> S]
    BY <1>6 DEF LuaCanRequest, turned, swept
  <2>2. S \in Stores /\ S.mode = "half-open" /\ S.probes = swept.probes \cup {one}
    BY <1>1, <1>3, <1>6 DEF Stores
  <2> HIDE DEF S
  <2> QED
    BY <1>2, <1>3, <2>1, <2>2
<1>7. CASE turned.mode = "half-open" /\ ~HasSlot(swept)
  <2>1. LuaCanRequest(l, t, id) = [ok |-> FALSE, store |-> swept]
    BY <1>7 DEF LuaCanRequest, turned, swept
  <2> QED
    BY <1>2, <1>3, <1>4, <1>7, <2>1
<1>8. CASE turned.mode = "closed"
  <2> DEFINE S == [l EXCEPT !.fails = Recent(l.fails, t, Window)]
  <2>1. LuaCanRequest(l, t, id) = [ok |-> TRUE, store |-> S]
    BY <1>8 DEF LuaCanRequest, turned
  <2>2. S \in Stores /\ S.mode = "closed" /\ S.probes = l.probes
    BY <1>2, <1>8 DEF Stores, Recent
  <2> HIDE DEF S
  <2> QED
    BY <2>1, <2>2
<1> QED
  BY <1>2, <1>5, <1>6, <1>7, <1>8 DEF Mode

LEMMA PureSuccessFacts ==
  ASSUME NEW l \in Stores, NEW t \in Int
  PROVE  LET L == LuaRecordSuccess(l, t) IN
         /\ L \in Stores /\ L.probes \subseteq l.probes
         /\ L.mode = "open" => L = l
<1> USE MirrorFacts
<1>1. CASE l.mode = "closed"
  BY <1>1 DEF LuaRecordSuccess, Recent, Stores
<1>2. CASE l.mode = "open"
  BY <1>2 DEF LuaRecordSuccess
<1>3. CASE l.mode = "half-open" /\ Closes(l.succ + 1)
  <2>1. LuaRecordSuccess(l, t) = ClosedStore
    BY <1>3 DEF LuaRecordSuccess
  <2> QED
    BY <2>1 DEF ClosedStore, Stores, Mode
<1>4. CASE l.mode = "half-open" /\ ~Closes(l.succ + 1)
  <2> DEFINE rest == WithoutNewest(Recent(l.probes, t, ProbeTimeout))
             S == [l EXCEPT !.probes = rest, !.succ = l.succ + 1]
  <2>1. LuaRecordSuccess(l, t) = S
    BY <1>4 DEF LuaRecordSuccess, LuaReclaimed
  <2>2. rest \subseteq l.probes
    BY DEF WithoutNewest, Recent
  <2>3. l.succ + 1 \in 0..(SuccessThreshold - 1)
    BY <1>4 DEF Closes, Stores
  <2> HIDE DEF rest
  <2>4. S \in Stores /\ S.mode = "half-open" /\ S.probes = rest
    BY <1>4, <2>2, <2>3 DEF Stores
  <2> HIDE DEF S
  <2> QED
    BY <2>1, <2>2, <2>4
<1> QED
  BY <1>1, <1>2, <1>3, <1>4 DEF Stores, Mode

LEMMA PureFailureFacts ==
  ASSUME NEW l \in Stores, NEW t \in Int, NEW id \in Id
  PROVE  LET L == LuaRecordFailure(l, t, id) IN
         /\ L \in Stores /\ L.probes \subseteq l.probes
         /\ L.mode # "half-open"
         /\ L.mode = "open" => \/ l.mode = "open" /\ L = l
                               \/ l.mode # "open" /\ L.openedAt = t
<1> USE MirrorFacts
<1>1. CASE l.mode = "open"
  BY <1>1 DEF LuaRecordFailure
<1>2. LuaOpen(l, t) \in Stores /\ LuaOpen(l, t).probes = {} /\ LuaOpen(l, t).openedAt = t
      /\ LuaOpen(l, t).mode = "open"
  BY DEF LuaOpen, Stores, Mode
<1>3. CASE l.mode = "half-open"
  BY <1>2, <1>3 DEF LuaRecordFailure
<1>4. CASE l.mode = "closed"
  <2> DEFINE F == Recent(l.fails \cup {[at |-> t, id |-> id]}, t, Window)
  <2>1. F \in SUBSET Entries
    BY DEF Recent, Entries, Stores
  <2>2. \/ LuaRecordFailure(l, t, id) = LuaOpen(l, t)
        \/ LuaRecordFailure(l, t, id) = [l EXCEPT !.fails = F]
    BY <1>4 DEF LuaRecordFailure
  <2> HIDE DEF F
  <2>3. [l EXCEPT !.fails = F] \in Stores /\ [l EXCEPT !.fails = F].mode = "closed"
        /\ [l EXCEPT !.fails = F].probes = l.probes
    BY <1>4, <2>1 DEF Stores
  <2> QED
    BY <1>2, <1>4, <2>2, <2>3
<1> QED
  BY <1>1, <1>3, <1>4 DEF Stores, Mode

LEMMA PureSuccessTypes ==
  ASSUME NEW p \in Machines, NEW t \in Int
  PROVE  PureRecordSuccess(p, t) \in Machines
<1> USE MirrorFacts
<1>1. CASE p.state \in {"closed", "open"}
  BY <1>1 DEF PureRecordSuccess
<1>2. CASE p.state = "half-open" /\ p.successes + 1 >= SuccessThreshold
  BY <1>2 DEF PureRecordSuccess, NewState, Machines, Mode
<1>3. CASE p.state = "half-open" /\ ~(p.successes + 1 >= SuccessThreshold)
  <2> DEFINE rest == ReleaseNewest(Pruned(p.probes, t, ProbeTimeout))
  <2>1. rest \in SUBSET Entries
    BY DEF ReleaseNewest, Pruned, Machines
  <2>2. PureRecordSuccess(p, t) = [p EXCEPT !.probes = rest, !.successes = p.successes + 1]
    BY <1>3 DEF PureRecordSuccess
  <2>3. p.successes + 1 \in 0..(SuccessThreshold - 1)
    BY <1>3 DEF Machines
  <2> HIDE DEF rest
  <2>4. [p EXCEPT !.probes = rest, !.successes = p.successes + 1] \in Machines
    BY <2>1, <2>3 DEF Machines
  <2> QED
    BY <2>2, <2>4
<1> QED
  BY <1>1, <1>2, <1>3 DEF Machines, Mode

LEMMA PureTypes ==
  ASSUME NEW p \in Machines, NEW t \in Int, NEW id \in Id
  PROVE  /\ CanRequest(p, t, id).next \in Machines /\ CanRequest(p, t, id).ok \in BOOLEAN
         /\ PureRecordFailure(p, t, id) \in Machines
<1> USE MirrorFacts
<1>1. [at |-> t, id |-> id] \in Entries
  BY DEF Entries
<1>2. ASSUME NEW q \in Machines
      PROVE  TryProbe(q, t, id).next \in Machines /\ TryProbe(q, t, id).ok \in BOOLEAN
  BY <1>1 DEF TryProbe, Pruned, Machines
<1>3. CanRequest(p, t, id).next \in Machines /\ CanRequest(p, t, id).ok \in BOOLEAN
  <2>1. ToHalfOpen(p) \in Machines
    BY DEF ToHalfOpen, Machines, Mode
  <2>2. p.state \in Mode
    BY DEF Machines
  <2> QED
    BY <1>2, <2>1, <2>2 DEF CanRequest, Mode
<1>4. PureRecordFailure(p, t, id) \in Machines
  <2> DEFINE F == Pruned(p.failures \cup {[at |-> t, id |-> id]}, t, Window)
  <2>1. F \in SUBSET Entries
    BY <1>1 DEF Pruned, Machines
  <2>2. ToOpen(t) \in Machines
    BY DEF ToOpen, Machines, Mode
  <2>3. PureRecordFailure(p, t, id) \in {p, ToOpen(t), [p EXCEPT !.failures = F]}
    BY DEF PureRecordFailure, Machines, Mode
  <2> HIDE DEF F
  <2>4. [p EXCEPT !.failures = F] \in Machines
    BY <2>1 DEF Machines
  <2> QED
    BY <2>2, <2>3, <2>4
<1> QED
  BY <1>3, <1>4

LEMMA FreshTypes == ClosedStore \in Stores /\ NewState \in Machines
BY MirrorFacts DEF ClosedStore, NewState, Stores, Machines, Mode

LEMMA TypeInit == MirrorInit => MirrorTypeOK
BY MirrorFacts DEF MirrorInit, MirrorTypeOK, ClosedStore, NewState, Stores, Machines, Mode

LEMMA TypeStep ==
  ASSUME MirrorTypeOK, [MirrorNext]_mirrorVars
  PROVE  MirrorTypeOK'
<1>1. Times \subseteq Int
  BY DEF Times
<1>t. clock \in Nat /\ touched \in Nat /\ asked \in Nat /\ lua \in Stores /\ pure \in Machines
      /\ verdicts \in {<<TRUE, TRUE>>, <<TRUE, FALSE>>, <<FALSE, TRUE>>, <<FALSE, FALSE>>}
  BY DEF MirrorTypeOK
<1>2. ASSUME NEW now \in Int, NEW id \in Id, Request(now, id) PROVE MirrorTypeOK'
  <2>1. LuaCanRequest(lua, now, id).store \in Stores /\ LuaCanRequest(lua, now, id).ok \in BOOLEAN
    BY <1>t, RequestFacts
  <2>2. CanRequest(pure, now, id).next \in Machines /\ CanRequest(pure, now, id).ok \in BOOLEAN
    BY <1>t, PureTypes
  <2>3. /\ lua' \in Stores /\ pure' \in Machines
        /\ asked' \in Nat /\ touched' \in Nat /\ clock' \in Nat
    BY <1>2, <1>t, <2>1, <2>2 DEF Request
  <2>4. verdicts' = <<LuaCanRequest(lua, now, id).ok, CanRequest(pure, now, id).ok>>
    BY <1>2 DEF Request
  <2>5. verdicts' \in {<<TRUE, TRUE>>, <<TRUE, FALSE>>, <<FALSE, TRUE>>, <<FALSE, FALSE>>}
    BY <2>1, <2>2, <2>4
  <2> QED
    BY <2>3, <2>5 DEF MirrorTypeOK
<1>3. ASSUME NEW now \in Int, Success(now) PROVE MirrorTypeOK'
  <2>1. LuaRecordSuccess(lua, now) \in Stores
    BY <1>t, PureSuccessFacts
  <2>2. PureRecordSuccess(pure, now) \in Machines
    BY <1>t, PureSuccessTypes
  <2> QED
    BY <1>3, <1>t, <2>1, <2>2 DEF Success, MirrorTypeOK
<1>4. ASSUME NEW now \in Int, NEW id \in Id, Failure(now, id) PROVE MirrorTypeOK'
  <2>1. LuaRecordFailure(lua, now, id) \in Stores
    BY <1>t, PureFailureFacts
  <2>2. PureRecordFailure(pure, now, id) \in Machines
    BY <1>t, PureTypes
  <2> QED
    BY <1>4, <1>t, <2>1, <2>2 DEF Failure, MirrorTypeOK
<1>5. ASSUME MirrorReset PROVE MirrorTypeOK'
  BY <1>5, <1>t, FreshTypes DEF MirrorReset, MirrorTypeOK
<1>6. ASSUME MirrorTick PROVE MirrorTypeOK'
  <2>1. [mode |-> "closed", openedAt |-> 0, succ |-> 0, fails |-> lua.fails, probes |-> lua.probes] \in Stores
    BY <1>t, MirrorFacts DEF Stores, Mode
  <2>2. lua' \in Stores
    BY <1>6, <1>t, <2>1 DEF MirrorTick
  <2>3. clock' \in Nat
    BY <1>6, <1>t DEF MirrorTick
  <2> QED
    BY <1>6, <1>t, <2>2, <2>3 DEF MirrorTick, MirrorTypeOK
<1>7. CASE UNCHANGED mirrorVars
  BY <1>7 DEF mirrorVars, MirrorTypeOK
<1> QED
  BY <1>1, <1>2, <1>3, <1>4, <1>5, <1>6, <1>7 DEF MirrorNext

--------------------------------------------------------------------------------
(* The coupling is kept. *)

LEMMA TwinStep ==
  ASSUME OneClock, NeverIdle, MirrorTypeOK, Coupled, [MirrorNext]_mirrorVars
  PROVE  Twin(lua', pure', clock')
<1>t. clock \in Nat /\ touched \in Nat /\ asked \in Nat /\ lua \in Stores /\ pure \in Machines
  BY DEF MirrorTypeOK
<1>c. Twin(lua, pure, clock)
  BY DEF Coupled
<1>1. ASSUME NEW now \in Times PROVE now = clock
  BY <1>1, <1>t DEF Times, OneClock
<1>2. ASSUME NEW id \in Id, Request(clock, id) PROVE Twin(lua', pure', clock')
  BY <1>2, <1>t, <1>c, TwinRequest DEF Request
<1>3. ASSUME Success(clock) PROVE Twin(lua', pure', clock')
  BY <1>3, <1>t, <1>c, TwinSuccess DEF Success
<1>4. ASSUME NEW id \in Id, Failure(clock, id) PROVE Twin(lua', pure', clock')
  BY <1>4, <1>t, <1>c, TwinFailure DEF Failure
<1>5. ASSUME MirrorReset PROVE Twin(lua', pure', clock')
  BY <1>5 DEF MirrorReset, Twin, ClosedStore, NewState
<1>6. ASSUME MirrorTick PROVE Twin(lua', pure', clock')
  <2>1. lua.mode # "closed" => clock + 1 < touched + IdleTtl
    <3>1. clock + 1 <= asked + MaxPause
      BY <1>6 DEF MirrorTick
    <3>2. lua.mode # "closed" => asked < touched + OpenDuration \/ asked < touched + ProbeTimeout
      BY <1>t DEF Coupled, Alive, Stores, Mode
    <3> QED
      BY <3>1, <3>2, <1>t, LongestFacts, MirrorFacts DEF NeverIdle
  <2>2. lua' = lua /\ pure' = pure /\ clock' = clock + 1
    <3>1. clock + 1 >= touched + IdleTtl => ~(clock + 1 < touched + IdleTtl)
      BY <1>t, LongestFacts, MirrorFacts
    <3> QED
      BY <1>6, <2>1, <3>1 DEF MirrorTick
  <2>3. \A m \in pure.failures : m.at > (clock + 1) - Window => m.at > clock - Window
    BY <1>t, MirrorFacts DEF Machines, Entries
  <2>4. Twin(lua, pure, clock + 1)
    <3>1. \A m \in pure.failures : m.at > clock - Window => m \in lua.fails
      BY <1>c DEF Twin
    <3>2. \A m \in pure.failures : m.at > (clock + 1) - Window => m \in lua.fails
      BY <2>3, <3>1
    <3> QED
      BY <1>c, <3>2 DEF Twin
  <2> QED
    BY <2>2, <2>4
<1>7. CASE UNCHANGED mirrorVars
  BY <1>7, <1>c DEF mirrorVars
<1> QED
  BY <1>1, <1>2, <1>3, <1>4, <1>5, <1>6, <1>7 DEF MirrorNext

LEMMA AliveStep ==
  ASSUME OneClock, NeverIdle, MirrorTypeOK, Coupled, [MirrorNext]_mirrorVars
  PROVE  Alive'
<1>t. clock \in Nat /\ touched \in Nat /\ asked \in Nat /\ lua \in Stores /\ pure \in Machines
  BY DEF MirrorTypeOK
<1>c. Alive
  BY DEF Coupled
<1>m. /\ lua.openedAt \in Int /\ \A m \in lua.probes : m.at \in Int
      /\ OpenDuration \in Nat /\ OpenDuration > 0 /\ ProbeTimeout \in Nat /\ ProbeTimeout > 0
  BY <1>t, MirrorFacts DEF Stores, Entries
<1>1. ASSUME NEW now \in Times PROVE now = clock
  BY <1>1, <1>t DEF Times, OneClock
<1>2. ASSUME NEW id \in Id, Request(clock, id) PROVE Alive'
  <2> DEFINE L == LuaCanRequest(lua, clock, id)
  <2>1. /\ lua' = L.store /\ asked' = clock /\ clock' = clock
        /\ touched' = IF L.store.mode = "half-open" /\ L.ok THEN clock ELSE touched
    BY <1>2 DEF Request
  <2>2. /\ L.store \in Stores /\ L.ok \in BOOLEAN
        /\ L.store.mode = "open" => L.store = lua /\ ~(clock - lua.openedAt >= OpenDuration)
        /\ L.store.mode = "closed" => L.store.probes = lua.probes
        /\ L.store.mode = "half-open" /\ L.ok =>
             L.store.probes \subseteq lua.probes \cup {[at |-> clock, id |-> id]}
        /\ L.store.mode = "half-open" /\ ~L.ok =>
             /\ L.store.probes \subseteq lua.probes /\ L.store.probes # {}
             /\ \A m \in L.store.probes : m.at > clock - ProbeTimeout
    BY <1>t, RequestFacts
  <2> HIDE DEF L
  <2>3. CASE L.store.mode = "open"
    <3>1. lua' = lua /\ touched' = touched
      BY <2>1, <2>2, <2>3
    <3>2. touched = lua.openedAt
      BY <1>c, <2>2, <2>3 DEF Alive
    <3>3. asked' < touched' + OpenDuration
      BY <1>t, <1>m, <2>1, <2>2, <2>3, <3>1, <3>2
    <3> QED
      BY <1>c, <2>1, <2>2, <2>3, <3>1, <3>2, <3>3, <1>t DEF Alive
  <2>4. CASE L.store.mode = "closed"
    BY <1>c, <1>t, <2>1, <2>2, <2>4 DEF Alive
  <2>5. CASE L.store.mode = "half-open" /\ L.ok
    <3>1. touched' = clock
      BY <2>1, <2>5
    <3>2. \A m \in lua'.probes : m.at <= clock
      BY <1>c, <1>t, <1>m, <2>1, <2>2, <2>5 DEF Alive
    <3> QED
      BY <1>t, <1>m, <2>1, <2>5, <3>1, <3>2 DEF Alive
  <2>6. CASE L.store.mode = "half-open" /\ ~L.ok
    <3>1. touched' = touched
      BY <2>1, <2>6
    <3>2. PICK m \in L.store.probes : TRUE
      BY <2>2, <2>6
    <3>3. m \in lua.probes /\ m.at > clock - ProbeTimeout /\ m.at <= touched
      BY <1>c, <2>2, <2>6 DEF Alive
    <3>4. clock < touched + ProbeTimeout
      BY <1>t, <1>m, <3>3
    <3> QED
      BY <1>c, <1>t, <2>1, <2>2, <2>6, <3>1, <3>4 DEF Alive
  <2> QED
    BY <2>2, <2>3, <2>4, <2>5, <2>6 DEF Stores, Mode
<1>3. ASSUME Success(clock) PROVE Alive'
  <2>1. /\ lua' \in Stores /\ lua'.probes \subseteq lua.probes
        /\ lua'.mode = "open" => lua' = lua
        /\ clock' = clock /\ asked' = asked
        /\ touched' = IF lua'.mode = "half-open" THEN clock ELSE touched
    BY <1>3, <1>t, PureSuccessFacts DEF Success
  <2>2. \A m \in lua'.probes : m.at <= touched'
    BY <1>c, <1>t, <1>m, <2>1 DEF Alive
  <2>3. CASE lua'.mode = "half-open"
    BY <1>c, <1>t, <1>m, <2>1, <2>2, <2>3 DEF Alive
  <2>4. CASE lua'.mode # "half-open"
    BY <1>c, <1>t, <1>m, <2>1, <2>2, <2>4 DEF Alive
  <2> QED
    BY <2>3, <2>4
<1>4. ASSUME NEW id \in Id, Failure(clock, id) PROVE Alive'
  <2>1. /\ lua' = LuaRecordFailure(lua, clock, id) /\ clock' = clock /\ asked' = asked
        /\ touched' = IF lua.mode # "open" /\ lua'.mode = "open" THEN clock ELSE touched
    BY <1>4 DEF Failure
  <2>2. /\ lua' \in Stores /\ lua'.probes \subseteq lua.probes /\ lua'.mode # "half-open"
        /\ lua'.mode = "open" => \/ lua.mode = "open" /\ lua' = lua
                                 \/ lua.mode # "open" /\ lua'.openedAt = clock
    BY <1>t, <2>1, PureFailureFacts
  <2>3. \A m \in lua'.probes : m.at <= touched'
    BY <1>c, <1>t, <1>m, <2>1, <2>2 DEF Alive
  <2>4. CASE lua.mode # "open" /\ lua'.mode = "open"
    <3>1. touched' = clock /\ lua'.openedAt = clock
      BY <2>1, <2>2, <2>4
    <3>2. asked' < touched' + OpenDuration
      BY <1>c, <1>t, <1>m, <2>1, <3>1 DEF Alive
    <3> QED
      BY <1>c, <1>t, <3>1, <3>2, <2>4, <2>1, <2>2, <2>3 DEF Alive
  <2>5. CASE ~(lua.mode # "open" /\ lua'.mode = "open")
    BY <1>c, <1>t, <2>1, <2>2, <2>3, <2>5 DEF Alive
  <2> QED
    BY <2>4, <2>5
<1>5. ASSUME MirrorReset PROVE Alive'
  BY <1>5, <1>c DEF MirrorReset, Alive, ClosedStore
<1>6. ASSUME MirrorTick PROVE Alive'
  <2>2. lua'.probes = lua.probes /\ (lua'.mode # "closed" => lua' = lua)
    BY <1>6, <1>t DEF MirrorTick
  <2>3. asked' = asked /\ touched' = touched /\ clock' = clock + 1
    BY <1>6 DEF MirrorTick
  <2> QED
    BY <1>c, <1>t, <2>2, <2>3 DEF Alive
<1>7. CASE UNCHANGED mirrorVars
  BY <1>7, <1>c DEF mirrorVars, Alive
<1> QED
  BY <1>1, <1>2, <1>3, <1>4, <1>5, <1>6, <1>7 DEF MirrorNext

LEMMA CoupledInit == MirrorInit => Coupled
<1> SUFFICES ASSUME MirrorInit PROVE Coupled
  OBVIOUS
<1>1. Twin(lua, pure, clock)
  BY DEF MirrorInit, Twin, ClosedStore, NewState
<1>2. Alive
  BY DEF MirrorInit, Alive, ClosedStore
<1> QED
  BY <1>1, <1>2 DEF Coupled

\* What the coupling says of a snapshot at any later time.
LEMMA TwinSnapshot ==
  ASSUME NEW l \in Stores, NEW p \in Machines, NEW t \in Int, NEW u \in Int, u >= t, Twin(l, p, t)
  PROVE  LuaSnapshot(l, u) = Snapshot(p, u)
<1>1. Pruned(p.probes, u, ProbeTimeout) = Recent(l.probes, u, ProbeTimeout)
  BY DEF Twin, Pruned, Recent
<1>2. Pruned(p.failures, u, Window) = Recent(l.fails, u, Window)
  BY MirrorFacts DEF Twin, Pruned, Recent, Machines, Entries
<1>3. l.mode # "half-open" => Cardinality(Pruned(p.probes, u, ProbeTimeout)) = 0 /\ p.successes = 0
  BY EmptyHasNoMembers DEF Twin, Pruned
<1>4. l.mode # "closed" => Cardinality(Pruned(p.failures, u, Window)) = 0
  BY EmptyHasNoMembers DEF Twin, Pruned
<1>5. CASE l.mode = "closed"
  BY <1>1, <1>2, <1>3, <1>5 DEF LuaSnapshot, Snapshot, Twin
<1>6. CASE l.mode = "open"
  BY <1>3, <1>4, <1>6 DEF LuaSnapshot, Snapshot, Twin
<1>7. CASE l.mode = "half-open"
  BY <1>1, <1>4, <1>7 DEF LuaSnapshot, Snapshot, Twin
<1> QED
  BY <1>5, <1>6, <1>7 DEF Stores, Mode

THEOREM MirrorTypeCorrect == MirrorSpec => []MirrorTypeOK
<1> QED
  BY TypeInit, TypeStep, PTL DEF MirrorSpec

\* The store and the state machine report the same, at any time, to the same calls.
THEOREM SnapshotsAgree == ASSUME OneClock, NeverIdle PROVE MirrorSpec => []SameSnapshot
<1>1. MirrorInit => MirrorTypeOK /\ Coupled
  BY TypeInit, CoupledInit
<1>2. MirrorTypeOK /\ Coupled /\ [MirrorNext]_mirrorVars => (MirrorTypeOK /\ Coupled)'
  BY TypeStep, TwinStep, AliveStep DEF Coupled
<1>3. MirrorTypeOK /\ Coupled => SameSnapshot
  BY TwinSnapshot, LongestFacts DEF MirrorTypeOK, Coupled, SameSnapshot
<1> QED
  BY <1>1, <1>2, <1>3, PTL DEF MirrorSpec

\* They admit and refuse the same requests.
THEOREM DecisionsAgree == ASSUME OneClock, NeverIdle PROVE MirrorSpec => []SameDecision
<1> DEFINE I == MirrorTypeOK /\ Coupled /\ SameDecision
<1>1. MirrorInit => I
  BY TypeInit, CoupledInit DEF MirrorInit, SameDecision
<1>2. I /\ [MirrorNext]_mirrorVars => I'
  <2> SUFFICES ASSUME MirrorTypeOK, Coupled, SameDecision, [MirrorNext]_mirrorVars PROVE SameDecision'
    BY TypeStep, TwinStep, AliveStep DEF Coupled
  <2>t. clock \in Nat /\ lua \in Stores /\ pure \in Machines /\ Twin(lua, pure, clock)
    BY DEF MirrorTypeOK, Coupled
  <2>1. ASSUME NEW now \in Times, NEW id \in Id, Request(now, id) PROVE SameDecision'
    <3>1. now = clock
      BY <2>t DEF Times, OneClock
    <3>2. LuaCanRequest(lua, clock, id).ok = CanRequest(pure, clock, id).ok
      BY <2>t, TwinRequest
    <3>3. verdicts' = <<LuaCanRequest(lua, clock, id).ok, CanRequest(pure, clock, id).ok>>
      BY <2>1, <3>1 DEF Request
    <3> QED
      BY <3>2, <3>3 DEF SameDecision
  <2>2. CASE UNCHANGED verdicts
    BY <2>2 DEF SameDecision
  <2> QED
    BY <2>1, <2>2 DEF MirrorNext, Success, Failure, MirrorReset, MirrorTick, mirrorVars
<1>3. I => SameDecision
  OBVIOUS
<1> HIDE DEF I
<1> QED
  BY <1>1, <1>2, <1>3, PTL DEF MirrorSpec
================================================================================
