------------------------- MODULE DistributedLock_proofs -------------------------
(* Machine-checked proofs about DistributedLock for every set of processes and *)
(* handles, every TTL and every delay.                                         *)
EXTENDS DistributedLock, TLAPS

--------------------------------------------------------------------------------
(* The inductive invariant. *)

\* A token that may still be granted has never owned the key, and the owner has
\* not lost it: no token is granted twice.
GrantedOnce ==
  \A h \in Handle :
    /\ owner = h => h \notin lost
    /\ \/ call[h]["acquire"].st \in {"sent", "orphan", "no"}
       \/ pc[h] \in {"idle", "backoff"}
       => h \notin lost /\ owner # h

\* Which commands can be in flight where the handle stands.
Phases ==
  \A h \in Handle :
    /\ pc[h] \in {"idle", "backoff", "held"} => call[h]["acquire"].st = "idle"
    /\ call[h]["acquire"].st \in {"sent", "yes", "no"} => pc[h] = "acquiring"
    /\ \A op \in Op \ {"acquire"} :
          call[h][op].st # "idle" => pc[h] \in {"held", "dead"}
    /\ renewing[h] => pc[h] = "held"
    /\ \A s \in Service : h \in active[s] => pc[h] = "held" /\ Home[h] = s

\* A confirmed release has cost the handle the key.
ReleasedIsLost ==
  \A h \in Handle :
    \/ released[h]
    \/ call[h]["release"].st = "yes"
    \/ call[h]["destroy"].st = "yes"
    => h \in lost

\* The key never stays without an expiry.
KeyExpires == owner = NoOwner <=> ttlLeft = 0

\* Every SET and PEXPIRE under way carries a TTL a caller may ask for.
TtlSent ==
  \A h \in Handle, op \in Timed :
    call[h][op].st \in {"sent", "orphan", "yes"} => call[h][op].ttl \in Ttls

SafeInv == TypeOK /\ GrantedOnce /\ Phases /\ ReleasedIsLost /\ KeyExpires /\ TtlSent

--------------------------------------------------------------------------------
(* Type correctness. *)

LEMMA ConstantFacts ==
  /\ Ttl \in Nat /\ Ttl > 0
  /\ Ttls \subseteq Nat \ {0}
  /\ NoOwner \notin Handle
  /\ \A h \in Handle : Home[h] \in Service
  /\ RenewEvery \in Nat \ {0} /\ Lag \in Nat /\ Multiplier \in Nat
  /\ InitialDelay \in Nat /\ MaxDelay \in Nat /\ MaxFaults \in Nat /\ WaitTimeout \in Nat
BY LockAssumption DEF LockAssumption, Ttls

\* The values the actions store in a call cell or a retry record are of their type.
LEMMA CellFacts ==
  /\ Idle \in Cell /\ SetNxPx \in Cell
  /\ \A d \in Ttls \cup {0} : Sent(d) \in Cell
  /\ NoLoop \in Loop
  /\ \A c \in Cell : \A st \in Status : [c EXCEPT !.st = st] \in Cell
  /\ \A c \in Cell : [c EXCEPT !.age = Least(@ + 1, Ttl)] \in Cell
BY LockAssumption DEF LockAssumption, Idle, SetNxPx, Sent, Cell, Status, NoLoop, Loop, Delays,
   MaxSleep, Ttls, Least

LEMMA CallUpdate ==
  ASSUME NEW f \in [Handle -> [Op -> Cell]], NEW h \in Handle, NEW op \in Op, NEW c \in Cell
  PROVE  [f EXCEPT ![h][op] = c] \in [Handle -> [Op -> Cell]]
OBVIOUS

LEMMA AnsweredType ==
  ASSUME TypeOK, NEW h \in Handle, NEW op \in Op, NEW ok \in BOOLEAN, Answered(h, op, ok)
  PROVE  call' \in [Handle -> [Op -> Cell]]
<1> DEFINE c == IF call[h][op].st = "orphan" THEN Idle
                ELSE [call[h][op] EXCEPT !.st = IF ok THEN "yes" ELSE "no"]
<1>1. c \in Cell
  <2>1. call[h][op] \in Cell
    BY DEF TypeOK
  <2>2. "yes" \in Status /\ "no" \in Status
    BY DEF Status
  <2> QED
    BY <2>1, <2>2, CellFacts
<1>2. call' = [call EXCEPT ![h][op] = c]
  BY DEF Answered
<1> QED
  BY <1>1, <1>2, CallUpdate DEF TypeOK

\* Every variable keeps its type: in particular no countdown, retry counter or
\* fault counter leaves its bounds.
LEMMA TypeInit == Init => TypeOK
BY LockAssumption, CellFacts DEF LockAssumption, Init, TypeOK

LEMMA TypeStep == TypeOK /\ KeyExpires /\ [Next]_vars => TypeOK'
<1> SUFFICES ASSUME TypeOK, KeyExpires, [Next]_vars PROVE TypeOK'
  OBVIOUS
<1>t. /\ call \in [Handle -> [Op -> Cell]] /\ retry \in [Handle -> Loop]
      /\ \A h \in Handle, op \in Op : call[h][op] \in Cell
      /\ \A h \in Handle : retry[h] \in Loop
  BY DEF TypeOK
<1>c. \A h \in Handle, op \in Op : call[h][op].ttl \in Nat /\ Ttl - call[h][op].age \in 0..Ttl
  <2>1. \A c \in Cell : c.ttl \in Ttls \cup {0} /\ c.age \in 0..Ttl
    BY DEF Cell
  <2>2. \A n \in 0..Ttl : Ttl - n \in 0..Ttl
    BY ConstantFacts
  <2>3. Ttls \cup {0} \subseteq Nat
    BY ConstantFacts
  <2> QED
    BY <1>t, <2>1, <2>2, <2>3
<1>e. \A h \in Handle, op \in Op, st \in Status : [call[h][op] EXCEPT !.st = st] \in Cell
  BY <1>t, CellFacts
<1>s. "orphan" \in Status
  BY DEF Status
<1> USE ConstantFacts, CellFacts
<1>o. "acquire" \in Op /\ "release" \in Op /\ "destroy" \in Op /\ "renew" \in Op /\ "extend" \in Op
  BY DEF Op
<1>1. ASSUME NEW h \in Handle, StartAcquire(h) PROVE TypeOK'
  <2>1. call' \in [Handle -> [Op -> Cell]]
    BY <1>1, <1>o, CallUpdate DEF StartAcquire, TypeOK
  <2>a. [retry[h] EXCEPT !.delay = InitialDelay] \in Loop
    BY <1>t DEF Loop, Delays
  <2>2. retry' \in [Handle -> Loop]
    BY <1>1, <1>t, <2>a DEF StartAcquire
  <2> QED
    BY <1>1, <2>1, <2>2 DEF StartAcquire, TypeOK, redisVars, entityVars, serviceVars, ghostVars
<1>3. ASSUME NEW h \in Handle, AcquireGranted(h) PROVE TypeOK'
  <2>1. call' \in [Handle -> [Op -> Cell]]
    BY <1>3, <1>o, CallUpdate DEF AcquireGranted, TypeOK
  <2>2. lease' \in [Handle -> 0..Ttl]
    BY <1>3, <1>o DEF AcquireGranted, TypeOK, Cell
  <2> QED
    BY <1>3, <2>1, <2>2 DEF AcquireGranted, RenewInterval, TypeOK, redisVars, entityVars, serviceVars, ghostVars
<1>2. ASSUME NEW h \in Handle, RetryAcquire(h) PROVE TypeOK'
  <2>1. call' \in [Handle -> [Op -> Cell]]
    BY <1>2, <1>o, CallUpdate DEF RetryAcquire, TypeOK
  <2>2. retry[h] \in Loop
    BY DEF TypeOK
  <2>3. retry[h].attempt + 1 \in Nat
    BY <2>2 DEF Loop
  <2>4. NextDelay(retry[h].delay) \in Delays
    BY <2>2 DEF Loop, Delays, NextDelay, Least
  <2>5. retry' \in [Handle -> Loop]
    BY <1>2, <2>3, <2>4 DEF RetryAcquire, TypeOK, Loop
  <2> QED
    BY <1>2, <2>1, <2>5 DEF RetryAcquire, TypeOK, redisVars, entityVars, serviceVars, ghostVars
<1>4. ASSUME NEW h \in Handle, AcquireRefused(h) PROVE TypeOK'
  <2>1. call' \in [Handle -> [Op -> Cell]]
    BY <1>4, <1>o, CallUpdate DEF AcquireRefused, TypeOK
  <2>2. retry[h] \in Loop
    BY DEF TypeOK
  <2>3. retry[h].delay \in 0..MaxSleep
    BY <2>2 DEF Loop, Delays, MaxSleep
  <2>4. [retry[h] EXCEPT !.wakeIn = retry[h].delay] \in Loop
    BY <2>2, <2>3 DEF Loop
  <2>5. retry' \in [Handle -> Loop]
    <3>1. CASE GivesUp(h)
      BY <1>4, <1>t, <3>1 DEF AcquireRefused
    <3>2. CASE ~GivesUp(h)
      BY <1>4, <1>t, <2>4, <3>2 DEF AcquireRefused
    <3> QED
      BY <3>1, <3>2
  <2> QED
    BY <1>4, <2>1, <2>5 DEF AcquireRefused, TypeOK, redisVars, entityVars, serviceVars, timerVars, ghostVars
<1>5. ASSUME NEW h \in Handle, Release(h) PROVE TypeOK'
  <2>1. call' \in [Handle -> [Op -> Cell]]
    BY <1>5, <1>o, CallUpdate DEF Release, TypeOK, Ttls
  <2>2. renewing' \in [Handle -> BOOLEAN] /\ renewIn' \in [Handle -> (-Lag)..RenewEvery]
    BY <1>5 DEF Release, Disarm, TypeOK
  <2> QED
    BY <1>5, <2>1, <2>2 DEF Release, TypeOK, redisVars, entityVars, serviceVars, timerVars, ghostVars
<1>6. ASSUME NEW h \in Handle, ReleaseAgain(h) PROVE TypeOK'
  <2> QED
    BY <1>6 DEF ReleaseAgain, TypeOK, redisVars, entityVars, serviceVars, timerVars, ghostVars
<1>7. ASSUME NEW h \in Handle, NEW op \in Op, ReleaseReply(h, op) PROVE TypeOK'
  <2>1. call' \in [Handle -> [Op -> Cell]]
    BY <1>7, <1>o, CallUpdate DEF ReleaseReply, TypeOK
  <2> QED
    BY <1>7, <2>1 DEF ReleaseReply, TypeOK, redisVars, entityVars, serviceVars, timerVars, ghostVars, ReleasedAfter
<1>8. ASSUME NEW h \in Handle, NEW d \in ExtendTtls, Extend(h, d) PROVE TypeOK'
  <2>1. call' \in [Handle -> [Op -> Cell]]
    BY <1>8, <1>o, CallUpdate DEF Extend, TypeOK, Ttls
  <2> QED
    BY <1>8, <2>1 DEF Extend, TypeOK, redisVars, entityVars, serviceVars, ghostVars
<1>9. ASSUME NEW h \in Handle, RenewTimer(h) PROVE TypeOK'
  <2>1. call' \in [Handle -> [Op -> Cell]]
    BY <1>9, <1>o, CallUpdate DEF RenewTimer, TypeOK, RenewalTtl, Ttls
  <2> QED
    BY <1>9, <2>1 DEF RenewTimer, TypeOK, redisVars, entityVars, serviceVars, timerVars, ghostVars, RenewInterval
<1>10. ASSUME NEW h \in Handle, NEW op \in Op, ExtendReply(h, op) PROVE TypeOK'
  <2>1. call' \in [Handle -> [Op -> Cell]]
    BY <1>10, <1>o, CallUpdate DEF ExtendReply, TypeOK
  <2>2. renewing' \in [Handle -> BOOLEAN] /\ renewIn' \in [Handle -> (-Lag)..RenewEvery]
    <3>1. CASE UNCHANGED timerVars
      BY <3>1 DEF timerVars, TypeOK
    <3>2. CASE Disarm(IF op = "renew" THEN {h} ELSE {})
      BY <3>2 DEF Disarm, TypeOK
    <3> QED
      BY <1>10, <3>1, <3>2 DEF ExtendReply
  <2>3. expiresIn' \in [Handle -> Nat] /\ lease' \in [Handle -> 0..Ttl]
    <3>1. CASE call[h][op].st = "yes"
      <4>1. /\ expiresIn' = [expiresIn EXCEPT ![h] = call[h][op].ttl]
            /\ lease' = [lease EXCEPT ![h] = Ttl - call[h][op].age]
        BY <1>10, <3>1 DEF ExtendReply
      <4>2. call[h][op].ttl \in Nat /\ Ttl - call[h][op].age \in 0..Ttl
        BY <1>c
      <4>3. expiresIn \in [Handle -> Nat] /\ lease \in [Handle -> 0..Ttl]
        BY DEF TypeOK
      <4> QED
        BY <4>1, <4>2, <4>3
    <3>2. CASE call[h][op].st = "no"
      BY <1>10, <3>2 DEF ExtendReply, TypeOK
    <3> QED
      BY <1>10, <3>1, <3>2 DEF ExtendReply
  <2> QED
    BY <1>10, <2>1, <2>2, <2>3 DEF ExtendReply, TypeOK, redisVars, entityVars, serviceVars, timerVars, ghostVars
<1>11. ASSUME NEW h \in Handle, StopAutoRenew(h) PROVE TypeOK'
  <2>1. renewing' \in [Handle -> BOOLEAN] /\ renewIn' \in [Handle -> (-Lag)..RenewEvery]
    BY <1>11 DEF StopAutoRenew, Disarm, TypeOK
  <2> QED
    BY <1>11, <2>1 DEF StopAutoRenew, TypeOK, redisVars, entityVars, serviceVars, timerVars, ghostVars
<1>12. ASSUME NEW s \in Service, Destroy(s) PROVE TypeOK'
  <2>1. call' \in [Handle -> [Op -> Cell]]
    BY <1>12, <1>o DEF Destroy, TypeOK, Ttls
  <2>2. renewing' \in [Handle -> BOOLEAN] /\ renewIn' \in [Handle -> (-Lag)..RenewEvery]
    BY <1>12 DEF Destroy, Disarm, TypeOK
  <2> QED
    BY <1>12, <2>1, <2>2 DEF Destroy, TypeOK, redisVars, entityVars, serviceVars, timerVars, ghostVars
<1>13. ASSUME NEW s \in Service, Destroyed(s) PROVE TypeOK'
  <2> QED
    BY <1>13 DEF Destroyed, TypeOK, redisVars, entityVars, serviceVars, timerVars, ghostVars
<1>14. ASSUME NEW s \in Service, Crash(s) PROVE TypeOK'
  <2>1. call' \in [Handle -> [Op -> Cell]]
    BY <1>14, <1>t, <1>e, <1>s DEF Crash
  <2>2. renewing' \in [Handle -> BOOLEAN] /\ renewIn' \in [Handle -> (-Lag)..RenewEvery]
    BY <1>14 DEF Crash, Disarm, TypeOK
  <2> QED
    BY <1>14, <2>1, <2>2 DEF Crash, TypeOK, redisVars, entityVars, serviceVars, timerVars, ghostVars, Faulty
<1>15. ASSUME ForceRelease PROVE TypeOK'
  <2> QED
    BY <1>15 DEF ForceRelease, TypeOK, redisVars, entityVars, serviceVars, timerVars, ghostVars, Faulty
<1>16. ASSUME NEW h \in Handle, ExecSet(h) PROVE TypeOK'
  <2>1. call' \in [Handle -> [Op -> Cell]]
    BY <1>16, <1>o, AnsweredType DEF ExecSet
  <2>2. ttlLeft' \in Nat
    BY <1>16, <1>o, <1>c DEF ExecSet, TypeOK, redisVars
  <2> QED
    BY <1>16, <2>1, <2>2 DEF ExecSet, TypeOK, redisVars, entityVars, serviceVars, timerVars, ghostVars
<1>17. ASSUME NEW h \in Handle, NEW op \in Op, ExecRelease(h, op) PROVE TypeOK'
  <2>1. call' \in [Handle -> [Op -> Cell]]
    BY <1>17, AnsweredType DEF ExecRelease, Owns
  <2> QED
    BY <1>17, <2>1 DEF ExecRelease, TypeOK, redisVars, entityVars, serviceVars, timerVars, ghostVars, Owns
<1>18. ASSUME NEW h \in Handle, NEW op \in Op, ExecExtend(h, op) PROVE TypeOK'
  <2>1. call' \in [Handle -> [Op -> Cell]]
    BY <1>18, AnsweredType DEF ExecExtend, Owns
  <2>2. ttlLeft' \in Nat
    BY <1>18, <1>c DEF ExecExtend, TypeOK
  <2> QED
    BY <1>18, <2>1, <2>2 DEF ExecExtend, TypeOK, redisVars, entityVars, serviceVars, timerVars, ghostVars
<1>19. ASSUME NEW h \in Handle, NEW op \in Op, Fail(h, op) PROVE TypeOK'
  <2>1. call' \in [Handle -> [Op -> Cell]]
    <3>2. CASE call' = [call EXCEPT ![h][op] = Idle]
      BY <1>t, <3>2, CallUpdate
    <3>3. CASE call' = [call EXCEPT ![h][op].st = "orphan"]
      <4>1. call' = [call EXCEPT ![h][op] = [call[h][op] EXCEPT !.st = "orphan"]]
        BY <1>t, <3>3
      <4> QED
        BY <1>t, <1>e, <1>s, <4>1, CallUpdate
    <3> QED
      BY <1>19, <3>2, <3>3 DEF Fail
  <2>2. renewing' \in [Handle -> BOOLEAN] /\ renewIn' \in [Handle -> (-Lag)..RenewEvery]
    BY <1>19 DEF Fail, Disarm, TypeOK
  <2> QED
    BY <1>19, <2>1, <2>2 DEF Fail, TypeOK, redisVars, entityVars, serviceVars, timerVars, ghostVars, Faulty, ReleasedAfter, AfterError
<1>20. ASSUME Tick PROVE TypeOK'
  <2>1. call' \in [Handle -> [Op -> Cell]]
    BY <1>20 DEF Tick, TypeOK
  <2>2. retry' \in [Handle -> Loop]
    <3>1. \A n \in 0..MaxSleep : Less1(n) \in 0..MaxSleep
      BY DEF Less1, MaxSleep
    <3>2. \A n \in 0..WaitTimeout : Least(n + 1, WaitTimeout) \in 0..WaitTimeout
      BY DEF Least
    <3>3. \A r \in Loop, b \in BOOLEAN :
            [r EXCEPT !.wakeIn = Less1(@),
                      !.waited = IF b THEN Least(@ + 1, WaitTimeout) ELSE @] \in Loop
      BY <3>1, <3>2 DEF Loop
    <3>4. \A h \in Handle : Waits(h) \in BOOLEAN
      BY DEF Waits
    <3> QED
      BY <1>20, <3>3, <3>4 DEF Tick, TypeOK
  <2>3. renewIn' \in [Handle -> (-Lag)..RenewEvery]
    <3>1. \A h \in Handle : renewIn[h] \in (-Lag)..RenewEvery
      BY DEF TypeOK
    <3>2. \A h \in Handle : renewIn[h] > -Lag => renewIn[h] - 1 \in (-Lag)..RenewEvery
      BY <3>1
    <3>3. renewIn' = [h \in Handle |->
             IF renewing[h] /\ renewIn[h] > -Lag THEN renewIn[h] - 1 ELSE renewIn[h]]
      BY <1>20 DEF Tick
    <3> QED
      BY <3>1, <3>2, <3>3
  <2>4. expiresIn' \in [Handle -> Nat] /\ lease' \in [Handle -> 0..Ttl] /\ ttlLeft' \in Nat
    <3>1. (\A n \in Nat : Less1(n) \in Nat) /\ (\A n \in 0..Ttl : Less1(n) \in 0..Ttl)
      BY DEF Less1
    <3> QED
      BY <1>20, <3>1 DEF Tick, TypeOK
  <2>5. lost' \in SUBSET Handle /\ owner' \in Handle \cup {NoOwner}
    <3>1. owner \in Handle \cup {NoOwner} /\ lost \in SUBSET Handle /\ ttlLeft \in Nat
      BY DEF TypeOK
    <3>2. ttlLeft = 1 => owner \in Handle
      BY <3>1 DEF KeyExpires
    <3> QED
      BY <1>20, <3>1, <3>2 DEF Tick
  <2> QED
    BY <1>20, <2>1, <2>2, <2>3, <2>4, <2>5 DEF Tick, TypeOK, redisVars, entityVars, serviceVars, timerVars, ghostVars
<1>21. CASE UNCHANGED vars
  BY <1>21 DEF vars, TypeOK, redisVars, entityVars, serviceVars, ghostVars
<1> QED
  BY <1>1, <1>2, <1>3, <1>4, <1>5, <1>6, <1>7, <1>8, <1>9, <1>10, <1>11, <1>12, <1>13, <1>14,
     <1>15, <1>16, <1>17, <1>18, <1>19, <1>20, <1>21 DEF Next, Execute, Settle

--------------------------------------------------------------------------------
(* What a step does to the command in flight, cell by cell. *)

\* An answer changes the status of the executed command and nothing else.
LEMMA AnsweredCell ==
  ASSUME TypeOK, NEW h \in Handle, NEW op \in Op, NEW ok \in BOOLEAN, Answered(h, op, ok),
         Waiting(h, op)
  PROVE  /\ \A k \in Handle, o \in Op : k # h \/ o # op => call'[k][o] = call[k][o]
         /\ call'[h][op].st = IF call[h][op].st = "orphan" THEN "idle"
                             ELSE IF ok THEN "yes" ELSE "no"
         /\ call[h][op].st # "orphan" =>
              call'[h][op].ttl = call[h][op].ttl /\ call'[h][op].age = call[h][op].age
<1>1. call[h][op] \in Cell /\ call \in [Handle -> [Op -> Cell]]
  BY DEF TypeOK
<1> DEFINE c == IF call[h][op].st = "orphan" THEN Idle
                ELSE [call[h][op] EXCEPT !.st = IF ok THEN "yes" ELSE "no"]
<1>2. call' = [call EXCEPT ![h][op] = c]
  BY DEF Answered
<1>3. /\ c.st = IF call[h][op].st = "orphan" THEN "idle" ELSE IF ok THEN "yes" ELSE "no"
      /\ call[h][op].st # "orphan" => c.ttl = call[h][op].ttl /\ c.age = call[h][op].age
  BY <1>1 DEF Idle, Cell
<1> HIDE DEF c
<1> QED
  BY <1>1, <1>2, <1>3

\* What Redis makes of a command: its call has the answer, an abandoned one is forgotten, the
\* other calls stay.
LEMMA ExecutedCells ==
  ASSUME TypeOK, NEW h \in Handle, NEW op \in Op, NEW ok \in BOOLEAN, Waiting(h, op),
         Answered(h, op, ok)
  PROVE  /\ \A k \in Handle, o \in Op : k # h \/ o # op => call'[k][o] = call[k][o]
         /\ call[h][op].st \in {"sent", "orphan"}
         /\ call[h][op].st = "orphan" => call'[h][op].st = "idle"
         /\ call[h][op].st = "sent" =>
              /\ call'[h][op].st = IF ok THEN "yes" ELSE "no"
              /\ call'[h][op].ttl = call[h][op].ttl
              /\ call'[h][op].age = call[h][op].age
<1>1. call[h][op].st \in {"sent", "orphan"}
  BY DEF Waiting
<1> QED
  BY <1>1, AnsweredCell

LEMMA SetCells ==
  ASSUME TypeOK, NEW h \in Handle, ExecSet(h)
  PROVE  /\ \A k \in Handle, o \in Op : k # h \/ o # "acquire" => call'[k][o] = call[k][o]
         /\ call[h]["acquire"].st \in {"sent", "orphan"}
         /\ call[h]["acquire"].st = "orphan" => call'[h]["acquire"].st = "idle"
         /\ call[h]["acquire"].st = "sent" =>
              /\ call'[h]["acquire"].st = IF owner = NoOwner THEN "yes" ELSE "no"
              /\ call'[h]["acquire"].ttl = call[h]["acquire"].ttl
              /\ call'[h]["acquire"].age = call[h]["acquire"].age
<1>1. "acquire" \in Op /\ (owner = NoOwner) \in BOOLEAN
  BY DEF Op, Owns
<1>2. Waiting(h, "acquire") /\ Answered(h, "acquire", owner = NoOwner)
  BY DEF ExecSet
<1> QED
  BY <1>1, <1>2, ExecutedCells

LEMMA ReleaseCells ==
  ASSUME TypeOK, NEW h \in Handle, NEW op \in Op, ExecRelease(h, op)
  PROVE  /\ \A k \in Handle, o \in Op : k # h \/ o # op => call'[k][o] = call[k][o]
         /\ call[h][op].st \in {"sent", "orphan"}
         /\ call[h][op].st = "orphan" => call'[h][op].st = "idle"
         /\ call[h][op].st = "sent" =>
              /\ call'[h][op].st = IF Owns(h) THEN "yes" ELSE "no"
              /\ call'[h][op].ttl = call[h][op].ttl
              /\ call'[h][op].age = call[h][op].age
<1>1. op \in Op /\ Owns(h) \in BOOLEAN
  BY DEF Op, Owns
<1>2. Waiting(h, op) /\ Answered(h, op, Owns(h))
  BY DEF ExecRelease
<1> QED
  BY <1>1, <1>2, ExecutedCells

LEMMA ExtendCells ==
  ASSUME TypeOK, NEW h \in Handle, NEW op \in Op, ExecExtend(h, op)
  PROVE  /\ \A k \in Handle, o \in Op : k # h \/ o # op => call'[k][o] = call[k][o]
         /\ call[h][op].st \in {"sent", "orphan"}
         /\ call[h][op].st = "orphan" => call'[h][op].st = "idle"
         /\ call[h][op].st = "sent" =>
              /\ call'[h][op].st = IF Owns(h) THEN "yes" ELSE "no"
              /\ call'[h][op].ttl = call[h][op].ttl
              /\ call'[h][op].age = call[h][op].age
<1>1. op \in Op /\ Owns(h) \in BOOLEAN
  BY DEF Op, Owns
<1>2. Waiting(h, op) /\ Answered(h, op, Owns(h))
  BY DEF ExecExtend
<1> QED
  BY <1>1, <1>2, ExecutedCells

\* A failure makes the command idle or, if it was not executed, an orphan.
LEMMA FailedCell ==
  ASSUME TypeOK, NEW h \in Handle, NEW op \in Op, Fail(h, op)
  PROVE  /\ \A k \in Handle, o \in Op : k # h \/ o # op => call'[k][o] = call[k][o]
         /\ \/ call'[h][op].st = "idle"
            \/ /\ call[h][op].st = "sent" /\ call'[h][op].st = "orphan"
               /\ call'[h][op].ttl = call[h][op].ttl
<1>1. call[h][op] \in Cell /\ call \in [Handle -> [Op -> Cell]]
  BY DEF TypeOK
<1>2. CASE call' = [call EXCEPT ![h][op] = Idle]
  BY <1>1, <1>2 DEF Idle
<1>3. CASE call[h][op].st = "sent" /\ call' = [call EXCEPT ![h][op].st = "orphan"]
  <2> DEFINE c == [call[h][op] EXCEPT !.st = "orphan"]
  <2>1. call' = [call EXCEPT ![h][op] = c]
    BY <1>1, <1>3
  <2>2. c.st = "orphan" /\ c.ttl = call[h][op].ttl
    BY <1>1 DEF Cell
  <2> HIDE DEF c
  <2> QED
    BY <1>1, <1>3, <2>1, <2>2
<1> QED
  BY <1>2, <1>3 DEF Fail

\* A crash orphans what its process had in flight and touches nothing else.
LEMMA CrashedCell ==
  ASSUME TypeOK, NEW s \in Service, Crash(s), NEW k \in Handle, NEW o \in Op
  PROVE  /\ Home[k] # s => call'[k][o] = call[k][o]
         /\ Home[k] = s =>
              \/ call'[k][o].st = "idle"
              \/ /\ call[k][o].st \in {"sent", "orphan"} /\ call'[k][o].st = "orphan"
                 /\ call'[k][o].ttl = call[k][o].ttl
<1>1. call[k][o] \in Cell
  BY DEF TypeOK
<1>2. [call[k][o] EXCEPT !.st = "orphan"].st = "orphan"
      /\ [call[k][o] EXCEPT !.st = "orphan"].ttl = call[k][o].ttl
  BY <1>1 DEF Cell
<1>3. call'[k][o] = IF Home[k] # s THEN call[k][o]
                   ELSE IF call[k][o].st \in {"sent", "orphan"}
                          THEN [call[k][o] EXCEPT !.st = "orphan"] ELSE Idle
  BY DEF Crash
<1> QED
  BY <1>2, <1>3 DEF Idle

\* Time only ages a command.
LEMMA TickedCell ==
  ASSUME TypeOK, Tick, NEW k \in Handle, NEW o \in Op
  PROVE  /\ call'[k][o].st = call[k][o].st /\ call'[k][o].ttl = call[k][o].ttl
         /\ call[k][o].st \in {"sent", "yes", "no"} /\ o \in Timed => call'[k][o].age = Least(call[k][o].age + 1, Ttl)
<1>1. call[k][o] \in Cell
  BY DEF TypeOK
<1> DEFINE c == [call[k][o] EXCEPT !.age = Least(@ + 1, Ttl)]
<1>2. c.st = call[k][o].st /\ c.ttl = call[k][o].ttl /\ c.age = Least(call[k][o].age + 1, Ttl)
  BY <1>1 DEF Cell
<1>3. call'[k][o] = IF call[k][o].st \in {"sent", "yes", "no"} /\ o \in Timed
                     THEN c ELSE call[k][o]
  BY DEF Tick
<1> QED
  BY <1>2, <1>3

--------------------------------------------------------------------------------
(* The parts of the safety invariant, each preserved by every step. *)

\* No step sends a command the handle's phase does not allow.
LEMMA PhasesStep ==
  ASSUME TypeOK, Phases, [Next]_vars
  PROVE  Phases'
<1>t. call \in [Handle -> [Op -> Cell]] /\ pc \in [Handle -> {"idle", "acquiring", "backoff", "held", "failed", "dead"}]
      /\ renewing \in [Handle -> BOOLEAN] /\ active \in [Service -> SUBSET Handle]
  BY ConstantFacts DEF TypeOK, Ttls, Timed
<1>o. Op = {"acquire", "release", "destroy", "renew", "extend"}
  BY DEF Op
<1> USE <1>t, <1>o DEF Phases
<1>1. ASSUME NEW h \in Handle, StartAcquire(h) PROVE Phases'
  BY <1>1 DEF StartAcquire, SetNxPx, Sent, redisVars, entityVars, serviceVars, timerVars, ghostVars
<1>2. ASSUME NEW h \in Handle, RetryAcquire(h) PROVE Phases'
  BY <1>2 DEF RetryAcquire, SetNxPx, Sent, redisVars, entityVars, serviceVars, timerVars, ghostVars
<1>3. ASSUME NEW h \in Handle, AcquireGranted(h) PROVE Phases'
  BY <1>3 DEF AcquireGranted, Idle, redisVars, entityVars, serviceVars, timerVars, ghostVars
<1>4. ASSUME NEW h \in Handle, AcquireRefused(h) PROVE Phases'
  BY <1>4 DEF AcquireRefused, Idle, redisVars, entityVars, serviceVars, timerVars, ghostVars
<1>5. ASSUME NEW h \in Handle, Release(h) PROVE Phases'
  BY <1>5 DEF Release, Sent, Disarm, redisVars, entityVars, serviceVars, timerVars, ghostVars
<1>6. ASSUME NEW h \in Handle, ReleaseAgain(h) PROVE Phases'
  BY <1>6 DEF ReleaseAgain, redisVars, entityVars, serviceVars, timerVars, ghostVars
<1>7. ASSUME NEW h \in Handle, RenewTimer(h) PROVE Phases'
  BY <1>7 DEF RenewTimer, Sent, redisVars, entityVars, serviceVars, timerVars, ghostVars
<1>8. ASSUME NEW h \in Handle, StopAutoRenew(h) PROVE Phases'
  BY <1>8 DEF StopAutoRenew, Disarm, redisVars, entityVars, serviceVars, timerVars, ghostVars
<1>9. ASSUME NEW h \in Handle, NEW d \in ExtendTtls, Extend(h, d) PROVE Phases'
  BY <1>9 DEF Extend, Sent, redisVars, entityVars, serviceVars, timerVars, ghostVars
<1>10. ASSUME NEW h \in Handle, NEW op \in Op, ReleaseReply(h, op) PROVE Phases'
  BY <1>10 DEF ReleaseReply, Idle, ReleasedAfter, redisVars, entityVars, serviceVars, timerVars, ghostVars
<1>11. ASSUME NEW h \in Handle, NEW op \in Op, ExtendReply(h, op) PROVE Phases'
  BY <1>11 DEF ExtendReply, Idle, Disarm, redisVars, entityVars, serviceVars, timerVars, ghostVars
<1>12. ASSUME NEW h \in Handle, NEW op \in Op, Fail(h, op) PROVE Phases'
  <2>1. /\ \A k \in Handle : pc'[k] = IF k = h /\ op = "acquire" THEN "failed" ELSE pc[k]
        /\ \A k \in Handle : renewing'[k] => renewing[k]
        /\ \A s \in Service, k \in Handle : k \in active'[s] => k \in active[s]
        /\ call[h][op].st \in {"sent", "yes", "no"}
    BY <1>12 DEF Fail, Disarm, AfterError
  <2>2. /\ \A k \in Handle, o \in Op : k # h \/ o # op => call'[k][o] = call[k][o]
        /\ call'[h][op].st \in {"idle", "orphan"}
    BY <1>12, FailedCell
  <2> QED
    BY <2>1, <2>2
<1>13. ASSUME NEW h \in Handle, ExecSet(h) PROVE Phases'
  <2>1. /\ \A k \in Handle, o \in Op : k # h \/ o # "acquire" => call'[k][o] = call[k][o]
        /\ call[h]["acquire"].st \in {"sent", "orphan"}
        /\ call[h]["acquire"].st = "orphan" => call'[h]["acquire"].st = "idle"
        /\ call[h]["acquire"].st = "sent" => call'[h]["acquire"].st \in {"yes", "no"}
    BY <1>13, SetCells
  <2>2. UNCHANGED <<pc, renewing, active>>
    BY <1>13 DEF ExecSet, redisVars, entityVars, serviceVars, timerVars, ghostVars
  <2> QED
    BY <2>1, <2>2
<1>14. ASSUME NEW h \in Handle, NEW op \in Op, ExecRelease(h, op) PROVE Phases'
  <2>1. /\ \A k \in Handle, o \in Op : k # h \/ o # op => call'[k][o] = call[k][o]
        /\ call[h][op].st \in {"sent", "orphan"}
        /\ call[h][op].st = "orphan" => call'[h][op].st = "idle"
        /\ call[h][op].st = "sent" => call'[h][op].st \in {"yes", "no"}
    BY <1>14, ReleaseCells
  <2>2. UNCHANGED <<pc, renewing, active>> /\ op \in {"release", "destroy"}
    BY <1>14 DEF ExecRelease, redisVars, entityVars, serviceVars, timerVars, ghostVars
  <2> QED
    BY <2>1, <2>2
<1>15. ASSUME NEW h \in Handle, NEW op \in Op, ExecExtend(h, op) PROVE Phases'
  <2>1. /\ \A k \in Handle, o \in Op : k # h \/ o # op => call'[k][o] = call[k][o]
        /\ call[h][op].st \in {"sent", "orphan"}
        /\ call[h][op].st = "orphan" => call'[h][op].st = "idle"
        /\ call[h][op].st = "sent" => call'[h][op].st \in {"yes", "no"}
    BY <1>15, ExtendCells
  <2>2. UNCHANGED <<pc, renewing, active>> /\ op \in {"renew", "extend"}
    BY <1>15 DEF ExecExtend, redisVars, entityVars, serviceVars, timerVars, ghostVars
  <2> QED
    BY <2>1, <2>2
<1>16. ASSUME NEW s \in Service, Destroy(s) PROVE Phases'
  BY <1>16 DEF Destroy, Sent, Disarm, redisVars, entityVars, serviceVars, timerVars, ghostVars
<1>17. ASSUME NEW s \in Service, Destroyed(s) PROVE Phases'
  BY <1>17 DEF Destroyed, redisVars, entityVars, serviceVars, timerVars, ghostVars
<1>18. ASSUME NEW s \in Service, Crash(s) PROVE Phases'
  <2>1. /\ pc' = [k \in Handle |-> IF Home[k] = s THEN "dead" ELSE pc[k]]
        /\ \A k \in Handle : renewing'[k] <=> renewing[k] /\ Home[k] # s
        /\ active' = [active EXCEPT ![s] = {}]
    BY <1>18 DEF Crash, Disarm
  <2> QED
    BY <1>18, <2>1, CrashedCell
<1>19. ASSUME ForceRelease PROVE Phases'
  BY <1>19 DEF ForceRelease, Faulty, redisVars, entityVars, serviceVars, timerVars, ghostVars
<1>20. ASSUME Tick PROVE Phases'
  <2>1. \A k \in Handle, o \in Op : call'[k][o].st = call[k][o].st
    BY <1>20, TickedCell
  <2>2. UNCHANGED <<pc, renewing, active>>
    BY <1>20 DEF Tick, redisVars, entityVars, serviceVars, timerVars, ghostVars
  <2> QED
    BY <2>1, <2>2
<1>21. CASE UNCHANGED vars
  BY <1>21 DEF vars, redisVars, entityVars, serviceVars, timerVars, ghostVars
<1> QED
  BY <1>1, <1>2, <1>3, <1>4, <1>5, <1>6, <1>7, <1>8, <1>9, <1>10, <1>11, <1>12, <1>13, <1>14, <1>15, <1>16, <1>17, <1>18, <1>19, <1>20, <1>21 DEF Next, Execute, Settle

\* No step grants the key to a token that has owned it before.
LEMMA GrantedOnceStep ==
  ASSUME TypeOK, Phases, GrantedOnce, KeyExpires, [Next]_vars
  PROVE  GrantedOnce'
<1>t. call \in [Handle -> [Op -> Cell]] /\ pc \in [Handle -> {"idle", "acquiring", "backoff", "held", "failed", "dead"}]
      /\ released \in [Handle -> BOOLEAN] /\ lost \in SUBSET Handle
      /\ owner \in Handle \cup {NoOwner} /\ NoOwner \notin Handle
  BY ConstantFacts DEF TypeOK, Ttls, Timed
<1>o. Op = {"acquire", "release", "destroy", "renew", "extend"}
  BY DEF Op
<1> USE <1>t, <1>o DEF GrantedOnce, Phases
<1>1. ASSUME NEW h \in Handle, StartAcquire(h) PROVE GrantedOnce'
  BY <1>1 DEF StartAcquire, SetNxPx, Sent, redisVars, entityVars, serviceVars, timerVars, ghostVars
<1>2. ASSUME NEW h \in Handle, RetryAcquire(h) PROVE GrantedOnce'
  BY <1>2 DEF RetryAcquire, SetNxPx, Sent, redisVars, entityVars, serviceVars, timerVars, ghostVars
<1>3. ASSUME NEW h \in Handle, AcquireGranted(h) PROVE GrantedOnce'
  BY <1>3 DEF AcquireGranted, Idle, redisVars, entityVars, serviceVars, timerVars, ghostVars
<1>4. ASSUME NEW h \in Handle, AcquireRefused(h) PROVE GrantedOnce'
  BY <1>4 DEF AcquireRefused, Idle, redisVars, entityVars, serviceVars, timerVars, ghostVars
<1>5. ASSUME NEW h \in Handle, Release(h) PROVE GrantedOnce'
  BY <1>5 DEF Release, Sent, Disarm, redisVars, entityVars, serviceVars, timerVars, ghostVars
<1>6. ASSUME NEW h \in Handle, ReleaseAgain(h) PROVE GrantedOnce'
  BY <1>6 DEF ReleaseAgain, redisVars, entityVars, serviceVars, timerVars, ghostVars
<1>7. ASSUME NEW h \in Handle, RenewTimer(h) PROVE GrantedOnce'
  BY <1>7 DEF RenewTimer, Sent, redisVars, entityVars, serviceVars, timerVars, ghostVars
<1>8. ASSUME NEW h \in Handle, StopAutoRenew(h) PROVE GrantedOnce'
  BY <1>8 DEF StopAutoRenew, Disarm, redisVars, entityVars, serviceVars, timerVars, ghostVars
<1>9. ASSUME NEW h \in Handle, NEW d \in ExtendTtls, Extend(h, d) PROVE GrantedOnce'
  BY <1>9 DEF Extend, Sent, redisVars, entityVars, serviceVars, timerVars, ghostVars
<1>10. ASSUME NEW h \in Handle, NEW op \in Op, ReleaseReply(h, op) PROVE GrantedOnce'
  BY <1>10 DEF ReleaseReply, Idle, ReleasedAfter, redisVars, entityVars, serviceVars, timerVars, ghostVars
<1>11. ASSUME NEW h \in Handle, NEW op \in Op, ExtendReply(h, op) PROVE GrantedOnce'
  BY <1>11 DEF ExtendReply, Idle, Disarm, redisVars, entityVars, serviceVars, timerVars, ghostVars
<1>12. ASSUME NEW h \in Handle, NEW op \in Op, Fail(h, op) PROVE GrantedOnce'
  <2>1. /\ \A k \in Handle : pc'[k] = IF k = h /\ op = "acquire" THEN "failed" ELSE pc[k]
        /\ call[h][op].st \in {"sent", "yes", "no"}
        /\ UNCHANGED <<owner, lost>>
    BY <1>12 DEF Fail, AfterError, ReleasedAfter, redisVars, entityVars, serviceVars, timerVars, ghostVars
  <2>2. /\ \A k \in Handle, o \in Op : k # h \/ o # op => call'[k][o] = call[k][o]
        /\ \/ call'[h][op].st = "idle"
           \/ /\ call[h][op].st = "sent" /\ call'[h][op].st = "orphan"
              /\ call'[h][op].ttl = call[h][op].ttl
    BY <1>12, FailedCell
  <2> QED
    BY <2>1, <2>2
<1>13. ASSUME NEW h \in Handle, ExecSet(h) PROVE GrantedOnce'
  <2>1. /\ \A k \in Handle, o \in Op : k # h \/ o # "acquire" => call'[k][o] = call[k][o]
        /\ call[h]["acquire"].st \in {"sent", "orphan"}
        /\ call[h]["acquire"].st = "orphan" => call'[h]["acquire"].st = "idle"
        /\ call[h]["acquire"].st = "sent" =>
             /\ call'[h]["acquire"].st = IF owner = NoOwner THEN "yes" ELSE "no"
             /\ call'[h]["acquire"].ttl = call[h]["acquire"].ttl
             /\ call'[h]["acquire"].age = call[h]["acquire"].age
    BY <1>13, SetCells
  <2>2. /\ UNCHANGED <<pc, lost>>
        /\ owner = NoOwner => owner' = h
        /\ owner # NoOwner => owner' = owner
    BY <1>13 DEF ExecSet, redisVars, entityVars, serviceVars, timerVars, ghostVars
  <2> QED
    BY <2>1, <2>2
<1>14. ASSUME NEW h \in Handle, NEW op \in Op, ExecRelease(h, op) PROVE GrantedOnce'
  <2>1. /\ \A k \in Handle, o \in Op : k # h \/ o # op => call'[k][o] = call[k][o]
        /\ call[h][op].st \in {"sent", "orphan"}
        /\ call[h][op].st = "orphan" => call'[h][op].st = "idle"
        /\ call[h][op].st = "sent" =>
             /\ call'[h][op].st = IF Owns(h) THEN "yes" ELSE "no"
             /\ call'[h][op].ttl = call[h][op].ttl
             /\ call'[h][op].age = call[h][op].age
    BY <1>14, ReleaseCells
  <2>2. /\ UNCHANGED pc /\ op \in {"release", "destroy"}
        /\ Owns(h) => owner' = NoOwner /\ lost' = lost \cup {owner}
        /\ ~Owns(h) => UNCHANGED <<owner, lost>>
    BY <1>14 DEF ExecRelease, redisVars, entityVars, serviceVars, timerVars, ghostVars
  <2> QED
    BY <2>1, <2>2 DEF Owns
<1>15. ASSUME NEW h \in Handle, NEW op \in Op, ExecExtend(h, op) PROVE GrantedOnce'
  <2>1. /\ \A k \in Handle, o \in Op : k # h \/ o # op => call'[k][o] = call[k][o]
        /\ call[h][op].st \in {"sent", "orphan"}
        /\ call[h][op].st = "orphan" => call'[h][op].st = "idle"
        /\ call[h][op].st = "sent" =>
             /\ call'[h][op].st = IF Owns(h) THEN "yes" ELSE "no"
             /\ call'[h][op].ttl = call[h][op].ttl
             /\ call'[h][op].age = call[h][op].age
    BY <1>15, ExtendCells
  <2>2. /\ UNCHANGED <<pc, owner, lost>> /\ op \in {"renew", "extend"}
    BY <1>15 DEF ExecExtend, redisVars, entityVars, serviceVars, timerVars, ghostVars
  <2> QED
    BY <2>1, <2>2 DEF Owns
<1>16. ASSUME NEW s \in Service, Destroy(s) PROVE GrantedOnce'
  BY <1>16 DEF Destroy, Sent, Disarm, redisVars, entityVars, serviceVars, timerVars, ghostVars
<1>17. ASSUME NEW s \in Service, Destroyed(s) PROVE GrantedOnce'
  BY <1>17 DEF Destroyed, redisVars, entityVars, serviceVars, timerVars, ghostVars
<1>18. ASSUME NEW s \in Service, Crash(s) PROVE GrantedOnce'
  <2>1. /\ pc' = [k \in Handle |-> IF Home[k] = s THEN "dead" ELSE pc[k]]
        /\ UNCHANGED <<owner, lost>>
    BY <1>18 DEF Crash, redisVars, entityVars, serviceVars, timerVars, ghostVars
  <2>2. \A k \in Handle, o \in Op :
          /\ Home[k] # s => call'[k][o] = call[k][o]
          /\ Home[k] = s =>
               \/ call'[k][o].st = "idle"
               \/ /\ call[k][o].st \in {"sent", "orphan"} /\ call'[k][o].st = "orphan"
                  /\ call'[k][o].ttl = call[k][o].ttl
    BY <1>18, CrashedCell
  <2> QED
    BY <2>1, <2>2
<1>19. ASSUME ForceRelease PROVE GrantedOnce'
  BY <1>19 DEF ForceRelease, Faulty, redisVars, entityVars, serviceVars, timerVars, ghostVars
<1>20. ASSUME Tick PROVE GrantedOnce'
  <2>1. \A k \in Handle, o \in Op :
          call'[k][o].st = call[k][o].st /\ call'[k][o].ttl = call[k][o].ttl
    BY <1>20, TickedCell
  <2>2. UNCHANGED pc /\ (owner' = owner \/ owner' = NoOwner) /\ lost \subseteq lost'
        /\ lost' \subseteq lost \cup {owner} /\ (owner' = owner /\ owner # NoOwner => lost' = lost)
    BY <1>20 DEF Tick, Less1, redisVars, entityVars, serviceVars, timerVars, ghostVars
  <2> QED
    BY <2>1, <2>2
<1>21. CASE UNCHANGED vars
  BY <1>21 DEF vars, redisVars, entityVars, serviceVars, timerVars, ghostVars
<1> QED
  BY <1>1, <1>2, <1>3, <1>4, <1>5, <1>6, <1>7, <1>8, <1>9, <1>10, <1>11, <1>12, <1>13, <1>14, <1>15, <1>16, <1>17, <1>18, <1>19, <1>20, <1>21 DEF Next, Execute, Settle

\* A handle is only told it released the key when its script deleted it.
LEMMA ReleasedIsLostStep ==
  ASSUME TypeOK, Phases, ReleasedIsLost, [Next]_vars
  PROVE  ReleasedIsLost'
<1>t. call \in [Handle -> [Op -> Cell]] /\ pc \in [Handle -> {"idle", "acquiring", "backoff", "held", "failed", "dead"}]
      /\ released \in [Handle -> BOOLEAN] /\ lost \in SUBSET Handle
      /\ owner \in Handle \cup {NoOwner} /\ NoOwner \notin Handle
  BY ConstantFacts DEF TypeOK, Ttls, Timed
<1>o. Op = {"acquire", "release", "destroy", "renew", "extend"}
  BY DEF Op
<1> USE <1>t, <1>o DEF ReleasedIsLost, Phases
<1>1. ASSUME NEW h \in Handle, StartAcquire(h) PROVE ReleasedIsLost'
  BY <1>1 DEF StartAcquire, SetNxPx, Sent, redisVars, entityVars, serviceVars, timerVars, ghostVars
<1>2. ASSUME NEW h \in Handle, RetryAcquire(h) PROVE ReleasedIsLost'
  BY <1>2 DEF RetryAcquire, SetNxPx, Sent, redisVars, entityVars, serviceVars, timerVars, ghostVars
<1>3. ASSUME NEW h \in Handle, AcquireGranted(h) PROVE ReleasedIsLost'
  BY <1>3 DEF AcquireGranted, Idle, redisVars, entityVars, serviceVars, timerVars, ghostVars
<1>4. ASSUME NEW h \in Handle, AcquireRefused(h) PROVE ReleasedIsLost'
  BY <1>4 DEF AcquireRefused, Idle, redisVars, entityVars, serviceVars, timerVars, ghostVars
<1>5. ASSUME NEW h \in Handle, Release(h) PROVE ReleasedIsLost'
  BY <1>5 DEF Release, Sent, Disarm, redisVars, entityVars, serviceVars, timerVars, ghostVars
<1>6. ASSUME NEW h \in Handle, ReleaseAgain(h) PROVE ReleasedIsLost'
  BY <1>6 DEF ReleaseAgain, redisVars, entityVars, serviceVars, timerVars, ghostVars
<1>7. ASSUME NEW h \in Handle, RenewTimer(h) PROVE ReleasedIsLost'
  BY <1>7 DEF RenewTimer, Sent, redisVars, entityVars, serviceVars, timerVars, ghostVars
<1>8. ASSUME NEW h \in Handle, StopAutoRenew(h) PROVE ReleasedIsLost'
  BY <1>8 DEF StopAutoRenew, Disarm, redisVars, entityVars, serviceVars, timerVars, ghostVars
<1>9. ASSUME NEW h \in Handle, NEW d \in ExtendTtls, Extend(h, d) PROVE ReleasedIsLost'
  BY <1>9 DEF Extend, Sent, redisVars, entityVars, serviceVars, timerVars, ghostVars
<1>10. ASSUME NEW h \in Handle, NEW op \in Op, ReleaseReply(h, op) PROVE ReleasedIsLost'
  BY <1>10 DEF ReleaseReply, Idle, ReleasedAfter, redisVars, entityVars, serviceVars, timerVars, ghostVars
<1>11. ASSUME NEW h \in Handle, NEW op \in Op, ExtendReply(h, op) PROVE ReleasedIsLost'
  BY <1>11 DEF ExtendReply, Idle, Disarm, redisVars, entityVars, serviceVars, timerVars, ghostVars
<1>12. ASSUME NEW h \in Handle, NEW op \in Op, Fail(h, op) PROVE ReleasedIsLost'
  <2>1. /\ \A k \in Handle : pc'[k] = IF k = h /\ op = "acquire" THEN "failed" ELSE pc[k]
        /\ call[h][op].st \in {"sent", "yes", "no"}
        /\ UNCHANGED <<owner, lost, released>>
    BY <1>12 DEF Fail, AfterError, ReleasedAfter, redisVars, entityVars, serviceVars, timerVars, ghostVars
  <2>2. /\ \A k \in Handle, o \in Op : k # h \/ o # op => call'[k][o] = call[k][o]
        /\ \/ call'[h][op].st = "idle"
           \/ /\ call[h][op].st = "sent" /\ call'[h][op].st = "orphan"
              /\ call'[h][op].ttl = call[h][op].ttl
    BY <1>12, FailedCell
  <2> QED
    BY <2>1, <2>2
<1>13. ASSUME NEW h \in Handle, ExecSet(h) PROVE ReleasedIsLost'
  <2>1. /\ \A k \in Handle, o \in Op : k # h \/ o # "acquire" => call'[k][o] = call[k][o]
        /\ call[h]["acquire"].st \in {"sent", "orphan"}
        /\ call[h]["acquire"].st = "orphan" => call'[h]["acquire"].st = "idle"
        /\ call[h]["acquire"].st = "sent" =>
             /\ call'[h]["acquire"].st = IF owner = NoOwner THEN "yes" ELSE "no"
             /\ call'[h]["acquire"].ttl = call[h]["acquire"].ttl
             /\ call'[h]["acquire"].age = call[h]["acquire"].age
    BY <1>13, SetCells
  <2>2. UNCHANGED <<lost, released>>
    BY <1>13 DEF ExecSet, redisVars, entityVars, serviceVars, timerVars, ghostVars
  <2> QED
    BY <2>1, <2>2
<1>14. ASSUME NEW h \in Handle, NEW op \in Op, ExecRelease(h, op) PROVE ReleasedIsLost'
  <2>1. /\ \A k \in Handle, o \in Op : k # h \/ o # op => call'[k][o] = call[k][o]
        /\ call[h][op].st \in {"sent", "orphan"}
        /\ call[h][op].st = "orphan" => call'[h][op].st = "idle"
        /\ call[h][op].st = "sent" =>
             /\ call'[h][op].st = IF Owns(h) THEN "yes" ELSE "no"
             /\ call'[h][op].ttl = call[h][op].ttl
             /\ call'[h][op].age = call[h][op].age
    BY <1>14, ReleaseCells
  <2>2. /\ UNCHANGED released /\ op \in {"release", "destroy"}
        /\ Owns(h) => lost' = lost \cup {owner}
        /\ ~Owns(h) => UNCHANGED lost
    BY <1>14 DEF ExecRelease, redisVars, entityVars, serviceVars, timerVars, ghostVars
  <2> QED
    BY <2>1, <2>2 DEF Owns
<1>15. ASSUME NEW h \in Handle, NEW op \in Op, ExecExtend(h, op) PROVE ReleasedIsLost'
  <2>1. /\ \A k \in Handle, o \in Op : k # h \/ o # op => call'[k][o] = call[k][o]
        /\ call[h][op].st \in {"sent", "orphan"}
        /\ call[h][op].st = "orphan" => call'[h][op].st = "idle"
        /\ call[h][op].st = "sent" =>
             /\ call'[h][op].st = IF Owns(h) THEN "yes" ELSE "no"
             /\ call'[h][op].ttl = call[h][op].ttl
             /\ call'[h][op].age = call[h][op].age
    BY <1>15, ExtendCells
  <2>2. /\ UNCHANGED <<lost, released>> /\ op \in {"renew", "extend"}
    BY <1>15 DEF ExecExtend, redisVars, entityVars, serviceVars, timerVars, ghostVars
  <2> QED
    BY <2>1, <2>2 DEF Owns
<1>16. ASSUME NEW s \in Service, Destroy(s) PROVE ReleasedIsLost'
  BY <1>16 DEF Destroy, Sent, Disarm, redisVars, entityVars, serviceVars, timerVars, ghostVars
<1>17. ASSUME NEW s \in Service, Destroyed(s) PROVE ReleasedIsLost'
  BY <1>17 DEF Destroyed, redisVars, entityVars, serviceVars, timerVars, ghostVars
<1>18. ASSUME NEW s \in Service, Crash(s) PROVE ReleasedIsLost'
  <2>1. /\ pc' = [k \in Handle |-> IF Home[k] = s THEN "dead" ELSE pc[k]]
        /\ UNCHANGED <<released, lost>>
    BY <1>18 DEF Crash, redisVars, entityVars, serviceVars, timerVars, ghostVars
  <2>2. \A k \in Handle, o \in Op :
          /\ Home[k] # s => call'[k][o] = call[k][o]
          /\ Home[k] = s =>
               \/ call'[k][o].st = "idle"
               \/ /\ call[k][o].st \in {"sent", "orphan"} /\ call'[k][o].st = "orphan"
                  /\ call'[k][o].ttl = call[k][o].ttl
    BY <1>18, CrashedCell
  <2> QED
    BY <2>1, <2>2
<1>19. ASSUME ForceRelease PROVE ReleasedIsLost'
  BY <1>19 DEF ForceRelease, Faulty, redisVars, entityVars, serviceVars, timerVars, ghostVars
<1>20. ASSUME Tick PROVE ReleasedIsLost'
  <2>1. \A k \in Handle, o \in Op :
          call'[k][o].st = call[k][o].st /\ call'[k][o].ttl = call[k][o].ttl
    BY <1>20, TickedCell
  <2>2. UNCHANGED released /\ lost \subseteq lost'
    BY <1>20 DEF Tick, Less1, redisVars, entityVars, serviceVars, timerVars, ghostVars
  <2> QED
    BY <2>1, <2>2
<1>21. CASE UNCHANGED vars
  BY <1>21 DEF vars, redisVars, entityVars, serviceVars, timerVars, ghostVars
<1> QED
  BY <1>1, <1>2, <1>3, <1>4, <1>5, <1>6, <1>7, <1>8, <1>9, <1>10, <1>11, <1>12, <1>13, <1>14, <1>15, <1>16, <1>17, <1>18, <1>19, <1>20, <1>21 DEF Next, Execute, Settle

\* No step sends a SET or a PEXPIRE without a TTL.
LEMMA TtlSentStep ==
  ASSUME TypeOK, TtlSent, [Next]_vars
  PROVE  TtlSent'
<1>t. call \in [Handle -> [Op -> Cell]] /\ pc \in [Handle -> {"idle", "acquiring", "backoff", "held", "failed", "dead"}]
      /\ released \in [Handle -> BOOLEAN] /\ lost \in SUBSET Handle
      /\ owner \in Handle \cup {NoOwner} /\ NoOwner \notin Handle
      /\ ttlLeft \in Nat /\ Ttls \subseteq Nat \ {0} /\ Ttl \in Ttls /\ ExtendTtls \subseteq Ttls
      /\ Timed = {"acquire", "renew", "extend"}
  BY ConstantFacts DEF TypeOK, Ttls, Timed
<1>o. Op = {"acquire", "release", "destroy", "renew", "extend"}
  BY DEF Op
<1> USE <1>t, <1>o DEF TtlSent
<1>1. ASSUME NEW h \in Handle, StartAcquire(h) PROVE TtlSent'
  BY <1>1 DEF StartAcquire, SetNxPx, Sent, redisVars, entityVars, serviceVars, timerVars, ghostVars
<1>2. ASSUME NEW h \in Handle, RetryAcquire(h) PROVE TtlSent'
  BY <1>2 DEF RetryAcquire, SetNxPx, Sent, redisVars, entityVars, serviceVars, timerVars, ghostVars
<1>3. ASSUME NEW h \in Handle, AcquireGranted(h) PROVE TtlSent'
  BY <1>3 DEF AcquireGranted, Idle, redisVars, entityVars, serviceVars, timerVars, ghostVars
<1>4. ASSUME NEW h \in Handle, AcquireRefused(h) PROVE TtlSent'
  BY <1>4 DEF AcquireRefused, Idle, redisVars, entityVars, serviceVars, timerVars, ghostVars
<1>5. ASSUME NEW h \in Handle, Release(h) PROVE TtlSent'
  BY <1>5 DEF Release, Sent, Disarm, redisVars, entityVars, serviceVars, timerVars, ghostVars
<1>6. ASSUME NEW h \in Handle, ReleaseAgain(h) PROVE TtlSent'
  BY <1>6 DEF ReleaseAgain, redisVars, entityVars, serviceVars, timerVars, ghostVars
<1>7. ASSUME NEW h \in Handle, RenewTimer(h) PROVE TtlSent'
  BY <1>7 DEF RenewTimer, RenewalTtl, Sent, redisVars, entityVars, serviceVars, timerVars, ghostVars
<1>8. ASSUME NEW h \in Handle, StopAutoRenew(h) PROVE TtlSent'
  BY <1>8 DEF StopAutoRenew, Disarm, redisVars, entityVars, serviceVars, timerVars, ghostVars
<1>9. ASSUME NEW h \in Handle, NEW d \in ExtendTtls, Extend(h, d) PROVE TtlSent'
  BY <1>9 DEF Extend, Sent, redisVars, entityVars, serviceVars, timerVars, ghostVars
<1>10. ASSUME NEW h \in Handle, NEW op \in Op, ReleaseReply(h, op) PROVE TtlSent'
  BY <1>10 DEF ReleaseReply, Idle, ReleasedAfter, redisVars, entityVars, serviceVars, timerVars, ghostVars
<1>11. ASSUME NEW h \in Handle, NEW op \in Op, ExtendReply(h, op) PROVE TtlSent'
  BY <1>11 DEF ExtendReply, Idle, Disarm, redisVars, entityVars, serviceVars, timerVars, ghostVars
<1>12. ASSUME NEW h \in Handle, NEW op \in Op, Fail(h, op) PROVE TtlSent'
  <2>1. /\ \A k \in Handle : pc'[k] = IF k = h /\ op = "acquire" THEN "failed" ELSE pc[k]
        /\ call[h][op].st \in {"sent", "yes", "no"}
        
    BY <1>12 DEF Fail, AfterError, ReleasedAfter, redisVars, entityVars, serviceVars, timerVars, ghostVars
  <2>2. /\ \A k \in Handle, o \in Op : k # h \/ o # op => call'[k][o] = call[k][o]
        /\ \/ call'[h][op].st = "idle"
           \/ /\ call[h][op].st = "sent" /\ call'[h][op].st = "orphan"
              /\ call'[h][op].ttl = call[h][op].ttl
    BY <1>12, FailedCell
  <2> QED
    BY <2>1, <2>2
<1>13. ASSUME NEW h \in Handle, ExecSet(h) PROVE TtlSent'
  <2>1. /\ \A k \in Handle, o \in Op : k # h \/ o # "acquire" => call'[k][o] = call[k][o]
        /\ call[h]["acquire"].st \in {"sent", "orphan"}
        /\ call[h]["acquire"].st = "orphan" => call'[h]["acquire"].st = "idle"
        /\ call[h]["acquire"].st = "sent" =>
             /\ call'[h]["acquire"].st = IF owner = NoOwner THEN "yes" ELSE "no"
             /\ call'[h]["acquire"].ttl = call[h]["acquire"].ttl
             /\ call'[h]["acquire"].age = call[h]["acquire"].age
    BY <1>13, SetCells
  <2>2. UNCHANGED pc
    BY <1>13 DEF ExecSet, redisVars, entityVars, serviceVars, timerVars, ghostVars
  <2> QED
    BY <2>1, <2>2
<1>14. ASSUME NEW h \in Handle, NEW op \in Op, ExecRelease(h, op) PROVE TtlSent'
  <2>1. /\ \A k \in Handle, o \in Op : k # h \/ o # op => call'[k][o] = call[k][o]
        /\ call[h][op].st \in {"sent", "orphan"}
        /\ call[h][op].st = "orphan" => call'[h][op].st = "idle"
        /\ call[h][op].st = "sent" =>
             /\ call'[h][op].st = IF Owns(h) THEN "yes" ELSE "no"
             /\ call'[h][op].ttl = call[h][op].ttl
             /\ call'[h][op].age = call[h][op].age
    BY <1>14, ReleaseCells
  <2>2. op \in {"release", "destroy"}
    BY <1>14 DEF ExecRelease, redisVars, entityVars, serviceVars, timerVars, ghostVars
  <2> QED
    BY <2>1, <2>2 DEF Owns
<1>15. ASSUME NEW h \in Handle, NEW op \in Op, ExecExtend(h, op) PROVE TtlSent'
  <2>1. /\ \A k \in Handle, o \in Op : k # h \/ o # op => call'[k][o] = call[k][o]
        /\ call[h][op].st \in {"sent", "orphan"}
        /\ call[h][op].st = "orphan" => call'[h][op].st = "idle"
        /\ call[h][op].st = "sent" =>
             /\ call'[h][op].st = IF Owns(h) THEN "yes" ELSE "no"
             /\ call'[h][op].ttl = call[h][op].ttl
             /\ call'[h][op].age = call[h][op].age
    BY <1>15, ExtendCells
  <2>2. UNCHANGED pc
    BY <1>15 DEF ExecExtend, redisVars, entityVars, serviceVars, timerVars, ghostVars
  <2> QED
    BY <2>1, <2>2 DEF Owns
<1>16. ASSUME NEW s \in Service, Destroy(s) PROVE TtlSent'
  BY <1>16 DEF Destroy, Sent, Disarm, redisVars, entityVars, serviceVars, timerVars, ghostVars
<1>17. ASSUME NEW s \in Service, Destroyed(s) PROVE TtlSent'
  BY <1>17 DEF Destroyed, redisVars, entityVars, serviceVars, timerVars, ghostVars
<1>18. ASSUME NEW s \in Service, Crash(s) PROVE TtlSent'
  <2>1. /\ pc' = [k \in Handle |-> IF Home[k] = s THEN "dead" ELSE pc[k]]
        
    BY <1>18 DEF Crash, redisVars, entityVars, serviceVars, timerVars, ghostVars
  <2>2. \A k \in Handle, o \in Op :
          /\ Home[k] # s => call'[k][o] = call[k][o]
          /\ Home[k] = s =>
               \/ call'[k][o].st = "idle"
               \/ /\ call[k][o].st \in {"sent", "orphan"} /\ call'[k][o].st = "orphan"
                  /\ call'[k][o].ttl = call[k][o].ttl
    BY <1>18, CrashedCell
  <2> QED
    BY <2>1, <2>2
<1>19. ASSUME ForceRelease PROVE TtlSent'
  BY <1>19 DEF ForceRelease, Faulty, redisVars, entityVars, serviceVars, timerVars, ghostVars
<1>20. ASSUME Tick PROVE TtlSent'
  <2>1. \A k \in Handle, o \in Op :
          call'[k][o].st = call[k][o].st /\ call'[k][o].ttl = call[k][o].ttl
    BY <1>20, TickedCell
  <2>2. UNCHANGED pc
    BY <1>20 DEF Tick, Less1, redisVars, entityVars, serviceVars, timerVars, ghostVars
  <2> QED
    BY <2>1, <2>2
<1>21. CASE UNCHANGED vars
  BY <1>21 DEF vars, redisVars, entityVars, serviceVars, timerVars, ghostVars
<1> QED
  BY <1>1, <1>2, <1>3, <1>4, <1>5, <1>6, <1>7, <1>8, <1>9, <1>10, <1>11, <1>12, <1>13, <1>14, <1>15, <1>16, <1>17, <1>18, <1>19, <1>20, <1>21 DEF Next, Execute, Settle

\* No step leaves the key in Redis without an expiry.
LEMMA KeyExpiresStep ==
  ASSUME TypeOK, TtlSent, KeyExpires, [Next]_vars
  PROVE  KeyExpires'
<1>t. call \in [Handle -> [Op -> Cell]] /\ pc \in [Handle -> {"idle", "acquiring", "backoff", "held", "failed", "dead"}]
      /\ released \in [Handle -> BOOLEAN] /\ lost \in SUBSET Handle
      /\ owner \in Handle \cup {NoOwner} /\ NoOwner \notin Handle
      /\ ttlLeft \in Nat /\ Ttls \subseteq Nat \ {0} /\ Ttl \in Ttls /\ ExtendTtls \subseteq Ttls
      /\ Timed = {"acquire", "renew", "extend"}
  BY ConstantFacts DEF TypeOK, Ttls, Timed
<1>o. Op = {"acquire", "release", "destroy", "renew", "extend"}
  BY DEF Op
<1> USE <1>t, <1>o DEF KeyExpires, TtlSent
<1>1. ASSUME NEW h \in Handle, StartAcquire(h) PROVE KeyExpires'
  BY <1>1 DEF StartAcquire, SetNxPx, Sent, redisVars, entityVars, serviceVars, timerVars, ghostVars
<1>2. ASSUME NEW h \in Handle, RetryAcquire(h) PROVE KeyExpires'
  BY <1>2 DEF RetryAcquire, SetNxPx, Sent, redisVars, entityVars, serviceVars, timerVars, ghostVars
<1>3. ASSUME NEW h \in Handle, AcquireGranted(h) PROVE KeyExpires'
  BY <1>3 DEF AcquireGranted, Idle, redisVars, entityVars, serviceVars, timerVars, ghostVars
<1>4. ASSUME NEW h \in Handle, AcquireRefused(h) PROVE KeyExpires'
  BY <1>4 DEF AcquireRefused, Idle, redisVars, entityVars, serviceVars, timerVars, ghostVars
<1>5. ASSUME NEW h \in Handle, Release(h) PROVE KeyExpires'
  BY <1>5 DEF Release, Sent, Disarm, redisVars, entityVars, serviceVars, timerVars, ghostVars
<1>6. ASSUME NEW h \in Handle, ReleaseAgain(h) PROVE KeyExpires'
  BY <1>6 DEF ReleaseAgain, redisVars, entityVars, serviceVars, timerVars, ghostVars
<1>7. ASSUME NEW h \in Handle, RenewTimer(h) PROVE KeyExpires'
  BY <1>7 DEF RenewTimer, Sent, redisVars, entityVars, serviceVars, timerVars, ghostVars
<1>8. ASSUME NEW h \in Handle, StopAutoRenew(h) PROVE KeyExpires'
  BY <1>8 DEF StopAutoRenew, Disarm, redisVars, entityVars, serviceVars, timerVars, ghostVars
<1>9. ASSUME NEW h \in Handle, NEW d \in ExtendTtls, Extend(h, d) PROVE KeyExpires'
  BY <1>9 DEF Extend, Sent, redisVars, entityVars, serviceVars, timerVars, ghostVars
<1>10. ASSUME NEW h \in Handle, NEW op \in Op, ReleaseReply(h, op) PROVE KeyExpires'
  BY <1>10 DEF ReleaseReply, Idle, ReleasedAfter, redisVars, entityVars, serviceVars, timerVars, ghostVars
<1>11. ASSUME NEW h \in Handle, NEW op \in Op, ExtendReply(h, op) PROVE KeyExpires'
  BY <1>11 DEF ExtendReply, Idle, Disarm, redisVars, entityVars, serviceVars, timerVars, ghostVars
<1>12. ASSUME NEW h \in Handle, NEW op \in Op, Fail(h, op) PROVE KeyExpires'
  <2>1. /\ \A k \in Handle : pc'[k] = IF k = h /\ op = "acquire" THEN "failed" ELSE pc[k]
        /\ call[h][op].st \in {"sent", "yes", "no"}
        /\ UNCHANGED <<owner, ttlLeft>>
    BY <1>12 DEF Fail, AfterError, ReleasedAfter, redisVars, entityVars, serviceVars, timerVars, ghostVars
  <2>2. /\ \A k \in Handle, o \in Op : k # h \/ o # op => call'[k][o] = call[k][o]
        /\ \/ call'[h][op].st = "idle"
           \/ /\ call[h][op].st = "sent" /\ call'[h][op].st = "orphan"
              /\ call'[h][op].ttl = call[h][op].ttl
    BY <1>12, FailedCell
  <2> QED
    BY <2>1, <2>2
<1>13. ASSUME NEW h \in Handle, ExecSet(h) PROVE KeyExpires'
  <2>1. /\ \A k \in Handle, o \in Op : k # h \/ o # "acquire" => call'[k][o] = call[k][o]
        /\ call[h]["acquire"].st \in {"sent", "orphan"}
        /\ call[h]["acquire"].st = "orphan" => call'[h]["acquire"].st = "idle"
        /\ call[h]["acquire"].st = "sent" =>
             /\ call'[h]["acquire"].st = IF owner = NoOwner THEN "yes" ELSE "no"
             /\ call'[h]["acquire"].ttl = call[h]["acquire"].ttl
             /\ call'[h]["acquire"].age = call[h]["acquire"].age
    BY <1>13, SetCells
  <2>2. /\ owner = NoOwner => owner' = h /\ ttlLeft' = call[h]["acquire"].ttl
        /\ owner # NoOwner => UNCHANGED <<owner, ttlLeft>>
    BY <1>13 DEF ExecSet, redisVars, entityVars, serviceVars, timerVars, ghostVars
  <2> QED
    BY <2>1, <2>2
<1>14. ASSUME NEW h \in Handle, NEW op \in Op, ExecRelease(h, op) PROVE KeyExpires'
  <2>1. /\ \A k \in Handle, o \in Op : k # h \/ o # op => call'[k][o] = call[k][o]
        /\ call[h][op].st \in {"sent", "orphan"}
        /\ call[h][op].st = "orphan" => call'[h][op].st = "idle"
        /\ call[h][op].st = "sent" =>
             /\ call'[h][op].st = IF Owns(h) THEN "yes" ELSE "no"
             /\ call'[h][op].ttl = call[h][op].ttl
             /\ call'[h][op].age = call[h][op].age
    BY <1>14, ReleaseCells
  <2>2. /\ Owns(h) => owner' = NoOwner /\ ttlLeft' = 0
        /\ ~Owns(h) => UNCHANGED <<owner, ttlLeft>>
    BY <1>14 DEF ExecRelease, redisVars, entityVars, serviceVars, timerVars, ghostVars
  <2> QED
    BY <2>1, <2>2 DEF Owns
<1>15. ASSUME NEW h \in Handle, NEW op \in Op, ExecExtend(h, op) PROVE KeyExpires'
  <2>1. /\ \A k \in Handle, o \in Op : k # h \/ o # op => call'[k][o] = call[k][o]
        /\ call[h][op].st \in {"sent", "orphan"}
        /\ call[h][op].st = "orphan" => call'[h][op].st = "idle"
        /\ call[h][op].st = "sent" =>
             /\ call'[h][op].st = IF Owns(h) THEN "yes" ELSE "no"
             /\ call'[h][op].ttl = call[h][op].ttl
             /\ call'[h][op].age = call[h][op].age
    BY <1>15, ExtendCells
  <2>2. /\ UNCHANGED owner /\ op \in {"renew", "extend"}
        /\ ttlLeft' = IF Owns(h) THEN call[h][op].ttl ELSE ttlLeft
    BY <1>15 DEF ExecExtend, redisVars, entityVars, serviceVars, timerVars, ghostVars
  <2> QED
    BY <2>1, <2>2 DEF Owns
<1>16. ASSUME NEW s \in Service, Destroy(s) PROVE KeyExpires'
  BY <1>16 DEF Destroy, Sent, Disarm, redisVars, entityVars, serviceVars, timerVars, ghostVars
<1>17. ASSUME NEW s \in Service, Destroyed(s) PROVE KeyExpires'
  BY <1>17 DEF Destroyed, redisVars, entityVars, serviceVars, timerVars, ghostVars
<1>18. ASSUME NEW s \in Service, Crash(s) PROVE KeyExpires'
  <2>1. /\ pc' = [k \in Handle |-> IF Home[k] = s THEN "dead" ELSE pc[k]]
        /\ UNCHANGED <<owner, ttlLeft>>
    BY <1>18 DEF Crash, redisVars, entityVars, serviceVars, timerVars, ghostVars
  <2>2. \A k \in Handle, o \in Op :
          /\ Home[k] # s => call'[k][o] = call[k][o]
          /\ Home[k] = s =>
               \/ call'[k][o].st = "idle"
               \/ /\ call[k][o].st \in {"sent", "orphan"} /\ call'[k][o].st = "orphan"
                  /\ call'[k][o].ttl = call[k][o].ttl
    BY <1>18, CrashedCell
  <2> QED
    BY <2>1, <2>2
<1>19. ASSUME ForceRelease PROVE KeyExpires'
  BY <1>19 DEF ForceRelease, Faulty, redisVars, entityVars, serviceVars, timerVars, ghostVars
<1>20. ASSUME Tick PROVE KeyExpires'
  <2>1. \A k \in Handle, o \in Op :
          call'[k][o].st = call[k][o].st /\ call'[k][o].ttl = call[k][o].ttl
    BY <1>20, TickedCell
  <2>2. /\ owner' = IF ttlLeft = 1 THEN NoOwner ELSE owner
        /\ ttlLeft' = IF ttlLeft > 0 THEN ttlLeft - 1 ELSE 0
    BY <1>20 DEF Tick, Less1, redisVars, entityVars, serviceVars, timerVars, ghostVars
  <2> QED
    BY <2>1, <2>2
<1>21. CASE UNCHANGED vars
  BY <1>21 DEF vars, redisVars, entityVars, serviceVars, timerVars, ghostVars
<1> QED
  BY <1>1, <1>2, <1>3, <1>4, <1>5, <1>6, <1>7, <1>8, <1>9, <1>10, <1>11, <1>12, <1>13, <1>14, <1>15, <1>16, <1>17, <1>18, <1>19, <1>20, <1>21 DEF Next, Execute, Settle
--------------------------------------------------------------------------------
(* The theorems. *)

LEMMA SafeInit == Init => SafeInv
<1> SUFFICES ASSUME Init PROVE SafeInv
  OBVIOUS
<1>1. TypeOK
  BY TypeInit
<1>2. GrantedOnce /\ Phases /\ ReleasedIsLost /\ KeyExpires /\ TtlSent
  BY ConstantFacts DEF Init, GrantedOnce, Phases, ReleasedIsLost, KeyExpires, TtlSent, Idle, Op, Timed
<1> QED
  BY <1>1, <1>2 DEF SafeInv

LEMMA SafeStep == SafeInv /\ [Next]_vars => SafeInv'
BY TypeStep, PhasesStep, GrantedOnceStep, ReleasedIsLostStep, TtlSentStep, KeyExpiresStep DEF SafeInv

LEMMA SafeAlways == Spec => []SafeInv
BY SafeInit, SafeStep, PTL DEF Spec

\* Every variable keeps its type whatever the timing and the failures: the retry
\* delay of acquire() stays below its cap, the wait inside its budget, and every TTL
\* in flight is one a caller asked for.
THEOREM TypeCorrect == Spec => []TypeOK
BY SafeAlways, PTL DEF SafeInv

\* A lock whose release() succeeded never shows up in Redis again, whatever commands
\* of its token are still under way, for any number of processes and handles.
THEOREM ReleasedForGood == Spec => []ReleasedNeverOwns
<1>1. SafeInv => ReleasedNeverOwns
  BY DEF SafeInv, GrantedOnce, ReleasedIsLost, ReleasedNeverOwns
<1> QED
  BY <1>1, SafeAlways, PTL

\* No lock is ever stored without a TTL, so a crashed owner cannot keep it for ever.
THEOREM KeysExpire == Spec => []KeyExpires
BY SafeAlways, PTL DEF SafeInv

--------------------------------------------------------------------------------
(* The refinement. *)

LEMMA LeaseInit == Init => Lease!Init
BY DEF Init, Lease!Init

LEMMA LeaseStep == SafeInv /\ [Next]_vars => [Lease!Next]_(Lease!leaseVars)
<1> SUFFICES ASSUME SafeInv, [Next]_vars
             PROVE  Lease!Next \/ UNCHANGED <<owner, lost>>
  BY DEF Lease!leaseVars
<1> USE DEF SafeInv
<1>1. ASSUME NEW h \in Handle, ExecSet(h) PROVE Lease!Next \/ UNCHANGED <<owner, lost>>
  <2>1. CASE owner = NoOwner
    <3>1. h \notin lost
      BY <1>1 DEF ExecSet, Waiting, GrantedOnce
    <3>2. owner' = h /\ UNCHANGED lost
      BY <1>1, <2>1 DEF ExecSet, ghostVars
    <3> QED
      BY <2>1, <3>1, <3>2 DEF Lease!Next, Lease!Grant
  <2>2. CASE owner # NoOwner
    BY <1>1, <2>2 DEF ExecSet, redisVars, ghostVars
  <2> QED
    BY <2>1, <2>2
<1>2. ASSUME NEW h \in Handle, NEW op \in Op, ExecRelease(h, op)
      PROVE  Lease!Next \/ UNCHANGED <<owner, lost>>
  <2>1. CASE Owns(h)
    <3>1. owner # NoOwner
      BY <2>1, ConstantFacts DEF Owns
    <3> QED
      BY <1>2, <2>1, <3>1 DEF ExecRelease, Lease!Next, Lease!Lose
  <2>2. CASE ~Owns(h)
    BY <1>2, <2>2 DEF ExecRelease, redisVars
  <2> QED
    BY <2>1, <2>2
<1>3. ASSUME Tick PROVE Lease!Next \/ UNCHANGED <<owner, lost>>
  <2>1. CASE ttlLeft = 1
    <3>1. owner # NoOwner
      BY <2>1 DEF KeyExpires
    <3> QED
      BY <1>3, <2>1, <3>1 DEF Tick, Lease!Next, Lease!Lose
  <2>2. CASE ttlLeft # 1
    BY <1>3, <2>2 DEF Tick
  <2> QED
    BY <2>1, <2>2
<1>4. ASSUME ForceRelease PROVE Lease!Next \/ UNCHANGED <<owner, lost>>
  BY <1>4 DEF ForceRelease, Lease!Next, Lease!Lose
<1>5. ASSUME NEW h \in Handle,
             \/ StartAcquire(h) \/ RetryAcquire(h) \/ AcquireGranted(h) \/ AcquireRefused(h)
             \/ Release(h) \/ ReleaseAgain(h) \/ RenewTimer(h) \/ StopAutoRenew(h)
             \/ \E d \in ExtendTtls : Extend(h, d)
             \/ \E op \in Op : ReleaseReply(h, op) \/ ExtendReply(h, op)
                               \/ ExecExtend(h, op) \/ Fail(h, op)
      PROVE  UNCHANGED <<owner, lost>>
  BY <1>5 DEF StartAcquire, RetryAcquire, AcquireGranted, AcquireRefused, Release, ReleaseAgain,
     RenewTimer, StopAutoRenew, Extend, ReleaseReply, ExtendReply, ExecExtend, Fail,
     redisVars, ghostVars
<1>6. ASSUME NEW s \in Service, Destroy(s) \/ Destroyed(s) \/ Crash(s)
      PROVE  UNCHANGED <<owner, lost>>
  BY <1>6 DEF Destroy, Destroyed, Crash, redisVars, ghostVars
<1>7. CASE UNCHANGED vars
  BY <1>7 DEF vars, redisVars, ghostVars
<1> QED
  BY <1>1, <1>2, <1>3, <1>4, <1>5, <1>6, <1>7 DEF Next, Execute, Settle

\* The detailed lock, with its commands in flight, retries, renewals, crashes and
\* failures, implements the abstract lease: the key passes from token to token only
\* through the unowned state, and a token that lost it never owns it again.
THEOREM LockImplementsLease == Spec => ImplementsLease
<1>1. SafeInv /\ [Next]_vars => [Lease!Next]_(Lease!leaseVars)
  BY LeaseStep
<1> QED
  BY LeaseInit, <1>1, SafeAlways, PTL DEF Spec, ImplementsLease, Lease!Spec
--------------------------------------------------------------------------------
(* The lease. Users who extend a lock do so by at least its TTL.                *)

LongExtends == \A d \in ExtendTtls : d >= Ttl

LetGoSent ==
  \A h \in Handle, op \in {"release", "destroy"} : call[h][op].st # "idle" => letGo[h]

EnoughTtl ==
  \A h \in Handle, op \in Timed :
    call[h][op].st \in {"sent", "orphan", "yes"} => call[h][op].ttl >= Ttl

\* A positive answer under way to its caller is the truth about Redis for as long as
\* the command is younger than Ttl.
ConfirmedLease ==
  \A h \in Handle, op \in Timed :
    call[h][op].st = "yes" /\ ~letGo[h] /\ ~evicted[h] /\ call[h][op].age < Ttl
      => owner = h /\ Ttl - call[h][op].age <= ttlLeft

LeaseInv == SafeInv /\ LetGoSent /\ EnoughTtl /\ ConfirmedLease /\ LeaseHeld

LEMMA CellRange ==
  ASSUME TypeOK, NEW k \in Handle, NEW o \in Op
  PROVE  call[k][o].age \in 0..Ttl /\ call[k][o].ttl \in Nat
<1>1. call[k][o] \in Cell
  BY DEF TypeOK
<1>2. call[k][o].age \in 0..Ttl /\ call[k][o].ttl \in Ttls \cup {0}
  BY <1>1 DEF Cell
<1>3. Ttls \cup {0} \subseteq Nat
  BY ConstantFacts
<1> QED
  BY <1>2, <1>3

\* A release is in flight only after it was asked for.
LEMMA LetGoSentStep ==
  ASSUME TypeOK, LetGoSent, [Next]_vars
  PROVE  LetGoSent'
<1>t. call \in [Handle -> [Op -> Cell]] /\ pc \in [Handle -> {"idle", "acquiring", "backoff", "held", "failed", "dead"}]
      /\ ttlLeft \in Nat /\ lease \in [Handle -> 0..Ttl] /\ Ttl \in Nat /\ Ttl > 0
      /\ letGo \in [Handle -> BOOLEAN] /\ evicted \in [Handle -> BOOLEAN]
      /\ \A k \in Handle, o \in Op : call[k][o].age \in 0..Ttl /\ call[k][o].ttl \in Nat
      /\ released \in [Handle -> BOOLEAN] /\ lost \in SUBSET Handle
      /\ owner \in Handle \cup {NoOwner} /\ NoOwner \notin Handle
  BY ConstantFacts, CellRange DEF TypeOK
<1>o. Op = {"acquire", "release", "destroy", "renew", "extend"}
  BY DEF Op
<1> USE <1>t, <1>o DEF LetGoSent
<1>1. ASSUME NEW h \in Handle, StartAcquire(h) PROVE LetGoSent'
  BY <1>1 DEF StartAcquire, SetNxPx, Sent, redisVars, entityVars, serviceVars, timerVars, ghostVars
<1>2. ASSUME NEW h \in Handle, RetryAcquire(h) PROVE LetGoSent'
  BY <1>2 DEF RetryAcquire, SetNxPx, Sent, redisVars, entityVars, serviceVars, timerVars, ghostVars
<1>3. ASSUME NEW h \in Handle, AcquireGranted(h) PROVE LetGoSent'
  BY <1>3 DEF AcquireGranted, Idle, redisVars, entityVars, serviceVars, timerVars, ghostVars
<1>4. ASSUME NEW h \in Handle, AcquireRefused(h) PROVE LetGoSent'
  BY <1>4 DEF AcquireRefused, Idle, redisVars, entityVars, serviceVars, timerVars, ghostVars
<1>5. ASSUME NEW h \in Handle, Release(h) PROVE LetGoSent'
  BY <1>5 DEF Release, Sent, Disarm, redisVars, entityVars, serviceVars, timerVars, ghostVars
<1>6. ASSUME NEW h \in Handle, ReleaseAgain(h) PROVE LetGoSent'
  BY <1>6 DEF ReleaseAgain, redisVars, entityVars, serviceVars, timerVars, ghostVars
<1>7. ASSUME NEW h \in Handle, RenewTimer(h) PROVE LetGoSent'
  BY <1>7 DEF RenewTimer, Sent, redisVars, entityVars, serviceVars, timerVars, ghostVars
<1>8. ASSUME NEW h \in Handle, StopAutoRenew(h) PROVE LetGoSent'
  BY <1>8 DEF StopAutoRenew, Disarm, redisVars, entityVars, serviceVars, timerVars, ghostVars
<1>9. ASSUME NEW h \in Handle, NEW d \in ExtendTtls, Extend(h, d) PROVE LetGoSent'
  BY <1>9 DEF Extend, Sent, redisVars, entityVars, serviceVars, timerVars, ghostVars
<1>10. ASSUME NEW h \in Handle, NEW op \in Op, ReleaseReply(h, op) PROVE LetGoSent'
  BY <1>10 DEF ReleaseReply, Idle, ReleasedAfter, redisVars, entityVars, serviceVars, timerVars, ghostVars
<1>11. ASSUME NEW h \in Handle, NEW op \in Op, ExtendReply(h, op) PROVE LetGoSent'
  BY <1>11 DEF ExtendReply, Idle, Disarm, redisVars, entityVars, serviceVars, timerVars, ghostVars
<1>12. ASSUME NEW h \in Handle, NEW op \in Op, Fail(h, op) PROVE LetGoSent'
  <2>1. /\ \A k \in Handle : pc'[k] = IF k = h /\ op = "acquire" THEN "failed" ELSE pc[k]
        /\ call[h][op].st \in {"sent", "yes", "no"}
        /\ UNCHANGED letGo
    BY <1>12 DEF Fail, AfterError, ReleasedAfter, redisVars, entityVars, serviceVars, timerVars, ghostVars
  <2>2. /\ \A k \in Handle, o \in Op : k # h \/ o # op => call'[k][o] = call[k][o]
        /\ \/ call'[h][op].st = "idle"
           \/ /\ call[h][op].st = "sent" /\ call'[h][op].st = "orphan"
              /\ call'[h][op].ttl = call[h][op].ttl
    BY <1>12, FailedCell
  <2> QED
    BY <2>1, <2>2
<1>13. ASSUME NEW h \in Handle, ExecSet(h) PROVE LetGoSent'
  <2>1. /\ \A k \in Handle, o \in Op : k # h \/ o # "acquire" => call'[k][o] = call[k][o]
        /\ call[h]["acquire"].st \in {"sent", "orphan"}
        /\ call[h]["acquire"].st = "orphan" => call'[h]["acquire"].st = "idle"
        /\ call[h]["acquire"].st = "sent" =>
             /\ call'[h]["acquire"].st = IF owner = NoOwner THEN "yes" ELSE "no"
             /\ call'[h]["acquire"].ttl = call[h]["acquire"].ttl
             /\ call'[h]["acquire"].age = call[h]["acquire"].age
    BY <1>13, SetCells
  <2>2. UNCHANGED letGo
    BY <1>13 DEF ExecSet, redisVars, entityVars, serviceVars, timerVars, ghostVars
  <2> QED
    BY <2>1, <2>2
<1>14. ASSUME NEW h \in Handle, NEW op \in Op, ExecRelease(h, op) PROVE LetGoSent'
  <2>1. /\ \A k \in Handle, o \in Op : k # h \/ o # op => call'[k][o] = call[k][o]
        /\ call[h][op].st \in {"sent", "orphan"}
        /\ call[h][op].st = "orphan" => call'[h][op].st = "idle"
        /\ call[h][op].st = "sent" =>
             /\ call'[h][op].st = IF Owns(h) THEN "yes" ELSE "no"
             /\ call'[h][op].ttl = call[h][op].ttl
             /\ call'[h][op].age = call[h][op].age
    BY <1>14, ReleaseCells
  <2>2. UNCHANGED letGo
    BY <1>14 DEF ExecRelease, redisVars, entityVars, serviceVars, timerVars, ghostVars
  <2> QED
    BY <2>1, <2>2 DEF Owns
<1>15. ASSUME NEW h \in Handle, NEW op \in Op, ExecExtend(h, op) PROVE LetGoSent'
  <2>1. /\ \A k \in Handle, o \in Op : k # h \/ o # op => call'[k][o] = call[k][o]
        /\ call[h][op].st \in {"sent", "orphan"}
        /\ call[h][op].st = "orphan" => call'[h][op].st = "idle"
        /\ call[h][op].st = "sent" =>
             /\ call'[h][op].st = IF Owns(h) THEN "yes" ELSE "no"
             /\ call'[h][op].ttl = call[h][op].ttl
             /\ call'[h][op].age = call[h][op].age
    BY <1>15, ExtendCells
  <2>2. UNCHANGED letGo
    BY <1>15 DEF ExecExtend, redisVars, entityVars, serviceVars, timerVars, ghostVars
  <2> QED
    BY <2>1, <2>2 DEF Owns
<1>16. ASSUME NEW s \in Service, Destroy(s) PROVE LetGoSent'
  BY <1>16 DEF Destroy, Sent, Disarm, redisVars, entityVars, serviceVars, timerVars, ghostVars
<1>17. ASSUME NEW s \in Service, Destroyed(s) PROVE LetGoSent'
  BY <1>17 DEF Destroyed, redisVars, entityVars, serviceVars, timerVars, ghostVars
<1>18. ASSUME NEW s \in Service, Crash(s) PROVE LetGoSent'
  <2>1. UNCHANGED letGo
    BY <1>18 DEF Crash
  <2>2. \A k \in Handle, o \in Op :
          /\ Home[k] # s => call'[k][o] = call[k][o]
          /\ Home[k] = s =>
               \/ call'[k][o].st = "idle"
               \/ /\ call[k][o].st \in {"sent", "orphan"} /\ call'[k][o].st = "orphan"
                  /\ call'[k][o].ttl = call[k][o].ttl
    BY <1>18, CrashedCell
  <2>3. \A k \in Handle, o \in Op : call'[k][o].st # "idle" => call[k][o].st # "idle"
    BY <2>2
  <2> QED
    BY <2>1, <2>3
<1>19. ASSUME ForceRelease PROVE LetGoSent'
  BY <1>19 DEF ForceRelease, Faulty, redisVars, entityVars, serviceVars, timerVars, ghostVars
<1>20. ASSUME Tick PROVE LetGoSent'
  <2>1. \A k \in Handle, o \in Op :
          call'[k][o].st = call[k][o].st /\ call'[k][o].ttl = call[k][o].ttl
    BY <1>20, TickedCell
  <2>2. UNCHANGED letGo
    BY <1>20 DEF Tick, Less1, redisVars, entityVars, serviceVars, timerVars, ghostVars
  <2> QED
    BY SMTT(40), <2>1, <2>2
<1>21. CASE UNCHANGED vars
  BY <1>21 DEF vars, redisVars, entityVars, serviceVars, timerVars, ghostVars
<1> QED
  BY <1>1, <1>2, <1>3, <1>4, <1>5, <1>6, <1>7, <1>8, <1>9, <1>10, <1>11, <1>12, <1>13, <1>14, <1>15, <1>16, <1>17, <1>18, <1>19, <1>20, <1>21 DEF Next, Execute, Settle

\* No step sends a SET or a PEXPIRE with less than Ttl.
LEMMA EnoughTtlStep ==
  ASSUME LongExtends, TypeOK, EnoughTtl, [Next]_vars
  PROVE  EnoughTtl'
<1>t. call \in [Handle -> [Op -> Cell]] /\ pc \in [Handle -> {"idle", "acquiring", "backoff", "held", "failed", "dead"}]
      /\ ttlLeft \in Nat /\ lease \in [Handle -> 0..Ttl] /\ Ttl \in Nat /\ Ttl > 0
      /\ letGo \in [Handle -> BOOLEAN] /\ evicted \in [Handle -> BOOLEAN]
      /\ \A k \in Handle, o \in Op : call[k][o].age \in 0..Ttl /\ call[k][o].ttl \in Nat
      /\ released \in [Handle -> BOOLEAN] /\ lost \in SUBSET Handle
      /\ owner \in Handle \cup {NoOwner} /\ NoOwner \notin Handle
  BY ConstantFacts, CellRange DEF TypeOK
<1>o. Op = {"acquire", "release", "destroy", "renew", "extend"}
  BY DEF Op
<1> USE <1>t, <1>o DEF EnoughTtl, LongExtends, Timed
<1>1. ASSUME NEW h \in Handle, StartAcquire(h) PROVE EnoughTtl'
  BY <1>1 DEF StartAcquire, SetNxPx, Sent, redisVars, entityVars, serviceVars, timerVars, ghostVars
<1>2. ASSUME NEW h \in Handle, RetryAcquire(h) PROVE EnoughTtl'
  BY <1>2 DEF RetryAcquire, SetNxPx, Sent, redisVars, entityVars, serviceVars, timerVars, ghostVars
<1>3. ASSUME NEW h \in Handle, AcquireGranted(h) PROVE EnoughTtl'
  BY <1>3 DEF AcquireGranted, Idle, redisVars, entityVars, serviceVars, timerVars, ghostVars
<1>4. ASSUME NEW h \in Handle, AcquireRefused(h) PROVE EnoughTtl'
  BY <1>4 DEF AcquireRefused, Idle, redisVars, entityVars, serviceVars, timerVars, ghostVars
<1>5. ASSUME NEW h \in Handle, Release(h) PROVE EnoughTtl'
  BY <1>5 DEF Release, Sent, Disarm, redisVars, entityVars, serviceVars, timerVars, ghostVars
<1>6. ASSUME NEW h \in Handle, ReleaseAgain(h) PROVE EnoughTtl'
  BY <1>6 DEF ReleaseAgain, redisVars, entityVars, serviceVars, timerVars, ghostVars
<1>7. ASSUME NEW h \in Handle, RenewTimer(h) PROVE EnoughTtl'
  BY <1>7 DEF RenewTimer, RenewalTtl, Sent, redisVars, entityVars, serviceVars, timerVars, ghostVars
<1>8. ASSUME NEW h \in Handle, StopAutoRenew(h) PROVE EnoughTtl'
  BY <1>8 DEF StopAutoRenew, Disarm, redisVars, entityVars, serviceVars, timerVars, ghostVars
<1>9. ASSUME NEW h \in Handle, NEW d \in ExtendTtls, Extend(h, d) PROVE EnoughTtl'
  BY <1>9 DEF Extend, Sent, redisVars, entityVars, serviceVars, timerVars, ghostVars
<1>10. ASSUME NEW h \in Handle, NEW op \in Op, ReleaseReply(h, op) PROVE EnoughTtl'
  BY <1>10 DEF ReleaseReply, Idle, ReleasedAfter, redisVars, entityVars, serviceVars, timerVars, ghostVars
<1>11. ASSUME NEW h \in Handle, NEW op \in Op, ExtendReply(h, op) PROVE EnoughTtl'
  BY <1>11 DEF ExtendReply, Idle, Disarm, redisVars, entityVars, serviceVars, timerVars, ghostVars
<1>12. ASSUME NEW h \in Handle, NEW op \in Op, Fail(h, op) PROVE EnoughTtl'
  <2>1. /\ \A k \in Handle : pc'[k] = IF k = h /\ op = "acquire" THEN "failed" ELSE pc[k]
        /\ call[h][op].st \in {"sent", "yes", "no"}
        
    BY <1>12 DEF Fail, AfterError, ReleasedAfter, redisVars, entityVars, serviceVars, timerVars, ghostVars
  <2>2. /\ \A k \in Handle, o \in Op : k # h \/ o # op => call'[k][o] = call[k][o]
        /\ \/ call'[h][op].st = "idle"
           \/ /\ call[h][op].st = "sent" /\ call'[h][op].st = "orphan"
              /\ call'[h][op].ttl = call[h][op].ttl
    BY <1>12, FailedCell
  <2> QED
    BY <2>1, <2>2
<1>13. ASSUME NEW h \in Handle, ExecSet(h) PROVE EnoughTtl'
  <2>1. /\ \A k \in Handle, o \in Op : k # h \/ o # "acquire" => call'[k][o] = call[k][o]
        /\ call[h]["acquire"].st \in {"sent", "orphan"}
        /\ call[h]["acquire"].st = "orphan" => call'[h]["acquire"].st = "idle"
        /\ call[h]["acquire"].st = "sent" =>
             /\ call'[h]["acquire"].st = IF owner = NoOwner THEN "yes" ELSE "no"
             /\ call'[h]["acquire"].ttl = call[h]["acquire"].ttl
             /\ call'[h]["acquire"].age = call[h]["acquire"].age
    BY <1>13, SetCells
  <2>2. UNCHANGED pc
    BY <1>13 DEF ExecSet, redisVars, entityVars, serviceVars, timerVars, ghostVars
  <2> QED
    BY <2>1, <2>2
<1>14. ASSUME NEW h \in Handle, NEW op \in Op, ExecRelease(h, op) PROVE EnoughTtl'
  <2>1. /\ \A k \in Handle, o \in Op : k # h \/ o # op => call'[k][o] = call[k][o]
        /\ call[h][op].st \in {"sent", "orphan"}
        /\ call[h][op].st = "orphan" => call'[h][op].st = "idle"
        /\ call[h][op].st = "sent" =>
             /\ call'[h][op].st = IF Owns(h) THEN "yes" ELSE "no"
             /\ call'[h][op].ttl = call[h][op].ttl
             /\ call'[h][op].age = call[h][op].age
    BY <1>14, ReleaseCells
  <2>2. UNCHANGED pc /\ op \in {"release", "destroy"}
    BY <1>14 DEF ExecRelease, redisVars, entityVars, serviceVars, timerVars, ghostVars
  <2> QED
    BY <2>1, <2>2 DEF Owns
<1>15. ASSUME NEW h \in Handle, NEW op \in Op, ExecExtend(h, op) PROVE EnoughTtl'
  <2>1. /\ \A k \in Handle, o \in Op : k # h \/ o # op => call'[k][o] = call[k][o]
        /\ call[h][op].st \in {"sent", "orphan"}
        /\ call[h][op].st = "orphan" => call'[h][op].st = "idle"
        /\ call[h][op].st = "sent" =>
             /\ call'[h][op].st = IF Owns(h) THEN "yes" ELSE "no"
             /\ call'[h][op].ttl = call[h][op].ttl
             /\ call'[h][op].age = call[h][op].age
    BY <1>15, ExtendCells
  <2>2. UNCHANGED pc
    BY <1>15 DEF ExecExtend, redisVars, entityVars, serviceVars, timerVars, ghostVars
  <2> QED
    BY <2>1, <2>2 DEF Owns
<1>16. ASSUME NEW s \in Service, Destroy(s) PROVE EnoughTtl'
  BY <1>16 DEF Destroy, Sent, Disarm, redisVars, entityVars, serviceVars, timerVars, ghostVars
<1>17. ASSUME NEW s \in Service, Destroyed(s) PROVE EnoughTtl'
  BY <1>17 DEF Destroyed, redisVars, entityVars, serviceVars, timerVars, ghostVars
<1>18. ASSUME NEW s \in Service, Crash(s) PROVE EnoughTtl'
  <2>2. \A k \in Handle, o \in Op :
          /\ Home[k] # s => call'[k][o] = call[k][o]
          /\ Home[k] = s =>
               \/ call'[k][o].st = "idle"
               \/ /\ call[k][o].st \in {"sent", "orphan"} /\ call'[k][o].st = "orphan"
                  /\ call'[k][o].ttl = call[k][o].ttl
    BY <1>18, CrashedCell
  <2>3. \A k \in Handle, o \in Op : call'[k][o].st \in {"sent", "orphan", "yes"} =>
          call[k][o].st \in {"sent", "orphan", "yes"} /\ call'[k][o].ttl = call[k][o].ttl
    BY <2>2
  <2> QED
    BY <2>3
<1>19. ASSUME ForceRelease PROVE EnoughTtl'
  BY <1>19 DEF ForceRelease, Faulty, redisVars, entityVars, serviceVars, timerVars, ghostVars
<1>20. ASSUME Tick PROVE EnoughTtl'
  <2>1. \A k \in Handle, o \in Op :
          call'[k][o].st = call[k][o].st /\ call'[k][o].ttl = call[k][o].ttl
    BY <1>20, TickedCell
  <2>2. UNCHANGED pc
    BY <1>20 DEF Tick, Less1, redisVars, entityVars, serviceVars, timerVars, ghostVars
  <2> QED
    BY SMTT(40), <2>1, <2>2
<1>21. CASE UNCHANGED vars
  BY <1>21 DEF vars, redisVars, entityVars, serviceVars, timerVars, ghostVars
<1> QED
  BY <1>1, <1>2, <1>3, <1>4, <1>5, <1>6, <1>7, <1>8, <1>9, <1>10, <1>11, <1>12, <1>13, <1>14, <1>15, <1>16, <1>17, <1>18, <1>19, <1>20, <1>21 DEF Next, Execute, Settle

\* A confirmation on its way to its caller stays true until its age passes Ttl.
LEMMA ConfirmedLeaseStep ==
  ASSUME LongExtends, TypeOK, Phases, KeyExpires, LetGoSent, EnoughTtl, ConfirmedLease, [Next]_vars
  PROVE  ConfirmedLease'
<1>t. call \in [Handle -> [Op -> Cell]] /\ pc \in [Handle -> {"idle", "acquiring", "backoff", "held", "failed", "dead"}]
      /\ ttlLeft \in Nat /\ lease \in [Handle -> 0..Ttl] /\ Ttl \in Nat /\ Ttl > 0
      /\ letGo \in [Handle -> BOOLEAN] /\ evicted \in [Handle -> BOOLEAN]
      /\ \A k \in Handle, o \in Op : call[k][o].age \in 0..Ttl /\ call[k][o].ttl \in Nat
      /\ released \in [Handle -> BOOLEAN] /\ lost \in SUBSET Handle
      /\ owner \in Handle \cup {NoOwner} /\ NoOwner \notin Handle
  BY ConstantFacts, CellRange DEF TypeOK
<1>o. Op = {"acquire", "release", "destroy", "renew", "extend"}
  BY DEF Op
<1> USE <1>t, <1>o DEF ConfirmedLease, LetGoSent, EnoughTtl, KeyExpires, Timed
<1>1. ASSUME NEW h \in Handle, StartAcquire(h) PROVE ConfirmedLease'
  BY <1>1 DEF StartAcquire, SetNxPx, Sent, redisVars, entityVars, serviceVars, timerVars, ghostVars
<1>2. ASSUME NEW h \in Handle, RetryAcquire(h) PROVE ConfirmedLease'
  BY <1>2 DEF RetryAcquire, SetNxPx, Sent, redisVars, entityVars, serviceVars, timerVars, ghostVars
<1>3. ASSUME NEW h \in Handle, AcquireGranted(h) PROVE ConfirmedLease'
  BY <1>3 DEF AcquireGranted, Idle, redisVars, entityVars, serviceVars, timerVars, ghostVars
<1>4. ASSUME NEW h \in Handle, AcquireRefused(h) PROVE ConfirmedLease'
  BY <1>4 DEF AcquireRefused, Idle, redisVars, entityVars, serviceVars, timerVars, ghostVars
<1>5. ASSUME NEW h \in Handle, Release(h) PROVE ConfirmedLease'
  BY <1>5 DEF Release, Sent, Disarm, redisVars, entityVars, serviceVars, timerVars, ghostVars
<1>6. ASSUME NEW h \in Handle, ReleaseAgain(h) PROVE ConfirmedLease'
  BY <1>6 DEF ReleaseAgain, redisVars, entityVars, serviceVars, timerVars, ghostVars
<1>7. ASSUME NEW h \in Handle, RenewTimer(h) PROVE ConfirmedLease'
  BY <1>7 DEF RenewTimer, Sent, redisVars, entityVars, serviceVars, timerVars, ghostVars
<1>8. ASSUME NEW h \in Handle, StopAutoRenew(h) PROVE ConfirmedLease'
  BY <1>8 DEF StopAutoRenew, Disarm, redisVars, entityVars, serviceVars, timerVars, ghostVars
<1>9. ASSUME NEW h \in Handle, NEW d \in ExtendTtls, Extend(h, d) PROVE ConfirmedLease'
  BY <1>9 DEF Extend, Sent, redisVars, entityVars, serviceVars, timerVars, ghostVars
<1>10. ASSUME NEW h \in Handle, NEW op \in Op, ReleaseReply(h, op) PROVE ConfirmedLease'
  BY <1>10 DEF ReleaseReply, Idle, ReleasedAfter, redisVars, entityVars, serviceVars, timerVars, ghostVars
<1>11. ASSUME NEW h \in Handle, NEW op \in Op, ExtendReply(h, op) PROVE ConfirmedLease'
  BY <1>11 DEF ExtendReply, Idle, Disarm, redisVars, entityVars, serviceVars, timerVars, ghostVars
<1>12. ASSUME NEW h \in Handle, NEW op \in Op, Fail(h, op) PROVE ConfirmedLease'
  <2>1. /\ \A k \in Handle : pc'[k] = IF k = h /\ op = "acquire" THEN "failed" ELSE pc[k]
        /\ call[h][op].st \in {"sent", "yes", "no"}
        /\ UNCHANGED <<owner, ttlLeft, lease, letGo, evicted>>
    BY <1>12 DEF Fail, AfterError, ReleasedAfter, redisVars, entityVars, serviceVars, timerVars, ghostVars
  <2>2. /\ \A k \in Handle, o \in Op : k # h \/ o # op => call'[k][o] = call[k][o]
        /\ \/ call'[h][op].st = "idle"
           \/ /\ call[h][op].st = "sent" /\ call'[h][op].st = "orphan"
              /\ call'[h][op].ttl = call[h][op].ttl
    BY <1>12, FailedCell
  <2> QED
    BY <2>1, <2>2
<1>13. ASSUME NEW h \in Handle, ExecSet(h) PROVE ConfirmedLease'
  <2>1. /\ \A k \in Handle, o \in Op : k # h \/ o # "acquire" => call'[k][o] = call[k][o]
        /\ call[h]["acquire"].st \in {"sent", "orphan"}
        /\ call[h]["acquire"].st = "orphan" => call'[h]["acquire"].st = "idle"
        /\ call[h]["acquire"].st = "sent" =>
             /\ call'[h]["acquire"].st = IF owner = NoOwner THEN "yes" ELSE "no"
             /\ call'[h]["acquire"].ttl = call[h]["acquire"].ttl
             /\ call'[h]["acquire"].age = call[h]["acquire"].age
    BY <1>13, SetCells
  <2>2. /\ UNCHANGED <<pc, lease, letGo, evicted>>
        /\ owner = NoOwner => owner' = h /\ ttlLeft' = call[h]["acquire"].ttl
        /\ owner # NoOwner => UNCHANGED <<owner, ttlLeft>>
    BY <1>13 DEF ExecSet, redisVars, entityVars, serviceVars, timerVars, ghostVars
  <2> QED
    BY <2>1, <2>2
<1>14. ASSUME NEW h \in Handle, NEW op \in Op, ExecRelease(h, op) PROVE ConfirmedLease'
  <2>1. /\ \A k \in Handle, o \in Op : k # h \/ o # op => call'[k][o] = call[k][o]
        /\ call[h][op].st \in {"sent", "orphan"}
        /\ call[h][op].st = "orphan" => call'[h][op].st = "idle"
        /\ call[h][op].st = "sent" =>
             /\ call'[h][op].st = IF Owns(h) THEN "yes" ELSE "no"
             /\ call'[h][op].ttl = call[h][op].ttl
             /\ call'[h][op].age = call[h][op].age
    BY <1>14, ReleaseCells
  <2>2. /\ UNCHANGED <<pc, lease, letGo, evicted>> /\ op \in {"release", "destroy"}
        /\ Owns(h) => owner' = NoOwner /\ ttlLeft' = 0
        /\ ~Owns(h) => UNCHANGED <<owner, ttlLeft>>
    BY <1>14 DEF ExecRelease, redisVars, entityVars, serviceVars, timerVars, ghostVars
  <2> QED
    BY <2>1, <2>2 DEF Owns
<1>15. ASSUME NEW h \in Handle, NEW op \in Op, ExecExtend(h, op) PROVE ConfirmedLease'
  <2>1. /\ \A k \in Handle, o \in Op : k # h \/ o # op => call'[k][o] = call[k][o]
        /\ call[h][op].st \in {"sent", "orphan"}
        /\ call[h][op].st = "orphan" => call'[h][op].st = "idle"
        /\ call[h][op].st = "sent" =>
             /\ call'[h][op].st = IF Owns(h) THEN "yes" ELSE "no"
             /\ call'[h][op].ttl = call[h][op].ttl
             /\ call'[h][op].age = call[h][op].age
    BY <1>15, ExtendCells
  <2>2. /\ UNCHANGED <<pc, owner, lease, letGo, evicted>> /\ op \in {"renew", "extend"}
        /\ ttlLeft' = IF Owns(h) THEN call[h][op].ttl ELSE ttlLeft
    BY <1>15 DEF ExecExtend, redisVars, entityVars, serviceVars, timerVars, ghostVars
  <2> QED
    BY <2>1, <2>2 DEF Owns
<1>16. ASSUME NEW s \in Service, Destroy(s) PROVE ConfirmedLease'
  BY <1>16 DEF Destroy, Sent, Disarm, redisVars, entityVars, serviceVars, timerVars, ghostVars
<1>17. ASSUME NEW s \in Service, Destroyed(s) PROVE ConfirmedLease'
  BY <1>17 DEF Destroyed, redisVars, entityVars, serviceVars, timerVars, ghostVars
<1>18. ASSUME NEW s \in Service, Crash(s) PROVE ConfirmedLease'
  <2>1. /\ pc' = [k \in Handle |-> IF Home[k] = s THEN "dead" ELSE pc[k]]
        /\ UNCHANGED <<owner, ttlLeft, lease, letGo, evicted>>
    BY <1>18 DEF Crash, redisVars, entityVars, serviceVars, timerVars, ghostVars
  <2>2. \A k \in Handle, o \in Op :
          /\ Home[k] # s => call'[k][o] = call[k][o]
          /\ Home[k] = s =>
               \/ call'[k][o].st = "idle"
               \/ /\ call[k][o].st \in {"sent", "orphan"} /\ call'[k][o].st = "orphan"
                  /\ call'[k][o].ttl = call[k][o].ttl
    BY <1>18, CrashedCell
  <2> QED
    BY SMTT(40), <2>1, <2>2
<1>19. ASSUME ForceRelease PROVE ConfirmedLease'
  BY <1>19 DEF ForceRelease, Faulty, redisVars, entityVars, serviceVars, timerVars, ghostVars
<1>20. ASSUME Tick PROVE ConfirmedLease'
  <2>1. \A k \in Handle, o \in Op :
          /\ call'[k][o].st = call[k][o].st
          /\ call[k][o].st = "yes" /\ o \in Timed =>
               call'[k][o].age = IF call[k][o].age + 1 <= Ttl THEN call[k][o].age + 1 ELSE Ttl
    BY <1>20, TickedCell DEF Least
  <2>2. /\ UNCHANGED <<pc, letGo, evicted>>
        /\ owner' = IF ttlLeft = 1 THEN NoOwner ELSE owner
        /\ ttlLeft' = IF ttlLeft > 0 THEN ttlLeft - 1 ELSE 0
        /\ \A k \in Handle : lease'[k] = IF lease[k] > 0 THEN lease[k] - 1 ELSE 0
    BY <1>20 DEF Tick, Less1, redisVars, entityVars, serviceVars, timerVars, ghostVars
  <2> SUFFICES ASSUME NEW k \in Handle, NEW o \in Timed,
                      call'[k][o].st = "yes", ~letGo'[k], ~evicted'[k], call'[k][o].age < Ttl
               PROVE  owner' = k /\ Ttl - call'[k][o].age <= ttlLeft'
    OBVIOUS
  <2>3. /\ o \in Op /\ call[k][o].age \in 0..Ttl
        /\ call[k][o].st = "yes" /\ ~letGo[k] /\ ~evicted[k]
    BY <2>1, <2>2
  <2>4. call'[k][o].age = call[k][o].age + 1 /\ call[k][o].age + 1 < Ttl
    BY <2>1, <2>3
  <2>5. owner = k /\ Ttl - call[k][o].age <= ttlLeft
    BY <2>3, <2>4
  <2> QED
    BY <2>2, <2>3, <2>4, <2>5
<1>21. CASE UNCHANGED vars
  BY <1>21 DEF vars, redisVars, entityVars, serviceVars, timerVars, ghostVars
<1> QED
  BY <1>1, <1>2, <1>3, <1>4, <1>5, <1>6, <1>7, <1>8, <1>9, <1>10, <1>11, <1>12, <1>13, <1>14, <1>15, <1>16, <1>17, <1>18, <1>19, <1>20, <1>21 DEF Next, Execute, Settle

\* No step takes the key from a handle inside its lease, or shortens it below.
LEMMA LeaseHeldStep ==
  ASSUME LongExtends, TypeOK, Phases, KeyExpires, LetGoSent, EnoughTtl, ConfirmedLease, LeaseHeld, [Next]_vars
  PROVE  LeaseHeld'
<1>t. call \in [Handle -> [Op -> Cell]] /\ pc \in [Handle -> {"idle", "acquiring", "backoff", "held", "failed", "dead"}]
      /\ ttlLeft \in Nat /\ lease \in [Handle -> 0..Ttl] /\ Ttl \in Nat /\ Ttl > 0
      /\ letGo \in [Handle -> BOOLEAN] /\ evicted \in [Handle -> BOOLEAN]
      /\ \A k \in Handle, o \in Op : call[k][o].age \in 0..Ttl /\ call[k][o].ttl \in Nat
      /\ released \in [Handle -> BOOLEAN] /\ lost \in SUBSET Handle
      /\ owner \in Handle \cup {NoOwner} /\ NoOwner \notin Handle
  BY ConstantFacts, CellRange DEF TypeOK
<1>o. Op = {"acquire", "release", "destroy", "renew", "extend"}
  BY DEF Op
<1> USE <1>t, <1>o DEF LeaseHeld, Confident, ConfirmedLease, LetGoSent, EnoughTtl, KeyExpires, Timed
<1>1. ASSUME NEW h \in Handle, StartAcquire(h) PROVE LeaseHeld'
  BY <1>1 DEF StartAcquire, SetNxPx, Sent, redisVars, entityVars, serviceVars, timerVars, ghostVars
<1>2. ASSUME NEW h \in Handle, RetryAcquire(h) PROVE LeaseHeld'
  BY <1>2 DEF RetryAcquire, SetNxPx, Sent, redisVars, entityVars, serviceVars, timerVars, ghostVars
<1>3. ASSUME NEW h \in Handle, AcquireGranted(h) PROVE LeaseHeld'
  BY <1>3 DEF AcquireGranted, Idle, redisVars, entityVars, serviceVars, timerVars, ghostVars
<1>4. ASSUME NEW h \in Handle, AcquireRefused(h) PROVE LeaseHeld'
  BY <1>4 DEF AcquireRefused, Idle, redisVars, entityVars, serviceVars, timerVars, ghostVars
<1>5. ASSUME NEW h \in Handle, Release(h) PROVE LeaseHeld'
  BY <1>5 DEF Release, Sent, Disarm, redisVars, entityVars, serviceVars, timerVars, ghostVars
<1>6. ASSUME NEW h \in Handle, ReleaseAgain(h) PROVE LeaseHeld'
  BY <1>6 DEF ReleaseAgain, redisVars, entityVars, serviceVars, timerVars, ghostVars
<1>7. ASSUME NEW h \in Handle, RenewTimer(h) PROVE LeaseHeld'
  BY <1>7 DEF RenewTimer, Sent, redisVars, entityVars, serviceVars, timerVars, ghostVars
<1>8. ASSUME NEW h \in Handle, StopAutoRenew(h) PROVE LeaseHeld'
  BY <1>8 DEF StopAutoRenew, Disarm, redisVars, entityVars, serviceVars, timerVars, ghostVars
<1>9. ASSUME NEW h \in Handle, NEW d \in ExtendTtls, Extend(h, d) PROVE LeaseHeld'
  BY <1>9 DEF Extend, Sent, redisVars, entityVars, serviceVars, timerVars, ghostVars
<1>10. ASSUME NEW h \in Handle, NEW op \in Op, ReleaseReply(h, op) PROVE LeaseHeld'
  BY <1>10 DEF ReleaseReply, Idle, ReleasedAfter, redisVars, entityVars, serviceVars, timerVars, ghostVars
<1>11. ASSUME NEW h \in Handle, NEW op \in Op, ExtendReply(h, op) PROVE LeaseHeld'
  <2>1. UNCHANGED <<owner, ttlLeft, pc, letGo, evicted>> /\ op \in Timed
    BY <1>11 DEF ExtendReply, redisVars
  <2>2. CASE call[h][op].st = "yes" /\ lease' = [lease EXCEPT ![h] = Ttl - call[h][op].age]
    BY <2>1, <2>2
  <2>3. CASE UNCHANGED lease
    BY <2>1, <2>3
  <2> QED
    BY <1>11, <2>2, <2>3 DEF ExtendReply
<1>12. ASSUME NEW h \in Handle, NEW op \in Op, Fail(h, op) PROVE LeaseHeld'
  <2>1. /\ \A k \in Handle : pc'[k] = IF k = h /\ op = "acquire" THEN "failed" ELSE pc[k]
        /\ call[h][op].st \in {"sent", "yes", "no"}
        /\ UNCHANGED <<owner, ttlLeft, lease, letGo, evicted>>
    BY <1>12 DEF Fail, AfterError, ReleasedAfter, redisVars, entityVars, serviceVars, timerVars, ghostVars
  <2>2. /\ \A k \in Handle, o \in Op : k # h \/ o # op => call'[k][o] = call[k][o]
        /\ \/ call'[h][op].st = "idle"
           \/ /\ call[h][op].st = "sent" /\ call'[h][op].st = "orphan"
              /\ call'[h][op].ttl = call[h][op].ttl
    BY <1>12, FailedCell
  <2> QED
    BY <2>1, <2>2
<1>13. ASSUME NEW h \in Handle, ExecSet(h) PROVE LeaseHeld'
  <2>1. /\ \A k \in Handle, o \in Op : k # h \/ o # "acquire" => call'[k][o] = call[k][o]
        /\ call[h]["acquire"].st \in {"sent", "orphan"}
        /\ call[h]["acquire"].st = "orphan" => call'[h]["acquire"].st = "idle"
        /\ call[h]["acquire"].st = "sent" =>
             /\ call'[h]["acquire"].st = IF owner = NoOwner THEN "yes" ELSE "no"
             /\ call'[h]["acquire"].ttl = call[h]["acquire"].ttl
             /\ call'[h]["acquire"].age = call[h]["acquire"].age
    BY <1>13, SetCells
  <2>2. /\ UNCHANGED <<pc, lease, letGo, evicted>>
        /\ owner = NoOwner => owner' = h /\ ttlLeft' = call[h]["acquire"].ttl
        /\ owner # NoOwner => UNCHANGED <<owner, ttlLeft>>
    BY <1>13 DEF ExecSet, redisVars, entityVars, serviceVars, timerVars, ghostVars
  <2> QED
    BY <2>1, <2>2
<1>14. ASSUME NEW h \in Handle, NEW op \in Op, ExecRelease(h, op) PROVE LeaseHeld'
  <2>1. /\ \A k \in Handle, o \in Op : k # h \/ o # op => call'[k][o] = call[k][o]
        /\ call[h][op].st \in {"sent", "orphan"}
        /\ call[h][op].st = "orphan" => call'[h][op].st = "idle"
        /\ call[h][op].st = "sent" =>
             /\ call'[h][op].st = IF Owns(h) THEN "yes" ELSE "no"
             /\ call'[h][op].ttl = call[h][op].ttl
             /\ call'[h][op].age = call[h][op].age
    BY <1>14, ReleaseCells
  <2>2. /\ UNCHANGED <<pc, lease, letGo, evicted>> /\ op \in {"release", "destroy"}
        /\ Owns(h) => owner' = NoOwner /\ ttlLeft' = 0
        /\ ~Owns(h) => UNCHANGED <<owner, ttlLeft>>
    BY <1>14 DEF ExecRelease, redisVars, entityVars, serviceVars, timerVars, ghostVars
  <2> QED
    BY <2>1, <2>2 DEF Owns
<1>15. ASSUME NEW h \in Handle, NEW op \in Op, ExecExtend(h, op) PROVE LeaseHeld'
  <2>1. /\ \A k \in Handle, o \in Op : k # h \/ o # op => call'[k][o] = call[k][o]
        /\ call[h][op].st \in {"sent", "orphan"}
        /\ call[h][op].st = "orphan" => call'[h][op].st = "idle"
        /\ call[h][op].st = "sent" =>
             /\ call'[h][op].st = IF Owns(h) THEN "yes" ELSE "no"
             /\ call'[h][op].ttl = call[h][op].ttl
             /\ call'[h][op].age = call[h][op].age
    BY <1>15, ExtendCells
  <2>2. /\ UNCHANGED <<pc, owner, lease, letGo, evicted>> /\ op \in {"renew", "extend"}
        /\ ttlLeft' = IF Owns(h) THEN call[h][op].ttl ELSE ttlLeft
    BY <1>15 DEF ExecExtend, redisVars, entityVars, serviceVars, timerVars, ghostVars
  <2> QED
    BY <2>1, <2>2 DEF Owns
<1>16. ASSUME NEW s \in Service, Destroy(s) PROVE LeaseHeld'
  BY <1>16 DEF Destroy, Sent, Disarm, redisVars, entityVars, serviceVars, timerVars, ghostVars
<1>17. ASSUME NEW s \in Service, Destroyed(s) PROVE LeaseHeld'
  BY <1>17 DEF Destroyed, redisVars, entityVars, serviceVars, timerVars, ghostVars
<1>18. ASSUME NEW s \in Service, Crash(s) PROVE LeaseHeld'
  <2>1. /\ pc' = [k \in Handle |-> IF Home[k] = s THEN "dead" ELSE pc[k]]
        /\ UNCHANGED <<owner, ttlLeft, lease, letGo, evicted>>
    BY <1>18 DEF Crash, redisVars, entityVars, serviceVars, timerVars, ghostVars
  <2>2. \A k \in Handle, o \in Op :
          /\ Home[k] # s => call'[k][o] = call[k][o]
          /\ Home[k] = s =>
               \/ call'[k][o].st = "idle"
               \/ /\ call[k][o].st \in {"sent", "orphan"} /\ call'[k][o].st = "orphan"
                  /\ call'[k][o].ttl = call[k][o].ttl
    BY <1>18, CrashedCell
  <2> QED
    BY <2>1, <2>2
<1>19. ASSUME ForceRelease PROVE LeaseHeld'
  BY <1>19 DEF ForceRelease, Faulty, redisVars, entityVars, serviceVars, timerVars, ghostVars
<1>20. ASSUME Tick PROVE LeaseHeld'
  <2>1. \A k \in Handle, o \in Op :
          call'[k][o].st = call[k][o].st /\ call'[k][o].ttl = call[k][o].ttl
    BY <1>20, TickedCell
  <2>2. /\ UNCHANGED <<pc, letGo, evicted>>
        /\ owner' = IF ttlLeft = 1 THEN NoOwner ELSE owner
        /\ ttlLeft' = IF ttlLeft > 0 THEN ttlLeft - 1 ELSE 0
        /\ \A k \in Handle : lease'[k] = IF lease[k] > 0 THEN lease[k] - 1 ELSE 0
    BY <1>20 DEF Tick, Less1, redisVars, entityVars, serviceVars, timerVars, ghostVars
  <2> QED
    BY <2>1, <2>2
<1>21. CASE UNCHANGED vars
  BY <1>21 DEF vars, redisVars, entityVars, serviceVars, timerVars, ghostVars
<1> QED
  BY <1>1, <1>2, <1>3, <1>4, <1>5, <1>6, <1>7, <1>8, <1>9, <1>10, <1>11, <1>12, <1>13, <1>14, <1>15, <1>16, <1>17, <1>18, <1>19, <1>20, <1>21 DEF Next, Execute, Settle

LEMMA LeaseInvInit == Init => LeaseInv
<1> SUFFICES ASSUME Init PROVE LeaseInv
  OBVIOUS
<1>1. SafeInv
  BY SafeInit
<1>2. LetGoSent /\ EnoughTtl /\ ConfirmedLease /\ LeaseHeld
  BY DEF Init, LetGoSent, EnoughTtl, ConfirmedLease, LeaseHeld, Confident, Idle, Op, Timed
<1> QED
  BY <1>1, <1>2 DEF LeaseInv

LEMMA LeaseInvStep ==
  ASSUME LongExtends
  PROVE  LeaseInv /\ [Next]_vars => LeaseInv'
BY SafeStep, LetGoSentStep, EnoughTtlStep, ConfirmedLeaseStep, LeaseHeldStep DEF LeaseInv, SafeInv

\* Mutual exclusion while the TTL is valid, for any number of processes and handles and
\* any timing: counting Ttl from the moment the last confirmed SET or PEXPIRE was sent,
\* Redis still holds the key for this handle and for at least that long, provided no
\* extend() asks for less than the lock's TTL.
THEOREM LeaseTheorem ==
  ASSUME LongExtends
  PROVE  Spec => []LeaseHeld
<1>1. LeaseInv /\ [Next]_vars => LeaseInv'
  BY LeaseInvStep
<1>2. LeaseInv => LeaseHeld
  BY DEF LeaseInv
<1> QED
  BY LeaseInvInit, <1>1, <1>2, PTL DEF Spec
--------------------------------------------------------------------------------
(* The automatic renewal. *)

\* While round trips are prompt, no command that is waited for is older than Rtt.
PromptCells ==
  prompt => \A h \in Handle, op \in Timed :
    call[h][op].st \in {"sent", "yes", "no"} => call[h][op].age <= Rtt

\* A handle that is renewed has not been let go, nor has a renewal of it failed.
RenewsHeld ==
  \A h \in Handle :
    /\ pc[h] \in {"idle", "acquiring", "backoff"} => ~letGo[h]
    /\ renewing[h] => ~letGo[h] /\ call[h]["renew"].st # "orphan"

\* Between two renewals the lease is as old as the timer, a round trip apart; while one
\* is on its way the command and the timer count the same time.
RenewsInTime ==
  prompt => \A h \in Handle : renewing[h] =>
    /\ renewIn[h] >= -Lag
    /\ call[h]["renew"].st = "idle" => lease[h] + Rtt + RenewEvery >= Ttl + renewIn[h]
    /\ call[h]["renew"].st # "idle" =>
         /\ renewIn[h] + call[h]["renew"].age = RenewEvery
         /\ lease[h] + call[h]["renew"].age + Rtt + RenewEvery + Lag >= Ttl

RenewInv == PromptCells /\ RenewsHeld /\ RenewsInTime

LEMMA RenewTypes ==
  ASSUME TypeOK
  PROVE  /\ call \in [Handle -> [Op -> Cell]] /\ renewing \in [Handle -> BOOLEAN]
         /\ renewIn \in [Handle -> (-Lag)..RenewEvery] /\ lease \in [Handle -> 0..Ttl]
         /\ letGo \in [Handle -> BOOLEAN] /\ prompt \in BOOLEAN
         /\ pc \in [Handle -> {"idle", "acquiring", "backoff", "held", "failed", "dead"}]
         /\ \A k \in Handle, o \in Op : /\ call[k][o].age \in 0..Ttl /\ call[k][o].age \in Nat
                                        /\ call[k][o].st \in {"idle", "sent", "orphan", "yes", "no"}
         /\ \A k \in Handle : renewIn[k] \in Int /\ renewIn[k] <= RenewEvery /\ lease[k] \in Nat
         /\ Ttl \in Nat /\ Ttl > 0 /\ RenewEvery \in Nat /\ Rtt \in Nat /\ Lag \in Nat
<1>1. \A k \in Handle, o \in Op : call[k][o].st \in {"idle", "sent", "orphan", "yes", "no"}
  BY DEF TypeOK, Cell, Status
<1>2. Ttl \in Nat /\ Ttl > 0 /\ RenewEvery \in Nat /\ Rtt \in Nat /\ Lag \in Nat
  BY LockAssumption DEF LockAssumption
<1>3. \A k \in Handle, o \in Op : call[k][o].age \in Nat /\ call[k][o].age \in 0..Ttl
  BY <1>2, CellRange
<1>4. \A k \in Handle : renewIn[k] \in Int /\ renewIn[k] <= RenewEvery /\ lease[k] \in Nat
  BY <1>2 DEF TypeOK
<1> QED BY <1>1, <1>2, <1>3, <1>4 DEF TypeOK

\* What Tick does to the timers.
LEMMA TickedTimers ==
  ASSUME TypeOK, Tick
  PROVE  /\ prompt' => prompt /\ InTime
         /\ \A k \in Handle : /\ lease'[k] = IF lease[k] > 0 THEN lease[k] - 1 ELSE 0
                              /\ renewing[k] /\ renewIn[k] > -Lag => renewIn'[k] = renewIn[k] - 1
         /\ UNCHANGED <<pc, renewing, letGo>>
<1>1. prompt' = (prompt /\ InTime) /\ UNCHANGED <<pc, renewing, letGo>>
  BY DEF Tick
<1>2. lease' = [h \in Handle |-> Less1(lease[h])]
  BY DEF Tick
<1>3. renewIn' = [h \in Handle |->
                   IF renewing[h] /\ renewIn[h] > -Lag THEN renewIn[h] - 1 ELSE renewIn[h]]
  BY DEF Tick
<1> QED BY <1>1, <1>2, <1>3 DEF Less1

\* No step lets a renewal fall behind.
LEMMA RenewStep ==
  ASSUME Rtt < Ttl, TypeOK, Phases, RenewInv, [Next]_vars
  PROVE  RenewInv'
<1>t. PromptCells /\ RenewsHeld /\ RenewsInTime
  BY DEF RenewInv
<1>o. Op = {"acquire", "release", "destroy", "renew", "extend"} /\ Timed = {"acquire", "renew", "extend"}
  BY DEF Op, Timed
<1>y. /\ call \in [Handle -> [Op -> Cell]] /\ renewing \in [Handle -> BOOLEAN]
      /\ renewIn \in [Handle -> (-Lag)..RenewEvery] /\ lease \in [Handle -> 0..Ttl]
      /\ letGo \in [Handle -> BOOLEAN] /\ pc \in [Handle -> {"idle", "acquiring", "backoff", "held", "failed", "dead"}]
  BY RenewTypes
<1>n. /\ \A k \in Handle, o \in Op : call[k][o].age \in 0..Ttl /\ call[k][o].age \in Nat
      /\ \A k \in Handle : renewIn[k] \in Int /\ renewIn[k] <= RenewEvery /\ lease[k] \in Nat
      /\ Ttl \in Nat /\ Ttl > 0 /\ RenewEvery \in Nat /\ Rtt \in Nat /\ Lag \in Nat
  BY RenewTypes
<1>s. \A k \in Handle, o \in Op : call[k][o].st \in {"idle", "sent", "orphan", "yes", "no"}
  BY RenewTypes
<1> USE <1>t, <1>o
<1>1. ASSUME NEW h \in Handle, StartAcquire(h) PROVE RenewInv'
  <2>1. /\ pc[h] \in {"idle", "backoff"} /\ pc' = [pc EXCEPT ![h] = "acquiring"]
        /\ \A k \in Handle, o \in Op : k # h \/ o # "acquire" => call'[k][o] = call[k][o]
        /\ call'[h]["acquire"].age = 0
        /\ UNCHANGED <<renewing, renewIn, lease, letGo, prompt>>
    BY <1>y, <1>1 DEF StartAcquire, SetNxPx, Sent, redisVars, entityVars, serviceVars, ghostVars
  <2>2. PromptCells'
    BY <1>n, <2>1 DEF PromptCells
  <2>3. RenewsHeld'
    BY <2>1 DEF RenewsHeld
  <2>4. RenewsInTime'
    BY <2>1 DEF RenewsInTime
  <2> QED BY <2>2, <2>3, <2>4 DEF RenewInv
<1>2. ASSUME NEW h \in Handle, RetryAcquire(h) PROVE RenewInv'
  <2>1. /\ pc[h] \in {"idle", "backoff"} /\ pc' = [pc EXCEPT ![h] = "acquiring"]
        /\ \A k \in Handle, o \in Op : k # h \/ o # "acquire" => call'[k][o] = call[k][o]
        /\ call'[h]["acquire"].age = 0
        /\ UNCHANGED <<renewing, renewIn, lease, letGo, prompt>>
    BY <1>y, <1>2 DEF RetryAcquire, SetNxPx, Sent, redisVars, entityVars, serviceVars, ghostVars
  <2>2. PromptCells'
    BY <1>n, <2>1 DEF PromptCells
  <2>3. RenewsHeld'
    BY <2>1 DEF RenewsHeld
  <2>4. RenewsInTime'
    BY <2>1 DEF RenewsInTime
  <2> QED BY <2>2, <2>3, <2>4 DEF RenewInv
<1>3. ASSUME NEW h \in Handle, AcquireGranted(h) PROVE RenewInv'
  <2>0. /\ pc[h] = "acquiring" /\ call[h]["acquire"].st = "yes" /\ ~letGo[h] /\ call[h]["renew"].st = "idle"
    BY <1>y, <1>3 DEF AcquireGranted, Phases, RenewsHeld
  <2>1. /\ call' = [call EXCEPT ![h]["acquire"] = Idle] /\ pc' = [pc EXCEPT ![h] = "held"]
        /\ renewing' = [renewing EXCEPT ![h] = (h \in Renewed)]
        /\ renewIn' = [renewIn EXCEPT ![h] = IF h \in Renewed THEN RenewEvery ELSE 0]
        /\ lease' = [lease EXCEPT ![h] = Ttl - call[h]["acquire"].age]
        /\ UNCHANGED <<letGo, prompt>>
    BY <1>y, <1>3 DEF AcquireGranted, RenewInterval
  <2>2. PromptCells'
    BY <1>y, <2>0, <2>1 DEF PromptCells, Idle
  <2>3. RenewsHeld'
    BY <1>y, <2>0, <2>1 DEF RenewsHeld, Idle
  <2>4. RenewsInTime'
    <3>1. prompt => call[h]["acquire"].age <= Rtt
      BY <2>0 DEF PromptCells
    <3>2. /\ \A k \in Handle : call'[k]["renew"] = call[k]["renew"]
          /\ \A k \in Handle \ {h} : renewing'[k] = renewing[k] /\ renewIn'[k] = renewIn[k] /\ lease'[k] = lease[k]
          /\ renewing'[h] => renewIn'[h] = RenewEvery /\ lease'[h] = Ttl - call[h]["acquire"].age
      BY <1>y, <2>1
    <3> QED BY <1>n, <1>y, <2>0, <2>1, <3>1, <3>2 DEF RenewsInTime
  <2> QED BY <2>2, <2>3, <2>4 DEF RenewInv
<1>4. ASSUME NEW h \in Handle, AcquireRefused(h) PROVE RenewInv'
  BY <1>y, <1>4 DEF AcquireRefused, Idle, Phases, RenewInv, PromptCells, RenewsHeld, RenewsInTime, redisVars, entityVars, serviceVars, timerVars, ghostVars
<1>5. ASSUME NEW h \in Handle, Release(h) PROVE RenewInv'
  BY <1>y, <1>5 DEF Release, Sent, Disarm, Phases, RenewInv, PromptCells, RenewsHeld, RenewsInTime, redisVars, entityVars, serviceVars, timerVars, ghostVars
<1>6. ASSUME NEW h \in Handle, ReleaseAgain(h) PROVE RenewInv'
  BY <1>y, <1>6 DEF ReleaseAgain, Phases, RenewInv, PromptCells, RenewsHeld, RenewsInTime, redisVars, entityVars, serviceVars, timerVars, ghostVars
<1>7. ASSUME NEW h \in Handle, RenewTimer(h) PROVE RenewInv'
  <2>1. /\ renewing[h] /\ renewIn[h] <= 0 /\ call[h]["renew"].st = "idle"
        /\ renewIn' = [renewIn EXCEPT ![h] = RenewEvery] /\ call' = [call EXCEPT ![h]["renew"] = Sent(Ttl)]
        /\ UNCHANGED <<pc, letGo, prompt, renewing, lease>>
    BY <1>y, <1>7 DEF RenewTimer, RenewInterval, RenewalTtl, Idle, serviceVars, ghostVars
  <2>2. PromptCells'
    BY <1>n, <1>y, <2>1 DEF PromptCells, Sent
  <2>3. RenewsHeld'
    BY <1>y, <2>1 DEF RenewsHeld, Sent
  <2>4. RenewsInTime'
    <3>1. /\ \A k \in Handle \ {h} : call'[k]["renew"] = call[k]["renew"] /\ renewIn'[k] = renewIn[k]
          /\ call'[h]["renew"].st = "sent" /\ call'[h]["renew"].age = 0 /\ renewIn'[h] = RenewEvery
      BY <1>y, <2>1 DEF Sent
    <3>2. prompt => lease[h] + Rtt + RenewEvery >= Ttl + renewIn[h] /\ renewIn[h] >= -Lag
      BY <2>1 DEF RenewsInTime
    <3> QED BY <1>n, <2>1, <3>1, <3>2 DEF RenewsInTime
  <2> QED BY <2>2, <2>3, <2>4 DEF RenewInv
<1>8. ASSUME NEW h \in Handle, StopAutoRenew(h) PROVE RenewInv'
  BY <1>y, <1>8 DEF StopAutoRenew, Disarm, Phases, RenewInv, PromptCells, RenewsHeld, RenewsInTime, redisVars, entityVars, serviceVars, timerVars, ghostVars
<1>9. ASSUME NEW h \in Handle, NEW d \in ExtendTtls, Extend(h, d) PROVE RenewInv'
  <2>1. /\ \A k \in Handle, o \in Op : k # h \/ o # "extend" => call'[k][o] = call[k][o]
        /\ call'[h]["extend"].age = 0
        /\ UNCHANGED <<pc, renewing, renewIn, lease, letGo, prompt>>
    BY <1>y, <1>9 DEF Extend, Sent, redisVars, entityVars, serviceVars, ghostVars
  <2>2. PromptCells'
    BY <1>n, <2>1 DEF PromptCells
  <2>3. RenewsHeld'
    BY <2>1 DEF RenewsHeld
  <2>4. RenewsInTime'
    BY <2>1 DEF RenewsInTime
  <2> QED BY <2>2, <2>3, <2>4 DEF RenewInv
<1>10. ASSUME NEW h \in Handle, NEW op \in Op, ReleaseReply(h, op) PROVE RenewInv'
  BY <1>y, <1>10 DEF ReleaseReply, Idle, Phases, RenewInv, PromptCells, RenewsHeld, RenewsInTime, redisVars, entityVars, serviceVars, timerVars, ghostVars
<1>11. ASSUME NEW h \in Handle, NEW op \in Op, ExtendReply(h, op) PROVE RenewInv'
  <2>1. /\ op \in {"renew", "extend"} /\ call[h][op].st \in {"yes", "no"}
        /\ \A k \in Handle, o \in Op : k # h \/ o # op => call'[k][o] = call[k][o]
        /\ call'[h][op].st = "idle"
        /\ UNCHANGED <<pc, letGo, prompt>>
    BY <1>y, <1>11 DEF ExtendReply, Idle, serviceVars
  <2>2. \/ /\ UNCHANGED <<renewing, renewIn>>
           /\ lease' = [lease EXCEPT ![h] = Ttl - call[h][op].age]
        \/ /\ lease' = lease
           /\ \A k \in Handle : renewing'[k] => /\ renewing[k] /\ (k # h \/ op # "renew")
                                                /\ renewIn'[k] = renewIn[k]
    <3>1. CASE call[h][op].st = "yes"
      BY <1>11, <3>1 DEF ExtendReply, timerVars
    <3>2. CASE call[h][op].st = "no" /\ op = "renew"
      BY <1>11, <3>2 DEF ExtendReply, Disarm
    <3>3. CASE call[h][op].st = "no" /\ op # "renew"
      BY <1>11, <3>3 DEF ExtendReply, Disarm
    <3> QED BY <2>1, <3>1, <3>2, <3>3
  <2>3. \A k \in Handle : renewing'[k] => /\ renewing[k] /\ renewIn'[k] = renewIn[k]
                                       /\ (k = h /\ op = "renew" => lease'[h] = Ttl - call[h][op].age)
                                       /\ (lease'[k] = lease[k] \/ (k = h /\ lease'[h] = Ttl - call[h][op].age))
    BY <1>y, <2>2
  <2>4. prompt => call[h][op].age <= Rtt
    BY <2>1 DEF PromptCells
  <2>5. PromptCells'
    BY <2>1 DEF PromptCells
  <2>6. RenewsHeld'
    <3> SUFFICES ASSUME NEW k \in Handle
                 PROVE  /\ pc'[k] \in {"idle", "acquiring", "backoff"} => ~letGo'[k]
                        /\ renewing'[k] => ~letGo'[k] /\ call'[k]["renew"].st # "orphan"
      BY DEF RenewsHeld
    <3>1. call'[k]["renew"].st = "idle" \/ call'[k]["renew"] = call[k]["renew"]
      BY <2>1
    <3> QED BY <2>1, <2>3, <3>1 DEF RenewsHeld
  <2>7. RenewsInTime'
    <3> SUFFICES ASSUME prompt, NEW k \in Handle, renewing'[k]
                 PROVE  /\ renewIn'[k] >= -Lag
                        /\ call'[k]["renew"].st = "idle" => lease'[k] + Rtt + RenewEvery >= Ttl + renewIn'[k]
                        /\ call'[k]["renew"].st # "idle" =>
                             /\ renewIn'[k] + call'[k]["renew"].age = RenewEvery
                             /\ lease'[k] + call'[k]["renew"].age + Rtt + RenewEvery + Lag >= Ttl
      BY <2>1 DEF RenewsInTime
    <3>1. renewing[k] /\ renewIn'[k] = renewIn[k]
      BY <2>3
    <3>2. /\ renewIn[k] >= -Lag
          /\ call[k]["renew"].st = "idle" => lease[k] + Rtt + RenewEvery >= Ttl + renewIn[k]
          /\ call[k]["renew"].st # "idle" =>
               /\ renewIn[k] + call[k]["renew"].age = RenewEvery
               /\ lease[k] + call[k]["renew"].age + Rtt + RenewEvery + Lag >= Ttl
      BY <3>1 DEF RenewsInTime
    <3>3. /\ renewIn[k] \in Int /\ renewIn[k] <= RenewEvery /\ lease[k] \in Nat
          /\ call[h][op].age \in Nat /\ call[k]["renew"].age \in Nat
          /\ Ttl \in Nat /\ RenewEvery \in Nat /\ Rtt \in Nat /\ Lag \in Nat
      BY <1>n
    <3>4. CASE k = h /\ op = "renew"
      <4>1. lease'[k] = Ttl - call[h][op].age /\ call'[k]["renew"].st = "idle" /\ call[h][op].age <= Rtt
        BY <2>1, <2>3, <2>4, <3>4
      <4> QED BY <3>1, <3>2, <3>3, <4>1
    <3>5. CASE ~(k = h /\ op = "renew")
      <4>1. call'[k]["renew"] = call[k]["renew"]
        BY <2>1, <3>5
      <4>2. lease'[k] = lease[k] \/ (lease'[k] = Ttl - call[h][op].age /\ call[h][op].age <= Rtt)
        BY <2>3, <2>4
      <4> QED BY <3>1, <3>2, <3>3, <4>1, <4>2
    <3> QED BY <3>4, <3>5
  <2> QED BY <2>5, <2>6, <2>7 DEF RenewInv
<1>12. ASSUME NEW h \in Handle, NEW op \in Op, Fail(h, op) PROVE RenewInv'
  <2>1. /\ \A k \in Handle : /\ pc'[k] = IF k = h /\ op = "acquire" THEN "failed" ELSE pc[k]
                             /\ renewing'[k] => renewing[k] /\ renewIn'[k] = renewIn[k] /\ (k # h \/ op # "renew")
        /\ UNCHANGED <<prompt, letGo, lease>>
    BY <1>y, <1>12 DEF Fail, Faulty, AfterError, Disarm
  <2>2. /\ \A k \in Handle, o \in Op : k # h \/ o # op => call'[k][o] = call[k][o]
        /\ call'[h][op].st \in {"idle", "orphan"}
    BY <1>12, FailedCell
  <2>3. PromptCells'
    BY <2>1, <2>2 DEF PromptCells
  <2>4. ASSUME NEW k \in Handle, renewing'[k] PROVE renewing[k] /\ call'[k]["renew"] = call[k]["renew"]
    <3>1. renewing[k] /\ (k # h \/ op # "renew")
      BY <2>1, <2>4
    <3>2. "renew" \in Op
      OBVIOUS
    <3> QED BY <2>2, <3>1, <3>2
  <2>6. RenewsHeld'
    BY <2>1, <2>4 DEF RenewsHeld
  <2>5. RenewsInTime'
    BY <2>1, <2>4 DEF RenewsInTime
  <2> QED BY <2>3, <2>6, <2>5 DEF RenewInv
<1>13. ASSUME NEW h \in Handle, ExecSet(h) PROVE RenewInv'
  <2>1. /\ \A k \in Handle, o \in Op : k # h \/ o # "acquire" => call'[k][o] = call[k][o]
        /\ call[h]["acquire"].st \in {"sent", "orphan"}
        /\ call[h]["acquire"].st = "orphan" => call'[h]["acquire"].st = "idle"
        /\ call[h]["acquire"].st = "sent" =>
             call'[h]["acquire"].st \in {"yes", "no"} /\ call'[h]["acquire"].age = call[h]["acquire"].age
    BY <1>13, SetCells
  <2>2. UNCHANGED <<pc, renewing, renewIn, lease, letGo, prompt>>
    BY <1>13 DEF ExecSet, redisVars, entityVars, serviceVars, timerVars, ghostVars
  <2>3. PromptCells'
    BY <2>1, <2>2 DEF PromptCells
  <2>4. RenewsHeld'
    BY <2>1, <2>2 DEF RenewsHeld
  <2>5. RenewsInTime'
    BY <2>1, <2>2 DEF RenewsInTime, RenewsHeld
  <2> QED BY <2>3, <2>4, <2>5 DEF RenewInv
<1>14. ASSUME NEW h \in Handle, NEW op \in Op, ExecRelease(h, op) PROVE RenewInv'
  <2>1. /\ \A k \in Handle, o \in Op : k # h \/ o # op => call'[k][o] = call[k][o]
        /\ call[h][op].st \in {"sent", "orphan"}
        /\ call[h][op].st = "orphan" => call'[h][op].st = "idle"
        /\ call[h][op].st = "sent" =>
             call'[h][op].st \in {"yes", "no"} /\ call'[h][op].age = call[h][op].age
    BY <1>14, ReleaseCells
  <2>2. UNCHANGED <<pc, renewing, renewIn, lease, letGo, prompt>>
    BY <1>14 DEF ExecRelease, redisVars, entityVars, serviceVars, timerVars, ghostVars
  <2>3. PromptCells'
    BY <2>1, <2>2 DEF PromptCells
  <2>4. RenewsHeld'
    BY <2>1, <2>2 DEF RenewsHeld
  <2>5. RenewsInTime'
    BY <2>1, <2>2 DEF RenewsInTime, RenewsHeld
  <2> QED BY <2>3, <2>4, <2>5 DEF RenewInv
<1>15. ASSUME NEW h \in Handle, NEW op \in Op, ExecExtend(h, op) PROVE RenewInv'
  <2>1. /\ \A k \in Handle, o \in Op : k # h \/ o # op => call'[k][o] = call[k][o]
        /\ call[h][op].st \in {"sent", "orphan"}
        /\ call[h][op].st = "orphan" => call'[h][op].st = "idle"
        /\ call[h][op].st = "sent" =>
             call'[h][op].st \in {"yes", "no"} /\ call'[h][op].age = call[h][op].age
    BY <1>15, ExtendCells
  <2>2. UNCHANGED <<pc, renewing, renewIn, lease, letGo, prompt>>
    BY <1>15 DEF ExecExtend, redisVars, entityVars, serviceVars, timerVars, ghostVars
  <2>3. PromptCells'
    BY <2>1, <2>2 DEF PromptCells
  <2>4. RenewsHeld'
    BY <2>1, <2>2 DEF RenewsHeld
  <2>5. RenewsInTime'
    BY <2>1, <2>2 DEF RenewsInTime, RenewsHeld
  <2> QED BY <2>3, <2>4, <2>5 DEF RenewInv
<1>16. ASSUME NEW s \in Service, Destroy(s) PROVE RenewInv'
  BY <1>y, <1>16 DEF Destroy, Sent, Disarm, Phases, RenewInv, PromptCells, RenewsHeld, RenewsInTime, redisVars, entityVars, serviceVars, timerVars, ghostVars
<1>17. ASSUME NEW s \in Service, Destroyed(s) PROVE RenewInv'
  BY <1>y, <1>17 DEF Destroyed, Phases, RenewInv, PromptCells, RenewsHeld, RenewsInTime, redisVars, entityVars, serviceVars, timerVars, ghostVars
<1>18. ASSUME NEW s \in Service, Crash(s) PROVE RenewInv'
  <2>1. /\ \A k \in Handle : /\ pc'[k] = IF Home[k] = s THEN "dead" ELSE pc[k]
                             /\ renewing'[k] => renewing[k] /\ renewIn'[k] = renewIn[k] /\ Home[k] # s
        /\ UNCHANGED <<prompt, letGo, lease>>
    BY <1>y, <1>18 DEF Crash, Faulty, Disarm
  <2>2. \A k \in Handle, o \in Op : /\ Home[k] # s => call'[k][o] = call[k][o]
                                    /\ Home[k] = s => call'[k][o].st \in {"idle", "orphan"}
    BY <1>18, CrashedCell
  <2>3. PromptCells'
    <3> SUFFICES ASSUME prompt, NEW k \in Handle, NEW o \in Timed, call'[k][o].st \in {"sent", "yes", "no"}
                 PROVE  call'[k][o].age <= Rtt
      BY <2>1 DEF PromptCells
    <3>1. o \in Op
      OBVIOUS
    <3>2. Home[k] # s
      BY <2>2, <3>1
    <3>3. call'[k][o] = call[k][o]
      BY <2>2, <3>1, <3>2
    <3> QED BY <3>3 DEF PromptCells
  <2>6. ASSUME NEW k \in Handle, renewing'[k] PROVE renewing[k] /\ call'[k]["renew"] = call[k]["renew"]
    <3>1. renewing[k] /\ Home[k] # s
      BY <2>1, <2>6
    <3>2. "renew" \in Op
      OBVIOUS
    <3> QED BY <2>2, <3>1, <3>2
  <2>4. RenewsHeld'
    BY <2>1, <2>6 DEF RenewsHeld
  <2>5. RenewsInTime'
    BY <2>1, <2>6 DEF RenewsInTime
  <2> QED BY <2>3, <2>4, <2>5 DEF RenewInv
<1>19. ASSUME ForceRelease PROVE RenewInv'
  BY <1>y, <1>19 DEF ForceRelease, Faulty, Phases, RenewInv, PromptCells, RenewsHeld, RenewsInTime, redisVars, entityVars, serviceVars, timerVars, ghostVars
<1>20. ASSUME Tick PROVE RenewInv'
  <2>1. /\ prompt' => prompt /\ InTime
        /\ \A k \in Handle : /\ lease'[k] = IF lease[k] > 0 THEN lease[k] - 1 ELSE 0
                             /\ renewing[k] /\ renewIn[k] > -Lag => renewIn'[k] = renewIn[k] - 1
        /\ UNCHANGED <<pc, renewing, letGo>>
    BY <1>20, TickedTimers
  <2>2. \A k \in Handle, o \in Timed :
          /\ call'[k][o].st = call[k][o].st
          /\ call[k][o].st \in {"sent", "yes", "no"} => call'[k][o].age = Least(call[k][o].age + 1, Ttl)
    BY <1>20, TickedCell
  <2>3. PromptCells'
    <3> SUFFICES ASSUME prompt', NEW k \in Handle, NEW o \in Timed, call'[k][o].st \in {"sent", "yes", "no"}
                 PROVE  call'[k][o].age <= Rtt
      BY DEF PromptCells
    <3>1. call[k][o].age < Rtt /\ call'[k][o].age = Least(call[k][o].age + 1, Ttl) /\ call[k][o].age \in 0..Ttl
      BY <1>n, <2>1, <2>2 DEF InTime
    <3>2. Rtt \in Nat /\ Ttl \in Nat
      BY <1>n
    <3> QED BY <3>1, <3>2 DEF Least
  <2>4. RenewsHeld'
    BY <2>1, <2>2 DEF RenewsHeld
  <2>5. RenewsInTime'
    <3> SUFFICES ASSUME prompt', NEW k \in Handle, renewing'[k]
                 PROVE  /\ renewIn'[k] >= -Lag
                        /\ call'[k]["renew"].st = "idle" => lease'[k] + Rtt + RenewEvery >= Ttl + renewIn'[k]
                        /\ call'[k]["renew"].st # "idle" =>
                             /\ renewIn'[k] + call'[k]["renew"].age = RenewEvery
                             /\ lease'[k] + call'[k]["renew"].age + Rtt + RenewEvery + Lag >= Ttl
      BY DEF RenewsInTime
    <3>1. /\ renewing[k] /\ renewIn[k] > -Lag /\ renewIn'[k] = renewIn[k] - 1
          /\ call'[k]["renew"].st = call[k]["renew"].st
          /\ lease'[k] >= lease[k] - 1 /\ lease'[k] \in Nat
      BY <1>n, <2>1, <2>2 DEF InTime
    <3>2. /\ call[k]["renew"].st = "idle" => lease[k] + Rtt + RenewEvery >= Ttl + renewIn[k]
          /\ call[k]["renew"].st # "idle" =>
               /\ renewIn[k] + call[k]["renew"].age = RenewEvery
               /\ lease[k] + call[k]["renew"].age + Rtt + RenewEvery + Lag >= Ttl
      BY <2>1, <3>1 DEF RenewsInTime
    <3>5. /\ renewIn[k] \in Int /\ lease[k] \in Nat /\ call[k]["renew"].age \in Nat
          /\ Ttl \in Nat /\ RenewEvery \in Nat /\ Rtt \in Nat /\ Lag \in Nat
      BY <1>n
    <3>3. CASE call[k]["renew"].st = "idle"
      <4> QED BY <3>1, <3>2, <3>3, <3>5
    <3>4. CASE call[k]["renew"].st # "idle"
      <4>1. call[k]["renew"].st \in {"sent", "yes", "no"}
        BY <1>s, <3>1, <3>4 DEF RenewsHeld
      <4>2. call'[k]["renew"].age = Least(call[k]["renew"].age + 1, Ttl) /\ call[k]["renew"].age < Rtt
        BY <2>1, <2>2, <4>1 DEF InTime
      <4>3. call'[k]["renew"].age = call[k]["renew"].age + 1 /\ call[k]["renew"].age \in 0..Ttl
        <5>1. call[k]["renew"].age \in 0..Ttl
          BY <1>n
        <5>2. call[k]["renew"].st # "idle" => call[k]["renew"].age < Ttl
          BY <1>n, <3>1, <3>2, <3>5, <4>2
        <5> QED BY <3>4, <3>5, <4>2, <5>1, <5>2 DEF Least
      <4> QED BY <3>1, <3>2, <3>4, <3>5, <4>3
    <3> QED BY <3>3, <3>4
  <2> QED BY <2>3, <2>4, <2>5 DEF RenewInv
<1>21. CASE UNCHANGED vars
  BY <1>21 DEF vars, RenewInv, PromptCells, RenewsHeld, RenewsInTime, redisVars, entityVars, serviceVars, timerVars, ghostVars
<1> QED
  BY <1>1, <1>2, <1>3, <1>4, <1>5, <1>6, <1>7, <1>8, <1>9, <1>10, <1>11, <1>12, <1>13, <1>14, <1>15, <1>16, <1>17, <1>18, <1>19, <1>20, <1>21 DEF Next, Execute, Settle

LEMMA RenewInit == Init => RenewInv
BY DEF Init, RenewInv, PromptCells, RenewsHeld, RenewsInTime, Idle, Op, Timed

\* With prompt round trips and timers the automatic renewal keeps the lock for as long as
\* it runs, for every TTL that leaves room for an interval, a late timer and two round
\* trips; extend() by the user does not shorten the lease.
THEOREM RenewalTheorem ==
  ASSUME LongExtends, RenewEvery + Lag + 2 * Rtt < Ttl
  PROVE  Spec => []RenewalKeepsLock
<1>0. Rtt < Ttl
  BY LockAssumption DEF LockAssumption
<1>1. LeaseInv /\ RenewInv /\ [Next]_vars => LeaseInv' /\ RenewInv'
  BY <1>0, LeaseInvStep, RenewStep DEF LeaseInv, SafeInv
<1>2. LeaseInv /\ RenewInv => RenewalKeepsLock
  <2> SUFFICES ASSUME LeaseInv, RenewInv, prompt, NEW h \in Handle, renewing[h], ~evicted[h]
               PROVE  owner = h
    BY DEF RenewalKeepsLock
  <2>1. pc[h] = "held" /\ ~letGo[h]
    BY DEF LeaseInv, SafeInv, Phases, RenewInv, RenewsHeld
  <2>2. TypeOK
    BY DEF LeaseInv, SafeInv
  <2>3. call[h]["renew"].st # "idle" => call[h]["renew"].age <= Rtt
    BY <2>2, RenewTypes DEF RenewInv, RenewsHeld, PromptCells, Timed, Op
  <2>4. lease[h] > 0
    BY <2>2, <2>3, RenewTypes DEF RenewInv, RenewsInTime, Op
  <2> QED BY <2>1, <2>4 DEF LeaseInv, LeaseHeld, Confident
<1> QED BY LeaseInvInit, RenewInit, <1>1, <1>2, PTL DEF Spec

================================================================================
