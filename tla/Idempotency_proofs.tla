--------------------------- MODULE Idempotency_proofs ---------------------------
(* Machine-checked proofs about what counts requests in Redis: about Idempotency for every  *)
(* set of requests, every assignment of payloads and every timeout, and about RateLimit for *)
(* every set of requests, every limit, window and rate, and every order in which the        *)
(* scripts run, as long as a script runs within a second of its stamp.                      *)
EXTENDS Idempotency, RateLimit, FiniteSetTheorems, WellFoundedInduction, TLAPS

--------------------------------------------------------------------------------
(* The inductive invariant. *)

CmdPast == \A r \in Req : cmd[r] # NoCmd => cmd[r].sentAt <= clock

\* While the window of the last winner is open, its record is there, outlives the
\* window, and if it is still the lock it carries the winner's clock.
WindowGuarded ==
  winner # NoReq =>
    /\ wonAt <= clock /\ clock < wonAt + LockTimeout
    /\ rec.st # "absent"
    /\ expires >= wonAt + LockTimeout
    /\ rec.st = "processing" => rec.startedAt = wonAt

SafeInv == TypeOK /\ CmdPast /\ RecordExpires /\ WindowGuarded

NoSkewAtAll == \A r \in Req : Skew[r] = 0

--------------------------------------------------------------------------------
LEMMA ConstantFacts ==
  /\ NoReq \notin Req
  /\ LockTimeout \in Nat /\ LockTimeout > 0
  /\ CompleteTtl \in Nat /\ CompleteTtl >= LockTimeout
  /\ FailTtl \in Nat /\ FailTtl >= LockTimeout
  /\ Skew \in [Req -> Nat]
  /\ MaxFaults \in Nat /\ Past \subseteq Req
  /\ Rtt \in Nat /\ HandlerTime \in Nat
BY IdempotencyAssumption DEF IdempotencyAssumption

LEMMA PrintFacts ==
  ASSUME NEW r \in Req
  PROVE  Canonical(r) \in Fingerprints /\ Plain(r) \in Fingerprints /\ PrintOf(r) \in Fingerprints
BY DEF Fingerprints, PrintOf

LEMMA RecordFacts ==
  ASSUME TypeOK
  PROVE  /\ rec.st \in {"absent", "processing", "completed", "failed"}
         /\ rec.startedAt \in Nat /\ rec.from \in Req \cup {NoReq}
BY DEF TypeOK, Records, Absent

\* A request's script that is granted the key writes a record of the right type.
LEMMA LockFacts ==
  ASSUME TypeOK, NEW r \in Req, cmd[r] # NoCmd, Lock(r)
  PROVE  /\ rec' \in Records \cup {Absent}
         /\ rec'.st = "processing" /\ rec'.startedAt = cmd[r].sentAt + Skew[r]
         /\ expires' = clock + 2 * LockTimeout /\ expires' \in Nat
         /\ winner' \in Req \cup {NoReq} /\ wonAt' \in Nat
         /\ \/ winner' = r /\ wonAt' = cmd[r].sentAt /\ clock < cmd[r].sentAt + LockTimeout
            \/ winner' = NoReq
<1>1. cmd[r].fp \in Fingerprints /\ cmd[r].sentAt \in Nat /\ clock \in Nat
  BY DEF TypeOK
<1>2. Skew[r] \in Nat
  BY ConstantFacts
<1> QED
  BY <1>1, <1>2, ConstantFacts DEF Lock, StartOf, Records

LEMMA TypeInit == Init => TypeOK
<1> SUFFICES ASSUME Init PROVE TypeOK
  OBVIOUS
<1>1. Absent \in Records \cup {Absent}
  BY DEF Absent
<1>2. \A p \in Past, st \in {"processing", "completed", "failed"} :
        PastRecord(p, st) \in Records \cup {Absent}
  BY PrintFacts, ConstantFacts DEF PastRecord, Records
<1>3. /\ rec \in Records \cup {Absent}
      /\ expires \in Nat /\ winner \in Req \cup {NoReq} /\ wonAt \in Nat
  BY <1>1, <1>2, ConstantFacts DEF Init
<1> QED
  BY <1>3, ConstantFacts DEF Init, TypeOK, Phase

LEMMA TypeStep == TypeOK /\ [Next]_vars => TypeOK'
<1> SUFFICES ASSUME TypeOK, [Next]_vars PROVE TypeOK'
  OBVIOUS
<1> USE ConstantFacts, PrintFacts DEF TypeOK, Phase, reqVars, timeVars, storeVars, winVars
<1>1. ASSUME NEW r \in Req, Arrive(r) PROVE TypeOK'
  BY <1>1 DEF Arrive, Send
<1>2. ASSUME NEW r \in Req, CheckNew(r) PROVE TypeOK'
  BY <1>2, LockFacts DEF CheckNew
<1>3. ASSUME NEW r \in Req, CheckReplay(r) PROVE TypeOK'
  BY <1>3, RecordFacts DEF CheckReplay, Replay
<1>4. ASSUME NEW r \in Req, CheckProcessing(r) PROVE TypeOK'
  BY <1>4 DEF CheckProcessing
<1>5. ASSUME NEW r \in Req, CheckMismatch(r) PROVE TypeOK'
  <2>1. UNCHANGED <<timeVars, storeVars, write, faults, winVars, got>>
    BY <1>5 DEF CheckMismatch
  <2>4. pc' \in [Req -> Phase]
    <3>1. pc' = pc \/ \E x \in Phase : pc' = [pc EXCEPT ![r] = x]
      BY <1>5 DEF CheckMismatch, Throw
    <3> QED
      BY <3>1
  <2>5. plain' \in [Req -> BOOLEAN]
    BY <1>5 DEF CheckMismatch
  <2>2. cmd' \in [Req -> {NoCmd} \cup [fp : Fingerprints, sentAt : Nat]]
    <3>1. CASE Send(r, Plain(r))
      BY <3>1 DEF Send
    <3>2. CASE cmd' = [cmd EXCEPT ![r] = NoCmd]
      BY <3>2
    <3> QED
      BY <1>5, <3>1, <3>2 DEF CheckMismatch
  <2>3. /\ why' \in [Req -> {"none", "mismatch", "timeout", "error"}]
        /\ since' \in [Req -> Nat] /\ waitFrom' \in [Req -> Nat]
    BY <1>5 DEF CheckMismatch, Throw
  <2> QED
    BY <2>1, <2>2, <2>3, <2>4, <2>5
<1>6. ASSUME NEW r \in Req, Poll(r) PROVE TypeOK'
  BY <1>6, RecordFacts DEF Poll, Replay, Send
<1>7. ASSUME NEW r \in Req, WaitOver(r) PROVE TypeOK'
  BY <1>7 DEF WaitOver, Throw
<1>8. ASSUME NEW r \in Req, Wake(r) PROVE TypeOK'
  BY <1>8 DEF Wake
<1>9. ASSUME NEW r \in Req, NEW st \in {"completed", "failed"}, Handled(r, st) PROVE TypeOK'
  BY <1>9 DEF Handled
<1>10. ASSUME NEW r \in Req, HandledOpen(r) PROVE TypeOK'
  BY <1>10 DEF HandledOpen
<1>11. ASSUME NEW r \in Req, Store(r) PROVE TypeOK'
  <2>1. write[r] \in {"completed", "failed"}
    BY <1>11 DEF Store
  <2>2. StoreExpiry(write[r]) \in Nat
    BY DEF StoreExpiry
  <2>3. rec' \in Records \cup {Absent}
    BY <1>11, <2>1 DEF Store, StoredPrint, Records
  <2> QED
    BY <1>11, <2>2, <2>3 DEF Store
<1>12. ASSUME NEW r \in Req, LoseWrite(r) PROVE TypeOK'
  BY <1>12 DEF LoseWrite, Faulty
<1>13. ASSUME NEW r \in Req, StoreError(r) PROVE TypeOK'
  BY <1>13 DEF StoreError, Throw, Faulty
<1>14. ASSUME NEW r \in Req, Orphan(r) PROVE TypeOK'
  BY <1>14, LockFacts DEF Orphan
<1>15. ASSUME NEW r \in Req, Crash(r) PROVE TypeOK'
  BY <1>15 DEF Crash, Faulty
<1>16. ASSUME Delete PROVE TypeOK'
  <2>1. /\ rec' = Absent /\ expires' = 0 /\ winner' = NoReq /\ wonAt' = 0 /\ calm' = FALSE
        /\ UNCHANGED <<clock, pc, cmd, reqVars, write, got, why>>
    BY <1>16 DEF Delete
  <2>2. faults' \in 0..MaxFaults
    BY <1>16 DEF Delete, Faulty
  <2> QED
    BY <2>1, <2>2
<1>17. ASSUME Tick PROVE TypeOK'
  BY <1>17 DEF Tick, Absent
<1>18. CASE UNCHANGED vars
  BY <1>18 DEF vars
<1> QED
  BY <1>1, <1>2, <1>3, <1>4, <1>5, <1>6, <1>7, <1>8, <1>9, <1>10, <1>11, <1>12, <1>13, <1>14,
     <1>15, <1>16, <1>17, <1>18 DEF Next

THEOREM TypeCorrect == Spec => []TypeOK
<1> QED
  BY TypeInit, TypeStep, PTL DEF Spec

--------------------------------------------------------------------------------
(* Expiry, and the window of the last winner. *)

\* A step that touches neither the record nor the window, nor the clock.
Quiet == UNCHANGED <<clock, rec, expires, winner, wonAt>>

\* What every step but Tick does to the commands in flight.
SendsNow(r) == \/ cmd' = cmd
               \/ cmd' = [cmd EXCEPT ![r] = NoCmd]
               \/ \E fp \in Fingerprints : Send(r, fp)

\* Every step is one of these, as far as the record and the window go.
LEMMA StepKinds ==
  ASSUME TypeOK, [Next]_vars
  PROVE  \/ \E r \in Req : Quiet /\ SendsNow(r)
         \/ Quiet /\ cmd' = cmd
         \/ \E r \in Req : /\ cmd[r] # NoCmd /\ Grants(r) /\ Lock(r)
                            /\ cmd' = [cmd EXCEPT ![r] = NoCmd] /\ clock' = clock
         \/ \E r \in Req : Store(r)
         \/ Delete
         \/ Tick
<1> USE DEF Quiet, SendsNow, timeVars, storeVars, winVars, reqVars
<1>1. ASSUME NEW r \in Req, Arrive(r) PROVE Quiet /\ SendsNow(r)
  BY <1>1, PrintFacts DEF Arrive
<1>2. ASSUME NEW r \in Req, CheckNew(r)
      PROVE  /\ cmd[r] # NoCmd /\ Grants(r) /\ Lock(r)
             /\ cmd' = [cmd EXCEPT ![r] = NoCmd] /\ clock' = clock
  <2>1. rec.st # "new"
    BY RecordFacts
  <2> QED
    BY <1>2, <2>1 DEF CheckNew, Verdict
<1>3. ASSUME NEW r \in Req, CheckReplay(r) PROVE Quiet /\ SendsNow(r)
  BY <1>3 DEF CheckReplay
<1>4. ASSUME NEW r \in Req, CheckProcessing(r) PROVE Quiet /\ SendsNow(r)
  BY <1>4 DEF CheckProcessing
<1>5. ASSUME NEW r \in Req, CheckMismatch(r) PROVE Quiet /\ SendsNow(r)
  BY <1>5, PrintFacts DEF CheckMismatch
<1>6. ASSUME NEW r \in Req, Poll(r) PROVE Quiet /\ SendsNow(r)
  BY <1>6, PrintFacts DEF Poll
<1>7. ASSUME NEW r \in Req, WaitOver(r) PROVE Quiet /\ SendsNow(r)
  BY <1>7 DEF WaitOver
<1>8. ASSUME NEW r \in Req, Wake(r) PROVE Quiet /\ SendsNow(r)
  BY <1>8 DEF Wake
<1>9. ASSUME NEW r \in Req, NEW st \in {"completed", "failed"}, Handled(r, st)
      PROVE Quiet /\ SendsNow(r)
  BY <1>9 DEF Handled
<1>10. ASSUME NEW r \in Req, HandledOpen(r) PROVE Quiet /\ SendsNow(r)
  BY <1>10 DEF HandledOpen
<1>11. ASSUME NEW r \in Req, LoseWrite(r) PROVE Quiet /\ SendsNow(r)
  BY <1>11 DEF LoseWrite
<1>12. ASSUME NEW r \in Req, StoreError(r) PROVE Quiet /\ SendsNow(r)
  BY <1>12 DEF StoreError
<1>13. ASSUME NEW r \in Req, Orphan(r)
       PROVE  \/ Quiet /\ SendsNow(r)
              \/ /\ cmd[r] # NoCmd /\ Grants(r) /\ Lock(r)
                 /\ cmd' = [cmd EXCEPT ![r] = NoCmd] /\ clock' = clock
  <2>1. rec.st # "new"
    BY RecordFacts
  <2> QED
    BY <1>13, <2>1 DEF Orphan, Verdict
<1>14. ASSUME NEW r \in Req, Crash(r) PROVE Quiet /\ SendsNow(r)
  BY <1>14 DEF Crash
<1>15. CASE UNCHANGED vars
  BY <1>15 DEF vars
<1> QED
  BY <1>1, <1>2, <1>3, <1>4, <1>5, <1>6, <1>7, <1>8, <1>9, <1>10, <1>11, <1>12, <1>13, <1>14, <1>15
  DEF Next

LEMMA CmdPastStep ==
  ASSUME TypeOK, CmdPast, [Next]_vars
  PROVE  CmdPast'
<1>1. ASSUME NEW r \in Req, SendsNow(r), clock' = clock PROVE CmdPast'
  BY <1>1 DEF SendsNow, CmdPast, TypeOK, Send
<1>2. ASSUME cmd' = cmd, clock' \in {clock, clock + 1} PROVE CmdPast'
  <2>1. clock \in Nat /\ \A r \in Req : cmd[r] # NoCmd => cmd[r].sentAt \in Nat
    BY DEF TypeOK
  <2> QED
    BY <1>2, <2>1 DEF CmdPast
<1>3. ASSUME NEW r \in Req, cmd' = [cmd EXCEPT ![r] = NoCmd], clock' = clock PROVE CmdPast'
  BY <1>3 DEF CmdPast, TypeOK
<1>4. ASSUME NEW r \in Req, Store(r) PROVE cmd' = cmd /\ clock' = clock
  BY <1>4 DEF Store, timeVars
<1>5. Delete => cmd' = cmd /\ clock' = clock
  BY DEF Delete
<1>6. Tick => cmd' = cmd /\ clock' = clock + 1
  BY DEF Tick
<1> QED
  BY <1>1, <1>2, <1>3, <1>4, <1>5, <1>6, StepKinds DEF Quiet

LEMMA ExpiryStep ==
  ASSUME TypeOK, CmdPast, RecordExpires, [Next]_vars
  PROVE  RecordExpires'
<1> USE DEF RecordExpires
<1>t. clock \in Nat /\ expires \in Nat /\ LockTimeout \in Nat /\ LockTimeout > 0
  BY ConstantFacts DEF TypeOK
<1>1. Quiet => RecordExpires'
  BY DEF Quiet
<1>2. ASSUME NEW r \in Req, cmd[r] # NoCmd, Lock(r), clock' = clock PROVE RecordExpires'
  BY <1>2, <1>t, LockFacts
<1>3. ASSUME NEW r \in Req, Store(r) PROVE RecordExpires'
  <2>1. clock' = clock /\ expires' = StoreExpiry(write[r])
    BY <1>3 DEF Store, timeVars
  <2> QED
    BY <2>1, <1>t, ConstantFacts DEF StoreExpiry
<1>4. Delete => RecordExpires'
  BY DEF Delete, Absent
<1>5. Tick => RecordExpires'
  BY <1>t DEF Tick, Absent, storeVars
<1> QED
  BY <1>1, <1>2, <1>3, <1>4, <1>5, StepKinds

LEMMA WindowStep ==
  ASSUME TypeOK, CmdPast, RecordExpires, WindowGuarded, NoSkewAtAll, [Next]_vars
  PROVE  WindowGuarded'
<1>t. clock \in Nat /\ expires \in Nat /\ wonAt \in Nat /\ LockTimeout \in Nat /\ LockTimeout > 0
  BY ConstantFacts DEF TypeOK
<1>1. Quiet => WindowGuarded'
  BY DEF Quiet, WindowGuarded
<1>2. ASSUME NEW r \in Req, cmd[r] # NoCmd, Lock(r), clock' = clock PROVE WindowGuarded'
  <2>1. cmd[r].sentAt \in Nat /\ cmd[r].sentAt <= clock
    BY <1>2 DEF TypeOK, CmdPast
  <2>2. Skew[r] = 0
    BY DEF NoSkewAtAll
  <2> QED
    BY <1>2, <1>t, <2>1, <2>2, LockFacts DEF WindowGuarded
<1>3. ASSUME NEW r \in Req, Store(r) PROVE WindowGuarded'
  <2>1. /\ clock' = clock /\ winner' = winner /\ wonAt' = wonAt
        /\ expires' = StoreExpiry(write[r])
    BY <1>3 DEF Store, winVars, timeVars
  <2>2. rec'.st \in {"completed", "failed"}
    BY <1>3 DEF Store, TypeOK
  <2>3. expires' >= clock + LockTimeout
    BY <2>1, <1>t, ConstantFacts DEF StoreExpiry
  <2>4. expires' \in Nat
    BY <2>1, <1>t, ConstantFacts DEF StoreExpiry
  <2> QED
    BY <2>1, <2>2, <2>3, <2>4, <1>t DEF WindowGuarded
<1>4. Delete => WindowGuarded'
  BY DEF Delete, WindowGuarded
<1>5. Tick => WindowGuarded'
  BY <1>t DEF Tick, Absent, WindowGuarded, timeVars, storeVars, winVars
<1> QED
  BY <1>1, <1>2, <1>3, <1>4, <1>5, StepKinds

LEMMA SafeInit == Init => CmdPast /\ RecordExpires
<1> SUFFICES ASSUME Init PROVE CmdPast /\ RecordExpires
  OBVIOUS
<1>1. CmdPast
  BY DEF Init, CmdPast
<1>2. RecordExpires
  BY ConstantFacts DEF Init, RecordExpires, Absent
<1> QED
  BY <1>1, <1>2

\* Every record has an expiry, and it lies in the future.
THEOREM Expiry == Spec => []RecordExpires
<1> DEFINE I == TypeOK /\ CmdPast /\ RecordExpires
<1>1. Init => I
  BY TypeInit, SafeInit
<1>2. I /\ [Next]_vars => I'
  BY TypeStep, CmdPastStep, ExpiryStep
<1>3. I => RecordExpires
  OBVIOUS
<1> HIDE DEF I
<1> QED
  BY <1>1, <1>2, <1>3, PTL DEF Spec

LEMMA WindowInit == Init => WindowGuarded
<1> SUFFICES ASSUME Init, winner # NoReq PROVE WindowGuarded
  BY DEF WindowGuarded
<1>1. PICK p \in Past, st \in {"processing", "completed", "failed"} :
        rec = PastRecord(p, st) /\ expires = 1 + 2 * LockTimeout
  BY DEF Init
<1> QED
  BY <1>1, ConstantFacts DEF Init, WindowGuarded, PastRecord

\* No request is granted the key inside another's window.
LEMMA NoGrantInWindow ==
  ASSUME TypeOK, CmdPast, WindowGuarded, NoSkewAtAll, winner # NoReq,
         NEW r \in Req, cmd[r] # NoCmd
  PROVE  ~Grants(r)
<1>1. cmd[r].sentAt \in Nat /\ cmd[r].sentAt <= clock /\ Skew[r] = 0
  BY DEF TypeOK, CmdPast, NoSkewAtAll
<1>2. clock \in Nat /\ wonAt \in Nat /\ LockTimeout \in Nat
  BY ConstantFacts DEF TypeOK
<1> QED
  BY <1>1, <1>2 DEF Grants, Stale, WindowGuarded

\* Exactly one contender wins a lock window, when the processes agree on the time.
THEOREM OneWinner == ASSUME NoSkewAtAll PROVE Spec => OneWinnerPerWindow
<1>1. Init => SafeInv
  BY TypeInit, SafeInit, WindowInit DEF SafeInv
<1>2. SafeInv /\ [Next]_vars => SafeInv'
  BY TypeStep, CmdPastStep, ExpiryStep, WindowStep DEF SafeInv
<1>3. SafeInv /\ [Next]_vars => [winner # NoReq => winner' = winner \/ winner' = NoReq]_vars
  <2> SUFFICES ASSUME SafeInv, [Next]_vars, winner # NoReq
               PROVE  winner' = winner \/ winner' = NoReq
    OBVIOUS
  <2>1. ASSUME NEW r \in Req, cmd[r] # NoCmd PROVE ~Grants(r)
    BY <2>1, NoGrantInWindow DEF SafeInv
  <2>2. TypeOK
    BY DEF SafeInv
  <2> QED
    BY <2>1, <2>2, StepKinds DEF Quiet, Store, Delete, Tick, winVars
<1> QED
  BY <1>1, <1>2, <1>3, PTL DEF Spec, OneWinnerPerWindow

--------------------------------------------------------------------------------
(* Prompt commands and handlers: the handler never runs twice in parallel.     *)

PromptEnough ==
  NoSkewAtAll /\ Rtt + HandlerTime < LockTimeout

CmdFresh == \A r \in Req : cmd[r] # NoCmd => clock <= cmd[r].sentAt + Rtt

\* A running handler is the last winner's, and is still inside its window.
RunFresh ==
  \A r \in Req : pc[r] = "run" =>
    /\ winner = r
    /\ since[r] <= wonAt + Rtt
    /\ clock <= since[r] + HandlerTime

WriteDone == \A r \in Req : write[r] # "none" => pc[r] = "done"

\* Both hold as long as the history is calm.
CmdPrompt == calm => CmdFresh
RunGuarded == calm => RunFresh

RunInv == SafeInv /\ CmdPrompt /\ RunGuarded /\ WriteDone

\* A history that is calm after a step was calm before it: the step is no deletion,
\* and if it is a tick nothing was late.
LEMMA CalmStep ==
  ASSUME [Next]_vars, calm' = TRUE
  PROVE  calm = TRUE /\ ~Delete /\ (Tick => InTime)
<1>1. ASSUME NEW r \in Req,
             \/ Arrive(r) \/ CheckNew(r) \/ CheckReplay(r) \/ CheckProcessing(r)
             \/ CheckMismatch(r) \/ Poll(r) \/ WaitOver(r) \/ Wake(r)
             \/ Handled(r, "completed") \/ Handled(r, "failed") \/ HandledOpen(r)
             \/ Store(r) \/ LoseWrite(r) \/ StoreError(r) \/ Orphan(r) \/ Crash(r)
      PROVE  calm' = calm
  BY <1>1 DEF Arrive, CheckNew, CheckReplay, CheckProcessing, CheckMismatch, Poll, WaitOver,
     Wake, Handled, HandledOpen, Store, LoseWrite, StoreError, Orphan, Crash, timeVars
<1>2. ~Delete
  BY DEF Delete
<1>3. ASSUME Tick PROVE calm = TRUE /\ InTime
  BY <1>3 DEF Tick
<1>4. CASE UNCHANGED vars
  <2>1. calm' = calm
    BY <1>4 DEF vars, timeVars
  <2> QED
    BY <2>1, <1>2, <1>3
<1> QED
  BY <1>1, <1>2, <1>3, <1>4 DEF Next

LEMMA CmdFreshStep ==
  ASSUME TypeOK, CmdFresh, [Next]_vars, calm' = TRUE
  PROVE  CmdFresh'
<1>t. clock \in Nat /\ Rtt \in Nat /\ \A r \in Req : cmd[r] # NoCmd => cmd[r].sentAt \in Nat
  BY ConstantFacts DEF TypeOK
<1>1. ASSUME NEW r \in Req, SendsNow(r), clock' = clock PROVE CmdFresh'
  BY <1>1, <1>t DEF SendsNow, CmdFresh, TypeOK, Send
<1>2. ASSUME cmd' = cmd, clock' = clock PROVE CmdFresh'
  BY <1>2 DEF CmdFresh
<1>3. ASSUME NEW r \in Req, cmd' = [cmd EXCEPT ![r] = NoCmd], clock' = clock PROVE CmdFresh'
  BY <1>3 DEF CmdFresh, TypeOK
<1>4. ASSUME NEW r \in Req, Store(r) PROVE cmd' = cmd /\ clock' = clock
  BY <1>4 DEF Store, timeVars
<1>5. Delete => cmd' = cmd /\ clock' = clock
  BY DEF Delete
<1>6. ASSUME Tick PROVE CmdFresh'
  <2>1. cmd' = cmd /\ clock' = clock + 1 /\ \A r \in Req : cmd[r] # NoCmd => clock - cmd[r].sentAt < Rtt
    BY <1>6, CalmStep DEF Tick, InTime
  <2> QED
    BY <2>1, <1>t DEF CmdFresh
<1> QED
  BY <1>1, <1>2, <1>3, <1>4, <1>5, <1>6, StepKinds DEF Quiet

LEMMA WriteDoneStep ==
  ASSUME TypeOK, WriteDone, [Next]_vars
  PROVE  WriteDone'
<1> USE DEF WriteDone, Asking
<1>1. ASSUME NEW r \in Req, UNCHANGED write,
             \/ pc' = pc
             \/ \E p \in Phase : pc' = [pc EXCEPT ![r] = p] /\ pc[r] # "done"
      PROVE  WriteDone'
  BY <1>1 DEF TypeOK
<1>2. ASSUME NEW r \in Req, pc' = pc, write' = [write EXCEPT ![r] = "none"] PROVE WriteDone'
  BY <1>2 DEF TypeOK
<1>3. ASSUME NEW r \in Req, NEW st \in {"completed", "failed"}, Handled(r, st) PROVE WriteDone'
  BY <1>3 DEF Handled, TypeOK
<1>4. ASSUME NEW r \in Req,
             \/ Arrive(r) \/ CheckNew(r) \/ CheckReplay(r) \/ CheckProcessing(r) \/ CheckMismatch(r)
             \/ Poll(r) \/ WaitOver(r) \/ Wake(r) \/ HandledOpen(r)
             \/ StoreError(r) \/ Orphan(r) \/ Crash(r)
      PROVE  /\ UNCHANGED write
             /\ \/ pc' = pc
                \/ \E p \in Phase : pc' = [pc EXCEPT ![r] = p] /\ pc[r] # "done"
  <2> USE DEF Phase
  <2>1. CASE Arrive(r) \/ CheckNew(r) \/ HandledOpen(r) \/ Wake(r) \/ Orphan(r) \/ Crash(r)
    BY <2>1 DEF Arrive, CheckNew, HandledOpen, Wake, Orphan, Crash, reqVars
  <2>2. CASE CheckReplay(r)
    BY <2>2 DEF CheckReplay, Replay
  <2>3. CASE CheckProcessing(r)
    BY <2>3 DEF CheckProcessing
  <2>4. CASE CheckMismatch(r)
    BY <2>4 DEF CheckMismatch, Throw
  <2>5. CASE Poll(r)
    BY <2>5 DEF Poll, Replay
  <2>6. CASE WaitOver(r) \/ StoreError(r)
    BY <2>6 DEF WaitOver, StoreError, Throw
  <2> QED
    BY <1>4, <2>1, <2>2, <2>3, <2>4, <2>5, <2>6
<1>5. ASSUME NEW r \in Req, Store(r) \/ LoseWrite(r)
      PROVE  pc' = pc /\ write' = [write EXCEPT ![r] = "none"]
  BY <1>5 DEF Store, LoseWrite
<1>6. Delete \/ Tick => UNCHANGED <<pc, write>>
  BY DEF Delete, Tick
<1>7. UNCHANGED vars => UNCHANGED <<pc, write>>
  BY DEF vars
<1> QED
  BY <1>1, <1>2, <1>3, <1>4, <1>5, <1>6, <1>7 DEF Next

\* What a step does to the running handlers: it starts one with a grant, or starts
\* none and leaves the others' since alone.
LEMMA RunKinds ==
  ASSUME TypeOK, WriteDone, [Next]_vars
  PROVE  \/ \E r \in Req : /\ cmd[r] # NoCmd /\ Grants(r) /\ Lock(r) /\ clock' = clock
                            /\ pc' = [pc EXCEPT ![r] = "run"]
                            /\ since' = [since EXCEPT ![r] = clock]
         \/ /\ \A r \in Req : pc'[r] = "run" => pc[r] = "run" /\ since'[r] = since[r]
            /\ \/ Quiet
               \/ \E r \in Req : cmd[r] # NoCmd /\ Grants(r) /\ Lock(r)
               \/ \E r \in Req : Store(r)
               \/ Delete
               \/ Tick
<1> DEFINE Keeps == \A r \in Req : pc'[r] = "run" => pc[r] = "run" /\ since'[r] = since[r]
<1> USE DEF TypeOK, Asking
<1>1. ASSUME NEW r \in Req, CheckNew(r)
      PROVE  /\ cmd[r] # NoCmd /\ Grants(r) /\ Lock(r) /\ clock' = clock
             /\ pc' = [pc EXCEPT ![r] = "run"] /\ since' = [since EXCEPT ![r] = clock]
  <2>1. rec.st # "new"
    BY RecordFacts
  <2> QED
    BY <1>1, <2>1 DEF CheckNew, Verdict, timeVars
<1>2. ASSUME NEW r \in Req, NEW p \in Phase \ {"run"}, pc' = [pc EXCEPT ![r] = p],
             \/ since' = since
             \/ \E t \in Nat : since' = [since EXCEPT ![r] = t]
      PROVE  Keeps
  BY <1>2
<1>3. ASSUME NEW r \in Req, NEW t \in Nat, pc[r] # "run", pc' = pc, since' = [since EXCEPT ![r] = t]
      PROVE  Keeps
  BY <1>3
<1>4. ASSUME NEW r \in Req,
             \/ Arrive(r) \/ CheckReplay(r) \/ CheckProcessing(r)
             \/ Poll(r) \/ WaitOver(r) \/ Wake(r) \/ HandledOpen(r) \/ StoreError(r) \/ Crash(r)
             \/ Handled(r, "completed") \/ Handled(r, "failed")
      PROVE  Keeps
  <2> USE DEF Phase
  <2>1. CASE Arrive(r) \/ HandledOpen(r) \/ Wake(r)
    BY <2>1, <1>2 DEF Arrive, HandledOpen, Wake, reqVars
  <2>2. CASE CheckReplay(r)
    BY <2>2, <1>2 DEF CheckReplay, Replay
  <2>3. CASE CheckProcessing(r)
    BY <2>3, <1>2 DEF CheckProcessing
  <2>4. CASE Poll(r)
    BY <2>4, <1>2 DEF Poll, Replay
  <2>5. CASE WaitOver(r) \/ StoreError(r)
    BY <2>5, <1>2 DEF WaitOver, StoreError, Throw
  <2>6. CASE Crash(r)
    BY <2>6, <1>2 DEF Crash
  <2>7. CASE Handled(r, "completed") \/ Handled(r, "failed")
    BY <2>7, <1>2 DEF Handled
  <2> QED
    BY <1>4, <2>1, <2>2, <2>3, <2>4, <2>5, <2>6, <2>7
<1>5. ASSUME NEW r \in Req, CheckMismatch(r) PROVE Keeps
  <2>1. CASE UNCHANGED <<pc, since>>
    BY <2>1
  <2>2. CASE pc' = [pc EXCEPT ![r] = "mismatch"] /\ UNCHANGED since
    BY <2>2
  <2>3. CASE Throw(r, "mismatch")
    BY <2>3, <1>2 DEF Throw, Phase
  <2> QED
    BY <1>5, <2>1, <2>2, <2>3 DEF CheckMismatch
<1>6. ASSUME NEW r \in Req, Store(r) \/ LoseWrite(r) PROVE Keeps
  BY <1>6, <1>3 DEF Store, LoseWrite, WriteDone
<1>7. ASSUME NEW r \in Req, Orphan(r) PROVE Keeps
  BY <1>7 DEF Orphan, reqVars
<1>8. Delete \/ Tick \/ UNCHANGED vars => Keeps
  BY DEF Delete, Tick, reqVars, vars
<1>9. ASSUME NEW r \in Req,
             \/ Arrive(r) \/ CheckReplay(r) \/ CheckProcessing(r) \/ CheckMismatch(r)
             \/ Poll(r) \/ WaitOver(r) \/ Wake(r) \/ HandledOpen(r) \/ StoreError(r) \/ Crash(r)
             \/ Handled(r, "completed") \/ Handled(r, "failed") \/ LoseWrite(r)
      PROVE  Quiet
  BY <1>9 DEF Arrive, CheckReplay, CheckProcessing, CheckMismatch, Poll, WaitOver, Wake, HandledOpen,
              StoreError, Crash, Handled, LoseWrite, Quiet, timeVars, storeVars, winVars
<1>10. ASSUME NEW r \in Req, Orphan(r) PROVE Quiet \/ (cmd[r] # NoCmd /\ Grants(r) /\ Lock(r))
  <2>1. rec.st # "new"
    BY RecordFacts
  <2> QED
    BY <1>10, <2>1 DEF Orphan, Verdict, Quiet, timeVars, storeVars, winVars
<1>11. UNCHANGED vars => Quiet
  BY DEF vars, Quiet, timeVars, storeVars, winVars
<1> HIDE DEF Keeps
<1>12. \/ \E r \in Req : CheckNew(r)
       \/ Keeps /\ \/ Quiet
                   \/ \E r \in Req : cmd[r] # NoCmd /\ Grants(r) /\ Lock(r)
                   \/ \E r \in Req : Store(r)
                   \/ Delete
                   \/ Tick
  BY <1>4, <1>5, <1>6, <1>7, <1>8, <1>9, <1>10, <1>11 DEF Next
<1> QED
  BY <1>1, <1>12 DEF Keeps

LEMMA RunStep ==
  ASSUME PromptEnough, SafeInv, WriteDone, CmdFresh, RunFresh, [Next]_vars, calm' = TRUE
  PROVE  RunFresh'
<1> USE DEF PromptEnough, SafeInv
<1>t. /\ clock \in Nat /\ wonAt \in Nat /\ LockTimeout \in Nat /\ Rtt \in Nat /\ HandlerTime \in Nat
      /\ \A r \in Req : since[r] \in Nat
  BY ConstantFacts DEF TypeOK
<1>1. ASSUME NEW r \in Req, cmd[r] # NoCmd, Grants(r) PROVE winner = NoReq
  BY <1>1, NoGrantInWindow
<1>2. NoReq \notin Req
  BY ConstantFacts
<1>3. ASSUME NEW r \in Req, cmd[r] # NoCmd, Grants(r) PROVE \A q \in Req : pc[q] # "run"
  BY <1>3, <1>1, <1>2 DEF RunFresh
<1>4. ASSUME NEW r \in Req, cmd[r] # NoCmd, Grants(r), Lock(r), clock' = clock,
             pc' = [pc EXCEPT ![r] = "run"], since' = [since EXCEPT ![r] = clock]
      PROVE  RunFresh'
  <2>1. cmd[r].sentAt \in Nat /\ clock <= cmd[r].sentAt + Rtt
    BY <1>4 DEF TypeOK, CmdFresh
  <2>2. winner' = r /\ wonAt' = cmd[r].sentAt
    BY <1>4, <2>1, <1>t DEF Lock
  <2>3. \A q \in Req : pc'[q] = "run" => q = r
    BY <1>3, <1>4 DEF TypeOK
  <2>4. since'[r] = clock
    BY <1>4 DEF TypeOK
  <2> QED
    BY <1>4, <2>1, <2>2, <2>3, <2>4, <1>t DEF RunFresh
<1>5. ASSUME \A r \in Req : pc'[r] = "run" => pc[r] = "run" /\ since'[r] = since[r],
             clock' = clock, winner' = winner, wonAt' = wonAt
      PROVE  RunFresh'
  BY <1>5 DEF RunFresh
<1>6. ASSUME \A r \in Req : pc'[r] = "run" => pc[r] = "run" /\ since'[r] = since[r], Tick
      PROVE  RunFresh'
  <2> SUFFICES ASSUME NEW r \in Req, pc'[r] = "run"
               PROVE  winner' = r /\ since'[r] <= wonAt' + Rtt /\ clock' <= since'[r] + HandlerTime
    BY DEF RunFresh
  <2>1. pc[r] = "run" /\ since'[r] = since[r]
    BY <1>6
  <2>2. clock' = clock + 1 /\ clock - since[r] < HandlerTime
    BY <1>6, <2>1, CalmStep DEF Tick, InTime
  <2>3. winner = r /\ since[r] <= wonAt + Rtt
    BY <2>1 DEF RunFresh
  <2>4. clock + 1 < wonAt + LockTimeout
    BY <2>2, <2>3, <1>t
  <2>5. winner' = winner /\ wonAt' = wonAt
    BY <1>6, <2>4, <1>t DEF Tick, winVars
  <2> QED
    BY <2>1, <2>2, <2>3, <2>5, <1>t
<1>7. ASSUME \A r \in Req : pc'[r] = "run" => pc[r] = "run" /\ since'[r] = since[r],
             NEW r \in Req, cmd[r] # NoCmd, Grants(r)
      PROVE  RunFresh'
  BY <1>7, <1>3 DEF RunFresh
<1>8. ASSUME NEW r \in Req, Store(r) PROVE UNCHANGED <<clock, winner, wonAt>>
  BY <1>8 DEF Store, winVars, timeVars
<1>9. ~Delete
  BY CalmStep
<1>10. TypeOK /\ WriteDone
  OBVIOUS
<1> QED
  BY <1>4, <1>5, <1>6, <1>7, <1>8, <1>9, <1>10, RunKinds DEF Quiet

\* With prompt commands and handlers that end inside the lock window, no two
\* handlers of one key run at a time, whatever crashes and whichever writes are lost.
THEOREM SingleRun == ASSUME PromptEnough PROVE Spec => []NoParallelRuns
<1>1. Init => RunInv
  <2> SUFFICES ASSUME Init PROVE RunInv
    OBVIOUS
  <2>1. SafeInv
    BY TypeInit, SafeInit, WindowInit DEF SafeInv
  <2>2. CmdPrompt /\ RunGuarded /\ WriteDone
    BY DEF Init, CmdPrompt, CmdFresh, RunGuarded, RunFresh, WriteDone
  <2> QED
    BY <2>1, <2>2 DEF RunInv
<1>2. RunInv /\ [Next]_vars => RunInv'
  <2> SUFFICES ASSUME RunInv, [Next]_vars PROVE RunInv'
    OBVIOUS
  <2>1. SafeInv'
    BY TypeStep, CmdPastStep, ExpiryStep, WindowStep DEF SafeInv, RunInv, PromptEnough
  <2>2. WriteDone'
    BY WriteDoneStep DEF SafeInv, RunInv
  <2>3. ASSUME calm' = TRUE PROVE CmdFresh' /\ RunFresh'
    <3>1. CmdFresh /\ RunFresh
      BY <2>3, CalmStep DEF RunInv, CmdPrompt, RunGuarded
    <3> QED
      BY <2>3, <3>1, CmdFreshStep, RunStep DEF RunInv, SafeInv
  <2>4. CmdPrompt' /\ RunGuarded'
    BY <2>3, <2>1 DEF CmdPrompt, RunGuarded, SafeInv, TypeOK
  <2> QED
    BY <2>1, <2>2, <2>4 DEF RunInv
<1>3. RunInv => NoParallelRuns
  BY DEF RunInv, RunGuarded, RunFresh, NoParallelRuns
<1> QED
  BY <1>1, <1>2, <1>3, PTL DEF Spec

--------------------------------------------------------------------------------
(* A stored success is final, and an answer is that of the same payload.       *)

\* The whole life of an attempt, its checkAndLock, its handler and its write, fits
\* inside the lock window.
WholeAttempt == NoSkewAtAll /\ 2 * Rtt + HandlerTime <= LockTimeout

\* A request that holds the key: its handler runs, or its outcome is on its way.
Busy(r) == pc[r] = "run" \/ write[r] # "none"

RunsOnLock(r) ==
  pc[r] = "run" => since[r] <= rec.startedAt + Rtt /\ clock <= since[r] + HandlerTime
WritesOnLock(r) ==
  write[r] # "none" => since[r] <= rec.startedAt + Rtt + HandlerTime /\ clock <= since[r] + Rtt

\* The record of a request that holds the key is its lock, and nobody else is busy.
Sole ==
  \A r \in Req :
    /\ Busy(r) => rec.st = "processing" /\ \A q \in Req : Busy(q) => q = r
    /\ RunsOnLock(r) /\ WritesOnLock(r)
KeyHeld == calm => Sole

LockLife == rec.st = "processing" => expires >= rec.startedAt + 2 * LockTimeout

\* Fingerprints are those of the request that sent, or stored, them.
CmdPrints == \A r \in Req : cmd[r] # NoCmd => cmd[r].fp \in {Canonical(r), Plain(r)}
RecPrint ==
  rec.st \in {"completed", "failed"} =>
    rec.from \in Req /\ rec.fp \in {Canonical(rec.from), Plain(rec.from)}

FinalInv ==
  /\ TypeOK /\ CmdPast /\ WriteDone
  /\ CmdPrints /\ RecPrint /\ DirectReplayMatches
AttemptInv == FinalInv /\ CmdPrompt /\ LockLife /\ KeyHeld

\* What a step does to the writes in flight: one that is there was there, or its
\* handler has just ended.
LEMMA WriteKinds ==
  ASSUME TypeOK, WriteDone, [Next]_vars, NEW q \in Req, write'[q] # "none"
  PROVE  \/ write[q] # "none" /\ since'[q] = since[q]
         \/ pc[q] = "run" /\ since'[q] = clock /\ clock' = clock
<1> DEFINE Goal == \/ write[q] # "none" /\ since'[q] = since[q]
                   \/ pc[q] = "run" /\ since'[q] = clock /\ clock' = clock
<1> USE DEF TypeOK
<1>1. ASSUME NEW r \in Req, write' = write, pc[r] # "done",
             \/ since' = since
             \/ \E t \in Nat : since' = [since EXCEPT ![r] = t]
      PROVE  Goal
  BY <1>1 DEF WriteDone
<1>2. ASSUME UNCHANGED <<write, since>> PROVE Goal
  BY <1>2
<1>3. ASSUME NEW r \in Req, Arrive(r) \/ Wake(r) \/ Orphan(r) \/ HandledOpen(r) PROVE Goal
  BY <1>3, <1>2 DEF Arrive, Wake, Orphan, HandledOpen, reqVars
<1>4. ASSUME NEW r \in Req, CheckNew(r) PROVE Goal
  BY <1>4, <1>1 DEF CheckNew, Asking
<1>5. ASSUME NEW r \in Req, CheckReplay(r) \/ CheckProcessing(r) PROVE Goal
  BY <1>5, <1>1 DEF CheckReplay, CheckProcessing, Replay, Asking
<1>6. ASSUME NEW r \in Req, CheckMismatch(r) PROVE Goal
  <2>1. write' = write /\ pc[r] # "done" /\ (since' = since \/ since' = [since EXCEPT ![r] = 0])
    BY <1>6 DEF CheckMismatch, Throw, Asking
  <2> QED
    BY <2>1, <1>1
<1>7. ASSUME NEW r \in Req, Poll(r) PROVE Goal
  <2>1. write' = write /\ pc[r] # "done"
    BY <1>7 DEF Poll
  <2>2. \/ since' = since
        \/ \E t \in Nat : since' = [since EXCEPT ![r] = t]
    BY <1>7 DEF Poll, Replay
  <2> QED
    BY <2>1, <2>2, <1>1
<1>8. ASSUME NEW r \in Req, WaitOver(r) \/ StoreError(r) \/ Crash(r) PROVE Goal
  BY <1>8, <1>1 DEF WaitOver, StoreError, Crash, Throw, Asking
<1>9. ASSUME NEW r \in Req, Handled(r, "completed") \/ Handled(r, "failed") PROVE Goal
  BY <1>9 DEF Handled, timeVars
<1>10. ASSUME NEW r \in Req, Store(r) \/ LoseWrite(r) PROVE Goal
  BY <1>10 DEF Store, LoseWrite
<1>11. Delete \/ Tick \/ UNCHANGED vars => Goal
  BY <1>2 DEF Delete, Tick, reqVars, vars
<1> HIDE DEF Goal
<1>12. Goal
  BY <1>3, <1>4, <1>5, <1>6, <1>7, <1>8, <1>9, <1>10, <1>11 DEF Next
<1> QED
  BY <1>12 DEF Goal

\* The key is not granted while a request holds it.
LEMMA BusyKeepsKey ==
  ASSUME WholeAttempt, TypeOK, CmdPast, Sole, NEW r \in Req, cmd[r] # NoCmd, Grants(r)
  PROVE  \A q \in Req : ~Busy(q)
<1> SUFFICES ASSUME NEW q \in Req, Busy(q) PROVE FALSE
  OBVIOUS
<1>1. cmd[r].sentAt \in Nat /\ cmd[r].sentAt <= clock /\ Skew[r] = 0
  BY DEF TypeOK, CmdPast, WholeAttempt, NoSkewAtAll
<1>2. /\ clock \in Nat /\ LockTimeout \in Nat /\ Rtt \in Nat /\ HandlerTime \in Nat
      /\ since[q] \in Nat /\ rec.startedAt \in Nat
  BY ConstantFacts, RecordFacts DEF TypeOK
<1>3. rec.st = "processing"
  BY DEF Sole
<1>4. clock <= rec.startedAt + LockTimeout
  <2>1. RunsOnLock(q) /\ WritesOnLock(q)
    BY DEF Sole
  <2>2. 2 * Rtt + HandlerTime <= LockTimeout
    BY DEF WholeAttempt
  <2>3. CASE pc[q] = "run"
    BY <1>2, <2>1, <2>2, <2>3 DEF RunsOnLock
  <2>4. CASE write[q] # "none"
    BY <1>2, <2>1, <2>2, <2>4 DEF WritesOnLock
  <2> QED
    BY <2>3, <2>4 DEF Busy
<1> QED
  BY <1>1, <1>2, <1>3, <1>4 DEF Grants, Stale

LEMMA LockLifeStep ==
  ASSUME NoSkewAtAll, TypeOK, CmdPast, LockLife, [Next]_vars
  PROVE  LockLife'
<1>t. clock \in Nat /\ expires \in Nat /\ LockTimeout \in Nat
  BY ConstantFacts DEF TypeOK
<1> USE DEF LockLife
<1>1. Quiet => LockLife'
  BY DEF Quiet
<1>2. ASSUME NEW r \in Req, cmd[r] # NoCmd, Lock(r) PROVE LockLife'
  <2>1. cmd[r].sentAt \in Nat /\ cmd[r].sentAt <= clock /\ Skew[r] = 0
    BY <1>2 DEF TypeOK, CmdPast, NoSkewAtAll
  <2> QED
    BY <1>2, <1>t, <2>1, LockFacts
<1>3. ASSUME NEW r \in Req, Store(r) PROVE LockLife'
  BY <1>3 DEF Store, TypeOK
<1>4. Delete => LockLife'
  BY DEF Delete, Absent
<1>5. Tick => LockLife'
  BY DEF Tick, Absent, storeVars
<1> QED
  BY <1>1, <1>2, <1>3, <1>4, <1>5, StepKinds

LEMMA SoleStep ==
  ASSUME WholeAttempt, TypeOK, CmdPast, WriteDone, CmdFresh, LockLife, Sole,
         [Next]_vars, calm' = TRUE
  PROVE  Sole'
<1>t. /\ clock \in Nat /\ LockTimeout \in Nat /\ Rtt \in Nat /\ HandlerTime \in Nat
      /\ LockTimeout > 0 /\ rec.startedAt \in Nat /\ expires \in Nat
      /\ \A q \in Req : since[q] \in Nat
  BY ConstantFacts, RecordFacts DEF TypeOK
<1> DEFINE KeepsRuns == \A q \in Req : pc'[q] = "run" => pc[q] = "run" /\ since'[q] = since[q]
<1>k. ASSUME NEW q \in Req, write'[q] # "none"
      PROVE  \/ write[q] # "none" /\ since'[q] = since[q]
             \/ pc[q] = "run" /\ since'[q] = clock /\ clock' = clock
  BY <1>k, WriteKinds
<1>b. ASSUME KeepsRuns, NEW q \in Req, Busy(q)' PROVE Busy(q)
  BY <1>b, <1>k DEF Busy
<1>w. ASSUME NEW q \in Req, \A p \in Req : ~Busy(p) PROVE write'[q] = "none"
  BY <1>w, <1>k DEF Busy
<1>n. ASSUME \A q \in Req : ~Busy(q)' PROVE Sole'
  BY <1>n DEF Sole, Busy, RunsOnLock, WritesOnLock
<1>1. ASSUME NEW r \in Req, cmd[r] # NoCmd, Grants(r), Lock(r), clock' = clock,
             pc' = [pc EXCEPT ![r] = "run"], since' = [since EXCEPT ![r] = clock]
      PROVE  Sole'
  <2>1. \A q \in Req : ~Busy(q)
    BY <1>1, BusyKeepsKey
  <2>2. \A q \in Req : write'[q] = "none"
    BY <2>1, <1>w
  <2>3. \A q \in Req : pc'[q] = "run" => q = r
    BY <1>1, <2>1 DEF Busy, TypeOK
  <2>4. rec'.st = "processing" /\ rec'.startedAt = cmd[r].sentAt
    <3>1. cmd[r].sentAt \in Nat /\ Skew[r] = 0
      BY <1>1 DEF TypeOK, WholeAttempt, NoSkewAtAll
    <3> QED
      BY <1>1, <3>1, LockFacts
  <2>5. clock <= cmd[r].sentAt + Rtt /\ since'[r] = clock
    BY <1>1 DEF CmdFresh, TypeOK
  <2> SUFFICES ASSUME NEW q \in Req
               PROVE  /\ Busy(q)' => rec'.st = "processing" /\ \A p \in Req : Busy(p)' => p = q
                      /\ RunsOnLock(q)' /\ WritesOnLock(q)'
    BY DEF Sole
  <2>6. \A p \in Req : Busy(p)' => p = r
    BY <2>2, <2>3 DEF Busy
  <2>7. RunsOnLock(q)'
    BY <1>1, <1>t, <2>3, <2>4, <2>5 DEF RunsOnLock
  <2>8. WritesOnLock(q)'
    BY <2>2 DEF WritesOnLock
  <2> QED
    BY <2>4, <2>6, <2>7, <2>8
<1>2. ASSUME KeepsRuns, NEW r \in Req, cmd[r] # NoCmd, Grants(r) PROVE Sole'
  <2>1. \A q \in Req : ~Busy(q)
    BY <1>2, BusyKeepsKey
  <2> QED
    BY <1>2, <1>b, <1>n, <2>1
<1>3. ASSUME KeepsRuns, clock' = clock, rec' = rec PROVE Sole'
  <2> SUFFICES ASSUME NEW q \in Req
               PROVE  /\ Busy(q)' => rec'.st = "processing" /\ \A p \in Req : Busy(p)' => p = q
                      /\ RunsOnLock(q)' /\ WritesOnLock(q)'
    BY DEF Sole
  <2>1. Busy(q)' => rec'.st = "processing" /\ \A p \in Req : Busy(p)' => p = q
    BY <1>3, <1>b DEF Sole
  <2>2. RunsOnLock(q) /\ WritesOnLock(q)
    BY DEF Sole
  <2>3. RunsOnLock(q)'
    BY <1>3, <2>2 DEF RunsOnLock
  <2>4. WritesOnLock(q)'
    <3> SUFFICES ASSUME write'[q] # "none"
                 PROVE  since'[q] <= rec'.startedAt + Rtt + HandlerTime /\ clock' <= since'[q] + Rtt
      BY DEF WritesOnLock
    <3>1. CASE write[q] # "none" /\ since'[q] = since[q]
      BY <1>3, <2>2, <3>1 DEF WritesOnLock
    <3>2. CASE pc[q] = "run" /\ since'[q] = clock
      BY <1>3, <1>t, <2>2, <3>2 DEF RunsOnLock
    <3> QED
      BY <1>k, <3>1, <3>2
  <2> QED
    BY <2>1, <2>3, <2>4
<1>4. ASSUME KeepsRuns, NEW r \in Req, Store(r) PROVE Sole'
  <2>1. Busy(r) /\ pc[r] = "done" /\ pc' = pc /\ write'[r] = "none"
    BY <1>4 DEF Store, Busy, WriteDone, TypeOK
  <2>2. \A q \in Req : Busy(q)' => q = r
    BY <1>4, <1>b, <2>1 DEF Sole
  <2>3. ~Busy(r)'
    BY <2>1 DEF Busy
  <2> QED
    BY <1>n, <2>2, <2>3
<1>5. ASSUME KeepsRuns, Tick PROVE Sole'
  <2>1. clock' = clock + 1 /\ InTime
    BY <1>5, CalmStep DEF Tick
  <2>2. ASSUME NEW q \in Req, write'[q] # "none" PROVE write[q] # "none" /\ since'[q] = since[q]
    BY <1>k, <1>t, <2>1, <2>2
  <2>3. ASSUME NEW q \in Req, Busy(q)'
        PROVE  /\ rec' = rec
               /\ RunsOnLock(q)' /\ WritesOnLock(q)'
    <3>1. Busy(q) /\ rec.st = "processing" /\ RunsOnLock(q) /\ WritesOnLock(q)
      BY <1>5, <1>b, <2>3 DEF Sole
    <3>2. 2 * Rtt + HandlerTime <= LockTimeout
      BY DEF WholeAttempt
    <3>3. /\ pc[q] = "run" => clock - since[q] < HandlerTime
          /\ write[q] # "none" => clock - since[q] < Rtt
      BY <2>1 DEF InTime
    <3>4. clock < rec.startedAt + LockTimeout
      <4>1. CASE pc[q] = "run"
        BY <1>t, <3>1, <3>2, <3>3, <4>1 DEF RunsOnLock
      <4>2. CASE write[q] # "none"
        BY <1>t, <3>1, <3>2, <3>3, <4>2 DEF WritesOnLock
      <4> QED
        BY <3>1, <4>1, <4>2 DEF Busy
    <3>5. expires # clock + 1
      BY <1>t, <3>1, <3>4 DEF LockLife
    <3>6. rec' = rec
      BY <1>5, <3>5 DEF Tick, storeVars
    <3>7. RunsOnLock(q)'
      <4> SUFFICES ASSUME pc'[q] = "run"
                   PROVE  since'[q] <= rec'.startedAt + Rtt /\ clock' <= since'[q] + HandlerTime
        BY DEF RunsOnLock
      <4>1. pc[q] = "run" /\ since'[q] = since[q]
        BY <1>5
      <4> QED
        BY <1>t, <2>1, <3>1, <3>3, <3>6, <4>1 DEF RunsOnLock
    <3>8. WritesOnLock(q)'
      <4> SUFFICES ASSUME write'[q] # "none"
                   PROVE  since'[q] <= rec'.startedAt + Rtt + HandlerTime /\ clock' <= since'[q] + Rtt
        BY DEF WritesOnLock
      <4>1. write[q] # "none" /\ since'[q] = since[q]
        BY <2>2
      <4> QED
        BY <1>t, <2>1, <3>1, <3>3, <3>6, <4>1 DEF WritesOnLock
    <3> QED
      BY <3>6, <3>7, <3>8
  <2> SUFFICES ASSUME NEW q \in Req
               PROVE  /\ Busy(q)' => rec'.st = "processing" /\ \A p \in Req : Busy(p)' => p = q
                      /\ RunsOnLock(q)' /\ WritesOnLock(q)'
    BY DEF Sole
  <2>4. Busy(q)' => rec'.st = "processing" /\ \A p \in Req : Busy(p)' => p = q
    BY <1>5, <1>b, <2>3 DEF Sole
  <2>5. ~Busy(q)' => RunsOnLock(q)' /\ WritesOnLock(q)'
    BY DEF Busy, RunsOnLock, WritesOnLock
  <2> QED
    BY <2>3, <2>4, <2>5
<1>6. ~Delete
  BY CalmStep
<1> QED
  BY <1>1, <1>2, <1>3, <1>4, <1>5, <1>6, RunKinds DEF Quiet

LEMMA CmdPrintsStep ==
  ASSUME TypeOK, CmdPrints, [Next]_vars
  PROVE  CmdPrints'
<1> USE DEF CmdPrints
<1>1. ASSUME NEW r \in Req,
             \/ cmd' = cmd
             \/ cmd' = [cmd EXCEPT ![r] = NoCmd]
             \/ \E fp \in {Canonical(r), Plain(r)} : Send(r, fp)
      PROVE  CmdPrints'
  BY <1>1 DEF Send, TypeOK
<1>2. ASSUME NEW r \in Req, Arrive(r) \/ CheckMismatch(r) PROVE CmdPrints'
  BY <1>1, <1>2 DEF Arrive, CheckMismatch
<1>3. ASSUME NEW r \in Req, Poll(r) PROVE CmdPrints'
  BY <1>1, <1>3 DEF Poll, PrintOf
<1>4. ASSUME NEW r \in Req,
             CheckNew(r) \/ CheckReplay(r) \/ CheckProcessing(r) \/ Orphan(r)
      PROVE  CmdPrints'
  BY <1>1, <1>4 DEF CheckNew, CheckReplay, CheckProcessing, Orphan
<1>5. ASSUME NEW r \in Req,
             \/ WaitOver(r) \/ Wake(r) \/ Handled(r, "completed") \/ Handled(r, "failed")
             \/ HandledOpen(r) \/ Store(r) \/ LoseWrite(r) \/ StoreError(r) \/ Crash(r)
      PROVE  CmdPrints'
  BY <1>1, <1>5 DEF WaitOver, Wake, Handled, HandledOpen, Store, LoseWrite, StoreError, Crash
<1>6. Delete \/ Tick \/ UNCHANGED vars => cmd' = cmd
  BY DEF Delete, Tick, vars
<1>7. cmd' = cmd => CmdPrints'
  OBVIOUS
<1> QED
  BY <1>2, <1>3, <1>4, <1>5, <1>6, <1>7 DEF Next

LEMMA RecPrintStep ==
  ASSUME TypeOK, RecPrint, [Next]_vars
  PROVE  RecPrint'
<1> USE DEF RecPrint
<1>1. Quiet => RecPrint'
  BY DEF Quiet
<1>2. ASSUME NEW r \in Req, Lock(r) PROVE RecPrint'
  BY <1>2 DEF Lock
<1>3. ASSUME NEW r \in Req, Store(r) PROVE RecPrint'
  BY <1>3 DEF Store, StoredPrint
<1>4. Delete => RecPrint'
  BY DEF Delete, Absent
<1>5. Tick => RecPrint'
  BY DEF Tick, Absent, storeVars
<1> QED
  BY <1>1, <1>2, <1>3, <1>4, <1>5, StepKinds

\* A request that is replayed was replayed before, or its own script found the
\* fingerprint it carried.
LEMMA ReplayKinds ==
  ASSUME TypeOK, [Next]_vars, NEW q \in Req, pc'[q] = "replayed"
  PROVE  \/ pc[q] = "replayed" /\ got'[q] = got[q]
         \/ CheckReplay(q)
<1> DEFINE Goal == \/ pc[q] = "replayed" /\ got'[q] = got[q]
                   \/ CheckReplay(q)
<1> USE DEF TypeOK
<1>1. ASSUME NEW r \in Req, pc' = pc \/ \E p \in Phase \ {"replayed"} : pc' = [pc EXCEPT ![r] = p],
             \/ got' = got
             \/ pc[r] # "replayed" /\ \E g \in Req \cup {NoReq} : got' = [got EXCEPT ![r] = g]
      PROVE  Goal
  BY <1>1
<1> USE DEF Phase
<1>2. ASSUME NEW r \in Req, CheckReplay(r) PROVE Goal
  BY <1>2 DEF CheckReplay, Replay
<1>3. ASSUME NEW r \in Req, Poll(r) PROVE Goal
  <2>1. \E p \in Phase \ {"replayed"} : pc' = [pc EXCEPT ![r] = p]
    BY <1>3 DEF Poll, Replay
  <2>2. pc[r] # "replayed" /\ (got' = got \/ got' = [got EXCEPT ![r] = rec.from])
    BY <1>3 DEF Poll, Replay
  <2> QED
    BY <1>1, <2>1, <2>2, RecordFacts
<1>4. ASSUME NEW r \in Req, CheckMismatch(r) PROVE Goal
  <2>1. got' = got
    BY <1>4 DEF CheckMismatch
  <2>2. pc' = pc \/ \E p \in Phase \ {"replayed"} : pc' = [pc EXCEPT ![r] = p]
    BY <1>4 DEF CheckMismatch, Throw
  <2> QED
    BY <1>1, <2>1, <2>2
<1>5. ASSUME NEW r \in Req, WaitOver(r) \/ StoreError(r) PROVE Goal
  BY <1>1, <1>5 DEF WaitOver, StoreError, Throw
<1>6. ASSUME NEW r \in Req,
             \/ Arrive(r) \/ CheckNew(r) \/ CheckProcessing(r) \/ Wake(r)
             \/ Handled(r, "completed") \/ Handled(r, "failed") \/ HandledOpen(r) \/ Crash(r)
      PROVE  Goal
  BY <1>1, <1>6 DEF Arrive, CheckNew, CheckProcessing, Wake, Handled, HandledOpen, Crash
<1>7. ASSUME NEW r \in Req, Store(r) \/ LoseWrite(r) \/ Orphan(r) PROVE Goal
  BY <1>1, <1>7 DEF Store, LoseWrite, Orphan
<1>8. Delete \/ Tick \/ UNCHANGED vars => Goal
  BY DEF Delete, Tick, vars
<1> HIDE DEF Goal
<1>9. Goal
  BY <1>2, <1>3, <1>4, <1>5, <1>6, <1>7, <1>8 DEF Next
<1> QED
  BY <1>9 DEF Goal

LEMMA ReplayStep ==
  ASSUME TypeOK, CmdPrints, RecPrint, DirectReplayMatches, [Next]_vars
  PROVE  DirectReplayMatches'
<1> SUFFICES ASSUME Validate, NEW q \in Req, pc'[q] = "replayed"
             PROVE  Payload[q] = Payload[got'[q]]
  BY DEF DirectReplayMatches
<1>1. CASE pc[q] = "replayed" /\ got'[q] = got[q]
  BY <1>1 DEF DirectReplayMatches
<1>2. CASE CheckReplay(q)
  <2>1. cmd[q] # NoCmd /\ Verdict(q) \in {"completed", "failed"} /\ got'[q] = rec.from
    BY <1>2 DEF CheckReplay, Replay, TypeOK
  <2>2. ~Differs(q) /\ rec.st \in {"completed", "failed"}
    BY <2>1 DEF Verdict
  <2>3. rec.fp = cmd[q].fp
    BY <2>2 DEF Differs
  <2>4. rec.fp \in {Canonical(rec.from), Plain(rec.from)} /\ cmd[q].fp \in {Canonical(q), Plain(q)}
    BY <2>1, <2>2 DEF RecPrint, CmdPrints
  <2>5. rec.fp[2] = Payload[rec.from] /\ cmd[q].fp[2] = Payload[q]
    BY <2>4 DEF Canonical, Plain
  <2> QED
    BY <2>1, <2>3, <2>5
<1> QED
  BY <1>1, <1>2, ReplayKinds

\* A success that is stored stays, in a calm history, until Redis drops it.
LEMMA FinalStep ==
  ASSUME TypeOK, Sole, [Next]_vars, calm' = TRUE, rec.st = "completed"
  PROVE  rec'.st = "completed" \/ (rec'.st = "absent" /\ clock' = expires)
<1>1. \A r \in Req : ~Busy(r)
  BY DEF Sole
<1>2. ASSUME NEW r \in Req PROVE ~Grants(r) /\ ~Store(r)
  BY <1>1 DEF Grants, Store, Busy
<1>3. Quiet => rec' = rec
  BY DEF Quiet
<1>4. ~Delete
  BY CalmStep
<1>5. Tick => rec' = rec \/ (rec'.st = "absent" /\ clock' = expires)
  BY DEF Tick, Absent, storeVars
<1> QED
  BY <1>2, <1>3, <1>4, <1>5, StepKinds

LEMMA FinalInit == Init => FinalInv /\ CmdPrompt /\ LockLife /\ KeyHeld
<1> SUFFICES ASSUME Init PROVE FinalInv /\ CmdPrompt /\ LockLife /\ KeyHeld
  OBVIOUS
<1>1. TypeOK /\ CmdPast
  BY TypeInit, SafeInit
<1>2. \A r \in Req : /\ pc[r] \in {"dead", "idle"} /\ cmd[r] = NoCmd /\ write[r] = "none"
  BY DEF Init
<1>3. WriteDone /\ CmdPrints /\ DirectReplayMatches /\ CmdPrompt
  BY <1>2 DEF WriteDone, CmdPrints, DirectReplayMatches, CmdPrompt, CmdFresh
<1>4. KeyHeld
  BY <1>2 DEF KeyHeld, Sole, Busy, RunsOnLock, WritesOnLock
<1>5. RecPrint /\ LockLife
  <2>1. CASE rec = Absent
    BY <2>1 DEF Absent, RecPrint, LockLife
  <2>2. CASE \E p \in Past, st \in {"processing", "completed", "failed"} :
               rec = PastRecord(p, st) /\ expires = 1 + 2 * LockTimeout
    BY <2>2, ConstantFacts DEF PastRecord, RecPrint, LockLife
  <2> QED
    BY <2>1, <2>2 DEF Init
<1> QED
  BY <1>1, <1>3, <1>4, <1>5 DEF FinalInv

LEMMA FinalInvStep == FinalInv /\ [Next]_vars => FinalInv'
BY TypeStep, CmdPastStep, WriteDoneStep, CmdPrintsStep, RecPrintStep, ReplayStep DEF FinalInv

\* A request gets an answer from checkAndLock only if it has the payload of the
\* request that wrote it: for every clock, delay, crash and deletion.
THEOREM ReplayMatches == Spec => []DirectReplayMatches
<1>1. Init => FinalInv
  BY FinalInit
<1>2. FinalInv => DirectReplayMatches
  BY DEF FinalInv
<1> QED
  BY <1>1, <1>2, FinalInvStep, PTL DEF Spec

\* Where an attempt fits inside the lock window, a stored success is never turned
\* into a failure, and the key is not freed before its TTL has run out.
THEOREM AnswersStay == ASSUME WholeAttempt PROVE Spec => AnswersFinal
<1>1. Init => AttemptInv
  BY FinalInit DEF AttemptInv
<1>2. AttemptInv /\ [Next]_vars => AttemptInv'
  <2> SUFFICES ASSUME AttemptInv, [Next]_vars PROVE AttemptInv'
    OBVIOUS
  <2>1. FinalInv'
    BY FinalInvStep DEF AttemptInv
  <2>2. LockLife'
    BY LockLifeStep DEF AttemptInv, FinalInv, WholeAttempt
  <2>3. ASSUME calm' = TRUE PROVE CmdFresh' /\ Sole'
    <3>1. CmdFresh /\ Sole
      BY <2>3, CalmStep DEF AttemptInv, CmdPrompt, KeyHeld
    <3> QED
      BY <2>3, <3>1, CmdFreshStep, SoleStep DEF AttemptInv, FinalInv
  <2>4. CmdPrompt' /\ KeyHeld'
    BY <2>1, <2>3 DEF CmdPrompt, KeyHeld, FinalInv, TypeOK
  <2> QED
    BY <2>1, <2>2, <2>4 DEF AttemptInv
<1>3. AttemptInv => TypeOK /\ DirectReplayMatches
  BY DEF AttemptInv, FinalInv
<1>4. AttemptInv /\ [Next]_vars
        => [rec.st = "completed" /\ calm' => \/ rec'.st = "completed"
                                             \/ rec'.st = "absent" /\ clock' = expires]_vars
  <2> SUFFICES ASSUME AttemptInv, AttemptInv', [Next]_vars, rec.st = "completed", calm'
               PROVE  rec'.st = "completed" \/ (rec'.st = "absent" /\ clock' = expires)
    BY <1>2
  <2>1. calm' = TRUE
    BY DEF AttemptInv, FinalInv, TypeOK
  <2>2. Sole
    BY <2>1, CalmStep DEF AttemptInv, KeyHeld
  <2> QED
    BY <2>1, <2>2, FinalStep DEF AttemptInv, FinalInv
<1> QED
  BY <1>1, <1>2, <1>3, <1>4, PTL DEF Spec, AnswersFinal, CompletedIsFinal

--------------------------------------------------------------------------------
(* RateLimit.                                                                              *)

\* What the theorems assume besides. Lag is how late a script may run.
Setting == Lag <= S

--------------------------------------------------------------------------------
(* The inductive invariant. *)

Ready(r) == req[r].pc \in {"guard", "sent"}

\* A request is marked before it is counted, and it is counted by one script at most.
Sound(q, now, errorPolicy) ==
  /\ q.pc = "guard" => ~q.marked
  /\ q.pc \in {"sent", "executed"} => q.marked
  /\ q.pc \in {"guard", "sent", "executed"} => q.left = Bindings
  /\ q.pc \in {"guard", "sent"} => q.ran = 0
  /\ q.ran <= 1
  /\ q.pc = "sent" => q.stamp <= now /\ now <= q.stamp + Lag
  /\ q.pc = "runs" => q.skip \/ q.ok \/ (q.error /\ errorPolicy = "open")
RequestsCounted == \A r \in Caller : Sound(req[r], time, policy)

AdmittedInTime ==
  \A i \in DOMAIN admitted :
    admitted[i].stamp <= admitted[i].at /\ admitted[i].at <= time /\ admitted[i].at <= admitted[i].stamp + Lag

\* Each admission of a sliding window is the entry of a request of its own for as long as
\* a script that runs now may have to count it.
Logs(f) ==
  /\ f \in [DOMAIN admitted -> Caller]
  /\ \A i, j \in DOMAIN admitted : f[i] = f[j] => i = j
  /\ \A i \in DOMAIN admitted :
       /\ ~Ready(f[i])
       /\ admitted[i].at + Span <= expiry
       /\ entries[f[i]] = admitted[i].stamp \/ admitted[i].stamp + Span <= time

Stored == {r \in Caller : entries[r] # None}
SlidingInv ==
  /\ alg = "sliding" => IsFiniteSet(Stored) /\ Cardinality(Stored) <= points /\ \E f : Logs(f)
  /\ SlidingBounded

\* The counter of a window has counted what ran since it began; only a script that ran
\* after the window could find it expired and begin it again, once.
Stamped(w) == {i \in DOMAIN admitted : WindowOf(admitted[i].stamp) = w}
Begun(w) == windows[w].exp - Span
Current(w) == {i \in Stamped(w) : admitted[i].at >= Begun(w)}
Earlier(w) == {i \in Stamped(w) : admitted[i].at < Begun(w)}

CounterInv(w) ==
  /\ windows[w].n = 0 => Stamped(w) = {}
  /\ windows[w].n > 0 =>
       /\ w * S <= Begun(w) /\ Begun(w) <= time
       /\ \A i \in Stamped(w) : admitted[i].at < windows[w].exp
       /\ Cardinality(Current(w)) <= windows[w].n /\ Cardinality(Current(w)) <= points
       /\ Cardinality(Earlier(w)) <= points
       /\ Begun(w) < w * S + Span => Earlier(w) = {}

FixedInv == alg = "fixed" => \A w \in Windows : CounterInv(w)

\* What a bucket holds, with what was taken since any admission, is no more than it held
\* and refilled since; and it has refilled whenever it may have expired.
Credit(t) == Rate * t
Taken(n) == n * One
Seconds(n) == n * S
RefilledAt == expiry - Ceil(Full, Rate) - BucketSlack
BucketInv ==
  /\ bucket.last <= RefilledAt /\ RefilledAt <= time
  /\ bucket.tokens <= Full /\ Credit(bucket.last) - Credit(RefilledAt) <= bucket.tokens
  /\ \A i \in DOMAIN admitted :
       bucket.tokens + Taken(Len(admitted) - i + 1) <= Full + Credit(bucket.last) - Credit(admitted[i].stamp)

TakenSince ==
  \A i, j \in DOMAIN admitted : i < j =>
    Taken(j - i + 1) <= Full + Credit(admitted[j].stamp) - Credit(admitted[i].stamp)

TokenInv ==
  alg = "token" => IF bucket = None THEN admitted = <<>> ELSE BucketInv /\ TakenSince

\* While the script that refused a request is the last one that ran, what it left shows by
\* when there is room again: an entry leaves the log, the bucket has refilled one token, or
\* a window begins in which nothing was counted.
Refused(r) == last = r /\ (req[r].pc = "refused" \/ (req[r].pc = "executed" /\ ~req[r].ok))
RoomAfter(r) ==
  /\ req[r].stamp <= time
  /\ alg = "sliding" => \E q \in Caller : entries[q] # None /\ entries[q] + Span <= req[r].stamp + Seconds(req[r].retry)
  /\ alg = "token" =>
       bucket # None /\ bucket.last <= req[r].stamp /\ One <= bucket.tokens + Credit(Seconds(req[r].retry))
  /\ alg = "fixed" /\ req[r].pc = "refused" /\ req[r].retry > 0 =>
       \E k \in Nat : /\ k * Span <= req[r].stamp + Seconds(req[r].retry)
                      /\ \A w \in Windows : windows[w].n > 0 => w * S < k * Span
RefusalInv == \A r \in Caller : Refused(r) => RoomAfter(r)

Inv == RLTypeOK /\ RequestsCounted /\ AdmittedInTime /\ SlidingInv /\ FixedInv /\ TokenInv /\ RefusalInv

--------------------------------------------------------------------------------
(* Arithmetic. *)

LEMMA DivFacts ==
  ASSUME NEW a \in Int, NEW b \in Nat \ {0}
  PROVE  /\ a \div b \in Int /\ a % b \in Int /\ 0 <= a % b /\ a % b < b
         /\ a = (a \div b) * b + (a % b)
         /\ a \in Nat => a \div b \in Nat
<1>1. a = (a \div b) * b + (a % b)
  BY SMTT(60)
<1> QED
  BY <1>1, SMTT(30)

LEMMA TimesFacts ==
  ASSUME NEW a \in Int, NEW b \in Int, NEW c \in Int
  PROVE  /\ a * b \in Int /\ a * b = b * a
         /\ a * (b + c) = a * b + a * c /\ a * (b - c) = a * b - a * c
         /\ (b + c) * a = a * b + a * c /\ (b - c) * a = a * b - a * c
         /\ a >= 0 /\ b <= c => a * b <= a * c
         /\ a > 0 /\ a * b < a * c => b < c
OBVIOUS

LEMMA TimesAssociative ==
  ASSUME NEW a \in Int, NEW b \in Int, NEW c \in Int
  PROVE  (a * b) * c = a * (b * c)
OBVIOUS

LEMMA RLConstantFacts ==
  ASSUME Setting
  PROVE  /\ Duration \in Nat \ {0} /\ Rate \in Nat \ {0} /\ S \in Nat \ {0}
         /\ Span \in Nat \ {0} /\ S <= Span /\ Lag \in Nat /\ Lag <= S /\ Lag <= Span
         /\ MaxTime \in Nat /\ Bindings \in Nat \ {0}
         /\ None \notin Nat /\ None \notin [tokens : Int, last : Nat]
         /\ Limits \subseteq Nat \ {0}
<1>1. Duration \in Nat \ {0} /\ S \in Nat \ {0}
  BY RateLimitAssumption
<1>2. S * 1 <= S * Duration /\ S * Duration = Duration * S
  BY <1>1, TimesFacts
<1> QED
  BY <1>1, <1>2, RateLimitAssumption DEF Setting, Span

LEMMA RateFacts ==
  ASSUME Setting
  PROVE  One \in Nat \ {0} /\ PeekRate \in Nat \ {0} /\ Rate * S \in Nat \ {0}
BY RateLimitAssumption DEF One

LEMMA CeilFacts ==
  ASSUME NEW a \in Int, NEW b \in Nat \ {0}
  PROVE  /\ Ceil(a, b) \in Int /\ a <= b * Ceil(a, b) /\ (a \in Nat => Ceil(a, b) \in Nat)
         /\ a <= 0 => Ceil(a, b) <= 0
<1> DEFINE c == a + b - 1
<1>1. c \in Int /\ (a \in Nat => c \in Nat)
  OBVIOUS
<1>2. c \div b \in Int /\ c % b < b /\ c % b \in Int /\ c = (c \div b) * b + (c % b) /\ (c \in Nat => c \div b \in Nat)
  BY <1>1, DivFacts
<1>3. (c \div b) * b = b * (c \div b) /\ b * (c \div b) \in Int
  BY <1>2, TimesFacts
<1>4. ASSUME a <= 0
      PROVE  c \div b <= 0
  <2>1. b * (c \div b) < b * 1
    BY <1>1, <1>2, <1>3, <1>4, DivFacts
  <2> QED
    BY <1>2, <2>1, TimesFacts
<1> QED
  BY <1>1, <1>2, <1>3, <1>4 DEF Ceil

\* The window of a stamp is one of the windows, and the stamp lies in it.
LEMMA WindowFacts ==
  ASSUME Setting, NEW t \in 0..MaxTime
  PROVE  /\ WindowOf(t) \in Windows /\ WindowOf(t) \in Nat
         /\ WindowOf(t) * S \in Nat /\ WindowOf(t) * S <= t /\ t < WindowOf(t) * S + Span
<1> DEFINE x == t \div S
           y == x \div Duration
           q == MaxTime \div Span
<1>1. /\ Duration \in Nat \ {0} /\ S \in Nat \ {0} /\ Span \in Nat \ {0} /\ MaxTime \in Nat /\ t \in Nat
      /\ Span = Duration * S
  BY RLConstantFacts DEF Span
<1>2. x \in Nat /\ t = x * S + (t % S) /\ 0 <= t % S /\ t % S < S /\ t % S \in Int
  BY <1>1, DivFacts
<1>3. y \in Nat /\ x = y * Duration + (x % Duration) /\ 0 <= x % Duration /\ x % Duration < Duration /\ x % Duration \in Int
  <2> HIDE DEF x
  <2> QED
    BY <1>1, <1>2, DivFacts
<1>4. q \in Nat /\ MaxTime = q * Span + (MaxTime % Span) /\ MaxTime % Span < Span /\ MaxTime % Span \in Int
  <2>1. MaxTime \in Int /\ Span \in Nat \ {0}
    BY <1>1
  <2> QED
    BY ONLY <1>1, <2>1, DivFacts DEF q
<1>5. WindowOf(t) = y * Duration /\ y * Duration \in Nat
  <2> HIDE DEF y
  <2>1. y * Duration \in Nat
    BY <1>1, <1>3
  <2>2. WindowOf(t) = x - (x % Duration)
    BY DEF WindowOf
  <2> HIDE DEF x
  <2> QED
    BY <1>2, <1>3, <2>1, <2>2
<1> HIDE DEF x, y, q
<1>6. (y * Duration) * S = y * Span /\ y * Span \in Nat /\ y * Span = Span * y
  BY <1>1, <1>3, TimesAssociative, TimesFacts
<1>7. S * (y * Duration) <= S * x /\ S * (y * Duration) = (y * Duration) * S /\ S * x = x * S
  <2>1. y * Duration <= x /\ S >= 0
    BY <1>1, <1>2, <1>3, <1>5
  <2> QED
    BY <2>1, <1>1, <1>2, <1>5, TimesFacts
<1>8. x * S + S <= y * Span + Span
  <2>1. x + 1 <= y * Duration + Duration
    BY <1>1, <1>2, <1>3, <1>5
  <2>2. S * (x + 1) <= S * (y * Duration + Duration)
    BY <2>1, <1>1, <1>2, <1>5, TimesFacts
  <2>3. S * (x + 1) = x * S + S
    BY <1>1, <1>2, TimesFacts
  <2>4. S * (y * Duration + Duration) = (y * Duration) * S + Duration * S
    BY <1>1, <1>5, TimesFacts
  <2> QED
    BY <2>2, <2>3, <2>4, <1>1, <1>6
<1>9. WindowOf(t) * S = y * Span /\ y * Span <= t /\ t < y * Span + Span
  <2>1. x * S \in Int
    BY <1>1, <1>2
  <2> QED
    BY <1>1, <1>2, <1>5, <1>6, <1>7, <1>8, <2>1
<1>10. y <= q
  <2>1. Span * (q + 1) = q * Span + Span /\ q * Span \in Int
    BY <1>1, <1>4, TimesFacts
  <2>2. Span * y < Span * (q + 1)
    BY <1>1, <1>4, <1>6, <1>9, <2>1
  <2>3. y < q + 1
    BY <2>2, <1>1, <1>3, <1>4, TimesFacts
  <2> QED
    BY <2>3, <1>3, <1>4
<1>11. WindowOf(t) \in Windows
  BY <1>3, <1>4, <1>5, <1>10 DEF Windows, q
<1> QED
  BY <1>5, <1>6, <1>9, <1>11

--------------------------------------------------------------------------------
(* What a script answers, and what it leaves. *)

\* The least of a set of numbers, as Oldest chooses it.
LEMMA LeastExists ==
  ASSUME NEW T, T \subseteq Nat, T # {}
  PROVE  \E t \in T : \A u \in T : t <= u
<1>1. PICK t \in T : \A u \in T : <<u, t>> \notin OpToRel(<, Nat)
  BY NatLessThanWellFounded, WFMin
<1>2. \A u \in T : ~(u < t)
  BY <1>1 DEF OpToRel
<1> QED
  BY <1>2

LEMMA OldestFacts ==
  ASSUME Setting, RLTypeOK, NEW now \in 0..MaxTime, Recent(now) # {}
  PROVE  Oldest(now) \in Nat
<1> DEFINE T == {entries[r] : r \in Recent(now)}
<1>1. T \subseteq Nat /\ T # {}
  <2>1. ASSUME NEW r \in Recent(now)
        PROVE  entries[r] \in Nat
    <3>1. r \in Caller /\ entries[r] # None
      BY <2>1 DEF Recent
    <3>2. entries[r] \in 0..MaxTime \cup {None}
      BY <3>1 DEF RLTypeOK
    <3> QED
      BY <3>1, <3>2
  <2> QED
    BY <2>1
<1>2. PICK t \in T : \A u \in T : t <= u
  <2> HIDE DEF T
  <2> QED
    BY <1>1, LeastExists
<1>3. \A r \in Recent(now) : t <= entries[r]
  BY <1>2
<1>4. \E u \in T : \A r \in Recent(now) : u <= entries[r]
  BY <1>3
<1>5. Oldest(now) \in T
  BY <1>4 DEF Oldest
<1> QED
  BY <1>1, <1>5

LEMMA RefilledType ==
  ASSUME Setting, RLTypeOK, NEW now \in 0..MaxTime
  PROVE  /\ Full \in Nat /\ Refilled(now) \in Int /\ Refilled(now) <= Full
         /\ Held # None => Held = bucket /\ bucket.tokens \in Int /\ bucket.last \in 0..MaxTime
<1>1. points \in Nat \ {0} /\ S \in Nat \ {0} /\ One \in Nat \ {0} /\ Rate \in Nat \ {0} /\ MaxTime \in Nat
  BY RLConstantFacts, RateFacts DEF RLTypeOK
<1>2. Full \in Nat
  BY <1>1 DEF Full
<1>3. Held # None => Held = bucket /\ bucket.tokens \in Int /\ bucket.last \in 0..MaxTime
  BY DEF Held, RLTypeOK
<1>4. ASSUME Held # None
      PROVE  Held.tokens + (now - Held.last) * Rate \in Int
  <2>1. (now - Held.last) \in Int /\ Held.tokens \in Int
    BY <1>1, <1>3, <1>4
  <2>2. (now - Held.last) * Rate \in Int
    BY <2>1, <1>1
  <2> QED
    BY <2>1, <2>2
<1> QED
  BY <1>1, <1>2, <1>3, <1>4 DEF Refilled, Least

LEMMA AnswerTypes ==
  ASSUME Setting, RLTypeOK, NEW now \in 0..MaxTime
  PROVE  Answer(now).ok \in BOOLEAN /\ Answer(now).retry \in Int
<1>0. points \in Nat \ {0} /\ S \in Nat \ {0} /\ One \in Nat \ {0} /\ Rate \in Nat \ {0} /\ MaxTime \in Nat /\ Span \in Nat
  BY RLConstantFacts, RateFacts DEF RLTypeOK
<1>1. CASE alg = "fixed"
  <2>1. Answer(now).ok = (FixedAnswer(now).ok) /\ Answer(now).retry = 0
    BY <1>1 DEF Answer, FixedAnswer
  <2>2. FixedAnswer(now).ok \in BOOLEAN
    BY DEF FixedAnswer
  <2> QED
    BY <2>1, <2>2
<1>2. CASE alg = "sliding"
  <2>1. Answer(now) = SlidingAnswer(now)
    BY <1>2 DEF Answer
  <2>2. CASE Room(Cardinality(Recent(now)))
    BY <2>1, <2>2 DEF SlidingAnswer
  <2>3. CASE ~Room(Cardinality(Recent(now)))
    <3>1. Recent(now) # {}
      <4>1. Cardinality({}) = 0
        BY FS_EmptySet
      <4> QED
        BY <1>0, <2>3, <4>1 DEF Room
    <3>2. Ceil(Oldest(now) + Span - now, S) \in Int
      <4>1. Oldest(now) + Span - now \in Int
        BY <1>0, <3>1, OldestFacts
      <4> QED
        BY <1>0, <4>1, CeilFacts
    <3>3. Answer(now).ok = FALSE /\ Answer(now).retry = Max0(Ceil(Oldest(now) + Span - now, S))
      BY <2>1, <2>3 DEF SlidingAnswer
    <3>4. Max0(Ceil(Oldest(now) + Span - now, S)) \in Int
      BY <3>2 DEF Max0
    <3> QED
      BY <3>3, <3>4
  <2> QED
    BY <2>2, <2>3
<1>3. CASE alg = "token"
  <2>1. Answer(now) = TokenAnswer(now)
    BY <1>3 DEF Answer
  <2>2. Ceil(One - Refilled(now), Rate * S) \in Int
    <3>1. Rate * S \in Nat \ {0} /\ One - Refilled(now) \in Int
      BY <1>0, RefilledType
    <3> QED
      BY <3>1, CeilFacts
  <2>3. TokenAnswer(now).ok = (Refilled(now) >= One)
    BY DEF TokenAnswer
  <2>4. TokenAnswer(now).retry = IF Refilled(now) >= One THEN 0 ELSE Ceil(One - Refilled(now), Rate * S)
    BY DEF TokenAnswer
  <2> QED
    BY <2>1, <2>2, <2>3, <2>4
<1> QED
  BY <1>1, <1>2, <1>3, RateLimitAssumption DEF RLTypeOK

LEMMA ExecutesTypes ==
  ASSUME Setting, RLTypeOK, NEW r \in Caller, Executes(r), UNCHANGED config
  PROVE  /\ windows' \in [Windows -> [n : Nat, exp : Nat]]
         /\ entries' \in [Caller -> 0..MaxTime \cup {None}]
         /\ bucket' \in [tokens : Int, last : 0..MaxTime] \cup {None}
         /\ expiry' \in Nat /\ admitted' \in Seq(Admissions) /\ last' \in Caller \cup {None}
<1> DEFINE now == req[r].stamp
<1>0. points \in Nat \ {0} /\ S \in Nat \ {0} /\ One \in Nat \ {0} /\ Rate \in Nat \ {0} /\ MaxTime \in Nat /\ Span \in Nat
  BY RLConstantFacts, RateFacts DEF RLTypeOK
<1>1. now \in 0..MaxTime
  BY DEF RLTypeOK, Requests
<1> HIDE DEF now
<1>2. Script(r, now) /\ last' = r
      /\ admitted' = IF Answer(now).ok THEN Append(admitted, [stamp |-> now, at |-> time]) ELSE admitted
  BY DEF Executes, now
<1>3. admitted' \in Seq(Admissions)
  <2>1. [stamp |-> now, at |-> time] \in Admissions
    BY <1>1 DEF RLTypeOK, Admissions
  <2> QED
    BY <1>2, <2>1 DEF RLTypeOK
<1>4. CASE FixedWindow(now)
  <2>1. WindowOf(now) \in Windows
    BY <1>1, WindowFacts
  <2>2. Counted(WindowOf(now)) \in Nat
    BY <2>1 DEF Counted, RLTypeOK
  <2>3. windows' \in [Windows -> [n : Nat, exp : Nat]]
    BY <1>0, <1>4, <2>1, <2>2 DEF FixedWindow, RLTypeOK
  <2> QED
    BY <1>2, <1>3, <1>4, <2>3 DEF FixedWindow, RLTypeOK
<1>5. CASE SlidingWindow(r, now)
  <2>1. entries' \in [Caller -> 0..MaxTime \cup {None}]
    BY <1>1, <1>5 DEF SlidingWindow, RLTypeOK
  <2>2. expiry' \in Nat
    BY <1>0, <1>5 DEF SlidingWindow, RLTypeOK
  <2> QED
    BY <1>2, <1>3, <1>5, <2>1, <2>2 DEF SlidingWindow, RLTypeOK
<1>6. CASE TokenBucket(now)
  <2>1. bucket' \in [tokens : Int, last : 0..MaxTime]
    BY <1>0, <1>1, <1>6, RefilledType DEF TokenBucket
  <2>2. Ceil(Full, Rate) \in Nat
    BY <1>0, <1>1, RefilledType, CeilFacts
  <2>3. expiry' \in Nat
    BY <1>0, <1>6, <2>2 DEF TokenBucket, RLTypeOK, BucketSlack
  <2> QED
    BY <1>2, <1>3, <1>6, <2>1, <2>3 DEF TokenBucket, RLTypeOK
<1> QED
  BY <1>2, <1>4, <1>5, <1>6 DEF Script

--------------------------------------------------------------------------------
(* The steps, by what they do to what was admitted. *)

QuietStep ==
  /\ UNCHANGED <<config, store, admitted>> /\ time <= time'
  /\ \A q \in Caller : ~Ready(q) => ~Ready(q)'

ResetStep ==
  /\ UNCHANGED <<config, time, windows, expiry, req>>
  /\ entries' = [r \in Caller |-> None] /\ bucket' = None /\ admitted' = <<>>

RanStep(r) ==
  /\ UNCHANGED <<config, time>>
  /\ req[r].pc = "sent" /\ Executes(r) /\ ~Ready(r)'
  /\ \A q \in Caller : ~Ready(q) => ~Ready(q)'

LEMMA RequestReplaced ==
  ASSUME RLTypeOK, RequestsCounted, NEW r \in Caller, NEW new \in Requests, Sound(new, time, policy),
         req' = [req EXCEPT ![r] = new], time' = time, policy' = policy
  PROVE  /\ req' \in [Caller -> Requests] /\ RequestsCounted'
         /\ Ready(r) \/ new.pc \notin {"guard", "sent"} => \A q \in Caller : ~Ready(q) => ~Ready(q)'
         /\ new.pc \notin {"guard", "sent"} => ~Ready(r)'
<1>1. req' \in [Caller -> Requests] /\ req'[r] = new /\ \A q \in Caller \ {r} : req'[q] = req[q]
  BY DEF RLTypeOK
<1>2. RequestsCounted'
  BY <1>1 DEF RequestsCounted
<1> QED
  BY <1>1, <1>2 DEF Ready

LEMMA PassedFacts ==
  ASSUME Setting, RLTypeOK, RequestsCounted, NEW r \in Caller, req[r].pc \in {"sent", "executed"}
  PROVE  /\ req[r] \in Requests /\ req[r].left - 1 \in 0..Bindings
         /\ Passed(r) = [req[r] EXCEPT !.left = @ - 1, !.pc = "runs"]
<1>1. req[r] \in Requests /\ Sound(req[r], time, policy)
  BY DEF RLTypeOK, RequestsCounted
<1>2. req[r].marked /\ req[r].left = Bindings
  BY <1>1 DEF Sound
<1> QED
  BY <1>1, <1>2, RLConstantFacts DEF Passed, Marked

LEMMA GuardSteps ==
  ASSUME Setting, RLTypeOK, RequestsCounted, NEW r \in Caller, Skip(r) \/ Check(r) \/ NoKey(r)
  PROVE  req' \in [Caller -> Requests] /\ RequestsCounted' /\ QuietStep
<1>1. req[r] \in Requests /\ Sound(req[r], time, policy) /\ req[r].pc = "guard" /\ Ready(r)
  BY DEF RLTypeOK, RequestsCounted, Skip, Check, NoKey, AtGuard, Ready
<1>2. UNCHANGED <<config, time, store, admitted>> /\ time \in 0..MaxTime /\ Lag \in Nat
  BY RLConstantFacts DEF Skip, Check, NoKey, RLTypeOK
<1>3. CASE Skip(r)
  <2> DEFINE new == [req[r] EXCEPT !.pc = "runs", !.skip = TRUE]
  <2>1. req' = [req EXCEPT ![r] = new]
    BY <1>3 DEF Skip, RLTypeOK
  <2>2. new \in Requests /\ Sound(new, time, policy)
    BY <1>1 DEF Requests, Sound
  <2> HIDE DEF new
  <2>3. time' = time /\ policy' = policy
    BY <1>2 DEF config
  <2>4. req' \in [Caller -> Requests] /\ RequestsCounted' /\ \A q \in Caller : ~Ready(q) => ~Ready(q)'
    BY <1>1, <2>1, <2>2, <2>3, RequestReplaced
  <2> QED
    BY <1>2, <2>4 DEF QuietStep
<1>4. CASE Check(r)
  <2> DEFINE new == [req[r] EXCEPT !.pc = "sent", !.marked = TRUE, !.stamp = time]
  <2>1. req' = [req EXCEPT ![r] = new]
    BY <1>4 DEF Check, RLTypeOK
  <2>2. new \in Requests
    BY <1>1, <1>2 DEF Requests
  <2>3. /\ new.pc = "sent" /\ new.marked = TRUE /\ new.stamp = time
        /\ new.left = req[r].left /\ new.ran = req[r].ran
    BY <1>1 DEF Requests
  <2>4. req[r].left = Bindings /\ req[r].ran = 0
    BY <1>1 DEF Sound
  <2>5. new \in Requests /\ Sound(new, time, policy)
    <3> HIDE DEF new
    <3> QED
      BY <1>2, <2>2, <2>3, <2>4 DEF Sound
  <2> HIDE DEF new
  <2>6. time' = time /\ policy' = policy
    BY <1>2 DEF config
  <2>7. req' \in [Caller -> Requests] /\ RequestsCounted' /\ \A q \in Caller : ~Ready(q) => ~Ready(q)'
    BY <1>1, <2>1, <2>5, <2>6, RequestReplaced
  <2> QED
    BY <1>2, <2>7 DEF QuietStep
<1>5. CASE NoKey(r)
  <2> DEFINE new == [req[r] EXCEPT !.pc = "failed", !.marked = TRUE]
  <2>1. req' = [req EXCEPT ![r] = new]
    BY <1>5 DEF NoKey, RLTypeOK
  <2>2. new \in Requests /\ Sound(new, time, policy)
    BY <1>1 DEF Requests, Sound
  <2> HIDE DEF new
  <2>3. time' = time /\ policy' = policy
    BY <1>2 DEF config
  <2>4. req' \in [Caller -> Requests] /\ RequestsCounted' /\ \A q \in Caller : ~Ready(q) => ~Ready(q)'
    BY <1>1, <2>1, <2>2, <2>3, RequestReplaced
  <2> QED
    BY <1>2, <2>4 DEF QuietStep
<1> QED
  BY <1>3, <1>4, <1>5

LEMMA ExecuteStep ==
  ASSUME Setting, RLTypeOK, RequestsCounted, NEW r \in Caller, Execute(r)
  PROVE  req' \in [Caller -> Requests] /\ RequestsCounted' /\ RanStep(r)
<1> DEFINE answer == Answer(req[r].stamp)
           new == [req[r] EXCEPT !.pc = "executed", !.ok = answer.ok, !.retry = answer.retry, !.ran = @ + 1]
<1>1. req[r] \in Requests /\ Sound(req[r], time, policy) /\ req[r].pc = "sent" /\ Ready(r)
  BY DEF RLTypeOK, RequestsCounted, Execute, Ready
<1>2. UNCHANGED <<config, time>> /\ time' = time /\ policy' = policy /\ Executes(r)
  BY DEF Execute, config
<1>3. answer.ok \in BOOLEAN /\ answer.retry \in Int
  <2>1. req[r].stamp \in 0..MaxTime
    BY <1>1 DEF Requests
  <2> QED
    BY <2>1, AnswerTypes
<1>4. req' = [req EXCEPT ![r] = new]
  BY DEF Execute, RLTypeOK
<1> HIDE DEF answer
<1>5. new \in Requests
  <2>1. req[r].ran + 1 \in Nat
    BY <1>1 DEF Requests
  <2> QED
    BY <1>1, <1>3, <2>1 DEF Requests
<1>6. /\ new.pc = "executed" /\ new.marked = req[r].marked /\ new.left = req[r].left /\ new.ran = req[r].ran + 1
  BY <1>1 DEF Requests
<1>7. req[r].marked /\ req[r].left = Bindings /\ req[r].ran = 0
  BY <1>1 DEF Sound
<1> HIDE DEF new
<1>8. Sound(new, time, policy)
  BY <1>6, <1>7 DEF Sound
<1>9. req' \in [Caller -> Requests] /\ RequestsCounted' /\ ~Ready(r)' /\ \A q \in Caller : ~Ready(q) => ~Ready(q)'
  BY <1>1, <1>2, <1>4, <1>5, <1>6, <1>8, RequestReplaced
<1> QED
  BY <1>1, <1>2, <1>9 DEF RanStep

LEMMA DecideStep ==
  ASSUME Setting, RLTypeOK, RequestsCounted, NEW r \in Caller, Decide(r)
  PROVE  req' \in [Caller -> Requests] /\ RequestsCounted' /\ QuietStep
<1> DEFINE new == IF req[r].ok THEN Passed(r) ELSE [req[r] EXCEPT !.pc = "refused", !.stamp = time, !.retry = RetryAfter(r)]
<1>1. req[r] \in Requests /\ Sound(req[r], time, policy) /\ req[r].pc = "executed"
  BY DEF RLTypeOK, RequestsCounted, Decide
<1>2. UNCHANGED <<config, time, store, admitted>> /\ time' = time /\ policy' = policy /\ time \in 0..MaxTime
  BY DEF Decide, RLTypeOK, config
<1>3. RetryAfter(r) \in Int
  <2>1. req[r].stamp \in 0..MaxTime /\ req[r].retry \in Int
    BY <1>1 DEF Requests
  <2>2. WindowOf(req[r].stamp) \in Nat /\ Duration \in Nat /\ S \in Nat \ {0} /\ time \in Int
    BY <1>2, <2>1, WindowFacts, RLConstantFacts
  <2>3. (WindowOf(req[r].stamp) + Duration) * S - time \in Int
    <3>1. WindowOf(req[r].stamp) + Duration \in Int
      BY <2>2
    <3>2. (WindowOf(req[r].stamp) + Duration) * S \in Int
      BY <2>2, <3>1
    <3> QED
      BY <2>2, <3>2
  <2> QED
    BY <2>1, <2>2, <2>3, CeilFacts DEF RetryAfter
<1>4. req' = [req EXCEPT ![r] = new]
  BY DEF Decide, RLTypeOK
<1>5. new \in Requests /\ Sound(new, time, policy) /\ new.pc \notin {"guard", "sent"}
  <2>1. CASE req[r].ok
    <3> DEFINE passed == [req[r] EXCEPT !.left = @ - 1, !.pc = "runs"]
    <3>1. req[r].left - 1 \in 0..Bindings /\ new = passed
      BY <1>1, <2>1, PassedFacts
    <3>2. passed \in Requests /\ passed.pc = "runs" /\ passed.ok = req[r].ok /\ passed.ran = req[r].ran
      BY <1>1, <3>1 DEF Requests
    <3>3. req[r].ran <= 1
      BY <1>1 DEF Sound
    <3> HIDE DEF passed, new
    <3> QED
      BY <2>1, <3>1, <3>2, <3>3 DEF Sound
  <2>2. CASE ~req[r].ok
    <3> DEFINE refused == [req[r] EXCEPT !.pc = "refused", !.stamp = time, !.retry = RetryAfter(r)]
    <3>1. new = refused
      BY <2>2
    <3>2. refused \in Requests
      BY <1>1, <1>2, <1>3 DEF Requests
    <3>3. refused.pc = "refused" /\ refused.ran = req[r].ran
      BY <1>1 DEF Requests
    <3>4. req[r].ran <= 1
      BY <1>1 DEF Sound
    <3> HIDE DEF refused, new
    <3> QED
      BY <3>1, <3>2, <3>3, <3>4 DEF Sound
  <2> QED
    BY <2>1, <2>2
<1> HIDE DEF new
<1>6. req' \in [Caller -> Requests] /\ RequestsCounted' /\ \A q \in Caller : ~Ready(q) => ~Ready(q)'
  BY <1>2, <1>4, <1>5, RequestReplaced
<1> QED
  BY <1>2, <1>6 DEF QuietStep

\* Whether the script ran or not, the request has been answered once.
LEMMA OnErrorFacts ==
  ASSUME Setting, RLTypeOK, RequestsCounted, NEW r \in Caller, req[r].pc = "sent", NEW ran \in {0, 1}
  PROVE  /\ OnError(r, ran) \in Requests /\ Sound(OnError(r, ran), time, policy)
         /\ OnError(r, ran).pc \notin {"guard", "sent"}
<1>1. req[r] \in Requests /\ Sound(req[r], time, policy) /\ ran \in Nat /\ ran <= 1
  BY DEF RLTypeOK, RequestsCounted
<1>2. CASE policy = "open"
  <2> DEFINE passed == [req[r] EXCEPT !.left = @ - 1, !.pc = "runs"]
             new == [passed EXCEPT !.error = TRUE, !.ran = ran]
  <2>1. req[r].left - 1 \in 0..Bindings /\ OnError(r, ran) = new
    BY <1>2, PassedFacts DEF OnError
  <2>2. passed \in Requests /\ passed.pc = "runs"
    BY <1>1, <2>1 DEF Requests
  <2> HIDE DEF passed
  <2>3. new \in Requests /\ new.pc = "runs" /\ new.error = TRUE /\ new.ran = ran
    BY <1>1, <2>2 DEF Requests
  <2> HIDE DEF new
  <2> QED
    BY <1>1, <1>2, <2>1, <2>3 DEF Sound
<1>3. CASE policy # "open"
  <2> DEFINE new == [req[r] EXCEPT !.pc = "failed", !.ran = ran]
  <2>1. OnError(r, ran) = new
    BY <1>3 DEF OnError
  <2>2. new \in Requests /\ new.pc = "failed" /\ new.ran = ran
    BY <1>1 DEF Requests
  <2> HIDE DEF new
  <2> QED
    BY <1>1, <2>1, <2>2 DEF Sound
<1> QED
  BY <1>2, <1>3

LEMMA StoreErrorStep ==
  ASSUME Setting, RLTypeOK, RequestsCounted, NEW r \in Caller, CheckFails(r)
  PROVE  req' \in [Caller -> Requests] /\ RequestsCounted' /\ (QuietStep \/ RanStep(r))
<1>1. req[r].pc = "sent" /\ req[r].ran = 0 /\ req[r] \in Requests /\ Ready(r)
  BY DEF CheckFails, RequestsCounted, Sound, Ready, RLTypeOK
<1>2. UNCHANGED <<config, time>> /\ time' = time /\ policy' = policy /\ time \in 0..MaxTime
  BY DEF CheckFails, config, RLTypeOK
<1>3. ASSUME NEW ran \in {0, 1}, req' = [req EXCEPT ![r] = OnError(r, ran)]
      PROVE  req' \in [Caller -> Requests] /\ RequestsCounted' /\ ~Ready(r)' /\ \A q \in Caller : ~Ready(q) => ~Ready(q)'
  <2>1. /\ OnError(r, ran) \in Requests /\ Sound(OnError(r, ran), time, policy)
        /\ OnError(r, ran).pc \notin {"guard", "sent"}
    BY <1>1, OnErrorFacts
  <2> QED
    BY <1>1, <1>2, <1>3, <2>1, RequestReplaced
<1>4. CASE req' = [req EXCEPT ![r] = OnError(r, @.ran)] /\ UNCHANGED <<store, admitted, last>>
  <2>1. req' = [req EXCEPT ![r] = OnError(r, 0)]
    BY <1>1, <1>4 DEF RLTypeOK
  <2>2. req' \in [Caller -> Requests] /\ RequestsCounted' /\ \A q \in Caller : ~Ready(q) => ~Ready(q)'
    BY <1>3, <2>1
  <2> QED
    BY <1>2, <1>4, <2>2 DEF QuietStep
<1>5. CASE req' = [req EXCEPT ![r] = OnError(r, @.ran + 1)] /\ Executes(r)
  <2>1. req' = [req EXCEPT ![r] = OnError(r, 1)]
    BY <1>1, <1>5 DEF RLTypeOK
  <2> QED
    BY <1>1, <1>2, <1>3, <1>5, <2>1 DEF RanStep
<1> QED
  BY <1>4, <1>5 DEF CheckFails

LEMMA RLStepKinds ==
  ASSUME Setting, RLTypeOK, RequestsCounted, [RLNext]_rlVars
  PROVE  RLTypeOK' /\ RequestsCounted' /\ (QuietStep \/ ResetStep \/ \E r \in Caller : RanStep(r))
<1>1. ASSUME UNCHANGED <<config, time, store, admitted, last>>, req' \in [Caller -> Requests]
      PROVE  RLTypeOK'
  BY <1>1 DEF RLTypeOK, config, store
<1>2. ASSUME NEW r \in Caller, Executes(r), UNCHANGED <<config, time>>, req' \in [Caller -> Requests]
      PROVE  RLTypeOK'
  BY <1>2, ExecutesTypes DEF RLTypeOK, config
<1>3. ASSUME NEW r \in Caller, Skip(r) \/ Check(r) \/ NoKey(r)
      PROVE  RLTypeOK' /\ RequestsCounted' /\ QuietStep
  <2>1. UNCHANGED <<config, time, store, admitted, last>>
    BY <1>3 DEF Skip, Check, NoKey
  <2> QED
    BY <1>1, <1>3, <2>1, GuardSteps
<1>4. ASSUME NEW r \in Caller, Execute(r)
      PROVE  RLTypeOK' /\ RequestsCounted' /\ RanStep(r)
  BY <1>2, <1>4, ExecuteStep DEF RanStep
<1>5. ASSUME NEW r \in Caller, Decide(r)
      PROVE  RLTypeOK' /\ RequestsCounted' /\ QuietStep
  <2>1. UNCHANGED <<config, time, store, admitted, last>>
    BY <1>5 DEF Decide
  <2> QED
    BY <1>1, <1>5, <2>1, DecideStep
<1>6. ASSUME NEW r \in Caller, CheckFails(r)
      PROVE  RLTypeOK' /\ RequestsCounted' /\ (QuietStep \/ RanStep(r))
  <2>1. \/ UNCHANGED <<config, time, store, admitted, last>>
        \/ Executes(r) /\ UNCHANGED <<config, time>>
    BY <1>6 DEF CheckFails
  <2> QED
    BY <1>1, <1>2, <1>6, <2>1, StoreErrorStep
<1>7. ASSUME Reset
      PROVE  RLTypeOK' /\ RequestsCounted' /\ ResetStep
  <2>1. ResetStep /\ last' = None
    BY <1>7 DEF Reset, ResetStep
  <2>2. RLTypeOK'
    BY <2>1 DEF ResetStep, RLTypeOK, config
  <2> QED
    BY <2>1, <2>2 DEF ResetStep, RequestsCounted, config
<1>8. ASSUME TimePasses
      PROVE  RLTypeOK' /\ RequestsCounted' /\ QuietStep
  <2>1. /\ UNCHANGED <<config, store, req, admitted, last>> /\ time' = time + 1 /\ time' \in 0..MaxTime
        /\ time \in Nat /\ policy' = policy /\ req' = req /\ Lag \in Nat
    BY <1>8, RLConstantFacts DEF TimePasses, RLTypeOK, config
  <2>2. ASSUME NEW r \in Caller
        PROVE  Sound(req[r], time + 1, policy)
    <3>1. Sound(req[r], time, policy) /\ req[r].stamp \in Nat
      BY <2>2 DEF RequestsCounted, RLTypeOK, Requests
    <3>2. req[r].pc = "sent" => time - req[r].stamp < Lag
      BY <1>8, <2>2 DEF TimePasses
    <3> QED
      BY <2>1, <3>1, <3>2 DEF Sound
  <2>3. RequestsCounted'
    BY <2>1, <2>2 DEF RequestsCounted
  <2>4. RLTypeOK'
    BY <2>1 DEF RLTypeOK, config, store
  <2> QED
    BY <2>1, <2>3, <2>4 DEF QuietStep, Ready
<1>9. CASE UNCHANGED rlVars
  <2>1. UNCHANGED <<config, time, store, admitted, last>> /\ UNCHANGED <<time, policy, req>>
    BY <1>9 DEF rlVars, config
  <2>2. RLTypeOK' /\ RequestsCounted'
    BY <1>1, <2>1 DEF RLTypeOK, RequestsCounted
  <2> QED
    BY <2>1, <2>2 DEF QuietStep, Ready, RLTypeOK
<1> QED
  BY <1>3, <1>4, <1>5, <1>6, <1>7, <1>8, <1>9 DEF RLNext

\* A script runs with a stamp at most Lag old.
LEMMA RanFacts ==
  ASSUME Setting, RLTypeOK, RequestsCounted, NEW r \in Caller, RanStep(r)
  PROVE  /\ req[r].stamp \in 0..MaxTime /\ time \in 0..MaxTime /\ time' = time /\ alg' = alg /\ points' = points
         /\ req[r].stamp <= time /\ time <= req[r].stamp + Lag
         /\ Ready(r) /\ ~Ready(r)' /\ \A q \in Caller : ~Ready(q) => ~Ready(q)'
         /\ Script(r, req[r].stamp)
         /\ admitted' = IF Answer(req[r].stamp).ok THEN Append(admitted, [stamp |-> req[r].stamp, at |-> time]) ELSE admitted
<1>1. Sound(req[r], time, policy) /\ req[r] \in Requests /\ req[r].pc = "sent"
  BY DEF RequestsCounted, RanStep, RLTypeOK
<1>2. req[r].stamp \in 0..MaxTime /\ req[r].stamp <= time /\ time <= req[r].stamp + Lag
  BY <1>1 DEF Sound, Requests
<1> QED
  BY <1>1, <1>2 DEF RanStep, Executes, Ready, config, RLTypeOK

\* What was admitted: as before, but one more at the end, or nothing.
LEMMA AppendFacts ==
  ASSUME NEW T, NEW s \in Seq(T), NEW e \in T
  PROVE  /\ Append(s, e) \in Seq(T) /\ Len(Append(s, e)) = Len(s) + 1 /\ Len(s) \in Nat
         /\ DOMAIN s = 1..Len(s) /\ DOMAIN Append(s, e) = DOMAIN s \cup {Len(s) + 1} /\ Len(s) + 1 \notin DOMAIN s
         /\ \A i \in DOMAIN s : Append(s, e)[i] = s[i]
         /\ Append(s, e)[Len(s) + 1] = e
OBVIOUS

LEMMA AdmittedFacts ==
  ASSUME RLTypeOK, NEW i \in DOMAIN admitted
  PROVE  /\ i \in 1..Len(admitted) /\ Len(admitted) \in Nat /\ admitted[i] \in Admissions
         /\ admitted[i].stamp \in 0..MaxTime /\ admitted[i].stamp \in Nat
         /\ admitted[i].at \in 0..MaxTime /\ admitted[i].at \in Nat
<1>1. admitted \in Seq(Admissions)
  BY DEF RLTypeOK
<1>2. i \in 1..Len(admitted) /\ Len(admitted) \in Nat /\ admitted[i] \in Admissions
  BY <1>1
<1> QED
  BY <1>2 DEF Admissions

LEMMA AdmittedStep ==
  ASSUME Setting, RLTypeOK, RLTypeOK', RequestsCounted, AdmittedInTime, [RLNext]_rlVars
  PROVE  AdmittedInTime'
<1>1. CASE QuietStep
  <2>1. admitted' = admitted /\ time <= time' /\ time \in Nat /\ time' \in Nat
    BY <1>1 DEF QuietStep, RLTypeOK
  <2>2. \A i \in DOMAIN admitted : admitted[i].at <= time'
    BY <2>1, AdmittedFacts DEF AdmittedInTime
  <2> QED
    BY <2>1, <2>2 DEF AdmittedInTime
<1>2. CASE ResetStep
  BY <1>2 DEF ResetStep, AdmittedInTime
<1>3. ASSUME NEW r \in Caller, RanStep(r)
      PROVE  AdmittedInTime'
  <2> DEFINE e == [stamp |-> req[r].stamp, at |-> time]
  <2>1. e \in Admissions /\ e.stamp <= e.at /\ e.at = time /\ e.at <= e.stamp + Lag /\ time' = time /\ time \in Nat
    <3>1. /\ req[r].stamp \in 0..MaxTime /\ time \in 0..MaxTime /\ e.stamp = req[r].stamp /\ e.at = time
          /\ time' = time /\ req[r].stamp <= time /\ time <= req[r].stamp + Lag
      BY <1>3, RanFacts
    <3>2. e \in Admissions
      BY <3>1 DEF Admissions
    <3> HIDE DEF e
    <3> QED
      BY <3>1, <3>2
  <2>2. admitted' = admitted \/ admitted' = Append(admitted, e)
    BY <1>3, RanFacts
  <2> HIDE DEF e
  <2>3. CASE admitted' = admitted
    BY <2>1, <2>3 DEF AdmittedInTime
  <2>4. CASE admitted' = Append(admitted, e)
    <3>1. admitted \in Seq(Admissions)
      BY DEF RLTypeOK
    <3> QED
      BY <2>1, <2>4, <3>1, AppendFacts DEF AdmittedInTime
  <2> QED
    BY <2>2, <2>3, <2>4
<1> QED
  BY <1>1, <1>2, <1>3, RLStepKinds

--------------------------------------------------------------------------------
(* The token bucket. *)

\* Rates and numbers of requests, in tokens.
LEMMA CreditFacts ==
  ASSUME Setting, NEW a \in Int, NEW b \in Int
  PROVE  /\ Credit(a) \in Int /\ Credit(b) \in Int
         /\ Rate * (a - b) = Credit(a) - Credit(b) /\ (a - b) * Rate = Credit(a) - Credit(b)
         /\ Credit(a + b) = Credit(a) + Credit(b)
         /\ a <= b => Credit(a) <= Credit(b)
<1>1. Rate \in Int /\ Rate >= 0
  BY RLConstantFacts
<1>2. Rate * a \in Int /\ Rate * b \in Int /\ (a <= b => Rate * a <= Rate * b)
  BY <1>1, TimesFacts
<1>3. Rate * (a - b) = Rate * a - Rate * b
  BY <1>1, TimesFacts
<1>4. (a - b) * Rate = Rate * a - Rate * b
  BY <1>1, TimesFacts
<1>5. Rate * (a + b) = Rate * a + Rate * b
  BY <1>1, TimesFacts
<1> QED
  BY <1>2, <1>3, <1>4, <1>5 DEF Credit

LEMMA TakenFacts ==
  ASSUME Setting, NEW n \in Int
  PROVE  Taken(n) \in Int /\ Taken(n + 1) = Taken(n) + One /\ Taken(1) = One /\ Taken(n) = n * One
<1>1. One \in Int
  BY RLConstantFacts, RateFacts
<1>2. n * One \in Int /\ (n + 1) * One = n * One + One /\ 1 * One = One
  BY <1>1
<1> QED
  BY <1>2 DEF Taken

LEMMA SecondsFacts ==
  ASSUME Setting, NEW n \in Int
  PROVE  Seconds(n) \in Int /\ Seconds(n) = n * S
<1>1. S \in Int
  BY RLConstantFacts
<1> QED
  BY <1>1 DEF Seconds

LEMMA BucketFacts ==
  ASSUME Setting, RLTypeOK
  PROVE  /\ Full \in Nat /\ S \in Nat \ {0} /\ One \in Nat \ {0} /\ RefilledAt \in Int /\ time \in Nat /\ expiry \in Nat
         /\ Ceil(Full, Rate) \in Nat /\ Full <= Credit(Ceil(Full, Rate))
         /\ RefilledAt = expiry - Ceil(Full, Rate) - S
         /\ bucket # None => bucket.tokens \in Int /\ bucket.last \in Nat
<1>1. points \in Nat \ {0} /\ S \in Nat \ {0} /\ One \in Nat \ {0} /\ Rate \in Nat \ {0}
  BY RLConstantFacts, RateFacts DEF RLTypeOK
<1>2. Full \in Nat
  BY <1>1 DEF Full
<1>3. Ceil(Full, Rate) \in Nat /\ Full <= Credit(Ceil(Full, Rate))
  BY <1>1, <1>2, CeilFacts DEF Credit
<1> QED
  BY <1>1, <1>2, <1>3 DEF RefilledAt, BucketSlack, RLTypeOK

LEMMA SinceFacts ==
  ASSUME Setting, RLTypeOK, NEW i \in DOMAIN admitted
  PROVE  /\ i \in Nat /\ Len(admitted) \in Nat /\ i <= Len(admitted)
         /\ Taken(Len(admitted) - i + 1) \in Int /\ Credit(admitted[i].stamp) \in Int
<1>1. i \in Nat /\ Len(admitted) \in Nat /\ i <= Len(admitted) /\ admitted[i].stamp \in Int
  BY AdmittedFacts
<1>2. Len(admitted) - i + 1 \in Int
  BY <1>1
<1>3. Taken(Len(admitted) - i + 1) \in Int
  BY <1>2, TakenFacts
<1> QED
  BY <1>1, <1>3, CreditFacts

\* What the bucket holds when a script has refilled it is as much as the invariant says.
LEMMA RefilledFacts ==
  ASSUME Setting, RLTypeOK, TokenInv, alg = "token",
         NEW now \in 0..MaxTime, now <= time, time <= now + Lag
  PROVE  /\ Refilled(now) \in Int /\ Refilled(now) <= Full
         /\ Credit(now) - Credit(time) <= Refilled(now) /\ Credit(now) <= Credit(time)
         /\ \A i \in DOMAIN admitted :
              Refilled(now) + Taken(Len(admitted) - i + 1) <= Full + Credit(now) - Credit(admitted[i].stamp)
<1> DEFINE L == bucket.last  M == RefilledAt  T == bucket.tokens
<1>1. now \in Int /\ time \in Int /\ Full \in Nat /\ Lag \in Nat /\ S \in Nat /\ Lag <= S
  BY RLConstantFacts, BucketFacts
<1>2. Refilled(now) \in Int /\ Refilled(now) <= Full
  BY RefilledType
<1>3. Credit(now) \in Int /\ Credit(time) \in Int /\ Credit(now) <= Credit(time)
  BY <1>1, CreditFacts
<1>4. CASE bucket = None
  <2>1. Refilled(now) = Full /\ admitted = <<>>
    BY <1>4 DEF Refilled, Held, TokenInv
  <2> QED
    BY <1>1, <1>2, <1>3, <2>1
<1>5. CASE bucket # None
  <2>1. BucketInv /\ L \in Int /\ M \in Int /\ T \in Int
    BY <1>5, BucketFacts DEF TokenInv
  <2>2. Credit(L) \in Int /\ Credit(M) \in Int /\ Credit(M) <= Credit(time) /\ Credit(L) - Credit(M) <= T
    BY <1>1, <2>1, CreditFacts DEF BucketInv
  <2>3. \A i \in DOMAIN admitted :
          /\ Taken(Len(admitted) - i + 1) \in Int /\ Credit(admitted[i].stamp) \in Int
          /\ T + Taken(Len(admitted) - i + 1) <= Full + Credit(L) - Credit(admitted[i].stamp)
    BY <2>1, SinceFacts DEF BucketInv
  <2>4. CASE Held = None
    <3>1. Refilled(now) = Full
      BY <2>4 DEF Refilled
    <3>2. expiry <= time
      BY <1>5, <2>4, BucketFacts DEF Held
    <3>3. Ceil(Full, Rate) \in Int /\ M + Ceil(Full, Rate) <= now
      BY <1>1, <3>2, BucketFacts
    <3> HIDE DEF L, M, T
    <3>4. M + Ceil(Full, Rate) \in Int
      BY <2>1, <3>3
    <3>5. Credit(M + Ceil(Full, Rate)) = Credit(M) + Credit(Ceil(Full, Rate)) /\ Credit(Ceil(Full, Rate)) \in Int
      BY <2>1, <3>3, CreditFacts
    <3>6. Credit(M + Ceil(Full, Rate)) <= Credit(now)
      BY <1>1, <3>3, <3>4, CreditFacts
    <3>7. Full <= Credit(now) - Credit(M)
      BY <1>1, <1>3, <2>2, <3>5, <3>6, BucketFacts
    <3>8. Credit(now) - Credit(time) <= Refilled(now)
      BY <1>1, <1>2, <1>3, <2>1, <2>2, <3>1, <3>7
    <3>9. ASSUME NEW i \in DOMAIN admitted
          PROVE  Refilled(now) + Taken(Len(admitted) - i + 1) <= Full + Credit(now) - Credit(admitted[i].stamp)
      <4> DEFINE k == Taken(Len(admitted) - i + 1)  c == Credit(admitted[i].stamp)  cn == Credit(now)
      <4>1. k \in Int /\ c \in Int /\ T + k <= Full + Credit(L) - c
        BY <2>3, <3>9
      <4> HIDE DEF k, c, cn
      <4>2. Refilled(now) + k <= Full + cn - c
        BY <1>1, <1>2, <1>3, <2>1, <2>2, <4>1, <3>1, <3>7 DEF cn
      <4> QED
        BY <4>2 DEF k, c, cn
    <3> QED
      BY <1>2, <1>3, <3>8, <3>9
  <2>5. CASE Held # None
    <3> DEFINE sum == T + (now - L) * Rate
    <3>1. Refilled(now) = IF Full < sum THEN Full ELSE sum
      BY <2>5 DEF Refilled, Least, Held
    <3> HIDE DEF L, M, T
    <3>2. (now - L) * Rate = Credit(now) - Credit(L)
      BY <1>1, <2>1, CreditFacts
    <3>3. sum = T + (Credit(now) - Credit(L))
      BY <3>2
    <3> HIDE DEF sum
    <3>4. Credit(now) - Credit(time) <= Refilled(now)
      BY <1>1, <1>2, <1>3, <2>1, <2>2, <3>1, <3>3
    <3>5. ASSUME NEW i \in DOMAIN admitted
          PROVE  Refilled(now) + Taken(Len(admitted) - i + 1) <= Full + Credit(now) - Credit(admitted[i].stamp)
      <4> DEFINE k == Taken(Len(admitted) - i + 1)  c == Credit(admitted[i].stamp)  cn == Credit(now)
      <4>1. k \in Int /\ c \in Int /\ T + k <= Full + Credit(L) - c
        BY <2>3, <3>5
      <4> HIDE DEF k, c, cn
      <4>2. Refilled(now) + k <= Full + cn - c
        BY <1>1, <1>2, <1>3, <2>1, <2>2, <4>1, <3>1, <3>3 DEF cn
      <4> QED
        BY <4>2 DEF k, c, cn
    <3> QED
      BY <1>2, <1>3, <3>4, <3>5
  <2> QED
    BY <2>4, <2>5
<1> QED
  BY <1>4, <1>5

\* A script that lets a request pass has kept the bound towards every earlier admission.
LEMMA TokenRan ==
  ASSUME Setting, RLTypeOK, RLTypeOK', RequestsCounted, TokenInv, alg = "token", NEW r \in Caller, RanStep(r)
  PROVE  bucket' # None /\ BucketInv' /\ TakenSince'
<1> DEFINE now == req[r].stamp
           left == Refilled(now) - (IF TokenAnswer(now).ok THEN One ELSE 0)
           e == [stamp |-> now, at |-> time]
           n == Len(admitted)
<1>1. /\ now \in 0..MaxTime /\ time \in 0..MaxTime /\ time' = time /\ points' = points /\ alg' = "token"
      /\ now <= time /\ time <= now + Lag /\ Script(r, now)
      /\ admitted' = IF TokenAnswer(now).ok THEN Append(admitted, e) ELSE admitted
  BY RanFacts DEF Answer
<1>2. TokenBucket(now)
  BY <1>1 DEF Script, FixedWindow, SlidingWindow
<1>3. TokenAnswer(now).ok = (Refilled(now) >= One)
  BY DEF TokenAnswer
<1>4. bucket' # None /\ bucket'.tokens = left /\ bucket'.last = now
  <2>1. bucket' = [tokens |-> left, last |-> now]
    BY <1>2 DEF TokenBucket
  <2>2. bucket' \in [tokens : Int, last : Nat]
    <3>1. left \in Int
      BY <1>1, RefilledType, RateFacts
    <3> HIDE DEF left, now
    <3> QED
      BY <1>1, <2>1, <3>1
  <2> QED
    BY <2>1, <2>2, RLConstantFacts
<1>5. Full' = Full /\ RefilledAt' = time
  <2>1. Full' = Full
    BY <1>1 DEF Full
  <2>2. expiry' = time + Ceil(Full, Rate) + S
    BY <1>2 DEF TokenBucket, BucketSlack
  <2>3. RefilledAt' = expiry' - Ceil(Full, Rate) - S
    BY <2>1 DEF RefilledAt, BucketSlack
  <2> QED
    BY <2>1, <2>2, <2>3, BucketFacts
<1>6. e \in Admissions /\ e.stamp = now /\ n \in Nat /\ admitted \in Seq(Admissions) /\ DOMAIN admitted = 1..n
  BY <1>1 DEF Admissions, RLTypeOK
<1> HIDE DEF now, left, e, n
<1>7. /\ Refilled(now) \in Int /\ Refilled(now) <= Full /\ Full \in Nat /\ One \in Nat \ {0}
      /\ Credit(now) \in Int /\ Credit(time) \in Int /\ Credit(now) <= Credit(time) /\ Credit(now) - Credit(time) <= Refilled(now)
  BY <1>1, RefilledFacts, BucketFacts, CreditFacts
<1>8. left \in Int /\ left = IF Refilled(now) >= One THEN Refilled(now) - One ELSE Refilled(now)
  <2>1. TokenAnswer(now).ok <=> Refilled(now) >= One
    BY <1>3
  <2>2. CASE Refilled(now) >= One
    BY <1>7, <2>1, <2>2 DEF left
  <2>3. CASE ~(Refilled(now) >= One)
    BY <1>7, <2>1, <2>3 DEF left
  <2> QED
    BY <2>2, <2>3
<1>9. ASSUME NEW i \in DOMAIN admitted
      PROVE  /\ Taken(n - i + 1) \in Int /\ Taken(n - i + 2) = Taken(n - i + 1) + One /\ i \in Nat /\ i <= n
             /\ admitted[i].stamp \in Nat /\ Credit(admitted[i].stamp) \in Int
             /\ Refilled(now) + Taken(n - i + 1) <= Full + Credit(now) - Credit(admitted[i].stamp)
  <2>1. Refilled(now) + Taken(n - i + 1) <= Full + Credit(now) - Credit(admitted[i].stamp)
    BY <1>1, <1>9, RefilledFacts DEF n
  <2>2. i \in Nat /\ n \in Nat /\ i <= n /\ Taken(n - i + 1) \in Int /\ Credit(admitted[i].stamp) \in Int
    BY <1>9, SinceFacts DEF n
  <2>3. n - i + 1 \in Int /\ (n - i + 1) + 1 = n - i + 2
    BY <2>2
  <2>4. Taken((n - i + 1) + 1) = Taken(n - i + 1) + One
    BY <2>3, TakenFacts
  <2> QED
    BY <1>9, <2>1, <2>2, <2>3, <2>4, AdmittedFacts
<1>10. left <= Full /\ Credit(now) - Credit(time) <= left
  BY <1>7, <1>8
<1>11. bucket # None => TakenSince
  BY DEF TokenInv
<1>12. \A i \in DOMAIN admitted : bucket # None
  BY DEF TokenInv
<1>13. CASE ~TokenAnswer(now).ok
  <2>1. admitted' = admitted /\ left = Refilled(now)
    BY <1>1, <1>3, <1>7, <1>8, <1>13
  <2>2. BucketInv'
    BY <1>1, <1>4, <1>5, <1>9, <1>10, <2>1 DEF BucketInv, n
  <2>3. TakenSince'
    BY <1>5, <1>11, <1>12, <2>1 DEF TakenSince
  <2> QED
    BY <1>4, <2>2, <2>3
<1>14. CASE TokenAnswer(now).ok
  <2>1. admitted' = Append(admitted, e) /\ left = Refilled(now) - One /\ Refilled(now) >= One /\ left >= 0
    <3>1. Refilled(now) >= One
      BY <1>3, <1>14
    <3>2. admitted' = Append(admitted, e)
      BY <1>1, <1>14 DEF e
    <3> QED
      BY <1>7, <1>8, <3>1, <3>2
  <2>2. /\ Len(admitted') = n + 1 /\ DOMAIN admitted' = DOMAIN admitted \cup {n + 1} /\ n + 1 \notin DOMAIN admitted
        /\ \A i \in DOMAIN admitted : admitted'[i] = admitted[i]
        /\ admitted'[n + 1].stamp = now
    BY <1>6, <2>1, AppendFacts DEF n
  <2>3. ASSUME NEW i \in DOMAIN admitted'
        PROVE  left + Taken(Len(admitted') - i + 1) <= Full + Credit(now) - Credit(admitted'[i].stamp)
    <3>1. CASE i \in DOMAIN admitted
      <4>1. Len(admitted') - i + 1 = n - i + 2 /\ admitted'[i] = admitted[i]
        BY <1>6, <1>9, <2>2, <3>1
      <4>2. Taken(Len(admitted') - i + 1) = Taken(n - i + 1) + One
        BY <1>9, <3>1, <4>1
      <4> DEFINE k == Taken(n - i + 1)  c == Credit(admitted[i].stamp)
      <4>3. k \in Int /\ c \in Int /\ Refilled(now) + k <= Full + Credit(now) - c
        BY <1>9, <3>1
      <4> HIDE DEF k, c
      <4>4. left + (k + One) <= Full + Credit(now) - c
        BY <1>7, <1>8, <2>1, <4>3
      <4> QED
        BY <4>1, <4>2, <4>4 DEF k, c
    <3>2. CASE i = n + 1
      <4>1. Len(admitted') - i + 1 = 1 /\ admitted'[i].stamp = now /\ Taken(1) = One
        BY <1>6, <2>2, <3>2, TakenFacts
      <4>2. left + One <= Full + Credit(now) - Credit(now)
        BY <1>7, <1>8, <2>1
      <4> QED
        BY <4>1, <4>2
    <3> QED
      BY <2>2, <2>3, <3>1, <3>2
  <2>4. BucketInv'
    BY <1>1, <1>4, <1>5, <1>10, <2>3 DEF BucketInv
  <2>5. ASSUME NEW i \in DOMAIN admitted', NEW j \in DOMAIN admitted', i < j
        PROVE  Taken(j - i + 1) <= Full + Credit(admitted'[j].stamp) - Credit(admitted'[i].stamp)
    <3>1. i \in DOMAIN admitted
      BY <1>6, <2>2, <2>5
    <3>2. CASE j \in DOMAIN admitted
      BY <1>11, <1>12, <2>2, <2>5, <3>1, <3>2 DEF TakenSince
    <3>3. CASE j = n + 1
      <4>1. j - i + 1 = n - i + 2 /\ admitted'[i] = admitted[i] /\ admitted'[j].stamp = now
        BY <1>6, <1>9, <2>2, <3>1, <3>3
      <4>2. Taken(j - i + 1) = Taken(n - i + 1) + One
        BY <1>9, <3>1, <4>1
      <4> DEFINE k == Taken(n - i + 1)  c == Credit(admitted[i].stamp)
      <4>3. k \in Int /\ c \in Int /\ Refilled(now) + k <= Full + Credit(now) - c
        BY <1>9, <3>1
      <4> HIDE DEF k, c
      <4>4. k + One <= Full + Credit(now) - c
        BY <1>7, <1>8, <2>1, <4>3
      <4> QED
        BY <4>1, <4>2, <4>4 DEF k, c
    <3> QED
      BY <2>2, <2>5, <3>2, <3>3
  <2>6. TakenSince'
    BY <1>5, <2>5 DEF TakenSince
  <2> QED
    BY <1>4, <2>4, <2>6
<1> QED
  BY <1>13, <1>14

LEMMA TokenStep ==
  ASSUME Setting, RLTypeOK, RLTypeOK', RequestsCounted, TokenInv, [RLNext]_rlVars
  PROVE  TokenInv'
<1>1. CASE QuietStep
  <2>1. /\ alg' = alg /\ points' = points /\ bucket' = bucket /\ expiry' = expiry /\ admitted' = admitted
        /\ time <= time' /\ time \in Nat /\ time' \in Nat /\ RefilledAt \in Int
    BY <1>1, BucketFacts DEF QuietStep, config, store, RLTypeOK
  <2>2. BucketInv => BucketInv'
    BY <2>1 DEF BucketInv, RefilledAt, Full
  <2>3. TakenSince => TakenSince'
    BY <2>1 DEF TakenSince, Full
  <2> QED
    BY <2>1, <2>2, <2>3 DEF TokenInv
<1>2. CASE ResetStep
  BY <1>2 DEF ResetStep, TokenInv
<1>3. ASSUME NEW r \in Caller, RanStep(r)
      PROVE  TokenInv'
  <2>1. CASE alg = "token"
    BY <1>3, <2>1, TokenRan DEF TokenInv
  <2>2. CASE alg # "token"
    BY <1>3, <2>2, RanFacts DEF TokenInv
  <2> QED
    BY <2>1, <2>2
<1> QED
  BY <1>1, <1>2, <1>3, RLStepKinds

LEMMA TokenHolds ==
  ASSUME Setting, RLTypeOK, TokenInv
  PROVE  TokenBounded
<1>1. ASSUME alg = "token", NEW i \in DOMAIN admitted, NEW j \in DOMAIN admitted, i < j
      PROVE  (j - i + 1) * One <= Full + Rate * (admitted[j].stamp - admitted[i].stamp)
  <2>1. /\ i \in Nat /\ j \in Nat /\ admitted[i].stamp \in Int /\ admitted[j].stamp \in Int
    BY <1>1, AdmittedFacts
  <2>2. Rate * (admitted[j].stamp - admitted[i].stamp) = Credit(admitted[j].stamp) - Credit(admitted[i].stamp)
        /\ Credit(admitted[j].stamp) \in Int /\ Credit(admitted[i].stamp) \in Int
    BY <2>1, CreditFacts
  <2>3. Taken(j - i + 1) <= Full + Credit(admitted[j].stamp) - Credit(admitted[i].stamp)
    <3>1. bucket # None
      BY <1>1 DEF TokenInv
    <3> QED
      BY <1>1, <3>1 DEF TokenInv, TakenSince
  <2>4. Taken(j - i + 1) = (j - i + 1) * One
    BY DEF Taken
  <2>5. Full \in Int
    BY BucketFacts
  <2> QED
    BY <2>2, <2>3, <2>4, <2>5
<1> QED
  BY <1>1 DEF TokenBounded

--------------------------------------------------------------------------------
(* The fixed window. *)

LEMMA StampedFacts ==
  ASSUME RLTypeOK, NEW w \in Windows
  PROVE  /\ IsFiniteSet(Stamped(w)) /\ IsFiniteSet(Current(w)) /\ IsFiniteSet(Earlier(w))
         /\ Cardinality(Stamped(w)) \in Nat /\ Cardinality(Current(w)) \in Nat /\ Cardinality(Earlier(w)) \in Nat
         /\ windows[w].n \in Nat /\ windows[w].exp \in Nat
         /\ Stamped(w) \subseteq DOMAIN admitted /\ Current(w) \subseteq Stamped(w) /\ Earlier(w) \subseteq Stamped(w)
<1>1. Stamped(w) \subseteq DOMAIN admitted /\ Current(w) \subseteq Stamped(w) /\ Earlier(w) \subseteq Stamped(w)
  BY DEF Stamped, Current, Earlier
<1>2. DOMAIN admitted = 1..Len(admitted) /\ Len(admitted) \in Nat
  BY DEF RLTypeOK
<1>3. IsFiniteSet(DOMAIN admitted)
  BY <1>2, FS_Interval
<1>4. IsFiniteSet(Stamped(w))
  BY <1>1, <1>3, FS_Subset
<1>5. IsFiniteSet(Current(w)) /\ IsFiniteSet(Earlier(w))
  BY <1>1, <1>4, FS_Subset
<1>6. Cardinality(Stamped(w)) \in Nat /\ Cardinality(Current(w)) \in Nat /\ Cardinality(Earlier(w)) \in Nat
  BY <1>4, <1>5, FS_CardinalityType
<1>7. windows[w].n \in Nat /\ windows[w].exp \in Nat
  BY DEF RLTypeOK
<1> QED
  BY <1>1, <1>4, <1>5, <1>6, <1>7

LEMMA WindowStart ==
  ASSUME Setting, NEW w \in Windows
  PROVE  w \in Nat /\ w * S \in Nat
<1>1. PICK k \in Nat : w = k * Duration
  BY DEF Windows
<1>2. Duration \in Nat /\ S \in Nat
  BY RLConstantFacts
<1>3. w \in Nat
  BY <1>1, <1>2
<1> QED
  BY <1>2, <1>3

\* The counter of another window is as it was, and so is what it has counted.
LEMMA OtherWindow ==
  ASSUME Setting, RLTypeOK, RLTypeOK', NEW w \in Windows, CounterInv(w),
         windows'[w] = windows[w], time <= time', points' = points,
         Stamped(w)' = Stamped(w), \A i \in Stamped(w) : admitted'[i] = admitted[i]
  PROVE  CounterInv(w)'
<1>1. Begun(w)' = Begun(w)
  BY DEF Begun
<1>2. Current(w)' = Current(w) /\ Earlier(w)' = Earlier(w)
  BY <1>1 DEF Current, Earlier
<1>3. time \in Int /\ time' \in Int /\ Begun(w) \in Int
  BY RLConstantFacts, StampedFacts DEF RLTypeOK, Begun
<1> QED
  BY <1>1, <1>2, <1>3 DEF CounterInv

LEMMA FixedRan ==
  ASSUME Setting, RLTypeOK, RLTypeOK', RequestsCounted, AdmittedInTime, FixedInv, alg = "fixed",
         NEW r \in Caller, RanStep(r), NEW w \in Windows
  PROVE  CounterInv(w)'
<1> DEFINE now == req[r].stamp
           e == [stamp |-> now, at |-> time]
           n == Len(admitted)
           ok == FixedAnswer(now).ok
<1>1. /\ now \in 0..MaxTime /\ time \in 0..MaxTime /\ time' = time /\ points' = points
      /\ now <= time /\ time <= now + Lag /\ Script(r, now)
      /\ admitted' = IF ok THEN Append(admitted, e) ELSE admitted
  BY RanFacts DEF Answer
<1>2. FixedWindow(now)
  BY <1>1 DEF Script, TokenBucket, SlidingWindow
<1>3. e \in Admissions /\ e.stamp = now /\ e.at = time /\ n \in Nat /\ admitted \in Seq(Admissions) /\ DOMAIN admitted = 1..n
  BY <1>1 DEF Admissions, RLTypeOK
<1>4. /\ WindowOf(now) \in Windows /\ WindowOf(now) * S \in Nat
      /\ WindowOf(now) * S <= now /\ now < WindowOf(now) * S + Span
  BY <1>1, WindowFacts
<1>5. ok <=> Counted(WindowOf(now)) + 1 <= points
  BY DEF FixedAnswer
<1>6. windows' = [windows EXCEPT ![WindowOf(now)] =
        [n |-> Counted(WindowOf(now)) + 1,
         exp |-> IF Counted(WindowOf(now)) = 0 THEN time + Span ELSE windows[WindowOf(now)].exp]]
  BY <1>2 DEF FixedWindow, RLTypeOK
<1> HIDE DEF now, e, n, ok
<1>7. CounterInv(w)
  BY DEF FixedInv
<1>8. ASSUME ok
      PROVE  /\ DOMAIN admitted' = DOMAIN admitted \cup {n + 1} /\ n + 1 \notin DOMAIN admitted
             /\ \A i \in DOMAIN admitted : admitted'[i] = admitted[i]
             /\ admitted'[n + 1] = e
  <2>1. admitted' = Append(admitted, e)
    BY <1>1, <1>8
  <2> QED
    BY <1>3, <2>1, AppendFacts DEF n
<1>9. CASE w # WindowOf(now)
  <2>1. windows'[w] = windows[w] /\ time <= time'
    BY <1>1, <1>6, <1>9 DEF RLTypeOK
  <2>2. Stamped(w)' = Stamped(w) /\ \A i \in Stamped(w) : admitted'[i] = admitted[i]
    <3>1. CASE ok
      BY <1>3, <1>8, <1>9, <3>1 DEF Stamped
    <3>2. CASE ~ok
      BY <1>1, <3>2 DEF Stamped
    <3> QED
      BY <3>1, <3>2
  <2> QED
    BY <1>1, <1>7, <2>1, <2>2, OtherWindow
<1>10. CASE w = WindowOf(now)
  <2> DEFINE B == windows[w].exp - Span
  <2>1. /\ windows'[w].n = Counted(w) + 1
        /\ windows'[w].exp = IF Counted(w) = 0 THEN time + Span ELSE windows[w].exp
    BY <1>4, <1>6, <1>10 DEF RLTypeOK
  <2>2. /\ windows[w].n \in Nat /\ windows[w].exp \in Nat /\ Span \in Nat \ {0} /\ Lag <= Span /\ Lag \in Nat
        /\ time \in Nat /\ now \in Nat /\ points \in Nat \ {0} /\ w * S \in Nat
    <3>1. windows[w].n \in Nat /\ windows[w].exp \in Nat
      BY StampedFacts
    <3>2. points \in Nat \ {0} /\ Span \in Nat \ {0} /\ Lag <= Span /\ Lag \in Nat
      BY RLConstantFacts DEF RLTypeOK
    <3> QED
      BY <1>1, <1>4, <1>10, <3>1, <3>2
  <2>3. Stamped(w)' = IF ok THEN Stamped(w) \cup {n + 1} ELSE Stamped(w)
    <3>1. CASE ok
      BY <1>3, <1>8, <1>10, <3>1 DEF Stamped
    <3>2. CASE ~ok
      BY <1>1, <3>2 DEF Stamped
    <3> QED
      BY <3>1, <3>2
  <2>4. /\ n + 1 \notin Stamped(w)
        /\ \A i \in Stamped(w) : admitted'[i] = admitted[i] /\ admitted[i].at \in Nat
        /\ ok => admitted'[n + 1].at = time
    <3>1. \A i \in Stamped(w) : i \in DOMAIN admitted /\ admitted[i].at \in Nat
      BY AdmittedFacts DEF Stamped
    <3>2. CASE ok
      BY <1>3, <1>8, <3>1, <3>2
    <3>3. CASE ~ok
      BY <1>1, <1>3, <3>1, <3>3
    <3> QED
      BY <3>2, <3>3
  <2>5. CASE Counted(w) = 0
    <3>1. Begun(w)' = time /\ windows'[w].n = 1 /\ windows'[w].exp = time + Span
      BY <2>1, <2>2, <2>5 DEF Begun
    <3>2. ok
      BY <1>5, <1>10, <2>2, <2>5
    <3>3. CASE windows[w].n = 0
      <4>1. Stamped(w)' = {n + 1}
        BY <1>7, <2>3, <3>2, <3>3 DEF CounterInv
      <4>2. Current(w)' = {n + 1} /\ Earlier(w)' = {}
        BY <2>2, <2>4, <3>1, <3>2, <4>1 DEF Current, Earlier
      <4>3. Cardinality({n + 1}) = 1 /\ Cardinality({}) = 0
        BY FS_Singleton, FS_EmptySet
      <4>4. windows'[w].n > 0 /\ w * S <= Begun(w)' /\ Begun(w)' <= time'
        BY <1>1, <1>4, <1>10, <2>2, <2>4, <3>1, <3>2, <4>1, <4>2, <4>3
      <4>5. Cardinality(Current(w)') <= windows'[w].n /\ Cardinality(Current(w)') <= points'
        BY <1>1, <1>4, <1>10, <2>2, <2>4, <3>1, <3>2, <4>1, <4>2, <4>3
      <4>6. Cardinality(Earlier(w)') <= points' /\ (Begun(w)' < w * S + Span => Earlier(w)' = {})
        BY <1>1, <1>4, <1>10, <2>2, <2>4, <3>1, <3>2, <4>1, <4>2, <4>3
      <4>7. \A i \in Stamped(w)' : admitted'[i].at < windows'[w].exp
        BY <2>2, <2>4, <3>1, <3>2, <4>1
      <4> QED
        BY <4>4, <4>5, <4>6, <4>7, <2>2 DEF CounterInv
    <3>4. CASE windows[w].n > 0
      <4>1. windows[w].exp <= time
        BY <2>2, <2>5, <3>4 DEF Counted
      <4>2. /\ w * S <= B /\ B <= time /\ \A i \in Stamped(w) : admitted[i].at < windows[w].exp
            /\ Cardinality(Current(w)) <= points /\ (B < w * S + Span => Earlier(w) = {})
        BY <1>7, <2>2, <3>4 DEF CounterInv, Begun
      <4>3. time < w * S + Span + Span /\ B < w * S + Span /\ w * S + Span <= time
        BY <1>1, <1>4, <1>10, <2>2, <4>1, <4>2
      <4>4. Stamped(w) = Current(w)
        <5>1. \A i \in Stamped(w) : i \notin Earlier(w)
          BY <4>2, <4>3
        <5>2. \A i \in Stamped(w) : admitted[i].at >= Begun(w)
          BY <2>2, <2>4, <5>1 DEF Earlier, Begun
        <5> QED
          BY <5>2 DEF Current
      <4>5. Current(w)' = {n + 1} /\ Earlier(w)' = Current(w)
        BY <2>2, <2>3, <2>4, <3>1, <3>2, <4>1, <4>2, <4>4 DEF Current, Earlier
      <4>6. Cardinality({n + 1}) = 1
        BY FS_Singleton
      <4>7. \A i \in Stamped(w)' : admitted'[i].at < time + Span
        BY <2>2, <2>3, <2>4, <3>2, <4>1, <4>2
      <4>8. windows'[w].n > 0 /\ w * S <= Begun(w)' /\ Begun(w)' <= time'
        BY <1>1, <2>2, <3>1, <4>2, <4>3, <4>5, <4>6, <4>7
      <4>9. Cardinality(Current(w)') <= windows'[w].n /\ Cardinality(Current(w)') <= points'
        BY <1>1, <2>2, <3>1, <4>2, <4>3, <4>5, <4>6, <4>7
      <4>10. Cardinality(Earlier(w)') <= points' /\ (Begun(w)' < w * S + Span => Earlier(w)' = {})
        BY <1>1, <2>2, <3>1, <4>2, <4>3, <4>5, <4>6, <4>7
      <4>11. \A i \in Stamped(w)' : admitted'[i].at < windows'[w].exp
        BY <1>1, <2>2, <3>1, <4>2, <4>3, <4>5, <4>6, <4>7
      <4> QED
        BY <4>8, <4>9, <4>10, <4>11, <2>2 DEF CounterInv
    <3> QED
      BY <2>2, <3>3, <3>4
  <2>6. CASE Counted(w) # 0
    <3>1. Counted(w) = windows[w].n /\ time < windows[w].exp /\ windows[w].n > 0
      BY <2>2, <2>6 DEF Counted
    <3>2. Begun(w)' = Begun(w) /\ Begun(w) = B /\ windows'[w].n = windows[w].n + 1 /\ windows'[w].exp = windows[w].exp
      BY <2>1, <2>6, <3>1 DEF Begun
    <3>3. /\ w * S <= B /\ B <= time /\ \A i \in Stamped(w) : admitted[i].at < windows[w].exp
          /\ Cardinality(Current(w)) <= windows[w].n /\ Cardinality(Current(w)) <= points
          /\ Cardinality(Earlier(w)) <= points /\ (B < w * S + Span => Earlier(w) = {})
      BY <1>7, <2>2, <3>1 DEF CounterInv, Begun
    <3>4. CASE ~ok
      <4>1. Current(w)' = Current(w) /\ Earlier(w)' = Earlier(w) /\ Stamped(w)' = Stamped(w)
        BY <1>1, <2>3, <3>2, <3>4 DEF Current, Earlier
      <4>2. Cardinality(Current(w)) \in Nat
        BY StampedFacts
      <4>3. \A i \in Stamped(w)' : admitted'[i].at < windows[w].exp
        BY <2>4, <3>3, <4>1
      <4>4. windows'[w].n > 0 /\ w * S <= Begun(w)' /\ Begun(w)' <= time'
        BY <1>1, <2>2, <3>2, <3>3, <4>1, <4>2, <4>3
      <4>5. Cardinality(Current(w)') <= windows'[w].n /\ Cardinality(Current(w)') <= points'
        BY <1>1, <2>2, <3>2, <3>3, <4>1, <4>2, <4>3
      <4>6. Cardinality(Earlier(w)') <= points' /\ (Begun(w)' < w * S + Span => Earlier(w)' = {})
        BY <1>1, <2>2, <3>2, <3>3, <4>1, <4>2, <4>3
      <4>7. \A i \in Stamped(w)' : admitted'[i].at < windows'[w].exp
        BY <1>1, <2>2, <3>2, <3>3, <4>1, <4>2, <4>3
      <4> QED
        BY <4>4, <4>5, <4>6, <4>7, <2>2 DEF CounterInv
    <3>5. CASE ok
      <4>1. windows[w].n + 1 <= points
        BY <1>5, <1>10, <3>1, <3>5
      <4>2. Current(w)' = Current(w) \cup {n + 1} /\ Earlier(w)' = Earlier(w) /\ n + 1 \notin Current(w)
        BY <2>2, <2>3, <2>4, <3>2, <3>3, <3>5 DEF Current, Earlier
      <4>3. Cardinality(Current(w) \cup {n + 1}) = Cardinality(Current(w)) + 1 /\ Cardinality(Current(w)) \in Nat
        BY <4>2, StampedFacts, FS_AddElement
      <4>4. \A i \in Stamped(w)' : admitted'[i].at < windows[w].exp
        BY <2>2, <2>3, <2>4, <3>1, <3>3, <3>5
      <4>5. windows'[w].n > 0 /\ w * S <= Begun(w)' /\ Begun(w)' <= time'
        BY <1>1, <2>2, <3>2, <3>3, <4>1, <4>2, <4>3, <4>4
      <4>6. Cardinality(Current(w)') <= windows'[w].n /\ Cardinality(Current(w)') <= points'
        BY <1>1, <2>2, <3>2, <3>3, <4>1, <4>2, <4>3, <4>4
      <4>7. Cardinality(Earlier(w)') <= points' /\ (Begun(w)' < w * S + Span => Earlier(w)' = {})
        BY <1>1, <2>2, <3>2, <3>3, <4>1, <4>2, <4>3, <4>4
      <4>8. \A i \in Stamped(w)' : admitted'[i].at < windows'[w].exp
        BY <1>1, <2>2, <3>2, <3>3, <4>1, <4>2, <4>3, <4>4
      <4> QED
        BY <4>5, <4>6, <4>7, <4>8, <2>2 DEF CounterInv
    <3> QED
      BY <3>4, <3>5
  <2> QED
    BY <2>5, <2>6
<1> QED
  BY <1>9, <1>10

LEMMA FixedStep ==
  ASSUME Setting, RLTypeOK, RLTypeOK', RequestsCounted, AdmittedInTime, FixedInv, [RLNext]_rlVars
  PROVE  FixedInv'
<1>1. CASE QuietStep
  <2>1. alg' = alg /\ points' = points /\ windows' = windows /\ admitted' = admitted /\ time <= time'
    BY <1>1 DEF QuietStep, config, store
  <2>2. ASSUME alg = "fixed", NEW w \in Windows
        PROVE  CounterInv(w)'
    <3>1. CounterInv(w)
      BY <2>2 DEF FixedInv
    <3>2. Stamped(w)' = Stamped(w)
      BY <2>1 DEF Stamped
    <3> QED
      BY <2>1, <3>1, <3>2, OtherWindow
  <2> QED
    BY <2>1, <2>2 DEF FixedInv
<1>2. CASE ResetStep
  <2>1. alg' = alg /\ points' = points /\ windows' = windows /\ time' = time /\ admitted' = <<>>
    BY <1>2 DEF ResetStep, config
  <2>2. ASSUME alg = "fixed", NEW w \in Windows
        PROVE  CounterInv(w)'
    <3>1. Stamped(w)' = {} /\ Current(w)' = {} /\ Earlier(w)' = {} /\ Cardinality({}) = 0
      BY <2>1, FS_EmptySet DEF Stamped, Current, Earlier
    <3>2. CounterInv(w) /\ windows[w].n \in Nat /\ points \in Nat /\ Begun(w)' = Begun(w)
      BY <2>1, <2>2, StampedFacts, RLConstantFacts DEF FixedInv, Begun, RLTypeOK
    <3> QED
      BY <2>1, <3>1, <3>2 DEF CounterInv
  <2> QED
    BY <2>1, <2>2 DEF FixedInv
<1>3. ASSUME NEW r \in Caller, RanStep(r)
      PROVE  FixedInv'
  <2>1. alg' = alg
    BY <1>3, RanFacts
  <2>2. ASSUME alg = "fixed", NEW w \in Windows
        PROVE  CounterInv(w)'
    BY <1>3, <2>2, FixedRan
  <2> QED
    BY <2>1, <2>2 DEF FixedInv
<1> QED
  BY <1>1, <1>2, <1>3, RLStepKinds

LEMMA FixedHolds ==
  ASSUME Setting, RLTypeOK, AdmittedInTime, FixedInv
  PROVE  FixedBounded
<1>1. ASSUME alg = "fixed", NEW w \in Windows
      PROVE  /\ Cardinality({i \in Stamped(w) : WindowOf(admitted[i].at) = w}) <= points
             /\ Cardinality(Stamped(w)) <= 2 * points
  <2> DEFINE Inside == {i \in Stamped(w) : WindowOf(admitted[i].at) = w}
  <2>1. CounterInv(w) /\ points \in Nat /\ Span \in Nat /\ w * S \in Nat
    BY <1>1, RLConstantFacts, WindowStart DEF FixedInv, RLTypeOK
  <2>2. /\ IsFiniteSet(Current(w)) /\ IsFiniteSet(Earlier(w)) /\ windows[w].n \in Nat
        /\ Cardinality(Current(w)) \in Nat /\ Cardinality(Earlier(w)) \in Nat /\ Begun(w) \in Int
    BY <1>1, <2>1, StampedFacts DEF Begun
  <2>3. CASE windows[w].n = 0
    <3>1. Stamped(w) = {} /\ Inside = {} /\ Cardinality({}) = 0
      BY <2>1, <2>3, FS_EmptySet DEF CounterInv
    <3> QED
      BY <2>1, <3>1
  <2>4. CASE windows[w].n > 0
    <3>1. /\ Cardinality(Current(w)) <= points /\ Cardinality(Earlier(w)) <= points
          /\ Begun(w) < w * S + Span => Earlier(w) = {}
      BY <2>1, <2>4 DEF CounterInv
    <3>2. \A i \in Stamped(w) : admitted[i].at \in 0..MaxTime /\ (i \in Current(w) \/ i \in Earlier(w))
      <4>1. \A i \in Stamped(w) : i \in DOMAIN admitted
        BY DEF Stamped
      <4>2. \A i \in Stamped(w) : admitted[i].at \in 0..MaxTime /\ admitted[i].at \in Nat
        BY <4>1, AdmittedFacts
      <4> QED
        BY <2>2, <4>2 DEF Current, Earlier
    <3>3. Cardinality(Stamped(w)) <= 2 * points
      <4>1. Stamped(w) = Current(w) \cup Earlier(w)
        BY <3>2 DEF Current, Earlier
      <4>2. Current(w) \cap Earlier(w) = {}
        BY <2>2, <3>2 DEF Current, Earlier
      <4>3. Cardinality(Stamped(w)) = Cardinality(Current(w)) + Cardinality(Earlier(w))
        <5>1. Cardinality(Current(w) \cup Earlier(w)) =
                Cardinality(Current(w)) + Cardinality(Earlier(w)) - Cardinality(Current(w) \cap Earlier(w))
          BY <2>2, FS_Union
        <5>2. Cardinality(Current(w) \cap Earlier(w)) = 0
          BY <4>2, FS_EmptySet
        <5> QED
          BY <2>2, <4>1, <5>1, <5>2
      <4> QED
        BY <2>1, <2>2, <3>1, <4>3
    <3>4. Cardinality(Inside) <= points
      <4>1. CASE Begun(w) < w * S + Span
        <5>1. Inside \subseteq Current(w)
          BY <3>1, <3>2, <4>1
        <5>2. Cardinality(Inside) <= Cardinality(Current(w)) /\ Cardinality(Inside) \in Nat
          BY <2>2, <5>1, FS_Subset, FS_CardinalityType
        <5> QED
          BY <2>1, <2>2, <3>1, <5>2
      <4>2. CASE w * S + Span <= Begun(w)
        <5>1. \A i \in Inside : admitted[i].at < w * S + Span
          BY <3>2, WindowFacts
        <5>2. Inside \subseteq Earlier(w)
          BY <2>1, <2>2, <3>2, <4>2, <5>1 DEF Earlier
        <5>3. Cardinality(Inside) <= Cardinality(Earlier(w)) /\ Cardinality(Inside) \in Nat
          BY <2>2, <5>2, FS_Subset, FS_CardinalityType
        <5> QED
          BY <2>1, <2>2, <3>1, <5>3
      <4> QED
        BY <2>1, <2>2, <4>1, <4>2
    <3> QED
      BY <3>3, <3>4
  <2> QED
    BY <2>2, <2>3, <2>4
<1> QED
  BY <1>1 DEF FixedBounded, Stamped

--------------------------------------------------------------------------------
(* The sliding window. *)

LEMMA RecentFacts ==
  ASSUME RLTypeOK, SlidingInv, alg = "sliding", NEW now \in 0..MaxTime
  PROVE  IsFiniteSet(Recent(now)) /\ Cardinality(Recent(now)) \in Nat
<1>1. IsFiniteSet(Stored)
  BY DEF SlidingInv
<1>2. Recent(now) \subseteq Stored
  BY DEF Recent, Stored
<1>3. IsFiniteSet(Recent(now))
  BY <1>1, <1>2, FS_Subset
<1> QED
  BY <1>3, FS_CardinalityType

LEMMA WithinFacts ==
  ASSUME RLTypeOK, NEW from, NEW to
  PROVE  IsFiniteSet(Within(from, to)) /\ Cardinality(Within(from, to)) \in Nat /\ Within(from, to) \subseteq DOMAIN admitted
<1>1. DOMAIN admitted = 1..Len(admitted) /\ Len(admitted) \in Nat
  BY DEF RLTypeOK
<1>2. Within(from, to) \subseteq DOMAIN admitted
  BY DEF Within
<1>3. IsFiniteSet(Within(from, to))
  <2>1. IsFiniteSet(DOMAIN admitted)
    BY <1>1, FS_Interval
  <2> QED
    BY <1>2, <2>1, FS_Subset
<1> QED
  BY <1>2, <1>3, FS_CardinalityType

\* A script counts every admission of the stretch that ends with, or after, its stamp.
LEMMA RecentCounts ==
  ASSUME Setting, RLTypeOK, AdmittedInTime, SlidingInv, alg = "sliding", NEW f, Logs(f),
         NEW now \in 0..MaxTime, now <= time, time <= now + Lag,
         NEW t \in 0..MaxTime, now <= t
  PROVE  Cardinality(Within(t - (Span - Lag), t)) <= Cardinality(Recent(now))
<1> DEFINE W == Within(t - (Span - Lag), t)
           g == [i \in W |-> f[i]]
<1>1. /\ Span \in Nat /\ Lag \in Nat /\ now \in Nat /\ time \in Nat /\ expiry \in Nat /\ t \in Nat /\ None \notin Nat
  BY RLConstantFacts DEF RLTypeOK
<1>2. ASSUME NEW i \in W
      PROVE  i \in DOMAIN admitted /\ f[i] \in Recent(now)
  <2>1. i \in DOMAIN admitted /\ admitted[i].stamp > t - (Span - Lag)
    BY <1>2 DEF Within
  <2>2. /\ admitted[i].stamp \in Nat /\ admitted[i].at \in Nat /\ admitted[i].stamp <= admitted[i].at
        /\ f[i] \in Caller /\ admitted[i].at + Span <= expiry
        /\ entries[f[i]] = admitted[i].stamp \/ admitted[i].stamp + Span <= time
    BY <2>1, AdmittedFacts DEF AdmittedInTime, Logs
  <2>3. admitted[i].stamp + Span > time /\ time < expiry /\ admitted[i].stamp > now - Span
    BY <1>1, <2>1, <2>2
  <2>4. entries[f[i]] = admitted[i].stamp
    BY <1>1, <2>2, <2>3
  <2> QED
    BY <1>1, <2>1, <2>2, <2>3, <2>4 DEF Recent
<1>3. g \in Injection(W, Recent(now))
  <2>1. g \in [W -> Recent(now)]
    BY <1>2
  <2>2. \A i, j \in W : g[i] = g[j] => i = j
    <3>1. \A i \in W : i \in DOMAIN admitted
      BY <1>2
    <3> HIDE DEF W
    <3> QED
      BY <3>1 DEF Logs
  <2> HIDE DEF W, g
  <2> QED
    BY <2>1, <2>2 DEF Injection, IsInjective
<1> HIDE DEF W, g
<1>4. Cardinality(W) <= Cardinality(Recent(now))
  BY <1>3, RecentFacts, FS_Injection
<1> QED
  BY <1>4 DEF W

LEMMA SlidingRan ==
  ASSUME Setting, RLTypeOK, RLTypeOK', RequestsCounted, AdmittedInTime, SlidingInv, alg = "sliding", NEW r \in Caller, RanStep(r)
  PROVE  SlidingInv'
<1> DEFINE now == req[r].stamp
           e == [stamp |-> now, at |-> time]
           n == Len(admitted)
           ok == SlidingAnswer(now).ok
           kept == [q \in Caller |-> IF q \in Recent(now) THEN entries[q] ELSE None]
<1>1. /\ now \in 0..MaxTime /\ time \in 0..MaxTime /\ time' = time /\ points' = points /\ alg' = alg
      /\ now <= time /\ time <= now + Lag /\ Script(r, now)
      /\ admitted' = IF ok THEN Append(admitted, e) ELSE admitted
  BY RanFacts DEF Answer
<1>2. SlidingWindow(r, now)
  BY <1>1 DEF Script, TokenBucket, FixedWindow
<1>3. /\ entries' = IF ok THEN [kept EXCEPT ![r] = now] ELSE kept
      /\ expiry' = IF ok THEN time + Span ELSE expiry
  BY <1>2 DEF SlidingWindow
<1>4. e \in Admissions /\ e.stamp = now /\ e.at = time /\ n \in Nat /\ admitted \in Seq(Admissions) /\ DOMAIN admitted = 1..n
  BY <1>1 DEF Admissions, RLTypeOK
<1>5. ok <=> Cardinality(Recent(now)) < points
  BY DEF SlidingAnswer, Room
<1>6. /\ kept \in [Caller -> 0..MaxTime \cup {None}]
      /\ \A q \in Caller : kept[q] = IF q \in Recent(now) THEN entries[q] ELSE None
  BY DEF RLTypeOK
<1> HIDE DEF now, e, n, ok, kept
<1>7. /\ Span \in Nat /\ Lag \in Nat /\ now \in Nat /\ time \in Nat /\ expiry \in Nat /\ points \in Nat /\ None \notin Nat
  BY <1>1, RLConstantFacts DEF RLTypeOK
<1>8. Ready(r) /\ ~Ready(r)' /\ \A q \in Caller : ~Ready(q) => ~Ready(q)'
  BY RanFacts
<1>9. ASSUME ok
      PROVE  /\ DOMAIN admitted' = DOMAIN admitted \cup {n + 1} /\ n + 1 \notin DOMAIN admitted
             /\ \A i \in DOMAIN admitted : admitted'[i] = admitted[i]
             /\ admitted'[n + 1] = e
  <2>1. admitted' = Append(admitted, e)
    BY <1>1, <1>9
  <2> QED
    BY <1>4, <2>1, AppendFacts DEF n
<1>10. PICK f : Logs(f)
  BY DEF SlidingInv
<1>11. ASSUME NEW i \in DOMAIN admitted
       PROVE  /\ f[i] \in Caller /\ f[i] # r /\ ~Ready(f[i])'
              /\ admitted[i].at + Span <= expiry /\ admitted[i].at + Span <= expiry'
              /\ kept[f[i]] = admitted[i].stamp \/ admitted[i].stamp + Span <= time
  <2>1. /\ f[i] \in Caller /\ ~Ready(f[i]) /\ admitted[i].at + Span <= expiry
        /\ entries[f[i]] = admitted[i].stamp \/ admitted[i].stamp + Span <= time
    BY <1>10, <1>11 DEF Logs
  <2>2. /\ admitted[i].stamp \in Nat /\ admitted[i].at \in Nat
        /\ admitted[i].stamp <= admitted[i].at /\ admitted[i].at <= time
    BY <1>11, AdmittedFacts DEF AdmittedInTime
  <2>3. ASSUME entries[f[i]] = admitted[i].stamp, f[i] \notin Recent(now)
        PROVE  admitted[i].stamp + Span <= time
    <3>1. ~(time < expiry) \/ ~(admitted[i].stamp > now - Span)
      BY <1>7, <2>1, <2>2, <2>3 DEF Recent
    <3> QED
      BY <1>1, <1>7, <2>1, <2>2, <3>1
  <2>4. admitted[i].at + Span <= expiry'
    BY <1>3, <1>7, <2>1, <2>2
  <2>5. kept[f[i]] = admitted[i].stamp \/ admitted[i].stamp + Span <= time
    BY <1>6, <2>1, <2>3
  <2> QED
    BY <1>8, <2>1, <2>4, <2>5
<1>12. IsFiniteSet(Stored') /\ Cardinality(Stored') <= points'
  <2>1. /\ IsFiniteSet(Recent(now)) /\ Cardinality(Recent(now)) \in Nat
        /\ IsFiniteSet(Stored) /\ Cardinality(Stored) \in Nat /\ Cardinality(Stored) <= points
    BY <1>1, RecentFacts, FS_CardinalityType DEF SlidingInv
  <2>2. CASE ok
    <3>1. Stored' \subseteq Recent(now) \cup {r}
      BY <1>3, <1>6, <2>2 DEF Stored
    <3>2. IsFiniteSet(Recent(now) \cup {r}) /\ Cardinality(Recent(now) \cup {r}) <= Cardinality(Recent(now)) + 1
          /\ Cardinality(Recent(now) \cup {r}) \in Nat
      <4>1. IsFiniteSet(Recent(now) \cup {r})
        BY <2>1, FS_AddElement
      <4>2. Cardinality(Recent(now) \cup {r}) = IF r \in Recent(now) THEN Cardinality(Recent(now)) ELSE Cardinality(Recent(now)) + 1
        BY <2>1, FS_AddElement
      <4> QED
        BY <2>1, <4>1, <4>2
    <3>3. IsFiniteSet(Stored') /\ Cardinality(Stored') <= Cardinality(Recent(now) \cup {r}) /\ Cardinality(Stored') \in Nat
      BY <3>1, <3>2, FS_Subset, FS_CardinalityType
    <3> QED
      BY <1>1, <1>5, <1>7, <2>1, <2>2, <3>2, <3>3
  <2>3. CASE ~ok
    <3>1. Stored' \subseteq Stored
      BY <1>3, <1>6, <2>3 DEF Stored
    <3>2. IsFiniteSet(Stored') /\ Cardinality(Stored') <= Cardinality(Stored) /\ Cardinality(Stored') \in Nat
      BY <2>1, <3>1, FS_Subset, FS_CardinalityType
    <3> QED
      BY <1>1, <1>7, <2>1, <3>2
  <2> QED
    BY <2>2, <2>3
<1>13. CASE ~ok
  <2>1. admitted' = admitted /\ entries' = kept /\ expiry' = expiry
    BY <1>1, <1>3, <1>13
  <2>2. /\ f \in [DOMAIN admitted -> Caller]
        /\ \A i, j \in DOMAIN admitted : f[i] = f[j] => i = j
    BY <1>10 DEF Logs
  <2>3. Logs(f)'
    BY <1>1, <1>11, <2>1, <2>2 DEF Logs
  <2>4. SlidingBounded'
    BY <1>1, <2>1 DEF SlidingInv, SlidingBounded, Within
  <2> QED
    BY <1>12, <2>3, <2>4 DEF SlidingInv
<1>14. CASE ok
  <2>1. entries' = [kept EXCEPT ![r] = now] /\ expiry' = time + Span
    BY <1>3, <1>14
  <2>2. PICK h \in [DOMAIN admitted \cup {n + 1} -> Caller] :
          h[n + 1] = r /\ \A i \in DOMAIN admitted : h[i] = f[i] /\ i # n + 1
    <3>1. [i \in DOMAIN admitted \cup {n + 1} |-> IF i = n + 1 THEN r ELSE f[i]] \in [DOMAIN admitted \cup {n + 1} -> Caller]
      BY <1>11
    <3> QED
      BY <1>9, <1>14, <3>1
  <2>3. h \in [DOMAIN admitted' -> Caller]
    BY <1>9, <1>14, <2>2
  <2>4. \A i, j \in DOMAIN admitted' : h[i] = h[j] => i = j
    <3>1. \A i, j \in DOMAIN admitted : f[i] = f[j] => i = j
      BY <1>10 DEF Logs
    <3> QED
      BY <1>9, <1>11, <1>14, <2>2, <3>1
  <2>5. ASSUME NEW i \in DOMAIN admitted'
        PROVE  /\ ~Ready(h[i])' /\ admitted'[i].at + Span <= expiry'
               /\ entries'[h[i]] = admitted'[i].stamp \/ admitted'[i].stamp + Span <= time'
    <3>1. CASE i = n + 1
      <4>1. h[i] = r /\ admitted'[i].at = time /\ admitted'[i].stamp = now
        BY <1>4, <1>9, <1>14, <2>2, <3>1
      <4>2. entries'[r] = now
        BY <1>6, <2>1
      <4>3. ~Ready(h[i])'
        BY <1>8, <4>1 DEF Ready
      <4> QED
        BY <1>7, <2>1, <4>1, <4>2, <4>3
    <3>2. CASE i \in DOMAIN admitted
      <4>1. h[i] = f[i] /\ admitted'[i] = admitted[i] /\ f[i] # r /\ f[i] \in Caller
        BY <1>9, <1>11, <1>14, <2>2, <3>2
      <4>2. entries'[f[i]] = kept[f[i]]
        BY <1>6, <2>1, <4>1
      <4>3. ~Ready(h[i])'
        BY <1>11, <3>2, <4>1 DEF Ready
      <4> QED
        BY <1>1, <1>11, <3>2, <4>1, <4>2, <4>3
    <3> QED
      BY <1>9, <1>14, <2>5, <3>1, <3>2
  <2>6. Logs(h)'
    BY <2>3, <2>4, <2>5 DEF Logs
  <2>7. ASSUME NEW t \in 0..MaxTime
        PROVE  Cardinality(Within(t - (Span - Lag), t)') <= points
    <3> DEFINE a == t - (Span - Lag)
    <3>1. a \in Int /\ t \in Nat
      BY <1>7
    <3>2. IsFiniteSet(Within(a, t)) /\ Cardinality(Within(a, t)) \in Nat /\ Within(a, t) \subseteq DOMAIN admitted
      BY WithinFacts
    <3>3. Cardinality(Within(a, t)) <= points
      BY DEF SlidingInv, SlidingBounded
    <3> HIDE DEF a
    <3>4. CASE now > a /\ now <= t
      <4>1. Within(a, t)' = Within(a, t) \cup {n + 1}
        BY <1>4, <1>9, <1>14, <3>4 DEF Within
      <4>2. Cardinality(Within(a, t) \cup {n + 1}) = Cardinality(Within(a, t)) + 1
        BY <1>9, <1>14, <3>2, FS_AddElement
      <4>3. Cardinality(Within(a, t)) <= Cardinality(Recent(now)) /\ Cardinality(Recent(now)) \in Nat
        BY <1>1, <1>10, <3>4, RecentCounts, RecentFacts DEF a
      <4> QED
        <5>1. Cardinality(Within(a, t)) + 1 <= points
          BY <1>5, <1>7, <1>14, <3>2, <4>3
        <5> QED
          BY <4>1, <4>2, <5>1 DEF a
    <3>5. CASE ~(now > a /\ now <= t)
      <4>1. Within(a, t)' = Within(a, t)
        BY <1>4, <1>9, <1>14, <3>5 DEF Within
      <4> QED
        BY <3>3, <4>1 DEF a
    <3> QED
      BY <3>4, <3>5
  <2>8. SlidingBounded'
    BY <1>1, <2>7 DEF SlidingBounded
  <2> QED
    BY <1>12, <2>6, <2>8 DEF SlidingInv
<1> QED
  BY <1>13, <1>14

LEMMA SlidingStep ==
  ASSUME Setting, RLTypeOK, RLTypeOK', RequestsCounted, AdmittedInTime, SlidingInv, [RLNext]_rlVars
  PROVE  SlidingInv'
<1>1. CASE QuietStep
  <2>1. /\ alg' = alg /\ points' = points /\ entries' = entries /\ expiry' = expiry /\ admitted' = admitted
        /\ time <= time' /\ time \in Nat /\ time' \in Nat /\ Span \in Nat
        /\ \A q \in Caller : ~Ready(q) => ~Ready(q)'
    BY <1>1, RLConstantFacts DEF QuietStep, config, store, RLTypeOK
  <2>2. ASSUME NEW f, Logs(f)
        PROVE  Logs(f)'
    <3>1. ASSUME NEW i \in DOMAIN admitted
          PROVE  /\ ~Ready(f[i])' /\ admitted[i].at + Span <= expiry
                 /\ entries[f[i]] = admitted[i].stamp \/ admitted[i].stamp + Span <= time'
      <4>1. /\ f[i] \in Caller /\ ~Ready(f[i]) /\ admitted[i].at + Span <= expiry /\ admitted[i].stamp \in Nat
            /\ entries[f[i]] = admitted[i].stamp \/ admitted[i].stamp + Span <= time
        BY <2>2, <3>1, AdmittedFacts DEF Logs
      <4>2. ~Ready(f[i])'
        BY <2>1, <4>1
      <4> QED
        BY <2>1, <4>1, <4>2
    <3> QED
      BY <2>1, <2>2, <3>1 DEF Logs
  <2>3. SlidingBounded'
    BY <2>1 DEF SlidingInv, SlidingBounded, Within
  <2>4. alg = "sliding" => \E f : Logs(f)'
    BY <2>2 DEF SlidingInv
  <2>5. Stored' = Stored
    BY <2>1 DEF Stored
  <2> QED
    BY <2>1, <2>3, <2>4, <2>5 DEF SlidingInv
<1>2. CASE ResetStep
  <2>1. alg' = alg /\ points' = points /\ admitted' = <<>> /\ entries' = [r \in Caller |-> None]
    BY <1>2 DEF ResetStep, config
  <2>2. Stored' = {} /\ DOMAIN admitted' = {}
    BY <2>1 DEF Stored
  <2>3. Logs(<<>>)'
    BY <2>1, <2>2 DEF Logs
  <2>4. SlidingBounded'
    <3>1. points' \in Nat /\ Cardinality({}) = 0
      BY <2>1, FS_EmptySet, RLConstantFacts DEF RLTypeOK
    <3>2. \A t \in 0..MaxTime : Within(t - (Span - Lag), t)' = {}
      BY <2>2 DEF Within
    <3> QED
      BY <3>1, <3>2 DEF SlidingBounded
  <2>5. IsFiniteSet(Stored') /\ Cardinality(Stored') <= points'
    BY <2>1, <2>2, FS_EmptySet, RLConstantFacts DEF RLTypeOK
  <2> QED
    BY <2>3, <2>4, <2>5 DEF SlidingInv
<1>3. ASSUME NEW r \in Caller, RanStep(r)
      PROVE  SlidingInv'
  <2>1. CASE alg = "sliding"
    BY <1>3, <2>1, SlidingRan
  <2>2. CASE alg # "sliding"
    BY <1>3, <2>2, RanFacts DEF SlidingInv, SlidingBounded
  <2> QED
    BY <2>1, <2>2
<1> QED
  BY <1>1, <1>2, <1>3, RLStepKinds

--------------------------------------------------------------------------------
(* How long a refused request waits. *)

LEMMA SecondsGrow ==
  ASSUME Setting, NEW a \in Int, NEW b \in Int, a <= b
  PROVE  Seconds(a) \in Int /\ Seconds(b) \in Int /\ Seconds(a) <= Seconds(b)
<1>1. S \in Int /\ S >= 0
  BY RLConstantFacts
<1>2. S * a <= S * b /\ S * a = a * S /\ S * b = b * S /\ S * a \in Int /\ S * b \in Int
  BY <1>1, TimesFacts
<1> QED
  BY <1>2 DEF Seconds

\* A request is refused by the script that ran last, or told so.
LEMMA RefusalKinds ==
  ASSUME Setting, RLTypeOK, RequestsCounted, [RLNext]_rlVars, NEW r \in Caller, Refused(r)'
  PROVE  /\ alg' = alg /\ points' = points
         /\ \/ Refused(r) /\ req'[r] = req[r] /\ UNCHANGED store
            \/ /\ Refused(r) /\ req[r].pc = "executed" /\ UNCHANGED <<store, time>>
               /\ req'[r].pc = "refused" /\ req'[r].stamp = time /\ req'[r].retry = RetryAfter(r)
            \/ /\ RanStep(r) /\ ~Answer(req[r].stamp).ok
               /\ req'[r].pc = "executed" /\ req'[r].stamp = req[r].stamp /\ req'[r].retry = Answer(req[r].stamp).retry
<1>1. req \in [Caller -> Requests] /\ None \notin Caller /\ last' = r
  BY RLConstantFacts, RateLimitAssumption DEF RLTypeOK, Refused
<1>2. ASSUME UNCHANGED <<last, store>>, req'[r] = req[r]
      PROVE  Refused(r) /\ req'[r] = req[r] /\ UNCHANGED store
  BY <1>2 DEF Refused
<1>3. req'[r].pc = "refused" \/ (req'[r].pc = "executed" /\ ~req'[r].ok)
  BY DEF Refused
<1>4. ASSUME NEW q \in Caller, Skip(q) \/ Check(q) \/ NoKey(q)
      PROVE  UNCHANGED <<config, last, store>> /\ req'[r] = req[r]
  <2>1. UNCHANGED <<config, last, store>>
    BY <1>4 DEF Skip, Check, NoKey
  <2>2. q # r => req'[r] = req[r]
    BY <1>1, <1>4 DEF Skip, Check, NoKey
  <2>3. ASSUME q = r PROVE FALSE
    <3>1. req[r] \in Requests
      BY <1>1
    <3>2. req'[r].pc \in {"runs", "sent", "failed"}
      BY <1>1, <1>4, <2>3, <3>1 DEF Skip, Check, NoKey, Requests
    <3> QED
      BY <1>3, <3>2
  <2> QED
    BY <2>1, <2>2, <2>3
<1>5. ASSUME NEW q \in Caller, Execute(q)
      PROVE  /\ q = r /\ RanStep(r) /\ UNCHANGED config /\ ~Answer(req[r].stamp).ok
             /\ req'[r].pc = "executed" /\ req'[r].stamp = req[r].stamp /\ req'[r].retry = Answer(req[r].stamp).retry
  <2>1. q = r
    BY <1>1, <1>5 DEF Execute, Executes
  <2>2. RanStep(r) /\ UNCHANGED config
    BY <1>5, <2>1, ExecuteStep DEF RanStep
  <2> DEFINE answer == Answer(req[r].stamp)
  <2>3. req' = [req EXCEPT ![r].pc = "executed", ![r].ok = answer.ok, ![r].retry = answer.retry, ![r].ran = @ + 1]
    BY <1>5, <2>1 DEF Execute
  <2> HIDE DEF answer
  <2>4. req[r] \in Requests
    BY <1>1
  <2>5. req'[r].pc = "executed" /\ req'[r].ok = answer.ok /\ req'[r].stamp = req[r].stamp /\ req'[r].retry = answer.retry
    BY <1>1, <2>3, <2>4 DEF Requests
  <2> QED
    BY <1>3, <2>1, <2>2, <2>5 DEF answer
<1>6. ASSUME NEW q \in Caller, Decide(q), q = r
      PROVE  /\ Refused(r) /\ req[r].pc = "executed" /\ UNCHANGED <<config, store, time>>
             /\ req'[r].pc = "refused" /\ req'[r].stamp = time /\ req'[r].retry = RetryAfter(r)
  <2>1. req[r].pc = "executed" /\ UNCHANGED <<config, store, time, last>> /\ req[r] \in Requests
    BY <1>1, <1>6 DEF Decide
  <2>2. req'[r] = IF req[r].ok THEN Passed(r) ELSE [req[r] EXCEPT !.pc = "refused", !.stamp = time, !.retry = RetryAfter(r)]
    BY <1>1, <1>6 DEF Decide
  <2>3. ~req[r].ok
    <3>1. ASSUME req[r].ok PROVE FALSE
      <4>1. req'[r] = [req[r] EXCEPT !.left = @ - 1, !.pc = "runs"]
        BY <2>1, <2>2, <3>1, PassedFacts
      <4>2. req'[r].pc = "runs"
        BY <2>1, <4>1 DEF Requests
      <4> QED
        BY <1>3, <4>2
    <3> QED
      BY <3>1
  <2>4. req'[r].pc = "refused" /\ req'[r].stamp = time /\ req'[r].retry = RetryAfter(r)
    BY <2>1, <2>2, <2>3 DEF Requests
  <2> QED
    BY <1>1, <2>1, <2>3, <2>4 DEF Refused
<1>7. ASSUME NEW q \in Caller, Decide(q), q # r
      PROVE  UNCHANGED <<config, last, store>> /\ req'[r] = req[r]
  BY <1>1, <1>7 DEF Decide
<1>8. ASSUME NEW q \in Caller, CheckFails(q)
      PROVE  UNCHANGED <<config, last, store>> /\ req'[r] = req[r]
  <2>1. req[q].pc = "sent" /\ UNCHANGED config
    BY <1>8 DEF CheckFails
  <2>2. ASSUME q = r PROVE FALSE
    <3>1. PICK ran \in {0, 1} : req'[r] = OnError(r, ran)
      <4>1. req[r].ran = 0
        BY <2>1, <2>2 DEF RequestsCounted, Sound
      <4> QED
        BY <1>1, <1>8, <2>2, <4>1 DEF CheckFails
    <3>2. OnError(r, ran).pc \in {"runs", "failed"}
      <4>1. CASE policy = "open"
        <5> DEFINE passed == [req[r] EXCEPT !.left = @ - 1, !.pc = "runs"]
        <5>1. OnError(r, ran) = [passed EXCEPT !.error = TRUE, !.ran = ran] /\ req[r] \in Requests
          BY <1>1, <2>1, <2>2, <4>1, PassedFacts DEF OnError
        <5>2. passed.pc = "runs" /\ DOMAIN passed = DOMAIN req[r]
          BY <5>1 DEF Requests
        <5> HIDE DEF passed
        <5> QED
          BY <5>1, <5>2 DEF Requests
      <4>2. CASE policy # "open"
        BY <1>1, <4>2 DEF OnError, Requests
      <4> QED
        BY <4>1, <4>2
    <3> QED
      BY <1>3, <3>1, <3>2
  <2>3. CASE UNCHANGED <<store, admitted, last>>
    BY <1>1, <1>8, <2>1, <2>2, <2>3 DEF CheckFails
  <2>4. CASE Executes(q)
    BY <1>1, <2>2, <2>4 DEF Executes
  <2> QED
    BY <1>8, <2>3, <2>4 DEF CheckFails
<1>9. ~Reset
  BY <1>1 DEF Reset
<1>10. ASSUME TimePasses \/ UNCHANGED rlVars
       PROVE  UNCHANGED <<config, last, store>> /\ req'[r] = req[r]
  BY <1>10 DEF TimePasses, rlVars
<1>11. CASE UNCHANGED <<config, last, store>> /\ req'[r] = req[r]
  BY <1>2, <1>11 DEF config
<1> QED
  BY <1>4, <1>5, <1>6, <1>7, <1>8, <1>9, <1>10, <1>11 DEF RLNext, config

LEMMA ClockGrows ==
  ASSUME Setting, RLTypeOK, RequestsCounted, [RLNext]_rlVars
  PROVE  time <= time'
<1>1. time \in Nat
  BY DEF RLTypeOK
<1> QED
  BY <1>1, RLStepKinds DEF QuietStep, ResetStep, RanStep

\* A sliding window refuses: the oldest entry it counted is still there when it is told.
LEMMA SlidingRefuses ==
  ASSUME Setting, RLTypeOK, RequestsCounted, SlidingInv, alg = "sliding", NEW r \in Caller, RanStep(r),
         ~Answer(req[r].stamp).ok, NEW retry, retry = Answer(req[r].stamp).retry
  PROVE  \E q \in Caller : entries'[q] # None /\ entries'[q] + Span <= req[r].stamp + Seconds(retry)
<1> DEFINE now == req[r].stamp
           ceil == Ceil(Oldest(now) + Span - now, S)
<1>1. now \in 0..MaxTime /\ Script(r, now)
  BY RanFacts
<1>2. Answer(now) = SlidingAnswer(now) /\ ~SlidingAnswer(now).ok
  BY DEF Answer
<1>3. SlidingWindow(r, now)
  BY <1>1 DEF Script, TokenBucket, FixedWindow
<1> HIDE DEF now
<1>4. ~Room(Cardinality(Recent(now)))
  BY <1>2 DEF SlidingAnswer
<1>5. retry = Max0(ceil)
  BY <1>2, <1>4 DEF SlidingAnswer, now
<1>6. Recent(now) # {}
  <2>1. Cardinality({}) = 0 /\ points \in Nat \ {0}
    BY FS_EmptySet, RLConstantFacts DEF RLTypeOK
  <2> QED
    BY <1>4, <2>1 DEF Room
<1>7. PICK q \in Recent(now) : entries[q] = Oldest(now)
  <2> DEFINE T == {entries[p] : p \in Recent(now)}
  <2>1. T \subseteq Nat /\ T # {}
    <3>1. ASSUME NEW p \in Recent(now)
          PROVE  entries[p] \in Nat
      <4>1. p \in Caller /\ entries[p] # None
        BY <3>1 DEF Recent
      <4>2. entries[p] \in 0..MaxTime \cup {None}
        BY <4>1 DEF RLTypeOK
      <4> QED
        BY <4>1, <4>2
    <3> QED
      BY <1>6, <3>1
  <2>2. \E t \in T : \A u \in T : t <= u
    <3> HIDE DEF T
    <3> QED
      BY <2>1, LeastExists
  <2>3. \E t \in T : \A p \in Recent(now) : t <= entries[p]
    BY <2>2
  <2>4. Oldest(now) \in T
    BY <2>3 DEF Oldest
  <2> QED
    BY <2>4
<1>8. q \in Caller /\ entries[q] # None /\ entries'[q] = entries[q]
  BY <1>2, <1>3, <1>7 DEF SlidingWindow, Recent
<1>9. Oldest(now) \in Nat /\ Span \in Nat /\ now \in Nat /\ S \in Nat \ {0}
  BY <1>1, <1>6, OldestFacts, RLConstantFacts
<1>10. ceil \in Int /\ Oldest(now) + Span - now <= S * ceil
  <2>1. Oldest(now) + Span - now \in Int
    BY <1>9
  <2> QED
    BY <1>9, <2>1, CeilFacts
<1> HIDE DEF ceil
<1>11. ceil <= retry /\ retry \in Int
  BY <1>5, <1>10 DEF Max0
<1>12. S * ceil <= Seconds(retry) /\ Seconds(retry) \in Int /\ S * ceil \in Int
  <2>1. Seconds(ceil) <= Seconds(retry) /\ Seconds(ceil) \in Int /\ Seconds(retry) \in Int
    BY <1>10, <1>11, SecondsGrow
  <2>2. Seconds(ceil) = S * ceil
    BY <1>9, <1>10, TimesFacts DEF Seconds
  <2> QED
    BY <2>1, <2>2
<1>13. entries'[q] + Span <= now + Seconds(retry)
  BY <1>7, <1>8, <1>9, <1>10, <1>12
<1> QED
  BY <1>8, <1>13 DEF now

\* A bucket refuses: in the time it says it refills what is missing of one token.
LEMMA TokenRefuses ==
  ASSUME Setting, RLTypeOK, RLTypeOK', RequestsCounted, TokenInv, alg = "token", NEW r \in Caller, RanStep(r),
         ~Answer(req[r].stamp).ok, NEW retry, retry = Answer(req[r].stamp).retry
  PROVE  bucket' # None /\ bucket'.last = req[r].stamp /\ One <= bucket'.tokens + Credit(Seconds(retry))
<1> DEFINE now == req[r].stamp
           tokens == Refilled(now)
<1>1. now \in 0..MaxTime /\ Script(r, now)
  BY RanFacts
<1>2. Answer(now) = TokenAnswer(now) /\ ~TokenAnswer(now).ok
  BY DEF Answer
<1>3. TokenBucket(now)
  BY <1>1 DEF Script, SlidingWindow, FixedWindow
<1> HIDE DEF now
<1>4. S \in Nat \ {0} /\ Rate \in Nat \ {0} /\ One \in Nat \ {0} /\ tokens \in Int /\ now \in Nat
  BY <1>1, RefilledType, RLConstantFacts, RateFacts
<1>5. ~(tokens >= One) /\ retry = Ceil(One - tokens, Rate * S)
  <2>1. TokenAnswer(now).ok <=> tokens >= One
    BY DEF TokenAnswer
  <2>2. TokenAnswer(now).retry = IF tokens >= One THEN 0 ELSE Ceil(One - tokens, Rate * S)
    BY DEF TokenAnswer
  <2> QED
    BY <1>2, <2>1, <2>2 DEF now
<1>6. bucket' # None /\ bucket'.tokens = tokens /\ bucket'.last = now
  <2>1. bucket' = [tokens |-> tokens - 0, last |-> now]
    BY <1>2, <1>3 DEF TokenBucket
  <2>2. bucket' \in [tokens : Int, last : Nat]
    BY <1>4, <2>1
  <2> QED
    BY <1>4, <2>1, <2>2, RLConstantFacts
<1> HIDE DEF tokens
<1>7. retry \in Int /\ One - tokens <= (Rate * S) * retry
  <2>1. Rate * S \in Nat \ {0} /\ One - tokens \in Int
    BY <1>4, RateFacts
  <2> QED
    BY <1>5, <2>1, CeilFacts
<1>8. (Rate * S) * retry = Credit(Seconds(retry)) /\ Credit(Seconds(retry)) \in Int
  <2>1. S * retry = retry * S /\ retry * S \in Int
    BY <1>4, <1>7, TimesFacts
  <2>2. (Rate * S) * retry = Rate * (S * retry)
    BY <1>4, <1>7, TimesAssociative
  <2>3. Rate * (retry * S) \in Int
    BY <1>4, <2>1
  <2> QED
    BY <2>1, <2>2, <2>3 DEF Credit, Seconds
<1> QED
  BY <1>4, <1>6, <1>7, <1>8 DEF now

\* A fixed window refuses: when it ends, one begins in which nothing was counted so far.
LEMMA FixedRefuses ==
  ASSUME Setting, RLTypeOK, FixedInv, alg = "fixed", NEW r \in Caller, NEW retry, retry = RetryAfter(r), retry > 0
  PROVE  \E k \in Nat : k * Span <= time + Seconds(retry) /\ \A w \in Windows : windows[w].n > 0 => w * S < k * Span
<1> DEFINE stamp == req[r].stamp
           y == (stamp \div S) \div Duration
           end == (WindowOf(stamp) + Duration) * S
<1>1. stamp \in 0..MaxTime /\ time \in Nat /\ Duration \in Nat \ {0} /\ S \in Nat \ {0} /\ Span \in Nat \ {0} /\ Span = Duration * S
  BY RLConstantFacts DEF RLTypeOK, Requests, Span
<1> HIDE DEF stamp
<1>2. y \in Nat /\ WindowOf(stamp) = y * Duration
  <2> DEFINE x == stamp \div S
  <2>1. x \in Nat
    BY <1>1, DivFacts
  <2>2. WindowOf(stamp) = x - (x % Duration) /\ y = x \div Duration
    BY DEF WindowOf
  <2> HIDE DEF x, y
  <2>3. x \div Duration \in Nat /\ x = (x \div Duration) * Duration + (x % Duration) /\ x % Duration \in Int
    BY <1>1, <2>1, DivFacts
  <2>4. (x \div Duration) * Duration \in Int
    BY <1>1, <2>3
  <2> QED
    BY <2>1, <2>2, <2>3, <2>4
<1> HIDE DEF y
<1>3. end = (y + 1) * Span /\ end \in Nat
  <2>1. y * Duration + Duration = (y + 1) * Duration /\ y + 1 \in Nat
    BY <1>1, <1>2, TimesFacts
  <2>2. ((y + 1) * Duration) * S = (y + 1) * (Duration * S)
    BY <1>1, <2>1, TimesAssociative
  <2>3. (y + 1) * Span \in Nat
    BY <1>1, <2>1
  <2> QED
    BY <1>1, <1>2, <2>1, <2>2, <2>3
<1>4. retry = Ceil(end - time, S)
  BY DEF RetryAfter, stamp
<1> HIDE DEF end
<1>5. retry \in Int /\ end - time <= S * retry /\ (end - time <= 0 => retry <= 0)
  <2>1. end - time \in Int
    BY <1>1, <1>3
  <2> QED
    BY <1>1, <1>4, <2>1, CeilFacts
<1>6. S * retry = Seconds(retry) /\ Seconds(retry) \in Int
  BY <1>1, <1>5, TimesFacts DEF Seconds
<1>7. end <= time + Seconds(retry) /\ time < end
  BY <1>1, <1>3, <1>5, <1>6
<1>8. ASSUME NEW w \in Windows, windows[w].n > 0
      PROVE  w * S < end
  <2>1. w * S <= Begun(w) /\ Begun(w) <= time /\ Begun(w) \in Int /\ w * S \in Nat
    BY <1>1, <1>8, StampedFacts, WindowStart DEF FixedInv, CounterInv, Begun
  <2> QED
    BY <1>1, <1>3, <1>7, <2>1
<1>9. y + 1 \in Nat
  BY <1>2
<1> QED
  BY <1>3, <1>7, <1>8, <1>9

LEMMA RefusalStep ==
  ASSUME Setting, RLTypeOK, RLTypeOK', RequestsCounted, SlidingInv, FixedInv, TokenInv, RefusalInv, [RLNext]_rlVars
  PROVE  RefusalInv'
<1> SUFFICES ASSUME NEW r \in Caller, Refused(r)'
             PROVE  RoomAfter(r)'
  BY DEF RefusalInv
<1>1. alg' = alg /\ points' = points /\ time <= time' /\ time \in Nat /\ time' \in Nat
  BY RefusalKinds, ClockGrows DEF RLTypeOK
<1>2. req[r] \in Requests /\ req'[r] \in Requests
  BY DEF RLTypeOK
<1>3. req[r].stamp \in Nat /\ req'[r].stamp \in Nat /\ req[r].retry \in Int /\ req'[r].retry \in Int
  BY <1>2 DEF Requests
<1>4. CASE Refused(r) /\ req'[r] = req[r] /\ UNCHANGED store
  <2>1. RoomAfter(r) /\ UNCHANGED <<windows, entries, bucket>>
    BY <1>4 DEF RefusalInv, store
  <2>2. req'[r].stamp <= time'
    BY <1>1, <1>3, <1>4, <2>1 DEF RoomAfter
  <2> QED
    BY <1>1, <1>4, <2>1, <2>2 DEF RoomAfter
<1>5. CASE /\ Refused(r) /\ req[r].pc = "executed" /\ UNCHANGED <<store, time>>
           /\ req'[r].pc = "refused" /\ req'[r].stamp = time /\ req'[r].retry = RetryAfter(r)
  <2>1. RoomAfter(r) /\ UNCHANGED <<windows, entries, bucket>> /\ time' = time /\ req[r].stamp <= time
    BY <1>5 DEF RefusalInv, store, RoomAfter
  <2>2. alg # "fixed" => req'[r].retry = req[r].retry
    BY <1>5 DEF RetryAfter
  <2>3. Seconds(req[r].retry) \in Int /\ Span \in Nat
    BY <1>3, SecondsFacts, RLConstantFacts
  <2>4. ASSUME alg = "sliding"
        PROVE  \E q \in Caller : entries'[q] # None /\ entries'[q] + Span <= req'[r].stamp + Seconds(req'[r].retry)
    <3>1. PICK q \in Caller : entries[q] # None /\ entries[q] + Span <= req[r].stamp + Seconds(req[r].retry)
      BY <2>1, <2>4 DEF RoomAfter
    <3>2. entries[q] \in Nat
      <4>1. entries[q] \in 0..MaxTime \cup {None}
        BY DEF RLTypeOK
      <4> QED
        BY <3>1, <4>1
    <3>3. entries[q] + Span <= time + Seconds(req[r].retry)
      BY <1>1, <1>3, <2>1, <2>3, <3>1, <3>2
    <3>4. req'[r].retry = req[r].retry
      BY <2>2, <2>4
    <3> QED
      BY <1>5, <2>1, <3>1, <3>3, <3>4
  <2>5. ASSUME alg = "token"
        PROVE  bucket' # None /\ bucket'.last <= req'[r].stamp /\ One <= bucket'.tokens + Credit(Seconds(req'[r].retry))
    <3>1. bucket # None /\ bucket.last <= req[r].stamp /\ One <= bucket.tokens + Credit(Seconds(req[r].retry))
      BY <2>1, <2>5 DEF RoomAfter
    <3>2. req'[r].retry = req[r].retry /\ bucket.last \in Nat
      BY <2>2, <2>5, <3>1, BucketFacts
    <3> QED
      BY <1>1, <1>3, <1>5, <2>1, <3>1, <3>2
  <2>6. ASSUME alg = "fixed", req'[r].retry > 0
        PROVE  \E k \in Nat : /\ k * Span <= req'[r].stamp + Seconds(req'[r].retry)
                              /\ \A w \in Windows : windows'[w].n > 0 => w * S < k * Span
    <3>1. RetryAfter(r) > 0 /\ req'[r].retry = RetryAfter(r)
      BY <1>5, <2>6
    <3>2. \E k \in Nat : k * Span <= time + Seconds(RetryAfter(r)) /\ \A w \in Windows : windows[w].n > 0 => w * S < k * Span
      BY <2>6, <3>1, FixedRefuses
    <3> QED
      BY <1>5, <2>1, <3>1, <3>2
  <2>7. req'[r].stamp <= time'
    BY <1>1, <1>5, <2>1
  <2> QED
    BY <1>1, <2>4, <2>5, <2>6, <2>7 DEF RoomAfter
<1>6. CASE /\ RanStep(r) /\ ~Answer(req[r].stamp).ok
           /\ req'[r].pc = "executed" /\ req'[r].stamp = req[r].stamp /\ req'[r].retry = Answer(req[r].stamp).retry
  <2>1. req[r].stamp <= time /\ time' = time
    BY <1>6, RanFacts
  <2>2. req'[r].stamp <= time'
    BY <1>6, <2>1
  <2>3. ASSUME alg = "sliding"
        PROVE  \E q \in Caller : entries'[q] # None /\ entries'[q] + Span <= req[r].stamp + Seconds(req'[r].retry)
    BY <1>6, <2>3, SlidingRefuses
  <2>4. ASSUME alg = "token"
        PROVE  bucket' # None /\ bucket'.last = req[r].stamp /\ One <= bucket'.tokens + Credit(Seconds(req'[r].retry))
    BY <1>6, <2>4, TokenRefuses
  <2> QED
    BY <1>1, <1>3, <1>6, <2>2, <2>3, <2>4 DEF RoomAfter
<1> QED
  BY <1>4, <1>5, <1>6, RefusalKinds

\* The three algorithms, asked when the time that was told is over.
LEMMA SlidingRoom ==
  ASSUME Setting, RLTypeOK, SlidingInv, alg = "sliding", NEW q \in Caller, entries[q] # None, entries[q] + Span <= time
  PROVE  Answer(time).ok
<1>1. /\ IsFiniteSet(Stored) /\ Cardinality(Stored) <= points /\ Cardinality(Stored) \in Nat /\ points \in Nat
      /\ time \in 0..MaxTime /\ time \in Nat /\ Span \in Nat
  BY FS_CardinalityType, RLConstantFacts DEF SlidingInv, RLTypeOK
<1>2. Recent(time) \subseteq Stored /\ q \in Stored
  BY DEF Recent, Stored
<1>3. q \notin Recent(time)
  <2>1. entries[q] \in Nat
    <3>1. entries[q] \in 0..MaxTime \cup {None}
      BY DEF RLTypeOK
    <3> QED
      BY <3>1
  <2> QED
    BY <1>1, <2>1 DEF Recent
<1>4. Cardinality(Recent(time)) <= Cardinality(Stored) /\ (Cardinality(Stored) = Cardinality(Recent(time)) => Stored = Recent(time))
  BY <1>1, <1>2, FS_Subset
<1>5. Cardinality(Recent(time)) \in Nat
  BY <1>1, RecentFacts
<1>6. Cardinality(Recent(time)) < points
  BY <1>1, <1>2, <1>3, <1>4, <1>5
<1>7. Room(Cardinality(Recent(time)))
  BY <1>6 DEF Room
<1> QED
  BY <1>7 DEF Answer, SlidingAnswer

LEMMA FullBucket ==
  ASSUME Setting, RLTypeOK
  PROVE  One <= Full
<1>1. points \in Nat \ {0} /\ One \in Nat \ {0}
  BY RLConstantFacts, RateFacts DEF RLTypeOK
<1>2. One * 1 <= One * points /\ One * points = points * One
  BY <1>1, TimesFacts
<1> QED
  BY <1>1, <1>2 DEF Full

LEMMA TokenRoom ==
  ASSUME Setting, RLTypeOK, alg = "token", One <= Refilled(time)
  PROVE  Answer(time).ok
<1>1. Refilled(time) \in Int /\ One \in Nat
  BY RefilledType, RLConstantFacts, RateFacts DEF RLTypeOK
<1>2. TokenAnswer(time).ok = (Refilled(time) >= One)
  BY DEF TokenAnswer
<1> QED
  BY <1>1, <1>2 DEF Answer

LEMMA FixedRoom ==
  ASSUME Setting, RLTypeOK, alg = "fixed", NEW k \in Nat, k * Span <= time,
         \A w \in Windows : windows[w].n > 0 => w * S < k * Span
  PROVE  Answer(time).ok
<1> DEFINE w == WindowOf(time)
           y == (time \div S) \div Duration
<1>1. time \in 0..MaxTime /\ time \in Nat /\ Duration \in Nat \ {0} /\ S \in Nat \ {0} /\ Span \in Nat \ {0}
      /\ Span = Duration * S /\ points \in Nat \ {0}
  BY RLConstantFacts DEF RLTypeOK, Span
<1>2. w \in Windows /\ w * S \in Nat /\ w * S <= time /\ time < w * S + Span
  BY <1>1, WindowFacts
<1>3. y \in Nat /\ w = y * Duration
  <2> DEFINE x == time \div S
  <2>1. x \in Nat
    BY <1>1, DivFacts
  <2>2. w = x - (x % Duration) /\ y = x \div Duration
    BY DEF WindowOf
  <2> HIDE DEF x, y, w
  <2>3. x \div Duration \in Nat /\ x = (x \div Duration) * Duration + (x % Duration) /\ x % Duration \in Int
    BY <1>1, <2>1, DivFacts
  <2>4. (x \div Duration) * Duration \in Int
    BY <1>1, <2>3
  <2> QED
    BY <2>1, <2>2, <2>3, <2>4
<1> HIDE DEF w, y
<1>4. w * S = Span * y /\ Span * y \in Nat
  BY <1>1, <1>3, TimesAssociative, TimesFacts
<1>5. Span * k <= Span * y
  <2>1. Span * k < Span * (y + 1)
    <3>1. Span * (y + 1) = Span * y + Span * 1 /\ Span * k = k * Span /\ Span * k \in Int
      BY <1>1, <1>3, TimesFacts
    <3> QED
      BY <1>1, <1>2, <1>4, <3>1
  <2>2. k < y + 1
    BY <1>1, <1>3, <2>1, TimesFacts
  <2>3. k <= y
    BY <1>3, <2>2
  <2> QED
    BY <1>1, <1>3, <2>3, TimesFacts
<1>6. ~(w * S < k * Span)
  <2>1. Span * k = k * Span /\ Span * k \in Int
    BY <1>1, TimesFacts
  <2> QED
    BY <1>4, <1>5, <2>1
<1>7. windows[w].n = 0
  BY <1>2, <1>6, StampedFacts
<1>8. Counted(w) = 0
  BY <1>7 DEF Counted
<1>9. Counted(WindowOf(time)) + 1 <= points
  BY <1>1, <1>8 DEF w
<1> QED
  BY <1>9 DEF Answer, FixedAnswer

LEMMA RetryHolds ==
  ASSUME Setting, RLTypeOK, SlidingInv, RefusalInv
  PROVE  RetryHonest
<1> SUFFICES ASSUME NEW r \in Caller, last = r, req[r].pc = "refused", req[r].retry > 0,
                    time >= req[r].stamp + req[r].retry * S
             PROVE  Answer(time).ok
  BY DEF RetryHonest
<1>1. RoomAfter(r)
  BY DEF RefusalInv, Refused
<1>2. /\ req[r].stamp \in Nat /\ req[r].retry \in Int /\ time \in Nat /\ time \in 0..MaxTime
      /\ alg \in {"fixed", "sliding", "token"}
  <2>1. req[r] \in Requests /\ time \in 0..MaxTime /\ alg \in Algorithms
    BY DEF RLTypeOK
  <2> QED
    BY <2>1, RateLimitAssumption DEF Requests
<1>3. Seconds(req[r].retry) \in Int /\ req[r].stamp + Seconds(req[r].retry) <= time
  BY <1>2, SecondsFacts
<1>4. CASE alg = "sliding"
  <2>1. PICK q \in Caller : entries[q] # None /\ entries[q] + Span <= req[r].stamp + Seconds(req[r].retry)
    BY <1>1, <1>4 DEF RoomAfter
  <2>2. entries[q] \in Nat /\ Span \in Nat
    <3>1. entries[q] \in 0..MaxTime \cup {None}
      BY DEF RLTypeOK
    <3> QED
      BY <2>1, <3>1, RLConstantFacts
  <2>3. entries[q] + Span <= time
    BY <1>2, <1>3, <2>1, <2>2
  <2> QED
    BY <1>4, <2>1, <2>3, SlidingRoom
<1>5. CASE alg = "token"
  <2>1. bucket # None /\ bucket.last <= req[r].stamp /\ One <= bucket.tokens + Credit(Seconds(req[r].retry))
    BY <1>1, <1>5 DEF RoomAfter
  <2>2. /\ bucket.last \in Int /\ bucket.tokens \in Int /\ One \in Nat /\ Full \in Nat /\ One <= Full
        /\ Refilled(time) \in Int
    BY <1>2, <2>1, BucketFacts, RefilledType, FullBucket
  <2>3. CASE Held = None
    BY <1>5, <2>2, <2>3, TokenRoom DEF Refilled
  <2>4. CASE Held # None
    <3> DEFINE sum == bucket.tokens + (time - bucket.last) * Rate
    <3>1. Refilled(time) = IF Full < sum THEN Full ELSE sum
      BY <2>4 DEF Refilled, Least, Held
    <3>2. /\ (time - bucket.last) * Rate = Credit(time) - Credit(bucket.last)
          /\ Credit(time) \in Int /\ Credit(bucket.last) \in Int
      <4>1. time \in Int
        BY <1>2
      <4> QED
        BY <2>2, <4>1, CreditFacts
    <3>3. /\ Credit(bucket.last + Seconds(req[r].retry)) = Credit(bucket.last) + Credit(Seconds(req[r].retry))
          /\ Credit(Seconds(req[r].retry)) \in Int
      BY <1>3, <2>2, CreditFacts
    <3>4. Credit(bucket.last + Seconds(req[r].retry)) <= Credit(time)
      <4>1. bucket.last + Seconds(req[r].retry) \in Int /\ time \in Int /\ bucket.last + Seconds(req[r].retry) <= time
        BY <1>2, <1>3, <2>1, <2>2
      <4> QED
        BY <4>1, CreditFacts
    <3>5. sum \in Int /\ One <= sum
      BY <2>1, <2>2, <3>2, <3>3, <3>4
    <3> HIDE DEF sum
    <3>6. One <= Refilled(time)
      BY <2>2, <3>1, <3>5
    <3> QED
      BY <1>5, <3>6, TokenRoom
  <2> QED
    BY <2>3, <2>4
<1>6. CASE alg = "fixed"
  <2>1. PICK k \in Nat : /\ k * Span <= req[r].stamp + Seconds(req[r].retry)
                         /\ \A w \in Windows : windows[w].n > 0 => w * S < k * Span
    BY <1>1, <1>6 DEF RoomAfter
  <2>2. k * Span <= time
    <3>1. k * Span \in Int
      BY RLConstantFacts
    <3> QED
      BY <1>2, <1>3, <2>1, <3>1
  <2> QED
    BY <1>6, <2>1, <2>2, FixedRoom
<1> QED
  BY <1>2, <1>4, <1>5, <1>6

\* What peek() counts of the log is no less than the check that follows at once counts.
LEMMA SlidingPeek ==
  ASSUME Setting, RLTypeOK, SlidingInv, alg = "sliding", Peek.ok
  PROVE  Answer(time).ok /\ Answer(time).remaining + 1 >= Peek.remaining
<1> DEFINE c == Cardinality(Recent(time))
<1>1. time \in 0..MaxTime /\ points \in Nat /\ IsFiniteSet(Stored) /\ Cardinality(Stored) \in Nat
  BY FS_CardinalityType, RLConstantFacts DEF SlidingInv, RLTypeOK
<1>2. c \in Nat
  BY <1>1, RecentFacts
<1>3. Peek = [ok |-> Logged < points, remaining |-> Max0(points - Logged)]
  BY DEF Peek
<1>4. Logged \in Nat /\ c <= Logged
  <2>1. CASE time < expiry
    <3>1. Logged = Cardinality(Stored) /\ Recent(time) \subseteq Stored
      BY <2>1 DEF Logged, Recent, Stored
    <3> QED
      BY <1>1, <3>1, FS_Subset
  <2>2. CASE ~(time < expiry)
    <3>1. Logged = 0 /\ Recent(time) = {}
      BY <2>2 DEF Logged, Recent
    <3> QED
      BY <3>1, FS_EmptySet
  <2> QED
    BY <2>1, <2>2
<1>5. Logged < points
  BY <1>3
<1>6. Max0(points - Logged) = points - Logged
  BY <1>1, <1>4, <1>5 DEF Max0
<1>7. Room(c)
  BY <1>1, <1>2, <1>4, <1>5 DEF Room
<1>8. Answer(time) = [ok |-> TRUE, current |-> c + 1, remaining |-> points - c - 1, retry |-> 0]
  BY <1>7 DEF Answer, SlidingAnswer
<1> HIDE DEF c
<1> QED
  BY <1>1, <1>2, <1>3, <1>4, <1>5, <1>6, <1>8

\* Whole tokens: more is no fewer of them, and a second's worth more is one more.
LEMMA WholeTokens ==
  ASSUME Setting, NEW a \in Int, NEW b \in Int, a <= b
  PROVE  /\ a \div One \in Int /\ b \div One \in Int /\ (b - One) \div One \in Int
         /\ a \div One <= b \div One /\ (b - One) \div One + 1 = b \div One
<1>1. One \in Nat \ {0} /\ One \in Int /\ One > 0
  BY RLConstantFacts, RateFacts
<1>2. /\ a \div One \in Int /\ a % One \in Int /\ 0 <= a % One /\ a % One < One /\ a = (a \div One) * One + (a % One)
      /\ b \div One \in Int /\ b % One \in Int /\ 0 <= b % One /\ b % One < One /\ b = (b \div One) * One + (b % One)
  BY <1>1, DivFacts
<1> DEFINE c == b - One
<1>3. c \in Int
  BY <1>1
<1>4. c \div One \in Int /\ c % One \in Int /\ 0 <= c % One /\ c % One < One /\ c = (c \div One) * One + (c % One)
  BY <1>1, <1>3, DivFacts
<1> DEFINE x == a \div One  y == b \div One  z == c \div One
<1>5. /\ One * x \in Int /\ One * x = x * One /\ One * y \in Int /\ One * y = y * One /\ One * z \in Int /\ One * z = z * One
      /\ One * (y + 1) = One * y + One /\ One * (z + 1) = One * z + One /\ One * (z + 2) = One * z + One + One
  <2>1. x \in Int /\ y \in Int /\ z \in Int
    BY <1>2, <1>4
  <2> HIDE DEF x, y, z, c
  <2> QED
    BY <1>1, <2>1, TimesFacts
<1>6. x < y + 1
  <2>1. One * x < One * (y + 1)
    <3> HIDE DEF x, y, z, c
    <3> QED
      BY <1>1, <1>2, <1>5 DEF x, y
  <2> QED
    BY <1>1, <1>2, <2>1, TimesFacts
<1>7. z + 1 < y + 1 /\ y < z + 2
  <2>1. One * (z + 1) < One * (y + 1) /\ One * y < One * (z + 2)
    <3>1. c = b - One
      OBVIOUS
    <3> HIDE DEF c
    <3> QED
      BY <1>1, <1>2, <1>4, <1>5, <3>1
  <2> QED
    BY <1>1, <1>2, <1>4, <2>1, TimesFacts
<1> QED
  BY <1>2, <1>4, <1>6, <1>7

\* A bucket was last refilled before now, so that peek(), whose rate is no higher, finds no
\* more tokens in it than a check that follows at once.
LEMMA TokenPeek ==
  ASSUME Setting, RLTypeOK, TokenInv, alg = "token", PeekRate <= Rate, Peek.ok
  PROVE  Answer(time).ok /\ Answer(time).remaining + 1 >= Peek.remaining
<1> DEFINE found == IF Held = None THEN Full ELSE Least(Full, Held.tokens + Max0(time - Held.last) * PeekRate)
           held == Refilled(time)
<1>1. /\ time \in 0..MaxTime /\ time \in Nat /\ Rate \in Nat /\ PeekRate \in Nat /\ One \in Nat \ {0}
      /\ Full \in Nat /\ held \in Int
  BY RefilledType, RLConstantFacts, RateFacts, BucketFacts DEF RLTypeOK
<1>2. Peek = [ok |-> found >= One, remaining |-> found \div One]
  BY DEF Peek
<1>3. found \in Int /\ found <= held
  <2>1. CASE Held = None
    BY <1>1, <2>1 DEF Refilled
  <2>2. CASE Held # None
    <3> DEFINE d == time - bucket.last
    <3>1. bucket # None /\ Held = bucket
      BY <2>2 DEF Held
    <3>2. bucket.tokens \in Int /\ bucket.last \in Nat /\ bucket.last <= RefilledAt /\ RefilledAt <= time /\ RefilledAt \in Int
      BY <3>1, BucketFacts DEF TokenInv, BucketInv
    <3>3. d \in Nat /\ Max0(d) = d
      BY <1>1, <3>2 DEF Max0
    <3>4. found = Least(Full, bucket.tokens + d * PeekRate) /\ held = Least(Full, bucket.tokens + d * Rate)
      BY <2>2, <3>1, <3>3 DEF Refilled
    <3> HIDE DEF d, found, held
    <3>5. d * PeekRate \in Int /\ d * Rate \in Int /\ d * PeekRate <= d * Rate
      BY <1>1, <3>3, TimesFacts
    <3> QED
      BY <1>1, <3>2, <3>4, <3>5 DEF Least
  <2> QED
    BY <2>1, <2>2
<1>4. One <= held
  <2> HIDE DEF found, held
  <2>1. found >= One
    BY <1>2
  <2> QED
    BY <1>1, <1>3, <2>1
<1>5. Answer(time).ok /\ Answer(time).remaining = (held - One) \div One
  <2>1. TokenAnswer(time).ok = (held >= One) /\ TokenAnswer(time).remaining = (IF held >= One THEN held - One ELSE held) \div One
    BY DEF TokenAnswer
  <2> HIDE DEF held
  <2> QED
    BY <1>1, <1>4, <2>1 DEF Answer
<1> HIDE DEF found, held
<1>6. found \div One \in Int /\ held \div One \in Int /\ (held - One) \div One \in Int
      /\ found \div One <= held \div One /\ (held - One) \div One + 1 = held \div One
  BY <1>1, <1>3, WholeTokens
<1> QED
  BY <1>2, <1>5, <1>6

LEMMA PeekHolds ==
  ASSUME Setting, RLTypeOK, SlidingInv, TokenInv
  PROVE  PeekSafe
BY SlidingPeek, TokenPeek DEF PeekSafe

--------------------------------------------------------------------------------
(* The theorems. *)

LEMMA InitInv ==
  ASSUME Setting, RLInit
  PROVE  Inv
<1>1. MaxTime \in Nat /\ Bindings \in Nat \ {0} /\ Lag \in Nat
  BY RLConstantFacts
<1>2. RLTypeOK
  <2>1. windows \in [Windows -> [n : Nat, exp : Nat]] /\ entries \in [Caller -> 0..MaxTime \cup {None}]
    BY DEF RLInit
  <2>2. req \in [Caller -> Requests]
    BY <1>1 DEF RLInit, Requests
  <2>3. alg \in Algorithms /\ policy \in Policies /\ points \in Limits /\ time \in 0..MaxTime
    BY <1>1 DEF RLInit
  <2>4. bucket = None /\ expiry = 0 /\ admitted \in Seq(Admissions) /\ last = None
    BY DEF RLInit
  <2> QED
    BY <2>1, <2>2, <2>3, <2>4 DEF RLTypeOK
<1>3. RequestsCounted
  <2>1. \A r \in Caller :
          req[r] = [pc |-> "guard", left |-> Bindings, skip |-> FALSE, marked |-> FALSE, stamp |-> 0,
                    ok |-> FALSE, retry |-> 0, ran |-> 0, error |-> FALSE]
    BY DEF RLInit
  <2> QED
    BY <2>1 DEF RequestsCounted, Sound
<1>4. admitted = <<>> /\ DOMAIN admitted = {} /\ bucket = None /\ Stored = {}
      /\ \A w \in Windows : windows[w].n = 0
  BY DEF RLInit, Stored
<1>5. AdmittedInTime
  BY <1>4 DEF AdmittedInTime
<1>6. SlidingInv
  <2>1. Logs(<<>>)
    BY <1>4 DEF Logs
  <2>2. \A t \in 0..MaxTime : Within(t - (Span - Lag), t) = {}
    BY <1>4 DEF Within
  <2>3. points \in Nat /\ Cardinality({}) = 0 /\ IsFiniteSet({})
    BY <1>2, FS_EmptySet, RLConstantFacts DEF RLTypeOK
  <2>4. SlidingBounded
    BY <2>2, <2>3 DEF SlidingBounded
  <2>5. IsFiniteSet(Stored) /\ Cardinality(Stored) <= points
    BY <1>4, <2>3
  <2> QED
    BY <2>1, <2>4, <2>5 DEF SlidingInv
<1>7. FixedInv
  <2>1. \A w \in Windows : Stamped(w) = {}
    BY <1>4 DEF Stamped
  <2> QED
    BY <1>4, <2>1 DEF FixedInv, CounterInv
<1>8. TokenInv
  BY <1>4 DEF TokenInv
<1>9. RefusalInv
  <2>1. \A r \in Caller : last # r
    BY RLConstantFacts, RateLimitAssumption DEF RLInit
  <2> QED
    BY <2>1 DEF RefusalInv, Refused
<1> QED
  BY <1>2, <1>3, <1>5, <1>6, <1>7, <1>8, <1>9 DEF Inv

LEMMA InvStep ==
  ASSUME Setting, Inv, [RLNext]_rlVars
  PROVE  Inv'
<1>1. RLTypeOK /\ RequestsCounted /\ AdmittedInTime /\ SlidingInv /\ FixedInv /\ TokenInv /\ RefusalInv
  BY DEF Inv
<1>2. RLTypeOK' /\ RequestsCounted'
  BY <1>1, RLStepKinds
<1>3. RefusalInv'
  BY <1>1, <1>2, RefusalStep
<1> QED
  BY <1>1, <1>2, <1>3, AdmittedStep, SlidingStep, FixedStep, TokenStep DEF Inv

LEMMA GuardFollows ==
  ASSUME Inv
  PROVE  GuardHolds
BY DEF Inv, RequestsCounted, Sound, GuardHolds

\* However often its guard is bound, a request is counted by one script at most, and its
\* handler runs only if it was let pass, was skipped, or the store failed open.
THEOREM GuardKept == ASSUME Setting PROVE RLSpec => []GuardHolds
<1>1. RLInit => Inv
  BY InitInv
<1>2. Inv /\ [RLNext]_rlVars => Inv'
  BY InvStep
<1>3. Inv => GuardHolds
  BY GuardFollows
<1> QED
  BY <1>1, <1>2, <1>3, PTL DEF RLSpec

\* However late (within a second) and in whatever order the scripts of the requests run, and
\* whoever resets the key in between, none of the three algorithms lets more pass than its
\* limit says: a sliding window in any stretch, a fixed window in each, a bucket since any
\* admission; and no handler runs that was not let pass (or skipped, or the store failed open).
THEOREM LimitsKept == ASSUME Setting PROVE RLSpec => []NeverOverLimit
<1>1. RLInit => Inv
  BY InitInv
<1>2. Inv /\ [RLNext]_rlVars => Inv'
  BY InvStep
<1>3. Inv => LimitsHold
  <2> SUFFICES ASSUME Inv PROVE LimitsHold
    OBVIOUS
  <2>1. RLTypeOK /\ AdmittedInTime /\ SlidingInv /\ FixedInv /\ TokenInv
    BY DEF Inv
  <2>2. SlidingBounded
    BY <2>1 DEF SlidingInv
  <2> QED
    BY <2>1, <2>2, FixedHolds, TokenHolds DEF LimitsHold
<1>4. Inv => NeverOverLimit
  BY <1>3, GuardFollows DEF NeverOverLimit
<1> QED
  BY <1>1, <1>2, <1>4, PTL DEF RLSpec

\* Who is refused, waits as long as retryAfter says and finds that nobody else was checked in
\* between, is let pass; and what peek() says of a sliding window, or of a bucket that it
\* does not refill faster than check(), is not too good.
THEOREM AnswersKept == ASSUME Setting PROVE RLSpec => []AnswersHonest
<1>1. RLInit => Inv
  BY InitInv
<1>2. Inv /\ [RLNext]_rlVars => Inv'
  BY InvStep
<1>3. Inv => AnswersHonest
  BY RetryHolds, PeekHolds DEF Inv, AnswersHonest
<1> QED
  BY <1>1, <1>2, <1>3, PTL DEF RLSpec
================================================================================
