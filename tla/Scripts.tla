---------------------------------- MODULE Scripts ----------------------------------
(* scriptLoad() and evalsha() of BaseRedisDriver: Redis forgets its scripts when it restarts *)
(* or is flushed, the driver remembers those it loaded and sends their source instead. The   *)
(* stores of the plugins load their scripts once and call them by their hash.                *)
EXTENDS Integers, FiniteSets

CONSTANTS
  Script, Caller, None,
  Faults     \* BOUND: connections lost while a command is under way

VARIABLES
  driver,    \* "ioredis" sends a command again when its connection is lost, "node-redis" fails it
  cached,    \* the scripts Redis knows
  registry,  \* scriptRegistry
  call,      \* each evalsha(): where it is, its script, whether it was loaded by this driver
  ran,       \* history: how often the script ran for the call
  lost,      \* history: whether a connection was lost meanwhile
  faults

vars == <<driver, cached, registry, call, ran, lost, faults>>

Init ==
  /\ driver \in {"ioredis", "node-redis"} /\ cached \in SUBSET Script /\ registry = {}
  /\ call = [c \in Caller |-> [pc |-> "idle", script |-> None, loaded |-> FALSE]]
  /\ ran = [c \in Caller |-> 0] /\ lost = [c \in Caller |-> FALSE] /\ faults = 0

\* scriptLoad()
Load(s) ==
  /\ cached' = cached \cup {s} /\ registry' = registry \cup {s}
  /\ UNCHANGED <<driver, call, ran, lost, faults>>

\* A restart, a failover or SCRIPT FLUSH.
Flush == cached' = {} /\ UNCHANGED <<driver, registry, call, ran, lost, faults>>

\* A hash that another process loaded does as well.
EvalSha(c, s) ==
  /\ call[c].pc = "idle"
  /\ call' = [call EXCEPT ![c] = [pc |-> "evalsha", script |-> s, loaded |-> s \in registry]]
  /\ ran' = [ran EXCEPT ![c] = 0] /\ lost' = [lost EXCEPT ![c] = FALSE]
  /\ UNCHANGED <<driver, cached, registry, faults>>

At(c, pc) == [call EXCEPT ![c].pc = pc]
Runs(c) ==
  /\ ran' = [ran EXCEPT ![c] = @ + 1]
  /\ cached' = cached \cup {call[c].script}

Executed(c) ==
  \/ /\ call[c].pc = "evalsha" /\ call[c].script \in cached
     /\ Runs(c)
  \/ call[c].pc = "eval" /\ Runs(c)

\* The answer to EVALSHA or EVAL.
Answer(c) ==
  /\ Executed(c) /\ call' = At(c, "ok")
  /\ UNCHANGED <<driver, registry, lost, faults>>

\* isNoscriptError(): the fallback sends the source, if it has it.
Source(c) == IF call[c].script \in registry THEN "eval" ELSE "failed"
NoScript(c) ==
  /\ call[c].pc = "evalsha" /\ call[c].script \notin cached
  /\ call' = At(c, Source(c))
  /\ UNCHANGED <<driver, cached, registry, ran, lost, faults>>

\* The connection is lost with the command or with its answer.
AfterLossFallsBack(c) ==
  IF driver = "node-redis" /\ call[c].pc = "evalsha" THEN At(c, Source(c)) ELSE IF driver = "node-redis" THEN At(c, "failed") ELSE call
AfterLoss(c) == IF driver = "node-redis" THEN At(c, "failed") ELSE call
Loses(c) ==
  /\ call[c].pc \in {"evalsha", "eval"} /\ faults < Faults /\ faults' = faults + 1
  /\ \/ Executed(c)
     \/ UNCHANGED <<ran, cached>>
  /\ call' = AfterLoss(c) /\ lost' = [lost EXCEPT ![c] = TRUE]
  /\ UNCHANGED <<driver, registry>>

Again(c) ==
  /\ call[c].pc \in {"ok", "failed"} /\ call' = At(c, "idle")
  /\ UNCHANGED <<driver, cached, registry, ran, lost, faults>>

Next ==
  \/ \E s \in Script : Load(s)
  \/ \E c \in Caller : (\E s \in Script : EvalSha(c, s)) \/ Answer(c) \/ NoScript(c) \/ Loses(c) \/ Again(c)
  \/ Flush

Spec == Init /\ [][Next]_vars

--------------------------------------------------------------------------------
\* A script that this driver loaded runs when it is called, however often Redis forgets it, and
\* once: a call that failed for another reason than NOSCRIPT is not sent again by the driver
\* (base.driver.ts:1310-1330). Only ioredis itself repeats a command whose connection is lost.
RunsOnce ==
  \A c \in Caller :
    /\ call[c].pc = "ok" => ran[c] >= 1
    /\ call[c].loaded /\ ~lost[c] => call[c].pc # "failed"
    /\ ran[c] <= IF driver = "ioredis" /\ lost[c] THEN 1 + faults ELSE 1
====================================================================================
