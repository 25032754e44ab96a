--------------------------------- MODULE Streams ---------------------------------
(* One stream with one consumer group: the consumers of StreamConsumerService, each with  *)
(* its poll loop, its claim loop and the messages it processes, retries with backoff, the  *)
(* dead letter stream and requeue(). Commands of different consumers interleave.           *)
EXTENDS Integers, FiniteSets, Sequences

CONSTANTS
  Msg, Consumer, None,
  Poison,        \* messages whose entry cannot be parsed
  Failing,       \* messages whose handler may throw or reject
  Mortal,        \* consumers that may be stopped or die
  BatchSize, Concurrency, MaxRetries,
  DlqEnabled,
  Faults,        \* BOUND: failed commands
  Crashes,       \* BOUND
  Slow,          \* BOUND: times claimIdleTimeout passes with an entry in process
  Requeues,      \* BOUND: calls of requeue()
  Mishaps        \* BOUND: all of these together

ASSUME StreamsAssumption ==
  /\ Poison \cup Failing \subseteq Msg /\ Mortal \subseteq Consumer /\ None \notin Msg
  /\ BatchSize \in Nat \ {0} /\ Concurrency \in Nat \ {0} /\ MaxRetries \in Nat \ {0}
  /\ DlqEnabled \in BOOLEAN /\ Faults \in Nat /\ Crashes \in Nat /\ Slow \in Nat /\ Requeues \in Nat /\ Mishaps \in Nat

VARIABLES
  log,       \* the stream as the group sees it: entries, who holds them, and whether for long
  group,     \* the group has been created
  dlq,       \* how often each message is in the dead letter stream
  life,      \* each consumer
  poll, claim,   \* its loops: where they are, and the entries in their hands
  jobs,      \* processMessage() calls: consumer, entry, which of them, and where it is
  requeue,   \* the message requeue() has put back and not yet taken from the dead letters
  handled, failed,   \* history: how often a handler succeeded and an attempt failed
  faults, crashes, slow, requeues

budgets == <<faults, crashes, slow, requeues>>
vars == <<log, group, dlq, life, poll, claim, jobs, requeue, handled, failed, budgets>>

Id == DOMAIN log
Loop(pc) == [pc |-> pc, ids |-> {}]
MostJobs == Concurrency + BatchSize

TypeOK ==
  /\ \A i \in Id : log[i] \in [msg : Msg, att : 1..MaxRetries, by : Consumer \cup {None}, idle : BOOLEAN,
                               st : {"missed", "new", "pending", "acked"}]
  /\ group \in BOOLEAN
  /\ dlq \in [Msg -> Nat] /\ handled \in [Msg -> Nat] /\ failed \in [Msg -> Nat]
  /\ life \in [Consumer -> {"new", "up", "stopping", "gone"}]
  /\ \A c \in Consumer : /\ poll[c].pc \in {"ready", "reading", "answered", "orphan", "done"}
                         /\ claim[c].pc \in {"asleep", "awake", "ranged", "claimed", "done"}
                         /\ poll[c].ids \cup claim[c].ids \subseteq Id
  /\ \A j \in jobs : /\ j.c \in Consumer /\ j.i \in Id /\ j.n \in Nat /\ j.inner \in BOOLEAN
                     /\ j.pc \in {"run", "ack", "backoff", "bury", "drop"}
  /\ requeue \in Msg \cup {None}

Init ==
  /\ log = <<>> /\ group = FALSE /\ dlq = [m \in Msg |-> 0]
  /\ life = [c \in Consumer |-> "new"]
  /\ poll = [c \in Consumer |-> Loop("done")] /\ claim = [c \in Consumer |-> Loop("done")]
  /\ jobs = {} /\ requeue = None
  /\ handled = [m \in Msg |-> 0] /\ failed = [m \in Msg |-> 0]
  /\ faults = 0 /\ crashes = 0 /\ slow = 0 /\ requeues = 0

--------------------------------------------------------------------------------
Running(c) == life[c] = "up"
Busy(c) == Cardinality({j \in jobs : j.c = c})
First(ids, n) == {i \in ids : Cardinality({k \in ids : k < i}) < n}
InState(st) == {i \in Id : log[i].st = st}

Entry(m, att) == [msg |-> m, att |-> att, by |-> None, idle |-> FALSE, st |-> IF group THEN "new" ELSE "missed"]
Added(m, att) == Append(log, Entry(m, att))
Now(i, by, idle, st) == [msg |-> log[i].msg, att |-> log[i].att, by |-> by, idle |-> idle, st |-> st]
Given(c, ids) == [i \in Id |-> IF i \in ids THEN Now(i, c, FALSE, "pending") ELSE log[i]]
Acked(i) == [log EXCEPT ![i] = Now(i, @.by, @.idle, IF @.st = "pending" THEN "acked" ELSE @.st)]

\* processMessage() begins for each of the entries.
Copies(c, i) == {j.n : j \in {x \in jobs : x.c = c /\ x.i = i}}
Unused(c, i) == CHOOSE n \in 0..MostJobs : n \notin Copies(c, i)
Began(c, ids) == jobs \cup {[c |-> c, i |-> i, n |-> Unused(c, i), pc |-> "run", inner |-> FALSE] : i \in ids}
At(j, pc, inner) == (jobs \ {j}) \cup {[c |-> j.c, i |-> j.i, n |-> j.n, pc |-> pc, inner |-> inner]}
Goes(j, pc) == At(j, pc, j.inner)

Mishap == faults + crashes + slow + requeues < Mishaps
Faulty == Mishap /\ faults < Faults /\ faults' = faults + 1 /\ UNCHANGED <<crashes, slow, requeues>>

\* publish(): each message once.
Publish(m) ==
  /\ \A i \in Id : log[i].msg # m
  /\ log' = Added(m, 1)
  /\ UNCHANGED <<group, dlq, life, poll, claim, jobs, requeue, handled, failed, budgets>>

\* createGroup(): the group gets all that is there.
CreateGroup ==
  /\ ~group /\ group' = TRUE
  /\ log' = [i \in Id |-> Now(i, log[i].by, log[i].idle, "new")]
  /\ UNCHANGED <<dlq, life, poll, claim, jobs, requeue, handled, failed, budgets>>

\* consume(): without a group one is created at '$', after what is there; the loops start.
Start(c) ==
  /\ life[c] = "new" /\ group' = TRUE
  /\ life' = [life EXCEPT ![c] = "up"]
  /\ poll' = [poll EXCEPT ![c] = Loop("ready")] /\ claim' = [claim EXCEPT ![c] = Loop("asleep")]
  /\ UNCHANGED <<log, dlq, jobs, requeue, handled, failed, budgets>>

--------------------------------------------------------------------------------
\* poll(): waits for a slot, reads a batch, processes all of it.
SlotIgnored(c) == TRUE
SlotFree(c) == Busy(c) < Concurrency

PollVars == <<group, dlq, life, claim, requeue, handled, failed>>
Read(c) ==
  /\ poll[c].pc = "ready" /\ Running(c) /\ SlotFree(c)
  /\ poll' = [poll EXCEPT ![c] = Loop("reading")]
  /\ UNCHANGED <<log, jobs, PollVars, budgets>>

ReadExec(c) ==
  LET ids == First(InState("new"), BatchSize)
  IN /\ poll[c].pc \in {"reading", "orphan"} /\ ids # {}
     /\ log' = Given(c, ids)
     /\ poll' = [poll EXCEPT ![c] = IF poll[c].pc = "orphan" THEN Loop("done") ELSE [pc |-> "answered", ids |-> ids]]
     /\ UNCHANGED <<jobs, PollVars, budgets>>

\* blockTimeout passes without an entry.
ReadNothing(c) ==
  /\ poll[c].pc = "reading" /\ Running(c) /\ InState("new") = {}
  /\ poll' = [poll EXCEPT ![c] = Loop("ready")]
  /\ UNCHANGED <<log, jobs, PollVars, budgets>>

\* The error of a closing connection ends the loop, even of a consumer that runs.
ReadFails(c) ==
  /\ poll[c].pc \in {"reading", "answered"} /\ Faulty
  /\ \E pc \in {"ready", "done"} : poll' = [poll EXCEPT ![c] = Loop(pc)]
  /\ UNCHANGED <<log, jobs, PollVars>>

Deliver(c) ==
  /\ poll[c].pc = "answered" /\ Running(c)
  /\ jobs' = Began(c, poll[c].ids)
  /\ poll' = [poll EXCEPT ![c] = Loop("ready")]
  /\ UNCHANGED <<log, PollVars, budgets>>

\* The shutdown signal wins the race with XREADGROUP, which Redis may execute all the same.
PollEnds(c) ==
  /\ life[c] = "stopping" /\ poll[c].pc \in {"ready", "reading", "answered"}
  /\ poll' = [poll EXCEPT ![c] = Loop(IF poll[c].pc = "reading" THEN "orphan" ELSE "done")]
  /\ UNCHANGED <<log, jobs, PollVars, budgets>>

--------------------------------------------------------------------------------
\* claimLoop(): every claimIdleTimeout, the idle ones of the first pending entries.
IdleIgnored(i) == TRUE
Idle(i) == log[i].idle
ScannedShort == First(InState("pending"), BatchSize - 1)
Scanned == First(InState("pending"), BatchSize)

ClaimVars == <<group, dlq, life, poll, requeue, handled, failed>>
Scan(c) ==
  LET ids == {i \in Scanned : Idle(i)}
  IN /\ claim[c].pc = "awake"
     /\ claim' = [claim EXCEPT ![c] = IF ids = {} THEN Loop("asleep") ELSE [pc |-> "ranged", ids |-> ids]]
     /\ UNCHANGED <<log, jobs, ClaimVars, budgets>>

Claimable(c) == {i \in claim[c].ids : log[i].st = "pending" /\ Idle(i)}
ClaimExec(c) ==
  LET ids == Claimable(c)
  IN /\ claim[c].pc = "ranged"
     /\ log' = Given(c, ids)
     /\ claim' = [claim EXCEPT ![c] = IF ids = {} THEN Loop("asleep") ELSE [pc |-> "claimed", ids |-> ids]]
     /\ UNCHANGED <<jobs, ClaimVars, budgets>>

Spawn(c) ==
  LET first == First(claim[c].ids, 1)  rest == claim[c].ids \ first
  IN /\ claim[c].pc = "claimed" /\ Running(c) /\ Busy(c) < Concurrency
     /\ jobs' = Began(c, first)
     /\ claim' = [claim EXCEPT ![c] = IF rest = {} THEN Loop("asleep") ELSE [pc |-> "claimed", ids |-> rest]]
     /\ UNCHANGED <<log, ClaimVars, budgets>>

\* XPENDING or XCLAIM fails, executed or not; a closing connection ends the loop.
ClaimFails(c) ==
  /\ claim[c].pc \in {"awake", "ranged"} /\ Faulty
  /\ log' \in {log, Given(c, Claimable(c))}
  /\ \E pc \in {"asleep", "done"} : claim' = [claim EXCEPT ![c] = Loop(pc)]
  /\ UNCHANGED <<jobs, ClaimVars>>

ClaimEnds(c) ==
  /\ life[c] = "stopping" /\ claim[c].pc \in {"asleep", "claimed"}
  /\ claim' = [claim EXCEPT ![c] = Loop("done")]
  /\ UNCHANGED <<log, jobs, ClaimVars, budgets>>

--------------------------------------------------------------------------------
\* processMessage() and handleFailure().
JobVars == <<group, life, poll, claim, requeue>>
LastAttemptEarly(i) == log[i].att >= MaxRetries - 1
LastAttemptLate(i) == log[i].att > MaxRetries
LastAttempt(i) == log[i].att >= MaxRetries
AfterFailure(i) == IF LastAttempt(i) THEN "bury" ELSE "backoff"
Handled(j) == handled' = [handled EXCEPT ![log[j.i].msg] = @ + 1]
Failed(j) == failed' = [failed EXCEPT ![log[j.i].msg] = @ + 1]

\* JSON.parse throws, and throws again on the way to handleFailure(): the entry stays pending.
Unreadable(j) ==
  /\ j.pc = "run" /\ log[j.i].msg \in Poison
  /\ jobs' = jobs \ {j}
  /\ UNCHANGED <<log, dlq, JobVars, handled, failed, budgets>>

Succeeds(j) ==
  /\ j.pc = "run" /\ log[j.i].msg \notin Poison
  /\ jobs' = Goes(j, "ack") /\ Handled(j)
  /\ UNCHANGED <<log, dlq, JobVars, failed, budgets>>

\* A failure while the consumer stops is left to the pending entries list.
Throws(j) ==
  /\ j.pc = "run" /\ log[j.i].msg \in Failing \ Poison
  /\ jobs' = IF Running(j.c) THEN Goes(j, AfterFailure(j.i)) ELSE jobs \ {j}
  /\ Failed(j)
  /\ UNCHANGED <<log, dlq, JobVars, handled, budgets>>

\* It throws the error of a closing connection, its own or this one: not counted.
LosesConnection(j) ==
  /\ j.pc = "run" /\ log[j.i].msg \notin Poison /\ Faulty
  /\ jobs' = jobs \ {j}
  /\ UNCHANGED <<log, dlq, JobVars, handled, failed>>

\* The handler calls message.reject() and, when that is done, returns.
Rejects(j) ==
  /\ j.pc = "run" /\ log[j.i].msg \in Failing \ Poison
  /\ jobs' = At(j, AfterFailure(j.i), TRUE)
  /\ Failed(j)
  /\ UNCHANGED <<log, dlq, JobVars, handled, budgets>>

Ack(j) ==
  /\ j.pc = "ack"
  /\ log' = Acked(j.i) /\ jobs' = jobs \ {j}
  /\ UNCHANGED <<dlq, JobVars, handled, failed, budgets>>

\* The sleep is over, or cut short by the shutdown.
Readd(j) ==
  /\ j.pc = "backoff"
  /\ log' = Added(log[j.i].msg, log[j.i].att + 1)
  /\ jobs' = Goes(j, "drop")
  /\ UNCHANGED <<dlq, JobVars, handled, failed, budgets>>

Buried(j) == IF DlqEnabled THEN [dlq EXCEPT ![log[j.i].msg] = @ + 1] ELSE dlq
Bury(j) ==
  /\ j.pc = "bury"
  /\ dlq' = Buried(j) /\ jobs' = Goes(j, "drop")
  /\ UNCHANGED <<log, JobVars, handled, failed, budgets>>

Drop(j) ==
  /\ j.pc = "drop"
  /\ log' = Acked(j.i)
  /\ jobs' = IF j.inner THEN Goes(j, "ack") ELSE jobs \ {j}
  /\ UNCHANGED <<dlq, JobVars, handled, failed, budgets>>

\* A command of processMessage() fails, executed or not. An error of a closing connection,
\* or while the consumer stops, ends it; another one is a failure of the message.
FailsAgain(j) ==
  \/ jobs' = jobs \ {j} /\ UNCHANGED failed
  \/ /\ Running(j.c) /\ Failed(j)
     /\ jobs' = At(j, AfterFailure(j.i), FALSE)

AckFails(j) ==
  /\ j.pc = "ack" /\ Faulty /\ FailsAgain(j)
  /\ log' \in {log, Acked(j.i)}
  /\ UNCHANGED <<dlq, JobVars, handled>>

\* Out of handleFailure() an error is logged, unless it was called by the handler.
IgnoresFailure(j) == Goes(j, "drop")
GivesUp(j) == jobs \ {j}
FailureFails(j) ==
  /\ j.pc \in {"backoff", "bury", "drop"} /\ Faulty
  /\ \/ UNCHANGED <<log, dlq>>
     \/ j.pc = "backoff" /\ log' = Added(log[j.i].msg, log[j.i].att + 1) /\ UNCHANGED dlq
     \/ j.pc = "bury" /\ dlq' = Buried(j) /\ UNCHANGED log
     \/ j.pc = "drop" /\ log' = Acked(j.i) /\ UNCHANGED dlq
  /\ \/ j.inner /\ FailsAgain(j)
     \/ ~j.inner /\ jobs' = GivesUp(j) /\ UNCHANGED failed
  /\ UNCHANGED <<JobVars, handled>>

--------------------------------------------------------------------------------
\* stop(), onApplicationShutdown(): done when the loops have ended and no message is in
\* process. When the time for that is over the process ends as in a crash.
Stop(c) ==
  /\ c \in Mortal /\ life[c] = "up"
  /\ life' = [life EXCEPT ![c] = "stopping"]
  /\ UNCHANGED <<log, group, dlq, poll, claim, jobs, requeue, handled, failed, budgets>>

Gone(c) ==
  /\ life' = [life EXCEPT ![c] = "gone"]
  /\ claim' = [claim EXCEPT ![c] = Loop("done")]
  /\ jobs' = {j \in jobs : j.c # c}
  /\ UNCHANGED <<log, group, dlq, requeue, handled, failed>>

Drained(c) ==
  /\ life[c] = "stopping" /\ Busy(c) = 0
  /\ poll[c].pc \in {"orphan", "done"} /\ claim[c].pc = "done"
  /\ Gone(c) /\ UNCHANGED <<poll, budgets>>

Crash(c) ==
  /\ c \in Mortal /\ life[c] \in {"up", "stopping"} /\ Gone(c)
  /\ poll' = [poll EXCEPT ![c] = Loop("done")]
  /\ Mishap /\ crashes < Crashes /\ crashes' = crashes + 1 /\ UNCHANGED <<faults, slow, requeues>>

\* requeue(): XADD to the stream, then XDEL from the dead letters, which may fail.
Requeue(m) ==
  /\ requeue = None /\ dlq[m] > 0
  /\ Mishap /\ requeues < Requeues /\ requeues' = requeues + 1 /\ UNCHANGED <<faults, crashes, slow>>
  /\ log' = Added(m, 1) /\ requeue' = m
  /\ UNCHANGED <<group, dlq, life, poll, claim, jobs, handled, failed>>

RequeueDel(m) ==
  /\ requeue = m /\ requeue' = None
  /\ dlq' = [dlq EXCEPT ![m] = @ - 1]
  /\ UNCHANGED <<log, group, life, poll, claim, jobs, handled, failed, budgets>>

RequeueFails(m) ==
  /\ requeue = m /\ requeue' = None
  /\ UNCHANGED <<log, group, dlq, life, poll, claim, jobs, handled, failed, budgets>>

\* claimIdleTimeout passes: what is pending has been idle for so long, the claim loops wake.
InProcess(i) ==
  \/ \E j \in jobs : j.i = i
  \/ \E c \in Consumer : i \in poll[c].ids \/ (claim[c].pc = "claimed" /\ i \in claim[c].ids)

Tick ==
  /\ IF \E i \in InState("pending") : InProcess(i) THEN Mishap /\ slow < Slow /\ slow' = slow + 1 ELSE UNCHANGED slow
  /\ log' = [i \in Id |-> Now(i, log[i].by, log[i].st = "pending", log[i].st)]
  /\ claim' = [c \in Consumer |-> IF claim[c].pc = "asleep" /\ Running(c) THEN Loop("awake") ELSE claim[c]]
  /\ UNCHANGED <<group, dlq, life, poll, jobs, requeue, handled, failed, faults, crashes, requeues>>

PollStep(c) == Read(c) \/ ReadExec(c) \/ ReadNothing(c) \/ Deliver(c) \/ PollEnds(c)
ClaimStep(c) == Scan(c) \/ ClaimExec(c) \/ Spawn(c) \/ ClaimEnds(c)
JobStep(j) == Unreadable(j) \/ Succeeds(j) \/ Throws(j) \/ Rejects(j) \/ Ack(j) \/ Readd(j) \/ Bury(j) \/ Drop(j)

Next ==
  \/ \E m \in Msg : Publish(m) \/ Requeue(m) \/ RequeueDel(m) \/ RequeueFails(m)
  \/ \E c \in Consumer : \/ Start(c) \/ PollStep(c) \/ ClaimStep(c) \/ ReadFails(c) \/ ClaimFails(c)
                         \/ Stop(c) \/ Drained(c) \/ Crash(c)
  \/ \E j \in jobs : JobStep(j) \/ AckFails(j) \/ FailureFails(j) \/ LosesConnection(j)
  \/ CreateGroup \/ Tick

Spec == Init /\ [][Next]_vars

\* Handlers return, Redis answers and timers fire; nothing makes anyone publish or stop.
\* poll() looks for a free slot every 10 ms: it does not miss each of many free moments.
Fairness ==
  /\ \A c \in Consumer : /\ WF_vars(Start(c)) /\ SF_vars(PollStep(c)) /\ WF_vars(ClaimStep(c))
                         /\ \A m \in Msg : WF_vars(\E j \in jobs : j.c = c /\ log[j.i].msg = m /\ JobStep(j))
  /\ WF_vars(Tick)

FairSpec == Spec /\ Fairness

--------------------------------------------------------------------------------
Reached(m) == \E i \in Id : log[i].msg = m /\ log[i].st # "missed"

\* At-least-once (concepts.md): a message the group was there for has been handled, is a
\* dead letter, or is still to be delivered or acknowledged, whatever failed or died.
NothingLost ==
  DlqEnabled => \A m \in Msg : Reached(m) =>
    \/ handled[m] > 0 \/ dlq[m] > 0
    \/ \E i \in Id : log[i].msg = m /\ log[i].st \in {"new", "pending"}

\* While no command fails, nobody dies and no message is in process for claimIdleTimeout,
\* none is handled twice, stops and claims of abandoned entries included.
OnceWhenCalm ==
  faults + crashes + slow + requeues = 0 => \A m \in Msg : handled[m] <= 1

\* A consumer has at most a batch more in process than its concurrency.
ProcessingBounded == \A c \in Consumer : Busy(c) <= MostJobs

\* A message is a dead letter only after maxRetries attempts of it failed.
DeadLettersEarned == \A m \in Msg : dlq[m] > 0 => failed[m] >= MaxRetries

\* As long as one consumer stays, every readable message is handled or becomes a dead
\* letter, those too that a consumer died with (consumer-instance.ts:122-124).
EventuallySettled ==
  DlqEnabled => \A m \in Msg \ Poison : Reached(m) ~> handled[m] > 0 \/ dlq[m] > 0

\* What is checked as one: no message is lost, or given up before its time ...
MessagesKept == TypeOK /\ NothingLost /\ DeadLettersEarned

\* ... and none is handled more often, or more of them at a time, than it should be.
WorkBounded == OnceWhenCalm /\ ProcessingBounded
================================================================================
