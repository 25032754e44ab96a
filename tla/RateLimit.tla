-------------------------------- MODULE RateLimit --------------------------------
(* One key of RateLimitService: the guards of the requests that are counted under it, the *)
(* three scripts, peek() and reset(). A check takes its time stamp when it is sent; Redis  *)
(* executes the script up to Lag later, and scripts of several requests in any order.      *)
EXTENDS Integers, FiniteSets, Sequences

CONSTANTS
  Caller, None,
  Algorithms,            \* of "fixed", "sliding", "token"
  Policies,              \* errorPolicy: of "open", "closed"
  Limits, Duration,      \* points, or capacity, and the window in seconds
  Rate, PeekRate, Per,   \* tokens in Per seconds that check() and peek() go by
  S,                     \* units of time in a second
  Lag,                   \* BOUND: how late a script runs
  Bindings,              \* how often the guard is bound to the route
  MaxTime, Faults, Resets   \* BOUNDS

ASSUME RateLimitAssumption ==
  /\ Caller \subseteq Nat
  /\ Algorithms \subseteq {"fixed", "sliding", "token"} /\ Policies \subseteq {"open", "closed"}
  /\ Limits \subseteq Nat \ {0} /\ Duration \in Nat \ {0} /\ S \in Nat \ {0}
  /\ Rate \in Nat \ {0} /\ PeekRate \in Nat \ {0} /\ Per \in Nat \ {0}
  /\ Lag \in Nat /\ Bindings \in Nat \ {0} /\ MaxTime \in Nat /\ Faults \in Nat /\ Resets \in Nat
  /\ None \notin Nat /\ None \notin [tokens : Int, last : Nat]

VARIABLES
  alg, policy, points,   \* the configuration
  time,
  windows,         \* fixed window: the counters, by the second their window starts
  entries,         \* sliding window: the stamps of the sorted set, by request
  bucket,          \* token bucket: tokens (in parts of One) and last_refill
  expiry,          \* of the sorted set or the hash
  req,             \* each request: where it is in its guards
  admitted,        \* history: what the scripts let pass, in the order they ran, since a reset
  last,            \* history: the request whose script ran last
  errors, resets

store == <<windows, entries, bucket, expiry>>
config == <<alg, policy, points>>
rlVars == <<config, time, store, req, admitted, last, errors, resets>>

Span == Duration * S
Windows == {w * Duration : w \in 0..(MaxTime \div Span)}
Max0(n) == IF n < 0 THEN 0 ELSE n
Least(a, b) == IF a < b THEN a ELSE b
Floor(n, d) == n \div d
Ceil(n, d) == (n + d - 1) \div d

Requests ==
  [pc : {"guard", "sent", "executed", "runs", "refused", "failed"}, left : 0..Bindings, skip : BOOLEAN,
   marked : BOOLEAN, stamp : 0..MaxTime, ok : BOOLEAN, retry : Int, ran : Nat, error : BOOLEAN]
Admissions == [stamp : 0..MaxTime, at : 0..MaxTime]

RLTypeOK ==
  /\ alg \in Algorithms /\ policy \in Policies /\ points \in Limits /\ time \in 0..MaxTime
  /\ windows \in [Windows -> [n : Nat, exp : Nat]]
  /\ entries \in [Caller -> 0..MaxTime \cup {None}]
  /\ bucket \in [tokens : Int, last : 0..MaxTime] \cup {None}
  /\ expiry \in Nat
  /\ req \in [Caller -> Requests]
  /\ admitted \in Seq(Admissions)
  /\ last \in Caller \cup {None}

RLInit ==
  /\ alg \in Algorithms /\ policy \in Policies /\ points \in Limits /\ time = 0
  /\ windows = [w \in Windows |-> [n |-> 0, exp |-> 0]]
  /\ entries = [r \in Caller |-> None] /\ bucket = None /\ expiry = 0
  /\ req = [r \in Caller |-> [pc |-> "guard", left |-> Bindings, skip |-> FALSE, marked |-> FALSE, stamp |-> 0,
                           ok |-> FALSE, retry |-> 0, ran |-> 0, error |-> FALSE]]
  /\ admitted = <<>> /\ last = None /\ errors = 0 /\ resets = 0

--------------------------------------------------------------------------------
(* The scripts, with the stamp now; each gives its answer and what it leaves.              *)
WindowOf(now) == (now \div S) - ((now \div S) % Duration)
Counted(w) == IF time < windows[w].exp THEN windows[w].n ELSE 0
FixedAnswer(now) ==
  LET current == Counted(WindowOf(now)) + 1
  IN [ok |-> current <= points, current |-> current, remaining |-> Max0(points - current), retry |-> 0]

Recent(now) == {r \in Caller : entries[r] # None /\ time < expiry /\ entries[r] > now - Span}
RoomForOneMore(current) == current <= points
Room(current) == current < points
Oldest(now) == CHOOSE t \in {entries[r] : r \in Recent(now)} : \A r \in Recent(now) : t <= entries[r]
SlidingAnswer(now) ==
  LET current == Cardinality(Recent(now))
  IN IF Room(current)
     THEN [ok |-> TRUE, current |-> current + 1, remaining |-> points - current - 1, retry |-> 0]
     ELSE [ok |-> FALSE, current |-> current, remaining |-> 0, retry |-> Max0(Ceil(Oldest(now) + Span - now, S))]

One == Per * S             \* a token, in the parts that are refilled in a unit of time
Full == points * One
BucketSlack == S
Held == IF bucket # None /\ time < expiry THEN bucket ELSE None
Refilled(now) == IF Held = None THEN Full ELSE Least(Full, Held.tokens + (now - Held.last) * Rate)
TokenAnswer(now) ==
  LET tokens == Refilled(now)
  IN [ok |-> tokens >= One, current |-> tokens \div One,
      remaining |-> (IF tokens >= One THEN tokens - One ELSE tokens) \div One,
      retry |-> IF tokens >= One THEN 0 ELSE Ceil(One - tokens, Rate * S)]

Answer(now) ==
  CASE alg = "fixed" -> FixedAnswer(now) [] alg = "sliding" -> SlidingAnswer(now) [] alg = "token" -> TokenAnswer(now)

FixedWindow(now) ==
  LET w == WindowOf(now)
  IN /\ alg = "fixed"
     /\ windows' = [windows EXCEPT ![w] = [n |-> Counted(w) + 1, exp |-> IF Counted(w) = 0 THEN time + Span ELSE @.exp]]
     /\ UNCHANGED <<entries, bucket, expiry>>

SlidingWindow(r, now) ==
  LET kept == [q \in Caller |-> IF q \in Recent(now) THEN entries[q] ELSE None]
  IN /\ alg = "sliding"
     /\ entries' = IF SlidingAnswer(now).ok THEN [kept EXCEPT ![r] = now] ELSE kept
     /\ expiry' = IF SlidingAnswer(now).ok THEN time + Span ELSE expiry
     /\ UNCHANGED <<windows, bucket>>

TokenBucket(now) ==
  /\ alg = "token"
  /\ bucket' = [tokens |-> Refilled(now) - (IF TokenAnswer(now).ok THEN One ELSE 0), last |-> now]
  /\ expiry' = time + Ceil(Full, Rate) + BucketSlack
  /\ UNCHANGED <<windows, entries>>

Script(r, now) == FixedWindow(now) \/ SlidingWindow(r, now) \/ TokenBucket(now)

--------------------------------------------------------------------------------
\* canActivate(): a later binding lets a request that was marked pass at once.
NeverMarked(r) == FALSE
Marked(r) == req[r].marked
Passed(r) == [req[r] EXCEPT !.left = @ - 1, !.pc = IF req[r].left = 1 \/ Marked(r) THEN "runs" ELSE "guard"]

\* Requests are told apart by nothing but their order: they come in that of their numbers.
AtGuard(r) == req[r].pc = "guard" /\ \A q \in Caller : q < r => req[q].pc # "guard" \/ req[q].marked

\* shouldSkip() says so at every binding. (A binding that skips leaves no trace: when another
\* one checks, the request is as if it had been the first.)
Skip(r) ==
  /\ AtGuard(r)
  /\ req' = [req EXCEPT ![r].pc = "runs", ![r].skip = TRUE]
  /\ UNCHANGED <<config, time, store, admitted, last, errors, resets>>

\* Otherwise it is marked and checked; the check takes its stamp.
Check(r) ==
  /\ AtGuard(r)
  /\ req' = [req EXCEPT ![r].pc = "sent", ![r].marked = TRUE, ![r].stamp = time]
  /\ UNCHANGED <<config, time, store, admitted, last, errors, resets>>

\* extractKey() finds no user or API key.
NoKey(r) ==
  /\ AtGuard(r)
  /\ req' = [req EXCEPT ![r].pc = "failed", ![r].marked = TRUE]
  /\ UNCHANGED <<config, time, store, admitted, last, errors, resets>>

Executes(r) ==
  LET now == req[r].stamp  answer == Answer(now)
  IN /\ Script(r, now) /\ last' = r
     /\ admitted' = IF answer.ok THEN Append(admitted, [stamp |-> now, at |-> time]) ELSE admitted

\* EVALSHA, or EVAL with the same stamp when the script is not loaded.
Execute(r) ==
  LET answer == Answer(req[r].stamp)
  IN /\ req[r].pc = "sent" /\ Executes(r)
     /\ req' = [req EXCEPT ![r].pc = "executed", ![r].ok = answer.ok, ![r].retry = answer.retry, ![r].ran = @ + 1]
     /\ UNCHANGED <<config, time, errors, resets>>

\* The answer arrives: a fixed window's retryAfter is counted from now.
RetryAfter(r) ==
  IF alg = "fixed" THEN Ceil((WindowOf(req[r].stamp) + Duration) * S - time, S) ELSE req[r].retry

Decide(r) ==
  /\ req[r].pc = "executed"
  /\ req' = [req EXCEPT ![r] = IF req[r].ok THEN Passed(r) ELSE [@ EXCEPT !.pc = "refused", !.stamp = time, !.retry = RetryAfter(r)]]
  /\ UNCHANGED <<config, time, store, admitted, last, errors, resets>>

\* handleError(): the command failed, executed or not.
OnError(r, ran) ==
  IF policy = "open" THEN [Passed(r) EXCEPT !.error = TRUE, !.ran = ran] ELSE [req[r] EXCEPT !.pc = "failed", !.ran = ran]

CheckFails(r) ==
  /\ req[r].pc = "sent" /\ errors < Faults /\ errors' = errors + 1
  /\ \/ req' = [req EXCEPT ![r] = OnError(r, @.ran)] /\ UNCHANGED <<store, admitted, last>>
     \/ req' = [req EXCEPT ![r] = OnError(r, @.ran + 1)] /\ Executes(r)
  /\ UNCHANGED <<config, time, resets>>

\* reset(): DEL of the key of each algorithm; the counters of a fixed window have other keys.
Reset ==
  /\ resets < Resets /\ resets' = resets + 1
  /\ entries' = [r \in Caller |-> None] /\ bucket' = None
  /\ admitted' = <<>> /\ last' = None
  /\ UNCHANGED <<config, time, windows, expiry, req, errors>>

\* peek(): reads without consuming. For a fixed window it reads `${key}:${window}`, a key
\* the script, which counts under `{${key}}:${window}`, never writes. For a bucket that is given
\* neither refillRate nor duration it goes by another rate than check().
OtherKey == 0
Logged == IF time < expiry THEN Cardinality({r \in Caller : entries[r] # None}) ELSE 0
Peek ==
  LET fixed == OtherKey
      tokens == IF Held = None THEN Full ELSE Least(Full, Held.tokens + Max0(time - Held.last) * PeekRate)
  IN CASE alg = "fixed" -> [ok |-> fixed < points, remaining |-> Max0(points - fixed)]
       [] alg = "sliding" -> [ok |-> Logged < points, remaining |-> Max0(points - Logged)]
       [] alg = "token" -> [ok |-> tokens >= One, remaining |-> tokens \div One]

TimePasses ==
  /\ time < MaxTime /\ time' = time + 1
  /\ \A r \in Caller : req[r].pc = "sent" => time - req[r].stamp < Lag
  /\ UNCHANGED <<config, store, req, admitted, last, errors, resets>>

RLNext ==
  \/ \E r \in Caller : Skip(r) \/ Check(r) \/ NoKey(r) \/ Execute(r) \/ Decide(r) \/ CheckFails(r)
  \/ Reset \/ TimePasses

RLSpec == RLInit /\ [][RLNext]_rlVars

--------------------------------------------------------------------------------
Within(from, to) == {i \in DOMAIN admitted : admitted[i].stamp > from /\ admitted[i].stamp <= to}

\* A sliding window lets at most points requests pass in any Duration; scripts that run late
\* shorten the stretch for which that is so by as much as they may be late.
SlidingBounded ==
  alg = "sliding" => \A t \in 0..MaxTime : Cardinality(Within(t - (Span - Lag), t)) <= points

\* A fixed window lets at most points of those pass that are stamped and executed in it. A
\* script that runs after it may find its counter expired and begin another one.
FixedBounded ==
  alg = "fixed" => \A w \in Windows :
    LET stamped == {i \in DOMAIN admitted : WindowOf(admitted[i].stamp) = w}
    IN /\ Cardinality({i \in stamped : WindowOf(admitted[i].at) = w}) <= points
       /\ Cardinality(stamped) <= 2 * points

\* Between any two requests a token bucket lets pass no more than it holds and refills,
\* whatever order the scripts ran in and however often the idle bucket expired.
TokenBounded ==
  alg = "token" => \A i, j \in DOMAIN admitted : i < j =>
    (j - i + 1) * One <= Full + Rate * (admitted[j].stamp - admitted[i].stamp)

\* The limits the three algorithms keep (the scripts run late and in any order).
LimitsHold == SlidingBounded /\ FixedBounded /\ TokenBounded

\* However often the guard is bound, a request is counted once at most (rate-limit.guard.ts:33)
\* and reaches its handler only when it was let pass, skipped, or the store failed open.
GuardHolds ==
  RLTypeOK /\ \A r \in Caller :
    /\ req[r].ran <= 1
    /\ req[r].pc = "runs" => req[r].skip \/ req[r].ok \/ (req[r].error /\ policy = "open")

\* No more requests reach their handlers than the limits say: each is counted, and once.
NeverOverLimit == LimitsHold /\ GuardHolds

\* Who is refused, waits as long as retryAfter says and finds that nobody else was checked
\* in between, is let pass. (The answer of a script that ran after its window says 0 or less.)
RetryHonest ==
  \A r \in Caller :
    (last = r /\ req[r].pc = "refused" /\ req[r].retry > 0 /\ time >= req[r].stamp + req[r].retry * S) => Answer(time).ok

\* peek() is accurate (service-api.md): it allows what a check would allow.
PeekAccurate == Peek.ok => Answer(time).ok

\* What peek() says of a sliding window or a bucket is not too good: a check that follows at
\* once passes, and leaves no less than what it said remained, but one.
PeekSafe ==
  alg = "sliding" \/ (alg = "token" /\ PeekRate <= Rate) => (Peek.ok => Answer(time).ok /\ Answer(time).remaining + 1 >= Peek.remaining)

\* What the service tells its callers is as good as it says.
AnswersHonest == RetryHonest /\ PeekSafe
================================================================================
