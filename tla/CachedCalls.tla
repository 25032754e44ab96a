------------------------------- MODULE CachedCalls -------------------------------
(* Methods wrapped by the cache decorators around one piece of data and its cache entry:     *)
(* @Cached and @Cacheable read through the cache, @InvalidateTags, @InvalidateOn and         *)
(* @CacheEvict remove the entry around a method that changes the data, @CachePut stores what *)
(* it returned. Some of that happens after the caller has its answer. Redis may be away.     *)
EXTENDS Integers, FiniteSets

CONSTANTS
  DecoratedCall, Absent,
  Kinds,       \* the decorators of the method each call may be to
  MaxVersion,  \* BOUND: changes of the data
  MaxErrors    \* BOUND: errors of methods, and interruptions of the connection

ASSUME DecoratorsAssumption == Absent \notin {"value", "Cached", "Cacheable"}

VARIABLES
  stampede,    \* whether stampede protection is on
  db,          \* the version of the data
  stored,      \* the version the cache holds, or Absent
  up,          \* whether commands to Redis succeed
  wrapped,     \* each call: [pc, kind, val, joined, out, must]
  promised,    \* history: the version a finished removal promises to later reads
  errors

decoratorVars == <<stampede, db, stored, up, wrapped, promised, errors>>

Reading == {"Cached", "Cacheable"}
NotStarted == [pc |-> "new", kind |-> Absent, val |-> 0, joined |-> Absent, out |-> Absent, must |-> 0]
DecoratorsInit ==
  /\ stampede \in BOOLEAN /\ db = 1 /\ stored = Absent /\ up = TRUE
  /\ wrapped = [c \in DecoratedCall |-> NotStarted] /\ promised = 0 /\ errors = 0

At(c, pc) == wrapped[c].pc = pc
Is(c, kinds) == wrapped[c].kind \in kinds
Moves(c, pc) == wrapped' = [wrapped EXCEPT ![c].pc = pc]
\* The caller has its answer; the call has nothing to do, or something in the background.
Answered(c, out, val, pc) == [wrapped[c] EXCEPT !.out = out, !.val = val, !.pc = pc]
\* Calls that wait in the flight of c for its outcome get the same one.
Lands(c, out, val) ==
  wrapped' = [d \in DecoratedCall |->
    IF d = c \/ (At(d, "joined") /\ wrapped[d].joined = c) THEN Answered(d, out, val, "done") ELSE wrapped[d]]

--------------------------------------------------------------------------------
Starts(k) == IF k \in Reading THEN "get" ELSE IF k \in {"TagsBefore", "EvictBefore"} THEN "before" ELSE "method"
Start(c, k) ==
  /\ At(c, "new") /\ k \in Kinds[c]
  /\ wrapped' = [wrapped EXCEPT ![c] = [NotStarted EXCEPT !.pc = Starts(k), !.kind = k, !.must = promised]]
  /\ UNCHANGED <<stampede, db, stored, up, promised, errors>>

\* The service is not there yet, or the condition is false: the bare method.
Bypass(c) ==
  /\ At(c, "get")
  /\ wrapped' = [wrapped EXCEPT ![c] = Answered(c, "value", db, "done")]
  /\ UNCHANGED <<stampede, db, stored, up, promised, errors>>

\* get(), which takes a failure for a miss. A @Cached miss joins the load of the process.
Flights == IF stampede THEN {d \in DecoratedCall : Is(d, {"Cached"}) /\ (At(d, "load") \/ At(d, "write"))} ELSE {}
GetCached(c) ==
  /\ At(c, "get")
  /\ IF up /\ stored # Absent THEN wrapped' = [wrapped EXCEPT ![c] = Answered(c, "value", stored, "done")]
     ELSE IF Is(c, {"Cached"}) /\ Flights # {}
     THEN wrapped' = [wrapped EXCEPT ![c].pc = "joined", ![c].joined = CHOOSE d \in Flights : TRUE]
     ELSE Moves(c, "load")
  /\ UNCHANGED <<stampede, db, stored, up, promised, errors>>

\* The method reads the data. @Cached writes before it answers, unless unless() holds;
\* @Cacheable answers and writes behind.
Load(c) ==
  /\ At(c, "load")
  /\ wrapped' = [wrapped EXCEPT ![c] = IF Is(c, {"Cacheable"}) THEN Answered(c, "value", db, "behind")
                                 ELSE Answered(c, Absent, db, "write")]
  /\ UNCHANGED <<stampede, db, stored, up, promised, errors>>
NotCached(c) ==
  /\ At(c, "write") /\ Lands(c, "value", wrapped[c].val)
  /\ UNCHANGED <<stampede, db, stored, up, promised, errors>>

Write(c) ==
  /\ At(c, "write") /\ up /\ stored' = wrapped[c].val /\ Lands(c, "value", wrapped[c].val)
  /\ UNCHANGED <<stampede, db, up, promised, errors>>
\* The error of the write is the outcome of the load. The flight wraps it as if the method
\* had thrown it, and the caller gets it; without a flight the method runs once more.
WriteRefused(c) ==
  /\ At(c, "write") /\ ~up
  /\ IF stampede THEN Lands(c, "cache error", 0)
     ELSE wrapped' = [wrapped EXCEPT ![c] = Answered(c, "value", db, "done")]
  /\ UNCHANGED <<stampede, db, stored, up, promised, errors>>

\* The method throws. With a flight, or when the error is an object that can carry the mark,
\* the wrapper knows whose error it is; otherwise the method runs once more.
Throws(c, marked) ==
  /\ At(c, "load") /\ errors < MaxErrors /\ errors' = errors + 1
  /\ IF Is(c, {"Cacheable"}) \/ stampede \/ marked THEN Lands(c, "own error", 0)
     ELSE wrapped' = [wrapped EXCEPT ![c] = Answered(c, "value", db, "done")]
  /\ UNCHANGED <<stampede, db, stored, up, promised>>

--------------------------------------------------------------------------------
\* A method that changes the data.
Before(c) ==
  /\ At(c, "before") /\ stored' = (IF up THEN Absent ELSE stored) /\ Moves(c, "method")
  /\ UNCHANGED <<stampede, db, up, promised, errors>>

\* Loads whose value is older than v and that may still store it.
Late(v) == {d \in DecoratedCall : (At(d, "write") \/ (At(d, "behind") /\ Is(d, {"Cacheable", "Put"}))) /\ wrapped[d].val < v}
Promise(c, v) == IF Is(c, {"TagsAfter", "On"}) /\ up /\ Late(v) = {} /\ promised < v THEN v ELSE promised

AfterMethodBehind(k) == IF k \in {"TagsAfter", "On", "Evict", "Put"} THEN "behind" ELSE "done"
AfterMethod(k) == IF k \in {"TagsAfter", "On"} THEN "remove" ELSE IF k \in {"Evict", "Put"} THEN "behind" ELSE "done"
Change(c) ==
  LET pc == AfterMethod(wrapped[c].kind)
      out == IF pc = "remove" THEN Absent ELSE "value"
  IN /\ At(c, "method") /\ db < MaxVersion /\ db' = db + 1
     /\ wrapped' = [wrapped EXCEPT ![c] = Answered(c, out, db + 1, pc)]
     /\ promised' = IF out = Absent THEN promised ELSE Promise(c, db + 1)
     /\ UNCHANGED <<stampede, stored, up, errors>>

\* invalidateTags() and deleteMany(), awaited; their failure is only logged.
Remove(c) ==
  /\ At(c, "remove")
  /\ stored' = (IF up THEN Absent ELSE stored) /\ promised' = Promise(c, wrapped[c].val)
  /\ wrapped' = [wrapped EXCEPT ![c] = Answered(c, "value", wrapped[c].val, "done")]
  /\ UNCHANGED <<stampede, db, up, errors>>
\* @InvalidateOn whose condition is false; no tags and no keys.
RemovesNothing(c) ==
  /\ At(c, "remove") /\ wrapped' = [wrapped EXCEPT ![c] = Answered(c, "value", wrapped[c].val, "done")]
  /\ UNCHANGED <<stampede, db, stored, up, promised, errors>>

\* What @Cacheable, @CachePut and @CacheEvict do when the answer is on its way.
Behind(c) ==
  /\ At(c, "behind") /\ Moves(c, "done")
  /\ stored' = IF ~up THEN stored ELSE IF Is(c, {"Cacheable", "Put"}) THEN wrapped[c].val ELSE Absent
  /\ UNCHANGED <<stampede, db, up, promised, errors>>
\* A null result, or keys with a wildcard.
NothingBehind(c) ==
  /\ At(c, "behind") /\ Moves(c, "done")
  /\ UNCHANGED <<stampede, db, stored, up, promised, errors>>

--------------------------------------------------------------------------------
Down == up /\ errors < MaxErrors /\ up' = FALSE /\ errors' = errors + 1
        /\ UNCHANGED <<stampede, db, stored, wrapped, promised>>
Up == ~up /\ up' = TRUE /\ UNCHANGED <<stampede, db, stored, wrapped, promised, errors>>
Expires == stored # Absent /\ stored' = Absent /\ UNCHANGED <<stampede, db, up, wrapped, promised, errors>>

Reads(c) ==
  \/ Bypass(c) \/ GetCached(c) \/ Load(c) \/ NotCached(c) \/ Write(c) \/ WriteRefused(c)
  \/ \E marked \in BOOLEAN : Throws(c, marked)
Changes(c) == Before(c) \/ Change(c) \/ Remove(c) \/ RemovesNothing(c)
DecoratorsNext ==
  \/ \E c \in DecoratedCall : (\E k \in Kinds[c] : Start(c, k)) \/ Reads(c) \/ Changes(c) \/ Behind(c) \/ NothingBehind(c)
  \/ Down \/ Up \/ Expires

DecoratorsSpec == DecoratorsInit /\ [][DecoratorsNext]_decoratorVars

--------------------------------------------------------------------------------
\* A read that begins after @InvalidateTags or @InvalidateOn removed the entry of a change,
\* with no older load still on its way to the cache, answers with that change or a later one,
\* whatever other calls do behind their answers (handleCacheable(), handleCacheEvict()).
ReadsSeeChanges ==
  \A c \in DecoratedCall : Is(c, Reading) /\ wrapped[c].out = "value" => wrapped[c].val >= wrapped[c].must

\* "Redis connection error | Fail-open. Method executes normally" (website/en/reference/
\* cache/decorators.md:320): a @Cached method that returned gives its caller a value.
FailsOpen == \A c \in DecoratedCall : wrapped[c].out # "cache error"
================================================================================
