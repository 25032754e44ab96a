--------------------------- MODULE InvalidationEvents ---------------------------
(* EventInvalidationService with its registry of rules: an event announces a change of data; *)
(* its deliveries, from the emitter of the process or from an AMQP queue, remove the entries *)
(* that the rules resolve. A mark in Redis keeps a delivery from being processed twice.      *)
EXTENDS Integers, Sequences

CONSTANTS
  Message,     \* [event : a sequence of words, payload]
  Rule,        \* [pattern, accepts : payloads of its condition, tags, keys : sets of templates]
  Target,      \* what tags and keys name: groups of cache entries
  Unresolved,  \* what a template with an unresolved placeholder gives
  Worker,      \* deliveries processed at the same time
  Amqp,        \* whether the source redelivers a message that was not processed
  MaxEmits, MaxMishaps   \* BOUNDS: emissions of a message, and lost calls and crashes

VARIABLES
  rules,       \* the registered rules
  gone,        \* rules unregistered
  cached,      \* the targets with an entry
  stale,       \* per target: the emissions whose change its entry lacks, <<message, n, rule that covers it>>
  emits,       \* how often each message was emitted
  pending,     \* messages waiting for a worker
  delivery,    \* each worker: [pc, msg, tags, keys : still to remove, upto]
  marks,       \* Redis: for each message 0, or how many emissions its mark stands for
  mishaps

eventVars == <<rules, gone, cached, stale, emits, pending, delivery, marks, mishaps>>

--------------------------------------------------------------------------------
(* EventPattern: '*' is one word. '#' becomes '.*' between the dots that stay around it, so  *)
(* it is one word or more; only as the last of several words, or alone, it is zero or more.  *)
WordFits(p, w) == p = "*" \/ p = w
Optional(p) == {i \in DOMAIN p : p[i] = "#" /\ i = Len(p)}
FitsFrom(optional, p, e) ==
  LET fits[i \in 1..(Len(p) + 1), j \in 1..(Len(e) + 1)] ==
        IF i > Len(p) THEN j > Len(e)
        ELSE IF p[i] = "#"
             THEN \E k \in j..(Len(e) + 1) : (k > j \/ i \in optional) /\ fits[i + 1, k]
             ELSE j <= Len(e) /\ WordFits(p[i], e[j]) /\ fits[i + 1, j + 1]
  IN fits[1, 1]
Matches(p, e) == FitsFrom(Optional(p), p, e)

\* resolve(): the union over the rules that match and whose condition holds; a template that
\* is not fully resolved is dropped. The order by priority does not change the union.
Applies(r, m) == Matches(r.pattern, m.event) /\ m.payload \in r.accepts
Applicable(m) == {r \in rules : Applies(r, m)}
Resolve(templates, m) == {t[m.payload] : t \in templates} \ {Unresolved}
Covers(r, m) == Resolve(r.tags, m) \cup Resolve(r.keys, m)
Tags(m) == UNION {Resolve(r.tags, m) : r \in Applicable(m)}
Keys(m) == UNION {Resolve(r.keys, m) : r \in Applicable(m)}
Targets(m) == Tags(m) \cup Keys(m)

Register(r) ==
  /\ r \notin rules \cup gone /\ rules' = rules \cup {r}
  /\ UNCHANGED <<gone, cached, stale, emits, pending, delivery, marks, mishaps>>
Unregister(pattern) ==
  LET removed == {r \in rules : r.pattern = pattern}
  IN /\ removed # {} /\ rules' = rules \ removed /\ gone' = gone \cup removed
     /\ UNCHANGED <<cached, stale, emits, pending, delivery, marks, mishaps>>

--------------------------------------------------------------------------------
EmptyHanded(pc, m) == [pc |-> pc, msg |-> m, tags |-> {}, keys |-> {}, upto |-> 0]
Free == EmptyHanded("free", Unresolved)
EventsInit ==
  /\ rules \in SUBSET Rule /\ gone = {}
  /\ cached = {} /\ stale = [t \in Target |-> {}]
  /\ emits = [m \in Message |-> 0] /\ pending = [m \in Message |-> 0]
  /\ delivery = [w \in Worker |-> Free] /\ marks = [m \in Message |-> 0] /\ mishaps = 0

\* A read of the application fills an entry with the data of now.
Fill(t) ==
  /\ t \notin cached /\ cached' = cached \cup {t}
  /\ UNCHANGED <<rules, gone, stale, emits, pending, delivery, marks, mishaps>>

\* The application changes data and announces it.
Emit(m) ==
  /\ emits[m] < MaxEmits /\ emits' = [emits EXCEPT ![m] = @ + 1]
  /\ pending' = [pending EXCEPT ![m] = @ + 1]
  /\ stale' = [t \in Target |-> stale[t] \cup
                 {<<m, emits[m] + 1, r>> : r \in {r \in Applicable(m) : t \in cached \cap Covers(r, m)}}]
  /\ UNCHANGED <<rules, gone, cached, delivery, marks, mishaps>>

Receive(w, m) ==
  /\ delivery[w] = Free /\ pending[m] > 0 /\ pending' = [pending EXCEPT ![m] = @ - 1]
  /\ delivery' = [delivery EXCEPT ![w] = EmptyHanded("check", m)]
  /\ UNCHANGED <<rules, gone, cached, stale, emits, marks, mishaps>>

\* checkDuplicate(), and when it fails the event is taken for a new one; then resolve().
Duplicate(m) == marks[m] > 0
Proceeds(w, m) ==
  delivery' = [delivery EXCEPT ![w] =
    IF Targets(m) = {} THEN Free
    ELSE [pc |-> "tags", msg |-> m, tags |-> Tags(m), keys |-> Keys(m), upto |-> emits[m]]]
Check(w) ==
  /\ delivery[w].pc = "check"
  /\ IF Duplicate(delivery[w].msg) THEN delivery' = [delivery EXCEPT ![w] = Free] ELSE Proceeds(w, delivery[w].msg)
  /\ UNCHANGED <<rules, gone, cached, stale, emits, pending, marks, mishaps>>
CheckFails(w) ==
  /\ delivery[w].pc = "check" /\ mishaps < MaxMishaps /\ mishaps' = mishaps + 1
  /\ Proceeds(w, delivery[w].msg) /\ UNCHANGED <<rules, gone, cached, stale, emits, pending, marks>>

Removed(ts) ==
  /\ cached' = cached \ ts /\ stale' = [t \in Target |-> IF t \in ts THEN {} ELSE stale[t]]
\* invalidateTags() takes one tag after the other; deleteMany() is one batch.
AfterTagsMarked == "mark"
AfterTags == "keys"
RemoveTag(w) ==
  /\ delivery[w].pc = "tags"
  /\ \/ \E t \in delivery[w].tags :
          /\ Removed({t}) /\ delivery' = [delivery EXCEPT ![w].tags = @ \ {t}]
     \/ /\ delivery[w].tags = {} /\ delivery' = [delivery EXCEPT ![w].pc = AfterTags] /\ UNCHANGED <<cached, stale>>
  /\ UNCHANGED <<rules, gone, emits, pending, marks, mishaps>>
RemoveKeys(w) ==
  /\ delivery[w].pc = "keys" /\ Removed(delivery[w].keys)
  /\ delivery' = [delivery EXCEPT ![w].pc = "mark"]
  /\ UNCHANGED <<rules, gone, emits, pending, marks, mishaps>>

\* markProcessed(), whose failure is only logged; then the subscribers are told.
Mark(w) ==
  /\ delivery[w].pc = "mark" /\ delivery' = [delivery EXCEPT ![w] = Free]
  /\ \/ marks' = [marks EXCEPT ![delivery[w].msg] = IF @ > delivery[w].upto THEN @ ELSE delivery[w].upto]
        /\ UNCHANGED mishaps
     \/ mishaps < MaxMishaps /\ mishaps' = mishaps + 1 /\ UNCHANGED marks
  /\ UNCHANGED <<rules, gone, cached, stale, emits, pending>>
\* The mark lives for deduplicationTtl seconds.
Forget(m) ==
  /\ marks[m] > 0 /\ marks' = [marks EXCEPT ![m] = 0]
  /\ UNCHANGED <<rules, gone, cached, stale, emits, pending, delivery, mishaps>>

\* An invalidation fails, or the process dies: the queue delivers the message again, the
\* emitter of the process does not.
GivesUp(w) ==
  /\ delivery[w].pc \in {"tags", "keys"} /\ mishaps < MaxMishaps /\ mishaps' = mishaps + 1
  /\ pending' = IF Amqp THEN [pending EXCEPT ![delivery[w].msg] = @ + 1] ELSE pending
  /\ delivery' = [delivery EXCEPT ![w] = Free]
  /\ UNCHANGED <<rules, gone, cached, stale, emits, marks>>
\* The queue delivers a message again whose acknowledgement was lost.
Redeliver(w) ==
  /\ Amqp /\ delivery[w].pc = "mark" /\ mishaps < MaxMishaps /\ mishaps' = mishaps + 1
  /\ pending' = [pending EXCEPT ![delivery[w].msg] = @ + 1]
  /\ UNCHANGED <<rules, gone, cached, stale, emits, delivery, marks>>

Work(w) == Check(w) \/ CheckFails(w) \/ RemoveTag(w) \/ RemoveKeys(w) \/ Mark(w) \/ GivesUp(w) \/ Redeliver(w)
EventsNext ==
  \/ \E r \in Rule : Register(r)
  \/ \E r \in Rule : Unregister(r.pattern)
  \/ \E t \in Target : Fill(t)
  \/ \E m \in Message : Emit(m) \/ Forget(m)
  \/ \E w \in Worker, m \in Message : Receive(w, m)
  \/ \E w \in Worker : Work(w)

EventsSpec == EventsInit /\ [][EventsNext]_eventVars

--------------------------------------------------------------------------------
\* A message marked as processed (markProcessed()) has done its work: of what a rule covered when
\* the change was announced, and still covers, no entry lacks a change that was announced before the
\* marking delivery was checked, whatever was lost, repeated or processed at the same time. So
\* a duplicate may be skipped. What a rule registered later covers was promised to nobody.
MarkedIsDone ==
  \A m \in Message, t \in Target, r \in rules : \A n \in 1..marks[m] : <<m, n, r>> \notin stale[t]

\* The regular expression of EventPattern.create() accepts exactly the events that a topic
\* exchange would route with the pattern, if an inner or leading '#' is read as '*.#'.
Topic(p, e) ==
  LET fits[i \in 1..(Len(p) + 1), j \in 1..(Len(e) + 1)] ==
        IF i > Len(p) THEN j > Len(e)
        ELSE \/ p[i] = "#" /\ \E k \in j..(Len(e) + 1) : fits[i + 1, k]
             \/ p[i] # "#" /\ j <= Len(e) /\ (p[i] = "*" \/ p[i] = e[j]) /\ fits[i + 1, j + 1]
  IN fits[1, 1]
Expanded(p) ==
  LET at[i \in 0..Len(p)] ==
        IF i = 0 THEN <<>>
        ELSE at[i - 1] \o (IF p[i] = "#" /\ i < Len(p) THEN <<"*", "#">> ELSE <<p[i]>>)
  IN at[Len(p)]
MatchesAsTopic(patterns, events) ==
  \A p \in patterns, e \in events : Matches(p, e) = Topic(Expanded(p), e)
================================================================================
