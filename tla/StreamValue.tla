------------------------------- MODULE StreamValue -------------------------------
(* A stream of the in-memory driver (packages/testing): its entries and one consumer group, *)
(* as the X commands of CommandExecutor change them. Commands are executed one by one. The  *)
(* clock is Date.now(), which may be set back.                                              *)
EXTENDS Integers, FiniteSets, Sequences, SequencesExt

CONSTANTS
  Consumer, None,
  MinIdle,                        \* of XCLAIM
  MaxTime, MaxSeq, MaxDeliveries  \* BOUNDS

VARIABLES
  clock,
  entries, lastId,  \* the log, by its ids <<ms, seq>>, and the id added last
  group,            \* None, or lastDeliveredId, the pending entries and the consumers
  gone,             \* history: entries of the log the group was told not to deliver any more
  seen, rewound     \* history: entries given as new by this group; whether SETID went back

log == <<entries, lastId>>
vars == <<clock, log, group, gone, seen, rewound>>

Zero == <<0, 0>>
Before(a, b) == a[1] < b[1] \/ (a[1] = b[1] /\ a[2] < b[2])
Ids == (0..MaxTime) \X (0..MaxSeq)
Bounded == lastId \in (0..MaxTime) \X (0..(MaxSeq - 1))
InLog == {entries[i] : i \in DOMAIN entries}
Pending == IF group = None THEN {} ELSE DOMAIN group.pending
Without(f, ids) == [x \in DOMAIN f \ ids |-> f[x]]
Least(n, m) == IF n < m THEN n ELSE m

\* A set of ids in their order.
AllIds == [i \in 1..((MaxTime + 1) * (MaxSeq + 1)) |-> <<(i - 1) \div (MaxSeq + 1), (i - 1) % (MaxSeq + 1)>>]
Sorted(ids) == SelectSeq(AllIds, LAMBDA id : id \in ids)

TypeOK ==
  /\ clock \in 0..MaxTime /\ entries \in Seq(Ids) /\ lastId \in Ids
  /\ group = None \/ ( /\ group.last \in Ids /\ group.consumers \subseteq Consumer /\ Pending \subseteq Ids
                       /\ \A id \in Pending : group.pending[id] \in [consumer : Consumer, at : 0..MaxTime, count : 1..MaxDeliveries])
  /\ gone \subseteq Ids /\ seen \subseteq Ids /\ rewound \in BOOLEAN

Init ==
  /\ clock = 0 /\ entries = <<>> /\ lastId = Zero /\ group = None
  /\ gone = {} /\ seen = {} /\ rewound = FALSE

--------------------------------------------------------------------------------
\* nextAutoId(): the clock, unless it stands still or was set back.
NextIdOfClock == <<clock, 0>>
NextId == IF clock > lastId[1] THEN <<clock, 0>> ELSE <<lastId[1], lastId[2] + 1>>
Newest(s, n) == SubSeq(s, Len(s) - Least(n, Len(s)) + 1, Len(s))
From(s, id) == SelectSeq(s, LAMBDA e : ~Before(e, id))
Holds(s) == {s[i] : i \in DOMAIN s}
Logged(s) == entries' = s /\ gone' = gone \cap Holds(s) /\ seen' = seen \cap Holds(s)

\* XADD with `*` or an id of its own, which has to be above the last one, if any; MAXLEN or
\* MINID. Callers add no 0-0, which Redis refuses.
Appends(id) ==
  /\ \/ Logged(Append(entries, id))
     \/ \E n \in 0..1 : Logged(Newest(Append(entries, id), n))
     \/ \E min \in InLog : Logged(From(Append(entries, id), min))
  /\ lastId' = id
  /\ UNCHANGED <<clock, group, rewound>>

Add == Bounded /\ Appends(NextId)
AddAs(id) == (Before(lastId, id) \/ lastId = Zero) /\ Appends(id)

\* XDEL and XTRIM take entries from the log; the group does not notice.
Delete(id) ==
  /\ id \in InLog /\ Logged(SelectSeq(entries, LAMBDA e : e # id))
  /\ UNCHANGED <<clock, lastId, group, rewound>>
Trim(n) ==
  /\ Len(entries) > n /\ Logged(Newest(entries, n))
  /\ UNCHANGED <<clock, lastId, group, rewound>>

--------------------------------------------------------------------------------
Start(id) == IF id = "$" THEN lastId ELSE Zero
Passed(id) == {e \in InLog : ~Before(id, e)}

\* XGROUP CREATE (BUSYGROUP when there is one), DESTROY, SETID and DELCONSUMER.
CreateGroup(id) ==
  /\ group = None
  /\ group' = [last |-> Start(id), pending |-> Without(<<>>, {}), consumers |-> {}]
  /\ gone' = Passed(Start(id)) /\ seen' = {} /\ rewound' = FALSE
  /\ UNCHANGED <<clock, log>>

DestroyGroup ==
  /\ group # None /\ group' = None
  /\ gone' = {} /\ seen' = {} /\ rewound' = FALSE
  /\ UNCHANGED <<clock, log>>

SetGroupId(id) ==
  /\ group # None /\ group' = [group EXCEPT !.last = Start(id)]
  /\ gone' = gone \cup Passed(Start(id))
  /\ rewound' = (rewound \/ Before(Start(id), group.last))
  /\ UNCHANGED <<clock, log, seen>>

OfConsumer(c) == {id \in Pending : group.pending[id].consumer = c}
DelConsumer(c) ==
  /\ group # None /\ c \in group.consumers
  /\ group' = [group EXCEPT !.pending = Without(@, OfConsumer(c)), !.consumers = @ \ {c}]
  /\ gone' = gone \cup (OfConsumer(c) \cap InLog)
  /\ UNCHANGED <<clock, log, seen, rewound>>

\* XREADGROUP `>`: the first count entries behind lastDeliveredId, pending unless NOACK.
Fresh(count) == LET s == SelectSeq(entries, LAMBDA e : Before(group.last, e)) IN SubSeq(s, 1, Least(count, Len(s)))
Given(c, ids, count) == [id \in ids |-> [consumer |-> c, at |-> clock, count |-> count[id]]]
Merged(f, g) == [x \in DOMAIN f \cup DOMAIN g |-> IF x \in DOMAIN f THEN f[x] ELSE g[x]]

ReadNew(c, count, noAck) ==
  LET fresh == Fresh(count)  ids == {fresh[i] : i \in DOMAIN fresh}
  IN /\ group # None
     /\ group' = [last |-> IF fresh = <<>> THEN group.last ELSE Last(fresh),
                  pending |-> IF noAck THEN group.pending ELSE Merged(Given(c, ids, [id \in ids |-> 1]), group.pending),
                  consumers |-> group.consumers \cup {c}]
     /\ gone' = IF noAck THEN gone \cup ids ELSE gone \ ids
     /\ seen' = seen \cup ids
     /\ UNCHANGED <<clock, log, rewound>>

\* XREADGROUP with an id: the consumer's own pending entries from that id on, those counted
\* first of which the log holds no more left out. It only makes the consumer known.
History(c, from, count) ==
  LET ids == Sorted({id \in OfConsumer(c) : ~Before(id, from)})
  IN SelectSeq(SubSeq(ids, 1, Least(count, Len(ids))), LAMBDA id : id \in InLog)
ReadHistory(c) ==
  /\ group # None /\ group' = [group EXCEPT !.consumers = @ \cup {c}]
  /\ UNCHANGED <<clock, log, gone, seen, rewound>>

Ack(id) ==
  /\ id \in Pending /\ group' = [group EXCEPT !.pending = Without(@, {id})]
  /\ gone' = gone \cup ({id} \cap InLog)
  /\ UNCHANGED <<clock, log, seen, rewound>>

\* XCLAIM: what was idle for MinIdle goes to c; what left the log leaves the group.
IdleEnough(id) == clock - group.pending[id].at >= MinIdle
Claim(c, asked) ==
  LET idle == {id \in asked \cap Pending : IdleEnough(id)}  claimed == idle \cap InLog
  IN /\ group # None /\ \A id \in claimed : group.pending[id].count < MaxDeliveries
     /\ group' = [group EXCEPT !.pending = Merged(Given(c, claimed, [id \in claimed |-> @[id].count + 1]), Without(@, idle)),
                               !.consumers = @ \cup {c}]
     /\ UNCHANGED <<clock, log, gone, seen, rewound>>

Tick == clock' \in (0..MaxTime) \ {clock} /\ UNCHANGED <<log, group, gone, seen, rewound>>

--------------------------------------------------------------------------------
(* The commands that only read. A bound is an id, or a millisecond as a whole, and may be   *)
(* exclusive; `-` and `+` are the least and the greatest.                                  *)
Bound(id) == [ms |-> id[1], seq |-> id[2], exclusive |-> FALSE]
Behind(id) == [Bound(id) EXCEPT !.exclusive = TRUE]
Whole(ms) == [ms |-> ms, seq |-> None, exclusive |-> FALSE]
Lowest == Bound(Zero)
Highest == Bound(<<MaxTime, MaxSeq>>)
Resolved(b, isStart) == <<b.ms, IF b.seq # None THEN b.seq ELSE IF isStart THEN 0 ELSE MaxSeq>>

Above(id, b) == IF b.exclusive THEN Before(Resolved(b, TRUE), id) ELSE ~Before(id, Resolved(b, TRUE))
Below(id, b) == IF b.exclusive THEN Before(id, Resolved(b, FALSE)) ELSE ~Before(Resolved(b, FALSE), id)
Page(s, count) == IF count = None THEN s ELSE SubSeq(s, 1, Least(count, Len(s)))

\* XRANGE; XREVRANGE is given its bounds the other way round, and XREAD an id or None, for `$`.
XRange(lo, hi, count) == Page(SelectSeq(entries, LAMBDA e : Above(e, lo) /\ Below(e, hi)), count)
XRevRange(hi, lo, count) == Page(Reverse(SelectSeq(entries, LAMBDA e : Above(e, lo) /\ Below(e, hi))), count)
ReadAfter(b, count) ==
  LET after == IF b = None THEN lastId ELSE Resolved(b, TRUE)
  IN Page(SelectSeq(entries, LAMBDA e : Before(after, e)), count)
XInfo ==
  LET all == XRange(Lowest, Highest, None)
  IN [length |-> Len(entries), last |-> lastId, ends |-> IF all = <<>> THEN <<>> ELSE <<Head(all), Last(all)>>]

\* XPENDING: its range takes an exclusive bound for an inclusive one.
Waiting(c) == IF c = None THEN Pending ELSE OfConsumer(c)
PendingRange(lo, hi, count, c) ==
  LET ids == {id \in Waiting(c) : ~Before(id, Resolved(lo, TRUE)) /\ ~Before(Resolved(hi, FALSE), id)}
      idle(id) == IF clock < group.pending[id].at THEN 0 ELSE clock - group.pending[id].at
      row(id) == [id |-> id, consumer |-> group.pending[id].consumer, idle |-> idle(id), count |-> group.pending[id].count]
      page == Page(Sorted(ids), count)
  IN [i \in DOMAIN page |-> row(page[i])]
PendingSummary ==
  LET ids == Sorted(Pending)
  IN [count |-> Len(ids), ends |-> IF ids = <<>> THEN <<>> ELSE <<Head(ids), Last(ids)>>,
      consumers |-> [c \in {d \in Consumer : OfConsumer(d) # {}} |-> Cardinality(OfConsumer(c))]]

Next ==
  \/ Add \/ (\E id \in Ids \ {Zero} : AddAs(id) \/ Delete(id) \/ Ack(id)) \/ (\E n \in 0..1 : Trim(n))
  \/ (\E id \in {"$", "0"} : CreateGroup(id) \/ SetGroupId(id)) \/ DestroyGroup
  \/ \E c \in Consumer :
       \/ DelConsumer(c) \/ ReadHistory(c)
       \/ \E count \in 1..2, noAck \in BOOLEAN : ReadNew(c, count, noAck)
       \/ \E asked \in {{id} : id \in Pending} \cup {Pending} : Claim(c, asked)
  \/ Tick

Spec == Init /\ [][Next]_vars

--------------------------------------------------------------------------------
\* What is added is never behind what was there, whatever the clock does and however often
\* the newest entry was deleted.
IdsIncrease ==
  /\ \A i, j \in DOMAIN entries : i < j => Before(entries[i], entries[j])
  /\ \A id \in InLog : ~Before(lastId, id)

\* What Streams relies on: an entry the group is past of is pending for a consumer the group
\* knows until it is acknowledged or given up by name (NOACK, DELCONSUMER, `$`).
NothingForgotten ==
  group # None =>
    /\ \A id \in InLog : ~Before(group.last, id) => id \in Pending \/ id \in gone
    /\ \A id \in Pending : group.pending[id].consumer \in group.consumers

\* `>` "delivers only never-seen entries" (memory-driver.md), unless SETID went back.
NeverSeen == group # None /\ ~rewound => \A id \in InLog : Before(group.last, id) => id \notin seen \cup Pending

\* An empty page of a consumer's history would mean that nothing is pending for it. It does
\* not: entries that left the log are counted, and then left out.
EmptyPageIsEnd == \A c \in Consumer : History(c, Zero, 1) = <<>> => OfConsumer(c) \cap InLog = {}

\* Who reads the log by pages, behind the last entry of each, gets every entry once, forwards
\* with XRANGE and XREAD and backwards with XREVRANGE; XINFO and XREAD `$` tell where it ends.
PagesMeet ==
  LET page == XRange(Lowest, Highest, 1)  back == XRevRange(Highest, Lowest, 1)
  IN /\ entries # <<>> => /\ page \o XRange(Behind(Last(page)), Highest, None) = entries
                          /\ page \o ReadAfter(Bound(Last(page)), None) = entries
                          /\ back \o XRevRange(Behind(Last(back)), Lowest, None) = Reverse(entries)
                          /\ XInfo.ends = page \o back /\ ~Before(XInfo.last, Last(back))
     /\ \A ms \in 0..MaxTime : XRange(Whole(ms), Whole(ms), None) = SelectSeq(entries, LAMBDA e : e[1] = ms)
     /\ ReadAfter(None, None) = <<>>

\* XPENDING in its two forms tells the same of the group, and shows the entries idle for
\* MinIdle that XCLAIM takes. (With MinIdle 0 it shows more: a clock set back is idle 0.)
PendingTold ==
  group # None =>
    LET rows == PendingRange(Lowest, Highest, None, None)  told == PendingSummary
    IN /\ told.count = Len(rows) /\ told.ends = IF rows = <<>> THEN <<>> ELSE <<Head(rows).id, Last(rows).id>>
       /\ \A c \in Consumer :
            Len(PendingRange(Lowest, Highest, None, c)) = IF c \in DOMAIN told.consumers THEN told.consumers[c] ELSE 0
       /\ MinIdle > 0 => \A i \in DOMAIN rows : (rows[i].idle >= MinIdle) = IdleEnough(rows[i].id)

GroupKept == TypeOK /\ IdsIncrease /\ NothingForgotten /\ NeverSeen /\ PagesMeet /\ PendingTold
================================================================================
