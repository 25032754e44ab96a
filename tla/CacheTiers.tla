------------------------------- MODULE CacheTiers -------------------------------
(* CacheService over its two tiers: the memory of each process and Redis with the tag     *)
(* index. Operations of all processes run at the same time, one command after the other;  *)
(* a process has one connection, which executes and answers in the order of sending.      *)
(* A value is named by the operation that writes it.                                       *)
EXTENDS Integers, FiniteSets, Sequences

CONSTANTS
  Key, Tag, None,
  TagOf,          \* the tag each key is set with, or None
  Op, Process, Home, Kinds,   \* operations, their process, and what each may be
  Ttls, L1Ttl, TagTtl,
  PatternKeys, PatternTags,   \* what invalidateByPattern() matches: keys, and keys of tag sets
  MaxDelay,       \* a command is answered within so many ticks
  Faults          \* BOUND: lost commands, lost answers and crashes

ASSUME TiersAssumption ==
  /\ TagOf \in [Key -> Tag \cup {None}] /\ Home \in [Op -> Process]
  /\ None \notin Key \cup Tag \cup Op /\ Key \cap Tag = {}
  /\ Ttls \subseteq Nat \ {0} /\ L1Ttl \in Nat /\ TagTtl \in Nat \ {0}
  /\ PatternKeys \subseteq Key /\ PatternTags \subseteq Tag
  /\ MaxDelay \in Nat /\ Faults \in Nat

VARIABLES
  l1,          \* each process's memory: a value and the ticks it is still served
  l2,          \* Redis: a value and its remaining life
  tag,         \* the tag sets: their keys and their remaining life
  pc,          \* each operation: the command it waits for,
  age,         \*   and for how long
  call,        \*   what it was called with
  val, snap,   \*   the value it wrote or read, the keys it still has to remove
  wire, back,  \* per process: operations whose command is not executed, not answered
  faults,
  \* History, read by no action.
  seen,        \* a removal: what had been set before it; a read: the removals it ran into
  gone         \* ticks since each value left Redis

vars == <<l1, l2, tag, pc, age, call, val, snap, wire, back, faults, seen, gone>>

Writing == {"set", "setMany"}
Removing == {"delete", "deleteMany", "invalidate", "clear", "pattern"}
Commands == {"setex", "sadd", "expire", "get", "del", "members", "membersAgain", "dels", "delOne",
             "delTag", "delTags", "scan", "scanTags"}
Horizon == L1Ttl + MaxDelay + 1   \* BOUND: gone counts so far

Nothing == [val |-> None, left |-> 0]
NoTag == [keys |-> {}, left |-> 0]
NoCall == [kind |-> "none", key |-> None, ttl |-> 0]

CallType == [kind : Writing \cup Removing \cup {"get", "none"}, key : Key \cup Tag \cup {None}, ttl : Ttls \cup {0}]
InMemory == [val : Op, left : 0..L1Ttl] \cup {Nothing}
InRedis == [val : Op, left : Nat \ {0}] \cup {Nothing}
TagSets == [keys : SUBSET Key, left : 0..TagTtl]

TypeOK ==
  /\ l1 \in [Process -> [Key -> InMemory]]
  /\ l2 \in [Key -> InRedis]
  /\ tag \in [Tag -> TagSets]
  /\ pc \in [Op -> Commands \cup {"new", "done", "failed"}]
  /\ age \in [Op -> 0..MaxDelay]
  /\ call \in [Op -> CallType]
  /\ val \in [Op -> Op \cup {None}]
  /\ snap \in [Op -> SUBSET (Key \cup Tag)]
  /\ wire \in [Process -> Seq(Op)] /\ back \in [Process -> Seq(Op)]
  /\ faults \in 0..Faults
  /\ seen \in [Op -> SUBSET Op]
  /\ gone \in [Op -> 0..Horizon]

Init ==
  /\ l1 = [p \in Process |-> [k \in Key |-> Nothing]]
  /\ l2 = [k \in Key |-> Nothing] /\ tag = [t \in Tag |-> NoTag]
  /\ pc = [o \in Op |-> "new"] /\ age = [o \in Op |-> 0] /\ call = [o \in Op |-> NoCall]
  /\ val = [o \in Op |-> None] /\ snap = [o \in Op |-> {}]
  /\ wire = [p \in Process |-> <<>>] /\ back = [p \in Process |-> <<>>]
  /\ faults = 0
  /\ seen = [o \in Op |-> {}] /\ gone = [o \in Op |-> 0]

--------------------------------------------------------------------------------
\* An operation sends a command; it is executed; it is answered and another one is sent,
\* or the operation is over.
Settled == {v \in Op : call[v].kind \in Writing /\ pc[v] = "done"}
Underway(p) == {o \in Op : Home[o] = p /\ call[o].kind \in Removing /\ pc[o] \in Commands}

Sent(o) == wire' = [wire EXCEPT ![Home[o]] = Append(@, o)]
Begins(o, kind, key, ttl, first) ==
  /\ pc[o] = "new" /\ kind \in Kinds[o]
  /\ pc' = [pc EXCEPT ![o] = first]
  /\ call' = [call EXCEPT ![o] = [kind |-> kind, key |-> key, ttl |-> ttl]]
  /\ seen' = IF kind \in Removing THEN [seen EXCEPT ![o] = Settled] ELSE seen
  /\ UNCHANGED <<l2, tag, age, val, snap, back, faults, gone>>

atRest == <<l1, pc, age, call, faults, seen, gone>>
Executes(o, c) ==
  /\ wire[Home[o]] # <<>> /\ Head(wire[Home[o]]) = o /\ pc[o] = c
Executed(o) ==
  /\ wire' = [wire EXCEPT ![Home[o]] = Tail(@)]
  /\ back' = [back EXCEPT ![Home[o]] = Append(@, o)]
  /\ UNCHANGED atRest
Answers(o, c) ==
  /\ back[Home[o]] # <<>> /\ Head(back[Home[o]]) = o /\ pc[o] = c
  /\ back' = [back EXCEPT ![Home[o]] = Tail(@)]
  /\ age' = [age EXCEPT ![o] = 0]
  /\ UNCHANGED <<l2, tag, call, val, snap, faults, gone>>
SendsNext(o, c) == Sent(o) /\ pc' = [pc EXCEPT ![o] = c] /\ UNCHANGED seen
Done(o) == UNCHANGED wire /\ pc' = [pc EXCEPT ![o] = "done"]
Ends(o) == Done(o) /\ UNCHANGED seen

Min2(a, b) == IF a < b THEN a ELSE b
InL1(p, k, v, ttl) ==
  l1' = [l1 EXCEPT ![p] = [j \in Key |-> IF j = k THEN [val |-> v, left |-> ttl] ELSE l1[p][j]]]
DropsL1(p, keys) == [k \in Key |-> IF k \in keys THEN Nothing ELSE l1[p][k]]
FromL1(p, keys) == l1' = [l1 EXCEPT ![p] = DropsL1(p, keys)]
Without(keys) == [k \in Key |-> IF k \in keys THEN Nothing ELSE l2[k]]
WithoutTags(ts) == [t \in Tag |-> IF t \in ts THEN NoTag ELSE tag[t]]

\* set(), setMany(): SETEX, the memory tier (set() only), SADD, EXPIRE.
Set(o, kind, k, ttl) ==
  Begins(o, kind, k, ttl, "setex") /\ Sent(o) /\ UNCHANGED l1

Setex(o) ==
  /\ Executes(o, "setex") /\ Executed(o)
  /\ l2' = [l2 EXCEPT ![call[o].key] = [val |-> o, left |-> call[o].ttl]]
  /\ val' = [val EXCEPT ![o] = o] /\ UNCHANGED <<tag, snap>>

IntoL1(o) == InL1(Home[o], call[o].key, o, Min2(call[o].ttl, L1Ttl))
SetexAnswered(o) ==
  /\ Answers(o, "setex")
  /\ IF call[o].kind = "set" THEN IntoL1(o) ELSE UNCHANGED l1
  /\ IF TagOf[call[o].key] # None THEN SendsNext(o, "sadd") ELSE Ends(o)

Sadd(o) ==
  LET t == TagOf[call[o].key]
  IN /\ Executes(o, "sadd") /\ Executed(o)
     /\ tag' = [tag EXCEPT ![t] = [keys |-> tag[t].keys \cup {call[o].key}, left |-> tag[t].left]]
     /\ UNCHANGED <<l2, val, snap>>

SaddAnswered(o) == Answers(o, "sadd") /\ SendsNext(o, "expire") /\ UNCHANGED l1

TagLife(o) == TagTtl
Expire(o) ==
  LET t == TagOf[call[o].key]
  IN /\ Executes(o, "expire") /\ Executed(o)
     /\ tag' = IF tag[t].keys = {} THEN tag
               ELSE [tag EXCEPT ![t] = [keys |-> tag[t].keys, left |-> TagLife(o)]]
     /\ UNCHANGED <<l2, val, snap>>

ExpireAnswered(o) == Answers(o, "expire") /\ Ends(o) /\ UNCHANGED l1

\* get(): from memory, or else GET, whose value goes into memory.
Get(o, k) ==
  /\ IF l1[Home[o]][k] # Nothing
     THEN Begins(o, "get", k, 0, "done") /\ UNCHANGED wire
     ELSE Begins(o, "get", k, 0, "get") /\ Sent(o)
  /\ UNCHANGED l1

GetExec(o) ==
  /\ Executes(o, "get") /\ Executed(o)
  /\ val' = [val EXCEPT ![o] = l2[call[o].key].val]
  /\ UNCHANGED <<l2, tag, snap>>

PopulateTtlOfEntry(v) == call[v].ttl
PopulateTtl(v) == L1Ttl
GetAnswered(o) ==
  /\ Answers(o, "get") /\ Done(o)
  /\ IF val[o] = None THEN UNCHANGED l1 ELSE InL1(Home[o], call[o].key, val[o], PopulateTtl(val[o]))
  /\ seen' = [seen EXCEPT ![o] = Underway(Home[o])]

\* delete(), deleteMany(): from memory, then DEL.
Delete(o, kind, k) ==
  Begins(o, kind, k, 0, "del") /\ Sent(o) /\ FromL1(Home[o], {k})

Del(o) ==
  /\ Executes(o, "del") /\ Executed(o)
  /\ l2' = Without({call[o].key}) /\ UNCHANGED <<tag, val, snap>>

DelAnswered(o) == Answers(o, "del") /\ Ends(o) /\ UNCHANGED l1

--------------------------------------------------------------------------------
\* invalidateTag(): SMEMBERS, the memory tier, SMEMBERS again, DEL of each key, of the set.
Invalidate(o, t) ==
  Begins(o, "invalidate", t, 0, "members") /\ Sent(o) /\ UNCHANGED l1

Members(o) ==
  /\ Executes(o, "members") \/ Executes(o, "membersAgain")
  /\ Executed(o)
  /\ snap' = [snap EXCEPT ![o] = tag[call[o].key].keys]
  /\ UNCHANGED <<l2, tag, val>>

MembersAnswered(o) ==
  /\ Answers(o, "members") /\ SendsNext(o, "membersAgain")
  /\ FromL1(Home[o], snap[o])

AfterMembersNothing(o) == "delTag"
AfterMembers(o) == IF snap[o] = {} THEN "delTag" ELSE "dels"
MembersAgainAnswered(o) ==
  Answers(o, "membersAgain") /\ SendsNext(o, AfterMembers(o)) /\ UNCHANGED l1

\* A batch of DELs is sent at once; other processes' commands come in between.
Dels(o) ==
  /\ Executes(o, "dels") \/ Executes(o, "delTags")
  /\ \E x \in snap[o] :
       /\ l2' = Without({x}) /\ tag' = WithoutTags({x})
       /\ snap' = [snap EXCEPT ![o] = @ \ {x}]
       /\ IF snap[o] = {x} THEN Executed(o) ELSE UNCHANGED <<atRest, wire, back>>
  /\ UNCHANGED val

DelsAnswered(o) ==
  /\ Answers(o, "dels") /\ UNCHANGED l1
  /\ \/ call[o].kind = "invalidate" /\ SendsNext(o, "delTag")
     \/ call[o].kind = "clear" /\ SendsNext(o, "scanTags")

DelTag(o) ==
  /\ Executes(o, "delTag") /\ Executed(o)
  /\ tag' = WithoutTags({call[o].key}) /\ UNCHANGED <<l2, val, snap>>

DelTagAnswered(o) == Answers(o, "delTag") /\ Ends(o) /\ UNCHANGED l1

\* clear(): the memory tier, SCAN and DEL of every key under the prefix, the tag sets
\* among them, and SCAN and DEL of the tag sets. SCAN is one step.
Clear(o) ==
  Begins(o, "clear", None, 0, "scan") /\ Sent(o) /\ FromL1(Home[o], Key)

\* invalidateByPattern(): SCAN, the memory tier, DEL of one key after the other.
ByPattern(o) ==
  Begins(o, "pattern", None, 0, "scan") /\ Sent(o) /\ UNCHANGED l1

Stored == {k \in Key : l2[k] # Nothing} \cup {t \in Tag : tag[t].keys # {}}
ScanExec(o) ==
  /\ Executes(o, "scan") /\ Executed(o)
  /\ snap' = [snap EXCEPT ![o] = IF call[o].kind = "clear" THEN Stored ELSE Stored \cap (PatternKeys \cup PatternTags)]
  /\ UNCHANGED <<l2, tag, val>>

ScanAnswered(o) ==
  /\ Answers(o, "scan")
  /\ IF call[o].kind = "clear"
     THEN SendsNext(o, IF snap[o] = {} THEN "scanTags" ELSE "dels") /\ UNCHANGED l1
     ELSE /\ FromL1(Home[o], snap[o])
          /\ IF snap[o] = {} THEN Ends(o) ELSE SendsNext(o, "delOne")

DelOne(o) ==
  /\ Executes(o, "delOne") /\ Executed(o)
  /\ \E x \in snap[o] : /\ l2' = Without({x}) /\ tag' = WithoutTags({x})
                        /\ snap' = [snap EXCEPT ![o] = @ \ {x}]
  /\ UNCHANGED val

DelOneAnswered(o) ==
  /\ Answers(o, "delOne") /\ UNCHANGED l1
  /\ IF snap[o] = {} THEN Ends(o) ELSE SendsNext(o, "delOne")

ScanTags(o) ==
  /\ Executes(o, "scanTags") /\ Executed(o)
  /\ snap' = [snap EXCEPT ![o] = {t \in Tag : tag[t].keys # {}}]
  /\ UNCHANGED <<l2, tag, val>>

ScanTagsAnswered(o) ==
  /\ Answers(o, "scanTags") /\ UNCHANGED l1
  /\ IF snap[o] = {} THEN Ends(o) ELSE SendsNext(o, "delTags")

DelTagsAnswered(o) == Answers(o, "delTags") /\ Ends(o) /\ UNCHANGED l1

--------------------------------------------------------------------------------
\* A command fails, or its answer is lost: reads count it as a miss and deleteMany() as a
\* key that was not there, the other operations throw. Of a batch some are executed.
EndsFailed(o) ==
  /\ pc' = [pc EXCEPT ![o] = IF call[o].kind \in {"get", "deleteMany"} THEN "done" ELSE "failed"]
  /\ age' = [age EXCEPT ![o] = 0]
  /\ UNCHANGED <<l1, call, val, snap, seen, gone>>

Lost(o) ==
  /\ faults < Faults /\ faults' = faults + 1
  /\ wire[Home[o]] # <<>> /\ Head(wire[Home[o]]) = o
  /\ wire' = [wire EXCEPT ![Home[o]] = Tail(@)]
  /\ EndsFailed(o)
  /\ IF pc[o] \in {"dels", "delTags"}
     THEN \E some \in SUBSET snap[o] : l2' = Without(some) /\ tag' = WithoutTags(some)
     ELSE UNCHANGED <<l2, tag>>
  /\ UNCHANGED back

AnswerLost(o) ==
  /\ faults < Faults /\ faults' = faults + 1
  /\ back[Home[o]] # <<>> /\ Head(back[Home[o]]) = o
  /\ back' = [back EXCEPT ![Home[o]] = Tail(@)]
  /\ EndsFailed(o)
  /\ UNCHANGED <<l2, tag, wire>>

Crash(p) ==
  /\ faults < Faults /\ faults' = faults + 1
  /\ l1' = [l1 EXCEPT ![p] = [k \in Key |-> Nothing]]
  /\ pc' = [o \in Op |-> IF Home[o] = p /\ pc[o] \in Commands THEN "failed" ELSE pc[o]]
  /\ age' = [o \in Op |-> IF Home[o] = p THEN 0 ELSE age[o]]
  /\ wire' = [wire EXCEPT ![p] = <<>>] /\ back' = [back EXCEPT ![p] = <<>>]
  /\ UNCHANGED <<l2, tag, call, val, snap, seen, gone>>

\* Time passes; what has lived its time is gone.
MayPass == \A o \in Op : pc[o] \in Commands => age[o] < MaxDelay
Served(e) == IF e # Nothing /\ e.left > 0 THEN [val |-> e.val, left |-> e.left - 1] ELSE Nothing
Aged(e) == IF e.left > 1 THEN [val |-> e.val, left |-> e.left - 1] ELSE Nothing
AgedTag(s) == IF s.left = 1 THEN NoTag ELSE [keys |-> s.keys, left |-> IF s.left = 0 THEN 0 ELSE s.left - 1]
Tick ==
  /\ MayPass
  /\ l1' = [p \in Process |-> [k \in Key |-> Served(l1[p][k])]]
  /\ l2' = [k \in Key |-> Aged(l2[k])]
  /\ tag' = [t \in Tag |-> AgedTag(tag[t])]
  /\ age' = [o \in Op |-> IF pc[o] \in Commands THEN age[o] + 1 ELSE age[o]]
  /\ gone' = [v \in Op |-> IF val[v] # v \/ \E k \in Key : l2[k].val = v THEN 0
                           ELSE Min2(gone[v] + 1, Horizon)]
  /\ UNCHANGED <<pc, call, val, snap, wire, back, faults, seen>>

Begin(o) ==
  \/ \E k \in Key : Get(o, k) \/ Delete(o, "delete", k) \/ Delete(o, "deleteMany", k)
  \/ \E k \in Key, ttl \in Ttls : Set(o, "set", k, ttl) \/ Set(o, "setMany", k, ttl)
  \/ \E t \in Tag : Invalidate(o, t)
  \/ Clear(o) \/ ByPattern(o)

Steps(o) ==
  \/ Setex(o) \/ SetexAnswered(o) \/ Sadd(o) \/ SaddAnswered(o) \/ Expire(o) \/ ExpireAnswered(o)
  \/ GetExec(o) \/ GetAnswered(o) \/ Del(o) \/ DelAnswered(o)
  \/ Members(o) \/ MembersAnswered(o) \/ MembersAgainAnswered(o)
  \/ Dels(o) \/ DelsAnswered(o) \/ DelTag(o) \/ DelTagAnswered(o)
  \/ ScanExec(o) \/ ScanAnswered(o) \/ DelOne(o) \/ DelOneAnswered(o)
  \/ ScanTags(o) \/ ScanTagsAnswered(o) \/ DelTagsAnswered(o)

Next ==
  \/ \E o \in Op : Begin(o) \/ Steps(o) \/ Lost(o) \/ AnswerLost(o)
  \/ \E p \in Process : Crash(p)
  \/ Tick

Spec == Init /\ [][Next]_vars

--------------------------------------------------------------------------------
\* What a removal promises: deleteMany() reports a failed DEL as a key that was not there, and
\* promises nothing; a removal by tag relies on the tag set, which the others take away as well.
TagRemoving == {"invalidate", "clear", "pattern"}
Indexed(o) == \A r \in Op \ {o} : call[r].kind \notin TagRemoving
Promises(o) ==
  /\ call[o].kind \in Removing \ {"deleteMany"}
  /\ call[o].kind = "invalidate" => Indexed(o)
Removed(o) == Promises(o) /\ pc[o] = "done"
Targets(o) ==
  CASE call[o].kind \in {"delete", "deleteMany"} -> {call[o].key}
    [] call[o].kind = "invalidate" -> {k \in Key : TagOf[k] = call[o].key}
    [] call[o].kind = "clear" -> Key
    [] call[o].kind = "pattern" -> PatternKeys
    [] OTHER -> {}

\* What is served from memory left Redis at most l1.ttl, and the time an answer takes, ago:
\* for how long a process may go on serving what others overwrote or removed.
StalenessBounded ==
  \A p \in Process, k \in Key :
    l1[p][k] # Nothing => gone[l1[p][k].val] + l1[p][k].left <= L1Ttl + MaxDelay

\* A removal that reported success removed from Redis what had been set before it began.
RemovedFromRedis == \A o \in Op : Removed(o) => \A k \in Targets(o) : l2[k].val \notin seen[o]

\* ... and from the memory of its own process (by pattern only what Redis still held), unless
\* a read of that process, answered while the removal went on, brought the value back.
Refilled(o, k) ==
  \E r \in Op : /\ call[r].kind = "get" /\ call[r].key = k /\ o \in seen[r]
                /\ val[r] = l1[Home[o]][k].val
RemovedFromMemory ==
  \A o \in Op : Removed(o) /\ call[o].kind # "pattern" =>
    \A k \in Targets(o) : l1[Home[o]][k].val \in seen[o] => Refilled(o, k)

\* The tag set knows every cached value whose set() succeeded with the tag, as long as
\* nothing removed tag sets.
IndexCovers ==
  (\A o \in Op : call[o].kind \notin TagRemoving) =>
  \A k \in Key : l2[k].val \in Settled /\ TagOf[k] # None => k \in tag[TagOf[k]].keys

\* What is checked as one: how long memory is out of date ...
ServedBriefly == TypeOK /\ StalenessBounded

\* ... and that a removal reaches all it is about: both tiers, and by tag what the set knows.
RemovalsReach == RemovedFromRedis /\ RemovedFromMemory /\ IndexCovers
================================================================================
