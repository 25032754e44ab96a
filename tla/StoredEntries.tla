------------------------------ MODULE StoredEntries ------------------------------
(* What CacheService.set() and setMany() make of a value, a time to live and tags: which are  *)
(* refused, what is stored all the same, and how long it stays. One call after the other; *)
(* CacheTiers has their commands overlap. The clock counts parts of a second, S of them.     *)
EXTENDS Integers, FiniteSets, Sequences

CONSTANTS
  Key, None,
  Spelling, Form,      \* tags as callers write them, and their normal form, None when refused
  Kind, Image,         \* values, and what JSON gives back, None when it cannot be written
  Ttls, L1Ttl, MaxTtl, \* in parts of a second; l1.ttl and l2.maxTtl
  MaxTagsPerKey, DefaultMaxTags,
  Single, Lists, Many, \* BOUNDS: keys and lists of tags that set() is given, and entries of setMany()
  S, MaxTime           \* BOUND: calls are made at whole seconds up to MaxTime

VARIABLES
  clock,
  redis, memory,       \* of each key None, or a value and its time of expiry
  index,               \* tags and keys
  promised             \* history: of each key the tags and the value of the last call, if it was accepted
vars == <<clock, redis, memory, index, promised>>

Nothing == [k \in Key |-> None]
Init ==
  /\ clock = 0 /\ redis = Nothing /\ memory = Nothing /\ index = {} /\ promised = Nothing

InRedis(k) == redis[k] # None /\ clock < redis[k].exp
InMemory(k) == memory[k] # None /\ clock <= memory[k].exp

\* TTL.min() and TTL.create(), which checks what was given and rounds it afterwards.
Least(m, n) == IF m < n THEN m ELSE n
TtlAccepted(ttl) == ttl > 0 /\ ttl <= MaxTtl
Rounded(ttl) == ((2 * ttl + S) \div (2 * S)) * S

\* Tag.create(), Tags.create(): too many are counted before those that are equal are dropped.
Forms(spelled) == {Form[spelled[i]] : i \in DOMAIN spelled}
TagsAccepted(spelled, max) == Len(spelled) <= max /\ None \notin Forms(spelled)

\* SETEX takes a whole number of seconds above 0; a value that JSON cannot write is not sent.
Storable(kind, ttl) == Image[kind] # None /\ ttl > 0 /\ ttl % S = 0
Entry(kind, ttl) == [value |-> kind, exp |-> clock + ttl]

Indexed(keyTags) == index' = index \cup keyTags

--------------------------------------------------------------------------------
\* set(): Redis, memory and the tag index in this order, each unless the strategy leaves it
\* out; whatever is refused ends the call.
Set(k, kind, ttl, spelled, strategy) ==
  LET rounded == Rounded(ttl)
      sends == strategy # "l1-only"   keeps == strategy # "l2-only"
      begins == TtlAccepted(ttl)      stored == begins /\ sends /\ Storable(kind, rounded)
      goesOn == begins /\ (sends => stored)
      kept == goesOn /\ keeps /\ TtlAccepted(L1Ttl)
      tags == goesOn /\ (keeps => kept) /\ sends /\ spelled # <<>>
      accepted == goesOn /\ (keeps => kept) /\ (tags => TagsAccepted(spelled, MaxTagsPerKey))
  IN /\ redis' = IF stored THEN [redis EXCEPT ![k] = Entry(Image[kind], rounded)] ELSE redis
     /\ memory' = IF kept THEN [memory EXCEPT ![k] = Entry(kind, Least(rounded, Rounded(L1Ttl)))] ELSE memory
     /\ Indexed(IF tags /\ accepted THEN {<<t, k>> : t \in Forms(spelled)} ELSE {})
     /\ promised' = IF ~sends \/ ~stored THEN promised
                    ELSE [promised EXCEPT ![k] = IF accepted THEN [tags |-> Forms(spelled), kind |-> kind] ELSE None]
     /\ UNCHANGED clock

\* L2RedisStoreAdapter.setMany(): all are sent, and one that fails fails the call.
Cut(b) == Least(b.ttl, MaxTtl)
Written(batch) == {i \in DOMAIN batch : Storable(batch[i].kind, Cut(batch[i]))}

\* setMany(): the time to live is cut and neither checked nor rounded, memory is left as it is,
\* and tags follow when all values are stored, up to the first that is refused (by the default
\* limit or, afterwards, by that of the options).
SetMany(batch) ==
  LET stored == Written(batch)
      Last(k) == CHOOSE i \in stored : batch[i].key = k /\ \A j \in stored : batch[j].key = k => j <= i
      keys == {batch[i].key : i \in stored}
      Fine(i) == TagsAccepted(batch[i].tags, DefaultMaxTags) /\ Cardinality(Forms(batch[i].tags)) <= MaxTagsPerKey
      tagged == IF stored # DOMAIN batch THEN {} ELSE {i \in DOMAIN batch : \A j \in 1..i : Fine(j)}
      accepted == tagged = DOMAIN batch
      of(k) == {i \in DOMAIN batch : batch[i].key = k}
  IN /\ redis' = [k \in Key |-> IF k \in keys THEN Entry(Image[batch[Last(k)].kind], Cut(batch[Last(k)])) ELSE redis[k]]
     /\ Indexed(UNION {{<<t, batch[i].key>> : t \in Forms(batch[i].tags)} : i \in tagged})
     /\ promised' = [k \in Key |-> IF k \notin keys THEN promised[k]
                                   ELSE IF accepted THEN [tags |-> UNION {Forms(batch[i].tags) : i \in of(k)}, kind |-> batch[Last(k)].kind]
                                   ELSE None]
     /\ UNCHANGED <<clock, memory>>

\* get(): what Redis has goes into memory for l1.ttl.
Get(k) ==
  /\ ~InMemory(k) /\ InRedis(k) /\ memory' = [memory EXCEPT ![k] = Entry(redis[k].value, L1Ttl)]
  /\ UNCHANGED <<clock, redis, index, promised>>

Delete(k) ==
  /\ memory' = [memory EXCEPT ![k] = None] /\ redis' = [redis EXCEPT ![k] = None]
  /\ promised' = [promised EXCEPT ![k] = None] /\ UNCHANGED <<clock, index>>

\* invalidateTag(), of a tag that Tag.create() accepts.
Invalidate(spelled) ==
  LET tag == Form[spelled]  gone == {k \in Key : <<tag, k>> \in index}
      Rest(f) == [k \in Key |-> IF k \in gone THEN None ELSE f[k]]
  IN /\ tag # None /\ redis' = Rest(redis) /\ memory' = Rest(memory) /\ promised' = Rest(promised)
     /\ index' = {tk \in index : tk[1] # tag} /\ UNCHANGED clock

Tick == clock < MaxTime /\ clock' = clock + S /\ UNCHANGED <<redis, memory, index, promised>>

Next ==
  \/ \E k \in Single, kind \in Kind, ttl \in Ttls, spelled \in Lists, strategy \in {"l1-l2", "l1-only", "l2-only"} :
       Set(k, kind, ttl, spelled, strategy)
  \/ (\E k \in Key : Get(k) \/ Delete(k))
  \/ (\E batch \in [1..2 -> Many] : SetMany(batch)) \/ (\E s \in Spelling : Invalidate(s)) \/ Tick
Spec == Init /\ [][Next]_vars

--------------------------------------------------------------------------------
\* A value whose call was accepted is found under each of its tags, however they were
\* spelled; one that a call left in Redis and rejected promises nothing.
TagsReach == \A k \in Key : promised[k] # None => \A t \in promised[k].tags : <<t, k>> \in index

\* It can be read back from Redis, as JSON has it, until it expires or was removed.
AcceptedReadBack == \A k \in Key : promised[k] # None => redis[k] # None /\ redis[k].value = Image[promised[k].kind]

\* Whichever call wrote it, Redis holds an entry for no longer than l2.maxTtl, and memory for
\* no longer than l1.ttl, rounded.
LifeBounded ==
  \A k \in Key : /\ redis[k] # None => redis[k].exp <= clock + Rounded(MaxTtl)
                 /\ memory[k] # None => memory[k].exp <= clock + Rounded(L1Ttl) + S \div 2

StoredAsAsked == TagsReach /\ AcceptedReadBack /\ LifeBounded
================================================================================
