------------------------------ MODULE MemoryKeyspace ------------------------------
(* The keys of the in-memory driver (packages/testing): MemoryStore, which forgets an       *)
(* expired key when it is asked for it, and the commands of CommandExecutor but those on     *)
(* streams. Commands run one by one; a text is a sequence of digits and of Letter.          *)
EXTENDS Integers, FiniteSets, Sequences, SequencesExt

CONSTANTS
  Key, None,
  Plain,          \* BOUND: keys that hold nothing but Texts
  Letter,         \* stands for all that is not a digit
  Texts, Ttls,    \* of SET, EXPIRE: in the units of the clock
  Elem,           \* members, fields and list elements: numbers, for their order
  MaxTime, MaxLen, MaxNumber   \* BOUNDS: of the clock, of texts, lists and fields, of a text's number

VARIABLES keyspace, clock
vars == <<keyspace, clock>>

StoredKinds == {"string", "hash", "list", "set", "zset"}
NoFields == [x \in {} |-> 0]
Empty(kind) == CASE kind \in {"hash", "zset"} -> NoFields [] kind = "set" -> {} [] OTHER -> <<>>

Init == keyspace = [k \in Key |-> None] /\ clock = 0

--------------------------------------------------------------------------------
(* MemoryStore. What it answers, and the keyspace it leaves.                               *)
Live(ks, k) == ks[k] # None /\ (ks[k].exp = None \/ ks[k].exp > clock)
LiveKeys(ks) == {k \in Key : Live(ks, k)}
Wrong(ks, k, kind) == Live(ks, k) /\ ks[k].kind # kind
ValueOf(ks, k, kind) == IF Live(ks, k) THEN ks[k].value ELSE Empty(kind)

Entry(kind, v) == [kind |-> kind, value |-> v, exp |-> None]
Created(ks, k, kind) == IF Live(ks, k) THEN ks ELSE [ks EXCEPT ![k] = Entry(kind, Empty(kind))]
Written(ks, k, s) == [ks EXCEPT ![k] = Entry("string", s)]
Ttl(ks, k) == IF ~Live(ks, k) THEN -2 ELSE IF ks[k].exp = None THEN -1 ELSE ks[k].exp - clock
Expiring(ks, k, at) == IF Live(ks, k) THEN [ks EXCEPT ![k].exp = at] ELSE [ks EXCEPT ![k] = None]
Deleted(ks, ds) == [k \in Key |-> IF k \in ds THEN None ELSE ks[k]]

\* preserveTtl()
WithoutTtl(ks, k, s) == Written(ks, k, s)
KeepingTtl(ks, k, s) == [Written(ks, k, s) EXCEPT ![k].exp = IF Live(ks, k) THEN ks[k].exp ELSE None]

--------------------------------------------------------------------------------
(* The commands: each leaves a keyspace and gives a reply.                                 *)
Ok(ks, reply) == [ks |-> ks, reply |-> <<"ok", reply>>]
Nil(ks) == [ks |-> ks, reply |-> <<"nil">>]
Error(ks) == [ks |-> ks, reply |-> <<"error">>]

\* Number(): an empty text is 0.
Numeric(s) == \A i \in DOMAIN s : s[i] # Letter
Number(s) == FoldLeft(LAMBDA n, d : 10 * n + d, 0, s)
Digits(n) == IF n < 10 THEN <<n>> ELSE <<n \div 10, n % 10>>

\* cmdSet(): the old value is read whether GET was given or not, so that a key of another
\* kind is an error. SETEX and SETNX are SET with EX and NX.
SetKey(ks, c) ==
  LET w == Written(ks, c.key, c.text)  exists == Live(ks, c.key)
  IN IF Wrong(ks, c.key, "string") THEN Error(ks)
     ELSE IF (c.cond = "NX" /\ exists) \/ (c.cond = "XX" /\ ~exists) THEN Nil(ks)
     ELSE Ok(IF c.ttl = None THEN w ELSE Expiring(w, c.key, clock + c.ttl), "OK")

RunString(ks, c) ==
  LET s == ValueOf(ks, c.key, "string")
  IN CASE c.cmd = "SET" -> SetKey(ks, c)
       [] c.cmd = "MSET" -> Ok([k \in Key |-> IF k \in Plain \cup {c.key} THEN Entry("string", c.text) ELSE ks[k]], "OK")
       [] OTHER ->
         IF Wrong(ks, c.key, "string") THEN Error(ks)
         ELSE CASE c.cmd = "GET" -> IF Live(ks, c.key) THEN Ok(ks, s) ELSE Nil(ks)
                [] c.cmd = "STRLEN" -> Ok(ks, Len(s))
                [] c.cmd = "APPEND" -> Ok(KeepingTtl(ks, c.key, s \o c.text), Len(s) + Len(c.text))
                [] c.cmd = "INCR" -> IF Numeric(s) THEN Ok(KeepingTtl(ks, c.key, Digits(Number(s) + 1)), Number(s) + 1) ELSE Error(ks)

\* KEYS, SCAN and DBSIZE: the keys that match, all on one page; the dead ones go.
Scan(ks, match) == Ok(Deleted(ks, Key \ LiveKeys(ks)), LiveKeys(ks) \cap match)

\* DEL counts what was alive and removes the rest too.
RunKey(ks, c) ==
  CASE c.cmd = "FLUSHALL" -> Ok(Deleted(ks, Key), "OK")
    [] c.cmd = "DEL" -> Ok(Deleted(ks, c.keys), Cardinality(c.keys \cap LiveKeys(ks)))
    [] c.cmd = "EXISTS" -> Ok(ks, Cardinality(c.keys \cap LiveKeys(ks)))
    [] c.cmd = "SCAN" -> Scan(ks, c.match)
    [] c.cmd = "EXPIRE" -> Ok(Expiring(ks, c.key, clock + c.ttl), IF Live(ks, c.key) THEN 1 ELSE 0)
    [] c.cmd = "PERSIST" -> Ok(Expiring(ks, c.key, None), IF Live(ks, c.key) THEN 1 ELSE 0)
    [] c.cmd = "TTL" -> Ok(ks, Ttl(ks, c.key))
    [] c.cmd = "TYPE" -> Ok(ks, IF Live(ks, c.key) THEN ks[c.key].kind ELSE "none")

\* Array.slice(a, b) of JavaScript, and LRANGE and ZRANGE, which call it.
Max0(n) == IF n < 0 THEN 0 ELSE n
FromEnd(s, n) == IF n < 0 THEN Max0(Len(s) + n) ELSE IF n > Len(s) THEN Len(s) ELSE n
Slice(s, a, b) == SubSeq(s, FromEnd(s, a) + 1, FromEnd(s, b))
Range1(s, start, stop) ==
  Slice(s, IF start < 0 THEN Max0(Len(s) + start) ELSE start, (IF stop < 0 THEN Len(s) + stop ELSE stop) + 1)
Sorted(z) == SetToSortSeq(DOMAIN z, LAMBDA x, y : z[x] < z[y] \/ (z[x] = z[y] /\ x < y))

\* A bound of a score may be exclusive; 0 and MaxLen + 1 stand for the infinities.
Bounds == [value : {0, 1, MaxLen + 1}, exclusive : BOOLEAN]
InRange(n, lo, hi) ==
  /\ IF lo.exclusive THEN n > lo.value ELSE n >= lo.value
  /\ IF hi.exclusive THEN n < hi.value ELSE n <= hi.value
ByScore(z, lo, hi) == SelectSeq(Sorted(z), LAMBDA x : InRange(z[x], lo, hi))
Flatten(z, members) == FlattenSeq([i \in DOMAIN members |-> <<members[i], z[members[i]]>>])

Without(f, xs) == [x \in DOMAIN f \ xs |-> f[x]]
With(f, x, n) == [y \in DOMAIN f \cup {x} |-> IF y = x THEN n ELSE f[y]]

KindOf(cmd) ==
  CASE cmd \in {"HSET", "HINCRBY", "HDEL", "HGETALL"} -> "hash" [] cmd \in {"LPUSH", "RPUSH", "LPOP", "RPOP", "LREM", "LRANGE"} -> "list"
    [] cmd \in {"SADD", "SREM", "SMEMBERS"} -> "set" [] cmd \in {"ZADD", "ZREM", "ZREMRANGEBYSCORE", "ZRANGE", "ZCOUNT", "ZRANGEBYSCORE"} -> "zset"
Adders == {"HSET", "HINCRBY", "LPUSH", "RPUSH", "SADD", "ZADD"}
Readers == {"HGETALL", "LRANGE", "SMEMBERS", "ZRANGE", "ZRANGEBYSCORE", "ZCOUNT"}
Scored == {"ZREMRANGEBYSCORE", "ZRANGEBYSCORE", "ZCOUNT"}

\* What a command makes of the value it finds. LREM takes all that are equal, whatever its
\* count says.
Changed(c, v) ==
  CASE c.cmd = "HSET" -> With(v, c.x, c.n)
    [] c.cmd = "HINCRBY" -> With(v, c.x, (IF c.x \in DOMAIN v THEN v[c.x] ELSE 0) + c.n)
    [] c.cmd \in {"HDEL", "ZREM"} -> Without(v, {c.x})
    [] c.cmd = "LPUSH" -> <<c.x>> \o v
    [] c.cmd = "RPUSH" -> Append(v, c.x)
    [] c.cmd = "LPOP" -> Tail(v)
    [] c.cmd = "RPOP" -> Front(v)
    [] c.cmd = "LREM" -> SelectSeq(v, LAMBDA x : x # c.x)
    [] c.cmd = "SADD" -> v \cup {c.x}
    [] c.cmd = "SREM" -> v \ {c.x}
    [] c.cmd = "ZADD" -> With(v, c.x, c.n)
    [] c.cmd = "ZREMRANGEBYSCORE" -> [x \in {y \in DOMAIN v : ~InRange(v[y], c.lo, c.hi)} |-> v[x]]

Read(c, v) ==
  CASE c.cmd = "LRANGE" -> Range1(v, c.from, c.to)
    [] c.cmd = "ZRANGE" -> Flatten(v, Range1(Sorted(v), c.from, c.to))
    [] c.cmd = "ZRANGEBYSCORE" -> Flatten(v, ByScore(v, c.lo, c.hi))
    [] c.cmd = "ZCOUNT" -> Len(ByScore(v, c.lo, c.hi))
    [] OTHER -> v

\* An argument that is no number (an option of ZADD, say) is an error after the key was made.
RunContainer(ks, c) ==
  LET kind == KindOf(c.cmd)  v == ValueOf(ks, c.key, kind)  new == Changed(c, v)
  IN IF Wrong(ks, c.key, kind) THEN Error(ks)
     ELSE IF c.cmd \in Readers THEN Ok(ks, Read(c, v))
     ELSE IF c.cmd \in Adders
          THEN LET made == Created(ks, c.key, kind)
               IN IF c.n = None THEN Error(made) ELSE Ok([made EXCEPT ![c.key].value = new], new)
     ELSE IF ~Live(ks, c.key) THEN Nil(ks)
     ELSE Ok(IF new = Empty(kind) THEN Deleted(ks, {c.key}) ELSE [ks EXCEPT ![c.key].value = new], new)

StringCommands ==
  [cmd : {"GET", "STRLEN"}, key : Key] \cup [cmd : {"INCR"}, key : Key \ Plain]
    \cup [cmd : {"MSET"}, key : Key, text : Texts] \cup [cmd : {"APPEND"}, key : Key \ Plain, text : Texts]
    \cup [cmd : {"SET"}, key : Key, text : Texts, cond : {"", "NX", "XX"}, ttl : Ttls \cup {None}]
KeyCommands ==
  [cmd : {"DEL", "EXISTS"}, keys : SUBSET Key] \cup [cmd : {"FLUSHALL"}] \cup [cmd : {"SCAN"}, match : SUBSET Key] \cup [cmd : {"PERSIST", "TTL", "TYPE"}, key : Key]
    \cup [cmd : {"EXPIRE"}, key : Key, ttl : Ttls]
ContainerCommands ==
  [cmd : {"HSET", "HINCRBY", "HDEL", "LPUSH", "RPUSH", "LPOP", "RPOP", "LREM", "SADD", "SREM", "ZADD", "ZREM"},
   key : Key \ Plain, x : Elem, n : 1..2]
    \cup [cmd : {"HINCRBY", "ZADD"}, key : Key \ Plain, x : Elem, n : {None}]
    \cup [cmd : Scored, key : Key \ Plain, lo : {b \in Bounds : b.value <= 1}, hi : {b \in Bounds : b.value >= 1}]
    \cup [cmd : {"HGETALL", "SMEMBERS"}, key : Key \ Plain]
    \cup [cmd : {"LRANGE", "ZRANGE"}, key : Key \ Plain, from : {-2, 0, 1}, to : {-2, 0, 1}]
Commands == StringCommands \cup KeyCommands \cup ContainerCommands
OnStrings == {"GET", "STRLEN", "INCR", "MSET", "APPEND", "SET"}
OnKeys == {"DEL", "EXISTS", "FLUSHALL", "SCAN", "PERSIST", "TTL", "TYPE", "EXPIRE"}

\* live(): a dead key that a command looked at, and did not write, is gone.
LooksAt(c) == IF c.cmd \in {"SCAN", "FLUSHALL"} THEN Key ELSE IF c.cmd \in {"DEL", "EXISTS"} THEN c.keys ELSE {c.key}
Run(ks, c) ==
  LET r == IF c.cmd \in OnStrings THEN RunString(ks, c) ELSE IF c.cmd \in OnKeys THEN RunKey(ks, c) ELSE RunContainer(ks, c)
  IN [r EXCEPT !.ks = Deleted(@, {k \in LooksAt(c) : ~Live(ks, k) /\ r.ks[k] = ks[k]})]

Small(ks) ==
  \A k \in Key : ks[k] # None =>
    CASE ks[k].kind = "string" -> Len(ks[k].value) <= MaxLen /\ (Numeric(ks[k].value) => Number(ks[k].value) <= MaxNumber)
      [] ks[k].kind = "list" -> Len(ks[k].value) <= MaxLen
      [] ks[k].kind = "hash" -> \A x \in DOMAIN ks[k].value : ks[k].value[x] <= MaxLen
      [] OTHER -> TRUE

Execute(c) == keyspace' = Run(keyspace, c).ks /\ Small(keyspace') /\ UNCHANGED clock

\* MemoryPipeline.exec(): the commands one after the other, whether one fails or not. Those of
\* the interface are fewer; discard() leaves nothing to do.
Queued == {q \in StringCommands : q.cmd = "SET" => q.cond # "XX"}
Exec(first, second) == keyspace' = Run(Run(keyspace, first).ks, second).ks /\ Small(keyspace') /\ UNCHANGED clock

Tick == clock < MaxTime /\ clock' = clock + 1 /\ UNCHANGED keyspace

Next ==
  \/ \E c \in Commands : Execute(c)
  \/ \E first, second \in {q \in Queued : q.key \in Plain} : Exec(first, second)
  \/ Tick
Spec == Init /\ [][Next]_vars

--------------------------------------------------------------------------------
View(ks) == [k \in LiveKeys(ks) |-> ks[k]]

\* Lazy expiry shows nowhere: a command answers and leaves what it would if expired keys had
\* been removed at once.
ExpiryUnseen(c, ran) ==
  LET swept == Run(Deleted(keyspace, Key \ LiveKeys(keyspace)), c)
  IN ran.reply = swept.reply /\ View(ran.ks) = View(swept.ks)

\* A command other than those that set or clear it keeps the time to live of a key that it
\* changes, and the kind of every key.
TtlAndKindKept(c, ran) ==
  \A k \in LiveKeys(keyspace) \cap LiveKeys(ran.ks) :
    /\ c.cmd \notin {"SET", "MSET", "EXPIRE", "PERSIST"} => ran.ks[k].exp = keyspace[k].exp
    /\ c.cmd # "MSET" => ran.ks[k].kind = keyspace[k].kind

\* A command that fails changes nothing, but for an empty hash or sorted set made before an
\* argument was read; no other command leaves an empty container behind.
BadArgument(c) == c.cmd \in Adders /\ c.n = None
FailuresHarmless(c, ran) ==
  /\ (ran.reply = <<"error">> /\ ~BadArgument(c)) => View(ran.ks) = View(keyspace)
  /\ \A k \in LiveKeys(ran.ks) :
       (ran.ks[k].kind # "string" /\ ran.ks[k].value = Empty(ran.ks[k].kind)) =>
         BadArgument(c) \/ (Live(keyspace, k) /\ ran.ks[k].value = keyspace[k].value)

\* SET NX, on which the locks rest, is granted to nobody while a grant lasts.
GrantedOnce(c, ran) ==
  (c.cmd = "SET" /\ c.cond = "NX" /\ ran.reply = <<"ok", "OK">>) =>
    c.key \notin LiveKeys(keyspace) /\ Run(ran.ks, c).reply = <<"nil">>

CommandsLawful ==
  \A c \in Commands : LET ran == Run(keyspace, c)
    IN ExpiryUnseen(c, ran) /\ TtlAndKindKept(c, ran) /\ FailuresHarmless(c, ran) /\ GrantedOnce(c, ran)

\* ZCOUNT tells what ZREMRANGEBYSCORE removes and ZRANGEBYSCORE lists in order: what one range
\* leaves out, the ranges below and above it hold.
ScoresSplit ==
  \A k \in LiveKeys(keyspace) : keyspace[k].kind = "zset" =>
    LET z == keyspace[k].value  lowest == [value |-> 0, exclusive |-> FALSE]  highest == [value |-> MaxLen + 1, exclusive |-> FALSE]
    IN \A b \in Bounds :
         LET other == [b EXCEPT !.exclusive = ~@]
         IN ByScore(z, lowest, b) \o ByScore(z, other, highest) = Sorted(z)

\* LRANGE and ZRANGE take the elements from start to stop, counted from either end, as long
\* as stop is not more than one place before the first (then slice() counts it from the end
\* a second time).
RangesRight ==
  \A k \in LiveKeys(keyspace) : keyspace[k].kind = "list" =>
    LET s == keyspace[k].value  At(i) == IF i < 0 THEN Len(s) + i ELSE i
    IN \A a, b \in -3..1 : At(b) >= -1 =>
         Range1(s, a, b) = SubSeq(s, Max0(At(a)) + 1, IF At(b) >= Len(s) THEN Len(s) ELSE At(b) + 1)
================================================================================
