--------------------------------- MODULE Commands ---------------------------------
(* The commands a driver sends: the calls of BaseRedisDriver, direct or in a pipeline, and   *)
(* the keys among their arguments that ioredis and NodeRedisAdapter give the keyPrefix, and  *)
(* that the cluster client of node-redis routes by. An argument is a key ("k"), another one  *)
(* ("v") or a word; options that follow the last key are one value.                          *)
EXTENDS Integers, FiniteSets, Sequences

CONSTANTS MaxQueue   \* BOUND: commands of a pipeline

VARIABLES
  driver,   \* "ioredis" or "node-redis", with a keyPrefix
  via,      \* whether the caller has the "driver" or RedisService, "service"
  queue,    \* what a pipeline has queued
  sent,     \* the last command, or the commands of the last exec(), as they are sent
  results   \* of exec(): which commands failed; for each entry the command it is about, and its error

vars == <<driver, via, queue, sent, results>>

--------------------------------------------------------------------------------
(* Every call of the driver, by the part of Redis it is about.                             *)
Call(cmd, args) == [cmd |-> cmd, args |-> args]
Each(cmds, argss) == {Call(c, a) : c \in cmds, a \in argss}
Some(word) == {<<word>>, <<word, word>>}
KeyAnd(tails) == {<<"k">> \o t : t \in tails}
Values == {<<"v">>, <<"v", "v">>}

\* set() adds each option that is given; the value of an expiry may be zero.
Expiries == {"", "0", "1"}
Expiry(word, n) == IF n = "" THEN <<>> ELSE <<word, n>>
SetArgs(ex, px) == <<"k", "v">> \o Expiry("EX", ex) \o Expiry("PX", px)
SetCalls == {Call("SET", SetArgs(ex, px)) : ex \in Expiries, px \in Expiries} \cup {Call("SET", <<"k", "v", w>>) : w \in {"NX", "XX", "GET", "KEEPTTL"}}

StringCalls ==
  Each({"GET", "GETDEL", "GETEX", "INCR", "DECR", "STRLEN"}, {<<"k">>})
    \cup Each({"SETNX", "GETEX", "INCRBY", "DECRBY", "APPEND", "INCRBYFLOAT"}, {<<"k", "v">>})
    \cup Each({"SETEX", "GETRANGE", "SETRANGE"}, {<<"k", "v", "v">>})
    \cup Each({"MGET"}, Some("k")) \cup Each({"MSET", "MSETNX"}, {<<"k", "v">>, <<"k", "v", "k", "v">>})

KeyCalls ==
  Each({"DEL", "EXISTS", "UNLINK", "TOUCH"}, Some("k"))
    \cup Each({"TTL", "PTTL", "PERSIST", "TYPE", "DUMP"}, {<<"k">>})
    \cup Each({"EXPIRE", "PEXPIRE", "EXPIREAT"}, {<<"k", "v">>}) \cup Each({"RESTORE"}, {<<"k", "v", "v">>})
    \cup Each({"RENAME", "RENAMENX", "COPY"}, {<<"k", "k">>}) \cup Each({"COPY"}, {<<"k", "k", "v">>})
    \cup Each({"SCAN"}, Values) \cup Each({"KEYS"}, {<<"v">>}) \cup Each({"OBJECT"}, {<<"v", "k">>})

HashCalls ==
  Each({"HGETALL", "HKEYS", "HVALS", "HLEN", "HRANDFIELD"}, {<<"k">>})
    \cup Each({"HGET", "HEXISTS", "HSTRLEN", "HSCAN", "HRANDFIELD"}, {<<"k", "v">>})
    \cup Each({"HSET", "HSETNX", "HINCRBY", "HINCRBYFLOAT", "HMSET"}, {<<"k", "v", "v">>})
    \cup Each({"HMGET", "HDEL"}, KeyAnd(Values))

ListCalls ==
  Each({"LPOP", "RPOP", "LLEN"}, {<<"k">>}) \cup Each({"LINDEX"}, {<<"k", "v">>})
    \cup Each({"LRANGE", "LTRIM", "LSET", "LREM", "LPOS"}, {<<"k", "v", "v">>}) \cup Each({"LINSERT"}, {<<"k", "v", "v", "v">>})
    \cup Each({"LPUSH", "RPUSH", "LPOS"}, KeyAnd(Values))
    \cup Each({"BLPOP", "BRPOP"}, {<<"k", "v">>, <<"k", "k", "v">>})
    \cup Each({"LMOVE", "BLMOVE"}, {<<"k", "k", "v", "v">>})

Combined == {<<"k", "k">>, <<"k", "k", "k">>}
CollectionCalls ==
  Each({"SMEMBERS", "SCARD", "SRANDMEMBER", "SPOP"}, {<<"k">>})
    \cup Each({"SADD", "SREM", "SMISMEMBER", "SISMEMBER", "SRANDMEMBER", "SPOP", "SSCAN"}, KeyAnd(Values))
    \cup Each({"SMOVE"}, {<<"k", "k", "v">>})
    \cup Each({"SINTER", "SUNION", "SDIFF"}, Some("k")) \cup Each({"SINTERSTORE", "SUNIONSTORE", "SDIFFSTORE"}, Combined)

SortedSetCalls ==
  Each({"ZCARD", "ZPOPMIN", "ZPOPMAX"}, {<<"k">>})
    \cup Each({"ZREM", "ZSCORE", "ZRANK", "ZREVRANK", "ZPOPMIN", "ZPOPMAX", "ZSCAN"}, KeyAnd(Values))
    \cup Each({"ZADD", "ZRANGE", "ZRANGEBYSCORE", "ZINCRBY", "ZCOUNT", "ZLEXCOUNT"}, {<<"k", "v", "v">>})
MoreSortedSetCalls ==
  Each({"BZPOPMIN", "BZPOPMAX"}, {<<"k", "v">>, <<"k", "k", "v">>})
    \cup Each({"ZUNIONSTORE", "ZINTERSTORE"}, {<<"k", "v", "k">>, <<"k", "v", "k", "k", "v">>})
    \cup Each({"ZMSCORE"}, KeyAnd(Values)) \cup Each({"ZRANDMEMBER"}, {<<"k">>, <<"k", "v">>}) \cup Each({"ZREVRANGEBYSCORE"}, {<<"k", "v", "v">>})

PubSubCalls ==
  Each({"PUBLISH"}, {<<"v", "v">>}) \cup Each({"SUBSCRIBE", "UNSUBSCRIBE", "PSUBSCRIBE", "PUNSUBSCRIBE"}, Values)

Reads == {<<"STREAMS", "k", "v">>, <<"v", "STREAMS", "k", "v">>, <<"STREAMS", "k", "k", "v", "v">>}
StreamCalls ==
  Each({"XADD"}, {<<"k", "v", "v", "v">>}) \cup Each({"XREAD"}, Reads) \cup Each({"XREADGROUP"}, {<<"GROUP", "v", "v">> \o r : r \in Reads})
    \cup Each({"XRANGE", "XREVRANGE"}, {<<"k", "v", "v">>}) \cup Each({"XLEN"}, {<<"k">>}) \cup Each({"XTRIM"}, {<<"k", "v", "v">>})
    \cup Each({"XINFO"}, {<<"STREAM", "k">>})
GroupCalls ==
  Each({"XGROUP"}, {<<w, "k", "v", "v">> : w \in {"CREATE", "DELCONSUMER", "SETID"}} \cup {<<"DESTROY", "k", "v">>})
    \cup Each({"XACK"}, {<<"k", "v", "v">>}) \cup Each({"XPENDING"}, {<<"k", "v">>, <<"k", "v", "v", "v", "v">>})
    \cup Each({"XCLAIM"}, {<<"k", "v", "v", "v", "v">>}) \cup Each({"XDEL"}, KeyAnd(Values))

\* The second argument of EVAL and EVALSHA is the number of keys.
ScriptCalls ==
  Each({"EVAL", "EVALSHA"}, {<<"v", "0">>, <<"v", "0", "v">>, <<"v", "1", "k", "v">>, <<"v", "2", "k", "k">>})
    \cup Each({"SCRIPT"}, {<<"LOAD", "v">>, <<"EXISTS", "v">>, <<"FLUSH">>})

ProbabilisticAndGeoCalls ==
  Each({"PFADD"}, KeyAnd(Values)) \cup Each({"PFCOUNT"}, Some("k")) \cup Each({"PFMERGE"}, Combined)
    \cup Each({"GEOADD", "GEODIST", "GEOHASH", "GEOPOS", "GEOSEARCH"}, {<<"k", "v", "v">>})
    \cup Each({"GEOSEARCHSTORE"}, {<<"k", "k", "v">>})

BitAndServerCalls ==
  Each({"SETBIT", "GETBIT", "BITPOS", "BITCOUNT"}, {<<"k", "v", "v">>}) \cup Each({"BITOP"}, {<<"v", "k", "k">>})
    \cup Each({"PING", "FLUSHDB", "FLUSHALL", "INFO", "DBSIZE", "TIME"}, {<<>>})
    \cup Each({"PING", "INFO", "SELECT", "CLUSTER", "SENTINEL"}, {<<"v">>})

Calls ==
  SetCalls \cup StringCalls \cup KeyCalls \cup HashCalls \cup ListCalls \cup CollectionCalls \cup SortedSetCalls \cup MoreSortedSetCalls
    \cup PubSubCalls \cup StreamCalls \cup GroupCalls \cup ScriptCalls \cup ProbabilisticAndGeoCalls \cup BitAndServerCalls

\* RedisService offers a part of them on the default client.
ServiceStrings ==
  {"PING", "SELECT", "GET", "SET", "MGET", "MSET", "SETNX", "SETEX", "GETDEL", "GETEX", "INCR", "INCRBY", "DECR", "DECRBY", "APPEND"}
ServiceKeys ==
  {"DEL", "EXISTS", "EXPIRE", "PEXPIRE", "EXPIREAT", "TTL", "PTTL", "PERSIST", "RENAME", "RENAMENX", "TYPE", "SCAN"}
ServiceHashes ==
  {"HGET", "HSET", "HMSET", "HMGET", "HGETALL", "HDEL", "HEXISTS", "HKEYS", "HVALS", "HLEN", "HINCRBY", "HSCAN"}
ServiceLists == {"LPUSH", "RPUSH", "LPOP", "RPOP", "LLEN", "LRANGE", "LTRIM", "LINDEX", "LSET"}
ServiceSets == {"SADD", "SREM", "SMEMBERS", "SISMEMBER", "SCARD", "SRANDMEMBER", "SPOP", "SSCAN"}
ServiceSortedSets == {"ZADD", "ZREM", "ZRANGE", "ZRANGEBYSCORE", "ZSCORE", "ZCARD", "ZRANK", "ZINCRBY", "ZSCAN"}
ServiceScriptsAndServer ==
  {"PUBLISH", "SUBSCRIBE", "UNSUBSCRIBE", "PSUBSCRIBE", "PUNSUBSCRIBE", "EVAL", "EVALSHA", "SCRIPT", "FLUSHDB", "FLUSHALL", "INFO", "DBSIZE"}
ServiceCommands == ServiceStrings \cup ServiceKeys \cup ServiceHashes \cup ServiceLists \cup ServiceSets \cup ServiceSortedSets \cup ServiceScriptsAndServer

--------------------------------------------------------------------------------
(* What IRedisDriver declares: which parameters of the methods of a command are keys.       *)
(* "key": the first; "keys": all of them; "data": the fields of a record; "pair": the first *)
(* two; "into": a destination and its sources; "listed": a list before a timeout; "counted":*)
(* a destination and a list with its length; "word": what follows a word of the command;    *)
(* "streams", "script": see below; "none": no parameter.                                    *)
DeclaredConnection == [none |-> {"PING", "SELECT"}]
DeclaredStrings ==
  [key |-> {"GET", "SET", "SETNX", "SETEX", "GETDEL", "GETEX", "INCR", "INCRBY", "DECR", "DECRBY", "APPEND", "STRLEN", "INCRBYFLOAT",
            "GETRANGE", "SETRANGE"},
   keys |-> {"MGET"}, data |-> {"MSET", "MSETNX"}]
DeclaredKeys ==
  [key |-> {"EXPIRE", "PEXPIRE", "EXPIREAT", "TTL", "PTTL", "PERSIST", "TYPE", "DUMP", "RESTORE"},
   keys |-> {"DEL", "EXISTS", "UNLINK", "TOUCH"}, pair |-> {"RENAME", "RENAMENX", "COPY"}, word |-> {"OBJECT"},
   none |-> {"SCAN", "KEYS", "TIME"}]
DeclaredHashes ==
  [key |-> {"HGET", "HSET", "HMSET", "HMGET", "HGETALL", "HDEL", "HEXISTS", "HKEYS", "HVALS", "HLEN", "HINCRBY", "HSCAN", "HSETNX",
            "HINCRBYFLOAT", "HSTRLEN", "HRANDFIELD"}]
DeclaredLists ==
  [key |-> {"LPUSH", "RPUSH", "LPOP", "RPOP", "LLEN", "LRANGE", "LTRIM", "LINDEX", "LSET", "LINSERT", "LREM", "LPOS"},
   listed |-> {"BLPOP", "BRPOP"}, pair |-> {"LMOVE", "BLMOVE"}]
DeclaredSets ==
  [key |-> {"SADD", "SREM", "SMEMBERS", "SISMEMBER", "SCARD", "SRANDMEMBER", "SPOP", "SSCAN", "SMISMEMBER"}, pair |-> {"SMOVE"},
   keys |-> {"SINTER", "SUNION", "SDIFF"}, into |-> {"SINTERSTORE", "SUNIONSTORE", "SDIFFSTORE"}]
DeclaredSortedSets ==
  [key |-> {"ZADD", "ZREM", "ZRANGE", "ZRANGEBYSCORE", "ZSCORE", "ZCARD", "ZRANK", "ZINCRBY", "ZSCAN", "ZREVRANK", "ZCOUNT", "ZLEXCOUNT",
            "ZPOPMIN", "ZPOPMAX", "ZMSCORE", "ZRANDMEMBER", "ZREVRANGEBYSCORE"},
   listed |-> {"BZPOPMIN", "BZPOPMAX"}, counted |-> {"ZUNIONSTORE", "ZINTERSTORE"}]
DeclaredPubSub == [none |-> {"PUBLISH", "SUBSCRIBE", "UNSUBSCRIBE", "PSUBSCRIBE", "PUNSUBSCRIBE"}]
DeclaredStreams ==
  [key |-> {"XADD", "XRANGE", "XREVRANGE", "XLEN", "XTRIM"}, streams |-> {"XREAD", "XREADGROUP"}, word |-> {"XINFO"}]
DeclaredGroups == [key |-> {"XACK", "XPENDING", "XCLAIM", "XDEL"}, word |-> {"XGROUP"}]
DeclaredScripts == [script |-> {"EVAL", "EVALSHA"}, none |-> {"SCRIPT", "FLUSHDB", "FLUSHALL", "INFO", "DBSIZE"}]
DeclaredLogsAndGeo ==
  [key |-> {"PFADD", "GEOADD", "GEODIST", "GEOHASH", "GEOPOS", "GEOSEARCH"}, keys |-> {"PFCOUNT"},
   into |-> {"PFMERGE"}, pair |-> {"GEOSEARCHSTORE"}]
DeclaredBitsAndServer ==
  [key |-> {"SETBIT", "GETBIT", "BITCOUNT", "BITPOS"}, word |-> {"BITOP"}, none |-> {"CLUSTER", "SENTINEL"}]
Declarations ==
  {DeclaredConnection, DeclaredStrings, DeclaredKeys, DeclaredHashes, DeclaredLists, DeclaredSets, DeclaredSortedSets, DeclaredPubSub,
   DeclaredStreams, DeclaredGroups, DeclaredScripts, DeclaredLogsAndGeo, DeclaredBitsAndServer}
Declare(cmd, shape) == \E d \in Declarations : shape \in DOMAIN d /\ cmd \in d[shape]
ShapesOf(cmd) == {shape \in UNION {DOMAIN d : d \in Declarations} : Declare(cmd, shape)}

\* The arguments of a call that are keys, and those that are not, as one of the shapes has it.
Arranged(shape, call) ==
  LET all == DOMAIN call.args   keys == {i \in all : call.args[i] = "k"}   n == Len(call.args)
      streams == {i \in all : i > 1 /\ \E j \in 1..(i - 1) : call.args[j] = "STREAMS"}
  IN CASE shape = "key"            -> keys = {1}
       [] shape \in {"keys", "into"} -> keys = all
       [] shape = "data"           -> keys = {i \in all : i % 2 = 1}
       [] shape = "pair"           -> keys = {1, 2}
       [] shape = "listed"         -> keys = 1..(n - 1)
       [] shape = "counted"        -> {1, 3} \subseteq keys /\ \A i \in keys : i # 2 /\ 3..i \subseteq keys
       [] shape = "word"           -> keys = IF call.cmd = "BITOP" THEN 2..n ELSE {2}
       [] shape = "streams"        -> keys = {i \in streams : 2 * (n - i) >= Cardinality(streams)}
       [] shape = "script"         -> keys = 3..(2 + CASE call.args[2] = "0" -> 0 [] call.args[2] = "1" -> 1 [] OTHER -> 2)
       [] OTHER                    -> keys = {}

--------------------------------------------------------------------------------
(* The keys a command is given the prefix at.                                              *)
KeysOf(call) == {i \in DOMAIN call.args : call.args[i] = "k"}

MultiKeyCommands == {"MGET", "DEL", "EXISTS", "TOUCH", "UNLINK", "WATCH"}
DestSourceCommands ==
  {"RENAME", "RENAMENX", "COPY", "BITOP", "SINTERSTORE", "SUNIONSTORE", "SDIFFSTORE", "ZUNIONSTORE", "ZINTERSTORE", "PFMERGE",
   "GEOSEARCHSTORE", "LMOVE", "BLMOVE"}
TwoKeyCommands == {"RENAME", "RENAMENX", "COPY", "LMOVE", "BLMOVE"}
\* All the other commands of Calls but these take the prefix at their first argument.
UnlistedCommands ==
  {"SINTER", "SUNION", "SDIFF", "SMOVE", "BLPOP", "BRPOP", "BZPOPMIN", "BZPOPMAX", "EVAL", "EVALSHA", "SCRIPT", "KEYS",
   "PUBLISH", "SUBSCRIBE", "UNSUBSCRIBE", "PSUBSCRIBE", "PUNSUBSCRIBE", "PING", "SELECT", "FLUSHDB", "FLUSHALL", "INFO",
   "DBSIZE", "TIME", "CLUSTER", "SENTINEL"}

\* applyKeyPrefix()
PrefixedWithoutPairs(call) ==
  LET all == DOMAIN call.args
  IN CASE call.cmd \in MultiKeyCommands   -> all
       [] call.cmd \in DestSourceCommands -> all \cap (IF call.cmd \in TwoKeyCommands THEN {1, 2} ELSE {1})
       [] call.cmd \in UnlistedCommands   -> {}
       [] OTHER                           -> all \cap {1}
Prefixed(call) ==
  LET all == DOMAIN call.args
  IN CASE call.cmd \in MultiKeyCommands   -> all
       [] call.cmd \in DestSourceCommands -> all \cap (IF call.cmd \in TwoKeyCommands THEN {1, 2} ELSE {1})
       [] call.cmd \in {"MSET", "MSETNX"} -> {i \in all : i % 2 = 1}
       [] call.cmd \in UnlistedCommands   -> {}
       [] OTHER                           -> all \cap {1}

\* executeCommand(): ioredis knows the keys of each command by itself.
AsSent(call) == [call |-> call, prefixed |-> IF driver = "ioredis" THEN KeysOf(call) ELSE Prefixed(call)]

--------------------------------------------------------------------------------
(* Routing in a cluster of node-redis.                                                     *)
NoKeyCommands == {"PING", "INFO", "DBSIZE", "TIME", "CLUSTER", "FLUSHALL", "FLUSHDB", "SELECT", "PUBLISH", "SCRIPT", "OBJECT"}

\* getFirstKey(): the position it routes by, or 0.
FirstKey(call) ==
  IF call.cmd \in NoKeyCommands \/ call.args = <<>> THEN 0
  ELSE IF call.cmd \in {"EVAL", "EVALSHA"} /\ Len(call.args) > 2
       THEN IF call.args[2] # "0" THEN 3 ELSE 0
       ELSE 1

\* isReadonlyCommand(): what may be sent to a replica.
Readonly(cmd) ==
  cmd \in {"GET", "MGET", "STRLEN", "GETRANGE", "BITCOUNT", "BITPOS", "GETBIT", "EXISTS", "TYPE", "TTL", "PTTL", "HGET", "HMGET",
           "HGETALL", "HKEYS", "HVALS", "HLEN", "HEXISTS", "HSCAN", "HSTRLEN", "HRANDFIELD", "LINDEX", "LLEN", "LRANGE", "LPOS",
           "SMEMBERS", "SISMEMBER", "SCARD", "SRANDMEMBER", "SSCAN", "SMISMEMBER", "ZRANGE", "ZRANGEBYSCORE", "ZREVRANGEBYSCORE",
           "ZRANK", "ZREVRANK", "ZCOUNT", "ZLEXCOUNT", "ZCARD", "ZSCORE", "ZMSCORE", "ZRANDMEMBER", "ZSCAN", "PFCOUNT", "GEODIST",
           "GEOHASH", "GEOPOS", "GEOSEARCH", "XLEN", "XRANGE", "XREVRANGE", "XREAD", "XINFO", "XPENDING", "SCAN", "KEYS",
           "DBSIZE", "DUMP", "OBJECT", "INFO", "PING", "TIME"}

\* Redis: the commands that write.
Writes ==
  {"SET", "GETDEL", "GETEX", "INCR", "DECR", "SETNX", "INCRBY", "DECRBY", "APPEND", "INCRBYFLOAT", "SETEX", "SETRANGE", "MSET",
   "MSETNX", "DEL", "UNLINK", "PERSIST", "EXPIRE", "PEXPIRE", "EXPIREAT", "RESTORE", "RENAME", "RENAMENX", "COPY",
   "HSET", "HSETNX", "HINCRBY", "HINCRBYFLOAT", "HMSET", "HDEL", "LPOP", "RPOP", "LTRIM", "LSET", "LREM", "LINSERT", "LPUSH",
   "RPUSH", "BLPOP", "BRPOP", "LMOVE", "BLMOVE", "SPOP", "SADD", "SREM", "SMOVE", "SINTERSTORE", "SUNIONSTORE", "SDIFFSTORE",
   "ZPOPMIN", "ZPOPMAX", "ZREM", "ZADD", "ZINCRBY", "BZPOPMIN", "BZPOPMAX", "ZUNIONSTORE", "ZINTERSTORE", "XADD", "XREADGROUP",
   "XTRIM", "XGROUP", "XACK", "XCLAIM", "XDEL", "EVAL", "EVALSHA", "PFADD", "PFMERGE", "GEOADD", "GEOSEARCHSTORE", "SETBIT",
   "BITOP", "FLUSHDB", "FLUSHALL"}

--------------------------------------------------------------------------------
(* Pipelines and transactions.                                                             *)

\* The options of set() in a pipeline: EX when it is given and not zero, else PX likewise.
PipelineSetArgs(ex, px) ==
  <<"k", "v">> \o (CASE ex = "1" -> <<"EX", ex>> [] ex # "1" /\ px = "1" -> <<"PX", px>> [] OTHER -> <<>>)

\* Each method of a pipeline of node-redis adds the prefix by itself.
PipelineCommands ==
  {"GET", "DEL", "MGET", "MSET", "EXPIRE", "TTL", "INCR", "INCRBY", "HGET", "HSET", "HMSET", "HGETALL", "LPUSH", "RPUSH",
   "SADD", "SREM", "ZADD", "ZREM"}
PipelinePrefixedFirst(call) == {1}
PipelinePrefixed(call) ==
  CASE call.cmd \in {"DEL", "MGET"} -> DOMAIN call.args
    [] call.cmd = "MSET"            -> {i \in DOMAIN call.args : i % 2 = 1}
    [] OTHER                        -> {1}
QueuedAs(call) == [call |-> call, prefixed |-> IF driver = "ioredis" THEN KeysOf(call) ELSE PipelinePrefixed(call)]

\* exec(): node-redis runs a transaction, which fails as a whole.
Outcome(n, failed) ==
  IF driver = "ioredis" \/ failed = {}
  THEN [i \in 1..n |-> [of |-> i, error |-> i \in failed]]
  ELSE <<[of |-> 0, error |-> TRUE]>>

--------------------------------------------------------------------------------
NoResults == [failed |-> {}, list |-> <<>>]
Init ==
  /\ driver \in {"ioredis", "node-redis"} /\ via \in {"driver", "service"}
  /\ queue = <<>> /\ sent = <<>> /\ results = NoResults

Direct(call) ==
  /\ queue = <<>> /\ sent = <<>> /\ (via = "service" => call.cmd \in ServiceCommands)
  /\ sent' = <<AsSent(call)>>
  /\ UNCHANGED <<driver, via, queue, results>>

Enqueue(call) ==
  /\ sent = <<>> /\ Len(queue) < MaxQueue
  /\ queue' = Append(queue, QueuedAs(call))
  /\ UNCHANGED <<driver, via, sent, results>>

\* exec(). The pipelines of node-redis keep what they sent, and send it again with the next exec().
Exec(failed) ==
  /\ queue # <<>> /\ sent = <<>>
  /\ sent' = queue /\ results' = [failed |-> failed, list |-> Outcome(Len(queue), failed)]
  /\ queue' = IF driver = "ioredis" THEN <<>> ELSE queue
  /\ UNCHANGED <<driver, via>>

\* discard(), or the caller takes another pipeline.
Discard == queue # <<>> /\ sent = <<>> /\ queue' = <<>> /\ UNCHANGED <<driver, via, sent, results>>

\* The caller has its answer.
Answered == sent # <<>> /\ sent' = <<>> /\ results' = NoResults /\ UNCHANGED <<driver, via, queue>>

Next ==
  \/ \E call \in Calls : Direct(call)
  \/ \E call \in Calls : call.cmd \in PipelineCommands /\ Enqueue(call)
  \/ \E ex, px \in Expiries : Enqueue(Call("SET", PipelineSetArgs(ex, px)))
  \/ \E failed \in SUBSET DOMAIN queue : Exec(failed)
  \/ Discard \/ Answered

Spec == Init /\ [][Next]_vars

--------------------------------------------------------------------------------
\* NodeRedisAdapter "emulates ioredis keyPrefix functionality" (node-redis.adapter.ts:622):
\* with the same configuration the same keys are read and written.
EmulatesKeyPrefix == \A i \in DOMAIN sent : sent[i].prefixed = KeysOf(sent[i].call)

\* The commands whose keys it does not know: scripts, the sources of a combination, blocking
\* pops; and those whose first argument it takes for a key.
KeyBlind ==
  {"EVAL", "EVALSHA", "SINTER", "SUNION", "SDIFF", "SMOVE", "BLPOP", "BRPOP", "BZPOPMIN", "BZPOPMAX", "SINTERSTORE", "SUNIONSTORE",
   "SDIFFSTORE", "ZUNIONSTORE", "ZINTERSTORE", "PFMERGE", "PFCOUNT", "GEOSEARCHSTORE", "BITOP", "OBJECT", "SCAN", "XREAD",
   "XREADGROUP", "XGROUP", "XINFO"}

\* Every command is declared once, and each of its calls has the keys that IRedisDriver declares.
SentAsDeclared == \A call \in Calls : \E shape \in ShapesOf(call.cmd) : ShapesOf(call.cmd) = {shape} /\ Arranged(shape, call)

\* Of every other command the two drivers give the same arguments the prefix; a cluster is
\* routed by a key of theirs, and what writes goes to a master (node-redis.adapter.ts:580).
SameKeys ==
  \A i \in DOMAIN sent : LET call == sent[i].call IN
    /\ call.cmd \notin KeyBlind => sent[i].prefixed = KeysOf(call)
    /\ KeysOf(call) # {} /\ call.cmd \notin KeyBlind \ {"EVAL", "EVALSHA"} => FirstKey(call) \in KeysOf(call)
    /\ Readonly(call.cmd) => call.cmd \notin Writes

\* A pipeline sends what the same calls send one by one, with a positive expiry too; each
\* result is that of its command unless the pipeline reports an error, and a failure is
\* never taken for success.
PipelineAgrees ==
  /\ \A i \in DOMAIN sent : sent[i] = AsSent(sent[i].call)
  /\ \A ex, px \in Expiries : {ex, px} = {"", "1"} => PipelineSetArgs(ex, px) = SetArgs(ex, px)
  /\ results.list # <<>> =>
       IF results.failed = {} THEN results.list = [i \in DOMAIN sent |-> [of |-> i, error |-> FALSE]]
       ELSE \E i \in DOMAIN results.list : results.list[i].error /\ results.list[i].of \in results.failed \cup {0}

===================================================================================
