------------------------------- MODULE MCCaching -------------------------------
(* The parts of the cache package that are small: each behaviour runs one of
   them, StaleEntries, CachedCalls, InvalidationEvents and CacheKeys with their own
   variables, another with as many of seven as it needs. Those that a behaviour does not need stay as they are at first. *)
EXTENDS StaleEntries, CachedCalls, InvalidationEvents, CacheKeys, TLC

CONSTANTS Parts,                  \* the parts that this instance runs
          p, q,                   \* StaleEntries
          k1, k2, k3, k4, v,      \* MemoryStore
          r1, r2, w1, w2          \* CachedCalls

VARIABLES part, first, second, third, fourth, fifth, sixth, seventh

TwoProcesses == <<p, p, q>>

\* --------------------------------------------------------------- the instances
\* Three places for four keys.
MS == INSTANCE MemoryStore WITH
  Key <- {k1, k2, k3, k4}, Value <- {v}, MaxSize <- 3, Ttls <- {0}, MaxUses <- 2,
  policy <- first, node <- second, head <- third, tail <- fourth, answer <- fifth, since <- sixth
ASSUME MS!StoreAssumption

\* A method that reads, one that reads with either decorator, two kinds of methods that change.
KindsOf == r1 :> {"Cached"} @@ r2 :> {"Cached", "Cacheable"} @@ w1 :> {"TagsAfter", "On", "TagsBefore"}
           @@ w2 :> {"Evict", "EvictBefore", "Put"}

\* Values that sanitizeForKey() makes equal; every text of up to two characters, or three of ordinary ones.
Cleaned == "t1" :> "t1" @@ "t.2" :> "t_2" @@ "t_2" :> "t_2"
CachedOptions == {[skip |-> s, keys |-> Undefined, vary |-> {}] : s \in BOOLEAN}
                 \cup {[skip |-> FALSE, keys |-> {"locale"}, vary |-> {}], [skip |-> FALSE, keys |-> Undefined, vary |-> {"locale"}]}
VaryBy == {<<>>, "locale" :> "t1"}
Upto(S, n) == UNION {[1..k -> S] : k \in 1..n}
Texts == UNION {[1..n -> {"a", ":", " ", "{"}] : n \in 0..2} \cup [1..3 -> {"a", ":"}]

\* A message; two rules with the same tag, and one with a key.
Gives(target) == "id" :> target
UserGone == {[event |-> <<"user", "gone">>, payload |-> "id"]}
EventRule(pattern, tags, keys) == [pattern |-> pattern, accepts |-> {"id"}, tags |-> tags, keys |-> keys]
ThreeRules == {EventRule(<<"user", "#">>, {Gives("tag"), Gives(Unresolved)}, {}), EventRule(<<"user", "*">>, {Gives("tag")}, {}),
               EventRule(<<"#">>, {}, {Gives("key")})}

ES == INSTANCE EvictionStrategies WITH
  Key <- {"a", "b", "c"}, MaxCalls <- 5, keyOrder <- first, timestamp <- second, entries <- third, insertCounter <- fourth, queue <- fifth, keySet <- sixth, log <- seventh

\* Four spellings of three tags, one of them refused; S = 4 quarters of a second; a value JSON cannot write.
SetAsks(key, kind, ttl, tags) == [key |-> key, kind |-> kind, ttl |-> ttl, tags |-> tags]
ST == INSTANCE StoredEntries WITH
  Key <- {"x", "y"}, Spelling <- {" A", "a", "b", "b c"}, Form <- " A" :> "a" @@ "a" :> "a" @@ "b" :> "b" @@ "b c" :> None,
  Kind <- {"plain", "date", "bigint"}, Image <- "plain" :> "plain" @@ "date" :> "text" @@ "bigint" :> None,
  Ttls <- {1, 6, 40}, L1Ttl <- 4, MaxTtl <- 8, MaxTagsPerKey <- 1, DefaultMaxTags <- 2, S <- 4, MaxTime <- 4,
  Single <- {"x"}, Lists <- {<<>>, <<" A">>, <<"b c">>, <<"a", " A">>},
  Many <- {SetAsks("x", "plain", 4, <<" A", "a">>), SetAsks("x", "plain", 8, <<"b">>), SetAsks("x", "date", 6, <<>>),
           SetAsks("y", "plain", 40, <<>>), SetAsks("y", "plain", 40, <<"b c">>), SetAsks("y", "bigint", 4, <<>>)},
  clock <- first, redis <- second, memory <- third, index <- fourth, promised <- fifth

\* --------------------------------------------------------------- one of them runs
MCInit == /\ part \in Parts /\ Init /\ EventsInit /\ (part # "events" => rules = {})
          /\ KeysInit /\ DecoratorsInit /\ (part # "decorators" => stampede)
          /\ \/ part \in {"swr", "decorators", "events", "keys"} /\ first = 0 /\ second = 0 /\ third = 0 /\ fourth = 0 /\ fifth = 0 /\ sixth = 0 /\ seventh = 0
             \/ part = "memory" /\ MS!Init /\ seventh = 0
             \/ part = "strategies" /\ ES!Init
             \/ part = "values" /\ ST!Init /\ sixth = 0 /\ seventh = 0
seven == <<first, second, third, fourth, fifth, sixth, seventh>>
Only(name) == part = name /\ UNCHANGED <<part, vars, decoratorVars, eventVars, keyVars>>
MCNext == \/ part = "swr" /\ Next /\ UNCHANGED <<part, decoratorVars, eventVars, keyVars, seven>>
          \/ Only("memory") /\ MS!Next /\ UNCHANGED seventh
          \/ part = "decorators" /\ DecoratorsNext /\ UNCHANGED <<part, vars, eventVars, keyVars, seven>>
          \/ part = "keys" /\ KeysNext /\ UNCHANGED <<part, vars, decoratorVars, eventVars, seven>>
          \/ part = "events" /\ EventsNext /\ UNCHANGED <<part, vars, decoratorVars, keyVars, seven>>
          \/ Only("strategies") /\ ES!Next
          \/ Only("values") /\ ST!Next /\ UNCHANGED <<sixth, seventh>>
caching == <<part, vars, decoratorVars, eventVars, keyVars, seven>>
MCSpec == MCInit /\ [][MCNext]_caching

\* --------------------------------------------------------------- properties
\* Of the properties, StaleBounded is of StaleEntries, ReadsSeeChanges of CachedCalls, MarkedIsDone of InvalidationEvents, and
\* ContextKept of CacheKeys; each of the others is stated where its part is modelled.
\* A step of the list is one of the Map in order of use, and gives up the least used entry.
IsOrderedStore == /\ part = "memory" => MS!Ordered!Init
                  /\ [][part = "memory" => MS!Ordered!Next /\ MS!Ordered!LeastUsedGoes]_caching
\* Accepted values are read back, found by their tags and live no longer than asked (StoredEntries); each
\* strategy names the victim its policy promises (EvictionStrategies). And, once, the builders keep every
\* list of texts apart (CacheKeys), and patterns of up to three words match the events that a topic exchange
\* would route (InvalidationEvents).
KeptAsAsked ==
  CASE part = "values" -> ST!StoredAsAsked
    [] part = "strategies" -> ES!VictimsByHistory
    [] part = "keys" /\ ctx = Nobody /\ entries = <<>> /\ last.op = "none" ->
         KeysApart(Texts, 2) /\ MatchesAsTopic(Upto({"user", "*", "#"}, 3), Upto({"user", "gone"}, 3))
    [] OTHER -> TRUE
================================================================================
