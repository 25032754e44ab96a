----------------------------- MODULE LocalCache -----------------------------
(* The cache in mode 'l1-only': CacheService over the memory tier, the
   in-memory store that stands for Redis and the in-memory tag index, all in
   one process. Calls overlap at every `await`. A value is named by the call
   that writes it; one tag, given to the keys in Tagged; entries of the
   memory tier may vanish at any time (life over, or evicted). *)
EXTENDS Naturals, FiniteSets, Sequences
CONSTANTS Key, Tagged, Nothing,
          LocalCall       \* the numbers of the calls, in the order of their beginning

ASSUME LocalAssumption == IsFiniteSet(Key) /\ Tagged \subseteq Key /\ LocalCall \subseteq Nat /\ Nothing \notin LocalCall

VARIABLES near,     \* the memory tier: key -> value or Nothing
          far,      \* the in-memory L2 store
          sets,     \* the Set objects of the tag's keys, in the order of their creation
          current,  \* the one in the tag index, or 0
          calls
localVars == <<near, far, sets, current, calls>>

Writing  == {"set", "setMany"}
Reading  == {"get", "getMany", "has"}
Removing == {"delete", "deleteMany", "invalidate", "clear"}
Unbegun == [op |-> "none", keys |-> {}, pc |-> "new", todo |-> {}, val |-> {}, mine |-> 0, before |-> {}]
Done == {c \in LocalCall : calls[c].pc = "done"}
Members == IF current = 0 THEN {} ELSE sets[current]

LocalInit == /\ near = [k \in Key |-> Nothing] /\ far = near
             /\ sets = <<>> /\ current = 0 /\ calls = [c \in LocalCall |-> Unbegun]

FirstStep(o) == CASE o \in Writing -> "store" [] o = "get" -> "readNear" [] o = "getMany" -> "read" [] o = "has" -> "hasNear"
                  [] o \in {"delete", "deleteMany"} -> "dropNear" [] o = "clear" -> "clearNear"
                  [] o = "invalidate" -> "members"
Begun(o, K) == [op |-> o, keys |-> K, pc |-> FirstStep(o), todo |-> K, val |-> {}, mine |-> 0, before |-> Done]
Single(o) == o \in {"set", "get", "has", "delete"}
Start(c, o, K) ==
  /\ calls[c].pc = "new" /\ (\A d \in LocalCall : d < c => calls[d].pc # "new")    \* calls are interchangeable
  /\ (Single(o) => Cardinality(K) = 1) /\ (o \in {"invalidate", "clear"} => K = Key)
  /\ calls' = [calls EXCEPT ![c] = Begun(o, K)]
  /\ UNCHANGED <<near, far, sets, current>>

Stands(c, pc) == calls[c].pc = pc
Goes(c, pc) == calls' = [calls EXCEPT ![c].pc = pc]
Goes2(c, pc, todo) == calls' = [calls EXCEPT ![c].pc = pc, ![c].todo = todo]
Put(m, K, v) == [k \in Key |-> IF k \in K THEN v ELSE m[k]]
One(c) == CHOOSE k \in calls[c].keys : TRUE

\* --------------------------------------------------------------- set(), setMany()
Store(c) == /\ Stands(c, "store") /\ far' = Put(far, calls[c].keys, c)
            /\ Goes(c, IF calls[c].op = "set" THEN "storeNear" ELSE "index")
            /\ UNCHANGED <<near, sets, current>>
StoreNear(c) == Stands(c, "storeNear") /\ near' = Put(near, calls[c].keys, c) /\ Goes(c, "index")
                /\ UNCHANGED <<far, sets, current>>
IndexAnew(c, k) ==    \* mutant: the tag's Set is replaced
  /\ Stands(c, "index") /\ k \in calls[c].todo
  /\ IF k \notin Tagged THEN UNCHANGED <<sets, current>> ELSE sets' = Append(sets, {k}) /\ current' = Len(sets) + 1
  /\ Goes2(c, IF calls[c].todo = {k} THEN "done" ELSE "index", calls[c].todo \ {k})
  /\ UNCHANGED <<near, far>>
Index(c, k) ==
  /\ Stands(c, "index") /\ k \in calls[c].todo
  /\ IF k \notin Tagged THEN UNCHANGED <<sets, current>>
     ELSE IF current = 0 THEN sets' = Append(sets, {k}) /\ current' = Len(sets) + 1
     ELSE sets' = [sets EXCEPT ![current] = @ \union {k}] /\ UNCHANGED current
  /\ Goes2(c, IF calls[c].todo = {k} THEN "done" ELSE "index", calls[c].todo \ {k})
  /\ UNCHANGED <<near, far>>

\* --------------------------------------------------------------- get(), getMany()
ReadNear(c) == /\ Stands(c, "readNear")
               /\ IF near[One(c)] # Nothing
                  THEN calls' = [calls EXCEPT ![c].pc = "done", ![c].val = {near[One(c)]}]
                  ELSE Goes(c, "read")
               /\ UNCHANGED <<near, far, sets, current>>
Read(c) == LET vals == {far[k] : k \in calls[c].keys} \ {Nothing} IN
           /\ Stands(c, "read")
           /\ calls' = [calls EXCEPT ![c].val = vals, ![c].pc = IF @ = "read" /\ calls[c].op = "get" /\ vals # {}
                                                              THEN "fill" ELSE "done"]
           /\ UNCHANGED <<near, far, sets, current>>
Fill(c) == Stands(c, "fill") /\ near' = Put(near, calls[c].keys, CHOOSE v \in calls[c].val : TRUE) /\ Goes(c, "done")
           /\ UNCHANGED <<far, sets, current>>

\* --------------------------------------------------------------- has(): it fills nothing
Answers(c, v) == calls' = [calls EXCEPT ![c].pc = "done", ![c].val = {v} \ {Nothing}]
HasNear(c) == Stands(c, "hasNear") /\ (IF near[One(c)] # Nothing THEN Answers(c, near[One(c)]) ELSE Goes(c, "hasFar"))
              /\ UNCHANGED <<near, far, sets, current>>
HasFar(c) == Stands(c, "hasFar") /\ Answers(c, far[One(c)]) /\ UNCHANGED <<near, far, sets, current>>

\* --------------------------------------------------------------- delete(), deleteMany(), clear()
DropNear(c, k) == /\ Stands(c, "dropNear") /\ k \in calls[c].todo /\ near' = Put(near, {k}, Nothing)
                  /\ Goes2(c, IF calls[c].todo = {k} THEN "dropFar" ELSE "dropNear", calls[c].todo \ {k})
                  /\ UNCHANGED <<far, sets, current>>
DropFar(c) == Stands(c, "dropFar") /\ far' = Put(far, calls[c].keys, Nothing) /\ Goes(c, "done")
              /\ UNCHANGED <<near, sets, current>>
ClearNear(c) == Stands(c, "clearNear") /\ near' = Put(near, Key, Nothing) /\ Goes(c, "clearFar")
                /\ UNCHANGED <<far, sets, current>>
ClearFar(c) == Stands(c, "clearFar") /\ far' = Put(far, Key, Nothing) /\ Goes(c, "clearTags")
               /\ UNCHANGED <<near, sets, current>>
ClearTags(c) == Stands(c, "clearTags") /\ current' = 0 /\ Goes(c, "done") /\ UNCHANGED <<near, far, sets>>

\* --------------------------------------------------------------- invalidateTag()
(* The service drops from memory the keys it reads first; the index then
   walks its own Set, which sees what is added to it meanwhile, and forgets
   the tag. *)
ReadMembers(c) == Stands(c, "members") /\ Goes2(c, "dropMembers", Members) /\ UNCHANGED <<near, far, sets, current>>
DropMembers(c) == Stands(c, "dropMembers") /\ near' = Put(near, calls[c].todo, Nothing) /\ Goes(c, "walk")
                  /\ UNCHANGED <<far, sets, current>>
Walk(c) == /\ Stands(c, "walk")
           /\ IF Members = {} THEN Goes(c, "done") /\ current' = 0
              ELSE calls' = [calls EXCEPT ![c].pc = "walking", ![c].mine = current, ![c].todo = {}] /\ UNCHANGED current
           /\ UNCHANGED <<near, far, sets>>
WalkTo(c, k) == /\ Stands(c, "walking") /\ k \in sets[calls[c].mine] \ calls[c].todo
                /\ far' = Put(far, {k}, Nothing) /\ Goes2(c, "walking", calls[c].todo \union {k})
                /\ UNCHANGED <<near, sets, current>>
Walked(c) == Stands(c, "walking") /\ sets[calls[c].mine] \subseteq calls[c].todo
             /\ current' = 0 /\ Goes(c, "done") /\ UNCHANGED <<near, far, sets>>

Vanish(k) == near[k] # Nothing /\ near' = Put(near, {k}, Nothing) /\ UNCHANGED <<far, sets, current, calls>>

LocalNext ==
  \/ \E c \in LocalCall, o \in Writing \union Reading \union Removing, K \in SUBSET Key \ {{}} : Start(c, o, K)
  \/ \E c \in LocalCall : \/ Store(c) \/ StoreNear(c) \/ ReadNear(c) \/ Read(c) \/ Fill(c) \/ HasNear(c) \/ HasFar(c) \/ DropFar(c)
                          \/ ClearNear(c) \/ ClearFar(c) \/ ClearTags(c)
                          \/ ReadMembers(c) \/ DropMembers(c) \/ Walk(c) \/ Walked(c)
  \/ \E c \in LocalCall, k \in Key : Index(c, k) \/ DropNear(c, k) \/ WalkTo(c, k)
  \/ \E k \in Key : Vanish(k)
LocalSpec == LocalInit /\ [][LocalNext]_localVars

\* --------------------------------------------------------------- properties
Overlap(c, d) == c # d /\ calls[c].pc # "new" /\ calls[d].pc # "new" /\ c \notin calls[d].before /\ d \notin calls[c].before
Is(c, ops) == calls[c].op \in ops
Reaches(c, v) == IF Is(c, {"invalidate"}) THEN calls[v].keys \intersect Tagged ELSE calls[v].keys \intersect calls[c].keys

(* A value that was written before a removal began, and whose write met no
   other removal, is gone from the store when the removal is over, and from
   memory unless a get() carried it over; no read that begins later answers
   with it. The removal by tag depends on the index for this: it must know the
   value whenever nothing removed the key or the tag meanwhile. *)
RemovedForGood ==
  \A c \in Done : Is(c, Removing) =>
    \A v \in calls[c].before : Is(v, Writing) /\ ~(\E d \in LocalCall : Is(d, {"invalidate", "clear"}) /\ Overlap(v, d)) =>
      /\ \A k \in Reaches(c, v) : far[k] # v
      /\ \A k \in Reaches(c, v) : near[k] = v => \E g \in LocalCall : Is(g, {"get"}) /\ c \notin calls[g].before
      /\ \A g \in Done : c \in calls[g].before /\ Is(g, Reading) /\ calls[v].keys = Reaches(c, v) /\ v \in calls[g].val
           => \E h \in LocalCall \ {g} : Is(h, {"get"}) /\ c \notin calls[h].before
=============================================================================
