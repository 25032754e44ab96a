-------------------------------- MODULE CacheKeys --------------------------------
(* The keys of cache entries. In one half CacheService and @Cached append the values of a    *)
(* context (tenant, locale) to a key, some calls twice; in the other keys are built from     *)
(* segments, from the arguments of a method and from templates.                              *)
EXTENDS Integers, Sequences, FiniteSets

CONSTANTS
  Undefined,
  Base, Bad,     \* keys an application uses, and keys that validation refuses
  Name, Value,   \* of context values
  Clean,         \* sanitizeForKey() of each value
  Global,        \* contextKeys of the plugin
  Options,       \* of @Cached methods: [skip : BOOLEAN, keys : a set of names or Undefined, vary : names]
  Vary,          \* varyBy options of direct calls: functions from some names to values
  MaxEntries     \* BOUND: entries at a time

ASSUME KeysAssumption ==
  /\ Undefined \notin Value /\ Global \subseteq Name
  /\ \A o \in Options : o.vary \subseteq Name /\ (o.keys = Undefined \/ o.keys \subseteq Name)
  /\ \A vary \in Vary : DOMAIN vary \subseteq Name /\ \A n \in DOMAIN vary : vary[n] \in Value

VARIABLES
  ctx,           \* the value of each name in the current request, or Undefined
  entries,       \* the cached keys and, for each, the context it was written in
  last           \* the last operation: [op, key, asked : names, in : context, from : context or Undefined]

keyVars == <<ctx, entries, last>>

\* A key and the suffixes _ctx_ it carries, each a set of <<name, value>>.
Plain(b) == [base |-> b, ctx |-> <<>>]
Marked(key) == key.ctx # <<>>
With(key, pairs) == IF pairs = {} THEN key ELSE [key EXCEPT !.ctx = Append(@, pairs)]
Pairs(context, names) == {<<n, Clean[context[n]]>> : n \in {m \in names : context[m] # Undefined}}
Override(vary) == [n \in Name |-> IF n \in DOMAIN vary THEN vary[n] ELSE ctx[n]]

\* enrichKeyWithContext(): global names and varyBy, unless the key carries the marker.
EnrichedAgain(key, vary) == With(key, Pairs(Override(vary), Global \cup DOMAIN vary))
Enriched(key, vary) == IF Marked(key) THEN key ELSE With(key, Pairs(Override(vary), Global \cup DOMAIN vary))
\* enrichWithContext() of @Cached; the service enriches what it leaves plain.
Asks(o) == (IF o.keys = Undefined THEN Global ELSE o.keys) \cup o.vary
Decorated(b, o) == IF o.skip THEN Plain(b) ELSE With(Plain(b), Pairs(ctx, Asks(o)))

Valid(b) == b \notin Bad
Nobody == [n \in Name |-> Undefined]
Found(k) == k \in DOMAIN entries
Did(op, k, asked, in, from) == last' = [op |-> op, key |-> k, asked |-> asked, in |-> in, from |-> from]
Caches(k, in) ==
  /\ Found(k) \/ Cardinality(DOMAIN entries) < MaxEntries
  /\ entries' = [x \in DOMAIN entries \cup {k} |-> IF x = k THEN in ELSE entries[x]]

KeysInit ==
  /\ ctx = Nobody /\ entries = <<>>
  /\ last = [op |-> "none", key |-> Undefined, asked |-> {}, in |-> Nobody, from |-> Nobody]

Request(c) == c # ctx /\ ctx' = c /\ Did("none", Undefined, {}, Nobody, Nobody) /\ UNCHANGED entries

\* getOrSet() enriches the key, and get(), set() do it again with the key they are given.
ReadThrough(key, asked, vary) ==
  LET k == Enriched(Enriched(key, vary), <<>>) in == Override(vary)
  IN IF Found(k) THEN Did("serve", key, asked, in, entries[k]) /\ UNCHANGED <<ctx, entries>>
     ELSE Caches(k, in) /\ Did("none", Undefined, {}, Nobody, Nobody) /\ UNCHANGED ctx
GetOrSet(b, vary) == Valid(b) /\ ReadThrough(Plain(b), Global \cup DOMAIN vary, vary)
\* A key that is refused makes @Cached run the bare method.
CachedCall(b, o) ==
  Valid(b) /\ ReadThrough(Decorated(b, o), IF o.skip THEN {} ELSE Asks(o), <<>>)

GetKey(b) ==
  LET k == Enriched(Plain(b), <<>>)
  IN /\ Valid(b) /\ Found(k)
     /\ Did("serve", Plain(b), Global, ctx, entries[k]) /\ UNCHANGED <<ctx, entries>>
SetKey(b, vary) ==
  /\ Valid(b) /\ Caches(Enriched(Plain(b), vary), Override(vary))
  /\ Did("none", Undefined, {}, Nobody, Nobody) /\ UNCHANGED ctx

\* delete(), deleteMany() of a key, or of one that getKeysByTag() returned; an invalid one is left out.
DeleteKey(key) ==
  /\ entries' = [k \in DOMAIN entries \ {Enriched(key, <<>>)} |-> entries[k]]
  /\ Did("delete", key, {}, ctx, Nobody) /\ UNCHANGED ctx
Refused(b) == ~Valid(b) /\ Did("refuse", Plain(b), {}, ctx, Nobody) /\ UNCHANGED <<ctx, entries>>

KeysNext ==
  \/ \E c \in [Name -> Value \cup {Undefined}] : Request(c)
  \/ \E b \in Base, v \in Vary : GetOrSet(b, v) \/ SetKey(b, v)
  \/ \E b \in Base, o \in Options : CachedCall(b, o)
  \/ \E b \in Base : GetKey(b) \/ Refused(b) \/ (Valid(b) /\ DeleteKey(Plain(b)))
  \/ \E k \in DOMAIN entries : DeleteKey(k)

KeysSpec == KeysInit /\ [][KeysNext]_keyVars

--------------------------------------------------------------------------------
(* Keys as sequences of characters: KeyBuilder, @Cached without a key, key templates.        *)
CONSTANTS Sep, Blank, Braces

Contains(s, cs) == \E i \in 1..Len(s) : s[i] \in cs
Trim(s) ==
  LET solid == {i \in 1..Len(s) : s[i] # Blank}
  IN IF solid = {} THEN <<>>
     ELSE SubSeq(s, CHOOSE i \in solid : \A j \in solid : i <= j, CHOOSE i \in solid : \A j \in solid : j <= i)
RefusalButSep == {Blank} \cup Braces
Refusal == {Sep, Blank} \cup Braces
Refuses(s) == s = <<>> \/ Contains(s, Refusal)
\* KeyBuilder: segment(), namespace(), tag(), version() normalise a segment; build() joins.
Segment(s) == IF Refuses(Trim(s)) THEN Undefined ELSE Trim(s)
Joined(segments) ==
  LET upto[i \in 0..Len(segments)] ==
        IF i = 0 THEN <<>> ELSE IF i = 1 THEN segments[1] ELSE upto[i - 1] \o <<Sep>> \o segments[i]
  IN upto[Len(segments)]
WellFormed(key) ==
  /\ key # <<>> /\ key[1] # Sep /\ key[Len(key)] # Sep
  /\ \A i \in 1..(Len(key) - 1) : ~(key[i] = Sep /\ key[i + 1] = Sep)
Build(raw) ==
  LET segments == [i \in DOMAIN raw |-> Segment(raw[i])]
  IN IF raw = <<>> \/ (\E i \in DOMAIN raw : segments[i] = Undefined) \/ ~WellFormed(Joined(segments))
     THEN Undefined ELSE Joined(segments)
\* buildCacheKey() of @Cached joins the serialised arguments as they are.
Automatic(args) == Joined(args)
\* generateKey() of @Cacheable: the value of a placeholder has no separator and no brace.
Filled(value) == IF Contains(value, {Sep} \cup Braces) THEN Undefined ELSE value
Template(values) ==
  IF \E i \in DOMAIN values : Filled(values[i]) = Undefined THEN Undefined ELSE Joined(values)

--------------------------------------------------------------------------------
\* A read is served only with an entry of an equal context, in every name it asks for that has
\* a value (contextKeys, varyBy), though the key passes the enrichment once in @Cached and up to
\* twice in CacheService; and delete() removes what any plain read of the same key would find.
ContextKept ==
  /\ last.op = "serve" =>
       \A n \in last.asked : last.in[n] # Undefined =>
         last.from[n] # Undefined /\ Clean[last.from[n]] = Clean[last.in[n]]
  /\ last.op = "delete" /\ ~Marked(last.key) =>
       \A skip \in BOOLEAN :
         ~Found(Enriched(Enriched(Decorated(last.key.base, [skip |-> skip, keys |-> Undefined, vary |-> {}]), <<>>), <<>>))
  /\ last.op = "delete" /\ Marked(last.key) => ~Found(last.key)

\* KeyBuilder gives different keys to different lists of segments (up to surrounding blanks),
\* generateKey() to different values, and @Cached to different arguments without a separator.
Apart(build(_), same(_), S) ==
  LET good == {x \in S : build(x) # Undefined}
  IN Cardinality({build(x) : x \in good}) = Cardinality({same(x) : x \in good})
KeysApart(text, most) ==
  LET lists == UNION {[1..n -> text] : n \in 1..most}
      trimmed(x) == [i \in DOMAIN x |-> Trim(x[i])]
      itself(x) == x
  IN /\ Apart(Build, trimmed, lists)
     /\ \A n \in 1..most :
          /\ Apart(Template, itself, [1..n -> text])
          /\ Apart(Automatic, itself, [1..n -> {t \in text : ~Contains(t, {Sep})}])
================================================================================
