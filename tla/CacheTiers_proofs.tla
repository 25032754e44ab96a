---------------------------- MODULE CacheTiers_proofs ----------------------------
(* Machine-checked proofs about CacheTiers for every set of operations, processes,  *)
(* keys and tags, every delay and every number of faults.                           *)
EXTENDS CacheTiers, SequenceTheorems, TLAPS

--------------------------------------------------------------------------------
(* Constants, and sequences.                                                    *)

LEMMA ConstantFacts ==
  /\ TagOf \in [Key -> Tag \cup {None}] /\ Home \in [Op -> Process]
  /\ None \notin Key /\ None \notin Tag /\ None \notin Op /\ Key \cap Tag = {}
  /\ Ttls \subseteq Nat \ {0} /\ L1Ttl \in Nat /\ TagTtl \in Nat /\ TagTtl > 0
  /\ PatternKeys \subseteq Key /\ PatternTags \subseteq Tag
  /\ MaxDelay \in Nat /\ Faults \in Nat
BY TiersAssumption DEF TiersAssumption

Among(s) == {s[i] : i \in 1..Len(s)}
Distinct(s) == \A i, j \in 1..Len(s) : s[i] = s[j] => i = j
Behind(s, a, b) == \E i, j \in 1..Len(s) : i < j /\ s[i] = a /\ s[j] = b

LEMMA EmptyFacts == Among(<<>>) = {} /\ Distinct(<<>>) /\ \A a, b : ~Behind(<<>>, a, b)
BY DEF Among, Distinct, Behind

LEMMA HeadFacts ==
  ASSUME NEW S, NEW s \in Seq(S), s # <<>>
  PROVE  /\ Head(s) \in S /\ Tail(s) \in Seq(S)
         /\ Among(s) = Among(Tail(s)) \cup {Head(s)}
         /\ Distinct(s) => Distinct(Tail(s)) /\ Head(s) \notin Among(Tail(s))
         /\ \A a, b : Behind(Tail(s), a, b) => Behind(s, a, b)
         /\ \A b \in Among(Tail(s)) : Behind(s, Head(s), b)
<1> DEFINE t == Tail(s)
           n == Len(s)
<1>1. n \in Nat \ {0} /\ Head(s) \in S /\ t \in Seq(S) /\ Len(t) = n - 1 /\ \A i \in 1..Len(t) : t[i] = s[i + 1]
  BY HeadTailProperties, EmptySeq
<1>2. Head(s) = s[1]
  OBVIOUS
<1>3. \A i \in 1..(n - 1) : i + 1 \in 1..n /\ t[i] = s[i + 1]
  BY <1>1
<1>4. \A i \in 1..n : i = 1 \/ (i - 1 \in 1..(n - 1) /\ s[i] = t[i - 1])
  BY <1>1
<1> HIDE DEF t, n
<1>5. Among(s) = Among(t) \cup {Head(s)}
  <2>1. 1 \in 1..n
    BY <1>1
  <2>2. ASSUME NEW i \in 1..n PROVE s[i] \in Among(t) \cup {Head(s)}
    <3>1. CASE i = 1
      BY <1>2, <3>1
    <3>2. CASE i - 1 \in 1..(n - 1) /\ s[i] = t[i - 1]
      BY <1>1, <3>2 DEF Among
    <3> QED
      BY <1>4, <3>1, <3>2
  <2>3. Among(t) \cup {Head(s)} \subseteq Among(s)
    BY <1>1, <1>2, <1>3, <2>1 DEF Among, n
  <2> QED
    BY <2>2, <2>3 DEF Among, n
<1>6. ASSUME Distinct(s) PROVE Distinct(t) /\ Head(s) \notin Among(t)
  BY SMTT(20), <1>1, <1>2, <1>3, <1>6 DEF Distinct, Among, n
<1>7. ASSUME NEW a, NEW b, Behind(t, a, b) PROVE Behind(s, a, b)
  BY <1>1, <1>3, <1>7 DEF Behind, n
<1>8. ASSUME NEW b \in Among(t) PROVE Behind(s, Head(s), b)
  <2>1. PICK i \in 1..(n - 1) : b = t[i]
    BY <1>1, <1>8 DEF Among
  <2>2. 1 \in 1..n /\ i + 1 \in 1..n /\ 1 < i + 1 /\ s[i + 1] = b
    BY <1>1, <1>3, <2>1
  <2> QED
    BY <1>2, <2>2 DEF Behind, n
<1> QED
  BY <1>1, <1>5, <1>6, <1>7, <1>8 DEF t

LEMMA AppendFacts ==
  ASSUME NEW S, NEW s \in Seq(S), NEW e \in S
  PROVE  /\ Append(s, e) \in Seq(S)
         /\ Among(Append(s, e)) = Among(s) \cup {e}
         /\ Distinct(s) /\ e \notin Among(s) => Distinct(Append(s, e))
         /\ \A a, b : Behind(Append(s, e), a, b) => Behind(s, a, b) \/ (b = e /\ a \in Among(s))
<1> DEFINE t == Append(s, e)
           n == Len(s)
<1>1. /\ n \in Nat /\ t \in Seq(S) /\ Len(t) = n + 1 /\ t[n + 1] = e
      /\ \A i \in 1..n : t[i] = s[i]
  BY LenProperties
<1> HIDE DEF t, n
<1>2. \A i \in 1..(n + 1) : i = n + 1 \/ i \in 1..n
  BY <1>1
<1>3. Among(t) = Among(s) \cup {e}
  <2>1. n + 1 \in 1..(n + 1) /\ \A i \in 1..n : i \in 1..(n + 1)
    BY <1>1
  <2> QED
    BY <1>1, <1>2, <2>1 DEF Among, n
<1>4. ASSUME Distinct(s), e \notin Among(s) PROVE Distinct(t)
  BY <1>1, <1>2, <1>4 DEF Distinct, Among, n
<1>5. ASSUME NEW a, NEW b, Behind(t, a, b) PROVE Behind(s, a, b) \/ (b = e /\ a \in Among(s))
  <2>1. PICK i \in 1..(n + 1), j \in 1..(n + 1) : i < j /\ t[i] = a /\ t[j] = b
    BY <1>1, <1>5 DEF Behind
  <2>2. i \in 1..n
    BY <1>1, <2>1
  <2>3. CASE j = n + 1
    BY <1>1, <2>1, <2>2, <2>3 DEF Among, n
  <2>4. CASE j \in 1..n
    BY <1>1, <2>1, <2>2, <2>4 DEF Behind, n
  <2> QED
    BY <1>2, <2>3, <2>4
<1> QED
  BY <1>1, <1>3, <1>4, <1>5 DEF t

--------------------------------------------------------------------------------
(* Types, and how a call and its phase belong together.                         *)

Phases == Commands \cup {"new", "done", "failed"}
Kindred == Writing \cup Removing \cup {"get", "none"}

\* The commands each call sends, and what it names.
Suits(o) ==
  /\ pc[o] = "new" <=> call[o].kind = "none"
  /\ call[o].kind \in Writing =>
       /\ pc[o] \in {"setex", "sadd", "expire", "done", "failed"}
       /\ call[o].key \in Key /\ call[o].ttl \in Ttls
  /\ pc[o] \in {"sadd", "expire"} => TagOf[call[o].key] \in Tag
  /\ call[o].kind = "get" => pc[o] \in {"get", "done", "failed"} /\ call[o].key \in Key
  /\ call[o].kind \in {"delete", "deleteMany"} =>
       pc[o] \in {"del", "done", "failed"} /\ call[o].key \in Key
  /\ call[o].kind = "invalidate" =>
       /\ pc[o] \in {"members", "membersAgain", "dels", "delTag", "done", "failed"}
       /\ call[o].key \in Tag
  /\ call[o].kind = "clear" =>
       pc[o] \in {"scan", "dels", "scanTags", "delTags", "done", "failed"}
  /\ call[o].kind = "pattern" => pc[o] \in {"scan", "delOne", "done", "failed"}
Shape == \A o \in Op : Suits(o)

\* The connection of a process carries each of its operations at most once, and only those
\* that wait for a command.
Lanes ==
  \A p \in Process :
    /\ Distinct(wire[p]) /\ Distinct(back[p]) /\ Among(wire[p]) \cap Among(back[p]) = {}
    /\ \A o \in Among(wire[p]) \cup Among(back[p]) : Home[o] = p /\ pc[o] \in Commands

Base == TypeOK /\ Shape /\ Lanes

LEMMA RecordFacts ==
  /\ Nothing \in InMemory /\ Nothing \in InRedis /\ NoTag \in TagSets /\ NoCall \in CallType
  /\ Nothing.val = None /\ Nothing.left = 0 /\ NoTag.keys = {} /\ NoTag.left = 0
  /\ \A v \in Op, n \in 0..L1Ttl : [val |-> v, left |-> n] \in InMemory
  /\ \A v \in Op, n \in Nat \ {0} : [val |-> v, left |-> n] \in InRedis
  /\ \A keys \in SUBSET Key, n \in 0..TagTtl : [keys |-> keys, left |-> n] \in TagSets
  /\ \A kind \in Kindred, key \in Key \cup Tag \cup {None}, ttl \in Ttls \cup {0} :
       [kind |-> kind, key |-> key, ttl |-> ttl] \in CallType
BY ConstantFacts DEF Nothing, NoTag, NoCall, InMemory, InRedis, TagSets, CallType, Kindred

LEMMA EntryFacts ==
  /\ \A e \in InMemory : /\ e.val \in Op \cup {None} /\ e.left \in 0..L1Ttl
                         /\ e = Nothing <=> e.val = None
                         /\ e.val = None => e.left = 0
  /\ \A e \in InRedis : /\ e.val \in Op \cup {None} /\ e.left \in Nat
                        /\ e = Nothing <=> e.val = None
                        /\ e.val \in Op => e.left > 0
  /\ \A s \in TagSets : s.keys \subseteq Key /\ s.left \in 0..TagTtl
  /\ \A c \in CallType : /\ c.kind \in Kindred /\ c.key \in Key \cup Tag \cup {None}
                         /\ c.ttl \in Nat
<1>1. ASSUME NEW e \in InMemory
      PROVE  /\ e.val \in Op \cup {None} /\ e.left \in 0..L1Ttl
             /\ e = Nothing <=> e.val = None
             /\ e.val = None => e.left = 0
  BY <1>1, ConstantFacts DEF InMemory, Nothing
<1>2. ASSUME NEW e \in InRedis
      PROVE  /\ e.val \in Op \cup {None} /\ e.left \in Nat
             /\ e = Nothing <=> e.val = None
             /\ e.val \in Op => e.left > 0
  BY <1>2, ConstantFacts DEF InRedis, Nothing
<1>3. ASSUME NEW c \in CallType
      PROVE  c.kind \in Kindred /\ c.key \in Key \cup Tag \cup {None} /\ c.ttl \in Nat
  <2>1. c.kind \in Kindred /\ c.key \in Key \cup Tag \cup {None} /\ c.ttl \in Ttls \cup {0}
    BY <1>3 DEF CallType, Kindred
  <2>2. \A x \in Ttls \cup {0} : x \in Nat
    BY ConstantFacts
  <2> QED
    BY <2>1, <2>2
<1>4. \A s \in TagSets : s.keys \subseteq Key /\ s.left \in 0..TagTtl
  BY DEF TagSets
<1> QED
  BY <1>1, <1>2, <1>3, <1>4

LEMMA KindFacts ==
  /\ Writing \subseteq Kindred /\ Removing \subseteq Kindred /\ "get" \in Kindred /\ "none" \in Kindred
  /\ "new" \notin Commands /\ "done" \notin Commands /\ "failed" \notin Commands
  /\ Commands \subseteq Phases /\ "new" \in Phases /\ "done" \in Phases /\ "failed" \in Phases
BY DEF Kindred, Commands, Phases, Writing, Removing

\* TypeOK with its types by name.
LEMMA Typed ==
  ASSUME TypeOK
  PROVE  /\ l1 \in [Process -> [Key -> InMemory]] /\ l2 \in [Key -> InRedis] /\ tag \in [Tag -> TagSets]
         /\ pc \in [Op -> Phases] /\ age \in [Op -> 0..MaxDelay] /\ call \in [Op -> CallType]
         /\ val \in [Op -> Op \cup {None}] /\ snap \in [Op -> SUBSET (Key \cup Tag)]
         /\ wire \in [Process -> Seq(Op)] /\ back \in [Process -> Seq(Op)]
         /\ faults \in 0..Faults /\ seen \in [Op -> SUBSET Op] /\ gone \in [Op -> 0..Horizon]
BY DEF TypeOK, Phases

LEMMA BaseInit == Init => Base
<1> SUFFICES ASSUME Init PROVE Base
  OBVIOUS
<1>1. TypeOK
  <2>1. Horizon \in Nat
    BY ConstantFacts DEF Horizon
  <2> QED
    BY <2>1, ConstantFacts, RecordFacts DEF Init, TypeOK
<1>2. Shape
  BY DEF Init, Shape, Suits, NoCall, Writing, Removing
<1>3. Lanes
  BY EmptyFacts DEF Init, Lanes
<1> QED
  BY <1>1, <1>2, <1>3 DEF Base

--------------------------------------------------------------------------------
(* What the steps have in common: an operation begins, a command is executed or *)
(* answered, an operation fails.                                                *)

\* What an operation may be called with, and its first command.
Fits(kind, key, ttl, first) ==
  \/ kind = "get" /\ key \in Key /\ ttl = 0 /\ first \in {"get", "done"}
  \/ kind \in {"delete", "deleteMany"} /\ key \in Key /\ ttl = 0 /\ first = "del"
  \/ kind \in Writing /\ key \in Key /\ ttl \in Ttls /\ first = "setex"
  \/ kind = "invalidate" /\ key \in Tag /\ ttl = 0 /\ first = "members"
  \/ kind \in {"clear", "pattern"} /\ key = None /\ ttl = 0 /\ first = "scan"

Starts(o, kind, key, ttl, first) ==
  /\ Begins(o, kind, key, ttl, first) /\ Fits(kind, key, ttl, first)
  /\ \/ first \in Commands /\ Sent(o)
     \/ kind = "get" /\ first = "done" /\ UNCHANGED wire
  /\ \/ UNCHANGED l1 /\ kind \notin {"delete", "deleteMany", "clear"}
     \/ kind \in {"delete", "deleteMany"} /\ FromL1(Home[o], {key})
     \/ kind = "clear" /\ FromL1(Home[o], Key)

Executions(o) ==
  \/ Setex(o) \/ Sadd(o) \/ Expire(o) \/ GetExec(o) \/ Del(o) \/ Members(o) \/ Dels(o)
  \/ DelTag(o) \/ ScanExec(o) \/ DelOne(o) \/ ScanTags(o)
Answered(o) ==
  \/ SetexAnswered(o) \/ SaddAnswered(o) \/ ExpireAnswered(o) \/ GetAnswered(o) \/ DelAnswered(o)
  \/ MembersAnswered(o) \/ MembersAgainAnswered(o) \/ DelsAnswered(o) \/ DelTagAnswered(o)
  \/ ScanAnswered(o) \/ DelOneAnswered(o) \/ ScanTagsAnswered(o) \/ DelTagsAnswered(o)

\* The first command in the wire is executed; of a batch it may remain.
Moves(o) ==
  /\ wire[Home[o]] # <<>> /\ Head(wire[Home[o]]) = o
  /\ UNCHANGED atRest
  /\ \/ /\ wire' = [wire EXCEPT ![Home[o]] = Tail(@)]
        /\ back' = [back EXCEPT ![Home[o]] = Append(@, o)]
     \/ pc[o] \in {"dels", "delTags"} /\ UNCHANGED <<wire, back>>

\* The first answer comes, and the operation goes on with next.
Proceeds(o, next) ==
  /\ back[Home[o]] # <<>> /\ Head(back[Home[o]]) = o
  /\ back' = [back EXCEPT ![Home[o]] = Tail(@)]
  /\ age' = [age EXCEPT ![o] = 0]
  /\ pc' = [pc EXCEPT ![o] = next]
  /\ UNCHANGED <<l2, tag, call, val, snap, faults, gone>>
  /\ \/ next \in Commands /\ Sent(o)
     \/ next = "done" /\ UNCHANGED wire

\* An operation ends in an error, or without one although a command failed.
Fails(o) ==
  /\ \/ /\ wire[Home[o]] # <<>> /\ Head(wire[Home[o]]) = o
        /\ wire' = [wire EXCEPT ![Home[o]] = Tail(@)] /\ UNCHANGED back
     \/ /\ back[Home[o]] # <<>> /\ Head(back[Home[o]]) = o
        /\ back' = [back EXCEPT ![Home[o]] = Tail(@)] /\ UNCHANGED wire
  /\ EndsFailed(o)
  /\ faults < Faults /\ faults' = faults + 1
  /\ \/ UNCHANGED <<l2, tag>>
     \/ /\ pc[o] \in {"dels", "delTags"}
        /\ \E some \in SUBSET snap[o] : l2' = Without(some) /\ tag' = WithoutTags(some)

LEMMA BeginKinds ==
  ASSUME NEW o \in Op, Begin(o)
  PROVE  \E kind, key, ttl, first : Starts(o, kind, key, ttl, first)
<1>1. ASSUME NEW k \in Key, Get(o, k) PROVE \E first : Starts(o, "get", k, 0, first)
  <2>1. \/ Begins(o, "get", k, 0, "done") /\ UNCHANGED wire
        \/ Begins(o, "get", k, 0, "get") /\ Sent(o)
    BY <1>1 DEF Get
  <2>2. UNCHANGED l1
    BY <1>1 DEF Get
  <2> QED
    BY <2>1, <2>2 DEF Starts, Fits, Commands
<1>2. ASSUME NEW k \in Key, NEW kind \in {"delete", "deleteMany"}, Delete(o, kind, k)
      PROVE  Starts(o, kind, k, 0, "del")
  BY <1>2 DEF Delete, Starts, Fits, Commands
<1>3. ASSUME NEW k \in Key, NEW ttl \in Ttls, NEW kind \in Writing, Set(o, kind, k, ttl)
      PROVE  Starts(o, kind, k, ttl, "setex")
  BY <1>3 DEF Set, Starts, Fits, Commands, Writing
<1>4. ASSUME NEW t \in Tag, Invalidate(o, t) PROVE Starts(o, "invalidate", t, 0, "members")
  BY <1>4 DEF Invalidate, Starts, Fits, Commands
<1>5. Clear(o) => Starts(o, "clear", None, 0, "scan")
  BY DEF Clear, Starts, Fits, Commands
<1>6. ByPattern(o) => Starts(o, "pattern", None, 0, "scan")
  BY DEF ByPattern, Starts, Fits, Commands
<1>7. "set" \in Writing /\ "setMany" \in Writing
  BY DEF Writing
<1> QED
  BY <1>1, <1>2, <1>3, <1>4, <1>5, <1>6, <1>7 DEF Begin

LEMMA ExecutionKinds ==
  ASSUME NEW o \in Op, Executions(o)
  PROVE  Moves(o)
<1>1. ASSUME Executed(o), NEW c, Executes(o, c) PROVE Moves(o)
  BY <1>1 DEF Executed, Executes, Moves
<1>2. Setex(o) \/ Sadd(o) \/ Expire(o) \/ GetExec(o) \/ Del(o) => Moves(o)
  BY <1>1 DEF Setex, Sadd, Expire, GetExec, Del
<1>3. Members(o) \/ DelTag(o) \/ ScanExec(o) \/ DelOne(o) \/ ScanTags(o) => Moves(o)
  BY <1>1 DEF Members, DelTag, ScanExec, DelOne, ScanTags
<1>4. ASSUME Dels(o) PROVE Moves(o)
  <2>1. \E c \in {"dels", "delTags"} : Executes(o, c)
    BY <1>4 DEF Dels
  <2>2. Executed(o) \/ UNCHANGED <<atRest, wire, back>>
    BY <1>4 DEF Dels
  <2> QED
    BY <1>1, <2>1, <2>2 DEF Moves, Executes
<1> QED
  BY <1>2, <1>3, <1>4 DEF Executions

\* The answer to a command, and what the call does next.
Continues(o, next) ==
  \/ pc[o] = "setex" /\ TagOf[call[o].key] # None /\ next = "sadd"
  \/ pc[o] = "setex" /\ TagOf[call[o].key] = None /\ next = "done"
  \/ pc[o] = "sadd" /\ next = "expire"
  \/ pc[o] \in {"expire", "get", "del", "delTag", "delTags"} /\ next = "done"
  \/ pc[o] = "members" /\ next = "membersAgain"
  \/ pc[o] = "membersAgain" /\ snap[o] = {} /\ next = "delTag"
  \/ pc[o] = "membersAgain" /\ snap[o] # {} /\ next = "dels"
  \/ pc[o] = "dels" /\ call[o].kind = "invalidate" /\ next = "delTag"
  \/ pc[o] = "dels" /\ call[o].kind = "clear" /\ next = "scanTags"
  \/ pc[o] = "scan" /\ call[o].kind = "clear" /\ snap[o] = {} /\ next = "scanTags"
  \/ pc[o] = "scan" /\ call[o].kind = "clear" /\ snap[o] # {} /\ next = "dels"
  \/ pc[o] \in {"scan", "delOne"} /\ (pc[o] = "scan" => call[o].kind # "clear") /\ snap[o] = {} /\ next = "done"
  \/ pc[o] \in {"scan", "delOne"} /\ (pc[o] = "scan" => call[o].kind # "clear") /\ snap[o] # {} /\ next = "delOne"
  \/ pc[o] = "scanTags" /\ snap[o] = {} /\ next = "done"
  \/ pc[o] = "scanTags" /\ snap[o] # {} /\ next = "delTags"

LEMMA AnswerKinds ==
  ASSUME NEW o \in Op, Answered(o)
  PROVE  \E next \in Phases : Proceeds(o, next) /\ Continues(o, next)
<1>1. ASSUME NEW c, Answers(o, c), NEW next \in Commands, SendsNext(o, next) PROVE Proceeds(o, next)
  BY <1>1 DEF Answers, SendsNext, Proceeds
<1>2. ASSUME NEW c, Answers(o, c), Done(o) PROVE Proceeds(o, "done")
  BY <1>2 DEF Answers, Done, Proceeds
<1>3. /\ {"sadd", "expire", "membersAgain", "delTag", "dels", "scanTags", "delOne", "delTags"} \subseteq Commands
      /\ Commands \subseteq Phases /\ "done" \in Phases
  BY DEF Commands, Phases
<1>4. CASE SetexAnswered(o)
  <2>1. CASE TagOf[call[o].key] # None
    BY <1>1, <1>3, <1>4, <2>1 DEF SetexAnswered, Answers, Continues
  <2>2. CASE TagOf[call[o].key] = None
    BY <1>2, <1>3, <1>4, <2>2 DEF SetexAnswered, Answers, Continues, Ends
  <2> QED
    BY <2>1, <2>2
<1>5. CASE SaddAnswered(o)
  BY <1>1, <1>3, <1>5 DEF SaddAnswered, Answers, Continues
<1>6. CASE ExpireAnswered(o) \/ DelAnswered(o) \/ DelTagAnswered(o) \/ DelTagsAnswered(o)
  BY <1>2, <1>3, <1>6 DEF ExpireAnswered, DelAnswered, DelTagAnswered, DelTagsAnswered, Answers, Continues, Ends
<1>7. CASE GetAnswered(o)
  BY <1>2, <1>3, <1>7 DEF GetAnswered, Answers, Continues
<1>8. CASE MembersAnswered(o)
  BY <1>1, <1>3, <1>8 DEF MembersAnswered, Answers, Continues
<1>9. CASE MembersAgainAnswered(o)
  BY <1>1, <1>3, <1>9 DEF MembersAgainAnswered, AfterMembers, Answers, Continues
<1>10. CASE DelsAnswered(o)
  BY <1>1, <1>3, <1>10 DEF DelsAnswered, Answers, Continues
<1>11. CASE ScanAnswered(o)
  <2>1. CASE call[o].kind = "clear"
    BY <1>1, <1>3, <1>11, <2>1 DEF ScanAnswered, Answers, Continues
  <2>2. CASE call[o].kind # "clear" /\ snap[o] = {}
    BY <1>2, <1>3, <1>11, <2>2 DEF ScanAnswered, Answers, Continues, Ends
  <2>3. CASE call[o].kind # "clear" /\ snap[o] # {}
    BY <1>1, <1>3, <1>11, <2>3 DEF ScanAnswered, Answers, Continues
  <2> QED
    BY <2>1, <2>2, <2>3
<1>12. CASE DelOneAnswered(o)
  BY <1>1, <1>2, <1>3, <1>12 DEF DelOneAnswered, Answers, Continues, Ends
<1>13. CASE ScanTagsAnswered(o)
  BY <1>1, <1>2, <1>3, <1>13 DEF ScanTagsAnswered, Answers, Continues, Ends
<1> QED
  BY <1>4, <1>5, <1>6, <1>7, <1>8, <1>9, <1>10, <1>11, <1>12, <1>13 DEF Answered

LEMMA FailKinds ==
  ASSUME NEW o \in Op, Lost(o) \/ AnswerLost(o)
  PROVE  Fails(o)
BY DEF Lost, AnswerLost, Fails, EndsFailed

LEMMA StepKinds ==
  ASSUME [Next]_vars
  PROVE  \/ \E o \in Op : \E kind, key, ttl, first : Starts(o, kind, key, ttl, first)
         \/ \E o \in Op : Executions(o) /\ Moves(o)
         \/ \E o \in Op : Answered(o)
         \/ \E o \in Op : Fails(o)
         \/ \E p \in Process : Crash(p)
         \/ Tick
         \/ UNCHANGED vars
<1>1. ASSUME NEW o \in Op, Steps(o) PROVE Executions(o) \/ Answered(o)
  BY <1>1 DEF Steps, Executions, Answered
<1> QED
  BY <1>1, BeginKinds, ExecutionKinds, FailKinds DEF Next

--------------------------------------------------------------------------------
(* Every variable keeps its type.                                               *)

\* How the memory of a process may change.
Drops(p) == UNCHANGED l1 \/ \E keys : FromL1(p, keys)
Fills(p) == \E k \in Key, v \in Op, n \in 0..L1Ttl : InL1(p, k, v, n)

LEMMA MemoryType ==
  ASSUME TypeOK, NEW p \in Process, Drops(p) \/ Fills(p)
  PROVE  l1' \in [Process -> [Key -> InMemory]]
<1>1. ASSUME NEW m \in [Key -> InMemory], l1' = [l1 EXCEPT ![p] = m]
      PROVE  l1' \in [Process -> [Key -> InMemory]]
  BY <1>1, Typed
<1>2. ASSUME NEW keys, FromL1(p, keys) PROVE DropsL1(p, keys) \in [Key -> InMemory]
  <2>1. l1[p] \in [Key -> InMemory]
    BY Typed
  <2> QED
    BY <2>1, RecordFacts DEF DropsL1
<1>3. ASSUME NEW k \in Key, NEW v \in Op, NEW n \in 0..L1Ttl, InL1(p, k, v, n)
      PROVE  [j \in Key |-> IF j = k THEN [val |-> v, left |-> n] ELSE l1[p][j]] \in [Key -> InMemory]
  <2>1. l1[p] \in [Key -> InMemory]
    BY Typed
  <2> QED
    BY <2>1, RecordFacts
<1>4. UNCHANGED l1 => l1' \in [Process -> [Key -> InMemory]]
  BY Typed
<1> QED
  BY <1>1, <1>2, <1>3, <1>4 DEF Drops, Fills, FromL1, InL1

LEMMA LaneType ==
  ASSUME TypeOK, NEW o \in Op
  PROVE  /\ Home[o] \in Process
         /\ Sent(o) => wire' \in [Process -> Seq(Op)]
         /\ wire[Home[o]] # <<>> /\ wire' = [wire EXCEPT ![Home[o]] = Tail(@)]
              => wire' \in [Process -> Seq(Op)]
         /\ back[Home[o]] # <<>> /\ back' = [back EXCEPT ![Home[o]] = Tail(@)]
              => back' \in [Process -> Seq(Op)]
         /\ back' = [back EXCEPT ![Home[o]] = Append(@, o)] => back' \in [Process -> Seq(Op)]
<1>1. Home[o] \in Process /\ wire[Home[o]] \in Seq(Op) /\ back[Home[o]] \in Seq(Op)
  BY Typed, ConstantFacts
<1>2. Append(wire[Home[o]], o) \in Seq(Op) /\ Append(back[Home[o]], o) \in Seq(Op)
  BY <1>1, AppendFacts
<1>3. /\ wire[Home[o]] # <<>> => Tail(wire[Home[o]]) \in Seq(Op)
      /\ back[Home[o]] # <<>> => Tail(back[Home[o]]) \in Seq(Op)
  BY <1>1, HeadFacts
<1> QED
  BY <1>1, <1>2, <1>3, Typed DEF Sent

LEMMA ShapeAt ==
  ASSUME TypeOK, Shape, NEW o \in Op,
         \A r \in Op \ {o} : pc'[r] = pc[r] /\ call'[r] = call[r],
         Suits(o)'
  PROVE  Shape'
BY DEF Shape, Suits

\* Lanes after a step of one operation, from what became of the lanes of its process.
LEMMA LanesAt ==
  ASSUME TypeOK, Lanes, NEW o \in Op,
         \A q \in Process \ {Home[o]} : wire'[q] = wire[q] /\ back'[q] = back[q],
         \A r \in Op \ {o} : pc'[r] = pc[r],
         Distinct(wire'[Home[o]]), Distinct(back'[Home[o]]),
         Among(wire'[Home[o]]) \cap Among(back'[Home[o]]) = {},
         Among(wire'[Home[o]]) \cup Among(back'[Home[o]])
           \subseteq Among(wire[Home[o]]) \cup Among(back[Home[o]]) \cup {o},
         o \in Among(wire'[Home[o]]) \cup Among(back'[Home[o]]) => pc'[o] \in Commands
  PROVE  Lanes'
<1> SUFFICES ASSUME NEW p \in Process
             PROVE  /\ Distinct(wire'[p]) /\ Distinct(back'[p]) /\ Among(wire'[p]) \cap Among(back'[p]) = {}
                    /\ \A r \in Among(wire'[p]) \cup Among(back'[p]) : Home[r] = p /\ pc'[r] \in Commands
  BY DEF Lanes
<1>1. \A q \in Process : Among(wire[q]) \cup Among(back[q]) \subseteq Op
  <2>1. \A q \in Process : wire[q] \in Seq(Op) /\ back[q] \in Seq(Op)
    BY Typed
  <2> QED
    BY <2>1, ElementOfSeq DEF Among
<1>2. CASE p = Home[o]
  BY <1>1, <1>2 DEF Lanes
<1>3. CASE p # Home[o]
  BY <1>1, <1>3 DEF Lanes
<1> QED
  BY <1>2, <1>3

\* The head of a lane, and what remains without it.
LEMMA LaneHeads ==
  ASSUME TypeOK, Lanes, NEW o \in Op
  PROVE  LET p == Home[o] IN
         /\ wire[p] \in Seq(Op) /\ back[p] \in Seq(Op)
         /\ wire[p] # <<>> /\ Head(wire[p]) = o =>
              /\ o \in Among(wire[p]) /\ o \notin Among(back[p]) /\ pc[o] \in Commands
              /\ Among(Tail(wire[p])) = Among(wire[p]) \ {o} /\ Distinct(Tail(wire[p]))
         /\ back[p] # <<>> /\ Head(back[p]) = o =>
              /\ o \in Among(back[p]) /\ o \notin Among(wire[p]) /\ pc[o] \in Commands
              /\ Among(Tail(back[p])) = Among(back[p]) \ {o} /\ Distinct(Tail(back[p]))
         /\ Among(Append(wire[p], o)) = Among(wire[p]) \cup {o}
         /\ Among(Append(back[p], o)) = Among(back[p]) \cup {o}
         /\ o \notin Among(wire[p]) => Distinct(Append(wire[p], o))
         /\ o \notin Among(back[p]) => Distinct(Append(back[p], o))
<1> DEFINE p == Home[o]
<1>1. p \in Process /\ wire[p] \in Seq(Op) /\ back[p] \in Seq(Op)
  BY Typed, ConstantFacts
<1>2. /\ Distinct(wire[p]) /\ Distinct(back[p]) /\ Among(wire[p]) \cap Among(back[p]) = {}
      /\ \A r \in Among(wire[p]) \cup Among(back[p]) : pc[r] \in Commands
  BY <1>1 DEF Lanes
<1>3. ASSUME wire[p] # <<>>, Head(wire[p]) = o
      PROVE  /\ o \in Among(wire[p]) /\ o \notin Among(back[p]) /\ pc[o] \in Commands
             /\ Among(Tail(wire[p])) = Among(wire[p]) \ {o} /\ Distinct(Tail(wire[p]))
  <2>1. Among(wire[p]) = Among(Tail(wire[p])) \cup {o} /\ Distinct(Tail(wire[p])) /\ o \notin Among(Tail(wire[p]))
    BY <1>1, <1>2, <1>3, HeadFacts
  <2> QED
    BY <1>2, <2>1
<1>4. ASSUME back[p] # <<>>, Head(back[p]) = o
      PROVE  /\ o \in Among(back[p]) /\ o \notin Among(wire[p]) /\ pc[o] \in Commands
             /\ Among(Tail(back[p])) = Among(back[p]) \ {o} /\ Distinct(Tail(back[p]))
  <2>1. Among(back[p]) = Among(Tail(back[p])) \cup {o} /\ Distinct(Tail(back[p])) /\ o \notin Among(Tail(back[p]))
    BY <1>1, <1>2, <1>4, HeadFacts
  <2> QED
    BY <1>2, <2>1
<1>5. /\ Among(Append(wire[p], o)) = Among(wire[p]) \cup {o}
      /\ Among(Append(back[p], o)) = Among(back[p]) \cup {o}
      /\ o \notin Among(wire[p]) => Distinct(Append(wire[p], o))
      /\ o \notin Among(back[p]) => Distinct(Append(back[p], o))
  BY <1>1, <1>2, AppendFacts
<1> QED
  BY <1>1, <1>3, <1>4, <1>5

LEMMA StartBase ==
  ASSUME Base, NEW o \in Op, NEW kind, NEW key, NEW ttl, NEW first, Starts(o, kind, key, ttl, first)
  PROVE  Base'
<1> USE DEF Base
<1>1. /\ kind \in Kindred /\ kind # "none" /\ key \in Key \cup Tag \cup {None} /\ ttl \in Ttls \cup {0}
      /\ first \in Phases /\ first # "new"
  BY DEF Starts, Fits, Kindred, Phases, Commands, Writing, Removing
<1>2. /\ pc' = [pc EXCEPT ![o] = first]
      /\ call' = [call EXCEPT ![o] = [kind |-> kind, key |-> key, ttl |-> ttl]]
      /\ UNCHANGED <<l2, tag, age, val, snap, back, faults, gone>>
      /\ seen' = [seen EXCEPT ![o] = Settled] \/ seen' = seen
  BY DEF Starts, Begins
<1>3. [kind |-> kind, key |-> key, ttl |-> ttl] \in CallType
  BY <1>1, RecordFacts
<1>4. pc' \in [Op -> Phases] /\ call' \in [Op -> CallType]
  BY <1>1, <1>2, <1>3, Typed
<1>5. seen' \in [Op -> SUBSET Op]
  <2>1. Settled \in SUBSET Op
    BY DEF Settled
  <2> QED
    BY <1>2, <2>1, Typed
<1>6. l1' \in [Process -> [Key -> InMemory]]
  BY LaneType, MemoryType DEF Starts, Drops
<1>7. wire' \in [Process -> Seq(Op)]
  BY LaneType, Typed DEF Starts
<1>8. TypeOK'
  BY <1>2, <1>4, <1>5, <1>6, <1>7, Typed DEF TypeOK, Phases
<1>9. Suits(o)'
  <2>1. /\ pc'[o] = first /\ call'[o].kind = kind /\ call'[o].key = key /\ call'[o].ttl = ttl
    BY <1>2, Typed
  <2>2. Fits(kind, key, ttl, first)
    BY DEF Starts
  <2> QED
    BY <1>1, <2>1, <2>2 DEF Suits, Fits, Writing, Removing
<1>10. \A r \in Op \ {o} : pc'[r] = pc[r] /\ call'[r] = call[r]
  BY <1>2, Typed
<1>11. Lanes'
  <2>1. o \notin Among(wire[Home[o]]) /\ o \notin Among(back[Home[o]])
    <3>1. pc[o] \notin Commands
      BY KindFacts DEF Starts, Begins
    <3> QED
      BY <3>1, LaneType DEF Lanes
  <2>2. CASE first \in Commands /\ Sent(o)
    <3>1. wire'[Home[o]] = Append(wire[Home[o]], o) /\ \A q \in Process \ {Home[o]} : wire'[q] = wire[q]
      BY <2>2, LaneType, Typed DEF Sent
    <3>2. pc'[o] \in Commands
      BY <1>2, <2>2, Typed
    <3>3. /\ Distinct(wire[Home[o]]) /\ Distinct(back[Home[o]])
          /\ Among(wire[Home[o]]) \cap Among(back[Home[o]]) = {}
      BY LaneType DEF Lanes
    <3>4. back' = back
      BY <1>2
    <3>5. /\ Among(wire'[Home[o]]) = Among(wire[Home[o]]) \cup {o} /\ Distinct(wire'[Home[o]])
      BY <2>1, <3>1, LaneHeads
    <3> QED
      BY <1>10, <2>1, <3>1, <3>2, <3>3, <3>4, <3>5, LanesAt
  <2>3. CASE UNCHANGED wire
    <3>1. /\ Distinct(wire[Home[o]]) /\ Distinct(back[Home[o]])
          /\ Among(wire[Home[o]]) \cap Among(back[Home[o]]) = {}
      BY LaneType DEF Lanes
    <3> QED
      BY <1>2, <1>10, <2>1, <2>3, <3>1, LanesAt
  <2> QED
    BY <2>2, <2>3 DEF Starts
<1> QED
  BY <1>8, <1>9, <1>10, <1>11, ShapeAt

LEMMA AnswerBase ==
  ASSUME Base, NEW o \in Op, Answered(o)
  PROVE  Base'
<1> USE DEF Base
<1>1. PICK next \in Phases : Proceeds(o, next) /\ Continues(o, next)
  BY AnswerKinds
<1>2. /\ pc' = [pc EXCEPT ![o] = next] /\ age' = [age EXCEPT ![o] = 0]
      /\ back[Home[o]] # <<>> /\ back' = [back EXCEPT ![Home[o]] = Tail(@)]
      /\ Sent(o) \/ UNCHANGED wire
      /\ UNCHANGED <<l2, tag, call, val, snap, faults, gone>>
  BY <1>1 DEF Proceeds
<1>3. 0 \in 0..MaxDelay
  BY ConstantFacts
<1>4. seen' \in [Op -> SUBSET Op]
  <2>1. seen' = seen \/ seen' = [seen EXCEPT ![o] = Underway(Home[o])]
    BY DEF Answered, SetexAnswered, SaddAnswered, ExpireAnswered, GetAnswered, DelAnswered,
           MembersAnswered, MembersAgainAnswered, DelsAnswered, DelTagAnswered, ScanAnswered,
           DelOneAnswered, ScanTagsAnswered, DelTagsAnswered, SendsNext, Ends
  <2>2. Underway(Home[o]) \in SUBSET Op
    BY DEF Underway
  <2> QED
    BY <2>1, <2>2, Typed
<1>5. Drops(Home[o]) \/ Fills(Home[o])
  <2>1. CASE SetexAnswered(o)
    <3>1. pc[o] = "setex"
      BY <2>1 DEF SetexAnswered, Answers
    <3>2. call[o].key \in Key /\ call[o].ttl \in Nat
      <4>1. call[o].kind \in Writing
        BY <3>1, Typed, EntryFacts DEF Shape, Suits, Kindred, Removing
      <4> QED
        BY <4>1, ConstantFacts DEF Shape, Suits
    <3>3. Min2(call[o].ttl, L1Ttl) \in 0..L1Ttl
      BY <3>2, ConstantFacts DEF Min2
    <3> QED
      BY <2>1, <3>2, <3>3 DEF SetexAnswered, IntoL1, Drops, Fills
  <2>2. CASE GetAnswered(o)
    <3>1. pc[o] = "get"
      BY <2>2 DEF GetAnswered, Answers
    <3>2. call[o].key \in Key
      <4>1. call[o].kind = "get"
        BY <3>1, Typed, EntryFacts DEF Shape, Suits, Kindred, Removing, Writing
      <4> QED
        BY <4>1 DEF Shape, Suits
    <3>3. val[o] \in Op \cup {None} /\ L1Ttl \in 0..L1Ttl
      BY Typed, ConstantFacts
    <3> QED
      BY <2>2, <3>2, <3>3 DEF GetAnswered, PopulateTtl, Drops, Fills
  <2>3. CASE MembersAnswered(o) \/ ScanAnswered(o)
    BY <2>3 DEF MembersAnswered, ScanAnswered, Drops
  <2>4. CASE \/ SaddAnswered(o) \/ ExpireAnswered(o) \/ DelAnswered(o)
             \/ MembersAgainAnswered(o) \/ DelsAnswered(o) \/ DelTagAnswered(o)
             \/ DelOneAnswered(o) \/ ScanTagsAnswered(o) \/ DelTagsAnswered(o)
    BY <2>4 DEF Drops, SaddAnswered, ExpireAnswered, DelAnswered, MembersAgainAnswered, DelsAnswered,
           DelTagAnswered, DelOneAnswered, ScanTagsAnswered, DelTagsAnswered
  <2> QED
    BY <2>1, <2>2, <2>3, <2>4 DEF Answered
<1>6. l1' \in [Process -> [Key -> InMemory]] /\ wire' \in [Process -> Seq(Op)] /\ back' \in [Process -> Seq(Op)]
  BY <1>2, <1>5, LaneType, MemoryType, Typed
<1>7. pc' \in [Op -> Phases] /\ age' \in [Op -> 0..MaxDelay]
  BY <1>2, <1>3, Typed
<1>8. TypeOK'
  BY <1>2, <1>4, <1>6, <1>7, Typed DEF TypeOK, Phases
<1>9. Suits(o)'
  <2>1. pc'[o] = next /\ call'[o] = call[o]
    BY <1>2, Typed
  <2>2. call[o].kind \in Kindred
    BY Typed, EntryFacts
  <2>3. call[o].key \in Key => TagOf[call[o].key] \in Tag \cup {None}
    BY ConstantFacts
  <2> QED
    BY <1>1, <2>1, <2>2, <2>3 DEF Shape, Suits, Continues, Kindred, Writing, Removing
<1>10. \A r \in Op \ {o} : pc'[r] = pc[r] /\ call'[r] = call[r]
  BY <1>2, Typed
<1>11. Lanes'
  <2>1. /\ back'[Home[o]] = Tail(back[Home[o]])
        /\ \A q \in Process \ {Home[o]} : back'[q] = back[q]
        /\ pc'[o] = next
    BY <1>2, LaneType, Typed
  <2>2. Head(back[Home[o]]) = o
    BY <1>1 DEF Proceeds
  <2>3. /\ Distinct(wire[Home[o]]) /\ Distinct(back[Home[o]])
        /\ Among(wire[Home[o]]) \cap Among(back[Home[o]]) = {}
    BY LaneType DEF Lanes
  <2>4. CASE next \in Commands /\ Sent(o)
    <3>1. wire'[Home[o]] = Append(wire[Home[o]], o) /\ \A q \in Process \ {Home[o]} : wire'[q] = wire[q]
      BY <2>4, LaneType, Typed DEF Sent
    <3> QED
      BY ZenonT(30), <1>2, <1>10, <2>1, <2>2, <2>3, <2>4, <3>1, LaneHeads, LanesAt
  <2>5. CASE UNCHANGED wire
    BY <1>2, <1>10, <2>1, <2>2, <2>3, <2>5, LaneHeads, LanesAt
  <2> QED
    BY <1>1, <2>4, <2>5 DEF Proceeds
<1> QED
  BY <1>8, <1>9, <1>10, <1>11, ShapeAt

\* The tiers after an execution.
LEMMA WithoutType ==
  ASSUME TypeOK, NEW keys, l2' = Without(keys), tag' = WithoutTags(keys) \/ tag' = tag
  PROVE  l2' \in [Key -> InRedis] /\ tag' \in [Tag -> TagSets]
BY Typed, RecordFacts DEF Without, WithoutTags

LEMMA TagFacts ==
  ASSUME TypeOK, NEW t \in Tag
  PROVE  /\ tag[t] \in TagSets /\ tag[t].keys \subseteq Key /\ tag[t].left \in 0..TagTtl
BY Typed, EntryFacts

LEMMA KindOf ==
  ASSUME Base, NEW o \in Op
  PROVE  /\ pc[o] = "setex" => /\ call[o].kind \in Writing
                               /\ call[o].key \in Key /\ call[o].ttl \in Ttls
         /\ pc[o] \in {"sadd", "expire"} =>
              /\ call[o].kind \in Writing /\ call[o].key \in Key /\ TagOf[call[o].key] \in Tag
         /\ pc[o] = "get" => call[o].kind = "get" /\ call[o].key \in Key
         /\ pc[o] = "del" => call[o].kind \in {"delete", "deleteMany"} /\ call[o].key \in Key
         /\ pc[o] \in {"members", "membersAgain", "delTag"} => call[o].kind = "invalidate" /\ call[o].key \in Tag
         /\ pc[o] = "dels" => call[o].kind \in {"invalidate", "clear"}
         /\ pc[o] = "scan" => call[o].kind \in {"clear", "pattern"}
         /\ pc[o] = "delOne" => call[o].kind = "pattern"
         /\ pc[o] \in {"scanTags", "delTags"} => call[o].kind = "clear"
<1>1. call[o].kind \in Kindred /\ Suits(o)
  BY Typed, EntryFacts DEF Base, Shape
<1> QED
  BY <1>1 DEF Suits, Kindred, Writing, Removing

LEMMA ExecutionBase ==
  ASSUME Base, NEW o \in Op, Executions(o), Moves(o)
  PROVE  Base'
<1> USE DEF Base
<1>1. /\ UNCHANGED <<l1, pc, age, call, faults, seen, gone>>
      /\ wire' \in [Process -> Seq(Op)] /\ back' \in [Process -> Seq(Op)]
  BY LaneType, Typed DEF Moves, atRest
<1> DEFINE TiersTyped == /\ l2' \in [Key -> InRedis] /\ tag' \in [Tag -> TagSets]
                         /\ val' \in [Op -> Op \cup {None}] /\ snap' \in [Op -> SUBSET (Key \cup Tag)]
<1>2. ASSUME Setex(o) PROVE TiersTyped
  <2>1. call[o].key \in Key /\ call[o].ttl \in Nat \ {0}
    BY <1>2, KindOf, ConstantFacts DEF Setex, Executes
  <2>2. [val |-> o, left |-> call[o].ttl] \in InRedis
    BY <2>1, RecordFacts
  <2> QED
    BY <1>2, <2>1, <2>2, Typed DEF Setex
<1>3. ASSUME Sadd(o) PROVE TiersTyped
  <2> DEFINE t == TagOf[call[o].key]
  <2>1. call[o].key \in Key /\ t \in Tag
    BY <1>3, KindOf DEF Sadd, Executes
  <2>2. [keys |-> tag[t].keys \cup {call[o].key}, left |-> tag[t].left] \in TagSets
    BY <2>1, TagFacts, RecordFacts
  <2> QED
    BY <1>3, <2>1, <2>2, Typed DEF Sadd
<1>4. ASSUME Expire(o) PROVE TiersTyped
  <2> DEFINE t == TagOf[call[o].key]
  <2>1. t \in Tag /\ TagLife(o) \in 0..TagTtl
    BY <1>4, KindOf, ConstantFacts DEF Expire, Executes, TagLife
  <2>2. [keys |-> tag[t].keys, left |-> TagLife(o)] \in TagSets
    BY <2>1, TagFacts, RecordFacts
  <2> QED
    BY <1>4, <2>1, <2>2, Typed DEF Expire
<1>5. ASSUME GetExec(o) PROVE TiersTyped
  <2>1. l2[call[o].key].val \in Op \cup {None}
    BY <1>5, KindOf, Typed, EntryFacts DEF GetExec, Executes
  <2> QED
    BY <1>5, <2>1, Typed DEF GetExec
<1>6. ASSUME Del(o) PROVE TiersTyped
  BY <1>6, WithoutType, Typed DEF Del
<1>7. ASSUME Members(o) PROVE TiersTyped
  <2>1. tag[call[o].key].keys \subseteq Key
    BY <1>7, KindOf, TagFacts DEF Members, Executes
  <2> QED
    BY <1>7, <2>1, Typed DEF Members
<1>8. ASSUME Dels(o) \/ DelOne(o) PROVE TiersTyped
  <2>1. PICK x \in snap[o] : /\ l2' = Without({x}) /\ tag' = WithoutTags({x})
                             /\ snap' = [snap EXCEPT ![o] = @ \ {x}] /\ val' = val
    BY <1>8 DEF Dels, DelOne
  <2> QED
    BY <2>1, WithoutType, Typed
<1>9. ASSUME DelTag(o) PROVE TiersTyped
  BY <1>9, RecordFacts, Typed DEF DelTag, WithoutTags
<1>10. ASSUME ScanExec(o) PROVE TiersTyped
  <2>1. Stored \subseteq Key \cup Tag
    BY DEF Stored
  <2> QED
    BY <1>10, <2>1, Typed DEF ScanExec
<1>11. ASSUME ScanTags(o) PROVE TiersTyped
  <2>1. {t \in Tag : tag[t].keys # {}} \subseteq Key \cup Tag
    OBVIOUS
  <2> QED
    BY <1>11, <2>1, Typed DEF ScanTags
<1> HIDE DEF TiersTyped
<1>12. TiersTyped
  BY <1>2, <1>3, <1>4, <1>5, <1>6, <1>7, <1>8, <1>9, <1>10, <1>11 DEF Executions
<1>13. TypeOK'
  BY <1>1, <1>12, Typed DEF TypeOK, Phases, TiersTyped
<1>14. Shape'
  BY <1>1 DEF Shape, Suits
<1>15. Lanes'
  <2>1. wire[Home[o]] # <<>> /\ Head(wire[Home[o]]) = o
    BY DEF Moves
  <2>2. CASE /\ wire' = [wire EXCEPT ![Home[o]] = Tail(@)]
             /\ back' = [back EXCEPT ![Home[o]] = Append(@, o)]
    <3>1. /\ wire'[Home[o]] = Tail(wire[Home[o]]) /\ back'[Home[o]] = Append(back[Home[o]], o)
          /\ \A q \in Process \ {Home[o]} : wire'[q] = wire[q] /\ back'[q] = back[q]
      BY <2>2, LaneType, Typed
    <3>2. Among(wire[Home[o]]) \cap Among(back[Home[o]]) = {}
      BY LaneType DEF Lanes
    <3>3. /\ Among(wire'[Home[o]]) = Among(wire[Home[o]]) \ {o} /\ Distinct(wire'[Home[o]])
          /\ Among(back'[Home[o]]) = Among(back[Home[o]]) \cup {o} /\ Distinct(back'[Home[o]])
          /\ pc[o] \in Commands
      BY <2>1, <3>1, LaneHeads
    <3>4. pc' = pc
      BY <1>1
    <3> QED
      BY <3>1, <3>2, <3>3, <3>4, LanesAt
  <2>3. CASE UNCHANGED <<wire, back>>
    BY <1>1, <2>3 DEF Lanes
  <2> QED
    BY <2>2, <2>3 DEF Moves
<1> QED
  BY <1>13, <1>14, <1>15

LEMMA FailBase ==
  ASSUME Base, NEW o \in Op, Fails(o)
  PROVE  Base'
<1> USE DEF Base
<1>1. /\ pc' = [pc EXCEPT ![o] = IF call[o].kind \in {"get", "deleteMany"} THEN "done" ELSE "failed"]
      /\ age' = [age EXCEPT ![o] = 0] /\ UNCHANGED <<l1, call, val, snap, seen, gone>>
      /\ faults < Faults /\ faults' = faults + 1
  BY DEF Fails, EndsFailed
<1>2. l2' \in [Key -> InRedis] /\ tag' \in [Tag -> TagSets]
  BY WithoutType, Typed DEF Fails
<1>3. wire' \in [Process -> Seq(Op)] /\ back' \in [Process -> Seq(Op)]
  <2>1. \/ /\ wire[Home[o]] # <<>> /\ wire' = [wire EXCEPT ![Home[o]] = Tail(@)] /\ UNCHANGED back
        \/ /\ back[Home[o]] # <<>> /\ back' = [back EXCEPT ![Home[o]] = Tail(@)] /\ UNCHANGED wire
    BY DEF Fails
  <2>2. CASE wire[Home[o]] # <<>> /\ wire' = [wire EXCEPT ![Home[o]] = Tail(@)] /\ UNCHANGED back
    BY <2>2, LaneType, Typed
  <2>3. CASE back[Home[o]] # <<>> /\ back' = [back EXCEPT ![Home[o]] = Tail(@)] /\ UNCHANGED wire
    BY <2>3, LaneType, Typed
  <2> QED
    BY <2>1, <2>2, <2>3
<1>4. 0 \in 0..MaxDelay /\ faults' \in 0..Faults
  BY <1>1, Typed, ConstantFacts
<1>5. pc' \in [Op -> Phases]
  BY <1>1, Typed, KindFacts
<1>6. TypeOK'
  BY <1>1, <1>2, <1>3, <1>4, <1>5, Typed DEF TypeOK, Phases
<1>7. Suits(o)'
  <2>1. pc'[o] \in {"done", "failed"} /\ call'[o] = call[o]
    BY <1>1, Typed
  <2>2. pc[o] \in Commands
    BY LaneHeads DEF Fails
  <2> QED
    BY <2>1, <2>2, KindFacts DEF Shape, Suits
<1>8. \A r \in Op \ {o} : pc'[r] = pc[r] /\ call'[r] = call[r]
  BY <1>1, Typed
<1>9. Lanes'
  <2>1. /\ Distinct(wire[Home[o]]) /\ Distinct(back[Home[o]])
        /\ Among(wire[Home[o]]) \cap Among(back[Home[o]]) = {}
    BY LaneType DEF Lanes
  <2>2. CASE /\ wire[Home[o]] # <<>> /\ Head(wire[Home[o]]) = o
             /\ wire' = [wire EXCEPT ![Home[o]] = Tail(@)] /\ UNCHANGED back
    <3>1. /\ wire'[Home[o]] = Tail(wire[Home[o]])
          /\ \A q \in Process \ {Home[o]} : wire'[q] = wire[q]
      BY <2>2, LaneType, Typed
    <3> QED
      BY <1>8, <2>1, <2>2, <3>1, LaneHeads, LanesAt
  <2>3. CASE /\ back[Home[o]] # <<>> /\ Head(back[Home[o]]) = o
             /\ back' = [back EXCEPT ![Home[o]] = Tail(@)] /\ UNCHANGED wire
    <3>1. /\ back'[Home[o]] = Tail(back[Home[o]])
          /\ \A q \in Process \ {Home[o]} : back'[q] = back[q]
      BY <2>3, LaneType, Typed
    <3> QED
      BY <1>8, <2>1, <2>3, <3>1, LaneHeads, LanesAt
  <2> QED
    BY <2>2, <2>3 DEF Fails
<1> QED
  BY <1>6, <1>7, <1>8, <1>9, ShapeAt

LEMMA CrashBase ==
  ASSUME Base, NEW p \in Process, Crash(p)
  PROVE  Base'
<1> USE DEF Base
<1>1. /\ l1' = [l1 EXCEPT ![p] = [k \in Key |-> Nothing]]
      /\ pc' = [o \in Op |-> IF Home[o] = p /\ pc[o] \in Commands THEN "failed" ELSE pc[o]]
      /\ age' = [o \in Op |-> IF Home[o] = p THEN 0 ELSE age[o]]
      /\ wire' = [wire EXCEPT ![p] = <<>>] /\ back' = [back EXCEPT ![p] = <<>>]
      /\ UNCHANGED <<l2, tag, call, val, snap, seen, gone>>
      /\ faults < Faults /\ faults' = faults + 1
  BY DEF Crash
<1>2. l1' \in [Process -> [Key -> InMemory]]
  BY <1>1, Typed, RecordFacts
<1>3. pc' \in [Op -> Phases]
  BY <1>1, Typed, KindFacts
<1>4. age' \in [Op -> 0..MaxDelay] /\ faults' \in 0..Faults
  BY <1>1, Typed, ConstantFacts
<1>5. wire' \in [Process -> Seq(Op)] /\ back' \in [Process -> Seq(Op)]
  BY <1>1, Typed, EmptySeq
<1>6. TypeOK'
  BY <1>1, <1>2, <1>3, <1>4, <1>5, Typed DEF TypeOK, Phases
<1>7. Shape'
  <2> SUFFICES ASSUME NEW o \in Op PROVE Suits(o)'
    BY DEF Shape
  <2>1. pc'[o] = pc[o] \/ (pc[o] \in Commands /\ pc'[o] = "failed")
    BY <1>1
  <2>2. call'[o] = call[o] /\ Suits(o)
    BY <1>1 DEF Shape
  <2> QED
    BY <2>1, <2>2, KindFacts DEF Suits
<1>8. Lanes'
  <2> SUFFICES ASSUME NEW q \in Process
               PROVE  /\ Distinct(wire'[q]) /\ Distinct(back'[q]) /\ Among(wire'[q]) \cap Among(back'[q]) = {}
                      /\ \A r \in Among(wire'[q]) \cup Among(back'[q]) : Home[r] = q /\ pc'[r] \in Commands
    BY DEF Lanes
  <2>1. CASE q = p
    <3>1. wire'[q] = <<>> /\ back'[q] = <<>>
      BY <1>1, <2>1, Typed
    <3> QED
      BY <3>1, EmptyFacts
  <2>2. CASE q # p
    <3>1. wire'[q] = wire[q] /\ back'[q] = back[q]
      BY <1>1, <2>2, Typed
    <3>2. Among(wire[q]) \cup Among(back[q]) \subseteq Op
      <4>1. wire[q] \in Seq(Op) /\ back[q] \in Seq(Op)
        BY Typed
      <4> QED
        BY <4>1, ElementOfSeq DEF Among
    <3> QED
      BY <1>1, <2>2, <3>1, <3>2 DEF Lanes
  <2> QED
    BY <2>1, <2>2
<1> QED
  BY <1>6, <1>7, <1>8

\* Entries a tick later.
LEMMA AgeFacts ==
  /\ \A e \in InMemory : /\ Served(e) \in InMemory
                         /\ Served(e) # Nothing => /\ Served(e).val = e.val /\ e # Nothing
                                                   /\ Served(e).left = e.left - 1 /\ e.left > 0
  /\ \A e \in InRedis : /\ Aged(e) \in InRedis
                        /\ Aged(e) # Nothing => /\ Aged(e).val = e.val /\ e # Nothing
                                                /\ Aged(e).left = e.left - 1 /\ e.left > 1
  /\ \A s \in TagSets : /\ AgedTag(s) \in TagSets
                        /\ s.left # 1 => AgedTag(s).keys = s.keys
                        /\ s.left > 1 => AgedTag(s).left = s.left - 1
                        /\ s.left = 0 => AgedTag(s).left = 0
<1>1. ASSUME NEW e \in InMemory
      PROVE  /\ Served(e) \in InMemory
             /\ Served(e) # Nothing => /\ Served(e).val = e.val /\ e # Nothing
                                       /\ Served(e).left = e.left - 1 /\ e.left > 0
  <2>1. CASE e # Nothing /\ e.left > 0
    <3>1. e.val \in Op /\ e.left - 1 \in 0..L1Ttl
      BY <2>1, EntryFacts, ConstantFacts
    <3>2. Served(e) = [val |-> e.val, left |-> e.left - 1]
      BY <2>1 DEF Served
    <3> QED
      BY <2>1, <3>1, <3>2, RecordFacts
  <2>2. CASE ~(e # Nothing /\ e.left > 0)
    BY <2>2, RecordFacts DEF Served
  <2> QED
    BY <2>1, <2>2
<1>2. ASSUME NEW e \in InRedis
      PROVE  /\ Aged(e) \in InRedis
             /\ Aged(e) # Nothing => /\ Aged(e).val = e.val /\ e # Nothing
                                     /\ Aged(e).left = e.left - 1 /\ e.left > 1
  <2>1. CASE e.left > 1
    <3>1. e # Nothing
      BY <2>1, RecordFacts
    <3>2. e.val \in Op /\ e.left - 1 \in Nat \ {0}
      BY <2>1, <3>1, EntryFacts
    <3>3. Aged(e) = [val |-> e.val, left |-> e.left - 1]
      BY <2>1 DEF Aged
    <3>4. [val |-> e.val, left |-> e.left - 1] \in InRedis
      BY <3>2, RecordFacts
    <3> QED
      BY <2>1, <3>1, <3>3, <3>4
  <2>2. CASE ~(e.left > 1)
    BY <2>2, RecordFacts DEF Aged
  <2> QED
    BY <2>1, <2>2
<1>3. ASSUME NEW s \in TagSets
      PROVE  /\ AgedTag(s) \in TagSets
             /\ s.left # 1 => AgedTag(s).keys = s.keys
             /\ s.left > 1 => AgedTag(s).left = s.left - 1
             /\ s.left = 0 => AgedTag(s).left = 0
  <2>1. s.keys \in SUBSET Key /\ s.left \in 0..TagTtl /\ TagTtl \in Nat
    BY EntryFacts, ConstantFacts
  <2>2. CASE s.left = 1
    BY <2>2, RecordFacts DEF AgedTag
  <2>3. CASE s.left # 1
    <3> DEFINE n == IF s.left = 0 THEN 0 ELSE s.left - 1
    <3>1. n \in 0..TagTtl
      BY <2>1
    <3>2. AgedTag(s) = [keys |-> s.keys, left |-> n]
      BY <2>3 DEF AgedTag
    <3> QED
      BY <2>1, <2>3, <3>1, <3>2, RecordFacts
  <2> QED
    BY <2>2, <2>3
<1> QED
  BY <1>1, <1>2, <1>3

LEMMA TickBase ==
  ASSUME Base, Tick
  PROVE  Base'
<1> USE DEF Base
<1>1. /\ l1' = [p \in Process |-> [k \in Key |-> Served(l1[p][k])]]
      /\ l2' = [k \in Key |-> Aged(l2[k])]
      /\ tag' = [t \in Tag |-> AgedTag(tag[t])]
      /\ age' = [o \in Op |-> IF pc[o] \in Commands THEN age[o] + 1 ELSE age[o]]
      /\ UNCHANGED <<pc, call, val, snap, wire, back, faults, seen>>
  BY DEF Tick
<1>2. l1' \in [Process -> [Key -> InMemory]] /\ l2' \in [Key -> InRedis] /\ tag' \in [Tag -> TagSets]
  <2>1. \A p \in Process, k \in Key : Served(l1[p][k]) \in InMemory
    BY Typed, AgeFacts
  <2>2. \A k \in Key : Aged(l2[k]) \in InRedis
    BY Typed, AgeFacts
  <2>3. \A t \in Tag : AgedTag(tag[t]) \in TagSets
    BY Typed, AgeFacts
  <2> QED
    BY <1>1, <2>1, <2>2, <2>3
<1>3. age' \in [Op -> 0..MaxDelay]
  <2>1. \A o \in Op : pc[o] \in Commands => age[o] < MaxDelay
    BY DEF Tick, MayPass
  <2>2. \A o \in Op : age[o] \in 0..MaxDelay
    BY Typed
  <2> QED
    BY <1>1, <2>1, <2>2, ConstantFacts
<1>4. gone' \in [Op -> 0..Horizon]
  <2>1. Horizon \in Nat /\ \A v \in Op : gone[v] \in 0..Horizon
    BY Typed, ConstantFacts DEF Horizon
  <2>2. \A v \in Op : Min2(gone[v] + 1, Horizon) \in 0..Horizon
    BY <2>1 DEF Min2
  <2>3. gone' = [v \in Op |-> IF val[v] # v \/ \E k \in Key : l2[k].val = v THEN 0
                              ELSE Min2(gone[v] + 1, Horizon)]
    BY DEF Tick
  <2> QED
    BY <2>1, <2>2, <2>3
<1>5. TypeOK'
  BY <1>1, <1>2, <1>3, <1>4, Typed DEF TypeOK, Phases
<1>6. Shape'
  BY <1>1 DEF Shape, Suits
<1>7. Lanes'
  BY <1>1 DEF Lanes
<1> QED
  BY <1>5, <1>6, <1>7

LEMMA BaseStep == Base /\ [Next]_vars => Base'
<1> SUFFICES ASSUME Base, [Next]_vars PROVE Base'
  OBVIOUS
<1>1. CASE UNCHANGED vars
  BY <1>1 DEF vars, Base, TypeOK, Shape, Suits, Lanes
<1> QED
  BY <1>1, StepKinds, StartBase, ExecutionBase, AnswerBase, FailBase, CrashBase, TickBase

\* Every variable keeps its type, calls send the commands of their kind, and a connection
\* carries an operation once.
THEOREM TypeCorrect == Spec => []Base
<1> QED
  BY BaseInit, BaseStep, PTL DEF Spec

--------------------------------------------------------------------------------
(* What a step does to one operation and to one entry.                          *)

\* A call in progress stays the same call; it waits for SETEX or GET only at the beginning.
LEMMA CallStep ==
  ASSUME Base, [Next]_vars, NEW o \in Op
  PROVE  /\ pc[o] # "new" => call'[o] = call[o] /\ pc'[o] # "new"
         /\ pc'[o] = "new" => pc[o] = "new" /\ call'[o] = call[o]
         /\ pc'[o] \in {"setex", "get"} =>
              \/ pc[o] = "new"
              \/ /\ pc'[o] = pc[o]
                 /\ \/ age'[o] = age[o] /\ gone' = gone
                    \/ Tick /\ age'[o] = age[o] + 1
<1> DEFINE Claim == /\ pc[o] # "new" => call'[o] = call[o] /\ pc'[o] # "new"
                    /\ pc'[o] = "new" => pc[o] = "new" /\ call'[o] = call[o]
                    /\ pc'[o] \in {"setex", "get"} =>
                         \/ pc[o] = "new"
                         \/ /\ pc'[o] = pc[o]
                            /\ \/ age'[o] = age[o] /\ gone' = gone
                               \/ Tick /\ age'[o] = age[o] + 1
<1>1. ASSUME NEW r \in Op, NEW kind, NEW key, NEW ttl, NEW first, Starts(r, kind, key, ttl, first)
      PROVE  Claim
  <2>1. /\ pc[r] = "new" /\ pc' = [pc EXCEPT ![r] = first]
        /\ call' = [call EXCEPT ![r] = [kind |-> kind, key |-> key, ttl |-> ttl]]
        /\ age' = age /\ gone' = gone
    BY <1>1 DEF Starts, Begins
  <2>2. first # "new"
    BY <1>1, KindFacts DEF Starts
  <2> QED
    BY <2>1, <2>2, Typed DEF Base
<1>2. ASSUME NEW r \in Op, Moves(r) PROVE Claim
  BY <1>2 DEF Moves, atRest
<1>3. ASSUME NEW r \in Op, Answered(r) PROVE Claim
  <2>1. PICK next \in Phases : Proceeds(r, next) /\ Continues(r, next)
    BY <1>3, AnswerKinds
  <2>2. /\ pc' = [pc EXCEPT ![r] = next] /\ age' = [age EXCEPT ![r] = 0]
        /\ call' = call /\ gone' = gone
    BY <2>1 DEF Proceeds
  <2>3. next \notin {"new", "setex", "get"} /\ pc[r] # "new"
    BY <2>1 DEF Continues
  <2> QED
    BY <2>2, <2>3, Typed DEF Base
<1>4. ASSUME NEW r \in Op, Fails(r) PROVE Claim
  <2>1. /\ pc' = [pc EXCEPT ![r] = IF call[r].kind \in {"get", "deleteMany"} THEN "done" ELSE "failed"]
        /\ age' = [age EXCEPT ![r] = 0] /\ call' = call /\ gone' = gone
    BY <1>4 DEF Fails, EndsFailed
  <2>2. pc[r] \in Commands
    BY <1>4, LaneHeads DEF Fails, Base
  <2> QED
    BY <2>1, <2>2, KindFacts, Typed DEF Base
<1>5. ASSUME NEW p \in Process, Crash(p) PROVE Claim
  <2>1. /\ pc' = [v \in Op |-> IF Home[v] = p /\ pc[v] \in Commands THEN "failed" ELSE pc[v]]
        /\ age' = [v \in Op |-> IF Home[v] = p THEN 0 ELSE age[v]]
        /\ call' = call /\ gone' = gone
    BY <1>5 DEF Crash
  <2>2. "new" \notin Commands /\ "setex" \in Commands /\ "get" \in Commands
    BY DEF Commands
  <2> QED
    BY <2>1, <2>2, Typed DEF Base
<1>6. ASSUME Tick PROVE Claim
  <2>1. /\ pc' = pc /\ call' = call
        /\ age' = [v \in Op |-> IF pc[v] \in Commands THEN age[v] + 1 ELSE age[v]]
    BY <1>6 DEF Tick
  <2>2. "setex" \in Commands /\ "get" \in Commands
    BY DEF Commands
  <2> QED
    BY <1>6, <2>1, <2>2, Typed DEF Base
<1>7. UNCHANGED vars => Claim
  BY DEF vars
<1> HIDE DEF Claim
<1>8. Claim
  BY StepKinds, <1>1, <1>2, <1>3, <1>4, <1>5, <1>6, <1>7
<1> QED
  BY <1>8 DEF Claim

\* A value is written by SETEX and read by GET.
LEMMA ValueStep ==
  ASSUME Base, [Next]_vars, NEW o \in Op
  PROVE  \/ val'[o] = val[o]
         \/ Setex(o) /\ val'[o] = o
         \/ GetExec(o) /\ val'[o] = l2[call[o].key].val
<1>1. ASSUME NEW r \in Op, Executions(r)
      PROVE  \/ val' = val
             \/ Setex(r) /\ val' = [val EXCEPT ![r] = r]
             \/ GetExec(r) /\ val' = [val EXCEPT ![r] = l2[call[r].key].val]
  BY <1>1 DEF Executions, Setex, Sadd, Expire, GetExec, Del, Members, Dels, DelTag, ScanExec, DelOne, ScanTags
<1>2. ASSUME NEW r \in Op, Executions(r) PROVE \/ val'[o] = val[o]
                                               \/ Setex(o) /\ val'[o] = o
                                               \/ GetExec(o) /\ val'[o] = l2[call[o].key].val
  BY <1>1, <1>2, Typed DEF Base
<1>3. ASSUME NEW r \in Op, Answered(r) PROVE val' = val
  BY <1>3, AnswerKinds DEF Proceeds
<1>4. ASSUME NEW r \in Op, NEW kind, NEW key, NEW ttl, NEW first, Starts(r, kind, key, ttl, first)
      PROVE  val' = val
  BY <1>4 DEF Starts, Begins
<1>5. ASSUME NEW r \in Op, Fails(r) PROVE val' = val
  BY <1>5 DEF Fails, EndsFailed
<1>6. ASSUME NEW p \in Process, Crash(p) PROVE val' = val
  BY <1>6 DEF Crash
<1>7. Tick \/ UNCHANGED vars => val' = val
  BY DEF Tick, vars
<1> QED
  BY StepKinds, <1>2, <1>3, <1>4, <1>5, <1>6, <1>7

\* An entry of Redis stays, goes, grows older or is written.
LEMMA RedisStep ==
  ASSUME Base, [Next]_vars, NEW k \in Key
  PROVE  \/ l2'[k] = l2[k]
         \/ l2'[k] = Nothing
         \/ Tick /\ l2'[k] = Aged(l2[k])
         \/ \E o \in Op : /\ Setex(o) /\ k = call[o].key
                          /\ l2'[k] = [val |-> o, left |-> call[o].ttl]
<1>1. ASSUME NEW keys, l2' = Without(keys) PROVE l2'[k] = l2[k] \/ l2'[k] = Nothing
  BY <1>1 DEF Without
<1>2. ASSUME NEW r \in Op, Executions(r)
      PROVE  \/ l2' = l2
             \/ \E keys : l2' = Without(keys)
             \/ Setex(r) /\ l2' = [l2 EXCEPT ![call[r].key] = [val |-> r, left |-> call[r].ttl]]
  BY <1>2 DEF Executions, Setex, Sadd, Expire, GetExec, Del, Members, Dels, DelTag, ScanExec, DelOne, ScanTags
<1>3. ASSUME NEW r \in Op, Executions(r), Setex(r),
             l2' = [l2 EXCEPT ![call[r].key] = [val |-> r, left |-> call[r].ttl]]
      PROVE  l2'[k] = l2[k] \/ (k = call[r].key /\ l2'[k] = [val |-> r, left |-> call[r].ttl])
  BY <1>3, Typed DEF Base
<1>4. ASSUME NEW r \in Op, Answered(r) PROVE l2' = l2
  BY <1>4, AnswerKinds DEF Proceeds
<1>5. ASSUME NEW r \in Op, NEW kind, NEW key, NEW ttl, NEW first, Starts(r, kind, key, ttl, first)
      PROVE  l2' = l2
  BY <1>5 DEF Starts, Begins
<1>6. ASSUME NEW r \in Op, Fails(r) PROVE l2' = l2 \/ \E keys : l2' = Without(keys)
  BY <1>6 DEF Fails
<1>7. ASSUME NEW p \in Process, Crash(p) PROVE l2' = l2
  BY <1>7 DEF Crash
<1>8. Tick => l2'[k] = Aged(l2[k])
  BY DEF Tick
<1>9. UNCHANGED vars => l2' = l2
  BY DEF vars
<1> QED
  BY StepKinds, <1>1, <1>2, <1>3, <1>4, <1>5, <1>6, <1>7, <1>8, <1>9

\* An entry of memory stays, goes, grows older, or is filled by an answer.
LEMMA MemoryStep ==
  ASSUME Base, [Next]_vars, NEW p \in Process, NEW k \in Key
  PROVE  \/ l1'[p][k] = l1[p][k]
         \/ l1'[p][k] = Nothing
         \/ Tick /\ l1'[p][k] = Served(l1[p][k])
         \/ \E o \in Op : /\ SetexAnswered(o) /\ call[o].kind = "set" /\ p = Home[o] /\ k = call[o].key
                          /\ l1'[p][k] = [val |-> o, left |-> Min2(call[o].ttl, L1Ttl)]
         \/ \E o \in Op : /\ GetAnswered(o) /\ val[o] # None /\ p = Home[o] /\ k = call[o].key
                          /\ l1'[p][k] = [val |-> val[o], left |-> L1Ttl]
<1>1. ASSUME NEW q \in Process, NEW keys, FromL1(q, keys) PROVE l1'[p][k] = l1[p][k] \/ l1'[p][k] = Nothing
  BY <1>1, Typed DEF FromL1, DropsL1, Base
<1>2. ASSUME NEW q \in Process, NEW j, NEW v, NEW n, InL1(q, j, v, n)
      PROVE  l1'[p][k] = l1[p][k] \/ (p = q /\ k = j /\ l1'[p][k] = [val |-> v, left |-> n])
  BY <1>2, Typed DEF InL1, Base
<1>3. \A r \in Op : Home[r] \in Process
  BY ConstantFacts
<1>4. ASSUME NEW r \in Op, NEW kind, NEW key, NEW ttl, NEW first, Starts(r, kind, key, ttl, first)
      PROVE  l1'[p][k] = l1[p][k] \/ l1'[p][k] = Nothing
  BY <1>1, <1>3, <1>4 DEF Starts
<1>5. ASSUME NEW r \in Op, Moves(r) \/ Fails(r) PROVE l1' = l1
  BY <1>5 DEF Moves, atRest, Fails, EndsFailed
<1>6. ASSUME NEW q \in Process, Crash(q) PROVE l1'[p][k] = l1[p][k] \/ l1'[p][k] = Nothing
  BY <1>6, Typed DEF Crash, Base
<1>7. Tick => l1'[p][k] = Served(l1[p][k])
  BY DEF Tick
<1>8. ASSUME NEW r \in Op, SetexAnswered(r)
      PROVE  \/ l1'[p][k] = l1[p][k]
             \/ /\ call[r].kind = "set" /\ p = Home[r] /\ k = call[r].key
                /\ l1'[p][k] = [val |-> r, left |-> Min2(call[r].ttl, L1Ttl)]
  BY <1>2, <1>3, <1>8 DEF SetexAnswered, IntoL1
<1>9. ASSUME NEW r \in Op, GetAnswered(r)
      PROVE  \/ l1'[p][k] = l1[p][k]
             \/ /\ val[r] # None /\ p = Home[r] /\ k = call[r].key
                /\ l1'[p][k] = [val |-> val[r], left |-> L1Ttl]
  BY <1>2, <1>3, <1>9 DEF GetAnswered, PopulateTtl
<1>10. ASSUME NEW r \in Op, Answered(r), ~SetexAnswered(r), ~GetAnswered(r)
       PROVE  l1' = l1 \/ \E keys : FromL1(Home[r], keys)
  BY <1>10 DEF Answered, SaddAnswered, ExpireAnswered, DelAnswered, MembersAnswered, MembersAgainAnswered,
         DelsAnswered, DelTagAnswered, ScanAnswered, DelOneAnswered, ScanTagsAnswered, DelTagsAnswered
<1>11. ASSUME NEW r \in Op, Answered(r), ~SetexAnswered(r), ~GetAnswered(r)
       PROVE  l1'[p][k] = l1[p][k] \/ l1'[p][k] = Nothing
  BY <1>1, <1>3, <1>10, <1>11
<1>12. UNCHANGED vars => l1' = l1
  BY DEF vars
<1> QED
  BY StepKinds, <1>4, <1>5, <1>6, <1>7, <1>8, <1>9, <1>11, <1>12

\* What waits in the wire after a step waited there before, or has just been sent.
LEMMA WireStep ==
  ASSUME Base, [Next]_vars, NEW o \in Op, o \in Among(wire'[Home[o]]), pc'[o] = pc[o], pc[o] # "delOne"
  PROVE  o \in Among(wire[Home[o]]) /\ ~Setex(o) /\ ~GetExec(o)
<1>1. Home[o] \in Process /\ \A r \in Op : Home[r] \in Process
  BY ConstantFacts
<1>2. ASSUME NEW r \in Op, wire[Home[r]] # <<>>, Head(wire[Home[r]]) = r, wire' = [wire EXCEPT ![Home[r]] = Tail(@)]
      PROVE  o \in Among(wire[Home[o]]) /\ r # o
  <2>1. Among(Tail(wire[Home[r]])) = Among(wire[Home[r]]) \ {r}
    BY <1>2, LaneHeads DEF Base
  <2>2. wire'[Home[o]] = IF Home[o] = Home[r] THEN Tail(wire[Home[r]]) ELSE wire[Home[o]]
    BY <1>1, <1>2, Typed DEF Base
  <2> QED
    BY <2>1, <2>2
<1>3. ASSUME NEW r \in Op, r # o, Sent(r) PROVE o \in Among(wire[Home[o]])
  <2>1. Among(Append(wire[Home[r]], r)) = Among(wire[Home[r]]) \cup {r}
    BY LaneHeads DEF Base
  <2>2. wire'[Home[o]] = IF Home[o] = Home[r] THEN Append(wire[Home[r]], r) ELSE wire[Home[o]]
    BY <1>1, <1>3, Typed DEF Base, Sent
  <2> QED
    BY <1>3, <2>1, <2>2
<1>4. ASSUME NEW r \in Op, NEW kind, NEW key, NEW ttl, NEW first, Starts(r, kind, key, ttl, first)
      PROVE  o \in Among(wire[Home[o]])
  <2>1. pc[r] = "new" /\ pc'[r] = first /\ first # "new" /\ (Sent(r) \/ wire' = wire)
    BY <1>4, KindFacts, Typed DEF Starts, Begins, Base
  <2> QED
    BY <1>3, <2>1
<1>5. ASSUME NEW r \in Op, Moves(r) PROVE o \in Among(wire[Home[o]])
  BY <1>2, <1>5 DEF Moves
<1>6. ASSUME NEW r \in Op, Answered(r) PROVE o \in Among(wire[Home[o]])
  <2>1. PICK next \in Phases : Proceeds(r, next) /\ Continues(r, next)
    BY <1>6, AnswerKinds
  <2>2. pc'[r] = next /\ (Sent(r) \/ wire' = wire)
    BY <2>1, Typed DEF Proceeds, Base
  <2>3. r = o => pc[r] = next /\ pc[r] # "delOne"
    BY <2>2
  <2>4. Sent(r) => r # o
    BY <2>1, <2>3 DEF Continues
  <2> QED
    BY <1>3, <2>2, <2>4
<1>7. ASSUME NEW r \in Op, Fails(r) PROVE o \in Among(wire[Home[o]])
  BY <1>2, <1>7 DEF Fails
<1>8. ASSUME NEW p \in Process, Crash(p) PROVE o \in Among(wire[Home[o]])
  <2>1. wire'[Home[o]] = wire[Home[o]] \/ wire'[Home[o]] = <<>>
    BY <1>1, <1>8, Typed DEF Crash, Base
  <2> QED
    BY <2>1, EmptyFacts
<1>9. Tick \/ UNCHANGED vars => o \in Among(wire[Home[o]])
  BY DEF Tick, vars
<1>10. Setex(o) \/ GetExec(o) => o # o
  BY <1>2 DEF Setex, GetExec, Executes, Executed
<1> QED
  BY StepKinds, <1>4, <1>5, <1>6, <1>7, <1>8, <1>9, <1>10

--------------------------------------------------------------------------------
(* How long memory is out of date.                                              *)

\* What is stored, served or read was written by a call for the key.
Written(v, k) == v = None \/ (call[v].kind \in Writing /\ call[v].key = k)
Sources ==
  /\ \A k \in Key : Written(l2[k].val, k)
  /\ \A p \in Process, k \in Key : Written(l1[p][k].val, k)
  /\ \A o \in Op : call[o].kind = "get" => Written(val[o], call[o].key)
  /\ \A o \in Op : val[o] = o => call[o].kind \in Writing
  /\ \A o \in Op : pc[o] = "new" \/ (pc[o] = "setex" /\ o \in Among(wire[Home[o]])) => val[o] = None

\* A value in Redis is not gone, and what an answer brings into memory is gone no longer than
\* the answer takes.
Fresh ==
  /\ \A k \in Key : l2[k].val # None => gone[l2[k].val] = 0
  /\ \A v \in Op : val[v] # v => gone[v] = 0
  /\ \A o \in Op : pc[o] = "setex" => gone[o] <= age[o]
  /\ \A o \in Op : pc[o] = "get" /\ val[o] # None => gone[val[o]] <= age[o]

BriefInv == Base /\ Sources /\ Fresh /\ StalenessBounded

LEMMA BriefInit == Init => BriefInv
<1> SUFFICES ASSUME Init PROVE BriefInv
  OBVIOUS
<1>1. Base
  BY BaseInit
<1>2. Sources
  BY ConstantFacts, RecordFacts DEF Init, Sources, Written, NoCall
<1>3. Fresh
  BY RecordFacts DEF Init, Fresh
<1>4. StalenessBounded
  BY DEF Init, StalenessBounded
<1> QED
  BY <1>1, <1>2, <1>3, <1>4 DEF BriefInv

\* The value an entry or an operation holds is an operation.
LEMMA ValueFacts ==
  ASSUME Base
  PROVE  /\ \A k \in Key : l2[k] \in InRedis /\ l2[k].val \in Op \cup {None}
         /\ \A p \in Process, k \in Key : l1[p][k] \in InMemory /\ l1[p][k].val \in Op \cup {None}
         /\ \A o \in Op : val[o] \in Op \cup {None} /\ age[o] \in 0..MaxDelay /\ gone[o] \in 0..Horizon
         /\ Nothing.val = None /\ None \notin Op
BY Typed, EntryFacts, RecordFacts, ConstantFacts DEF Base

\* Written, of the next state.
WrittenNext(v, k) == v = None \/ (call'[v].kind \in Writing /\ call'[v].key = k)

LEMMA WrittenStep ==
  ASSUME Base, [Next]_vars, NEW v \in Op \cup {None}, NEW k, Written(v, k)
  PROVE  WrittenNext(v, k)
<1>1. CASE v = None
  BY <1>1 DEF WrittenNext
<1>2. CASE v \in Op /\ v # None
  <2>1. pc[v] # "new"
    BY <1>2 DEF Written, Base, Shape, Suits, Writing
  <2> QED
    BY <1>2, <2>1, CallStep DEF Written, WrittenNext
<1> QED
  BY <1>1, <1>2

LEMMA SourcesStep ==
  ASSUME Base, Sources, [Next]_vars
  PROVE  Sources'
<1>1. ASSUME NEW k \in Key PROVE WrittenNext(l2'[k].val, k)
  <2>1. WrittenNext(l2[k].val, k)
    BY ValueFacts, WrittenStep DEF Sources
  <2>2. CASE l2'[k].val \in {l2[k].val, None}
    BY <2>1, <2>2 DEF WrittenNext
  <2>3. CASE Tick /\ l2'[k] = Aged(l2[k])
    <3>1. l2'[k].val \in {l2[k].val, None}
      BY <2>3, ValueFacts, AgeFacts
    <3> QED
      BY <2>2, <3>1
  <2>4. ASSUME NEW o \in Op, Setex(o), k = call[o].key, l2'[k] = [val |-> o, left |-> call[o].ttl]
        PROVE  WrittenNext(l2'[k].val, k)
    <3>1. pc[o] = "setex" /\ l2'[k].val = o
      BY <2>4 DEF Setex, Executes
    <3>2. Written(o, k)
      BY <2>4, <3>1, KindOf DEF Written
    <3> QED
      BY <3>1, <3>2, WrittenStep
  <2> QED
    BY <2>2, <2>3, <2>4, RedisStep, ValueFacts
<1>2. ASSUME NEW p \in Process, NEW k \in Key PROVE WrittenNext(l1'[p][k].val, k)
  <2>1. WrittenNext(l1[p][k].val, k)
    BY ValueFacts, WrittenStep DEF Sources
  <2>2. CASE l1'[p][k].val \in {l1[p][k].val, None}
    BY <2>1, <2>2 DEF WrittenNext
  <2>3. CASE Tick /\ l1'[p][k] = Served(l1[p][k])
    <3>1. l1'[p][k].val \in {l1[p][k].val, None}
      BY <2>3, ValueFacts, AgeFacts
    <3> QED
      BY <2>2, <3>1
  <2>4. ASSUME NEW o \in Op, SetexAnswered(o), k = call[o].key,
               l1'[p][k] = [val |-> o, left |-> Min2(call[o].ttl, L1Ttl)]
        PROVE  WrittenNext(l1'[p][k].val, k)
    <3>1. pc[o] = "setex" /\ l1'[p][k].val = o
      BY <2>4 DEF SetexAnswered, Answers
    <3>2. Written(o, k)
      BY <2>4, <3>1, KindOf DEF Written
    <3> QED
      BY <3>1, <3>2, WrittenStep
  <2>5. ASSUME NEW o \in Op, GetAnswered(o), k = call[o].key, l1'[p][k] = [val |-> val[o], left |-> L1Ttl]
        PROVE  WrittenNext(l1'[p][k].val, k)
    <3>1. pc[o] = "get" /\ l1'[p][k].val = val[o]
      BY <2>5 DEF GetAnswered, Answers
    <3>2. Written(val[o], k)
      BY <2>5, <3>1, KindOf DEF Sources
    <3> QED
      BY <3>1, <3>2, ValueFacts, WrittenStep
  <2> QED
    BY <2>2, <2>3, <2>4, <2>5, MemoryStep, ValueFacts
<1>3. ASSUME NEW o \in Op, call'[o].kind = "get" PROVE WrittenNext(val'[o], call'[o].key)
  <2>1. CASE val'[o] = val[o]
    <3>1. CASE pc[o] = "new"
      <4>1. val'[o] = None
        BY <2>1, <3>1 DEF Sources
      <4> QED
        BY <4>1 DEF WrittenNext
    <3>2. CASE pc[o] # "new"
      <4>1. call'[o] = call[o]
        BY <3>2, CallStep
      <4>2. WrittenNext(val[o], call[o].key)
        BY <1>3, <4>1, ValueFacts, WrittenStep DEF Sources
      <4> QED
        BY <2>1, <4>1, <4>2
    <3> QED
      BY <3>1, <3>2
  <2>2. CASE Setex(o)
    <3>1. call[o].kind \in Writing /\ pc[o] = "setex"
      BY <2>2, KindOf DEF Setex, Executes
    <3>2. call'[o] = call[o]
      BY <3>1, CallStep
    <3> QED
      BY <1>3, <3>1, <3>2 DEF Writing
  <2>3. CASE GetExec(o) /\ val'[o] = l2[call[o].key].val
    <3>1. pc[o] = "get" /\ call[o].key \in Key
      BY <2>3, KindOf DEF GetExec, Executes
    <3>2. call'[o] = call[o]
      BY <3>1, CallStep
    <3>3. WrittenNext(l2[call[o].key].val, call[o].key)
      BY <3>1, ValueFacts, WrittenStep DEF Sources
    <3> QED
      BY <2>3, <3>2, <3>3
  <2> QED
    BY <2>1, <2>2, <2>3, ValueStep
<1>4. ASSUME NEW o \in Op, val'[o] = o PROVE call'[o].kind \in Writing
  <2>1. ASSUME call[o].kind \in Writing PROVE call'[o].kind \in Writing
    <3>1. pc[o] # "new"
      BY <2>1 DEF Base, Shape, Suits, Writing
    <3> QED
      BY <2>1, <3>1, CallStep
  <2>2. CASE val'[o] = val[o]
    BY <1>4, <2>1, <2>2 DEF Sources
  <2>3. CASE Setex(o)
    BY <2>1, <2>3, KindOf DEF Setex, Executes
  <2>4. CASE GetExec(o) /\ val'[o] = l2[call[o].key].val
    <3>1. call[o].key \in Key
      BY <2>4, KindOf DEF GetExec, Executes
    <3>2. l2[call[o].key].val = o /\ Written(l2[call[o].key].val, call[o].key)
      BY <1>4, <2>4, <3>1 DEF Sources
    <3>3. call[o].kind \in Writing
      BY <3>2, ConstantFacts DEF Written
    <3> QED
      BY <2>1, <3>3
  <2> QED
    BY <2>2, <2>3, <2>4, ValueStep
<1>5. ASSUME NEW o \in Op, pc'[o] = "new" \/ (pc'[o] = "setex" /\ o \in Among(wire'[Home[o]]))
      PROVE  val'[o] = None
  <2>1. CASE pc[o] = "new"
    <3>1. ~Setex(o) /\ ~GetExec(o)
      BY <2>1 DEF Setex, GetExec, Executes
    <3> QED
      BY <2>1, <3>1, ValueStep DEF Sources
  <2>2. CASE pc[o] # "new"
    <3>1. pc'[o] = "setex" /\ pc[o] = "setex" /\ o \in Among(wire'[Home[o]])
      BY <1>5, <2>2, CallStep
    <3>2. o \in Among(wire[Home[o]]) /\ ~Setex(o) /\ ~GetExec(o)
      BY <3>1, WireStep
    <3> QED
      BY <3>1, <3>2, ValueStep DEF Sources
  <2> QED
    BY <2>1, <2>2
<1> QED
  BY <1>1, <1>2, <1>3, <1>4, <1>5 DEF Sources, Written, WrittenNext

LEMMA NextFacts ==
  ASSUME Base, [Next]_vars, NEW o \in Op
  PROVE  age'[o] \in 0..MaxDelay /\ gone'[o] \in 0..Horizon /\ gone'[o] \in Nat /\ age'[o] \in Nat
<1>1. TypeOK'
  BY BaseStep DEF Base
<1>2. age' \in [Op -> 0..MaxDelay] /\ gone' \in [Op -> 0..Horizon] /\ Horizon \in Nat
  BY <1>1, ConstantFacts DEF TypeOK, Horizon
<1> QED
  BY <1>2, ConstantFacts

\* The time since a value left Redis.
LEMMA GoneStep ==
  ASSUME Base, [Next]_vars, NEW v \in Op
  PROVE  \/ gone' = gone
         \/ /\ Tick /\ gone'[v] <= gone[v] + 1
            /\ val[v] # v \/ (\E k \in Key : l2[k].val = v) => gone'[v] = 0
<1>1. Tick \/ gone' = gone
  <2>1. \A r \in Op : Moves(r) \/ Fails(r) => gone' = gone
    BY DEF Moves, atRest, Fails, EndsFailed
  <2>2. \A r \in Op : Answered(r) => gone' = gone
    BY AnswerKinds DEF Proceeds
  <2>3. \A r \in Op : \A kind, key, ttl, first : Starts(r, kind, key, ttl, first) => gone' = gone
    BY DEF Starts, Begins
  <2>4. \A p \in Process : Crash(p) => gone' = gone
    BY DEF Crash
  <2>5. UNCHANGED vars => gone' = gone
    BY DEF vars
  <2> QED
    BY StepKinds, <2>1, <2>2, <2>3, <2>4, <2>5
<1>2. ASSUME Tick
      PROVE  /\ gone'[v] <= gone[v] + 1
             /\ val[v] # v \/ (\E k \in Key : l2[k].val = v) => gone'[v] = 0
  <2>1. gone'[v] = IF val[v] # v \/ \E k \in Key : l2[k].val = v THEN 0 ELSE Min2(gone[v] + 1, Horizon)
    BY <1>2 DEF Tick
  <2>2. gone[v] \in 0..Horizon /\ Horizon \in Nat
    BY ValueFacts, ConstantFacts DEF Horizon
  <2> QED
    BY <2>1, <2>2 DEF Min2
<1> QED
  BY <1>1, <1>2

LEMMA FreshStep ==
  ASSUME Base, Sources, Fresh, [Next]_vars
  PROVE  Fresh'
<1>1. ASSUME NEW k \in Key, l2'[k].val # None PROVE gone'[l2'[k].val] = 0
  <2>1. ASSUME l2'[k].val = l2[k].val PROVE gone'[l2'[k].val] = 0
    <3>1. l2[k].val \in Op
      BY <1>1, <2>1, ValueFacts
    <3> QED
      BY <1>1, <2>1, <3>1, GoneStep DEF Fresh
  <2>2. ASSUME Tick, l2'[k] = Aged(l2[k]) PROVE l2'[k].val = l2[k].val
    BY <1>1, <2>2, ValueFacts, AgeFacts
  <2>3. ASSUME NEW o \in Op, Setex(o), l2'[k] = [val |-> o, left |-> call[o].ttl] PROVE gone'[l2'[k].val] = 0
    <3>1. pc[o] = "setex" /\ o \in Among(wire[Home[o]])
      BY <2>3, LaneHeads DEF Setex, Executes, Base
    <3>2. val[o] = None /\ gone[o] = 0
      BY <3>1, ValueFacts DEF Sources, Fresh
    <3>3. gone' = gone
      BY <2>3 DEF Setex, Executed, atRest
    <3> QED
      BY <2>3, <3>2, <3>3
  <2> QED
    BY <1>1, <2>1, <2>2, <2>3, RedisStep, ValueFacts
<1>2. ASSUME NEW v \in Op, val'[v] # v PROVE gone'[v] = 0
  <2>1. CASE val[v] # v
    BY <2>1, GoneStep DEF Fresh
  <2>2. CASE val[v] = v
    <3>1. call[v].kind \in Writing
      BY <2>2 DEF Sources
    <3>2. ~GetExec(v)
      BY <3>1, KindOf DEF GetExec, Executes, Writing
    <3> QED
      BY <1>2, <2>2, <3>2, ValueStep
  <2> QED
    BY <2>1, <2>2
<1>3. ASSUME NEW o \in Op, NEW v \in Op, gone[v] <= age[o],
             \/ age'[o] = age[o] /\ gone' = gone
             \/ Tick /\ age'[o] = age[o] + 1
      PROVE  gone'[v] <= age'[o]
  <2>1. gone[v] \in Nat /\ age[o] \in Nat
    BY ValueFacts, ConstantFacts DEF Horizon
  <2>2. gone' = gone \/ (Tick /\ gone'[v] <= gone[v] + 1)
    BY GoneStep
  <2>3. gone'[v] \in Nat /\ age'[o] \in Nat
    BY NextFacts
  <2>4. CASE age'[o] = age[o] /\ gone' = gone
    BY <1>3, <2>4
  <2>5. CASE Tick /\ age'[o] = age[o] + 1
    BY <1>3, <2>1, <2>2, <2>3, <2>5
  <2> QED
    BY <1>3, <2>4, <2>5
<1>4. ASSUME NEW o \in Op, pc'[o] = "setex" PROVE gone'[o] <= age'[o]
  <2>1. CASE pc[o] = "new"
    <3>1. val[o] # o /\ ~Setex(o) /\ ~GetExec(o)
      BY <2>1, ValueFacts DEF Sources, Setex, GetExec, Executes
    <3>2. val'[o] # o
      BY <3>1, ValueStep
    <3>3. gone'[o] = 0 /\ age'[o] \in 0..MaxDelay
      BY <1>2, <3>2, NextFacts
    <3> QED
      BY <3>3, ConstantFacts
  <2>2. CASE pc[o] # "new"
    BY <1>3, <1>4, <2>2, CallStep DEF Fresh
  <2> QED
    BY <2>1, <2>2
<1>5. ASSUME NEW o \in Op, pc'[o] = "get", val'[o] # None PROVE gone'[val'[o]] <= age'[o]
  <2>1. CASE pc[o] = "new"
    <3>1. val[o] = None /\ ~Setex(o) /\ ~GetExec(o)
      BY <2>1 DEF Sources, Setex, GetExec, Executes
    <3> QED
      BY <1>5, <3>1, ValueStep
  <2>2. CASE pc[o] = "get" /\ val'[o] = val[o]
    <3>1. val[o] \in Op /\ gone[val[o]] <= age[o]
      BY <1>5, <2>2, ValueFacts DEF Fresh
    <3> QED
      BY <1>3, <1>5, <2>2, <3>1, CallStep
  <2>3. CASE pc[o] = "get" /\ val'[o] # val[o]
    <3>1. ~Setex(o)
      BY <2>3 DEF Setex, Executes
    <3>2. GetExec(o) /\ val'[o] = l2[call[o].key].val /\ call[o].key \in Key
      BY <2>3, <3>1, ValueStep, KindOf
    <3>3. gone' = gone
      BY <3>2 DEF GetExec, Executed, atRest
    <3>4. gone'[val'[o]] = 0 /\ age'[o] \in 0..MaxDelay
      BY <1>5, <3>2, <3>3, NextFacts DEF Fresh
    <3> QED
      BY <3>4, ConstantFacts
  <2> QED
    BY <1>5, <2>1, <2>2, <2>3, CallStep
<1> QED
  BY <1>1, <1>2, <1>4, <1>5 DEF Fresh

LEMMA StalenessStep ==
  ASSUME Base, Sources, Fresh, StalenessBounded, [Next]_vars
  PROVE  StalenessBounded'
<1> SUFFICES ASSUME NEW p \in Process, NEW k \in Key, l1'[p][k] # Nothing
             PROVE  gone'[l1'[p][k].val] + l1'[p][k].left <= L1Ttl + MaxDelay
  BY DEF StalenessBounded
<1>1. L1Ttl \in Nat /\ MaxDelay \in Nat /\ \A v \in Op : gone[v] \in Nat /\ age[v] \in 0..MaxDelay
  BY ValueFacts, ConstantFacts DEF Horizon
<1>2. l1[p][k] # Nothing => l1[p][k].val \in Op /\ l1[p][k].left \in 0..L1Ttl
  BY ValueFacts, EntryFacts
<1>3. CASE l1'[p][k] = l1[p][k] /\ ~Tick
  <2>1. gone' = gone
    BY <1>2, <1>3, GoneStep
  <2> QED
    BY <1>3, <2>1 DEF StalenessBounded
<1>4. CASE Tick
  <2>1. l1'[p][k] = Served(l1[p][k])
    BY <1>4 DEF Tick
  <2>2. /\ l1[p][k] # Nothing /\ l1[p][k].left > 0 /\ l1'[p][k].val = l1[p][k].val
        /\ l1'[p][k].left = l1[p][k].left - 1
    BY <2>1, ValueFacts, AgeFacts
  <2>3. gone[l1[p][k].val] + l1[p][k].left <= L1Ttl + MaxDelay
    BY <2>2 DEF StalenessBounded
  <2> DEFINE v == l1[p][k].val
  <2>4. gone'[v] = gone[v] \/ gone'[v] <= gone[v] + 1
    BY <1>2, <2>2, GoneStep
  <2>5. gone'[v] \in Nat
    BY <1>2, <2>2, NextFacts
  <2> QED
    BY <1>1, <1>2, <2>2, <2>3, <2>4, <2>5
<1>5. ASSUME NEW o \in Op, SetexAnswered(o), l1'[p][k] = [val |-> o, left |-> Min2(call[o].ttl, L1Ttl)]
      PROVE  gone'[l1'[p][k].val] + l1'[p][k].left <= L1Ttl + MaxDelay
  <2>1. pc[o] = "setex" /\ gone' = gone
    BY <1>5 DEF SetexAnswered, Answers
  <2>2. gone[o] <= age[o]
    BY <2>1 DEF Fresh
  <2>3. Min2(call[o].ttl, L1Ttl) \in 0..L1Ttl
    <3>1. call[o].ttl \in Nat
      BY Typed, EntryFacts DEF Base
    <3> QED
      BY <1>1, <3>1 DEF Min2
  <2> QED
    BY <1>1, <1>5, <2>1, <2>2, <2>3
<1>6. ASSUME NEW o \in Op, GetAnswered(o), val[o] # None, l1'[p][k] = [val |-> val[o], left |-> L1Ttl]
      PROVE  gone'[l1'[p][k].val] + l1'[p][k].left <= L1Ttl + MaxDelay
  <2>1. pc[o] = "get" /\ gone' = gone
    BY <1>6 DEF GetAnswered, Answers
  <2>2. val[o] \in Op /\ gone[val[o]] <= age[o]
    BY <1>6, <2>1, ValueFacts DEF Fresh
  <2> QED
    BY <1>1, <1>6, <2>1, <2>2
<1> QED
  BY <1>3, <1>4, <1>5, <1>6, MemoryStep

LEMMA BriefStep == BriefInv /\ [Next]_vars => BriefInv'
BY BaseStep, SourcesStep, FreshStep, StalenessStep DEF BriefInv

\* Whatever fails, is lost or crashes: memory serves a value no longer than l1.ttl, and the
\* time an answer takes, after it left Redis.
THEOREM MemoryCatchesUp == Spec => []ServedBriefly
<1>1. BriefInv => ServedBriefly
  BY DEF BriefInv, Base, ServedBriefly
<1> QED
  BY <1>1, BriefInit, BriefStep, PTL DEF Spec

--------------------------------------------------------------------------------
(* Where an operation stands in its connection, and what its own step does.     *)

Waiting(o) == o \in Among(wire[Home[o]])
Answerable(o) == o \in Among(back[Home[o]])

\* An operation another one's step leaves alone.
Rests(o) ==
  /\ pc'[o] = pc[o] /\ snap'[o] = snap[o] /\ seen'[o] = seen[o] /\ call'[o] = call[o]
  /\ Waiting(o)' <=> Waiting(o)
  /\ Answerable(o)' <=> Answerable(o)

LEMMA StartOwn ==
  ASSUME Base, NEW o \in Op, NEW kind, NEW key, NEW ttl, NEW first, Starts(o, kind, key, ttl, first)
  PROVE  /\ pc[o] = "new" /\ pc'[o] = first /\ snap'[o] = snap[o] /\ val' = val /\ back' = back
         /\ call'[o].kind = kind /\ call'[o].key = key /\ call'[o].ttl = ttl
         /\ seen'[o] = (IF kind \in Removing THEN Settled ELSE seen[o])
         /\ ~Waiting(o) /\ ~Answerable(o) /\ ~Answerable(o)'
         /\ first \in Commands => Waiting(o)'
<1>1. /\ pc[o] = "new" /\ pc'[o] = first /\ snap' = snap /\ val' = val /\ back' = back
      /\ call'[o].kind = kind /\ call'[o].key = key /\ call'[o].ttl = ttl
      /\ seen'[o] = (IF kind \in Removing THEN Settled ELSE seen[o])
  BY Typed DEF Starts, Begins, Base
<1>2. ~Waiting(o) /\ ~Answerable(o)
  BY <1>1, KindFacts, LaneType DEF Base, Lanes, Waiting, Answerable
<1>3. ASSUME first \in Commands PROVE Waiting(o)'
  <2>1. Sent(o)
    BY <1>3, KindFacts DEF Starts
  <2>2. wire'[Home[o]] = Append(wire[Home[o]], o)
    BY <2>1, LaneType, Typed DEF Sent, Base
  <2> QED
    BY <2>2, LaneHeads DEF Waiting, Base
<1> QED
  BY <1>1, <1>2, <1>3 DEF Answerable

LEMMA MoveOwn ==
  ASSUME Base, NEW o \in Op, Moves(o)
  PROVE  /\ pc' = pc /\ call' = call /\ seen' = seen /\ l1' = l1
         /\ Waiting(o) /\ ~Answerable(o) /\ pc[o] \in Commands
         /\ \/ ~Waiting(o)' /\ Answerable(o)' /\ back'[Home[o]] = Append(back[Home[o]], o)
            \/ pc[o] \in {"dels", "delTags"} /\ Waiting(o)' /\ ~Answerable(o)' /\ back' = back
<1>1. pc' = pc /\ call' = call /\ seen' = seen /\ l1' = l1
  BY DEF Moves, atRest
<1>2. Waiting(o) /\ ~Answerable(o) /\ pc[o] \in Commands /\ Among(Tail(wire[Home[o]])) = Among(wire[Home[o]]) \ {o}
  BY LaneHeads DEF Moves, Base, Waiting, Answerable
<1>3. CASE /\ wire' = [wire EXCEPT ![Home[o]] = Tail(@)]
           /\ back' = [back EXCEPT ![Home[o]] = Append(@, o)]
  <2>1. wire'[Home[o]] = Tail(wire[Home[o]]) /\ back'[Home[o]] = Append(back[Home[o]], o)
    BY <1>3, LaneType, Typed DEF Base
  <2>2. Among(back'[Home[o]]) = Among(back[Home[o]]) \cup {o}
    BY <2>1, LaneHeads DEF Base
  <2> QED
    BY <1>1, <1>2, <2>1, <2>2 DEF Waiting, Answerable
<1>4. CASE pc[o] \in {"dels", "delTags"} /\ UNCHANGED <<wire, back>>
  BY <1>1, <1>2, <1>4 DEF Waiting, Answerable
<1> QED
  BY <1>3, <1>4 DEF Moves

LEMMA AnswerOwn ==
  ASSUME Base, NEW o \in Op, NEW next, Proceeds(o, next)
  PROVE  /\ pc'[o] = next /\ snap' = snap /\ call' = call /\ val' = val
         /\ l2' = l2 /\ tag' = tag
         /\ Answerable(o) /\ ~Waiting(o) /\ ~Answerable(o)'
         /\ next \in Commands => Waiting(o)'
<1>1. pc'[o] = next /\ snap' = snap /\ call' = call /\ val' = val /\ l2' = l2 /\ tag' = tag
  BY Typed DEF Proceeds, Base
<1>2. Answerable(o) /\ ~Waiting(o) /\ Among(Tail(back[Home[o]])) = Among(back[Home[o]]) \ {o}
  BY LaneHeads DEF Proceeds, Base, Waiting, Answerable
<1>3. back'[Home[o]] = Tail(back[Home[o]])
  BY LaneType, Typed DEF Proceeds, Base
<1>4. ASSUME next \in Commands PROVE Waiting(o)'
  <2>1. Sent(o)
    BY <1>4, KindFacts DEF Proceeds
  <2>2. wire'[Home[o]] = Append(wire[Home[o]], o)
    BY <2>1, LaneType, Typed DEF Sent, Base
  <2> QED
    BY <2>2, LaneHeads DEF Waiting, Base
<1> QED
  BY <1>1, <1>2, <1>3, <1>4 DEF Answerable

\* How a step changes a connection, seen from an operation it is not about.
LEMMA LaneApart ==
  ASSUME Base, NEW o \in Op, NEW r \in Op, r # o,
         \/ wire' = wire
         \/ Sent(r)
         \/ wire[Home[r]] # <<>> /\ Head(wire[Home[r]]) = r /\ wire' = [wire EXCEPT ![Home[r]] = Tail(@)],
         \/ back' = back
         \/ back' = [back EXCEPT ![Home[r]] = Append(@, r)]
         \/ back[Home[r]] # <<>> /\ Head(back[Home[r]]) = r /\ back' = [back EXCEPT ![Home[r]] = Tail(@)]
  PROVE  /\ Waiting(o)' <=> Waiting(o)
         /\ Answerable(o)' <=> Answerable(o)
<1>1. Home[o] \in Process /\ Home[r] \in Process /\ wire \in [Process -> Seq(Op)] /\ back \in [Process -> Seq(Op)]
  BY Typed, ConstantFacts DEF Base
<1>2. Waiting(o)' <=> Waiting(o)
  <2>1. CASE wire' = wire
    BY <2>1 DEF Waiting
  <2>2. CASE Sent(r)
    <3>1. Among(Append(wire[Home[r]], r)) = Among(wire[Home[r]]) \cup {r}
      BY LaneHeads DEF Base
    <3>2. wire'[Home[o]] = IF Home[o] = Home[r] THEN Append(wire[Home[r]], r) ELSE wire[Home[o]]
      BY <1>1, <2>2 DEF Sent
    <3> QED
      BY <3>1, <3>2 DEF Waiting
  <2>3. CASE wire[Home[r]] # <<>> /\ Head(wire[Home[r]]) = r /\ wire' = [wire EXCEPT ![Home[r]] = Tail(@)]
    <3>1. Among(Tail(wire[Home[r]])) = Among(wire[Home[r]]) \ {r}
      BY <2>3, LaneHeads DEF Base
    <3>2. wire'[Home[o]] = IF Home[o] = Home[r] THEN Tail(wire[Home[r]]) ELSE wire[Home[o]]
      BY <1>1, <2>3
    <3> QED
      BY <3>1, <3>2 DEF Waiting
  <2> QED
    BY <2>1, <2>2, <2>3
<1>3. Answerable(o)' <=> Answerable(o)
  <2>1. CASE back' = back
    BY <2>1 DEF Answerable
  <2>2. CASE back' = [back EXCEPT ![Home[r]] = Append(@, r)]
    <3>1. Among(Append(back[Home[r]], r)) = Among(back[Home[r]]) \cup {r}
      BY LaneHeads DEF Base
    <3>2. back'[Home[o]] = IF Home[o] = Home[r] THEN Append(back[Home[r]], r) ELSE back[Home[o]]
      BY <1>1, <2>2
    <3> QED
      BY <3>1, <3>2 DEF Answerable
  <2>3. CASE back[Home[r]] # <<>> /\ Head(back[Home[r]]) = r /\ back' = [back EXCEPT ![Home[r]] = Tail(@)]
    <3>1. Among(Tail(back[Home[r]])) = Among(back[Home[r]]) \ {r}
      BY <2>3, LaneHeads DEF Base
    <3>2. back'[Home[o]] = IF Home[o] = Home[r] THEN Tail(back[Home[r]]) ELSE back[Home[o]]
      BY <1>1, <2>3
    <3> QED
      BY <3>1, <3>2 DEF Answerable
  <2> QED
    BY <2>1, <2>2, <2>3
<1> QED
  BY <1>2, <1>3

\* Every step is the operation's own, ends it, or leaves it alone.
Stops(o) ==
  /\ pc[o] \in Commands /\ snap'[o] = snap[o] /\ seen'[o] = seen[o] /\ call'[o] = call[o]
  /\ pc'[o] = "failed" \/ (pc'[o] = "done" /\ call[o].kind \in {"get", "deleteMany"})

LEMMA OwnStep ==
  ASSUME Base, [Next]_vars, NEW o \in Op
  PROVE  \/ \E kind, key, ttl, first : Starts(o, kind, key, ttl, first)
         \/ Executions(o) /\ Moves(o)
         \/ Answered(o)
         \/ Stops(o)
         \/ Rests(o)
<1>1. ASSUME NEW r \in Op, r # o, NEW kind, NEW key, NEW ttl, NEW first, Starts(r, kind, key, ttl, first)
      PROVE  Rests(o)
  <2>1. /\ pc' = [pc EXCEPT ![r] = first] /\ snap' = snap /\ back' = back
        /\ call' = [call EXCEPT ![r] = [kind |-> kind, key |-> key, ttl |-> ttl]]
        /\ seen' = [seen EXCEPT ![r] = Settled] \/ seen' = seen
        /\ Sent(r) \/ wire' = wire
    BY <1>1 DEF Starts, Begins
  <2>2. (Waiting(o)' <=> Waiting(o)) /\ (Answerable(o)' <=> Answerable(o))
    BY <1>1, <2>1, LaneApart
  <2> QED
    BY <1>1, <2>1, <2>2, Typed DEF Rests, Base
<1>2. ASSUME NEW r \in Op, r # o, Executions(r), Moves(r) PROVE Rests(o)
  <2>1. pc' = pc /\ call' = call /\ seen' = seen
    BY <1>2 DEF Moves, atRest
  <2>2. snap' = snap \/ \E x : snap' = [snap EXCEPT ![r] = x]
    BY <1>2 DEF Executions, Setex, Sadd, Expire, GetExec, Del, Members, Dels, DelTag, ScanExec, DelOne, ScanTags
  <2>3. snap'[o] = snap[o]
    BY <1>2, <2>2, Typed DEF Base
  <2>4. (Waiting(o)' <=> Waiting(o)) /\ (Answerable(o)' <=> Answerable(o))
    BY <1>2, LaneApart DEF Moves
  <2> QED
    BY <2>1, <2>3, <2>4 DEF Rests
<1>3. ASSUME NEW r \in Op, r # o, Answered(r) PROVE Rests(o)
  <2>1. PICK next \in Phases : Proceeds(r, next)
    BY <1>3, AnswerKinds
  <2>2. /\ pc' = [pc EXCEPT ![r] = next] /\ snap' = snap /\ call' = call
        /\ back[Home[r]] # <<>> /\ Head(back[Home[r]]) = r /\ back' = [back EXCEPT ![Home[r]] = Tail(@)]
        /\ Sent(r) \/ wire' = wire
    BY <2>1 DEF Proceeds
  <2>3. (Waiting(o)' <=> Waiting(o)) /\ (Answerable(o)' <=> Answerable(o))
    BY <1>3, <2>2, LaneApart
  <2>4. seen' = seen \/ seen' = [seen EXCEPT ![r] = Underway(Home[r])]
    BY <1>3 DEF Answered, SetexAnswered, SaddAnswered, ExpireAnswered, GetAnswered, DelAnswered,
           MembersAnswered, MembersAgainAnswered, DelsAnswered, DelTagAnswered, ScanAnswered,
           DelOneAnswered, ScanTagsAnswered, DelTagsAnswered, SendsNext, Ends
  <2> QED
    BY <1>3, <2>2, <2>3, <2>4, Typed DEF Rests, Base
<1>4. ASSUME NEW r \in Op, Fails(r) PROVE Rests(o) \/ Stops(o)
  <2>1. /\ pc' = [pc EXCEPT ![r] = IF call[r].kind \in {"get", "deleteMany"} THEN "done" ELSE "failed"]
        /\ snap' = snap /\ seen' = seen /\ call' = call
    BY <1>4 DEF Fails, EndsFailed
  <2>2. CASE r = o
    <3>1. pc[o] \in Commands
      BY <1>4, <2>2, LaneHeads DEF Fails, Base
    <3> QED
      BY <2>1, <2>2, <3>1, Typed DEF Stops, Base
  <2>3. CASE r # o
    <3>1. (Waiting(o)' <=> Waiting(o)) /\ (Answerable(o)' <=> Answerable(o))
      BY <1>4, <2>3, LaneApart DEF Fails
    <3> QED
      BY <2>1, <2>3, <3>1, Typed DEF Rests, Base
  <2> QED
    BY <2>2, <2>3
<1>5. ASSUME NEW p \in Process, Crash(p) PROVE Rests(o) \/ Stops(o)
  <2>1. /\ pc' = [v \in Op |-> IF Home[v] = p /\ pc[v] \in Commands THEN "failed" ELSE pc[v]]
        /\ wire' = [wire EXCEPT ![p] = <<>>] /\ back' = [back EXCEPT ![p] = <<>>]
        /\ snap' = snap /\ seen' = seen /\ call' = call
    BY <1>5 DEF Crash
  <2>2. Home[o] \in Process
    BY ConstantFacts
  <2>3. CASE Home[o] = p /\ pc[o] \in Commands
    BY <2>1, <2>3 DEF Stops
  <2>4. CASE Home[o] = p /\ pc[o] \notin Commands
    <3>1. ~Waiting(o) /\ ~Answerable(o)
      BY <2>2, <2>4 DEF Base, Lanes, Waiting, Answerable
    <3>2. wire'[Home[o]] = <<>> /\ back'[Home[o]] = <<>>
      BY <2>1, <2>2, <2>4, Typed DEF Base
    <3>3. ~Waiting(o)' /\ ~Answerable(o)'
      BY <3>2, EmptyFacts DEF Waiting, Answerable
    <3> QED
      BY <2>1, <2>4, <3>1, <3>3 DEF Rests
  <2>5. CASE Home[o] # p
    <3>1. wire'[Home[o]] = wire[Home[o]] /\ back'[Home[o]] = back[Home[o]]
      BY <2>1, <2>2, <2>5, Typed DEF Base
    <3> QED
      BY <2>1, <2>5, <3>1 DEF Rests, Waiting, Answerable
  <2> QED
    BY <2>3, <2>4, <2>5
<1>6. Tick \/ UNCHANGED vars => Rests(o)
  BY DEF Tick, vars, Rests, Waiting, Answerable
<1> QED
  BY StepKinds, <1>1, <1>2, <1>3, <1>4, <1>5, <1>6

\* An answer moves up; behind it comes what is executed later.
LEMMA BehindStep ==
  ASSUME Base, [Next]_vars, NEW o \in Op, NEW r \in Op, NEW p \in Process, Behind(back'[p], o, r)
  PROVE  Behind(back[p], o, r) \/ (Executions(r) /\ o \in Among(back[p]))
<1>1. \A q \in Process : back[q] \in Seq(Op)
  BY Typed DEF Base
<1>2. ASSUME NEW w \in Op, back[Home[w]] # <<>>, back' = [back EXCEPT ![Home[w]] = Tail(@)]
      PROVE  Behind(back[p], o, r)
  <2>1. back'[p] = IF p = Home[w] THEN Tail(back[p]) ELSE back[p]
    BY <1>2, Typed DEF Base
  <2> QED
    BY <1>1, <1>2, <2>1, HeadFacts
<1>3. ASSUME NEW w \in Op, Executions(w), back' = [back EXCEPT ![Home[w]] = Append(@, w)]
      PROVE  Behind(back[p], o, r) \/ (Executions(r) /\ o \in Among(back[p]))
  <2>1. back'[p] = IF p = Home[w] THEN Append(back[p], w) ELSE back[p]
    BY <1>3, Typed DEF Base
  <2>2. Behind(Append(back[p], w), o, r) => Behind(back[p], o, r) \/ (r = w /\ o \in Among(back[p]))
    BY <1>1, AppendFacts
  <2> QED
    BY <1>3, <2>1, <2>2
<1>4. ASSUME NEW w \in Op, Answered(w) PROVE Behind(back[p], o, r)
  BY <1>2, <1>4, AnswerKinds DEF Proceeds
<1>5. ASSUME NEW q \in Process, Crash(q) PROVE Behind(back[p], o, r)
  <2>1. back'[p] = <<>> \/ back'[p] = back[p]
    BY <1>5, Typed DEF Crash, Base
  <2> QED
    BY <2>1, EmptyFacts
<1>6. Tick \/ UNCHANGED vars => back' = back
  BY DEF Tick, vars
<1>7. ASSUME NEW w \in Op, NEW kind, NEW key, NEW ttl, NEW first, Starts(w, kind, key, ttl, first)
      PROVE  back' = back
  BY <1>7 DEF Starts, Begins
<1>8. ASSUME NEW w \in Op, Fails(w) PROVE Behind(back[p], o, r)
  BY <1>2, <1>8 DEF Fails
<1>9. ASSUME NEW w \in Op, Executions(w), Moves(w)
      PROVE  Behind(back[p], o, r) \/ (Executions(r) /\ o \in Among(back[p]))
  BY <1>3, <1>9 DEF Moves
<1> QED
  BY StepKinds, <1>4, <1>5, <1>6, <1>7, <1>8, <1>9

--------------------------------------------------------------------------------
(* A removal reaches all it is about: what the operations remember.             *)

\* What waits for a command has it in the connection; a removal remembers writers that are
\* done, a read nothing before it is answered.
Carried == \A o \in Op : pc[o] \in Commands => Waiting(o) \/ Answerable(o)
Histories ==
  \A o \in Op : /\ call[o].kind \in Removing => seen[o] \subseteq Settled
                /\ pc[o] \in {"new", "get"} => seen[o] = {}
                /\ pc[o] = "get" /\ Waiting(o) => val[o] = None
                /\ call[o].kind = "invalidate" => snap[o] \subseteq Key
                /\ pc[o] = "new" => snap[o] = {}

Reach == Base /\ Sources /\ Carried /\ Histories

LEMMA ReachInit == Init => Reach
<1> SUFFICES ASSUME Init PROVE Reach
  OBVIOUS
<1>1. Base /\ Sources
  BY BriefInit DEF BriefInv
<1>2. Carried
  BY KindFacts DEF Init, Carried
<1>3. Histories
  BY DEF Init, Histories, NoCall, Removing
<1> QED
  BY <1>1, <1>2, <1>3 DEF Reach

LEMMA CarriedStep ==
  ASSUME Base, Carried, [Next]_vars
  PROVE  Carried'
<1> SUFFICES ASSUME NEW o \in Op, pc'[o] \in Commands PROVE Waiting(o)' \/ Answerable(o)'
  BY DEF Carried, Waiting, Answerable
<1>1. ASSUME NEW kind, NEW key, NEW ttl, NEW first, Starts(o, kind, key, ttl, first)
      PROVE  Waiting(o)' \/ Answerable(o)'
  BY <1>1, StartOwn
<1>2. CASE Moves(o)
  BY <1>2, MoveOwn
<1>3. CASE Answered(o)
  BY <1>3, AnswerKinds, AnswerOwn
<1>4. CASE Stops(o)
  BY <1>4, KindFacts DEF Stops
<1>5. CASE Rests(o)
  BY <1>5 DEF Rests, Carried
<1> QED
  BY <1>1, <1>2, <1>3, <1>4, <1>5, OwnStep

\* A writer that is done stays done.
LEMMA SettledStep ==
  ASSUME Base, [Next]_vars
  PROVE  Settled \subseteq Settled'
<1> SUFFICES ASSUME NEW v \in Op, call[v].kind \in Writing, pc[v] = "done"
             PROVE  call'[v].kind \in Writing /\ pc'[v] = "done"
  BY DEF Settled
<1>1. ~(\E kind, key, ttl, first : Starts(v, kind, key, ttl, first))
  BY DEF Starts, Begins
<1>2. pc[v] \notin Commands
  BY KindFacts
<1>3. ~Moves(v) /\ ~Answered(v) /\ ~Stops(v)
  BY <1>2, MoveOwn, AnswerKinds DEF Stops, Continues
<1> QED
  BY <1>1, <1>3, OwnStep DEF Rests

\* What a removal remembers, and what a read has run into, is fixed when it begins to count.
LEMMA SeenStep ==
  ASSUME Base, [Next]_vars, NEW o \in Op, pc[o] # "new"
  PROVE  /\ pc[o] # "get" => seen'[o] = seen[o]
         /\ pc'[o] = "get" => seen'[o] = seen[o]
<1>1. ASSUME Answered(o)
      PROVE  /\ pc[o] # "get" => seen'[o] = seen[o]
             /\ pc'[o] # "get"
  <2>1. seen' = seen \/ pc[o] = "get"
    BY <1>1 DEF Answered, SetexAnswered, SaddAnswered, ExpireAnswered, GetAnswered, DelAnswered,
           MembersAnswered, MembersAgainAnswered, DelsAnswered, DelTagAnswered, ScanAnswered,
           DelOneAnswered, ScanTagsAnswered, DelTagsAnswered, SendsNext, Ends, Answers
  <2>2. PICK next \in Phases : Proceeds(o, next) /\ Continues(o, next)
    BY <1>1, AnswerKinds
  <2>3. next # "get"
    BY <2>2 DEF Continues
  <2> QED
    BY <2>1, <2>2, <2>3, AnswerOwn
<1>2. ~(\E kind, key, ttl, first : Starts(o, kind, key, ttl, first))
  BY DEF Starts, Begins
<1>3. Moves(o) => seen'[o] = seen[o]
  BY MoveOwn
<1> QED
  BY <1>1, <1>2, <1>3, OwnStep DEF Rests, Stops

LEMMA HistoriesStep ==
  ASSUME Base, Sources, Histories, [Next]_vars
  PROVE  Histories'
<1> SUFFICES ASSUME NEW o \in Op
             PROVE  /\ call'[o].kind \in Removing => seen'[o] \subseteq Settled'
                    /\ pc'[o] \in {"new", "get"} => seen'[o] = {}
                    /\ pc'[o] = "get" /\ Waiting(o)' => val'[o] = None
                    /\ call'[o].kind = "invalidate" => snap'[o] \subseteq Key
                    /\ pc'[o] = "new" => snap'[o] = {}
  BY DEF Histories, Waiting
<1>1. ASSUME call'[o].kind \in Removing PROVE seen'[o] \subseteq Settled'
  <2>1. ASSUME NEW kind, NEW key, NEW ttl, NEW first, Starts(o, kind, key, ttl, first)
        PROVE  seen'[o] \subseteq Settled'
    BY <1>1, <2>1, StartOwn, SettledStep
  <2>2. ASSUME pc[o] # "new" PROVE seen'[o] \subseteq Settled'
    <3>1. call'[o] = call[o]
      BY <2>2, CallStep
    <3>2. pc[o] # "get"
      BY <1>1, <3>1, KindOf DEF Removing
    <3>3. seen'[o] = seen[o]
      BY <2>2, <3>2, SeenStep
    <3> QED
      BY <1>1, <3>1, <3>3, SettledStep DEF Histories
  <2>3. ASSUME pc[o] = "new", Rests(o) PROVE FALSE
    BY <1>1, <2>3 DEF Rests, Base, Shape, Suits, Removing
  <2>4. pc[o] = "new" => ~Moves(o) /\ ~Answered(o) /\ ~Stops(o)
    BY KindFacts, MoveOwn, AnswerKinds DEF Stops, Continues
  <2> QED
    BY <2>1, <2>2, <2>3, <2>4, OwnStep
<1>2. ASSUME pc'[o] \in {"new", "get"} PROVE seen'[o] = {}
  <2>1. ASSUME NEW kind, NEW key, NEW ttl, NEW first, Starts(o, kind, key, ttl, first)
        PROVE  seen'[o] = {}
    <3>1. pc[o] = "new" /\ pc'[o] = first /\ seen'[o] = (IF kind \in Removing THEN Settled ELSE seen[o])
      BY <2>1, StartOwn
    <3>2. kind \notin Removing
      BY <1>2, <2>1, <3>1 DEF Starts, Fits, Removing, Writing
    <3> QED
      BY <3>1, <3>2 DEF Histories
  <2>2. ASSUME pc[o] # "new" PROVE seen'[o] = {}
    <3>1. pc'[o] = "get" /\ pc[o] = "get"
      BY <1>2, <2>2, CallStep
    <3> QED
      BY <2>2, <3>1, SeenStep DEF Histories
  <2>3. ASSUME pc[o] = "new", Rests(o) PROVE seen'[o] = {}
    BY <2>3 DEF Rests, Histories
  <2>4. pc[o] = "new" => ~Moves(o) /\ ~Answered(o) /\ ~Stops(o)
    BY KindFacts, MoveOwn, AnswerKinds DEF Stops, Continues
  <2> QED
    BY <2>1, <2>2, <2>3, <2>4, OwnStep
<1>3. ASSUME pc'[o] = "get", Waiting(o)' PROVE val'[o] = None
  <2>1. CASE pc[o] = "new"
    <3>1. ~Setex(o) /\ ~GetExec(o)
      BY <2>1 DEF Setex, GetExec, Executes
    <3> QED
      BY <2>1, <3>1, ValueStep DEF Sources
  <2>2. CASE pc[o] # "new"
    <3>1. pc[o] = "get"
      BY <1>3, <2>2, CallStep
    <3>2. o \in Among(wire[Home[o]]) /\ ~Setex(o) /\ ~GetExec(o)
      BY <1>3, <3>1, WireStep DEF Waiting
    <3> QED
      BY <3>1, <3>2, ValueStep DEF Histories, Waiting
  <2> QED
    BY <2>1, <2>2
<1>4. ASSUME pc[o] # "new", call[o].kind = "invalidate" PROVE snap'[o] \subseteq Key
  <2>1. ASSUME Executions(o) PROVE snap'[o] \subseteq Key
    <3>1. \/ snap' = snap
          \/ Members(o)
          \/ \E x : snap' = [snap EXCEPT ![o] = @ \ {x}]
          \/ pc[o] \in {"scan", "scanTags"}
      BY <2>1 DEF Executions, Setex, Sadd, Expire, GetExec, Del, Dels, DelTag, ScanExec, DelOne, ScanTags, Executes
    <3>2. pc[o] \notin {"scan", "scanTags"}
      BY <1>4, KindOf
    <3>3. ASSUME Members(o) PROVE snap'[o] \subseteq Key
      <4>1. call[o].key \in Tag /\ snap' = [snap EXCEPT ![o] = tag[call[o].key].keys]
        BY <3>3, KindOf DEF Members, Executes
      <4> QED
        BY <4>1, TagFacts, Typed DEF Base
    <3>4. ASSUME NEW x, snap' = [snap EXCEPT ![o] = @ \ {x}] PROVE snap'[o] \subseteq Key
      <4>1. snap'[o] = snap[o] \ {x}
        BY <3>4, Typed DEF Base
      <4> QED
        BY <1>4, <4>1 DEF Histories
    <3> QED
      BY <1>4, <3>1, <3>2, <3>3, <3>4 DEF Histories
  <2>2. ASSUME Answered(o) PROVE snap'[o] \subseteq Key
    BY <1>4, <2>2, AnswerKinds, AnswerOwn DEF Histories
  <2>3. ~(\E kind, key, ttl, first : Starts(o, kind, key, ttl, first))
    BY <1>4 DEF Starts, Begins
  <2> QED
    BY <1>4, <2>1, <2>2, <2>3, OwnStep DEF Rests, Stops, Histories
<1>5. ASSUME pc[o] = "new" PROVE snap'[o] = {}
  <2>1. pc[o] = "new" => ~Moves(o) /\ ~Answered(o) /\ ~Stops(o)
    BY KindFacts, MoveOwn, AnswerKinds DEF Stops, Continues
  <2> QED
    BY <1>5, <2>1, OwnStep, StartOwn DEF Rests, Histories
<1> QED
  BY <1>1, <1>2, <1>3, <1>4, <1>5, CallStep

LEMMA ReachStep == Reach /\ [Next]_vars => Reach'
BY BaseStep, SourcesStep, CarriedStep, HistoriesStep DEF Reach

--------------------------------------------------------------------------------
(* The tag set knows what is stored under its tag, and outlives it.             *)

\* No tick comes while commands wait, and a tag set lives as long as a value and its copies
\* in memory. (A tag set that expires between SADD and EXPIRE, or before the copies do,
\* loses keys.)
Timely == MaxDelay = 0 /\ \A n \in Ttls : n + L1Ttl <= TagTtl

\* No tag set has been removed.
Intact(r) == call[r].kind = "invalidate" /\ pc[r] \in {"members", "membersAgain", "dels"}
Whole == \A r \in Op : call[r].kind \in TagRemoving => Intact(r)

Indexing(v) == call[v].kind \in Writing /\ TagOf[call[v].key] # None
Added(v) == pc[v] = "expire" \/ (pc[v] = "sadd" /\ Answerable(v))
Tagging(v) == v \in Settled \/ (pc[v] = "expire" /\ Answerable(v))

InSet(k, n) == k \in tag[TagOf[k]].keys /\ (tag[TagOf[k]].left = 0 \/ tag[TagOf[k]].left >= n)
InSetNext(k, n) == k \in tag'[TagOf[k]].keys /\ (tag'[TagOf[k]].left = 0 \/ tag'[TagOf[k]].left >= n)

IndexOf(v, k) ==
  /\ l2[k].val = v => l2[k].left <= call[v].ttl
  /\ Added(v) => k \in tag[TagOf[k]].keys
  /\ Tagging(v) =>
       /\ l2[k].val = v => InSet(k, l2[k].left + L1Ttl)
       /\ \A p \in Process : l1[p][k].val = v => InSet(k, l1[p][k].left + 1)
       /\ \A r \in Op : pc[r] = "get" /\ val[r] = v => InSet(k, L1Ttl + 1)
Index == Timely /\ Whole => \A v \in Op : Indexing(v) => \A k \in Key : k = call[v].key => IndexOf(v, k)

LEMMA WholeStep ==
  ASSUME Base, [Next]_vars, Whole'
  PROVE  Whole
<1> SUFFICES ASSUME NEW r \in Op, call[r].kind \in TagRemoving PROVE Intact(r)
  BY DEF Whole
<1>1. pc[r] # "new"
  BY DEF Base, Shape, Suits, TagRemoving
<1>2. call'[r] = call[r] /\ call[r].kind = "invalidate" /\ pc'[r] \in {"members", "membersAgain", "dels"}
  BY <1>1, CallStep DEF Whole, Intact
<1>3. CASE Moves(r)
  BY <1>2, <1>3, MoveOwn DEF Intact
<1>4. CASE Answered(r)
  <2>1. PICK next \in Phases : Proceeds(r, next) /\ Continues(r, next)
    BY <1>4, AnswerKinds
  <2>2. next \in {"members", "membersAgain", "dels"}
    BY <1>2, <2>1, AnswerOwn
  <2> QED
    BY <1>2, <2>1, <2>2 DEF Continues, Intact
<1>5. ~(\E kind, key, ttl, first : Starts(r, kind, key, ttl, first))
  BY <1>1 DEF Starts, Begins
<1> QED
  BY <1>2, <1>3, <1>4, <1>5, OwnStep DEF Rests, Stops, Intact

\* As long as the sets are whole, time alone takes keys out of them.
LEMMA TagStep ==
  ASSUME Reach, [Next]_vars, Whole', NEW t \in Tag
  PROVE  \/ Tick /\ tag'[t] = AgedTag(tag[t])
         \/ tag[t].keys \subseteq tag'[t].keys /\ tag'[t].left \in {tag[t].left, TagTtl}
<1> USE DEF Reach
<1> DEFINE Kept == tag[t].keys \subseteq tag'[t].keys /\ tag'[t].left \in {tag[t].left, TagTtl}
<1>1. ASSUME NEW r \in Op, call'[r] = call[r], call[r].kind \in TagRemoving PROVE Intact(r)'
  BY <1>1 DEF Whole
<1>2. ASSUME NEW r \in Op, Executions(r), Moves(r) PROVE Kept
  <2>1. pc' = pc /\ call' = call
    BY <1>2, MoveOwn
  <2>2. CASE Sadd(r)
    <3>1. TagOf[call[r].key] \in Tag
      BY <2>2, KindOf DEF Sadd, Executes
    <3> QED
      BY <2>2, <3>1, Typed DEF Sadd, Base
  <2>3. CASE Expire(r)
    <3>1. TagOf[call[r].key] \in Tag
      BY <2>3, KindOf DEF Expire, Executes
    <3> QED
      BY <2>3, <3>1, Typed DEF Expire, TagLife, Base
  <2>4. CASE DelTag(r)
    <3>1. pc[r] = "delTag"
      BY <2>4 DEF DelTag, Executes
    <3>2. call[r].kind = "invalidate"
      BY <3>1, KindOf
    <3> QED
      BY <1>1, <2>1, <3>1, <3>2 DEF Intact, TagRemoving
  <2>5. CASE Dels(r)
    <3>1. pc[r] \in {"dels", "delTags"}
      BY <2>5 DEF Dels, Executes
    <3>2. call[r].kind \in {"invalidate", "clear"}
      BY <3>1, KindOf
    <3>3. call[r].kind = "invalidate"
      BY <1>1, <2>1, <3>2 DEF Intact, TagRemoving
    <3>4. PICK x \in snap[r] : tag' = WithoutTags({x})
      BY <2>5 DEF Dels
    <3>5. x \in Key
      BY <3>3, <3>4 DEF Histories
    <3>6. tag'[t] = tag[t]
      BY <3>4, <3>5, ConstantFacts DEF WithoutTags
    <3> QED
      BY <3>6
  <2>6. CASE DelOne(r)
    <3>1. pc[r] = "delOne"
      BY <2>6 DEF DelOne, Executes
    <3>2. call[r].kind = "pattern"
      BY <3>1, KindOf
    <3> QED
      BY <1>1, <2>1, <3>1, <3>2 DEF Intact, TagRemoving
  <2>7. CASE Setex(r) \/ GetExec(r) \/ Del(r) \/ Members(r) \/ ScanExec(r) \/ ScanTags(r)
    BY <2>7 DEF Setex, GetExec, Del, Members, ScanExec, ScanTags
  <2> QED
    BY <1>2, <2>2, <2>3, <2>4, <2>5, <2>6, <2>7 DEF Executions
<1>3. ASSUME NEW r \in Op, Fails(r) PROVE Kept
  <2>1. CASE tag' = tag
    BY <2>1
  <2>2. CASE pc[r] \in {"dels", "delTags"}
    <3>1. /\ pc' = [pc EXCEPT ![r] = IF call[r].kind \in {"get", "deleteMany"} THEN "done" ELSE "failed"]
          /\ call' = call
      BY <1>3 DEF Fails, EndsFailed
    <3>2. call[r].kind \in {"invalidate", "clear"}
      BY <2>2, KindOf
    <3>3. pc'[r] \in {"done", "failed"}
      BY <3>1, Typed DEF Base
    <3> QED
      BY <1>1, <3>1, <3>2, <3>3 DEF Intact, TagRemoving
  <2> QED
    BY <1>3, <2>1, <2>2 DEF Fails
<1>4. ASSUME NEW r \in Op, Answered(r) PROVE tag' = tag
  BY <1>4, AnswerKinds, AnswerOwn
<1>5. ASSUME NEW r \in Op, NEW kind, NEW key, NEW ttl, NEW first, Starts(r, kind, key, ttl, first)
      PROVE  tag' = tag
  BY <1>5 DEF Starts, Begins
<1>6. ASSUME NEW p \in Process, Crash(p) PROVE tag' = tag
  BY <1>6 DEF Crash
<1>7. Tick => tag'[t] = AgedTag(tag[t])
  BY DEF Tick
<1>8. UNCHANGED vars => tag' = tag
  BY DEF vars
<1> QED
  BY StepKinds, <1>2, <1>3, <1>4, <1>5, <1>6, <1>7, <1>8

LEMMA AddedStep ==
  ASSUME Base, [Next]_vars, NEW v \in Op, Added(v)'
  PROVE  Added(v) \/ Sadd(v)
<1>1. ASSUME NEW kind, NEW key, NEW ttl, NEW first, Starts(v, kind, key, ttl, first) PROVE FALSE
  BY <1>1, StartOwn DEF Added, Starts, Fits
<1>2. CASE Executions(v) /\ Moves(v)
  <2>1. pc'[v] = pc[v]
    BY <1>2, MoveOwn
  <2>2. pc[v] = "sadd" => Sadd(v)
    BY <1>2 DEF Executions, Setex, Sadd, Expire, GetExec, Del, Members, Dels, DelTag, ScanExec, DelOne, ScanTags, Executes
  <2> QED
    BY <2>1, <2>2 DEF Added
<1>3. CASE Answered(v)
  <2>1. PICK next \in Phases : Proceeds(v, next) /\ Continues(v, next)
    BY <1>3, AnswerKinds
  <2>2. pc'[v] = next /\ Answerable(v) /\ ~Answerable(v)'
    BY <2>1, AnswerOwn
  <2> QED
    BY <2>1, <2>2 DEF Added, Continues
<1>4. ~Stops(v)
  BY DEF Stops, Added
<1> QED
  BY <1>1, <1>2, <1>3, <1>4, OwnStep DEF Rests, Added

LEMMA TaggingStep ==
  ASSUME Base, [Next]_vars, NEW v \in Op, Indexing(v), Tagging(v)'
  PROVE  Tagging(v) \/ Expire(v)
<1>1. pc[v] # "new" /\ call[v].kind \in Writing
  BY DEF Indexing, Base, Shape, Suits, Writing
<1>2. pc'[v] = "done" \/ (pc'[v] = "expire" /\ Answerable(v)')
  BY DEF Tagging, Settled
<1>3. CASE Executions(v) /\ Moves(v)
  <2>1. pc'[v] = pc[v] /\ pc[v] \in Commands
    BY <1>3, MoveOwn
  <2>2. pc[v] = "expire" => Expire(v)
    BY <1>3 DEF Executions, Setex, Sadd, Expire, GetExec, Del, Members, Dels, DelTag, ScanExec, DelOne, ScanTags, Executes
  <2> QED
    BY <1>2, <2>1, <2>2, KindFacts
<1>4. CASE Answered(v)
  <2>1. PICK next \in Phases : Proceeds(v, next) /\ Continues(v, next)
    BY <1>4, AnswerKinds
  <2>2. pc'[v] = next /\ Answerable(v) /\ ~Answerable(v)'
    BY <2>1, AnswerOwn
  <2>3. pc[v] \in {"setex", "sadd", "expire"}
    BY <1>1, <2>1, <2>2 DEF Continues, Base, Shape, Suits
  <2> QED
    BY <1>2, <2>1, <2>2, <2>3 DEF Tagging, Continues, Indexing
<1>5. CASE Stops(v)
  BY <1>1, <1>2, <1>5 DEF Stops, Writing
<1>6. CASE Rests(v)
  BY <1>1, <1>2, <1>6 DEF Rests, Tagging, Settled
<1>7. ~(\E kind, key, ttl, first : Starts(v, kind, key, ttl, first))
  BY <1>1 DEF Starts, Begins
<1> QED
  BY <1>3, <1>4, <1>5, <1>6, <1>7, OwnStep

LEMMA InSetStep ==
  ASSUME Reach, [Next]_vars, Whole', NEW k \in Key, TagOf[k] # None, NEW n \in Nat, n <= TagTtl, InSet(k, n)
  PROVE  /\ ~Tick => InSetNext(k, n)
         /\ Tick => n <= 1 \/ InSetNext(k, n - 1)
<1>1. TagOf[k] \in Tag
  BY ConstantFacts
<1> DEFINE t == TagOf[k]
<1>2. tag[t] \in TagSets /\ tag[t].left \in Nat /\ TagTtl \in Nat
  BY <1>1, TagFacts, ConstantFacts DEF Reach, Base
<1>3. ~Tick => tag[t].keys \subseteq tag'[t].keys /\ tag'[t].left \in {tag[t].left, TagTtl}
  BY <1>1, TagStep
<1>4. ASSUME ~Tick PROVE InSetNext(k, n)
  BY <1>2, <1>3, <1>4 DEF InSet, InSetNext
<1>5. ASSUME Tick, ~(n <= 1) PROVE InSetNext(k, n - 1)
  <2>1. tag'[t] = AgedTag(tag[t])
    BY <1>1, <1>5 DEF Tick
  <2>2. tag[t].left = 0 \/ tag[t].left >= n
    BY DEF InSet
  <2>3. CASE tag[t].left = 0
    BY <1>2, <2>1, <2>3, AgeFacts DEF InSet, InSetNext
  <2>4. CASE tag[t].left >= n
    <3>1. tag[t].left > 1 /\ tag[t].left # 1
      BY <1>2, <1>5, <2>4
    <3>2. tag'[t].keys = tag[t].keys /\ tag'[t].left = tag[t].left - 1
      BY <1>2, <2>1, <3>1, AgeFacts
    <3> QED
      BY <1>2, <2>4, <3>2 DEF InSet, InSetNext
  <2> QED
    BY <2>2, <2>3, <2>4
<1> QED
  BY <1>4, <1>5

LEMMA TimelyFacts ==
  ASSUME Timely
  PROVE  /\ \A n \in Ttls : n \in Nat /\ n > 0 /\ n + L1Ttl <= TagTtl
         /\ MaxDelay = 0
BY ConstantFacts DEF Timely

\* No tick while a command waits.
LEMMA NoTick ==
  ASSUME Base, Timely, NEW o \in Op, pc[o] \in Commands
  PROVE  ~Tick
BY ValueFacts, TimelyFacts DEF Tick, MayPass

LEMMA IndexStep ==
  ASSUME Reach, Index, Timely, [Next]_vars, Whole'
  PROVE  \A v \in Op : Indexing(v)' => \A k \in Key : k = call'[v].key => IndexOf(v, k)'
<1> SUFFICES ASSUME NEW v \in Op, Indexing(v)', NEW k \in Key, k = call'[v].key
             PROVE  IndexOf(v, k)'
  OBVIOUS
<1> USE DEF Reach
<1> DEFINE t == TagOf[k]
<1>1. t \in Tag /\ t # None /\ call'[v].kind \in Writing
  BY ConstantFacts DEF Indexing
<1>2. \A r \in Op : l2'[k] = [val |-> r, left |-> call[r].ttl] => l2'[k].val = r /\ l2'[k].left = call[r].ttl
  OBVIOUS
<1>3. l2'[k].val = v => \/ l2[k].val = v /\ (l2'[k] = l2[k] \/ (Tick /\ l2'[k] = Aged(l2[k])))
                        \/ pc[v] = "setex" /\ l2'[k].left = call[v].ttl
  <2>1. ASSUME l2'[k].val = v, Tick, l2'[k] = Aged(l2[k]) PROVE l2[k].val = v
    BY <2>1, ValueFacts, AgeFacts
  <2>2. ASSUME NEW r \in Op, Setex(r), l2'[k] = [val |-> r, left |-> call[r].ttl], l2'[k].val = v
        PROVE  pc[v] = "setex" /\ l2'[k].left = call[v].ttl
    BY <1>2, <2>2 DEF Setex, Executes
  <2> QED
    BY <2>1, <2>2, RedisStep, ValueFacts
<1>4. CASE pc[v] = "new"
  <2>1. call[v].kind = "none" /\ ~Executions(v)
    BY <1>4, KindFacts, ExecutionKinds, MoveOwn DEF Base, Shape, Suits
  <2>2. l2[k].val # v
    BY <2>1, ValueFacts DEF Sources, Written, Writing
  <2>3. l2'[k].val # v
    BY <1>3, <1>4, <2>2
  <2>4. ~Added(v)'
    BY <1>4, <2>1, AddedStep DEF Added, Executions
  <2>5. ~Tagging(v)'
    <3>1. ASSUME NEW kind, NEW key, NEW ttl, NEW first, Starts(v, kind, key, ttl, first) PROVE pc'[v] = "setex"
      <4>1. call'[v].kind = kind /\ pc'[v] = first
        BY <3>1, StartOwn
      <4>2. Fits(kind, key, ttl, first)
        BY <3>1 DEF Starts
      <4> QED
        BY <1>1, <4>1, <4>2 DEF Fits, Writing
    <3>2. ~Moves(v) /\ ~Answered(v) /\ ~Stops(v)
      BY <1>4, KindFacts, MoveOwn, AnswerKinds DEF Stops, Continues
    <3>3. ~Rests(v)
      BY <1>1, <2>1 DEF Rests, Writing
    <3> QED
      BY <3>1, <3>2, <3>3, OwnStep DEF Tagging, Settled
  <2> QED
    BY <2>3, <2>4, <2>5 DEF IndexOf
<1>5. CASE pc[v] # "new"
  <2>1. call'[v] = call[v] /\ Indexing(v) /\ k = call[v].key
    BY <1>5, CallStep DEF Indexing
  <2>2. IndexOf(v, k)
    BY <2>1, WholeStep DEF Index
  <2>3. call[v].ttl \in Ttls
    BY <2>1 DEF Indexing, Base, Shape, Suits
  <2>4. /\ call[v].ttl \in Nat /\ call[v].ttl > 0 /\ call[v].ttl + L1Ttl <= TagTtl
        /\ L1Ttl \in Nat /\ TagTtl \in Nat
    BY <2>3, TimelyFacts, ConstantFacts
  <2>5. \A j \in Key : l2[j].left \in Nat /\ \A p \in Process : l1[p][j].left \in 0..L1Ttl
    BY ValueFacts, EntryFacts
  <2>6. l2'[k].val = v => l2'[k].left <= call'[v].ttl
    <3>1. CASE l2[k].val = v /\ l2'[k] = l2[k]
      BY <2>1, <2>2, <3>1 DEF IndexOf
    <3>2. CASE l2'[k].val = v /\ l2[k].val = v /\ l2'[k] = Aged(l2[k])
      <4>1. l2'[k].left = l2[k].left - 1
        BY <3>2, ValueFacts, AgeFacts
      <4>2. l2[k].left <= call[v].ttl
        BY <2>2, <3>2 DEF IndexOf
      <4> QED
        BY <2>1, <2>4, <2>5, <4>1, <4>2
    <3>3. CASE l2'[k].left = call[v].ttl
      BY <2>1, <2>4, <3>3
    <3> QED
      BY <1>3, <3>1, <3>2, <3>3
  <2>7. ASSUME Added(v)' PROVE k \in tag'[t].keys
    <3>1. CASE Sadd(v)
      BY <1>1, <2>1, <3>1, Typed DEF Sadd, Base
    <3>2. CASE Added(v)
      <4>1. ~Tick
        BY <3>2, NoTick DEF Added, Commands
      <4> QED
        BY <1>1, <2>2, <3>2, <4>1, TagStep DEF IndexOf
    <3> QED
      BY <2>7, <3>1, <3>2, AddedStep
  <2>8. ASSUME NEW n \in Nat, n <= TagTtl, InSet(k, n)
        PROVE  /\ ~Tick => InSetNext(k, n)
               /\ Tick => n <= 1 \/ InSetNext(k, n - 1)
    BY <1>1, <2>8, InSetStep
  <2>9. ASSUME Tagging(v)', l2'[k].val = v PROVE InSetNext(k, l2'[k].left + L1Ttl)
    <3>1. CASE Tagging(v)
      <4>1. l2[k].val = v /\ (l2'[k] = l2[k] \/ (Tick /\ l2'[k] = Aged(l2[k])))
        BY <1>3, <2>9, <3>1 DEF Tagging, Settled
      <4>2. l2[k].left + L1Ttl \in Nat /\ l2[k].left + L1Ttl <= TagTtl /\ InSet(k, l2[k].left + L1Ttl)
        BY <2>2, <2>4, <2>5, <3>1, <4>1 DEF IndexOf
      <4>3. CASE ~Tick
        BY <2>8, <4>1, <4>2, <4>3
      <4>4. CASE Tick
        <5>1. l2'[k] = Aged(l2[k])
          BY <4>4 DEF Tick
        <5>2. l2'[k].left = l2[k].left - 1 /\ l2[k].left > 1
          BY <2>9, <5>1, ValueFacts, AgeFacts
        <5>3. ~(l2[k].left + L1Ttl <= 1) /\ (l2[k].left + L1Ttl) - 1 = l2'[k].left + L1Ttl
          BY <2>4, <2>5, <5>2
        <5>4. InSetNext(k, (l2[k].left + L1Ttl) - 1)
          BY <2>8, <4>2, <4>4, <5>3
        <5> QED
          BY <5>3, <5>4
      <4> QED
        BY <4>3, <4>4
    <3>2. CASE Expire(v)
      <4>1. l2' = l2 /\ pc[v] = "expire"
        BY <3>2 DEF Expire, Executes
      <4>2. tag'[t].left = TagTtl /\ tag'[t].keys = tag[t].keys /\ k \in tag[t].keys
        <5>1. k \in tag[t].keys
          BY <2>2, <4>1 DEF IndexOf, Added
        <5> QED
          BY <1>1, <2>1, <3>2, <5>1, Typed DEF Expire, TagLife, Base
      <4>3. l2[k].left <= call[v].ttl
        BY <2>2, <2>9, <4>1 DEF IndexOf
      <4> QED
        BY <2>4, <2>5, <4>1, <4>2, <4>3 DEF InSetNext
    <3> QED
      BY <2>1, <2>9, <3>1, <3>2, TaggingStep
  <2>10. ASSUME Expire(v) PROVE InSetNext(k, L1Ttl + 1) /\ \A p \in Process : InSetNext(k, l1'[p][k].left + 1)
    <3>1. l1' = l1 /\ pc[v] = "expire"
      BY <2>10 DEF Expire, Executes, Executed, atRest
    <3>2. k \in tag[t].keys
      BY <2>2, <3>1 DEF IndexOf, Added
    <3>3. tag'[t].left = TagTtl /\ tag'[t].keys = tag[t].keys
      BY <1>1, <2>1, <2>10, <3>2, Typed DEF Expire, TagLife, Base
    <3> QED
      BY <2>4, <2>5, <3>1, <3>2, <3>3 DEF InSetNext
  <2>11. ASSUME Tagging(v)', NEW p \in Process, l1'[p][k].val = v PROVE InSetNext(k, l1'[p][k].left + 1)
    <3>1. CASE Tagging(v)
      <4>1. ASSUME l1[p][k].val = v
            PROVE  l1[p][k].left + 1 \in Nat /\ l1[p][k].left + 1 <= TagTtl /\ InSet(k, l1[p][k].left + 1)
        BY <2>2, <2>4, <2>5, <3>1, <4>1 DEF IndexOf
      <4>2. CASE l1'[p][k] = l1[p][k] /\ ~Tick
        BY <2>8, <2>11, <4>1, <4>2
      <4>3. CASE Tick
        <5>1. l1'[p][k] = Served(l1[p][k])
          BY <4>3 DEF Tick
        <5>2. l1[p][k].val = v /\ l1'[p][k].left = l1[p][k].left - 1 /\ l1[p][k].left > 0
          BY <2>11, <5>1, ValueFacts, AgeFacts
        <5>3. ~(l1[p][k].left + 1 <= 1) /\ (l1[p][k].left + 1) - 1 = l1'[p][k].left + 1
          BY <2>5, <5>2
        <5>4. InSetNext(k, (l1[p][k].left + 1) - 1)
          BY <2>8, <4>1, <4>3, <5>2, <5>3
        <5> QED
          BY <5>3, <5>4
      <4>4. ASSUME NEW r \in Op, SetexAnswered(r), l1'[p][k] = [val |-> r, left |-> Min2(call[r].ttl, L1Ttl)]
            PROVE  FALSE
        <5>1. r = v /\ pc[v] = "setex"
          BY <2>11, <4>4 DEF SetexAnswered, Answers
        <5> QED
          BY <3>1, <5>1 DEF Tagging, Settled
      <4>5. ASSUME NEW r \in Op, GetAnswered(r), l1'[p][k] = [val |-> val[r], left |-> L1Ttl]
            PROVE  InSetNext(k, l1'[p][k].left + 1)
        <5>1. pc[r] = "get" /\ val[r] = v /\ l1'[p][k].left = L1Ttl
          BY <2>11, <4>5 DEF GetAnswered, Answers
        <5>2. L1Ttl + 1 \in Nat /\ L1Ttl + 1 <= TagTtl /\ InSet(k, L1Ttl + 1)
          BY <2>2, <2>4, <3>1, <5>1 DEF IndexOf
        <5>3. ~Tick
          BY <5>1, NoTick DEF Commands
        <5> QED
          BY <2>8, <5>1, <5>2, <5>3
      <4>6. l1'[p][k] # Nothing
        BY <2>11, ValueFacts
      <4> HIDE DEF t
      <4> QED
        BY <4>2, <4>3, <4>4, <4>5, <4>6, MemoryStep
    <3> QED
      BY <2>1, <2>10, <2>11, <3>1, TaggingStep
  <2>12. ASSUME Tagging(v)', NEW r \in Op, pc'[r] = "get", val'[r] = v PROVE InSetNext(k, L1Ttl + 1)
    <3>1. CASE pc[r] = "new"
      <4>1. ~Setex(r) /\ ~GetExec(r) /\ val[r] = None
        BY <3>1 DEF Setex, GetExec, Executes, Sources
      <4> QED
        BY <2>12, <4>1, ValueStep, ValueFacts
    <3>2. CASE pc[r] = "get" /\ Tagging(v)
      <4>1. ~Tick /\ ~Setex(r)
        BY <3>2, NoTick DEF Commands, Setex, Executes
      <4>2. L1Ttl + 1 \in Nat /\ L1Ttl + 1 <= TagTtl
        BY <2>4
      <4>3. CASE val[r] = v
        BY <2>2, <2>8, <3>2, <4>1, <4>2, <4>3 DEF IndexOf
      <4>4. CASE GetExec(r) /\ val'[r] = l2[call[r].key].val
        <5>1. call[r].key \in Key
          BY <3>2, KindOf
        <5>2. call[r].key = k
          BY <2>1, <2>12, <4>4, <5>1, ValueFacts DEF Sources, Written
        <5>3. InSet(k, l2[k].left + L1Ttl) /\ l2[k].left > 0
          BY <2>2, <2>12, <3>2, <4>4, <5>2, ValueFacts, EntryFacts DEF IndexOf
        <5>4. InSet(k, L1Ttl + 1)
          <6>1. tag[t].left \in Nat
            BY <1>1, TagFacts, ConstantFacts DEF Base
          <6> QED
            BY <2>4, <2>5, <5>3, <6>1 DEF InSet
        <5> QED
          BY <2>8, <4>1, <4>2, <5>4
      <4> QED
        BY <2>12, <4>1, <4>3, <4>4, ValueStep
    <3> QED
      BY <2>1, <2>10, <2>12, <3>1, <3>2, CallStep, TaggingStep
  <2>13. /\ Added(v)' => k \in tag'[TagOf[k]].keys
         /\ Tagging(v)' => /\ l2'[k].val = v => InSetNext(k, l2'[k].left + L1Ttl)
                           /\ \A p \in Process : l1'[p][k].val = v => InSetNext(k, l1'[p][k].left + 1)
                           /\ \A r \in Op : pc'[r] = "get" /\ val'[r] = v => InSetNext(k, L1Ttl + 1)
    BY <2>7, <2>9, <2>11, <2>12
  <2> QED
    BY <2>6, <2>13 DEF IndexOf, InSet, InSetNext
<1> QED
  BY <1>4, <1>5

--------------------------------------------------------------------------------
(* A removal reaches all it is about: Redis.                                    *)

\* The removals shown to keep their promise: by tag only as long as the tag sets are timely.
Counts(o) == Promises(o) /\ (call[o].kind = "invalidate" => Timely)

\* What is still to be removed; all of it is, or the removal has it on its list.
Dirty(o) == {k \in Targets(o) : l2[k].val \in seen[o]}
Over(o) == pc[o] \in {"delTag", "scanTags", "delTags", "done"}
Emptied(o) ==
  \/ Over(o)
  \/ Answerable(o) /\ (pc[o] = "del" \/ (pc[o] \in {"dels", "scan", "membersAgain"} /\ snap[o] = {}))
Listed(o) == (pc[o] \in {"scan", "membersAgain"} /\ Answerable(o)) \/ pc[o] \in {"dels", "delOne"}
RedisAt(o) ==
  /\ Emptied(o) => Dirty(o) = {}
  /\ Listed(o) => Dirty(o) \subseteq snap[o]
  /\ pc[o] = "dels" /\ Answerable(o) => snap[o] = {}
RedisPart == \A o \in Op : Counts(o) => RedisAt(o)

LEMMA CountsFacts ==
  ASSUME Base, NEW o \in Op, Counts(o)
  PROVE  /\ call[o].kind \in {"delete", "invalidate", "clear", "pattern"} /\ call[o].kind \in Removing
         /\ pc[o] \notin {"new", "get", "setex", "sadd", "expire"}
         /\ Targets(o) \subseteq Key
<1>1. call[o].kind \in {"delete", "invalidate", "clear", "pattern"} /\ call[o].kind \in Removing
  BY DEF Counts, Promises, Removing
<1>2. pc[o] \notin {"new", "get", "setex", "sadd", "expire"}
  BY <1>1, KindOf DEF Base, Shape, Suits, Writing
<1>3. call[o].kind = "delete" => call[o].key \in Key
  BY DEF Base, Shape, Suits
<1>4. Targets(o) \subseteq Key
  BY <1>1, <1>3, ConstantFacts DEF Targets
<1> QED
  BY <1>1, <1>2, <1>4

\* A removal that counts after a step has just begun or counted before.
LEMMA CountsStep ==
  ASSUME Base, [Next]_vars, NEW o \in Op, Counts(o)', pc[o] # "new"
  PROVE  Counts(o) /\ call'[o] = call[o] /\ seen'[o] = seen[o] /\ Targets(o)' = Targets(o)
<1>1. call'[o] = call[o]
  BY CallStep
<1>2. Targets(o)' = Targets(o)
  BY <1>1 DEF Targets
<1>3. Indexed(o)' => Indexed(o)
  <2> SUFFICES ASSUME Indexed(o)', NEW r \in Op \ {o}, call[r].kind \in TagRemoving PROVE FALSE
    BY DEF Indexed
  <2>1. pc[r] # "new"
    BY DEF Base, Shape, Suits, TagRemoving
  <2>2. call'[r] = call[r]
    BY <2>1, CallStep
  <2> QED
    BY <2>2 DEF Indexed
<1>4. Counts(o)
  BY <1>1, <1>3 DEF Counts, Promises
<1>5. pc[o] # "get"
  BY <1>4, CountsFacts
<1> QED
  BY <1>1, <1>2, <1>4, <1>5, SeenStep

\* What has been removed does not come back: who wrote it is done.
LEMMA DirtyStep ==
  ASSUME Reach, [Next]_vars, NEW o \in Op, Counts(o)', pc[o] # "new"
  PROVE  Dirty(o)' \subseteq Dirty(o)
<1> USE DEF Reach
<1>1. Counts(o) /\ call'[o] = call[o] /\ seen'[o] = seen[o] /\ Targets(o)' = Targets(o)
  BY CountsStep
<1>2. Targets(o) \subseteq Key /\ seen[o] \subseteq Settled
  BY <1>1, CountsFacts DEF Histories
<1>3. ASSUME NEW k \in Key, l2'[k].val \in seen[o] PROVE l2[k].val \in seen[o]
  <2>1. l2'[k].val \in Settled /\ l2'[k].val # None
    BY <1>2, <1>3, ConstantFacts DEF Settled
  <2>2. CASE l2'[k] = l2[k] \/ l2'[k] = Nothing
    BY <1>3, <2>1, <2>2, ValueFacts
  <2>3. CASE l2'[k] = Aged(l2[k])
    BY <1>3, <2>1, <2>3, ValueFacts, AgeFacts
  <2>4. ASSUME NEW w \in Op, Setex(w), l2'[k] = [val |-> w, left |-> call[w].ttl] PROVE FALSE
    BY <2>1, <2>4 DEF Setex, Executes, Settled
  <2> QED
    BY <2>2, <2>3, <2>4, RedisStep
<1> QED
  BY <1>1, <1>2, <1>3 DEF Dirty

\* What the tag set covers, for the removal by tag that asks it.
LEMMA CoveredByTag ==
  ASSUME Reach, Index, NEW o \in Op, Counts(o), call[o].kind = "invalidate",
         pc[o] \in {"members", "membersAgain"}, NEW k \in Targets(o), NEW v \in seen[o],
         l2[k].val = v \/ \E p \in Process : l1[p][k].val = v
  PROVE  k \in tag[call[o].key].keys
<1> USE DEF Reach
<1>1. Timely /\ Whole
  BY DEF Counts, Promises, Indexed, Whole, Intact
<1>2. k \in Key /\ TagOf[k] = call[o].key /\ call[o].key \in Tag
  BY KindOf, ConstantFacts, CountsFacts DEF Targets
<1>3. v \in Settled /\ v \in Op /\ v # None
  BY CountsFacts, ConstantFacts DEF Histories, Settled
<1>4. call[v].kind \in Writing /\ call[v].key = k
  BY <1>2, <1>3 DEF Sources, Written
<1>5. IndexOf(v, k)
  BY <1>1, <1>2, <1>3, <1>4, ConstantFacts DEF Index, Indexing
<1> QED
  BY <1>2, <1>3, <1>5 DEF IndexOf, Tagging, InSet

LEMMA RedisStepAt ==
  ASSUME Reach, Index, RedisPart, [Next]_vars, NEW o \in Op, Counts(o)'
  PROVE  RedisAt(o)'
<1> USE DEF Reach
<1>1. pc'[o] \notin {"new", "get", "setex", "sadd", "expire"}
  <2>1. Suits(o)'
    BY BaseStep DEF Base, Shape
  <2>2. call'[o].kind \in {"delete", "invalidate", "clear", "pattern"}
    BY DEF Counts, Promises, Removing
  <2> QED
    BY <2>1, <2>2 DEF Suits
<1>2. CASE pc[o] = "new"
  <2>1. PICK kind, key, ttl, first : Starts(o, kind, key, ttl, first)
    <3>1. ~Moves(o) /\ ~Answered(o) /\ ~Stops(o)
      BY <1>2, KindFacts, MoveOwn, AnswerKinds DEF Stops, Continues
    <3>2. ~Rests(o)
      BY <1>1, <1>2 DEF Rests
    <3> QED
      BY <3>1, <3>2, OwnStep
  <2>2. pc'[o] = first /\ ~Answerable(o)' /\ call'[o].kind = kind
    BY <2>1, StartOwn
  <2>3. pc'[o] \in {"del", "members", "scan"}
    <3>1. kind \in {"delete", "invalidate", "clear", "pattern"}
      BY <2>2 DEF Counts, Promises, Removing
    <3>2. Fits(kind, key, ttl, first)
      BY <2>1 DEF Starts
    <3> QED
      BY <2>2, <3>1, <3>2 DEF Fits, Writing
  <2> QED
    BY <2>2, <2>3 DEF RedisAt, Emptied, Listed, Over
<1>3. CASE pc[o] # "new"
  <2>1. Counts(o) /\ call'[o] = call[o] /\ seen'[o] = seen[o] /\ Targets(o)' = Targets(o)
    BY <1>3, CountsStep
  <2>2. RedisAt(o)
    BY <2>1 DEF RedisPart
  <2>3. Dirty(o)' \subseteq Dirty(o)
    BY <1>3, DirtyStep
  <2>4. Targets(o) \subseteq Key /\ seen[o] \subseteq Op
    BY <2>1, CountsFacts, Typed DEF Base
  <2>5. CASE Rests(o)
    BY <2>2, <2>3, <2>5 DEF Rests, RedisAt, Emptied, Listed, Over
  <2>6. CASE Stops(o)
    BY <2>1, <2>6 DEF Stops, Counts, Promises, Removing, RedisAt, Emptied, Listed, Over
  <2>7. CASE Answered(o)
    <3>1. PICK next \in Phases : Proceeds(o, next) /\ Continues(o, next)
      BY <2>7, AnswerKinds
    <3>2. pc'[o] = next /\ snap'[o] = snap[o] /\ Answerable(o) /\ ~Answerable(o)'
      BY <3>1, AnswerOwn
    <3>3. Emptied(o)' => Dirty(o) = {}
      <4> SUFFICES ASSUME Emptied(o)' PROVE Dirty(o) = {}
        OBVIOUS
      <4>1. next \in {"delTag", "scanTags", "delTags", "done"}
        BY <3>2 DEF Emptied, Over
      <4>2. pc[o] \in {"setex", "expire", "get"} => FALSE
        BY <2>1, CountsFacts
      <4>3. CASE Emptied(o)
        BY <2>2, <4>3 DEF RedisAt
      <4>4. CASE Listed(o) /\ snap[o] = {}
        BY <2>2, <4>4 DEF RedisAt
      <4>5. pc[o] = "dels" => snap[o] = {}
        BY <2>2, <3>2 DEF RedisAt
      <4> QED
        BY <3>1, <3>2, <4>1, <4>2, <4>3, <4>4, <4>5 DEF Continues, Emptied, Listed, Over
    <3>4. Listed(o)' => Dirty(o) \subseteq snap[o]
      <4> SUFFICES ASSUME Listed(o)' PROVE Listed(o)
        BY <2>2 DEF RedisAt
      <4>1. next \in {"dels", "delOne"}
        BY <3>2 DEF Listed
      <4> QED
        BY <3>1, <3>2, <4>1 DEF Continues, Listed
    <3> QED
      BY <2>3, <3>2, <3>3, <3>4 DEF RedisAt
  <2>8. CASE Executions(o) /\ Moves(o)
    <3>1. /\ pc'[o] = pc[o] /\ pc[o] \in Commands /\ Waiting(o) /\ ~Answerable(o)
          /\ Answerable(o)' \/ (pc[o] \in {"dels", "delTags"} /\ back' = back)
      BY <2>8, MoveOwn
    <3>2. CASE Del(o)
      <4>1. Dirty(o)' = {}
        <5>1. pc[o] = "del" /\ l2' = Without({call[o].key})
          BY <3>2 DEF Del, Executes
        <5>2. call[o].kind = "delete" /\ call[o].key \in Key
          BY <2>1, <5>1, KindOf, CountsFacts
        <5>3. Targets(o) = {call[o].key}
          BY <5>2 DEF Targets
        <5>4. l2'[call[o].key].val = None /\ None \notin seen[o]
          BY <2>4, <5>1, <5>2, ValueFacts DEF Without
        <5> QED
          BY <2>1, <5>3, <5>4 DEF Dirty
      <4>2. pc[o] = "del"
        BY <3>2 DEF Del, Executes
      <4> QED
        BY <3>1, <4>1, <4>2 DEF RedisAt, Listed
    <3>3. CASE Members(o)
      <4>1. /\ pc[o] \in {"members", "membersAgain"} /\ call[o].kind = "invalidate"
            /\ snap'[o] = tag[call[o].key].keys /\ l2' = l2
        <5>1. pc[o] \in {"members", "membersAgain"}
          BY <3>3 DEF Members, Executes
        <5> QED
          BY <3>3, <5>1, KindOf, Typed DEF Members, Base
      <4>2. Dirty(o)' \subseteq snap'[o]
        <5>1. ASSUME NEW k \in Dirty(o) PROVE k \in tag[call[o].key].keys
          BY <2>1, <4>1, CoveredByTag DEF Dirty
        <5> QED
          BY <2>3, <4>1, <5>1
      <4>3. Emptied(o)' => Dirty(o)' = {}
        BY <3>1, <4>1, <4>2 DEF Emptied, Over
      <4> QED
        BY <3>1, <4>1, <4>2, <4>3 DEF RedisAt
    <3>4. CASE Dels(o) \/ DelOne(o)
      <4>1. PICK x \in snap[o] : /\ l2' = Without({x}) /\ snap' = [snap EXCEPT ![o] = @ \ {x}]
                                 /\ Dels(o) => IF snap[o] = {x} THEN Executed(o) ELSE UNCHANGED <<atRest, wire, back>>
        BY <3>4 DEF Dels, DelOne
      <4>2. snap'[o] = snap[o] \ {x}
        BY <4>1, Typed DEF Base
      <4>3. x \notin Dirty(o)'
        <5>1. x \in Key => l2'[x].val = None
          BY <4>1, ValueFacts DEF Without
        <5>2. None \notin seen[o]
          BY <2>4, ConstantFacts
        <5> QED
          BY <2>1, <2>4, <5>1, <5>2 DEF Dirty
      <4>4. pc[o] \in {"dels", "delTags", "delOne"}
        BY <3>4 DEF Dels, DelOne, Executes
      <4>5. CASE pc[o] \in {"dels", "delOne"}
        <5>1. Dirty(o)' \subseteq snap'[o]
          BY <2>2, <2>3, <4>2, <4>3, <4>5 DEF RedisAt, Listed
        <5>2. ASSUME pc[o] = "dels", Answerable(o)' PROVE snap'[o] = {}
          <6>1. Dels(o)
            BY <3>4, <5>2 DEF DelOne, Executes
          <6>2. ~(UNCHANGED <<atRest, wire, back>>)
            BY <3>1, <5>2 DEF Answerable
          <6> QED
            BY <4>1, <4>2, <6>1, <6>2
        <5>3. Emptied(o)' => Dirty(o)' = {}
          BY <3>1, <4>5, <5>1 DEF Emptied, Over
        <5> QED
          BY <3>1, <5>1, <5>2, <5>3 DEF RedisAt
      <4>6. CASE pc[o] = "delTags"
        BY <2>2, <2>3, <3>1, <4>6 DEF RedisAt, Emptied, Listed, Over
      <4> QED
        BY <4>4, <4>5, <4>6
    <3>5. CASE ScanExec(o)
      <4>1. pc[o] = "scan" /\ call[o].kind \in {"clear", "pattern"} /\ l2' = l2
        <5>1. pc[o] = "scan" /\ l2' = l2
          BY <3>5 DEF ScanExec, Executes
        <5> QED
          BY <5>1, KindOf
      <4>2. snap'[o] = (IF call[o].kind = "clear" THEN Stored ELSE Stored \cap (PatternKeys \cup PatternTags))
        BY <3>5, Typed DEF ScanExec, Base
      <4>3. \A k \in Key : l2[k].val \in seen[o] => k \in Stored
        BY <2>4, ValueFacts DEF Stored
      <4>4. Dirty(o) \subseteq snap'[o]
        BY <2>4, <4>1, <4>2, <4>3 DEF Dirty, Targets
      <4>5. Dirty(o)' \subseteq snap'[o]
        BY <2>3, <4>4
      <4>6. Emptied(o)' => Dirty(o)' = {}
        BY <3>1, <4>1, <4>5 DEF Emptied, Over
      <4> QED
        BY <3>1, <4>1, <4>5, <4>6 DEF RedisAt
    <3>6. CASE DelTag(o) \/ ScanTags(o)
      <4>1. pc[o] \in {"delTag", "scanTags"}
        BY <3>6 DEF DelTag, ScanTags, Executes
      <4> QED
        BY <2>2, <2>3, <3>1, <4>1 DEF RedisAt, Emptied, Listed, Over
    <3>7. ~Setex(o) /\ ~Sadd(o) /\ ~Expire(o) /\ ~GetExec(o)
      BY <2>1, CountsFacts DEF Setex, Sadd, Expire, GetExec, Executes
    <3> QED
      BY <2>8, <3>2, <3>3, <3>4, <3>5, <3>6, <3>7 DEF Executions
  <2>9. ~(\E kind, key, ttl, first : Starts(o, kind, key, ttl, first))
    BY <1>3 DEF Starts, Begins
  <2> QED
    BY <2>5, <2>6, <2>7, <2>8, <2>9, OwnStep
<1> QED
  BY <1>2, <1>3

--------------------------------------------------------------------------------
(* A removal reaches all it is about: the memory of its process.                *)

\* A read answered after the removal is over has not read what was removed.
ReadBehind(o, r) == Over(o) \/ Behind(back[Home[o]], o, r)
ReadClean(o, r) ==
  Emptied(o) /\ pc[r] = "get" /\ Home[r] = Home[o] /\ call[r].key \in Targets(o) /\ ReadBehind(o, r)
    => val[r] \notin seen[o]
ReadsPart ==
  \A o \in Op : Counts(o) /\ call[o].kind # "pattern" => \A r \in Op : ReadClean(o, r)

\* The removal has dropped its keys from memory, and only a read it ran into brought one back.
Dropped(o) ==
  \/ call[o].kind \in {"delete", "clear"} /\ pc[o] # "failed"
  \/ call[o].kind = "invalidate" /\ pc[o] \in {"membersAgain", "dels", "delTag", "done"}
MemoryAt(o, k) ==
  l1[Home[o]][k].val \in seen[o] =>
    /\ Dropped(o) => Refilled(o, k)
    /\ pc[o] = "members" /\ Answerable(o) => k \in snap[o] \/ Refilled(o, k)
MemoryPart == \A o \in Op : Counts(o) => \A k \in Targets(o) : MemoryAt(o, k)

\* The operation at the head of the answers has everything else behind it.
LEMMA ReadsHead ==
  ASSUME Reach, NEW o \in Op, NEW next, Proceeds(o, next), NEW r \in Op, r # o, pc[r] = "get", Home[r] = Home[o]
  PROVE  val[r] = None \/ Behind(back[Home[o]], o, r)
<1> USE DEF Reach
<1>1. Waiting(r) \/ Answerable(r)
  BY DEF Carried, Commands
<1>2. CASE Waiting(r)
  BY <1>2 DEF Histories
<1>3. CASE Answerable(r)
  <2>1. back[Home[o]] \in Seq(Op) /\ back[Home[o]] # <<>> /\ Head(back[Home[o]]) = o
    BY LaneHeads DEF Proceeds, Base
  <2>2. r \in Among(Tail(back[Home[o]]))
    BY <1>3, <2>1, HeadFacts DEF Answerable
  <2> QED
    BY <2>1, <2>2, HeadFacts
<1> QED
  BY <1>1, <1>2, <1>3

LEMMA ReadsStepAt ==
  ASSUME Reach, RedisPart, ReadsPart, [Next]_vars, NEW o \in Op, Counts(o)', call'[o].kind # "pattern",
         RedisAt(o)', NEW r \in Op
  PROVE  ReadClean(o, r)'
<1> USE DEF Reach
<1> SUFFICES ASSUME Emptied(o)', pc'[r] = "get", Home[r] = Home[o], call'[r].key \in Targets(o)', ReadBehind(o, r)'
             PROVE  val'[r] \notin seen'[o]
  BY DEF ReadClean
<1>1. pc[o] # "new"
  <2> SUFFICES ASSUME pc[o] = "new" PROVE FALSE
    OBVIOUS
  <2>1. ASSUME NEW kind, NEW key, NEW ttl, NEW first, Starts(o, kind, key, ttl, first) PROVE FALSE
    <3>1. ~Answerable(o)' /\ pc'[o] = first /\ call'[o].kind = kind
      BY <2>1, StartOwn
    <3>2. kind \in {"delete", "invalidate", "clear", "pattern"}
      BY <3>1 DEF Counts, Promises, Removing
    <3>3. Fits(kind, key, ttl, first)
      BY <2>1 DEF Starts
    <3>4. first \in {"del", "members", "scan"}
      BY <3>2, <3>3 DEF Fits, Writing
    <3> QED
      BY <3>1, <3>4 DEF Emptied, Over
  <2>2. call[o].kind = "none"
    BY DEF Base, Shape, Suits
  <2>3. ~Moves(o) /\ ~Answered(o) /\ ~Stops(o)
    BY KindFacts, MoveOwn, AnswerKinds DEF Stops, Continues
  <2>4. ~Rests(o)
    BY <2>2 DEF Rests, Counts, Promises, Removing
  <2> QED
    BY <2>1, <2>3, <2>4, OwnStep
<1>2. Counts(o) /\ call'[o] = call[o] /\ seen'[o] = seen[o] /\ Targets(o)' = Targets(o)
  BY <1>1, CountsStep
<1>3. None \notin seen[o] /\ pc[o] \notin {"new", "get", "setex", "sadd", "expire"} /\ Home[o] \in Process
  BY <1>2, CountsFacts, Typed, ConstantFacts DEF Base
<1>4. r # o
  <2>1. pc'[o] = "get" => pc[o] = "get"
    BY <1>1, CallStep
  <2> QED
    BY <1>3, <2>1
<1>5. CASE pc[r] = "new"
  <2>1. val[r] = None /\ ~Setex(r) /\ ~GetExec(r)
    BY <1>5 DEF Sources, Setex, GetExec, Executes
  <2> QED
    BY <1>2, <1>3, <2>1, ValueStep
<1>6. CASE pc[r] = "get" /\ GetExec(r)
  <2>1. l2' = l2 /\ val'[r] = l2[call[r].key].val /\ call'[r] = call[r]
    BY <1>6, CallStep, Typed DEF GetExec, Base
  <2>2. Dirty(o)' = {}
    BY DEF RedisAt
  <2> QED
    BY <1>2, <2>1, <2>2 DEF Dirty
<1>7. CASE pc[r] = "get" /\ ~GetExec(r)
  <2>1. val'[r] = val[r] /\ call'[r] = call[r] /\ ~Executions(r)
    <3>1. ~Setex(r)
      BY <1>7 DEF Setex, Executes
    <3>2. ~Executions(r)
      BY <1>7 DEF Executions, Setex, Sadd, Expire, GetExec, Del, Members, Dels, DelTag, ScanExec, DelOne, ScanTags, Executes
    <3> QED
      BY <1>7, <3>1, <3>2, ValueStep, CallStep
  <2>2. ReadClean(o, r)
    BY <1>2 DEF ReadsPart
  <2>3. Behind(back'[Home[o]], o, r) => Behind(back[Home[o]], o, r)
    BY <1>3, <2>1, BehindStep
  <2>4. CASE Over(o)
    BY <1>2, <1>7, <2>1, <2>2, <2>4 DEF ReadClean, ReadBehind, Emptied
  <2>5. CASE Emptied(o) /\ Behind(back[Home[o]], o, r)
    BY <1>2, <1>7, <2>1, <2>2, <2>5 DEF ReadClean, ReadBehind
  <2>6. CASE Rests(o)
    BY <2>3, <2>4, <2>5, <2>6 DEF Rests, Emptied, Over, ReadBehind
  <2>7. CASE Stops(o)
    BY <1>2, <2>7 DEF Stops, Counts, Promises, Removing, Emptied, Over
  <2>8. CASE Executions(o) /\ Moves(o)
    <3>1. pc'[o] = pc[o] /\ ~Answerable(o)
      BY <2>8, MoveOwn
    <3>2. ~Behind(back[Home[o]], o, r)
      BY <3>1 DEF Behind, Among, Answerable
    <3> QED
      BY <2>3, <2>4, <3>1, <3>2 DEF ReadBehind, Over
  <2>9. CASE Answered(o)
    <3>1. PICK next \in Phases : Proceeds(o, next) /\ Continues(o, next)
      BY <2>9, AnswerKinds
    <3>2. pc'[o] = next /\ Answerable(o) /\ ~Answerable(o)'
      BY <3>1, AnswerOwn
    <3>3. next \in {"delTag", "scanTags", "delTags", "done"}
      BY <3>2 DEF Emptied, Over
    <3>4. pc[o] = "dels" => snap[o] = {}
      BY <1>2, <3>2 DEF RedisPart, RedisAt
    <3>5. pc[o] # "delOne" /\ (pc[o] = "scan" => call[o].kind = "clear")
      BY <1>2, KindOf
    <3>6. Emptied(o)
      BY <1>3, <3>1, <3>2, <3>3, <3>4, <3>5 DEF Continues, Emptied, Over
    <3>7. val[r] = None \/ Behind(back[Home[o]], o, r)
      BY <1>4, <1>7, <3>1, ReadsHead
    <3> QED
      BY <1>2, <1>3, <2>1, <2>5, <3>6, <3>7
  <2>10. ~(\E kind, key, ttl, first : Starts(o, kind, key, ttl, first))
    BY <1>1 DEF Starts, Begins
  <2> QED
    BY <2>6, <2>7, <2>8, <2>9, <2>10, OwnStep
<1> QED
  BY <1>5, <1>6, <1>7, CallStep

\* Who brought a value back stays its witness as long as the value stays.
LEMMA RefilledStep ==
  ASSUME Reach, [Next]_vars, NEW o \in Op, NEW k, Refilled(o, k), l1'[Home[o]][k].val = l1[Home[o]][k].val
  PROVE  Refilled(o, k)'
<1> USE DEF Reach
<1>1. PICK r \in Op : /\ call[r].kind = "get" /\ call[r].key = k /\ o \in seen[r]
                      /\ val[r] = l1[Home[o]][k].val
  BY DEF Refilled
<1>2. pc[r] \notin {"new", "get", "setex"}
  BY <1>1, KindOf DEF Histories, Writing
<1>3. call'[r] = call[r] /\ seen'[r] = seen[r]
  BY <1>2, CallStep, SeenStep
<1>4. val'[r] = val[r]
  BY <1>2, ValueStep DEF Setex, GetExec, Executes
<1> QED
  BY <1>1, <1>3, <1>4 DEF Refilled

LEMMA MemoryStepAt ==
  ASSUME Reach, Index, ReadsPart, MemoryPart, [Next]_vars, NEW o \in Op, Counts(o)', NEW k \in Targets(o)'
  PROVE  MemoryAt(o, k)'
<1> USE DEF Reach
<1> SUFFICES ASSUME l1'[Home[o]][k].val \in seen'[o]
             PROVE  /\ Dropped(o)' => Refilled(o, k)'
                    /\ pc'[o] = "members" /\ Answerable(o)' => k \in snap'[o] \/ Refilled(o, k)'
  BY DEF MemoryAt
<1>1. Home[o] \in Process /\ None \notin seen'[o]
  <2>1. seen' \in [Op -> SUBSET Op]
    BY BaseStep DEF Base, TypeOK
  <2> QED
    BY <2>1, ConstantFacts
<1>2. l1'[Home[o]][k] # Nothing
  BY <1>1, RecordFacts
<1>3. CASE pc[o] = "new"
  <2>1. PICK kind, key, ttl, first : Starts(o, kind, key, ttl, first)
    <3>1. ~Moves(o) /\ ~Answered(o) /\ ~Stops(o)
      BY <1>3, KindFacts, MoveOwn, AnswerKinds DEF Stops, Continues
    <3>2. call[o].kind = "none"
      BY <1>3 DEF Base, Shape, Suits
    <3>3. ~Rests(o)
      BY <3>2 DEF Rests, Counts, Promises, Removing
    <3> QED
      BY <3>1, <3>3, OwnStep
  <2>2. ~Answerable(o)' /\ pc'[o] = first /\ call'[o].kind = kind /\ call'[o].key = key
    BY <2>1, StartOwn
  <2>3. ASSUME kind \in {"delete", "clear"} PROVE FALSE
    <3>1. k \in (IF kind = "clear" THEN Key ELSE {key}) /\ k \in Key
      <4>1. kind = "delete" => key \in Key
        BY <2>1 DEF Starts, Fits, Writing
      <4> QED
        BY <2>2, <2>3, <4>1 DEF Targets
    <3>2. FromL1(Home[o], IF kind = "clear" THEN Key ELSE {key})
      BY <2>1, <2>3 DEF Starts
    <3>3. l1'[Home[o]][k] = Nothing
      BY <1>1, <3>1, <3>2, Typed DEF FromL1, DropsL1, Base
    <3> QED
      BY <1>2, <3>3
  <2>4. kind = "invalidate" => first = "members"
    BY <2>1 DEF Starts, Fits, Writing
  <2> QED
    BY <2>2, <2>3, <2>4 DEF Dropped
<1>4. CASE pc[o] # "new"
  <2>1. Counts(o) /\ call'[o] = call[o] /\ seen'[o] = seen[o] /\ Targets(o)' = Targets(o)
    BY <1>4, CountsStep
  <2>2. k \in Targets(o) /\ k \in Key /\ seen[o] \subseteq Settled /\ call[o].kind \in Removing
    BY <2>1, CountsFacts DEF Histories
  <2>3. MemoryAt(o, k)
    BY <2>1, <2>2 DEF MemoryPart
  <2>4. CASE l1'[Home[o]][k].val = l1[Home[o]][k].val
    <3>1. Refilled(o, k) => Refilled(o, k)'
      BY <2>4, RefilledStep
    <3>2. l1[Home[o]][k].val \in seen[o]
      BY <2>1, <2>4
    <3>3. CASE Rests(o)
      BY <2>3, <3>1, <3>2, <3>3 DEF Rests, MemoryAt, Dropped
    <3>4. CASE Stops(o)
      BY <2>1, <3>4 DEF Stops, Counts, Promises, Removing, Dropped
    <3>5. CASE Answered(o)
      <4>1. PICK next \in Phases : Proceeds(o, next) /\ Continues(o, next)
        BY <3>5, AnswerKinds
      <4>2. pc'[o] = next /\ snap'[o] = snap[o] /\ Answerable(o) /\ ~Answerable(o)'
        BY <4>1, AnswerOwn
      <4>3. CASE pc[o] # "members"
        <5>1. pc[o] # "failed" /\ next # "failed"
          BY <4>1 DEF Continues
        <5>2. call[o].kind = "invalidate" => pc[o] \in {"membersAgain", "dels", "delTag"}
          BY <4>1, <4>3 DEF Base, Shape, Suits, Continues
        <5>3. Dropped(o)' => Dropped(o)
          BY <2>1, <5>1, <5>2 DEF Dropped
        <5> QED
          BY <2>3, <3>1, <3>2, <4>2, <5>3 DEF MemoryAt
      <4>4. CASE pc[o] = "members"
        <5>1. MembersAnswered(o)
          BY <3>5, <4>4 DEF Answered, SetexAnswered, SaddAnswered, ExpireAnswered, GetAnswered, DelAnswered,
             MembersAgainAnswered, DelsAnswered, DelTagAnswered, ScanAnswered, DelOneAnswered,
             ScanTagsAnswered, DelTagsAnswered, Answers
        <5>2. FromL1(Home[o], snap[o])
          BY <5>1 DEF MembersAnswered
        <5>3. k \notin snap[o]
          BY <1>1, <1>2, <2>2, <5>2, Typed DEF FromL1, DropsL1, Base
        <5> QED
          BY <2>3, <3>1, <3>2, <4>2, <4>4, <5>3 DEF MemoryAt
      <4> QED
        BY <4>3, <4>4
    <3>6. CASE Executions(o) /\ Moves(o)
      <4>1. pc'[o] = pc[o] /\ l1' = l1
        BY <3>6, MoveOwn
      <4>2. Dropped(o)' => Refilled(o, k)'
        BY <2>1, <2>3, <3>1, <3>2, <4>1 DEF MemoryAt, Dropped
      <4>3. ASSUME pc'[o] = "members" PROVE k \in snap'[o]
        <5>1. Members(o) /\ pc[o] = "members"
          BY <3>6, <4>1, <4>3 DEF Executions, Setex, Sadd, Expire, GetExec, Del, Dels, DelTag, ScanExec, DelOne,
             ScanTags, Executes
        <5>2. call[o].kind = "invalidate" /\ snap'[o] = tag[call[o].key].keys
          BY <5>1, KindOf, Typed DEF Members, Base
        <5>3. k \in tag[call[o].key].keys
          BY <1>1, <2>1, <2>2, <3>2, <5>1, <5>2, CoveredByTag
        <5> QED
          BY <5>2, <5>3
      <4> QED
        BY <4>2, <4>3
    <3>7. ~(\E kind, key, ttl, first : Starts(o, kind, key, ttl, first))
      BY <1>4 DEF Starts, Begins
    <3> QED
      BY <3>3, <3>4, <3>5, <3>6, <3>7, OwnStep
  <2>5. CASE l1'[Home[o]][k] = Served(l1[Home[o]][k])
    BY <1>1, <1>2, <2>2, <2>4, <2>5, ValueFacts, AgeFacts
  <2>6. ASSUME NEW w \in Op, SetexAnswered(w), l1'[Home[o]][k] = [val |-> w, left |-> Min2(call[w].ttl, L1Ttl)]
        PROVE  FALSE
    <3>1. w \in seen[o] /\ pc[w] = "setex"
      BY <2>1, <2>6 DEF SetexAnswered, Answers
    <3> QED
      BY <2>2, <3>1 DEF Settled
  <2>7. ASSUME NEW r \in Op, GetAnswered(r), val[r] # None, Home[o] = Home[r], k = call[r].key,
               l1'[Home[o]][k] = [val |-> val[r], left |-> L1Ttl]
        PROVE  /\ Dropped(o)' => Refilled(o, k)'
               /\ pc'[o] = "members" /\ Answerable(o)' => k \in snap'[o] \/ Refilled(o, k)'
    <3>1. /\ pc[r] = "get" /\ val' = val /\ call' = call /\ l1'[Home[o]][k].val = val[r]
          /\ seen' = [seen EXCEPT ![r] = Underway(Home[r])] /\ pc'[r] = "done"
      BY <2>7, Typed DEF GetAnswered, Answers, Done, Base
    <3>2. call[r].kind = "get"
      BY <3>1, KindOf
    <3>3. r # o
      BY <2>2, <3>2 DEF Removing
    <3>4. pc'[o] = pc[o]
      BY <2>7, <3>3, Typed DEF GetAnswered, Done, Base
    <3>5. CASE pc[o] \in Commands
      <4>1. o \in Underway(Home[r])
        BY <2>2, <2>7, <3>5 DEF Underway
      <4>2. o \in seen'[r]
        BY <3>1, <4>1, Typed DEF Base
      <4>3. Refilled(o, k)'
        BY <2>7, <3>1, <3>2, <4>2 DEF Refilled
      <4> QED
        BY <4>3
    <3>6. CASE pc[o] \notin Commands
      <4>1. pc[o] \in {"done", "failed"}
        BY <1>4, <3>6, Typed DEF Base, Phases
      <4>2. ASSUME Dropped(o)' PROVE FALSE
        <5>1. pc[o] = "done" /\ call[o].kind # "pattern"
          BY <2>1, <3>4, <4>1, <4>2 DEF Dropped
        <5>2. val[r] \notin seen[o]
          BY <2>1, <2>2, <2>7, <3>1, <5>1 DEF ReadsPart, ReadClean, ReadBehind, Emptied, Over
        <5> QED
          BY <2>1, <3>1, <5>2
      <4> QED
        BY <3>4, <4>1, <4>2
    <3> QED
      BY <3>5, <3>6
  <2> QED
    BY <1>1, <1>2, <2>2, <2>4, <2>5, <2>6, <2>7, MemoryStep
<1> QED
  BY <1>3, <1>4

--------------------------------------------------------------------------------
(* A removal reaches all it is about: the invariant and what it shows.          *)

ReachInv == Reach /\ Index /\ RedisPart /\ ReadsPart /\ MemoryPart

LEMMA ReachInvInit == Init => ReachInv
<1> SUFFICES ASSUME Init PROVE ReachInv
  OBVIOUS
<1>1. \A o \in Op : call[o].kind = "none"
  BY DEF Init, NoCall
<1>2. \A o \in Op : ~Counts(o) /\ ~Indexing(o)
  BY <1>1 DEF Counts, Promises, Removing, Indexing, Writing
<1> QED
  BY <1>2, ReachInit DEF ReachInv, Index, RedisPart, ReadsPart, MemoryPart

LEMMA ReachInvStep == ReachInv /\ [Next]_vars => ReachInv'
<1> SUFFICES ASSUME ReachInv, [Next]_vars PROVE ReachInv'
  OBVIOUS
<1> USE DEF ReachInv
<1>1. Reach'
  BY ReachStep
<1>2. Index'
  <2>1. Timely /\ Whole' => \A v \in Op : Indexing(v)' => \A k \in Key : k = call'[v].key => IndexOf(v, k)'
    BY IndexStep
  <2> QED
    BY <2>1 DEF Index, Timely
<1>3. RedisPart'
  BY RedisStepAt DEF RedisPart
<1>4. ReadsPart'
  <2>1. \A o \in Op : Counts(o)' => RedisAt(o)'
    BY RedisStepAt
  <2>2. \A o \in Op : Counts(o)' /\ call'[o].kind # "pattern" => \A r \in Op : ReadClean(o, r)'
    BY <2>1, ReadsStepAt
  <2> QED
    BY <2>2 DEF ReadsPart
<1>5. MemoryPart'
  BY MemoryStepAt DEF MemoryPart
<1> QED
  BY <1>1, <1>2, <1>3, <1>4, <1>5

\* A removal that keeps its promise, in both tiers.
Reached(o) ==
  /\ \A k \in Targets(o) : l2[k].val \notin seen[o]
  /\ call[o].kind # "pattern" => \A k \in Targets(o) : l1[Home[o]][k].val \in seen[o] => Refilled(o, k)

LEMMA ReachedWhenCounted ==
  ASSUME ReachInv, NEW o \in Op, Counts(o), pc[o] = "done"
  PROVE  Reached(o)
<1> USE DEF ReachInv
<1>1. Emptied(o) /\ RedisAt(o)
  BY DEF Emptied, Over, RedisPart
<1>2. \A k \in Targets(o) : l2[k].val \notin seen[o]
  BY <1>1 DEF RedisAt, Dirty
<1>3. ASSUME call[o].kind # "pattern", NEW k \in Targets(o), l1[Home[o]][k].val \in seen[o] PROVE Refilled(o, k)
  <2>1. Dropped(o)
    BY <1>3, CountsFacts DEF Dropped, Reach
  <2> QED
    BY <1>3, <2>1 DEF MemoryPart, MemoryAt
<1> QED
  BY <1>2, <1>3 DEF Reached

\* delete(), clear() and invalidateByPattern() that report success have removed what was set
\* before them, whatever else goes on, fails or crashes.
DirectlyReached == \A o \in Op : Removed(o) /\ call[o].kind # "invalidate" => Reached(o)

THEOREM DirectRemovalsReach == Spec => []DirectlyReached
<1>1. ReachInv => DirectlyReached
  BY ReachedWhenCounted DEF DirectlyReached, Removed, Counts
<1> QED
  BY <1>1, ReachInvInit, ReachInvStep, PTL DEF Spec

\* With tag sets that live long enough, removals by tag do as well, and the tag set knows what
\* is stored under it.
THEOREM AllRemovalsReach == ASSUME Timely PROVE Spec => []RemovalsReach
<1>1. ReachInv => RemovalsReach
  <2> SUFFICES ASSUME ReachInv PROVE RemovalsReach
    OBVIOUS
  <2>1. \A o \in Op : Removed(o) => Reached(o)
    BY ReachedWhenCounted DEF Removed, Counts
  <2>2. RemovedFromRedis /\ RemovedFromMemory
    BY <2>1 DEF RemovedFromRedis, RemovedFromMemory, Reached
  <2>3. IndexCovers
    <3> SUFFICES ASSUME \A o \in Op : call[o].kind \notin TagRemoving,
                        NEW k \in Key, l2[k].val \in Settled, TagOf[k] # None
                 PROVE  k \in tag[TagOf[k]].keys
      BY DEF IndexCovers
    <3> DEFINE v == l2[k].val
    <3>1. Whole
      BY DEF Whole
    <3>2. v \in Op /\ call[v].kind \in Writing /\ call[v].key = k /\ Tagging(v)
      <4>1. v \in Op /\ call[v].kind \in Writing /\ v # None
        BY ConstantFacts DEF Settled
      <4> QED
        BY <4>1 DEF ReachInv, Reach, Sources, Written, Tagging
    <3>3. IndexOf(v, k)
      BY <3>1, <3>2 DEF ReachInv, Index, Indexing
    <3> QED
      BY <3>2, <3>3 DEF IndexOf, InSet
  <2> QED
    BY <2>2, <2>3 DEF RemovalsReach
<1> QED
  BY <1>1, ReachInvInit, ReachInvStep, PTL DEF Spec
================================================================================
