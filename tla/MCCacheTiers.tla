------------------------------ MODULE MCCacheTiers ------------------------------
(* Small instances of CacheTiers, three operations of one or two processes, and of what lies
   below the tiers: the commands and scripts of the drivers and the keys of the in-memory one.
   Each behaviour runs one of them. The variables of the drivers are 0 where nothing uses
   them; those of CacheTiers then stay as they are at first. *)
EXTENDS CacheTiers, TLC

CONSTANTS Parts, k1, k2, g, o1, o2, o3, p, q

VARIABLES part, book, chain, stage, sub, sweep, cut, spent

Tagged == [k \in Key |-> g]
TwoWriters == o1 :> p @@ o2 :> p @@ o3 :> q

\* What each operation may be: one writes or reads, one of its process removes, and another
\* process writes, reads or removes.
KindsMixed == o1 :> Writing \cup {"get"} @@ o2 :> (Removing \ {"deleteMany"}) \cup {"get"} @@ o3 :> {"set", "get", "deleteMany"}

\* Every command alone, and pipelines of up to two.
CM == INSTANCE Commands WITH
  MaxQueue <- 2,
  driver <- book, via <- chain, queue <- stage, sent <- sub, results <- sweep

\* Two callers of two scripts, one lost connection.
SC == INSTANCE Scripts WITH
  Script <- {"a", "b"}, Caller <- {"c1", "c2"}, Faults <- 1,
  registry <- book, driver <- chain, cached <- stage, call <- sub, ran <- sweep, lost <- cut, faults <- spent

\* The in-memory driver: two keys, one of which holds texts only.
MK == INSTANCE MemoryKeyspace WITH
  Key <- {"k", "j"}, Plain <- {"j"}, Letter <- 99, Texts <- {<<9>>, <<99>>}, Ttls <- {1}, Elem <- 1..2, MaxTime <- 1, MaxLen <- 2, MaxNumber <- 10,
  keyspace <- book, clock <- chain

\* --------------------------------------------------------------- one of them runs
drivers == <<book, chain, stage, sub, sweep, cut, spent>>
MCInit ==
  /\ part \in Parts /\ Init
  /\ \/ part = "tiers" /\ book = 0 /\ chain = 0 /\ stage = 0 /\ sub = 0 /\ sweep = 0 /\ cut = 0 /\ spent = 0
     \/ part = "commands" /\ CM!Init /\ cut = 0 /\ spent = 0
     \/ part = "scripts" /\ SC!Init
     \/ part = "keyspace" /\ MK!Init /\ stage = 0 /\ sub = 0 /\ sweep = 0 /\ cut = 0 /\ spent = 0
Only(name) == part = name /\ UNCHANGED <<part, vars>>
MCNext ==
  \/ part = "tiers" /\ Next /\ UNCHANGED <<part, drivers>>
  \/ Only("commands") /\ CM!Next /\ UNCHANGED <<cut, spent>>
  \/ Only("scripts") /\ SC!Next
  \/ Only("keyspace") /\ MK!Next /\ UNCHANGED <<stage, sub, sweep, cut, spent>>
MCSpec == MCInit /\ [][MCNext]_<<part, vars, drivers>>

\* --------------------------------------------------------------- properties
\* Beside the two properties of CacheTiers, ServedBriefly and RemovalsReach.
\* Both drivers send the keys that are meant and, once, each call those that are declared; a
\* script runs once (Commands, Scripts); the in-memory commands keep the rules their callers
\* rely on (MemoryKeyspace).
SentAsMeant == CASE part = "commands" -> CM!SameKeys /\ CM!PipelineAgrees /\ (stage = <<>> /\ sub = <<>> => CM!SentAsDeclared)
                 [] part = "scripts" -> SC!RunsOnce
                 [] part = "keyspace" -> MK!CommandsLawful /\ MK!RangesRight /\ MK!ScoresSplit [] OTHER -> TRUE
================================================================================
