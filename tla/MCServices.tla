------------------------------ MODULE MCServices ------------------------------
(* The smaller parts outside the cache: each behaviour runs one of them. Most share the variables of PubSub, of which each takes as many as it needs;
   the others stay 0, and those of the modules it extends as they are at their start. *)
EXTENDS BreakerMirror, GuardedCalls, Observability

CONSTANTS Parts, None, i1, i2, i3

VARIABLES part, book, chain, stage, sub, sweep, wire, inbox, subscribed, recorded, message

\* Two calls under any of seven stacks of guards, one command that fails.
GuardStacks == {<<>>, <<Lock("a", "skip")>>, <<Breaker("bypass")>>, <<Lock("a", "throw"), Breaker("fallback")>>,
  <<Breaker("throw"), Lock("a", "custom")>>, <<Lock("a", "skip"), Lock("b", "throw")>>, <<Lock("b", "throw"), Lock("b", "throw")>>}

\* Every configuration of at most two of all the fields there are.
CS == INSTANCE ConnectionSetup WITH
  Custom <- {"memory"},
  config <- book, registered <- chain, driver <- stage, client <- sub

\* Every plugin, any two options at a time.
PO == INSTANCE PluginOptions WITH
  Client <- {"default", "other"}, MaxGiven <- 2,
  plugin <- book, way <- chain, given <- stage, mode <- sub, phase <- sweep, wired <- wire, options <- inbox, clients <- subscribed

\* Two calls of subscribe() and one of psubscribe(), each with a handler of its own.
MCTarget(s) == IF s = 3 THEN "pattern" ELSE "channel"
MCHandler(s) == s
PS == INSTANCE PubSub WITH
  Sub <- 1..3, Channel <- {"channel"}, Pattern <- {"pattern"}, Message <- {"m"}, Faults <- 1, Target <- MCTarget, Handler <- MCHandler,
  registry <- book

\* The in-memory driver: a stream with a group of two consumers.
SV == INSTANCE StreamValue WITH
  Consumer <- {"c1", "c2"}, MinIdle <- 1, MaxTime <- 1, MaxSeq <- 1, MaxDeliveries <- 2,
  clock <- book, entries <- chain, lastId <- stage, group <- sub, gone <- sweep, seen <- wire, rewound <- inbox

\* The in-memory driver: two adapters on one bus.
PB == INSTANCE PubSubBus WITH
  Adapter <- {"a1", "a2"}, Channel <- {"c", "d"}, Pattern <- {"p"}, Matches <- {<<"p", "c">>}, MaxMessages <- 2,
  channelSubs <- book, patternSubs <- chain, microtasks <- stage, sent <- sub, held <- sweep, owed <- wire

\* A failure on its way up one stack of calls.
FA == INSTANCE Failures WITH stack <- book, at <- chain, error <- stage, origin <- sub, answer <- sweep

\* --------------------------------------------------------------- one of them runs
shared == <<book, chain, stage, sub, sweep, wire, inbox, subscribed, recorded, message>>
MCInit == /\ part \in Parts /\ MirrorInit /\ GuardsInit /\ (part # "guards" => ready = {})
          /\ ObservedInit /\ (part # "observability" => config = [registry |-> "own", collects |-> "unset", prefix |-> Redisx, force |-> FALSE])
          /\ \/ part = "setup" /\ CS!Init /\ sweep = 0 /\ wire = 0 /\ inbox = 0 /\ subscribed = 0 /\ recorded = 0 /\ message = 0
             \/ part = "options" /\ PO!Init /\ recorded = 0 /\ message = 0
             \/ part = "subscriptions" /\ PS!Init
             \/ part = "streamvalue" /\ SV!Init /\ subscribed = 0 /\ recorded = 0 /\ message = 0
             \/ part = "bus" /\ PB!Init /\ inbox = 0 /\ subscribed = 0 /\ recorded = 0 /\ message = 0
             \/ part = "failures" /\ FA!Init /\ wire = 0 /\ inbox = 0 /\ subscribed = 0 /\ recorded = 0 /\ message = 0
             \/ part \in {"mirror", "guards", "observability"} /\ book = 0 /\ chain = 0 /\ stage = 0 /\ sub = 0 /\ sweep = 0 /\ wire = 0 /\ inbox = 0 /\ subscribed = 0 /\ recorded = 0 /\ message = 0
OnlyFaulty(name) == part = name /\ UNCHANGED <<part, mirrorVars, ready, calls, owner, records, observedVars>>
Only(name) == OnlyFaulty(name) /\ UNCHANGED faults
MCNext == \/ Only("setup") /\ CS!Next /\ UNCHANGED <<sweep, wire, inbox, subscribed, recorded, message>>
          \/ Only("options") /\ PO!Next /\ UNCHANGED <<recorded, message>>
          \/ part = "guards" /\ GuardsNext /\ UNCHANGED <<part, mirrorVars, observedVars, shared>>
          \/ OnlyFaulty("subscriptions") /\ PS!Next
          \/ part = "observability" /\ ObservedNext /\ UNCHANGED <<part, mirrorVars, guardsVars, shared>>
          \/ Only("streamvalue") /\ SV!Next /\ UNCHANGED <<subscribed, recorded, message>>
          \/ Only("bus") /\ PB!Next /\ UNCHANGED <<inbox, subscribed, recorded, message>>
          \/ Only("failures") /\ FA!Next /\ UNCHANGED <<wire, inbox, subscribed, recorded, message>>
          \/ part = "mirror" /\ MirrorNext /\ UNCHANGED <<part, guardsVars, observedVars, shared>>
MCSpec == MCInit /\ [][MCNext]_<<part, mirrorVars, guardsVars, observedVars, shared>>

\* --------------------------------------------------------------- properties
\* The properties of the parts, of which one runs; each is stated where the part is modelled.
\* Both drivers reach the configured server with its credentials and options (ConnectionSetup); what a
\* plugin wires is what its services are told (PluginOptions).
ConfiguredAsMeant == CASE part = "setup" -> CS!SameServer /\ CS!OptionsAsDeclared [] part = "options" -> PO!WiringAgrees [] OTHER -> TRUE
\* Options reach the services that read them (PluginOptions).
OptionsArrive == part = "options" => PO!OptionsArrive
\* Who is subscribed is served until it leaves (PubSub, PubSubBus); the in-memory stream
\* forgets no pending entry (StreamValue).
Delivered == CASE part = "subscriptions" -> PS!Served /\ PS!Delivered /\ PS!SweepComplete
               [] part = "streamvalue" -> SV!GroupKept [] part = "bus" -> PB!BusKept [] OTHER -> TRUE
\* An error tells who handles it what failed (Failures).
ErrorsExplained == part = "failures" => FA!ErrorsExplained
================================================================================
