-------------------------------- MODULE Lifecycle --------------------------------
(* An application with RedisModule from its first provider to its end: the factories of    *)
(* the providers, the hooks of the plugins in the order of their dependencies, and the      *)
(* shutdown, for which Nest calls onModuleDestroy() of one provider after the other without *)
(* waiting in between and then onApplicationShutdown().                                     *)
EXTENDS Integers, FiniteSets, Sequences, SequencesExt

CONSTANTS
  Apps,    \* [async, clients : Seq(STRING), uses : the client of the plugins, plugins : Seq([name, deps])]
  Lock,    \* keys that LockService may hold
  None

VARIABLES
  app,
  phase,     \* "providers", "sort", "register", "init", "running", "destroy", "drain", "stopped" or "failed"
  created,   \* clients of the manager
  started, resolved,   \* the factories, by their place in Providers
  wrong,     \* why the application failed to start
  queue, order,   \* sortByDependencies(): the plugins that are free, and those that are sorted
  called,    \* history: the hooks that were called, <<hook, plugin>>
  held,      \* locks that are stored in Redis and are in activeLocks
  wire,      \* what was sent on the connection of the plugins during shutdown
  open,      \* whether Redis still executes what comes on it
  work       \* a message of a stream consumer: "none", "handling", "handled", "acked" or "left"

boot == <<created, started, resolved, wrong>>
vars == <<app, phase, boot, queue, order, called, held, wire, open, work>>

--------------------------------------------------------------------------------
(* createRedisProviders(), createAsyncProviders() and a driver of a plugin, in their order. *)
Default == "default"
Provider(kind, of) == [kind |-> kind, of |-> of]
Clients == [i \in DOMAIN app.clients |-> Provider("client", app.clients[i])]
Plugin == Provider("plugin", app.uses)
SyncProviders == Clients \o <<Provider("clients", None), Provider("driver", Default), Plugin>>
AsyncProviders ==
  <<Provider("options", None), Provider("clients", None), Provider("driver", Default), Provider("driver", Default), Plugin>>
Providers == IF app.async THEN AsyncProviders ELSE SyncProviders

\* What a factory injects beside the manager. REDIS_DRIVER of forRoot() injects nothing else.
OfKind(kinds) == {i \in DOMAIN Providers : Providers[i].kind \in kinds}
Barrier == OfKind({"clients"})
InjectsTheManager(i) == IF i \in Barrier THEN OfKind({"client", "options"}) ELSE {}
Injects(i) ==
  CASE Providers[i].kind \in {"client", "options"} -> {}
    [] Providers[i].kind = "clients" -> OfKind({"client", "options"})
    [] Providers[i].kind = "driver" -> IF app.async THEN Barrier ELSE {}
    [] OTHER -> Barrier
Startable(i) == i \notin started /\ Injects(i) \subseteq resolved

--------------------------------------------------------------------------------
(* PluginRegistryService.sortByDependencies(). A name stands for the last plugin with it.   *)
Plugins == app.plugins
Named(p) == CHOOSE i \in DOMAIN Plugins : /\ Plugins[i].name = Plugins[p].name
                                          /\ \A j \in DOMAIN Plugins : Plugins[j].name = Plugins[p].name => j <= i
Names == {Plugins[i].name : i \in DOMAIN Plugins}
Nodes == {Named(i) : i \in DOMAIN Plugins}
Missing == \E i \in DOMAIN Plugins : ~(Plugins[i].deps \subseteq Names)
Edges(d, v) == Cardinality({i \in DOMAIN Plugins : Named(i) = v /\ Plugins[d].name \in Plugins[i].deps})
InDegree(v) == FoldLeft(+, 0, [i \in DOMAIN Plugins |-> IF Named(i) = v THEN Cardinality(Plugins[i].deps) ELSE 0])
Ordered(s) == SetToSortSeq(s, <)

\* Kahn's algorithm: the first of the queue frees those whose degree it brings down to 0.
Degree(v) == InDegree(v) - FoldLeft(LAMBDA n, d : n + Edges(d, v), 0, order)
FreedAgain(d) == {v \in Nodes : Edges(d, v) > 0}
Freed(d) == {v \in Nodes : Degree(v) > 0 /\ Degree(v) <= Edges(d, v)}
Free == SelectSeq([i \in DOMAIN Plugins |-> Named(i)], LAMBDA v : InDegree(v) = 0)

--------------------------------------------------------------------------------
Init ==
  /\ app \in Apps /\ phase = "providers"
  /\ created = {} /\ started = {} /\ resolved = {} /\ wrong = None
  /\ queue = <<>> /\ order = <<>> /\ called = <<>>
  /\ held = {} /\ wire = <<>> /\ open = TRUE /\ work = "none"

Fails(why) == phase' = "failed" /\ wrong' = why
Starts(to) == phase' = to /\ UNCHANGED wrong

\* A factory runs: createClient() for its client or for all of them, or getClient().
Creates(i) ==
  CASE Providers[i].kind = "client" -> {Providers[i].of}
    [] Providers[i].kind = "clients" /\ app.async -> Range(app.clients)
    [] OTHER -> {}
Factory(i) ==
  /\ phase = "providers" /\ Startable(i) /\ \A j \in 1..(i - 1) : ~Startable(j)
  /\ started' = started \cup {i} /\ created' = created \cup Creates(i)
  /\ IF Providers[i].kind \in {"client", "clients"}
     THEN resolved' = resolved \cup {i} /\ UNCHANGED <<phase, wrong>>
     ELSE /\ IF Providers[i].of \in created \cup {None} THEN UNCHANGED <<phase, wrong>> ELSE Fails("not found")
          /\ UNCHANGED resolved
  /\ UNCHANGED <<app, queue, order, called, held, wire, open, work>>

\* The connect() of getClient(), or the factory of the options, ends.
Connects(i) ==
  /\ phase = "providers" /\ i \in started \ resolved
  /\ \/ resolved' = resolved \cup {i} /\ UNCHANGED <<phase, wrong>>
     \/ Fails("rejected") /\ UNCHANGED resolved
  /\ UNCHANGED <<app, created, started, queue, order, called, held, wire, open, work>>

\* PluginRegistryService.onModuleInit(): the plugins are sorted, in rounds of their own here.
Boots ==
  /\ phase = "providers" /\ resolved = DOMAIN Providers
  /\ IF Missing THEN Fails("missing") /\ UNCHANGED queue
     ELSE Starts("sort") /\ queue' = SortSeq(Free, <)
  /\ UNCHANGED <<app, created, started, resolved, order, called, held, wire, open, work>>

Round ==
  /\ phase = "sort" /\ queue # <<>>
  /\ queue' = Tail(queue) \o Ordered(Freed(Head(queue))) /\ order' = Append(order, Head(queue))
  /\ UNCHANGED <<app, phase, boot, called, held, wire, open, work>>

AllSorted ==
  /\ phase = "sort" /\ queue = <<>>
  /\ IF Len(order) # Len(Plugins) THEN Fails("circular") ELSE Starts("register")
  /\ UNCHANGED <<app, created, started, resolved, queue, order, called, held, wire, open, work>>

\* The next hook of a phase is called and awaited; what it throws ends bootstrap or close().
Calls(hook) == Len(SelectSeq(called, LAMBDA c : c[1] = hook))
TurnInOrder(hook) == Calls(hook) + 1
Turn(hook) == IF hook = "destroy" THEN Len(order) - Calls(hook) ELSE Calls(hook) + 1
Hook(hook) ==
  /\ phase = hook /\ Calls(hook) < Len(order)
  /\ called' = Append(called, <<hook, order[Turn(hook)]>>)
  /\ UNCHANGED <<app, phase, boot, queue, order, held, wire, open, work>>
Throws(hook) ==
  /\ phase = hook /\ Calls(hook) > 0 /\ Fails(hook)
  /\ UNCHANGED <<app, created, started, resolved, queue, order, called, held, wire, open, work>>
Registered ==
  /\ phase = "register" /\ Calls("register") = Len(order) /\ Starts("init")
  /\ UNCHANGED <<app, created, started, resolved, queue, order, called, held, wire, open, work>>
Initialised ==
  /\ phase = "init" /\ Calls("init") = Len(order) /\ Starts("running")
  /\ UNCHANGED <<app, created, started, resolved, queue, order, called, held, wire, open, work>>

--------------------------------------------------------------------------------
Acquire(l) ==
  /\ phase = "running" /\ l \notin held /\ held' = held \cup {l}
  /\ UNCHANGED <<app, phase, boot, queue, order, called, wire, open, work>>

Release(l) ==
  /\ phase = "running" /\ l \in held /\ held' = held \ {l}
  /\ UNCHANGED <<app, phase, boot, queue, order, called, wire, open, work>>

Take ==
  /\ phase = "running" /\ work = "none" /\ work' = "handling"
  /\ UNCHANGED <<app, phase, boot, queue, order, called, held, wire, open>>
Handled ==
  /\ phase # "stopped" /\ work = "handling" /\ work' = "handled"
  /\ UNCHANGED <<app, phase, boot, queue, order, called, held, wire, open>>
\* The acknowledgement is a command, and fails once the connection is closed.
Acked ==
  /\ phase # "stopped" /\ work = "handled" /\ work' = IF open THEN "acked" ELSE "left"
  /\ UNCHANGED <<app, phase, boot, queue, order, called, held, wire, open>>

\* onModuleDestroy() of the manager, of LockService and of RedisService: QUIT, the releases of
\* all active locks, QUIT again. The registry's hook begins as well.
Shutdown ==
  /\ phase = "running" /\ Starts("destroy")
  /\ wire' = <<"quit">> \o SetToSeq(held) \o <<"quit">>
  /\ UNCHANGED <<app, created, started, resolved, queue, order, called, held, open, work>>

Executes ==
  /\ wire # <<>> /\ phase \in {"destroy", "failed"} /\ wire' = Tail(wire)
  /\ open' = (open /\ Head(wire) # "quit")
  /\ held' = IF open THEN held \ {Head(wire)} ELSE held
  /\ UNCHANGED <<app, phase, boot, queue, order, called, work>>

\* All of them ended: StreamConsumerService.onApplicationShutdown().
Destroyed ==
  /\ phase = "destroy" /\ wire = <<>> /\ Calls("destroy") = Len(order) /\ Starts("drain")
  /\ UNCHANGED <<app, created, started, resolved, queue, order, called, held, wire, open, work>>

\* stop() waits for what is handled, until its timeout.
UntilIdle == work \notin {"handling", "handled"}
Timely == TRUE
Drained ==
  /\ phase = "drain" /\ Timely /\ Starts("stopped")
  /\ UNCHANGED <<app, created, started, resolved, queue, order, called, held, wire, open, work>>

Next ==
  \/ \E i \in DOMAIN Providers : Factory(i) \/ Connects(i)
  \/ Boots \/ Round \/ AllSorted \/ Registered \/ Initialised
  \/ \E hook \in {"register", "init", "destroy"} : Hook(hook) \/ Throws(hook)
  \/ \E l \in Lock : Acquire(l) \/ Release(l)
  \/ Take \/ Handled \/ Acked
  \/ Shutdown \/ Executes \/ Destroyed \/ Drained

Spec == Init /\ [][Next]_vars

\* Hooks, connections and Redis answer; the handler of a message may never end.
Fairness ==
  /\ WF_vars(\E i \in DOMAIN Providers : Factory(i) \/ Connects(i))
  /\ WF_vars(Boots \/ Round \/ AllSorted) /\ WF_vars(Registered) /\ WF_vars(Initialised) /\ WF_vars(Destroyed) /\ WF_vars(Drained)
  /\ WF_vars(\E hook \in {"register", "init", "destroy"} : Hook(hook)) /\ WF_vars(Executes)

--------------------------------------------------------------------------------
\* No factory asks for a client before its provider created it: the application never fails to
\* start for a client that the configuration names, and starts to use none that it does not
\* (REDIS_CLIENTS_INITIALIZATION, redis.providers.ts:202-210).
ConfiguredClientsFound ==
  /\ wrong = "not found" => ~({Default, app.uses} \subseteq Range(app.clients))
  /\ resolved = DOMAIN Providers => {Default, app.uses} \subseteq created

\* The hooks of plugins with distinct names: each is called once; onRegister() of all of them
\* before the first onModuleInit(); a plugin's dependencies are initialised before it and
\* destroyed after it. The registry refuses a set of plugins only if a dependency is not
\* registered, or if some of them all depend on each other.
Distinct == Cardinality(Names) = Len(Plugins)
Before(a, b) == \A i, j \in DOMAIN called : called[i] = a /\ called[j] = b => i < j
Needs(p, d) == Plugins[d].name \in Plugins[p].deps
HooksOrdered ==
  Distinct =>
    /\ \A i, j \in DOMAIN called : called[i] = called[j] => i = j
    /\ \A p, d \in DOMAIN Plugins :
         /\ Before(<<"register", p>>, <<"init", d>>)
         /\ Needs(p, d) => Before(<<"init", d>>, <<"init", p>>) /\ Before(<<"destroy", p>>, <<"destroy", d>>)
    /\ phase = "running" => Len(called) = 2 * Len(Plugins)
    /\ wrong = "circular" => \E s \in SUBSET DOMAIN Plugins : s # {} /\ \A p \in s : \E d \in s : Needs(p, d)
    /\ phase = "running" => ~\E s \in SUBSET DOMAIN Plugins : s # {} /\ \A p \in s : \E d \in s : Needs(p, d)

\* "releases all active locks on shutdown" (lock.service.ts:55), "Automatic lock release on
\* application termination" (docs, locks/index.md:27): an application that stopped holds none.
LocksReleasedAtShutdown == phase = "stopped" => held = {}

\* close() ends, whatever the handlers of messages do, unless a plugin's hook never does
\* (consumer-instance.ts:89-119).
AppStops == (phase = "destroy") ~> (phase \in {"stopped", "failed"})
================================================================================
