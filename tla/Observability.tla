------------------------------ MODULE Observability ------------------------------
(* MetricsService and TracingService of an application whose modules are created and closed  *)
(* again: the metrics in a Prometheus registry that the application may own, the hook around *)
(* the commands of every client with the spans it opens, and the gauge of LockService.       *)
EXTENDS Integers, FiniteSets

CONSTANTS
  MetricName,        \* the standard metrics beside locks_active
  ProcessName,       \* the default metrics of prom-client about the process
  RedisClient, RedisCommand, Mutex,
  MaxStarts, MaxGauge   \* BOUNDS: how often the module is created, and of the gauge

Gauge == "locks_active"
Redisx == "redisx_"
Prefixes == {Redisx, "app_"}
Metric == Prefixes \X (MetricName \cup {Gauge} \cup ProcessName)

VARIABLES
  config,        \* [registry : "own" or "external", collects : collectDefaultMetrics, or "unset", prefix,
                 \*  force : traceRedisCommands = 'force']
  life,          \* "off", "on", "closed" or "failed"
  starts,
  registry,      \* each metric of the registry: "absent", "app", "plugin" or "process"
  known,         \* counters, histograms and gauges of MetricsService
  apps,          \* history: the metrics that the application registered itself
  layers,        \* how many hooks are around executeCommand(), -1 for a client that does not exist
  instrumented,  \* whether an external instrumentation is active
  command,       \* each command: [pc, of, open : its spans that have not ended, ended, external, due]
  held, gauge    \* the locks held, and the value of locks_active

metrics == <<registry, known, apps>>
spans == <<layers, instrumented, command>>
locks == <<held, gauge>>
observedVars == <<config, life, starts, metrics, spans, locks>>

Idle == [pc |-> "idle", of |-> "none", open |-> 0, ended |-> 0, external |-> FALSE, due |-> FALSE]
ObservedInit ==
  /\ config \in [registry : {"own", "external"}, collects : {"unset", "on", "off"}, prefix : Prefixes, force : BOOLEAN]
  /\ life = "off" /\ starts = 0
  /\ registry = [m \in Metric |-> "absent"] /\ known = {} /\ apps = {}
  /\ layers = [k \in RedisClient |-> -1] /\ instrumented = FALSE /\ command = [c \in RedisCommand |-> Idle]
  /\ held = {} /\ gauge = 0

--------------------------------------------------------------------------------
(* MetricsService                                                                          *)
Standard == {<<config.prefix, n>> : n \in MetricName \cup {Gauge}}
Process == {<<config.prefix, n>> : n \in ProcessName}
Taken(m) == registry[m] # "absent"

\* The application's own metrics, in the registry it passed.
AppRegisters(m) ==
  /\ config.registry = "external" /\ ~Taken(m)
  /\ registry' = [registry EXCEPT ![m] = "app"] /\ apps' = apps \cup {m}
  /\ UNCHANGED <<config, life, starts, known, spans, locks>>

\* In a registry of its own the service has the default metrics collected unless told not to,
\* in that of the application only when told to.
Collects == config.collects = "on" \/ (config.collects = "unset" /\ config.registry = "own")
Wanted == Standard \cup IF Collects THEN Process ELSE {}

\* The standard metrics are registered one by one and then the default ones, which the service
\* does not know; both fail at the first name that is taken and leave the metrics before it.
Registered(before) ==
  /\ known' = before \cap Standard
  /\ registry' = [m \in Metric |-> IF m \in before \cap Standard THEN "plugin" ELSE IF m \in before THEN "process" ELSE registry[m]]
  /\ UNCHANGED apps
UpToTaken(before) ==
  /\ \A m \in before : ~Taken(m)
  /\ before \subseteq Standard \/ (Standard \subseteq before /\ before \subseteq Wanted)
StartModule ==
  /\ life \in {"off", "closed", "failed"} /\ starts < MaxStarts /\ starts' = starts + 1
  /\ IF \E m \in Wanted : Taken(m)
     THEN life' = "failed" /\ \E before \in SUBSET Wanted : UpToTaken(before) /\ Registered(before)
     ELSE life' = "on" /\ Registered(Wanted)
  /\ layers' = [k \in RedisClient |-> -1] /\ command' = [c \in RedisCommand |-> Idle] /\ held' = {} /\ gauge' = 0
  /\ UNCHANGED <<config, instrumented>>

\* onModuleDestroy(): what is known, of a registry that is not the service's own.
RemovedButGauges == IF config.registry = "own" THEN Metric ELSE known \ {<<config.prefix, Gauge>>}
Removed == IF config.registry = "own" THEN Metric ELSE known
CloseModule ==
  /\ life = "on" /\ life' = "closed"
  /\ registry' = [m \in Metric |-> IF m \in Removed THEN "absent" ELSE registry[m]] /\ known' = {}
  /\ layers' = [k \in RedisClient |-> IF layers[k] = -1 THEN -1 ELSE 0]
  /\ UNCHANGED <<config, starts, apps, instrumented, command, locks>>

\* registerCounter() of the application.
Registers(m) ==
  /\ life = "on" /\ ~Taken(m)
  /\ registry' = [registry EXCEPT ![m] = "plugin"] /\ known' = known \cup {m}
  /\ UNCHANGED <<config, life, starts, apps, spans, locks>>

\* The plugins name their metrics with the default prefix, whatever the option says.
Adds(n) == gauge' = IF <<Redisx, Gauge>> \in known THEN gauge + n ELSE gauge

--------------------------------------------------------------------------------
(* TracingService and the hook of the clients                                              *)
Hooked == life = "on"
CreatedUnhooked(k) == 0
Created(k) == IF Hooked THEN 1 ELSE 0
CreateClient(k) ==
  /\ life = "on" /\ layers[k] = -1 /\ layers' = [layers EXCEPT ![k] = Created(k)]
  /\ UNCHANGED <<config, life, starts, metrics, instrumented, command, locks>>

\* setCommandHook() of somebody else replaces the hook; TracingService sets its own again.
WrappedTwice(k) == layers[k] + 1
Wrapped(k) == 1
Rehook ==
  /\ life = "on" /\ layers' = [k \in RedisClient |-> IF layers[k] = -1 THEN -1 ELSE Wrapped(k)]
  /\ UNCHANGED <<config, life, starts, metrics, instrumented, command, locks>>

Toggle ==
  /\ instrumented' = ~instrumented
  /\ UNCHANGED <<config, life, starts, metrics, layers, command, locks>>

\* traceCommand() looks for an external instrumentation at every command, and startSpan() may
\* sample it out or find it excluded.
OpensSpans(k, skipped) == IF skipped \/ (instrumented /\ ~config.force) THEN 0 ELSE layers[k]
Send(c, k) ==
  /\ command[c].pc # "sent" /\ layers[k] # -1
  /\ \E skipped \in BOOLEAN :
       command' = [command EXCEPT ![c] = [pc |-> "sent", of |-> k, open |-> OpensSpans(k, skipped), ended |-> 0, external |-> instrumented,
                                    due |-> Hooked /\ ~skipped /\ (config.force \/ ~instrumented)]]
  /\ UNCHANGED <<config, life, starts, metrics, layers, instrumented, locks>>

\* The span ends with a status when the command is answered, fails or throws.
Answered(c) ==
  /\ command[c].pc = "sent"
  /\ command' = [command EXCEPT ![c].pc = "done", ![c].open = 0, ![c].ended = command[c].open]
  /\ UNCHANGED <<config, life, starts, metrics, layers, instrumented, locks>>

--------------------------------------------------------------------------------
(* LockService                                                                             *)
LockAcquired(l) ==
  /\ life = "on" /\ l \notin held /\ gauge < MaxGauge /\ held' = held \cup {l} /\ Adds(1)
  /\ UNCHANGED <<config, life, starts, metrics, spans>>

\* withLock() counts before it releases; release() of a caller does not count.
LockReleased(l, within) ==
  /\ life = "on" /\ l \in held /\ held' = held \ {l}
  /\ IF within THEN Adds(-1) ELSE UNCHANGED gauge
  /\ UNCHANGED <<config, life, starts, metrics, spans>>

ObservedNext ==
  \/ StartModule \/ CloseModule \/ Rehook \/ Toggle
  \/ \E m \in Metric : AppRegisters(m) \/ Registers(m)
  \/ \E k \in RedisClient : CreateClient(k) \/ (\E c \in RedisCommand : Send(c, k))
  \/ \E c \in RedisCommand : Answered(c)
  \/ \E l \in Mutex : LockAcquired(l) \/ (\E within \in BOOLEAN : LockReleased(l, within))

ObservedSpec == ObservedInit /\ [][ObservedNext]_observedVars

--------------------------------------------------------------------------------
\* A command sent through any client while the service is up has one span, which ends with it,
\* and none next to the span of an active external instrumentation unless both are asked for
\* (tracing.service.ts:272-276 and 351-355). Later ones have none.
TracedOnce ==
  \A c \in RedisCommand :
    LET due == IF command[c].due THEN 1 ELSE 0 IN
    /\ command[c].pc = "sent" => command[c].open = due
    /\ command[c].pc = "done" => command[c].open = 0 /\ command[c].ended = due
    /\ command[c].external /\ command[c].open > 0 => config.force

\* In a registry of the application the service "plays a guest, not an owner"
\* (website/en/reference/metrics/configuration.md:119): it never removes the application's metrics,
\* and closed it leaves none that it registered. Of what it had prom-client register it leaves
\* the default metrics, which it was told to collect; so only these or a name that the application
\* took keep the module from starting again, and a start that fails knows what it registered.
GuestLeaves ==
  /\ \A m \in apps : registry[m] = "app"
  /\ \A m \in known : registry[m] = "plugin"
  /\ life \in {"off", "closed"} => \A m \in Metric : registry[m] # "plugin"
  /\ \A m \in Metric : registry[m] = "process" => m \in Process /\ Collects /\ (config.registry = "own" => life = "on")
  /\ life = "failed" => \/ \E m \in Wanted : registry[m] = "app"
                        \/ starts > 1 /\ \E m \in Process : registry[m] = "process"

\* "On shutdown it removes only its OWN metrics" (metrics/configuration.md:121): none of them stays,
\* and the module can be created again unless the application took a name.
RemovesItsOwn ==
  /\ life = "closed" => \A m \in Metric : registry[m] \in {"absent", "app"}
  /\ life = "failed" => \E m \in Wanted : registry[m] = "app"

\* Both: commands are traced once, and a closed module leaves none of the metrics it registered.
Observed == TracedOnce /\ GuestLeaves

\* locks_active is the "Number of currently held locks" (metrics.service.ts:122).
GaugeCountsHeld == life = "on" => gauge = Cardinality(held)
================================================================================
