--------------------------- MODULE PluginOptions ---------------------------
(* How the options of a plugin travel from the application to the services:
   given to the constructor or by the factory of registerAsync(), filled in
   and checked by mergeDefaults(), next to what the plugin decides earlier,
   when it is constructed and its providers are listed: which implementations
   the cache is wired to, the exception filter, the metrics controller.
   A nested group of options is named by one of its members, and the values
   are "set" (by the user), "default", "undefined" (present but undefined,
   what a configuration service returns for an unknown name), "bad" (refused
   where it is checked) and "off": false for a flag, "amqp" for the source of
   invalidation events, the process' registry's "no" for default metrics. *)
EXTENDS Naturals, FiniteSets, Sequences
CONSTANTS Client,    \* names of the clients of RedisModule
          MaxGiven   \* bound on the options given at once

VARIABLES plugin,    \* its name
          way,       \* "sync" (the constructor) or "async" (registerAsync)
          given,     \* the options the user gives, a function
          mode,      \* of a cache: the mode beside useFactory, or of the constructor
          phase,     \* "new", "wired", "resolved", "started" or "failed"
          wired,     \* what was decided when the providers were listed
          options,   \* what the services are given
          clients    \* the clients of the plugin's drivers, in their order
vars == <<plugin, way, given, mode, phase, wired, options, clients>>

Option(flat, groups, passed, dropped, checked) ==
  [flat |-> flat, groups |-> groups, passed |-> passed, dropped |-> dropped, checked |-> checked]

Cache == Option({}, {"l1", "l2.enabled", "stampede", "swr", "staleIfError", "tags", "warmup", "keys", "source"},
                {"client"}, {"contextProvider", "contextKeys"}, {"staleIfError"})
Locks == Option({"defaultTtl", "maxTtl", "keyPrefix"}, {"retry", "autoRenew"}, {"client"}, {}, {})
Idempotency == Option({"defaultTtl", "keyPrefix", "headerName", "lockTimeout", "waitTimeout", "validateFingerprint",
                       "fingerprintFields", "errorPolicy"}, {}, {"client", "fingerprintGenerator"}, {},
                      {"defaultTtl", "lockTimeout", "waitTimeout"})
RateLimit == Option({"defaultAlgorithm", "defaultPoints", "keyPrefix", "defaultKeyExtractor", "includeHeaders",
                     "errorPolicy", "trustProxy", "registerExceptionFilter"}, {"headers"},
                    {"client", "skip", "errorFactory"}, {}, {})
Breaker == Option({"keyPrefix", "failureThreshold", "windowMs", "openDurationMs", "halfOpenMaxCalls",
                   "successThreshold", "probeTimeoutMs", "errorPolicy"}, {}, {"client", "errorFactory"}, {},
                  {"failureThreshold", "windowMs", "openDurationMs", "halfOpenMaxCalls", "successThreshold",
                   "probeTimeoutMs"})
Streams == Option({"shutdownTimeoutMs", "keyPrefix"}, {"consumer", "producer", "dlq", "retry", "trim"},
                  {"client"}, {}, {})
PubSub == Option({"channelPrefix"}, {}, {"client"}, {}, {})
Tracing == Option({"enabled", "provider", "traceRedisCommands", "sampling", "spans", "pluginTracing"}, {},
                  {"exporter", "resourceAttributes"}, {}, {})
Metrics == Option({"enabled", "registry", "prefix", "exposeEndpoint", "endpoint", "collectDefaultMetrics",
                   "commandMetrics", "pluginMetrics"}, {}, {"defaultLabels"}, {}, {})

Plugins == [cache |-> Cache, locks |-> Locks, idempotency |-> Idempotency, rateLimit |-> RateLimit,
            breaker |-> Breaker, streams |-> Streams, pubsub |-> PubSub, tracing |-> Tracing, metrics |-> Metrics]
Kept(p) == Plugins[p].flat \union Plugins[p].groups \union Plugins[p].passed
Known(p) == Kept(p) \union Plugins[p].dropped
Modes == {"l1-l2", "l1-only"}
Unset == [o \in {} |-> "default"]
Flags == {"registerExceptionFilter", "exposeEndpoint", "l2.enabled", "source"}
Values(o) == IF o = "client" THEN Client \union {"missing", "undefined"}
             ELSE IF o \in Flags THEN {"off", "undefined"} ELSE {"set", "undefined", "bad"}

\* --------------------------------------------------------------- merging
(* `??` replaces an option that is missing or undefined, `...` one that is
   missing only; what is passed on has no default. *)
Base(p, o, g) == CASE o = "probeTimeoutMs" /\ "openDurationMs" \in DOMAIN g /\ g["openDurationMs"] # "undefined"
                        -> g["openDurationMs"]
                   [] o = "collectDefaultMetrics" /\ "registry" \in DOMAIN g /\ g["registry"] # "undefined" -> "off"
                   [] o \in Plugins[p].passed -> "undefined"
                   [] OTHER -> "default"
Merged(p, g) ==
  [o \in Kept(p) |-> IF o \notin DOMAIN g \/ (g[o] = "undefined" /\ o \in Plugins[p].flat) THEN Base(p, o, g) ELSE g[o]]

RefusedMode(g, m) == /\ m = "l1-only"
                     /\ \/ "client" \in DOMAIN g /\ g["client"] # "undefined"
                        \/ \E o \in {"l2.enabled", "source"} \intersect DOMAIN g : g[o] = "off"
Refused(p, g, m) == \/ \E o \in Plugins[p].checked : Merged(p, g)[o] = "bad"
                    \/ p = "cache" /\ RefusedMode(g, m)

\* --------------------------------------------------------------- steps
Init == /\ plugin \in DOMAIN Plugins /\ way \in {"sync", "async"}
        /\ \E D \in SUBSET Known(plugin) : Cardinality(D) <= MaxGiven
             /\ given \in [D -> UNION {Values(o) : o \in Known(plugin)}]
             /\ \A o \in D : given[o] \in Values(o)
        /\ mode \in IF plugin = "cache" THEN Modes \union {"unset"} ELSE {"unset"}
        /\ phase = "new" /\ clients = <<>> /\ options = [merged |-> Unset, mode |-> "unset"]
        /\ wired = [mode |-> "unset", filter |-> FALSE, endpoint |-> FALSE]

ResolvedMode == IF mode = "unset" THEN "l1-l2" ELSE mode
Constructed == IF way = "sync" THEN given ELSE Unset    \* registerAsync() leaves the constructor's options empty
TurnedOff(o) == o \in DOMAIN Constructed /\ Constructed[o] = "off"

\* getProviders() and getControllers(), before any factory runs
Wire == /\ phase = "new"
        /\ wired' = [mode |-> IF plugin = "cache" THEN ResolvedMode ELSE "l1-l2",
                     filter |-> plugin = "idempotency" \/ (plugin = "rateLimit" /\ ~TurnedOff("registerExceptionFilter")),
                     endpoint |-> plugin = "metrics" /\ ~TurnedOff("exposeEndpoint")]
        /\ phase' = "wired"
        /\ UNCHANGED <<plugin, way, given, mode, options, clients>>

\* the factory of an asynchronous cache may name a mode of its own
ResolvesTo(factoryMode) ==
  LET m == ResolvedMode IN
  IF Refused(plugin, given, m) \/ factoryMode \notin {"unset", m}
  THEN phase' = "failed" /\ UNCHANGED options
  ELSE phase' = "resolved" /\ options' = [merged |-> Merged(plugin, given), mode |-> m]
Resolve == /\ phase = "wired"
           /\ \E m \in IF plugin = "cache" /\ way = "async" THEN Modes \union {"unset"} ELSE {"unset"} : ResolvesTo(m)
           /\ UNCHANGED <<plugin, way, given, mode, wired, clients>>

\* the factories of the plugin's drivers: none without Redis, two for pub/sub
ClientName == IF options.merged["client"] = "undefined" THEN "default" ELSE options.merged["client"]
Drivers == CASE plugin \in {"tracing", "metrics"} \/ wired.mode = "l1-only" -> <<>>
             [] plugin = "pubsub" -> <<ClientName, <<ClientName, "subscriber">>>>
             [] OTHER -> <<ClientName>>
Connect == /\ phase = "resolved"
           /\ IF Drivers # <<>> /\ ClientName \notin Client
              THEN phase' = "failed" /\ UNCHANGED clients
              ELSE phase' = "started" /\ clients' = Drivers
           /\ UNCHANGED <<plugin, way, given, mode, wired, options>>

Next == Wire \/ Resolve \/ Connect
Spec == Init /\ [][Next]_vars

\* --------------------------------------------------------------- properties
(* What was wired before the options were known agrees with the options the
   services are given, and no service is given a value that mergeDefaults()
   checks: a cache without Redis has no client, a synchronous plugin has the
   filter or the endpoint that its options say, and a plugin with a client
   uses the one its user named. *)
WiringAgrees ==
  phase = "started" =>
    /\ \A o \in Plugins[plugin].checked : options.merged[o] # "bad"
    /\ plugin = "cache" => wired.mode = options.mode
    /\ options.mode = "l1-only" => /\ clients = <<>> /\ options.merged["source"] # "off"
                                   /\ options.merged["client"] = "undefined"
    /\ way = "sync" /\ plugin = "rateLimit" => (wired.filter <=> options.merged["registerExceptionFilter"] # "off")
    /\ way = "sync" /\ plugin = "metrics" => (wired.endpoint <=> options.merged["exposeEndpoint"] # "off")
    /\ clients # <<>> /\ "client" \in DOMAIN given /\ given["client"] # "undefined" => clients[1] = given["client"]

(* Every value the user gives reaches the services: what the documentation of
   each option supposes. *)
OptionsArrive ==
  phase = "started" => \A o \in DOMAIN given : given[o] # "undefined" =>
                         /\ o \in DOMAIN options.merged
                         /\ options.merged[o] = given[o]
=============================================================================
