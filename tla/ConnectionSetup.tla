------------------------------ MODULE ConnectionSetup ------------------------------
(* What becomes of the configuration of a connection: createDriver() expands its URL and      *)
(* chooses a driver, and the adapter turns it into the options of its client library. Fields  *)
(* that an adapter passes on unchanged keep their names; converted ones get the library's.    *)
EXTENDS FiniteSets, TLC

CONSTANTS
  Custom,   \* driver types that are not built in
  None

VARIABLES
  config,      \* [type, given : what is named, with its value, url, tls, sentinelTls]
  registered,  \* types of registerDriver()
  driver,      \* the type that was asked for last, or None
  client       \* the options the library got, an error, or None

vars == <<config, registered, driver, client>>

BuiltIn == {"ioredis", "node-redis"}

--------------------------------------------------------------------------------
(* The plain fields that each type of connection declares, with the default that is named     *)
(* for it, and those that each adapter passes on unchanged, with the default it takes.        *)

DeclaredForAll ==
  [username |-> "none", password |-> "none", db |-> "0", keyPrefix |-> "none", connectTimeout |-> "10000", commandTimeout |-> "5000",
   keepAlive |-> "0", enableOfflineQueue |-> "on", enableAutoReconnect |-> "on", maxRetriesPerRequest |-> "3",
   retryStrategy |-> "none", reconnectOnError |-> "none"]
DeclaredForSingle == [host |-> "localhost", port |-> "6379"]
DeclaredForCluster ==
  [maxRedirections |-> "16", retryDelayOnClusterDown |-> "100", retryDelayOnFailover |-> "100", scaleReads |-> "master",
   enableReadyCheck |-> "off", natMap |-> "none"]
DeclaredForSentinels ==
  [sentinelPassword |-> "none", sentinelRetryStrategy |-> "none", preferredSlaves |-> "off", natMap |-> "none", masterPoolSize |-> "1",
   replicaPoolSize |-> "0", scanInterval |-> "10000", maxCommandRediscovers |-> "16"]

OfType(type, single, cluster, sentinels) ==
  CASE type = "single"                -> single
    [] type = "cluster"              -> cluster
    [] type = "sentinel"             -> sentinels
    [] OTHER                         -> <<>>
Declared(type) == DeclaredForAll @@ OfType(type, DeclaredForSingle, DeclaredForCluster, DeclaredForSentinels)

TakenByBoth ==
  [username |-> "none", password |-> "none", db |-> "0", keyPrefix |-> "none", connectTimeout |-> "10000", retryStrategy |-> "none"]
TakenByIoRedis(type) ==
  TakenByBoth @@ [commandTimeout |-> "5000", maxRetriesPerRequest |-> "3"]
    @@ OfType(type,
         [host |-> "localhost", port |-> "6379", keepAlive |-> "0", reconnectOnError |-> "none"],
         [enableReadyCheck |-> "off", maxRedirections |-> "16", retryDelayOnClusterDown |-> "100", retryDelayOnFailover |-> "100",
          scaleReads |-> "master", natMap |-> "none"],
         [sentinelRetryStrategy |-> "none", sentinelPassword |-> "none", natMap |-> "none"])
\* Without a strategy node-redis gets one of the adapter, which gives up.
TakenByNodeRedis(type) ==
  [retryStrategy |-> "ten attempts"] @@ TakenByBoth
    @@ OfType(type,
         [host |-> "localhost", port |-> "6379"],
         [maxRedirections |-> "16", natMap |-> "none"],
         [masterPoolSize |-> "1", replicaPoolSize |-> "0", scanInterval |-> "10000", maxCommandRediscovers |-> "16", sentinelPassword |-> "none"])

--------------------------------------------------------------------------------
\* A URL with a scheme other than redis and rediss, or a database that is no number, is refused.
UrlField == {"host", "port", "username", "password", "db"}
Url(named) == [valid : BOOLEAN, secure : BOOLEAN, has : SUBSET (named \cap UrlField)]
NoUrl == [valid |-> TRUE, secure |-> FALSE, has |-> {}]
Tls == {"absent", "options", "on", "off"}    \* "options": tls without `enabled`

\* What a field may be given, undefined among it.
Offers(f) ==
  {"undefined"} \cup CASE f \in {"enableOfflineQueue", "enableAutoReconnect"} -> {"on", "off"}
                       [] f = "scaleReads" -> {"master", "slave", "all"} [] OTHER -> {"config"}
Offered == {"undefined", "on", "off", "master", "slave", "all", "config"}

\* BOUND: the configuration and its URL name at most two of the fields, and TLS beside one.
Givens(fields) == {given \in [fields -> Offered] : \A f \in fields : given[f] \in Offers(f)}
ConfigsNaming(type, named) ==
  LET urls == IF type = "single" THEN {NoUrl} \cup Url(named) ELSE {NoUrl}
      tls  == IF Cardinality(named) = 2 THEN {"absent"} ELSE Tls
      all  == UNION {[type : {type}, given : Givens(fs), url : urls, tls : tls, sentinelTls : {FALSE, type = "sentinel"}] : fs \in SUBSET named}
  IN {c \in all : DOMAIN c.given \cup c.url.has = named}
Configs ==
  UNION {UNION {ConfigsNaming(type, {f, g}) : f, g \in DOMAIN Declared(type)} \cup ConfigsNaming(type, {})
           : type \in {"single", "cluster", "sentinel", "other"}}

\* The type "single" may be left out.
IsSingle(c) == c.type = "single"
Undefined(c) == {f \in DOMAIN c.given : c.given[f] = "undefined"}
Given(c) == DOMAIN c.given \ Undefined(c)

--------------------------------------------------------------------------------
\* normalizeConnectionConfig(): {...fromUrl, ...config}, and the same for tls. A field that is
\* undefined in the configuration hides that of the URL, and the adapter takes its default.
Value(c, f, default) ==
  CASE f \in Given(c)                    -> c.given[f]
    [] f \in c.url.has \ DOMAIN c.given  -> "url"
    [] OTHER                             -> default
Secured(c) == c.tls = "on" \/ (c.url.secure /\ c.tls # "off")

Options(c, taken, converted, tls, sentinelTls) ==
  [error |-> None, field |-> [f \in DOMAIN taken |-> Value(c, f, taken[f])] @@ converted, tls |-> tls, sentinelTls |-> sentinelTls]
Refuses(why) == [error |-> why, field |-> <<>>, tls |-> FALSE, sentinelTls |-> FALSE]

\* createSingleClient(), createClusterClient() and createSentinelClient() of the two adapters.
\* A cluster has no TLS; ioredis passes none on to the nodes behind sentinels, and to the
\* sentinels a flag that has no effect without it. clusterOptions are spread over the options
\* of ioredis, so that one that is undefined leaves the choice to the library.
Spread(c, taken) ==
  [f \in DOMAIN taken |-> IF f \in Undefined(c) \cap DOMAIN DeclaredForCluster THEN "library" ELSE taken[f]]
ReadyCheck(c) == [enableReadyCheck |-> Value(c, "enableAutoReconnect", "on")]
IoRedis(c) ==
  LET taken == TakenByIoRedis(c.type) IN
  CASE IsSingle(c)          -> Options(c, taken, ReadyCheck(c), Secured(c), FALSE)
    [] c.type = "cluster"   -> Options(c, Spread(c, taken), <<>>, FALSE, FALSE)
    [] c.type = "sentinel"  -> Options(c, taken, <<>>, FALSE, FALSE)
    [] OTHER                -> Refuses("unknown connection type")

QueueLengthFalsy(c) == [commandsQueueMaxLength |-> IF Value(c, "enableOfflineQueue", "off") = "off" THEN "0" ELSE "library"]
QueueLength(c) == [commandsQueueMaxLength |-> IF Value(c, "enableOfflineQueue", "on") = "off" THEN "0" ELSE "library"]
Replicas(c) == [useReplicas |-> IF Value(c, "scaleReads", "master") = "slave" THEN "on" ELSE "off"]
NodeRedis(c) ==
  LET taken == TakenByNodeRedis(c.type) IN
  CASE IsSingle(c)         -> Options(c, taken, QueueLength(c), Secured(c), FALSE)
    [] c.type = "cluster"  -> Options(c, taken, Replicas(c), FALSE, FALSE)
    [] c.type = "sentinel" -> Options(c, taken, <<>>, Secured(c), Secured(c) /\ c.sentinelTls)
    [] OTHER               -> Refuses("unknown connection type")

\* createDriver() and doConnect(); a registered driver gets the expanded configuration.
Client(d, c) ==
  CASE ~c.url.valid              -> Refuses("invalid url")
    [] d = "ioredis"             -> IoRedis(c)
    [] d = "node-redis"          -> NodeRedis(c)
    [] d \in registered          -> Options(c, [f \in DOMAIN Declared(c.type) |-> "none"], <<>>, Secured(c), c.sentinelTls)
    [] OTHER                     -> Refuses("unsupported driver")

--------------------------------------------------------------------------------
Init == config \in Configs /\ registered = {} /\ driver = None /\ client = None

\* registerDriver(): a built-in type is refused.
Register(d) == d \notin BuiltIn /\ registered' = registered \cup {d} /\ UNCHANGED <<config, driver, client>>

Create(d) == driver' = d /\ client' = Client(d, config) /\ UNCHANGED <<config, registered>>

Next == \E d \in Custom \cup BuiltIn : Register(d) \/ Create(d)
Spec == Init /\ [][Next]_vars

--------------------------------------------------------------------------------
\* "Drivers are interchangeable" (driver.factory.ts:55): both connect to the same place with the
\* same credentials, or both refuse, but for TLS behind sentinels and how long they retry. A URL
\* fills in exactly what the configuration leaves out, rediss:// gives TLS also when the
\* configuration only has options for it (parse-redis-url.ts:75), and TLS is never on when nobody asked for it.
Agree(one, other) ==
  \A f \in (DOMAIN one.field \cap DOMAIN other.field) \ (Undefined(config) \cup {"retryStrategy"}) : one.field[f] = other.field[f]
SameServer ==
  client # None /\ driver \in BuiltIn =>
    /\ \A d \in BuiltIn :
         LET other == Client(d, config)
         IN /\ other.error = client.error /\ Agree(other, client)
            /\ other.tls = client.tls \/ (config.type = "sentinel" /\ Secured(config))
    /\ client.error = None =>
         /\ \A f \in config.url.has \ Undefined(config) : client.field[f] = IF f \in Given(config) THEN "config" ELSE "url"
         /\ IsSingle(config) /\ (config.url.secure \/ config.tls = "on") /\ config.tls # "off" => client.tls
         /\ client.tls => config.url.secure \/ config.tls = "on"

\* What the interfaces declare and an adapter passes on to nobody. Of these the pools and natMap
\* behind sentinels are documented for the other driver only, preferredSlaves for ioredis, and
\* the rest for both.
Unread(d, type) ==
  IF d = "ioredis"
  THEN {"enableOfflineQueue"} \cup
       OfType(type, {}, {"keepAlive", "enableAutoReconnect", "reconnectOnError"},
         {"keepAlive", "enableAutoReconnect", "reconnectOnError", "preferredSlaves", "masterPoolSize", "replicaPoolSize", "scanInterval",
          "maxCommandRediscovers"})
  ELSE {"commandTimeout", "keepAlive", "enableAutoReconnect", "maxRetriesPerRequest", "reconnectOnError"} \cup
       OfType(type, {}, {"enableOfflineQueue", "retryDelayOnClusterDown", "retryDelayOnFailover", "enableReadyCheck"},
         {"enableOfflineQueue", "sentinelRetryStrategy", "preferredSlaves", "natMap"})
Converted(d, type) ==
  IF d = "ioredis" THEN OfType(type, {"enableAutoReconnect"}, {}, {}) ELSE OfType(type, {"enableOfflineQueue"}, {"scaleReads"}, {})

\* Of all options that are declared, what is asked for, in the configuration, its URL or by the
\* declared default, reaches the library, but for those of Unread. Three reach it as something else:
\* node-redis gets no offline queue when none is wanted, reads from replicas for "slave" (but
\* not for "all"), and ioredis takes enableAutoReconnect for a ready check.
OptionsAsDeclared ==
  client # None /\ driver \in BuiltIn /\ client.error = None =>
    LET declared == Declared(config.type)
        told     == client.field
        asked    == [f \in DOMAIN declared |-> IF f \in Given(config) THEN config.given[f] ELSE IF f \in config.url.has THEN "url" ELSE declared[f]]
        hidden   == Undefined(config) \cap (config.url.has \cup DOMAIN DeclaredForCluster)
        apart    == Unread(driver, config.type) \cup Converted(driver, config.type)
    IN /\ \A f \in DOMAIN declared \ (apart \cup hidden) : f \in DOMAIN told /\ (asked[f] # "none" => told[f] = asked[f])
       /\ DOMAIN told \cap apart = {}
       /\ "commandsQueueMaxLength" \in DOMAIN told => (told["commandsQueueMaxLength"] = "0" <=> asked["enableOfflineQueue"] = "off")
       /\ "useReplicas" \in DOMAIN told => (told["useReplicas"] = "on" <=> asked["scaleReads"] = "slave")
       /\ IsSingle(config) /\ driver = "ioredis" => told["enableReadyCheck"] = asked["enableAutoReconnect"]

\* "Common options work with both" (website/en/reference/core/connection-types.md:304): what a
\* configuration for sentinels asks for beside the options of one driver, and where a cluster reads.
CommonOptionsReach ==
  client # None /\ driver \in BuiltIn /\ client.error = None =>
    /\ config.type = "sentinel" =>
         Given(config) \cap {"commandTimeout", "maxRetriesPerRequest", "sentinelPassword", "sentinelRetryStrategy"} \subseteq DOMAIN client.field
    /\ "useReplicas" \in DOMAIN client.field => (client.field["useReplicas"] = "on" <=> Value(config, "scaleReads", "master") # "master")

\* "Use the top-level `tls` config for node connections. [...] Both drivers support this."
\* (website/en/reference/core/connection-types.md:354)
TlsBehindSentinels ==
  client # None /\ driver \in BuiltIn /\ config.type = "sentinel" /\ config.tls = "on" => client.tls
===================================================================================
