------------------------------- MODULE Failures -------------------------------
(* How errors travel: the classes of the packages, the catch blocks that an error passes  *)
(* between a driver, or a method of the application, and whoever called, and the answers  *)
(* of the HTTP filters. A behaviour is one failure on its way up one stack of calls.      *)
EXTENDS Naturals, Sequences, TLC

VARIABLES
  stack,    \* the catch blocks on the way, innermost first
  at,       \* the next one of them
  error,    \* what is thrown: the first error and those that wrap it (`cause`), outermost last
  origin,   \* what failed last
  answer    \* what the caller, or the client, gets instead of an error

vars == <<stack, at, error, origin, answer>>

--------------------------------------------------------------------------------
(* The codes. *)

CoreCodes == {
  "CONN_FAILED", "CONN_TIMEOUT", "CONN_DISCONNECTED", "CONN_REFUSED", "CONN_AUTH_FAILED", "CONN_TLS_ERROR", "CONN_CLUSTER_DOWN",
  "CONN_CLUSTER_MOVED", "CONN_CLUSTER_ASK", "CONN_CLUSTER_ERROR", "CONN_SENTINEL_FAILOVER", "CONN_SENTINEL_NO_MASTER",
  "CONN_SENTINEL_ERROR", "DRIVER_NOT_CONNECTED", "CONN_MAX_RETRIES", "CONN_POOL_EXHAUSTED",
  "OP_FAILED", "OP_TIMEOUT", "OP_KEY_NOT_FOUND", "OP_TYPE_MISMATCH", "OP_SCRIPT_ERROR", "OP_SCRIPT_TIMEOUT", "OP_TRANSACTION_FAILED",
  "OP_PIPELINE_FAILED", "OP_INVALID_ARGS", "OP_NOT_SUPPORTED", "OP_OUT_OF_MEMORY", "OP_NO_AUTH", "OP_WRONG_PASS", "OP_READONLY",
  "OP_BUSY_KEY", "OP_NOT_CONNECTED",
  "CFG_INVALID", "CFG_MISSING_REQUIRED", "CFG_INVALID_CONNECTION_TYPE", "CFG_INVALID_HOST_PORT", "CFG_INVALID_DB", "CFG_INVALID_TTL",
  "CFG_INVALID_TIMEOUT", "CFG_INVALID_RETRY", "CFG_VALIDATION_FAILED", "CFG_INCOMPATIBLE", "CFG_DRIVER_NOT_SUPPORTED",
  "CFG_INVALID_CLUSTER_NODES", "CFG_INVALID_SENTINEL", "CFG_INVALID_TLS"}
PackageCodes == {
  "CACHE_CONFIG_INVALID", "CACHE_KEY_INVALID", "CACHE_KEY_TOO_LONG", "CACHE_SERIALIZATION_FAILED", "CACHE_DESERIALIZATION_FAILED",
  "CACHE_TAG_INDEX_CORRUPTED", "CACHE_STAMPEDE_TIMEOUT", "CACHE_LOADER_FAILED", "CACHE_L1_ERROR", "CACHE_L2_ERROR", "CACHE_SET_FAILED",
  "CACHE_DELETE_FAILED", "CACHE_CLEAR_FAILED", "CACHE_OPERATION_FAILED", "CACHE_OPERATION_TIMEOUT", "CACHE_TAG_INVALIDATION_FAILED",
  "LOCK_ACQUISITION_FAILED", "LOCK_ACQUISITION_TIMEOUT", "LOCK_EXTENSION_FAILED", "LOCK_RELEASE_FAILED", "LOCK_NOT_OWNED",
  "LOCK_EXPIRED", "RATE_LIMIT_EXCEEDED", "RATE_LIMIT_SCRIPT_ERROR", "IDEMPOTENCY_KEY_INVALID", "IDEMPOTENCY_IN_PROGRESS",
  "IDEMPOTENCY_PREVIOUS_FAILED", "STREAM_CONSUMER_GROUP_ERROR", "STREAM_ACK_FAILED", "STREAM_READ_FAILED", "CIRCUIT_BREAKER_OPEN",
  "CIRCUIT_BREAKER_STORE_ERROR", "CIRCUIT_BREAKER_CONFIG_INVALID", "PUBSUB_PUBLISH_FAILED", "PUBSUB_SUBSCRIBE_FAILED",
  "PLUGIN_INVALID", "PLUGIN_DUPLICATE", "PLUGIN_NOT_FOUND", "PLUGIN_REGISTER_FAILED", "PLUGIN_INIT_FAILED",
  "PLUGIN_CIRCULAR_DEPENDENCY", "PLUGIN_DEPENDENCY_MISSING", "CLIENT_NOT_FOUND", "CLIENT_ALREADY_EXISTS", "NOT_INITIALIZED",
  "OPERATION_FAILED", "OPERATION_TIMEOUT", "SERIALIZATION_FAILED", "VALIDATION_FAILED", "UNKNOWN"}
IsErrorCode(code) == code \in CoreCodes \cup PackageCodes

--------------------------------------------------------------------------------
(* The classes, each with what it extends and the codes its constructors give it. *)

Extends(parent, codes) == [parent |-> parent, codes |-> codes]

ConnectionErrors ==
  [RedisConnectionError |-> Extends("RedisXError", {"CONN_FAILED"}),
   RedisTimeoutError |-> Extends("RedisConnectionError", {"CONN_TIMEOUT", "OP_TIMEOUT"}),
   RedisClusterError |-> Extends("RedisConnectionError",
     {"CONN_CLUSTER_DOWN", "CONN_CLUSTER_MOVED", "CONN_CLUSTER_ASK", "CONN_CLUSTER_ERROR"})]
EndpointErrors ==
  [RedisSentinelError |-> Extends("RedisConnectionError",
     {"CONN_SENTINEL_NO_MASTER", "CONN_SENTINEL_FAILOVER", "CONN_SENTINEL_ERROR"}),
   RedisAuthError |-> Extends("RedisConnectionError", {"CONN_AUTH_FAILED"}),
   RedisTLSError |-> Extends("RedisConnectionError", {"CONN_TLS_ERROR"}),
   RedisMaxRetriesError |-> Extends("RedisConnectionError", {"CONN_MAX_RETRIES"}),
   RedisPoolExhaustedError |-> Extends("RedisConnectionError", {"CONN_POOL_EXHAUSTED"})]
OperationErrors ==
  [RedisOperationError |-> Extends("RedisXError", {"OP_FAILED"}),
   RedisKeyNotFoundError |-> Extends("RedisOperationError", {"OP_KEY_NOT_FOUND"}),
   RedisTypeMismatchError |-> Extends("RedisOperationError", {"OP_TYPE_MISMATCH"}),
   RedisScriptError |-> Extends("RedisOperationError", {"OP_SCRIPT_ERROR"})]
CommandErrors ==
  [RedisTransactionError |-> Extends("RedisOperationError", {"OP_TRANSACTION_FAILED"}),
   RedisPipelineError |-> Extends("RedisOperationError", {"OP_PIPELINE_FAILED"}),
   RedisInvalidArgsError |-> Extends("RedisOperationError", {"OP_INVALID_ARGS"}),
   RedisOutOfMemoryError |-> Extends("RedisOperationError", {"OP_OUT_OF_MEMORY"}),
   RedisReadOnlyError |-> Extends("RedisOperationError", {"OP_READONLY"}),
   RedisNotSupportedError |-> Extends("RedisOperationError", {"OP_NOT_SUPPORTED"}),
   RedisNotConnectedError |-> Extends("RedisOperationError", {"OP_NOT_CONNECTED"})]
DriverErrors ==
  [DriverError |-> Extends("RedisConnectionError", {"DRIVER_NOT_CONNECTED"}),
   ConnectionError |-> Extends("RedisConnectionError", {"CONN_FAILED"}),
   TimeoutError |-> Extends("RedisTimeoutError", {"CONN_TIMEOUT", "OP_TIMEOUT"}),
   CommandError |-> Extends("RedisOperationError", {"OP_FAILED"})]
ConfigErrors ==
  [RedisConfigError |-> Extends("RedisXError",
     {"CFG_INVALID", "CFG_MISSING_REQUIRED", "CFG_INVALID_CONNECTION_TYPE", "CFG_INVALID_HOST_PORT", "CFG_INVALID_DB", "CFG_INVALID_TTL",
      "CFG_INVALID_TIMEOUT", "CFG_INVALID_RETRY", "CFG_INCOMPATIBLE", "CFG_DRIVER_NOT_SUPPORTED", "CFG_INVALID_CLUSTER_NODES",
      "CFG_INVALID_SENTINEL", "CFG_INVALID_TLS"}),
   RedisValidationError |-> Extends("RedisConfigError", {"CFG_VALIDATION_FAILED"})]

CacheErrors ==
  [CacheError |-> Extends("RedisXError", {"OPERATION_FAILED"}),
   CacheKeyError |-> Extends("CacheError", {"CACHE_KEY_INVALID"}),
   SerializationError |-> Extends("CacheError", {"SERIALIZATION_FAILED"}),
   LoaderError |-> Extends("CacheError", {"OPERATION_FAILED"}),
   StampedeError |-> Extends("CacheError", {"OPERATION_TIMEOUT"}),
   TagInvalidationError |-> Extends("CacheError", {"OPERATION_FAILED"}),
   CacheConfigError |-> Extends("CacheError", {"CACHE_CONFIG_INVALID"})]
LockErrors ==
  [LockAcquisitionError |-> Extends("LockError", {"LOCK_ACQUISITION_TIMEOUT", "LOCK_ACQUISITION_FAILED"}),
   LockNotOwnedError |-> Extends("LockError", {"LOCK_NOT_OWNED"}),
   LockExtensionError |-> Extends("LockError", {"LOCK_EXTENSION_FAILED"}),
   LockExpiredError |-> Extends("LockError", {"LOCK_EXPIRED"})]
IdempotencyErrors ==
  [IdempotencyKeyRequiredError |-> Extends("IdempotencyError", {"IDEMPOTENCY_KEY_INVALID"}),
   IdempotencyFingerprintMismatchError |-> Extends("IdempotencyError", {"IDEMPOTENCY_KEY_INVALID"}),
   IdempotencyTimeoutError |-> Extends("IdempotencyError", {"OP_TIMEOUT"}),
   IdempotencyFailedError |-> Extends("IdempotencyError", {"IDEMPOTENCY_PREVIOUS_FAILED"}),
   IdempotencyRecordNotFoundError |-> Extends("IdempotencyError", {"OP_KEY_NOT_FOUND"}),
   IdempotencyConfigError |-> Extends("IdempotencyError", {"CFG_INVALID"})]
RateLimitErrors ==
  [RateLimitExceededError |-> Extends("RateLimitError", {"RATE_LIMIT_EXCEEDED"}),
   RateLimitScriptError |-> Extends("RateLimitError", {"RATE_LIMIT_SCRIPT_ERROR"})]
BreakerErrors ==
  [CircuitBreakerOpenError |-> Extends("CircuitBreakerError", {"CIRCUIT_BREAKER_OPEN"}),
   CircuitBreakerStoreError |-> Extends("CircuitBreakerError", {"CIRCUIT_BREAKER_STORE_ERROR"}),
   InvalidCircuitBreakerConfigError |-> Extends("CircuitBreakerError", {"CIRCUIT_BREAKER_CONFIG_INVALID"})]
StreamErrors ==
  [StreamPublishError |-> Extends("StreamError", {"OP_FAILED"}),
   StreamConsumeError |-> Extends("StreamError", {"STREAM_READ_FAILED"}),
   StreamGroupError |-> Extends("StreamError", {"STREAM_CONSUMER_GROUP_ERROR"})]
PubSubErrors ==
  [PubSubPublishError |-> Extends("PubSubError", {"PUBSUB_PUBLISH_FAILED"}),
   PubSubSubscribeError |-> Extends("PubSubError", {"PUBSUB_SUBSCRIBE_FAILED"})]
MetricsErrors ==
  [MetricsError |-> Extends("RedisXError", {"OP_FAILED"}), MetricRegistrationError |-> Extends("MetricsError", {"OP_FAILED"})]
TracingErrors ==
  [TracingError |-> Extends("RedisXError", {"OP_FAILED"}),
   TracingInitializationError |-> Extends("TracingError", {"OP_FAILED"}),
   SpanCreationError |-> Extends("TracingError", {"OP_FAILED"})]

Classes ==
  ConnectionErrors @@ EndpointErrors @@ OperationErrors @@ CommandErrors @@ DriverErrors @@ ConfigErrors @@ CacheErrors @@ LockErrors
  @@ IdempotencyErrors @@ RateLimitErrors @@ BreakerErrors @@ StreamErrors @@ PubSubErrors @@ MetricsErrors @@ TracingErrors

\* The class and all it extends.
Line[class \in DOMAIN Classes] ==
  {class} \cup (LET parent == Classes[class].parent IN IF parent \in DOMAIN Classes THEN Line[parent] ELSE {parent, "RedisXError"})

--------------------------------------------------------------------------------
(* Errors. *)

\* An error with its class, its code, whether its text quotes that of its cause, what Redis says
\* in it, and whether it is the application's own.
Thrown(class, code) == [class |-> class, code |-> code, quotes |-> FALSE, says |-> "nothing", own |-> FALSE]
Plain == Thrown("Error", "none")
Reply(text) == [Plain EXCEPT !.says = text]
\* Of the application: any class the packages export, or none of them.
Own == {[Plain EXCEPT !.own = TRUE]}
       \cup UNION {{[Thrown(class, code) EXCEPT !.own = TRUE] : code \in Classes[class].codes} : class \in DOMAIN Classes}

Outer(e) == e[Len(e)]
IsA(e, class) == Outer(e).class \in DOMAIN Classes /\ class \in Line[Outer(e).class]
\* What `message` shows of the innermost error.
Says(e, text) == e[1].says = text /\ \A i \in 2..Len(e) : e[i].quotes

--------------------------------------------------------------------------------
(* The catch blocks. *)

\* One that wraps what it catches, but for classes it throws on as they are.
Catch(class, code) == [kind |-> "wrap", on |-> {}, class |-> class, code |-> code, quotes |-> TRUE]
But(block, classes) == [block EXCEPT !.on = classes]
Mute(block) == [block EXCEPT !.quotes = FALSE]
\* One that does something of its own.
Does(kind) == [kind |-> kind, on |-> {}, class |-> "none", code |-> "none", quotes |-> FALSE]

CommandSilent == Mute(Catch("CommandError", "OP_FAILED"))    \* mutant: the text leaves out the cause's
\* A command of a driver, and a connection.
Command == Catch("CommandError", "OP_FAILED")
Connect == Mute(But(Catch("ConnectionError", "CONN_FAILED"), {"ConnectionError"}))
\* EVALSHA, and the stores above it that know the text of their scripts.
Evalsha == Does("evalsha")
RateLimitStore == [Catch("RateLimitScriptError", "RATE_LIMIT_SCRIPT_ERROR") EXCEPT !.kind = "script"]
RunScript == Does("script")
BreakerStore == Catch("CircuitBreakerStoreError", "CIRCUIT_BREAKER_STORE_ERROR")
\* Redis as second tier: reads answer nothing, writes throw.
Read == Does("null")
L2Set == Catch("CacheError", "CACHE_SET_FAILED")
L2Delete == Catch("CacheError", "CACHE_DELETE_FAILED")
L2Clear == Catch("CacheError", "CACHE_CLEAR_FAILED")
L2Scan == Catch("CacheError", "CACHE_OPERATION_FAILED")
TagIndex == Catch("TagInvalidationError", "OPERATION_FAILED")
Serialize == Catch("SerializationError", "SERIALIZATION_FAILED")
\* The cache service.
CheckKey == Does("key")
CacheSet == But(L2Set, {"CacheKeyError", "CacheError"})
CacheSetMany == But(L2Set, {"CacheKeyError"})
CacheDelete == But(L2Delete, {"CacheKeyError"})
CacheClear == Catch("CacheError", "CACHE_CLEAR_FAILED")
ByPattern == Catch("CacheError", "CACHE_DELETE_FAILED")
InvalidateTag == But(Catch("CacheError", "CACHE_TAG_INVALIDATION_FAILED"), {"CacheError"})
InvalidateTags == Catch("CacheError", "CACHE_TAG_INVALIDATION_FAILED")
Load == But(Catch("LoaderError", "OPERATION_FAILED"), {"StampedeError"})
\* The other packages.
Publish == Mute(Catch("StreamPublishError", "OP_FAILED"))
CreateGroup == Does("group")
ChannelPublish == Catch("PubSubPublishError", "PUBSUB_PUBLISH_FAILED")
Subscribe == Catch("PubSubSubscribeError", "PUBSUB_SUBSCRIBE_FAILED")
Register == Mute(Catch("MetricRegistrationError", "OP_FAILED"))
Tracing == Mute(Catch("TracingInitializationError", "OP_FAILED"))
NoSdk == Does("null")    \* mode 'auto': tracing stays silent
\* RedisXError.wrap(), for applications.
WrapUnknown == But(Catch("GenericRedisXError", "UNKNOWN"), {"RedisXError"})

--------------------------------------------------------------------------------
(* What calls what. *)

Calls(from, blocks) == [from |-> from, blocks |-> blocks]
\* Redis refuses, or the command is rejected; or it is not sent at all.
Refused == {Plain, Reply("NOSCRIPT")}
Unsent == {Thrown("DriverError", "DRIVER_NOT_CONNECTED"), Thrown("ConnectionError", "CONN_FAILED")}
Commanded(blocks) == {Calls(Refused, <<Command>> \o blocks), Calls(Unsent, blocks)}
Scripted(blocks) == Commanded(<<Evalsha>> \o blocks)

IdempotencyFaults == {"IdempotencyKeyRequiredError", "IdempotencyFingerprintMismatchError", "IdempotencyTimeoutError",
                      "IdempotencyFailedError", "IdempotencyRecordNotFoundError"}
Faults(classes) == UNION {{Thrown(class, code) : code \in Classes[class].codes} : class \in classes}

CacheStacks ==
  Commanded(<<Read>>) \cup Commanded(<<L2Set, CacheSet>>) \cup Commanded(<<TagIndex, CacheSet>>)
  \cup Commanded(<<L2Delete, CacheDelete>>) \cup Commanded(<<L2Set, CacheSetMany>>) \cup Commanded(<<L2Clear, CacheClear>>)
  \cup Commanded(<<L2Scan, ByPattern>>) \cup Commanded(<<TagIndex, InvalidateTag>>) \cup Commanded(<<TagIndex, InvalidateTag, InvalidateTags>>)
  \cup {Calls({Plain}, <<Serialize, L2Set, CacheSet>>), Calls({Plain}, <<CheckKey, CacheSet>>)}
\* Of @Cached, with stampede protection and without, when the method fails and when the write does.
CachedStacks ==
  {Calls(Own, <<Load, Does("fallback"), Does("cached")>>), Calls(Own, <<Does("cached")>>),
   Calls({Thrown("StampedeError", "OPERATION_TIMEOUT")}, <<Does("fallback"), Does("cached")>>)}
  \cup Commanded(<<L2Set, CacheSet, Load, Does("fallback"), Does("cached")>>) \cup Commanded(<<L2Set, CacheSet, Does("cached")>>)
GuardStacks ==
  {Calls(Own \cup Faults({"LockAcquisitionError"}), <<Does("lock")>>)}
  \cup Commanded(<<Does("lock")>>) \cup Scripted(<<RunScript, BreakerStore, Does("breaker")>>)
HttpStacks ==
  Scripted(<<RateLimitStore, Does("limiter"), Does("limit filter")>>) \cup Scripted(<<Does("interceptor"), Does("idempotency filter")>>)
  \cup {Calls(Faults({"RateLimitExceededError"}), <<Does("limit filter")>>), Calls(Faults(IdempotencyFaults), <<Does("idempotency filter")>>)}
OtherStacks ==
  Commanded(<<Publish>>) \cup Commanded(<<ChannelPublish>>) \cup Commanded(<<Subscribe>>)
  \cup {Calls({Plain, Thrown("ConnectionError", "CONN_FAILED")}, <<Connect>>), Calls({Plain}, <<Register>>), Calls({Plain}, <<Tracing>>), Calls({Plain}, <<NoSdk>>),
        Calls({Plain, Reply("BUSYGROUP")}, <<Command, CreateGroup>>), Calls(Own, <<WrapUnknown>>)}
Stacks == CacheStacks \cup CachedStacks \cup GuardStacks \cup HttpStacks \cup OtherStacks

Init ==
  \E s \in Stacks : \E o \in s.from :
    stack = s.blocks /\ at = 1 /\ error = <<o>> /\ origin = o /\ answer = "none"

--------------------------------------------------------------------------------
(* On the way. *)

Here == stack[at]
Reaches(kind) == at <= Len(stack) /\ error # <<>> /\ Here.kind = kind
Over(block) == \E class \in block.on : IsA(error, class)
Wrapped(block) == Append(error, [Thrown(block.class, block.code) EXCEPT !.quotes = block.quotes])

Rises(e) == at' = at + 1 /\ error' = e /\ UNCHANGED <<stack, origin, answer>>
Answers(a) == at' = Len(stack) + 1 /\ error' = <<>> /\ answer' = a /\ UNCHANGED <<stack, origin>>
\* Something else is tried, and fails as well.
FailsAnew(o, e) == at' = at + 1 /\ origin' = o /\ error' = e /\ UNCHANGED <<stack, answer>>
RunsMethod == Answers("value") \/ \E o \in Own : FailsAnew(o, <<o>>)
RunsScript ==
  \/ Answers("value")
  \/ \E o \in Unsent : FailsAnew(o, <<o>>)
  \/ FailsAnew(Plain, Append(<<Plain>>, [Thrown("CommandError", "OP_FAILED") EXCEPT !.quotes = TRUE]))

Catches == Reaches("wrap") /\ Rises(IF Over(Here) THEN error ELSE Wrapped(Here))
Swallows == Reaches("null") /\ Answers("null")
\* validateAndNormalizeKey(): the text is kept, the error is not.
Normalizes ==
  Reaches("key") /\ Rises(IF IsA(error, "CacheKeyError") THEN error ELSE <<Thrown("CacheKeyError", "CACHE_KEY_INVALID")>>)
\* The driver knows the scripts that it has loaded.
EvalshaFails ==
  /\ Reaches("evalsha")
  /\ IF Says(error, "NOSCRIPT") THEN RunsScript \/ Rises(error) ELSE Rises(error)
StoreFails ==
  /\ Reaches("script")
  /\ IF Says(error, "NOSCRIPT") THEN RunsScript ELSE Rises(IF Here.class = "none" THEN error ELSE Wrapped(Here))
GroupExists ==
  Reaches("group") /\ IF Says(error, "BUSYGROUP") THEN Answers("value") ELSE Rises(error)
\* The policies of the rate limiter, and of who calls a store: fail-open goes on without it.
LimiterDecides == Reaches("limiter") /\ (Answers("allowed") \/ Rises(Wrapped(RateLimitStore)))
InterceptorDecides == Reaches("interceptor") /\ (RunsMethod \/ Rises(error))
BreakerDecides == Reaches("breaker") /\ (RunsMethod \/ Rises(error))
\* A flight that lasted too long: the method runs outside it, or null is the answer, or the error.
FallsBack ==
  /\ Reaches("fallback")
  /\ IF IsA(error, "StampedeError") THEN RunsMethod \/ Answers("null") \/ Rises(error) ELSE Rises(error)
\* @Cached: the error of the method as the method threw it, which is marked; for one of the
\* cache the method runs again. An own LoaderError has a cause as well.
CachedThrows ==
  /\ Reaches("cached")
  /\ \/ IsA(error, "LoaderError") /\ Rises(IF Len(error) = 1 THEN <<[Plain EXCEPT !.own = TRUE]>> ELSE SubSeq(error, 1, Len(error) - 1))
     \/ ~IsA(error, "LoaderError") /\ Outer(error).own /\ Rises(error)
     \/ ~IsA(error, "LoaderError") /\ ~Outer(error).own /\ RunsMethod
\* @WithLock: onLockFailed is 'throw', 'skip' or a function that makes the error.
LockFails ==
  /\ Reaches("lock")
  /\ \/ Rises(error)
     \/ IsA(error, "LockAcquisitionError") /\ (Answers("undefined") \/ \E o \in Own : FailsAnew(o, <<o>>))

\* The filters; what they do not catch is Nest's.
IdempotencyStatus(e) ==
  CASE IsA(e, "IdempotencyKeyRequiredError") -> "400"
    [] IsA(e, "IdempotencyFingerprintMismatchError") -> "422"
    [] \E class \in {"IdempotencyTimeoutError", "IdempotencyFailedError", "IdempotencyRecordNotFoundError"} : IsA(e, class) -> "409"
    [] OTHER -> "500"
LimitStatus(e) == IF IsA(e, "RateLimitExceededError") THEN "429" ELSE "503"
IdempotencyFilter ==
  Reaches("idempotency filter") /\ IF IsA(error, "IdempotencyError") THEN Answers(IdempotencyStatus(error)) ELSE Rises(error)
RateLimitFilter ==
  Reaches("limit filter") /\ IF IsA(error, "RateLimitError") THEN Answers(LimitStatus(error)) ELSE Rises(error)

Next ==
  \/ Catches \/ Swallows \/ Normalizes \/ EvalshaFails \/ StoreFails \/ GroupExists
  \/ LimiterDecides \/ InterceptorDecides \/ BreakerDecides \/ FallsBack \/ CachedThrows \/ LockFails
  \/ IdempotencyFilter \/ RateLimitFilter

Spec == Init /\ [][Next]_vars

--------------------------------------------------------------------------------
(* Properties. *)

Done == at > Len(stack)
Through(kind) == \E i \in 1..Len(stack) : stack[i].kind = kind
\* An error leads back to what failed, whatever wrapped it. The check of a key drops its cause,
\* and @Cached without stampede protection takes an own LoaderError for one of its wrappers.
CauseKept ==
  error = <<>> \/ error[1] = origin \/ error[1].class = "CacheKeyError" \/ (origin.own /\ origin.class = "LoaderError")
\* Who looks for a word of Redis in a text finds it.
TextReaches ==
  (at <= Len(stack) /\ error # <<>> /\ Here.kind \in {"evalsha", "script", "group"}) => Says(error, error[1].says)
\* The decorators throw what the method threw; they take three classes of the packages for
\* failures of their own.
OwnErrorKept ==
  (Done /\ error # <<>> /\ (Through("cached") \/ Through("lock") \/ Through("breaker")) /\ origin.own)
  => error = <<origin>> \/ origin.class \in {"StampedeError", "LoaderError", "LockAcquisitionError"}
\* A rate limiter that cannot decide never makes Nest answer 500.
LimiterAnswers == (Done /\ Through("limit filter")) => error = <<>>
\* A client is told that it is at fault only for what the packages blame it for.
BlameIsFair ==
  answer \in {"400", "409", "422", "429"} => origin.class \in IdempotencyFaults \cup {"RateLimitExceededError"}
\* Every code is one that isErrorCode() knows.
CodesKnown == \A i \in 1..Len(error) : error[i].code = "none" \/ IsErrorCode(error[i].code)
\* All of them: an error tells who handles it what failed.
ErrorsExplained == CauseKept /\ TextReaches /\ OwnErrorKept /\ LimiterAnswers /\ BlameIsFair /\ CodesKnown
================================================================================
