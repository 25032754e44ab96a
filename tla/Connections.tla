------------------------------- MODULE Connections -------------------------------
(* One name of RedisClientManager: the managed clients that carry it one after the other,  *)
(* the driver of each and the library client the driver holds, calls of getClient(),       *)
(* closeClient() and closeAll(). ioredis emits its events and settles its promises in one  *)
(* turn of the event loop, so that an event and what the manager does about it are a step. *)
EXTENDS Integers, FiniteSets

CONSTANTS
  Client,            \* managed clients: numbers, in the order in which they are created
  Caller, None,
  MaxAttempts,       \* reconnection.maxAttempts
  MaxBackoff,        \* BOUND: doublings of the delay until maxDelay
  GivesUp,           \* TRUE when the library stops retrying (node-redis after ten attempts)
  Outages, Drops     \* BOUNDS: of the server, and of a connection alone

ASSUME ConnectionsAssumption ==
  /\ Client \subseteq Nat /\ MaxAttempts \in Nat /\ MaxBackoff \in Nat
  /\ None \notin Client /\ None \notin Caller /\ None # "timer" /\ "timer" \notin Caller

VARIABLES
  server,            \* "up" or "down"
  registered,        \* clients: the managed client under the name, or None
  created,
  status, ever,      \* managedClient.status, everConnected
  attempts, backoff, \* reconnection.attempts, and nextDelay by its doublings
  timer,             \* whether a reconnection is scheduled
  connected,         \* driver.connected
  connecting,        \* whose connect() is in doConnect(): a caller, "timer", or None
  link,              \* the library's client: "none", "opening", "up", "down" or "dead"
  closing,           \* which of closeClient() and closeAll() wait for disconnect()
  shut,              \* closeAll(): "no", "closing" or "done"
  call,              \* each getClient(): where it is and the client it is about
  revived,           \* history: clients that something under way connects again when closed
  outages, drops

managed == <<status, attempts, backoff, timer>>
bounds == <<outages, drops>>
vars == <<server, registered, created, managed, ever, connected, connecting, link, closing, shut, call, revived, bounds>>

Init ==
  /\ server = "up" /\ registered = None /\ created = {}
  /\ status = [k \in Client |-> "DISCONNECTED"] /\ ever = [k \in Client |-> FALSE]
  /\ attempts = [k \in Client |-> 0] /\ backoff = [k \in Client |-> 0] /\ timer = [k \in Client |-> FALSE]
  /\ connected = [k \in Client |-> FALSE] /\ connecting = [k \in Client |-> None] /\ link = [k \in Client |-> "none"]
  /\ closing = [k \in Client |-> {}] /\ shut = "no"
  /\ call = [c \in Caller |-> [pc |-> "idle", of |-> None]]
  /\ revived = {} /\ outages = 0 /\ drops = 0

TypeOK ==
  /\ server \in {"up", "down"} /\ registered \in created \cup {None} /\ created \subseteq Client
  /\ status \in [Client -> {"DISCONNECTED", "CONNECTING", "CONNECTED", "RECONNECTING", "ERROR"}]
  /\ ever \in [Client -> BOOLEAN] /\ timer \in [Client -> BOOLEAN] /\ connected \in [Client -> BOOLEAN]
  /\ attempts \in [Client -> 0..MaxAttempts] /\ backoff \in [Client -> 0..MaxBackoff]
  /\ connecting \in [Client -> Caller \cup {"timer", None}]
  /\ link \in [Client -> {"none", "opening", "up", "down", "dead"}]
  /\ closing \in [Client -> SUBSET {"client", "all"}] /\ shut \in {"no", "closing", "done"}
  /\ call \in [Caller -> [pc : {"idle", "connecting", "got", "failed"}, of : Client \cup {None}]]
  /\ revived \subseteq Client

--------------------------------------------------------------------------------
(* What the manager does about an event of k's driver.                                     *)

\* scheduleReconnection()
Exhausted(k) == attempts[k] >= MaxAttempts
Schedule(k) ==
  IF Exhausted(k)
  THEN status' = [status EXCEPT ![k] = "ERROR"] /\ UNCHANGED <<attempts, timer>>
  ELSE /\ status' = [status EXCEPT ![k] = "RECONNECTING"]
       /\ attempts' = [attempts EXCEPT ![k] = @ + 1]
       /\ timer' = [timer EXCEPT ![k] = TRUE]

\* DriverEvent.ERROR
OnError(k) == IF status[k] = "CONNECTED" THEN Schedule(k) ELSE UNCHANGED <<status, attempts, timer>>

\* DriverEvent.CLOSE and END
OnClose(k) == IF status[k] = "CONNECTED" /\ shut = "no" THEN Schedule(k) ELSE UNCHANGED <<status, attempts, timer>>

ScheduledByClose(k) == status[k] = "CONNECTED" /\ shut = "no" /\ ~Exhausted(k)
Revives(k, what) == revived' = IF what THEN revived \cup {k} ELSE revived

\* DriverEvent.READY, and a connect() that ended well: the delay starts over.
RestoredKeepsAttempts(k) ==
  status' = [status EXCEPT ![k] = "CONNECTED"] /\ UNCHANGED <<attempts, backoff>>
Restored(k) ==
  /\ status' = [status EXCEPT ![k] = "CONNECTED"]
  /\ attempts' = [attempts EXCEPT ![k] = 0] /\ backoff' = [backoff EXCEPT ![k] = 0]
OnReady(k) == IF status[k] = "RECONNECTING" THEN Restored(k) ELSE UNCHANGED <<status, attempts, backoff>>

--------------------------------------------------------------------------------
\* createClient(): a name is free again when its client was closed.
Create(k) ==
  /\ k \notin created /\ \A j \in Client \ created : k <= j
  /\ registered = None
  /\ created' = created \cup {k} /\ registered' = k
  /\ UNCHANGED <<server, managed, ever, connected, connecting, link, closing, shut, call, revived, bounds>>

\* getClient(): no client under the name, or one that was connected before.
Refuse(c) ==
  /\ call[c].pc = "idle" /\ (shut # "no" \/ registered = None)
  /\ call' = [call EXCEPT ![c].pc = "failed"]
  /\ UNCHANGED <<server, registered, created, managed, ever, connected, connecting, link, closing, shut, revived, bounds>>

Got(c) ==
  /\ call[c].pc = "idle" /\ shut = "no" /\ registered # None
  /\ connected[registered] \/ ever[registered]
  /\ call' = [call EXCEPT ![c] = [pc |-> "got", of |-> registered]]
  /\ UNCHANGED <<server, registered, created, managed, ever, connected, connecting, link, closing, shut, revived, bounds>>

\* The first call connects; the calls that come meanwhile wait for READY or ERROR.
Opens(k, who) ==
  /\ connecting' = [connecting EXCEPT ![k] = IF @ = None THEN who ELSE @]
  /\ link' = [link EXCEPT ![k] = IF connecting[k] = None THEN "opening" ELSE @]

Connect(c) ==
  LET k == registered
  IN /\ call[c].pc = "idle" /\ shut = "no" /\ k # None /\ ~connected[k] /\ ~ever[k]
     /\ status' = [status EXCEPT ![k] = "CONNECTING"]
     /\ Opens(k, c)
     /\ call' = [call EXCEPT ![c] = [pc |-> "connecting", of |-> k]]
     /\ UNCHANGED <<server, registered, created, attempts, backoff, timer, ever, connected, closing, shut, revived, bounds>>

Waiting(k) == {c \in Caller : call[c] = [pc |-> "connecting", of |-> k]}
SettledFirst(k, outcome) == [c \in Caller |-> IF c = connecting[k] THEN [call[c] EXCEPT !.pc = outcome] ELSE call[c]]
Settled(k, outcome) == [c \in Caller |-> IF c \in Waiting(k) THEN [call[c] EXCEPT !.pc = outcome] ELSE call[c]]

\* doConnect() ends, whatever became of the client meanwhile.
Connected(k) ==
  /\ connecting[k] # None /\ server = "up"
  /\ link' = [link EXCEPT ![k] = "up"] /\ connected' = [connected EXCEPT ![k] = TRUE]
  /\ connecting' = [connecting EXCEPT ![k] = None]
  /\ Restored(k)
  /\ ever' = [ever EXCEPT ![k] = @ \/ Waiting(k) # {}]
  /\ call' = Settled(k, "got")
  /\ UNCHANGED <<server, registered, created, timer, closing, shut, revived, bounds>>

\* It fails: the callers' status is ERROR, the timer's attempt is followed by a later one.
NotConnected(k) ==
  /\ connecting[k] # None /\ server = "down"
  /\ link' = [link EXCEPT ![k] = "none"] /\ connecting' = [connecting EXCEPT ![k] = None]
  /\ call' = Settled(k, "failed")
  /\ IF connecting[k] = "timer"
     THEN /\ Schedule(k)
          /\ backoff' = [backoff EXCEPT ![k] = IF @ < MaxBackoff THEN @ + 1 ELSE @]
     ELSE /\ status' = [status EXCEPT ![k] = "ERROR"]
          /\ UNCHANGED <<attempts, backoff, timer>>
  /\ UNCHANGED <<server, registered, created, ever, connected, closing, shut, revived, bounds>>

\* An ERROR that the library emits before doConnect() ends (node-redis retries inside it) ends the
\* calls that wait for the event, not the one that connects; they leave the status ERROR.
ErrorWhileConnecting(k) ==
  LET waiters == Waiting(k) \ {connecting[k]}
  IN /\ connecting[k] # None /\ server = "down" /\ waiters # {}
     /\ call' = [c \in Caller |-> IF c \in waiters THEN [call[c] EXCEPT !.pc = "failed"] ELSE call[c]]
     /\ status' = [status EXCEPT ![k] = "ERROR"]
     /\ UNCHANGED <<server, registered, created, attempts, backoff, timer, ever, connected, connecting, link, closing, shut, revived, bounds>>

\* The scheduled reconnection. connect() of a driver that was never disconnected returns at
\* once, whatever its connection is like.
Reconnect(k) ==
  /\ timer[k] /\ connecting[k] = None
  /\ timer' = [timer EXCEPT ![k] = FALSE]
  /\ IF connected[k] THEN Restored(k) /\ UNCHANGED <<connecting, link>>
     ELSE Opens(k, "timer") /\ UNCHANGED <<status, attempts, backoff>>
  /\ UNCHANGED <<server, registered, created, ever, connected, closing, shut, call, revived, bounds>>

--------------------------------------------------------------------------------
\* The connection is lost, with an error or without one; the library tries again by itself.
LinkDrops(k) ==
  /\ link[k] = "up" /\ (server = "down" \/ drops < Drops)
  /\ drops' = IF server = "down" THEN drops ELSE drops + 1
  /\ link' = [link EXCEPT ![k] = "down"]
  /\ \/ OnError(k) /\ Revives(k, status[k] = "CONNECTED" /\ closing[k] # {})
     \/ OnClose(k) /\ Revives(k, ScheduledByClose(k) /\ closing[k] # {})
  /\ UNCHANGED <<server, registered, created, backoff, ever, connected, connecting, closing, shut, call, outages>>

RetryFails(k) ==
  /\ link[k] = "down" /\ server = "down"
  /\ OnError(k) /\ Revives(k, status[k] = "CONNECTED" /\ closing[k] # {})
  /\ UNCHANGED <<server, registered, created, backoff, ever, connected, connecting, link, closing, shut, call, bounds>>

RetrySucceeds(k) ==
  /\ link[k] = "down" /\ server = "up"
  /\ link' = [link EXCEPT ![k] = "up"]
  /\ OnReady(k)
  /\ UNCHANGED <<server, registered, created, timer, ever, connected, connecting, closing, shut, call, revived, bounds>>

LibraryGivesUp(k) ==
  /\ GivesUp /\ link[k] = "down" /\ server = "down"
  /\ link' = [link EXCEPT ![k] = "dead"]
  /\ OnClose(k) /\ Revives(k, ScheduledByClose(k) /\ closing[k] # {})
  /\ UNCHANGED <<server, registered, created, backoff, ever, connected, connecting, closing, shut, call, bounds>>

--------------------------------------------------------------------------------
\* disconnectClient(): the timer is cleared, a driver that is connected disconnects; one
\* that is connecting is left alone.
DisconnectingKeepsTimer(ks, by) ==
  /\ timer' = timer
  /\ closing' = [k \in Client |-> IF k \in ks /\ connected[k] THEN closing[k] \cup {by} ELSE closing[k]]
  /\ status' = [k \in Client |-> IF k \in ks /\ ~connected[k] THEN "DISCONNECTED" ELSE status[k]]
  /\ revived' = revived \cup {k \in ks : connecting[k] # None}
Disconnecting(ks, by) ==
  /\ timer' = [k \in Client |-> IF k \in ks THEN FALSE ELSE timer[k]]
  /\ closing' = [k \in Client |-> IF k \in ks /\ connected[k] THEN closing[k] \cup {by} ELSE closing[k]]
  /\ status' = [k \in Client |-> IF k \in ks /\ ~connected[k] THEN "DISCONNECTED" ELSE status[k]]
  /\ revived' = revived \cup {k \in ks : connecting[k] # None}

CloseClient ==
  /\ registered # None /\ closing[registered] = {}
  /\ Disconnecting({registered}, "client")
  /\ registered' = IF connected[registered] THEN registered ELSE None
  /\ UNCHANGED <<server, created, attempts, backoff, ever, connected, connecting, link, shut, call, bounds>>

CloseAll ==
  /\ shut = "no"
  /\ Disconnecting({registered} \ {None}, "all")
  /\ shut' = IF registered # None /\ connected[registered] THEN "closing" ELSE "done"
  /\ registered' = IF registered # None /\ connected[registered] THEN registered ELSE None
  /\ UNCHANGED <<server, created, attempts, backoff, ever, connected, connecting, link, call, bounds>>

\* quit() was answered, or failed and was forced: disconnect() emits CLOSE and returns.
Disconnected(k) ==
  /\ closing[k] # {}
  /\ link' = [link EXCEPT ![k] = "none"] /\ connected' = [connected EXCEPT ![k] = FALSE]
  /\ closing' = [closing EXCEPT ![k] = {}]
  /\ status' = [status EXCEPT ![k] = "DISCONNECTED"]
  /\ IF ScheduledByClose(k)
     THEN timer' = [timer EXCEPT ![k] = TRUE] /\ attempts' = [attempts EXCEPT ![k] = @ + 1]
     ELSE UNCHANGED <<timer, attempts>>
  /\ registered' = IF registered = k THEN None ELSE registered
  /\ shut' = IF "all" \in closing[k] THEN "done" ELSE shut
  /\ Revives(k, ScheduledByClose(k))
  /\ UNCHANGED <<server, created, backoff, ever, connecting, call, bounds>>

ServerDown ==
  /\ server = "up" /\ outages < Outages
  /\ server' = "down" /\ outages' = outages + 1
  /\ UNCHANGED <<registered, created, managed, ever, connected, connecting, link, closing, shut, call, revived, drops>>

ServerUp ==
  /\ server = "down" /\ server' = "up"
  /\ UNCHANGED <<registered, created, managed, ever, connected, connecting, link, closing, shut, call, revived, bounds>>

Again(c) ==
  /\ call[c].pc \in {"got", "failed"}
  /\ call' = [call EXCEPT ![c] = [pc |-> "idle", of |-> None]]
  /\ UNCHANGED <<server, registered, created, managed, ever, connected, connecting, link, closing, shut, revived, bounds>>

Next ==
  \/ \E k \in Client :
       Create(k) \/ Connected(k) \/ NotConnected(k) \/ ErrorWhileConnecting(k) \/ Reconnect(k) \/ LinkDrops(k) \/ RetryFails(k)
         \/ RetrySucceeds(k) \/ LibraryGivesUp(k) \/ Disconnected(k)
  \/ \E c \in Caller : Refuse(c) \/ Got(c) \/ Connect(c) \/ Again(c)
  \/ CloseClient \/ CloseAll \/ ServerDown \/ ServerUp

Spec == Init /\ [][Next]_vars
Fairness ==
  /\ \A k \in Client :
       WF_vars(Connected(k) \/ NotConnected(k)) /\ WF_vars(Reconnect(k)) /\ WF_vars(RetrySucceeds(k)) /\ WF_vars(Disconnected(k))
  /\ WF_vars(ServerUp)
FairSpec == Spec /\ Fairness

--------------------------------------------------------------------------------
Closed(k) == k \in created /\ registered # k
Quiet(k) == link[k] = "none" /\ connecting[k] = None /\ ~timer[k]

\* closeClient() "gracefully disconnects and removes client from registry"
\* (client-manager.interface.ts): no reconnection is scheduled for what it removed.
RemovedNotReconnected == \A k \in Client : Closed(k) => ~timer[k]

\* What closeClient() or closeAll() closed has no connection and no timer, unless one of
\* three things was under way: a connect(), an error during quit(), or (closeClient()
\* alone) the CLOSE event of its own disconnect().
ClosedUnlessRevived == \A k \in Client : Closed(k) /\ k \notin revived => Quiet(k)

\* A client that was connected keeps a library client that is connected or tries to be until
\* it is closed, so getClient() may hand it out without looking; one call at a time connects
\* a driver, and nobody waits for an attempt that nobody makes.
DriversUsable ==
  /\ TypeOK
  /\ \A k \in Client : ever[k] /\ registered = k => connected[k] /\ link[k] \notin {"none", "opening"}
  /\ \A k \in Client : connecting[k] # None <=> link[k] = "opening"
  /\ \A k \in Client : connecting[k] # None => ~connected[k] /\ ~timer[k]
  /\ \A c \in Caller : call[c].pc = "connecting" => connecting[call[c].of] # None
  /\ \A c \in Caller : call[c].pc = "got" => ever[call[c].of]

\* Both.
ClientsUsable == ClosedUnlessRevived /\ DriversUsable

\* Once the server is back, a client that was connected and is not closed is CONNECTED with a
\* connection that is up, unless its library gave up; and every getClient() ends.
Recovers ==
  /\ \A k \in Client :
       (ever[k] /\ registered = k) ~>
         (registered # k \/ shut # "no" \/ server = "down" \/ link[k] = "dead" \/ (link[k] = "up" /\ status[k] = "CONNECTED"))
  /\ \A c \in Caller : call[c].pc = "connecting" ~> call[c].pc # "connecting"
================================================================================
