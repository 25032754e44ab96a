--------------------------- MODULE Connections_proofs ---------------------------
(* Machine-checked proofs about Connections for every set of clients and of callers, every *)
(* number of attempts, outages and drops, and libraries that give up and that do not.      *)
EXTENDS Connections, GuardedCalls, Observability, SequenceTheorems, TLAPS

--------------------------------------------------------------------------------
(* The inductive invariant. *)

\* A driver is connected as long as its library client exists and is not being opened, and one
\* call at a time opens it, for which no timer runs.
Linked ==
  \A k \in Client :
    /\ connected[k] <=> link[k] \in {"up", "down", "dead"}
    /\ connecting[k] # None <=> link[k] = "opening"
    /\ connecting[k] # None => ~timer[k]

\* What happened to clients before: nothing, before they are created; and only one that was
\* connected reconnects.
Seasoned ==
  \A k \in Client :
    /\ k \notin created => Quiet(k) /\ ~ever[k] /\ closing[k] = {}
    /\ connected[k] \/ timer[k] \/ connecting[k] = "timer" => ever[k]

\* The timer of the client under the name runs only while its driver is connected, because
\* closing it takes the name away; so a call of getClient() never meets an attempt of the timer.
Owned ==
  \A k \in Client : registered = k => connecting[k] # "timer" /\ (timer[k] \/ ever[k] => connected[k])

\* A client that is being closed still has the name, and a timer that starts meanwhile is one
\* of the named cases.
Leaving ==
  \A k \in Client :
    closing[k] # {} => connected[k] /\ registered = k /\ (timer[k] => k \in revived)

\* Calls wait for an attempt that is under way, and an attempt of a call is waited for by it.
Awaited ==
  /\ \A c \in Caller : call[c].pc = "connecting" => call[c].of \in Client /\ connecting[call[c].of] # None
  /\ \A c \in Caller : call[c].pc = "got" => call[c].of \in Client /\ ever[call[c].of]
  /\ \A k \in Client : connecting[k] \in Caller => call[connecting[k]] = [pc |-> "connecting", of |-> k]

Inv == TypeOK /\ Linked /\ Seasoned /\ Owned /\ Leaving /\ Awaited /\ ClosedUnlessRevived

LEMMA ConstantFacts ==
  /\ MaxAttempts \in Nat /\ MaxBackoff \in Nat
  /\ None \notin Client /\ None \notin Caller /\ None # "timer" /\ "timer" \notin Caller
BY ConnectionsAssumption

\* What the manager does about an event keeps the types, and touches one client only.
LEMMA Scheduled ==
  ASSUME TypeOK, NEW k \in Client, Schedule(k) \/ UNCHANGED <<status, attempts, timer>>
  PROVE  /\ status' \in [Client -> {"DISCONNECTED", "CONNECTING", "CONNECTED", "RECONNECTING", "ERROR"}]
         /\ attempts' \in [Client -> 0..MaxAttempts] /\ timer' \in [Client -> BOOLEAN]
<1> USE ConstantFacts DEF TypeOK
<1>1. CASE UNCHANGED <<status, attempts, timer>>
  BY <1>1
<1>2. CASE Schedule(k) /\ Exhausted(k)
  BY <1>2 DEF Schedule
<1>3. CASE Schedule(k) /\ ~Exhausted(k)
  <2>1. attempts[k] + 1 \in 0..MaxAttempts
    BY <1>3 DEF Exhausted
  <2>2. attempts' = [attempts EXCEPT ![k] = attempts[k] + 1]
    BY <1>3 DEF Schedule
  <2>3. attempts' \in [Client -> 0..MaxAttempts]
    BY <2>1, <2>2
  <2>4. status' \in [Client -> {"DISCONNECTED", "CONNECTING", "CONNECTED", "RECONNECTING", "ERROR"}]
    BY <1>3 DEF Schedule
  <2>5. timer' \in [Client -> BOOLEAN]
    BY <1>3 DEF Schedule
  <2> QED
    BY <2>3, <2>4, <2>5
<1> QED
  BY <1>1, <1>2, <1>3

LEMMA CreateInv ==
  ASSUME Inv, NEW k \in Client, Create(k) PROVE Inv'
<1> USE ConstantFacts DEF Create, managed, bounds, Inv, TypeOK
<1>1. TypeOK'
  BY DEF TypeOK
<1>2. Linked'
  BY DEF Linked
<1>3. Seasoned'
  BY DEF Seasoned, Quiet, Linked, Leaving
<1>4. Owned'
  BY DEF Owned, Linked, Seasoned, Leaving
<1>5. Leaving'
  BY DEF Leaving, Linked, Seasoned
<1>6. Awaited'
  BY DEF Awaited, Owned, Seasoned
<1>7. ClosedUnlessRevived'
  BY DEF ClosedUnlessRevived, Closed, Quiet, Linked, Seasoned, Leaving
<1> QED
  BY <1>1, <1>2, <1>3, <1>4, <1>5, <1>6, <1>7

LEMMA ConnectedInv ==
  ASSUME Inv, NEW k \in Client, Connected(k) PROVE Inv'
<1> USE ConstantFacts DEF Connected, Restored, Settled, Waiting, managed, bounds, Inv, TypeOK
<1>1. TypeOK'
  BY DEF TypeOK
<1>2. Linked'
  BY DEF Linked
<1>3. Seasoned'
  <2>1. connecting[k] \in Caller => Waiting(k) # {}
    BY DEF Awaited
  <2>2. ever'[k] /\ \A j \in Client : ever[j] => ever'[j]
    BY <2>1 DEF Seasoned
  <2>3. \A j \in Client \ {k} : ever'[j] <=> ever[j]
    OBVIOUS
  <2>4. k \in created
    BY DEF Seasoned, Quiet
  <2> HIDE DEF Waiting
  <2> QED
    BY <2>2, <2>3, <2>4 DEF Seasoned, Quiet
<1>4. Owned'
  BY DEF Owned, Linked, Seasoned, Leaving
<1>5. Leaving'
  BY DEF Leaving, Linked, Seasoned
<1>6. Awaited'
  <2>1. \A c \in Caller : call'[c] = IF c \in Waiting(k) THEN [call[c] EXCEPT !.pc = "got"] ELSE call[c]
    OBVIOUS
  <2>2. connecting[k] \in Caller => Waiting(k) # {}
    BY DEF Awaited
  <2>3. Waiting(k) # {} => ever'[k]
    OBVIOUS
  <2>4. \A j \in Client : ever[j] => ever'[j]
    OBVIOUS
  <2>5. \A c \in Caller : call'[c].pc = "connecting" => call'[c].of \in Client /\ connecting'[call'[c].of] # None
    BY <2>1 DEF Awaited
  <2>6. \A c \in Caller : call'[c].pc = "got" => call'[c].of \in Client /\ ever'[call'[c].of]
    BY <2>1, <2>3, <2>4 DEF Awaited
  <2>7. \A j \in Client : connecting'[j] \in Caller => call'[connecting'[j]] = [pc |-> "connecting", of |-> j]
    BY <2>1 DEF Awaited
  <2> QED
    BY <2>5, <2>6, <2>7 DEF Awaited
<1>7. ClosedUnlessRevived'
  BY DEF ClosedUnlessRevived, Closed, Quiet, Linked, Seasoned, Leaving
<1> QED
  BY <1>1, <1>2, <1>3, <1>4, <1>5, <1>6, <1>7

LEMMA NotConnectedInv ==
  ASSUME Inv, NEW k \in Client, NotConnected(k) PROVE Inv'
<1> USE ConstantFacts DEF NotConnected, Schedule, Exhausted, Settled, Waiting, managed, bounds, Inv, TypeOK
<1>1. TypeOK'
  <2> HIDE DEF Schedule, Exhausted
  <2>1. CASE connecting[k] = "timer"
    BY <2>1, Scheduled
  <2>2. CASE connecting[k] # "timer"
    BY <2>2
  <2> QED
    BY <2>1, <2>2
<1>2. Linked'
  BY DEF Linked
<1>3. Seasoned'
  BY DEF Seasoned, Quiet, Linked, Leaving
<1>4. Owned'
  BY DEF Owned, Linked, Seasoned, Leaving
<1>5. Leaving'
  BY DEF Leaving, Linked, Seasoned
<1>6. Awaited'
  BY DEF Awaited, Owned, Seasoned
<1>7. ClosedUnlessRevived'
  BY DEF ClosedUnlessRevived, Closed, Quiet, Linked, Seasoned, Leaving
<1> QED
  BY <1>1, <1>2, <1>3, <1>4, <1>5, <1>6, <1>7

LEMMA ErrorWhileConnectingInv ==
  ASSUME Inv, NEW k \in Client, ErrorWhileConnecting(k) PROVE Inv'
<1> USE ConstantFacts DEF ErrorWhileConnecting, Waiting, managed, bounds, Inv, TypeOK
<1>1. TypeOK'
  BY DEF TypeOK
<1>2. Linked' /\ Leaving'
  BY DEF Linked, Leaving
<1>3. Seasoned' /\ Owned' /\ ClosedUnlessRevived'
  BY DEF Seasoned, Owned, ClosedUnlessRevived, Closed, Quiet
<1>4. Awaited'
  BY DEF Awaited
<1> QED
  BY <1>1, <1>2, <1>3, <1>4

LEMMA ReconnectInv ==
  ASSUME Inv, NEW k \in Client, Reconnect(k) PROVE Inv'
<1> USE ConstantFacts DEF Reconnect, Restored, Opens, managed, bounds, Inv, TypeOK
<1>1. TypeOK'
  BY DEF TypeOK
<1>2. Linked'
  BY DEF Linked
<1>3. Seasoned'
  BY DEF Seasoned, Quiet, Linked, Leaving
<1>4. Owned'
  BY DEF Owned, Linked, Seasoned, Leaving
<1>5. Leaving'
  BY DEF Leaving, Linked, Seasoned
<1>6. Awaited'
  BY DEF Awaited, Owned, Seasoned
<1>7. ClosedUnlessRevived'
  BY DEF ClosedUnlessRevived, Closed, Quiet, Linked, Seasoned, Leaving
<1> QED
  BY <1>1, <1>2, <1>3, <1>4, <1>5, <1>6, <1>7

LEMMA LinkDropsInv ==
  ASSUME Inv, NEW k \in Client, LinkDrops(k) PROVE Inv'
<1> USE ConstantFacts DEF LinkDrops, OnError, OnClose, Schedule, Exhausted, Revives, ScheduledByClose, managed, bounds, Inv, TypeOK
<1>1. TypeOK'
  <2> HIDE DEF Schedule, Exhausted
  <2>1. Schedule(k) \/ UNCHANGED <<status, attempts, timer>>
    OBVIOUS
  <2>2. revived' \subseteq Client
    OBVIOUS
  <2> QED
    BY <2>1, <2>2, Scheduled
<1>2. Linked'
  BY DEF Linked
<1>3. Seasoned'
  BY DEF Seasoned, Quiet, Linked, Leaving
<1>4. Owned'
  BY DEF Owned, Linked, Seasoned, Leaving
<1>5. Leaving'
  BY DEF Leaving, Linked, Seasoned
<1>6. Awaited'
  BY DEF Awaited, Owned, Seasoned
<1>7. ClosedUnlessRevived'
  BY DEF ClosedUnlessRevived, Closed, Quiet, Linked, Seasoned, Leaving
<1> QED
  BY <1>1, <1>2, <1>3, <1>4, <1>5, <1>6, <1>7

LEMMA RetryFailsInv ==
  ASSUME Inv, NEW k \in Client, RetryFails(k) PROVE Inv'
<1> USE ConstantFacts DEF RetryFails, OnError, Schedule, Exhausted, Revives, managed, bounds, Inv, TypeOK
<1>1. TypeOK'
  <2> HIDE DEF Schedule, Exhausted
  <2>1. Schedule(k) \/ UNCHANGED <<status, attempts, timer>>
    OBVIOUS
  <2>2. revived' \subseteq Client
    OBVIOUS
  <2> QED
    BY <2>1, <2>2, Scheduled
<1>2. Linked'
  BY DEF Linked
<1>3. Seasoned'
  BY DEF Seasoned, Quiet, Linked, Leaving
<1>4. Owned'
  BY DEF Owned, Linked, Seasoned, Leaving
<1>5. Leaving'
  BY DEF Leaving, Linked, Seasoned
<1>6. Awaited'
  BY DEF Awaited, Owned, Seasoned
<1>7. ClosedUnlessRevived'
  BY DEF ClosedUnlessRevived, Closed, Quiet, Linked, Seasoned, Leaving
<1> QED
  BY <1>1, <1>2, <1>3, <1>4, <1>5, <1>6, <1>7

LEMMA RetrySucceedsInv ==
  ASSUME Inv, NEW k \in Client, RetrySucceeds(k) PROVE Inv'
<1> USE ConstantFacts DEF RetrySucceeds, OnReady, Restored, managed, bounds, Inv, TypeOK
<1>1. TypeOK'
  BY DEF TypeOK
<1>2. Linked'
  BY DEF Linked
<1>3. Seasoned'
  BY DEF Seasoned, Quiet, Linked, Leaving
<1>4. Owned'
  BY DEF Owned, Linked, Seasoned, Leaving
<1>5. Leaving'
  BY DEF Leaving, Linked, Seasoned
<1>6. Awaited'
  BY DEF Awaited, Owned, Seasoned
<1>7. ClosedUnlessRevived'
  BY DEF ClosedUnlessRevived, Closed, Quiet, Linked, Seasoned, Leaving
<1> QED
  BY <1>1, <1>2, <1>3, <1>4, <1>5, <1>6, <1>7

LEMMA LibraryGivesUpInv ==
  ASSUME Inv, NEW k \in Client, LibraryGivesUp(k) PROVE Inv'
<1> USE ConstantFacts DEF LibraryGivesUp, OnClose, Schedule, Exhausted, Revives, ScheduledByClose, managed, bounds, Inv, TypeOK
<1>1. TypeOK'
  <2> HIDE DEF Schedule, Exhausted
  <2>1. Schedule(k) \/ UNCHANGED <<status, attempts, timer>>
    OBVIOUS
  <2>2. revived' \subseteq Client
    OBVIOUS
  <2> QED
    BY <2>1, <2>2, Scheduled
<1>2. Linked'
  BY DEF Linked
<1>3. Seasoned'
  BY DEF Seasoned, Quiet, Linked, Leaving
<1>4. Owned'
  BY DEF Owned, Linked, Seasoned, Leaving
<1>5. Leaving'
  BY DEF Leaving, Linked, Seasoned
<1>6. Awaited'
  BY DEF Awaited, Owned, Seasoned
<1>7. ClosedUnlessRevived'
  BY DEF ClosedUnlessRevived, Closed, Quiet, Linked, Seasoned, Leaving
<1> QED
  BY <1>1, <1>2, <1>3, <1>4, <1>5, <1>6, <1>7

LEMMA DisconnectedInv ==
  ASSUME Inv, NEW k \in Client, Disconnected(k) PROVE Inv'
<1> USE ConstantFacts DEF Disconnected, ScheduledByClose, Exhausted, Revives, managed, bounds, Inv, TypeOK
<1>1. TypeOK'
  <2>1. ScheduledByClose(k) => attempts[k] + 1 \in 0..MaxAttempts
    OBVIOUS
  <2>2. attempts' \in [Client -> 0..MaxAttempts] /\ timer' \in [Client -> BOOLEAN]
    <3>1. CASE ScheduledByClose(k)
      <4>1. attempts' = [attempts EXCEPT ![k] = attempts[k] + 1] /\ timer' = [timer EXCEPT ![k] = TRUE]
        BY <3>1
      <4>2. attempts' \in [Client -> 0..MaxAttempts]
        BY <2>1, <3>1, <4>1
      <4> QED
        BY <4>1, <4>2
    <3>2. CASE ~ScheduledByClose(k)
      BY <3>2
    <3> QED
      BY <3>1, <3>2
  <2>3. revived' \subseteq Client /\ registered' \in created' \cup {None} /\ shut' \in {"no", "closing", "done"}
    OBVIOUS
  <2>4. closing' \in [Client -> SUBSET {"client", "all"}]
    OBVIOUS
  <2> QED
    BY <2>2, <2>3, <2>4
<1>2. Linked'
  <2>1. connected[k] /\ connecting[k] = None
    BY DEF Leaving, Linked
  <2>2. \A j \in Client \ {k} : timer'[j] <=> timer[j]
    OBVIOUS
  <2>3. \A j \in Client \ {k} : link'[j] = link[j] /\ (connected'[j] <=> connected[j])
    OBVIOUS
  <2>4. link'[k] = "none" /\ ~connected'[k]
    OBVIOUS
  <2> QED
    BY <2>1, <2>2, <2>3, <2>4 DEF Linked
<1>3. Seasoned'
  BY DEF Seasoned, Quiet, Linked, Leaving
<1>4. Owned'
  BY DEF Owned, Linked, Seasoned, Leaving
<1>5. Leaving'
  BY DEF Leaving, Linked, Seasoned
<1>6. Awaited'
  BY DEF Awaited, Owned, Seasoned
<1>7. ClosedUnlessRevived'
  BY DEF ClosedUnlessRevived, Closed, Quiet, Linked, Seasoned, Leaving
<1> QED
  BY <1>1, <1>2, <1>3, <1>4, <1>5, <1>6, <1>7

LEMMA RefuseInv ==
  ASSUME Inv, NEW c \in Caller, Refuse(c) PROVE Inv'
<1> USE ConstantFacts DEF Refuse, managed, bounds, Inv, TypeOK
<1>1. TypeOK'
  BY DEF TypeOK
<1>2. Linked'
  BY DEF Linked
<1>3. Seasoned'
  BY DEF Seasoned, Quiet, Linked, Leaving
<1>4. Owned'
  BY DEF Owned, Linked, Seasoned, Leaving
<1>5. Leaving'
  BY DEF Leaving, Linked, Seasoned
<1>6. Awaited'
  BY DEF Awaited, Owned, Seasoned
<1>7. ClosedUnlessRevived'
  BY DEF ClosedUnlessRevived, Closed, Quiet, Linked, Seasoned, Leaving
<1> QED
  BY <1>1, <1>2, <1>3, <1>4, <1>5, <1>6, <1>7

LEMMA GotInv ==
  ASSUME Inv, NEW c \in Caller, Got(c) PROVE Inv'
<1> USE ConstantFacts DEF Got, managed, bounds, Inv, TypeOK
<1>1. TypeOK'
  BY DEF TypeOK
<1>2. Linked'
  BY DEF Linked
<1>3. Seasoned'
  BY DEF Seasoned, Quiet, Linked, Leaving
<1>4. Owned'
  BY DEF Owned, Linked, Seasoned, Leaving
<1>5. Leaving'
  BY DEF Leaving, Linked, Seasoned
<1>6. Awaited'
  BY DEF Awaited, Owned, Seasoned
<1>7. ClosedUnlessRevived'
  BY DEF ClosedUnlessRevived, Closed, Quiet, Linked, Seasoned, Leaving
<1> QED
  BY <1>1, <1>2, <1>3, <1>4, <1>5, <1>6, <1>7

LEMMA ConnectInv ==
  ASSUME Inv, NEW c \in Caller, Connect(c) PROVE Inv'
<1> USE ConstantFacts DEF Connect, Opens, managed, bounds, Inv, TypeOK
<1>1. TypeOK'
  BY DEF TypeOK
<1>2. Linked'
  <2> DEFINE k == registered
  <2>1. k \in Client /\ ~timer[k] /\ ~connected[k]
    BY DEF Owned
  <2>2. CASE connecting[k] = None
    <3>1. link' = [link EXCEPT ![k] = "opening"] /\ connecting' = [connecting EXCEPT ![k] = c]
      BY <2>2
    <3> QED
      BY <2>1, <3>1 DEF Linked
  <2>3. CASE connecting[k] # None
    <3>1. link' = link /\ connecting' = connecting
      BY <2>1, <2>3
    <3> QED
      BY <3>1 DEF Linked
  <2> QED
    BY <2>2, <2>3
<1>3. Seasoned'
  BY DEF Seasoned, Quiet, Linked, Leaving
<1>4. Owned'
  BY DEF Owned, Linked, Seasoned, Leaving
<1>5. Leaving'
  BY DEF Leaving, Linked, Seasoned
<1>6. Awaited'
  BY DEF Awaited, Owned, Seasoned
<1>7. ClosedUnlessRevived'
  BY DEF ClosedUnlessRevived, Closed, Quiet, Linked, Seasoned, Leaving
<1> QED
  BY <1>1, <1>2, <1>3, <1>4, <1>5, <1>6, <1>7

LEMMA AgainInv ==
  ASSUME Inv, NEW c \in Caller, Again(c) PROVE Inv'
<1> USE ConstantFacts DEF Again, managed, bounds, Inv, TypeOK
<1>1. TypeOK'
  BY DEF TypeOK
<1>2. Linked'
  BY DEF Linked
<1>3. Seasoned'
  BY DEF Seasoned, Quiet, Linked, Leaving
<1>4. Owned'
  BY DEF Owned, Linked, Seasoned, Leaving
<1>5. Leaving'
  BY DEF Leaving, Linked, Seasoned
<1>6. Awaited'
  BY DEF Awaited, Owned, Seasoned
<1>7. ClosedUnlessRevived'
  BY DEF ClosedUnlessRevived, Closed, Quiet, Linked, Seasoned, Leaving
<1> QED
  BY <1>1, <1>2, <1>3, <1>4, <1>5, <1>6, <1>7

LEMMA CloseClientInv ==
  ASSUME Inv, CloseClient PROVE Inv'
<1> USE ConstantFacts DEF CloseClient, Disconnecting, managed, bounds, Inv, TypeOK
<1>1. TypeOK'
  BY DEF TypeOK
<1>2. Linked'
  BY DEF Linked
<1>3. Seasoned'
  BY DEF Seasoned, Quiet, Linked, Leaving
<1>4. Owned'
  BY DEF Owned, Linked, Seasoned, Leaving
<1>5. Leaving'
  BY DEF Leaving, Linked, Seasoned
<1>6. Awaited'
  BY DEF Awaited, Owned, Seasoned
<1>7. ClosedUnlessRevived'
  BY DEF ClosedUnlessRevived, Closed, Quiet, Linked, Seasoned, Leaving
<1> QED
  BY <1>1, <1>2, <1>3, <1>4, <1>5, <1>6, <1>7

LEMMA CloseAllInv ==
  ASSUME Inv, CloseAll PROVE Inv'
<1> USE ConstantFacts DEF CloseAll, Disconnecting, managed, bounds, Inv, TypeOK
<1>1. TypeOK'
  BY DEF TypeOK
<1>2. Linked'
  BY DEF Linked
<1>3. Seasoned'
  BY DEF Seasoned, Quiet, Linked, Leaving
<1>4. Owned'
  BY DEF Owned, Linked, Seasoned, Leaving
<1>5. Leaving'
  BY DEF Leaving, Linked, Seasoned
<1>6. Awaited'
  BY DEF Awaited, Owned, Seasoned
<1>7. ClosedUnlessRevived'
  BY DEF ClosedUnlessRevived, Closed, Quiet, Linked, Seasoned, Leaving
<1> QED
  BY <1>1, <1>2, <1>3, <1>4, <1>5, <1>6, <1>7

LEMMA ServerDownInv ==
  ASSUME Inv, ServerDown PROVE Inv'
<1> USE ConstantFacts DEF ServerDown, managed, bounds, Inv, TypeOK
<1>1. TypeOK'
  BY DEF TypeOK
<1>2. Linked'
  BY DEF Linked
<1>3. Seasoned'
  BY DEF Seasoned, Quiet, Linked, Leaving
<1>4. Owned'
  BY DEF Owned, Linked, Seasoned, Leaving
<1>5. Leaving'
  BY DEF Leaving, Linked, Seasoned
<1>6. Awaited'
  BY DEF Awaited, Owned, Seasoned
<1>7. ClosedUnlessRevived'
  BY DEF ClosedUnlessRevived, Closed, Quiet, Linked, Seasoned, Leaving
<1> QED
  BY <1>1, <1>2, <1>3, <1>4, <1>5, <1>6, <1>7

LEMMA ServerUpInv ==
  ASSUME Inv, ServerUp PROVE Inv'
<1> USE ConstantFacts DEF ServerUp, managed, bounds, Inv, TypeOK
<1>1. TypeOK'
  BY DEF TypeOK
<1>2. Linked'
  BY DEF Linked
<1>3. Seasoned'
  BY DEF Seasoned, Quiet, Linked, Leaving
<1>4. Owned'
  BY DEF Owned, Linked, Seasoned, Leaving
<1>5. Leaving'
  BY DEF Leaving, Linked, Seasoned
<1>6. Awaited'
  BY DEF Awaited, Owned, Seasoned
<1>7. ClosedUnlessRevived'
  BY DEF ClosedUnlessRevived, Closed, Quiet, Linked, Seasoned, Leaving
<1> QED
  BY <1>1, <1>2, <1>3, <1>4, <1>5, <1>6, <1>7

--------------------------------------------------------------------------------
(* The theorems. *)

LEMMA InitInv == Init => Inv
<1> SUFFICES ASSUME Init PROVE Inv
  OBVIOUS
<1> USE ConstantFacts DEF Init
<1>1. TypeOK
  BY DEF TypeOK
<1>2. Linked /\ Seasoned /\ Owned /\ Leaving /\ ClosedUnlessRevived
  BY DEF Linked, Seasoned, Owned, Leaving, ClosedUnlessRevived, Closed, Quiet
<1>3. Awaited
  BY DEF Awaited
<1> QED
  BY <1>1, <1>2, <1>3 DEF Inv

LEMMA NextInv == Inv /\ [Next]_vars => Inv'
<1> SUFFICES ASSUME Inv, [Next]_vars PROVE Inv'
  OBVIOUS
<1>1. ASSUME NEW k \in Client,
             Create(k) \/ Connected(k) \/ NotConnected(k) \/ ErrorWhileConnecting(k) \/ Reconnect(k) \/ LinkDrops(k)
               \/ RetryFails(k) \/ RetrySucceeds(k) \/ LibraryGivesUp(k) \/ Disconnected(k)
      PROVE Inv'
  BY <1>1, CreateInv, ConnectedInv, NotConnectedInv, ErrorWhileConnectingInv, ReconnectInv, LinkDropsInv, RetryFailsInv,
     RetrySucceedsInv, LibraryGivesUpInv, DisconnectedInv
<1>2. ASSUME NEW c \in Caller, Refuse(c) \/ Got(c) \/ Connect(c) \/ Again(c)
      PROVE Inv'
  BY <1>2, RefuseInv, GotInv, ConnectInv, AgainInv
<1>3. CASE CloseClient \/ CloseAll \/ ServerDown \/ ServerUp
  BY <1>3, CloseClientInv, CloseAllInv, ServerDownInv, ServerUpInv
<1>4. CASE UNCHANGED vars
  BY <1>4 DEF vars, managed, bounds, Inv, TypeOK, Linked, Seasoned, Owned, Leaving, Awaited, ClosedUnlessRevived, Closed, Quiet
<1> QED
  BY <1>1, <1>2, <1>3, <1>4 DEF Next

\* What closeClient() or closeAll() closed has no connection and no timer but for the named
\* cases, a client that getClient() hands out has a driver that is connected and a library
\* client, and no call waits for an attempt that nobody makes.
THEOREM UsableClients == Spec => []ClientsUsable
<1>1. Inv => ClosedUnlessRevived
  BY DEF Inv
<1>2. ASSUME Inv PROVE DriversUsable
  <2>1. TypeOK
    BY <1>2 DEF Inv
  <2>2. \A k \in Client : ever[k] /\ registered = k => connected[k] /\ link[k] \notin {"none", "opening"}
    BY <1>2 DEF Inv, Owned, Linked
  <2>3. \A k \in Client : connecting[k] # None <=> link[k] = "opening"
    BY <1>2 DEF Inv, Linked
  <2>4. \A k \in Client : connecting[k] # None => ~connected[k] /\ ~timer[k]
    BY <1>2 DEF Inv, Linked
  <2>5. \A c \in Caller : call[c].pc = "connecting" => connecting[call[c].of] # None
    BY <1>2 DEF Inv, Awaited
  <2>6. \A c \in Caller : call[c].pc = "got" => ever[call[c].of]
    BY <1>2 DEF Inv, Awaited
  <2> QED
    BY <2>1, <2>2, <2>3, <2>4, <2>5, <2>6 DEF DriversUsable
<1>3. Inv => ClientsUsable
  BY <1>1, <1>2 DEF ClientsUsable
<1> QED
  BY <1>3, InitInv, NextInv, PTL DEF Spec

--------------------------------------------------------------------------------
(* Observability. *)

ObservedTypeOK ==
  /\ config \in [registry : {"own", "external"}, collects : {"unset", "on", "off"}, prefix : Prefixes, force : BOOLEAN]
  /\ life \in {"off", "on", "closed", "failed"} /\ starts \in Nat
  /\ registry \in [Metric -> {"absent", "app", "plugin", "process"}] /\ known \subseteq Metric /\ apps \subseteq Metric
  /\ layers \in [RedisClient -> {-1, 0, 1}] /\ instrumented \in BOOLEAN
  /\ command \in [RedisCommand -> [pc : {"idle", "sent", "done"}, of : RedisClient \cup {"none"}, open : {0, 1}, ended : {0, 1},
                              external : BOOLEAN, due : BOOLEAN]]

\* While the service is up every client has one hook, and otherwise none.
HooksFollow == \A k \in RedisClient : layers[k] \in {-1, IF life = "on" THEN 1 ELSE 0}

\* The service knows every metric it registered, but those that a start left which failed; these
\* are standard ones, like those that it knows then. Default metrics show that it was started.
KnowsItsOwn ==
  /\ \A m \in Metric : registry[m] = "plugin" => m \in known \/ (life = "failed" /\ m \in Standard)
  /\ life = "failed" => known \subseteq Standard
  /\ life \in {"off", "closed"} => known = {}
  /\ \A m \in Metric : registry[m] = "process" => starts >= 1

\* Nobody else uses a registry of its own, which is new at every start.
KeepsItsOwn ==
  config.registry = "own" => /\ \A m \in Metric : registry[m] # "app"
                             /\ life # "on" => \A m \in Metric : registry[m] = "absent"

Guest == KnowsItsOwn /\ KeepsItsOwn /\ GuestLeaves
ObservedInv == ObservedTypeOK /\ HooksFollow /\ KnowsItsOwn /\ KeepsItsOwn /\ Observed

\* The names of the service's metrics are names of metrics, and stay.
LEMMA MetricNames ==
  ASSUME ObservedTypeOK
  PROVE  /\ Standard \subseteq Metric /\ Process \subseteq Metric /\ Wanted \subseteq Metric /\ Standard \subseteq Wanted
         /\ Collects => Process \subseteq Wanted
         /\ config' = config => Standard' = Standard /\ Process' = Process /\ Wanted' = Wanted /\ Collects' = Collects
<1>1. Standard \subseteq Metric /\ Process \subseteq Metric
  BY DEF ObservedTypeOK, Standard, Process, Metric
<1>2. config' = config => Standard' = Standard /\ Process' = Process /\ Collects' = Collects
  BY DEF Standard, Process, Collects
<1> QED BY <1>1, <1>2 DEF Wanted

\* Steps that leave the metrics and the life of the module alone.
LEMMA GuestStays ==
  ASSUME ObservedInv, UNCHANGED <<config, life, starts, registry, known, apps>>
  PROVE  Guest'
BY MetricNames DEF ObservedInv, Observed, KnowsItsOwn, KeepsItsOwn, Guest, GuestLeaves

\* Steps that leave the commands and the module's configuration alone.
LEMMA TracesStay == ASSUME ObservedInv, UNCHANGED <<config, command>> PROVE TracedOnce'
BY DEF ObservedInv, Observed, TracedOnce

\* The application's metrics and those it has the service register.
LEMMA RegistersInv ==
  ASSUME ObservedInv, NEW m \in Metric, AppRegisters(m) \/ Registers(m)
  PROVE  ObservedInv'
<1>1. UNCHANGED <<config, life, starts, layers, instrumented, command>>
  BY DEF AppRegisters, Registers, spans
<1>2. ObservedTypeOK'
  BY <1>1 DEF ObservedInv, ObservedTypeOK, AppRegisters, Registers
<1>3. HooksFollow'
  BY <1>1 DEF ObservedInv, HooksFollow
<1>4. /\ registry \in [Metric -> {"absent", "app", "plugin", "process"}] /\ registry[m] = "absent"
      /\ known \subseteq Metric /\ apps \subseteq Metric
  BY DEF ObservedInv, ObservedTypeOK, AppRegisters, Registers, Taken
<1>5. /\ Standard' = Standard /\ Process' = Process /\ Wanted' = Wanted /\ Collects' = Collects
      /\ Wanted \subseteq Metric /\ Process \subseteq Metric
  BY <1>1, MetricNames DEF ObservedInv
<1>6. Guest'
  <2>1. CASE AppRegisters(m)
    <3>1. config.registry = "external" /\ known' = known /\ registry' = [registry EXCEPT ![m] = "app"] /\ apps' = apps \cup {m}
      BY <2>1 DEF AppRegisters
    <3>2. KnowsItsOwn' /\ KeepsItsOwn'
      BY <1>1, <1>4, <1>5, <3>1 DEF ObservedInv, KnowsItsOwn, KeepsItsOwn
    <3>3. GuestLeaves'
      BY <1>1, <1>4, <1>5, <3>1 DEF ObservedInv, Observed, GuestLeaves
    <3> QED BY <3>2, <3>3 DEF Guest
  <2>2. CASE Registers(m)
    <3>1. life = "on" /\ apps' = apps /\ known' = known \cup {m} /\ registry' = [registry EXCEPT ![m] = "plugin"]
      BY <2>2 DEF Registers
    <3>2. KnowsItsOwn' /\ KeepsItsOwn'
      BY <1>1, <1>4, <1>5, <3>1 DEF ObservedInv, KnowsItsOwn, KeepsItsOwn
    <3>3. GuestLeaves'
      BY <1>1, <1>4, <1>5, <3>1 DEF ObservedInv, Observed, GuestLeaves
    <3> QED BY <3>2, <3>3 DEF Guest
  <2> QED BY <2>1, <2>2
<1> QED BY <1>1, <1>2, <1>3, <1>6, TracesStay DEF ObservedInv, Observed, Guest

\* The module is created, for the first time or again.
LEMMA StartModuleInv ==
  ASSUME ObservedInv, StartModule
  PROVE  ObservedInv'
<1>1. /\ config' = config /\ instrumented' = instrumented /\ life \in {"off", "closed", "failed"} /\ starts' = starts + 1
      /\ layers' = [k \in RedisClient |-> -1] /\ command' = [c \in RedisCommand |-> Idle] /\ starts \in Nat
  BY DEF StartModule, ObservedInv, ObservedTypeOK, Idle
<1>2. /\ Standard' = Standard /\ Process' = Process /\ Wanted' = Wanted /\ Collects' = Collects
      /\ Wanted \subseteq Metric /\ Process \subseteq Metric /\ Standard \subseteq Wanted
  BY <1>1, MetricNames DEF ObservedInv
<1>3. registry \in [Metric -> {"absent", "app", "plugin", "process"}] /\ apps \subseteq Metric
  BY DEF ObservedInv, ObservedTypeOK
<1>4. HooksFollow' /\ TracedOnce'
  BY <1>1 DEF HooksFollow, TracedOnce, Idle
\* What was registered before the first name that is taken, or everything.
<1>5. PICK before \in SUBSET Wanted :
        /\ UpToTaken(before) /\ Registered(before)
        /\ \/ life' = "failed" /\ \E m \in Wanted : Taken(m)
           \/ life' = "on" /\ before = Wanted
  BY <1>2 DEF StartModule, UpToTaken
<1>6. /\ known' = before \cap Standard /\ apps' = apps
      /\ registry' = [m \in Metric |-> IF m \in before \cap Standard THEN "plugin" ELSE IF m \in before THEN "process" ELSE registry[m]]
      /\ \A m \in before : registry[m] = "absent" /\ (m \notin Standard => m \in Process /\ Collects)
  BY <1>5 DEF Registered, UpToTaken, Taken, Wanted
<1>7. ObservedTypeOK'
  BY <1>1, <1>2, <1>3, <1>5, <1>6 DEF ObservedInv, ObservedTypeOK, Idle
<1>8. /\ \A m \in apps : registry[m] = "app"
      /\ \A m \in Metric : registry[m] = "plugin" => life = "failed" /\ m \in Standard
      /\ \A m \in Metric : registry[m] = "process" => m \in Process /\ Collects /\ starts >= 1 /\ config.registry # "own"
      /\ config.registry = "own" => \A m \in Metric : registry[m] = "absent"
  BY <1>1, <1>3 DEF ObservedInv, Observed, GuestLeaves, KnowsItsOwn, KeepsItsOwn
<1>9. life' = "on" => \A m \in Metric : registry'[m] = "plugin" => m \in known'
  BY <1>2, <1>5, <1>6, <1>8
<1>10. life' = "failed" => /\ config.registry # "own"
                           /\ \/ \E m \in Wanted : registry[m] = "app"
                              \/ \E m \in Process : registry[m] = "process"
  <2> SUFFICES ASSUME life' = "failed"
               PROVE  /\ config.registry # "own"
                      /\ \/ \E m \in Wanted : registry[m] = "app"
                         \/ \E m \in Process : registry[m] = "process"
    OBVIOUS
  <2>1. PICK m \in Wanted : registry[m] # "absent"
    BY <1>5 DEF Taken
  <2>2. config.registry # "own"
    BY <1>2, <1>8, <2>1
  <2>3. CASE life = "failed"
    BY <2>2, <2>3 DEF ObservedInv, Observed, GuestLeaves
  <2>4. CASE life # "failed"
    BY <1>2, <1>3, <1>8, <2>1, <2>2, <2>4
  <2> QED BY <2>3, <2>4
<1>11. KnowsItsOwn' /\ KeepsItsOwn'
  BY <1>1, <1>2, <1>5, <1>6, <1>8, <1>9, <1>10 DEF KnowsItsOwn, KeepsItsOwn
<1>12. GuestLeaves'
  <2>1. /\ \A m \in apps' : registry'[m] = "app"
        /\ \A m \in known' : registry'[m] = "plugin"
    BY <1>2, <1>3, <1>5, <1>6, <1>8
  <2>2. \A m \in Metric : registry'[m] = "process" => m \in Process /\ Collects /\ (config.registry = "own" => life' = "on")
    BY <1>5, <1>6, <1>8, <1>10
  <2>3. life' = "failed" => \/ \E m \in Wanted : registry'[m] = "app"
                            \/ starts' > 1 /\ \E m \in Process : registry'[m] = "process"
    <3> SUFFICES ASSUME life' = "failed"
                 PROVE  \/ \E m \in Wanted : registry'[m] = "app"
                        \/ starts' > 1 /\ \E m \in Process : registry'[m] = "process"
      OBVIOUS
    <3>1. CASE \E m \in Wanted : registry[m] = "app"
      BY <1>2, <1>6, <3>1
    <3>2. CASE \E m \in Process : registry[m] = "process"
      BY <1>1, <1>2, <1>6, <1>8, <3>2
    <3> QED BY <1>10, <3>1, <3>2
  <2> QED BY <1>1, <1>2, <1>5, <2>1, <2>2, <2>3 DEF GuestLeaves
<1> QED BY <1>4, <1>7, <1>11, <1>12 DEF ObservedInv, Observed

\* Closed, the module takes its metrics out of the registry, or clears its own.
LEMMA CloseModuleInv ==
  ASSUME ObservedInv, CloseModule
  PROVE  ObservedInv'
<1>1. /\ UNCHANGED <<config, instrumented, command, starts, apps>> /\ life = "on" /\ life' = "closed" /\ known' = {}
      /\ registry' = [m \in Metric |-> IF m \in Removed THEN "absent" ELSE registry[m]]
      /\ layers' = [k \in RedisClient |-> IF layers[k] = -1 THEN -1 ELSE 0]
  BY DEF CloseModule, locks
<1>2. /\ registry \in [Metric -> {"absent", "app", "plugin", "process"}] /\ apps \subseteq Metric
      /\ \A m \in Metric : registry[m] = "plugin" => m \in Removed
  BY <1>1 DEF ObservedInv, ObservedTypeOK, KnowsItsOwn, Removed
<1>3. /\ \A m \in apps : m \notin Removed /\ registry[m] = "app"
      /\ config.registry = "own" => Removed = Metric
  BY <1>2 DEF ObservedInv, Observed, GuestLeaves, KeepsItsOwn, Removed
<1>4. Collects' = Collects /\ Process' = Process
  BY <1>1, MetricNames DEF ObservedInv
<1>5. KnowsItsOwn' /\ KeepsItsOwn'
  BY <1>1, <1>2, <1>3 DEF ObservedInv, KnowsItsOwn, KeepsItsOwn
<1>6. GuestLeaves'
  BY <1>1, <1>2, <1>3, <1>4 DEF ObservedInv, Observed, GuestLeaves
<1>7. HooksFollow'
  BY <1>1 DEF HooksFollow
<1>8. ObservedTypeOK'
  BY <1>1, <1>2 DEF ObservedInv, ObservedTypeOK
<1> QED BY <1>1, <1>5, <1>6, <1>7, <1>8, TracesStay DEF ObservedInv, Observed

\* Clients that are created and hooks that are set again.
LEMMA HooksInv ==
  ASSUME ObservedInv, Rehook \/ Toggle \/ \E k \in RedisClient : CreateClient(k)
  PROVE  ObservedInv'
<1>1. UNCHANGED <<config, life, starts, registry, known, apps, command>>
  BY DEF Rehook, Toggle, CreateClient, metrics
<1>2. layers \in [RedisClient -> {-1, 0, 1}] /\ instrumented \in BOOLEAN
  BY DEF ObservedInv, ObservedTypeOK
<1>3. /\ layers' \in [RedisClient -> {-1, 0, 1}] /\ instrumented' \in BOOLEAN
      /\ \A k \in RedisClient : layers'[k] \in {layers[k], -1} \/ (life = "on" /\ layers'[k] = 1)
  <2>1. CASE Rehook
    BY <1>2, <2>1 DEF Rehook, Wrapped
  <2>2. CASE Toggle
    BY <1>2, <2>2 DEF Toggle
  <2>3. ASSUME NEW k \in RedisClient, CreateClient(k)
        PROVE  /\ layers' \in [RedisClient -> {-1, 0, 1}] /\ instrumented' \in BOOLEAN
               /\ \A j \in RedisClient : layers'[j] \in {layers[j], -1} \/ (life = "on" /\ layers'[j] = 1)
    BY <1>2, <2>3 DEF CreateClient, Created, Hooked
  <2> QED BY <2>1, <2>2, <2>3
<1>4. HooksFollow'
  BY <1>1, <1>3 DEF ObservedInv, HooksFollow
<1>5. ObservedTypeOK'
  BY <1>1, <1>3 DEF ObservedInv, ObservedTypeOK
<1> QED BY <1>1, <1>4, <1>5, GuestStays, TracesStay DEF Guest, ObservedInv, Observed

\* A command is sent: it has a span exactly when one is due.
LEMMA SendInv ==
  ASSUME ObservedInv, NEW c \in RedisCommand, NEW k \in RedisClient, Send(c, k)
  PROVE  ObservedInv'
<1>1. UNCHANGED <<config, life, starts, registry, known, apps, layers, instrumented>> /\ layers[k] # -1
  BY DEF Send, metrics
<1>2. /\ config.force \in BOOLEAN /\ instrumented \in BOOLEAN /\ layers[k] \in {0, 1} /\ (layers[k] = 1 <=> life = "on")
  BY <1>1 DEF ObservedInv, ObservedTypeOK, HooksFollow
<1>3. PICK skipped \in BOOLEAN :
        command' = [command EXCEPT ![c] = [pc |-> "sent", of |-> k, open |-> OpensSpans(k, skipped), ended |-> 0, external |-> instrumented,
                                           due |-> Hooked /\ ~skipped /\ (config.force \/ ~instrumented)]]
  BY DEF Send
<1> DEFINE due == Hooked /\ ~skipped /\ (config.force \/ ~instrumented)
           new == [pc |-> "sent", of |-> k, open |-> OpensSpans(k, skipped), ended |-> 0, external |-> instrumented, due |-> due]
<1>4. due \in BOOLEAN /\ OpensSpans(k, skipped) = (IF due THEN 1 ELSE 0) /\ (instrumented /\ due => config.force)
  BY <1>2, <1>3 DEF OpensSpans, Hooked
<1>5. command' = [command EXCEPT ![c] = new]
  BY <1>3
<1>6. /\ new.pc = "sent" /\ new.of = k /\ new.open = (IF due THEN 1 ELSE 0) /\ new.ended = 0
      /\ new.external = instrumented /\ new.due = due
  BY <1>4
<1>7. new \in [pc : {"idle", "sent", "done"}, of : RedisClient \cup {"none"}, open : {0, 1}, ended : {0, 1},
               external : BOOLEAN, due : BOOLEAN]
  <2>1. OpensSpans(k, skipped) \in {0, 1} BY <1>4
  <2> HIDE DEF due
  <2> QED BY <1>2, <1>4, <2>1
<1> HIDE DEF new, due
<1>8. ObservedTypeOK'
  BY <1>1, <1>5, <1>7 DEF ObservedInv, ObservedTypeOK
<1>9. TracedOnce'
  <2>1. ASSUME NEW d \in RedisCommand PROVE command'[d] = (IF d = c THEN new ELSE command[d])
    BY <1>5 DEF ObservedInv, ObservedTypeOK
  <2> QED BY <1>1, <1>4, <1>6, <2>1 DEF ObservedInv, Observed, TracedOnce
<1>10. HooksFollow'
  BY <1>1 DEF ObservedInv, HooksFollow
<1> QED BY <1>1, <1>8, <1>9, <1>10, GuestStays DEF Guest, ObservedInv, Observed

\* It is answered.
LEMMA AnsweredInv ==
  ASSUME ObservedInv, NEW c \in RedisCommand, Answered(c)
  PROVE  ObservedInv'
<1>1. UNCHANGED <<config, life, starts, registry, known, apps, layers, instrumented>>
  BY DEF Answered, metrics
<1>2. /\ command \in [RedisCommand -> [pc : {"idle", "sent", "done"}, of : RedisClient \cup {"none"}, open : {0, 1}, ended : {0, 1},
                                  external : BOOLEAN, due : BOOLEAN]]
      /\ command' = [command EXCEPT ![c].pc = "done", ![c].open = 0, ![c].ended = command[c].open] /\ command[c].pc = "sent"
  BY DEF Answered, ObservedInv, ObservedTypeOK
<1>3. ObservedTypeOK'
  <2>1. command[c].open \in {0, 1} /\ command[c] \in [pc : {"idle", "sent", "done"}, of : RedisClient \cup {"none"},
                                                      open : {0, 1}, ended : {0, 1}, external : BOOLEAN, due : BOOLEAN]
    BY <1>2
  <2>2. command' = [command EXCEPT ![c] = [command[c] EXCEPT !.pc = "done", !.open = 0, !.ended = command[c].open]]
    BY <1>2
  <2>3. [command[c] EXCEPT !.pc = "done", !.open = 0, !.ended = command[c].open]
          \in [pc : {"idle", "sent", "done"}, of : RedisClient \cup {"none"}, open : {0, 1}, ended : {0, 1},
              external : BOOLEAN, due : BOOLEAN]
    BY <2>1
  <2>4. command' \in [RedisCommand -> [pc : {"idle", "sent", "done"}, of : RedisClient \cup {"none"}, open : {0, 1}, ended : {0, 1},
                                  external : BOOLEAN, due : BOOLEAN]]
    BY <1>2, <2>2, <2>3
  <2> QED BY <1>1, <2>4 DEF ObservedInv, ObservedTypeOK
<1>4. TracedOnce'
  BY <1>1, <1>2 DEF ObservedInv, Observed, TracedOnce
<1>5. HooksFollow'
  BY <1>1 DEF ObservedInv, HooksFollow
<1> QED BY <1>1, <1>3, <1>4, <1>5, GuestStays DEF Guest, ObservedInv, Observed

LEMMA ObservedInitInv == ObservedInit => ObservedInv
<1> SUFFICES ASSUME ObservedInit PROVE ObservedInv OBVIOUS
<1>1. ObservedTypeOK BY DEF ObservedInit, ObservedTypeOK, Idle
<1>2. HooksFollow /\ KnowsItsOwn /\ KeepsItsOwn /\ GuestLeaves BY DEF ObservedInit, HooksFollow, KnowsItsOwn, KeepsItsOwn, GuestLeaves
<1>3. TracedOnce BY DEF ObservedInit, TracedOnce, Idle
<1> QED BY <1>1, <1>2, <1>3 DEF ObservedInv, Observed

LEMMA ObservedNextInv == ASSUME ObservedInv, [ObservedNext]_observedVars PROVE ObservedInv'
<1>1. CASE UNCHANGED observedVars
  BY <1>1, GuestStays, TracesStay DEF Guest, ObservedInv, Observed, observedVars, metrics, spans, ObservedTypeOK, HooksFollow
<1>2. ASSUME NEW l \in Mutex, LockAcquired(l) \/ \E within \in BOOLEAN : LockReleased(l, within)
      PROVE  ObservedInv'
  <2>1. UNCHANGED <<config, life, starts, registry, known, apps, layers, instrumented, command>>
    BY <1>2 DEF LockAcquired, LockReleased, metrics, spans
  <2> QED BY <2>1, GuestStays, TracesStay DEF Guest, ObservedInv, Observed, ObservedTypeOK, HooksFollow
<1> QED BY <1>1, <1>2, StartModuleInv, CloseModuleInv, HooksInv, RegistersInv, SendInv, AnsweredInv DEF ObservedNext

\* A command sent through any client while the service is up has exactly one span, none beside
\* an external instrumentation unless both are asked for, however often hooks are set again; and
\* in a registry of the application the module never removes what is not its own and, closed, leaves
\* only the default metrics that it was told to collect: only these, after an earlier start, or
\* a name that the application took keep it from starting.
THEOREM ObservedOnce == ObservedSpec => []Observed
<1>1. ObservedInv => Observed BY DEF ObservedInv
<1> QED BY <1>1, ObservedInitInv, ObservedNextInv, PTL DEF ObservedSpec

--------------------------------------------------------------------------------
(* GuardedCalls: the inductive invariant. *)

Passed == {"bare", "holds", "admitted"}
Deeds == Passed \cup {"none", "refused", "error", "rejected"}
\* What is recorded for one guard.
Unrecorded == <<>>
OneSuccess == <<"success">>
OneFailure == <<"failure">>
Verdicts == {Unrecorded, OneSuccess, OneFailure}
Outcomes == Errors \cup {"none", "value", "skipped", "fallback"}
CallRecord == [stack : Seq(AnyGuard), at : Nat, did : Seq(Deeds), out : Outcomes, ran : 0..1, phase : {"new", "in", "out", "done"}]

\* What one call r and its records w are like: on the way in it has passed the guards before `at`
\* and no other; on the way out it still has to leave those up to `at`.
Shaped(r, w) == r \in CallRecord /\ Len(r.did) = Len(r.stack) /\ w = [i \in 1..Len(r.stack) |-> w[i]]
Placed(r) ==
  /\ r.phase = "new" => r.stack = <<>> /\ r.ran = 0 /\ r.out = "none"
  /\ r.phase = "in" => /\ r.at \in 1..(Len(r.stack) + 1) /\ r.ran = 0 /\ r.out = "none"
                       /\ \A i \in 1..Len(r.stack) : IF i < r.at THEN r.did[i] \in Passed ELSE r.did[i] = "none"
  /\ r.phase = "out" => r.at \in 0..Len(r.stack) /\ \A i \in 1..Len(r.stack) : i <= r.at => r.did[i] \in Passed
  /\ r.phase = "done" => r.at = 0
  /\ \A i \in 1..Len(r.stack) : r.did[i] = "holds" => r.stack[i].kind = "lock"
  /\ r.out = "value" => r.ran = 1
Recorded(r, w) ==
  \A i \in 1..Len(r.stack) :
    /\ w[i] \in Verdicts
    /\ w[i] # Unrecorded => r.did[i] = "admitted" /\ r.phase \in {"out", "done"} /\ i > r.at
    /\ w[i] = OneSuccess => Ok(r.out)
    /\ w[i] = OneFailure => r.out # "value"
CallFits(r, w) == Shaped(r, w) /\ Placed(r) /\ Recorded(r, w)

\* Of every guard that admitted it and that it left, the outcome was recorded.
Complete(r, w) ==
  r.phase \in {"out", "done"} => \A i \in 1..Len(r.stack) : i > r.at /\ r.did[i] = "admitted" => w[i] # Unrecorded

\* The locks a call holds: those of guards that it passed and has not left.
HeldAt(r, i) == r.did[i] = "holds" /\ (r.phase = "in" \/ (r.phase = "out" /\ i <= r.at))

CallsFit == calls = [d \in GuardedCall |-> calls[d]] /\ records = [d \in GuardedCall |-> records[d]] /\ \A c \in GuardedCall : CallFits(calls[c], records[c])
OwnersTyped == owner \in [LockKey -> (GuardedCall \X Nat) \cup {Nobody}] /\ faults \in Nat
LocksHeld ==
  \A c \in GuardedCall : \A i \in 1..Len(calls[c].stack) : HeldAt(calls[c], i) => owner[calls[c].stack[i].key] = <<c, i>>
OwnersHold ==
  faults = 0 => \A k \in LockKey :
    owner[k] # Nobody => \E c \in GuardedCall : \E i \in 1..Len(calls[c].stack) :
                           owner[k] = <<c, i>> /\ HeldAt(calls[c], i) /\ calls[c].stack[i].key = k
AllRecorded == faults = 0 => \A c \in GuardedCall : Complete(calls[c], records[c])

GuardsInv == CallsFit /\ OwnersTyped /\ LocksHeld /\ OwnersHold /\ AllRecorded

--------------------------------------------------------------------------------
(* GuardedCalls: what one step changes. *)

LEMMA VerdictsDiffer ==
  /\ Unrecorded # OneSuccess /\ Unrecorded # OneFailure /\ OneSuccess # OneFailure
  /\ Len(Unrecorded) = 0 /\ Len(OneSuccess) = 1 /\ Len(OneFailure) = 1
BY DEF Unrecorded, OneSuccess, OneFailure

\* Steps that change one call, and how the calls' part of the invariant follows from what it became.
LEMMA OneCall ==
  ASSUME GuardsInv, NEW c \in GuardedCall, NEW r, NEW w,
         calls' = [calls EXCEPT ![c] = r], records' = [records EXCEPT ![c] = w], CallFits(r, w),
         faults' \in Nat, faults' = 0 => faults = 0 /\ Complete(r, w)
  PROVE  CallsFit' /\ AllRecorded' /\ \A d \in GuardedCall : calls'[d] = (IF d = c THEN r ELSE calls[d])
<1>1. calls = [d \in GuardedCall |-> calls[d]] /\ records = [d \in GuardedCall |-> records[d]]
  BY DEF GuardsInv, CallsFit
<1>2. /\ calls' = [d \in GuardedCall |-> calls'[d]] /\ records' = [d \in GuardedCall |-> records'[d]]
      /\ \A d \in GuardedCall : calls'[d] = (IF d = c THEN r ELSE calls[d]) /\ records'[d] = (IF d = c THEN w ELSE records[d])
  BY <1>1
<1>3. \A d \in GuardedCall : CallFits(calls'[d], records'[d])
  <2> TAKE d \in GuardedCall
  <2>1. CASE d = c BY <1>2, <2>1
  <2>2. CASE d # c BY <1>2, <2>2 DEF GuardsInv, CallsFit
  <2> QED BY <2>1, <2>2
<1>4. AllRecorded'
  <2> SUFFICES ASSUME faults' = 0, NEW d \in GuardedCall PROVE Complete(calls'[d], records'[d])
    BY DEF AllRecorded
  <2>1. CASE d = c BY <1>2, <2>1
  <2>2. CASE d # c BY <1>2, <2>2 DEF GuardsInv, AllRecorded
  <2> QED BY <2>1, <2>2
<1> QED BY <1>2, <1>3, <1>4 DEF CallsFit

\* When a call becomes r, holding the locks it held, and the owners stay, so do their facts.
LEMMA SameLocks ==
  ASSUME GuardsInv, NEW c \in GuardedCall, NEW r, r.stack = calls[c].stack, owner' = owner, faults' = 0 => faults = 0,
         \A d \in GuardedCall : calls'[d] = (IF d = c THEN r ELSE calls[d]),
         \A i \in 1..Len(r.stack) : HeldAt(r, i) <=> HeldAt(calls[c], i)
  PROVE  LocksHeld' /\ OwnersHold'
<1>1. \A d \in GuardedCall : calls'[d].stack = calls[d].stack
  OBVIOUS
<1>2. \A d \in GuardedCall : \A i \in 1..Len(calls[d].stack) : HeldAt(calls'[d], i) <=> HeldAt(calls[d], i)
  OBVIOUS
<1> HIDE DEF HeldAt
<1>3. LocksHeld'
  <2> SUFFICES ASSUME NEW d \in GuardedCall, NEW i \in 1..Len(calls'[d].stack), HeldAt(calls'[d], i)
               PROVE  owner'[calls'[d].stack[i].key] = <<d, i>>
    BY DEF LocksHeld
  <2>1. i \in 1..Len(calls[d].stack) /\ HeldAt(calls[d], i)
    BY <1>1, <1>2
  <2> QED BY <1>1, <2>1 DEF LocksHeld, GuardsInv
<1>4. OwnersHold'
  BY <1>1, <1>2 DEF OwnersHold, GuardsInv
<1> QED BY <1>3, <1>4

\* A call that enters a guard has passed those before it and not this one.
LEMMA EnteringFacts ==
  ASSUME GuardsInv, NEW c \in GuardedCall, NEW kind, Entering(c, kind)
  PROVE  /\ CallFits(calls[c], records[c]) /\ calls[c].phase = "in" /\ calls[c].at \in 1..Len(calls[c].stack)
         /\ Guard(c) \in AnyGuard /\ Guard(c).kind = kind /\ calls[c].did[calls[c].at] = "none"
<1>1. CallFits(calls[c], records[c]) /\ calls[c].phase = "in" /\ calls[c].at <= Len(calls[c].stack) /\ Guard(c).kind = kind
  BY DEF GuardsInv, CallsFit, Entering
<1>2. calls[c].at \in 1..Len(calls[c].stack)
  BY <1>1 DEF CallFits, Shaped, Placed, CallRecord
<1>3. Guard(c) \in AnyGuard
  BY <1>1, <1>2 DEF CallFits, Shaped, CallRecord, Guard
<1>4. calls[c].did[calls[c].at] = "none"
  BY <1>1, <1>2 DEF CallFits, Placed
<1> QED BY <1>1, <1>2, <1>3, <1>4

\* What a lock guard names.
LEMMA LockFacts ==
  ASSUME NEW g \in AnyGuard, g.kind = "lock"
  PROVE  g.key \in LockKey /\ g.on \in LockModes
BY DEF AnyGuard, Lock, Breaker

LEMMA BreakerFacts ==
  ASSUME NEW g \in AnyGuard, g.kind = "breaker"
  PROVE  g.on \in BreakerModes
BY DEF AnyGuard, Lock, Breaker

\* One step of a call that goes a guard further in.
LEMMA GoesIn ==
  ASSUME GuardsInv, NEW c \in GuardedCall, NEW kind, Entering(c, kind), NEW deed \in Passed, deed = "holds" => kind = "lock",
         Inward(c, deed), records' = records, faults' \in Nat, faults' = 0 => faults = 0
  PROVE  /\ CallsFit' /\ AllRecorded'
         /\ \E r : /\ r.stack = calls[c].stack /\ \A d \in GuardedCall : calls'[d] = (IF d = c THEN r ELSE calls[d])
                   /\ \A i \in 1..Len(r.stack) :
                        HeldAt(r, i) <=> HeldAt(calls[c], i) \/ (deed = "holds" /\ i = calls[c].at)
<1> DEFINE old == calls[c]
           r == [old EXCEPT !.did = [old.did EXCEPT ![old.at] = deed], !.at = old.at + 1]
<1>1. /\ CallFits(old, records[c]) /\ old.phase = "in" /\ old.at \in 1..Len(old.stack)
      /\ old.stack[old.at] \in AnyGuard /\ old.stack[old.at].kind = kind /\ old.did[old.at] = "none"
  BY EnteringFacts DEF Guard
<1>2. old \in CallRecord /\ Len(old.did) = Len(old.stack) /\ records[c] = [i \in 1..Len(old.stack) |-> records[c][i]]
  BY <1>1 DEF CallFits, Shaped
<1>3. calls = [d \in GuardedCall |-> calls[d]] /\ records = [d \in GuardedCall |-> records[d]]
  BY DEF GuardsInv, CallsFit
<1>4. calls' = [calls EXCEPT ![c] = r] /\ records' = [records EXCEPT ![c] = records[c]]
  BY <1>2, <1>3 DEF Inward, CallRecord
<1>5. /\ [old.did EXCEPT ![old.at] = deed] \in Seq(Deeds) /\ Len([old.did EXCEPT ![old.at] = deed]) = Len(old.did)
      /\ \A i \in 1..Len(old.did) : [old.did EXCEPT ![old.at] = deed][i] = (IF i = old.at THEN deed ELSE old.did[i])
  <2>1. old.did \in Seq(Deeds) /\ old.at \in 1..Len(old.did) /\ deed \in Deeds
    BY <1>1, <1>2 DEF CallRecord, Deeds
  <2> QED BY <2>1, ExceptSeq
<1>6. /\ r.stack = old.stack /\ r.at = old.at + 1 /\ r.out = old.out /\ r.ran = old.ran /\ r.phase = old.phase
      /\ r.did = [old.did EXCEPT ![old.at] = deed] /\ r \in CallRecord
  <2>1. old.at + 1 \in Nat BY <1>1
  <2> QED BY <1>2, <1>5, <2>1 DEF CallRecord
<1> HIDE DEF r
<1>7. Shaped(r, records[c])
  BY <1>2, <1>5, <1>6 DEF Shaped
<1>8. Placed(r)
  <2>1. Placed(old) /\ Len(old.stack) \in Nat BY <1>1, <1>2 DEF CallFits, CallRecord
  <2>2. r.phase = "in" /\ r.at \in 1..(Len(r.stack) + 1) /\ r.ran = 0 /\ r.out = "none"
    BY <1>1, <1>6, <2>1 DEF Placed
  <2>3. ASSUME NEW i \in 1..Len(r.stack) PROVE IF i < r.at THEN r.did[i] \in Passed ELSE r.did[i] = "none"
    BY <1>1, <1>2, <1>5, <1>6, <2>1, <2>3 DEF Placed
  <2>4. ASSUME NEW i \in 1..Len(r.stack), r.did[i] = "holds" PROVE r.stack[i].kind = "lock"
    BY <1>1, <1>2, <1>5, <1>6, <2>1, <2>4 DEF Placed
  <2> QED BY <2>2, <2>3, <2>4 DEF Placed
<1>9. Recorded(r, records[c])
  <2>1. Recorded(old, records[c]) BY <1>1 DEF CallFits
  <2>2. \A i \in 1..Len(r.stack) : records[c][i] = Unrecorded
    BY <1>1, <1>6, <2>1 DEF Recorded
  <2> QED BY <2>2, VerdictsDiffer DEF Recorded, Verdicts
<1>10. Complete(r, records[c])
  BY <1>1, <1>6 DEF Complete
<1>11. CallsFit' /\ AllRecorded' /\ \A d \in GuardedCall : calls'[d] = (IF d = c THEN r ELSE calls[d])
  BY <1>4, <1>7, <1>8, <1>9, <1>10, OneCall DEF CallFits
<1>12. \A i \in 1..Len(r.stack) : HeldAt(r, i) <=> HeldAt(old, i) \/ (deed = "holds" /\ i = old.at)
  BY <1>1, <1>2, <1>5, <1>6 DEF HeldAt
<1> QED BY <1>6, <1>11, <1>12

\* One step of a call that a guard turns back.
LEMMA TurnsBack ==
  ASSUME GuardsInv, NEW c \in GuardedCall, NEW kind, Entering(c, kind), NEW deed \in {"refused", "error", "rejected"},
         NEW out \in Outcomes \ {"none", "value"},
         Turns(c, deed, out), records' = records, faults' \in Nat, faults' = 0 => faults = 0
  PROVE  /\ CallsFit' /\ AllRecorded'
         /\ \E r : /\ r.stack = calls[c].stack /\ \A d \in GuardedCall : calls'[d] = (IF d = c THEN r ELSE calls[d])
                   /\ \A i \in 1..Len(r.stack) : HeldAt(r, i) <=> HeldAt(calls[c], i)
<1> DEFINE old == calls[c]
           r == [old EXCEPT !.did = [old.did EXCEPT ![old.at] = deed], !.at = old.at - 1, !.out = out, !.phase = "out"]
<1>1. /\ CallFits(old, records[c]) /\ old.phase = "in" /\ old.at \in 1..Len(old.stack) /\ old.did[old.at] = "none"
  BY EnteringFacts
<1>2. old \in CallRecord /\ Len(old.did) = Len(old.stack) /\ records[c] = [i \in 1..Len(old.stack) |-> records[c][i]]
  BY <1>1 DEF CallFits, Shaped
<1>3. calls = [d \in GuardedCall |-> calls[d]] /\ records = [d \in GuardedCall |-> records[d]]
  BY DEF GuardsInv, CallsFit
<1>4. calls' = [calls EXCEPT ![c] = r] /\ records' = [records EXCEPT ![c] = records[c]]
  BY <1>2, <1>3 DEF Turns, CallRecord
<1>5. /\ [old.did EXCEPT ![old.at] = deed] \in Seq(Deeds) /\ Len([old.did EXCEPT ![old.at] = deed]) = Len(old.did)
      /\ \A i \in 1..Len(old.did) : [old.did EXCEPT ![old.at] = deed][i] = (IF i = old.at THEN deed ELSE old.did[i])
  <2>1. old.did \in Seq(Deeds) /\ old.at \in 1..Len(old.did) /\ deed \in Deeds
    BY <1>1, <1>2 DEF CallRecord, Deeds
  <2> QED BY <2>1, ExceptSeq
<1>6. /\ r.stack = old.stack /\ r.at = old.at - 1 /\ r.out = out /\ r.ran = old.ran /\ r.phase = "out"
      /\ r.did = [old.did EXCEPT ![old.at] = deed] /\ r \in CallRecord
  <2>1. old.at - 1 \in Nat BY <1>1
  <2> QED BY <1>2, <1>5, <2>1 DEF CallRecord
<1> HIDE DEF r
<1>7. Shaped(r, records[c])
  BY <1>2, <1>5, <1>6 DEF Shaped
<1>8. Placed(r)
  <2>1. Placed(old) /\ Len(old.stack) \in Nat BY <1>1, <1>2 DEF CallFits, CallRecord
  <2>2. r.phase = "out" /\ r.at \in 0..Len(r.stack) /\ r.out # "value"
    BY <1>1, <1>6, <2>1
  <2>3. ASSUME NEW i \in 1..Len(r.stack), i <= r.at PROVE r.did[i] \in Passed
    BY <1>1, <1>2, <1>5, <1>6, <2>1, <2>3 DEF Placed
  <2>4. ASSUME NEW i \in 1..Len(r.stack), r.did[i] = "holds" PROVE r.stack[i].kind = "lock"
    BY <1>1, <1>2, <1>5, <1>6, <2>1, <2>4 DEF Placed
  <2> QED BY <2>2, <2>3, <2>4 DEF Placed
<1>9. Recorded(r, records[c])
  <2>1. Recorded(old, records[c]) BY <1>1 DEF CallFits
  <2>2. \A i \in 1..Len(r.stack) : records[c][i] = Unrecorded
    BY <1>1, <1>6, <2>1 DEF Recorded
  <2> QED BY <2>2, VerdictsDiffer DEF Recorded, Verdicts
<1>10. Complete(r, records[c])
  <2> SUFFICES ASSUME NEW i \in 1..Len(r.stack), i > r.at PROVE r.did[i] # "admitted"
    BY DEF Complete
  <2>1. Placed(old) /\ Len(old.stack) \in Nat BY <1>1, <1>2 DEF CallFits, CallRecord
  <2>2. CASE i = old.at BY <1>2, <1>5, <1>6, <2>2
  <2>3. CASE i # old.at
    <3>1. ~(i < old.at) BY <1>1, <1>6, <2>1, <2>3
    <3> QED BY <1>1, <1>2, <1>5, <1>6, <2>1, <2>3, <3>1 DEF Placed
  <2> QED BY <2>2, <2>3
<1>11. CallsFit' /\ AllRecorded' /\ \A d \in GuardedCall : calls'[d] = (IF d = c THEN r ELSE calls[d])
  BY <1>4, <1>7, <1>8, <1>9, <1>10, OneCall DEF CallFits
<1>12. \A i \in 1..Len(r.stack) : HeldAt(r, i) <=> HeldAt(old, i)
  <2> TAKE i \in 1..Len(r.stack)
  <2>1. Placed(old) /\ Len(old.stack) \in Nat BY <1>1, <1>2 DEF CallFits, CallRecord
  <2>2. CASE i = old.at BY <1>1, <1>2, <1>5, <1>6, <2>2 DEF HeldAt
  <2>3. CASE i # old.at
    <3>1. r.did[i] = old.did[i] BY <1>2, <1>5, <1>6, <2>3
    <3>2. old.did[i] = "holds" => i < old.at BY <1>1, <1>6, <2>1 DEF Placed
    <3>3. i < old.at => i <= r.at BY <1>1, <1>6, <2>1
    <3> QED BY <1>1, <1>6, <3>1, <3>2, <3>3 DEF HeldAt
  <2> QED BY <2>2, <2>3
<1> QED BY <1>6, <1>11, <1>12

\* A call on its way out has passed the guard it is at.
LEMMA LeavingFacts ==
  ASSUME GuardsInv, NEW c \in GuardedCall, NEW deed \in Passed, Did(c, deed)
  PROVE  /\ CallFits(calls[c], records[c]) /\ calls[c].phase = "out" /\ calls[c].at \in 1..Len(calls[c].stack)
         /\ Guard(c) \in AnyGuard /\ calls[c].did[calls[c].at] = deed /\ records[c][calls[c].at] = Unrecorded
         /\ deed = "holds" => Guard(c).kind = "lock"
<1>1. CallFits(calls[c], records[c]) /\ calls[c].phase = "out" /\ calls[c].at > 0 /\ calls[c].did[calls[c].at] = deed
  BY DEF GuardsInv, CallsFit, Did
<1>2. calls[c].at \in 1..Len(calls[c].stack)
  BY <1>1 DEF CallFits, Shaped, Placed, CallRecord
<1>3. Guard(c) \in AnyGuard
  BY <1>1, <1>2 DEF CallFits, Shaped, CallRecord, Guard
<1>4. records[c][calls[c].at] = Unrecorded
  BY <1>1, <1>2 DEF CallFits, Recorded
<1>5. deed = "holds" => Guard(c).kind = "lock"
  BY <1>1, <1>2 DEF CallFits, Placed, Guard
<1> QED BY <1>1, <1>2, <1>3, <1>4, <1>5

\* One step of a call that goes a guard further out, with what is recorded of it.
LEMMA GoesOut ==
  ASSUME GuardsInv, NEW c \in GuardedCall, NEW deed \in Passed, Did(c, deed),
         NEW out \in Outcomes, out = calls[c].out \/ (calls[c].out = "lockError" /\ out # "value"),
         NEW verdict \in Verdicts,
         verdict # Unrecorded => deed = "admitted" /\ out = calls[c].out,
         verdict = OneSuccess => Ok(out), verdict = OneFailure => ~Ok(out),
         calls' = [calls EXCEPT ![c] = [Outward(c) EXCEPT !.out = out]],
         records' = [records EXCEPT ![c] = [records[c] EXCEPT ![calls[c].at] = verdict]],
         faults' \in Nat, faults' = 0 => faults = 0 /\ (deed = "admitted" => verdict # Unrecorded)
  PROVE  /\ CallsFit' /\ AllRecorded'
         /\ \E r : /\ r.stack = calls[c].stack /\ \A d \in GuardedCall : calls'[d] = (IF d = c THEN r ELSE calls[d])
                   /\ \A i \in 1..Len(r.stack) : HeldAt(r, i) <=> HeldAt(calls[c], i) /\ ~(deed = "holds" /\ i = calls[c].at)
<1> DEFINE old == calls[c]
           r == [Outward(c) EXCEPT !.out = out]
           w == [records[c] EXCEPT ![old.at] = verdict]
<1>1. /\ CallFits(old, records[c]) /\ old.phase = "out" /\ old.at \in 1..Len(old.stack) /\ old.did[old.at] = deed
      /\ records[c][old.at] = Unrecorded
  BY LeavingFacts
<1>2. /\ old \in CallRecord /\ Len(old.did) = Len(old.stack) /\ records[c] = [i \in 1..Len(old.stack) |-> records[c][i]]
      /\ Len(old.stack) \in Nat /\ old.at \in Nat /\ old.at - 1 \in Nat /\ old.at \in Int
  <2>1. old \in CallRecord /\ Len(old.did) = Len(old.stack) /\ records[c] = [i \in 1..Len(old.stack) |-> records[c][i]]
    BY <1>1 DEF CallFits, Shaped
  <2>2. Len(old.stack) \in Nat
    BY <2>1 DEF CallRecord
  <2> QED BY <1>1, <2>1, <2>2
<1>3. Placed(old) /\ Recorded(old, records[c])
  BY <1>1 DEF CallFits
<1>4. /\ r.stack = old.stack /\ r.at = old.at - 1 /\ r.out = out /\ r.ran = old.ran /\ r.phase = "out" /\ r.did = old.did
      /\ r \in CallRecord
  <2>1. old.at - 1 \in Nat BY <1>1
  <2> QED BY <1>1, <1>2, <2>1 DEF CallRecord, Outward
<1>5. w = [i \in 1..Len(old.stack) |-> w[i]] /\ \A i \in 1..Len(old.stack) : w[i] = (IF i = old.at THEN verdict ELSE records[c][i])
  BY <1>1, <1>2
<1>6. calls' = [calls EXCEPT ![c] = r] /\ records' = [records EXCEPT ![c] = w]
  OBVIOUS
<1> HIDE DEF r, w
<1>7. Shaped(r, w)
  BY <1>2, <1>4, <1>5 DEF Shaped
<1>8. Placed(r)
  <2>1. r.at \in 0..Len(r.stack) BY <1>1, <1>2, <1>4
  <2>2. ASSUME NEW i \in 1..Len(r.stack), i <= r.at PROVE r.did[i] \in Passed
    <3>1. i <= old.at BY <1>1, <1>2, <1>4, <2>2
    <3> QED BY <1>1, <1>3, <1>4, <3>1 DEF Placed
  <2>3. ASSUME NEW i \in 1..Len(r.stack), r.did[i] = "holds" PROVE r.stack[i].kind = "lock"
    BY <1>3, <1>4, <2>3 DEF Placed
  <2>4. r.out = "value" => r.ran = 1
    BY <1>3, <1>4 DEF Placed
  <2> QED BY <1>4, <2>1, <2>2, <2>3, <2>4 DEF Placed
<1>9. Recorded(r, w)
  <2> SUFFICES ASSUME NEW i \in 1..Len(r.stack)
               PROVE  /\ w[i] \in Verdicts
                      /\ w[i] # Unrecorded => r.did[i] = "admitted" /\ r.phase \in {"out", "done"} /\ i > r.at
                      /\ w[i] = OneSuccess => Ok(r.out)
                      /\ w[i] = OneFailure => r.out # "value"
    BY DEF Recorded
  <2>1. CASE i = old.at
    <3>1. w[i] = verdict BY <1>4, <1>5, <2>1
    <3>2. i > r.at BY <1>2, <1>4, <2>1
    <3>3. ~Ok(out) => out # "value" BY DEF Ok, Errors
    <3> QED BY <1>1, <1>4, <2>1, <3>1, <3>2, <3>3
  <2>2. CASE i # old.at
    <3>1. w[i] = records[c][i] BY <1>4, <1>5, <2>2
    <3>2. /\ w[i] \in Verdicts /\ (w[i] # Unrecorded => old.did[i] = "admitted" /\ i > old.at)
          /\ (w[i] = OneSuccess => Ok(old.out)) /\ (w[i] = OneFailure => old.out # "value")
      BY <1>3, <1>4, <3>1 DEF Recorded
    <3>3. i > old.at => i > r.at BY <1>1, <1>2, <1>4
    <3>4. Ok(old.out) => out = old.out BY DEF Ok, Errors
    <3>5. old.out # "value" => out # "value" OBVIOUS
    <3> QED BY <1>4, <3>2, <3>3, <3>4, <3>5
  <2> QED BY <2>1, <2>2
<1>10. faults' = 0 => faults = 0 /\ Complete(r, w)
  <2> SUFFICES ASSUME faults' = 0 PROVE Complete(r, w) OBVIOUS
  <2>1. Complete(old, records[c]) BY DEF GuardsInv, AllRecorded
  <2> SUFFICES ASSUME NEW i \in 1..Len(r.stack), i > r.at, r.did[i] = "admitted" PROVE w[i] # Unrecorded
    BY DEF Complete
  <2>2. CASE i = old.at BY <1>1, <1>4, <1>5, <2>2
  <2>3. CASE i # old.at
    <3>1. i > old.at BY <1>1, <1>2, <1>4, <2>3
    <3> QED BY <1>1, <1>4, <1>5, <2>1, <2>3, <3>1 DEF Complete
  <2> QED BY <2>2, <2>3
<1>11. CallsFit' /\ AllRecorded' /\ \A d \in GuardedCall : calls'[d] = (IF d = c THEN r ELSE calls[d])
  BY <1>6, <1>7, <1>8, <1>9, <1>10, OneCall DEF CallFits
<1>12. \A i \in 1..Len(r.stack) : HeldAt(r, i) <=> HeldAt(old, i) /\ ~(deed = "holds" /\ i = old.at)
  <2> TAKE i \in 1..Len(r.stack)
  <2>1. CASE i = old.at
    <3>1. ~(i <= r.at) /\ i <= old.at BY <1>1, <1>4, <2>1
    <3> QED BY <1>1, <1>4, <2>1, <3>1 DEF HeldAt
  <2>2. CASE i # old.at
    <3>1. i <= r.at <=> i <= old.at BY <1>1, <1>2, <1>4, <2>2
    <3> QED BY <1>1, <1>4, <2>2, <3>1 DEF HeldAt
  <2> QED BY <2>1, <2>2
<1> QED BY <1>4, <1>11, <1>12

--------------------------------------------------------------------------------
(* GuardedCalls: every step keeps the invariant. *)

LEMMA RegisterInv == ASSUME GuardsInv, NEW p, Register(p) PROVE GuardsInv'
BY DEF Register, GuardsInv, CallsFit, OwnersTyped, LocksHeld, OwnersHold, AllRecorded

LEMMA StartInv ==
  ASSUME GuardsInv, NEW c \in GuardedCall, Start(c)
  PROVE  GuardsInv'
<1>1. PICK s \in CallStacks :
        /\ calls' = [calls EXCEPT ![c] = [Fresh EXCEPT !.stack = s, !.at = 1, !.phase = "in", !.did = [i \in DOMAIN s |-> "none"]]]
        /\ records' = [records EXCEPT ![c] = [i \in DOMAIN s |-> <<>>]]
  BY DEF Start
<1> DEFINE old == calls[c]
           r == [Fresh EXCEPT !.stack = s, !.at = 1, !.phase = "in", !.did = [i \in DOMAIN s |-> "none"]]
           w == [i \in DOMAIN s |-> Unrecorded]
<1>2. s \in Seq(AnyGuard) /\ DOMAIN s = 1..Len(s) /\ Len(s) \in Nat
  BY GuardsAssumption
<1>3. [i \in 1..Len(s) |-> "none"] \in Seq(Deeds) /\ Len([i \in 1..Len(s) |-> "none"]) = Len(s)
  <2>1. [i \in 1..Len(s) |-> "none"] \in [1..Len(s) -> Deeds]
    BY DEF Deeds
  <2>2. [i \in 1..Len(s) |-> "none"] \in Seq(Deeds)
    BY <1>2, <2>1, SeqDef
  <2> QED BY <1>2, <2>2
<1>4. /\ r.stack = s /\ r.at = 1 /\ r.phase = "in" /\ r.did = [i \in 1..Len(s) |-> "none"] /\ r.out = "none" /\ r.ran = 0
      /\ r \in CallRecord
  <2>1. r.stack = s /\ r.at = 1 /\ r.phase = "in" /\ r.did = [i \in 1..Len(s) |-> "none"] /\ r.out = "none" /\ r.ran = 0
    BY <1>2 DEF Fresh
  <2>2. Fresh \in [stack : {<<>>}, at : Nat, did : {<<>>}, out : Outcomes, ran : 0..1, phase : {"new"}]
    BY DEF Fresh, Outcomes
  <2>3. r \in CallRecord
    BY <1>2, <1>3, <2>2 DEF CallRecord
  <2> QED BY <2>1, <2>3
<1>5. calls' = [calls EXCEPT ![c] = r] /\ records' = [records EXCEPT ![c] = w] /\ owner' = owner /\ faults' = faults
  BY <1>1 DEF Start, Unrecorded
<1>6. w = [i \in 1..Len(s) |-> w[i]] /\ \A i \in 1..Len(s) : w[i] = Unrecorded
  BY <1>2
<1> HIDE DEF r, w
<1>7. Shaped(r, w) /\ Placed(r)
  BY <1>2, <1>3, <1>4, <1>6 DEF Shaped, Placed
<1>8. Recorded(r, w)
  BY <1>4, <1>6, VerdictsDiffer DEF Recorded, Verdicts
<1>9. Complete(r, w)
  BY <1>4 DEF Complete
<1>10. CallsFit' /\ AllRecorded' /\ \A d \in GuardedCall : calls'[d] = (IF d = c THEN r ELSE calls[d])
  BY <1>5, <1>7, <1>8, <1>9, OneCall DEF CallFits, GuardsInv, OwnersTyped
<1>11. \A i : ~HeldAt(old, i)
  BY DEF Start, HeldAt
<1>12. \A i \in 1..Len(r.stack) : ~HeldAt(r, i)
  BY <1>4 DEF HeldAt
<1>13. LocksHeld'
  <2> SUFFICES ASSUME NEW d \in GuardedCall, NEW i \in 1..Len(calls'[d].stack), HeldAt(calls'[d], i)
               PROVE  owner'[calls'[d].stack[i].key] = <<d, i>>
    BY DEF LocksHeld
  <2>1. d # c BY <1>10, <1>12
  <2> QED BY <1>5, <1>10, <2>1 DEF GuardsInv, LocksHeld
<1>14. OwnersHold'
  <2> SUFFICES ASSUME faults = 0, NEW k \in LockKey, owner[k] # Nobody
               PROVE  \E d \in GuardedCall : \E i \in 1..Len(calls'[d].stack) :
                        owner[k] = <<d, i>> /\ HeldAt(calls'[d], i) /\ calls'[d].stack[i].key = k
    BY <1>5 DEF OwnersHold
  <2>1. PICK d \in GuardedCall : \E i \in 1..Len(calls[d].stack) : owner[k] = <<d, i>> /\ HeldAt(calls[d], i) /\ calls[d].stack[i].key = k
    BY DEF GuardsInv, OwnersHold
  <2>2. d # c BY <1>11, <2>1
  <2> QED BY <1>10, <2>1, <2>2
<1> QED BY <1>5, <1>10, <1>13, <1>14 DEF GuardsInv, OwnersTyped

LEMMA BodyInv ==
  ASSUME GuardsInv, NEW c \in GuardedCall, NEW out \in {"value", "failed"}, Body(c, out)
  PROVE  GuardsInv'
<1> DEFINE old == calls[c]
           r == [old EXCEPT !.at = old.at - 1, !.out = out, !.ran = old.ran + 1, !.phase = "out"]
<1>1. CallFits(old, records[c]) /\ old.phase = "in" /\ old.at > Len(old.stack)
  BY DEF GuardsInv, CallsFit, Body
<1>2. /\ old \in CallRecord /\ Len(old.did) = Len(old.stack) /\ records[c] = [i \in 1..Len(old.stack) |-> records[c][i]]
      /\ Placed(old) /\ Recorded(old, records[c])
  BY <1>1 DEF CallFits, Shaped
<1>3. Len(old.stack) \in Nat /\ old.at \in Nat
  BY <1>2 DEF CallRecord
<1>4. old.at = Len(old.stack) + 1 /\ old.ran = 0
  BY <1>1, <1>2, <1>3 DEF Placed
<1>5. calls = [d \in GuardedCall |-> calls[d]] /\ records = [d \in GuardedCall |-> records[d]]
  BY DEF GuardsInv, CallsFit
<1>6. /\ calls' = [calls EXCEPT ![c] = r] /\ records' = [records EXCEPT ![c] = records[c]]
      /\ owner' = owner /\ faults' = faults
  BY <1>2, <1>5 DEF Body, CallRecord
<1>7. /\ r.stack = old.stack /\ r.at = Len(old.stack) /\ r.out = out /\ r.ran = 1 /\ r.phase = "out" /\ r.did = old.did
      /\ r \in CallRecord
  <2>1. old.at - 1 = Len(old.stack) /\ old.ran + 1 = 1 /\ out \in Outcomes
    BY <1>3, <1>4 DEF Outcomes, Errors
  <2>2. r.at = Len(old.stack) /\ r.ran = 1 /\ r.stack = old.stack /\ r.out = out /\ r.phase = "out" /\ r.did = old.did
    BY <1>2, <2>1 DEF CallRecord
  <2>3. old.at - 1 \in Nat /\ old.ran + 1 \in 0..1
    BY <1>3, <1>4
  <2>4. r \in CallRecord
    BY <1>2, <2>1, <2>3 DEF CallRecord
  <2> QED BY <2>2, <2>4
<1> HIDE DEF r
<1>8. Shaped(r, records[c])
  BY <1>2, <1>7 DEF Shaped
<1>9. Placed(r)
  <2>1. ASSUME NEW i \in 1..Len(r.stack) PROVE r.did[i] \in Passed
    <3>1. i < old.at BY <1>3, <1>4, <1>7
    <3> QED BY <1>1, <1>2, <1>7, <3>1 DEF Placed
  <2>2. ASSUME NEW i \in 1..Len(r.stack), r.did[i] = "holds" PROVE r.stack[i].kind = "lock"
    BY <1>2, <1>7, <2>2 DEF Placed
  <2> QED BY <1>3, <1>7, <2>1, <2>2 DEF Placed
<1>10. Recorded(r, records[c])
  <2>1. \A i \in 1..Len(r.stack) : records[c][i] = Unrecorded
    BY <1>1, <1>2, <1>7 DEF Recorded
  <2> QED BY <2>1, VerdictsDiffer DEF Recorded, Verdicts
<1>11. Complete(r, records[c])
  BY <1>3, <1>7 DEF Complete
<1>12. CallsFit' /\ AllRecorded' /\ \A d \in GuardedCall : calls'[d] = (IF d = c THEN r ELSE calls[d])
  BY <1>6, <1>8, <1>9, <1>10, <1>11, OneCall DEF CallFits, GuardsInv, OwnersTyped
<1>13. \A i \in 1..Len(r.stack) : HeldAt(r, i) <=> HeldAt(old, i)
  BY <1>1, <1>3, <1>7 DEF HeldAt
<1> QED BY <1>6, <1>7, <1>12, <1>13, SameLocks DEF GuardsInv, OwnersTyped

LEMMA SettleInv ==
  ASSUME GuardsInv, NEW c \in GuardedCall, Settle(c)
  PROVE  GuardsInv'
<1> DEFINE old == calls[c]
           r == [old EXCEPT !.phase = "done"]
<1>1. CallFits(old, records[c]) /\ old.phase = "out" /\ old.at = 0
  BY DEF GuardsInv, CallsFit, Settle
<1>2. /\ old \in CallRecord /\ Len(old.did) = Len(old.stack) /\ records[c] = [i \in 1..Len(old.stack) |-> records[c][i]]
      /\ Placed(old) /\ Recorded(old, records[c])
  BY <1>1 DEF CallFits, Shaped
<1>3. calls = [d \in GuardedCall |-> calls[d]] /\ records = [d \in GuardedCall |-> records[d]]
  BY DEF GuardsInv, CallsFit
<1>4. /\ calls' = [calls EXCEPT ![c] = r] /\ records' = [records EXCEPT ![c] = records[c]]
      /\ owner' = owner /\ faults' = faults
  <2>1. calls' = [calls EXCEPT ![c].phase = "done"] /\ records' = records /\ owner' = owner /\ faults' = faults
    BY DEF Settle
  <2>2. records' = [records EXCEPT ![c] = records[c]]
    BY <1>3, <2>1
  <2> QED BY <2>1, <2>2
<1>5. /\ r.stack = old.stack /\ r.at = 0 /\ r.out = old.out /\ r.ran = old.ran /\ r.phase = "done" /\ r.did = old.did
      /\ r \in CallRecord
  BY <1>1, <1>2 DEF CallRecord
<1> HIDE DEF r
<1>6. Shaped(r, records[c])
  BY <1>2, <1>5 DEF Shaped
<1>7. Placed(r)
  BY <1>2, <1>5 DEF Placed
<1>8. Recorded(r, records[c])
  BY <1>1, <1>2, <1>5 DEF Recorded
<1>9. faults' = 0 => faults = 0 /\ Complete(r, records[c])
  BY <1>1, <1>4, <1>5 DEF GuardsInv, AllRecorded, Complete
<1>10. CallsFit' /\ AllRecorded' /\ \A d \in GuardedCall : calls'[d] = (IF d = c THEN r ELSE calls[d])
  BY <1>4, <1>6, <1>7, <1>8, <1>9, OneCall DEF CallFits, GuardsInv, OwnersTyped
<1>11. \A i \in 1..Len(r.stack) : HeldAt(r, i) <=> HeldAt(old, i)
  BY <1>1, <1>5 DEF HeldAt
<1> QED BY <1>4, <1>5, <1>10, <1>11, SameLocks DEF GuardsInv, OwnersTyped

LEMMA BareInv ==
  ASSUME GuardsInv, NEW c \in GuardedCall, Bare(c) \/ Admitted(c) \/ CanRequestFails(c, "fail-open")
  PROVE  GuardsInv'
<1>1. PICK kind \in {"lock", "breaker"}, deed \in {"bare", "admitted"} : Entering(c, kind) /\ Inward(c, deed)
  BY DEF Bare, Admitted, Asks, CanRequestFails
<1>2. records' = records /\ owner' = owner /\ (faults' = faults \/ faults' = faults + 1) /\ faults \in Nat
  BY DEF Bare, Admitted, CanRequestFails, Fails, GuardsInv, OwnersTyped
<1>3. faults' \in Nat /\ (faults' = 0 => faults = 0)
  BY <1>2
<1>4. PICK r : /\ CallsFit' /\ AllRecorded' /\ r.stack = calls[c].stack
               /\ \A d \in GuardedCall : calls'[d] = (IF d = c THEN r ELSE calls[d])
               /\ \A i \in 1..Len(r.stack) : HeldAt(r, i) <=> HeldAt(calls[c], i) \/ (deed = "holds" /\ i = calls[c].at)
  BY <1>1, <1>2, <1>3, GoesIn DEF Passed
<1>5. LocksHeld' /\ OwnersHold'
  BY <1>1, <1>2, <1>3, <1>4, SameLocks
<1> QED BY <1>2, <1>3, <1>4, <1>5 DEF GuardsInv, OwnersTyped

LEMMA AcquireInv ==
  ASSUME GuardsInv, NEW c \in GuardedCall, Acquire(c)
  PROVE  GuardsInv'
<1> DEFINE key == Guard(c).key
           at == calls[c].at
<1>1. /\ Entering(c, "lock") /\ Inward(c, "holds") /\ records' = records /\ faults' = faults
      /\ owner[key] = Nobody /\ owner' = [owner EXCEPT ![key] = <<c, at>>]
  BY DEF Acquire, Acquires
<1>2. owner \in [LockKey -> (GuardedCall \X Nat) \cup {Nobody}] /\ faults \in Nat
  BY DEF GuardsInv, OwnersTyped
<1>3. at \in 1..Len(calls[c].stack) /\ key \in LockKey /\ calls[c].stack \in Seq(AnyGuard)
  BY <1>1, EnteringFacts, LockFacts DEF CallFits, Shaped, CallRecord
<1>4. PICK r : /\ CallsFit' /\ AllRecorded' /\ r.stack = calls[c].stack
               /\ \A d \in GuardedCall : calls'[d] = (IF d = c THEN r ELSE calls[d])
               /\ \A i \in 1..Len(r.stack) : HeldAt(r, i) <=> HeldAt(calls[c], i) \/ ("holds" = "holds" /\ i = at)
  BY <1>1, <1>2, GoesIn DEF Passed
<1>5. \A d \in GuardedCall : calls'[d].stack = calls[d].stack
  BY <1>4
<1>6. \A d \in GuardedCall : \A i \in 1..Len(calls[d].stack) : HeldAt(calls'[d], i) <=> HeldAt(calls[d], i) \/ (d = c /\ i = at)
  BY <1>4
<1>7. calls[c].stack[at].key = key
  BY DEF Guard
<1>8. <<c, at>> \in GuardedCall \X Nat /\ Nobody \notin GuardedCall \X Nat
  BY <1>3, GuardsAssumption
<1>9. owner' \in [LockKey -> (GuardedCall \X Nat) \cup {Nobody}] /\ \A k \in LockKey : owner'[k] = (IF k = key THEN <<c, at>> ELSE owner[k])
  BY <1>1, <1>2, <1>3, <1>8
<1> HIDE DEF key, at, HeldAt
<1>10. LocksHeld'
  <2> SUFFICES ASSUME NEW d \in GuardedCall, NEW i \in 1..Len(calls[d].stack), HeldAt(calls'[d], i)
               PROVE  owner'[calls[d].stack[i].key] = <<d, i>>
    BY <1>5 DEF LocksHeld
  <2>1. CASE d = c /\ i = at
    BY <1>3, <1>7, <1>9, <2>1
  <2>2. CASE ~(d = c /\ i = at)
    <3>1. HeldAt(calls[d], i) BY <1>6, <2>2
    <3>2. owner[calls[d].stack[i].key] = <<d, i>> BY <3>1 DEF GuardsInv, LocksHeld
    <3>3. calls[d].stack[i] \in AnyGuard /\ calls[d].stack[i].kind = "lock"
      BY <3>1 DEF GuardsInv, CallsFit, CallFits, Shaped, Placed, CallRecord, HeldAt
    <3>4. calls[d].stack[i].key \in LockKey BY <3>3, LockFacts
    <3>5. <<d, i>> \in GuardedCall \X Nat OBVIOUS
    <3>6. calls[d].stack[i].key # key BY <1>1, <1>8, <3>2, <3>5
    <3> QED BY <1>9, <3>2, <3>4, <3>6
  <2> QED BY <2>1, <2>2
<1>11. OwnersHold'
  <2> SUFFICES ASSUME faults = 0, NEW k \in LockKey, owner'[k] # Nobody
               PROVE  \E d \in GuardedCall : \E i \in 1..Len(calls[d].stack) :
                        owner'[k] = <<d, i>> /\ HeldAt(calls'[d], i) /\ calls[d].stack[i].key = k
    BY <1>1, <1>5 DEF OwnersHold
  <2>1. CASE k = key BY <1>3, <1>6, <1>7, <1>9, <2>1
  <2>2. CASE k # key BY <1>6, <1>9, <2>2 DEF GuardsInv, OwnersHold
  <2> QED BY <2>1, <2>2
<1> QED BY <1>1, <1>2, <1>4, <1>9, <1>10, <1>11 DEF GuardsInv, OwnersTyped

\* A guard turns a call back and the owners stay: a lock that is taken, an open circuit, a store that fails.
LEMMA TurnedInv ==
  ASSUME GuardsInv, NEW c \in GuardedCall, AcquireTimesOut(c) \/ Rejected(c) \/ CanRequestFails(c, "fail-closed")
  PROVE  GuardsInv'
<1>1. PICK kind \in {"lock", "breaker"}, deed \in {"refused", "error", "rejected"}, out \in Outcomes \ {"none", "value"} :
        Entering(c, kind) /\ Turns(c, deed, out)
  <2>1. CASE AcquireTimesOut(c)
    <3>1. Entering(c, "lock") /\ Turns(c, "refused", LockFailed(Guard(c).on))
      BY <2>1 DEF AcquireTimesOut, Acquires
    <3>2. Guard(c).on \in LockModes
      BY <3>1, EnteringFacts, LockFacts
    <3>3. LockFailed(Guard(c).on) \in Outcomes \ {"none", "value"}
      BY <3>2 DEF LockModes, LockFailed, Outcomes, Errors
    <3> QED BY <3>1, <3>3
  <2>2. CASE Rejected(c)
    <3>1. Entering(c, "breaker") /\ Guard(c).on # "bypass" /\ Turns(c, "rejected", Rejection(Guard(c).on))
      BY <2>2 DEF Rejected, Asks
    <3>2. Guard(c).on \in BreakerModes
      BY <3>1, EnteringFacts, BreakerFacts
    <3>3. Rejection(Guard(c).on) \in Outcomes \ {"none", "value"}
      BY <3>1, <3>2 DEF BreakerModes, Rejection, Outcomes, Errors
    <3> QED BY <3>1, <3>3
  <2>3. CASE CanRequestFails(c, "fail-closed")
    <3>1. Entering(c, "breaker") /\ Turns(c, "error", "storeError")
      BY <2>3 DEF CanRequestFails, Asks
    <3>2. "storeError" \in Outcomes \ {"none", "value"}
      BY DEF Outcomes, Errors
    <3> QED BY <3>1, <3>2
  <2> QED BY <2>1, <2>2, <2>3
<1>2. records' = records /\ owner' = owner /\ (faults' = faults \/ faults' = faults + 1) /\ faults \in Nat
  BY DEF AcquireTimesOut, Rejected, CanRequestFails, Fails, GuardsInv, OwnersTyped
<1>3. faults' \in Nat /\ (faults' = 0 => faults = 0)
  BY <1>2
<1>4. PICK r : /\ CallsFit' /\ AllRecorded' /\ r.stack = calls[c].stack
               /\ \A d \in GuardedCall : calls'[d] = (IF d = c THEN r ELSE calls[d])
               /\ \A i \in 1..Len(r.stack) : HeldAt(r, i) <=> HeldAt(calls[c], i)
  BY <1>1, <1>2, <1>3, TurnsBack
<1>5. LocksHeld' /\ OwnersHold'
  BY <1>2, <1>3, <1>4, SameLocks
<1> QED BY <1>2, <1>3, <1>4, <1>5 DEF GuardsInv, OwnersTyped

\* The lock's store fails, and the key may have been set all the same.
LEMMA AcquireFailsInv ==
  ASSUME GuardsInv, NEW c \in GuardedCall, AcquireFails(c)
  PROVE  GuardsInv'
<1> DEFINE key == Guard(c).key
<1>1. Entering(c, "lock") /\ Turns(c, "error", "storeError") /\ records' = records /\ faults' = faults + 1
  BY DEF AcquireFails, Acquires, Fails
<1>2. owner \in [LockKey -> (GuardedCall \X Nat) \cup {Nobody}] /\ faults \in Nat /\ faults' \in Nat /\ faults' # 0
  BY <1>1 DEF GuardsInv, OwnersTyped
<1>3. key \in LockKey
  BY <1>1, EnteringFacts, LockFacts
<1>4. "storeError" \in Outcomes \ {"none", "value"}
  BY DEF Outcomes, Errors
<1>5. PICK r : /\ CallsFit' /\ AllRecorded' /\ r.stack = calls[c].stack
               /\ \A d \in GuardedCall : calls'[d] = (IF d = c THEN r ELSE calls[d])
               /\ \A i \in 1..Len(r.stack) : HeldAt(r, i) <=> HeldAt(calls[c], i)
  BY <1>1, <1>2, <1>4, TurnsBack
<1>6. owner' = owner \/ (owner[key] = Nobody /\ owner' = [owner EXCEPT ![key] = <<c, 0>>])
  BY DEF AcquireFails
<1>7. /\ owner' \in [LockKey -> (GuardedCall \X Nat) \cup {Nobody}]
      /\ \A k \in LockKey : owner'[k] = owner[k] \/ owner[k] = Nobody
  <2>1. <<c, 0>> \in GuardedCall \X Nat OBVIOUS
  <2> QED BY <1>2, <1>3, <1>6, <2>1
<1> HIDE DEF key, HeldAt
<1>8. LocksHeld'
  <2> SUFFICES ASSUME NEW d \in GuardedCall, NEW i \in 1..Len(calls'[d].stack), HeldAt(calls'[d], i)
               PROVE  owner'[calls'[d].stack[i].key] = <<d, i>>
    BY DEF LocksHeld
  <2>1. calls'[d].stack = calls[d].stack /\ HeldAt(calls[d], i)
    BY <1>5
  <2>2. owner[calls[d].stack[i].key] = <<d, i>> BY <2>1 DEF GuardsInv, LocksHeld
  <2>3. calls[d].stack[i] \in AnyGuard /\ calls[d].stack[i].kind = "lock"
    BY <2>1 DEF GuardsInv, CallsFit, CallFits, Shaped, Placed, CallRecord, HeldAt
  <2>4. calls[d].stack[i].key \in LockKey BY <2>3, LockFacts
  <2>5. <<d, i>> \in GuardedCall \X Nat /\ Nobody \notin GuardedCall \X Nat BY <2>1, GuardsAssumption
  <2> QED BY <1>7, <2>1, <2>2, <2>4, <2>5
<1> QED BY <1>2, <1>5, <1>7, <1>8 DEF GuardsInv, OwnersTyped, OwnersHold

\* A call leaves a guard that holds nothing, and what it did is recorded, or not.
LEMMA PassedInv ==
  ASSUME GuardsInv, NEW c \in GuardedCall, PassBare(c) \/ Record(c) \/ RecordFails(c)
  PROVE  GuardsInv'
<1> DEFINE at == calls[c].at
           out == calls[c].out
           verdict == IF Record(c) THEN (IF Ok(out) THEN OneSuccess ELSE OneFailure) ELSE Unrecorded
<1>1. PICK deed \in {"bare", "admitted"} :
        /\ Did(c, deed) /\ (deed = "bare" => PassBare(c)) /\ (deed = "admitted" => Record(c) \/ RecordFails(c))
        /\ (Record(c) => deed = "admitted")
  BY DEF PassBare, Record, RecordFails, Did
<1>2. /\ CallFits(calls[c], records[c]) /\ at \in 1..Len(calls[c].stack) /\ records[c][at] = Unrecorded
      /\ calls = [d \in GuardedCall |-> calls[d]] /\ records = [d \in GuardedCall |-> records[d]]
  BY <1>1, LeavingFacts DEF Passed, GuardsInv, CallsFit
<1>3. records[c] = [i \in 1..Len(calls[c].stack) |-> records[c][i]] /\ calls[c] \in CallRecord /\ out \in Outcomes
  BY <1>2 DEF CallFits, Shaped, CallRecord
<1>4. owner' = owner /\ (faults' = faults \/ faults' = faults + 1) /\ faults \in Nat
  BY DEF PassBare, Record, RecordFails, Fails, GuardsInv, OwnersTyped
<1>5. calls' = [calls EXCEPT ![c] = [Outward(c) EXCEPT !.out = out]]
  <2>1. calls' = [calls EXCEPT ![c] = Outward(c)]
    BY DEF PassBare, Record, RecordFails
  <2>2. [Outward(c) EXCEPT !.out = out] = Outward(c)
    BY <1>3 DEF Outward, CallRecord
  <2> QED BY <2>1, <2>2
<1>6. records' = [records EXCEPT ![c] = [records[c] EXCEPT ![at] = verdict]]
  <2>1. CASE Record(c)
    <3>1. records' = [records EXCEPT ![c] = [records[c] EXCEPT ![at] = Append(records[c][at], Verdict(c))]]
      BY <1>2, <2>1 DEF Record
    <3>2. Append(records[c][at], Verdict(c)) = verdict
      BY <1>2, <2>1 DEF Verdict, Unrecorded, OneSuccess, OneFailure
    <3> QED BY <3>1, <3>2
  <2>2. CASE ~Record(c)
    <3>1. records' = records BY <2>2 DEF PassBare, RecordFails
    <3>2. [records[c] EXCEPT ![at] = verdict] = records[c] BY <1>2, <1>3, <2>2
    <3> QED BY <1>2, <3>1, <3>2
  <2> QED BY <2>1, <2>2
<1>7. faults' \in Nat /\ (faults' = 0 => faults = 0 /\ (deed = "admitted" => Record(c)))
  BY <1>1, <1>4 DEF RecordFails, Fails
<1>8. /\ verdict \in Verdicts /\ (verdict # Unrecorded <=> Record(c))
      /\ (verdict = OneSuccess => Ok(out)) /\ (verdict = OneFailure => ~Ok(out))
  BY VerdictsDiffer DEF Verdicts
<1> HIDE DEF verdict
<1>9. PICK r : /\ CallsFit' /\ AllRecorded' /\ r.stack = calls[c].stack
               /\ \A d \in GuardedCall : calls'[d] = (IF d = c THEN r ELSE calls[d])
               /\ \A i \in 1..Len(r.stack) : HeldAt(r, i) <=> HeldAt(calls[c], i) /\ ~(deed = "holds" /\ i = at)
  BY <1>1, <1>3, <1>5, <1>6, <1>7, <1>8, GoesOut DEF Passed
<1>10. LocksHeld' /\ OwnersHold'
  BY <1>1, <1>4, <1>7, <1>9, SameLocks
<1> QED BY <1>4, <1>7, <1>9, <1>10 DEF GuardsInv, OwnersTyped

\* A call leaves a lock, which is released unless the command failed.
LEMMA ReleaseInv ==
  ASSUME GuardsInv, NEW c \in GuardedCall, Release(c) \/ ReleaseFails(c)
  PROVE  GuardsInv'
<1> DEFINE at == calls[c].at
           key == Guard(c).key
           out == Caught(c).out
<1>1. Did(c, "holds") /\ calls' = [calls EXCEPT ![c] = Caught(c)] /\ records' = records
  BY DEF Release, ReleaseFails
<1>2. /\ CallFits(calls[c], records[c]) /\ calls[c].phase = "out" /\ at \in 1..Len(calls[c].stack)
      /\ records[c][at] = Unrecorded /\ Guard(c) \in AnyGuard /\ Guard(c).kind = "lock" /\ calls[c].did[at] = "holds"
      /\ calls = [d \in GuardedCall |-> calls[d]] /\ records = [d \in GuardedCall |-> records[d]]
  BY <1>1, LeavingFacts DEF Passed, GuardsInv, CallsFit
<1>3. key \in LockKey /\ Guard(c).on \in LockModes
  BY <1>2, LockFacts
<1>4. records[c] = [i \in 1..Len(calls[c].stack) |-> records[c][i]] /\ calls[c] \in CallRecord
  BY <1>2 DEF CallFits, Shaped
<1>5. /\ out = (IF calls[c].out = "lockError" THEN LockFailed(Guard(c).on) ELSE calls[c].out)
      /\ Caught(c) = [Outward(c) EXCEPT !.out = out]
  BY <1>4 DEF Caught, Outward, CallRecord
<1>6. LockFailed(Guard(c).on) \in Outcomes \ {"value"}
  BY <1>3 DEF LockModes, LockFailed, Outcomes, Errors
<1>7. out \in Outcomes /\ (out = calls[c].out \/ (calls[c].out = "lockError" /\ out # "value"))
  BY <1>4, <1>5, <1>6 DEF CallRecord
<1>8. records' = [records EXCEPT ![c] = [records[c] EXCEPT ![at] = Unrecorded]]
  <2>1. [records[c] EXCEPT ![at] = Unrecorded] = records[c] BY <1>2, <1>4
  <2> QED BY <1>1, <1>2, <2>1
<1>9. /\ owner \in [LockKey -> (GuardedCall \X Nat) \cup {Nobody}] /\ faults \in Nat
      /\ (faults' = faults /\ owner' = Released(c)) \/ (faults' = faults + 1 /\ owner' \in {owner, Released(c)})
  BY DEF Release, ReleaseFails, Fails, GuardsInv, OwnersTyped
<1>10. faults' \in Nat /\ (faults' = 0 => faults = 0 /\ owner' = Released(c))
  BY <1>9
<1>11. calls' = [calls EXCEPT ![c] = [Outward(c) EXCEPT !.out = out]]
  BY <1>1, <1>5
<1> HIDE DEF out
<1>12. PICK r : /\ CallsFit' /\ AllRecorded' /\ r.stack = calls[c].stack
                /\ \A d \in GuardedCall : calls'[d] = (IF d = c THEN r ELSE calls[d])
                /\ \A i \in 1..Len(r.stack) : HeldAt(r, i) <=> HeldAt(calls[c], i) /\ ~("holds" = "holds" /\ i = at)
  BY <1>1, <1>7, <1>8, <1>10, <1>11, VerdictsDiffer, GoesOut DEF Passed, Verdicts
<1>13. \A d \in GuardedCall : calls'[d].stack = calls[d].stack
  BY <1>12
<1>14. \A d \in GuardedCall : \A i \in 1..Len(calls[d].stack) : HeldAt(calls'[d], i) <=> HeldAt(calls[d], i) /\ ~(d = c /\ i = at)
  BY <1>12
<1>15. HeldAt(calls[c], at) /\ calls[c].stack[at].key = key /\ at \in Nat
  BY <1>2, <1>4 DEF HeldAt, Guard, CallRecord
<1>16. owner[key] = <<c, at>>
  BY <1>2, <1>15 DEF GuardsInv, LocksHeld
<1>17. /\ owner' \in [LockKey -> (GuardedCall \X Nat) \cup {Nobody}]
       /\ \A k \in LockKey : k # key => owner'[k] = owner[k]
       /\ owner' = Released(c) => owner'[key] = Nobody
  BY <1>3, <1>9 DEF Released
<1> HIDE DEF key, at, HeldAt
<1>18. LocksHeld'
  <2> SUFFICES ASSUME NEW d \in GuardedCall, NEW i \in 1..Len(calls[d].stack), HeldAt(calls'[d], i)
               PROVE  owner'[calls[d].stack[i].key] = <<d, i>>
    BY <1>13 DEF LocksHeld
  <2>1. HeldAt(calls[d], i) /\ ~(d = c /\ i = at) BY <1>14
  <2>2. owner[calls[d].stack[i].key] = <<d, i>> BY <2>1 DEF GuardsInv, LocksHeld
  <2>3. calls[d].stack[i] \in AnyGuard /\ calls[d].stack[i].kind = "lock"
    BY <2>1 DEF GuardsInv, CallsFit, CallFits, Shaped, Placed, CallRecord, HeldAt
  <2>4. calls[d].stack[i].key \in LockKey BY <2>3, LockFacts
  <2>5. calls[d].stack[i].key # key BY <1>16, <2>1, <2>2
  <2> QED BY <1>17, <2>2, <2>4, <2>5
<1>19. OwnersHold'
  <2> SUFFICES ASSUME faults' = 0, NEW k \in LockKey, owner'[k] # Nobody
               PROVE  \E d \in GuardedCall : \E i \in 1..Len(calls[d].stack) :
                        owner'[k] = <<d, i>> /\ HeldAt(calls'[d], i) /\ calls[d].stack[i].key = k
    BY <1>13 DEF OwnersHold
  <2>1. k # key /\ owner'[k] = owner[k] BY <1>10, <1>17
  <2>2. PICK d \in GuardedCall : \E i \in 1..Len(calls[d].stack) : owner[k] = <<d, i>> /\ HeldAt(calls[d], i) /\ calls[d].stack[i].key = k
    BY <1>10, <2>1 DEF GuardsInv, OwnersHold
  <2>3. PICK i \in 1..Len(calls[d].stack) : owner[k] = <<d, i>> /\ HeldAt(calls[d], i) /\ calls[d].stack[i].key = k
    BY <2>2
  <2>4. ~(d = c /\ i = at) BY <1>15, <2>1, <2>3
  <2> QED BY <1>14, <2>1, <2>3, <2>4
<1> QED BY <1>10, <1>12, <1>17, <1>18, <1>19 DEF GuardsInv, OwnersTyped

LEMMA GuardsInitInv == GuardsInit => GuardsInv
<1> SUFFICES ASSUME GuardsInit PROVE GuardsInv OBVIOUS
<1>1. \A c \in GuardedCall : calls[c] = Fresh /\ records[c] = <<>>
  BY DEF GuardsInit
<1>2. Fresh \in CallRecord /\ Len(<<>>) = 0 /\ DOMAIN <<>> = 1..0
  BY DEF Fresh, CallRecord, Outcomes
<1>3. CallFits(Fresh, <<>>)
  BY <1>2 DEF CallFits, Shaped, Placed, Recorded, Fresh
<1>4. CallsFit /\ OwnersTyped /\ AllRecorded
  BY <1>1, <1>3 DEF GuardsInit, CallsFit, OwnersTyped, AllRecorded, Complete, Fresh
<1>5. LocksHeld /\ OwnersHold
  BY <1>1 DEF GuardsInit, LocksHeld, OwnersHold, HeldAt, Fresh
<1> QED BY <1>4, <1>5 DEF GuardsInv

LEMMA GuardsNextInv == ASSUME GuardsInv, [GuardsNext]_guardsVars PROVE GuardsInv'
<1>1. CASE UNCHANGED guardsVars
  BY <1>1 DEF guardsVars, GuardsInv, CallsFit, OwnersTyped, LocksHeld, OwnersHold, AllRecorded
<1>2. ASSUME NEW c \in GuardedCall, NEW p \in {"fail-open", "fail-closed"}, CanRequestFails(c, p) PROVE GuardsInv'
  BY <1>2, BareInv, TurnedInv
<1> QED BY <1>1, <1>2, RegisterInv, StartInv, BareInv, AcquireInv, TurnedInv, AcquireFailsInv, BodyInv, PassedInv, ReleaseInv,
           SettleInv DEF GuardsNext

\* The invariant says what the property needs.
LEMMA GuardsInvSuffices == GuardsInv => SettledLeavesNothing
<1> SUFFICES ASSUME GuardsInv PROVE SettledLeavesNothing OBVIOUS
<1>1. \A c \in GuardedCall : calls[c].ran <= 1 /\ (calls[c].out = "value" => calls[c].ran = 1)
  BY DEF GuardsInv, CallsFit, CallFits, Shaped, Placed, CallRecord
<1>2. ASSUME NEW c \in GuardedCall, NEW d \in GuardedCall, c # d, Inside(c), Inside(d), NEW k, k \in Locked(c), k \in Locked(d)
      PROVE  FALSE
  <2> \A b \in GuardedCall : DOMAIN calls[b].stack = 1..Len(calls[b].stack)
    BY DEF GuardsInv, CallsFit, CallFits, Shaped, CallRecord
  <2>1. PICK i \in 1..Len(calls[c].stack) : calls[c].did[i] = "holds" /\ calls[c].stack[i].key = k
    BY <1>2 DEF Locked
  <2>2. PICK j \in 1..Len(calls[d].stack) : calls[d].did[j] = "holds" /\ calls[d].stack[j].key = k
    BY <1>2 DEF Locked
  <2>3. owner[k] = <<c, i>> /\ owner[k] = <<d, j>>
    BY <1>2, <2>1, <2>2 DEF Inside, HeldAt, GuardsInv, LocksHeld
  <2> QED BY <1>2, <2>3
<1>3. ASSUME NEW c \in GuardedCall, Done(c), faults = 0
      PROVE  /\ \A k \in LockKey : owner[k] = Nobody \/ owner[k][1] # c
             /\ \A i \in DOMAIN calls[c].stack :
                  /\ Len(records[c][i]) = (IF calls[c].did[i] = "admitted" THEN 1 ELSE 0)
                  /\ records[c][i] = <<"success">> => Ok(calls[c].out)
                  /\ records[c][i] = <<"failure">> => calls[c].out # "value"
  <2>1. ASSUME NEW k \in LockKey, owner[k] # Nobody PROVE owner[k][1] # c
    <3>1. PICK d \in GuardedCall : \E i \in 1..Len(calls[d].stack) : owner[k] = <<d, i>> /\ HeldAt(calls[d], i)
      BY <1>3, <2>1 DEF GuardsInv, OwnersHold
    <3>2. d # c BY <1>3, <3>1 DEF Done, HeldAt
    <3> QED BY <3>1, <3>2
  <2>2. calls[c].at = 0 /\ DOMAIN calls[c].stack = 1..Len(calls[c].stack) /\ Recorded(calls[c], records[c]) /\ Complete(calls[c], records[c])
    BY <1>3 DEF GuardsInv, CallsFit, CallFits, Shaped, Placed, CallRecord, Done, AllRecorded
  <2>3. ASSUME NEW i \in 1..Len(calls[c].stack)
        PROVE  /\ records[c][i] \in Verdicts /\ (records[c][i] # Unrecorded <=> calls[c].did[i] = "admitted")
               /\ records[c][i] = OneSuccess => Ok(calls[c].out)
               /\ records[c][i] = OneFailure => calls[c].out # "value"
    <3>1. i > 0 OBVIOUS
    <3> QED BY <1>3, <2>2, <3>1 DEF Recorded, Complete, Done
  <2>4. ASSUME NEW i \in 1..Len(calls[c].stack)
        PROVE  Len(records[c][i]) = (IF calls[c].did[i] = "admitted" THEN 1 ELSE 0)
    BY <2>3, VerdictsDiffer DEF Verdicts
  <2> QED BY <2>1, <2>2, <2>3, <2>4 DEF OneSuccess, OneFailure
<1> QED BY <1>1, <1>2, <1>3 DEF SettledLeavesNothing

\* However @WithLock and @WithCircuitBreaker are stacked and whoever refuses, throws or fails: the
\* body runs at most once and alone under its locks, a call that is over holds no lock, and every
\* guard that admitted it has its outcome recorded once, unless a command failed.
THEOREM GuardsLeaveNothing == GuardsSpec => []SettledLeavesNothing
<1> QED BY GuardsInitInv, GuardsNextInv, GuardsInvSuffices, PTL DEF GuardsSpec
================================================================================
