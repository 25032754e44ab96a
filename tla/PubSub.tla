---------------------------------- MODULE PubSub ----------------------------------
(* PubSubService: calls of subscribe(), psubscribe() and unsubscribe() that are serialised *)
(* per channel or pattern, unsubscribeAll(), the subscriber connection and the messages on *)
(* it. A connection executes and answers in order, messages between the answers.           *)
EXTENDS Integers, FiniteSets, Sequences

CONSTANTS
  Sub, None,           \* calls of subscribe() and psubscribe(), by their numbers
  Channel, Pattern,    \* their targets
  Target(_), Handler(_),  \* of a call
  Message,
  Faults               \* BOUND: commands refused and connections lost

Targets == Channel \cup Pattern
Handlers == {Handler(s) : s \in Sub}

VARIABLES
  registry,     \* channelHandlers, patternHandlers: {} where the map has no entry
  chain,        \* targetOps: the operations of a target that have not ended, in order
  stage,        \* of the first one: "queued", "sent", "answered" or "refused"
  sub,          \* each call: "idle", "subscribing", "active", "failed", "leaving" or "gone"
  sweep,        \* unsubscribeAll(): where it is, the operations it waits for, its patterns
  wire,         \* commands on the way to Redis
  inbox,        \* answers and messages on the way back
  subscribed,   \* what Redis has for the connection
  recorded,     \* what the library subscribes to again when it reconnects
  message,      \* each message: the calls it is due to when it is published, and its fate
  faults

vars == <<registry, chain, stage, sub, sweep, wire, inbox, subscribed, recorded, message, faults>>

Init ==
  /\ registry = [t \in Targets |-> {}]
  /\ chain = [t \in Targets |-> <<>>] /\ stage = [t \in Targets |-> "queued"]
  /\ sub = [s \in Sub |-> "idle"]
  /\ sweep = [pc |-> "no", waits |-> [t \in Targets |-> 0], left |-> {}, before |-> {}]
  /\ wire = <<>> /\ inbox = <<>> /\ subscribed = {} /\ recorded = {}
  /\ message = [m \in Message |-> [pc |-> "new", due |-> {}, called |-> {}]]
  /\ faults = 0

TypeOK ==
  /\ registry \in [Targets -> SUBSET Handlers]
  /\ \A t \in Targets : \A i \in DOMAIN chain[t] : chain[t][i] \in [kind : {"subscribe", "release"}, of : Sub]
  /\ stage \in [Targets -> {"queued", "sent", "answered", "refused"}]
  /\ sub \in [Sub -> {"idle", "subscribing", "active", "failed", "leaving", "gone"}]
  /\ sweep.pc \in {"no", "waits", "channels", "patterns", "done"} /\ sweep.left \subseteq Pattern
  /\ subscribed \subseteq Targets /\ recorded \subseteq Targets
  /\ \A m \in Message : message[m].pc \in {"new", "sent", "dispatched", "lost"} /\ message[m].called \subseteq Handlers

--------------------------------------------------------------------------------
Command(cmd, ts, by) == [cmd |-> cmd, ts |-> ts, by |-> by]
SubsOf(t) == {s \in Sub : Target(s) = t}

\* subscribe() and psubscribe(), runExclusive()
Enqueued(t, op) == [chain EXCEPT ![t] = Append(@, op)]

\* Calls for one target are told apart by nothing but their order: they come in that of their
\* numbers.
Subscribe(s) ==
  /\ sub[s] = "idle" /\ \A o \in SubsOf(Target(s)) : o < s => sub[o] # "idle"
  /\ sub' = [sub EXCEPT ![s] = "subscribing"]
  /\ chain' = Enqueued(Target(s), [kind |-> "subscribe", of |-> s])
  /\ UNCHANGED <<registry, stage, sweep, wire, inbox, subscribed, recorded, message, faults>>

\* unsubscribe() of the subscription that was returned
Unsubscribe(s) ==
  /\ sub[s] = "active"
  /\ sub' = [sub EXCEPT ![s] = "leaving"]
  /\ chain' = Enqueued(Target(s), [kind |-> "release", of |-> s])
  /\ UNCHANGED <<registry, stage, sweep, wire, inbox, subscribed, recorded, message, faults>>

First(t) == Head(chain[t])
Ends(t) ==
  /\ chain' = [chain EXCEPT ![t] = Tail(@)] /\ stage' = [stage EXCEPT ![t] = "queued"]
  /\ sweep' = [sweep EXCEPT !.waits[t] = IF @ > 0 THEN @ - 1 ELSE @]

Sends(t, cmd) ==
  /\ wire' = Append(wire, Command(cmd, {t}, t))
  /\ stage' = [stage EXCEPT ![t] = "sent"]
  /\ UNCHANGED <<chain, sweep>>

Begins(t, kind) == chain[t] # <<>> /\ First(t).kind = kind /\ stage[t] = "queued"

\* The first handler subscribes, a further one joins it.
JoinsNever(t) == FALSE
Joins(t) == registry[t] # {}
RunSubscribe(t) ==
  /\ Begins(t, "subscribe")
  /\ IF Joins(t)
     THEN /\ registry' = [registry EXCEPT ![t] = @ \cup {Handler(First(t).of)}]
          /\ sub' = [sub EXCEPT ![First(t).of] = "active"]
          /\ Ends(t) /\ UNCHANGED wire
     ELSE Sends(t, "subscribe") /\ UNCHANGED <<registry, sub>>
  /\ UNCHANGED <<inbox, subscribed, recorded, message, faults>>

EndSubscribeUnchecked(t) ==
  /\ chain[t] # <<>> /\ First(t).kind = "subscribe" /\ stage[t] \in {"answered", "refused"}
  /\ registry' = [registry EXCEPT ![t] = {Handler(First(t).of)}]
  /\ sub' = [sub EXCEPT ![First(t).of] = IF stage[t] = "answered" THEN "active" ELSE "failed"]
  /\ Ends(t)
  /\ UNCHANGED <<wire, inbox, subscribed, recorded, message, faults>>
EndSubscribe(t) ==
  /\ chain[t] # <<>> /\ First(t).kind = "subscribe" /\ stage[t] \in {"answered", "refused"}
  /\ IF stage[t] = "answered"
     THEN registry' = [registry EXCEPT ![t] = {Handler(First(t).of)}] /\ sub' = [sub EXCEPT ![First(t).of] = "active"]
     ELSE UNCHANGED registry /\ sub' = [sub EXCEPT ![First(t).of] = "failed"]
  /\ Ends(t)
  /\ UNCHANGED <<wire, inbox, subscribed, recorded, message, faults>>

\* The last handler releases the subscription of Redis; whether that worked is ignored.
RunRelease(t) ==
  LET h == Handler(First(t).of)
  IN /\ Begins(t, "release")
     /\ registry' = [registry EXCEPT ![t] = @ \ {h}]
     /\ IF registry[t] = {h} THEN Sends(t, "unsubscribe") /\ UNCHANGED sub
        ELSE sub' = [sub EXCEPT ![First(t).of] = "gone"] /\ Ends(t) /\ UNCHANGED wire
     /\ UNCHANGED <<inbox, subscribed, recorded, message, faults>>

EndRelease(t) ==
  /\ chain[t] # <<>> /\ First(t).kind = "release" /\ stage[t] \in {"answered", "refused"}
  /\ sub' = [sub EXCEPT ![First(t).of] = "gone"]
  /\ Ends(t)
  /\ UNCHANGED <<registry, wire, inbox, subscribed, recorded, message, faults>>

--------------------------------------------------------------------------------
\* unsubscribeAll(): waits for the operations that are in the chains when it is called, ...
PendingNone == [t \in Targets |-> 0]
Pending == [t \in Targets |-> Len(chain[t])]
SweepBegins ==
  /\ sweep.pc = "no"
  /\ sweep' = [sweep EXCEPT !.pc = "waits", !.waits = Pending, !.before = {s \in Sub : sub[s] # "idle"}]
  /\ UNCHANGED <<registry, chain, stage, sub, wire, inbox, subscribed, recorded, message, faults>>

\* ... clears both registries and unsubscribes the channels; ...
Registered(ts) == {t \in ts : registry[t] # {}}
Sweep ==
  /\ sweep.pc = "waits" /\ \A t \in Targets : sweep.waits[t] = 0
  /\ registry' = [t \in Targets |-> {}]
  /\ sweep' = [sweep EXCEPT !.pc = IF Registered(Channel) = {} THEN "patterns" ELSE "channels", !.left = Registered(Pattern)]
  /\ wire' = IF Registered(Channel) = {} THEN wire ELSE Append(wire, Command("unsubscribe", Registered(Channel), None))
  /\ UNCHANGED <<chain, stage, sub, inbox, subscribed, recorded, message, faults>>

\* ... then the patterns it found registered.
SweepPatterns ==
  /\ sweep.pc = "patterns"
  /\ sweep' = [sweep EXCEPT !.pc = "done", !.left = {}]
  /\ wire' = IF sweep.left = {} THEN wire ELSE Append(wire, Command("unsubscribe", sweep.left, None))
  /\ UNCHANGED <<registry, chain, stage, sub, inbox, subscribed, recorded, message, faults>>

--------------------------------------------------------------------------------
After(c) == IF c.cmd = "subscribe" THEN subscribed \cup c.ts ELSE subscribed \ c.ts
Reply(c, ok) == [kind |-> IF ok THEN "ok" ELSE "error", of |-> c, m |-> None]

Execute ==
  /\ wire # <<>> /\ wire' = Tail(wire)
  /\ subscribed' = After(Head(wire))
  /\ inbox' = Append(inbox, Reply(Head(wire), TRUE))
  /\ UNCHANGED <<registry, chain, stage, sub, sweep, recorded, message, faults>>

Reject ==
  /\ wire # <<>> /\ wire' = Tail(wire) /\ faults < Faults /\ faults' = faults + 1
  /\ inbox' = Append(inbox, Reply(Head(wire), FALSE))
  /\ UNCHANGED <<registry, chain, stage, sub, sweep, subscribed, recorded, message>>

\* A message to a channel, or to one that a pattern matches.
Publish(m, t) ==
  /\ message[m].pc = "new"
  /\ message' = [message EXCEPT ![m] = [pc |-> IF t \in subscribed THEN "sent" ELSE "lost",
                                        due |-> {s \in SubsOf(t) : sub[s] = "active"}, called |-> {}]]
  /\ inbox' = IF t \in subscribed THEN Append(inbox, [kind |-> "message", of |-> Command("message", {t}, t), m |-> m]) ELSE inbox
  /\ UNCHANGED <<registry, chain, stage, sub, sweep, wire, subscribed, recorded, faults>>

Arrived == Head(inbox)
Answer ==
  /\ inbox # <<>> /\ Arrived.kind # "message" /\ inbox' = Tail(inbox)
  /\ recorded' = IF Arrived.kind = "error" THEN recorded
                 ELSE IF Arrived.of.cmd = "subscribe" THEN recorded \cup Arrived.of.ts ELSE recorded \ Arrived.of.ts
  /\ IF Arrived.of.by \in Targets
     THEN stage' = [stage EXCEPT ![Arrived.of.by] = IF Arrived.kind = "ok" THEN "answered" ELSE "refused"] /\ UNCHANGED sweep
     ELSE sweep' = [sweep EXCEPT !.pc = IF @ = "channels" THEN "patterns" ELSE @] /\ UNCHANGED stage
  /\ UNCHANGED <<registry, chain, sub, wire, subscribed, message, faults>>

\* dispatch()
Dispatch ==
  /\ inbox # <<>> /\ Arrived.kind = "message" /\ inbox' = Tail(inbox)
  /\ message' = [message EXCEPT ![Arrived.m].pc = "dispatched", ![Arrived.m].called = registry[Arrived.of.by],
                                ![Arrived.m].due = {s \in @ : sub[s] = "active"}]
  /\ UNCHANGED <<registry, chain, stage, sub, sweep, wire, subscribed, recorded, faults>>

\* The connection is lost with the messages on it. The library subscribes again to what it saw
\* answered, and sends the commands that were under way again or gives them up.
Unanswered == LET replies == SelectSeq(inbox, LAMBDA r : r.kind # "message")
              IN [i \in DOMAIN replies |-> replies[i].of] \o wire
GivenUp ==
  /\ wire' = <<>>
  /\ stage' = [t \in Targets |-> IF stage[t] = "sent" THEN "refused" ELSE stage[t]]
  /\ sweep' = [sweep EXCEPT !.pc = IF @ = "channels" THEN "patterns" ELSE @]
ConnectionLost ==
  /\ faults < Faults /\ faults' = faults + 1
  /\ inbox' = <<>> /\ subscribed' = recorded
  /\ \/ GivenUp
     \/ wire' = Unanswered /\ UNCHANGED <<stage, sweep>>
  /\ message' = [m \in Message |-> IF message[m].pc = "sent" THEN [message[m] EXCEPT !.pc = "lost"] ELSE message[m]]
  /\ UNCHANGED <<registry, chain, sub, recorded>>

Next ==
  \/ \E s \in Sub : Subscribe(s) \/ Unsubscribe(s)
  \/ \E t \in Targets : RunSubscribe(t) \/ EndSubscribe(t) \/ RunRelease(t) \/ EndRelease(t) \/ (\E m \in Message : Publish(m, t))
  \/ SweepBegins \/ Sweep \/ SweepPatterns
  \/ Execute \/ Reject \/ Answer \/ Dispatch \/ ConnectionLost

Spec == Init /\ [][Next]_vars

--------------------------------------------------------------------------------
\* A target that has a handler and no operation under way is subscribed at Redis, whatever was
\* refused and however often the connection was lost: no caller was told it is subscribed to a
\* channel that stays silent (pubsub.service.ts:87, 157-163). A pattern that is subscribed
\* while unsubscribeAll() awaits the channels is the exception: its PUNSUBSCRIBE is not in the
\* chain of the pattern.
Served ==
  /\ TypeOK
  /\ \A t \in Targets :
       registry[t] # {} /\ chain[t] = <<>> /\ (t \in Channel \/ sweep.pc \in {"no", "waits"}) => t \in subscribed

\* A message reaches every call of subscribe() that had returned when it was published and was
\* not unsubscribed when it arrived, until unsubscribeAll() clears the handlers. Calls that
\* pass the same function share one entry, which the first unsubscribe() removes.
Shared(s) == \E o \in Sub \ {s} : Target(o) = Target(s) /\ Handler(o) = Handler(s)
Delivered ==
  \A m \in Message : message[m].pc = "dispatched" /\ sweep.pc \in {"no", "waits"} =>
    \A s \in message[m].due : Shared(s) \/ Handler(s) \in message[m].called

\* unsubscribeAll() leaves no handler of a call that was made before it
\* (pubsub.service.ts:121-122).
SweepComplete ==
  sweep.pc = "done" => \A s \in sweep.before : Shared(s) \/ Handler(s) \notin registry[Target(s)]

===================================================================================
