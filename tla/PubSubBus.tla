-------------------------------- MODULE PubSubBus --------------------------------
(* The bus of the in-memory driver (packages/testing) that all its adapters share: who is    *)
(* subscribed to what, and the microtasks that deliver. Its calls run one by one, and          *)
(* microtasks in the order in which they were queued, after the code that queued them.        *)
EXTENDS Naturals, Sequences, SequencesExt

CONSTANTS
  Adapter, Channel, Pattern,
  Matches,         \* pairs of a pattern and a channel that it matches
  MaxMessages      \* BOUND

VARIABLES
  channelSubs, patternSubs,  \* the maps: from a target that has any to its subscribers
  microtasks,                \* deliveries <<adapter, target, message>>
  sent,                      \* messages published: their numbers are 1..sent
  held, owed                 \* history: what each adapter subscribes to; messages still due by adapter and target
maps == <<channelSubs, patternSubs, held>>
vars == <<maps, microtasks, sent, owed>>

Target == Channel \cup Pattern
Init ==
  /\ channelSubs = [t \in {} |-> {}] /\ patternSubs = [t \in {} |-> {}]
  /\ microtasks = <<>> /\ sent = 0
  /\ held = [a \in Adapter |-> {}] /\ owed = [at \in Adapter \X Target |-> <<>>]

SubsOf(map, t) == IF t \in DOMAIN map THEN map[t] ELSE {}
With(map, a, t) == [u \in DOMAIN map \cup {t} |-> IF u = t THEN SubsOf(map, t) \cup {a} ELSE map[u]]
\* The subscriber leaves the targets named, or all when none is; a target without any goes.
Left(map, ts) == IF ts = {} THEN DOMAIN map ELSE ts
Without(map, a, ts) ==
  LET rest(t) == IF t \in Left(map, ts) THEN map[t] \ {a} ELSE map[t]
  IN [t \in {u \in DOMAIN map : rest(u) # {}} |-> rest(t)]

Subscribe(a, t) ==
  /\ IF t \in Channel THEN channelSubs' = With(channelSubs, a, t) /\ UNCHANGED patternSubs
     ELSE patternSubs' = With(patternSubs, a, t) /\ UNCHANGED channelSubs
  /\ held' = [held EXCEPT ![a] = @ \cup {t}] /\ UNCHANGED <<microtasks, sent, owed>>

Unsubscribe(a, ts) ==
  /\ channelSubs' = Without(channelSubs, a, ts)
  /\ held' = [held EXCEPT ![a] = @ \ (IF ts = {} THEN Channel ELSE ts)]
  /\ UNCHANGED <<patternSubs, microtasks, sent, owed>>

Punsubscribe(a, ts) ==
  /\ patternSubs' = Without(patternSubs, a, ts)
  /\ held' = [held EXCEPT ![a] = @ \ (IF ts = {} THEN Pattern ELSE ts)]
  /\ UNCHANGED <<channelSubs, microtasks, sent, owed>>

\* removeSubscriber(), of doDisconnect(): what is queued for the adapter stays queued.
Disconnect(a) ==
  /\ channelSubs' = Without(channelSubs, a, {}) /\ patternSubs' = Without(patternSubs, a, {})
  /\ held' = [held EXCEPT ![a] = {}] /\ UNCHANGED <<microtasks, sent, owed>>

Matching(c) == {p \in DOMAIN patternSubs : <<p, c>> \in Matches}
Receivers(c) == {<<a, c>> : a \in SubsOf(channelSubs, c)} \cup UNION {{<<a, p>> : a \in patternSubs[p]} : p \in Matching(c)}
Publish(c) ==
  LET n == sent + 1  due == {at \in Adapter \X Target : at[2] \in held[at[1]] /\ (at[2] = c \/ <<at[2], c>> \in Matches)}
      direct == SetToSeq({r \in Receivers(c) : r[2] = c})  indirect == SetToSeq({r \in Receivers(c) : r[2] # c})
  IN /\ sent < MaxMessages /\ sent' = n
     /\ microtasks' = microtasks \o [i \in DOMAIN (direct \o indirect) |-> Append((direct \o indirect)[i], n)]
     /\ owed' = [at \in DOMAIN owed |-> IF at \in due THEN Append(owed[at], n) ELSE owed[at]]
     /\ UNCHANGED maps

\* The listener of the adapter is called: what was due to it is so no more.
Deliver ==
  /\ microtasks # <<>> /\ microtasks' = Tail(microtasks)
  /\ LET m == Head(microtasks)
     IN owed' = [owed EXCEPT ![<<m[1], m[2]>>] = SelectSeq(@, LAMBDA n : n # m[3])]
  /\ UNCHANGED <<maps, sent>>

Next ==
  \/ \E a \in Adapter :
       \/ \E t \in Target : Subscribe(a, t)
       \/ \E ts \in {{}} \cup {{c} : c \in Channel} : Unsubscribe(a, ts)
       \/ \E ts \in {{}} \cup {{p} : p \in Pattern} : Punsubscribe(a, ts)
       \/ Disconnect(a)
  \/ (\E c \in Channel : Publish(c)) \/ Deliver
Spec == Init /\ [][Next]_vars

--------------------------------------------------------------------------------
\* The maps hold the subscriptions and nothing else, whoever left whatever in any order.
MapsRight ==
  /\ \A t \in Target, a \in Adapter : (t \in held[a]) = (a \in SubsOf(IF t \in Channel THEN channelSubs ELSE patternSubs, t))
  /\ \A t \in DOMAIN channelSubs : channelSubs[t] # {}
  /\ \A t \in DOMAIN patternSubs : patternSubs[t] # {}

\* What is queued is what is due: an adapter gets a message once for each subscription that
\* matched when it was published, in the order of publication, even when it left since.
OncePerSubscription ==
  \A a \in Adapter, t \in Target :
    LET queued == SelectSeq(microtasks, LAMBDA m : m[1] = a /\ m[2] = t)
    IN [i \in DOMAIN queued |-> queued[i][3]] = owed[<<a, t>>]

BusKept == MapsRight /\ OncePerSubscription
================================================================================
