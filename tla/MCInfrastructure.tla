---------------------------- MODULE MCInfrastructure ----------------------------
(* The clients of a name and the life of an application: each behaviour runs
   one of them. The variables of Lifecycle are 0 where Connections runs, and
   where Lifecycle runs those of Connections stay as they are at first. *)
EXTENDS Connections, Sequences

CONSTANTS Parts

VARIABLES
  part,
  app, phase, made, started, resolved, wrong, queue, order, called, held, wire, open, work   \* of Lifecycle

\* Two locks, one client or two of which one may not be configured, up to three plugins (new
\* names in their order) with any dependencies.
NamesUsed == <<"a", "b", "c">>
SomePlugin == {[name |-> n, deps |-> d] : n \in {"a", "b", "c"}, d \in SUBSET {"a", "b", "c"}}
Tidy(s) == \A i \in DOMAIN s : \E k \in 1..Len(s) :
  s[i].name = NamesUsed[k] /\ (k = 1 \/ \E j \in 1..(i - 1) : s[j].name = NamesUsed[k - 1] \/ s[j].name = NamesUsed[k])
Lists == {s \in UNION {[1..n -> SomePlugin] : n \in 0..3} : Tidy(s)}
App(a, cs, u, ps) == [async |-> a, clients |-> cs, uses |-> u, plugins |-> ps]
MCApps ==
  {App(FALSE, <<"default">>, "default", ps) : ps \in Lists}
    \cup {App(a, cs, u, <<[name |-> "a", deps |-> {}]>>) :
            a \in BOOLEAN, cs \in {<<"default">>, <<"default", "cache">>, <<"cache", "default">>, <<"cache">>}, u \in {"default", "cache"}}
LC == INSTANCE Lifecycle WITH
  Lock <- {"l1", "l2"}, Apps <- MCApps, created <- made
lifecycle == <<app, phase, made, started, resolved, wrong, queue, order, called, held, wire, open, work>>

\* --------------------------------------------------------------- one of them runs
MCInit == /\ part \in Parts /\ Init
          /\ \/ /\ part = "clients" /\ app = 0 /\ phase = 0 /\ made = 0 /\ started = 0 /\ resolved = 0 /\ wrong = 0 /\ queue = 0
                /\ order = 0 /\ called = 0 /\ held = 0 /\ wire = 0 /\ open = 0 /\ work = 0
             \/ part = "app" /\ LC!Init
Clients(A) == part = "clients" /\ A /\ UNCHANGED <<part, lifecycle>>
AppTakes(A) == part = "app" /\ A /\ UNCHANGED <<part, vars>>
MCNext == Clients(Next) \/ AppTakes(LC!Next)

\* The fairness of Connections and of Lifecycle, each where it runs.
infrastructure == <<part, lifecycle, vars>>
MCFairness ==
  /\ \A k \in Client :
       /\ WF_infrastructure(Clients(Connected(k) \/ NotConnected(k))) /\ WF_infrastructure(Clients(Reconnect(k)))
       /\ WF_infrastructure(Clients(RetrySucceeds(k))) /\ WF_infrastructure(Clients(Disconnected(k)))
  /\ WF_infrastructure(Clients(ServerUp))
  /\ WF_infrastructure(AppTakes(\E i \in DOMAIN LC!Providers : LC!Factory(i) \/ LC!Connects(i)))
  /\ WF_infrastructure(AppTakes(LC!Boots \/ LC!Round \/ LC!AllSorted)) /\ WF_infrastructure(AppTakes(LC!Registered)) /\ WF_infrastructure(AppTakes(LC!Initialised))
  /\ WF_infrastructure(AppTakes(LC!Destroyed)) /\ WF_infrastructure(AppTakes(LC!Drained)) /\ WF_infrastructure(AppTakes(LC!Executes))
  /\ WF_infrastructure(AppTakes(\E hook \in {"register", "init", "destroy"} : LC!Hook(hook)))
MCSpec == MCInit /\ [][MCNext]_infrastructure /\ MCFairness

\* --------------------------------------------------------------- properties
\* Of the two properties of Connections, ClientsUsable and Recovers, and of Lifecycle.
\* An application that is told to stop does (Lifecycle).
AppStops == (part = "app" /\ phase = "destroy") ~> (part # "app" \/ phase \in {"stopped", "failed"})
\* Hooks run in the order of the dependencies, configured clients are found (Lifecycle).
StartsInOrder == part = "app" => LC!HooksOrdered /\ LC!ConfiguredClientsFound
================================================================================
