------------------------------- MODULE MCStampede -------------------------------
(* Small instances of Stampede, calls in two processes, and of LocalCache, calls in one.   *)
(* Each behaviour runs one of them; the variables of the other stay as they are.          *)
EXTENDS Stampede, LocalCache, TLC

CONSTANTS Parts, c1, c2, c3, p, q

VARIABLE part

ThreeHomes == c1 :> p @@ c2 :> p @@ c3 :> q

\* The two keys of the part "local" are alike: the first call is about x, or both.
MCInit == part \in Parts /\ Init /\ LocalInit
MCNext ==
  \/ part = "stampede" /\ Next /\ UNCHANGED <<part, localVars>>
  \/ part = "local" /\ LocalNext /\ calls'[1].keys # {"y"} /\ UNCHANGED <<part, vars>>
MCSpec == MCInit /\ [][MCNext]_<<part, localVars, vars>>
================================================================================
