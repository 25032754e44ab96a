------------------------------- MODULE LockLease -------------------------------
(* What a distributed lock on one key promises, whatever its timing: the key   *)
(* has at most one owner, it passes from one owner to the next only through    *)
(* the unowned state, and a token that lost the key never owns it again.       *)
CONSTANTS Token,     \* the tokens acquire() generates, one per call
          NoOwner    \* the key is absent from Redis; no token

VARIABLES owner,     \* the token stored under the key, or NoOwner
          retired    \* the tokens that have owned the key and lost it

leaseVars == <<owner, retired>>

TypeOK ==
  /\ owner \in Token \cup {NoOwner}
  /\ retired \in SUBSET Token

Init ==
  /\ owner = NoOwner
  /\ retired = {}

\* A fresh token takes the free key.
Grant(t) ==
  /\ owner = NoOwner
  /\ t \notin retired
  /\ owner' = t
  /\ UNCHANGED retired

\* The owner loses the key: it released it, its TTL ran out, or it was forced out.
Lose ==
  /\ owner # NoOwner
  /\ owner' = NoOwner
  /\ retired' = retired \cup {owner}

Next == Lose \/ \E t \in Token : Grant(t)

Spec == Init /\ [][Next]_leaseVars
================================================================================
