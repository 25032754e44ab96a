----------------------------- MODULE MCIdempotency -----------------------------
(* Small instances of what counts requests in Redis: Idempotency, and RateLimit.  *)
(* Each behaviour runs one of them; the other stays in an initial state.          *)
EXTENDS Idempotency, RateLimit, TLC

CONSTANTS Parts, r1, r2, r3, p1, p2

VARIABLE part

ThirdDiffers == [r \in Req |-> IF r = r3 THEN p2 ELSE p1]
FirstTwo == Permutations({r1, r2})
NoSkew == [r \in Req |-> 0]

MCInit ==
  /\ part \in Parts /\ Init /\ RLInit
  /\ part = "keys" => alg = "fixed" /\ policy = "open"
  \* Errors are handled alike for all algorithms: one of them meets a closed policy.
  /\ policy = "closed" => alg = "sliding"
MCNext ==
  \/ part = "keys" /\ Next /\ UNCHANGED <<part, rlVars>>
  \/ part = "rates" /\ RLNext /\ UNCHANGED <<part, vars>>
MCSpec == MCInit /\ [][MCNext]_<<part, rlVars, vars>>
================================================================================
