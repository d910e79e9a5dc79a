----------------------------- MODULE TokenBucket -----------------------------
(***************************************************************************)
(* The SUBMIT rate limiter (ratelimit.ts), by the wall clock, which may be *)
(* set back.  Tokens are fractions in the code; here they are counted in   *)
(* parts, Unit to a token, and Rate is in parts for a step of the clock.   *)
(***************************************************************************)
EXTENDS Integers

CONSTANTS
    Unit,
    Burst,  \* SUBMIT_BURST, which may be less than a token
    Rate    \* SUBMIT_RATE_PER_SEC, which may be negative

ASSUME BucketAssumption == Unit \in Nat \ {0} /\ {Burst, Rate} \subseteq Int

Capacity == IF Burst < Unit THEN Unit ELSE Burst
Refill == IF Rate < 0 THEN 0 ELSE Rate

Bucket == [tokens : 0 .. Capacity, last : Nat]

Full(now) == [tokens |-> Capacity, last |-> now]

\* Mutant: the time of the last call is kept, not that of the last refill.
RefilledByCall(b, now) ==
    LET tokens == b.tokens + (IF now > b.last THEN now - b.last ELSE 0) * Refill
    IN  [tokens |-> IF tokens > Capacity THEN Capacity ELSE tokens, last |-> now]

\* Time that adds nothing, the clock set back among it, is not counted as passed.
Refilled(b, now) ==
    LET tokens == b.tokens + (now - b.last) * Refill
    IN  IF now > b.last /\ Refill > 0
        THEN [tokens |-> IF tokens > Capacity THEN Capacity ELSE tokens, last |-> now]
        ELSE b

Allows(b, now) == Refilled(b, now).tokens >= Unit

\* What a call leaves of the bucket.
Allow(b, now) ==
    [Refilled(b, now) EXCEPT !.tokens = IF @ >= Unit THEN @ - Unit ELSE @]

================================================================================
