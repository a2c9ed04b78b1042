---------------------------- MODULE RateLimiter ----------------------------
(***************************************************************************)
(* The console's per-client token buckets (pkg/web/ratelimit.go), with the    *)
(* collection of idle buckets that a request of any client may trigger.       *)
(*                                                                         *)
(* Tokens come in units: a request costs Cost, a clock step refills Refill,   *)
(* so that fractions of a token occur.  Times are kept as ages, each up to    *)
(* the first one past the limit it is compared with.  An idle bucket is full: *)
(* Refill * IdleAfter >= Burst (300 s at 50 per second, and a burst of 100).  *)
(***************************************************************************)
EXTENDS Integers, Functions

CONSTANTS
    Clients,        \* what clientIP returns
    Refill, Cost,   \* units per clock step and per request
    Burst,          \* units a bucket holds
    IdleAfter,      \* age past which a bucket is collected
    GCEvery         \* age of the last collection past which there is another

VARIABLES
    buckets,    \* rateLimiter.buckets: [tokens, age], for the clients that have one
    gcAge,      \* time since lastGC
    spent       \* what each client was admitted for and time has not made up for yet

limiterVars == <<buckets, gcAge, spent>>

Smaller(a, b) == IF a <= b THEN a ELSE b
Larger(a, b)  == IF a >= b THEN a ELSE b

\* lastGC is the zero time: the first request collects
LimiterInit == buckets = <<>> /\ gcAge = GCEvery + 1 /\ spent = [c \in Clients |-> 0]

LimiterClock ==
    /\ buckets' = [c \in DOMAIN buckets |-> [buckets[c] EXCEPT !.age = Smaller(@ + 1, IdleAfter + 1)]]
    /\ gcAge' = Smaller(gcAge + 1, GCEvery + 1)
    /\ spent' = [c \in Clients |-> Larger(spent[c] - Refill, 0)]

\* (mutant) idle is measured by the collection's own period
CollectedEarly == Restrict(buckets, {c \in DOMAIN buckets : buckets[c].age <= GCEvery})

\* The buckets that survive a collection
Collected == Restrict(buckets, {c \in DOMAIN buckets : buckets[c].age <= IdleAfter})

\* A new bucket is full; an old one is refilled for the time it was left alone
Refilled(kept, c) ==
    IF c \in DOMAIN kept THEN Smaller(kept[c].tokens + kept[c].age * Refill, Burst) ELSE Burst

\* allow, under the lock: admitted, or answered 429
Allow(c) ==
    LET collect == gcAge > GCEvery
        kept    == IF collect THEN Collected ELSE buckets
        tokens  == Refilled(kept, c)
        ok      == tokens >= Cost
        bucket  == [tokens |-> IF ok THEN tokens - Cost ELSE tokens, age |-> 0]
    IN  /\ buckets' = [x \in DOMAIN kept \cup {c} |-> IF x = c THEN bucket ELSE kept[x]]
        /\ gcAge' = IF collect THEN 0 ELSE gcAge
        /\ spent' = [spent EXCEPT ![c] = IF ok THEN @ + Cost ELSE @]

LimiterNext == LimiterClock \/ \E c \in Clients : Allow(c)

LimiterSpec == LimiterInit /\ [][LimiterNext]_limiterVars
----------------------------------------------------------------------------
(* Properties *)

\* At any time a client can still spend exactly the burst less what it was
\* admitted for and time has not made up for: over no window is it admitted for
\* more than the burst plus what the window refills, and it is never refused
\* before that; refusals cost nothing, and dropping its bucket, on a request of
\* another client, forgets nothing (ratelimit.go:53-79).
BucketExact == \A c \in Clients : Refilled(buckets, c) = Burst - spent[c]
============================================================================
