---------------------------- MODULE TokenBucket ----------------------------
(***************************************************************************)
(* The token bucket of src/src/rate_limit.rs and the two critical sections *)
(* of the limiter that are built on it, as operators on a bucket and on    *)
(* the map of buckets.                                                     *)
(*                                                                         *)
(* The code keeps tokens as an f64 and refills capacity / 60.0 of them per *)
(* second.  Here a token is Period units, so that a second refills exactly *)
(* capacity units and every quantity is an integer: the rounding of f64 is *)
(* abstracted away, Period stands for the 60.0 of the code, and time is in *)
(* whole seconds, the resolution of now_unix_seconds.  The refill rate is  *)
(* a function of the capacity in every bucket the code builds, and is not  *)
(* kept as a field of its own.                                             *)
(***************************************************************************)
EXTENDS Integers

CONSTANTS
    Period,                 \* seconds in which an empty bucket fills up
    DEFAULT_RATE_PER_MIN    \* the rate a configured 0 is replaced by

ASSUME PeriodAssumption == Period \in Nat \ {0}
ASSUME RateAssumption   == DEFAULT_RATE_PER_MIN \in Nat \ {0}

Bucket == [tokens : Nat, last_refill : Nat, capacity : Nat \ {0}]

Lesser(a, b) == IF a <= b THEN a ELSE b

(* TokenBucket::full *)
full(per_min, now) ==
    [tokens |-> per_min * Period, last_refill |-> now, capacity |-> per_min]

(* Mutant of refill: a time from the past moves the anchor back. *)
refill_rewinds(b, now) ==
    IF now <= b.last_refill THEN [b EXCEPT !.last_refill = now]
    ELSE [tokens      |-> Lesser(b.tokens + (now - b.last_refill) * b.capacity,
                                 b.capacity * Period),
          last_refill |-> now,
          capacity    |-> b.capacity]

(* TokenBucket::refill.  A time that is not after the last refill changes  *)
(* nothing: neither the tokens nor the anchor.                             *)
refill(b, now) ==
    IF now <= b.last_refill THEN b
    ELSE [tokens      |-> Lesser(b.tokens + (now - b.last_refill) * b.capacity,
                                 b.capacity * Period),
          last_refill |-> now,
          capacity    |-> b.capacity]

(* TokenBucket::try_consume: whether a token is there after the refill,    *)
(* and the bucket it leaves.                                               *)
allows(b, now) == refill(b, now).tokens >= Period

(* Mutant of consumed: the token is taken without looking. *)
consumed_blindly(b, now) == [refill(b, now) EXCEPT !.tokens = @ - Period]

consumed(b, now) ==
    IF allows(b, now)
    THEN [refill(b, now) EXCEPT !.tokens = @ - Period]
    ELSE refill(b, now)

(* Mutant of retune: the bucket starts empty at the new rate. *)
retune_empties(b, per_min, now) ==
    [tokens |-> 0, last_refill |-> refill(b, now).last_refill, capacity |-> per_min]

(* TokenBucket::retune: refill at the old rate, then the new capacity.     *)
retune(b, per_min, now) ==
    [tokens      |-> Lesser(refill(b, now).tokens, per_min * Period),
     last_refill |-> refill(b, now).last_refill,
     capacity    |-> per_min]

-----------------------------------------------------------------------------
(* A configured rate of 0 means the default (RateLimiter::new, set_limit). *)
effective(per_min) == IF per_min = 0 THEN DEFAULT_RATE_PER_MIN ELSE per_min

(* HashMap::entry(n).or_insert_with(full(per_min, now)) *)
entry(map, n, per_min, now) ==
    IF n \in DOMAIN map THEN map[n] ELSE full(per_min, now)

=============================================================================
