------------------------- MODULE TokenBucketProofs -------------------------
(***************************************************************************)
(* What one operation of the bucket does to it, for every bucket, every    *)
(* time and every rate: the lemmas the proofs about the limiter rest on.   *)
(***************************************************************************)
EXTENDS TokenBucket, TLAPS

(* A bucket that holds no more than its capacity. *)
Bounded(b) == b.tokens <= b.capacity * Period

-----------------------------------------------------------------------------
(* The provers' nonlinear arithmetic, in the three forms that are used. *)

(* The product of naturals is a natural. *)
LEMMA ProductNat ==
    ASSUME NEW a \in Nat, NEW b \in Nat
    PROVE  a * b \in Nat
BY SMT

(* A product grows with its first factor. *)
LEMMA ProductMono ==
    ASSUME NEW a \in Int, NEW b \in Int, NEW c \in Nat, a <= b
    PROVE  a * c <= b * c
BY SMT

(* Multiplication distributes over the sum in a budget. *)
LEMMA ProductDistr ==
    ASSUME NEW a \in Int, NEW b \in Int, NEW c \in Int
    PROVE  a * (b + c) = a * b + a * c
BY SMT

(* refill leaves a bucket of the same capacity, moves its anchor to the    *)
(* later of the two times, never takes a token away, never exceeds the     *)
(* capacity, adds at most capacity per second, and adds at least one unit  *)
(* per second until a whole token is there.                                *)
LEMMA RefillFacts ==
    ASSUME NEW b \in Bucket, NEW now \in Nat, Bounded(b)
    PROVE  /\ refill(b, now) \in Bucket
           /\ Bounded(refill(b, now))
           /\ refill(b, now).capacity = b.capacity
           /\ refill(b, now).last_refill \in {b.last_refill, now}
           /\ refill(b, now).last_refill >= b.last_refill
           /\ refill(b, now).tokens >= b.tokens
           /\ refill(b, now).tokens
                <= b.tokens + (refill(b, now).last_refill - b.last_refill) * b.capacity
           /\ \/ refill(b, now).tokens >= Period
              \/ refill(b, now).tokens
                   >= b.tokens + (refill(b, now).last_refill - b.last_refill)
<1>1. CASE now <= b.last_refill
  <2>1. refill(b, now) = b
    BY <1>1 DEF refill
  <2>2. (b.last_refill - b.last_refill) * b.capacity = 0
    BY DEF Bucket
  <2>. QED
    BY <2>1, <2>2 DEF Bucket, Bounded
<1>2. CASE ~(now <= b.last_refill)
  <2>. DEFINE e == now - b.last_refill
              r == refill(b, now)
  <2>1. /\ b.tokens \in Nat /\ b.last_refill \in Nat
        /\ b.capacity \in Nat /\ b.capacity >= 1
        /\ e \in Nat /\ e >= 1 /\ Period \in Nat /\ Period >= 1
    BY <1>2, PeriodAssumption DEF Bucket
  <2>2. /\ e * b.capacity \in Nat /\ b.capacity * Period \in Nat
    BY <2>1, ProductNat
  <2>3. /\ e * b.capacity >= e
        /\ b.capacity * Period >= Period
    <3>1. 1 * e <= b.capacity * e /\ 1 * Period <= b.capacity * Period
      BY <2>1, ProductMono
    <3>. QED  BY <3>1, <2>1
  <2>4. r = [tokens      |-> Lesser(b.tokens + e * b.capacity, b.capacity * Period),
             last_refill |-> now,
             capacity    |-> b.capacity]
    BY <1>2 DEF refill
  <2>. HIDE DEF r
  <2>5. r.tokens \in Nat /\ r.tokens >= b.tokens /\ r.tokens <= b.capacity * Period
        /\ r.tokens <= b.tokens + e * b.capacity
        /\ (r.tokens >= Period \/ r.tokens >= b.tokens + e)
    BY <2>1, <2>2, <2>3, <2>4 DEF Lesser, Bounded
  <2>6. r \in Bucket
    BY <2>1, <2>4, <2>5 DEF Bucket
  <2>. QED
    BY <2>1, <2>4, <2>5, <2>6 DEF r, Bounded
<1>. QED  BY <1>1, <1>2

(* A consumption leaves a bounded bucket of the same capacity; a token is  *)
(* taken exactly when one is there.                                        *)
LEMMA ConsumeFacts ==
    ASSUME NEW b \in Bucket, NEW now \in Nat, Bounded(b)
    PROVE  /\ consumed(b, now) \in Bucket
           /\ Bounded(consumed(b, now))
           /\ consumed(b, now).capacity = b.capacity
           /\ consumed(b, now).last_refill = refill(b, now).last_refill
           /\ allows(b, now) =>
                /\ consumed(b, now).tokens = refill(b, now).tokens - Period
                /\ consumed(b, now).tokens >= 0
           /\ ~allows(b, now) => consumed(b, now).tokens = refill(b, now).tokens
<1>. DEFINE r == refill(b, now)
<1>1. r \in Bucket /\ Bounded(r) /\ r.capacity = b.capacity
  BY RefillFacts
<1>. HIDE DEF r
<1>2. CASE allows(b, now)
  <2>1. r.tokens >= Period
    BY <1>2 DEF allows, r
  <2>2. consumed(b, now) = [r EXCEPT !.tokens = r.tokens - Period]
    BY <1>2 DEF consumed, r
  <2>3. r.capacity * Period \in Nat
    BY <1>1, ProductNat, PeriodAssumption DEF Bucket
  <2>. QED
    BY <1>1, <1>2, <2>1, <2>2, <2>3, PeriodAssumption DEF Bucket, Bounded, r
<1>3. CASE ~allows(b, now)
  BY <1>1, <1>3 DEF consumed, r
<1>. QED  BY <1>2, <1>3

(* A retune leaves a bounded bucket of the new capacity, with the refilled *)
(* tokens or, if those are too many, a full bucket: at least one token.    *)
LEMMA RetuneFacts ==
    ASSUME NEW b \in Bucket, NEW now \in Nat, Bounded(b), NEW rate \in Nat \ {0}
    PROVE  /\ retune(b, rate, now) \in Bucket
           /\ Bounded(retune(b, rate, now))
           /\ retune(b, rate, now).capacity = rate
           /\ retune(b, rate, now).last_refill = refill(b, now).last_refill
           /\ retune(b, rate, now).tokens <= refill(b, now).tokens
           /\ \/ retune(b, rate, now).tokens >= Period
              \/ retune(b, rate, now).tokens = refill(b, now).tokens
<1>. DEFINE r == refill(b, now)
<1>1. r \in Bucket
  BY RefillFacts
<1>2. rate * Period \in Nat /\ 1 * Period <= rate * Period
  BY ProductNat, ProductMono, PeriodAssumption
<1>. HIDE DEF r
<1>3. retune(b, rate, now) = [tokens      |-> Lesser(r.tokens, rate * Period),
                              last_refill |-> r.last_refill,
                              capacity    |-> rate]
  BY DEF retune, r
<1>. QED
  BY <1>1, <1>2, <1>3, PeriodAssumption DEF Bucket, Bounded, Lesser, r

(* A new bucket is full: bounded, and with at least one token. *)
LEMMA FullFacts ==
    ASSUME NEW rate \in Nat \ {0}, NEW now \in Nat
    PROVE  /\ full(rate, now) \in Bucket
           /\ Bounded(full(rate, now))
           /\ full(rate, now).tokens >= Period
           /\ full(rate, now).tokens = rate * Period
           /\ full(rate, now).last_refill = now
           /\ full(rate, now).capacity = rate
<1>1. rate * Period \in Nat /\ 1 * Period <= rate * Period
  BY ProductNat, ProductMono, PeriodAssumption
<1>. QED
  BY <1>1, PeriodAssumption DEF full, Bucket, Bounded

-----------------------------------------------------------------------------
(* The account of a bucket that has granted k tokens since the second      *)
(* from, while its rate was never above top: what it still holds is        *)
(* counted with what it granted, and time by its own anchor.               *)
Within(b, k, top, from) ==
    /\ b.capacity <= top
    /\ from <= b.last_refill
    /\ k * Period + b.tokens <= top * (Period + (b.last_refill - from))

(* A budget that holds keeps holding when the rate or the time grows. *)
LEMMA BudgetGrows ==
    ASSUME NEW p \in Nat, NEW q \in Nat, NEW d \in Nat, NEW e \in Nat, p <= q, d <= e
    PROVE  p * (Period + d) <= q * (Period + e)
<1>1. Period + d \in Nat /\ Period + e \in Nat
  BY PeriodAssumption
<1>2. p * (Period + d) <= q * (Period + d)
  BY <1>1, ProductMono
<1>3. (Period + d) * q <= (Period + e) * q
  BY <1>1, ProductMono, PeriodAssumption
<1>. QED
  BY <1>1, <1>2, <1>3

(* A refill earns the budget at least what it puts into the bucket. *)
LEMMA RefillWithin ==
    ASSUME NEW b \in Bucket, NEW now \in Nat, Bounded(b),
           NEW k \in Nat, NEW top \in Nat, NEW from \in Nat, Within(b, k, top, from)
    PROVE  Within(refill(b, now), k, top, from)
<1>. DEFINE r == refill(b, now)
            e == r.last_refill - b.last_refill
            d == b.last_refill - from
<1>1. /\ r \in Bucket /\ r.capacity = b.capacity
      /\ r.last_refill >= b.last_refill
      /\ r.tokens <= b.tokens + e * b.capacity
  BY RefillFacts
<1>. HIDE DEF r
<1>2. e \in Nat /\ d \in Nat /\ b.capacity \in Nat /\ Period \in Nat
      /\ k * Period \in Nat /\ b.tokens \in Nat /\ r.tokens \in Nat
  BY <1>1, ProductNat, PeriodAssumption DEF Within, Bucket
<1>3. b.capacity * e <= top * e
  BY <1>2, ProductMono DEF Within
<1>4. top * ((Period + d) + e) = top * (Period + d) + top * e
  BY <1>2, ProductDistr
<1>5. (Period + d) + e = Period + (r.last_refill - from)
  BY <1>1, <1>2 DEF Bucket
<1>6. k * Period + b.tokens <= top * (Period + d)
  BY DEF Within
<1>7. k * Period + r.tokens <= top * (Period + (r.last_refill - from))
  <2>1. top * (Period + d) \in Nat /\ top * e \in Nat /\ b.capacity * e \in Nat
        /\ e * b.capacity = b.capacity * e
    BY <1>2, ProductNat
  <2>2. k * Period + r.tokens <= top * ((Period + d) + e)
    BY <1>1, <1>2, <1>3, <1>4, <1>6, <2>1
  <2>. QED  BY <1>5, <2>2
<1>8. Within(r, k, top, from)
  BY <1>1, <1>7 DEF Within, Bucket
<1>. QED  BY <1>8 DEF r

(* A token that try_consume grants moves from the bucket to the account. *)
LEMMA ConsumeWithin ==
    ASSUME NEW b \in Bucket, NEW now \in Nat, Bounded(b),
           NEW k \in Nat, NEW top \in Nat, NEW from \in Nat, Within(b, k, top, from)
    PROVE  /\ allows(b, now) => Within(consumed(b, now), k + 1, top, from)
           /\ ~allows(b, now) => Within(consumed(b, now), k, top, from)
<1>. DEFINE r == refill(b, now)
            c == consumed(b, now)
<1>1. r \in Bucket /\ r.capacity = b.capacity /\ Within(r, k, top, from)
  BY RefillFacts, RefillWithin
<1>2. /\ c \in Bucket /\ c.capacity = b.capacity
      /\ c.last_refill = r.last_refill
      /\ allows(b, now) => c.tokens = r.tokens - Period
      /\ ~allows(b, now) => c = r
  BY ConsumeFacts DEF consumed
<1>3. Period * (k + 1) = Period * k + Period * 1
  BY ProductDistr, PeriodAssumption
<1>. HIDE DEF r, c
<1>4. ASSUME allows(b, now) PROVE Within(c, k + 1, top, from)
  <2>1. (k + 1) * Period + c.tokens = k * Period + r.tokens
    BY <1>1, <1>2, <1>3, <1>4, PeriodAssumption DEF Bucket
  <2>. QED  BY <1>1, <1>2, <2>1 DEF Within
<1>. QED  BY <1>1, <1>2, <1>4 DEF c

(* A retune keeps the account, at a rate that bounds the new one too. *)
LEMMA RetuneWithin ==
    ASSUME NEW b \in Bucket, NEW now \in Nat, Bounded(b), NEW rate \in Nat \ {0},
           NEW k \in Nat, NEW top \in Nat, NEW from \in Nat, Within(b, k, top, from),
           NEW higher \in Nat, top <= higher, rate <= higher
    PROVE  Within(retune(b, rate, now), k, higher, from)
<1>. DEFINE r == refill(b, now)
            t == retune(b, rate, now)
<1>1. r \in Bucket /\ Within(r, k, top, from)
  BY RefillFacts, RefillWithin
<1>2. /\ t \in Bucket /\ t.capacity = rate
      /\ t.last_refill = r.last_refill /\ t.tokens <= r.tokens
  BY RetuneFacts
<1>. HIDE DEF r, t
<1>3. top * (Period + (r.last_refill - from)) <= higher * (Period + (r.last_refill - from))
  BY <1>1, BudgetGrows DEF Within, Bucket
<1>4. /\ k * Period \in Nat
      /\ top * (Period + (r.last_refill - from)) \in Nat
      /\ higher * (Period + (r.last_refill - from)) \in Nat
  BY <1>1, ProductNat, PeriodAssumption DEF Within, Bucket
<1>5. Within(t, k, higher, from)
  BY <1>1, <1>2, <1>3, <1>4 DEF Within, Bucket
<1>. QED  BY <1>5 DEF t

(* The account of a new bucket is opened by what fills it. *)
LEMMA FullWithin ==
    ASSUME NEW rate \in Nat \ {0}, NEW now \in Nat, NEW from \in 0..now
    PROVE  Within(full(rate, now), 0, rate, from)
<1>1. rate * (Period + 0) <= rate * (Period + (now - from))
  BY BudgetGrows
<1>2. 0 * Period = 0 /\ Period + 0 = Period
  BY PeriodAssumption
<1>. QED  BY <1>1, <1>2, FullFacts DEF Within, Bucket

(* An account that covers k tokens covers fewer. *)
LEMMA WithinFewer ==
    ASSUME NEW b \in Bucket, NEW k \in Nat, NEW top \in Nat, NEW from \in Nat,
           Within(b, k, top, from), NEW j \in 0..k
    PROVE  Within(b, j, top, from)
<1>1. j * Period <= k * Period /\ j * Period \in Nat /\ k * Period \in Nat
  BY ProductMono, ProductNat, PeriodAssumption
<1>2. top * (Period + (b.last_refill - from)) \in Nat
  BY ProductNat, PeriodAssumption DEF Within, Bucket
<1>. QED  BY <1>1, <1>2 DEF Within, Bucket

(* What an account allows is a bucket and its refill up to the present. *)
LEMMA WithinBudget ==
    ASSUME NEW b \in Bucket, NEW k \in Nat, NEW top \in Nat, NEW from \in Nat,
           Within(b, k, top, from), NEW now \in Nat, b.last_refill <= now
    PROVE  k * Period <= top * (Period + (now - from))
<1>1. top * (Period + (b.last_refill - from)) <= top * (Period + (now - from))
  BY BudgetGrows DEF Within, Bucket
<1>2. /\ k * Period \in Nat
      /\ top * (Period + (b.last_refill - from)) \in Nat
      /\ top * (Period + (now - from)) \in Nat
  BY ProductNat, PeriodAssumption DEF Within, Bucket
<1>. QED  BY <1>1, <1>2 DEF Within, Bucket

=============================================================================
