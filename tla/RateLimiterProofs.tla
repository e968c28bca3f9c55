------------------------- MODULE RateLimiterProofs -------------------------
(***************************************************************************)
(* The budget and the no-starvation property of the limiter, for any       *)
(* number of threads and nodes, any rates, any Period and any bounds.      *)
(***************************************************************************)
EXTENDS RateLimiter, TokenBucketProofs, FiniteSetTheorems

(* Zenon finds the steps of logic and sets; a step about numbers or        *)
(* records names SMT.                                                      *)
USE Zenon

(* No pending call carries a time from the future or a rate of zero. *)
CallsInv ==
    \A t \in Threads :
        /\ call[t].op \in {"consume", "set"} => call[t].now <= clock
        /\ call[t].op = "set" => call[t].per_min # 0

(* What the bucket b and the history h of one node have to do with each    *)
(* other: the bucket's account is the one the history keeps.               *)
Ledger(b, h) == Bounded(b) /\ Within(b, h.granted, h.peak, h.first)

(* Since its last grant the bucket has gained a unit per second, or has    *)
(* reached a whole token.                                                  *)
Regained(b, h) ==
    /\ h.granted = 0 => b.tokens >= Period
    /\ h.granted # 0 => /\ h.at <= b.last_refill
                        /\ \/ b.tokens >= Period
                           \/ b.tokens >= b.last_refill - h.at

NodeInv(b, h, now) == Ledger(b, h) /\ Regained(b, h) /\ b.last_refill <= now

IInv ==
    /\ TypeOK
    /\ CallsInv
    /\ \A n \in DOMAIN inner : NodeInv(inner[n], hist[n], clock)

-----------------------------------------------------------------------------
(* A configured rate is never zero once it is in effect. *)
LEMMA EffectiveRate ==
    ASSUME NEW r \in Nat
    PROVE  effective(r) \in Nat \ {0}
BY RateAssumption DEF effective

(* A refill keeps what the bucket regained since its last grant. *)
LEMMA RefillRegained ==
    ASSUME NEW b \in Bucket, NEW h \in History, NEW now \in Nat,
           Bounded(b), Regained(b, h)
    PROVE  Regained(refill(b, now), h)
<1>. DEFINE r == refill(b, now)
<1>1. /\ r \in Bucket
      /\ r.last_refill >= b.last_refill
      /\ r.tokens >= b.tokens
      /\ r.tokens >= Period \/ r.tokens >= b.tokens + (r.last_refill - b.last_refill)
  BY RefillFacts
<1>. HIDE DEF r
<1>2. Regained(r, h)
  BY <1>1, PeriodAssumption, SMT DEF Regained, Bucket, History
<1>. QED  BY <1>2 DEF r

-----------------------------------------------------------------------------
(* One locked consumption preserves what is known of the node. *)
LEMMA ConsumeNode ==
    ASSUME NEW b \in Bucket, NEW h \in History, NEW now \in Nat, NEW c \in Nat,
           NodeInv(b, h, c), now <= c
    PROVE  /\ ~allows(b, now) => NodeInv(consumed(b, now), h, c)
           /\ allows(b, now) =>
                NodeInv(consumed(b, now), credited(h, consumed(b, now)), c)
<1>. DEFINE r == refill(b, now)
            k == consumed(b, now)
<1>0. h.granted \in Nat /\ h.peak \in Nat /\ h.first \in Nat
  BY DEF History
<1>1. r \in Bucket /\ Regained(r, h) /\ r.last_refill <= c
  BY RefillFacts, RefillRegained DEF NodeInv, Ledger, Bucket
<1>2. /\ k \in Bucket /\ Bounded(k)
      /\ k.last_refill = r.last_refill
      /\ ~allows(b, now) => k = r
  BY ConsumeFacts DEF NodeInv, Ledger, consumed
<1>3. /\ allows(b, now) => Within(k, h.granted + 1, h.peak, h.first)
      /\ ~allows(b, now) => Within(k, h.granted, h.peak, h.first)
  BY <1>0, ConsumeWithin DEF NodeInv, Ledger
<1>. HIDE DEF r, k
<1>4. CASE ~allows(b, now)
  BY <1>1, <1>2, <1>3, <1>4 DEF NodeInv, Ledger, k
<1>5. CASE allows(b, now)
  <2>. DEFINE g == credited(h, k)
  <2>1. /\ g \in History /\ g.granted = h.granted + 1 /\ g.at = k.last_refill
        /\ g.first = h.first /\ g.peak = h.peak
    BY <1>2, SMT DEF History, Bucket, credited
  <2>. HIDE DEF g
  <2>2. Ledger(k, g)
    BY <1>2, <1>3, <1>5, <2>1 DEF Ledger
  <2>3. Regained(k, g)
    BY <1>2, <2>1, PeriodAssumption, SMT DEF Regained, Bucket, History
  <2>. QED
    BY <1>1, <1>2, <1>5, <2>2, <2>3 DEF NodeInv, g, k
<1>. QED  BY <1>4, <1>5

(* One locked retune preserves what is known of the node. *)
LEMMA RetuneNode ==
    ASSUME NEW b \in Bucket, NEW h \in History, NEW now \in Nat, NEW c \in Nat,
           NEW rate \in Nat \ {0}, NodeInv(b, h, c), now <= c
    PROVE  NodeInv(retune(b, rate, now), [h EXCEPT !.peak = IF rate > @ THEN rate ELSE @], c)
<1>. DEFINE r == refill(b, now)
            k == retune(b, rate, now)
            g == [h EXCEPT !.peak = IF rate > @ THEN rate ELSE @]
<1>0. h.granted \in Nat /\ h.peak \in Nat /\ h.first \in Nat
  BY DEF History
<1>1. r \in Bucket /\ Regained(r, h) /\ r.last_refill <= c
  BY RefillFacts, RefillRegained DEF NodeInv, Ledger, Bucket
<1>2. /\ k \in Bucket /\ Bounded(k)
      /\ k.last_refill = r.last_refill
      /\ k.tokens >= Period \/ k.tokens = r.tokens
  BY RetuneFacts DEF NodeInv, Ledger
<1>3. /\ g \in History /\ g.granted = h.granted /\ g.at = h.at /\ g.first = h.first
      /\ g.peak \in Nat /\ h.peak <= g.peak /\ rate <= g.peak
  BY SMT DEF History
<1>. HIDE DEF r, g
<1>4. Within(k, h.granted, g.peak, h.first)
  BY <1>0, <1>3, RetuneWithin DEF NodeInv, Ledger
<1>. HIDE DEF k
<1>5. Ledger(k, g)
  BY <1>2, <1>3, <1>4 DEF Ledger
<1>6. Regained(k, g)
  BY <1>1, <1>2, <1>3 DEF Regained, Bucket, History
<1>. QED
  BY <1>1, <1>2, <1>5, <1>6 DEF NodeInv, k, g

(* A bucket that is created for a call, and the history it starts. *)
LEMMA NewNode ==
    ASSUME NEW rate \in Nat \ {0}, NEW now \in Nat, NEW c \in Nat, now <= c
    PROVE  NodeInv(full(rate, now),
                   [granted |-> 0, first |-> now, at |-> 0, peak |-> rate], c)
BY FullFacts, FullWithin, SMT DEF NodeInv, Ledger, Regained, Bucket

(* Putting a bucket and its history in the maps keeps their types and what *)
(* is known of the other nodes.                                            *)
LEMMA PutNode ==
    ASSUME IInv, NEW n \in Nodes, NEW b \in Bucket, NEW h \in History,
           NodeInv(b, h, clock),
           inner' = insert(inner, n, b), hist' = insert(hist, n, h)
    PROVE  /\ DOMAIN inner' \subseteq Nodes
           /\ inner' \in [DOMAIN inner' -> Bucket]
           /\ hist' \in [DOMAIN inner' -> History]
           /\ \A m \in DOMAIN inner' : NodeInv(inner'[m], hist'[m], clock)
BY DEF IInv, TypeOK, insert

(* The bucket and the history that the entry call of a critical section    *)
(* finds or creates.                                                       *)
LEMMA EntryNode ==
    ASSUME IInv, NEW n \in Nodes, NEW rate \in Nat \ {0}, NEW now \in Nat, now <= clock
    PROVE  LET b == entry(inner, n, rate, now)
               h == past(n, b, now)
           IN  b \in Bucket /\ h \in History /\ NodeInv(b, h, clock)
<1>1. clock \in Nat /\ DOMAIN hist = DOMAIN inner
  BY DEF IInv, TypeOK
<1>2. CASE n \in DOMAIN inner
  BY <1>1, <1>2 DEF IInv, TypeOK, entry, past
<1>3. CASE n \notin DOMAIN inner
  <2>1. entry(inner, n, rate, now) = full(rate, now)
    BY <1>3 DEF entry
  <2>2. past(n, full(rate, now), now)
          = [granted |-> 0, first |-> now, at |-> 0, peak |-> rate]
    BY <1>1, <1>3, FullFacts DEF past
  <2>3. full(rate, now) \in Bucket
    BY FullFacts
  <2>4. NodeInv(full(rate, now),
                [granted |-> 0, first |-> now, at |-> 0, peak |-> rate], clock)
    BY <1>1, NewNode
  <2>5. [granted |-> 0, first |-> now, at |-> 0, peak |-> rate] \in History
    BY DEF History
  <2>. QED
    BY <2>1, <2>2, <2>3, <2>4, <2>5
<1>. QED  BY <1>2, <1>3

-----------------------------------------------------------------------------
(* The inductive invariant holds initially. *)
LEMMA InitIInv == Init => IInv
<1>. SUFFICES ASSUME Init PROVE IInv
  OBVIOUS
<1>1. DOMAIN inner = {} /\ inner \in [{} -> Bucket] /\ hist \in [{} -> History]
  BY DEF Init, empty
<1>2. TypeOK
  BY <1>1 DEF Init, TypeOK
<1>3. CallsInv
  BY DEF Init, CallsInv, Idle
<1>. QED
  BY <1>1, <1>2, <1>3 DEF IInv

(* Every step of every caller preserves the inductive invariant. *)
LEMMA NextIInv == IInv /\ [Next]_vars => IInv'
<1>. SUFFICES ASSUME IInv, [Next]_vars PROVE IInv'
  OBVIOUS
<1>. USE LimiterAssumption
<1>1. ASSUME NEW t \in Threads, NEW n \in Nodes, NEW now \in 0..clock,
             ConsumeBegin(t, n, now)
      PROVE  IInv'
  <2>1. now \in Nat /\ now <= clock
    BY SMT DEF IInv, TypeOK
  <2>2. TypeOK'
    BY <1>1, <2>1, SMT DEF IInv, TypeOK, ConsumeBegin, ConsumeCall
  <2>3. CallsInv'
    BY <1>1, <2>1 DEF IInv, TypeOK, CallsInv, ConsumeBegin
  <2>. QED
    BY <1>1, <2>2, <2>3 DEF IInv, ConsumeBegin
<1>2. ASSUME NEW t \in Threads, ConsumeLocked(t)
      PROVE  IInv'
  <2>. DEFINE n   == call[t].node
              now == call[t].now
              b   == entry(inner, n, default_per_min, now)
              h   == past(n, b, now)
              k   == consumed(b, now)
              g   == IF allows(b, now) THEN credited(h, k) ELSE h
  <2>1. n \in Nodes /\ now \in Nat /\ now <= clock /\ clock \in Nat
    BY <1>2, SMT DEF IInv, TypeOK, CallsInv, ConsumeLocked, Idle, ConsumeCall, SetCall
  <2>2. default_per_min \in Nat \ {0}
    BY EffectiveRate DEF default_per_min
  <2>3. b \in Bucket /\ h \in History /\ NodeInv(b, h, clock)
    BY <2>1, <2>2, EntryNode
  <2>4. k \in Bucket /\ NodeInv(k, g, clock)
    BY <2>1, <2>3, ConsumeFacts, ConsumeNode DEF NodeInv, Ledger
  <2>5. g \in History
    <3>. HIDE DEF n, now, b, h, k
    <3>1. k \in Bucket /\ h \in History
      BY <2>3, <2>4
    <3>. QED  BY <3>1, SMT DEF History, Bucket, credited
  <2>6. inner' = insert(inner, n, k) /\ hist' = insert(hist, n, g)
    BY <1>2 DEF ConsumeLocked
  <2>. HIDE DEF n, now, b, h, k, g
  <2>7. /\ DOMAIN inner' \subseteq Nodes
        /\ inner' \in [DOMAIN inner' -> Bucket]
        /\ hist' \in [DOMAIN inner' -> History]
        /\ \A m \in DOMAIN inner' : NodeInv(inner'[m], hist'[m], clock)
    BY <2>1, <2>4, <2>5, <2>6, PutNode
  <2>8. TypeOK'
    <3>1. count_outcome(allows(b, now)) /\ call' = [call EXCEPT ![t] = Idle]
          /\ UNCHANGED <<consume_calls, set_limit_calls, clock>>
      BY <1>2 DEF ConsumeLocked, b, now, n
    <3>2. total_allowed' \in Nat /\ total_denied' \in Nat
      BY <3>1, SMT DEF count_outcome, IInv, TypeOK
    <3>3. call' \in [Threads -> {Idle} \cup ConsumeCall \cup SetCall]
      BY <3>1 DEF IInv, TypeOK
    <3>. QED  BY <2>7, <3>1, <3>2, <3>3 DEF IInv, TypeOK
  <2>9. CallsInv'
    BY <1>2 DEF IInv, TypeOK, CallsInv, ConsumeLocked, Idle
  <2>. QED
    BY <1>2, <2>7, <2>8, <2>9 DEF IInv, ConsumeLocked, count_outcome
<1>3. ASSUME NEW t \in Threads, NEW n \in Nodes, NEW r \in Rates, NEW now \in 0..clock,
             SetBegin(t, n, r, now)
      PROVE  IInv'
  <2>1. now \in Nat /\ now <= clock
    BY SMT DEF IInv, TypeOK
  <2>2. effective(r) \in Nat \ {0}
    BY EffectiveRate
  <2>3. TypeOK'
    BY <1>3, <2>1, <2>2, SMT DEF IInv, TypeOK, SetBegin, SetCall
  <2>4. CallsInv'
    BY <1>3, <2>1, <2>2 DEF IInv, TypeOK, CallsInv, SetBegin
  <2>. QED
    BY <1>3, <2>3, <2>4 DEF IInv, SetBegin
<1>4. ASSUME NEW t \in Threads, SetLocked(t)
      PROVE  IInv'
  <2>. DEFINE n    == call[t].node
              now  == call[t].now
              rate == call[t].per_min
              b    == entry(inner, n, rate, now)
              h    == past(n, b, now)
              k    == retune(b, rate, now)
              g    == [h EXCEPT !.peak = IF rate > @ THEN rate ELSE @]
  <2>1. n \in Nodes /\ now \in Nat /\ now <= clock /\ clock \in Nat /\ rate \in Nat \ {0}
    BY <1>4, SMT DEF IInv, TypeOK, CallsInv, SetLocked, Idle, ConsumeCall, SetCall
  <2>3. b \in Bucket /\ h \in History /\ NodeInv(b, h, clock)
    BY <2>1, EntryNode
  <2>4. k \in Bucket /\ NodeInv(k, g, clock)
    BY <2>1, <2>3, RetuneFacts, RetuneNode DEF NodeInv, Ledger
  <2>5. g \in History
    BY <2>1, <2>3 DEF History
  <2>6. inner' = insert(inner, n, k) /\ hist' = insert(hist, n, g)
    BY <1>4 DEF SetLocked
  <2>. HIDE DEF n, now, rate, b, h, k, g
  <2>7. /\ DOMAIN inner' \subseteq Nodes
        /\ inner' \in [DOMAIN inner' -> Bucket]
        /\ hist' \in [DOMAIN inner' -> History]
        /\ \A m \in DOMAIN inner' : NodeInv(inner'[m], hist'[m], clock)
    BY <2>1, <2>4, <2>5, <2>6, PutNode
  <2>8. TypeOK'
    BY <1>4, <2>7 DEF IInv, TypeOK, SetLocked, counters
  <2>9. CallsInv'
    BY <1>4 DEF IInv, TypeOK, CallsInv, SetLocked, Idle
  <2>. QED
    BY <1>4, <2>7, <2>8, <2>9 DEF IInv, SetLocked
<1>5. CASE Tick
  <2>1. clock \in Nat /\ clock' = clock + 1
    BY <1>5 DEF IInv, TypeOK, Tick
  <2>2. TypeOK'
    BY <1>5, <2>1, SMT DEF IInv, TypeOK, Tick, counters
  <2>3. CallsInv'
    <3>1. \A t \in Threads : call[t].op \in {"consume", "set"} => call[t].now \in Nat
      BY SMT DEF IInv, TypeOK, Idle, ConsumeCall, SetCall
    <3>. QED
      BY <1>5, <2>1, <3>1, SMT DEF IInv, CallsInv, Tick
  <2>4. \A n \in DOMAIN inner : NodeInv(inner[n], hist[n], clock')
    BY <2>1, SMT DEF IInv, TypeOK, NodeInv, Bucket
  <2>. QED
    BY <1>5, <2>2, <2>3, <2>4 DEF IInv, Tick
<1>6. CASE UNCHANGED vars
  BY <1>6 DEF IInv, TypeOK, CallsInv, vars, counters
<1>. QED
  BY <1>1, <1>2, <1>3, <1>4, <1>5, <1>6 DEF Next

(* The inductive invariant implies the properties that are checked. *)
LEMMA IInvImplies == IInv => TypeOK /\ Budget /\ NeverStarved
<1>. SUFFICES ASSUME IInv PROVE Budget /\ NeverStarved
  BY DEF IInv
<1>1. ASSUME NEW n \in DOMAIN inner
      PROVE  hist[n].granted * Period <= hist[n].peak * (Period + (clock - hist[n].first))
  <2>. DEFINE b == inner[n]
              h == hist[n]
  <2>1. b \in Bucket /\ h \in History /\ clock \in Nat
        /\ Ledger(b, h) /\ b.last_refill <= clock
    BY DEF IInv, TypeOK, NodeInv
  <2>2. h.granted \in Nat /\ h.peak \in Nat /\ h.first \in Nat
    BY <2>1 DEF History
  <2>. QED  BY <2>1, <2>2, WithinBudget DEF Ledger
<1>2. NeverStarved
  BY PeriodAssumption, SMT DEF IInv, TypeOK, NodeInv, Regained, NeverStarved, Bucket, History
<1>. QED
  BY <1>1, <1>2 DEF Budget

(* RateLimiter keeps its types: in particular no bucket ever holds a       *)
(* negative number of tokens or has a capacity of zero.                    *)
THEOREM TypeCorrect == Spec => []TypeOK
BY InitIInv, NextIInv, IInvImplies, PTL DEF Spec

(* try_consume never grants a node more than one full bucket plus the      *)
(* refill of the time since its bucket was created, for every interleaving *)
(* with set_limit and every age of the times that callers pass in.         *)
THEOREM BudgetHolds == Spec => []Budget
BY InitIInv, NextIInv, IInvImplies, PTL DEF Spec

(* try_consume denies only nodes that it served less than a Period ago. *)
THEOREM NeverStarvedHolds == Spec => []NeverStarved
BY InitIInv, NextIInv, IInvImplies, PTL DEF Spec

-----------------------------------------------------------------------------
(* The calls in flight are a finite set, whose size changes by one when a  *)
(* try_consume begins or leaves its critical section.                      *)
LEMMA InFlightFinite ==
    IsFiniteSet(InFlight) /\ Cardinality(InFlight) \in Nat
<1>1. IsFiniteSet(InFlight)
  BY LimiterAssumption, FS_Subset DEF InFlight
<1>. QED
  BY <1>1, FS_CardinalityType

(* The balance is inductive on its own, given the types. *)
LEMMA NextBalance == TypeOK /\ CountersBalance /\ [Next]_vars => CountersBalance'
<1>. SUFFICES ASSUME TypeOK, CountersBalance, [Next]_vars PROVE CountersBalance'
  OBVIOUS
<1>. USE InFlightFinite
<1>1. ASSUME NEW t \in Threads, NEW n \in Nodes, NEW now \in 0..clock,
             ConsumeBegin(t, n, now)
      PROVE  CountersBalance'
  <2>1. t \notin InFlight
    BY <1>1, SMT DEF ConsumeBegin, InFlight, Idle
  <2>2. InFlight' = InFlight \cup {t}
    BY <1>1 DEF ConsumeBegin, InFlight, TypeOK
  <2>3. Cardinality(InFlight \cup {t}) = Cardinality(InFlight) + 1
    BY <2>1, FS_AddElement
  <2>. QED
    BY <1>1, <2>2, <2>3, SMT DEF ConsumeBegin, CountersBalance, TypeOK
<1>2. ASSUME NEW t \in Threads, ConsumeLocked(t)
      PROVE  CountersBalance'
  <2>1. t \in InFlight
    BY <1>2 DEF ConsumeLocked, InFlight
  <2>2. InFlight' = InFlight \ {t}
    BY <1>2 DEF ConsumeLocked, InFlight, TypeOK, Idle
  <2>3. Cardinality(InFlight \ {t}) = Cardinality(InFlight) - 1
    BY <2>1, FS_RemoveElement
  <2>4. total_allowed' + total_denied' = total_allowed + total_denied + 1
    BY <1>2, SMT DEF ConsumeLocked, count_outcome, TypeOK
  <2>5. consume_calls' = consume_calls
    BY <1>2 DEF ConsumeLocked
  <2>6. total_allowed' \in Nat /\ total_denied' \in Nat
    BY <1>2, SMT DEF ConsumeLocked, count_outcome, TypeOK
  <2>. QED
    BY <2>2, <2>3, <2>4, <2>5, <2>6, SMT DEF CountersBalance, TypeOK
<1>3. ASSUME NEW t \in Threads, NEW n \in Nodes, NEW r \in Rates, NEW now \in 0..clock,
             SetBegin(t, n, r, now)
      PROVE  CountersBalance'
  <2>1. InFlight' = InFlight
    BY <1>3, SMT DEF SetBegin, InFlight, TypeOK, Idle
  <2>. QED
    BY <1>3, <2>1 DEF SetBegin, CountersBalance
<1>4. ASSUME NEW t \in Threads, SetLocked(t)
      PROVE  CountersBalance'
  <2>1. InFlight' = InFlight
    BY <1>4 DEF SetLocked, InFlight, TypeOK, Idle
  <2>. QED
    BY <1>4, <2>1 DEF SetLocked, CountersBalance, counters
<1>5. CASE Tick
  BY <1>5 DEF Tick, CountersBalance, counters, InFlight
<1>6. CASE UNCHANGED vars
  BY <1>6 DEF vars, CountersBalance, counters, InFlight
<1>. QED
  BY <1>1, <1>2, <1>3, <1>4, <1>5, <1>6 DEF Next

(* Every call of try_consume that total_try_consume_calls has counted is   *)
(* in exactly one of total_allowed, total_denied and the calls that have   *)
(* not left the critical section yet.                                      *)
THEOREM CountersBalanceHolds == Spec => []CountersBalance
<1>1. Init => CountersBalance
  <2>. SUFFICES ASSUME Init PROVE CountersBalance
    OBVIOUS
  <2>1. InFlight = {}
    BY DEF Init, InFlight, Idle
  <2>. QED
    BY <2>1, FS_EmptySet, SMT DEF Init, CountersBalance
<1>. QED
  BY <1>1, NextBalance, TypeCorrect, PTL DEF Spec

=============================================================================
