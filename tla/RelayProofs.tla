---------------------------- MODULE RelayProofs ----------------------------
(***************************************************************************)
(* The logs of the streams of a relay and the budget that the streams of a *)
(* node share, for any streams, nodes, rates and edits of the trust store. *)
(***************************************************************************)
EXTENDS Relay, TokenBucketProofs, FiniteSetTheorems

(* Zenon finds the steps of logic and sets; a step about numbers or        *)
(* records names SMT.                                                      *)
USE Zenon

(* How many chunks a stream has read and not written, by where it is. *)
Pending ==
    \A s \in Streams :
        /\ pc[s] \in {"none", "check", "get", "set", "admit", "TrustRejected"} =>
              chunks_in[s] = 0 /\ chunks_out[s] = 0
        /\ pc[s] \in {"read", "Closed"} => chunks_in[s] = chunks_out[s]
        /\ pc[s] \in {"charge", "write"} => chunks_in[s] = chunks_out[s] + 1
        /\ pc[s] = "RateLimited" => \/ chunks_in[s] = 0 /\ chunks_out[s] = 0
                                    \/ chunks_in[s] = chunks_out[s] + 1
        /\ pc[s] = "Error" => chunks_in[s] - chunks_out[s] \in 0..1

(* The rates that are in use are those of trust entries. *)
RatesKnown ==
    /\ \A n \in DOMAIN trust : trust[n] \in Rates
    /\ \A s \in Streams : pc[s] = "set" => rate[s] \in Rates

(* What a node has been charged for: what has passed, and the chunk that   *)
(* a stream has paid for and not written yet.                              *)
Paid(s)    == IF pc[s] = "write" THEN chunks_in[s] ELSE chunks_out[s]
Charged(n) == UNION {{s} \X (0 .. Paid(s)) : s \in Admitted(n)}

(* The charges of a node are in the account of its bucket, at a rate and   *)
(* from a second that its entries and its streams gave.                    *)
Funded(n, b, k) ==
    \E top \in InEffect, s \in StreamsOf(n) : Within(b, k, top, started_at[s])

Account(n) ==
    /\ IsFiniteSet(Charged(n))
    /\ n \notin DOMAIN inner => Charged(n) = {}
    /\ n \in DOMAIN inner => /\ inner[n].last_refill <= clock
                             /\ Funded(n, inner[n], Cardinality(Charged(n)))

IInv ==
    /\ TypeOK
    /\ Pending
    /\ \A n \in DOMAIN inner : Bounded(inner[n])
    /\ RatesKnown

Accounts == \A n \in Nodes : Account(n)

-----------------------------------------------------------------------------
(* The bucket that a call finds or makes is a bounded one. *)
LEMMA EntryFacts ==
    ASSUME IInv, NEW n \in Nodes, NEW per_min \in Nat \ {0}, NEW now \in Nat
    PROVE  /\ entry(inner, n, per_min, now) \in Bucket
           /\ Bounded(entry(inner, n, per_min, now))
<1>1. CASE n \in DOMAIN inner
  BY <1>1 DEF entry, IInv, TypeOK
<1>2. CASE n \notin DOMAIN inner
  BY <1>2, FullFacts DEF entry
<1>. QED  BY <1>1, <1>2

(* Putting a bounded bucket into the map keeps the map's type. *)
LEMMA InsertFacts ==
    ASSUME IInv, NEW n \in Nodes, NEW b \in Bucket, Bounded(b), inner' = insert(inner, n, b)
    PROVE  /\ DOMAIN inner' \subseteq Nodes /\ inner' \in [DOMAIN inner' -> Bucket]
           /\ \A m \in DOMAIN inner' : Bounded(inner'[m])
<1>1. DOMAIN inner \subseteq Nodes /\ inner \in [DOMAIN inner -> Bucket]
  BY DEF IInv, TypeOK
<1>2. DOMAIN inner' = DOMAIN inner \cup {n}
      /\ \A m \in DOMAIN inner' : inner'[m] = IF m = n THEN b ELSE inner[m]
  BY DEF insert
<1>3. inner' = [m \in DOMAIN inner' |-> inner'[m]]
  BY DEF insert
<1>. QED  BY <1>1, <1>2, <1>3 DEF IInv

(* The initial state satisfies the inductive invariant. *)
LEMMA InitIInv == Init => IInv
<1>. SUFFICES ASSUME Init PROVE IInv
  OBVIOUS
<1>1. DOMAIN trust \subseteq Nodes /\ trust \in [DOMAIN trust -> Nat]
  BY RelayAssumption DEF Init, empty
<1>2. DOMAIN inner = {} /\ inner \in [DOMAIN inner -> Bucket]
  BY DEF Init, empty
<1>3. RatesKnown
  BY DEF Init, RatesKnown, empty
<1>. QED  BY <1>1, <1>2, <1>3, SMT DEF Init, IInv, TypeOK, Pending, RatesKnown

(* A call into the limiter preserves the inductive invariant. *)
LEMMA LimiterIInv ==
    ASSUME IInv, NEW s \in Streams, SetLimit(s) \/ Admit(s) \/ Charge(s)
    PROVE  IInv'
<1>. DEFINE n == peer_node[s]
<1>1. n \in Nodes /\ clock \in Nat /\ started_at[s] \in Nat /\ rate[s] \in Nat
  BY RelayAssumption, SMT DEF IInv, TypeOK
<1>. HIDE DEF n
<1>2. CASE SetLimit(s)
  <2>1. effective(rate[s]) \in Nat \ {0}
    BY <1>1, RateAssumption DEF effective
  <2>2. limited(n, rate[s], started_at[s]) \in Bucket /\ Bounded(limited(n, rate[s], started_at[s]))
    BY <1>1, <2>1, EntryFacts, RetuneFacts DEF limited
  <2>3. /\ DOMAIN inner' \subseteq Nodes /\ inner' \in [DOMAIN inner' -> Bucket]
        /\ \A m \in DOMAIN inner' : Bounded(inner'[m])
    BY <1>1, <1>2, <2>2, InsertFacts DEF SetLimit, n
  <2>. QED
    BY <1>2, <2>3 DEF SetLimit, Goto, counts, shared, IInv, TypeOK, Pending, RatesKnown
<1>3. CASE Admit(s) \/ Charge(s)
  <2>1. consumed(bucket(n), clock) \in Bucket /\ Bounded(consumed(bucket(n), clock))
    BY <1>1, EntryFacts, ConsumeFacts, RateAssumption DEF bucket
  <2>2. /\ inner' = insert(inner, n, consumed(bucket(n), clock))
        /\ \/ pc[s] = "admit" /\ pc' \in {[pc EXCEPT ![s] = to] : to \in {"read", "RateLimited"}}
           \/ pc[s] = "charge" /\ pc' \in {[pc EXCEPT ![s] = to] : to \in {"write", "RateLimited"}}
        /\ UNCHANGED <<trust, started_at, rate, chunks_in, chunks_out, finished, fault, clock, edits>>
    BY <1>3 DEF Admit, Charge, TryConsume, Goto, counts, shared, n
  <2>3. /\ DOMAIN inner' \subseteq Nodes /\ inner' \in [DOMAIN inner' -> Bucket]
        /\ \A m \in DOMAIN inner' : Bounded(inner'[m])
    BY <1>1, <2>1, <2>2, InsertFacts
  <2>4. TypeOK'
    BY <2>2, <2>3 DEF IInv, TypeOK, Outcomes
  <2>5. Pending'
    BY <2>2, SMT DEF IInv, TypeOK, Pending
  <2>6. RatesKnown'
    BY <2>2 DEF IInv, TypeOK, RatesKnown
  <2>. QED  BY <2>3, <2>4, <2>5, <2>6 DEF IInv
<1>. QED  BY <1>2, <1>3

(* The other steps of handle_connection preserve the inductive invariant. *)
LEMMA StreamIInv ==
    ASSUME IInv, NEW s \in Streams,
           \/ \E started \in 0..clock : Accept(s, started)
           \/ CheckTrust(s) \/ GetEntry(s)
           \/ ReadChunk(s) \/ ReadEnds(s)
           \/ WriteChunk(s) \/ WriteClosed(s) \/ TransportFails(s)
    PROVE  IInv'
<1>1. CASE \E started \in 0..clock : Accept(s, started)
  BY <1>1, SMT DEF Accept, Goto, counts, shared, IInv, TypeOK, Pending, RatesKnown
<1>2. CASE CheckTrust(s)
  BY <1>2 DEF CheckTrust, Goto, counts, shared, IInv, TypeOK, Pending, RatesKnown, Outcomes
<1>3. CASE GetEntry(s)
  BY <1>3, SMT DEF GetEntry, Goto, counts, shared, IInv, TypeOK, Pending, RatesKnown
<1>4. CASE ReadChunk(s)
  BY <1>4, SMT DEF ReadChunk, Goto, shared, IInv, TypeOK, Pending, RatesKnown
<1>5. CASE ReadEnds(s)
  BY <1>5 DEF ReadEnds, Goto, counts, shared, IInv, TypeOK, Pending, RatesKnown, Outcomes
<1>6. CASE WriteChunk(s)
  BY <1>6, SMT DEF WriteChunk, Goto, shared, IInv, TypeOK, Pending, RatesKnown
<1>7. CASE WriteClosed(s)
  BY <1>7, SMT DEF WriteClosed, Goto, counts, shared, IInv, TypeOK, Pending, RatesKnown, Outcomes
<1>8. CASE TransportFails(s)
  BY <1>8, SMT DEF TransportFails, Goto, shared, IInv, TypeOK, Pending, RatesKnown, Outcomes
<1>. QED  BY <1>1, <1>2, <1>3, <1>4, <1>5, <1>6, <1>7, <1>8

(* So do the operator and the clock. *)
LEMMA OutsideIInv ==
    ASSUME IInv,
           \/ \E n \in Nodes, r \in Rates : TrustAdd(n, r)
           \/ \E n \in Nodes : TrustRemove(n)
           \/ Tick
    PROVE  IInv'
<1>1. ASSUME NEW n \in Nodes, NEW r \in Rates, TrustAdd(n, r)
      PROVE  IInv'
  BY <1>1, RelayAssumption, SMT DEF TrustAdd, insert, counts, IInv, TypeOK, Pending, RatesKnown
<1>2. ASSUME NEW n \in Nodes, TrustRemove(n)
      PROVE  IInv'
  BY <1>2, SMT DEF TrustRemove, retain, counts, IInv, TypeOK, Pending, RatesKnown
<1>3. ASSUME Tick
      PROVE  IInv'
  BY <1>3, SMT DEF Tick, counts, IInv, TypeOK, Pending, RatesKnown
<1>. QED  BY <1>1, <1>2, <1>3

(* Every step preserves the inductive invariant. *)
LEMMA NextIInv == IInv /\ [Next]_vars => IInv'
<1>. SUFFICES ASSUME IInv, [Next]_vars PROVE IInv'
  OBVIOUS
<1>1. CASE UNCHANGED vars
  BY <1>1 DEF vars, IInv, TypeOK, Pending, RatesKnown
<1>2. CASE Next
  BY <1>2, LimiterIInv, StreamIInv, OutsideIInv DEF Next
<1>. QED  BY <1>1, <1>2

-----------------------------------------------------------------------------
(* The rates in effect are positive: a configured 0 is replaced. *)
LEMMA InEffectFacts == InEffect \subseteq Nat \ {0}
BY RelayAssumption, RateAssumption DEF InEffect, effective

(* A node whose streams have paid for nothing more is charged for nothing  *)
(* more.                                                                   *)
LEMMA ChargedSame ==
    ASSUME NEW n, Admitted(n)' \subseteq Admitted(n),
           \A t \in Admitted(n)' : 0 .. Paid(t)' \subseteq 0 .. Paid(t)
    PROVE  Charged(n)' \subseteq Charged(n)
<1>. SUFFICES ASSUME NEW x \in Charged(n)' PROVE x \in Charged(n)
  OBVIOUS
<1>1. PICK t \in Admitted(n)' : x \in {t} \X (0 .. Paid(t)')
  BY DEF Charged
<1>. QED  BY <1>1, SMT DEF Charged

(* A node of which one stream has paid for one thing more, its k-th, is    *)
(* charged for that.                                                       *)
LEMMA ChargedMore ==
    ASSUME NEW n, NEW s, NEW k, Admitted(n)' \subseteq Admitted(n) \cup {s},
           \A t \in Admitted(n)' \ {s} : Paid(t)' = Paid(t),
           \A j \in 0 .. Paid(s)' : j = k \/ (s \in Admitted(n) /\ j \in 0 .. Paid(s))
    PROVE  Charged(n)' \subseteq Charged(n) \cup {<<s, k>>}
<1>. SUFFICES ASSUME NEW x \in Charged(n)' PROVE x \in Charged(n) \cup {<<s, k>>}
  OBVIOUS
<1>1. PICK t \in Admitted(n)' : x \in {t} \X (0 .. Paid(t)')
  BY DEF Charged
<1>2. PICK j \in 0 .. Paid(t)' : x = <<t, j>>
  BY <1>1, SMT
<1>3. CASE t = s
  BY <1>2, <1>3, SMT DEF Charged
<1>4. CASE t # s
  BY <1>1, <1>2, <1>4, SMT DEF Charged
<1>. QED  BY <1>3, <1>4

(* A node that is charged for nothing more, and whose bucket is left       *)
(* alone, keeps its account.                                               *)
LEMMA AccountKept ==
    ASSUME IInv, IInv', NEW n \in Nodes, Account(n), clock <= clock',
           n \in DOMAIN inner' <=> n \in DOMAIN inner,
           n \in DOMAIN inner => inner'[n] = inner[n],
           Charged(n)' \subseteq Charged(n),
           \A s \in StreamsOf(n) : s \in StreamsOf(n)' /\ started_at'[s] = started_at[s]
    PROVE  Account(n)'
<1>1. /\ IsFiniteSet(Charged(n)') /\ IsFiniteSet(Charged(n))
      /\ Cardinality(Charged(n)') \in 0..Cardinality(Charged(n))
  BY FS_Subset, FS_CardinalityType, SMT DEF Account
<1>2. Cardinality(Charged(n)) \in Nat
  BY <1>1, FS_CardinalityType
<1>3. ASSUME n \in DOMAIN inner
      PROVE  /\ inner'[n].last_refill <= clock'
             /\ Funded(n, inner[n], Cardinality(Charged(n)))'
  <2>1. inner[n] \in Bucket /\ clock \in Nat /\ clock' \in Nat
    BY <1>3 DEF IInv, TypeOK
  <2>2. PICK top \in InEffect, s \in StreamsOf(n) :
                Within(inner[n], Cardinality(Charged(n)), top, started_at[s])
    BY <1>3 DEF Account, Funded
  <2>3. top \in Nat /\ started_at[s] \in Nat
    BY InEffectFacts, SMT DEF StreamsOf, IInv, TypeOK
  <2>4. Within(inner[n], Cardinality(Charged(n)'), top, started_at'[s])
    BY <1>1, <1>2, <2>1, <2>2, <2>3, WithinFewer
  <2>5. inner'[n].last_refill <= clock'
    BY <1>3, <2>1, SMT DEF Account, Bucket
  <2>. QED  BY <1>3, <2>2, <2>4, <2>5 DEF Funded
<1>. QED  BY <1>1, <1>3 DEF Account

(* The bucket that a call finds or makes for a stream has an account. *)
LEMMA EntryFunded ==
    ASSUME IInv, NEW n \in Nodes, Account(n), NEW per_min \in InEffect,
           NEW now \in Nat, now <= clock,
           NEW s \in StreamsOf(n), started_at[s] <= now
    PROVE  /\ entry(inner, n, per_min, now).last_refill <= clock
           /\ Funded(n, entry(inner, n, per_min, now), Cardinality(Charged(n)))
<1>1. CASE n \in DOMAIN inner
  BY <1>1 DEF entry, Account
<1>2. CASE n \notin DOMAIN inner
  <2>1. entry(inner, n, per_min, now) = full(per_min, now) /\ Cardinality(Charged(n)) = 0
    BY <1>2, FS_EmptySet DEF entry, Account
  <2>2. per_min \in Nat \ {0} /\ started_at[s] \in 0..now
    BY InEffectFacts, SMT DEF StreamsOf, IInv, TypeOK
  <2>3. Within(full(per_min, now), 0, per_min, started_at[s])
    BY <2>2, FullWithin
  <2>. QED  BY <2>1, <2>2, <2>3, FullFacts, SMT DEF Funded
<1>. QED  BY <1>1, <1>2

(* A step of one stream charges no other node. *)
LEMMA OthersKept ==
    ASSUME NEW s \in Streams, NEW n \in Nodes, n # peer_node[s],
           \A t \in Streams \ {s} : /\ pc'[t] = pc[t] /\ chunks_in'[t] = chunks_in[t]
                                    /\ chunks_out'[t] = chunks_out[t]
    PROVE  /\ Charged(n)' \subseteq Charged(n)
           /\ StreamsOf(n)' = StreamsOf(n)
<1>1. StreamsOf(n)' = StreamsOf(n) /\ Admitted(n)' = Admitted(n)
  BY DEF StreamsOf, Admitted
<1>2. \A t \in Admitted(n) : Paid(t)' = Paid(t)
  BY DEF Paid, Admitted, StreamsOf
<1>. QED  BY <1>1, <1>2, ChargedSame

(* The account of a node after a call into the limiter that charges it for *)
(* at most one thing more, x, and only if it was granted.                  *)
LEMMA AccountCharged ==
    ASSUME IInv, IInv', NEW n \in Nodes, Account(n), clock' = clock,
           NEW b \in Bucket, inner' = insert(inner, n, b), b.last_refill <= clock,
           NEW granted \in BOOLEAN, NEW x,
           Charged(n)' \subseteq IF granted THEN Charged(n) \cup {x} ELSE Charged(n),
           Funded(n, b, IF granted THEN Cardinality(Charged(n)) + 1 ELSE Cardinality(Charged(n))),
           StreamsOf(n)' = StreamsOf(n), started_at' = started_at
    PROVE  Account(n)'
<1>. DEFINE k == IF granted THEN Cardinality(Charged(n)) + 1 ELSE Cardinality(Charged(n))
            C == IF granted THEN Charged(n) \cup {x} ELSE Charged(n)
<1>1. IsFiniteSet(Charged(n)) /\ Cardinality(Charged(n)) \in Nat
  BY FS_CardinalityType DEF Account
<1>2. IsFiniteSet(C) /\ Cardinality(C) \in 0..k /\ k \in Nat
  BY <1>1, FS_AddElement, FS_CardinalityType, SMT
<1>3. Charged(n)' \subseteq C /\ Funded(n, b, k)
  OBVIOUS
<1>. HIDE DEF k, C
<1>4. IsFiniteSet(Charged(n)') /\ Cardinality(Charged(n)') \in 0..k
  <2>1. IsFiniteSet(Charged(n)') /\ Cardinality(Charged(n)') <= Cardinality(C)
    BY <1>2, <1>3, FS_Subset
  <2>2. Cardinality(Charged(n)') \in Nat
    BY <2>1, FS_CardinalityType
  <2>. QED  BY <1>2, <2>1, <2>2, SMT
<1>5. PICK top \in InEffect, s \in StreamsOf(n) : Within(b, k, top, started_at[s])
  BY <1>3 DEF Funded
<1>6. top \in Nat /\ started_at[s] \in Nat
  BY InEffectFacts, SMT DEF StreamsOf, IInv, TypeOK
<1>7. Within(b, Cardinality(Charged(n)'), top, started_at'[s])
  BY <1>2, <1>4, <1>5, <1>6, WithinFewer
<1>8. n \in DOMAIN inner' /\ inner'[n] = b
  BY DEF insert
<1>. QED  BY <1>4, <1>5, <1>7, <1>8 DEF Account, Funded

(* set_limit keeps the accounts: it charges nobody, and the tokens it      *)
(* leaves are not more than those it found.                                *)
LEMMA SetLimitAccounts ==
    ASSUME IInv, IInv', Accounts, NEW s \in Streams, SetLimit(s)
    PROVE  Accounts'
<1>. DEFINE n   == peer_node[s]
            r   == effective(rate[s])
            now == started_at[s]
            e   == entry(inner, n, r, now)
<1>1. /\ n \in Nodes /\ clock \in Nat /\ now \in Nat /\ now <= clock
      /\ rate[s] \in Rates /\ r \in InEffect /\ r \in Nat \ {0}
  <2>1. n \in Nodes /\ clock \in Nat /\ now \in Nat /\ now <= clock
    BY RelayAssumption, SMT DEF IInv, TypeOK
  <2>2. rate[s] \in Rates
    BY DEF SetLimit, Goto, IInv, RatesKnown
  <2>. QED  BY <2>1, <2>2, InEffectFacts DEF InEffect
<1>2. /\ pc[s] = "set" /\ pc' = [pc EXCEPT ![s] = "admit"] /\ chunks_in[s] = 0
      /\ inner' = insert(inner, n, retune(e, r, now))
      /\ UNCHANGED <<started_at, chunks_in, chunks_out, clock>>
  BY DEF SetLimit, Goto, counts, shared, limited, IInv, Pending
<1>3. DOMAIN pc = Streams /\ s \in StreamsOf(n)
  BY <1>2 DEF IInv, TypeOK, Outcomes, StreamsOf
<1>. HIDE DEF n, r, now, e
<1>4. ASSUME NEW m \in Nodes, m # n PROVE Account(m)'
  <2>1. Charged(m)' \subseteq Charged(m) /\ StreamsOf(m)' = StreamsOf(m)
    BY <1>2, <1>3, <1>4, OthersKept DEF n
  <2>2. (m \in DOMAIN inner' <=> m \in DOMAIN inner) /\ (m \in DOMAIN inner => inner'[m] = inner[m])
    BY <1>2, <1>4 DEF insert
  <2>. QED  BY <1>1, <1>2, <2>1, <2>2, AccountKept, SMT DEF Accounts
<1>5. Account(n)'
  <2>1. Charged(n)' \subseteq Charged(n) /\ StreamsOf(n)' = StreamsOf(n)
    <3>1. StreamsOf(n)' = StreamsOf(n) /\ Admitted(n)' = Admitted(n)
      BY <1>2, <1>3 DEF StreamsOf, Admitted
    <3>2. \A t \in Admitted(n) : Paid(t)' = Paid(t)
      BY <1>2, <1>3 DEF Paid, Admitted, StreamsOf
    <3>. QED  BY <3>1, <3>2, ChargedSame
  <2>2. e \in Bucket /\ Bounded(e) /\ e.last_refill <= clock
        /\ Funded(n, e, Cardinality(Charged(n)))
    BY <1>1, <1>3, EntryFacts, EntryFunded, SMT DEF Accounts, e, now
  <2>3. retune(e, r, now) \in Bucket /\ retune(e, r, now).last_refill <= clock
    <3>1. refill(e, now).last_refill <= clock
      BY <1>1, <2>2, RefillFacts
    <3>. QED  BY <1>1, <2>2, <3>1, RetuneFacts
  <2>4. PICK top \in InEffect, t \in StreamsOf(n) :
                Within(e, Cardinality(Charged(n)), top, started_at[t])
    BY <2>2 DEF Funded
  <2>5. PICK higher \in InEffect : top <= higher /\ r <= higher
    BY <1>1, InEffectFacts, SMT
  <2>6. top \in Nat /\ higher \in Nat /\ started_at[t] \in Nat
        /\ Cardinality(Charged(n)) \in Nat
    BY <1>1, InEffectFacts, FS_CardinalityType, SMT DEF StreamsOf, IInv, TypeOK, Accounts, Account
  <2>7. Within(retune(e, r, now), Cardinality(Charged(n)), higher, started_at[t])
    BY <1>1, <2>2, <2>4, <2>5, <2>6, RetuneWithin
  <2>8. Funded(n, retune(e, r, now), Cardinality(Charged(n)))
    BY <2>4, <2>5, <2>7 DEF Funded
  <2>. QED
    BY <1>1, <1>2, <2>1, <2>3, <2>8, AccountCharged DEF Accounts
<1>. QED  BY <1>4, <1>5 DEF Accounts

(* try_consume keeps the accounts: what it grants at the admission or for  *)
(* a chunk is one token less in the bucket.                                *)
LEMMA ConsumeAccounts ==
    ASSUME IInv, IInv', Accounts, NEW s \in Streams, Admit(s) \/ Charge(s)
    PROVE  Accounts'
<1>. DEFINE n  == peer_node[s]
            e  == bucket(n)
            ok == allows(e, clock)
<1>1. n \in Nodes /\ clock \in Nat /\ DEFAULT_RATE_PER_MIN \in InEffect
      /\ started_at[s] <= clock /\ DOMAIN pc = Streams
  BY RelayAssumption, SMT DEF IInv, TypeOK, InEffect
<1>2. /\ inner' = insert(inner, n, consumed(e, clock))
      /\ UNCHANGED <<started_at, chunks_in, chunks_out, clock>>
      /\ \/ pc[s] = "admit" /\ pc' = [pc EXCEPT ![s] = IF ok THEN "read" ELSE "RateLimited"]
         \/ pc[s] = "charge" /\ pc' = [pc EXCEPT ![s] = IF ok THEN "write" ELSE "RateLimited"]
  BY DEF Admit, Charge, TryConsume, Goto, counts, shared
<1>3. /\ chunks_in[s] \in Nat /\ chunks_out[s] \in Nat
      /\ pc[s] = "admit" => chunks_in[s] = 0 /\ chunks_out[s] = 0
      /\ pc[s] = "charge" => chunks_in[s] = chunks_out[s] + 1
  BY DEF IInv, TypeOK, Pending
<1>4. s \in StreamsOf(n)
  BY <1>2 DEF StreamsOf
<1>5. ok \in BOOLEAN
  BY SMT DEF allows
<1>. HIDE DEF n, e, ok
<1>6. ASSUME NEW m \in Nodes, m # n PROVE Account(m)'
  <2>1. Charged(m)' \subseteq Charged(m) /\ StreamsOf(m)' = StreamsOf(m)
    BY <1>1, <1>2, <1>6, OthersKept DEF n
  <2>2. (m \in DOMAIN inner' <=> m \in DOMAIN inner) /\ (m \in DOMAIN inner => inner'[m] = inner[m])
    BY <1>2, <1>6 DEF insert
  <2>. QED  BY <1>1, <1>2, <2>1, <2>2, AccountKept, SMT DEF Accounts
<1>7. Account(n)'
  <2>1. StreamsOf(n)' = StreamsOf(n)
    BY <1>1, <1>2 DEF StreamsOf
  <2>2. \A t \in Streams \ {s} : Paid(t)' = Paid(t) /\ (t \in Admitted(n)' <=> t \in Admitted(n))
    BY <1>1, <1>2, <2>1 DEF Paid, Admitted, StreamsOf
  <2>3. Admitted(n) \subseteq Streams /\ Admitted(n)' \subseteq Streams
    BY DEF Admitted, StreamsOf
  <2>4. Charged(n)' \subseteq IF ok THEN Charged(n) \cup {<<s, chunks_in[s]>>} ELSE Charged(n)
    <3>1. CASE ~ok
      <4>1. Admitted(n)' \subseteq Admitted(n)
        BY <1>1, <1>2, <1>3, <1>4, <2>2, <2>3, <3>1 DEF Admitted
      <4>2. Paid(s)' = Paid(s)
        BY <1>1, <1>2, <3>1 DEF Paid
      <4>. QED  BY <2>2, <2>3, <3>1, <4>1, <4>2, ChargedSame
    <3>2. CASE ok
      <4>1. Paid(s)' = chunks_in[s]
        BY <1>1, <1>2, <1>3, <3>2 DEF Paid
      <4>2. pc[s] = "charge" => s \in Admitted(n) /\ Paid(s) = chunks_in[s] - 1
        BY <1>3, <1>4, SMT DEF Admitted, Paid
      <4>3. \A j \in 0 .. Paid(s)' :
                j = chunks_in[s] \/ (s \in Admitted(n) /\ j \in 0 .. Paid(s))
        BY <1>2, <1>3, <4>1, <4>2, SMT
      <4>4. Admitted(n)' \subseteq Admitted(n) \cup {s}
        BY <2>2, <2>3
      <4>5. \A t \in Admitted(n)' \ {s} : Paid(t)' = Paid(t)
        BY <2>2, <2>3
      <4>. QED  BY <3>2, <4>3, <4>4, <4>5, ChargedMore
    <3>. QED  BY <1>5, <3>1, <3>2
  <2>5. e \in Bucket /\ Bounded(e) /\ e.last_refill <= clock
        /\ Funded(n, e, Cardinality(Charged(n)))
    BY <1>1, <1>4, EntryFacts, EntryFunded, RateAssumption, SMT DEF Accounts, e, bucket
  <2>6. consumed(e, clock) \in Bucket /\ consumed(e, clock).last_refill <= clock
    <3>1. refill(e, clock).last_refill <= clock
      BY <1>1, <2>5, RefillFacts, SMT
    <3>. QED  BY <1>1, <2>5, <3>1, ConsumeFacts
  <2>7. PICK top \in InEffect, t \in StreamsOf(n) :
                Within(e, Cardinality(Charged(n)), top, started_at[t])
    BY <2>5 DEF Funded
  <2>8. top \in Nat /\ started_at[t] \in Nat /\ Cardinality(Charged(n)) \in Nat
    BY <1>1, InEffectFacts, FS_CardinalityType, SMT DEF StreamsOf, IInv, TypeOK, Accounts, Account
  <2>9. Within(consumed(e, clock),
               IF ok THEN Cardinality(Charged(n)) + 1 ELSE Cardinality(Charged(n)),
               top, started_at[t])
    BY <1>1, <2>5, <2>7, <2>8, ConsumeWithin DEF ok
  <2>10. Funded(n, consumed(e, clock),
                IF ok THEN Cardinality(Charged(n)) + 1 ELSE Cardinality(Charged(n)))
    BY <2>7, <2>9 DEF Funded
  <2>. QED
    BY <1>1, <1>2, <1>5, <2>1, <2>4, <2>6, <2>10, AccountCharged DEF Accounts
<1>. QED  BY <1>6, <1>7 DEF Accounts

(* A step that is not a call into the limiter charges nobody: a chunk that *)
(* is written was paid for.                                                *)
LEMMA FreeSteps ==
    ASSUME IInv, IInv', NEW s \in Streams,
           \/ \E started \in 0..clock : Accept(s, started)
           \/ CheckTrust(s) \/ GetEntry(s)
           \/ ReadChunk(s) \/ ReadEnds(s)
           \/ WriteChunk(s) \/ WriteClosed(s) \/ TransportFails(s),
           NEW n \in Nodes
    PROVE  /\ Charged(n)' \subseteq Charged(n)
           /\ \A t \in StreamsOf(n) : t \in StreamsOf(n)' /\ started_at'[t] = started_at[t]
           /\ UNCHANGED <<inner, clock>>
<1>1. /\ UNCHANGED <<inner, clock>>
      /\ \A t \in Streams \ {s} : /\ pc'[t] = pc[t] /\ chunks_in'[t] = chunks_in[t]
                                  /\ chunks_out'[t] = chunks_out[t]
                                  /\ started_at'[t] = started_at[t]
      /\ pc[s] # "none" => pc'[s] # "none" /\ started_at'[s] = started_at[s]
      /\ \/ pc'[s] \notin {"read", "charge", "write", "Closed", "Error"} /\ chunks_in'[s] = 0
         \/ pc[s] \in {"read", "charge", "write"}
      /\ 0 .. Paid(s)' \subseteq 0 .. Paid(s)
  <2>. USE DEF Goto, counts, shared, IInv, TypeOK, Pending, Paid
  <2>1. CASE \E started \in 0..clock : Accept(s, started)
    BY <2>1 DEF Accept
  <2>2. CASE CheckTrust(s)
    BY <2>2 DEF CheckTrust
  <2>3. CASE GetEntry(s)
    BY <2>3, SMT DEF GetEntry
  <2>4. CASE ReadChunk(s)
    BY <2>4, SMT DEF ReadChunk
  <2>5. CASE ReadEnds(s)
    BY <2>5 DEF ReadEnds
  <2>6. CASE WriteChunk(s)
    BY <2>6 DEF WriteChunk
  <2>7. CASE WriteClosed(s)
    BY <2>7, SMT DEF WriteClosed
  <2>8. CASE TransportFails(s)
    BY <2>8, SMT DEF TransportFails
  <2>. QED  BY <2>1, <2>2, <2>3, <2>4, <2>5, <2>6, <2>7, <2>8
<1>2. Admitted(n)' \subseteq Admitted(n)
  <2>1. \A t \in Streams \ {s} : t \in Admitted(n)' => t \in Admitted(n)
    BY <1>1 DEF Admitted, StreamsOf
  <2>2. s \in Admitted(n)' => pc[s] \in {"read", "charge", "write"}
    BY <1>1, SMT DEF Admitted
  <2>3. s \in Admitted(n)' => s \in Admitted(n)
    BY <2>2 DEF Admitted, StreamsOf
  <2>. QED  BY <2>1, <2>3 DEF Admitted, StreamsOf
<1>3. \A t \in Streams : 0 .. Paid(t)' \subseteq 0 .. Paid(t)
  BY <1>1 DEF Paid
<1>4. Charged(n)' \subseteq Charged(n)
  BY <1>2, <1>3, ChargedSame DEF Admitted, StreamsOf
<1>. QED  BY <1>1, <1>4 DEF StreamsOf

(* Every step keeps the accounts. *)
LEMMA NextAccounts == IInv /\ IInv' /\ Accounts /\ [Next]_vars => Accounts'
<1>. SUFFICES ASSUME IInv, IInv', Accounts, [Next]_vars PROVE Accounts'
  OBVIOUS
<1>1. clock \in Nat /\ clock' \in Nat
  BY DEF IInv, TypeOK
<1>2. ASSUME NEW s \in Streams,
             \/ \E started \in 0..clock : Accept(s, started)
             \/ CheckTrust(s) \/ GetEntry(s)
             \/ ReadChunk(s) \/ ReadEnds(s)
             \/ WriteChunk(s) \/ WriteClosed(s) \/ TransportFails(s)
      PROVE  Accounts'
  <2>. SUFFICES ASSUME NEW n \in Nodes PROVE Account(n)'
    BY DEF Accounts
  <2>1. /\ Charged(n)' \subseteq Charged(n)
        /\ \A t \in StreamsOf(n) : t \in StreamsOf(n)' /\ started_at'[t] = started_at[t]
        /\ UNCHANGED <<inner, clock>>
    BY <1>2, FreeSteps
  <2>. QED  BY <1>1, <2>1, AccountKept, SMT DEF Accounts
<1>3. ASSUME UNCHANGED <<inner, pc, started_at, chunks_in, chunks_out>>, clock <= clock'
      PROVE  Accounts'
  <2>. SUFFICES ASSUME NEW n \in Nodes PROVE Account(n)'
    BY DEF Accounts
  <2>1. StreamsOf(n)' = StreamsOf(n) /\ Admitted(n)' = Admitted(n)
    BY <1>3 DEF StreamsOf, Admitted
  <2>2. \A t : Paid(t)' = Paid(t)
    BY <1>3 DEF Paid
  <2>3. Charged(n)' \subseteq Charged(n)
    BY <2>1, <2>2, ChargedSame
  <2>. QED  BY <1>3, <2>1, <2>3, AccountKept DEF Accounts
<1>4. ASSUME \/ \E n \in Nodes, r \in Rates : TrustAdd(n, r)
             \/ \E n \in Nodes : TrustRemove(n)
             \/ Tick
             \/ UNCHANGED vars
      PROVE  Accounts'
  <2>1. UNCHANGED <<inner, pc, started_at, chunks_in, chunks_out>>
    BY <1>4 DEF TrustAdd, TrustRemove, Tick, vars, counts
  <2>2. clock' \in {clock, clock + 1}
    BY <1>4 DEF TrustAdd, TrustRemove, Tick, vars
  <2>. QED  BY <1>1, <1>3, <2>1, <2>2, SMT
<1>. QED  BY <1>2, <1>4, SetLimitAccounts, ConsumeAccounts DEF Next

-----------------------------------------------------------------------------
(* The trust store, the buckets and the streams have their types in every  *)
(* state; no bucket of the relay is ever overdrawn.                        *)
THEOREM TypeCorrect == Spec => []TypeOK
<1>1. IInv => TypeOK
  BY DEF IInv
<1>. QED  BY <1>1, InitIInv, NextIInv, PTL DEF Spec

(* Whatever ends a stream of handle_connection, its ConnectionLog says     *)
(* what was forwarded, for any number of streams and any edits.            *)
THEOREM LogsAreHonestHolds == Spec => []LogsAreHonest
<1>1. IInv => LogsAreHonest
  BY SMT DEF IInv, TypeOK, Pending, LogsAreHonest, Outcomes
<1>. QED  BY <1>1, InitIInv, NextIInv, PTL DEF Spec

(* Everything that handle_connection admits and forwards for a node, on    *)
(* all its streams and through every edit of its trust entry, stays within *)
(* one bucket and its refill since the start of one of its streams.        *)
THEOREM RelayBudgetHolds == Spec => []RelayBudget
<1>1. Init => Accounts
  <2>. SUFFICES ASSUME Init, NEW n \in Nodes PROVE Account(n)
    BY DEF Accounts
  <2>1. Admitted(n) = {}
    BY DEF Init, Admitted, StreamsOf
  <2>2. Charged(n) = {}
    BY <2>1 DEF Charged
  <2>. QED  BY <2>2, FS_EmptySet DEF Init, Account, empty
<1>2. IInv /\ Accounts => RelayBudget
  <2>. SUFFICES ASSUME IInv, Accounts, NEW n \in Nodes, StreamsOf(n) # {}
                PROVE  \E top \in InEffect, s \in StreamsOf(n) :
                          Cardinality(Passed(n)) * Period
                            <= top * (Period + (clock - started_at[s]))
    BY DEF RelayBudget
  <2>1. Account(n) /\ clock \in Nat /\ DEFAULT_RATE_PER_MIN \in InEffect
    BY DEF Accounts, IInv, TypeOK, InEffect
  <2>2. Passed(n) \subseteq Charged(n)
    <3>1. \A s \in Admitted(n) : 0 .. chunks_out[s] \subseteq 0 .. Paid(s)
      BY SMT DEF Paid, Admitted, StreamsOf, IInv, TypeOK, Pending
    <3>. SUFFICES ASSUME NEW x \in Passed(n) PROVE x \in Charged(n)
      OBVIOUS
    <3>2. PICK s \in Admitted(n) : x \in {s} \X (0 .. chunks_out[s])
      BY DEF Passed
    <3>. QED  BY <3>1, <3>2, SMT DEF Charged
  <2>3. /\ Cardinality(Charged(n)) \in Nat
        /\ Cardinality(Passed(n)) \in 0..Cardinality(Charged(n))
    BY <2>1, <2>2, FS_Subset, FS_CardinalityType, SMT DEF Account
  <2>4. CASE n \in DOMAIN inner
    <3>1. inner[n] \in Bucket /\ inner[n].last_refill <= clock
      BY <2>1, <2>4 DEF IInv, TypeOK, Account
    <3>2. PICK top \in InEffect, s \in StreamsOf(n) :
                  Within(inner[n], Cardinality(Charged(n)), top, started_at[s])
      BY <2>1, <2>4 DEF Account, Funded
    <3>3. top \in Nat /\ started_at[s] \in Nat
      BY InEffectFacts, SMT DEF StreamsOf, IInv, TypeOK
    <3>4. Within(inner[n], Cardinality(Passed(n)), top, started_at[s])
      BY <2>3, <3>1, <3>2, <3>3, WithinFewer
    <3>5. Cardinality(Passed(n)) \in Nat
      BY <2>3, SMT
    <3>6. Cardinality(Passed(n)) * Period <= top * (Period + (clock - started_at[s]))
      BY <2>1, <3>1, <3>3, <3>4, <3>5, WithinBudget
    <3>. QED  BY <3>2, <3>6
  <2>5. CASE n \notin DOMAIN inner
    <3>1. PICK s \in StreamsOf(n) : TRUE
      OBVIOUS
    <3>2. Cardinality(Passed(n)) = 0
      BY <2>1, <2>3, <2>5, FS_EmptySet, SMT DEF Account
    <3>3. Period + (clock - started_at[s]) \in Nat /\ 0 * Period = 0
      BY <2>1, <3>1, PeriodAssumption, SMT DEF StreamsOf, IInv, TypeOK
    <3>4. DEFAULT_RATE_PER_MIN * (Period + (clock - started_at[s])) \in Nat
      BY <3>3, RateAssumption, ProductNat
    <3>. QED  BY <2>1, <3>2, <3>3, <3>4, SMT
  <2>. QED  BY <2>4, <2>5
<1>. QED  BY <1>1, <1>2, InitIInv, NextIInv, NextAccounts, PTL DEF Spec

=============================================================================
