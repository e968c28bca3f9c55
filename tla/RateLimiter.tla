---------------------------- MODULE RateLimiter ----------------------------
(***************************************************************************)
(* RateLimiter of src/src/rate_limit.rs under concurrent callers.          *)
(*                                                                         *)
(* Every call is two steps: the relaxed fetch_add on its call counter,     *)
(* before the mutex is taken, and the critical section, which ends with    *)
(* the outcome counter.  Between the two other callers run, so the time a  *)
(* caller passed in may be older than the time the bucket has already      *)
(* seen.  The time is an argument of every call; the relay passes both     *)
(* the current second and the second its connection was accepted in, so a  *)
(* call may carry any time up to the present.                              *)
(***************************************************************************)
EXTENDS TokenBucket, HashMap, FiniteSets

CONSTANTS
    Threads,     \* callers of the limiter
    Nodes,       \* node identities
    Rates,       \* the per_min arguments of set_limit, 0 included
    DefaultArg,  \* the argument of RateLimiter::new
    MaxClock,    \* bound: the last second
    MaxCalls     \* bound: calls of try_consume, and calls of set_limit

ASSUME LimiterAssumption ==
    /\ Rates \subseteq Nat
    /\ DefaultArg \in Nat
    /\ IsFiniteSet(Threads)

VARIABLES
    inner,            \* the map under the mutex: node -> bucket
    consume_calls,    \* total_try_consume_calls
    total_allowed,
    total_denied,
    set_limit_calls,  \* total_set_limit_calls
    call,             \* the call each thread is in
    clock,            \* the present second
    hist              \* history only: what each node was granted, and since when

counters == <<consume_calls, total_allowed, total_denied, set_limit_calls>>
vars == <<inner, counters, call, clock, hist>>

default_per_min == effective(DefaultArg)

Idle        == [op |-> "idle"]
ConsumeCall == [op : {"consume"}, node : Nodes, now : Nat]
SetCall     == [op : {"set"}, node : Nodes, per_min : Nat, now : Nat]

(* Of a tracked node: the tokens granted so far, the time its bucket was   *)
(* created with, the anchor of the bucket at the last grant, and the       *)
(* largest capacity the bucket has had.                                    *)
History == [granted : Nat, first : Nat, at : Nat, peak : Nat]

TypeOK ==
    /\ DOMAIN inner \subseteq Nodes
    /\ inner \in [DOMAIN inner -> Bucket]
    /\ consume_calls \in Nat
    /\ total_allowed \in Nat
    /\ total_denied \in Nat
    /\ set_limit_calls \in Nat
    /\ call \in [Threads -> {Idle} \cup ConsumeCall \cup SetCall]
    /\ clock \in Nat
    /\ hist \in [DOMAIN inner -> History]

Init ==
    /\ inner = empty
    /\ consume_calls = 0
    /\ total_allowed = 0
    /\ total_denied = 0
    /\ set_limit_calls = 0
    /\ call = [t \in Threads |-> Idle]
    /\ clock = 0
    /\ hist = empty

(* A bucket that is created starts a history; a later one extends it. *)
past(n, b, now) ==
    IF n \in DOMAIN hist THEN hist[n]
    ELSE [granted |-> 0, first |-> now, at |-> 0, peak |-> b.capacity]

credited(h, b) ==
    [granted |-> h.granted + 1, first |-> h.first, at |-> b.last_refill, peak |-> h.peak]

(* Mutant of count_outcome: denials are not counted. *)
count_allowed_only(ok) ==
    /\ total_allowed' = IF ok THEN total_allowed + 1 ELSE total_allowed
    /\ UNCHANGED total_denied

count_outcome(ok) ==
    /\ total_allowed' = IF ok THEN total_allowed + 1 ELSE total_allowed
    /\ total_denied'  = IF ok THEN total_denied ELSE total_denied + 1

-----------------------------------------------------------------------------
(* try_consume up to the mutex *)
ConsumeBegin(t, n, now) ==
    /\ call[t] = Idle
    /\ consume_calls < MaxCalls
    /\ consume_calls' = consume_calls + 1
    /\ call' = [call EXCEPT ![t] = [op |-> "consume", node |-> n, now |-> now]]
    /\ UNCHANGED <<inner, total_allowed, total_denied, set_limit_calls, clock, hist>>

(* the critical section of try_consume *)
ConsumeLocked(t) ==
    /\ call[t].op = "consume"
    /\ LET n   == call[t].node
           now == call[t].now
           b   == entry(inner, n, default_per_min, now)
           h   == past(n, b, now)
       IN /\ inner' = insert(inner, n, consumed(b, now))
          /\ count_outcome(allows(b, now))
          /\ hist' = insert(hist, n,
                            IF allows(b, now) THEN credited(h, consumed(b, now)) ELSE h)
    /\ call' = [call EXCEPT ![t] = Idle]
    /\ UNCHANGED <<consume_calls, set_limit_calls, clock>>

(* set_limit up to the mutex *)
SetBegin(t, n, per_min, now) ==
    /\ call[t] = Idle
    /\ set_limit_calls < MaxCalls
    /\ set_limit_calls' = set_limit_calls + 1
    /\ call' = [call EXCEPT ![t] = [op |-> "set", node |-> n,
                                    per_min |-> effective(per_min), now |-> now]]
    /\ UNCHANGED <<inner, consume_calls, total_allowed, total_denied, clock, hist>>

(* the critical section of set_limit *)
SetLocked(t) ==
    /\ call[t].op = "set"
    /\ LET n    == call[t].node
           now  == call[t].now
           rate == call[t].per_min
           b    == entry(inner, n, rate, now)
           h    == past(n, b, now)
       IN /\ inner' = insert(inner, n, retune(b, rate, now))
          /\ hist' = insert(hist, n, [h EXCEPT !.peak = IF rate > @ THEN rate ELSE @])
    /\ call' = [call EXCEPT ![t] = Idle]
    /\ UNCHANGED <<counters, clock>>

Tick ==
    /\ clock < MaxClock
    /\ clock' = clock + 1
    /\ UNCHANGED <<inner, counters, call, hist>>

Next ==
    \/ \E t \in Threads, n \in Nodes, now \in 0..clock : ConsumeBegin(t, n, now)
    \/ \E t \in Threads : ConsumeLocked(t)
    \/ \E t \in Threads, n \in Nodes, r \in Rates, now \in 0..clock : SetBegin(t, n, r, now)
    \/ \E t \in Threads : SetLocked(t)
    \/ Tick

Spec == Init /\ [][Next]_vars

-----------------------------------------------------------------------------
(* Whatever the interleaving of try_consume and set_limit, and however old *)
(* the times they carry, a node is never granted more than one full bucket *)
(* plus the refill of the time since its bucket was created, both at the   *)
(* largest capacity the bucket has had.                                    *)
Budget ==
    \A n \in DOMAIN inner :
        hist[n].granted * Period <= hist[n].peak * (Period + (clock - hist[n].first))

(* A node that was never granted a token, or not for a whole Period, has a *)
(* token: try_consume denies only nodes it served less than a Period ago,  *)
(* whatever set_limit did to the bucket in between.                        *)
NeverStarved ==
    \A n \in DOMAIN inner :
        \/ hist[n].granted = 0
        \/ inner[n].last_refill - hist[n].at >= Period
        => inner[n].tokens >= Period

(* the threads between the call counter and the mutex of try_consume *)
InFlight == {t \in Threads : call[t].op = "consume"}

(* The outcome counters account for every call that has been counted,      *)
(* except those still between the counter and the mutex.                   *)
CountersBalance ==
    consume_calls = total_allowed + total_denied + Cardinality(InFlight)

=============================================================================
