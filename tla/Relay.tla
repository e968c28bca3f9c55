------------------------------- MODULE Relay -------------------------------
(***************************************************************************)
(* Relay::handle_connection of src/src/relay/mod.rs: the streams of the    *)
(* connections of a relay, each a task of its own, that share the trust    *)
(* store and the rate limiter, while the operator edits the trust store.   *)
(*                                                                         *)
(* A chunk is one successful read of at most 8 KiB; the bytes of the log   *)
(* are counted in chunks.  A call into the trust store or into the limiter *)
(* is one critical section; RateLimiter.tla looks inside.                  *)
(***************************************************************************)
EXTENDS TokenBucket, HashMap, FiniteSets

CONSTANTS
    Streams,
    Nodes,
    peer_node,      \* [Streams -> Nodes]: the subject of the ticket of the connection
    Rates,          \* rate_limit_per_min of trust entries, 0 included
    QuicStreams,    \* those whose outgoing end is a QuicSendStream of relay/listener.rs
    MaxClock,       \* bound: the last second
    MaxChunks,      \* bound: chunks read on a stream
    MaxEdits        \* bound: changes of the trust store

ASSUME RelayAssumption ==
    /\ peer_node \in [Streams -> Nodes]
    /\ Rates \subseteq Nat
    /\ QuicStreams \subseteq Streams

VARIABLES
    trust,       \* TrustStore: node -> rate_limit_per_min
    inner,       \* RateLimiter: node -> bucket
    pc,          \* where handle_connection is in each stream
    started_at,  \* the second the connection of the stream was accepted in
    rate,        \* the rate that sync_node_limit read
    chunks_in, chunks_out,
    finished,    \* the outgoing stream has been finished
    fault,       \* history: the transport failed under the stream
    clock,
    edits

vars == <<trust, inner, pc, started_at, rate, chunks_in, chunks_out, finished, fault,
          clock, edits>>

Outcomes == {"Closed", "RateLimited", "TrustRejected", "Error"}

TypeOK ==
    /\ DOMAIN trust \subseteq Nodes /\ trust \in [DOMAIN trust -> Nat]
    /\ DOMAIN inner \subseteq Nodes /\ inner \in [DOMAIN inner -> Bucket]
    /\ pc \in [Streams -> {"none", "check", "get", "set", "admit", "read", "charge", "write"}
                            \cup Outcomes]
    /\ started_at \in [Streams -> 0..clock]
    /\ rate \in [Streams -> Nat]
    /\ chunks_in \in [Streams -> Nat]
    /\ chunks_out \in [Streams -> Nat]
    /\ finished \in [Streams -> BOOLEAN]
    /\ fault \in [Streams -> BOOLEAN]
    /\ clock \in Nat
    /\ edits \in Nat

Init ==
    /\ trust \in [Nodes -> Rates] \cup {empty}
    /\ inner = empty
    /\ pc = [s \in Streams |-> "none"]
    /\ started_at = [s \in Streams |-> 0]
    /\ rate = [s \in Streams |-> 0]
    /\ chunks_in = [s \in Streams |-> 0]
    /\ chunks_out = [s \in Streams |-> 0]
    /\ finished = [s \in Streams |-> FALSE]
    /\ fault = [s \in Streams |-> FALSE]
    /\ clock = 0
    /\ edits = 0

Goto(s, from, to) == pc[s] = from /\ pc' = [pc EXCEPT ![s] = to]

counts == <<chunks_in, chunks_out, finished, fault>>
shared == <<trust, clock, edits>>

-----------------------------------------------------------------------------
(* The connection handler accepts a stream and spawns its task.  The       *)
(* connection may have been accepted long before.                          *)
Accept(s, started) ==
    /\ Goto(s, "none", "check")
    /\ started_at' = [started_at EXCEPT ![s] = started]
    /\ UNCHANGED <<inner, rate, counts, shared>>

CheckTrust(s) ==
    /\ Goto(s, "check", IF peer_node[s] \in DOMAIN trust THEN "get" ELSE "TrustRejected")
    /\ UNCHANGED <<inner, started_at, rate, counts, shared>>

(* sync_node_limit: the entry may have been removed since the check *)
GetEntry(s) ==
    /\ IF peer_node[s] \in DOMAIN trust
       THEN Goto(s, "get", "set") /\ rate' = [rate EXCEPT ![s] = trust[peer_node[s]]]
       ELSE Goto(s, "get", "admit") /\ UNCHANGED rate
    /\ UNCHANGED <<inner, started_at, counts, shared>>

(* Mutant of limited: every stream starts with a new bucket. *)
limited_anew(n, per_min, now) == full(effective(per_min), now)

limited(n, per_min, now) ==
    retune(entry(inner, n, effective(per_min), now), effective(per_min), now)

SetLimit(s) ==
    /\ Goto(s, "set", "admit")
    /\ inner' = insert(inner, peer_node[s], limited(peer_node[s], rate[s], started_at[s]))
    /\ UNCHANGED <<started_at, rate, counts, shared>>

(* RateLimiter::try_consume with the present second *)
bucket(n) == entry(inner, n, DEFAULT_RATE_PER_MIN, clock)

TryConsume(s, from, to) ==
    /\ Goto(s, from, IF allows(bucket(peer_node[s]), clock) THEN to ELSE "RateLimited")
    /\ inner' = insert(inner, peer_node[s], consumed(bucket(peer_node[s]), clock))
    /\ UNCHANGED <<started_at, rate, counts, shared>>

Admit(s) == TryConsume(s, "admit", "read")

-----------------------------------------------------------------------------
(* the loop: read, charge, write *)
ReadChunk(s) ==
    /\ chunks_in[s] < MaxChunks
    /\ Goto(s, "read", "charge")
    /\ chunks_in' = [chunks_in EXCEPT ![s] = @ + 1]
    /\ UNCHANGED <<inner, started_at, rate, chunks_out, finished, fault, shared>>

ReadEnds(s) ==
    /\ Goto(s, "read", "Closed")
    /\ UNCHANGED <<inner, started_at, rate, counts, shared>>

Charge(s) == TryConsume(s, "charge", "write")

(* Mutant of WriteChunk: a chunk is written and not counted. *)
WriteChunk_uncounted(s) ==
    /\ ~finished[s]
    /\ Goto(s, "write", "read")
    /\ finished' = [finished EXCEPT ![s] = s \in QuicStreams]
    /\ UNCHANGED <<inner, started_at, rate, chunks_in, chunks_out, fault, shared>>

WriteChunk(s) ==
    /\ ~finished[s]
    /\ Goto(s, "write", "read")
    /\ chunks_out' = [chunks_out EXCEPT ![s] = @ + 1]
    /\ finished' = [finished EXCEPT ![s] = s \in QuicStreams]
    /\ UNCHANGED <<inner, started_at, rate, chunks_in, fault, shared>>

(* QuicSendStream finishes the stream after every write, and write_all on  *)
(* a stream that was finished is an error.                                 *)
WriteClosed(s) ==
    /\ finished[s]
    /\ Goto(s, "write", "Error")
    /\ UNCHANGED <<inner, started_at, rate, counts, shared>>

(* the connection or the peer's end of a stream breaks under a read or a write *)
TransportFails(s) ==
    /\ Goto(s, "read", "Error") \/ Goto(s, "write", "Error")
    /\ fault' = [fault EXCEPT ![s] = TRUE]
    /\ UNCHANGED <<inner, started_at, rate, chunks_in, chunks_out, finished, shared>>

-----------------------------------------------------------------------------
(* the operator: TrustStore::add and remove *)
TrustAdd(n, r) ==
    /\ edits < MaxEdits
    /\ edits' = edits + 1
    /\ trust' = insert(trust, n, r)
    /\ UNCHANGED <<inner, pc, started_at, rate, counts, clock>>

TrustRemove(n) ==
    /\ edits < MaxEdits
    /\ edits' = edits + 1
    /\ n \in DOMAIN trust
    /\ trust' = retain(trust, Nodes \ {n})
    /\ UNCHANGED <<inner, pc, started_at, rate, counts, clock>>

Tick ==
    /\ clock < MaxClock
    /\ clock' = clock + 1
    /\ UNCHANGED <<trust, inner, pc, started_at, rate, counts, edits>>

Next ==
    \/ \E s \in Streams, started \in 0..clock : Accept(s, started)
    \/ \E s \in Streams : CheckTrust(s)
    \/ \E s \in Streams : GetEntry(s)
    \/ \E s \in Streams : SetLimit(s)
    \/ \E s \in Streams : Admit(s)
    \/ \E s \in Streams : ReadChunk(s)
    \/ \E s \in Streams : ReadEnds(s)
    \/ \E s \in Streams : Charge(s)
    \/ \E s \in Streams : WriteChunk(s)
    \/ \E s \in Streams : WriteClosed(s)
    \/ \E s \in Streams : TransportFails(s)
    \/ \E n \in Nodes, r \in Rates : TrustAdd(n, r)
    \/ \E n \in Nodes : TrustRemove(n)
    \/ Tick

Spec == Init /\ [][Next]_vars

-----------------------------------------------------------------------------
StreamsOf(n) == {s \in Streams : peer_node[s] = n /\ pc[s] # "none"}
Admitted(n)  == {s \in StreamsOf(n) :
                    \/ pc[s] \in {"read", "charge", "write", "Closed", "Error"}
                    \/ chunks_in[s] > 0}

(* What has passed for a node: the admission of a stream, as 0, and every  *)
(* chunk forwarded on it.                                                  *)
Passed(n) == UNION {{s} \X (0 .. chunks_out[s]) : s \in Admitted(n)}

InEffect == {effective(r) : r \in Rates} \cup {DEFAULT_RATE_PER_MIN}

(* All the streams of a node together, however many it opens, and whatever *)
(* the operator does to its entry meanwhile, are admitted and forwarded    *)
(* within one bucket and its refill, at one of the rates there are and     *)
(* since the start of one of its streams: neither a new stream nor a       *)
(* change of rate or of trust refills the bucket.                          *)
RelayBudget ==
    \A n \in Nodes : StreamsOf(n) # {} =>
        \E top \in InEffect, s \in StreamsOf(n) :
            Cardinality(Passed(n)) * Period <= top * (Period + (clock - started_at[s]))

(* The log of a stream that ended tells what was forwarded: everything     *)
(* that was read if the source closed it, all but the last chunk if it was *)
(* limited in the loop, and nothing if the peer was not trusted.           *)
LogsAreHonest ==
    \A s \in Streams :
        /\ pc[s] = "Closed" => chunks_out[s] = chunks_in[s]
        /\ pc[s] = "RateLimited" /\ chunks_in[s] > 0 => chunks_in[s] = chunks_out[s] + 1
        /\ pc[s] = "TrustRejected" => chunks_in[s] = 0
        /\ chunks_in[s] - chunks_out[s] \in 0..1

(* handle_connection says that it pumps the bytes of incoming to outgoing: *)
(* it fails only if the transport fails.                                   *)
PumpsUnlessFault == \A s \in Streams : pc[s] = "Error" => fault[s]

=============================================================================
