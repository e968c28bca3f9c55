----------------------------- MODULE NonceStore -----------------------------
(***************************************************************************)
(* NonceStore of src/src/nonce_store.rs: concurrent check_and_record and   *)
(* cleanup_expired under one mutex, persist_to outside it, crashes and     *)
(* restarts with load_from.                                                *)
(*                                                                         *)
(* Every call carries a time its caller read before the call, so by the    *)
(* time it holds the mutex that time is old.  MaxSkew bounds how old.  The *)
(* subtractions of the code saturate at the ends of i64, far from any      *)
(* Unix time, and are plain subtractions here.                             *)
(***************************************************************************)
EXTENDS Integers, FiniteSets, HashMap

CONSTANTS
    Threads,      \* callers of the store
    Persisters,   \* those that call persist_to
    Nonces,
    TtlArg,       \* the ttl_secs argument of NonceStore::new and load_from
    DefaultTtl,   \* the 60 seconds that replace an argument <= 0
    MaxSkew,      \* how old the time of a call may be when it takes effect
    MaxClock,     \* bound: the last second
    MaxCalls,     \* bound: calls of check_and_record
    MaxCrashes    \* bound: crashes of the process

ASSUME NonceAssumption ==
    /\ IsFiniteSet(Threads)
    /\ Persisters \subseteq Threads
    /\ TtlArg \in Int
    /\ DefaultTtl \in Nat \ {0}
    /\ MaxSkew \in Nat

VARIABLES
    inner,                     \* the map under the mutex: nonce -> time recorded
    total_check_calls,
    total_accepted,
    total_rejected_replay,
    total_accepted_after_ttl,
    call,                      \* the call each thread is in
    clock,                     \* the present second
    up,                        \* the process runs, with a store in memory
    file,                      \* the file of persist_to and load_from
    alone,                     \* history: the persist_to that no other has overlapped so far
    saved,                     \* history: the snapshot of the last persist_to that returned;
                               \*   intact: it ran alone and no write has begun since
    last,                      \* history: the latest acceptance of each nonce
    crashes

counters == <<total_check_calls, total_accepted, total_rejected_replay,
              total_accepted_after_ttl>>
history  == <<alone, saved, last>>
vars == <<inner, counters, call, clock, up, file, history, crashes>>

ttl_secs == IF TtlArg > 0 THEN TtlArg ELSE DefaultTtl

Idle        == [op |-> "idle"]
CheckCall   == [op : {"check"}, nonce : Nonces, now : Nat]
CleanupCall == [op : {"cleanup"}, now : Nat]
(* persist_to after its snapshot, and after the file has been truncated *)
IsPersist(c) == c.op \in {"snapshot", "writing"}

Blank       == [kind |-> "ok", map |-> empty]
IsStore(m)  == DOMAIN m \subseteq Nonces /\ m \in [DOMAIN m -> Nat]
Acceptance  == [at : Nat, real : Nat, count : Nat]

TypeOK ==
    /\ IsStore(inner)
    /\ total_check_calls \in Nat
    /\ total_accepted \in Nat
    /\ total_rejected_replay \in Nat
    /\ total_accepted_after_ttl \in Nat
    /\ DOMAIN call = Threads
    /\ \A t \in Threads : \/ call[t] \in {Idle} \cup CheckCall \cup CleanupCall
                          \/ IsPersist(call[t]) /\ IsStore(call[t].snap)
    /\ clock \in Nat
    /\ up \in BOOLEAN
    /\ file.kind \in {"absent", "ok", "malformed"}
    /\ IsStore(file.map)
    /\ alone \subseteq Threads
    /\ IsStore(saved.map) /\ saved.intact \in BOOLEAN
    /\ DOMAIN last \subseteq Nonces /\ last \in [DOMAIN last -> Acceptance]
    /\ crashes \in Nat

(* NonceStore::new: an empty map and fresh counters *)
fresh_counters ==
    /\ total_check_calls' = 0
    /\ total_accepted' = 0
    /\ total_rejected_replay' = 0
    /\ total_accepted_after_ttl' = 0

Init ==
    /\ inner = empty
    /\ total_check_calls = 0
    /\ total_accepted = 0
    /\ total_rejected_replay = 0
    /\ total_accepted_after_ttl = 0
    /\ call = [t \in Threads |-> Idle]
    /\ clock = 0
    /\ up = TRUE
    /\ file = [kind |-> "absent", map |-> empty]
    /\ alone = {}
    /\ saved = [map |-> empty, intact |-> FALSE]
    /\ last = empty
    /\ crashes = 0

Enter(t, c) ==
    /\ up
    /\ call[t] = Idle
    /\ call' = [call EXCEPT ![t] = c]

Leave(t) == call' = [call EXCEPT ![t] = Idle]

(* The times a call may carry when it begins. *)
Times == {now \in 0..clock : clock - now <= MaxSkew}

-----------------------------------------------------------------------------
(* Mutant of CheckBegin: the cutoff is passed on instead of the time. *)
CheckBegin_cutoff(t, x, now) ==
    /\ total_check_calls < MaxCalls
    /\ Enter(t, [op |-> "check", nonce |-> x, now |-> now - ttl_secs])
    /\ total_check_calls' = total_check_calls + 1
    /\ UNCHANGED <<inner, total_accepted, total_rejected_replay, total_accepted_after_ttl,
                   clock, up, file, history, crashes>>

(* check_and_record up to the mutex *)
CheckBegin(t, x, now) ==
    /\ total_check_calls < MaxCalls
    /\ Enter(t, [op |-> "check", nonce |-> x, now |-> now])
    /\ total_check_calls' = total_check_calls + 1
    /\ UNCHANGED <<inner, total_accepted, total_rejected_replay, total_accepted_after_ttl,
                   clock, up, file, history, crashes>>

is_replay(x, now) == x \in DOMAIN inner /\ now - inner[x] < ttl_secs

(* the critical section of check_and_record: Ok(false) *)
CheckRejects(t) ==
    /\ call[t].op = "check"
    /\ is_replay(call[t].nonce, call[t].now)
    /\ total_rejected_replay' = total_rejected_replay + 1
    /\ Leave(t)
    /\ UNCHANGED <<inner, total_check_calls, total_accepted, total_accepted_after_ttl,
                   clock, up, file, history, crashes>>

accepted_again(x, now) ==
    [at |-> now, real |-> clock,
     count |-> IF x \in DOMAIN last THEN last[x].count + 1 ELSE 1]

(* Mutant of count_acceptance: a reuse after the ttl counts as both. *)
count_twice(x) ==
    /\ total_accepted' = total_accepted + 1
    /\ total_accepted_after_ttl' = IF x \in DOMAIN inner THEN total_accepted_after_ttl + 1
                                   ELSE total_accepted_after_ttl

(* Mutant of count_acceptance: whatever is accepted counts as new. *)
count_as_new(x) ==
    /\ total_accepted' = total_accepted + 1
    /\ UNCHANGED total_accepted_after_ttl

count_acceptance(x) ==
    IF x \in DOMAIN inner
    THEN /\ total_accepted_after_ttl' = total_accepted_after_ttl + 1
         /\ UNCHANGED total_accepted
    ELSE /\ total_accepted' = total_accepted + 1
         /\ UNCHANGED total_accepted_after_ttl

(* the critical section of check_and_record: Ok(true) *)
CheckAccepts(t) ==
    /\ call[t].op = "check"
    /\ ~is_replay(call[t].nonce, call[t].now)
    /\ count_acceptance(call[t].nonce)
    /\ inner' = insert(inner, call[t].nonce, call[t].now)
    /\ last' = insert(last, call[t].nonce, accepted_again(call[t].nonce, call[t].now))
    /\ Leave(t)
    /\ UNCHANGED <<total_check_calls, total_rejected_replay, clock, up, file, alone, saved, crashes>>

(* cleanup_expired *)
CleanupBegin(t, now) ==
    /\ Enter(t, [op |-> "cleanup", now |-> now])
    /\ UNCHANGED <<inner, counters, clock, up, file, history, crashes>>

(* Mutant of unexpired: the cutoff forgets the ttl. *)
unexpired_now(now) == {x \in DOMAIN inner : inner[x] >= now}

unexpired(now) == {x \in DOMAIN inner : inner[x] >= now - ttl_secs}

CleanupLocked(t) ==
    /\ call[t].op = "cleanup"
    /\ inner' = retain(inner, unexpired(call[t].now))
    /\ Leave(t)
    /\ UNCHANGED <<counters, clock, up, file, history, crashes>>

-----------------------------------------------------------------------------
(* persist_to: a snapshot under the mutex, then std::fs::write without it, *)
(* which first truncates the file and then writes it.                      *)
PersistSnapshot(t) ==
    /\ Enter(t, [op |-> "snapshot", snap |-> inner])
    /\ alone' = IF \E u \in Threads : IsPersist(call[u]) THEN {} ELSE {t}
    /\ UNCHANGED <<inner, counters, clock, up, file, saved, last, crashes>>

PersistTruncate(t) ==
    /\ call[t].op = "snapshot"
    /\ file' = Blank
    /\ saved' = [saved EXCEPT !.intact = FALSE]
    /\ call' = [call EXCEPT ![t].op = "writing"]
    /\ UNCHANGED <<inner, counters, clock, up, alone, last, crashes>>

(* the map read from the lines of new, and after them those of rest *)
Followed(new, rest) ==
    [x \in DOMAIN new \cup rest |-> IF x \in rest THEN file.map[x] ELSE new[x]]

(* What the file holds after new is written from its start: new, and after *)
(* it the rest of what another persist_to wrote since the truncation.  The *)
(* rest begins with whole lines, or with a cut one, which does not parse.  *)
Onto(new) ==
    IF file = Blank THEN {new}
    ELSE {new} \cup {[kind |-> k, map |-> Followed(new.map, rest)] :
                      k \in {new.kind, "malformed"}, rest \in SUBSET DOMAIN file.map}

PersistReturns(t) ==
    /\ call[t].op = "writing"
    /\ file' \in Onto([kind |-> "ok", map |-> call[t].snap])
    /\ saved' = [map |-> call[t].snap, intact |-> t \in alone]
    /\ alone' = {}
    /\ Leave(t)
    /\ UNCHANGED <<inner, counters, clock, up, last, crashes>>

(* What a write that stops half way leaves: some of the lines, the last of *)
(* which may be cut.  A cut line does not parse, or parses with a prefix   *)
(* of the digits of its timestamp, a smaller number.                       *)
CutFiles(snap) ==
    LET lines(S) == [kind |-> "ok", map |-> retain(snap, S)] IN
    {lines(S) : S \in SUBSET DOMAIN snap}
    \cup {[kind |-> "malformed", map |-> empty] : x \in DOMAIN snap}
    \cup {[kind |-> "ok", map |-> insert(retain(snap, S), x, 0)] :
             S \in SUBSET DOMAIN snap, x \in DOMAIN snap}

(* The same over what another persist_to has written. *)
CutWrites(snap) == UNION {Onto(new) : new \in CutFiles(snap)}

(* std::fs::write fails, before or after the truncation: the error goes   *)
(* to the caller of persist_to.                                            *)
PersistFails(t) ==
    /\ \/ call[t].op = "snapshot" /\ UNCHANGED file
       \/ call[t].op = "writing"  /\ file' \in CutWrites(call[t].snap)
    /\ alone' = {}
    /\ Leave(t)
    /\ UNCHANGED <<inner, counters, clock, up, saved, last, crashes>>

-----------------------------------------------------------------------------
(* The acceptances that a restart has to remember: those that were in the  *)
(* snapshot of the last persist_to that returned, if no other overlapped   *)
(* it and none has begun to write since.                                   *)
remembered ==
    {x \in DOMAIN last : saved.intact /\ x \in DOMAIN saved.map /\ saved.map[x] = last[x].at}

(* The process stops.  A write in progress is cut. *)
Crash ==
    /\ up
    /\ crashes < MaxCrashes
    /\ crashes' = crashes + 1
    /\ up' = FALSE
    /\ \/ \E t \in Threads : call[t].op = "writing" /\ file' \in CutWrites(call[t].snap)
       \/ UNCHANGED file
    /\ inner' = empty
    /\ call' = [t \in Threads |-> Idle]
    /\ alone' = {}
    /\ last' = retain(last, remembered)
    /\ UNCHANGED <<counters, clock, saved>>

(* load_from: a missing file is an empty store; a malformed one is an      *)
(* error, and the process does not get a store from it.                    *)
Restart ==
    /\ ~up
    /\ file.kind # "malformed"
    /\ up' = TRUE
    /\ inner' = file.map
    /\ fresh_counters
    /\ UNCHANGED <<call, clock, file, history, crashes>>

(* Time passes, no faster than MaxSkew lets pending calls keep up with. *)
Tick ==
    /\ clock < MaxClock
    /\ \A t \in Threads : call[t].op \in {"check", "cleanup"} => clock + 1 - call[t].now <= MaxSkew
    /\ clock' = clock + 1
    /\ UNCHANGED <<inner, counters, call, up, file, history, crashes>>

Next ==
    \/ \E t \in Threads, x \in Nonces, now \in Times : CheckBegin(t, x, now)
    \/ \E t \in Threads : CheckRejects(t)
    \/ \E t \in Threads : CheckAccepts(t)
    \/ \E t \in Threads, now \in Times : CleanupBegin(t, now)
    \/ \E t \in Threads : CleanupLocked(t)
    \/ \E t \in Persisters : PersistSnapshot(t)
    \/ \E t \in Persisters : PersistTruncate(t)
    \/ \E t \in Persisters : PersistReturns(t)
    \/ \E t \in Persisters : PersistFails(t)
    \/ Crash
    \/ Restart
    \/ Tick

Spec == Init /\ [][Next]_vars

-----------------------------------------------------------------------------
(* Two successive acceptances of the same nonce are at least the ttl apart *)
(* less the skew of the callers, both in the times the callers passed in   *)
(* and in real time: with any number of threads racing on the nonce, with  *)
(* cleanup passes whose time is ahead of a pending check, and across a     *)
(* crash if a persist_to that began after the first one had returned and   *)
(* no other overlapped it.                                                 *)
NoEarlyReplay ==
    [][\A x \in DOMAIN last \cap DOMAIN last' :
          last'[x].count # last[x].count =>
             /\ last'[x].at - last[x].at >= ttl_secs - MaxSkew
             /\ last'[x].real - last[x].real >= ttl_secs - MaxSkew]_vars

(* A reuse is counted in total_accepted, as a first sighting, only once    *)
(* the nonce is older than the ttl by the present second, so that a        *)
(* cleanup may have dropped it; before that total_accepted_after_ttl tells *)
(* operators of it.                                                        *)
ReuseIsCounted ==
    [][\A x \in DOMAIN last \cap DOMAIN last' :
          last'[x].count # last[x].count /\ total_accepted' # total_accepted =>
             last[x].at < clock - ttl_secs]_vars

(* the threads between the call counter and the mutex of check_and_record *)
InFlight == {t \in Threads : call[t].op = "check"}

(* Every check that was counted is in exactly one outcome counter, or has  *)
(* not left the critical section yet.                                      *)
CountersBalance ==
    up => total_check_calls = total_accepted + total_rejected_replay
                                + total_accepted_after_ttl + Cardinality(InFlight)

=============================================================================
