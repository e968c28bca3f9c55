-------------------------- MODULE NonceStoreProofs --------------------------
(***************************************************************************)
(* The replay window of the nonce store, for any threads, nonces, ttl,     *)
(* skew and bounds, across cleanups, crashes and restarts.                 *)
(***************************************************************************)
EXTENDS NonceStore, FiniteSetTheorems, TLAPS

(* Pending checks and cleanups carry a time that is at most MaxSkew old. *)
CallTimes ==
    \A t \in Threads :
        call[t].op \in {"check", "cleanup"} =>
            call[t].now <= clock /\ clock - call[t].now <= MaxSkew

(* The same of the acceptances that the history remembers. *)
LastTimes ==
    \A x \in DOMAIN last :
        /\ last[x].at <= last[x].real
        /\ last[x].real <= clock
        /\ last[x].real - last[x].at <= MaxSkew

(* An accepted nonce is in the map, or a cleanup found it expired. *)
Kept ==
    up => \A x \in DOMAIN last :
             \/ x \in DOMAIN inner /\ inner[x] = last[x].at
             \/ last[x].at < clock - ttl_secs

(* While the process is down its calls are gone, and the history holds     *)
(* only what the file holds.                                               *)
Down ==
    ~up => /\ \A t \in Threads : call[t] = Idle
           /\ \A x \in DOMAIN last : /\ saved.intact
                                     /\ x \in DOMAIN saved.map
                                     /\ saved.map[x] = last[x].at

(* What a persist_to wrote that ran alone is in the file until the next    *)
(* one truncates it; while it runs nobody else writes.                     *)
Durable ==
    /\ saved.intact => file = [kind |-> "ok", map |-> saved.map]
    /\ \A t \in Threads : call[t].op = "writing" => ~saved.intact
    /\ \A t \in alone : /\ IsPersist(call[t])
                        /\ call[t].op = "writing" => file = Blank
                        /\ \A u \in Threads \ {t} : ~IsPersist(call[u])

IInv == TypeOK /\ CallTimes /\ LastTimes /\ Kept /\ Down /\ Durable

-----------------------------------------------------------------------------
(* The window is a positive number of seconds whatever the argument is. *)
LEMMA TtlPositive == ttl_secs \in Nat \ {0}
BY NonceAssumption DEF ttl_secs

(* Inserting a key and dropping some keep the type of a map. *)
LEMMA MapOps ==
    ASSUME NEW D, NEW V, NEW m, DOMAIN m \subseteq D, m \in [DOMAIN m -> V],
           NEW x \in D, NEW v \in V, NEW S
    PROVE  /\ DOMAIN insert(m, x, v) \subseteq D
           /\ insert(m, x, v) \in [DOMAIN insert(m, x, v) -> V]
           /\ DOMAIN retain(m, S) \subseteq D
           /\ retain(m, S) \in [DOMAIN retain(m, S) -> V]
BY DEF insert, retain

(* A file that was cut is of the kinds a file may be. *)
LEMMA CutFileType ==
    ASSUME NEW m, IsStore(m), NEW f \in CutFiles(m)
    PROVE  f.kind \in {"absent", "ok", "malformed"} /\ IsStore(f.map)
<1>1. \A S, x : x \in DOMAIN m => IsStore(retain(m, S)) /\ IsStore(insert(retain(m, S), x, 0))
  BY DEF IsStore, insert, retain
<1>2. IsStore(empty) /\ \A S : IsStore(retain(m, S))
  BY DEF IsStore, empty, retain
<1>. QED  BY <1>1, <1>2 DEF CutFiles

(* What a write leaves over another is of these kinds, too. *)
LEMMA OntoType ==
    ASSUME TypeOK, NEW new, new.kind \in {"absent", "ok", "malformed"}, IsStore(new.map),
           NEW f \in Onto(new)
    PROVE  f.kind \in {"absent", "ok", "malformed"} /\ IsStore(f.map)
<1>1. \A rest \in SUBSET DOMAIN file.map : IsStore(Followed(new.map, rest))
  BY DEF TypeOK, IsStore, Followed
<1>2. \/ f = new
      \/ \E k \in {new.kind, "malformed"}, rest \in SUBSET DOMAIN file.map :
            f = [kind |-> k, map |-> Followed(new.map, rest)]
  BY DEF Onto
<1>3. CASE f = new
  BY <1>3
<1>4. CASE \E k \in {new.kind, "malformed"}, rest \in SUBSET DOMAIN file.map :
              f = [kind |-> k, map |-> Followed(new.map, rest)]
  BY <1>1, <1>4
<1>. QED  BY <1>2, <1>3, <1>4

(* And so is what a write that was cut leaves. *)
LEMMA CutWriteType ==
    ASSUME TypeOK, NEW m, IsStore(m), NEW f \in CutWrites(m)
    PROVE  f.kind \in {"absent", "ok", "malformed"} /\ IsStore(f.map)
<1>1. PICK new \in CutFiles(m) : f \in Onto(new)
  BY DEF CutWrites
<1>. QED  BY <1>1, CutFileType, OntoType

(* The initial state satisfies the inductive invariant. *)
LEMMA InitIInv == Init => IInv
BY DEF Init, IInv, TypeOK, CallTimes, LastTimes, Kept, Down, Durable, IsStore, empty,
       Idle, IsPersist

(* Every step preserves the inductive invariant. *)
LEMMA NextIInv == IInv /\ [Next]_vars => IInv'
<1>. SUFFICES ASSUME IInv, [Next]_vars
              PROVE  IInv'
  OBVIOUS
<1>. USE TtlPositive, NonceAssumption
<1>. HIDE DEF ttl_secs
<1>1. ASSUME NEW t \in Threads, NEW x \in Nonces, NEW now \in Times, CheckBegin(t, x, now)
      PROVE  IInv'
  BY <1>1 DEF IInv, TypeOK, CallTimes, LastTimes, Kept, Down, Durable, CheckBegin, Enter,
              Times, history, Idle, CheckCall, IsPersist
<1>2. ASSUME NEW t \in Threads, CheckRejects(t)
      PROVE  IInv'
  BY <1>2 DEF IInv, TypeOK, CallTimes, LastTimes, Kept, Down, Durable, CheckRejects, Leave,
              history, Idle, IsPersist
<1>3. ASSUME NEW t \in Threads, CheckAccepts(t)
      PROVE  IInv'
  <2>. DEFINE x == call[t].nonce
              now == call[t].now
              a == accepted_again(x, now)
  <2>1. /\ x \in Nonces /\ now \in Nat /\ up
        /\ now <= clock /\ clock - now <= MaxSkew /\ clock \in Nat
    BY <1>3 DEF CheckAccepts, IInv, TypeOK, CallTimes, Down, CheckCall, CleanupCall, Idle,
                IsPersist
  <2>2. a \in Acceptance /\ a.at = now /\ a.real = clock
    BY <2>1 DEF accepted_again, Acceptance, IInv, TypeOK
  <2>3. inner' = insert(inner, x, now) /\ last' = insert(last, x, a)
        /\ call' = [call EXCEPT ![t] = Idle]
        /\ UNCHANGED <<total_check_calls, total_rejected_replay, clock, up, file, alone,
                       saved, crashes>>
    BY <1>3 DEF CheckAccepts, Leave
  <2>4. total_accepted' \in Nat /\ total_accepted_after_ttl' \in Nat
    BY <1>3 DEF CheckAccepts, count_acceptance, IInv, TypeOK
  <2>. HIDE DEF x, now, a
  <2>5. IsStore(inner') /\ DOMAIN last' \subseteq Nonces /\ last' \in [DOMAIN last' -> Acceptance]
    <3>1. IsStore(inner')
      BY <2>1, <2>3, MapOps DEF IsStore, IInv, TypeOK
    <3>2. DOMAIN last \subseteq Nonces /\ last \in [DOMAIN last -> Acceptance]
      BY DEF IInv, TypeOK
    <3>. QED  BY <2>1, <2>2, <2>3, <3>1, <3>2, MapOps
  <2>6. TypeOK'
    BY <2>3, <2>4, <2>5 DEF IInv, TypeOK, Idle
  <2>7. LastTimes'
    BY <2>1, <2>2, <2>3 DEF IInv, LastTimes, insert
  <2>8. Kept'
    BY <2>1, <2>2, <2>3 DEF IInv, Kept, insert
  <2>9. CallTimes' /\ Down' /\ Durable'
    <3>1. t \notin alone
      <4>1. call[t].op = "check"
        BY <1>3 DEF CheckAccepts
      <4>. QED  BY <4>1 DEF IInv, Durable, IsPersist
    <3>. QED
      BY <2>1, <2>3, <3>1 DEF IInv, TypeOK, CallTimes, Down, Durable, Idle, IsPersist
  <2>. QED  BY <2>6, <2>7, <2>8, <2>9 DEF IInv
<1>4. ASSUME NEW t \in Threads, NEW now \in Times, CleanupBegin(t, now)
      PROVE  IInv'
  BY <1>4 DEF IInv, TypeOK, CallTimes, LastTimes, Kept, Down, Durable, CleanupBegin, Enter,
              Times, history, counters, Idle, CleanupCall, IsPersist
<1>5. ASSUME NEW t \in Threads, CleanupLocked(t)
      PROVE  IInv'
  <2>1. /\ call[t].now \in Nat /\ call[t].now <= clock /\ clock \in Nat
    BY <1>5 DEF CleanupLocked, IInv, TypeOK, CallTimes, CheckCall, CleanupCall, Idle, IsPersist
  <2>2. IsStore(inner')
    BY <1>5 DEF CleanupLocked, IInv, TypeOK, IsStore, retain
  <2>3. Kept'
    BY <1>5, <2>1 DEF CleanupLocked, IInv, TypeOK, Kept, retain, unexpired, history, IsStore,
                      Acceptance
  <2>. QED
    BY <1>5, <2>2, <2>3 DEF CleanupLocked, Leave, IInv, TypeOK, CallTimes, LastTimes, Down,
                            Durable, counters, history, Idle, IsPersist
<1>6. ASSUME NEW t \in Persisters, PersistSnapshot(t)
      PROVE  IInv'
  BY <1>6 DEF IInv, TypeOK, CallTimes, LastTimes, Kept, Down, Durable, PersistSnapshot, Enter,
              history, counters, Idle, IsPersist
<1>7. ASSUME NEW t \in Persisters, PersistTruncate(t)
      PROVE  IInv'
  <2>1. IsStore(empty) /\ up /\ t \in Threads
    BY <1>7 DEF IsStore, empty, PersistTruncate, IInv, Down, Idle
  <2>2. TypeOK' /\ CallTimes' /\ LastTimes' /\ Kept' /\ Down'
    BY <1>7, <2>1 DEF IInv, TypeOK, CallTimes, LastTimes, Kept, Down, PersistTruncate,
              counters, Idle, IsPersist, CheckCall, CleanupCall, Blank
  <2>3. \A u \in alone : u = t
    BY <1>7, <2>1 DEF PersistTruncate, IInv, TypeOK, Durable, IsPersist
  <2>4. /\ file' = Blank /\ ~saved'.intact /\ alone' = alone
        /\ call' = [call EXCEPT ![t].op = "writing"]
    BY <1>7 DEF PersistTruncate, IInv, TypeOK
  <2>5. Durable'
    BY <2>1, <2>3, <2>4 DEF IInv, TypeOK, Durable, IsPersist
  <2>. QED  BY <2>2, <2>5 DEF IInv
<1>8. ASSUME NEW t \in Persisters, PersistReturns(t)
      PROVE  IInv'
  <2>1. IsStore(call[t].snap) /\ up /\ t \in Threads
    BY <1>8 DEF PersistReturns, IInv, TypeOK, Down, Idle, IsPersist, CheckCall, CleanupCall
  <2>2. file'.kind \in {"absent", "ok", "malformed"} /\ IsStore(file'.map)
    BY <1>8, <2>1, OntoType DEF PersistReturns, IInv
  <2>3. TypeOK' /\ CallTimes' /\ LastTimes' /\ Kept' /\ Down'
    BY <1>8, <2>1, <2>2 DEF IInv, TypeOK, CallTimes, LastTimes, Kept, Down,
              PersistReturns, Leave, counters, Idle, IsPersist
  <2>4. CASE t \in alone
    <3>1. file' = [kind |-> "ok", map |-> call[t].snap]
      <4>1. file = Blank
        BY <1>8, <2>4 DEF PersistReturns, IInv, Durable
      <4>. QED  BY <1>8, <4>1 DEF PersistReturns, Onto
    <3>2. \A p \in Threads : call'[p].op # "writing"
      BY <1>8, <2>1, <2>4 DEF PersistReturns, Leave, IInv, TypeOK, Durable, Idle, IsPersist
    <3>. QED  BY <1>8, <2>3, <3>1, <3>2 DEF PersistReturns, IInv, Durable
  <2>5. CASE t \notin alone
    BY <1>8, <2>3, <2>5 DEF PersistReturns, IInv, Durable
  <2>. QED  BY <2>4, <2>5
<1>9. ASSUME NEW t \in Persisters, PersistFails(t)
      PROVE  IInv'
  <2>1. /\ up /\ t \in Threads
        /\ call[t].op = "writing" => IsStore(call[t].snap)
    BY <1>9 DEF PersistFails, IInv, TypeOK, Down, Idle, IsPersist, CheckCall, CleanupCall
  <2>2. file'.kind \in {"absent", "ok", "malformed"} /\ IsStore(file'.map)
    <3>1. CASE call[t].op = "snapshot" /\ UNCHANGED file
      BY <3>1 DEF IInv, TypeOK
    <3>2. CASE call[t].op = "writing" /\ file' \in CutWrites(call[t].snap)
      BY <2>1, <3>2, CutWriteType DEF IInv
    <3>. QED  BY <1>9, <3>1, <3>2 DEF PersistFails
  <2>3. saved'.intact => file' = file
    BY <1>9, <2>1 DEF PersistFails, IInv, Durable
  <2>. QED
    BY <1>9, <2>1, <2>2, <2>3 DEF IInv, TypeOK, CallTimes, LastTimes, Kept, Down, Durable,
              PersistFails, Leave, counters, Idle, IsPersist
<1>10. ASSUME Crash
       PROVE  IInv'
  <2>1. \A t \in Threads : call[t].op = "writing" => IsStore(call[t].snap)
    BY DEF IInv, TypeOK, Idle, IsPersist, CheckCall, CleanupCall
  <2>2. file'.kind \in {"absent", "ok", "malformed"} /\ IsStore(file'.map)
    <3>1. CASE UNCHANGED file
      BY <3>1 DEF IInv, TypeOK
    <3>2. CASE \E t \in Threads : call[t].op = "writing" /\ file' \in CutWrites(call[t].snap)
      BY <2>1, <3>2, CutWriteType DEF IInv
    <3>. QED  BY <1>10, <3>1, <3>2 DEF Crash
  <2>3. saved'.intact => file' = file
    BY <1>10 DEF Crash, IInv, Durable
  <2>4. IsStore(empty)
    BY DEF IsStore, empty
  <2>5. TypeOK'
    <3>1. DOMAIN last \subseteq Nonces /\ last \in [DOMAIN last -> Acceptance]
      BY DEF IInv, TypeOK
    <3>2. DOMAIN last' \subseteq Nonces /\ last' \in [DOMAIN last' -> Acceptance]
      BY <1>10, <3>1 DEF Crash, retain
    <3>3. /\ IsStore(inner') /\ up' = FALSE /\ crashes' = crashes + 1 /\ alone' = {}
          /\ UNCHANGED <<total_check_calls, total_accepted, total_rejected_replay,
                         total_accepted_after_ttl, clock, saved>>
      BY <1>10, <2>4, Zenon DEF Crash, counters
    <3>4. DOMAIN call' = Threads /\ \A t \in Threads : call'[t] = Idle
      BY <1>10 DEF Crash
    <3>5. up' \in BOOLEAN /\ alone' \subseteq Threads
      BY <3>3, Zenon
    <3>6. crashes' \in Nat
      BY <3>3 DEF IInv, TypeOK
    <3>7. /\ total_check_calls' \in Nat /\ total_accepted' \in Nat
          /\ total_rejected_replay' \in Nat /\ total_accepted_after_ttl' \in Nat
          /\ clock' \in Nat /\ IsStore(saved'.map) /\ saved'.intact \in BOOLEAN
      BY <3>3, Zenon DEF IInv, TypeOK
    <3>. QED
      BY <2>2, <3>2, <3>3, <3>4, <3>5, <3>6, <3>7, Zenon DEF TypeOK
  <2>6. LastTimes' /\ Kept'
    BY <1>10 DEF Crash, IInv, LastTimes, Kept, retain
  <2>7. Down'
    BY <1>10 DEF Crash, Down, retain, remembered
  <2>8. CallTimes' /\ Durable'
    BY <1>10, <2>3 DEF Crash, IInv, CallTimes, Durable, Idle, IsPersist
  <2>. QED  BY <2>5, <2>6, <2>7, <2>8 DEF IInv
<1>11. ASSUME Restart
       PROVE  IInv'
  BY <1>11 DEF Restart, IInv, TypeOK, CallTimes, LastTimes, Kept, Down, Durable,
               fresh_counters, history
<1>12. ASSUME Tick
       PROVE  IInv'
  BY <1>12 DEF Tick, IInv, TypeOK, CallTimes, LastTimes, Kept, Down, Durable, counters,
               history, Acceptance, CheckCall, CleanupCall, Idle, IsPersist
<1>13. CASE UNCHANGED vars
  BY <1>13 DEF vars, IInv, TypeOK, CallTimes, LastTimes, Kept, Down, Durable, counters, history
<1>. QED
  BY <1>1, <1>2, <1>3, <1>4, <1>5, <1>6, <1>7, <1>8, <1>9, <1>10, <1>11, <1>12, <1>13 DEF Next

(* The types of the store, its counters, the pending calls and the file    *)
(* hold in every reachable state, crashes included.                        *)
THEOREM TypeCorrect == Spec => []TypeOK
<1>1. IInv => TypeOK
  BY DEF IInv
<1>. QED  BY <1>1, InitIInv, NextIInv, PTL DEF Spec

-----------------------------------------------------------------------------
(* One acceptance of a nonce that the history knows: it is in the map and  *)
(* the ttl has passed, or a cleanup dropped it and no caller is so late.   *)
LEMMA AcceptSpacing ==
    ASSUME IInv, NEW t \in Threads, CheckAccepts(t),
           NEW x \in DOMAIN last, last'[x].count # last[x].count
    PROVE  /\ last'[x].at - last[x].at >= ttl_secs - MaxSkew
           /\ last'[x].real - last[x].real >= ttl_secs - MaxSkew
<1>. USE TtlPositive, NonceAssumption
<1>. HIDE DEF ttl_secs
<1>1. x = call[t].nonce /\ last'[x].at = call[t].now /\ last'[x].real = clock
  BY DEF CheckAccepts, insert, accepted_again
<1>2. /\ call[t].now \in Nat /\ clock \in Nat /\ up
      /\ call[t].now <= clock /\ clock - call[t].now <= MaxSkew
  BY DEF CheckAccepts, IInv, TypeOK, CallTimes, Down, CheckCall, CleanupCall, Idle, IsPersist
<1>3. /\ last[x].at \in Nat /\ last[x].real \in Nat
      /\ last[x].at <= last[x].real /\ last[x].real - last[x].at <= MaxSkew
  BY DEF IInv, TypeOK, LastTimes, Acceptance
<1>4. CASE x \in DOMAIN inner /\ inner[x] = last[x].at
  <2>1. call[t].now - last[x].at >= ttl_secs
    BY <1>1, <1>2, <1>3, <1>4 DEF CheckAccepts, is_replay
  <2>. QED  BY <1>1, <1>2, <1>3, <2>1
<1>5. CASE last[x].at < clock - ttl_secs
  BY <1>1, <1>2, <1>3, <1>5
<1>. QED  BY <1>2, <1>4, <1>5 DEF IInv, Kept

(* A nonce is not accepted twice within the ttl less the skew, by the      *)
(* clocks of the callers of check_and_record and in real time: whatever    *)
(* the threads, cleanup_expired, persist_to, load_from and crashes do.     *)
THEOREM NoEarlyReplayHolds == Spec => NoEarlyReplay
<1>. DEFINE Spaced ==
        \A x \in DOMAIN last \cap DOMAIN last' :
          last'[x].count # last[x].count =>
             /\ last'[x].at - last[x].at >= ttl_secs - MaxSkew
             /\ last'[x].real - last[x].real >= ttl_secs - MaxSkew
<1>1. ASSUME IInv, [Next]_vars PROVE Spaced
  <2>1. ASSUME NEW t \in Threads, CheckAccepts(t) PROVE Spaced
    BY <1>1, <2>1, AcceptSpacing
  <2>2. ASSUME Crash PROVE Spaced
    BY <2>2 DEF Crash, retain
  <2>3. ASSUME UNCHANGED last PROVE Spaced
    BY <2>3
  <2>4. \/ \E t \in Threads : CheckAccepts(t)
        \/ Crash
        \/ UNCHANGED last
    BY <1>1 DEF Next, vars, history, CheckBegin, CheckRejects, CleanupBegin, CleanupLocked,
                PersistSnapshot, PersistTruncate, PersistReturns, PersistFails, Restart, Tick
  <2>. QED  BY <2>1, <2>2, <2>3, <2>4
<1>2. [][Spaced]_vars <=> NoEarlyReplay
  BY DEF NoEarlyReplay
<1>. QED  BY <1>1, <1>2, InitIInv, NextIInv, PTL DEF Spec

(* A nonce that check_and_record accepts again is counted in               *)
(* total_accepted only if it is older than the ttl: until then it is in    *)
(* the map, whatever cleanup_expired and restarts did.                     *)
THEOREM ReuseIsCountedHolds == Spec => ReuseIsCounted
<1>. DEFINE Counted ==
        \A x \in DOMAIN last \cap DOMAIN last' :
          last'[x].count # last[x].count /\ total_accepted' # total_accepted =>
             last[x].at < clock - ttl_secs
<1>1. ASSUME IInv, [Next]_vars PROVE Counted
  <2>1. ASSUME NEW t \in Threads, CheckAccepts(t) PROVE Counted
    <3>. SUFFICES ASSUME NEW x \in DOMAIN last, last'[x].count # last[x].count,
                         total_accepted' # total_accepted
                  PROVE  last[x].at < clock - ttl_secs
      OBVIOUS
    <3>1. x = call[t].nonce /\ x \notin DOMAIN inner
      BY <2>1 DEF CheckAccepts, insert, count_acceptance
    <3>2. up
      BY <1>1, <2>1 DEF CheckAccepts, IInv, Down, Idle
    <3>. QED  BY <1>1, <3>1, <3>2 DEF IInv, Kept
  <2>2. ASSUME Crash PROVE Counted
    BY <2>2 DEF Crash, retain
  <2>3. ASSUME UNCHANGED last PROVE Counted
    BY <2>3
  <2>4. \/ \E t \in Threads : CheckAccepts(t)
        \/ Crash
        \/ UNCHANGED last
    BY <1>1 DEF Next, vars, history, CheckBegin, CheckRejects, CleanupBegin, CleanupLocked,
                PersistSnapshot, PersistTruncate, PersistReturns, PersistFails, Restart, Tick
  <2>. QED  BY <2>1, <2>2, <2>3, <2>4
<1>2. [][Counted]_vars <=> ReuseIsCounted
  BY DEF ReuseIsCounted
<1>. QED  BY <1>1, <1>2, InitIInv, NextIInv, PTL DEF Spec

-----------------------------------------------------------------------------
(* There are finitely many checks in flight. *)
LEMMA InFlightFinite ==
    IsFiniteSet(InFlight) /\ Cardinality(InFlight) \in Nat
<1>1. IsFiniteSet(InFlight)
  BY NonceAssumption, FS_Subset DEF InFlight
<1>. QED  BY <1>1, FS_CardinalityType

(* Each step moves a check between the counters and the calls in flight. *)
LEMMA NextBalance == IInv /\ CountersBalance /\ [Next]_vars => CountersBalance'
<1>. SUFFICES ASSUME IInv, CountersBalance, [Next]_vars PROVE CountersBalance'
  OBVIOUS
<1>. USE InFlightFinite
<1>1. ASSUME NEW t \in Threads, NEW x \in Nonces, NEW now \in Times, CheckBegin(t, x, now)
      PROVE  CountersBalance'
  <2>1. t \notin InFlight /\ InFlight' = InFlight \cup {t}
    BY <1>1 DEF CheckBegin, Enter, InFlight, Idle, IInv, TypeOK
  <2>2. Cardinality(InFlight \cup {t}) = Cardinality(InFlight) + 1
    BY <2>1, FS_AddElement
  <2>. QED
    BY <1>1, <2>1, <2>2 DEF CheckBegin, Enter, CountersBalance, IInv, TypeOK
<1>2. ASSUME NEW t \in Threads, CheckRejects(t) \/ CheckAccepts(t)
      PROVE  CountersBalance'
  <2>1. t \in InFlight /\ InFlight' = InFlight \ {t}
    BY <1>2 DEF CheckRejects, CheckAccepts, Leave, InFlight, Idle, IInv, TypeOK
  <2>2. Cardinality(InFlight \ {t}) = Cardinality(InFlight) - 1
    BY <2>1, FS_RemoveElement
  <2>3. /\ total_accepted' + total_rejected_replay' + total_accepted_after_ttl'
              = total_accepted + total_rejected_replay + total_accepted_after_ttl + 1
        /\ total_check_calls' = total_check_calls /\ up' = up
    BY <1>2 DEF CheckRejects, CheckAccepts, count_acceptance, IInv, TypeOK
  <2>4. /\ total_accepted' \in Nat /\ total_rejected_replay' \in Nat
        /\ total_accepted_after_ttl' \in Nat
    BY <1>2 DEF CheckRejects, CheckAccepts, count_acceptance, IInv, TypeOK
  <2>. QED
    BY <2>1, <2>2, <2>3, <2>4 DEF CountersBalance, IInv, TypeOK
<1>3. ASSUME UNCHANGED <<counters, up>>, InFlight' = InFlight
      PROVE  CountersBalance'
  BY <1>3 DEF CountersBalance, counters
<1>4. ASSUME Crash PROVE CountersBalance'
  BY <1>4, Zenon DEF Crash, CountersBalance
<1>5. ASSUME Restart PROVE CountersBalance'
  <2>1. InFlight' = {}
    BY <1>5 DEF Restart, InFlight, IInv, Down, Idle
  <2>. QED
    BY <1>5, <2>1, FS_EmptySet DEF Restart, fresh_counters, CountersBalance
<1>6. ASSUME NEW t \in Threads, NEW now \in Times, CleanupBegin(t, now)
      PROVE  UNCHANGED <<counters, up>> /\ InFlight' = InFlight
  BY <1>6 DEF CleanupBegin, Enter, InFlight, Idle, IInv, TypeOK
<1>7. ASSUME NEW t \in Threads, CleanupLocked(t)
      PROVE  UNCHANGED <<counters, up>> /\ InFlight' = InFlight
  BY <1>7 DEF CleanupLocked, Leave, InFlight, Idle, IInv, TypeOK
<1>8. ASSUME NEW t \in Persisters,
             PersistSnapshot(t) \/ PersistTruncate(t) \/ PersistReturns(t) \/ PersistFails(t)
      PROVE  UNCHANGED <<counters, up>> /\ InFlight' = InFlight
  <2>1. t \in Threads
    BY NonceAssumption
  <2>2. UNCHANGED <<counters, up>>
    BY <1>8, Zenon DEF PersistSnapshot, PersistTruncate, PersistReturns, PersistFails
  <2>3. DOMAIN call = Threads
    BY DEF IInv, TypeOK
  <2>4. ASSUME PersistSnapshot(t) PROVE InFlight' = InFlight
    BY <2>1, <2>3, <2>4 DEF PersistSnapshot, Enter, InFlight, Idle
  <2>5. ASSUME PersistTruncate(t) PROVE InFlight' = InFlight
    BY <2>1, <2>3, <2>5 DEF PersistTruncate, InFlight, IInv, TypeOK, Idle, CheckCall,
                            CleanupCall, IsPersist
  <2>6. ASSUME PersistReturns(t) \/ PersistFails(t) PROVE InFlight' = InFlight
    BY <2>1, <2>3, <2>6 DEF PersistReturns, PersistFails, Leave, InFlight, Idle
  <2>. QED
    BY <1>8, <2>2, <2>4, <2>5, <2>6
<1>9. ASSUME Tick \/ UNCHANGED vars
      PROVE  UNCHANGED <<counters, up>> /\ InFlight' = InFlight
  BY <1>9 DEF Tick, vars, InFlight
<1>. QED
  BY <1>1, <1>2, <1>3, <1>4, <1>5, <1>6, <1>7, <1>8, <1>9 DEF Next

(* Every check_and_record that total_check_calls counted since the process *)
(* started is in one outcome counter, or still before its critical         *)
(* section.                                                                *)
THEOREM CountersBalanceHolds == Spec => []CountersBalance
<1>1. Init => CountersBalance
  <2>. SUFFICES ASSUME Init PROVE CountersBalance
    OBVIOUS
  <2>1. InFlight = {}
    BY DEF Init, InFlight, Idle
  <2>. QED
    BY <2>1, FS_EmptySet DEF Init, CountersBalance
<1>. QED
  BY <1>1, NextBalance, InitIInv, NextIInv, PTL DEF Spec

=============================================================================
