----------------------------- MODULE FileProofs -----------------------------
(***************************************************************************)
(* What the program reads and writes in the file system.                   *)
(*                                                                         *)
(* First part: the trust store for any nodes, names, rates, threads and    *)
(* bounds, across overlapping and failing saves, crashes and reloads.      *)
(*                                                                         *)
(* Second part: the sync plane for any tree, predicate, times and bounds,  *)
(* with other programs that change the tree between any two steps of a     *)
(* walk, and with rounds of replay that stop anywhere.                     *)
(***************************************************************************)
EXTENDS TrustStore, Sync, TLAPS

(* Zenon finds the steps of logic and sets; a step about numbers, records  *)
(* or tuples names SMT.                                                    *)
USE Zenon

(* A save that runs alone: nobody else saves, and nothing is in the file   *)
(* that it has truncated.                                                  *)
Alone ==
    \A s \in alone : /\ saver[s].at # "idle"
                     /\ saver[s].at = "writing" => file = Blank
                     /\ \A t \in Savers \ {s} : saver[t].at = "idle"

(* What a save wrote that ran alone is in the file until the next one      *)
(* truncates it.                                                           *)
Durable ==
    /\ saved.intact => file = Lines(saved.entries)
    /\ \A s \in Savers : saver[s].at = "writing" => ~saved.intact

(* Without a process there is no registry in memory, no save, and no       *)
(* removal that is not in the file.                                        *)
Down ==
    ~up => /\ inner = empty
           /\ \A s \in Savers : saver[s] = Idle
           /\ \A n \in Nodes : revoked[n] \in {"no", "file"}

(* A removal that has not been undone keeps the node out of the registry;  *)
(* out of the snapshot of the save that took it along; and, once saved, of *)
(* the file and of every snapshot.                                         *)
Removals ==
    \A n \in Nodes :
        /\ revoked[n] # "no" => n \notin DOMAIN inner
        /\ revoked[n] = "snapshot" =>
              \A s \in Savers : s \in alone => n \notin DOMAIN saver[s].entries
        /\ revoked[n] = "file" =>
              /\ n \notin DOMAIN file.entries
              /\ \A s \in Savers : n \notin DOMAIN saver[s].entries

Resting == \A s \in Savers : saver[s].at = "idle" => saver[s] = Idle

IInv == TypeOK /\ Alone /\ Durable /\ Down /\ Resting /\ Removals

-----------------------------------------------------------------------------
IsFile(f) == f.kind \in {"absent", "ok", "odd", "malformed"} /\ IsRegistry(f.entries)

(* The maps that the operations build are registries. *)
LEMMA Registries ==
    /\ IsRegistry(empty)
    /\ \A m, S : IsRegistry(m) => IsRegistry(retain(m, S))
    /\ \A m, n, e : IsRegistry(m) /\ n \in Nodes /\ e \in TrustEntry => IsRegistry(insert(m, n, e))
BY DEF IsRegistry, empty, retain, insert

(* What the lines of a registry are as a file. *)
LEMMA LinesFacts ==
    ASSUME NEW m, IsRegistry(m)
    PROVE  IsFile(Lines(m)) /\ Lines(m).entries = m /\ (~Broken(m) => Lines(m).kind = "ok")
BY DEF Lines, IsFile

(* A write over another leaves nodes of the two. *)
LEMMA OntoFile ==
    ASSUME TypeOK, NEW new, IsFile(new), NEW f \in Onto(new)
    PROVE  /\ IsFile(f)
           /\ DOMAIN f.entries \subseteq DOMAIN new.entries \cup DOMAIN file.entries
<1>1. ASSUME NEW rest \in SUBSET DOMAIN file.entries
      PROVE  /\ IsRegistry(Followed(new.entries, rest))
             /\ DOMAIN Followed(new.entries, rest)
                    \subseteq DOMAIN new.entries \cup DOMAIN file.entries
  BY <1>1 DEF TypeOK, IsFile, IsRegistry, Followed
<1>2. \/ f = new
      \/ \E k \in {new.kind, "malformed", "odd"}, rest \in SUBSET DOMAIN file.entries :
            f = [kind |-> k, entries |-> Followed(new.entries, rest)]
  BY SMT DEF Onto
<1>3. CASE f = new
  BY <1>3
<1>4. CASE \E k \in {new.kind, "malformed", "odd"}, rest \in SUBSET DOMAIN file.entries :
              f = [kind |-> k, entries |-> Followed(new.entries, rest)]
  BY <1>1, <1>4, SMT DEF IsFile
<1>. QED  BY <1>2, <1>3, <1>4

(* So does a write that is cut. *)
LEMMA CutFile ==
    ASSUME TypeOK, NEW m, IsRegistry(m), NEW f \in CutFiles(m)
    PROVE  /\ IsFile(f)
           /\ DOMAIN f.entries \subseteq DOMAIN m \cup DOMAIN file.entries
<1>. DEFINE before(k) == retain(m, {n \in DOMAIN m : n < k})
<1>1. PICK new : /\ f \in Onto(new)
                 /\ \/ new = Lines(m)
                    \/ \E k \in DOMAIN m : \/ new = Lines(before(k))
                                          \/ new = [kind |-> "malformed", entries |-> before(k)]
                                          \/ new = [kind |-> "odd", entries |-> before(k)]
  BY DEF CutFiles
<1>2. IsFile(new) /\ DOMAIN new.entries \subseteq DOMAIN m
  <2>1. \A k : IsRegistry(before(k)) /\ DOMAIN before(k) \subseteq DOMAIN m
    BY Registries DEF retain
  <2>. HIDE DEF before
  <2>2. CASE new = Lines(m) \/ \E k : new = Lines(before(k))
    BY <2>1, <2>2, LinesFacts
  <2>3. ASSUME NEW k, new = [kind |-> "malformed", entries |-> before(k)]
                      \/ new = [kind |-> "odd", entries |-> before(k)]
        PROVE  IsFile(new) /\ DOMAIN new.entries \subseteq DOMAIN m
    <3>1. new.kind \in {"odd", "malformed"} /\ new.entries = before(k)
      BY <2>3, SMT
    <3>. QED  BY <2>1, <3>1 DEF IsFile
  <2>. QED  BY <1>1, <2>2, <2>3
<1>. QED  BY <1>1, <1>2, OntoFile

(* The initial state satisfies the inductive invariant. *)
LEMMA InitIInv == Init => IInv
BY Registries, SMT DEF Init, IInv, TypeOK, Alone, Durable, Down, Resting, Removals, Idle, Revocation, empty

(* The operator's edits preserve the inductive invariant. *)
LEMMA EditIInv ==
    ASSUME IInv, NEW n \in Nodes,
           \/ \E name \in Names, r \in Rates : Add(n, name, r)
           \/ Remove(n)
    PROVE  IInv'
<1>1. ASSUME NEW name \in Names, NEW r \in Rates, Add(n, name, r)
      PROVE  IInv'
  <2>1. [display_name |-> name, rate_limit_per_min |-> r] \in TrustEntry
    BY TrustAssumption DEF TrustEntry
  <2>2. IsRegistry(inner')
    BY <1>1, <2>1, Registries DEF Add, IInv, TypeOK
  <2>3. /\ revoked' = [revoked EXCEPT ![n] = "no"]
        /\ DOMAIN inner' = DOMAIN inner \cup {n}
        /\ up /\ edits' = edits + 1
        /\ UNCHANGED <<saver, file, up, alone, saved, saves, crashes>>
    BY <1>1 DEF Add, Edit, insert
  <2>4. TypeOK'
    BY <2>2, <2>3, SMT DEF IInv, TypeOK, Revocation
  <2>5. Removals'
    BY <2>3 DEF IInv, TypeOK, Removals
  <2>. QED  BY <2>3, <2>4, <2>5 DEF IInv, Alone, Durable, Down, Resting
<1>2. ASSUME Remove(n)
      PROVE  IInv'
  <2>1. IsRegistry(inner')
    BY <1>2, Registries DEF Remove, IInv, TypeOK
  <2>2. /\ revoked' = [revoked EXCEPT ![n] = IF @ = "no" THEN "memory" ELSE @]
        /\ DOMAIN inner' = DOMAIN inner \ {n}
        /\ up /\ edits' = edits + 1
        /\ UNCHANGED <<saver, file, up, alone, saved, saves, crashes>>
    BY <1>2 DEF Remove, Edit, retain, IInv, TypeOK, IsRegistry
  <2>3. TypeOK'
    BY <2>1, <2>2, SMT DEF IInv, TypeOK, Revocation
  <2>4. Removals'
    BY <2>2 DEF IInv, TypeOK, Removals
  <2>. QED  BY <2>2, <2>3, <2>4 DEF IInv, Alone, Durable, Down, Resting
<1>. QED  BY <1>1, <1>2

(* The steps of save preserve the inductive invariant: the snapshot. *)
LEMMA SnapshotIInv ==
    ASSUME IInv, NEW s \in Savers, SaveSnapshot(s)
    PROVE  IInv'
<1>1. /\ up /\ saver[s] = Idle
      /\ saver' = [saver EXCEPT ![s] = [at |-> "snapshot", entries |-> inner]]
      /\ saves' = saves + 1
      /\ UNCHANGED <<inner, file, up, saved, edits, crashes>>
  BY DEF SaveSnapshot, snapshot, IInv, Resting
<1>2. CASE Others(s) = {}
  <2>1. alone' = {s} /\ \A t \in Savers \ {s} : saver[t].at = "idle"
    BY <1>2 DEF SaveSnapshot, Others
  <2>2. /\ revoked' \in [Nodes -> Revocation]
        /\ \A n \in Nodes : revoked'[n] = IF revoked[n] = "memory" THEN "snapshot" ELSE revoked[n]
    BY <1>2 DEF SaveSnapshot, Revocations, Revocation, IInv, TypeOK
  <2>3. TypeOK'
    BY <1>1, <2>1, <2>2, SMT DEF IInv, TypeOK
  <2>4. Alone' /\ Durable' /\ Down' /\ Resting'
    BY <1>1, <2>1 DEF IInv, TypeOK, Alone, Durable, Down, Resting
  <2>5. Removals'
    BY <1>1, <2>1, <2>2 DEF IInv, TypeOK, Removals
  <2>. QED  BY <2>3, <2>4, <2>5 DEF IInv
<1>3. CASE Others(s) # {}
  <2>1. alone' = {}
    BY <1>3 DEF SaveSnapshot
  <2>2. /\ revoked' \in [Nodes -> Revocation]
        /\ \A n \in Nodes : revoked'[n] = IF revoked[n] = "snapshot" THEN "memory" ELSE revoked[n]
    BY <1>3 DEF SaveSnapshot, Revocations, Revocation, IInv, TypeOK
  <2>3. TypeOK'
    BY <1>1, <2>1, <2>2, SMT DEF IInv, TypeOK
  <2>4. Alone' /\ Durable' /\ Down' /\ Resting'
    BY <1>1, <2>1 DEF IInv, TypeOK, Alone, Durable, Down, Resting
  <2>5. Removals'
    BY <1>1, <2>1, <2>2 DEF IInv, TypeOK, Removals
  <2>. QED  BY <2>3, <2>4, <2>5 DEF IInv
<1>. QED  BY <1>2, <1>3

(* The truncation of the file. *)
LEMMA TruncateIInv ==
    ASSUME IInv, NEW s \in Savers, SaveTruncate(s)
    PROVE  IInv'
<1>1. /\ up /\ saver[s].at = "snapshot"
      /\ saver' = [saver EXCEPT ![s].at = "writing"]
      /\ file' = Blank /\ ~saved'.intact
      /\ saved'.intact \in BOOLEAN /\ saved'.entries = saved.entries
      /\ UNCHANGED <<inner, up, alone, revoked, edits, saves, crashes>>
  BY SMT DEF SaveTruncate, bounds, IInv, TypeOK, Down, Idle
<1>2. TypeOK'
  <2>1. IsFile(file')
    BY <1>1, Registries, LinesFacts DEF Blank
  <2>2. \A t \in Savers : /\ saver'[t].at \in {"idle", "snapshot", "writing"}
                          /\ IsRegistry(saver'[t].entries)
    BY <1>1, SMT DEF IInv, TypeOK
  <2>. QED  BY <1>1, <2>1, <2>2 DEF IInv, TypeOK, IsFile
<1>3. \A t \in alone : t = s
  BY <1>1 DEF IInv, TypeOK, Alone
<1>4. Alone' /\ Durable' /\ Down' /\ Resting'
  BY <1>1, <1>3, SMT DEF IInv, TypeOK, Alone, Durable, Down, Resting
<1>5. Removals'
  BY <1>1, SMT DEF IInv, TypeOK, Removals, Blank, Lines, empty
<1>. QED  BY <1>2, <1>4, <1>5 DEF IInv

(* The write, when it succeeds. *)
LEMMA ReturnsIInv ==
    ASSUME IInv, NEW s \in Savers, SaveReturns(s)
    PROVE  IInv'
<1>. DEFINE new == Lines(saver[s].entries)
<1>1. /\ up /\ saver[s].at = "writing"
      /\ saver' = [saver EXCEPT ![s] = Idle]
      /\ file' \in Onto(new)
      /\ saved' = [entries |-> saver[s].entries, intact |-> s \in alone]
      /\ alone' = {}
      /\ UNCHANGED <<inner, up, edits, saves, crashes>>
  BY SMT DEF SaveReturns, body, bounds, IInv, TypeOK, Down, Idle
<1>2. IsFile(new) /\ new.entries = saver[s].entries
  BY LinesFacts DEF IInv, TypeOK
<1>. HIDE DEF new
<1>3. /\ IsFile(file')
      /\ DOMAIN file'.entries \subseteq DOMAIN saver[s].entries \cup DOMAIN file.entries
  BY <1>1, <1>2, OntoFile, SMT DEF IInv
<1>4. IsRegistry(saved'.entries) /\ saved'.intact \in BOOLEAN
  BY <1>1, SMT DEF IInv, TypeOK
<1>5. revoked' \in [Nodes -> Revocation]
  BY DEF SaveReturns, Revocations, Revocation, IInv, TypeOK
<1>6. TypeOK'
  <2>1. \A t \in Savers : /\ saver'[t].at \in {"idle", "snapshot", "writing"}
                          /\ IsRegistry(saver'[t].entries)
    BY <1>1, Registries DEF IInv, TypeOK, Idle
  <2>. QED  BY <1>1, <1>3, <1>4, <1>5, <2>1 DEF IInv, TypeOK, IsFile
<1>7. Down' /\ Resting' /\ Alone'
  BY <1>1 DEF IInv, TypeOK, Down, Resting, Alone
<1>8. CASE s \in alone
  <2>1. file = Blank /\ \A t \in Savers \ {s} : saver[t].at = "idle" /\ saver[t] = Idle
    BY <1>1, <1>8 DEF IInv, Alone, Resting
  <2>2. file' = new
    BY <1>1, <2>1, SMT DEF Onto
  <2>3. \A t \in Savers : saver'[t] = Idle
    BY <1>1, <2>1 DEF IInv, TypeOK
  <2>4. Durable'
    BY <1>1, <2>2, <2>3, SMT DEF Durable, Idle, new
  <2>5. \A n \in Nodes : revoked'[n] = IF revoked[n] = "snapshot" THEN "file" ELSE revoked[n]
    BY <1>8 DEF SaveReturns, Revocations
  <2>6. Removals'
    BY <1>1, <1>2, <1>8, <2>2, <2>3, <2>5, SMT DEF IInv, Removals, Idle, empty
  <2>. QED  BY <1>6, <1>7, <2>4, <2>6 DEF IInv
<1>9. CASE s \notin alone
  <2>1. alone = {}
    BY <1>1, <1>9, SMT DEF IInv, TypeOK, Alone
  <2>2. Durable'
    BY <1>1, <1>9 DEF Durable
  <2>3. revoked' = revoked
    BY <1>9 DEF SaveReturns
  <2>4. Removals'
    BY <1>1, <1>3, <2>3 DEF IInv, TypeOK, Removals, Idle, empty
  <2>. QED  BY <1>6, <1>7, <2>2, <2>4 DEF IInv
<1>. QED  BY <1>8, <1>9

(* The truncation or the write, when it fails. *)
LEMMA FailsIInv ==
    ASSUME IInv, NEW s \in Savers, SaveFails(s)
    PROVE  IInv'
<1>1. /\ up /\ saver[s].at # "idle"
      /\ saver' = [saver EXCEPT ![s] = Idle]
      /\ alone' = {}
      /\ UNCHANGED <<inner, up, saved, edits, saves, crashes>>
  BY SMT DEF SaveFails, bounds, IInv, TypeOK, Down, Idle
<1>2. /\ IsFile(file')
      /\ DOMAIN file'.entries \subseteq DOMAIN saver[s].entries \cup DOMAIN file.entries
      /\ saved.intact => file' = file
  <2>1. CASE saver[s].at = "snapshot" /\ UNCHANGED file
    BY <2>1 DEF IInv, TypeOK, IsFile
  <2>2. CASE saver[s].at = "writing" /\ file' \in CutFiles(saver[s].entries)
    BY <2>2, CutFile DEF IInv, TypeOK, Durable
  <2>. QED  BY <2>1, <2>2 DEF SaveFails, body
<1>3. /\ revoked' \in [Nodes -> Revocation]
      /\ \A n \in Nodes : revoked'[n] = IF revoked[n] = "snapshot" THEN "memory" ELSE revoked[n]
  BY DEF SaveFails, Revocations, Revocation, IInv, TypeOK
<1>4. TypeOK'
  <2>1. \A t \in Savers : /\ saver'[t].at \in {"idle", "snapshot", "writing"}
                          /\ IsRegistry(saver'[t].entries)
    BY <1>1, Registries DEF IInv, TypeOK, Idle
  <2>. QED  BY <1>1, <1>2, <1>3, <2>1 DEF IInv, TypeOK, IsFile
<1>5. Alone' /\ Durable' /\ Down' /\ Resting'
  BY <1>1, <1>2 DEF IInv, TypeOK, Alone, Durable, Down, Resting, Idle
<1>6. Removals'
  BY <1>1, <1>2, <1>3 DEF IInv, TypeOK, Removals, Idle, empty
<1>. QED  BY <1>4, <1>5, <1>6 DEF IInv

(* A crash preserves the inductive invariant. *)
LEMMA CrashIInv == IInv /\ Crash => IInv'
<1>. SUFFICES ASSUME IInv, Crash PROVE IInv'
  OBVIOUS
<1>1. /\ up' = FALSE /\ inner' = empty /\ alone' = {} /\ crashes' = crashes + 1
      /\ saver' = [s \in Savers |-> Idle]
      /\ revoked' = [n \in Nodes |-> IF revoked[n] = "file" THEN "file" ELSE "no"]
      /\ UNCHANGED <<saved, edits, saves>>
  BY DEF Crash
<1>2. /\ IsFile(file')
      /\ saved.intact => file' = file
      /\ \A n \in Nodes : revoked[n] = "file" => n \notin DOMAIN file'.entries
  <2>1. CASE UNCHANGED file
    BY <2>1 DEF IInv, TypeOK, IsFile, Removals
  <2>2. CASE \E s \in Savers : saver[s].at = "writing" /\ file' \in CutFiles(saver[s].entries)
    <3>1. PICK s \in Savers : saver[s].at = "writing" /\ file' \in CutFiles(saver[s].entries)
      BY <2>2
    <3>2. /\ IsFile(file')
          /\ DOMAIN file'.entries \subseteq DOMAIN saver[s].entries \cup DOMAIN file.entries
      BY <3>1, CutFile DEF IInv, TypeOK
    <3>. QED  BY <3>1, <3>2 DEF IInv, Durable, Removals
  <2>. QED  BY <2>1, <2>2 DEF Crash, body
<1>3. TypeOK'
  <2>1. /\ DOMAIN saver' = Savers
        /\ \A s \in Savers : /\ saver'[s].at \in {"idle", "snapshot", "writing"}
                             /\ IsRegistry(saver'[s].entries)
    BY <1>1, Registries DEF Idle
  <2>2. up' \in BOOLEAN
    BY <1>1
  <2>3. IsRegistry(inner') /\ revoked' \in [Nodes -> Revocation] /\ crashes' \in Nat
    BY <1>1, Registries, SMT DEF IInv, TypeOK, Revocation
  <2>. QED  BY <1>1, <1>2, <2>1, <2>2, <2>3 DEF IInv, TypeOK, IsFile
<1>4. Alone' /\ Durable' /\ Down' /\ Resting'
  <2>1. \A s \in Savers : saver'[s] = Idle /\ saver'[s].at # "writing"
    BY <1>1 DEF Idle
  <2>2. Alone' /\ Down' /\ Resting'
    BY <1>1, <2>1 DEF Alone, Down, Resting
  <2>. QED  BY <1>1, <1>2, <2>1, <2>2 DEF IInv, Durable
<1>5. Removals'
  BY <1>1, <1>2 DEF Removals, Idle, empty
<1>. QED  BY <1>3, <1>4, <1>5 DEF IInv

(* load_from_path preserves the inductive invariant. *)
LEMMA LoadIInv == IInv /\ Load => IInv'
<1>. SUFFICES ASSUME IInv, Load PROVE IInv'
  OBVIOUS
<1>1. /\ ~up /\ up' = TRUE /\ inner' \in parse
      /\ revoked' = [n \in Nodes |->
            IF n \in DOMAIN inner' \ DOMAIN file.entries THEN "no" ELSE revoked[n]]
      /\ UNCHANGED <<saver, file, alone, saved, edits, saves, crashes>>
  BY DEF Load, bounds
<1>2. IsRegistry(inner')
  <2>1. CASE file.kind = "malformed"
    BY <1>1, <2>1 DEF parse
  <2>2. CASE file.kind = "odd"
    <3>1. Rates \cup {0} \subseteq Nat
      BY TrustAssumption, SMT
    <3>2. [display_name : {"plain"}, rate_limit_per_min : Rates \cup {0}] \subseteq TrustEntry
      BY <3>1 DEF TrustEntry
    <3>3. \E S \in SUBSET Nodes :
             inner' \in [S -> [display_name : {"plain"}, rate_limit_per_min : Rates \cup {0}]]
      BY <1>1, <2>2 DEF parse
    <3>. QED  BY <3>2, <3>3 DEF IsRegistry
  <2>3. CASE file.kind \notin {"malformed", "odd"}
    <3>1. IsRegistry(file.entries)
      BY DEF IInv, TypeOK
    <3>2. ASSUME NEW n \in DOMAIN file.entries
          PROVE  [display_name       |-> trim(file.entries[n].display_name),
                  rate_limit_per_min |-> file.entries[n].rate_limit_per_min] \in TrustEntry
      BY <3>1 DEF IsRegistry, TrustEntry, trim
    <3>3. inner' = [n \in DOMAIN file.entries |->
                      [display_name       |-> trim(file.entries[n].display_name),
                       rate_limit_per_min |-> file.entries[n].rate_limit_per_min]]
      BY <1>1, <2>3 DEF parse
    <3>. QED  BY <3>1, <3>2, <3>3 DEF IsRegistry
  <2>. QED  BY <2>1, <2>2, <2>3
<1>3. TypeOK' /\ Removals'
  <2>1. up' \in BOOLEAN
    BY <1>1
  <2>2. revoked' \in [Nodes -> Revocation]
    BY <1>1 DEF IInv, TypeOK, Revocation
  <2>3. TypeOK'
    BY <1>1, <1>2, <2>1, <2>2 DEF IInv, TypeOK
  <2>4. Removals'
    BY <1>1 DEF IInv, TypeOK, Removals, Down, Idle
  <2>. QED  BY <2>3, <2>4
<1>. QED  BY <1>1, <1>3 DEF IInv, Alone, Durable, Down, Resting

(* Every step preserves the inductive invariant. *)
LEMMA NextIInv == IInv /\ [Next]_vars => IInv'
<1>. SUFFICES ASSUME IInv, [Next]_vars PROVE IInv'
  OBVIOUS
<1>1. CASE UNCHANGED vars
  BY <1>1 DEF vars, history, bounds, IInv, TypeOK, Alone, Durable, Down, Resting, Removals
<1>2. CASE Next
  BY <1>2, EditIInv, SnapshotIInv, TruncateIInv, ReturnsIInv, FailsIInv, CrashIInv, LoadIInv
     DEF Next
<1>. QED  BY <1>1, <1>2

-----------------------------------------------------------------------------
(* The registry, the snapshots of the savers and the file have their types *)
(* in every reachable state.                                               *)
THEOREM TypeCorrect == Spec => []TypeOK
<1>1. IInv => TypeOK
  BY DEF IInv
<1>. QED  BY <1>1, InitIInv, NextIInv, PTL DEF Spec

(* A removal that was in a save that ran alone is never undone by later    *)
(* saves of any threads, by their failures or by crashes: only add brings  *)
(* the node back, or a load that reads it out of a broken display name.    *)
THEOREM RevokedStaysOutHolds == Spec => []RevokedStaysOut
<1>1. IInv => RevokedStaysOut
  BY DEF IInv, TypeOK, Removals, RevokedStaysOut
<1>. QED  BY <1>1, InitIInv, NextIInv, PTL DEF Spec

(* A save that ran alone leaves a file that load_from_path takes, whatever *)
(* was in the file before, if the names have no colon or line break.       *)
THEOREM SavedLoadsHolds == Spec => []SavedLoads
<1>1. IInv => SavedLoads
  BY LinesFacts DEF IInv, TypeOK, Durable, SavedLoads
<1>. QED  BY <1>1, InitIInv, NextIInv, PTL DEF Spec

(* load_from_path brings back the nodes and the rates of the last save, if *)
(* that ran alone, none has begun to write since, and no display name in   *)
(* it has a colon or a line break.                                         *)
THEOREM SavedComesBackHolds == Spec => SavedComesBack
<1>. DEFINE ComesBack ==
        ~up /\ up' /\ saved.intact /\ ~Broken(saved.entries) =>
          /\ DOMAIN inner' = DOMAIN saved.entries
          /\ \A n \in DOMAIN inner' :
                inner'[n].rate_limit_per_min = saved.entries[n].rate_limit_per_min
<1>1. ASSUME IInv, [Next]_vars PROVE ComesBack
  <2>1. CASE Load
    <3>1. SUFFICES ASSUME saved.intact, ~Broken(saved.entries) PROVE ComesBack
      OBVIOUS
    <3>2. file.kind = "ok" /\ file.entries = saved.entries
      BY <1>1, <3>1, LinesFacts DEF IInv, TypeOK, Durable
    <3>3. inner' = [n \in DOMAIN saved.entries |->
                      [display_name       |-> trim(saved.entries[n].display_name),
                       rate_limit_per_min |-> saved.entries[n].rate_limit_per_min]]
      BY <2>1, <3>2 DEF Load, parse
    <3>. QED  BY <3>3
  <2>2. CASE UNCHANGED up \/ up
    BY <2>2
  <2>3. Load \/ UNCHANGED up \/ up
    BY <1>1 DEF Next, vars, Add, Remove, Edit, SaveSnapshot, SaveTruncate, SaveReturns, SaveFails,
                Crash
  <2>. QED  BY <2>1, <2>2, <2>3
<1>2. [][ComesBack]_vars <=> SavedComesBack
  BY DEF SavedComesBack
<1>. QED  BY <1>1, <1>2, InitIInv, NextIInv, PTL DEF Spec

-----------------------------------------------------------------------------
(* Second part: the sync plane.                                            *)

(* What a walk collects, and the files of the other host. *)
Listings == UNION {[D -> Metadata] : D \in SUBSET Keep}
Copies   == UNION {[D -> [size : Nat, mtime : Int, mode : {0, 1}]] : D \in SUBSET Keep}

Walk   == [at : {"idle", "enumerate", "stat", "done", "failed"}, open : SUBSET (Paths \cup {Root}),
           look : SUBSET Paths, entries : SUBSET Keep, collected : Listings]
Replay == [at : {"idle", "running", "done"}, snap : Nat \ {0}, todo : SUBSET Keep,
           written : SUBSET Keep]

Running == walk.at \in {"enumerate", "stat"}

SyncShapes ==
    /\ IsTree(fs) /\ clock \in Int
    /\ walk \in Walk /\ snaps \in Seq(Listings)
    /\ copy \in Copies /\ replay \in Replay /\ replay.written \subseteq replay.todo
    /\ touched \subseteq moved /\ moved \subseteq Paths
    /\ walks \in 0 .. MaxWalks /\ rounds \in Nat
    /\ Len(snaps) + (IF Running THEN 1 ELSE 0) <= walks

(* A file that walk_dir_with has to return. *)
Kept(p) == p \in Keep /\ fs[p] # Absent /\ ~IsDir(fs[p])

(* No path of H has a say in the metadata of p. *)
Apart(H, p) ==
    fs[p].kind = "link" => ({fs[p].to} \cup Children(fs[p].to)) \cap H = {}

(* As far as only the paths in H have changed, a listing has files to      *)
(* return, with the metadata they have; and all of them.                   *)
Faithful(H, m) ==
    \A p \in DOMAIN m : p \notin H => Kept(p) /\ (Apart(H, p) => m[p] = Resolve(p))
Full(H, m) ==
    \A p \in Paths : p \notin H /\ Kept(p) => p \in DOMAIN m

(* A file that nobody touched is in the list, or was found, or one of the  *)
(* directories above it is still to be opened.                             *)
Pending ==
    walk.at \in {"enumerate", "stat", "done"} =>
        \A p \in Paths : p \notin touched /\ Kept(p) =>
            \/ p \in walk.look \cup walk.entries \cup DOMAIN walk.collected
            \/ Above(p) \cap (walk.open \cup walk.look) # {}

(* What a walk has found is so unless it was touched, and each phase has   *)
(* used up what the one before it found.                                   *)
Found ==
    /\ Faithful(touched, walk.collected)
    /\ \A p \in walk.entries : p \notin touched => Kept(p)
    /\ touched = {} => \A d \in walk.open : IsDir(fs[d])
    /\ walk.at \in {"stat", "done"} => walk.open = {} /\ walk.look = {}
    /\ walk.at = "done" => walk.entries = {}

Recorded == \A i \in 1 .. Len(snaps) : Faithful(moved, snaps[i]) /\ Full(moved, snaps[i])

(* p on the other host is as the walk has it, but for an unknown time. *)
SameButTime(p) == copy[p].size = Target[p].size /\ copy[p].mode = Target[p].mode
Agrees(p) ==
    /\ p \in DOMAIN copy <=> p \in DOMAIN Target
    /\ p \in DOMAIN copy =>
          /\ SameButTime(p)
          /\ is_known(Target[p].mtime) => from_system_time(copy[p].mtime) = Target[p].mtime

(* What a round has not to do, or has done, is right. *)
Replayed ==
    /\ replay.at # "running" => replay.todo = {}
    /\ replay.at # "idle" =>
          /\ replay.snap <= Len(snaps)
          /\ \A p \in Keep \ replay.todo : Agrees(p)
          /\ \A p \in replay.written :
                p \in DOMAIN copy /\ p \in DOMAIN Target /\ SameButTime(p)

SyncIInv == SyncShapes /\ Pending /\ Found /\ FailuresHaveCause /\ Recorded /\ Replayed

-----------------------------------------------------------------------------
(* The directories above a path: its parent, their parents, the root; and  *)
(* each of them but the parent has another one in it.                      *)
LEMMA AboveFacts ==
    ASSUME NEW p \in Paths
    PROVE  /\ Parent[p] \in Above(p) /\ Root \in Above(p)
           /\ \A d \in Above(p) :
                 d = Parent[p] \/ \E q \in Paths : q \in Above(p) /\ Parent[q] = d
<1>. DEFINE All == Paths \cup {Root}
<1>1. Parent[p] \in All /\ \A q \in Paths : Parent[q] \in All
  BY SyncAssumption
<1>2. Parent[p] \in Above(p)
  BY <1>1 DEF Above
<1>3. ASSUME NEW q \in Paths, q \in Above(p) PROVE Parent[q] \in Above(p)
  <2>1. ASSUME NEW S \in SUBSET All, Parent[p] \in S, \A r \in S \cap Paths : Parent[r] \in S
        PROVE  Parent[q] \in S
    <3>1. q \in S
      BY <1>3, <2>1 DEF Above
    <3>. QED  BY <2>1, <3>1
  <2>. QED  BY <1>1, <2>1 DEF Above
<1>4. Root \in Above(p)
  <2>1. SUFFICES ASSUME Root \notin Above(p) PROVE FALSE
    OBVIOUS
  <2>2. Above(p) \in SUBSET Paths
    BY <2>1 DEF Above
  <2>3. PICK q \in Above(p) : Parent[q] \notin Above(p)
    BY <1>2, <2>2, SyncAssumption
  <2>. QED  BY <1>3, <2>2, <2>3
<1>5. ASSUME NEW d \in Above(p), d # Parent[p]
      PROVE  \E q \in Paths : q \in Above(p) /\ Parent[q] = d
  <2>. DEFINE S == {e \in Above(p) :
                      e = Parent[p] \/ \E q \in Paths : q \in Above(p) /\ Parent[q] = e}
  <2>1. S \in SUBSET All /\ Parent[p] \in S
    BY <1>2 DEF Above
  <2>2. \A r \in S \cap Paths : Parent[r] \in S
    BY <1>3
  <2>3. d \in S
    <3>. HIDE DEF S
    <3>. QED  BY <2>1, <2>2 DEF Above
  <2>. QED  BY <1>5, <2>3
<1>. QED  BY <1>2, <1>4, <1>5

(* Above what exists there are directories only. *)
LEMMA AboveAreDirs ==
    ASSUME IsTree(fs), NEW p \in Paths, fs[p] # Absent, NEW d \in Above(p)
    PROVE  IsDir(fs[d])
<1>. DEFINE S == {e \in Paths \cup {Root} : IsDir(fs[e])}
<1>1. S \in SUBSET (Paths \cup {Root}) /\ Parent[p] \in S
  BY SyncAssumption DEF IsTree
<1>2. ASSUME NEW q \in S \cap Paths PROVE Parent[q] \in S
  <2>1. fs[q] # Absent
    BY SMT DEF IsDir, Absent
  <2>. QED  BY <2>1, SyncAssumption DEF IsTree
<1>3. d \in S
  <2>. HIDE DEF S
  <2>. QED  BY <1>1, <1>2 DEF Above
<1>. QED  BY <1>3

(* No path is its own directory. *)
LEMMA ParentIsOther == \A p \in Paths : Parent[p] # p /\ Parent[p] \in Paths \cup {Root}
<1>. SUFFICES ASSUME NEW p \in Paths, Parent[p] = p PROVE FALSE
  BY SyncAssumption
<1>1. {p} \in SUBSET Paths /\ {p} # {}
  OBVIOUS
<1>. QED  BY <1>1, SyncAssumption

(* The kinds of nodes. *)
LEMMA NodeFacts ==
    /\ IsNode(Absent) /\ Absent.kind = "absent" /\ ~IsDir(Absent)
    /\ \A n : IsNode(n) =>
          /\ n.kind = "link" => n.to \in Paths /\ n # Absent /\ ~IsDir(n)
          /\ n.kind # "link" /\ n # Absent => n \in Metadata
    /\ \A n \in Metadata : IsNode(n) /\ n # Absent /\ n.kind # "link"
<1>1. Absent.kind = "absent" /\ IsNode(Absent) /\ ~IsDir(Absent)
  BY DEF Absent, IsNode, IsDir
<1>2. \A n \in Metadata : n.kind \in {"file", "dir", "closed"}
  BY DEF Metadata
<1>3. \A n \in [kind : {"link"}, to : Paths] : n.kind = "link" /\ n.to \in Paths
  OBVIOUS
<1>4. \A n \in Metadata : IsNode(n) /\ n # Absent /\ n.kind # "link"
  BY <1>1, <1>2 DEF IsNode
<1>5. ASSUME NEW n, IsNode(n)
      PROVE  /\ n.kind = "link" => n.to \in Paths /\ n # Absent /\ ~IsDir(n)
             /\ n.kind # "link" /\ n # Absent => n \in Metadata
  <2>1. n = Absent \/ n \in [kind : {"link"}, to : Paths] \/ n \in Metadata
    BY <1>5 DEF IsNode
  <2>. QED  BY <1>1, <1>3, <1>4, <2>1 DEF IsDir
<1>. QED  BY <1>1, <1>4, <1>5

(* What metadata returns is no link. *)
LEMMA ResolveFacts ==
    ASSUME IsTree(fs), NEW p \in Paths, Resolve(p) # Absent
    PROVE  Resolve(p) \in Metadata
<1>1. IsNode(fs[p])
  BY DEF IsTree
<1>2. CASE fs[p].kind = "link"
  <2>1. fs[p].to \in Paths /\ fs[fs[p].to].kind # "link"
    BY <1>1, <1>2, NodeFacts DEF IsTree, Absent, Metadata
  <2>2. IsNode(fs[fs[p].to])
    BY <2>1 DEF IsTree
  <2>. QED  BY <1>2, <2>1, <2>2, NodeFacts DEF Resolve
<1>3. CASE fs[p].kind # "link"
  BY <1>1, <1>3, NodeFacts DEF Resolve
<1>. QED  BY <1>2, <1>3

-----------------------------------------------------------------------------
(* What another program does to q. *)
Disturb(q) == (\E size \in Sizes : WriteFile(q, size)) \/ MakeDirectory(q) \/ Chmod(q) \/ Delete(q)

(* It never takes a directory away from what is in it, and makes no links. *)
LEMMA DisturbFacts ==
    ASSUME SyncShapes, NEW q \in Paths, Disturb(q)
    PROVE  \E node \in {Absent} \cup Metadata :
              /\ Change(q, node)
              /\ \A c \in Paths : Parent[c] = q /\ fs[c] # Absent => IsDir(node)
<1>1. IsNode(fs[q]) /\ \A c \in Paths : Parent[c] = q /\ fs[c] # Absent => IsDir(fs[q])
  BY DEF SyncShapes, IsTree
<1>2. clock + 1 \in Int
  BY SMT DEF SyncShapes
<1>3. ASSUME NEW size \in Sizes, WriteFile(q, size)
      PROVE  \E node \in {Absent} \cup Metadata :
                /\ Change(q, node)
                /\ \A c \in Paths : Parent[c] = q /\ fs[c] # Absent => IsDir(node)
  <2>1. ASSUME NEW mode \in {0, 1} PROVE File(size, mode, clock + 1) \in Metadata
    BY <1>2, SyncAssumption DEF File, Node, Metadata
  <2>2. CASE fs[q] = Absent /\ Change(q, File(size, 0, clock + 1))
    BY <1>1, <2>1, <2>2, NodeFacts
  <2>3. CASE fs[q].kind = "file" /\ Change(q, File(size, fs[q].mode, clock + 1))
    <3>1. fs[q].mode \in {0, 1} /\ ~IsDir(fs[q])
      BY <1>1, <2>3, NodeFacts, SMT DEF Metadata, IsDir
    <3>. QED  BY <1>1, <2>1, <2>3, <3>1
  <2>. QED  BY <1>3, <2>2, <2>3 DEF WriteFile
<1>4. ASSUME MakeDirectory(q)
      PROVE  \E node \in {Absent} \cup Metadata :
                /\ Change(q, node)
                /\ \A c \in Paths : Parent[c] = q /\ fs[c] # Absent => IsDir(node)
  <2>1. Dir(clock + 1) \in Metadata
    BY <1>2 DEF Dir, Node, Metadata
  <2>. QED  BY <1>1, <1>4, <2>1, NodeFacts DEF MakeDirectory
<1>5. ASSUME Chmod(q)
      PROVE  \E node \in {Absent} \cup Metadata :
                /\ Change(q, node)
                /\ \A c \in Paths : Parent[c] = q /\ fs[c] # Absent => IsDir(node)
  <2>1. fs[q] \in Metadata
    BY <1>1, <1>5, NodeFacts DEF Chmod
  <2>2. CASE fs[q].kind = "file" /\ Change(q, [fs[q] EXCEPT !.mode = 1 - @])
    <3>1. [fs[q] EXCEPT !.mode = 1 - @] \in Metadata /\ ~IsDir(fs[q])
      BY <2>1, <2>2, SMT DEF Metadata, IsDir
    <3>. QED  BY <1>1, <2>2, <3>1
  <2>3. CASE fs[q].kind = "dir" /\ Change(q, [fs[q] EXCEPT !.kind = "closed"])
    <3>1. [fs[q] EXCEPT !.kind = "closed"] \in Metadata /\ IsDir([fs[q] EXCEPT !.kind = "closed"])
      BY <2>1, <2>3 DEF Metadata, IsDir
    <3>. QED  BY <2>3, <3>1
  <2>. QED  BY <1>5, <2>2, <2>3 DEF Chmod
<1>6. ASSUME Delete(q)
      PROVE  \E node \in {Absent} \cup Metadata :
                /\ Change(q, node)
                /\ \A c \in Paths : Parent[c] = q /\ fs[c] # Absent => IsDir(node)
  BY <1>6 DEF Delete, Children
<1>. QED  BY <1>3, <1>4, <1>5, <1>6 DEF Disturb

(* The rest of the tree stays as it is, but for the time of a directory.   *)
LEMMA ChangeFacts ==
    ASSUME SyncShapes, NEW q \in Paths, NEW node \in {Absent} \cup Metadata, Change(q, node),
           \A c \in Paths : Parent[c] = q /\ fs[c] # Absent => IsDir(node)
    PROVE  /\ IsTree(fs)'
           /\ \A p \in Paths \cup {Root} :
                 /\ p # q /\ p # Parent[q] => fs'[p] = fs[p]
                 /\ p # q => (fs'[p] = Absent <=> fs[p] = Absent) /\ fs'[p].kind = fs[p].kind
           /\ IsDir(fs[Parent[q]])
<1>. DEFINE d == Parent[q]
<1>. DEFINE n == [fs[d] EXCEPT !.mtime = IF fs[q] = Absent \/ node = Absent THEN clock + 1 ELSE @]
<1>1. d # q /\ d \in Paths \cup {Root}
  BY ParentIsOther
<1>2. DOMAIN fs = Paths \cup {Root} /\ fs[d].kind = "dir"
  BY DEF Change, SyncShapes, IsTree
<1>3. fs[d] \in Metadata
  <2>1. IsNode(fs[d])
    BY <1>1, <1>2 DEF SyncShapes, IsTree
  <2>. QED  BY <1>2, <2>1, NodeFacts
<1>4. n \in Metadata /\ n.kind = "dir"
  BY <1>2, <1>3, SMT DEF Metadata, SyncShapes
<1>5. fs' = [fs EXCEPT ![q] = node, ![d] = n]
  BY <1>1, <1>2 DEF Change
<1>6. /\ DOMAIN fs' = Paths \cup {Root} /\ fs'[q] = node /\ fs'[d] = n
      /\ \A p \in Paths \cup {Root} : p # q /\ p # d => fs'[p] = fs[p]
  <2>. HIDE DEF d, n
  <2>. QED  BY <1>1, <1>2, <1>5
<1>7. fs[d] # Absent /\ n # Absent
  BY <1>3, <1>4, NodeFacts
<1>. HIDE DEF n
<1>8. \A p \in Paths \cup {Root} :
         p # q => (fs'[p] = Absent <=> fs[p] = Absent) /\ fs'[p].kind = fs[p].kind
  BY <1>2, <1>4, <1>6, <1>7
<1>9. IsTree(fs)'
  <2>1. \A p \in Paths \cup {Root} : IsNode(fs'[p])
    BY <1>4, <1>6, NodeFacts DEF SyncShapes, IsTree
  <2>2. q # Root
    BY SyncAssumption
  <2>3. fs'[Root].kind # "link"
    BY <1>8, <2>2 DEF SyncShapes, IsTree
  <2>4. ASSUME NEW p \in Paths, fs'[p] # Absent PROVE IsDir(fs'[Parent[p]])
    <3>1. Parent[p] \in Paths \cup {Root}
      BY ParentIsOther
    <3>2. CASE p = q
      BY <1>4, <1>6, <3>2 DEF IsDir
    <3>3. CASE p # q
      <4>1. fs[p] # Absent
        BY <1>8, <2>4, <3>3
      <4>2. IsDir(fs[Parent[p]])
        BY <4>1 DEF SyncShapes, IsTree
      <4>3. CASE Parent[p] = q
        BY <1>6, <4>1, <4>3
      <4>4. CASE Parent[p] # q
        BY <1>8, <3>1, <4>2, <4>4 DEF IsDir
      <4>. QED  BY <4>3, <4>4
    <3>. QED  BY <3>2, <3>3
  <2>5. node.kind # "link"
    BY NodeFacts
  <2>6. ASSUME NEW p \in Paths, fs'[p].kind = "link" PROVE fs'[fs'[p].to].kind # "link"
    <3>1. p # q /\ p # d
      BY <1>4, <1>6, <2>5, <2>6
    <3>2. fs'[p] = fs[p]
      BY <1>6, <3>1
    <3>3. fs[fs[p].to].kind # "link" /\ fs[p].to \in Paths
      BY <2>6, <3>2, NodeFacts DEF SyncShapes, IsTree
    <3>. QED  BY <1>6, <1>8, <2>5, <3>2, <3>3
  <2>. QED  BY <1>6, <2>1, <2>3, <2>4, <2>6 DEF IsTree
<1>. QED  BY <1>2, <1>6, <1>8, <1>9 DEF IsDir

(* The maps that walk and replay build. *)
LEMMA ListingFacts ==
    /\ empty \in Listings /\ empty \in Copies /\ DOMAIN empty = {}
    /\ \A m \in Listings : DOMAIN m \subseteq Keep /\ \A p \in DOMAIN m : m[p] \in Metadata
    /\ \A m \in Copies : DOMAIN m \subseteq Keep
          /\ \A p \in DOMAIN m : m[p] \in [size : Nat, mtime : Int, mode : {0, 1}]
    /\ \A m \in Listings, p \in Keep, n \in Metadata :
          insert(m, p, n) \in Listings
<1>1. ASSUME NEW V PROVE
        /\ empty \in UNION {[D -> V] : D \in SUBSET Keep}
        /\ \A m \in UNION {[D -> V] : D \in SUBSET Keep} :
              DOMAIN m \subseteq Keep /\ \A p \in DOMAIN m : m[p] \in V
        /\ \A m \in UNION {[D -> V] : D \in SUBSET Keep}, p \in Keep, n \in V :
              insert(m, p, n) \in UNION {[D -> V] : D \in SUBSET Keep}
  <2>1. empty \in [{} -> V] /\ {} \in SUBSET Keep
    BY DEF empty
  <2>2. ASSUME NEW m \in UNION {[D -> V] : D \in SUBSET Keep}
        PROVE  DOMAIN m \subseteq Keep /\ m \in [DOMAIN m -> V]
    OBVIOUS
  <2>3. ASSUME NEW m \in UNION {[D -> V] : D \in SUBSET Keep}, NEW p \in Keep, NEW n \in V
        PROVE  insert(m, p, n) \in UNION {[D -> V] : D \in SUBSET Keep}
    <3>1. insert(m, p, n) \in [DOMAIN m \cup {p} -> V] /\ DOMAIN m \cup {p} \in SUBSET Keep
      BY <2>2 DEF insert
    <3>. QED  BY <3>1
  <2>. QED  BY <2>1, <2>2, <2>3
<1>2. DOMAIN empty = {}
  BY DEF empty
<1>3. /\ empty \in Listings
      /\ \A m \in Listings : DOMAIN m \subseteq Keep /\ \A p \in DOMAIN m : m[p] \in Metadata
      /\ \A m \in Listings, p \in Keep, n \in Metadata : insert(m, p, n) \in Listings
  BY <1>1 DEF Listings
<1>4. /\ empty \in Copies
      /\ \A m \in Copies : DOMAIN m \subseteq Keep
          /\ \A p \in DOMAIN m : m[p] \in [size : Nat, mtime : Int, mode : {0, 1}]
  <2>. DEFINE V == [size : Nat, mtime : Int, mode : {0, 1}]
  <2>1. Copies = UNION {[D -> V] : D \in SUBSET Keep}
    BY DEF Copies
  <2>. HIDE DEF V
  <2>2. empty \in Copies /\ \A m \in Copies : DOMAIN m \subseteq Keep /\ \A p \in DOMAIN m : m[p] \in V
    BY <1>1, <2>1
  <2>. QED  BY <2>2 DEF V
<1>. QED  BY <1>2, <1>3, <1>4

(* SyncIInv holds before the first walk. *)
LEMMA SyncInitIInv == SyncInit => SyncIInv
<1>. SUFFICES ASSUME SyncInit PROVE SyncIInv
  OBVIOUS
<1>1. walk \in Walk /\ walk.at = "idle" /\ walk.open = {} /\ walk.look = {} /\ walk.entries = {}
      /\ walk.collected = empty
  BY ListingFacts DEF SyncInit, NoWalk, Walk
<1>2. replay \in Replay /\ replay.at = "idle" /\ replay.todo = {} /\ replay.written = {}
  BY SMT DEF SyncInit, NoReplay, Replay
<1>3. snaps \in Seq(Listings) /\ Len(snaps) = 0
  BY SMT DEF SyncInit
<1>4. SyncShapes
  BY <1>1, <1>2, <1>3, ListingFacts, SyncAssumption, SMT DEF SyncInit, SyncShapes, Running
<1>5. Pending /\ Found /\ FailuresHaveCause
  BY <1>1, ListingFacts DEF Pending, Found, FailuresHaveCause, Faithful
<1>6. Recorded /\ Replayed
  BY <1>2, <1>3, SMT DEF Recorded, Replayed
<1>. QED  BY <1>4, <1>5, <1>6 DEF SyncIInv

(* A file that was not the one changed is to be returned as before, with   *)
(* the metadata as before unless what it links to is concerned.            *)
LEMMA KeptFacts ==
    ASSUME SyncShapes, NEW q \in Paths, NEW node \in {Absent} \cup Metadata, Change(q, node),
           \A c \in Paths : Parent[c] = q /\ fs[c] # Absent => IsDir(node),
           NEW p \in Paths, p # q
    PROVE  /\ Kept(p)' <=> Kept(p)
           /\ Kept(p) => fs'[p] = fs[p]
           /\ Kept(p) /\ Apart({q}, p) => Resolve(p)' = Resolve(p)
<1>1. Kept(p)' <=> Kept(p)
  BY ChangeFacts DEF Kept, IsDir
<1>2. Kept(p) => fs'[p] = fs[p]
  BY ChangeFacts DEF Kept
<1>3. ASSUME Kept(p), Apart({q}, p), fs[p].kind = "link" PROVE Resolve(p)' = Resolve(p)
  <2>1. PICK r \in Paths : r = fs[p].to
    BY <1>3, NodeFacts DEF SyncShapes, IsTree
  <2>2. r # q /\ r # Parent[q]
    BY <1>3, <2>1 DEF Apart, Children
  <2>3. fs'[r] = fs[r]
    BY <2>2, ChangeFacts
  <2>. QED  BY <1>2, <1>3, <2>1, <2>3 DEF Resolve
<1>4. ASSUME Kept(p), fs[p].kind # "link" PROVE Resolve(p)' = Resolve(p)
  BY <1>2, <1>4 DEF Resolve
<1>. QED  BY <1>1, <1>2, <1>3, <1>4

(* Another program changes the tree. *)
LEMMA DisturbIInv ==
    ASSUME SyncIInv, NEW q \in Paths, Disturb(q)
    PROVE  SyncIInv'
<1>1. PICK node \in {Absent} \cup Metadata :
          /\ Change(q, node)
          /\ \A c \in Paths : Parent[c] = q /\ fs[c] # Absent => IsDir(node)
  BY DisturbFacts DEF SyncIInv
<1>2. /\ touched' = touched \cup {q} /\ moved' = moved \cup {q} /\ clock' = clock + 1
      /\ UNCHANGED <<walk, snaps, copy, replay, walks, rounds>>
  BY <1>1 DEF Change
<1>3. SyncShapes'
  BY <1>1, <1>2, ChangeFacts, SMT DEF SyncIInv, SyncShapes, Running
<1>4. ASSUME NEW p \in Paths, p # q
      PROVE  /\ Kept(p)' <=> Kept(p)
             /\ Kept(p) => fs'[p] = fs[p]
             /\ Kept(p) /\ Apart({q}, p) => Resolve(p)' = Resolve(p)
  BY <1>1, <1>4, KeptFacts DEF SyncIInv
<1>5. Pending'
  BY <1>2, <1>4 DEF SyncIInv, Pending
<1>6. ASSUME NEW H, NEW m \in Listings, Faithful(H, m)
      PROVE  Faithful(H \cup {q}, m)'
  <2>. SUFFICES ASSUME NEW p \in DOMAIN m, p \notin H, p # q
                PROVE  Kept(p)' /\ (Apart(H \cup {q}, p)' => m[p] = Resolve(p)')
    BY DEF Faithful
  <2>1. p \in Paths
    BY ListingFacts, SyncAssumption
  <2>2. Kept(p) /\ (Apart(H, p) => m[p] = Resolve(p))
    BY <1>6 DEF Faithful
  <2>3. Kept(p)' /\ fs'[p] = fs[p]
    BY <1>4, <2>1, <2>2
  <2>4. Apart(H \cup {q}, p)' => Apart(H, p) /\ Apart({q}, p)
    BY <2>3 DEF Apart, Children
  <2>. QED  BY <1>4, <2>1, <2>2, <2>3, <2>4
<1>7. ASSUME NEW H, NEW m \in Listings, Full(H, m)
      PROVE  Full(H \cup {q}, m)'
  BY <1>4, <1>7 DEF Full
<1>8. Found'
  <2>1. PICK H, m : H = touched /\ m = walk.collected
    OBVIOUS
  <2>2. m \in Listings /\ Faithful(H, m)
    BY <2>1 DEF SyncIInv, SyncShapes, Walk, Found
  <2>3. Faithful(touched, walk.collected)'
    <3>1. Faithful(H \cup {q}, m)'
      BY <1>6, <2>2
    <3>. QED  BY <1>2, <2>1, <3>1
  <2>4. \A p \in walk.entries : p \in Paths
    BY SyncAssumption DEF SyncIInv, SyncShapes, Walk
  <2>. QED  BY <1>2, <1>4, <2>3, <2>4 DEF SyncIInv, Found
<1>9. Recorded'
  <2>. SUFFICES ASSUME NEW i \in 1 .. Len(snaps)
                PROVE  (Faithful(moved, snaps[i]) /\ Full(moved, snaps[i]))'
    BY <1>2 DEF Recorded
  <2>1. PICK H, m : H = moved /\ m = snaps[i]
    OBVIOUS
  <2>2. m \in Listings /\ Faithful(H, m) /\ Full(H, m)
    BY <2>1, SMT DEF SyncIInv, SyncShapes, Recorded
  <2>3. Faithful(H \cup {q}, m)' /\ Full(H \cup {q}, m)'
    BY <1>6, <1>7, <2>2
  <2>. QED  BY <1>2, <2>1, <2>3
<1>10. FailuresHaveCause'
  BY <1>2 DEF FailuresHaveCause
<1>11. Replayed'
  BY <1>2 DEF SyncIInv, Replayed, Agrees, SameButTime, Target
<1>. QED  BY <1>3, <1>5, <1>8, <1>9, <1>10, <1>11 DEF SyncIInv

-----------------------------------------------------------------------------
(* A step of a walk leaves all but the walk as it is. *)
LEMMA QuietWalk ==
    ASSUME SyncIInv, UNCHANGED <<Tree, snaps, touched, moved, walks>>, walk' \in Walk,
           Running' => Running, Pending', Found', FailuresHaveCause'
    PROVE  SyncIInv'
<1>1. UNCHANGED <<fs, clock, copy, replay, rounds, snaps, touched, moved, walks>>
  BY DEF Tree
<1>2. SyncShapes'
  BY <1>1, SMT DEF SyncIInv, SyncShapes
<1>3. Recorded'
  BY <1>1, SMT DEF SyncIInv, Recorded, Faithful, Full, Kept, Apart, Resolve
<1>4. Replayed'
  BY <1>1, SMT DEF SyncIInv, Replayed, Agrees, SameButTime, Target
<1>. QED  BY <1>2, <1>3, <1>4 DEF SyncIInv

(* A walk that fails with a cause. *)
LEMMA FailIInv ==
    ASSUME SyncIInv, Fail, UNCHANGED <<Tree, snaps, touched, moved, walks>>, FailuresHaveCause'
    PROVE  SyncIInv'
<1>1. /\ walk' \in Walk /\ walk'.at = "failed" /\ walk'.open = walk.open
      /\ walk'.entries = walk.entries /\ walk'.collected = walk.collected
  BY DEF SyncIInv, SyncShapes, Walk, Fail
<1>2. UNCHANGED <<fs, touched>>
  BY DEF Tree
<1>3. Found'
  BY <1>1, <1>2, SMT DEF SyncIInv, Found, Faithful, Kept, Apart, Resolve
<1>4. Pending' /\ ~Running'
  BY <1>1 DEF Pending, Running
<1>. QED  BY <1>1, <1>3, <1>4, QuietWalk

(* The entries of a directory come after it. *)
LEMMA OpenIInv ==
    ASSUME SyncIInv, NEW d \in Paths \cup {Root}, OpenDirectory(d)
    PROVE  SyncIInv'
<1>1. /\ walk.at = "enumerate" /\ d \in walk.open /\ UNCHANGED <<Tree, snaps, touched, moved, walks>>
      /\ UNCHANGED <<fs, touched>>
  BY DEF OpenDirectory, Tree
<1>2. CASE fs[d].kind # "dir"
  <2>1. Fail
    BY <1>2 DEF OpenDirectory
  <2>2. touched = {} => fs[d].kind = "closed"
    BY <1>1, <1>2 DEF SyncIInv, Found, IsDir
  <2>3. FailuresHaveCause'
    BY <1>1, <2>2 DEF FailuresHaveCause
  <2>. QED  BY <1>1, <2>1, <2>3, FailIInv
<1>3. CASE fs[d].kind = "dir"
  <2>1. Children(d) \in SUBSET Paths
    BY DEF Children
  <2>2. /\ walk' \in Walk /\ walk'.at = "enumerate"
        /\ walk'.open = walk.open \ {d} /\ walk'.look = walk.look \cup Children(d)
        /\ walk'.entries = walk.entries /\ walk'.collected = walk.collected
    <3>1. /\ walk' = [walk EXCEPT !.open = @ \ {d}, !.look = @ \cup Children(d)]
          /\ walk \in Walk
      BY <1>3 DEF SyncIInv, SyncShapes, OpenDirectory
    <3>. QED  BY <1>1, <2>1, <3>1 DEF Walk
  <2>3. Found'
    BY <1>1, <2>2 DEF SyncIInv, Found, Faithful, Kept, Apart, Resolve
  <2>4. Pending'
    <3>. SUFFICES ASSUME NEW p \in Paths, p \notin touched, Kept(p)
                  PROVE  \/ p \in walk'.look \cup walk'.entries \cup DOMAIN walk'.collected
                         \/ Above(p) \cap (walk'.open \cup walk'.look) # {}
      BY <1>1 DEF Pending, Kept, Above
    <3>1. \/ p \in walk.look \cup walk.entries \cup DOMAIN walk.collected
          \/ Above(p) \cap (walk.open \cup walk.look) # {}
      BY <1>1 DEF SyncIInv, Pending
    <3>2. CASE d \in Above(p)
      <4>1. d = Parent[p] \/ \E q \in Paths : q \in Above(p) /\ Parent[q] = d
        BY <3>2, AboveFacts
      <4>. QED  BY <2>2, <4>1 DEF Children
    <3>3. CASE d \notin Above(p)
      BY <2>2, <3>1, <3>3
    <3>. QED  BY <3>2, <3>3
  <2>5. FailuresHaveCause' /\ Running
    BY <1>1, <2>2 DEF FailuresHaveCause, Running
  <2>. QED  BY <1>1, <2>2, <2>3, <2>4, <2>5, QuietWalk
<1>. QED  BY <1>2, <1>3

(* The listing reaches a path: gone, a directory, or an entry. *)
LEMMA EnumerateIInv ==
    ASSUME SyncIInv, NEW e \in Paths, Enumerate(e)
    PROVE  SyncIInv'
<1>1. /\ walk.at = "enumerate" /\ e \in walk.look /\ UNCHANGED <<Tree, snaps, touched, moved, walks>>
      /\ UNCHANGED <<fs, touched>>
  BY DEF Enumerate, Tree
<1>2. walk \in Walk /\ IsTree(fs)
  BY DEF SyncIInv, SyncShapes
<1>3. PICK O \in SUBSET {e}, E \in SUBSET {e} :
         /\ walk' = [walk EXCEPT !.look = @ \ {e}, !.open = @ \cup O, !.entries = @ \cup E]
         /\ O # {} <=> IsDir(fs[e])
         /\ E # {} <=> Kept(e)
  <2>. DEFINE seen == [walk EXCEPT !.look = @ \ {e}]
  <2>1. CASE fs[e] = Absent
    <3>1. walk' = seen
      BY <2>1, NodeFacts DEF Enumerate
    <3>2. seen = [walk EXCEPT !.look = @ \ {e}, !.open = @ \cup {}, !.entries = @ \cup {}]
      BY <1>2 DEF Walk
    <3>3. ~IsDir(fs[e]) /\ ~Kept(e)
      BY <2>1, NodeFacts DEF Kept
    <3>4. {} \in SUBSET {e}
      OBVIOUS
    <3>. QED  BY <3>1, <3>2, <3>3, <3>4
  <2>2. CASE IsDir(fs[e])
    <3>1. walk' = [seen EXCEPT !.open = @ \cup {e}]
      BY <2>2, NodeFacts DEF Enumerate
    <3>2. [seen EXCEPT !.open = @ \cup {e}] =
          [walk EXCEPT !.look = @ \ {e}, !.open = @ \cup {e}, !.entries = @ \cup {}]
      BY <1>2 DEF Walk
    <3>. QED  BY <2>2, <3>1, <3>2 DEF Kept
  <2>3. CASE fs[e] # Absent /\ ~IsDir(fs[e]) /\ e \in Keep
    <3>1. walk' = [seen EXCEPT !.entries = @ \cup {e}]
      BY <2>3 DEF Enumerate, keep
    <3>2. [seen EXCEPT !.entries = @ \cup {e}] =
          [walk EXCEPT !.look = @ \ {e}, !.open = @ \cup {}, !.entries = @ \cup {e}]
      BY <1>2 DEF Walk
    <3>. QED  BY <2>3, <3>1, <3>2 DEF Kept
  <2>4. CASE fs[e] # Absent /\ ~IsDir(fs[e]) /\ e \notin Keep
    <3>1. walk' = seen
      BY <2>4 DEF Enumerate, keep
    <3>2. seen = [walk EXCEPT !.look = @ \ {e}, !.open = @ \cup {}, !.entries = @ \cup {}]
      BY <1>2 DEF Walk
    <3>3. ~IsDir(fs[e]) /\ ~Kept(e)
      BY <2>4 DEF Kept
    <3>4. {} \in SUBSET {e}
      OBVIOUS
    <3>. QED  BY <3>1, <3>2, <3>3, <3>4
  <2>. QED  BY <2>1, <2>2, <2>3, <2>4
<1>4. E \subseteq Keep
  BY <1>3 DEF Kept
<1>5. /\ walk' \in Walk /\ walk'.at = "enumerate"
      /\ walk'.open = walk.open \cup O /\ walk'.look = walk.look \ {e}
      /\ walk'.entries = walk.entries \cup E /\ walk'.collected = walk.collected
  BY <1>1, <1>2, <1>3, <1>4 DEF Walk
<1>6. Found'
  <2>1. Faithful(touched, walk.collected)'
    BY <1>1, <1>5 DEF SyncIInv, Found, Faithful, Kept, Apart, Resolve
  <2>2. \A p \in walk'.entries : p \notin touched => Kept(p)
    BY <1>3, <1>5 DEF SyncIInv, Found
  <2>3. touched = {} => \A d \in walk'.open : IsDir(fs[d])
    BY <1>3, <1>5 DEF SyncIInv, Found
  <2>. QED  BY <1>1, <1>5, <2>1, <2>2, <2>3 DEF Found, Kept
<1>7. Pending'
  <2>. SUFFICES ASSUME NEW p \in Paths, p \notin touched, Kept(p)
                PROVE  \/ p \in walk'.look \cup walk'.entries \cup DOMAIN walk'.collected
                       \/ Above(p) \cap (walk'.open \cup walk'.look) # {}
    BY <1>1 DEF Pending, Kept, Above
  <2>1. \/ p \in walk.look \cup walk.entries \cup DOMAIN walk.collected
        \/ Above(p) \cap (walk.open \cup walk.look) # {}
    BY <1>1 DEF SyncIInv, Pending
  <2>2. e \in Above(p) => O = {e}
    BY <1>2, <1>3, AboveAreDirs DEF Kept
  <2>3. p = e => E = {e}
    BY <1>3
  <2>. QED  BY <1>5, <2>1, <2>2, <2>3, SMT
<1>8. FailuresHaveCause' /\ Running
  BY <1>1, <1>5 DEF FailuresHaveCause, Running
<1>. QED  BY <1>1, <1>5, <1>6, <1>7, <1>8, QuietWalk

(* The second phase begins when nothing is left to enumerate. *)
LEMMA EndEnumerationIInv ==
    ASSUME SyncIInv, EndEnumeration
    PROVE  SyncIInv'
<1>1. /\ walk.at = "enumerate" /\ walk.open = {} /\ walk.look = {}
      /\ UNCHANGED <<Tree, snaps, touched, moved, walks>> /\ UNCHANGED <<fs, touched>>
  BY DEF EndEnumeration, Tree
<1>2. /\ walk' \in Walk /\ walk'.at = "stat" /\ walk'.open = walk.open /\ walk'.look = walk.look
      /\ walk'.entries = walk.entries /\ walk'.collected = walk.collected
  BY DEF SyncIInv, SyncShapes, Walk, EndEnumeration
<1>3. Found'
  BY <1>1, <1>2, SMT DEF SyncIInv, Found, Faithful, Kept, Apart, Resolve
<1>4. Pending'
  BY <1>1, <1>2 DEF SyncIInv, Pending, Kept, Above
<1>5. FailuresHaveCause' /\ Running
  BY <1>1, <1>2 DEF FailuresHaveCause, Running
<1>. QED  BY <1>1, <1>2, <1>3, <1>4, <1>5, QuietWalk

(* The metadata of one entry, which may be gone. *)
LEMMA StatIInv ==
    ASSUME SyncIInv, NEW e \in Paths, Stat(e)
    PROVE  SyncIInv'
<1>1. /\ walk.at = "stat" /\ e \in walk.entries
      /\ UNCHANGED <<Tree, snaps, touched, moved, walks>> /\ UNCHANGED <<fs, touched>>
  BY DEF Stat, Tree
<1>2. walk \in Walk /\ IsTree(fs) /\ e \in Keep /\ (e \notin touched => Kept(e))
  BY <1>1 DEF SyncIInv, SyncShapes, Walk, Found
<1>3. CASE Resolve(e) = Absent
  <2>1. Fail
    BY <1>3 DEF Stat
  <2>2. touched = {} => fs[e] # Absent
    BY <1>2 DEF Kept
  <2>3. FailuresHaveCause'
    BY <1>1, <1>2, <1>3, <2>2 DEF FailuresHaveCause, Resolve
  <2>. QED  BY <1>1, <2>1, <2>3, FailIInv
<1>4. CASE Resolve(e) # Absent
  <2>. DEFINE m == insert(walk.collected, e, Resolve(e))
  <2>1. m \in Listings
    BY <1>2, <1>4, ResolveFacts, ListingFacts DEF Walk
  <2>2. /\ DOMAIN m = DOMAIN walk.collected \cup {e} /\ m[e] = Resolve(e)
        /\ \A p \in DOMAIN walk.collected : p # e => m[p] = walk.collected[p]
    BY DEF insert
  <2>3. walk' = [walk EXCEPT !.entries = @ \ {e}, !.collected = m]
    BY <1>4 DEF Stat
  <2>. HIDE DEF m
  <2>4. /\ walk' \in Walk /\ walk'.at = "stat" /\ walk'.open = walk.open /\ walk'.look = walk.look
        /\ walk'.entries = walk.entries \ {e} /\ walk'.collected = m
    BY <1>1, <1>2, <2>1, <2>3 DEF Walk
  <2>5. Faithful(touched, m)
    BY <1>2, <2>2 DEF SyncIInv, Found, Faithful
  <2>6. Found'
    BY <1>1, <2>4, <2>5, SMT DEF SyncIInv, Found, Faithful, Kept, Apart, Resolve
  <2>7. Pending'
    <3>1. \A p \in Paths : p \notin touched /\ Kept(p) =>
              \/ p \in walk'.look \cup walk'.entries \cup DOMAIN walk'.collected
              \/ Above(p) \cap (walk'.open \cup walk'.look) # {}
      BY <1>1, <2>2, <2>4 DEF SyncIInv, Pending
    <3>. QED  BY <1>1, <3>1 DEF Pending, Kept, Above
  <2>8. FailuresHaveCause' /\ Running
    BY <1>1, <2>4 DEF FailuresHaveCause, Running
  <2>. QED  BY <1>1, <2>4, <2>6, <2>7, <2>8, QuietWalk
<1>. QED  BY <1>3, <1>4

(* The walk returns its list: complete but for what was touched. *)
LEMMA EndWalkIInv ==
    ASSUME SyncIInv, EndWalk
    PROVE  SyncIInv'
<1>1. /\ walk.at = "stat" /\ walk.entries = {} /\ snaps' = Append(snaps, walk.collected)
      /\ UNCHANGED <<fs, clock, copy, replay, rounds, touched, moved, walks>>
  BY DEF EndWalk, Tree
<1>2. /\ walk' \in Walk /\ walk'.at = "done" /\ walk'.open = walk.open /\ walk'.look = walk.look
      /\ walk'.entries = walk.entries /\ walk'.collected = walk.collected
  BY DEF SyncIInv, SyncShapes, Walk, EndWalk
<1>3. /\ snaps \in Seq(Listings) /\ walk.collected \in Listings /\ touched \subseteq moved
      /\ Len(snaps) + 1 <= walks
  BY <1>1 DEF SyncIInv, SyncShapes, Walk, Running
<1>4. /\ snaps' \in Seq(Listings) /\ Len(snaps') = Len(snaps) + 1
      /\ snaps'[Len(snaps) + 1] = walk.collected
      /\ \A i \in 1 .. Len(snaps) : snaps'[i] = snaps[i]
  BY <1>1, <1>3, SMT
<1>5. SyncShapes'
  BY <1>1, <1>2, <1>3, <1>4, SMT DEF SyncIInv, SyncShapes, Running
<1>6. walk.open = {} /\ walk.look = {}
  BY <1>1 DEF SyncIInv, Found
<1>7. Found' /\ FailuresHaveCause'
  BY <1>1, <1>2, <1>6, SMT DEF SyncIInv, Found, Faithful, Kept, Apart, Resolve, FailuresHaveCause
<1>8. Pending'
  BY <1>1, <1>2 DEF SyncIInv, Pending, Kept, Above
<1>9. Faithful(moved, walk.collected) /\ Full(moved, walk.collected)
  <2>1. Full(moved, walk.collected)
    BY <1>1, <1>3, <1>6 DEF SyncIInv, Pending, Full
  <2>2. \A p : Apart(moved, p) => Apart(touched, p)
    BY <1>3 DEF Apart
  <2>3. Faithful(moved, walk.collected)
    BY <1>3, <2>2 DEF SyncIInv, Found, Faithful
  <2>. QED  BY <2>1, <2>3
<1>10. Recorded'
  <2>. SUFFICES ASSUME NEW i \in 1 .. Len(snaps) + 1
                PROVE  (Faithful(moved, snaps[i]) /\ Full(moved, snaps[i]))'
    BY <1>4 DEF Recorded
  <2>1. PICK m : m = snaps'[i]
    OBVIOUS
  <2>2. Faithful(moved, m) /\ Full(moved, m)
    <3>1. CASE i = Len(snaps) + 1
      BY <1>4, <1>9, <2>1, <3>1
    <3>2. CASE i \in 1 .. Len(snaps)
      BY <1>4, <2>1, <3>2 DEF SyncIInv, Recorded
    <3>. QED  BY <1>3, <3>1, <3>2, SMT
  <2>. QED  BY <1>1, <2>1, <2>2 DEF Faithful, Full, Kept, Apart, Resolve
<1>11. Replayed'
  <2>1. replay.at # "idle" => replay.snap \in 1 .. Len(snaps)
    BY <1>3, SMT DEF SyncIInv, SyncShapes, Replay, Replayed
  <2>2. replay.at # "idle" => Target' = Target
    BY <1>1, <1>4, <2>1 DEF Target
  <2>3. CASE replay.at = "idle"
    BY <1>1, <2>3 DEF SyncIInv, Replayed
  <2>4. CASE replay.at # "idle"
    BY <1>1, <1>3, <1>4, <2>1, <2>2, <2>4, SMT DEF SyncIInv, Replayed, Agrees, SameButTime
  <2>. QED  BY <2>3, <2>4
<1>. QED  BY <1>5, <1>7, <1>8, <1>10, <1>11 DEF SyncIInv

(* A walk begins at the root. *)
LEMMA BeginWalkIInv ==
    ASSUME SyncIInv, BeginWalk
    PROVE  SyncIInv'
<1>1. /\ ~Running /\ walks < MaxWalks /\ walks' = walks + 1 /\ touched' = {}
      /\ UNCHANGED <<fs, clock, copy, replay, rounds, snaps, moved>>
  BY DEF BeginWalk, Tree, Running
<1>2. /\ walk' \in Walk /\ walk'.look = {} /\ walk'.entries = {} /\ walk'.collected = empty
      /\ \/ IsDir(fs[Root]) /\ walk'.at = "enumerate" /\ walk'.open = {Root}
         \/ ~IsDir(fs[Root]) /\ walk'.at = "failed" /\ walk'.open = {}
  BY ListingFacts DEF BeginWalk, NoWalk, Walk
<1>3. SyncShapes'
  <2>1. walks' \in 0 .. MaxWalks /\ Len(snaps) + 1 <= walks' /\ Len(snaps) <= walks'
    BY <1>1, SyncAssumption, SMT DEF SyncIInv, SyncShapes
  <2>. QED  BY <1>1, <1>2, <2>1, SMT DEF SyncIInv, SyncShapes, Running
<1>4. Found' /\ FailuresHaveCause'
  BY <1>1, <1>2, ListingFacts DEF Found, Faithful, FailuresHaveCause
<1>5. Pending'
  BY <1>2, AboveFacts DEF Pending, Above
<1>6. Recorded' /\ Replayed'
  <2>1. Recorded'
    BY <1>1, SMT DEF SyncIInv, Recorded, Faithful, Full, Kept, Apart, Resolve
  <2>. QED  BY <1>1, <2>1 DEF SyncIInv, Replayed, Agrees, SameButTime, Target
<1>. QED  BY <1>3, <1>4, <1>5, <1>6 DEF SyncIInv

-----------------------------------------------------------------------------
(* What diff_entries leaves out is in both lists with one signature, or in *)
(* neither.                                                                *)
LEMMA DiffFacts ==
    ASSUME NEW a, NEW b
    PROVE  LET diff == diff_entries(a, b) IN
           /\ ChangedPaths(diff) \subseteq DOMAIN a \cup DOMAIN b
           /\ \A p : p \notin ChangedPaths(diff) =>
                 /\ p \in DOMAIN a <=> p \in DOMAIN b
                 /\ p \in DOMAIN a => /\ a[p].size = b[p].size /\ a[p].mode = b[p].mode
                                     /\ a[p].mtime = b[p].mtime
<1>. DEFINE diff == diff_entries(a, b)
<1>1. /\ diff.added = DOMAIN b \ DOMAIN a /\ diff.removed = DOMAIN a \ DOMAIN b
      /\ diff.modified = {p \in DOMAIN a \cap DOMAIN b : signature_changed(a[p], b[p])}
  BY DEF diff_entries
<1>. HIDE DEF diff
<1>2. ASSUME NEW p, p \notin ChangedPaths(diff)
      PROVE  /\ p \in DOMAIN a <=> p \in DOMAIN b
             /\ p \in DOMAIN a => ~signature_changed(a[p], b[p])
  BY <1>1, <1>2 DEF ChangedPaths
<1>3. ChangedPaths(diff) \subseteq DOMAIN a \cup DOMAIN b
  BY <1>1 DEF ChangedPaths
<1>. QED  BY <1>2, <1>3 DEF diff, signature_changed

(* The fields of an entry; a known time stays as it is. *)
LEMMA EntryFacts ==
    /\ \A c : DOMAIN Entries(c) = DOMAIN c
    /\ \A c : \A p \in DOMAIN c :
          /\ Entries(c)[p].size = c[p].size /\ Entries(c)[p].mode = c[p].mode
          /\ Entries(c)[p].mtime = from_system_time(c[p].mtime)
    /\ \A m \in Int : is_known(m) => from_system_time(m) = m
    /\ \A m \in Int : from_system_time(m) \in Int
BY SMT DEF Entries, build_entry, from_system_time, is_known

(* The entries of a walk that are replayed. *)
LEMMA TargetFacts ==
    ASSUME SyncIInv, replay.at # "idle"
    PROVE  /\ DOMAIN Target \subseteq Keep
           /\ \A p \in DOMAIN Target :
                 Target[p] \in [size : Nat, mtime : Int, mode : {0, 1}]
<1>1. snaps[replay.snap] \in Listings
  BY SMT DEF SyncIInv, SyncShapes, Replayed, Replay
<1>2. PICK m \in Listings : m = snaps[replay.snap]
  BY <1>1
<1>3. ASSUME NEW p \in DOMAIN m
      PROVE  build_entry(m[p]) \in [size : Nat, mtime : Int, mode : {0, 1}]
  <2>1. m[p] \in Metadata
    BY ListingFacts
  <2>. QED  BY <2>1, EntryFacts DEF build_entry, Metadata
<1>. QED  BY <1>2, <1>3, ListingFacts DEF Target, Entries

(* The maps of the other host. *)
LEMMA CopyFacts ==
    ASSUME NEW m \in Copies, NEW x \in [size : Nat, mtime : Int, mode : {0, 1}], NEW p \in Keep, NEW S
    PROVE  insert(m, p, x) \in Copies /\ retain(m, S) \in Copies
<1>. DEFINE V == [size : Nat, mtime : Int, mode : {0, 1}]
<1>1. DOMAIN m \subseteq Keep /\ \A q \in DOMAIN m : m[q] \in V
  BY ListingFacts
<1>2. x \in V /\ Copies = UNION {[D -> V] : D \in SUBSET Keep}
  BY DEF Copies
<1>. HIDE DEF V
<1>3. insert(m, p, x) \in [DOMAIN m \cup {p} -> V] /\ DOMAIN m \cup {p} \in SUBSET Keep
  BY <1>1, <1>2 DEF insert
<1>4. retain(m, S) \in [DOMAIN m \cap S -> V] /\ DOMAIN m \cap S \in SUBSET Keep
  BY <1>1 DEF retain
<1>. QED  BY <1>2, <1>3, <1>4

(* A step of the replay leaves the tree and the walks as they are. *)
LEMMA QuietReplay ==
    ASSUME SyncIInv, UNCHANGED Replaying, copy' \in Copies, replay' \in Replay, rounds' \in Nat,
           replay'.written \subseteq replay'.todo, Replayed'
    PROVE  SyncIInv'
<1>1. UNCHANGED <<fs, clock, walk, snaps, touched, moved, walks>>
  BY DEF Replaying
<1>2. SyncShapes'
  BY <1>1 DEF SyncIInv, SyncShapes, Running
<1>3. Recorded'
  BY <1>1, SMT DEF SyncIInv, Recorded, Faithful, Full, Kept, Apart, Resolve
<1>4. Found'
  BY <1>1 DEF SyncIInv, Found, Faithful, Kept, Apart, Resolve
<1>5. Pending'
  BY <1>1 DEF SyncIInv, Pending, Kept, Above
<1>6. FailuresHaveCause'
  BY <1>1 DEF SyncIInv, FailuresHaveCause, Resolve
<1>. QED  BY <1>2, <1>3, <1>4, <1>5, <1>6 DEF SyncIInv

(* The difference to a walk is all there is to do. *)
LEMMA BeginReplayIInv ==
    ASSUME SyncIInv, NEW i \in 1 .. Len(snaps), BeginReplay(i)
    PROVE  SyncIInv'
<1>. DEFINE diff == diff_entries(Entries(copy), Entries(snaps[i]))
<1>1. /\ replay' = [at |-> "running", snap |-> i, written |-> {}, todo |-> ChangedPaths(diff)]
      /\ UNCHANGED <<Replaying, copy>> /\ UNCHANGED snaps /\ rounds' = rounds + 1
  BY DEF BeginReplay, Replaying
<1>2. /\ copy \in Copies /\ snaps[i] \in Listings /\ rounds \in Nat
      /\ DOMAIN copy \subseteq Keep /\ DOMAIN snaps[i] \subseteq Keep
  BY ListingFacts, SMT DEF SyncIInv, SyncShapes
<1>3. ChangedPaths(diff) \subseteq Keep
  BY <1>2, DiffFacts, EntryFacts
<1>4. \A p : p \notin ChangedPaths(diff) =>
          /\ p \in DOMAIN copy <=> p \in DOMAIN Entries(snaps[i])
          /\ p \in DOMAIN copy => /\ copy[p].size = Entries(snaps[i])[p].size
                                 /\ copy[p].mode = Entries(snaps[i])[p].mode
                                 /\ from_system_time(copy[p].mtime) = Entries(snaps[i])[p].mtime
  BY DiffFacts, EntryFacts, SMT
<1>. HIDE DEF diff
<1>5. /\ replay' \in Replay /\ replay'.at = "running" /\ replay'.snap = i
      /\ replay'.written = {} /\ replay'.todo = ChangedPaths(diff)
  BY <1>1, <1>3, SMT DEF Replay
<1>6. Target' = Entries(snaps[i])
  BY <1>1, <1>5 DEF Target
<1>7. Replayed'
  BY <1>1, <1>4, <1>5, <1>6, SMT DEF Replayed, Agrees, SameButTime
<1>. QED  BY <1>1, <1>2, <1>5, <1>7, QuietReplay, SMT

(* One path of the difference is done, or half done. *)
LEMMA ReplayStepIInv ==
    ASSUME SyncIInv, NEW e \in Paths, ReplayDelete(e) \/ ReplayWrite(e) \/ ReplayMtime(e)
    PROVE  SyncIInv'
<1>1. /\ replay \in Replay /\ copy \in Copies /\ replay.written \subseteq replay.todo
      /\ rounds \in Nat /\ clock \in Int
  BY DEF SyncIInv, SyncShapes
<1>2. e \in replay.todo /\ e \in Keep /\ UNCHANGED <<Replaying, rounds>> /\ UNCHANGED snaps
  BY <1>1 DEF ReplayDelete, ReplayWrite, ReplayMtime, Replaying, Replay
<1>3. replay.at = "running"
  BY <1>2 DEF SyncIInv, Replayed
<1>4. /\ replay.snap <= Len(snaps)
      /\ \A p \in Keep \ replay.todo : Agrees(p)
      /\ \A p \in replay.written : p \in DOMAIN copy /\ p \in DOMAIN Target /\ SameButTime(p)
  BY <1>3 DEF SyncIInv, Replayed
<1>5. ASSUME NEW T \in SUBSET Keep, NEW W \in SUBSET T, W \subseteq replay.written \cup {e},
             replay.todo \subseteq T \cup {e},
             replay' = [replay EXCEPT !.todo = T, !.written = W],
             copy' \in Copies,
             \A p \in DOMAIN copy \cup DOMAIN copy' : p # e =>
                p \in DOMAIN copy /\ p \in DOMAIN copy' /\ copy'[p] = copy[p],
             Target' = Target => /\ e \notin T => Agrees(e)'
                                 /\ e \in W => e \in DOMAIN copy' /\ e \in DOMAIN Target
                                                /\ SameButTime(e)'
      PROVE  SyncIInv'
  <2>1. /\ replay' \in Replay /\ replay'.at = "running" /\ replay'.snap = replay.snap
        /\ replay'.todo = T /\ replay'.written = W
    BY <1>1, <1>3, <1>5 DEF Replay
  <2>2. Target' = Target
    BY <1>2, <2>1 DEF Target
  <2>3. ASSUME NEW p \in Keep \ T PROVE Agrees(p)'
    <3>1. CASE p = e
      BY <1>5, <2>2, <3>1
    <3>2. CASE p # e
      BY <1>4, <1>5, <2>2, <3>2 DEF Agrees, SameButTime
    <3>. QED  BY <3>1, <3>2
  <2>4. ASSUME NEW p \in W PROVE p \in DOMAIN copy' /\ p \in DOMAIN Target' /\ SameButTime(p)'
    <3>1. CASE p = e
      BY <1>5, <2>2, <3>1
    <3>2. CASE p # e
      BY <1>4, <1>5, <2>2, <3>2 DEF SameButTime
    <3>. QED  BY <3>1, <3>2
  <2>5. Replayed'
    BY <1>2, <1>4, <2>1, <2>3, <2>4 DEF Replayed
  <2>. QED  BY <1>1, <1>2, <1>5, <2>1, <2>5, QuietReplay
<1>6. CASE ReplayDelete(e)
  <2>1. /\ e \notin DOMAIN Target /\ copy' = retain(copy, DOMAIN copy \ {e})
        /\ replay' = [replay EXCEPT !.todo = replay.todo \ {e}, !.written = replay.written \ {e}]
    <3>1. e \notin replay.written
      BY <1>4, <1>6 DEF ReplayDelete
    <3>2. replay' = [replay EXCEPT !.todo = replay.todo \ {e}] /\ replay.written = replay.written \ {e}
      BY <1>6, <3>1 DEF ReplayDelete
    <3>3. replay' = [replay EXCEPT !.todo = replay.todo \ {e}, !.written = replay.written]
      BY <1>1, <3>2 DEF Replay
    <3>. QED  BY <1>6, <3>2, <3>3 DEF ReplayDelete
  <2>2. copy' \in Copies
    <3>1. [size |-> 0, mtime |-> 0, mode |-> 0] \in [size : Nat, mtime : Int, mode : {0, 1}]
      BY SMT
    <3>. QED  BY <1>1, <1>2, <2>1, <3>1, CopyFacts
  <2>3. /\ DOMAIN copy' = DOMAIN copy \ {e}
        /\ \A p \in DOMAIN copy' : copy'[p] = copy[p]
    BY <2>1 DEF retain
  <2>4. Target' = Target => Agrees(e)'
    BY <2>1, <2>3 DEF Agrees
  <2>5. replay.todo \ {e} \in SUBSET Keep /\ replay.written \ {e} \in SUBSET (replay.todo \ {e})
    BY <1>1 DEF Replay
  <2>9. PICK T, W : T = replay.todo \ {e} /\ W = replay.written \ {e}
    OBVIOUS
  <2>10. /\ T \in SUBSET Keep /\ W \in SUBSET T /\ W \subseteq replay.written \cup {e}
         /\ replay.todo \subseteq T \cup {e}
         /\ replay' = [replay EXCEPT !.todo = T, !.written = W]
    BY <1>2, <2>1, <2>5, <2>9
  <2>11. \A p \in DOMAIN copy \cup DOMAIN copy' : p # e =>
            p \in DOMAIN copy /\ p \in DOMAIN copy' /\ copy'[p] = copy[p]
    BY <2>3
  <2>12. e \notin W
    BY <2>9
  <2>. QED  BY <1>5, <2>2, <2>4, <2>10, <2>11, <2>12
<1>7. CASE ReplayWrite(e)
  <2>. DEFINE x == [Target[e] EXCEPT !.mtime = clock + MaxChanges + rounds]
  <2>1. /\ e \in DOMAIN Target /\ copy' = insert(copy, e, x)
        /\ replay' = [replay EXCEPT !.todo = replay.todo, !.written = replay.written \cup {e}]
    BY <1>1, <1>7 DEF ReplayWrite, Replay
  <2>2. Target[e] \in [size : Nat, mtime : Int, mode : {0, 1}]
    BY <1>3, <2>1, TargetFacts
  <2>3. /\ x \in [size : Nat, mtime : Int, mode : {0, 1}]
        /\ x.size = Target[e].size /\ x.mode = Target[e].mode
    BY <1>1, <2>2, SyncAssumption, SMT
  <2>. HIDE DEF x
  <2>4. copy' \in Copies
    BY <1>1, <1>2, <2>1, <2>3, CopyFacts
  <2>5. /\ DOMAIN copy' = DOMAIN copy \cup {e} /\ copy'[e] = x
        /\ \A p \in DOMAIN copy : p # e => copy'[p] = copy[p]
    BY <2>1 DEF insert
  <2>6. Target' = Target => SameButTime(e)'
    BY <2>3, <2>5 DEF SameButTime
  <2>7. replay.todo \in SUBSET Keep /\ replay.written \cup {e} \in SUBSET replay.todo
    BY <1>1, <1>2 DEF Replay
  <2>9. PICK T, W : T = replay.todo /\ W = replay.written \cup {e}
    OBVIOUS
  <2>10. /\ T \in SUBSET Keep /\ W \in SUBSET T /\ W \subseteq replay.written \cup {e}
         /\ replay.todo \subseteq T \cup {e}
         /\ replay' = [replay EXCEPT !.todo = T, !.written = W]
    BY <1>2, <2>1, <2>7, <2>9
  <2>11. \A p \in DOMAIN copy \cup DOMAIN copy' : p # e =>
            p \in DOMAIN copy /\ p \in DOMAIN copy' /\ copy'[p] = copy[p]
    BY <2>5
  <2>12. e \in T /\ e \in DOMAIN copy'
    BY <1>2, <2>5, <2>9
  <2>. QED  BY <1>5, <2>1, <2>4, <2>6, <2>10, <2>11, <2>12
<1>8. CASE ReplayMtime(e)
  <2>. DEFINE x == apply_mtime(copy[e], Target[e].mtime)
  <2>1. /\ e \in DOMAIN Target /\ e \in DOMAIN copy /\ SameButTime(e)
        /\ copy' = [copy EXCEPT ![e] = x]
        /\ replay' = [replay EXCEPT !.todo = replay.todo \ {e}, !.written = replay.written \ {e}]
    BY <1>4, <1>8 DEF ReplayMtime
  <2>2. /\ copy[e] \in [size : Nat, mtime : Int, mode : {0, 1}]
        /\ Target[e] \in [size : Nat, mtime : Int, mode : {0, 1}]
    BY <1>1, <1>3, <2>1, TargetFacts, ListingFacts
  <2>3. /\ x \in [size : Nat, mtime : Int, mode : {0, 1}]
        /\ x.size = Target[e].size /\ x.mode = Target[e].mode
        /\ is_known(Target[e].mtime) => from_system_time(x.mtime) = Target[e].mtime
    <3>1. CASE is_known(Target[e].mtime)
      <4>1. x = [copy[e] EXCEPT !.mtime = Target[e].mtime]
        BY <3>1 DEF apply_mtime
      <4>. QED  BY <2>1, <2>2, <3>1, <4>1, EntryFacts DEF SameButTime
    <3>2. CASE ~is_known(Target[e].mtime)
      BY <2>1, <2>2, <3>2 DEF apply_mtime, SameButTime
    <3>. QED  BY <3>1, <3>2
  <2>. HIDE DEF x
  <2>4. copy' = insert(copy, e, x)
    <3>1. copy \in [DOMAIN copy -> [size : Nat, mtime : Int, mode : {0, 1}]]
      BY <1>1 DEF Copies
    <3>. QED  BY <2>1, <3>1 DEF insert
  <2>5. copy' \in Copies
    BY <1>1, <1>2, <2>3, <2>4, CopyFacts
  <2>6. /\ DOMAIN copy' = DOMAIN copy /\ copy'[e] = x
        /\ \A p \in DOMAIN copy : p # e => copy'[p] = copy[p]
    BY <2>1
  <2>7. Target' = Target => Agrees(e)'
    BY <2>1, <2>3, <2>6 DEF Agrees, SameButTime
  <2>8. replay.todo \ {e} \in SUBSET Keep /\ replay.written \ {e} \in SUBSET (replay.todo \ {e})
    BY <1>1 DEF Replay
  <2>9. PICK T, W : T = replay.todo \ {e} /\ W = replay.written \ {e}
    OBVIOUS
  <2>10. /\ T \in SUBSET Keep /\ W \in SUBSET T /\ W \subseteq replay.written \cup {e}
         /\ replay.todo \subseteq T \cup {e}
         /\ replay' = [replay EXCEPT !.todo = T, !.written = W]
    BY <1>2, <2>1, <2>8, <2>9
  <2>11. \A p \in DOMAIN copy \cup DOMAIN copy' : p # e =>
            p \in DOMAIN copy /\ p \in DOMAIN copy' /\ copy'[p] = copy[p]
    BY <2>6
  <2>12. e \notin W
    BY <2>9
  <2>. QED  BY <1>5, <2>5, <2>7, <2>10, <2>11, <2>12
<1>. QED  BY <1>6, <1>7, <1>8

(* A round ends with nothing left to do, or stops. *)
LEMMA EndReplayIInv ==
    ASSUME SyncIInv, EndReplay \/ StopReplay
    PROVE  SyncIInv'
<1>1. /\ replay \in Replay /\ copy \in Copies /\ rounds \in Nat /\ replay.at = "running"
      /\ UNCHANGED Replaying /\ UNCHANGED <<copy, rounds>> /\ UNCHANGED snaps
      /\ replay.written \subseteq replay.todo
  BY DEF SyncIInv, SyncShapes, EndReplay, StopReplay, Replaying
<1>2. CASE EndReplay
  <2>1. /\ replay' \in Replay /\ replay'.at = "done" /\ replay'.snap = replay.snap
        /\ replay'.todo = {} /\ replay'.written = {} /\ replay.todo = {}
    BY <1>1, <1>2 DEF EndReplay, Replay
  <2>2. Target' = Target
    BY <1>1, <2>1 DEF Target
  <2>3. Replayed'
    BY <1>1, <2>1, <2>2 DEF SyncIInv, Replayed, Agrees, SameButTime
  <2>. QED  BY <1>1, <2>1, <2>3, QuietReplay
<1>3. CASE StopReplay
  <2>1. replay' \in Replay /\ replay'.at = "idle" /\ replay'.todo = {} /\ replay'.written = {}
    BY <1>1, <1>3 DEF StopReplay, Replay
  <2>2. Replayed'
    BY <2>1 DEF Replayed
  <2>. QED  BY <1>1, <2>1, <2>2, QuietReplay
<1>. QED  BY <1>2, <1>3

(* Every step preserves SyncIInv. *)
LEMMA SyncNextIInv == SyncIInv /\ [SyncNext]_sync_vars => SyncIInv'
<1>. SUFFICES ASSUME SyncIInv, [SyncNext]_sync_vars PROVE SyncIInv'
  OBVIOUS
<1>1. CASE UNCHANGED sync_vars
  <2>1. UNCHANGED Replaying /\ UNCHANGED <<copy, replay, rounds, snaps>>
    BY <1>1 DEF sync_vars, sync_bounds, Replaying
  <2>2. Replayed'
    BY <2>1 DEF SyncIInv, Replayed, Agrees, SameButTime, Target
  <2>3. /\ copy' \in Copies /\ replay' \in Replay /\ rounds' \in Nat
        /\ replay'.written \subseteq replay'.todo
    BY <2>1 DEF SyncIInv, SyncShapes
  <2>. QED  BY <2>1, <2>2, <2>3, QuietReplay
<1>2. ASSUME NEW q \in Paths, Disturb(q) PROVE SyncIInv'
  BY <1>2, DisturbIInv
<1>3. CASE WalkStep
  BY <1>3, OpenIInv, EnumerateIInv, EndEnumerationIInv, StatIInv, EndWalkIInv DEF WalkStep
<1>. QED  BY <1>1, <1>2, <1>3, BeginWalkIInv, BeginReplayIInv, ReplayStepIInv, EndReplayIInv
          DEF SyncNext, Disturb

-----------------------------------------------------------------------------
(* The tree stays a tree, a walk lists only what the predicate keeps, and  *)
(* replay never makes a file that it does not.                             *)
THEOREM SyncTypeCorrect == SyncSpec => []SyncTypeOK
<1>1. ASSUME SyncIInv PROVE SyncTypeOK
  <2>1. /\ walk.at \in {"idle", "enumerate", "stat", "done", "failed"}
        /\ walk.open \cup walk.look \cup walk.entries \subseteq Paths \cup {Root}
        /\ walk.collected \in Listings
    BY <1>1, SyncAssumption DEF SyncIInv, SyncShapes, Walk
  <2>2. DOMAIN walk.collected \subseteq Keep /\ DOMAIN copy \subseteq Keep
    BY <1>1, <2>1, ListingFacts DEF SyncIInv, SyncShapes
  <2>3. Len(snaps) <= walks /\ walks <= MaxWalks
    <3>1. Len(snaps) \in Nat /\ walks \in Nat /\ walks <= MaxWalks
      BY <1>1, SyncAssumption, SMT DEF SyncIInv, SyncShapes
    <3>2. Len(snaps) + 1 <= walks \/ Len(snaps) + 0 <= walks
      BY <1>1 DEF SyncIInv, SyncShapes
    <3>. QED  BY <3>1, <3>2, SMT
  <2>4. replay.at \in {"idle", "running", "done"}
    BY <1>1 DEF SyncIInv, SyncShapes, Replay
  <2>. QED  BY <1>1, <2>1, <2>2, <2>3, <2>4 DEF SyncIInv, SyncShapes, SyncTypeOK
<1>. QED  BY <1>1, SyncInitIInv, SyncNextIInv, PTL DEF SyncSpec

(* A walk_dir_with that returned Ok has every regular file it has to       *)
(* return, with its metadata, and lists nothing excluded, as far as nobody *)
(* touched them since it began, however the rest of the tree changed.      *)
THEOREM WalkIsCompleteHolds == SyncSpec => []WalkIsComplete
<1>1. ASSUME SyncIInv PROVE WalkIsComplete
  <2>. SUFFICES ASSUME walk.at = "done", NEW p \in Paths \ touched
                PROVE  /\ p \in DOMAIN walk.collected => Kept(p)
                       /\ fs[p].kind = "file" /\ p \in Keep =>
                             p \in DOMAIN walk.collected /\ walk.collected[p] = fs[p]
    BY DEF WalkIsComplete, Kept
  <2>1. Kept(p) => p \in DOMAIN walk.collected
    BY <1>1 DEF SyncIInv, Found, Pending
  <2>2. p \in DOMAIN walk.collected =>
            Kept(p) /\ (fs[p].kind = "file" => walk.collected[p] = fs[p])
    BY <1>1 DEF SyncIInv, Found, Faithful, Apart, Resolve
  <2>3. fs[p].kind = "file" /\ p \in Keep => Kept(p)
    BY NodeFacts DEF Kept, IsDir
  <2>. QED  BY <2>1, <2>2, <2>3
<1>. QED  BY <1>1, SyncInitIInv, SyncNextIInv, PTL DEF SyncSpec

(* A walk_dir_with that returned an error had a cause to.                  *)
THEOREM FailuresHaveCauseHolds == SyncSpec => []FailuresHaveCause
<1>1. SyncIInv => FailuresHaveCause
  BY DEF SyncIInv
<1>. QED  BY <1>1, SyncInitIInv, SyncNextIInv, PTL DEF SyncSpec

(* diff_entries of two walks reports only files that were changed, or      *)
(* whose link leads to what was.                                           *)
THEOREM NoPhantomChangeHolds == SyncSpec => []NoPhantomChange
<1>1. ASSUME SyncIInv PROVE NoPhantomChange
  <2>. SUFFICES ASSUME Len(snaps) = 2, NEW p \in ChangedPaths(Diff), p \notin moved, Apart(moved, p)
                PROVE  FALSE
    BY DEF NoPhantomChange, Apart
  <2>1. PICK a \in Listings, b \in Listings : a = snaps[1] /\ b = snaps[2]
    BY <1>1, SMT DEF SyncIInv, SyncShapes
  <2>2. Faithful(moved, a) /\ Full(moved, a) /\ Faithful(moved, b) /\ Full(moved, b)
    BY <1>1, <2>1, SMT DEF SyncIInv, Recorded
  <2>3. p \in DOMAIN a \cup DOMAIN b
    BY <2>1, DiffFacts, EntryFacts, SMT DEF Diff
  <2>4. p \in Paths /\ Kept(p)
    BY <2>2, <2>3, ListingFacts, SyncAssumption DEF Faithful
  <2>5. p \in DOMAIN a /\ p \in DOMAIN b /\ a[p] = b[p]
    BY <2>2, <2>4 DEF Faithful, Full
  <2>6. Entries(a)[p] = Entries(b)[p] /\ p \in DOMAIN Entries(a) /\ p \in DOMAIN Entries(b)
    BY <2>5 DEF Entries
  <2>. QED  BY <2>1, <2>6 DEF Diff, ChangedPaths, diff_entries, signature_changed
<1>. QED  BY <1>1, SyncInitIInv, SyncNextIInv, PTL DEF SyncSpec

(* diff_entries reports every change of mode or of a known time that two   *)
(* walks saw, down to the unit of the clock.                               *)
THEOREM EditsAreSeenHolds == SyncSpec => []EditsAreSeen
<1>1. ASSUME SyncIInv PROVE EditsAreSeen
  <2>0. Len(snaps) = 2 => snaps[1] \in Listings /\ snaps[2] \in Listings
    <3>1. snaps \in Seq(Listings)
      BY <1>1 DEF SyncIInv, SyncShapes
    <3>2. \A i \in 1 .. Len(snaps) : snaps[i] \in Listings
      BY <3>1, SMT
    <3>. QED  BY <3>2, SMT
  <2>. SUFFICES ASSUME Len(snaps) = 2, NEW p \in DOMAIN snaps[1] \cap DOMAIN snaps[2],
                       \/ snaps[1][p].mode # snaps[2][p].mode
                       \/ /\ snaps[1][p].mtime # snaps[2][p].mtime
                          /\ is_known(snaps[1][p].mtime) \/ is_known(snaps[2][p].mtime)
                PROVE  p \in Diff.modified
    BY DEF EditsAreSeen
  <2>1. PICK a \in Listings, b \in Listings : a = snaps[1] /\ b = snaps[2]
    BY <2>0
  <2>2. a[p].mtime \in Int /\ b[p].mtime \in Int
    BY <2>1, ListingFacts DEF Metadata
  <2>3. signature_changed(Entries(a)[p], Entries(b)[p])
    BY <2>1, <2>2, EntryFacts, SMT DEF signature_changed, from_system_time, is_known
  <2>4. p \in DOMAIN Entries(a) \cap DOMAIN Entries(b)
    BY <2>1, EntryFacts
  <2>. QED  BY <2>1, <2>3, <2>4 DEF Diff, diff_entries
<1>. QED  BY <1>1, SyncInitIInv, SyncNextIInv, PTL DEF SyncSpec

(* A round of replay that ran to its end leaves the copy as the walk has   *)
(* it, but for unknown times, whatever rounds stopped before it.           *)
THEOREM ReplayConvergesHolds == SyncSpec => []ReplayConverges
<1>1. ASSUME SyncIInv PROVE ReplayConverges
  <2>. DEFINE left == diff_entries(Entries(copy), Target)
  <2>. SUFFICES ASSUME replay.at = "done"
                PROVE  /\ left.added = {} /\ left.removed = {}
                       /\ \A p \in left.modified : ~is_known(Target[p].mtime)
    BY DEF ReplayConverges
  <2>1. /\ left.added = DOMAIN Target \ DOMAIN Entries(copy)
        /\ left.removed = DOMAIN Entries(copy) \ DOMAIN Target
        /\ left.modified = {p \in DOMAIN Entries(copy) \cap DOMAIN Target :
                                signature_changed(Entries(copy)[p], Target[p])}
    BY DEF diff_entries
  <2>. HIDE DEF left
  <2>2. \A p \in Keep : Agrees(p)
    BY <1>1 DEF SyncIInv, Replayed
  <2>3. DOMAIN Target \subseteq Keep /\ DOMAIN copy \subseteq Keep /\ DOMAIN Entries(copy) = DOMAIN copy
    BY <1>1, TargetFacts, ListingFacts, EntryFacts DEF SyncIInv, SyncShapes
  <2>4. DOMAIN copy = DOMAIN Target
    BY <2>2, <2>3 DEF Agrees
  <2>5. ASSUME NEW p \in left.modified, is_known(Target[p].mtime) PROVE FALSE
    <3>1. p \in DOMAIN copy /\ p \in Keep /\ signature_changed(Entries(copy)[p], Target[p])
      BY <2>1, <2>3, <2>5
    <3>2. /\ copy[p].size = Target[p].size /\ copy[p].mode = Target[p].mode
          /\ from_system_time(copy[p].mtime) = Target[p].mtime
      BY <2>2, <2>5, <3>1 DEF Agrees, SameButTime
    <3>. QED  BY <3>1, <3>2, EntryFacts DEF signature_changed
  <2>. QED  BY <2>1, <2>3, <2>4, <2>5
<1>. QED  BY <1>1, SyncInitIInv, SyncNextIInv, PTL DEF SyncSpec

=============================================================================
