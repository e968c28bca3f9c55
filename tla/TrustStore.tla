----------------------------- MODULE TrustStore -----------------------------
(***************************************************************************)
(* TrustStore of src/src/trust.rs: the registry in memory, behind a        *)
(* RwLock, and its file: add, remove and save from any thread, crashes,    *)
(* and load_from_path after them.                                          *)
(*                                                                         *)
(* An entry is its display name and its rate.  added_at_unix is not in the *)
(* file and nothing reads it.  Of a display name only what the file format *)
(* tells apart is kept: "plain", "padded" (with blanks around it), or      *)
(* "broken": with the colon or the line break that the parser cuts at.     *)
(* Names are written as they are, so what becomes of a broken one, and of  *)
(* the file, depends on the rest of it; the model leaves that open.        *)
(***************************************************************************)
EXTENDS Naturals, FiniteSets, HashMap

CONSTANTS
    Nodes,       \* numbered in the order of their id strings, the order of the file
    Names,       \* the kinds of display names that operators use
    Rates,
    Savers,      \* threads that call save
    MaxEdits,    \* bound: changes of the registry
    MaxSaves,    \* bound: calls of save
    MaxCrashes   \* bound: crashes of the process

ASSUME TrustAssumption ==
    /\ Nodes \subseteq Nat \ {0}
    /\ Names \subseteq {"plain", "padded", "broken"}
    /\ Rates \subseteq Nat

VARIABLES
    inner,    \* the registry: node -> entry
    saver,    \* each thread in save: idle, or with its snapshot
    file,     \* the file at the path of the store
    up,       \* the process runs, with a registry in memory
    alone,    \* history: the save that no other save has overlapped so far
    revoked,  \* history: how far the removal of a node got into the file
    saved,    \* history: what the last save that returned had to write; intact: it
              \*   ran alone and no write has begun since
    edits, saves, crashes

bounds == <<edits, saves, crashes>>
history == <<alone, revoked, saved>>
vars == <<inner, saver, file, up, history, bounds>>

TrustEntry == [display_name : {"plain", "padded", "broken"}, rate_limit_per_min : Nat]
IsRegistry(m) == DOMAIN m \subseteq Nodes /\ m \in [DOMAIN m -> TrustEntry]

Broken(entries) == \E n \in DOMAIN entries : entries[n].display_name = "broken"

(* The file that holds these lines; "odd": with a broken name among them.  *)
Lines(entries) == [kind |-> IF Broken(entries) THEN "odd" ELSE "ok", entries |-> entries]

Idle  == [at |-> "idle", entries |-> empty]
Blank == Lines(empty)
Others(s) == {t \in Savers \ {s} : saver[t].at # "idle"}

(* A node was not removed, or was added again since, by add or by what     *)
(* parse made of a broken name; or its removal is in memory only, in the   *)
(* snapshot of a save that runs alone, in the file of one that returned.   *)
Revocation == {"no", "memory", "snapshot", "file"}

TypeOK ==
    /\ IsRegistry(inner)
    /\ DOMAIN saver = Savers
    /\ \A s \in Savers : saver[s].at \in {"idle", "snapshot", "writing"}
                          /\ IsRegistry(saver[s].entries)
    /\ file.kind \in {"absent", "ok", "odd", "malformed"} /\ IsRegistry(file.entries)
    /\ up \in BOOLEAN
    /\ alone \subseteq Savers
    /\ revoked \in [Nodes -> Revocation]
    /\ IsRegistry(saved.entries) /\ saved.intact \in BOOLEAN
    /\ edits \in Nat /\ saves \in Nat /\ crashes \in Nat

Init ==
    /\ inner = empty
    /\ saver = [s \in Savers |-> Idle]
    /\ file = [kind |-> "absent", entries |-> empty]
    /\ up = TRUE
    /\ alone = {}
    /\ revoked = [n \in Nodes |-> "no"]
    /\ saved = [entries |-> empty, intact |-> FALSE]
    /\ edits = 0 /\ saves = 0 /\ crashes = 0

-----------------------------------------------------------------------------
Edit ==
    /\ up
    /\ edits < MaxEdits
    /\ edits' = edits + 1
    /\ UNCHANGED <<saver, file, up, alone, saved, saves, crashes>>

(* add and add_at *)
Add(n, name, r) ==
    /\ Edit
    /\ inner' = insert(inner, n, [display_name |-> name, rate_limit_per_min |-> r])
    /\ revoked' = [revoked EXCEPT ![n] = "no"]

Remove(n) ==
    /\ Edit
    /\ inner' = retain(inner, Nodes \ {n})
    /\ revoked' = [revoked EXCEPT ![n] = IF @ = "no" THEN "memory" ELSE @]

-----------------------------------------------------------------------------
Revocations(from, to) ==
    revoked' = [n \in Nodes |-> IF revoked[n] = from THEN to ELSE revoked[n]]

(* Mutant of snapshot: the list of the last save is used as long as the    *)
(* number of nodes is the same.                                            *)
snapshot_cached ==
    IF Cardinality(DOMAIN inner) = Cardinality(DOMAIN saved.entries) THEN saved.entries ELSE inner

(* list() *)
snapshot == inner

(* save: list() under the lock, then std::fs::write without it, which      *)
(* truncates the file and then writes it                                   *)
SaveSnapshot(s) ==
    /\ up
    /\ saver[s].at = "idle"
    /\ saves < MaxSaves
    /\ saves' = saves + 1
    /\ saver' = [saver EXCEPT ![s] = [at |-> "snapshot", entries |-> snapshot]]
    /\ alone' = IF Others(s) = {} THEN {s} ELSE {}
    /\ IF Others(s) = {} THEN Revocations("memory", "snapshot")
       ELSE Revocations("snapshot", "memory")
    /\ UNCHANGED <<inner, file, up, saved, edits, crashes>>

(* Mutant of SaveTruncate: the file is opened without being truncated. *)
SaveTruncate_not(s) ==
    /\ saver[s].at = "snapshot"
    /\ saver' = [saver EXCEPT ![s].at = "writing"]
    /\ saved' = [saved EXCEPT !.intact = FALSE]
    /\ UNCHANGED <<inner, file, up, alone, revoked, bounds>>

SaveTruncate(s) ==
    /\ saver[s].at = "snapshot"
    /\ saver' = [saver EXCEPT ![s].at = "writing"]
    /\ file' = Blank
    /\ saved' = [saved EXCEPT !.intact = FALSE]
    /\ UNCHANGED <<inner, up, alone, revoked, bounds>>

(* Mutant of body: the rate is left out and read as 0. *)
body_without_rate(entries) ==
    [n \in DOMAIN entries |-> [entries[n] EXCEPT !.rate_limit_per_min = 0]]

(* one line per entry *)
body(entries) == entries

(* the registry read from the lines of new, and after them those of rest *)
Followed(new, rest) ==
    [n \in DOMAIN new \cup rest |-> IF n \in rest THEN file.entries[n] ELSE new[n]]

(* What the file holds after new is written from its start: new, and after *)
(* it the rest of what another save wrote since the truncation.  That rest *)
(* begins with whole lines or with a line cut at its front, which does not *)
(* parse or names no node, unless it was cut in a broken name.             *)
Onto(new) ==
    IF file = Blank THEN {new}
    ELSE {new} \cup {[kind |-> k, entries |-> Followed(new.entries, rest)] :
                      k \in {new.kind, "malformed"} \cup ({file.kind} \cap {"odd"}),
                      rest \in {{n \in DOMAIN file.entries : n > i} : i \in Nodes \cup {0}}}

SaveReturns(s) ==
    /\ saver[s].at = "writing"
    /\ file' \in Onto(Lines(body(saver[s].entries)))
    /\ saved' = [entries |-> saver[s].entries, intact |-> s \in alone]
    /\ saver' = [saver EXCEPT ![s] = Idle]
    /\ alone' = {}
    /\ IF s \in alone THEN Revocations("snapshot", "file") ELSE UNCHANGED revoked
    /\ UNCHANGED <<inner, up, bounds>>

(* What a write that stops half way leaves: the first lines, and maybe one *)
(* without its closing quote, which does not parse, unless its name is     *)
(* broken.                                                                 *)
CutFiles(entries) ==
    LET before(k) == retain(entries, {n \in DOMAIN entries : n < k})
        whole == {Lines(before(k)) : k \in DOMAIN entries} \cup {Lines(entries)}
        cut   == {[kind |-> "malformed", entries |-> before(k)] : k \in DOMAIN entries}
        odd   == {[kind |-> "odd", entries |-> before(k)] :
                     k \in {n \in DOMAIN entries : entries[n].display_name = "broken"}}
    IN UNION {Onto(new) : new \in whole \cup cut \cup odd}

SaveFails(s) ==
    /\ \/ saver[s].at = "snapshot" /\ UNCHANGED file
       \/ saver[s].at = "writing" /\ file' \in CutFiles(body(saver[s].entries))
    /\ saver' = [saver EXCEPT ![s] = Idle]
    /\ alone' = {}
    /\ Revocations("snapshot", "memory")
    /\ UNCHANGED <<inner, up, saved, bounds>>

-----------------------------------------------------------------------------
Crash ==
    /\ up
    /\ crashes < MaxCrashes
    /\ crashes' = crashes + 1
    /\ up' = FALSE
    /\ \/ UNCHANGED file
       \/ \E s \in Savers : saver[s].at = "writing" /\ file' \in CutFiles(body(saver[s].entries))
    /\ inner' = empty
    /\ saver' = [s \in Savers |-> Idle]
    /\ alone' = {}
    /\ revoked' = [n \in Nodes |-> IF revoked[n] = "file" THEN "file" ELSE "no"]
    /\ UNCHANGED <<saved, edits, saves>>

(* Mutant of trim: nothing is left of the name. *)
trim_all(name) == ""

trim(name) == IF name = "padded" THEN "plain" ELSE name

(* parse: what can come of the file other than an error.  Every whole line *)
(* gives its node, also one that a broken name cuts in two; but then the   *)
(* rate is what the name has before the line break, and what it has after  *)
(* it may be lines of other nodes.                                         *)
parse ==
    CASE file.kind = "malformed" -> {}
      [] file.kind = "odd" ->
            {m \in UNION {[S -> [display_name : {"plain"}, rate_limit_per_min : Rates \cup {0}]] :
                             S \in SUBSET Nodes} : DOMAIN file.entries \subseteq DOMAIN m}
      [] OTHER ->
            {[n \in DOMAIN file.entries |->
                [display_name       |-> trim(file.entries[n].display_name),
                 rate_limit_per_min |-> file.entries[n].rate_limit_per_min]]}

(* load_from_path.  An error leaves the process without a store: nothing   *)
(* makes Load happen, which covers the odd files that are refused.         *)
Load ==
    /\ ~up
    /\ inner' \in parse
    /\ up' = TRUE
    /\ revoked' = [n \in Nodes |->
          IF n \in DOMAIN inner' \ DOMAIN file.entries THEN "no" ELSE revoked[n]]
    /\ UNCHANGED <<saver, file, alone, saved, bounds>>

Next ==
    \/ \E n \in Nodes, name \in Names, r \in Rates : Add(n, name, r)
    \/ \E n \in Nodes : Remove(n)
    \/ \E s \in Savers : SaveSnapshot(s)
    \/ \E s \in Savers : SaveTruncate(s)
    \/ \E s \in Savers : SaveReturns(s)
    \/ \E s \in Savers : SaveFails(s)
    \/ Crash
    \/ Load

Spec == Init /\ [][Next]_vars

-----------------------------------------------------------------------------
(* A node that was removed before a save that returned and that no other   *)
(* overlapped, and not added since, is trusted at no later time: not after *)
(* a crash in the middle of a later save, nor after saves that fail or     *)
(* write over each other.  A load that makes a line of that node out of a  *)
(* broken name, which nothing in save prevents, counts as adding it.       *)
RevokedStaysOut == \A n \in Nodes : revoked[n] = "file" => n \notin DOMAIN inner

(* After a restart the registry has the nodes and the rates of the last    *)
(* save that returned, if no other save overlapped it, none has begun to   *)
(* write since, and it wrote no broken name.                               *)
SavedComesBack ==
    [][~up /\ up' /\ saved.intact /\ ~Broken(saved.entries) =>
          /\ DOMAIN inner' = DOMAIN saved.entries
          /\ \A n \in DOMAIN inner' :
                inner'[n].rate_limit_per_min = saved.entries[n].rate_limit_per_min]_vars

(* Whatever failed, overlapping or interrupted saves left in the file, a   *)
(* save that runs alone and returns leaves one that load_from_path takes,  *)
(* as long as no display name has a colon or a line break.                 *)
SavedLoads == saved.intact /\ ~Broken(saved.entries) => file.kind = "ok"

=============================================================================
