-------------------------------- MODULE Sync --------------------------------
(***************************************************************************)
(* The sync plane of src/src/sync.rs: walk_dir_with over a tree that other *)
(* programs change meanwhile, diff_entries of two walks, and apply_mtime   *)
(* on the copy that the differences are replayed to.                       *)
(*                                                                         *)
(* A time is a number of units since the epoch, Second units to a second.  *)
(* The clock moves with every write, so a time also tells which write of a *)
(* file was seen.  A list of entries, sorted by unique paths, is a function *)
(* from paths.  The executable flag follows from the mode and is left out. *)
(***************************************************************************)
EXTENDS Integers, Sequences, HashMap

CONSTANTS
    Paths,       \* the relative paths that can exist under the root
    Parent,      \* Paths -> directory that holds it
    Keep,        \* the paths that the predicate keeps
    Trees,       \* the trees to start from
    Sizes,
    Second,      \* units of time per second
    Epochs,      \* what the clock can show at first; negative: before the epoch
    MaxChanges,  \* bound: changes of the tree by other programs
    MaxWalks,    \* bound: calls of walk_dir_with
    MaxRounds    \* bound: rounds of replay

Root == ""

VARIABLES
    fs,       \* the tree: path -> node
    clock,
    walk,     \* the running walk
    snaps,    \* what the walks that returned Ok have collected
    copy,     \* the files on the other host: path -> metadata
    replay,   \* the running round of replay
    touched,  \* history: the paths changed since the walk began
    moved,    \* history: the paths changed since the first walk began
    changes, walks, rounds

sync_bounds == <<changes, walks, rounds>>
sync_vars == <<fs, clock, walk, snaps, copy, replay, touched, moved, sync_bounds>>

Absent == [kind |-> "absent"]
Link(to) == [kind |-> "link", to |-> to]
Node(kind, size, mode, t) == [kind |-> kind, size |-> size, mode |-> mode, mtime |-> t]
File(size, mode, t) == Node("file", size, mode, t)
Dir(t) == Node("dir", 0, 1, t)
IsDir(n) == n.kind \in {"dir", "closed"}     \* "closed": may not be read

Metadata == [kind : {"file", "dir", "closed"}, size : Nat, mode : {0, 1}, mtime : Int]
IsNode(n) == n \in {Absent} \cup [kind : {"link"}, to : Paths] \cup Metadata

(* Whatever exists is in a directory, and no link leads to a link. *)
IsTree(t) ==
    /\ DOMAIN t = Paths \cup {Root} /\ \A p \in DOMAIN t : IsNode(t[p])
    /\ t[Root].kind # "link"
    /\ \A p \in Paths : t[p] # Absent => IsDir(t[Parent[p]])
    /\ \A p \in Paths : t[p].kind = "link" => t[t[p].to].kind # "link"

(* The second conjunct: going up from a path ends at the root.             *)
ASSUME SyncAssumption ==
    /\ Root \notin Paths /\ Parent \in [Paths -> Paths \cup {Root}]
    /\ \A S \in SUBSET Paths : S # {} => \E p \in S : Parent[p] \notin S
    /\ \A t \in Trees : IsTree(t)
    /\ Keep \subseteq Paths /\ Sizes \subseteq Nat /\ Epochs \subseteq Int
    /\ Second \in Nat \ {0} /\ MaxChanges \in Nat /\ MaxWalks \in Nat

(* std::fs::metadata follows a link. *)
Resolve(p) == IF fs[p].kind = "link" THEN fs[fs[p].to] ELSE fs[p]
Children(d) == {p \in Paths : Parent[p] = d}

NoWalk == [at |-> "idle", open |-> {}, look |-> {}, entries |-> {}, collected |-> empty]
NoReplay == [at |-> "idle", snap |-> 1, todo |-> {}, written |-> {}]

SyncTypeOK ==
    /\ IsTree(fs)
    /\ walk.at \in {"idle", "enumerate", "stat", "done", "failed"}
    /\ walk.open \cup walk.look \cup walk.entries \subseteq Paths \cup {Root}
    /\ DOMAIN walk.collected \subseteq Keep
    /\ Len(snaps) <= walks /\ walks <= MaxWalks
    /\ DOMAIN copy \subseteq Keep
    /\ replay.at \in {"idle", "running", "done"} /\ replay.written \subseteq replay.todo
    /\ touched \subseteq moved

SyncInit ==
    /\ fs \in Trees
    /\ clock \in Epochs
    /\ walk = NoWalk /\ snaps = << >>
    /\ copy = empty /\ replay = NoReplay
    /\ touched = {} /\ moved = {}
    /\ changes = 0 /\ walks = 0 /\ rounds = 0

-----------------------------------------------------------------------------
(* What other programs do to the tree.  A name that comes or goes also sets *)
(* the time of its directory.  Only changes from the first walk to the end *)
(* of the last can matter.                                                 *)
Change(p, node) ==
    /\ walks > 0 /\ (walks < MaxWalks \/ walk.at \in {"enumerate", "stat"})
    /\ changes < MaxChanges
    /\ fs[Parent[p]].kind = "dir"
    /\ changes' = changes + 1
    /\ clock' = clock + 1
    /\ fs' = [fs EXCEPT ![p] = node,
                        ![Parent[p]].mtime =
                            IF fs[p] = Absent \/ node = Absent THEN clock + 1 ELSE @]
    /\ touched' = touched \cup {p}
    /\ moved' = moved \cup {p}
    /\ UNCHANGED <<walk, snaps, copy, replay, walks, rounds>>

WriteFile(p, size) ==
    \/ fs[p] = Absent /\ Change(p, File(size, 0, clock + 1))
    \/ fs[p].kind = "file" /\ Change(p, File(size, fs[p].mode, clock + 1))

MakeDirectory(p) == fs[p] = Absent /\ Change(p, Dir(clock + 1))

(* The mode of a file, or the right to read a directory; no time changes.  *)
Chmod(p) ==
    \/ fs[p].kind = "file" /\ Change(p, [fs[p] EXCEPT !.mode = 1 - @])
    \/ fs[p].kind = "dir" /\ Change(p, [fs[p] EXCEPT !.kind = "closed"])

Delete(p) ==
    /\ fs[p] # Absent
    /\ \A q \in Children(p) : fs[q] = Absent
    /\ Change(p, Absent)

-----------------------------------------------------------------------------
from_system_time(t) == IF t < 0 THEN 0 ELSE t     \* None, then Mtime::ZERO
is_known(mtime) == mtime > 0

build_entry(meta) ==
    [size |-> meta.size, mtime |-> from_system_time(meta.mtime), mode |-> meta.mode]

Entries(collected) == [p \in DOMAIN collected |-> build_entry(collected[p])]

Fail == walk' = [walk EXCEPT !.at = "failed"]
Tree == <<fs, clock, copy, replay, changes, rounds>>

(* the metadata of the root, before anything is enumerated *)
BeginWalk ==
    /\ walk.at \in {"idle", "done", "failed"}
    /\ walks < MaxWalks
    /\ walks' = walks + 1
    /\ touched' = {}
    /\ walk' = IF IsDir(fs[Root])
               THEN [NoWalk EXCEPT !.at = "enumerate", !.open = {Root}]
               ELSE [NoWalk EXCEPT !.at = "failed"]
    /\ UNCHANGED <<Tree, snaps, moved>>

(* Mutant of OpenDirectory: .filter_map(|e| e.ok()) in place of map_err. *)
OpenDirectory_skips(d) ==
    /\ walk.at = "enumerate"
    /\ d \in walk.open
    /\ walk' = [walk EXCEPT !.open = @ \ {d},
                            !.look = @ \cup (IF fs[d].kind = "dir" THEN Children(d) ELSE {})]
    /\ UNCHANGED <<Tree, snaps, touched, moved, walks>>

(* Mutant of OpenDirectory: an error is taken for transient and retried. *)
OpenDirectory_retries(d) ==
    /\ walk.at = "enumerate"
    /\ d \in walk.open
    /\ fs[d].kind = "dir"
    /\ walk' = [walk EXCEPT !.open = @ \ {d}, !.look = @ \cup Children(d)]
    /\ UNCHANGED <<Tree, snaps, touched, moved, walks>>

(* WalkDir opens a directory; its error ends the walk. *)
OpenDirectory(d) ==
    /\ walk.at = "enumerate"
    /\ d \in walk.open
    /\ IF fs[d].kind = "dir"
       THEN walk' = [walk EXCEPT !.open = @ \ {d}, !.look = @ \cup Children(d)]
       ELSE Fail
    /\ UNCHANGED <<Tree, snaps, touched, moved, walks>>

(* Mutant of keep: the predicate is not asked. *)
keep_all(p) == TRUE

keep(p) == p \in Keep

(* The listing reaches the place of p: p is yielded with the type it has   *)
(* now.  A directory is descended into whatever the predicate says of it,  *)
(* and only other entries go on to the second phase.                       *)
Enumerate(p) ==
    /\ walk.at = "enumerate"
    /\ p \in walk.look
    /\ LET seen == [walk EXCEPT !.look = @ \ {p}] IN
       walk' = CASE fs[p] = Absent -> seen
                 [] IsDir(fs[p]) -> [seen EXCEPT !.open = @ \cup {p}]
                 [] OTHER -> IF keep(p) THEN [seen EXCEPT !.entries = @ \cup {p}] ELSE seen
    /\ UNCHANGED <<Tree, snaps, touched, moved, walks>>

EndEnumeration ==
    /\ walk.at = "enumerate"
    /\ walk.open = {} /\ walk.look = {}
    /\ walk' = [walk EXCEPT !.at = "stat"]
    /\ UNCHANGED <<Tree, snaps, touched, moved, walks>>

(* Mutant of Stat: an entry that is no plain file is an error. *)
Stat_files_only(p) ==
    /\ walk.at = "stat"
    /\ p \in walk.entries
    /\ IF Resolve(p).kind = "file"
       THEN walk' = [walk EXCEPT !.entries = @ \ {p},
                                 !.collected = insert(@, p, Resolve(p))]
       ELSE Fail
    /\ UNCHANGED <<Tree, snaps, touched, moved, walks>>

(* The second phase, in one thread or in many: metadata of one entry.      *)
Stat(p) ==
    /\ walk.at = "stat"
    /\ p \in walk.entries
    /\ IF Resolve(p) # Absent
       THEN walk' = [walk EXCEPT !.entries = @ \ {p},
                                 !.collected = insert(@, p, Resolve(p))]
       ELSE Fail
    /\ UNCHANGED <<Tree, snaps, touched, moved, walks>>

(* Mutant of EndWalk: the list is taken while threads still work on it. *)
EndWalk_early ==
    /\ walk.at = "stat"
    /\ walk' = [walk EXCEPT !.at = "done"]
    /\ snaps' = Append(snaps, walk.collected)
    /\ UNCHANGED <<Tree, touched, moved, walks>>

EndWalk ==
    /\ walk.at = "stat"
    /\ walk.entries = {}
    /\ walk' = [walk EXCEPT !.at = "done"]
    /\ snaps' = Append(snaps, walk.collected)
    /\ UNCHANGED <<Tree, touched, moved, walks>>

-----------------------------------------------------------------------------
(* Mutant of signature_changed: times compared by the second. *)
signature_changed_secs(a, b) ==
    a.size # b.size \/ a.mtime \div Second # b.mtime \div Second \/ a.mode # b.mode

signature_changed(a, b) == a.size # b.size \/ a.mtime # b.mtime \/ a.mode # b.mode

diff_entries(source, target) ==
    [added    |-> DOMAIN target \ DOMAIN source,
     removed  |-> DOMAIN source \ DOMAIN target,
     modified |-> {p \in DOMAIN source \cap DOMAIN target :
                      signature_changed(source[p], target[p])}]

ChangedPaths(diff) == diff.added \cup diff.removed \cup diff.modified

(* Mutant of apply_mtime: whole seconds only. *)
apply_mtime_secs(file, mtime) ==
    IF is_known(mtime) THEN [file EXCEPT !.mtime = (mtime \div Second) * Second] ELSE file

apply_mtime(file, mtime) == IF is_known(mtime) THEN [file EXCEPT !.mtime = mtime] ELSE file

Target == Entries(snaps[replay.snap])
Replaying == <<fs, clock, walk, snaps, touched, moved, changes, walks>>

(* The other host takes the difference between its files and a walk.       *)
BeginReplay(i) ==
    /\ walks = MaxWalks /\ walk.at \in {"done", "failed"}
    /\ replay.at \in {"idle", "done"} /\ rounds < MaxRounds
    /\ rounds' = rounds + 1
    /\ replay.snap <= i
    /\ replay' = [at |-> "running", snap |-> i, written |-> {},
                  todo |-> ChangedPaths(diff_entries(Entries(copy), Entries(snaps[i])))]
    /\ UNCHANGED <<Replaying, copy>>

(* A file that is gone is deleted; the others are written, with the time   *)
(* of writing, and get their time from apply_mtime in a step of its own.   *)
ReplayDelete(p) ==
    /\ p \in replay.todo /\ p \notin DOMAIN Target
    /\ copy' = retain(copy, DOMAIN copy \ {p})
    /\ replay' = [replay EXCEPT !.todo = @ \ {p}]
    /\ UNCHANGED <<Replaying, rounds>>

ReplayWrite(p) ==
    /\ p \in replay.todo /\ p \in DOMAIN Target /\ replay.written = {}
    /\ copy' = insert(copy, p, [Target[p] EXCEPT !.mtime = clock + MaxChanges + rounds])
    /\ replay' = [replay EXCEPT !.written = @ \cup {p}]
    /\ UNCHANGED <<Replaying, rounds>>

ReplayMtime(p) ==
    /\ p \in replay.written
    /\ copy' = [copy EXCEPT ![p] = apply_mtime(@, Target[p].mtime)]
    /\ replay' = [replay EXCEPT !.todo = @ \ {p}, !.written = @ \ {p}]
    /\ UNCHANGED <<Replaying, rounds>>

EndReplay ==
    /\ replay.at = "running"
    /\ replay.todo = {}
    /\ replay' = [replay EXCEPT !.at = "done"]
    /\ UNCHANGED <<Replaying, copy, rounds>>

(* The round stops anywhere: the host goes down, or a call returns an error. *)
StopReplay ==
    /\ replay.at = "running"
    /\ replay' = [replay EXCEPT !.at = "idle", !.todo = {}, !.written = {}]
    /\ UNCHANGED <<Replaying, copy, rounds>>

-----------------------------------------------------------------------------
WalkStep ==
    \/ \E d \in Paths \cup {Root} : OpenDirectory(d)
    \/ \E p \in Paths : Enumerate(p)
    \/ EndEnumeration
    \/ \E p \in Paths : Stat(p)
    \/ EndWalk

SyncNext ==
    \/ \E p \in Paths, size \in Sizes : WriteFile(p, size)
    \/ \E p \in Paths : MakeDirectory(p) \/ Chmod(p) \/ Delete(p)
    \/ BeginWalk
    \/ WalkStep
    \/ \E i \in 1 .. Len(snaps) : BeginReplay(i)
    \/ \E p \in Paths : ReplayDelete(p) \/ ReplayWrite(p) \/ ReplayMtime(p)
    \/ EndReplay
    \/ StopReplay

(* A walk is one call: it goes on until it returns.                        *)
SyncSpec == SyncInit /\ [][SyncNext]_sync_vars /\ WF_sync_vars(WalkStep)

-----------------------------------------------------------------------------
(* The directories above p: what is in every set that has its parent and,  *)
(* with a path, the parent of that.                                        *)
Above(p) ==
    {d \in Paths \cup {Root} :
        \A S \in SUBSET (Paths \cup {Root}) :
            Parent[p] \in S /\ (\A q \in S \cap Paths : Parent[q] \in S) => d \in S}

(* A walk that returned Ok has every regular file that the predicate keeps *)
(* together with the directories above it, with its metadata, and lists    *)
(* nothing that is excluded, gone or a directory, as far as nobody touched *)
(* them since the walk began: no error of a directory is passed over in    *)
(* silence, which a sync would take for a deletion.                        *)
WalkIsComplete ==
    walk.at = "done" =>
        \A p \in Paths \ touched :
            /\ p \in DOMAIN walk.collected => p \in Keep /\ fs[p] # Absent /\ ~IsDir(fs[p])
            /\ fs[p].kind = "file" /\ {p} \cup (Above(p) \ {Root}) \subseteq Keep =>
                  /\ p \in DOMAIN walk.collected
                  /\ build_entry(walk.collected[p]) = build_entry(fs[p])

(* A walk fails only for a cause: the root is no directory, a directory    *)
(* may not be read, a link that the predicate keeps leads nowhere, or the  *)
(* tree changed under it.                                                  *)
FailuresHaveCause ==
    walk.at = "failed" =>
        \/ touched # {}
        \/ ~IsDir(fs[Root])
        \/ \E p \in Paths \cup {Root} : fs[p].kind = "closed"
        \/ \E p \in Keep : Resolve(p) = Absent /\ fs[p] # Absent

Diff == diff_entries(Entries(snaps[1]), Entries(snaps[2]))

(* Between two walks, a file is reported as added, removed or modified     *)
(* only if it, or what it links to, was changed since the first began.     *)
NoPhantomChange ==
    Len(snaps) = 2 =>
        \A p \in ChangedPaths(Diff) :
            \/ p \in moved
            \/ fs[p].kind = "link" /\ ({fs[p].to} \cup Children(fs[p].to)) \cap moved # {}

(* A write, or a change of mode, that the second walk saw and the first    *)
(* did not is in the difference, also within one second and without a      *)
(* change of size; a time before the epoch is unknown and shows nothing.   *)
EditsAreSeen ==
    Len(snaps) = 2 =>
        \A p \in DOMAIN snaps[1] \cap DOMAIN snaps[2] :
            LET a == snaps[1][p]  b == snaps[2][p] IN
            (a.mode # b.mode \/ (a.mtime # b.mtime /\ (is_known(a.mtime) \/ is_known(b.mtime))))
                => p \in Diff.modified

(* After a round of replay that ran to its end the copy differs from the   *)
(* walk in nothing but files of unknown time, also when earlier rounds     *)
(* stopped between a write and its apply_mtime.                            *)
ReplayConverges ==
    replay.at = "done" =>
        LET left == diff_entries(Entries(copy), Target) IN
        left.added = {} /\ left.removed = {}
        /\ \A p \in left.modified : ~is_known(Target[p].mtime)

(* Every walk returns. *)
WalksReturn ==
    walk.at \in {"enumerate", "stat"} ~> walk.at \in {"done", "failed"}

=============================================================================
