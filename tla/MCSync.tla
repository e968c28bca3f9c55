------------------------------- MODULE MCSync -------------------------------
(* A directory with a file, a file beside it, and a link that leads to one *)
(* of them; the predicate excludes the file.                               *)
EXTENDS Sync

MCPaths  == {"d", "d/g", "f", "l"}
MCParent == [p \in MCPaths |-> IF p = "d/g" THEN "d" ELSE Root]

Tree0(root, l) ==
    [p \in MCPaths \cup {Root} |->
        CASE p = Root -> root
          [] p = "d"  -> Dir(1)
          [] p = "l"  -> l
          [] OTHER    -> File(1, 0, -1)]

MCTrees == {Tree0(Dir(1), Link("f")), Tree0(Dir(1), Link("d"))}
           \cup {[p \in MCPaths \cup {Root} |-> IF p = Root THEN File(1, 0, 1) ELSE Absent]}

MCKeep == {"d", "d/g", "l"}
MCEpochs == {-1, 1}

=============================================================================
