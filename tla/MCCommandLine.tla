--------------------------- MODULE MCCommandLine ---------------------------
(* Two shells, on the operator's and the peer's hosts. *)
EXTENDS CommandLine, TLC

MCKeys == 1 .. MaxCommands + 2
MCTtls == {-1, 0, 3}
Sym == Permutations(Shells)

=============================================================================
