------------------------------ MODULE MCBridge ------------------------------
(* Small instances of Bridge: the application writes enough to fill the     *)
(* stream behind a far pump that has stopped or whose target does not read. *)
EXTENDS Bridge

CONSTANTS Up, Down

MCChunks == [up |-> Up, down |-> Down]

=============================================================================
