---------------------------- MODULE AcceptLoops ----------------------------
(***************************************************************************)
(* The server loops: serve and handle_tunnel_connection of                 *)
(* src/src/transport/tunnel.rs, run_listener and handle_connection of      *)
(* src/src/relay/listener.rs, and the stub Relay::serve.  Tunnel and       *)
(* listener have the same outer loop; their handlers part when accept_bi   *)
(* fails.  The ticket handshake is one step with either outcome, which a   *)
(* silent peer can delay for as long as its connection lives.              *)
(***************************************************************************)
EXTENDS Naturals, Sequences, FiniteSets

CONSTANTS
    Conns,       \* connections that clients may open, each once
    MaxStreams   \* bound: streams that a client opens on a connection

ASSUME LoopsAssumption == MaxStreams \in Nat

VARIABLES
    kind,      \* "tunnel" or "listener"
    loop,      \* where the outer loop is, and the connection it completes
    queue,     \* connections that endpoint.accept has not returned yet
    open,      \* the endpoint has not been closed
    conn,      \* connection -> its state
    task,      \* connection -> where its handler is
    pending,   \* connection -> streams that accept_bi has not returned yet
    served,    \* connection -> streams handed to a task of their own
    cancel,
    stub,      \* Relay::serve runs
    late       \* history: what was accepted after cancel: connections, and streams of each

loop_vars == <<kind, loop, queue, open, conn, task, pending, served, cancel, stub, late>>

LoopsTypeOK ==
    /\ kind \in {"tunnel", "listener"}
    /\ loop.at \in {"check", "accept", "connecting", "done"}
    /\ open \in BOOLEAN /\ cancel \in BOOLEAN /\ stub \in BOOLEAN
    /\ conn \in [Conns -> {"none", "queued", "connecting", "up", "closed"}]
    /\ task \in [Conns -> {"none", "handshake", "check", "accept", "ended"}]
    /\ \A c \in Conns : pending[c] + served[c] <= MaxStreams

LoopsInit ==
    /\ kind \in {"tunnel", "listener"}
    /\ loop = [at |-> "check"]
    /\ queue = << >> /\ open = TRUE
    /\ conn = [c \in Conns |-> "none"]
    /\ task = [c \in Conns |-> "none"]
    /\ pending = [c \in Conns |-> 0] /\ served = [c \in Conns |-> 0]
    /\ cancel = FALSE /\ stub = TRUE
    /\ late = [conns |-> 0, streams |-> [c \in Conns |-> 0]]

-----------------------------------------------------------------------------
(* Clients, the network and the owner of the endpoint. *)
Arrive(c) ==
    /\ open /\ conn[c] = "none"
    /\ conn' = [conn EXCEPT ![c] = "queued"]
    /\ queue' = Append(queue, c)
    /\ UNCHANGED <<kind, loop, open, task, pending, served, cancel, stub, late>>

(* A stream reaches the server behind the one of the handshake. *)
OpenStream(c) ==
    /\ conn[c] = "up" /\ pending[c] + served[c] < MaxStreams
    /\ pending' = [pending EXCEPT ![c] = @ + 1]
    /\ UNCHANGED <<kind, loop, queue, open, conn, task, served, cancel, stub, late>>

Disconnect(c) ==
    /\ conn[c] = "up"
    /\ conn' = [conn EXCEPT ![c] = "closed"]
    /\ UNCHANGED <<kind, loop, queue, open, task, pending, served, cancel, stub, late>>

CloseEndpoint ==
    /\ open
    /\ open' = FALSE
    /\ conn' = [c \in Conns |-> IF conn[c] = "none" THEN "none" ELSE "closed"]
    /\ queue' = << >>
    /\ UNCHANGED <<kind, loop, task, pending, served, cancel, stub, late>>

SetCancel ==
    /\ ~cancel
    /\ cancel' = TRUE
    /\ UNCHANGED <<kind, loop, queue, open, conn, task, pending, served, stub, late>>

-----------------------------------------------------------------------------
LoopChecks ==
    /\ loop.at = "check"
    /\ loop' = [at |-> IF cancel THEN "done" ELSE "accept"]
    /\ UNCHANGED <<kind, queue, open, conn, task, pending, served, cancel, stub, late>>

(* endpoint.accept: None once the endpoint is closed *)
LoopAccepts ==
    /\ loop.at = "accept"
    /\ \/ /\ ~open
          /\ loop' = [at |-> "done"]
          /\ UNCHANGED <<queue, conn>>
       \/ /\ queue # << >>
          /\ loop' = [at |-> "connecting", c |-> Head(queue)]
          /\ queue' = Tail(queue)
          /\ conn' = [conn EXCEPT ![Head(queue)] = "connecting"]
    /\ UNCHANGED <<kind, open, task, pending, served, cancel, stub, late>>

(* Mutant of next_round: the flag is read at the start only. *)
next_round_unchecked == [at |-> "accept"]

next_round == [at |-> "check"]

(* Mutant of LoopDrops: the next connection is awaited without a check. *)
LoopDrops_unchecked ==
    /\ loop.at = "connecting"
    /\ loop' = [at |-> "accept"]
    /\ conn' = [conn EXCEPT ![loop.c] = "closed"]
    /\ UNCHANGED <<kind, queue, open, task, pending, served, cancel, stub, late>>

(* Mutant of LoopDrops: the error ends the loop. *)
LoopDrops_returns ==
    /\ loop.at = "connecting"
    /\ loop' = [at |-> "done"]
    /\ conn' = [conn EXCEPT ![loop.c] = "closed"]
    /\ UNCHANGED <<kind, queue, open, task, pending, served, cancel, stub, late>>

(* incoming.accept or its handshake fails: an error, a timeout, an endpoint *)
(* that was closed meanwhile                                               *)
LoopDrops ==
    /\ loop.at = "connecting"
    /\ loop' = next_round
    /\ conn' = [conn EXCEPT ![loop.c] = "closed"]
    /\ UNCHANGED <<kind, queue, open, task, pending, served, cancel, stub, late>>

LoopSpawns ==
    /\ loop.at = "connecting" /\ conn[loop.c] = "connecting"
    /\ loop' = next_round
    /\ conn' = [conn EXCEPT ![loop.c] = "up"]
    /\ task' = [task EXCEPT ![loop.c] = "handshake"]
    /\ late' = [late EXCEPT !.conns = IF cancel THEN @ + 1 ELSE @]
    /\ UNCHANGED <<kind, queue, open, pending, served, cancel, stub>>

-----------------------------------------------------------------------------
TaskHandshakes(c) ==
    /\ task[c] = "handshake"
    /\ \/ task' = [task EXCEPT ![c] = "check"] /\ conn[c] = "up" /\ UNCHANGED conn
       \/ /\ task' = [task EXCEPT ![c] = "ended"]
          /\ conn' = [conn EXCEPT ![c] = "closed"]
    /\ UNCHANGED <<kind, loop, queue, open, pending, served, cancel, stub, late>>

TaskChecks(c) ==
    /\ task[c] = "check"
    /\ task' = [task EXCEPT ![c] = IF cancel THEN "ended" ELSE "accept"]
    /\ UNCHANGED <<kind, loop, queue, open, conn, pending, served, cancel, stub, late>>

(* Mutant of TaskAccepts: a stream is handed out twice. *)
TaskAccepts_twice(c) ==
    /\ task[c] = "accept"
    /\ pending[c] > 0
    /\ task' = [task EXCEPT ![c] = "check"]
    /\ pending' = [pending EXCEPT ![c] = @ - 1]
    /\ served' = [served EXCEPT ![c] = @ + 2]
    /\ UNCHANGED <<kind, loop, queue, open, conn, cancel, stub, late>>

(* accept_bi returns streams that have arrived also on a closed connection. *)
TaskAccepts(c) ==
    /\ task[c] = "accept"
    /\ pending[c] > 0
    /\ task' = [task EXCEPT ![c] = "check"]
    /\ pending' = [pending EXCEPT ![c] = @ - 1]
    /\ served' = [served EXCEPT ![c] = @ + 1]
    /\ late' = [late EXCEPT !.streams[c] = IF cancel THEN @ + 1 ELSE @]
    /\ UNCHANGED <<kind, loop, queue, open, conn, cancel, stub>>

(* Mutant of after_error: the tunnel goes on like the listener. *)
after_error_continue == "check"

(* The tunnel breaks; the listener continues. *)
after_error == IF kind = "tunnel" THEN "ended" ELSE "check"

TaskFails(c) ==
    /\ task[c] = "accept"
    /\ pending[c] = 0 /\ conn[c] = "closed"
    /\ task' = [task EXCEPT ![c] = after_error]
    /\ UNCHANGED <<kind, loop, queue, open, conn, pending, served, cancel, stub, late>>

StubReturns ==
    /\ stub /\ cancel
    /\ stub' = FALSE
    /\ UNCHANGED <<kind, loop, queue, open, conn, task, pending, served, cancel, late>>

-----------------------------------------------------------------------------
Loop == LoopChecks \/ LoopAccepts \/ LoopDrops \/ LoopSpawns
Task(c) == TaskChecks(c) \/ TaskAccepts(c) \/ TaskFails(c)

LoopsNext ==
    \/ \E c \in Conns : Arrive(c) \/ OpenStream(c) \/ Disconnect(c)
    \/ CloseEndpoint \/ SetCancel
    \/ Loop
    \/ \E c \in Conns : TaskHandshakes(c) \/ Task(c)
    \/ StubReturns

(* The runtime runs every task that is ready.  A QUIC handshake ends, by   *)
(* the idle timeout of the profiles if by nothing else; so does a ticket   *)
(* handshake on a connection that has ended.  A silent peer may leave the  *)
(* ticket handshake pending, and nobody has to connect, open or cancel.    *)
LoopsSpec ==
    /\ LoopsInit /\ [][LoopsNext]_loop_vars
    /\ WF_loop_vars(Loop) /\ WF_loop_vars(StubReturns)
    /\ \A c \in Conns : WF_loop_vars(Task(c)) /\ WF_loop_vars(conn[c] = "closed" /\ TaskHandshakes(c))

-----------------------------------------------------------------------------
(* After cancel a loop accepts at most what it was already waiting for:    *)
(* one connection, and one stream on every connection.                     *)
AtMostOneMore == late.conns <= 1 /\ \A c \in Conns : late.streams[c] <= 1

(* The handler of a connection that has ended ends: at once in the tunnel, *)
(* after cancel in the listener, whose accept_bi fails for ever before.    *)
HandlersEnd ==
    \A c \in Conns :
        (task[c] # "none" /\ conn[c] = "closed" /\ (kind = "tunnel" \/ cancel))
            ~> task[c] = "ended"

(* After cancel the loop returns, once a connection or the end of the      *)
(* endpoint wakes it from accept; the stub of the relay always returns.    *)
CancelIsSeen ==
    /\ (cancel /\ (queue # << >> \/ ~open)) ~> loop.at = "done"
    /\ cancel ~> ~stub

(* A connection does not wait for ever behind the QUIC handshake of        *)
(* another, nor a stream behind an earlier one, unless the loops stop.     *)
ArrivalsAreServed ==
    \A c \in Conns :
        /\ conn[c] = "queued" ~> (conn[c] # "queued" \/ cancel)
        /\ (task[c] \in {"check", "accept"} /\ pending[c] > 0) ~> (pending[c] = 0 \/ cancel)

=============================================================================
