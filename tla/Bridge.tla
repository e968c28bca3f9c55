------------------------------- MODULE Bridge -------------------------------
(***************************************************************************)
(* One TCP connection proxied by the tunnel (transport/tunnel.rs): an      *)
(* application, the bridge of `tunnel connect`, a QUIC stream, the bridge  *)
(* of `tunnel serve`, and the target it dials.  Each bridge runs two       *)
(* pumps.  In direction d the near pump is tcp_to_qs of the bridge next to *)
(* the source, the far pump is qs_to_tcp of the bridge next to the         *)
(* destination.  Payloads are chunks, which are counted.                   *)
(***************************************************************************)
EXTENDS Naturals

CONSTANTS
    MaxChunks,   \* bound: chunks a source writes, by direction
    Window,      \* chunks the QUIC stream holds before a writer blocks
    Buffer       \* chunks a destination's socket holds before a writer blocks

Dirs == {"up", "down"}

ASSUME BridgeAssumption ==
    /\ MaxChunks \in [Dirs -> Nat]
    /\ Window \in Nat \ {0} /\ Buffer \in Nat \ {0}

VARIABLES
    peer,        \* the TCP endpoints: none, open, half (writes no more), closed
    link,        \* the QUIC connection: up or lost
    client,      \* the task of connect_with: opening, bridging or failed
    server,      \* the task of serve: none, dialling, bridging or refused
    near, far,   \* the pumps, by direction: off, read, write or done
    written,     \* chunks the source wrote to its socket
    passed,      \* chunks the near pump wrote to the QUIC stream
    pulled,      \* chunks the far pump read from it
    delivered,   \* chunks the far pump wrote to the destination's socket
    taken,       \* chunks the destination read from it
    fin,         \* the QUIC stream was finished
    shut,        \* the destination was told the end of the stream
    fault        \* history: what first failed in this direction has failed

counts == <<written, passed, pulled, delivered, taken>>
tasks == <<client, server>>
vars == <<peer, link, tasks, near, far, counts, fin, shut, fault>>

source(d) == IF d = "up" THEN "app" ELSE "target"
destination(d) == IF d = "up" THEN "target" ELSE "app"

TypeOK ==
    /\ peer \in [{"app", "target"} -> {"none", "open", "half", "closed"}]
    /\ link \in {"up", "lost"}
    /\ client \in {"opening", "bridging", "failed"}
    /\ server \in {"none", "dialling", "bridging", "refused"}
    /\ near \in [Dirs -> {"off", "read", "write", "done"}]
    /\ far \in [Dirs -> {"off", "read", "write", "done"}]
    /\ \A n \in {written, passed, pulled, delivered, taken} : n \in [Dirs -> Nat]
    /\ \A d \in Dirs : passed[d] <= pulled[d] + Window /\ delivered[d] <= taken[d] + Buffer
    /\ \A b \in {fin, shut, fault} : b \in [Dirs -> BOOLEAN]

(* The application has connected and connect_with has accepted it. *)
Init ==
    /\ peer = [app |-> "open", target |-> "none"]
    /\ link = "up"
    /\ client = "opening" /\ server = "none"
    /\ near = [d \in Dirs |-> "off"] /\ far = [d \in Dirs |-> "off"]
    /\ written = [d \in Dirs |-> 0] /\ passed = [d \in Dirs |-> 0]
    /\ pulled = [d \in Dirs |-> 0] /\ delivered = [d \in Dirs |-> 0]
    /\ taken = [d \in Dirs |-> 0]
    /\ fin = [d \in Dirs |-> FALSE]
    /\ shut = [d \in Dirs |-> FALSE]
    /\ fault = [d \in Dirs |-> FALSE]

-----------------------------------------------------------------------------
(* join!: a bridge returns when both of its pumps are done, and only then  *)
(* drops the QUIC stream and the socket.                                   *)
ClientReturned == client = "failed" \/ (near["up"] = "done" /\ far["down"] = "done")
ServerReturned == server = "refused" \/ (near["down"] = "done" /\ far["up"] = "done")

(* The receiving half of the stream was dropped: its writer is told to stop. *)
Stopped(d) == IF d = "up" THEN ServerReturned ELSE ClientReturned

-----------------------------------------------------------------------------
(* The two TCP endpoints and the QUIC connection. *)

Writes(d) ==
    /\ peer[source(d)] = "open"
    /\ written[d] < MaxChunks[d]
    /\ written' = [written EXCEPT ![d] = @ + 1]
    /\ UNCHANGED <<peer, link, tasks, near, far, passed, pulled, delivered, taken, fin, shut, fault>>

(* The destination reads what it was sent, when and if it likes. *)
Takes(d) ==
    /\ peer[destination(d)] \in {"open", "half"}
    /\ taken[d] < delivered[d]
    /\ taken' = [taken EXCEPT ![d] = @ + 1]
    /\ UNCHANGED <<peer, link, tasks, near, far, written, passed, pulled, delivered, fin, shut, fault>>

Ends(e, how) ==
    /\ peer[e] = "open" \/ (peer[e] = "half" /\ how = "closed")
    /\ peer' = [peer EXCEPT ![e] = how]
    /\ UNCHANGED <<link, tasks, near, far, counts, fin, shut, fault>>

LosesLink ==
    /\ link = "up"
    /\ link' = "lost"
    /\ UNCHANGED <<peer, tasks, near, far, counts, fin, shut, fault>>

-----------------------------------------------------------------------------
(* The task connect_with spawns for an accepted connection. *)

ClientOpens ==
    /\ client = "opening" /\ link = "up"
    /\ client' = "bridging"
    /\ near' = [near EXCEPT !["up"] = "read"]
    /\ far' = [far EXCEPT !["down"] = "read"]
    /\ UNCHANGED <<peer, link, server, counts, fin, shut, fault>>

(* open_bi fails: the task returns, which drops the socket. *)
ClientCannotOpen ==
    /\ client = "opening" /\ link = "lost"
    /\ client' = "failed"
    /\ shut' = [shut EXCEPT !["down"] = TRUE]
    /\ fault' = [d \in Dirs |-> TRUE]
    /\ UNCHANGED <<peer, link, server, near, far, counts, fin>>

(* accept_bi: open_bi sends nothing, so that the server learns of a stream *)
(* from its first bytes or its end.                                        *)
ServerAccepts ==
    /\ server = "none" /\ link = "up"
    /\ passed["up"] > 0 \/ fin["up"]
    /\ server' = "dialling"
    /\ UNCHANGED <<peer, link, client, near, far, counts, fin, shut, fault>>

DialSucceeds ==
    /\ server = "dialling"
    /\ server' = "bridging"
    /\ peer' = [peer EXCEPT !["target"] = "open"]
    /\ near' = [near EXCEPT !["down"] = "read"]
    /\ far' = [far EXCEPT !["up"] = "read"]
    /\ UNCHANGED <<link, client, counts, fin, shut, fault>>

DialFails ==
    /\ server = "dialling"
    /\ server' = "refused"
    /\ fin' = [fin EXCEPT !["down"] = link = "up"]
    /\ fault' = [d \in Dirs |-> TRUE]
    /\ UNCHANGED <<peer, link, client, near, far, counts, shut>>

-----------------------------------------------------------------------------
(* tcp_to_qs *)

(* Mutant of NearReads: one loop serves both directions of a bridge, and   *)
(* waits for a write of the one before it reads for the other.             *)
NearReads_shared(d) ==
    /\ near[d] = "read"
    /\ \A e \in Dirs \ {d} : far[e] # "write"
    /\ passed[d] < written[d]
    /\ near' = [near EXCEPT ![d] = "write"]
    /\ UNCHANGED <<peer, link, tasks, far, counts, fin, shut, fault>>

NearReads(d) ==
    /\ near[d] = "read"
    /\ passed[d] < written[d]
    /\ near' = [near EXCEPT ![d] = "write"]
    /\ UNCHANGED <<peer, link, tasks, far, counts, fin, shut, fault>>

(* Mutant of NearWrites: the write does not wait for room in the stream. *)
NearWrites_unbounded(d) ==
    /\ near[d] = "write"
    /\ link = "up" /\ ~Stopped(d)
    /\ passed' = [passed EXCEPT ![d] = @ + 1]
    /\ near' = [near EXCEPT ![d] = "read"]
    /\ UNCHANGED <<peer, link, tasks, far, written, pulled, delivered, taken, fin, shut, fault>>

NearWrites(d) ==
    /\ near[d] = "write"
    /\ link = "up" /\ ~Stopped(d)
    /\ passed[d] < pulled[d] + Window
    /\ passed' = [passed EXCEPT ![d] = @ + 1]
    /\ near' = [near EXCEPT ![d] = "read"]
    /\ UNCHANGED <<peer, link, tasks, far, written, pulled, delivered, taken, fin, shut, fault>>

(* Mutant of NearEnds: the stream is left without its end. *)
NearEnds_unfinished(d) ==
    /\ near' = [near EXCEPT ![d] = "done"]
    /\ UNCHANGED <<peer, link, tasks, far, counts, fin, shut>>

(* The loop breaks and the stream is finished, which tells the peer if the  *)
(* connection still can; finish's result is ignored.                        *)
NearEnds(d) ==
    /\ near' = [near EXCEPT ![d] = "done"]
    /\ fin' = [fin EXCEPT ![d] = link = "up"]
    /\ UNCHANGED <<peer, link, tasks, far, counts, shut>>

(* Mutant of NearEof: what is still in the socket is left there. *)
NearEof_early(d) ==
    /\ near[d] = "read"
    /\ peer[source(d)] \in {"half", "closed"}
    /\ NearEnds(d)
    /\ UNCHANGED fault

NearEof(d) ==
    /\ near[d] = "read"
    /\ peer[source(d)] \in {"half", "closed"}
    /\ passed[d] = written[d]
    /\ NearEnds(d)
    /\ UNCHANGED fault

(* A source that closes with bytes it has not read resets its connection. *)
NearReadFails(d) ==
    /\ near[d] = "read"
    /\ peer[source(d)] = "closed"
    /\ NearEnds(d)
    /\ fault' = [fault EXCEPT ![d] = TRUE]

(* Mutant of NearWriteFails: a reader that stopped is not noticed. *)
NearWriteFails_lost(d) ==
    /\ near[d] = "write"
    /\ link = "lost"
    /\ NearEnds(d)
    /\ fault' = [fault EXCEPT ![d] = TRUE]

(* The connection is lost, or the reader has stopped; the latter is no fault *)
(* of its own, because a reader stops at the end of the stream or for one.   *)
NearWriteFails(d) ==
    /\ near[d] = "write"
    /\ link = "lost" \/ Stopped(d)
    /\ NearEnds(d)
    /\ fault' = [fault EXCEPT ![d] = @ \/ link = "lost"]

-----------------------------------------------------------------------------
(* qs_to_tcp *)

FarReads(d) ==
    /\ far[d] = "read"
    /\ pulled[d] < passed[d]
    /\ pulled' = [pulled EXCEPT ![d] = @ + 1]
    /\ far' = [far EXCEPT ![d] = "write"]
    /\ UNCHANGED <<peer, link, tasks, near, written, passed, delivered, taken, fin, shut, fault>>

(* write_all waits, with no limit, for room in the destination's socket. *)
FarWrites(d) ==
    /\ far[d] = "write"
    /\ peer[destination(d)] # "closed"
    /\ delivered[d] < taken[d] + Buffer
    /\ delivered' = [delivered EXCEPT ![d] = @ + 1]
    /\ far' = [far EXCEPT ![d] = "read"]
    /\ UNCHANGED <<peer, link, tasks, near, written, passed, pulled, taken, fin, shut, fault>>

(* The kernel takes a chunk for a destination that is gone. *)
FarWritesInVain(d) ==
    /\ far[d] = "write"
    /\ peer[destination(d)] = "closed"
    /\ far' = [far EXCEPT ![d] = "read"]
    /\ fault' = [fault EXCEPT ![d] = TRUE]
    /\ UNCHANGED <<peer, link, tasks, near, counts, fin, shut>>

(* The loop breaks and the socket is shut down for writing. *)
FarEnds(d) ==
    /\ far' = [far EXCEPT ![d] = "done"]
    /\ shut' = [shut EXCEPT ![d] = TRUE]
    /\ UNCHANGED <<peer, link, tasks, near, counts, fin>>

FarEof(d) ==
    /\ far[d] = "read"
    /\ fin[d] /\ pulled[d] = passed[d]
    /\ FarEnds(d)
    /\ UNCHANGED fault

FarReadFails(d) ==
    /\ far[d] = "read"
    /\ link = "lost"
    /\ FarEnds(d)
    /\ fault' = [fault EXCEPT ![d] = TRUE]

FarWriteFails(d) ==
    /\ far[d] = "write"
    /\ peer[destination(d)] = "closed"
    /\ FarEnds(d)
    /\ fault' = [fault EXCEPT ![d] = TRUE]

-----------------------------------------------------------------------------
Near(d) == NearReads(d) \/ NearWrites(d) \/ NearEof(d) \/ NearReadFails(d) \/ NearWriteFails(d)

Far(d) ==
    FarReads(d) \/ FarWrites(d) \/ FarWritesInVain(d) \/ FarEof(d) \/ FarReadFails(d) \/ FarWriteFails(d)

Client == ClientOpens \/ ClientCannotOpen

Server == ServerAccepts \/ DialSucceeds \/ DialFails

Next ==
    \/ \E d \in Dirs : Writes(d) \/ Takes(d) \/ Near(d) \/ Far(d)
    \/ \E e \in {"app", "target"}, how \in {"half", "closed"} : Ends(e, how)
    \/ LosesLink \/ Client \/ Server

(* The runtime polls every task whose socket, stream or dial is ready.  The *)
(* endpoints and the network owe the bridges nothing.                       *)
Spec ==
    /\ Init /\ [][Next]_vars
    /\ WF_vars(Client) /\ WF_vars(Server)
    /\ \A d \in Dirs : WF_vars(Near(d)) /\ WF_vars(Far(d))

-----------------------------------------------------------------------------
(* A proxied connection behaves like a pipe in each direction: the two      *)
(* pumps lose, repeat and invent no chunk, and shut the destination's       *)
(* socket cleanly only after every chunk the source wrote (tunnel.rs:10).   *)
pipe == INSTANCE Pipe WITH
    sent <- written, received <- delivered, eof <- shut, broken <- fault,
    closed <- [d \in Dirs |-> peer[source(d)] \in {"half", "closed"}]

IsPipe == pipe!PipeSpec

(* Every chunk a source writes reaches the destination's socket, provided  *)
(* that the destination goes on reading or closes, unless something fails  *)
(* in its direction or the connection is lost: whatever the other          *)
(* direction does, be it at its end or stuck behind a destination that     *)
(* does not read (the two futures of join!, tunnel.rs:337).                *)
ChunksArrive ==
    \A d \in Dirs :
        []<>(taken[d] = delivered[d] \/ peer[destination(d)] = "closed") =>
            \A n \in 1..MaxChunks[d] :
                written[d] >= n ~> delivered[d] >= n \/ fault[d] \/ link = "lost"

(* No bridge outlives its connection: once a bridge's own endpoint has      *)
(* closed and the other end is gone, both of its pumps leave their loops,   *)
(* a pump blocked on a full stream included.                                *)
BridgesReturn ==
    /\ /\ peer["app"] = "closed"
       /\ peer["target"] = "closed" \/ server = "refused" \/ link = "lost"
       ~> ClientReturned
    /\ /\ peer["target"] = "closed"
       /\ peer["app"] = "closed" \/ link = "lost"
       ~> ServerReturned

(* The server dials the target for every connection on which the            *)
(* application has written or ended (open_bi alone tells the server         *)
(* nothing), unless the connection to it is lost.                           *)
EveryConnectionDialled ==
    client = "bridging" /\ (written["up"] > 0 \/ peer["app"] # "open")
        ~> server \in {"bridging", "refused"} \/ link = "lost"

=============================================================================
