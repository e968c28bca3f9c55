----------------------------- MODULE Handshake -----------------------------
(***************************************************************************)
(* The ticket handshake of src/src/session.rs on concurrent connections,   *)
(* with its callers: connect_with on the client side, the connection       *)
(* handler of the tunnel (transport/tunnel.rs) or of the relay listener    *)
(* (relay/listener.rs) on the server side.  Connections can be lost at any *)
(* time, the trust store changes while handshakes run, and the clock goes  *)
(* on between the steps of one.                                            *)
(***************************************************************************)
EXTENDS Ticket

CONSTANTS
    Conns,          \* QUIC connections
    Verifying,      \* those made by connect_with, which verifies its ticket first
    Tickets,        \* what clients present
    Malformed,      \* a body that is not the JSON of a ticket
    NoTicket,
    IssuerKey,      \* issuer_verifying_key of the server and of the clients
    ExpectedSubject,
    ServerOpens,    \* the server opens the handshake stream, instead of accepting it
    MaxClock        \* bound: the last second

ASSUME HandshakeAssumption ==
    /\ Verifying \subseteq Conns
    /\ Malformed \notin Tickets
    /\ \A ticket \in Tickets : ticket.claims \in TicketClaims
    /\ ServerOpens \in BOOLEAN

VARIABLES
    client,    \* where client_handshake is: idle, sending, waiting, ok, failed
    sent,      \* the request stream: the ticket, or NoTicket before its header is written
    server,    \* where server_handshake is: idle, reading, replying, ok, failed
    now_unix,  \* the time server_handshake was called with
    kind,      \* the HandshakeErrorKind or local error a failed server ended with
    reply,     \* the reply stream: nothing yet, the response, or its end
    link,      \* the connection: up, closed by an end, lost
    trusted,   \* the keys of the trust store
    clock,
    sent_at,   \* history: the second the client began to write in
    vouched    \* history: the keys that were trusted at some time since then, for a
               \*   client that has not failed

hist == <<sent_at, vouched>>
vars == <<client, sent, server, now_unix, kind, reply, link, trusted, clock, hist>>

Open     == [kind |-> "open"]
Finished == [kind |-> "finished"]
OkReply(claims) == [kind |-> "Ok", claims |-> claims]

Bodies == Tickets \cup {Malformed}
Kinds  == {"none", "io", "MalformedTicket", "UnsupportedVersion", "Expired",
           "InvalidSignatureEncoding", "InvalidSignature", "IssuerNotTrusted",
           "SubjectMismatch"}

TypeOK ==
    /\ client \in [Conns -> {"idle", "sending", "waiting", "ok", "failed"}]
    /\ sent \in [Conns -> Bodies \cup {NoTicket}]
    /\ server \in [Conns -> {"idle", "reading", "replying", "ok", "failed"}]
    /\ now_unix \in [Conns -> 0..clock]
    /\ kind \in [Conns -> Kinds]
    /\ \A c \in Conns : reply[c] \in {Open, Finished} \cup {OkReply(t.claims) : t \in Tickets}
    /\ link \in [Conns -> {"up", "closed", "lost"}]
    /\ trusted \subseteq Keys
    /\ clock \in Nat
    /\ sent_at \in [Conns -> 0..clock]
    /\ vouched \in [Conns -> SUBSET Keys]

Init ==
    /\ client = [c \in Conns |-> "idle"]
    /\ sent = [c \in Conns |-> NoTicket]
    /\ server = [c \in Conns |-> "idle"]
    /\ now_unix = [c \in Conns |-> 0]
    /\ kind = [c \in Conns |-> "none"]
    /\ reply = [c \in Conns |-> Open]
    /\ link = [c \in Conns |-> "up"]
    /\ trusted \in SUBSET Keys
    /\ clock = 0
    /\ sent_at = [c \in Conns |-> 0]
    /\ vouched = [c \in Conns |-> {}]

-----------------------------------------------------------------------------
(* client_handshake: the stream is opened and the header is written, which *)
(* makes the stream known to the server; the body follows.                 *)
ClientSends(c, body) ==
    /\ client[c] = "idle"
    /\ link[c] = "up"
    /\ client' = [client EXCEPT ![c] = "sending"]
    /\ sent' = [sent EXCEPT ![c] = body]
    /\ sent_at' = [sent_at EXCEPT ![c] = clock]
    /\ vouched' = [vouched EXCEPT ![c] = trusted]
    /\ UNCHANGED <<server, now_unix, kind, reply, link, trusted, clock>>

ClientFinishes(c) ==
    /\ client[c] = "sending"
    /\ link[c] = "up"
    /\ client' = [client EXCEPT ![c] = "waiting"]
    /\ UNCHANGED <<sent, server, now_unix, kind, reply, link, trusted, clock, hist>>

(* The client gives up: the error leaves connect_with, which drops the     *)
(* connection and so closes it.                                            *)
GivesUp(c) ==
    /\ client' = [client EXCEPT ![c] = "failed"]
    /\ link' = [link EXCEPT ![c] = IF @ = "up" THEN "closed" ELSE @]
    /\ vouched' = [vouched EXCEPT ![c] = {}]
    /\ UNCHANGED <<sent, server, now_unix, kind, reply, trusted, clock, sent_at>>

(* connect_with verifies the ticket with the key of its operator. *)
ConnectSends(c, ticket) ==
    /\ verify_ticket(ticket, IssuerKey, clock) = "Ok"
    /\ ClientSends(c, ticket)

ConnectRefuses(c, ticket) ==
    /\ client[c] = "idle"
    /\ verify_ticket(ticket, IssuerKey, clock) # "Ok"
    /\ GivesUp(c)

(* the reads of client_handshake: bytes that have arrived are read even    *)
(* after the connection has ended                                          *)
ClientReads(c) ==
    /\ client[c] = "waiting"
    /\ reply[c].kind = "Ok"
    /\ client' = [client EXCEPT ![c] = "ok"]
    /\ UNCHANGED <<sent, server, now_unix, kind, reply, link, trusted, clock, hist>>

ClientFails(c) ==
    /\ \/ client[c] = "waiting" /\ (reply[c] = Finished \/ link[c] # "up")
       \/ client[c] \in {"idle", "sending"} /\ link[c] # "up"
    /\ GivesUp(c)

-----------------------------------------------------------------------------
(* Mutant of ServerStarts: the clock is read one second ahead. *)
ServerStarts_ahead(c) ==
    /\ server[c] = "idle"
    /\ link[c] = "up"
    /\ sent[c] # NoTicket \/ ServerOpens
    /\ server' = [server EXCEPT ![c] = "reading"]
    /\ now_unix' = [now_unix EXCEPT ![c] = clock + 1]
    /\ UNCHANGED <<client, sent, kind, reply, link, trusted, clock, hist>>

(* Mutant of ServerStarts: the clock is read before the stream arrives. *)
ServerStarts_early(c) ==
    /\ server[c] = "idle"
    /\ link[c] = "up"
    /\ server' = [server EXCEPT ![c] = "reading"]
    /\ now_unix' = [now_unix EXCEPT ![c] = clock]
    /\ UNCHANGED <<client, sent, kind, reply, link, trusted, clock, hist>>

(* The handler accepts the stream of the client, which exists for it once  *)
(* bytes arrive, or opens one of its own, and then reads the clock.        *)
ServerStarts(c) ==
    /\ server[c] = "idle"
    /\ link[c] = "up"
    /\ sent[c] # NoTicket \/ ServerOpens
    /\ server' = [server EXCEPT ![c] = "reading"]
    /\ now_unix' = [now_unix EXCEPT ![c] = clock]
    /\ UNCHANGED <<client, sent, kind, reply, link, trusted, clock, hist>>

(* Mutant of outcome: the subject is not compared. *)
outcome_any_subject(body, now) ==
    IF body = Malformed THEN "MalformedTicket"
    ELSE IF verify_ticket(body, IssuerKey, now) # "Ok" THEN verify_ticket(body, IssuerKey, now)
    ELSE IF body.claims.issuer \notin trusted THEN "IssuerNotTrusted"
    ELSE "Ok"

(* the checks of server_handshake, in their order *)
outcome(body, now) ==
    IF body = Malformed THEN "MalformedTicket"
    ELSE IF verify_ticket(body, IssuerKey, now) # "Ok" THEN verify_ticket(body, IssuerKey, now)
    ELSE IF body.claims.issuer \notin trusted THEN "IssuerNotTrusted"
    ELSE IF body.claims.subject # ExpectedSubject THEN "SubjectMismatch"
    ELSE "Ok"

(* Mutant of ServerFails: the stream and the connection stay open. *)
ServerFails_silently(c, k) ==
    /\ server' = [server EXCEPT ![c] = "failed"]
    /\ kind' = [kind EXCEPT ![c] = k]
    /\ UNCHANGED <<client, sent, now_unix, reply, link, trusted, clock, hist>>

(* server_handshake returns an error and the handler closes the connection. *)
(* The future that would send the kind is dropped without being awaited, so *)
(* the reply stream ends with nothing on it.                                *)
ServerFails(c, k) ==
    /\ server' = [server EXCEPT ![c] = "failed"]
    /\ kind' = [kind EXCEPT ![c] = k]
    /\ reply' = [reply EXCEPT ![c] = Finished]
    /\ link' = [link EXCEPT ![c] = IF @ = "up" THEN "closed" ELSE @]
    /\ UNCHANGED <<client, sent, now_unix, trusted, clock, hist>>

(* The whole ticket arrives on the stream that the server reads, which is  *)
(* the stream of the client only if the server accepted it.                *)
HasRead(c) ==
    /\ server[c] = "reading"
    /\ link[c] = "up"
    /\ client[c] \notin {"idle", "sending"}
    /\ ~ServerOpens

ServerRejects(c) ==
    /\ HasRead(c)
    /\ outcome(sent[c], now_unix[c]) # "Ok"
    /\ ServerFails(c, outcome(sent[c], now_unix[c]))

ServerApproves(c) ==
    /\ HasRead(c)
    /\ outcome(sent[c], now_unix[c]) = "Ok"
    /\ server' = [server EXCEPT ![c] = "replying"]
    /\ UNCHANGED <<client, sent, now_unix, kind, reply, link, trusted, clock, hist>>

(* the awaited send of HandshakeResponse::Ok *)
ServerReplies(c) ==
    /\ server[c] = "replying"
    /\ link[c] = "up"
    /\ server' = [server EXCEPT ![c] = "ok"]
    /\ reply' = [reply EXCEPT ![c] = OkReply(sent[c].claims)]
    /\ UNCHANGED <<client, sent, now_unix, kind, link, trusted, clock, hist>>

(* a read or a write of server_handshake, or the accept before it, meets   *)
(* the end of the connection                                               *)
ServerDisconnected(c) ==
    /\ server[c] \in {"idle", "reading", "replying"}
    /\ link[c] # "up"
    /\ ServerFails(c, "io")

-----------------------------------------------------------------------------
(* Outside events: a connection breaks, the operator adds or removes an    *)
(* issuer, time passes.                                                    *)
Loses(c) ==
    /\ link[c] = "up"
    /\ link' = [link EXCEPT ![c] = "lost"]
    /\ UNCHANGED <<client, sent, server, now_unix, kind, reply, trusted, clock, hist>>

SetTrust(keys) ==
    /\ trusted' = keys
    /\ vouched' = [c \in Conns |-> IF client[c] \in {"sending", "waiting"} THEN vouched[c] \cup keys
                                   ELSE vouched[c]]
    /\ UNCHANGED <<client, sent, server, now_unix, kind, reply, link, clock, sent_at>>

Add(k)    == k \notin trusted /\ SetTrust(trusted \cup {k})
Remove(k) == k \in trusted /\ SetTrust(trusted \ {k})

Tick ==
    /\ clock < MaxClock
    /\ clock' = clock + 1
    /\ UNCHANGED <<client, sent, server, now_unix, kind, reply, link, trusted, hist>>

Next ==
    \/ \E c \in Conns \ Verifying, body \in Bodies : ClientSends(c, body)
    \/ \E c \in Verifying, ticket \in Tickets : ConnectSends(c, ticket)
    \/ \E c \in Verifying, ticket \in Tickets : ConnectRefuses(c, ticket)
    \/ \E c \in Conns : ClientFinishes(c)
    \/ \E c \in Conns : ClientReads(c)
    \/ \E c \in Conns : ClientFails(c)
    \/ \E c \in Conns : ServerStarts(c)
    \/ \E c \in Conns : ServerRejects(c)
    \/ \E c \in Conns : ServerApproves(c)
    \/ \E c \in Conns : ServerReplies(c)
    \/ \E c \in Conns : ServerDisconnected(c)
    \/ \E c \in Conns : Loses(c)
    \/ \E k \in Keys : Add(k)
    \/ \E k \in Keys : Remove(k)
    \/ Tick

Spec == Init /\ [][Next]_vars

(* Each end takes the steps it can take: they are tasks of a tokio         *)
(* runtime, and QUIC delivers what was written or ends the connection.     *)
Fairness ==
    \A c \in Conns :
        /\ WF_vars(ClientFinishes(c))
        /\ WF_vars(ClientReads(c) \/ ClientFails(c))
        /\ WF_vars(ServerStarts(c))
        /\ WF_vars(ServerRejects(c) \/ ServerApproves(c))
        /\ WF_vars(ServerReplies(c))
        /\ WF_vars(ServerDisconnected(c))

FairSpec == Spec /\ Fairness

-----------------------------------------------------------------------------
(* A client whose handshake succeeded presented a ticket that the issuer   *)
(* key signed for the expected subject, and whose issuer was trusted at    *)
(* some moment of the handshake; and the server accepted these very claims. *)
SuccessIsAuthorised ==
    \A c \in Conns : client[c] = "ok" =>
        /\ server[c] = "ok"
        /\ reply[c] = OkReply(sent[c].claims)
        /\ sent[c].signature = [key |-> IssuerKey, payload |-> sent[c].claims]
        /\ sent[c].claims.subject = ExpectedSubject
        /\ sent[c].claims.issuer \in vouched[c]

(* A ticket that had expired when the client began to write it is never    *)
(* accepted: server_handshake gets a time that was read after the stream   *)
(* arrived, though maybe before the rest of the ticket did.                *)
FreshWhenSent ==
    \A c \in Conns : server[c] \in {"replying", "ok"} => sent_at[c] <= sent[c].claims.expires_at

(* Every client that began client_handshake gets the response or an error. *)
ClientEnds ==
    \A c \in Conns : client[c] = "sending" ~> client[c] \in {"ok", "failed"}

=============================================================================
