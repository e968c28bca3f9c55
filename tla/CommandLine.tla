---------------------------- MODULE CommandLine ----------------------------
(***************************************************************************)
(* The commands of src/src/main.rs as processes that share files: keygen,  *)
(* ticket issue, inspect and verify, tunnel serve and tunnel connect, with *)
(* the endpoint set-up of src/src/quic/endpoint.rs.  As tunnel serve never *)
(* comes to serve, the server that tunnel connect meets is of another      *)
(* program that uses the library, the way tests/tunnel_e2e.rs does.        *)
(*                                                                         *)
(* Every command reads its files one by one, then computes, then writes    *)
(* its outputs one by one with fs::write, which truncates first.  It can   *)
(* be killed between any two steps.  Operator and peer have a key pair     *)
(* each.  All hosts show the same time.  The ticket exchange of connect is *)
(* one step here; Handshake.tla has its detail, and Bridge.tla that of the *)
(* loop it then stays in, also when its server is gone.                    *)
(***************************************************************************)
EXTENDS Sequences, FiniteSets, Ticket

CONSTANTS
    Shells,       \* where commands run, one at a time each
    Ttls,         \* the values of --ttl-seconds
    Alpns,        \* the values of --alpn, and of the profile of a server
    DEFAULT_ALPN,
    MaxCommands,  \* bound: commands started
    MaxClock      \* bound: the last second

ASSUME CommandAssumption ==
    /\ Ttls \subseteq I64 /\ DEFAULT_ALPN \in Alpns
    /\ MaxCommands \in Nat /\ MaxClock \in Nat
    /\ Keys = 1 .. MaxCommands + 2

Ids == {"operator", "peer"}
secret(id) == <<id, "secret">>
public(id) == <<id, "public">>
Files == {secret(id) : id \in Ids} \cup {public(id) : id \in Ids} \cup {<<"ticket">>, <<"cert">>}

VARIABLES
    files,     \* path -> content
    job,       \* shell -> the command that runs or has ended there
    server,    \* the tunnel server that is bound to the address
    clock,
    commands,  \* number of commands started
    issued,    \* history: every ticket made, with its --ttl-seconds and time
    paired     \* history: how the last keygen of an identity went: alone and to its end,
               \*   not to its end yet, or beside another one

vars == <<files, job, server, clock, commands, issued, paired>>

Cut == [kind |-> "cut"]      \* no file, an empty one or parts of one: an error to read
Whole(x) == [kind |-> "whole", value |-> x]

NoServer == [up |-> FALSE]
NoJob == [cmd |-> "none", at |-> "ended"]

TypeOK ==
    /\ DOMAIN files = Files /\ \A f \in Files : files[f].kind \in {"cut", "whole"}
    /\ \A id \in Ids : \A f \in {secret(id), public(id)} :
          files[f].kind = "whole" => files[f].value \in Keys
    /\ \A s \in Shells : job[s].at \in {"reads", "acts", "connected", "verified", "up",
                                         "writes", "truncated", "ended"}
    /\ server.up => server.issuer \in Keys /\ server.subject \in Keys /\ server.alpn \in Alpns
    /\ clock \in 0 .. MaxClock /\ commands \in 0 .. MaxCommands
    /\ \A i \in issued : i.ticket.claims \in TicketClaims
    /\ paired \in [Ids -> {"clean", "busy", "mixed"}]

FirstTicket == issue_ticket(1, 2, 1, 0)

(* Operator and peer have run keygen, the operator has issued a ticket,    *)
(* and the peer has the certificate of a server that has run.              *)
Init ==
    /\ files = [f \in Files |-> CASE f = <<"ticket">>    -> Whole(FirstTicket)
                                  [] f = <<"cert">>      -> Whole(0)
                                  [] f[1] = "operator"   -> Whole(1)
                                  [] OTHER               -> Whole(2)]
    /\ job = [s \in Shells |-> NoJob]
    /\ server = NoServer
    /\ clock = 0 /\ commands = 0
    /\ issued = {[ticket |-> FirstTicket, until |-> 1]}
    /\ paired = [id \in Ids |-> "clean"]

-----------------------------------------------------------------------------
Begin(s, cmd, todo, arg) ==
    /\ job[s].at = "ended"
    /\ commands < MaxCommands
    /\ commands' = commands + 1
    /\ job' = [job EXCEPT ![s] = [cmd |-> cmd, at |-> "reads", todo |-> todo,
                                  got |-> << >>, arg |-> arg, out |-> << >>]]
    /\ UNCHANGED <<files, server, clock, issued, paired>>

NoArg == [id |-> "none"]

(* The key that the n-th command makes is n + 2. *)
Keygen(s, id) == Begin(s, "keygen", << >>, [id |-> id, key |-> commands + 3])

(* Without --subject-public-key the issuer is the subject too. *)
Issue(s, subject, ttl) ==
    Begin(s, "issue",
          IF subject = "operator" THEN <<secret("operator")>>
                                  ELSE <<secret("operator"), public(subject)>>,
          [ttl |-> ttl])

Inspect(s) == Begin(s, "inspect", <<<<"ticket">>>>, NoArg)
Verify(s) == Begin(s, "verify", <<<<"ticket">>, public("operator")>>, NoArg)

(* --issuer-public-key, then --public-key *)
Serve(s, subject) == Begin(s, "serve", <<public("operator"), public(subject)>>, NoArg)

(* Another program, with the same keys and a transport profile for alpn.   *)
Host(s, subject, alpn) ==
    Begin(s, "host", <<public("operator"), public(subject)>>, [alpn |-> alpn])

(* The ticket and, once more, the secret are read by connect_with. *)
Connect(s, alpn) ==
    Begin(s, "connect",
          <<secret("peer"), public("operator"), <<"cert">>, <<"ticket">>, secret("peer")>>,
          [alpn |-> alpn])

-----------------------------------------------------------------------------
Goto(s, at) == job' = [job EXCEPT ![s].at = at]

End(s) == job' = [job EXCEPT ![s] = NoJob]

Read(s) ==
    /\ job[s].at = "reads"
    /\ IF job[s].todo = << >> THEN Goto(s, "acts")
       ELSE LET content == files[Head(job[s].todo)] IN
            IF content.kind = "whole"
            THEN job' = [job EXCEPT ![s].todo = Tail(@), ![s].got = Append(@, content.value)]
            ELSE End(s)
    /\ UNCHANGED <<files, server, clock, commands, issued, paired>>

Acts(s, cmd) == job[s].at = "acts" /\ job[s].cmd = cmd

Writes(s, out) == job' = [job EXCEPT ![s].at = "writes", ![s].out = out]

(* Mutant of key_outputs: the public half is of a key made anew. *)
key_outputs_anew(id, key) ==
    <<<<secret(id), key>>, <<public(id), IF key + 1 \in Keys THEN key + 1 ELSE 1>>>>

key_outputs(id, key) == <<<<secret(id), key>>, <<public(id), key>>>>

Writing(t) == job[t].at \in {"writes", "truncated"}

KeygenActs(s) ==
    /\ Acts(s, "keygen")
    /\ LET id == job[s].arg.id
           others == {t \in Shells : Writing(t) /\ job[t].cmd = "keygen" /\ job[t].arg.id = id}
       IN /\ Writes(s, key_outputs(id, job[s].arg.key))
          /\ paired' = [paired EXCEPT ![id] = IF others = {} THEN "busy" ELSE "mixed"]
    /\ UNCHANGED <<files, server, clock, commands, issued>>

(* issue_ticket; a sum that overflows panics in a build that checks it. *)
IssueActs(s) ==
    /\ Acts(s, "issue")
    /\ LET got == job[s].got  ttl == job[s].arg.ttl
           ticket == issue_ticket(got[1], got[Len(got)], ttl, clock)
       IN \/ /\ overflows(clock + ttl)
             /\ End(s)
             /\ UNCHANGED issued
          \/ /\ Writes(s, <<<<<<"ticket">>, ticket>>>>)
             /\ issued' = issued \cup {[ticket |-> ticket, until |-> clock + ttl]}
    /\ UNCHANGED <<files, server, clock, commands, paired>>

InspectActs(s) ==
    /\ Acts(s, "inspect")
    /\ End(s)
    /\ UNCHANGED <<files, server, clock, commands, issued, paired>>

(* The time is --now, or the clock; a success is kept, with its time. *)
VerifyActs(s) ==
    /\ Acts(s, "verify")
    /\ \E now \in I64 \cup {clock} :
          IF verify_ticket(job[s].got[1], job[s].got[2], now) = "Ok"
          THEN job' = [job EXCEPT ![s] = [cmd |-> "verified=true", at |-> "ended",
                                          got |-> @.got, time |-> now]]
          ELSE End(s)
    /\ UNCHANGED <<files, server, clock, commands, issued, paired>>

-----------------------------------------------------------------------------
(* tunnel_serve: --trust-store is refused; without it Endpoint::server is  *)
(* called before there is a runtime, finds none, and the command ends with *)
(* an error.                                                               *)
ServeActs(s) ==
    /\ Acts(s, "serve")
    /\ End(s)
    /\ UNCHANGED <<files, server, clock, commands, issued, paired>>

(* rustls_server_config: what a server offers, whatever its profile says *)
server_alpn(alpn) == DEFAULT_ALPN

(* self_signed_dev_cert, which makes a certificate anew at every start (the *)
(* number of the start stands for it), default_server_config, the profile,  *)
(* Endpoint::server, which needs the address, and tunnel::serve.            *)
HostActs(s) ==
    /\ Acts(s, "host")
    /\ IF server.up
       THEN End(s) /\ UNCHANGED server
       ELSE /\ Goto(s, "up")
            /\ server' = [up |-> TRUE, shell |-> s, cert |-> commands,
                          issuer |-> job[s].got[1], subject |-> job[s].got[2],
                          alpn |-> server_alpn(job[s].arg.alpn), profile |-> job[s].arg.alpn]
    /\ UNCHANGED <<files, clock, commands, issued, paired>>

(* pinned_client_config: the handshake needs the pinned certificate *)
pinned(cert) == server.up /\ server.cert = cert

(* endpoint.connect: pinned certificate and the protocol of --alpn *)
ConnectActs(s) ==
    /\ Acts(s, "connect")
    /\ IF pinned(job[s].got[3]) /\ server.alpn = job[s].arg.alpn
       THEN job' = [job EXCEPT ![s].at = "connected", ![s].out = server]
       ELSE job' = [job EXCEPT ![s] = [cmd |-> "refused", at |-> "ended", got |-> @.got,
                                       alpn |-> @.arg.alpn, met |-> server]]
    /\ UNCHANGED <<files, server, clock, commands, issued, paired>>

(* verify_ticket by the client *)
ConnectVerifies(s) ==
    /\ job[s].at = "connected"
    /\ IF verify_ticket(job[s].got[4], job[s].got[2], clock) = "Ok"
       THEN Goto(s, "verified") ELSE End(s)
    /\ UNCHANGED <<files, server, clock, commands, issued, paired>>

(* Mutant of admits: the signature is checked by the client alone. *)
admits_any_issuer(ticket) ==
    /\ verify_ticket(ticket, ticket.claims.issuer, clock) = "Ok"
    /\ ticket.claims.subject = server.subject

(* server_handshake, with allow_all_trust *)
admits(ticket) ==
    /\ verify_ticket(ticket, server.issuer, clock) = "Ok"
    /\ ticket.claims.subject = server.subject

(* client_handshake with the server, if it is still the one *)
ConnectHandshakes(s) ==
    /\ job[s].at = "verified"
    /\ IF server = job[s].out /\ admits(job[s].got[4])
       THEN job' = [job EXCEPT ![s].at = "up", ![s].arg = [time |-> clock]]
       ELSE End(s)
    /\ UNCHANGED <<files, server, clock, commands, issued, paired>>

-----------------------------------------------------------------------------
(* fs::write: open with truncation, then write.  Bytes of another process  *)
(* that wrote in between stay behind a shorter ticket; keys are as long as *)
(* each other.                                                             *)
Truncate(s) ==
    /\ job[s].at = "writes"
    /\ Goto(s, "truncated")
    /\ files' = [files EXCEPT ![job[s].out[1][1]] = Cut]
    /\ UNCHANGED <<server, clock, commands, issued, paired>>

Write(s) ==
    /\ job[s].at = "truncated"
    /\ LET f == job[s].out[1][1]  rest == Tail(job[s].out) IN
       /\ files' \in {[files EXCEPT ![f] = c] : c \in
              {Whole(job[s].out[1][2])}
              \cup (IF f = <<"ticket">> /\ files[f] # Cut THEN {Cut} ELSE {})}
       /\ IF rest = << >> THEN End(s) ELSE Writes(s, rest)
       /\ paired' = IF job[s].cmd = "keygen" /\ rest = << >> /\ paired[job[s].arg.id] = "busy"
                    THEN [paired EXCEPT ![job[s].arg.id] = "clean"] ELSE paired
    /\ UNCHANGED <<server, clock, commands, issued>>

(* The process ends by a signal, by an error of a write, or with its host. *)
Kill(s) ==
    /\ job[s].at # "ended"
    /\ job' = [job EXCEPT ![s] = NoJob]
    /\ server' = IF server.up /\ server.shell = s THEN NoServer ELSE server
    /\ UNCHANGED <<files, clock, commands, issued, paired>>

(* Out of band: the certificate of the running server reaches the peer.    *)
ShipCertificate ==
    /\ server.up /\ files[<<"cert">>] # Whole(server.cert)
    /\ files' = [files EXCEPT ![<<"cert">>] = Whole(server.cert)]
    /\ UNCHANGED <<job, server, clock, commands, issued, paired>>

Tick ==
    /\ clock < MaxClock
    /\ clock' = clock + 1
    /\ UNCHANGED <<files, job, server, commands, issued, paired>>

Start(s) ==
    \/ \E id \in Ids : Keygen(s, id)
    \/ \E subject \in Ids, ttl \in Ttls : Issue(s, subject, ttl)
    \/ Inspect(s)
    \/ Verify(s)
    \/ \E subject \in Ids : Serve(s, subject)
    \/ \E subject \in Ids, alpn \in Alpns : Host(s, subject, alpn)
    \/ \E alpn \in Alpns : Connect(s, alpn)

Step(s) ==
    \/ Read(s)
    \/ KeygenActs(s) \/ IssueActs(s) \/ InspectActs(s) \/ VerifyActs(s) \/ ServeActs(s)
    \/ HostActs(s) \/ ConnectActs(s) \/ ConnectVerifies(s) \/ ConnectHandshakes(s)
    \/ Truncate(s) \/ Write(s)
    \/ Kill(s)

Next == (\E s \in Shells : Start(s) \/ Step(s)) \/ ShipCertificate \/ Tick

Spec == Init /\ [][Next]_vars

-----------------------------------------------------------------------------
(* After a keygen that ran alone to its end, the two key files are halves  *)
(* of one key, whatever keygens were killed or ran into each other before. *)
KeyFilesAgree ==
    \A id \in Ids : paired[id] = "clean" =>
        files[secret(id)].kind = "whole" /\ files[secret(id)] = files[public(id)]

(* ticket verify says verified=true only of a ticket that was issued, by   *)
(* the key of the public key file, and at most ttl seconds before the time *)
(* it was verified for, also when the sum of now and ttl left the range of *)
(* i64.                                                                    *)
VerifiedIsValid ==
    \A s \in Shells : job[s].cmd = "verified=true" =>
        \E i \in issued : /\ i.ticket = job[s].got[1]
                          /\ i.ticket.claims.issuer = job[s].got[2]
                          /\ job[s].time <= i.until

(* A tunnel connect that is up was let in by the server of which it pinned *)
(* the certificate, with a ticket that the key of that server's issuer     *)
(* signed, for its subject, and that had not run out then: whatever keys   *)
(* were rotated, tickets reissued and servers restarted meanwhile.         *)
TunnelIsAuthorised ==
    \A s \in Shells : job[s].cmd = "connect" /\ job[s].at = "up" =>
        LET met == job[s].out IN
        /\ met.cert = job[s].got[3]
        /\ \E i \in issued : /\ i.ticket = job[s].got[4]
                             /\ i.ticket.claims.issuer = met.issuer
                             /\ i.ticket.claims.subject = met.subject
                             /\ job[s].arg.time <= i.until

(* tunnel::connect is not refused at the QUIC handshake by a running       *)
(* server whose certificate it pins and whose ALPN it gives (as            *)
(* tunnel.rs:451 asks for): the ALPN of the profile that the server was    *)
(* built with.                                                             *)
SameAlpnConnects ==
    \A s \in Shells : job[s].cmd = "refused" =>
        \/ ~job[s].met.up
        \/ job[s].met.cert # job[s].got[3]
        \/ job[s].met.profile # job[s].alpn

=============================================================================
