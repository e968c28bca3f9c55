-------------------------- MODULE HandshakeProofs --------------------------
(***************************************************************************)
(* The handshake on any connections, with any tickets, keys and clock.     *)
(***************************************************************************)
EXTENDS Handshake, TLAPS

(* What the ends of a connection know of each other: a client that has     *)
(* failed has closed the connection, and what it reads the server wrote.   *)
Ends ==
    \A c \in Conns :
        /\ client[c] = "idle" => sent[c] = NoTicket
        /\ client[c] \in {"sending", "waiting"} => sent[c] \in Bodies
        /\ client[c] = "failed" => link[c] # "up"
        /\ client[c] = "ok" => reply[c].kind = "Ok"
        /\ reply[c].kind = "Ok" => server[c] = "ok" /\ reply[c] = OkReply(sent[c].claims)

(* vouched holds the keys that are trusted while a handshake runs. *)
Vouching ==
    \A c \in Conns : client[c] \in {"sending", "waiting"} => trusted \subseteq vouched[c]

(* The server read the clock after the client had begun to write. *)
Clocks ==
    \A c \in Conns : server[c] = "reading" /\ ~ServerOpens =>
        sent[c] # NoTicket /\ sent_at[c] <= now_unix[c]

(* A server that has approved a ticket has checked it. *)
Checked(c) ==
    /\ client[c] \notin {"idle", "sending"}
    /\ sent[c] \in Tickets
    /\ verify_ticket(sent[c], IssuerKey, now_unix[c]) = "Ok"
    /\ sent[c].claims.subject = ExpectedSubject
    /\ client[c] # "failed" => sent[c].claims.issuer \in vouched[c]
    /\ sent_at[c] <= now_unix[c]

Approved == \A c \in Conns : server[c] \in {"replying", "ok"} => Checked(c)

IInv == TypeOK /\ Ends /\ Vouching /\ Clocks /\ Approved

-----------------------------------------------------------------------------
(* The checks of a ticket end in one of the kinds of a failure, or in Ok. *)
LEMMA OutcomeKinds ==
    ASSUME NEW body, NEW now
    PROVE  outcome(body, now) \in Kinds \cup {"Ok"}
BY DEF outcome, verify_ticket, Kinds

(* The initial state satisfies the inductive invariant. *)
LEMMA InitIInv == Init => IInv
BY DEF Init, IInv, TypeOK, Ends, Vouching, Clocks, Approved, Open, Kinds

(* The client's steps preserve the inductive invariant. *)
LEMMA ClientIInv ==
    ASSUME IInv, NEW c \in Conns,
           \/ \E body \in Bodies : ClientSends(c, body)
           \/ \E ticket \in Tickets : ConnectSends(c, ticket)
           \/ \E ticket \in Tickets : ConnectRefuses(c, ticket)
           \/ ClientFinishes(c)
           \/ ClientReads(c)
           \/ ClientFails(c)
    PROVE  IInv'
<1>1. ASSUME NEW body \in Bodies, ClientSends(c, body)
      PROVE  IInv'
  <2>1. TypeOK'
    BY <1>1 DEF IInv, TypeOK, ClientSends
  <2>2. Ends' /\ Vouching'
    BY <1>1 DEF IInv, TypeOK, Ends, Vouching, Approved, Checked, ClientSends
  <2>3. Clocks' /\ Approved'
    BY <1>1 DEF IInv, TypeOK, Ends, Clocks, Approved, Checked, ClientSends
  <2>. QED  BY <2>1, <2>2, <2>3 DEF IInv
<1>2. ASSUME NEW ticket \in Tickets, ConnectSends(c, ticket)
      PROVE  IInv'
  BY <1>1, <1>2 DEF ConnectSends, Bodies
<1>3. ASSUME GivesUp(c)
      PROVE  IInv'
  <2>1. TypeOK'
    BY <1>3 DEF IInv, TypeOK, GivesUp
  <2>2. Ends' /\ Vouching'
    BY <1>3 DEF IInv, TypeOK, Ends, Vouching, Approved, Checked, GivesUp
  <2>3. Clocks' /\ Approved'
    BY <1>3 DEF IInv, TypeOK, Ends, Clocks, Approved, Checked, GivesUp
  <2>. QED  BY <2>1, <2>2, <2>3 DEF IInv
<1>4. ASSUME ClientFinishes(c)
      PROVE  IInv'
  BY <1>4 DEF IInv, TypeOK, Ends, Vouching, Clocks, Approved, Checked, ClientFinishes, hist
<1>5. ASSUME ClientReads(c)
      PROVE  IInv'
  BY <1>5 DEF IInv, TypeOK, Ends, Vouching, Clocks, Approved, Checked, ClientReads, hist
<1>. QED
  BY <1>1, <1>2, <1>3, <1>4, <1>5 DEF ConnectRefuses, ClientFails

(* The server's steps preserve the inductive invariant. *)
LEMMA ServerIInv ==
    ASSUME IInv, NEW c \in Conns,
           \/ ServerStarts(c)
           \/ ServerRejects(c)
           \/ ServerApproves(c)
           \/ ServerReplies(c)
           \/ ServerDisconnected(c)
    PROVE  IInv'
<1>1. ASSUME ServerStarts(c)
      PROVE  IInv'
  BY <1>1 DEF IInv, TypeOK, Ends, Vouching, Clocks, Approved, Checked, ServerStarts, hist
<1>2. ASSUME NEW k \in Kinds, ServerFails(c, k), server[c] \in {"idle", "reading", "replying"}
      PROVE  IInv'
  BY <1>2 DEF IInv, TypeOK, Ends, Vouching, Clocks, Approved, Checked, ServerFails, hist, Finished
<1>3. ASSUME ServerRejects(c)
      PROVE  IInv'
  BY <1>2, <1>3, OutcomeKinds DEF ServerRejects, HasRead
<1>4. ASSUME ServerApproves(c)
      PROVE  IInv'
  <2>1. client[c] = "waiting" /\ sent[c] \in Bodies /\ sent_at[c] <= now_unix[c]
        /\ trusted \subseteq vouched[c]
    BY <1>4 DEF ServerApproves, HasRead, IInv, TypeOK, Ends, Vouching, Clocks
  <2>2. /\ sent[c] # Malformed
        /\ verify_ticket(sent[c], IssuerKey, now_unix[c]) = "Ok"
        /\ sent[c].claims.issuer \in trusted
        /\ sent[c].claims.subject = ExpectedSubject
    BY <1>4 DEF ServerApproves, outcome
  <2>3. Checked(c)
    BY <2>1, <2>2 DEF Checked, Bodies
  <2>4. /\ server' = [server EXCEPT ![c] = "replying"]
        /\ UNCHANGED <<client, sent, now_unix, kind, reply, link, trusted, clock, sent_at,
                       vouched>>
    BY <1>4 DEF ServerApproves, hist
  <2>5. TypeOK' /\ Vouching' /\ Clocks'
    BY <2>4 DEF IInv, TypeOK, Vouching, Clocks
  <2>6. Ends'
    BY <1>4, <2>4 DEF ServerApproves, HasRead, IInv, Ends
  <2>7. Approved'
    BY <2>3, <2>4 DEF IInv, TypeOK, Approved, Checked
  <2>. QED  BY <2>5, <2>6, <2>7 DEF IInv
<1>5. ASSUME ServerReplies(c)
      PROVE  IInv'
  BY <1>5 DEF ServerReplies, IInv, TypeOK, Ends, Vouching, Clocks, Approved, Checked, OkReply, hist
<1>6. ASSUME ServerDisconnected(c)
      PROVE  IInv'
  BY <1>2, <1>6 DEF ServerDisconnected, Kinds
<1>. QED  BY <1>1, <1>3, <1>4, <1>5, <1>6

(* So do the events outside. *)
LEMMA OutsideIInv ==
    ASSUME IInv,
           \/ \E c \in Conns : Loses(c)
           \/ \E k \in Keys : Add(k) \/ Remove(k)
           \/ Tick
    PROVE  IInv'
<1>1. ASSUME NEW c \in Conns, Loses(c)
      PROVE  IInv'
  BY <1>1 DEF Loses, IInv, TypeOK, Ends, Vouching, Clocks, Approved, Checked, hist
<1>2. ASSUME NEW keys \in SUBSET Keys, SetTrust(keys)
      PROVE  IInv'
  BY <1>2 DEF SetTrust, IInv, TypeOK, Ends, Vouching, Clocks, Approved, Checked
<1>3. ASSUME Tick
      PROVE  IInv'
  BY <1>3 DEF Tick, IInv, TypeOK, Ends, Vouching, Clocks, Approved, Checked, hist
<1>4. ASSUME NEW k \in Keys, Add(k) \/ Remove(k)
      PROVE  IInv'
  <2>1. trusted \cup {k} \in SUBSET Keys /\ trusted \ {k} \in SUBSET Keys
    BY DEF IInv, TypeOK
  <2>. QED  BY <1>2, <1>4, <2>1 DEF Add, Remove
<1>. QED  BY <1>1, <1>3, <1>4

(* Every step preserves the inductive invariant. *)
LEMMA NextIInv == IInv /\ [Next]_vars => IInv'
<1>. SUFFICES ASSUME IInv, [Next]_vars PROVE IInv'
  OBVIOUS
<1>1. CASE UNCHANGED vars
  BY <1>1 DEF vars, hist, IInv, TypeOK, Ends, Vouching, Clocks, Approved, Checked
<1>2. CASE Next
  BY <1>2, ClientIInv, ServerIInv, OutsideIInv, HandshakeAssumption DEF Next
<1>. QED  BY <1>1, <1>2

-----------------------------------------------------------------------------
(* The types of both ends and of what is between them hold in every state. *)
THEOREM TypeCorrect == Spec => []TypeOK
<1>1. IInv => TypeOK
  BY DEF IInv
<1>. QED  BY <1>1, InitIInv, NextIInv, PTL DEF Spec

(* On any number of connections, whatever the tickets and the changes of   *)
(* the trust store during server_handshake, a client that gets Ok          *)
(* presented a ticket that was signed, meant for the subject and vouched   *)
(* for by an issuer trusted during the handshake.                          *)
THEOREM SuccessIsAuthorisedHolds == Spec => []SuccessIsAuthorised
<1>1. IInv => SuccessIsAuthorised
  BY DEF IInv, Ends, Approved, Checked, SuccessIsAuthorised, verify_ticket
<1>. QED  BY <1>1, InitIInv, NextIInv, PTL DEF Spec

(* server_handshake accepts no ticket that had expired when the client     *)
(* began to write it, however long the rest of the ticket takes to arrive. *)
THEOREM FreshWhenSentHolds == Spec => []FreshWhenSent
<1>1. IInv => FreshWhenSent
  <2>. SUFFICES ASSUME IInv, NEW c \in Conns, server[c] \in {"replying", "ok"}
                PROVE  sent_at[c] <= sent[c].claims.expires_at
    BY DEF FreshWhenSent
  <2>1. Checked(c)
    BY DEF IInv, Approved
  <2>2. sent_at[c] \in Int /\ now_unix[c] \in Int /\ sent[c].claims.expires_at \in Int
    BY <2>1, HandshakeAssumption, TicketAssumption
       DEF Checked, IInv, TypeOK, TicketClaims, I64
  <2>3. now_unix[c] <= sent[c].claims.expires_at
    BY <2>1, <2>2 DEF Checked, verify_ticket
  <2>. QED  BY <2>1, <2>2, <2>3 DEF Checked
<1>. QED  BY <1>1, InitIInv, NextIInv, PTL DEF Spec

=============================================================================
