------------------------- MODULE CommandLineProofs -------------------------
(***************************************************************************)
(* The commands and the files they share, for any number of shells, keys,  *)
(* commands and seconds, any --ttl-seconds and any --alpn.                 *)
(***************************************************************************)
EXTENDS CommandLine, TLAPS

(* Zenon finds the steps of logic and sets; a step about numbers, records  *)
(* or tuples names SMT.                                                    *)
USE Zenon

(* What files hold and commands carry, as types. *)
Signed == [claims : TicketClaims, signature : [key : Keys, payload : TicketClaims]]
Values == Signed \cup Nat
Bound  == [up : {TRUE}, shell : Shells, cert : Nat, issuer : Keys, subject : Keys,
           alpn : Alpns, profile : Alpns]
Servers == Bound \cup {NoServer}

KeygenArg  == [id : Ids, key : Keys]
IssueArg   == [ttl : Ttls]
AlpnArg    == [alpn : Alpns]
TunnelArg  == [time : Nat]

Process ==
    [cmd  : {"keygen", "issue", "inspect", "verify", "serve", "host", "connect"},
     at   : {"reads", "acts", "connected", "verified", "up", "writes", "truncated"},
     todo : Seq(Files), got : Seq(Values),
     arg  : KeygenArg \cup IssueArg \cup {NoArg} \cup AlpnArg \cup TunnelArg,
     out  : Seq(Files \X Values) \cup Bound]
Verified == [cmd : {"verified=true"}, at : {"ended"}, got : Seq(Values), time : Int]
Refused  == [cmd : {"refused"}, at : {"ended"}, got : Seq(Values), alpn : Alpns, met : Servers]

AnyJob   == {NoJob} \cup Process \cup Verified \cup Refused

Shapes ==
    /\ files \in [Files -> {Cut} \cup [kind : {"whole"}, value : Values]]
    /\ job \in [Shells -> AnyJob]
    /\ server \in Servers
    /\ clock \in 0 .. MaxClock /\ commands \in 0 .. MaxCommands
    /\ issued \subseteq [ticket : Signed, until : Int]
    /\ paired \in [Ids -> {"clean", "busy", "mixed"}]

(* Every ticket that was made is signed by its issuer and says no later    *)
(* expiry than its --ttl-seconds meant.                                    *)
Issues ==
    \A i \in issued :
        /\ i.ticket.signature = [key |-> i.ticket.claims.issuer, payload |-> i.ticket.claims]
        /\ i.ticket.claims.expires_at <= i.until

(* What a file holds when it is whole, given the tickets I that were made: *)
(* the ticket file one of them, a key file a key, the certificate the      *)
(* number of a start.                                                      *)
Fits(I, f, x) ==
    /\ f = <<"ticket">> => \E i \in I : x = i.ticket
    /\ f = <<"cert">> => x \in Nat
    /\ f \notin {<<"ticket">>, <<"cert">>} => x \in Keys

Contents == \A f \in Files : files[f].kind = "whole" => Fits(issued, f, files[f].value)

(* The files that a command reads, in order. *)
Plans(cmd) ==
    CASE cmd = "keygen"  -> {<< >>}
      [] cmd = "issue"   -> {<<secret("operator")>>, <<secret("operator"), public("peer")>>}
      [] cmd = "inspect" -> {<<<<"ticket">>>>}
      [] cmd = "verify"  -> {<<<<"ticket">>, public("operator")>>}
      [] cmd \in {"serve", "host"} -> {<<public("operator"), public(id)>> : id \in Ids}
      [] cmd = "connect" -> {<<secret("peer"), public("operator"), <<"cert">>, <<"ticket">>,
                               secret("peer")>>}

(* How far a command is in its plan, and that it has read what fits. *)
Follows(I, plan, todo, got) ==
    /\ Len(plan) = Len(got) + Len(todo)
    /\ \A i \in 1 .. Len(got) : Fits(I, plan[i], got[i])
    /\ \A i \in 1 .. Len(todo) : todo[i] = plan[Len(got) + i]

Reading(I, j) ==
    j.at \in {"reads", "acts", "connected", "verified", "up"} =>
        /\ \E plan \in Plans(j.cmd) : Follows(I, plan, j.todo, j.got)
        /\ j.at # "reads" => j.todo = << >>

(* The stages a command goes through and the argument it has there. *)
Stages(j) ==
    /\ j.cmd = "keygen" => j.at \in {"reads", "acts", "writes", "truncated"} /\ j.arg \in KeygenArg
    /\ j.cmd = "issue" => j.at \in {"reads", "acts", "writes", "truncated"} /\ j.arg \in IssueArg
    /\ j.cmd \in {"inspect", "verify", "serve"} => j.at \in {"reads", "acts"}
    /\ j.cmd = "host" => j.at \in {"reads", "acts", "up"} /\ j.arg \in AlpnArg
    /\ j.cmd = "connect" => /\ j.at \in {"reads", "acts", "connected", "verified", "up"}
                            /\ j.arg \in IF j.at = "up" THEN TunnelArg ELSE AlpnArg
                            /\ j.at \in {"connected", "verified", "up"} =>
                                  j.out \in Bound /\ j.out.cert = j.got[3]

(* What a command that writes has left to write. *)
Outputs(I, j) ==
    j.at \in {"writes", "truncated"} =>
        /\ j.cmd = "keygen" => \/ j.out = key_outputs(j.arg.id, j.arg.key)
                               \/ j.out = <<<<public(j.arg.id), j.arg.key>>>>
        /\ j.cmd = "issue" => \E i \in I : j.out = <<<<<<"ticket">>, i.ticket>>>>

(* What a verified=true and a tunnel that is up rest on. *)
Vouched(I, j) ==
    /\ j.cmd = "verified=true" =>
          \E i \in I : /\ i.ticket = j.got[1] /\ i.ticket.claims.issuer = j.got[2]
                       /\ j.time <= i.until
    /\ j.cmd = "connect" /\ j.at = "up" =>
          \E i \in I : /\ i.ticket = j.got[4]
                       /\ i.ticket.claims.issuer = j.out.issuer
                       /\ i.ticket.claims.subject = j.out.subject
                       /\ j.arg.time <= i.until

Sound(I, j) ==
    /\ j.at # "ended" => Reading(I, j) /\ Stages(j) /\ Outputs(I, j)
    /\ Vouched(I, j)

(* The keygens that write the key files of an identity. *)
Writers(id) == {s \in Shells : Writing(s) /\ job[s].cmd = "keygen" /\ job[s].arg.id = id}

(* No keygen writes what is clean; the one that runs alone has, when only  *)
(* the public half is left to write, written the secret one.               *)
Generates(s, id, key) == job[s].cmd = "keygen" /\ job[s].arg = [id |-> id, key |-> key]
BothLeft(s, id, key) == job[s].out = <<<<secret(id), key>>, <<public(id), key>>>>
OnlyPublicLeft(s, id) == job[s].out = <<<<public(id), job[s].arg.key>>>>
TicketLeft(s, i) == job[s].cmd = "issue" /\ job[s].out = <<<<<<"ticket">>, i.ticket>>>>
Pair(id) ==
    /\ paired[id] = "clean" => Writers(id) = {}
    /\ paired[id] = "busy" =>
          /\ \A s, t \in Writers(id) : s = t
          /\ \A s \in Writers(id) :
                OnlyPublicLeft(s, id) => files[secret(id)] = Whole(job[s].arg.key)
Pairing == \A id \in Ids : Pair(id)

IInv ==
    /\ Shapes /\ Issues /\ Contents /\ Pairing /\ KeyFilesAgree
    /\ \A s \in Shells : Sound(issued, job[s])

-----------------------------------------------------------------------------
(* A sum of i64 that wraps around is a smaller one, and any is an i64: no  *)
(* expiry is later than the sum of now and ttl.                            *)
LEMMA WrapFacts ==
    ASSUME NEW x \in Int, x >= -MaxI64 - 1
    PROVE  wrap(x) \in I64 /\ wrap(x) <= x
<1>. DEFINE m == 2 * (MaxI64 + 1)
            a == x + MaxI64 + 1
<1>1. m \in Nat \ {0} /\ a \in Nat
  BY TicketAssumption, SMT
<1>2. a % m \in 0 .. m - 1 /\ a % m <= a
  BY <1>1, SMT
<1>. QED  BY <1>2, TicketAssumption, SMT DEF wrap, I64

(* issue_ticket signs with the key of the issuer. *)
LEMMA IssueFacts ==
    ASSUME NEW key \in Keys, NEW subject \in Keys, NEW ttl \in I64, NEW now \in Nat,
           NEW t, t = issue_ticket(key, subject, ttl, now)
    PROVE  /\ t \in Signed
           /\ t.claims.issuer = key
           /\ t.signature = [key |-> t.claims.issuer, payload |-> t.claims]
           /\ t.claims.expires_at <= now + ttl
<1>1. now + ttl \in Int /\ now + ttl >= -MaxI64 - 1
  BY TicketAssumption, SMT DEF I64
<1>2. wrap(now + ttl) \in I64 /\ wrap(now + ttl) <= now + ttl
  BY <1>1, WrapFacts
<1>3. TICKET_VERSION \in Nat
  BY DEF TICKET_VERSION
<1>. QED
  BY <1>2, <1>3 DEF issue_ticket, sign_ticket, Signed, TicketClaims

(* A ticket that verify_ticket accepts has not run out and is signed by    *)
(* the key it was verified with.                                           *)
LEMMA VerifyFacts ==
    ASSUME NEW t \in Signed, NEW key, NEW now \in Int, verify_ticket(t, key, now) = "Ok"
    PROVE  now <= t.claims.expires_at /\ t.signature.key = key
<1>1. ~(now > t.claims.expires_at) /\ t.signature = [key |-> key, payload |-> t.claims]
  BY DEF verify_ticket
<1>2. t.claims.expires_at \in Int
  BY TicketAssumption, SMT DEF Signed, TicketClaims, I64
<1>. QED  BY <1>1, <1>2, SMT

(* The files are different ones. *)
LEMMA FileFacts ==
    /\ <<"ticket">> \in Files /\ <<"cert">> \in Files /\ <<"ticket">> # <<"cert">>
    /\ \A id \in Ids :
          /\ secret(id) \in Files /\ public(id) \in Files
          /\ secret(id) \notin {<<"ticket">>, <<"cert">>}
          /\ public(id) \notin {<<"ticket">>, <<"cert">>}
    /\ \A id, other \in Ids :
          /\ secret(id) # public(other)
          /\ secret(id) = secret(other) => id = other
          /\ public(id) = public(other) => id = other
BY DEF Files, Ids, secret, public

(* What is known of a command stays true as more tickets are made. *)
LEMMA SoundGrows ==
    ASSUME NEW I, NEW J, I \subseteq J, NEW j, Sound(I, j)
    PROVE  Sound(J, j)
<1>1. \A f, x : Fits(I, f, x) => Fits(J, f, x)
  BY DEF Fits
<1>2. Reading(I, j) => Reading(J, j)
  BY <1>1 DEF Reading, Follows
<1>3. Outputs(I, j) => Outputs(J, j)
  BY DEF Outputs
<1>4. Vouched(J, j)
  BY DEF Sound, Vouched
<1>. QED  BY <1>2, <1>3, <1>4 DEF Sound

-----------------------------------------------------------------------------
(* The initial state satisfies the inductive invariant. *)
LEMMA InitIInv == Init => IInv
<1>. SUFFICES ASSUME Init PROVE IInv
  OBVIOUS
<1>1. 1 \in Keys /\ 2 \in Keys /\ Keys \subseteq Nat
  BY CommandAssumption, SMT
<1>2. MaxI64 \in Nat /\ (MaxI64 = 0 \/ 1 \in I64)
  BY TicketAssumption, SMT DEF I64
<1>3. FirstTicket \in Signed /\ FirstTicket.claims.issuer = 1
      /\ FirstTicket.signature = [key |-> FirstTicket.claims.issuer,
                                  payload |-> FirstTicket.claims]
      /\ FirstTicket.claims.expires_at <= 1
  <2>1. wrap(0 + 1) \in I64 /\ wrap(0 + 1) <= 1
    BY <1>2, WrapFacts, SMT
  <2>2. TICKET_VERSION \in Nat
    BY DEF TICKET_VERSION
  <2>. QED
    BY <1>1, <2>1, <2>2 DEF FirstTicket, issue_ticket, sign_ticket, Signed, TicketClaims
<1>. HIDE DEF FirstTicket
<1>4. /\ files[<<"ticket">>] = Whole(FirstTicket) /\ files[<<"cert">>] = Whole(0)
      /\ \A id \in Ids : \E k \in {1, 2} : files[secret(id)] = Whole(k) /\ files[public(id)] = Whole(k)
  BY FileFacts DEF Init, Files, Ids, secret, public
<1>5. \A f \in Files : f \in {<<"ticket">>, <<"cert">>} \/ \E id \in Ids : f \in {secret(id), public(id)}
  BY DEF Files
<1>6. Shapes
  <2>1. \A f \in Files : files[f] \in [kind : {"whole"}, value : Values]
    BY <1>1, <1>3, <1>4, <1>5, SMT DEF Whole, Values
  <2>2. files \in [Files -> {Cut} \cup [kind : {"whole"}, value : Values]]
    BY <2>1 DEF Init
  <2>. QED
    BY <1>3, <2>2, CommandAssumption, SMT DEF Init, Shapes, Servers, AnyJob
<1>7. Issues
  BY <1>3, SMT DEF Init, Issues
<1>8. Contents
  <2>1. \E i \in issued : FirstTicket = i.ticket
    BY DEF Init
  <2>. QED  BY <1>1, <1>4, <1>5, <2>1, FileFacts, SMT DEF Contents, Fits, Whole
<1>9. Pairing /\ KeyFilesAgree
  <2>1. \A id : Writers(id) = {}
    BY DEF Init, Writers, Writing, NoJob
  <2>2. \A id \in Ids : paired[id] = "clean"
    BY DEF Init
  <2>3. KeyFilesAgree
    BY <1>4, SMT DEF KeyFilesAgree, Whole
  <2>. QED  BY <2>1, <2>2, <2>3 DEF Pairing, Pair
<1>10. \A s \in Shells : Sound(issued, job[s])
  BY DEF Init, NoJob, Sound, Vouched
<1>. QED  BY <1>6, <1>7, <1>8, <1>9, <1>10 DEF IInv

(* What is known of the two files of an identity stays true where a step   *)
(* writes no secret half and adds no keygen.                               *)
LEMMA PairKept ==
    ASSUME NEW o \in Ids, Pair(o), paired'[o] = paired[o], files'[secret(o)] = files[secret(o)],
           Writers(o)' \subseteq Writers(o),
           \A t \in Writers(o)' : job'[t].out = job[t].out /\ job'[t].arg = job[t].arg
    PROVE  Pair(o)'
<1>1. \A t \in Writers(o)' : OnlyPublicLeft(t, o)' => OnlyPublicLeft(t, o)
  BY DEF OnlyPublicLeft
<1>. QED  BY <1>1 DEF Pair

(* A step of one command that writes no file and makes no ticket. *)
LEMMA QuietStep ==
    ASSUME IInv, NEW s \in Shells, NEW j \in AnyJob, job' = [job EXCEPT ![s] = j],
           j.at \notin {"writes", "truncated"}, Sound(issued, j),
           server' \in Servers, commands' \in 0 .. MaxCommands,
           UNCHANGED <<files, clock, issued, paired>>
    PROVE  IInv'
<1>1. job \in [Shells -> AnyJob]
  BY DEF IInv, Shapes
<1>2. job' \in [Shells -> AnyJob]
      /\ \A t \in Shells : job'[t] = IF t = s THEN j ELSE job[t]
  BY <1>1
<1>3. Shapes'
  BY <1>2 DEF IInv, Shapes
<1>4. Issues' /\ Contents' /\ KeyFilesAgree'
  BY DEF IInv, Issues, Contents, KeyFilesAgree
<1>5. Pairing'
  <2>1. \A id : /\ Writers(id)' \subseteq Writers(id)
                /\ \A t \in Writers(id)' : job'[t] = job[t]
    BY <1>2 DEF Writers, Writing
  <2>. QED  BY <2>1, PairKept DEF IInv, Pairing
<1>6. \A t \in Shells : Sound(issued', job'[t])
  BY <1>2 DEF IInv
<1>. QED  BY <1>3, <1>4, <1>5, <1>6 DEF IInv

(* A command ends, or is killed, and leaves nothing to vouch for. *)
LEMMA NoJobFacts ==
    NoJob \in AnyJob /\ NoJob.at = "ended" /\ \A I : Sound(I, NoJob)
BY DEF NoJob, AnyJob, Sound, Vouched

(* A command that is not at its end is a process. *)
LEMMA RunningFacts ==
    ASSUME IInv, NEW s \in Shells, job[s].at # "ended"
    PROVE  /\ job[s] \in Process
           /\ Reading(issued, job[s]) /\ Stages(job[s]) /\ Outputs(issued, job[s])
<1>1. job[s] \in AnyJob /\ Sound(issued, job[s])
  BY DEF IInv, Shapes
<1>2. job[s] \in Process
  BY <1>1, SMT DEF AnyJob, NoJob, Verified, Refused
<1>. QED  BY <1>1, <1>2 DEF Sound

-----------------------------------------------------------------------------
(* A command starts with all of its plan to read. *)
LEMMA BeginIInv ==
    ASSUME IInv, NEW s \in Shells, NEW cmd, NEW todo, NEW arg, Begin(s, cmd, todo, arg),
           todo \in Plans(cmd), todo \in Seq(Files),
           \/ cmd = "keygen" /\ arg \in KeygenArg
           \/ cmd = "issue" /\ arg \in IssueArg
           \/ cmd \in {"inspect", "verify", "serve"} /\ arg = NoArg
           \/ cmd \in {"host", "connect"} /\ arg \in AlpnArg
    PROVE  IInv'
<1>. DEFINE j == [cmd |-> cmd, at |-> "reads", todo |-> todo,
                  got |-> << >>, arg |-> arg, out |-> << >>]
<1>1. j \in Process
  BY SMT DEF Process
<1>2. Reading(issued, j)
  <2>1. Follows(issued, todo, todo, << >>)
    BY SMT DEF Follows
  <2>. QED  BY <2>1 DEF Reading
<1>3. Stages(j)
  BY DEF Stages
<1>4. Sound(issued, j)
  BY <1>2, <1>3 DEF Sound, Outputs, Vouched
<1>5. j \in AnyJob /\ j.at = "reads"
  BY <1>1 DEF AnyJob
<1>6. /\ job' = [job EXCEPT ![s] = j]
      /\ UNCHANGED <<files, server, clock, issued, paired>>
      /\ server' \in Servers /\ commands' \in 0 .. MaxCommands
  BY CommandAssumption, SMT DEF Begin, IInv, Shapes
<1>. HIDE DEF j
<1>. QED  BY <1>4, <1>5, <1>6, QuietStep

(* So do the six commands and the program that serves. *)
LEMMA StartIInv ==
    ASSUME IInv, NEW s \in Shells, Start(s)
    PROVE  IInv'
<1>1. ASSUME NEW id \in Ids, Keygen(s, id) PROVE IInv'
  <2>1. commands + 3 \in Keys
    BY <1>1, CommandAssumption, SMT DEF Keygen, Begin, IInv, Shapes
  <2>2. [id |-> id, key |-> commands + 3] \in KeygenArg
    BY <2>1 DEF KeygenArg
  <2>3. << >> \in Plans("keygen") /\ << >> \in Seq(Files)
    BY SMT DEF Plans
  <2>. QED  BY <1>1, <2>2, <2>3, BeginIInv DEF Keygen
<1>2. ASSUME NEW subject \in Ids, NEW ttl \in Ttls, Issue(s, subject, ttl) PROVE IInv'
  <2>. DEFINE todo == IF subject = "operator" THEN <<secret("operator")>>
                      ELSE <<secret("operator"), public(subject)>>
  <2>1. todo \in Plans("issue") /\ todo \in Seq(Files)
    BY FileFacts, SMT DEF Plans, Ids
  <2>2. [ttl |-> ttl] \in IssueArg
    BY DEF IssueArg
  <2>3. Begin(s, "issue", todo, [ttl |-> ttl])
    BY <1>2 DEF Issue
  <2>. HIDE DEF todo
  <2>. QED  BY <2>1, <2>2, <2>3, BeginIInv
<1>3. CASE Inspect(s)
  <2>1. <<<<"ticket">>>> \in Plans("inspect") /\ <<<<"ticket">>>> \in Seq(Files)
    BY FileFacts, SMT DEF Plans
  <2>. QED  BY <1>3, <2>1, BeginIInv DEF Inspect
<1>4. CASE Verify(s)
  <2>1. <<<<"ticket">>, public("operator")>> \in Plans("verify")
        /\ <<<<"ticket">>, public("operator")>> \in Seq(Files)
    BY FileFacts, SMT DEF Plans, Ids
  <2>. QED  BY <1>4, <2>1, BeginIInv DEF Verify
<1>5. ASSUME NEW subject \in Ids, NEW alpn \in Alpns, Serve(s, subject) \/ Host(s, subject, alpn)
      PROVE  IInv'
  <2>. DEFINE todo == <<public("operator"), public(subject)>>
  <2>1. todo \in Plans("serve") /\ todo \in Plans("host") /\ todo \in Seq(Files)
    BY FileFacts, SMT DEF Plans, Ids
  <2>2. [alpn |-> alpn] \in AlpnArg
    BY DEF AlpnArg
  <2>3. Begin(s, "serve", todo, NoArg) \/ Begin(s, "host", todo, [alpn |-> alpn])
    BY <1>5 DEF Serve, Host
  <2>. HIDE DEF todo
  <2>. QED  BY <2>1, <2>2, <2>3, BeginIInv
<1>6. ASSUME NEW alpn \in Alpns, Connect(s, alpn) PROVE IInv'
  <2>. DEFINE todo == <<secret("peer"), public("operator"), <<"cert">>, <<"ticket">>, secret("peer")>>
  <2>1. todo \in Plans("connect") /\ todo \in Seq(Files)
    BY FileFacts, SMT DEF Plans, Ids
  <2>2. [alpn |-> alpn] \in AlpnArg
    BY DEF AlpnArg
  <2>3. Begin(s, "connect", todo, [alpn |-> alpn])
    BY <1>6 DEF Connect
  <2>. HIDE DEF todo
  <2>. QED  BY <2>1, <2>2, <2>3, BeginIInv
<1>7. DEFAULT_ALPN \in Alpns
  BY CommandAssumption
<1>. QED  BY <1>1, <1>2, <1>3, <1>4, <1>5, <1>6, <1>7 DEF Start

(* A command reads the next file of its plan, or ends at one it cannot     *)
(* read.                                                                   *)
LEMMA ReadIInv ==
    ASSUME IInv, NEW s \in Shells, Read(s)
    PROVE  IInv'
<1>1. /\ job[s] \in Process /\ job[s].at = "reads" /\ job \in [Shells -> AnyJob]
      /\ Reading(issued, job[s]) /\ Stages(job[s])
      /\ server \in Servers /\ commands \in 0 .. MaxCommands
      /\ UNCHANGED <<files, server, clock, commands, issued, paired>>
  BY RunningFacts DEF Read, IInv, Shapes
<1>2. CASE job' = [job EXCEPT ![s] = NoJob]
  BY <1>1, <1>2, NoJobFacts, QuietStep
<1>3. CASE job[s].todo = << >> /\ Goto(s, "acts")
  <2>. DEFINE j == [job[s] EXCEPT !.at = "acts"]
  <2>1. /\ j \in Process /\ j.at = "acts" /\ j.todo = job[s].todo /\ j.got = job[s].got
        /\ j.cmd = job[s].cmd /\ j.arg = job[s].arg
    BY <1>1 DEF Process
  <2>2. job' = [job EXCEPT ![s] = j]
    BY <1>3 DEF Goto
  <2>. HIDE DEF j
  <2>3. Sound(issued, j)
    BY <1>1, <1>3, <2>1 DEF Sound, Reading, Stages, Outputs, Vouched, Process
  <2>. QED  BY <1>1, <2>1, <2>2, <2>3, QuietStep DEF AnyJob
<1>4. CASE /\ job[s].todo # << >> /\ files[Head(job[s].todo)].kind = "whole"
           /\ job' = [job EXCEPT ![s].todo = Tail(@),
                                 ![s].got = Append(@, files[Head(job[s].todo)].value)]
  <2>. DEFINE todo == job[s].todo
              got  == job[s].got
              x    == files[Head(todo)].value
              j    == [job[s] EXCEPT !.todo = Tail(todo), !.got = Append(got, x)]
  <2>1. todo \in Seq(Files) /\ todo # << >> /\ Head(todo) \in Files /\ got \in Seq(Values)
    BY <1>1, <1>4, SMT DEF Process
  <2>2. x \in Values /\ Fits(issued, Head(todo), x)
    <3>1. files[Head(todo)] \in {Cut} \cup [kind : {"whole"}, value : Values]
      BY <2>1 DEF IInv, Shapes
    <3>. QED  BY <1>4, <2>1, <3>1, SMT DEF IInv, Contents, Cut
  <2>3. /\ j \in Process /\ j.at = "reads" /\ j.todo = Tail(todo) /\ j.got = Append(got, x)
        /\ j.cmd = job[s].cmd /\ j.arg = job[s].arg
    <3>1. Tail(todo) \in Seq(Files) /\ Append(got, x) \in Seq(Values)
      BY <2>1, <2>2, SMT
    <3>. HIDE DEF todo, got, x
    <3>. QED  BY <1>1, <3>1 DEF Process
  <2>4. job' = [job EXCEPT ![s] = j]
    BY <1>1, <1>4
  <2>5. PICK plan \in Plans(job[s].cmd) : Follows(issued, plan, todo, got)
    BY <1>1 DEF Reading
  <2>. HIDE DEF j, todo, got, x
  <2>6. Follows(issued, plan, Tail(todo), Append(got, x))
    <3>1. /\ Len(Tail(todo)) = Len(todo) - 1 /\ Len(Append(got, x)) = Len(got) + 1
          /\ Len(todo) \in Nat \ {0} /\ Len(got) \in Nat
      BY <2>1, SMT
    <3>2. \A i \in 1 .. Len(Append(got, x)) : Fits(issued, plan[i], Append(got, x)[i])
      <4>1. Head(todo) = plan[Len(got) + 1]
        BY <2>1, <2>5, <3>1, SMT DEF Follows
      <4>2. Append(got, x)[Len(got) + 1] = x
            /\ \A i \in 1 .. Len(got) : Append(got, x)[i] = got[i]
        BY <2>1, SMT
      <4>. QED  BY <2>2, <2>5, <3>1, <4>1, <4>2, SMT DEF Follows
    <3>3. \A i \in 1 .. Len(Tail(todo)) : Tail(todo)[i] = plan[Len(Append(got, x)) + i]
      <4>1. \A i \in 1 .. Len(Tail(todo)) : Tail(todo)[i] = todo[i + 1]
        BY <2>1, SMT
      <4>. QED  BY <2>5, <3>1, <4>1, SMT DEF Follows
    <3>. QED  BY <2>5, <3>1, <3>2, <3>3, SMT DEF Follows
  <2>7. Sound(issued, j)
    BY <1>1, <2>3, <2>5, <2>6, SMT DEF Sound, Reading, Stages, Outputs, Vouched, Process
  <2>. QED  BY <1>1, <2>3, <2>4, <2>7, QuietStep DEF AnyJob
<1>. QED  BY <1>2, <1>3, <1>4 DEF Read, End

-----------------------------------------------------------------------------
(* What a command has once it has read all its files. *)
LEMMA GotFacts ==
    ASSUME IInv, NEW s \in Shells, job[s].at \in {"acts", "connected", "verified", "up"}
    PROVE  LET got == job[s].got IN
           /\ job[s].cmd = "issue" => got[1] \in Keys /\ got[Len(got)] \in Keys
           /\ job[s].cmd = "verify" => (\E i \in issued : got[1] = i.ticket) /\ got[2] \in Keys
           /\ job[s].cmd = "host" => got[1] \in Keys /\ got[2] \in Keys
           /\ job[s].cmd = "connect" => (\E i \in issued : got[4] = i.ticket)
<1>. DEFINE got == job[s].got
<1>1. job[s] \in Process /\ Reading(issued, job[s]) /\ job[s].todo = << >>
  BY RunningFacts DEF Reading
<1>2. PICK plan \in Plans(job[s].cmd) : Follows(issued, plan, << >>, got)
  BY <1>1 DEF Reading
<1>3. got \in Seq(Values) /\ Len(got) \in Nat
  BY <1>1, SMT DEF Process
<1>4. Len(plan) = Len(got) /\ \A i \in 1 .. Len(got) : Fits(issued, plan[i], got[i])
  BY <1>2, <1>3, SMT DEF Follows
<1>. HIDE DEF got
<1>5. ASSUME job[s].cmd = "issue" PROVE got[1] \in Keys /\ got[Len(got)] \in Keys
  <2>1. plan \in {<<secret("operator")>>, <<secret("operator"), public("peer")>>}
    BY <1>2, <1>5 DEF Plans
  <2>. QED  BY <1>4, <2>1, FileFacts, SMT DEF Fits, Ids
<1>6. ASSUME job[s].cmd = "verify"
      PROVE  (\E i \in issued : got[1] = i.ticket) /\ got[2] \in Keys
  <2>1. plan = <<<<"ticket">>, public("operator")>>
    BY <1>2, <1>6 DEF Plans
  <2>2. Len(plan) = 2 /\ plan[1] = <<"ticket">> /\ plan[2] = public("operator")
    BY <2>1
  <2>. QED  BY <1>4, <2>2, FileFacts, SMT DEF Fits, Ids
<1>7. ASSUME job[s].cmd = "host" PROVE got[1] \in Keys /\ got[2] \in Keys
  <2>1. PICK id \in Ids : plan = <<public("operator"), public(id)>>
    BY <1>2, <1>7 DEF Plans
  <2>2. Len(plan) = 2 /\ plan[1] = public("operator") /\ plan[2] = public(id)
    BY <2>1
  <2>. QED  BY <1>4, <2>2, FileFacts, SMT DEF Fits, Ids
<1>8. ASSUME job[s].cmd = "connect" PROVE \E i \in issued : got[4] = i.ticket
  <2>1. plan = <<secret("peer"), public("operator"), <<"cert">>, <<"ticket">>, secret("peer")>>
    BY <1>2, <1>8 DEF Plans
  <2>2. Len(plan) = 5 /\ plan[4] = <<"ticket">>
    BY <2>1
  <2>. QED  BY <1>4, <2>2, SMT DEF Fits
<1>. QED  BY <1>5, <1>6, <1>7, <1>8 DEF got

(* A ticket that was made and is accepted for a time was issued by the key *)
(* it is verified with, and its --ttl-seconds have not passed by then.     *)
LEMMA AcceptedFacts ==
    ASSUME IInv, NEW i \in issued, NEW key, NEW now \in Int,
           verify_ticket(i.ticket, key, now) = "Ok"
    PROVE  i.ticket.claims.issuer = key /\ now <= i.until
<1>1. i.ticket \in Signed /\ i.until \in Int
  BY DEF IInv, Shapes
<1>2. now <= i.ticket.claims.expires_at /\ i.ticket.signature.key = key
  BY <1>1, VerifyFacts
<1>3. /\ i.ticket.signature = [key |-> i.ticket.claims.issuer, payload |-> i.ticket.claims]
      /\ i.ticket.claims.expires_at <= i.until
  BY DEF IInv, Issues
<1>4. i.ticket.claims.expires_at \in Int
  BY <1>1, TicketAssumption, SMT DEF Signed, TicketClaims, I64
<1>. QED  BY <1>1, <1>2, <1>3, <1>4, SMT

(* inspect and serve change nothing; what verify has found is sound. *)
LEMMA CheckIInv ==
    ASSUME IInv, NEW s \in Shells, InspectActs(s) \/ VerifyActs(s) \/ ServeActs(s)
    PROVE  IInv'
<1>1. /\ server' \in Servers /\ commands' \in 0 .. MaxCommands
      /\ UNCHANGED <<files, clock, issued, paired>>
  BY DEF InspectActs, VerifyActs, ServeActs, IInv, Shapes
<1>2. CASE job' = [job EXCEPT ![s] = NoJob]
  BY <1>1, <1>2, NoJobFacts, QuietStep
<1>3. ASSUME VerifyActs(s), NEW now \in I64 \cup {clock},
             verify_ticket(job[s].got[1], job[s].got[2], now) = "Ok",
             job' = [job EXCEPT ![s] = [cmd |-> "verified=true", at |-> "ended",
                                        got |-> @.got, time |-> now]]
      PROVE  IInv'
  <2>. DEFINE j == [cmd |-> "verified=true", at |-> "ended", got |-> job[s].got, time |-> now]
  <2>1. job[s].at = "acts" /\ job[s].cmd = "verify" /\ job[s] \in Process
        /\ job \in [Shells -> AnyJob]
    BY <1>3, RunningFacts DEF VerifyActs, Acts, IInv, Shapes
  <2>. now \in Int
    BY CommandAssumption, TicketAssumption, SMT DEF I64, IInv, Shapes
  <2>2. job' = [job EXCEPT ![s] = j]
    BY <1>3, <2>1
  <2>3. j \in AnyJob /\ j.at = "ended"
    BY <2>1 DEF Process, Verified, AnyJob
  <2>4. PICK i \in issued : job[s].got[1] = i.ticket
    BY <2>1, GotFacts
  <2>5. i.ticket.claims.issuer = job[s].got[2] /\ now <= i.until
    BY <1>3, <2>4, AcceptedFacts
  <2>6. Sound(issued, j)
    BY <2>4, <2>5 DEF Sound, Vouched
  <2>. HIDE DEF j
  <2>. QED  BY <1>1, <2>2, <2>3, <2>6, QuietStep
<1>4. CASE VerifyActs(s)
  <2>1. PICK now \in I64 \cup {clock} :
            IF verify_ticket(job[s].got[1], job[s].got[2], now) = "Ok"
            THEN job' = [job EXCEPT ![s] = [cmd |-> "verified=true", at |-> "ended",
                                            got |-> @.got, time |-> now]]
            ELSE End(s)
    BY <1>4 DEF VerifyActs
  <2>2. CASE End(s)
    BY <1>2, <2>2 DEF End
  <2>. QED  BY <1>3, <1>4, <2>1, <2>2
<1>. QED  BY <1>2, <1>4 DEF InspectActs, ServeActs, End

(* The start of a server. *)
LEMMA HostIInv ==
    ASSUME IInv, NEW s \in Shells, HostActs(s)
    PROVE  IInv'
<1>1. /\ commands' \in 0 .. MaxCommands
      /\ UNCHANGED <<files, clock, issued, paired>>
  BY DEF HostActs, IInv, Shapes
<1>2. CASE server.up
  <2>1. server' \in Servers /\ job' = [job EXCEPT ![s] = NoJob]
    BY <1>2 DEF HostActs, End, IInv, Shapes
  <2>. QED  BY <1>1, <2>1, NoJobFacts, QuietStep
<1>3. CASE ~server.up
  <2>. DEFINE j == [job[s] EXCEPT !.at = "up"]
  <2>1. /\ job[s].at = "acts" /\ job[s].cmd = "host" /\ job[s] \in Process
        /\ Reading(issued, job[s]) /\ Stages(job[s]) /\ commands \in Nat
    BY RunningFacts, CommandAssumption, SMT DEF HostActs, Acts, IInv, Shapes
  <2>2. job' = [job EXCEPT ![s] = j]
    BY <1>3 DEF HostActs, Goto
  <2>3. /\ j \in Process /\ j.at = "up" /\ j.cmd = "host" /\ j.arg = job[s].arg
        /\ j.todo = job[s].todo /\ j.got = job[s].got
    BY <2>1 DEF Process
  <2>4. job[s].got[1] \in Keys /\ job[s].got[2] \in Keys /\ job[s].arg \in AlpnArg
    BY <2>1, GotFacts DEF Stages
  <2>5. server' \in Bound
    <3>1. server_alpn(job[s].arg.alpn) \in Alpns /\ job[s].arg.alpn \in Alpns
      BY <2>4, CommandAssumption DEF server_alpn, AlpnArg
    <3>2. server' = [up |-> TRUE, shell |-> s, cert |-> commands,
                     issuer |-> job[s].got[1], subject |-> job[s].got[2],
                     alpn |-> server_alpn(job[s].arg.alpn), profile |-> job[s].arg.alpn]
      BY <1>3 DEF HostActs
    <3>. QED  BY <2>1, <2>4, <3>1, <3>2 DEF Bound
  <2>. HIDE DEF j
  <2>6. Sound(issued, j)
    BY <2>1, <2>3, <2>4 DEF Sound, Reading, Stages, Outputs, Vouched
  <2>. QED  BY <1>1, <2>2, <2>3, <2>5, <2>6, QuietStep DEF AnyJob, Servers
<1>. QED  BY <1>2, <1>3

(* tunnel connect: the tunnel that comes up has been vouched for by the    *)
(* server it met.                                                          *)
LEMMA ConnectIInv ==
    ASSUME IInv, NEW s \in Shells,
           ConnectActs(s) \/ ConnectVerifies(s) \/ ConnectHandshakes(s)
    PROVE  IInv'
<1>1. /\ server' \in Servers /\ commands' \in 0 .. MaxCommands
      /\ UNCHANGED <<files, clock, issued, paired>>
  BY DEF ConnectActs, ConnectVerifies, ConnectHandshakes, IInv, Shapes
<1>2. /\ job[s] \in Process /\ Reading(issued, job[s]) /\ Stages(job[s])
      /\ job[s].cmd = "connect" /\ job[s].at \in {"acts", "connected", "verified"}
      /\ server \in Servers /\ clock \in Nat /\ job \in [Shells -> AnyJob]
  <2>1. /\ job[s].at \in {"acts", "connected", "verified"}
        /\ job[s].at = "acts" => job[s].cmd = "connect"
    BY DEF ConnectActs, Acts, ConnectVerifies, ConnectHandshakes
  <2>2. job[s] \in Process /\ Reading(issued, job[s]) /\ Stages(job[s])
    BY <2>1, RunningFacts
  <2>3. job[s].cmd = "connect"
    BY <2>1, <2>2 DEF Stages, Process
  <2>. QED  BY <2>1, <2>2, <2>3, CommandAssumption, SMT DEF IInv, Shapes
<1>3. CASE job' = [job EXCEPT ![s] = NoJob]
  BY <1>1, <1>3, NoJobFacts, QuietStep
<1>4. CASE ConnectActs(s)
  <2>1. job[s].arg \in AlpnArg
    BY <1>2, <1>4 DEF ConnectActs, Acts, Stages
  <2>2. CASE pinned(job[s].got[3]) /\ server.alpn = job[s].arg.alpn
    <3>. DEFINE j == [job[s] EXCEPT !.at = "connected", !.out = server]
    <3>1. server \in Bound /\ server.cert = job[s].got[3]
      BY <1>2, <2>2, SMT DEF pinned, Servers, NoServer
    <3>2. /\ j \in Process /\ j.at = "connected" /\ j.cmd = "connect" /\ j.arg = job[s].arg
          /\ j.todo = job[s].todo /\ j.got = job[s].got /\ j.out = server
      BY <1>2, <3>1 DEF Process
    <3>3. job' = [job EXCEPT ![s] = j]
      BY <1>2, <1>4, <2>2 DEF ConnectActs
    <3>4. job[s].todo = << >>
      BY <1>2, <1>4 DEF ConnectActs, Acts, Reading
    <3>. HIDE DEF j
    <3>5. Sound(issued, j)
      BY <1>2, <2>1, <3>1, <3>2, <3>4 DEF Sound, Reading, Stages, Outputs, Vouched
    <3>. QED  BY <1>1, <3>2, <3>3, <3>5, QuietStep DEF AnyJob
  <2>3. CASE ~(pinned(job[s].got[3]) /\ server.alpn = job[s].arg.alpn)
    <3>. DEFINE j == [cmd |-> "refused", at |-> "ended", got |-> job[s].got,
                      alpn |-> job[s].arg.alpn, met |-> server]
    <3>1. job' = [job EXCEPT ![s] = j]
      BY <1>2, <1>4, <2>3 DEF ConnectActs
    <3>2. job[s].got \in Seq(Values) /\ job[s].arg.alpn \in Alpns
      BY <1>2, <2>1 DEF Process, AlpnArg
    <3>3. j \in AnyJob /\ j.at = "ended"
      BY <1>2, <3>2 DEF Refused, AnyJob
    <3>4. Sound(issued, j)
      BY DEF Sound, Vouched
    <3>. HIDE DEF j
    <3>. QED  BY <1>1, <3>1, <3>3, <3>4, QuietStep
  <2>. QED  BY <2>2, <2>3
<1>5. CASE ConnectVerifies(s) /\ Goto(s, "verified")
  <2>. DEFINE j == [job[s] EXCEPT !.at = "verified"]
  <2>1. /\ j \in Process /\ j.at = "verified" /\ j.cmd = "connect" /\ j.arg = job[s].arg
        /\ j.todo = job[s].todo /\ j.got = job[s].got /\ j.out = job[s].out
    BY <1>2 DEF Process
  <2>2. job[s].at = "connected" /\ job' = [job EXCEPT ![s] = j]
    BY <1>5 DEF ConnectVerifies, Goto
  <2>. HIDE DEF j
  <2>3. Sound(issued, j)
    BY <1>2, <2>1, <2>2 DEF Sound, Reading, Stages, Outputs, Vouched
  <2>. QED  BY <1>1, <2>1, <2>2, <2>3, QuietStep DEF AnyJob
<1>6. CASE /\ ConnectHandshakes(s) /\ server = job[s].out /\ admits(job[s].got[4])
           /\ job' = [job EXCEPT ![s].at = "up", ![s].arg = [time |-> clock]]
  <2>. DEFINE j == [job[s] EXCEPT !.at = "up", !.arg = [time |-> clock]]
  <2>1. [time |-> clock] \in TunnelArg
    BY <1>2 DEF TunnelArg
  <2>2. /\ j \in Process /\ j.at = "up" /\ j.cmd = "connect" /\ j.arg = [time |-> clock]
        /\ j.todo = job[s].todo /\ j.got = job[s].got /\ j.out = job[s].out
    BY <1>2, <2>1 DEF Process
  <2>3. job[s].at = "verified" /\ job' = [job EXCEPT ![s] = j]
    BY <1>2, <1>6 DEF ConnectHandshakes
  <2>4. PICK i \in issued : job[s].got[4] = i.ticket
    BY <1>2, GotFacts
  <2>5. i.ticket.claims.issuer = server.issuer /\ clock <= i.until
    <3>1. clock \in Int
      BY <1>2, SMT
    <3>. QED  BY <1>6, <2>4, <3>1, AcceptedFacts DEF admits
  <2>6. i.ticket.claims.subject = server.subject
    BY <1>6, <2>4 DEF admits
  <2>. HIDE DEF j
  <2>7. Vouched(issued, j)
    BY <1>6, <2>2, <2>4, <2>5, <2>6, SMT DEF Vouched
  <2>8. Sound(issued, j)
    BY <1>2, <2>1, <2>2, <2>3, <2>7 DEF Sound, Reading, Stages, Outputs
  <2>. QED  BY <1>1, <2>2, <2>3, <2>8, QuietStep DEF AnyJob
<1>. QED
  BY <1>3, <1>4, <1>5, <1>6 DEF ConnectVerifies, ConnectHandshakes, End

(* A killed process leaves its files and histories as they are; a server   *)
(* goes with its process.                                                  *)
LEMMA KillIInv ==
    ASSUME IInv, NEW s \in Shells, Kill(s)
    PROVE  IInv'
<1>1. /\ job' = [job EXCEPT ![s] = NoJob] /\ server' \in Servers
      /\ commands' \in 0 .. MaxCommands
      /\ UNCHANGED <<files, clock, issued, paired>>
  BY DEF Kill, IInv, Shapes, Servers
<1>. QED  BY <1>1, NoJobFacts, QuietStep

-----------------------------------------------------------------------------
(* keygen has made a key: from here on it is one of the writers. *)
LEMMA KeygenIInv ==
    ASSUME IInv, NEW s \in Shells, KeygenActs(s)
    PROVE  IInv'
<1>1. /\ job[s] \in Process /\ job[s].cmd = "keygen" /\ job[s].at = "acts"
      /\ job[s].arg \in KeygenArg /\ job \in [Shells -> AnyJob]
      /\ paired \in [Ids -> {"clean", "busy", "mixed"}]
  BY RunningFacts DEF KeygenActs, Acts, Stages, IInv, Shapes
<1>2. PICK id \in Ids, key \in Keys : id = job[s].arg.id /\ key = job[s].arg.key
  BY <1>1 DEF KeygenArg
<1>. DEFINE j == [job[s] EXCEPT !.at = "writes", !.out = key_outputs(id, key)]
<1>3. /\ job' = [job EXCEPT ![s] = j]
      /\ paired' = [paired EXCEPT ![id] = IF Writers(id) = {} THEN "busy" ELSE "mixed"]
      /\ UNCHANGED <<files, server, clock, commands, issued>>
  BY <1>1, <1>2 DEF KeygenActs, Writes, Writers
<1>4. key_outputs(id, key) \in Seq(Files \X Values) /\ Len(key_outputs(id, key)) = 2
  BY <1>2, FileFacts, CommandAssumption, SMT DEF key_outputs, Values
<1>5. /\ j \in Process /\ j.at = "writes" /\ j.cmd = "keygen" /\ j.arg = job[s].arg
      /\ j.out = key_outputs(id, key)
  BY <1>1, <1>4 DEF Process
<1>6. Sound(issued, j)
  BY <1>1, <1>2, <1>5 DEF Sound, Reading, Stages, Outputs, Vouched
<1>. HIDE DEF j
<1>7. \A t \in Shells : job'[t] = IF t = s THEN j ELSE job[t]
  BY <1>1, <1>3
<1>8. Shapes'
  <2>1. job' \in [Shells -> AnyJob]
    BY <1>1, <1>3, <1>5 DEF AnyJob
  <2>2. paired' \in [Ids -> {"clean", "busy", "mixed"}]
    BY <1>1, <1>3
  <2>. QED  BY <1>3, <2>1, <2>2 DEF IInv, Shapes
<1>9. Issues' /\ Contents'
  BY <1>3 DEF IInv, Issues, Contents
<1>10. \A o \in Ids : paired'[o] = IF o = id THEN IF Writers(id) = {} THEN "busy" ELSE "mixed"
                                 ELSE paired[o]
  BY <1>1, <1>2, <1>3
<1>11. KeyFilesAgree'
  BY <1>3, <1>10, SMT DEF IInv, KeyFilesAgree
<1>12. Pairing'
  <2>1. Writers(id)' \subseteq Writers(id) \cup {s}
    BY <1>7 DEF Writers, Writing
  <2>2. \A o \in Ids \ {id} : /\ Writers(o)' \subseteq Writers(o)
                              /\ \A t \in Writers(o)' : job'[t] = job[t]
    BY <1>2, <1>5, <1>7 DEF Writers, Writing
  <2>3. j.out # <<<<public(id), j.arg.key>>>>
    BY <1>4, <1>5, SMT
  <2>. SUFFICES ASSUME NEW o \in Ids PROVE Pair(o)'
    BY DEF Pairing
  <2>4. CASE o = id
    <3>1. paired'[id] = "busy" => Writers(id)' \subseteq {s}
      BY <1>10, <2>1
    <3>2. ~OnlyPublicLeft(s, id)'
      BY <1>7, <2>3 DEF OnlyPublicLeft
    <3>. QED  BY <1>10, <2>4, <3>1, <3>2 DEF Pair
  <2>5. CASE o # id
    BY <1>3, <1>10, <2>2, <2>5, PairKept DEF IInv, Pairing
  <2>. QED  BY <2>4, <2>5
<1>13. \A t \in Shells : Sound(issued', job'[t])
  BY <1>3, <1>6, <1>7 DEF IInv
<1>. QED  BY <1>8, <1>9, <1>11, <1>12, <1>13 DEF IInv

(* ticket issue has made a ticket. *)
LEMMA IssueIInv ==
    ASSUME IInv, NEW s \in Shells, IssueActs(s)
    PROVE  IInv'
<1>. DEFINE got == job[s].got
            ttl == job[s].arg.ttl
            ticket == issue_ticket(got[1], got[Len(got)], ttl, clock)
            new == [ticket |-> ticket, until |-> clock + ttl]
            j == [job[s] EXCEPT !.at = "writes", !.out = <<<<<<"ticket">>, ticket>>>>]
<1>1. /\ job[s] \in Process /\ job[s].cmd = "issue" /\ job[s].at = "acts"
      /\ job[s].arg \in IssueArg /\ job \in [Shells -> AnyJob] /\ clock \in Nat
      /\ UNCHANGED <<files, server, clock, commands, paired>>
  <2>1. job[s].cmd = "issue" /\ job[s].at = "acts" /\ UNCHANGED <<files, server, clock, commands, paired>>
    BY DEF IssueActs, Acts
  <2>2. job[s] \in Process /\ Stages(job[s])
    BY <2>1, RunningFacts
  <2>3. job \in [Shells -> AnyJob] /\ clock \in Nat
    BY CommandAssumption, SMT DEF IInv, Shapes
  <2>. QED  BY <2>1, <2>2, <2>3 DEF Stages
<1>2. ttl \in I64 /\ ttl \in Int /\ got[1] \in Keys /\ got[Len(got)] \in Keys
  <2>1. ttl \in I64
    BY <1>1, CommandAssumption DEF IssueArg
  <2>2. ttl \in Int
    BY <2>1, TicketAssumption, SMT DEF I64
  <2>. QED  BY <1>1, <2>1, <2>2, GotFacts
<1>3. /\ ticket \in Signed
      /\ ticket.signature = [key |-> ticket.claims.issuer, payload |-> ticket.claims]
      /\ ticket.claims.expires_at <= clock + ttl
  <2>1. PICK key \in Keys, subject \in Keys, t \in I64, now \in Nat :
            key = got[1] /\ subject = got[Len(got)] /\ t = ttl /\ now = clock
    BY <1>1, <1>2
  <2>2. ticket = issue_ticket(key, subject, t, now)
    BY <2>1
  <2>3. clock + ttl = now + t
    BY <2>1
  <2>. HIDE DEF ticket
  <2>4. ticket \in Signed
    BY <2>2, IssueFacts
  <2>5. ticket.signature = [key |-> ticket.claims.issuer, payload |-> ticket.claims]
    BY <2>2, IssueFacts, SMT
  <2>6. ticket.claims.expires_at <= now + t
    BY <2>2, IssueFacts
  <2>. QED  BY <2>3, <2>4, <2>5, <2>6
<1>. HIDE DEF ticket, ttl
<1>4. new.ticket = ticket /\ new.until = clock + ttl /\ new \in [ticket : Signed, until : Int]
  <2>1. clock + ttl \in Int
    BY <1>1, <1>2, SMT
  <2>. QED  BY <1>3, <2>1
<1>. HIDE DEF new
<1>5. CASE job' = [job EXCEPT ![s] = NoJob] /\ UNCHANGED issued
  <2>1. server' \in Servers /\ commands' \in 0 .. MaxCommands
    BY <1>1 DEF IInv, Shapes
  <2>. QED  BY <1>1, <1>5, <2>1, NoJobFacts, QuietStep
<1>6. CASE /\ job' = [job EXCEPT ![s] = j]
           /\ issued' = issued \cup {new}
  <2>1. <<<<<<"ticket">>, ticket>>>> \in Seq(Files \X Values)
    BY <1>3, FileFacts, SMT DEF Values
  <2>2. /\ j \in Process /\ j.at = "writes" /\ j.cmd = "issue" /\ j.arg = job[s].arg
        /\ j.out = <<<<<<"ticket">>, ticket>>>>
    BY <1>1, <2>1 DEF Process
  <2>3. \E i \in issued' : i.ticket = ticket
    BY <1>6, <1>4
  <2>4. issued \subseteq issued'
    BY <1>6
  <2>. HIDE DEF j
  <2>5. Sound(issued', j)
    BY <1>1, <2>2, <2>3 DEF Sound, Reading, Stages, Outputs, Vouched
  <2>6. \A t \in Shells : job'[t] = IF t = s THEN j ELSE job[t]
    BY <1>1, <1>6
  <2>7. \A t \in Shells : Sound(issued', job'[t])
    BY <2>4, <2>5, <2>6, SoundGrows DEF IInv
  <2>8. Shapes'
    <3>1. job' \in [Shells -> AnyJob]
      BY <1>1, <1>6, <2>2 DEF AnyJob
    <3>2. issued' \subseteq [ticket : Signed, until : Int]
      BY <1>6, <1>4 DEF IInv, Shapes
    <3>. QED  BY <1>1, <3>1, <3>2 DEF IInv, Shapes
  <2>9. Issues'
    BY <1>3, <1>6, <1>4 DEF IInv, Issues
  <2>10. Contents'
    BY <1>1, <2>4 DEF IInv, Contents, Fits
  <2>11. \A id : /\ Writers(id)' \subseteq Writers(id)
                 /\ \A t \in Writers(id)' : job'[t] = job[t]
    BY <2>2, <2>6 DEF Writers, Writing
  <2>12. Pairing' /\ KeyFilesAgree'
    <3>1. KeyFilesAgree'
      BY <1>1 DEF IInv, KeyFilesAgree
    <3>. QED  BY <1>1, <2>11, <3>1, PairKept DEF IInv, Pairing
  <2>. QED  BY <2>7, <2>8, <2>9, <2>10, <2>12 DEF IInv
<1>. QED  BY <1>5, <1>6 DEF IssueActs, End, Writes, ticket, ttl, new

-----------------------------------------------------------------------------
(* A command that writes is a keygen with its secret and public halves, or *)
(* its public half, left to write, or an issue with its ticket.            *)
LEMMA WriterFacts ==
    ASSUME IInv, NEW s \in Shells, job[s].at \in {"writes", "truncated"}
    PROVE  \/ \E id \in Ids, key \in Keys :
                 /\ Generates(s, id, key) /\ s \in Writers(id) /\ paired[id] # "clean"
                 /\ BothLeft(s, id, key) \/ OnlyPublicLeft(s, id)
           \/ \E i \in issued : TicketLeft(s, i)
<1>1. job[s] \in Process /\ Stages(job[s]) /\ Outputs(issued, job[s])
  BY RunningFacts
<1>2. job[s].cmd \in {"keygen", "issue"}
  BY <1>1 DEF Process, Stages
<1>3. CASE job[s].cmd = "keygen"
  <2>1. PICK id \in Ids, key \in Keys : job[s].arg = [id |-> id, key |-> key]
    BY <1>1, <1>3 DEF Stages, KeygenArg
  <2>2. job[s].arg.id = id /\ job[s].arg.key = key /\ Generates(s, id, key)
    BY <1>3, <2>1, SMT DEF Generates
  <2>3. s \in Writers(id)
    BY <1>3, <2>2 DEF Writers, Writing
  <2>4. paired[id] # "clean"
    BY <2>3 DEF IInv, Pairing, Pair
  <2>5. BothLeft(s, id, key) \/ OnlyPublicLeft(s, id)
    BY <1>1, <1>3, <2>2 DEF Outputs, key_outputs, BothLeft, OnlyPublicLeft
  <2>. QED  BY <2>2, <2>3, <2>4, <2>5
<1>4. CASE job[s].cmd = "issue"
  BY <1>1, <1>4 DEF Outputs, TicketLeft
<1>. QED  BY <1>2, <1>3, <1>4

(* fs::write truncates: the pair of the identity is not a clean one. *)
LEMMA TruncateIInv ==
    ASSUME IInv, NEW s \in Shells, Truncate(s)
    PROVE  IInv'
<1>. DEFINE j == [job[s] EXCEPT !.at = "truncated"]
            f == job[s].out[1][1]
<1>1. /\ job[s].at = "writes" /\ job' = [job EXCEPT ![s] = j] /\ files' = [files EXCEPT ![f] = Cut]
      /\ UNCHANGED <<server, clock, commands, issued, paired>>
  BY DEF Truncate, Goto
<1>2. job[s] \in Process /\ Stages(job[s]) /\ Outputs(issued, job[s])
      /\ job \in [Shells -> AnyJob] /\ files \in [Files -> {Cut} \cup [kind : {"whole"}, value : Values]]
  BY <1>1, RunningFacts DEF IInv, Shapes
<1>3. /\ j \in Process /\ j.at = "truncated" /\ j.cmd = job[s].cmd /\ j.arg = job[s].arg
      /\ j.out = job[s].out
  BY <1>2 DEF Process
<1>4. Sound(issued, j)
  <2>. HIDE DEF j
  <2>1. job[s].cmd \in {"keygen", "issue"}
    BY <1>1, <1>2 DEF Process, Stages
  <2>2. Stages(j)
    BY <1>2, <1>3, <2>1 DEF Stages
  <2>3. Outputs(issued, j)
    BY <1>1, <1>2, <1>3 DEF Outputs
  <2>. QED  BY <1>3, <2>1, <2>2, <2>3, SMT DEF Sound, Reading, Vouched
<1>. HIDE DEF j
<1>5. \A t \in Shells : job'[t] = IF t = s THEN j ELSE job[t]
  BY <1>1, <1>2
<1>6. \/ \E id \in Ids : /\ s \in Writers(id) /\ paired[id] # "clean"
                         /\ f = public(id) \/ (f = secret(id) /\ ~OnlyPublicLeft(s, id))
      \/ f = <<"ticket">>
  <2>1. ASSUME NEW i \in issued, TicketLeft(s, i) PROVE f = <<"ticket">>
    BY <2>1, SMT DEF TicketLeft
  <2>2. ASSUME NEW id \in Ids, OnlyPublicLeft(s, id) PROVE f = public(id)
    BY <2>2, SMT DEF OnlyPublicLeft
  <2>3. ASSUME NEW id \in Ids, NEW key \in Keys, BothLeft(s, id, key)
        PROVE  f = secret(id) /\ ~OnlyPublicLeft(s, id)
    <3>1. f = secret(id) /\ Len(job[s].out) = 2
      BY <2>3, SMT DEF BothLeft
    <3>. QED  BY <3>1, SMT DEF OnlyPublicLeft
  <2>. HIDE DEF f
  <2>. QED  BY <1>1, <2>1, <2>2, <2>3, WriterFacts
<1>. HIDE DEF f
<1>7. \A g \in Files : files'[g] = IF g = f THEN Cut ELSE files[g]
  BY <1>1, <1>2
<1>8. Shapes'
  <2>1. job' \in [Shells -> AnyJob]
    BY <1>1, <1>2, <1>3 DEF AnyJob
  <2>2. files' \in [Files -> {Cut} \cup [kind : {"whole"}, value : Values]]
    BY <1>1, <1>2
  <2>. QED  BY <1>1, <2>1, <2>2 DEF IInv, Shapes
<1>9. Issues' /\ \A t \in Shells : Sound(issued', job'[t])
  BY <1>1, <1>4, <1>5 DEF IInv, Issues
<1>10. Contents'
  BY <1>1, <1>7, SMT DEF IInv, Contents, Cut
<1>11. \A id : Writers(id)' = Writers(id)
  BY <1>1, <1>3, <1>5, SMT DEF Writers, Writing
<1>12. \A t \in Shells : job'[t].out = job[t].out /\ job'[t].arg = job[t].arg
  BY <1>3, <1>5
<1>13. KeyFilesAgree'
  <2>. SUFFICES ASSUME NEW id \in Ids, paired[id] = "clean"
                PROVE  f \notin {secret(id), public(id)}
    BY <1>1, <1>7, FileFacts, SMT DEF IInv, KeyFilesAgree
  <2>. QED  BY <1>6, FileFacts
<1>14. Pairing'
  <2>. SUFFICES ASSUME NEW id \in Ids PROVE Pair(id)'
    BY DEF Pairing
  <2>1. Writers(id) \subseteq Shells /\ Pair(id) /\ paired'[id] = paired[id]
    BY <1>1 DEF Writers, IInv, Pairing
  <2>2. CASE f # secret(id)
    <3>1. files'[secret(id)] = files[secret(id)]
      BY <1>7, <2>2, FileFacts
    <3>. QED  BY <1>11, <1>12, <2>1, <3>1, PairKept
  <2>3. CASE f = secret(id)
    <3>1. s \in Writers(id) /\ paired[id] # "clean" /\ ~OnlyPublicLeft(s, id)
      BY <1>6, <2>3, FileFacts
    <3>2. ~OnlyPublicLeft(s, id)'
      BY <1>12, <3>1 DEF OnlyPublicLeft
    <3>. QED  BY <1>11, <2>1, <3>1, <3>2 DEF Pair
  <2>. QED  BY <2>2, <2>3
<1>. QED  BY <1>8, <1>9, <1>10, <1>13, <1>14 DEF IInv

(* A file that is written holds what fits it, or is an error to read. *)
LEMMA FileStep ==
    ASSUME IInv, NEW f \in Files, NEW c, files' = [files EXCEPT ![f] = c], issued' = issued,
           c = Cut \/ \E x \in Values : c = Whole(x) /\ Fits(issued, f, x)
    PROVE  /\ files' \in [Files -> {Cut} \cup [kind : {"whole"}, value : Values]]
           /\ Contents'
           /\ \A g \in Files : files'[g] = IF g = f THEN c ELSE files[g]
<1>1. files \in [Files -> {Cut} \cup [kind : {"whole"}, value : Values]]
  BY DEF IInv, Shapes
<1>2. c \in {Cut} \cup [kind : {"whole"}, value : Values] /\ (c.kind = "whole" => Fits(issued, f, c.value))
  BY SMT DEF Cut, Whole
<1>3. /\ files' \in [Files -> {Cut} \cup [kind : {"whole"}, value : Values]]
      /\ \A g \in Files : files'[g] = IF g = f THEN c ELSE files[g]
  BY <1>1, <1>2
<1>. QED  BY <1>2, <1>3 DEF IInv, Contents

(* keygen writes its secret half. *)
LEMMA WriteSecret ==
    ASSUME IInv, NEW s \in Shells, Write(s), NEW id \in Ids, NEW key \in Keys,
           Generates(s, id, key), s \in Writers(id), paired[id] # "clean", BothLeft(s, id, key)
    PROVE  IInv'
<1>. DEFINE rest == <<<<public(id), key>>>>
            j    == [job[s] EXCEPT !.at = "writes", !.out = rest]
<1>1. /\ job[s].out[1][1] = secret(id) /\ job[s].out[1][2] = key /\ Tail(job[s].out) = rest
      /\ rest # << >>
  BY SMT DEF BothLeft
<1>2. /\ job[s].cmd = "keygen" /\ job[s].arg.id = id /\ job[s].arg.key = key
      /\ secret(id) # <<"ticket">>
  BY FileFacts, SMT DEF Generates
<1>3. /\ files' = [files EXCEPT ![secret(id)] = Whole(key)]
      /\ job' = [job EXCEPT ![s] = j] /\ paired' = paired
      /\ UNCHANGED <<server, clock, commands, issued>>
  BY <1>1, <1>2 DEF Write, Writes
<1>4. job[s] \in Process /\ Stages(job[s]) /\ job \in [Shells -> AnyJob] /\ job[s].at = "truncated"
  BY RunningFacts DEF Write, IInv, Shapes
<1>5. key \in Values /\ rest \in Seq(Files \X Values)
  <2>1. key \in Values
    BY CommandAssumption, SMT DEF Values
  <2>. QED  BY <2>1, FileFacts, SMT
<1>6. /\ j \in Process /\ j.at = "writes" /\ j.cmd = "keygen" /\ j.arg = job[s].arg /\ j.out = rest
  BY <1>2, <1>4, <1>5 DEF Process
<1>. HIDE DEF j
<1>7. /\ files' \in [Files -> {Cut} \cup [kind : {"whole"}, value : Values]]
      /\ Contents'
      /\ \A g \in Files : files'[g] = IF g = secret(id) THEN Whole(key) ELSE files[g]
  <2>1. Fits(issued, secret(id), key) /\ secret(id) \in Files
    BY FileFacts DEF Fits
  <2>. QED  BY <1>3, <1>5, <2>1, FileStep
<1>8. Sound(issued, j)
  <2>1. Stages(j)
    BY <1>2, <1>4, <1>6 DEF Stages
  <2>2. Outputs(issued, j)
    BY <1>2, <1>6 DEF Outputs
  <2>. QED  BY <1>6, <2>1, <2>2 DEF Sound, Reading, Vouched
<1>. HIDE DEF rest
<1>9. \A t \in Shells : job'[t] = IF t = s THEN j ELSE job[t]
  BY <1>3, <1>4
<1>10. Shapes'
  <2>1. job' \in [Shells -> AnyJob]
    BY <1>3, <1>4, <1>6 DEF AnyJob
  <2>. QED  BY <1>3, <1>7, <2>1 DEF IInv, Shapes
<1>11. Issues' /\ \A t \in Shells : Sound(issued', job'[t])
  BY <1>3, <1>8, <1>9 DEF IInv, Issues
<1>12. KeyFilesAgree'
  BY <1>3, <1>7, FileFacts, SMT DEF IInv, KeyFilesAgree
<1>13. \A o : Writers(o)' = Writers(o)
  BY <1>4, <1>6, <1>9, SMT DEF Writers, Writing
<1>14. Pairing'
  <2>. SUFFICES ASSUME NEW o \in Ids PROVE Pair(o)'
    BY DEF Pairing
  <2>1. Writers(o) \subseteq Shells /\ Pair(o) /\ paired'[o] = paired[o]
    BY <1>3 DEF Writers, IInv, Pairing
  <2>2. CASE o = id
    <3>1. files'[secret(o)] = Whole(job'[s].arg.key)
      BY <1>2, <1>6, <1>7, <1>9, <2>2, FileFacts, SMT
    <3>. QED  BY <1>13, <2>1, <2>2, <3>1 DEF Pair
  <2>3. CASE o # id
    <3>1. s \notin Writers(o)
      BY <1>2, <2>3 DEF Writers
    <3>2. \A t \in Writers(o) : job'[t] = job[t]
      BY <1>9, <2>1, <3>1
    <3>3. files'[secret(o)] = files[secret(o)]
      BY <1>7, <2>3, FileFacts
    <3>. QED  BY <1>13, <2>1, <3>2, <3>3, PairKept
  <2>. QED  BY <2>2, <2>3
<1>. QED  BY <1>7, <1>10, <1>11, <1>12, <1>14 DEF IInv

(* keygen writes its public half and ends.  If no other keygen of the      *)
(* identity has run meanwhile, the pair is clean.                          *)
LEMMA WritePublic ==
    ASSUME IInv, NEW s \in Shells, Write(s), NEW id \in Ids, NEW key \in Keys,
           Generates(s, id, key), s \in Writers(id), paired[id] # "clean", OnlyPublicLeft(s, id)
    PROVE  IInv'
<1>1. job[s].cmd = "keygen" /\ job[s].arg.id = id /\ job[s].arg.key = key
  BY SMT DEF Generates
<1>2. /\ job[s].out[1][1] = public(id) /\ job[s].out[1][2] = key /\ Tail(job[s].out) = << >>
      /\ public(id) # <<"ticket">>
  BY <1>1, FileFacts, SMT DEF OnlyPublicLeft
<1>3. /\ files' = [files EXCEPT ![public(id)] = Whole(key)]
      /\ job' = [job EXCEPT ![s] = NoJob]
      /\ paired' = IF paired[id] = "busy" THEN [paired EXCEPT ![id] = "clean"] ELSE paired
      /\ UNCHANGED <<server, clock, commands, issued>>
  BY <1>1, <1>2 DEF Write, End
<1>4. job \in [Shells -> AnyJob] /\ paired \in [Ids -> {"clean", "busy", "mixed"}]
  BY DEF IInv, Shapes
<1>5. key \in Values /\ Fits(issued, public(id), key) /\ public(id) \in Files
  <2>1. key \in Values
    BY CommandAssumption, SMT DEF Values
  <2>2. public(id) \in Files /\ public(id) # <<"ticket">> /\ public(id) # <<"cert">>
    BY FileFacts
  <2>. QED  BY <2>1, <2>2 DEF Fits
<1>6. /\ files' \in [Files -> {Cut} \cup [kind : {"whole"}, value : Values]]
      /\ Contents'
      /\ \A g \in Files : files'[g] = IF g = public(id) THEN Whole(key) ELSE files[g]
  BY <1>3, <1>5, FileStep
<1>7. \A t \in Shells : job'[t] = IF t = s THEN NoJob ELSE job[t]
  BY <1>3, <1>4
<1>8. \A o \in Ids : paired'[o] = IF o = id /\ paired[id] = "busy" THEN "clean" ELSE paired[o]
  BY <1>3, <1>4
<1>9. Shapes'
  <2>1. job' \in [Shells -> AnyJob]
    BY <1>3, <1>4, NoJobFacts
  <2>2. paired' \in [Ids -> {"clean", "busy", "mixed"}]
    BY <1>3, <1>4
  <2>. QED  BY <1>3, <1>6, <2>1, <2>2 DEF IInv, Shapes
<1>10. Issues' /\ \A t \in Shells : Sound(issued', job'[t])
  BY <1>3, <1>7, NoJobFacts DEF IInv, Issues
<1>11. \A o : /\ Writers(o)' \subseteq Writers(o) \ {s}
              /\ \A t \in Writers(o)' : job'[t] = job[t]
  BY <1>7, NoJobFacts DEF Writers, Writing
<1>12. KeyFilesAgree'
  <2>. SUFFICES ASSUME NEW o \in Ids, paired'[o] = "clean"
                PROVE  files'[secret(o)].kind = "whole" /\ files'[secret(o)] = files'[public(o)]
    BY DEF KeyFilesAgree
  <2>1. CASE o = id
    <3>1. paired[id] = "busy"
      BY <1>8, <2>1
    <3>2. files[secret(id)] = Whole(key)
      BY <1>1, <3>1 DEF IInv, Pairing, Pair
    <3>. QED  BY <1>6, <2>1, <3>2, FileFacts, SMT DEF Whole
  <2>2. CASE o # id
    BY <1>6, <1>8, <2>2, FileFacts DEF IInv, KeyFilesAgree
  <2>. QED  BY <2>1, <2>2
<1>13. Pairing'
  <2>. SUFFICES ASSUME NEW o \in Ids PROVE Pair(o)'
    BY DEF Pairing
  <2>1. Pair(o)
    BY DEF IInv, Pairing
  <2>2. CASE o = id /\ paired[id] = "busy"
    <3>1. Writers(o)' = {}
      BY <1>11, <2>1, <2>2 DEF Pair
    <3>. QED  BY <1>8, <2>2, <3>1 DEF Pair
  <2>3. CASE ~(o = id /\ paired[id] = "busy")
    <3>1. files'[secret(o)] = files[secret(o)] /\ paired'[o] = paired[o]
      BY <1>6, <1>8, <2>3, FileFacts
    <3>. QED  BY <1>11, <2>1, <3>1, PairKept
  <2>. QED  BY <2>2, <2>3
<1>. QED  BY <1>6, <1>9, <1>10, <1>12, <1>13 DEF IInv

(* ticket issue writes its ticket, whole or mixed with another one, and    *)
(* ends.                                                                   *)
LEMMA WriteTicket ==
    ASSUME IInv, NEW s \in Shells, Write(s), NEW i \in issued, TicketLeft(s, i)
    PROVE  IInv'
<1>1. /\ job[s].out[1][1] = <<"ticket">> /\ job[s].out[1][2] = i.ticket
      /\ Tail(job[s].out) = << >> /\ job[s].cmd = "issue"
  BY SMT DEF TicketLeft
<1>2. /\ \/ files' = [files EXCEPT ![<<"ticket">>] = Whole(i.ticket)]
         \/ files' = [files EXCEPT ![<<"ticket">>] = Cut]
      /\ job' = [job EXCEPT ![s] = NoJob]
      /\ UNCHANGED <<server, clock, commands, issued, paired>>
  BY <1>1 DEF Write, End
<1>3. job \in [Shells -> AnyJob] /\ i.ticket \in Values
  BY DEF IInv, Shapes, Values
<1>4. Fits(issued, <<"ticket">>, i.ticket) /\ <<"ticket">> \in Files
  BY FileFacts DEF Fits
<1>5. /\ files' \in [Files -> {Cut} \cup [kind : {"whole"}, value : Values]]
      /\ Contents'
      /\ \A g \in Files : g # <<"ticket">> => files'[g] = files[g]
  BY <1>2, <1>3, <1>4, FileStep
<1>6. \A t \in Shells : job'[t] = IF t = s THEN NoJob ELSE job[t]
  BY <1>2, <1>3
<1>7. Shapes'
  <2>1. job' \in [Shells -> AnyJob]
    BY <1>2, <1>3, NoJobFacts
  <2>. QED  BY <1>2, <1>5, <2>1 DEF IInv, Shapes
<1>8. Issues' /\ \A t \in Shells : Sound(issued', job'[t])
  BY <1>2, <1>6, NoJobFacts DEF IInv, Issues
<1>9. \A o : /\ Writers(o)' \subseteq Writers(o)
             /\ \A t \in Writers(o)' : job'[t] = job[t]
  BY <1>6, NoJobFacts DEF Writers, Writing
<1>10. \A o \in Ids : files'[secret(o)] = files[secret(o)] /\ files'[public(o)] = files[public(o)]
  BY <1>5, FileFacts
<1>11. KeyFilesAgree'
  BY <1>2, <1>10 DEF IInv, KeyFilesAgree
<1>12. Pairing'
  BY <1>2, <1>9, <1>10, PairKept DEF IInv, Pairing
<1>. QED  BY <1>5, <1>7, <1>8, <1>11, <1>12 DEF IInv

(* What connect and the copy of the certificate meet of a running server.  *)
LEMMA ServerFacts == server \in Servers /\ server.up => server \in Bound
<1>1. NoServer.up = FALSE
  BY DEF NoServer
<1>. QED  BY <1>1 DEF Servers

(* The copy of the certificate and the clock. *)
LEMMA OutsideIInv ==
    ASSUME IInv, ShipCertificate \/ Tick
    PROVE  IInv'
<1>1. CASE ShipCertificate
  <2>1. /\ files' = [files EXCEPT ![<<"cert">>] = Whole(server.cert)]
        /\ UNCHANGED <<job, server, clock, commands, issued, paired>>
    BY <1>1 DEF ShipCertificate
  <2>2. server.cert \in Nat
    BY <1>1, ServerFacts DEF ShipCertificate, IInv, Shapes, Bound
  <2>3. server.cert \in Values /\ Fits(issued, <<"cert">>, server.cert) /\ <<"cert">> \in Files
    BY <2>2, FileFacts DEF Values, Fits
  <2>4. /\ files' \in [Files -> {Cut} \cup [kind : {"whole"}, value : Values]]
        /\ Contents'
        /\ \A g \in Files : g # <<"cert">> => files'[g] = files[g]
    BY <2>1, <2>3, FileStep
  <2>5. \A o \in Ids : files'[secret(o)] = files[secret(o)] /\ files'[public(o)] = files[public(o)]
    BY <2>4, FileFacts
  <2>6. Shapes' /\ Issues' /\ KeyFilesAgree'
    BY <2>1, <2>4, <2>5, SMT DEF IInv, Shapes, Issues, KeyFilesAgree
  <2>7. Pairing'
    <3>1. \A o : Writers(o)' = Writers(o)
      BY <2>1 DEF Writers, Writing
    <3>. QED  BY <2>1, <2>5, <3>1, PairKept DEF IInv, Pairing
  <2>. QED  BY <2>1, <2>4, <2>6, <2>7 DEF IInv
<1>2. CASE Tick
  <2>1. clock' \in 0 .. MaxClock /\ UNCHANGED <<files, job, server, commands, issued, paired>>
    BY <1>2, CommandAssumption, SMT DEF Tick, IInv, Shapes
  <2>2. Shapes' /\ Issues' /\ Contents' /\ KeyFilesAgree'
    BY <2>1 DEF IInv, Shapes, Issues, Contents, KeyFilesAgree
  <2>3. Pairing'
    <3>1. \A o : Writers(o)' = Writers(o)
      BY <2>1 DEF Writers, Writing
    <3>. QED  BY <2>1, <3>1, PairKept DEF IInv, Pairing
  <2>. QED  BY <2>1, <2>2, <2>3 DEF IInv
<1>. QED  BY <1>1, <1>2

(* Every step preserves the inductive invariant. *)
LEMMA NextIInv == IInv /\ [Next]_vars => IInv'
<1>. SUFFICES ASSUME IInv, [Next]_vars PROVE IInv'
  OBVIOUS
<1>1. CASE UNCHANGED vars
  <2>1. Shapes' /\ Issues' /\ Contents' /\ KeyFilesAgree'
    BY <1>1 DEF vars, IInv, Shapes, Issues, Contents, KeyFilesAgree
  <2>2. Pairing'
    <3>1. \A o : Writers(o)' = Writers(o)
      BY <1>1 DEF vars, Writers, Writing
    <3>. QED  BY <1>1, <3>1, PairKept DEF vars, IInv, Pairing
  <2>. QED  BY <1>1, <2>1, <2>2 DEF vars, IInv
<1>2. ASSUME NEW s \in Shells, Write(s) PROVE IInv'
  <2>1. job[s].at \in {"writes", "truncated"}
    BY <1>2 DEF Write
  <2>. QED  BY <1>2, <2>1, WriterFacts, WriteSecret, WritePublic, WriteTicket
<1>3. ASSUME NEW s \in Shells, Step(s) PROVE IInv'
  BY <1>2, <1>3, ReadIInv, KeygenIInv, IssueIInv, CheckIInv, HostIInv, ConnectIInv,
     TruncateIInv, KillIInv DEF Step
<1>. QED  BY <1>1, <1>3, StartIInv, OutsideIInv DEF Next

-----------------------------------------------------------------------------
(* The key files hold keys, the server has keys and a protocol that was    *)
(* asked for, and every ticket that issue_ticket made has the fields of *)
(* a ticket, also where the sum of now and ttl left the range of i64.      *)
THEOREM TypeCorrect == Spec => []TypeOK
<1>1. ASSUME IInv PROVE TypeOK
  <2>1. DOMAIN files = Files /\ \A f \in Files : files[f].kind \in {"cut", "whole"}
    BY <1>1, SMT DEF IInv, Shapes, Cut
  <2>2. \A id \in Ids : \A f \in {secret(id), public(id)} :
            files[f].kind = "whole" => files[f].value \in Keys
    BY <1>1, FileFacts DEF IInv, Contents, Fits
  <2>3. \A s \in Shells : job[s].at \in {"reads", "acts", "connected", "verified", "up",
                                          "writes", "truncated", "ended"}
    BY <1>1, SMT DEF IInv, Shapes, AnyJob, NoJob, Process, Verified, Refused
  <2>4. server.up => server.issuer \in Keys /\ server.subject \in Keys /\ server.alpn \in Alpns
    BY <1>1, ServerFacts DEF IInv, Shapes, Bound
  <2>5. \A i \in issued : i.ticket.claims \in TicketClaims
    BY <1>1 DEF IInv, Shapes, Signed
  <2>. QED  BY <1>1, <2>1, <2>2, <2>3, <2>4, <2>5 DEF TypeOK, IInv, Shapes
<1>. QED  BY <1>1, InitIInv, NextIInv, PTL DEF Spec

(* A keygen that runs alone to its end leaves the two halves of one key in *)
(* its files, whatever keygens were killed or ran into each other before.  *)
THEOREM KeyFilesAgreeHolds == Spec => []KeyFilesAgree
<1>1. IInv => KeyFilesAgree
  BY DEF IInv
<1>. QED  BY <1>1, InitIInv, NextIInv, PTL DEF Spec

(* ticket verify says verified=true only of a ticket that the key it read  *)
(* has issued and whose --ttl-seconds have not passed by the clock or by   *)
(* --now, for any i64 of a ttl and any interleaving with keygen and issue. *)
THEOREM VerifiedIsValidHolds == Spec => []VerifiedIsValid
<1>1. IInv => VerifiedIsValid
  BY DEF IInv, Sound, Vouched, VerifiedIsValid
<1>. QED  BY <1>1, InitIInv, NextIInv, PTL DEF Spec

(* A tunnel that connect has brought up was let in by the server with the  *)
(* pinned certificate, for a ticket of that server's issuer and subject    *)
(* that had not run out.                                                   *)
THEOREM TunnelIsAuthorisedHolds == Spec => []TunnelIsAuthorised
<1>1. ASSUME IInv PROVE TunnelIsAuthorised
  <2>. SUFFICES ASSUME NEW s \in Shells, job[s].cmd = "connect", job[s].at = "up"
                PROVE  /\ job[s].out.cert = job[s].got[3]
                       /\ \E i \in issued : /\ i.ticket = job[s].got[4]
                                            /\ i.ticket.claims.issuer = job[s].out.issuer
                                            /\ i.ticket.claims.subject = job[s].out.subject
                                            /\ job[s].arg.time <= i.until
    BY DEF TunnelIsAuthorised
  <2>1. Stages(job[s]) /\ Vouched(issued, job[s])
    BY <1>1 DEF IInv, Sound
  <2>. QED  BY <2>1 DEF Stages, Vouched
<1>. QED  BY <1>1, InitIInv, NextIInv, PTL DEF Spec

=============================================================================
