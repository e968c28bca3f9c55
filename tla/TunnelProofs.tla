---------------------------- MODULE TunnelProofs ----------------------------
(***************************************************************************)
(* The two halves of transport/tunnel.rs.  The bridges of a proxied        *)
(* connection implement a pair of pipes, for any number of chunks and any  *)
(* window of the QUIC stream; the loops that accept connections and        *)
(* streams heed cancel, for any number of both.                            *)
(***************************************************************************)
EXTENDS Bridge, AcceptLoops, TLAPS

Ended(d) == peer[source(d)] \in {"half", "closed"}

(* A pump runs only in a task that bridges, and the target is connected    *)
(* only by the server's.                                                   *)
Tasks ==
    /\ client # "bridging" => near["up"] = "off" /\ far["down"] = "off"
    /\ server # "bridging" => /\ near["down"] = "off" /\ far["up"] = "off"
                              /\ peer["target"] = "none"
    /\ client = "failed" => \A d \in Dirs : fault[d]
    /\ server = "refused" => \A d \in Dirs : fault[d]

(* How many chunks are where.  Without a fault the far pump has delivered  *)
(* what it pulled, but for the chunk it is writing.                        *)
Counts ==
    \A d \in Dirs :
        /\ near[d] = "write" => passed[d] < written[d]
        /\ passed[d] <= written[d]
        /\ pulled[d] <= passed[d]
        /\ far[d] = "write" => delivered[d] < pulled[d]
        /\ delivered[d] <= pulled[d]
        /\ ~fault[d] => pulled[d] = delivered[d] + (IF far[d] = "write" THEN 1 ELSE 0)

(* How a direction ends. *)
Endings ==
    \A d \in Dirs :
        /\ shut[d] => far[d] = "done" \/ (d = "down" /\ client = "failed")
        /\ fin[d] => near[d] = "done" \/ fault[d]
        /\ near[d] = "done" => \/ fault[d]
                               \/ far[d] = "done"
                               \/ Ended(d) /\ passed[d] = written[d]

IInv == TypeOK /\ Tasks /\ Counts /\ Endings

-----------------------------------------------------------------------------
(* The initial state satisfies the inductive invariant. *)
LEMMA InitIInv == Init => IInv
BY BridgeAssumption DEF Init, IInv, TypeOK, Tasks, Counts, Endings, Dirs

(* The endpoints and the network preserve the inductive invariant. *)
LEMMA OutsideIInv ==
    ASSUME IInv,
           \/ \E d \in Dirs : Writes(d) \/ Takes(d)
           \/ \E e \in {"app", "target"}, how \in {"half", "closed"} : Ends(e, how)
           \/ LosesLink
    PROVE  IInv'
<1>1. ASSUME NEW d \in Dirs, Writes(d)
      PROVE  IInv'
  BY <1>1 DEF Writes, tasks, IInv, TypeOK, Tasks, Counts, Endings, Ended
<1>2. ASSUME NEW e \in {"app", "target"}, NEW how \in {"half", "closed"}, Ends(e, how)
      PROVE  IInv'
  BY <1>2 DEF Ends, tasks, counts, IInv, TypeOK, Tasks, Counts, Endings, Ended, source, Dirs
<1>3. ASSUME LosesLink
      PROVE  IInv'
  BY <1>3 DEF LosesLink, tasks, counts, IInv, TypeOK, Tasks, Counts, Endings, Ended
<1>4. ASSUME NEW d \in Dirs, Takes(d)
      PROVE  IInv'
  BY <1>4, BridgeAssumption DEF Takes, tasks, IInv, TypeOK, Tasks, Counts, Endings, Ended
<1>. QED  BY <1>1, <1>2, <1>3, <1>4

(* The two tasks preserve the inductive invariant. *)
LEMMA TaskIInv == IInv /\ (Client \/ Server) => IInv'
<1>. SUFFICES ASSUME IInv, Client \/ Server PROVE IInv'
  OBVIOUS
<1>1. CASE ClientOpens
  BY <1>1 DEF ClientOpens, counts, IInv, TypeOK, Tasks, Counts, Endings, Ended, Dirs
<1>2. CASE ClientCannotOpen
  BY <1>2 DEF ClientCannotOpen, counts, IInv, TypeOK, Tasks, Counts, Endings, Ended, Dirs
<1>3. CASE ServerAccepts
  BY <1>3 DEF ServerAccepts, counts, IInv, TypeOK, Tasks, Counts, Endings, Ended, Dirs
<1>4. CASE DialSucceeds
  BY <1>4 DEF DialSucceeds, counts, IInv, TypeOK, Tasks, Counts, Endings, Ended, source, Dirs
<1>5. CASE DialFails
  BY <1>5 DEF DialFails, counts, IInv, TypeOK, Tasks, Counts, Endings, Ended, Dirs
<1>. QED  BY <1>1, <1>2, <1>3, <1>4, <1>5 DEF Client, Server

(* The pumps that write to the stream preserve the inductive invariant. *)
LEMMA NearIInv ==
    ASSUME IInv, NEW d \in Dirs, Near(d)
    PROVE  IInv'
<1>1. CASE NearReads(d)
  BY <1>1 DEF NearReads, tasks, counts, IInv, TypeOK, Tasks, Counts, Endings, Ended, Dirs
<1>2. CASE NearWrites(d)
  BY <1>2, BridgeAssumption
     DEF NearWrites, tasks, IInv, TypeOK, Tasks, Counts, Endings, Ended, Dirs
<1>3. CASE NearEof(d)
  BY <1>3 DEF NearEof, NearEnds, tasks, counts, IInv, TypeOK, Tasks, Counts, Endings, Ended, Dirs
<1>4. CASE NearReadFails(d)
  BY <1>4 DEF NearReadFails, NearEnds, tasks, counts, IInv, TypeOK, Tasks, Counts, Endings, Ended,
              Dirs
<1>5. CASE NearWriteFails(d)
  <2>1. /\ near[d] = "write"
        /\ near' = [near EXCEPT ![d] = "done"]
        /\ fin' = [fin EXCEPT ![d] = link = "up"]
        /\ UNCHANGED <<peer, link, client, server, far, counts, shut>>
    BY <1>5 DEF NearWriteFails, NearEnds, tasks
  <2>2. fin' \in [Dirs -> BOOLEAN] /\ fault' \in [Dirs -> BOOLEAN]
    BY <1>5 DEF NearWriteFails, NearEnds, IInv, TypeOK
  <2>3. \A e \in Dirs : (fault[e] => fault'[e]) /\ (e # d => fault'[e] = fault[e])
    BY <1>5 DEF NearWriteFails, IInv, TypeOK
  <2>4. fault'[d] \/ far[d] = "done"
    BY <1>5 DEF NearWriteFails, IInv, TypeOK, Tasks, Stopped, ServerReturned, ClientReturned, Dirs
  <2>5. TypeOK'
    BY <2>1, <2>2 DEF IInv, TypeOK, counts
  <2>6. Tasks'
    BY <2>1, <2>3 DEF IInv, TypeOK, Tasks, Dirs
  <2>7. Counts'
    BY <2>1, <2>3 DEF IInv, TypeOK, Counts, counts
  <2>8. Endings'
    BY <2>1, <2>3, <2>4 DEF IInv, TypeOK, Endings, Ended, counts
  <2>. QED  BY <2>5, <2>6, <2>7, <2>8 DEF IInv
<1>. QED  BY <1>1, <1>2, <1>3, <1>4, <1>5 DEF Near

(* So do those on the other side of the stream. *)
LEMMA FarIInv ==
    ASSUME IInv, NEW d \in Dirs, Far(d)
    PROVE  IInv'
<1>1. CASE FarReads(d)
  <2>1. TypeOK'
    BY <1>1, BridgeAssumption DEF FarReads, tasks, IInv, TypeOK
  <2>2. Tasks' /\ Endings'
    BY <1>1 DEF FarReads, tasks, IInv, TypeOK, Tasks, Endings, Ended, Dirs
  <2>3. Counts'
    BY <1>1 DEF FarReads, IInv, TypeOK, Counts
  <2>. QED  BY <2>1, <2>2, <2>3 DEF IInv
<1>2. CASE FarWrites(d)
  BY <1>2, BridgeAssumption DEF FarWrites, tasks, IInv, TypeOK, Tasks, Counts, Endings, Ended, Dirs
<1>3. CASE FarWritesInVain(d)
  BY <1>3 DEF FarWritesInVain, tasks, counts, IInv, TypeOK, Tasks, Counts, Endings, Ended, Dirs
<1>4. CASE FarEof(d)
  BY <1>4 DEF FarEof, FarEnds, tasks, counts, IInv, TypeOK, Tasks, Counts, Endings, Ended, Dirs
<1>5. CASE FarReadFails(d)
  BY <1>5 DEF FarReadFails, FarEnds, tasks, counts, IInv, TypeOK, Tasks, Counts, Endings, Ended, Dirs
<1>6. CASE FarWriteFails(d)
  BY <1>6 DEF FarWriteFails, FarEnds, tasks, counts, IInv, TypeOK, Tasks, Counts, Endings, Ended, Dirs
<1>. QED  BY <1>1, <1>2, <1>3, <1>4, <1>5, <1>6 DEF Far

(* Every step preserves the inductive invariant. *)
LEMMA NextIInv == IInv /\ [Next]_vars => IInv'
<1>. SUFFICES ASSUME IInv, [Next]_vars PROVE IInv'
  OBVIOUS
<1>1. CASE UNCHANGED vars
  BY <1>1 DEF vars, tasks, counts, IInv, TypeOK, Tasks, Counts, Endings, Ended
<1>2. CASE Next
  BY <1>2, OutsideIInv, TaskIInv, NearIInv, FarIInv DEF Next
<1>. QED  BY <1>1, <1>2

-----------------------------------------------------------------------------
(* closed of the pipes *)
closing == [d \in Dirs |-> Ended(d)]

(* A step of the pipes, over the variables of the bridges. *)
PipeStep ==
    \/ \E d \in Dirs : pipe!Send(d) \/ pipe!Close(d) \/ pipe!Deliver(d) \/ pipe!End(d)
    \/ \E D \in SUBSET Dirs : \E E \in SUBSET D : pipe!Break(D, E)
    \/ UNCHANGED <<written, delivered, shut, fault>> /\ closing' = closing

(* What the endpoints and the network do is a step of the pipes. *)
LEMMA OutsideSteps ==
    ASSUME IInv,
           \/ \E d \in Dirs : Writes(d) \/ Takes(d)
           \/ \E e \in {"app", "target"}, how \in {"half", "closed"} : Ends(e, how)
           \/ LosesLink
    PROVE  PipeStep
<1>1. ASSUME NEW d \in Dirs, Writes(d)
      PROVE  pipe!Send(d)
  BY <1>1 DEF Writes, pipe!Send, IInv, TypeOK
<1>2. ASSUME NEW e \in {"app", "target"}, NEW how \in {"half", "closed"}, Ends(e, how)
      PROVE  PipeStep
  <2>1. PICK d \in Dirs : e = source(d)
    BY DEF Dirs, source
  <2>2. \A x \in Dirs : source(x) = e => x = d
    BY <2>1 DEF Dirs, source
  <2>3. closing' = [closing EXCEPT ![d] = TRUE]
    <3>1. ASSUME NEW x \in Dirs PROVE Ended(x)' <=> (x = d \/ Ended(x))
      BY <1>2, <2>1, <2>2 DEF Ends, Ended, source, IInv, TypeOK
    <3>2. ASSUME NEW x \in Dirs PROVE Ended(x)' = IF x = d THEN TRUE ELSE Ended(x)
      <4>1. CASE x = d
        <5>1. Ended(x)'
          BY <3>1, <4>1
        <5>. QED  BY <4>1, <5>1, Zenon DEF Ended
      <4>2. CASE x # d
        <5>1. Ended(x)' <=> Ended(x)
          BY <3>1, <4>2
        <5>2. Ended(x)' = Ended(x)
          BY <5>1, SMT DEF Ended
        <5>. QED  BY <4>2, <5>2
      <4>. QED  BY <4>1, <4>2
    <3>3. [closing EXCEPT ![d] = TRUE] = [x \in Dirs |-> IF x = d THEN TRUE ELSE Ended(x)]
      BY DEF closing, Ended
    <3>4. closing' = [x \in Dirs |-> Ended(x)']
      BY DEF closing
    <3>. QED  BY <3>2, <3>3, <3>4
  <2>4. pipe!Close(d)
    BY <1>2, <2>3 DEF Ends, pipe!Close, closing, Ended, counts
  <2>. QED  BY <2>4 DEF PipeStep
<1>3. ASSUME LosesLink
      PROVE  PipeStep
  BY <1>3 DEF LosesLink, PipeStep, counts, closing, Ended
<1>4. ASSUME NEW d \in Dirs, Takes(d)
      PROVE  PipeStep
  BY <1>4 DEF Takes, PipeStep, closing, Ended
<1>. QED  BY <1>1, <1>2, <1>3, <1>4 DEF PipeStep

(* Something fails in the directions D, and those of E end with it. *)
LEMMA Breaking ==
    ASSUME IInv, NEW D \in SUBSET Dirs, NEW E \in SUBSET D,
           written' = written, delivered' = delivered, peer' = peer,
           fault' \in [Dirs -> BOOLEAN], shut' \in [Dirs -> BOOLEAN],
           \A d \in Dirs : fault'[d] <=> fault[d] \/ d \in D,
           \A d \in Dirs : shut'[d] <=> shut[d] \/ d \in E
    PROVE  PipeStep
<1>1. fault' = [d \in Dirs |-> fault[d] \/ d \in D]
  BY DEF IInv, TypeOK
<1>2. shut' = [d \in Dirs |-> shut[d] \/ d \in E]
  BY DEF IInv, TypeOK
<1>3. pipe!Break(D, E)
  BY <1>1, <1>2 DEF pipe!Break
<1>. QED  BY <1>3 DEF PipeStep

(* The same of one direction, which may end with it. *)
LEMMA BreakingOne ==
    ASSUME IInv, NEW d \in Dirs,
           written' = written, delivered' = delivered, peer' = peer,
           fault' = [fault EXCEPT ![d] = TRUE],
           shut' = shut \/ shut' = [shut EXCEPT ![d] = TRUE]
    PROVE  PipeStep
<1>1. /\ fault' \in [Dirs -> BOOLEAN] /\ shut' \in [Dirs -> BOOLEAN]
      /\ \A e \in Dirs : fault'[e] <=> fault[e] \/ e \in {d}
  BY DEF IInv, TypeOK
<1>2. ASSUME NEW E \in SUBSET {d}, \A e \in Dirs : shut'[e] <=> shut[e] \/ e \in E
      PROVE  PipeStep
  <2>1. {d} \in SUBSET Dirs
    OBVIOUS
  <2>. QED  BY <1>1, <1>2, <2>1, Breaking
<1>3. CASE shut' = shut
  <2>1. PICK E \in SUBSET {d} : \A e : e \notin E
    <3>1. {} \in SUBSET {d} /\ \A e : e \notin {}
      OBVIOUS
    <3>. QED  BY <3>1, Zenon
  <2>2. \A e \in Dirs : shut'[e] <=> shut[e] \/ e \in E
    BY <1>3, <2>1 DEF IInv, TypeOK
  <2>. QED  BY <1>2, <2>2
<1>4. CASE shut' = [shut EXCEPT ![d] = TRUE]
  <2>1. \A e \in Dirs : shut'[e] <=> shut[e] \/ e \in {d}
    BY <1>4 DEF IInv, TypeOK
  <2>. QED  BY <1>2, <2>1
<1>. QED  BY <1>3, <1>4

(* What the two tasks do is a step of the pipes. *)
LEMMA TaskSteps == IInv /\ (Client \/ Server) => PipeStep
<1>. SUFFICES ASSUME IInv, Client \/ Server PROVE PipeStep
  OBVIOUS
<1>1. CASE ClientOpens \/ ServerAccepts
  BY <1>1 DEF ClientOpens, ServerAccepts, counts, PipeStep, closing, Ended
<1>2. CASE ClientCannotOpen
  <2>1. /\ UNCHANGED <<written, delivered, peer>>
        /\ fault' = [d \in Dirs |-> TRUE] /\ shut' = [shut EXCEPT !["down"] = TRUE]
    BY <1>2 DEF ClientCannotOpen, counts
  <2>2. Dirs \in SUBSET Dirs /\ {"down"} \in SUBSET Dirs
    BY DEF Dirs
  <2>3. /\ fault' \in [Dirs -> BOOLEAN] /\ shut' \in [Dirs -> BOOLEAN]
        /\ \A d \in Dirs : fault'[d] <=> fault[d] \/ d \in Dirs
        /\ \A d \in Dirs : shut'[d] <=> shut[d] \/ d \in {"down"}
    BY <2>1, <2>2 DEF IInv, TypeOK
  <2>. QED  BY <2>1, <2>2, <2>3, Breaking
<1>3. CASE DialSucceeds
  <2>1. closing' = closing
    <3>1. ASSUME NEW d \in Dirs PROVE Ended(d)' = Ended(d)
      BY <1>3 DEF DialSucceeds, Ended, source, IInv, TypeOK, Tasks
    <3>. QED  BY <3>1 DEF closing
  <2>. QED  BY <1>3, <2>1 DEF DialSucceeds, counts, PipeStep
<1>4. CASE DialFails
  <2>1. /\ UNCHANGED <<written, delivered, peer, shut>>
        /\ fault' = [d \in Dirs |-> TRUE]
    BY <1>4 DEF DialFails, counts
  <2>2. /\ fault' \in [Dirs -> BOOLEAN] /\ shut' \in [Dirs -> BOOLEAN]
        /\ \A d \in Dirs : fault'[d] <=> fault[d] \/ d \in Dirs
        /\ \A d \in Dirs : shut'[d] <=> shut[d] \/ d \in {}
    BY <2>1 DEF IInv, TypeOK
  <2>3. Dirs \in SUBSET Dirs /\ {} \in SUBSET Dirs
    OBVIOUS
  <2>. QED  BY <2>1, <2>2, <2>3, Breaking
<1>. QED  BY <1>1, <1>2, <1>3, <1>4 DEF Client, Server

(* What the pumps that write to the stream do is a step of the pipes. *)
LEMMA NearSteps ==
    ASSUME IInv, NEW d \in Dirs, Near(d)
    PROVE  PipeStep
<1>1. UNCHANGED <<written, delivered, peer, shut>>
  BY DEF Near, NearReads, NearWrites, NearEof, NearReadFails, NearWriteFails, NearEnds, counts
<1>2. CASE UNCHANGED fault
  BY <1>1, <1>2 DEF PipeStep, closing, Ended
<1>3. CASE fault' = [fault EXCEPT ![d] = TRUE]
  BY <1>1, <1>3, BreakingOne
<1>4. CASE fault' = [fault EXCEPT ![d] = @ \/ link = "lost"]
  BY <1>1, <1>2, <1>3, <1>4 DEF IInv, TypeOK
<1>. QED
  BY <1>2, <1>3, <1>4 DEF Near, NearReads, NearWrites, NearEof, NearReadFails, NearWriteFails

(* What the pumps that read from the stream do is a step of the pipes.     *)
LEMMA FarSteps ==
    ASSUME IInv, NEW d \in Dirs, Far(d)
    PROVE  PipeStep
<1>1. CASE FarReads(d)
  BY <1>1 DEF FarReads, PipeStep, closing, Ended
<1>2. CASE FarWrites(d)
  <2>1. ~shut[d] /\ delivered[d] < written[d]
    BY <1>2 DEF FarWrites, IInv, TypeOK, Tasks, Counts, Endings, Dirs
  <2>2. pipe!Deliver(d)
    BY <1>2, <2>1 DEF FarWrites, pipe!Deliver
  <2>. QED  BY <2>2 DEF PipeStep
<1>3. CASE FarWritesInVain(d)
  <2>1. /\ UNCHANGED <<written, delivered, peer, shut>>
        /\ fault' = [fault EXCEPT ![d] = TRUE]
    BY <1>3 DEF FarWritesInVain, counts
  <2>. QED  BY <2>1, BreakingOne
<1>4. CASE FarEof(d)
  <2>1. fault[d] \/ (Ended(d) /\ delivered[d] = written[d])
    BY <1>4 DEF FarEof, IInv, TypeOK, Counts, Endings
  <2>2. pipe!End(d)
    BY <1>4, <2>1 DEF FarEof, FarEnds, counts, Ended, pipe!End
  <2>. QED  BY <2>2 DEF PipeStep
<1>5. CASE FarReadFails(d) \/ FarWriteFails(d)
  <2>1. /\ UNCHANGED <<written, delivered, peer>>
        /\ fault' = [fault EXCEPT ![d] = TRUE] /\ shut' = [shut EXCEPT ![d] = TRUE]
    BY <1>5 DEF FarReadFails, FarWriteFails, FarEnds, counts
  <2>. QED  BY <2>1, BreakingOne
<1>. QED  BY <1>1, <1>2, <1>3, <1>4, <1>5 DEF Far

-----------------------------------------------------------------------------
(* The counters and the states of the pumps have their types, and the      *)
(* stream never holds more than its window.                                *)
THEOREM TypeCorrect == Spec => []TypeOK
<1>1. IInv => TypeOK
  BY DEF IInv
<1>. QED  BY <1>1, InitIInv, NextIInv, PTL DEF Spec

(* A proxied connection is a pair of pipes: through tcp_to_qs, the QUIC    *)
(* stream and qs_to_tcp no chunk is lost, repeated or invented, and the    *)
(* end of a direction follows all of its chunks unless something failed.   *)
THEOREM IsPipeHolds == Spec => IsPipe
<1>1. Init => pipe!PipeInit
  <2>. SUFFICES ASSUME Init PROVE pipe!PipeInit
    OBVIOUS
  <2>1. \A d \in Dirs : (peer[source(d)] \in {"half", "closed"}) = FALSE
    BY DEF Init, source, Dirs
  <2>. QED  BY <2>1 DEF Init, pipe!PipeInit
<1>2. IInv /\ [Next]_vars => [pipe!PipeNext]_(pipe!pipe_vars)
  <2>. SUFFICES ASSUME IInv, [Next]_vars PROVE [pipe!PipeNext]_(pipe!pipe_vars)
    OBVIOUS
  <2>1. PipeStep
    <3>1. CASE Next
      BY <3>1, OutsideSteps, TaskSteps, NearSteps, FarSteps DEF Next
    <3>2. CASE UNCHANGED vars
      BY <3>2 DEF vars, counts, PipeStep, closing, Ended
    <3>. QED  BY <3>1, <3>2
  <2>. QED  BY <2>1 DEF PipeStep, pipe!PipeNext, pipe!pipe_vars, closing, Ended
<1>. QED  BY <1>1, <1>2, InitIInv, NextIInv, PTL DEF Spec, IsPipe, pipe!PipeSpec

-----------------------------------------------------------------------------
(* The server loops. *)

(* The types that LoopsTypeOK leaves open. *)
Shapes ==
    /\ queue \in Seq(Conns)
    /\ loop.at = "connecting" => loop.c \in Conns
    /\ pending \in [Conns -> Nat] /\ served \in [Conns -> Nat]
    /\ late \in [conns : Nat, streams : [Conns -> Nat]]

(* Nothing is late before cancel, nor while a loop waits for what it began *)
(* to wait for before it.                                                  *)
Lateness ==
    /\ ~cancel \/ loop.at \in {"accept", "connecting"} => late.conns = 0
    /\ \A c \in Conns : ~cancel \/ task[c] = "accept" => late.streams[c] = 0

LoopsIInv == LoopsTypeOK /\ Shapes /\ Lateness /\ AtMostOneMore

-----------------------------------------------------------------------------
(* The initial state satisfies the inductive invariant. *)
LEMMA LoopsInitIInv == LoopsInit => LoopsIInv
<1>. SUFFICES ASSUME LoopsInit PROVE LoopsIInv
  OBVIOUS
<1>1. LoopsTypeOK
  <2>1. /\ open \in BOOLEAN /\ cancel \in BOOLEAN /\ stub \in BOOLEAN
        /\ kind \in {"tunnel", "listener"}
    BY DEF LoopsInit
  <2>2. loop.at \in {"check", "accept", "connecting", "done"}
    BY DEF LoopsInit
  <2>3. \A c \in Conns : pending[c] + served[c] <= MaxStreams
    <3>1. \A c \in Conns : pending[c] = 0 /\ served[c] = 0
      BY DEF LoopsInit
    <3>. QED  BY <3>1, LoopsAssumption
  <2>. QED  BY <2>1, <2>2, <2>3 DEF LoopsInit, LoopsTypeOK
<1>2. Shapes
  BY DEF LoopsInit, Shapes
<1>3. Lateness /\ AtMostOneMore
  BY DEF LoopsInit, Lateness, AtMostOneMore
<1>. QED  BY <1>1, <1>2, <1>3 DEF LoopsIInv

(* Clients, the network and the operator preserve the inductive invariant. *)
LEMMA LoopsOutsideIInv ==
    ASSUME LoopsIInv, 
           \/ \E c \in Conns : Arrive(c) \/ OpenStream(c) \/ Disconnect(c)
           \/ CloseEndpoint \/ SetCancel \/ StubReturns
    PROVE  LoopsIInv'
<1>1. ASSUME NEW c \in Conns, Arrive(c) PROVE LoopsIInv'
  <2>1. LoopsTypeOK'
    BY <1>1 DEF Arrive, LoopsIInv, LoopsTypeOK, Shapes
  <2>2. Shapes'
    BY <1>1 DEF Arrive, LoopsIInv, LoopsTypeOK, Shapes
  <2>3. Lateness' /\ AtMostOneMore'
    BY <1>1 DEF Arrive, LoopsIInv, LoopsTypeOK, Shapes, Lateness, AtMostOneMore
  <2>. QED  BY <2>1, <2>2, <2>3 DEF LoopsIInv
<1>2. ASSUME NEW c \in Conns, OpenStream(c) PROVE LoopsIInv'
  <2>1. LoopsTypeOK'
    BY <1>2, LoopsAssumption DEF OpenStream, LoopsIInv, LoopsTypeOK, Shapes
  <2>2. Shapes'
    BY <1>2, LoopsAssumption DEF OpenStream, LoopsIInv, LoopsTypeOK, Shapes
  <2>3. Lateness' /\ AtMostOneMore'
    BY <1>2, LoopsAssumption DEF OpenStream, LoopsIInv, LoopsTypeOK, Shapes, Lateness, AtMostOneMore
  <2>. QED  BY <2>1, <2>2, <2>3 DEF LoopsIInv
<1>3. ASSUME NEW c \in Conns, Disconnect(c) PROVE LoopsIInv'
  BY <1>3 DEF Disconnect, LoopsIInv, LoopsTypeOK, Shapes, Lateness, AtMostOneMore
<1>4. CASE CloseEndpoint
  <2>1. LoopsTypeOK'
    BY <1>4 DEF CloseEndpoint, LoopsIInv, LoopsTypeOK, Shapes
  <2>2. Shapes'
    BY <1>4 DEF CloseEndpoint, LoopsIInv, LoopsTypeOK, Shapes
  <2>3. Lateness' /\ AtMostOneMore'
    BY <1>4 DEF CloseEndpoint, LoopsIInv, LoopsTypeOK, Shapes, Lateness, AtMostOneMore
  <2>. QED  BY <2>1, <2>2, <2>3 DEF LoopsIInv
<1>5. CASE SetCancel
  BY <1>5 DEF SetCancel, LoopsIInv, LoopsTypeOK, Shapes, Lateness, AtMostOneMore
<1>6. CASE StubReturns
  BY <1>6 DEF StubReturns, LoopsIInv, LoopsTypeOK, Shapes, Lateness, AtMostOneMore
<1>. QED  BY <1>1, <1>2, <1>3, <1>4, <1>5, <1>6

(* The outer loop of serve and run_listener preserves it. *)
LEMMA LoopsLoopIInv ==
    ASSUME LoopsIInv, Loop
    PROVE  LoopsIInv'
<1>1. CASE LoopChecks
  BY <1>1 DEF LoopChecks, LoopsIInv, LoopsTypeOK, Shapes, Lateness, AtMostOneMore
<1>2. CASE LoopAccepts
  <2>1. CASE queue # << >> /\ loop' = [at |-> "connecting", c |-> Head(queue)]
             /\ queue' = Tail(queue) /\ conn' = [conn EXCEPT ![Head(queue)] = "connecting"]
    <3>1. Head(queue) \in Conns /\ Tail(queue) \in Seq(Conns)
      BY <2>1 DEF LoopsIInv, Shapes
    <3>. QED
      BY <1>2, <2>1, <3>1 DEF LoopAccepts, LoopsIInv, LoopsTypeOK, Shapes, Lateness, AtMostOneMore
  <2>2. CASE loop' = [at |-> "done"] /\ UNCHANGED <<queue, conn>>
    BY <1>2, <2>2 DEF LoopAccepts, LoopsIInv, LoopsTypeOK, Shapes, Lateness, AtMostOneMore
  <2>. QED  BY <1>2, <2>1, <2>2 DEF LoopAccepts
<1>3. CASE LoopDrops
  BY <1>3 DEF LoopDrops, next_round, LoopsIInv, LoopsTypeOK, Shapes, Lateness, AtMostOneMore
<1>4. CASE LoopSpawns
  <2>1. LoopsTypeOK'
    BY <1>4 DEF LoopSpawns, next_round, LoopsIInv, LoopsTypeOK, Shapes
  <2>2. Shapes'
    <3>1. late.conns \in Nat /\ late.streams \in [Conns -> Nat]
          /\ late' = [late EXCEPT !.conns = IF cancel THEN @ + 1 ELSE @]
      BY <1>4 DEF LoopSpawns, LoopsIInv, Shapes
    <3>2. late' \in [conns : Nat, streams : [Conns -> Nat]]
      <4>1. (IF cancel THEN late.conns + 1 ELSE late.conns) \in Nat
        BY <3>1
      <4>. QED  BY <3>1, <4>1 DEF LoopsIInv, Shapes
    <3>. QED  BY <1>4, <3>2 DEF LoopSpawns, next_round, LoopsIInv, Shapes
  <2>3. Lateness' /\ AtMostOneMore'
    BY <1>4 DEF LoopSpawns, next_round, LoopsIInv, LoopsTypeOK, Shapes, Lateness, AtMostOneMore
  <2>. QED  BY <2>1, <2>2, <2>3 DEF LoopsIInv
<1>. QED  BY <1>1, <1>2, <1>3, <1>4 DEF Loop

(* The handler of a connection preserves it. *)
LEMMA LoopsTaskIInv ==
    ASSUME LoopsIInv, NEW c \in Conns, TaskHandshakes(c) \/ Task(c)
    PROVE  LoopsIInv'
<1>1. CASE TaskHandshakes(c)
  BY <1>1 DEF TaskHandshakes, LoopsIInv, LoopsTypeOK, Shapes, Lateness, AtMostOneMore
<1>2. CASE TaskChecks(c)
  BY <1>2 DEF TaskChecks, LoopsIInv, LoopsTypeOK, Shapes, Lateness, AtMostOneMore
<1>3. CASE TaskAccepts(c)
  <2>1. LoopsTypeOK'
    BY <1>3, LoopsAssumption DEF TaskAccepts, LoopsIInv, LoopsTypeOK, Shapes
  <2>2. Shapes'
    <3>1. late' \in [conns : Nat, streams : [Conns -> Nat]]
      <4>1. late.streams \in [Conns -> Nat]
            /\ late' = [late EXCEPT !.streams[c] = IF cancel THEN @ + 1 ELSE @]
        BY <1>3 DEF TaskAccepts, LoopsIInv, Shapes
      <4>2. (IF cancel THEN late.streams[c] + 1 ELSE late.streams[c]) \in Nat
        BY <4>1
      <4>. QED  BY <4>1, <4>2 DEF LoopsIInv, Shapes
    <3>2. pending' \in [Conns -> Nat] /\ served' \in [Conns -> Nat]
      BY <1>3 DEF TaskAccepts, LoopsIInv, Shapes
    <3>. QED  BY <1>3, <3>1, <3>2 DEF TaskAccepts, LoopsIInv, Shapes
  <2>3. Lateness' /\ AtMostOneMore'
    BY <1>3, LoopsAssumption DEF TaskAccepts, LoopsIInv, LoopsTypeOK, Shapes, Lateness, AtMostOneMore
  <2>. QED  BY <2>1, <2>2, <2>3 DEF LoopsIInv
<1>4. CASE TaskFails(c)
  BY <1>4 DEF TaskFails, after_error, LoopsIInv, LoopsTypeOK, Shapes, Lateness, AtMostOneMore
<1>. QED  BY <1>1, <1>2, <1>3, <1>4 DEF Task

(* Every step preserves the inductive invariant. *)
LEMMA LoopsNextIInv == LoopsIInv /\ [LoopsNext]_loop_vars => LoopsIInv'
<1>. SUFFICES ASSUME LoopsIInv, [LoopsNext]_loop_vars PROVE LoopsIInv'
  OBVIOUS
<1>1. CASE UNCHANGED loop_vars
  BY <1>1 DEF loop_vars, LoopsIInv, LoopsTypeOK, Shapes, Lateness, AtMostOneMore
<1>2. CASE LoopsNext
  BY <1>2, LoopsOutsideIInv, LoopsLoopIInv, LoopsTaskIInv DEF LoopsNext
<1>. QED  BY <1>1, <1>2

-----------------------------------------------------------------------------
(* The loops, the connections and their handlers keep their types; no      *)
(* stream is handed to a task twice.                                       *)
THEOREM LoopsTypeCorrect == LoopsSpec => []LoopsTypeOK
<1>1. LoopsIInv => LoopsTypeOK
  BY DEF LoopsIInv
<1>. QED  BY <1>1, LoopsInitIInv, LoopsNextIInv, PTL DEF LoopsSpec

(* After cancel a loop accepts at most the connection, and a handler at    *)
(* most the stream, that it was waiting for, with any number of both.      *)
THEOREM AtMostOneMoreHolds == LoopsSpec => []AtMostOneMore
<1>1. LoopsIInv => AtMostOneMore
  BY DEF LoopsIInv
<1>. QED  BY <1>1, LoopsInitIInv, LoopsNextIInv, PTL DEF LoopsSpec

=============================================================================
