-------------------------------- MODULE Pipe --------------------------------
(***************************************************************************)
(* What a proxied TCP connection promises.  In each direction the chunks   *)
(* that were sent arrive once and in order, so that counting them is       *)
(* enough, and the end of the stream is reported only after all of them,   *)
(* unless that direction broke.                                            *)
(***************************************************************************)
EXTENDS Naturals

CONSTANT Dirs

VARIABLES
    sent, received,   \* chunks, by direction
    closed,           \* the source sends no more
    eof,              \* the destination was told so
    broken            \* something failed on the way

pipe_vars == <<sent, received, closed, eof, broken>>

PipeInit ==
    /\ sent = [d \in Dirs |-> 0]
    /\ received = [d \in Dirs |-> 0]
    /\ closed = [d \in Dirs |-> FALSE]
    /\ eof = [d \in Dirs |-> FALSE]
    /\ broken = [d \in Dirs |-> FALSE]

Send(d) ==
    /\ ~closed[d]
    /\ sent' = [sent EXCEPT ![d] = @ + 1]
    /\ UNCHANGED <<received, closed, eof, broken>>

Close(d) ==
    /\ closed' = [closed EXCEPT ![d] = TRUE]
    /\ UNCHANGED <<sent, received, eof, broken>>

Deliver(d) ==
    /\ ~eof[d]
    /\ received[d] < sent[d]
    /\ received' = [received EXCEPT ![d] = @ + 1]
    /\ UNCHANGED <<sent, closed, eof, broken>>

End(d) ==
    /\ broken[d] \/ (closed[d] /\ received[d] = sent[d])
    /\ eof' = [eof EXCEPT ![d] = TRUE]
    /\ UNCHANGED <<sent, received, closed, broken>>

(* The directions in D break, and those in E end with it. *)
Break(D, E) ==
    /\ broken' = [d \in Dirs |-> broken[d] \/ d \in D]
    /\ eof' = [d \in Dirs |-> eof[d] \/ d \in E]
    /\ UNCHANGED <<sent, received, closed>>

PipeNext ==
    \/ \E d \in Dirs : Send(d) \/ Close(d) \/ Deliver(d) \/ End(d)
    \/ \E D \in SUBSET Dirs : \E E \in SUBSET D : Break(D, E)

PipeSpec == PipeInit /\ [][PipeNext]_pipe_vars

=============================================================================
