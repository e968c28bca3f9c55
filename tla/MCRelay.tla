------------------------------ MODULE MCRelay ------------------------------
EXTENDS Relay

CONSTANTS s1, s2, n1

MCStreams  == {s1, s2}
MCNodes    == {n1}
MCPeerNode == [s \in MCStreams |-> n1]
OneStream  == {s2}

=============================================================================
