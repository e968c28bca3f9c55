---------------------------- MODULE MCHandshake ----------------------------
EXTENDS Handshake

CONSTANTS c1, c2, op, peer

MCKeys == {op, peer}

Good    == issue_ticket(op, peer, 0, 0)
ForSelf == issue_ticket(op, op, 1, 0)
Altered == [Good EXCEPT !.claims.expires_at = 1]
Garbled == [Good EXCEPT !.signature.key = NoKey]

MCTickets    == {Good, ForSelf, Altered, Garbled}
BothConns    == {c1, c2}
OneConn      == {c1}

=============================================================================
