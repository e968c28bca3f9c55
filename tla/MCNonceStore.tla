---------------------------- MODULE MCNonceStore ----------------------------
EXTENDS NonceStore, TLC

CONSTANTS t1, t2, x1

MCThreads    == {t1, t2}
MCNonces     == {x1}

=============================================================================
