--------------------------- MODULE MCRateLimiter ---------------------------
EXTENDS RateLimiter, TLC

CONSTANTS t1, t2, n1

MCThreads == {t1, t2}
MCNodes   == {n1}
MCRates   == {0, 1, 3}

Symmetry == Permutations(MCThreads)

=============================================================================
