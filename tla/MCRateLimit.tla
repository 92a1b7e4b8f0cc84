---------------------------- MODULE MCRateLimit ----------------------------
\* One key, three overlapping checks, clock up to three windows.
EXTENDS RateLimit, TLC

CONSTANTS k1, c1, c2, c3

MCSymmetry == Permutations(Calls)
=============================================================================
