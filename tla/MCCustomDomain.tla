--------------------------- MODULE MCCustomDomain ---------------------------
\* Model values and the symmetry of the sets a run gives more than one of.
EXTENDS CustomDomain, TLC

CONSTANTS a, b, d1, i1, i2, h1, h2, k1, k2, x1, x2

MCSymmetry == Permutations(Tenants) \cup Permutations(Ids) \cup Permutations(Hosts)
                \cup Permutations(Tasks) \cup Permutations(Handlers)
=============================================================================
