--------------------------- MODULE MCDomainStream ---------------------------
\* One row, one dialog.
EXTENDS DomainStream

CONSTANTS a, d1, i1, h1, k1, k2, x1, c1
=============================================================================
