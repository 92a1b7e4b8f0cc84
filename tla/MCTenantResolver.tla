-------------------------- MODULE MCTenantResolver --------------------------
\* Two tenants after one domain, one browser.
EXTENDS TenantResolver, TLC

CONSTANTS a, b, d1, i1, i2, h1, k1, x1, w1

MCSymmetry == Permutations(Tenants) \cup Permutations(Ids)
=============================================================================
