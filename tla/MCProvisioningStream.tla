------------------------ MODULE MCProvisioningStream ------------------------
\* Two attempts over one name, two status pages.
EXTENDS ProvisioningStream, TLC

CONSTANTS t1, t2, c1, c2, alpha

MCSymmetry == Permutations({t1, t2}) \cup Permutations({c1, c2})
=============================================================================
