------------------------------ MODULE MCServer ------------------------------
\* Hosts whose keys fall into one shard.
EXTENDS Server, TLC

CONSTANTS r1, r2, r3, p1, p2, s1, s2, s3, a, b, shard

OneShard == [k \in Keys |-> shard]
=============================================================================
