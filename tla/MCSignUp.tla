------------------------------ MODULE MCSignUp ------------------------------
\* Owners with a password each, and one email for all of them or one for each.
EXTENDS Login, TLC

CONSTANTS t1, t2, t3, alpha, beta, www, c1, c2, l1, e1

SharedEmail == [t \in Tenants |-> e1]
OwnEmail == [t \in Tenants |-> t]
OwnPassword == [t \in Tenants |-> t]

MCSymmetry == Permutations(Tenants)
=============================================================================
