--------------------------- MODULE DomainRegistry ---------------------------
(***************************************************************************)
(* What the custom domains promise: a domain has one holder at a time, and  *)
(* nothing but its holder's deletion ends that; it is active only while it  *)
(* is held, with its certificate and, if owners must show themselves, after *)
(* they did; and it leads only to a tenant that has held it, once it had    *)
(* its certificate, which the registry never takes back.                    *)
(***************************************************************************)
CONSTANTS Tenants, Domains, NoTenant, NoDomain,
          OwnersShow    \* the owners publish a value in the domain's zone

VARIABLES held,       \* the pairs <<tenant, domain>> that ever were
          holding,    \* those that are
          certified,  \* the domains with a certificate
          shown,      \* the domains whose owners have shown themselves
          active,
          lookup,     \* the tenant a request for a domain goes to
          home        \* the domain a tenant's requests are sent to

vars == <<held, holding, certified, shown, active, lookup, home>>

Known(d) == \E t \in Tenants : <<t, d>> \in held
Taken(d) == \E t \in Tenants : <<t, d>> \in holding
MayLead(t, d) == <<t, d>> \in held /\ d \in certified

Init == /\ held = {} /\ holding = {}
        /\ certified = {} /\ shown = {} /\ active = {}
        /\ lookup = [d \in Domains |-> NoTenant]
        /\ home = [t \in Tenants |-> NoDomain]

Claim(t, d) == /\ ~Taken(d)
               /\ held' = held \cup {<<t, d>>}
               /\ holding' = holding \cup {<<t, d>>}
               /\ UNCHANGED <<certified, shown, active, lookup, home>>

Release(t, d) == /\ <<t, d>> \in holding
                 /\ holding' = holding \ {<<t, d>>}
                 /\ active' = active \ {d}
                 /\ UNCHANGED <<held, certified, shown, lookup, home>>

Certify(d) == /\ Known(d)
              /\ certified' = certified \cup {d}
              /\ UNCHANGED <<held, holding, shown, active, lookup, home>>

Show(d) == /\ Taken(d)
           /\ shown' = shown \cup {d}
           /\ UNCHANGED <<held, holding, certified, active, lookup, home>>

Activate(d) == /\ Taken(d) /\ d \in certified
               /\ OwnersShow => d \in shown
               /\ active' = active \cup {d}
               /\ UNCHANGED <<held, holding, certified, shown, lookup, home>>

Suspend(d) == /\ active' = active \ {d}
              /\ UNCHANGED <<held, holding, certified, shown, lookup, home>>

Lead(t, d) == /\ MayLead(t, d)
              /\ lookup' = [lookup EXCEPT ![d] = t]
              /\ UNCHANGED <<held, holding, certified, shown, active, home>>

\* some entries are removed, all of them when Postgres recovers from a crash
Forget(D) == /\ lookup' = [d \in Domains |-> IF d \in D THEN NoTenant ELSE lookup[d]]
             /\ UNCHANGED <<held, holding, certified, shown, active, home>>

Settle(t, d) == /\ MayLead(t, d)
                /\ home' = [home EXCEPT ![t] = d]
                /\ UNCHANGED <<held, holding, certified, shown, active, lookup>>

Leave(t) == /\ home' = [home EXCEPT ![t] = NoDomain]
            /\ UNCHANGED <<held, holding, certified, shown, active, lookup>>

Next == \/ \E d \in Domains : Suspend(d) \/ Certify(d) \/ Show(d) \/ Activate(d)
        \/ \E t \in Tenants : Leave(t)
        \/ \E t \in Tenants, d \in Domains :
             Settle(t, d) \/ Lead(t, d) \/ Claim(t, d) \/ Release(t, d)
        \/ \E D \in SUBSET Domains : Forget(D)

Spec == Init /\ [][Next]_vars
=============================================================================
