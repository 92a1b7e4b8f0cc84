------------------------- MODULE SubdomainDirectory -------------------------
(***************************************************************************)
(* What sign-up promises about names: a name goes to one tenant at most     *)
(* ("subdomain already taken" for every other), is never taken back, and    *)
(* once it is served it stays served.                                       *)
(***************************************************************************)
CONSTANTS Tenants, Subdomains

VARIABLES claims,   \* the pairs <<name, tenant>> that hold
          served    \* those whose name resolves to the tenant

Init == claims = {} /\ served = {}

Claim(s, t) == /\ \A p \in claims : p[1] # s /\ p[2] # t
               /\ claims' = claims \cup {<<s, t>>}
               /\ UNCHANGED served

Serve(s, t) == /\ <<s, t>> \in claims
               /\ served' = served \cup {<<s, t>>}
               /\ UNCHANGED claims

Next == \E s \in Subdomains, t \in Tenants : Claim(s, t) \/ Serve(s, t)

Spec == Init /\ [][Next]_<<claims, served>>
=============================================================================
