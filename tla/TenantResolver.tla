--------------------------- MODULE TenantResolver ---------------------------
(***************************************************************************)
(* middleware/tenant.rs composed with the custom domains: each request to   *)
(* the host of a tenant or to a custom domain is answered from two caches   *)
(* of the process, which are warmed on a miss.  The tenants are active: a   *)
(* subdomain leads to the same tenant for ever (see Provisioning).          *)
(***************************************************************************)
EXTENDS CustomDomain

CONSTANTS Browsers,     \* bound on the requests resolved at once
          Unknown       \* the cache has no entry

ASSUME ResolverAssumption == Unknown \notin Domains \cup {NoDomain} \cup Tenants

VARIABLES primaryCache, \* primary_domain_cache: a domain, or None (NoDomain)
          hostCache,    \* subdomain_cache, keys custom:<domain>
          req,          \* the requests
          cleared       \* the deletes that have removed the entry, with the row to go

\* what a request leaves alone, whatever it asks for
domainSide == <<vars, cleared>>
resolverVars == <<primaryCache, hostCache, req, cleared>>
allVars == <<vars, resolverVars>>

\* A request that is refused, or served at the tenant's own host, is over
\* without a route to remember: idle again.
Answered == {"idle", "served", "redirected"}
ResolverTypeOK ==
    /\ primaryCache \in [Tenants -> Domains \cup {NoDomain, Unknown}]
    /\ hostCache \in [Domains -> Tenants \cup {Unknown}]
    /\ req \in [Browsers -> [pc : Answered \cup {"lookup", "warm", "lookupHost", "warmHost"},
                             ten : Tenants \cup {NoTenant}, dom : Domains \cup {NoDomain}]]
    /\ cleared \subseteq Handlers

NoAnswer == [pc |-> "idle", ten |-> NoTenant, dom |-> NoDomain]
ColdCaches == /\ primaryCache' = [t \in Tenants |-> Unknown]
              /\ hostCache' = [d \in Domains |-> Unknown]
              /\ req' = [b \in Browsers |-> NoAnswer]
              /\ cleared' = {}

ResolverInit == /\ Init
                /\ primaryCache = [t \in Tenants |-> Unknown]
                /\ hostCache = [d \in Domains |-> Unknown]
                /\ req = [b \in Browsers |-> NoAnswer]
                /\ cleared = {}

-----------------------------------------------------------------------------
(* A tenant's own host: resolve_tenant, path 1, and get_primary_domain *)

Set(b, pc, t, d) == req' = [req EXCEPT ![b] = [pc |-> pc, ten |-> t, dom |-> d]]
AnswerWith(b, t, d) == IF d = NoDomain THEN req' = [req EXCEPT ![b] = NoAnswer]
                                       ELSE Set(b, "redirected", t, d)

AskTenant(b, t) ==
    /\ req[b].pc \in Answered
    /\ IF primaryCache[t] = Unknown THEN Set(b, "lookup", t, NoDomain)
                                    ELSE AnswerWith(b, t, primaryCache[t])
    /\ UNCHANGED <<domainSide, primaryCache, hostCache>>

\* a query that fails is read as None
FreshPrimary(t) == {primary[t]} \cup (IF MayFail THEN {NoDomain} ELSE {})

LookupPrimary(b) ==
    /\ req[b].pc = "lookup"
    /\ \E d \in FreshPrimary(req[b].ten) : Set(b, "warm", req[b].ten, d)
    /\ UNCHANGED <<domainSide, primaryCache, hostCache>>

WarmPrimary(b) ==
    /\ req[b].pc = "warm"
    /\ primaryCache' = [primaryCache EXCEPT ![req[b].ten] = req[b].dom]
    /\ AnswerWith(b, req[b].ten, req[b].dom)
    /\ UNCHANGED <<domainSide, hostCache>>

-----------------------------------------------------------------------------
(* The pages of a tenant's host: root and serve_html go by no cache *)

AskPage(b, t) ==
    /\ req[b].pc \in Answered
    /\ \E d \in FreshPrimary(t) : AnswerWith(b, t, d)
    /\ UNCHANGED <<domainSide, primaryCache, hostCache>>

-----------------------------------------------------------------------------
(* A custom domain: path 2 *)

AskHost(b, d) ==
    /\ req[b].pc \in Answered
    /\ IF hostCache[d] = Unknown THEN Set(b, "lookupHost", NoTenant, d)
                                 ELSE Set(b, "served", hostCache[d], d)
    /\ UNCHANGED <<domainSide, primaryCache, hostCache>>

\* faulty: the status is not asked for ...
RoutedAny(d) == {rows[i].ten : i \in {j \in Ids : Exists(j) /\ rows[j].dom = d}}

\* get_tenant_id_by_custom_domain
Routed(d) == {rows[i].ten : i \in {j \in Ids : rows[j].st = "active" /\ rows[j].dom = d}}

\* faulty: ... or a host that is not found is cached, too
LookupHostCachesNone(b) ==
    /\ req[b].pc = "lookupHost"
    /\ \/ \E t \in Routed(req[b].dom) : Set(b, "warmHost", t, req[b].dom)
       \/ Routed(req[b].dom) = {} /\ Set(b, "warmHost", NoTenant, req[b].dom)
    /\ UNCHANGED <<domainSide, primaryCache, hostCache>>

\* found, or 404, or 500 when the query fails
LookupHost(b) ==
    /\ req[b].pc = "lookupHost"
    /\ \/ \E t \in Routed(req[b].dom) : Set(b, "warmHost", t, req[b].dom)
       \/ (Routed(req[b].dom) = {} \/ MayFail) /\ req' = [req EXCEPT ![b] = NoAnswer]
    /\ UNCHANGED <<domainSide, primaryCache, hostCache>>

WarmHost(b) ==
    /\ req[b].pc = "warmHost"
    /\ hostCache' = [hostCache EXCEPT ![req[b].dom] = req[b].ten]
    /\ Set(b, "served", req[b].ten, req[b].dom)
    /\ UNCHANGED <<domainSide, primaryCache>>

\* axum drops the future of a browser that left
Leave(b) ==
    /\ MayFail
    /\ req[b].pc \notin Answered
    /\ req' = [req EXCEPT ![b] = NoAnswer]
    /\ UNCHANGED <<domainSide, primaryCache, hostCache>>

-----------------------------------------------------------------------------

\* delete_domain, past the UPDATE of the primary domain, removes the entry ...
ClearPrimary(x) ==
    /\ hnd[x].pc = "dropRow" /\ x \notin cleared
    /\ primaryCache' = [primaryCache EXCEPT ![rows[hnd[x].id].ten] = Unknown]
    /\ cleared' = cleared \cup {x}
    /\ UNCHANGED <<vars, hostCache, req>>

\* ... and deletes the row only then; it may be cut short before either
OtherStep == /\ DomainStep
             /\ \A x \in Handlers : DeleteRow(x) => x \in cleared \/ Cancel(x)
             /\ cleared' = {x \in cleared : hnd'[x].pc = "dropRow"}
             /\ UNCHANGED <<primaryCache, hostCache, req>>

ResolveStep(b) == \/ \E t \in Tenants : AskTenant(b, t) \/ AskPage(b, t)
                  \/ LookupPrimary(b) \/ WarmPrimary(b)
                  \/ \E d \in Domains : AskHost(b, d)
                  \/ LookupHost(b) \/ WarmHost(b) \/ Leave(b)

ResolverNext == \/ \E b \in Browsers : ResolveStep(b)
                \/ \E x \in Handlers : ClearPrimary(x)
                \/ OtherStep
                \/ AppCrash /\ ColdCaches
                \/ PgCrash /\ UNCHANGED resolverVars

ResolverSpec == ResolverInit /\ [][ResolverNext]_allVars

-----------------------------------------------------------------------------
(* Properties *)

\* Neither an answer nor a cache entry, however old, leads between a tenant and
\* a domain the tenant never had with a certificate: not while domains are
\* deleted, added by others and verified again between a lookup and its warming.
AnswersEarned ==
    /\ \A b \in Browsers : req[b].pc \in {"served", "redirected"} /\ req[b].dom # NoDomain
                              => Earned(req[b].ten, req[b].dom)
    /\ \A t \in Tenants : primaryCache[t] \in Domains => Earned(t, primaryCache[t])
    /\ \A d \in Domains : hostCache[d] # Unknown => Earned(hostCache[d], d)
=============================================================================
