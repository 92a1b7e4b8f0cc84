------------------------ MODULE TenantResolver_proofs -----------------------
(***************************************************************************)
(* The tenant resolver: answers and cache entries are earned, for any       *)
(* number of tenants, domains, pipelines and requests.                      *)
(***************************************************************************)
EXTENDS TenantResolver, DomainRows_proofs

(***************************************************************************)
(* A request carries its answer from the query to the cache across any      *)
(* number of steps of the others: what it carries is earned when it is read *)
(* and stays so, as a row keeps its tenant and a domain its certificate.    *)
(***************************************************************************)
Answering == {"warm", "served", "redirected"}

ReqOK(b) ==
    /\ req[b].pc \in {"lookup", "warm"} => req[b].ten \in Tenants
    /\ req[b].pc \in {"lookupHost", "warmHost"} => req[b].dom \in Domains
    /\ req[b].pc \in Answering /\ req[b].dom # NoDomain =>
         req[b].ten \in Tenants /\ Earned(req[b].ten, req[b].dom)
    /\ req[b].pc = "warmHost" =>
         req[b].ten \in Tenants /\ Earned(req[b].ten, req[b].dom)

CachesOK ==
    /\ \A t \in Tenants : primaryCache[t] \in Domains => Earned(t, primaryCache[t])
    /\ \A d \in Domains : hostCache[d] # Unknown => Earned(hostCache[d], d)

RInv == /\ IInv /\ ResolverTypeOK
        /\ \A b \in Browsers : ReqOK(b)
        /\ CachesOK

-----------------------------------------------------------------------------

LEMMA InitResolver == ResolverInit => RInv
<1> SUFFICES ASSUME ResolverInit PROVE RInv
  OBVIOUS
<1>1. IInv
  BY InitInv DEF ResolverInit
<1>2. ResolverTypeOK
  BY DEF ResolverInit, ResolverTypeOK, NoAnswer, Answered
<1>3. \A b \in Browsers : ReqOK(b)
  BY DEF ResolverInit, ReqOK, NoAnswer, Answering
<1>4. CachesOK
  BY ResolverAssumption DEF ResolverInit, CachesOK
<1> QED
  BY <1>1, <1>2, <1>3, <1>4 DEF RInv

LEMMA EarnedStays ==
    ASSUME IInv, Grows, NEW t \in Tenants, NEW d \in Domains, Earned(t, d)
    PROVE  Earned(t, d)'
<1>1. PICK i \in Ids : rows[i].ten = t /\ rows[i].dom = d
  BY DEF Earned
<1>2. rows[i].st # "none"
  BY <1>1, CustomDomainAssumption DEF IInv, RowOK
<1>3. rows'[i].ten = t /\ rows'[i].dom = d
  BY <1>1, <1>2 DEF Grows
<1>4. Certified(d)'
  BY CertifiedGrows DEF Earned, IInv
<1> QED
  BY <1>3, <1>4 DEF Earned

\* What the domains do leaves the requests and what the caches still hold good.
LEMMA DomainsMove ==
    ASSUME RInv, IInv', Grows, req' = req, hostCache' = hostCache,
           primaryCache' \in [Tenants -> Domains \cup {NoDomain, Unknown}],
           \A t \in Tenants : primaryCache'[t] \in {primaryCache[t], Unknown},
           cleared' \subseteq Handlers
    PROVE  RInv'
<1>1. ResolverTypeOK'
  BY DEF RInv, ResolverTypeOK
<1>2. ASSUME NEW b \in Browsers PROVE ReqOK(b)'
  <2>1. /\ ReqOK(b) /\ req'[b] = req[b]
        /\ req[b].dom # NoDomain => req[b].dom \in Domains
    BY DEF RInv, ResolverTypeOK
  <2>2. req[b].ten \in Tenants /\ req[b].dom \in Domains /\ Earned(req[b].ten, req[b].dom)
          => Earned(req[b].ten, req[b].dom)'
    <3> DEFINE t == req[b].ten
               d == req[b].dom
    <3>1. ASSUME NEW u \in Tenants, NEW e \in Domains, Earned(u, e) PROVE Earned(u, e)'
      BY <3>1, EarnedStays DEF RInv
    <3> QED
      BY <2>1, <3>1
  <2> QED
    BY <2>1, <2>2, CustomDomainAssumption DEF ReqOK
<1>3. CachesOK'
  <2>1. ASSUME NEW u \in Tenants, NEW e \in Domains, Earned(u, e) PROVE Earned(u, e)'
    BY <2>1, EarnedStays DEF RInv
  <2>2. /\ \A t \in Tenants : primaryCache'[t] \in Domains => primaryCache[t] = primaryCache'[t]
        /\ \A d \in Domains : hostCache'[d] # Unknown => hostCache[d] \in Tenants
    BY ResolverAssumption DEF RInv, ResolverTypeOK
  <2> QED
    BY <2>1, <2>2 DEF CachesOK, RInv
<1> QED
  BY <1>1, <1>2, <1>3 DEF RInv

-----------------------------------------------------------------------------

\* One request moves on, with what it may carry, and the caches keep to what is
\* earned.
LEMMA OneRequest ==
    ASSUME RInv, UNCHANGED domainSide, NEW b \in Browsers, NEW r,
           r \in [pc : Answered \cup {"lookup", "warm", "lookupHost", "warmHost"},
                  ten : Tenants \cup {NoTenant}, dom : Domains \cup {NoDomain}],
           req' = [req EXCEPT ![b] = r],
           r.pc \in {"lookup", "warm"} => r.ten \in Tenants,
           r.pc \in {"lookupHost", "warmHost"} => r.dom \in Domains,
           r.pc \in Answering /\ r.dom # NoDomain => r.ten \in Tenants /\ Earned(r.ten, r.dom),
           r.pc = "warmHost" => r.ten \in Tenants /\ Earned(r.ten, r.dom),
           primaryCache' \in [Tenants -> Domains \cup {NoDomain, Unknown}],
           hostCache' \in [Domains -> Tenants \cup {Unknown}],
           \A t \in Tenants : primaryCache'[t] \in Domains => Earned(t, primaryCache'[t]),
           \A d \in Domains : hostCache'[d] # Unknown => Earned(hostCache'[d], d)
    PROVE  RInv'
<1>1. IInv'
  BY NextInv DEF RInv, domainSide
<1>2. /\ rows' = rows /\ hosts' = hosts
      /\ req \in [Browsers -> [pc : Answered \cup {"lookup", "warm", "lookupHost", "warmHost"},
                               ten : Tenants \cup {NoTenant}, dom : Domains \cup {NoDomain}]]
      /\ cleared' \subseteq Handlers
  BY DEF domainSide, vars, domainVars, dbVars, envVars, RInv, ResolverTypeOK
<1>3. ResolverTypeOK'
  BY <1>2 DEF ResolverTypeOK
<1>4. ASSUME NEW c \in Browsers PROVE ReqOK(c)'
  <2>1. CASE c = b
    BY <1>2, <2>1 DEF ReqOK, Earned, Certified
  <2>2. CASE c # b
    BY <1>2, <2>2 DEF ReqOK, Earned, Certified, RInv
  <2> QED
    BY <2>1, <2>2
<1>5. CachesOK'
  BY <1>2 DEF CachesOK, Earned, Certified
<1> QED
  BY <1>1, <1>3, <1>4, <1>5 DEF RInv

\* A request that is over carries nothing.
LEMMA RequestOver ==
    ASSUME RInv, UNCHANGED <<domainSide, primaryCache, hostCache>>, NEW b \in Browsers,
           req' = [req EXCEPT ![b] = NoAnswer]
    PROVE  RInv'
<1> DEFINE r == NoAnswer
<1>1. /\ r \in [pc : Answered \cup {"lookup", "warm", "lookupHost", "warmHost"},
                ten : Tenants \cup {NoTenant}, dom : Domains \cup {NoDomain}]
      /\ r.pc = "idle"
  BY DEF NoAnswer, Answered
<1>2. /\ primaryCache' \in [Tenants -> Domains \cup {NoDomain, Unknown}]
      /\ hostCache' \in [Domains -> Tenants \cup {Unknown}]
      /\ \A t \in Tenants : primaryCache'[t] \in Domains => Earned(t, primaryCache'[t])
      /\ \A d \in Domains : hostCache'[d] # Unknown => Earned(hostCache'[d], d)
  BY DEF RInv, ResolverTypeOK, CachesOK
<1> HIDE DEF r
<1>3. req' = [req EXCEPT ![b] = r]
  BY DEF r
<1> QED
  BY <1>1, <1>2, <1>3, OneRequest DEF Answering

\* The same for a step that leaves the caches alone, ...
LEMMA RequestMoves ==
    ASSUME RInv, UNCHANGED <<domainSide, primaryCache, hostCache>>, NEW b \in Browsers,
           NEW pc \in Answered \cup {"lookup", "warm", "lookupHost", "warmHost"},
           NEW t \in Tenants \cup {NoTenant}, NEW d \in Domains \cup {NoDomain},
           Set(b, pc, t, d),
           pc \in {"lookup", "warm"} => t \in Tenants,
           pc \in {"lookupHost", "warmHost"} => d \in Domains,
           pc \in Answering /\ d # NoDomain => t \in Tenants /\ Earned(t, d),
           pc = "warmHost" => t \in Tenants /\ Earned(t, d)
    PROVE  RInv'
<1> DEFINE r == [pc |-> pc, ten |-> t, dom |-> d]
<1>1. /\ r \in [pc : Answered \cup {"lookup", "warm", "lookupHost", "warmHost"},
                ten : Tenants \cup {NoTenant}, dom : Domains \cup {NoDomain}]
      /\ r.pc = pc /\ r.ten = t /\ r.dom = d
      /\ req' = [req EXCEPT ![b] = r]
  BY DEF Set
<1>2. /\ primaryCache' \in [Tenants -> Domains \cup {NoDomain, Unknown}]
      /\ hostCache' \in [Domains -> Tenants \cup {Unknown}]
      /\ \A u \in Tenants : primaryCache'[u] \in Domains => Earned(u, primaryCache'[u])
      /\ \A e \in Domains : hostCache'[e] # Unknown => Earned(hostCache'[e], e)
  BY DEF RInv, ResolverTypeOK, CachesOK
<1> HIDE DEF r
<1> QED
  BY <1>1, <1>2, OneRequest

\* ... and for an answer that is a primary domain or none.
LEMMA RequestAnswered ==
    ASSUME RInv, UNCHANGED <<domainSide, primaryCache, hostCache>>, NEW b \in Browsers,
           NEW t \in Tenants, NEW d \in Domains \cup {NoDomain}, AnswerWith(b, t, d),
           d # NoDomain => Earned(t, d)
    PROVE  RInv'
<1>1. CASE d = NoDomain
  BY <1>1, RequestOver DEF AnswerWith
<1>2. CASE d # NoDomain
  BY <1>2, RequestMoves DEF AnswerWith, Answered
<1> QED
  BY <1>1, <1>2

\* The primary domain a query finds is earned.
LEMMA FreshEarned ==
    ASSUME IInv, NEW t \in Tenants, NEW d \in FreshPrimary(t)
    PROVE  d \in Domains \cup {NoDomain} /\ (d # NoDomain => Earned(t, d))
BY DEF FreshPrimary, IInv, TypeOK, RoutesEarned

\* So is the tenant a custom domain leads to.
LEMMA RoutedEarned ==
    ASSUME IInv, NEW d \in Domains, NEW t \in Routed(d)
    PROVE  t \in Tenants /\ Earned(t, d)
<1>1. PICK i \in Ids : rows[i].ten = t /\ rows[i].st = "active" /\ rows[i].dom = d
  BY DEF Routed
<1> QED
  BY <1>1 DEF IInv, RowOK, Earned

-----------------------------------------------------------------------------

LEMMA AskTenantInv ==
    ASSUME RInv, NEW b \in Browsers, NEW t \in Tenants, AskTenant(b, t)
    PROVE  RInv'
<1>1. UNCHANGED <<domainSide, primaryCache, hostCache>>
  BY DEF AskTenant
<1>2. CASE primaryCache[t] = Unknown
  BY <1>1, <1>2, RequestMoves DEF AskTenant, Answering
<1>3. CASE primaryCache[t] # Unknown
  <2>1. /\ primaryCache[t] \in Domains \cup {NoDomain}
        /\ primaryCache[t] # NoDomain => Earned(t, primaryCache[t])
    BY <1>3 DEF RInv, ResolverTypeOK, CachesOK
  <2> QED
    BY <1>1, <1>3, <2>1, RequestAnswered DEF AskTenant
<1> QED
  BY <1>2, <1>3

LEMMA AskPageInv ==
    ASSUME RInv, NEW b \in Browsers, NEW t \in Tenants, AskPage(b, t)
    PROVE  RInv'
BY FreshEarned, RequestAnswered DEF AskPage, RInv

LEMMA LookupPrimaryInv ==
    ASSUME RInv, NEW b \in Browsers, LookupPrimary(b)
    PROVE  RInv'
<1>1. req[b].ten \in Tenants
  BY DEF LookupPrimary, RInv, ReqOK
<1>2. PICK d \in FreshPrimary(req[b].ten) : Set(b, "warm", req[b].ten, d)
  BY DEF LookupPrimary
<1>3. d \in Domains \cup {NoDomain} /\ (d # NoDomain => Earned(req[b].ten, d))
  BY <1>1, FreshEarned DEF RInv
<1> QED
  BY <1>1, <1>2, <1>3, RequestMoves DEF LookupPrimary

LEMMA WarmPrimaryInv ==
    ASSUME RInv, NEW b \in Browsers, WarmPrimary(b)
    PROVE  RInv'
<1> DEFINE t == req[b].ten
           d == req[b].dom
           r == IF d = NoDomain THEN NoAnswer ELSE [pc |-> "redirected", ten |-> t, dom |-> d]
<1>1. /\ UNCHANGED domainSide /\ hostCache' = hostCache
      /\ t \in Tenants /\ d \in Domains \cup {NoDomain} /\ (d # NoDomain => Earned(t, d))
  BY DEF WarmPrimary, RInv, ResolverTypeOK, ReqOK, Answering
<1>2. /\ r \in [pc : Answered \cup {"lookup", "warm", "lookupHost", "warmHost"},
                ten : Tenants \cup {NoTenant}, dom : Domains \cup {NoDomain}]
      /\ req' = [req EXCEPT ![b] = r]
      /\ r.pc \in {"idle", "redirected"}
      /\ r.dom # NoDomain => r.ten \in Tenants /\ Earned(r.ten, r.dom)
  BY <1>1 DEF WarmPrimary, AnswerWith, Set, NoAnswer, Answered
<1>3. /\ primaryCache' = [primaryCache EXCEPT ![t] = d]
      /\ primaryCache \in [Tenants -> Domains \cup {NoDomain, Unknown}]
      /\ hostCache' \in [Domains -> Tenants \cup {Unknown}]
      /\ \A u \in Tenants : primaryCache[u] \in Domains => Earned(u, primaryCache[u])
      /\ \A e \in Domains : hostCache'[e] # Unknown => Earned(hostCache'[e], e)
  BY <1>1 DEF WarmPrimary, RInv, ResolverTypeOK, CachesOK
<1> HIDE DEF t, d, r
<1>4. /\ primaryCache' \in [Tenants -> Domains \cup {NoDomain, Unknown}]
      /\ \A u \in Tenants : primaryCache'[u] \in Domains => Earned(u, primaryCache'[u])
  BY <1>1, <1>3, CustomDomainAssumption
<1> QED
  BY <1>1, <1>2, <1>3, <1>4, OneRequest

LEMMA AskHostInv ==
    ASSUME RInv, NEW b \in Browsers, NEW d \in Domains, AskHost(b, d)
    PROVE  RInv'
<1>1. UNCHANGED <<domainSide, primaryCache, hostCache>>
  BY DEF AskHost
<1>2. CASE hostCache[d] = Unknown
  BY <1>1, <1>2, RequestMoves DEF AskHost, Answering
<1>3. CASE hostCache[d] # Unknown
  <2>1. hostCache[d] \in Tenants /\ Earned(hostCache[d], d)
    BY <1>3 DEF RInv, ResolverTypeOK, CachesOK
  <2> QED
    BY <1>1, <1>3, <2>1, RequestMoves DEF AskHost, Answered
<1> QED
  BY <1>2, <1>3

LEMMA LookupHostInv ==
    ASSUME RInv, NEW b \in Browsers, LookupHost(b)
    PROVE  RInv'
<1>1. UNCHANGED <<domainSide, primaryCache, hostCache>> /\ req[b].dom \in Domains
  BY DEF LookupHost, RInv, ReqOK
<1>2. ASSUME NEW t \in Routed(req[b].dom), Set(b, "warmHost", t, req[b].dom)
      PROVE  RInv'
  <2>1. t \in Tenants /\ Earned(t, req[b].dom)
    BY <1>1, RoutedEarned DEF RInv
  <2> QED
    BY <1>1, <1>2, <2>1, RequestMoves DEF Answering
<1> QED
  BY <1>1, <1>2, RequestOver DEF LookupHost

LEMMA WarmHostInv ==
    ASSUME RInv, NEW b \in Browsers, WarmHost(b)
    PROVE  RInv'
<1> DEFINE t == req[b].ten
           d == req[b].dom
           r == [pc |-> "served", ten |-> t, dom |-> d]
<1>1. /\ UNCHANGED domainSide /\ primaryCache' = primaryCache
      /\ t \in Tenants /\ d \in Domains /\ Earned(t, d)
  BY DEF WarmHost, RInv, ReqOK
<1>2. /\ r \in [pc : Answered \cup {"lookup", "warm", "lookupHost", "warmHost"},
                ten : Tenants \cup {NoTenant}, dom : Domains \cup {NoDomain}]
      /\ req' = [req EXCEPT ![b] = r]
      /\ r.pc = "served" /\ r.ten = t /\ r.dom = d
  BY <1>1 DEF WarmHost, Set, Answered
<1>3. /\ hostCache' = [hostCache EXCEPT ![d] = t]
      /\ hostCache \in [Domains -> Tenants \cup {Unknown}]
      /\ primaryCache' \in [Tenants -> Domains \cup {NoDomain, Unknown}]
      /\ \A u \in Tenants : primaryCache'[u] \in Domains => Earned(u, primaryCache'[u])
      /\ \A e \in Domains : hostCache[e] # Unknown => Earned(hostCache[e], e)
  BY <1>1 DEF WarmHost, RInv, ResolverTypeOK, CachesOK
<1> HIDE DEF t, d, r
<1>4. /\ hostCache' \in [Domains -> Tenants \cup {Unknown}]
      /\ \A e \in Domains : hostCache'[e] # Unknown => Earned(hostCache'[e], e)
  BY <1>1, <1>3
<1> QED
  BY <1>1, <1>2, <1>3, <1>4, OneRequest

LEMMA ClearPrimaryInv ==
    ASSUME RInv, NEW x \in Handlers, ClearPrimary(x)
    PROVE  RInv'
<1>1. IInv' /\ Grows
  BY NextInv, NextGrows DEF ClearPrimary, RInv
<1>2. /\ primaryCache' \in [Tenants -> Domains \cup {NoDomain, Unknown}]
      /\ \A t \in Tenants : primaryCache'[t] \in {primaryCache[t], Unknown}
      /\ req' = req /\ hostCache' = hostCache /\ cleared' \subseteq Handlers
  BY DEF ClearPrimary, RInv, ResolverTypeOK
<1> QED
  BY <1>1, <1>2, DomainsMove

\* The process restarts with cold caches.
LEMMA RestartInv ==
    ASSUME RInv, AppCrash, ColdCaches
    PROVE  RInv'
<1>1. IInv'
  BY NextInv DEF RInv, DomainNext
<1>2. ResolverTypeOK'
  BY DEF ColdCaches, ResolverTypeOK, NoAnswer, Answered
<1>3. \A b \in Browsers : ReqOK(b)'
  BY DEF ColdCaches, ReqOK, NoAnswer, Answering
<1>4. CachesOK'
  BY ResolverAssumption DEF ColdCaches, CachesOK
<1> QED
  BY <1>1, <1>2, <1>3, <1>4 DEF RInv

LEMMA NextResolver ==
    ASSUME RInv, [ResolverNext]_allVars
    PROVE  RInv'
<1>1. ASSUME UNCHANGED <<primaryCache, hostCache, req>>, cleared' \subseteq cleared, [DomainNext]_vars
      PROVE  RInv'
  <2>1. IInv' /\ Grows
    BY <1>1, NextInv, NextGrows DEF RInv
  <2>2. /\ primaryCache' = primaryCache /\ hostCache' = hostCache /\ req' = req
        /\ primaryCache \in [Tenants -> Domains \cup {NoDomain, Unknown}]
        /\ cleared' \subseteq Handlers
    BY <1>1 DEF RInv, ResolverTypeOK
  <2> QED
    BY <2>1, <2>2, DomainsMove
<1>2. ASSUME NEW b \in Browsers, ResolveStep(b)
      PROVE  RInv'
  <2>1. CASE Leave(b)
    BY <2>1, RequestOver DEF Leave
  <2> QED
    BY <1>2, <2>1, AskTenantInv, AskPageInv, LookupPrimaryInv, WarmPrimaryInv, AskHostInv,
       LookupHostInv, WarmHostInv DEF ResolveStep
<1>3. CASE OtherStep
  BY <1>1, <1>3 DEF OtherStep, DomainNext
<1>4. CASE PgCrash /\ UNCHANGED resolverVars
  BY <1>1, <1>4 DEF DomainNext, resolverVars
<1>5. CASE UNCHANGED allVars
  BY <1>1, <1>5 DEF allVars, resolverVars
<1> QED
  BY <1>2, <1>3, <1>4, <1>5, ClearPrimaryInv, RestartInv DEF ResolverNext

-----------------------------------------------------------------------------

THEOREM ResolverInvariance == ResolverSpec => []RInv
<1>1. RInv /\ [ResolverNext]_allVars => RInv'
  BY NextResolver
<1> QED
  BY <1>1, InitResolver, PTL DEF ResolverSpec

\* The caches and the requests keep their types.
THEOREM ResolverTypeCorrect == ResolverSpec => []ResolverTypeOK
<1>1. RInv => ResolverTypeOK
  BY DEF RInv
<1> QED
  BY <1>1, ResolverInvariance, PTL

\* No answer and no cache entry of resolve_tenant, however stale, leads between a
\* tenant and a domain the tenant never had with a certificate.
THEOREM AnswersCorrect == ResolverSpec => []AnswersEarned
<1>1. RInv => AnswersEarned
  BY DEF RInv, ReqOK, CachesOK, Answering, AnswersEarned
<1> QED
  BY <1>1, ResolverInvariance, PTL

-----------------------------------------------------------------------------
(* What is proved of the domains holds with the resolver running beside them *)

LEMMA ResolverLetsBe == [ResolverNext]_allVars => [DomainNext]_vars
<1> SUFFICES ASSUME [ResolverNext]_allVars PROVE [DomainNext]_vars
  OBVIOUS
<1>1. ASSUME NEW b \in Browsers, ResolveStep(b) PROVE UNCHANGED vars
  BY <1>1 DEF ResolveStep, AskTenant, AskPage, LookupPrimary, WarmPrimary, AskHost,
              LookupHost, WarmHost, Leave, domainSide
<1>2. ASSUME NEW x \in Handlers, ClearPrimary(x) PROVE UNCHANGED vars
  BY <1>2 DEF ClearPrimary
<1> QED
  BY <1>1, <1>2 DEF ResolverNext, OtherStep, DomainNext, allVars

THEOREM ResolverKeepsDomains == ResolverSpec => Spec
<1>1. ResolverInit => Init
  BY DEF ResolverInit
<1> QED
  BY <1>1, ResolverLetsBe, PTL DEF ResolverSpec, Spec

\* The domains implement DomainRegistry with the middleware beside them, whose
\* cache a delete clears before its last statement.
THEOREM ResolverImplements == ResolverSpec => ImplementsRegistry
BY ResolverKeepsDomains, ImplementsTheRegistry, PTL
=============================================================================
