---------------------------- MODULE Login_proofs ----------------------------
(***************************************************************************)
(* Sign-up, the status pages and login together, for any number of each.    *)
(* Every step of the composition is a step of sign-up or leaves it alone,   *)
(* so that what Provisioning_proofs shows of sign-up holds here.            *)
(***************************************************************************)
EXTENDS Login, Provisioning_proofs

\* What the last statement of a task, still to come, will tell is true already ...
Announced == \A t \in Tenants : prov[t] = "notify" => tenant[t] = "active"

\* ... and so is what a page has been told, or will be when it reads its inbox.
PagesOK ==
    \A c \in Clients :
        /\ cpc[c] \in {"checked", "open"} => watch[c] \in Tenants
        /\ listening[c] # NoChannel => cpc[c] = "open" /\ listening[c] = watch[c]
        /\ inbox[c] # <<>> => listening[c] \in Tenants /\ tenant[listening[c]] = "active"
        /\ cpc[c] = "done" => watch[c] \in Tenants /\ tenant[watch[c]] = "active"

\* A login that found its user stands by what it found.
LoginsOK ==
    \A l \in Logins :
        /\ lpc[l] # "idle" => creds[l] \in Emails \X Passwords
        /\ lpc[l] \in {"valid", "granted"} =>
             /\ user[l] \in Tenants /\ tenant[user[l]] = "active"
             /\ creds[l] = <<EmailOf[user[l]], PasswordOf[user[l]]>>
        /\ lpc[l] = "granted" => SessionsOf(user[l]) # {}

LInv == IInv /\ Announced /\ StreamTypeOK /\ PagesOK /\ LoginTypeOK /\ LoginsOK

-----------------------------------------------------------------------------

LEMMA LoginInitInv == LoginInit => LInv
<1> SUFFICES ASSUME LoginInit PROVE LInv
  OBVIOUS
<1>1. IInv
  BY InitInv DEF LoginInit, StreamInit
<1>2. Announced /\ StreamTypeOK /\ PagesOK
  BY ProvisioningAssumption
     DEF LoginInit, StreamInit, Init, NotifyInit, Announced, StreamTypeOK, PagesOK
<1>3. LoginTypeOK /\ LoginsOK
  BY DEF LoginInit, LoginTypeOK, LoginsOK
<1> QED
  BY <1>1, <1>2, <1>3 DEF LInv

\* Every step of the composition is a step of sign-up, or leaves it alone.
LEMMA SignsUp ==
    ASSUME [LoginNext]_signUpVars
    PROVE  ProvNext \/ UNCHANGED provVars
BY DEF LoginNext, SignUpMoves, DatabaseCrash, ServerCrash, ProcessCrash, ClientStep, CheckStatus,
       StreamStep, Subscribe, Forward, Relisten, StreamFails, ListenerLost, StreamEnds, LoginAsk,
       LoginStep, NotFound, FindUser, StoreSession, LoginCut, ProvNext, signUpVars, allVars, vars

\* An active tenant stays active.
LEMMA StaysActive ==
    ASSUME IInv, ProvNext \/ UNCHANGED provVars,
           NEW t \in Tenants, tenant[t] = "active"
    PROVE  tenant'[t] = "active"
<1>1. ASSUME NEW u \in Tenants, SignUpStep(u) PROVE tenant'[t] = "active"
  <2>1. CASE InsertTenant(u) \/ Activate(u)
    BY <2>1 DEF InsertTenant, Activate, IInv, TypeOK, Progress
  <2>2. CASE ~(InsertTenant(u) \/ Activate(u))
    BY <1>1, <2>2 DEF SignUpStep, HandlerStep, TaskStep, Submit, InsertUser, Spawn, Abort, CreateDns,
                      WarmKv, NotifyDone, DnsReplyLost, TaskFails
  <2> QED
    BY <2>1, <2>2
<1> QED
  BY <1>1 DEF ProvNext, AppCrash, PgCrash, provVars

\* A task comes to its last statement by marking its tenant active.
LEMMA AnnouncedInv ==
    ASSUME IInv, Announced, ProvNext \/ UNCHANGED provVars
    PROVE  Announced'
<1>1. ASSUME NEW t \in Tenants, SignUpStep(t), NEW u \in Tenants, prov'[u] = "notify"
      PROVE  tenant'[u] = "active"
  <2>1. CASE Activate(t) /\ u = t
    BY <2>1 DEF Activate, IInv, TypeOK
  <2>2. prov[u] = "notify" \/ (Activate(t) /\ u = t)
    BY <1>1 DEF SignUpStep, HandlerStep, TaskStep, Submit, InsertTenant, InsertUser, Spawn, Abort,
                CreateDns, WarmKv, Activate, NotifyDone, DnsReplyLost, TaskFails, IInv, TypeOK
  <2> QED
    BY <1>1, <2>1, <2>2, StaysActive DEF Announced, ProvNext
<1>2. CASE AppCrash \/ PgCrash \/ UNCHANGED provVars
  BY <1>2 DEF AppCrash, PgCrash, provVars, Announced
<1> QED
  BY <1>1, <1>2 DEF ProvNext, Announced

\* A step of sign-up tells the truth, or nothing, to those who listen.
LEMMA Tells ==
    ASSUME ProvNext
    PROVE  \/ UNCHANGED notifyVars \/ DropSessions
           \/ \E t \in Tenants : prov[t] = "notify" /\ Notify(t, "done")
BY DEF ProvNext, SignUpStep, HandlerStep, TaskStep, Submit, InsertTenant, InsertUser, Spawn, Abort,
       CreateDns, WarmKv, Activate, NotifyDone, DnsReplyLost, TaskFails, AppCrash, PgCrash

-----------------------------------------------------------------------------
(* One lemma per kind of step *)

\* What a restart of the process does to pages and logins
PagesCut == /\ DropSessions
            /\ cpc' = [c \in Clients |-> IF cpc[c] \in {"checked", "open"} THEN "idle" ELSE cpc[c]]
LoginsCut == /\ UNCHANGED <<creds, user, sessions>>
             /\ lpc' = [l \in Logins |-> IF lpc[l] \in {"asked", "valid"} THEN "cut" ELSE lpc[l]]

\* The pages while sign-up moves, or the database or the process restarts
LEMMA PagesWait ==
    ASSUME LInv, ProvNext, UNCHANGED watch, UNCHANGED cpc \/ PagesCut
    PROVE  StreamTypeOK' /\ PagesOK'
<1> USE DEF LInv
<1>0. /\ StreamTypeOK'
      /\ \A c \in Clients : cpc'[c] = cpc[c] \/ (cpc'[c] = "idle" /\ DropSessions)
  BY DEF PagesCut, StreamTypeOK
<1>1. \A t \in Tenants : tenant[t] = "active" => tenant'[t] = "active"
  BY StaysActive
<1>2. CASE DropSessions
  BY <1>0, <1>1, <1>2 DEF DropSessions, PagesOK
<1>3. CASE UNCHANGED notifyVars /\ ~DropSessions
  BY <1>0, <1>1, <1>3 DEF notifyVars, PagesOK
<1>4. ASSUME NEW t \in Tenants, prov[t] = "notify", Notify(t, "done"), ~DropSessions
      PROVE  PagesOK'
  <2>1. tenant'[t] = "active"
    BY <1>1, <1>4 DEF Announced
  <2> QED
    BY <1>0, <1>1, <1>4, <2>1 DEF Notify, PagesOK
<1> QED
  BY <1>0, <1>2, <1>3, <1>4, Tells

\* A session that is opened or closed keeps the types of the notifications.
LEMMA ListenType ==
    ASSUME TypeOK, NEW c \in Clients, NEW ch \in Channels \cup {NoChannel}, Listen(c, ch)
    PROVE  /\ listening' \in [Clients -> Channels \cup {NoChannel}]
           /\ inbox' \in [Clients -> Seq({"done"})]
           /\ \A d \in Clients : IF d = c THEN listening'[d] = ch /\ inbox'[d] = <<>>
                                          ELSE listening'[d] = listening[d] /\ inbox'[d] = inbox[d]
BY DEF TypeOK, Listen

\* The steps of a page leave sign-up alone, ...
LEMMA ClientKeeps ==
    ASSUME LInv, NEW c \in Clients, ClientStep(c)
    PROVE  UNCHANGED provVars /\ IInv'
<1> USE DEF LInv
<1>1. UNCHANGED provVars
  BY DEF ClientStep, CheckStatus, StreamStep, Subscribe, Forward, Relisten, StreamFails, ListenerLost,
         StreamEnds, vars
<1>2. \/ UNCHANGED notifyVars
      \/ \E ch \in Channels \cup {NoChannel} : Listen(c, ch)
  BY ProvisioningAssumption
     DEF ClientStep, CheckStatus, StreamStep, Subscribe, Forward, Relisten, StreamFails, ListenerLost,
         StreamEnds, Unlisten, vars, PagesOK
<1>3. /\ listening' \in [Clients -> Channels \cup {NoChannel}]
      /\ inbox' \in [Clients -> Seq({"done"})]
  BY <1>2, ListenType DEF IInv, TypeOK, notifyVars
<1> QED
  BY <1>1, <1>3 DEF provVars, IInv, TypeOK, Progress, UniqueNames, Rows, DnsInv, DnsReady, KvInv,
                    NoOrphanDns

\* ... and know what they show.
LEMMA ClientInv ==
    ASSUME LInv, NEW c \in Clients, ClientStep(c)
    PROVE  StreamTypeOK' /\ PagesOK'
<1> USE DEF LInv
<1>0. tenant' = tenant /\ TypeOK
  BY ClientKeeps DEF provVars, IInv
<1>1. ASSUME NEW t \in Tenants, CheckStatus(c, t)
      PROVE  StreamTypeOK' /\ PagesOK'
  <2>1. Answer(t) \in {"refused", "done", "failed", "checked"}
        /\ (Answer(t) = "done" => tenant[t] = "active")
    BY <1>0 DEF Answer, TypeOK
  <2>2. UNCHANGED notifyVars
    BY <1>1 DEF CheckStatus, vars
  <2>3. cpc[c] = "idle" /\ cpc' = [cpc EXCEPT ![c] = Answer(t)] /\ watch' = [watch EXCEPT ![c] = t]
    BY <1>1 DEF CheckStatus
  <2> HIDE <1>1
  <2>4. StreamTypeOK'
    BY <2>1, <2>3 DEF StreamTypeOK
  <2>5. PagesOK'
    BY <1>0, <2>1, <2>2, <2>3 DEF StreamTypeOK, PagesOK, notifyVars
  <2> QED
    BY <2>4, <2>5
<1>2. ASSUME StreamFails(c)
      PROVE  StreamTypeOK' /\ PagesOK'
  BY <1>0, <1>2 DEF StreamFails, StreamTypeOK, PagesOK, vars, notifyVars
<1>3. ASSUME Subscribe(c) \/ Relisten(c)
      PROVE  StreamTypeOK' /\ PagesOK'
  <2>1. watch[c] \in Tenants /\ Listen(c, watch[c])
    BY <1>3 DEF Subscribe, Relisten, PagesOK
  <2>2. StreamTypeOK' /\ watch' = watch /\ cpc' = [cpc EXCEPT ![c] = "open"]
    BY <1>3 DEF Subscribe, Relisten, StreamTypeOK, streamVars
  <2>3. \A d \in Clients : IF d = c THEN listening'[d] = watch[c] /\ inbox'[d] = <<>>
                                    ELSE listening'[d] = listening[d] /\ inbox'[d] = inbox[d]
    BY <1>0, <2>1, ListenType, ProvisioningAssumption
  <2> QED
    BY <1>0, <2>1, <2>2, <2>3 DEF StreamTypeOK, PagesOK
<1>4. ASSUME Forward(c)
      PROVE  StreamTypeOK' /\ PagesOK'
  <2>1. watch[c] \in Tenants /\ tenant[watch[c]] = "active"
    BY <1>0, <1>4, ProvisioningAssumption, PgNotifyAssumption DEF Forward, PagesOK
  <2>2. Listen(c, NoChannel) /\ watch' = watch /\ cpc' = [cpc EXCEPT ![c] = "done"]
    BY <1>4 DEF Forward, Unlisten
  <2>3. \A d \in Clients : IF d = c THEN listening'[d] = NoChannel /\ inbox'[d] = <<>>
                                    ELSE listening'[d] = listening[d] /\ inbox'[d] = inbox[d]
    BY <1>0, <2>1, <2>2, ListenType
  <2>4. StreamTypeOK'
    BY <2>2 DEF StreamTypeOK
  <2>5. PagesOK'
    BY <1>0, <2>1, <2>2, <2>3 DEF StreamTypeOK, PagesOK
  <2> QED
    BY <2>4, <2>5
<1>5. ASSUME ListenerLost(c) \/ StreamEnds(c)
      PROVE  StreamTypeOK' /\ PagesOK'
  <2>1. Listen(c, NoChannel) /\ watch' = watch /\ cpc' \in {cpc, [cpc EXCEPT ![c] = "idle"]}
    BY <1>5 DEF ListenerLost, StreamEnds, Unlisten, streamVars
  <2>2. \A d \in Clients : IF d = c THEN listening'[d] = NoChannel /\ inbox'[d] = <<>>
                                    ELSE listening'[d] = listening[d] /\ inbox'[d] = inbox[d]
    BY <1>0, <2>1, ListenType
  <2>3. StreamTypeOK'
    BY <2>1 DEF StreamTypeOK
  <2>4. PagesOK'
    BY <1>0, <2>1, <2>2 DEF StreamTypeOK, PagesOK
  <2> QED
    BY <2>3, <2>4
<1> QED
  BY <1>1, <1>2, <1>3, <1>4, <1>5 DEF ClientStep, StreamStep

\* The logins while the rest moves, or the process restarts
LEMMA LoginsWait ==
    ASSUME LInv, ProvNext \/ UNCHANGED provVars,
           UNCHANGED loginVars \/ LoginsCut
    PROVE  LoginTypeOK' /\ LoginsOK'
<1>1. \A t \in Tenants : tenant[t] = "active" => tenant'[t] = "active"
  BY StaysActive DEF LInv
<1>2. /\ UNCHANGED <<creds, user, sessions>>
      /\ \A l \in Logins : lpc'[l] = lpc[l] \/ (lpc'[l] = "cut" /\ lpc[l] # "idle")
  BY DEF LInv, LoginTypeOK, loginVars, LoginsCut
<1>3. LoginTypeOK'
  BY DEF LInv, LoginTypeOK, loginVars, LoginsCut
<1>4. LoginsOK'
  BY <1>1, <1>2 DEF LInv, LoginsOK, SessionsOf
<1> QED
  BY <1>3, <1>4

\* What is stored stays stored, and a session stored is found.
LEMMA AppendSession ==
    ASSUME sessions \in Seq(Tenants), NEW t \in Tenants, sessions' = Append(sessions, t)
    PROVE  /\ sessions' \in Seq(Tenants)
           /\ SessionsOf(t)' # {}
           /\ \A u \in Tenants : SessionsOf(u) # {} => SessionsOf(u)' # {}
BY DEF SessionsOf

\* The steps of a login leave the rest alone, ...
LEMMA LoginKeeps ==
    ASSUME LInv, NEW l \in Logins,
           (\E e \in Emails, p \in Passwords : LoginAsk(l, e, p)) \/ LoginStep(l) \/ LoginCut(l)
    PROVE  UNCHANGED allVars /\ IInv' /\ Announced' /\ StreamTypeOK' /\ PagesOK'
<1>1. UNCHANGED allVars
  BY DEF LoginAsk, LoginStep, NotFound, FindUser, StoreSession, LoginCut
<1> QED
  BY <1>1 DEF LInv, allVars, vars, streamVars, provVars, notifyVars, IInv, TypeOK, Progress,
              UniqueNames, Rows, DnsInv, DnsReady, KvInv, NoOrphanDns, Announced, StreamTypeOK, PagesOK

\* ... and stand by what they find.
LEMMA LoginStepInv ==
    ASSUME LInv, NEW l \in Logins,
           (\E e \in Emails, p \in Passwords : LoginAsk(l, e, p)) \/ LoginStep(l) \/ LoginCut(l)
    PROVE  LoginTypeOK' /\ LoginsOK'
<1> USE DEF LInv
<1>0. tenant' = tenant
  BY LoginKeeps DEF allVars, vars, provVars
<1>1. ASSUME NEW e \in Emails, NEW p \in Passwords, LoginAsk(l, e, p)
      PROVE  LoginTypeOK' /\ LoginsOK'
  BY <1>0, <1>1 DEF LoginAsk, LoginTypeOK, LoginsOK, SessionsOf
<1>2. ASSUME NotFound(l)
      PROVE  LoginTypeOK' /\ LoginsOK'
  BY <1>0, <1>2 DEF NotFound, LoginTypeOK, LoginsOK, SessionsOf
<1>3. ASSUME FindUser(l)
      PROVE  LoginTypeOK' /\ LoginsOK'
  <2>1. PICK t \in Tenants :
          /\ tenant[t] = "active" /\ EmailOf[t] = creds[l][1]
          /\ user' = [user EXCEPT ![l] = t]
          /\ lpc' = [lpc EXCEPT ![l] = IF PasswordOf[t] = creds[l][2] THEN "valid" ELSE "refused"]
    BY <1>3 DEF FindUser, Named
  <2>2. lpc[l] = "asked" /\ UNCHANGED <<creds, sessions>>
    BY <1>3 DEF FindUser
  <2>3. PasswordOf[t] = creds[l][2] => creds[l] = <<EmailOf[t], PasswordOf[t]>>
    BY <2>1, <2>2 DEF LoginsOK
  <2>4. LoginTypeOK'
    BY <2>1, <2>2 DEF LoginTypeOK
  <2>5. LoginsOK'
    BY <1>0, <2>1, <2>2, <2>3 DEF LoginTypeOK, LoginsOK, SessionsOf
  <2> QED
    BY <2>4, <2>5
<1>4. ASSUME StoreSession(l)
      PROVE  LoginTypeOK' /\ LoginsOK'
  <2>1. /\ lpc[l] = "valid" /\ UNCHANGED <<creds, user>>
        /\ sessions' = Append(sessions, user[l]) /\ lpc' = [lpc EXCEPT ![l] = "granted"]
    BY <1>4 DEF StoreSession
  <2>2. /\ sessions' \in Seq(Tenants) /\ SessionsOf(user[l])' # {}
        /\ \A u \in Tenants : SessionsOf(u) # {} => SessionsOf(u)' # {}
    BY <2>1, AppendSession DEF LoginsOK, LoginTypeOK
  <2>3. LoginTypeOK'
    BY <2>1, <2>2 DEF LoginTypeOK
  <2>4. \A m \in Logins : lpc'[m] = "granted" => SessionsOf(user[m])' # {}
    BY <2>1, <2>2 DEF LoginsOK, LoginTypeOK
  <2>5. LoginsOK'
    BY <1>0, <2>1, <2>4 DEF LoginsOK, LoginTypeOK, SessionsOf
  <2> QED
    BY <2>3, <2>5
<1>5. ASSUME LoginCut(l)
      PROVE  LoginTypeOK' /\ LoginsOK'
  <2>1. /\ lpc[l] # "idle" /\ UNCHANGED <<creds, user>> /\ lpc' = [lpc EXCEPT ![l] = "cut"]
        /\ \/ UNCHANGED sessions
           \/ user[l] \in Tenants /\ sessions' = Append(sessions, user[l])
    BY <1>5 DEF LoginCut, LoginsOK
  <2>2. /\ sessions' \in Seq(Tenants)
        /\ \A u \in Tenants : SessionsOf(u) # {} => SessionsOf(u)' # {}
    BY <2>1, AppendSession DEF LoginTypeOK, SessionsOf
  <2>3. LoginTypeOK'
    BY <2>1, <2>2 DEF LoginTypeOK
  <2>4. \A m \in Logins : lpc'[m] = "granted" => SessionsOf(user[m])' # {}
    BY <2>1, <2>2 DEF LoginsOK, LoginTypeOK
  <2>5. LoginsOK'
    BY <1>0, <2>1, <2>4 DEF LoginsOK, LoginTypeOK, SessionsOf
  <2> QED
    BY <2>3, <2>5
<1> QED
  BY <1>1, <1>2, <1>3, <1>4, <1>5 DEF LoginStep

-----------------------------------------------------------------------------

LEMMA SignUpInv ==
    ASSUME LInv, ProvNext, UNCHANGED watch,
           UNCHANGED cpc \/ PagesCut, UNCHANGED loginVars \/ LoginsCut
    PROVE  LInv'
<1>1. IInv' /\ Announced'
  BY NextInv, AnnouncedInv DEF LInv
<1>2. StreamTypeOK' /\ PagesOK'
  BY PagesWait
<1>3. LoginTypeOK' /\ LoginsOK'
  BY LoginsWait
<1> QED
  BY <1>1, <1>2, <1>3 DEF LInv

LEMMA LoginNextInv == LInv /\ [LoginNext]_signUpVars => LInv'
<1> SUFFICES ASSUME LInv, [LoginNext]_signUpVars PROVE LInv'
  OBVIOUS
<1>1. CASE (SignUpMoves \/ DatabaseCrash) /\ UNCHANGED loginVars
  <2>1. ProvNext /\ UNCHANGED cpc /\ UNCHANGED watch
    BY <1>1 DEF SignUpMoves, DatabaseCrash, ProvNext, streamVars
  <2> QED
    BY <1>1, <2>1, SignUpInv
<1>2. CASE ServerCrash
  <2>1. ProvNext /\ PagesCut /\ UNCHANGED watch /\ LoginsCut
    BY <1>2 DEF ServerCrash, ProcessCrash, AppCrash, ProvNext, PagesCut, LoginsCut
  <2> QED
    BY <2>1, SignUpInv
<1>3. ASSUME NEW c \in Clients, ClientStep(c), UNCHANGED loginVars
      PROVE  LInv'
  <2>1. UNCHANGED provVars /\ IInv' /\ StreamTypeOK' /\ PagesOK'
    BY <1>3, ClientKeeps, ClientInv
  <2>2. Announced' /\ LoginTypeOK' /\ LoginsOK'
    BY <1>3, <2>1, AnnouncedInv, LoginsWait DEF LInv
  <2> QED
    BY <2>1, <2>2 DEF LInv
<1>4. ASSUME NEW l \in Logins,
             (\E e \in Emails, p \in Passwords : LoginAsk(l, e, p)) \/ LoginStep(l) \/ LoginCut(l)
      PROVE  LInv'
  BY <1>4, LoginKeeps, LoginStepInv DEF LInv
<1>5. CASE UNCHANGED signUpVars
  BY <1>5 DEF signUpVars, allVars, vars, streamVars, provVars, notifyVars, loginVars, LInv, IInv,
              TypeOK, Progress, UniqueNames, Rows, DnsInv, DnsReady, KvInv, NoOrphanDns, Announced,
              StreamTypeOK, PagesOK, LoginTypeOK, LoginsOK, SessionsOf
<1> QED
  BY <1>1, <1>2, <1>3, <1>4, <1>5 DEF LoginNext

\* Every reachable state of sign-up, pages and logins satisfies the invariant.
THEOREM LoginInvariance == LoginSpec => []LInv
BY LoginInitInv, LoginNextInv, PTL DEF LoginSpec

\* The types hold in the composition: of sign-up, of the pages, and of login.
THEOREM LoginTypeCorrect == LoginSpec => [](TypeOK /\ StreamTypeOK /\ LoginTypeOK)
BY LoginInvariance, PTL DEF LInv, IInv

\* The pages, their sessions and what they show keep their types, whatever
\* restarts and disconnections cut short.
THEOREM PagesTypeCorrect == LoginSpec => []StreamTypeOK
BY LoginInvariance, PTL DEF LInv

\* A page that shows "done" follows a tenant that is served and has its owner.
THEOREM DoneCorrect == LoginSpec => []DoneIsTrue
<1>1. LInv => DoneIsTrue
  BY DEF LInv, PagesOK, IInv, Progress, DoneIsTrue, Resolved
<1> QED
  BY <1>1, LoginInvariance, PTL

\* A token is for an owner who brought the right password to a served tenant.
THEOREM TokensBacked == LoginSpec => []TokenIsBacked
<1>1. LInv => TokenIsBacked
  BY DEF LInv, LoginsOK, IInv, Progress, TokenIsBacked, Resolved
<1> QED
  BY <1>1, LoginInvariance, PTL

\* No tenant is forgotten while pages and logins come and go, either.
THEOREM LoginTenantsOwed == LoginSpec => []NothingForgotten
<1>1. LoginInit => NothingForgotten
  BY DEF LoginInit, StreamInit, Init, NothingForgotten, Rows
<1>2. LInv /\ NothingForgotten /\ [LoginNext]_signUpVars => NothingForgotten'
  <2> SUFFICES ASSUME LInv, NothingForgotten, [LoginNext]_signUpVars
               PROVE  NothingForgotten'
    OBVIOUS
  <2>1. CASE UNCHANGED provVars
    BY <2>1 DEF provVars, NothingForgotten, Owed, CutShort, Rows
  <2>2. CASE ProvNext
    BY <2>2, NotForgottenNext DEF LInv
  <2> QED
    BY <2>1, <2>2, SignsUp
<1> QED
  BY <1>1, <1>2, LoginInvariance, PTL DEF LoginSpec

\* The composition, too, implements SubdomainDirectory: pages and logins touch
\* neither a name nor a tenant.
THEOREM LoginImplements == LoginSpec => ImplementsDirectory
<1>1. LoginInit => Directory!Init
  BY RefineInit DEF LoginInit, StreamInit
<1>2. LInv /\ [LoginNext]_signUpVars => [Directory!Next]_<<Claims, Served>>
  <2> SUFFICES ASSUME LInv, [LoginNext]_signUpVars
               PROVE  [Directory!Next]_<<Claims, Served>>
    OBVIOUS
  <2>1. CASE UNCHANGED provVars
    <3>1. Rows' = Rows /\ sub' = sub /\ tenant' = tenant
      BY <2>1 DEF provVars, Rows
    <3> QED
      BY <3>1, RefineStutter
  <2>2. CASE ProvNext
    BY <2>2, RefineStep DEF LInv
  <2> QED
    BY <2>1, <2>2, SignsUp
<1> QED
  BY <1>1, <1>2, LoginInvariance, PTL
     DEF LoginSpec, ImplementsDirectory, Directory!Spec, Claims, Served
=============================================================================
