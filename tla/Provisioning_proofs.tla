------------------------ MODULE Provisioning_proofs ------------------------
(***************************************************************************)
(* Sign-up, for any set of attempts, names and listeners and any number of  *)
(* failures and crashes.                                                    *)
(***************************************************************************)
EXTENDS Provisioning, TLAPS

(***************************************************************************)
(* The inductive invariant.  Progress ties the handler, the rows and the    *)
(* task of one attempt together; the others say what each row of state owes *)
(* to the attempts.                                                         *)
(***************************************************************************)
Progress ==
    \A t \in Tenants :
        /\ reg[t] \in {"idle", "valid"} => tenant[t] = "none"
        /\ reg[t] # "idle" => sub[t] \in Subdomains
        /\ reg[t] = "inserted" => tenant[t] = "pending"
        /\ reg[t] \in {"owned", "accepted"} => owner[t]
        /\ owner[t] => tenant[t] # "none"
        /\ prov[t] # "none" => reg[t] = "accepted"
        /\ tenant[t] = "active" => owner[t]

UniqueNames == \A t, u \in Rows : sub[t] = sub[u] => t = u

DnsReady(t) == Mock \/ sub[t] \in Foreign \/ dns[sub[t]] = "tunnel"

DnsInv ==
    /\ \A s \in Subdomains : dns[s] = "other" => s \in Foreign
    /\ \A t \in Tenants :
         tenant[t] = "active" \/ prov[t] \in {"kv", "activate", "notify"} => DnsReady(t)

KvInv == \A s \in Subdomains : kv[s] # NoTenant => kv[s] \in Rows /\ sub[kv[s]] = s

IInv == TypeOK /\ Progress /\ UniqueNames /\ DnsInv /\ KvInv /\ NoOrphanDns

-----------------------------------------------------------------------------

\* What a notification leaves in the inboxes: they keep their type.
LEMMA NotifyType ==
    ASSUME TypeOK, NEW t \in Tenants, Notify(t, "done")
    PROVE  /\ inbox' \in [Clients -> Seq({"done"})]
           /\ listening' \in [Clients -> Channels \cup {NoChannel}]
BY DEF TypeOK, Notify

\* Sessions dropped keep the types too.
LEMMA DropType ==
    ASSUME DropSessions
    PROVE  /\ inbox' \in [Clients -> Seq({"done"})]
           /\ listening' \in [Clients -> Channels \cup {NoChannel}]
BY DEF DropSessions

LEMMA InitInv == Init => IInv
<1> SUFFICES ASSUME Init PROVE IInv
  OBVIOUS
<1> USE DEF Init
<1>1. TypeOK
  BY ProvisioningAssumption DEF TypeOK, NotifyInit, Handling, Running
<1>2. Progress
  BY DEF Progress
<1>3. UniqueNames /\ KvInv
  BY DEF UniqueNames, KvInv, Rows
<1>4. DnsInv /\ NoOrphanDns
  BY DEF DnsInv, NoOrphanDns
<1> QED
  BY <1>1, <1>2, <1>3, <1>4 DEF IInv

\* The record of a name once the task has asked for it
LEMMA DnsRecordReady ==
    ASSUME TypeOK, DnsInv, NEW s \in Subdomains
    PROVE  /\ DnsRecord(s) \in {"absent", "tunnel", "other"}
           /\ Mock \/ s \in Foreign \/ DnsRecord(s) = "tunnel"
           /\ dns[s] = "tunnel" => DnsRecord(s) = "tunnel"
           /\ DnsRecord(s) = "other" => s \in Foreign
BY DEF TypeOK, DnsInv, DnsRecord

-----------------------------------------------------------------------------
(* One lemma per kind of step *)

LEMMA HandlerInv ==
    ASSUME IInv, NEW t \in Tenants,
           \/ \E s \in Subdomains : Submit(t, s)
           \/ HandlerStep(t) \/ Abort(t)
    PROVE  IInv'
<1> USE DEF IInv, Rows
<1>1. CASE \E s \in Subdomains : Submit(t, s)
  <2> PICK s \in Subdomains : Submit(t, s)
    BY <1>1
  <2> USE DEF Submit
  <2>1. TypeOK'
    BY DEF TypeOK, notifyVars, Handling
  <2>2. Progress'
    BY DEF TypeOK, Progress
  <2>3. \A u \in Tenants : tenant[u] # "none" \/ prov[u] # "none" => u # t
    BY DEF Progress
  <2>4. UniqueNames' /\ KvInv'
    BY <2>3 DEF TypeOK, UniqueNames, KvInv
  <2>5. DnsInv' /\ NoOrphanDns'
    BY <2>3 DEF TypeOK, DnsInv, DnsReady, NoOrphanDns
  <2> QED
    BY <2>1, <2>2, <2>4, <2>5
<1>2. CASE InsertTenant(t)
  <2> USE DEF InsertTenant
  <2>1. TypeOK'
    BY <1>2 DEF TypeOK, notifyVars, Handling
  <2>2. Progress'
    BY <1>2 DEF TypeOK, Progress
  <2>3. UniqueNames'
    BY <1>2 DEF TypeOK, UniqueNames, Taken
  <2>4. KvInv' /\ NoOrphanDns'
    BY <1>2 DEF TypeOK, KvInv, NoOrphanDns
  <2>5. DnsInv'
    BY <1>2 DEF TypeOK, DnsInv, DnsReady
  <2> QED
    BY <2>1, <2>2, <2>3, <2>4, <2>5
<1>3. CASE InsertUser(t) \/ Spawn(t) \/ Abort(t)
  <2> USE DEF InsertUser, Spawn, Abort
  <2>1. TypeOK'
    BY <1>3 DEF TypeOK, notifyVars, Handling, Running
  <2>2. Progress'
    BY <1>3 DEF TypeOK, Progress, Handling
  <2>3. UniqueNames' /\ KvInv' /\ NoOrphanDns'
    BY <1>3 DEF TypeOK, UniqueNames, KvInv, NoOrphanDns
  <2>4. DnsInv'
    BY <1>3 DEF TypeOK, DnsInv, DnsReady
  <2> QED
    BY <2>1, <2>2, <2>3, <2>4
<1> QED
  BY <1>1, <1>2, <1>3 DEF HandlerStep

LEMMA TaskInv ==
    ASSUME IInv, NEW t \in Tenants, TaskStep(t) \/ DnsReplyLost(t) \/ TaskFails(t)
    PROVE  IInv'
<1> USE DEF IInv, Rows
<1>0. /\ prov[t] # "none" /\ reg[t] = "accepted" /\ owner[t]
      /\ t \in Rows /\ sub[t] \in Subdomains
  BY DEF TaskStep, CreateDns, WarmKv, Activate, NotifyDone, DnsReplyLost, TaskFails,
         Running, TypeOK, Progress
<1>1. CASE CreateDns(t) \/ DnsReplyLost(t)
  <2> USE DEF CreateDns, DnsReplyLost
  <2>1. TypeOK'
    BY <1>0, <1>1, DnsRecordReady DEF TypeOK, notifyVars, Running
  <2>2. Progress'
    BY <1>0, <1>1 DEF TypeOK, Progress
  <2>3. UniqueNames' /\ KvInv'
    BY <1>1 DEF TypeOK, UniqueNames, KvInv
  <2>4. DnsInv'
    BY <1>0, <1>1, DnsRecordReady DEF TypeOK, DnsInv, DnsReady, Progress
  <2>5. NoOrphanDns'
    BY <1>0, <1>1 DEF TypeOK, NoOrphanDns
  <2> QED
    BY <2>1, <2>2, <2>3, <2>4, <2>5
<1>2. CASE WarmKv(t)
  <2> USE DEF WarmKv
  <2>1. TypeOK'
    BY <1>0, <1>2 DEF TypeOK, notifyVars, Running
  <2>2. Progress'
    BY <1>0, <1>2 DEF TypeOK, Progress
  <2>3. UniqueNames' /\ KvInv' /\ NoOrphanDns'
    BY <1>0, <1>2 DEF TypeOK, UniqueNames, KvInv, NoOrphanDns
  <2>4. DnsInv'
    BY <1>0, <1>2 DEF TypeOK, DnsInv, DnsReady
  <2> QED
    BY <2>1, <2>2, <2>3, <2>4
<1>3. CASE Activate(t)
  <2> USE DEF Activate
  <2>1. TypeOK'
    BY <1>0, <1>3 DEF TypeOK, notifyVars, Running
  <2>2. Progress'
    BY <1>0, <1>3 DEF TypeOK, Progress
  <2>3. UniqueNames' /\ KvInv' /\ NoOrphanDns'
    BY <1>0, <1>3 DEF TypeOK, UniqueNames, KvInv, NoOrphanDns
  <2>4. DnsInv'
    BY <1>0, <1>3 DEF TypeOK, DnsInv, DnsReady
  <2> QED
    BY <2>1, <2>2, <2>3, <2>4
<1>4. CASE NotifyDone(t) \/ TaskFails(t)
  <2>0. /\ UNCHANGED <<reg, sub, tenant, owner, dns, kv, crashes>>
        /\ \/ prov' = [prov EXCEPT ![t] = "done"]
           \/ prov' = [prov EXCEPT ![t] = "error"]
    BY <1>4 DEF NotifyDone, TaskFails
  <2>1. /\ inbox' \in [Clients -> Seq({"done"})]
        /\ listening' \in [Clients -> Channels \cup {NoChannel}]
    BY <1>4, NotifyType DEF NotifyDone, TaskFails, notifyVars, TypeOK
  <2>2. TypeOK'
    BY <2>0, <2>1 DEF TypeOK
  <2>3. Progress'
    BY <1>0, <2>0 DEF TypeOK, Progress
  <2>4. UniqueNames' /\ KvInv' /\ NoOrphanDns'
    BY <2>0 DEF TypeOK, UniqueNames, KvInv, NoOrphanDns
  <2>5. DnsInv'
    BY <2>0 DEF TypeOK, DnsInv, DnsReady
  <2> QED
    BY <2>2, <2>3, <2>4, <2>5
<1> QED
  BY <1>1, <1>2, <1>3, <1>4 DEF TaskStep

LEMMA CrashInv ==
    ASSUME IInv, AppCrash \/ PgCrash
    PROVE  IInv'
<1> USE DEF IInv, Rows
<1>1. crashes' \in 0..MaxCrashes
  BY ProvisioningAssumption DEF AppCrash, PgCrash, TypeOK
<1>2. CASE AppCrash
  <2> USE DEF AppCrash
  <2>1. TypeOK'
    BY <1>1, <1>2, DropType DEF TypeOK, Handling, Running
  <2>2. Progress'
    BY <1>2 DEF TypeOK, Progress, Handling, Running
  <2>3. UniqueNames' /\ KvInv' /\ NoOrphanDns'
    BY <1>2 DEF TypeOK, UniqueNames, KvInv, NoOrphanDns
  <2>4. DnsInv'
    BY <1>2 DEF TypeOK, DnsInv, DnsReady
  <2> QED
    BY <2>1, <2>2, <2>3, <2>4
<1>3. CASE PgCrash
  <2> USE DEF PgCrash
  <2>1. TypeOK'
    BY <1>1, <1>3, DropType DEF TypeOK
  <2>2. Progress'
    BY <1>3 DEF TypeOK, Progress
  <2>3. UniqueNames' /\ KvInv' /\ NoOrphanDns'
    BY <1>3 DEF TypeOK, UniqueNames, KvInv, NoOrphanDns
  <2>4. DnsInv'
    BY <1>3 DEF TypeOK, DnsInv, DnsReady
  <2> QED
    BY <2>1, <2>2, <2>3, <2>4
<1> QED
  BY <1>2, <1>3

LEMMA NextInv == IInv /\ [ProvNext]_vars => IInv'
<1> SUFFICES ASSUME IInv, [ProvNext]_vars PROVE IInv'
  OBVIOUS
<1>1. ASSUME NEW t \in Tenants, SignUpStep(t) PROVE IInv'
  BY <1>1, HandlerInv, TaskInv DEF SignUpStep
<1>2. CASE AppCrash \/ PgCrash
  BY <1>2, CrashInv
<1>3. CASE UNCHANGED vars
  BY <1>3 DEF IInv, TypeOK, Progress, UniqueNames, Rows, DnsInv, DnsReady, KvInv,
              NoOrphanDns, vars, provVars, notifyVars
<1> QED
  BY <1>1, <1>2, <1>3 DEF ProvNext

\* Every reachable state of sign-up satisfies the inductive invariant.
THEOREM Invariance == Spec => []IInv
BY InitInv, NextInv, PTL DEF Spec

-----------------------------------------------------------------------------

\* The variables keep their types.
THEOREM TypeCorrect == Spec => []TypeOK
BY Invariance, PTL DEF IInv

\* An active tenant has its owner, its DNS record, and its name for itself.
THEOREM ActiveComplete == Spec => []ActiveIsComplete
<1>1. IInv => ActiveIsComplete
  <2> SUFFICES ASSUME IInv, NEW t \in Tenants, tenant[t] = "active"
               PROVE  /\ owner[t]
                      /\ Mock \/ sub[t] \in Foreign \/ dns[sub[t]] = "tunnel"
                      /\ Resolved(sub[t]) = {t}
    BY DEF ActiveIsComplete
  <2>1. owner[t]
    BY DEF IInv, Progress
  <2>2. Mock \/ sub[t] \in Foreign \/ dns[sub[t]] = "tunnel"
    BY DEF IInv, DnsInv, DnsReady
  <2>3. Resolved(sub[t]) = {t}
    BY DEF IInv, UniqueNames, Rows, Resolved
  <2> QED
    BY <2>1, <2>2, <2>3
<1> QED
  BY <1>1, Invariance, PTL

\* The key-value entry of a name names the only tenant that holds it.
THEOREM KvCorrect == Spec => []KvNamesHolder
<1>1. IInv => KvNamesHolder
  BY DEF IInv, KvInv, UniqueNames, Rows, KvNamesHolder
<1> QED
  BY <1>1, Invariance, PTL

\* Every record the program made belongs to a claimed name with an owner.
THEOREM DnsOwned == Spec => []NoOrphanDns
BY Invariance, PTL DEF IInv

-----------------------------------------------------------------------------
(* A pending tenant is owed work: its handler hands it to its task, and the  *)
(* task goes on until it is active, unless one of them is cut short.         *)

LEMMA NotForgottenNext == IInv /\ NothingForgotten /\ [ProvNext]_vars => NothingForgotten'
<1> SUFFICES ASSUME IInv, NothingForgotten, [ProvNext]_vars PROVE NothingForgotten'
  OBVIOUS
<1> USE DEF NothingForgotten, Owed, CutShort, Rows
<1>1. ASSUME NEW t \in Tenants, (\E s \in Subdomains : Submit(t, s)) \/ HandlerStep(t) \/ Abort(t)
      PROVE  NothingForgotten'
  <2>1. reg[t] = "idle" => tenant[t] = "none"
    BY DEF IInv, Progress
  <2>2. reg[t] \in Handling => prov[t] = "none"
    BY DEF IInv, Progress, Handling
  <2> QED
    BY <1>1, <2>1, <2>2 DEF Submit, HandlerStep, InsertTenant, InsertUser, Spawn, Abort, Handling,
                            IInv, TypeOK
<1>2. ASSUME NEW t \in Tenants, TaskStep(t) \/ DnsReplyLost(t) \/ TaskFails(t)
      PROVE  NothingForgotten'
  <2>1. prov[t] = "notify" => reg[t] = "accepted"
    BY DEF IInv, Progress
  <2> QED
    BY <1>2, <2>1 DEF TaskStep, CreateDns, WarmKv, Activate, NotifyDone, DnsReplyLost, TaskFails,
                      Running, IInv, TypeOK
<1>3. CASE AppCrash \/ PgCrash
  BY <1>3 DEF AppCrash, PgCrash, Handling, Running
<1>4. CASE UNCHANGED vars
  BY <1>4 DEF vars, provVars
<1> QED
  BY <1>1, <1>2, <1>3, <1>4 DEF ProvNext, SignUpStep

\* However attempts, failures and restarts interleave, a tenant that is not active
\* has a handler or a task that is about to go on, or lost one that was cut short.
THEOREM TenantsOwed == Spec => []NothingForgotten
<1>1. Init => NothingForgotten
  BY DEF Init, NothingForgotten, Rows
<1> QED
  BY <1>1, NotForgottenNext, Invariance, PTL DEF Spec

\* When nothing fails and nothing restarts, nothing is cut short: whoever holds a
\* name is active or still owed work.
THEOREM PendingOwed ==
    ASSUME ~MayFail, MaxCrashes = 0
    PROVE  Spec => [](\A t \in Rows : tenant[t] = "active" \/ Owed(t))
<1> DEFINE NoneCut == \A t \in Tenants : ~CutShort(t)
<1>1. Init => NothingForgotten /\ NoneCut
  BY DEF Init, NothingForgotten, CutShort, Rows
<1>2. IInv /\ NoneCut /\ [ProvNext]_vars => NoneCut'
  <2> SUFFICES ASSUME IInv, NoneCut, [ProvNext]_vars PROVE NoneCut'
    OBVIOUS
  <2> USE DEF CutShort
  <2>1. ~AppCrash /\ ~PgCrash
    <3>1. crashes \in 0..MaxCrashes /\ MaxCrashes = 0
      BY DEF IInv, TypeOK
    <3>2. ~(crashes < MaxCrashes)
      BY <3>1
    <3> QED
      BY <3>2 DEF AppCrash, PgCrash
  <2>2. ASSUME NEW t \in Tenants, SignUpStep(t) PROVE NoneCut'
    BY <2>2 DEF SignUpStep, Submit, HandlerStep, InsertTenant, InsertUser, Spawn, Abort,
                TaskStep, CreateDns, WarmKv, Activate, NotifyDone, DnsReplyLost, TaskFails,
                IInv, TypeOK
  <2>3. CASE UNCHANGED vars
    BY <2>3 DEF vars, provVars
  <2> QED
    BY <2>1, <2>2, <2>3 DEF ProvNext
<1>3. NothingForgotten /\ NoneCut => \A t \in Rows : tenant[t] = "active" \/ Owed(t)
  BY DEF NothingForgotten, Rows
<1> QED
  BY <1>1, <1>2, <1>3, TenantsOwed, Invariance, PTL DEF Spec

-----------------------------------------------------------------------------
(* Sign-up implements the directory of names: only InsertTenant claims and   *)
(* only Activate serves; all other steps leave both sets alone.              *)

Claims == {<<sub[t], t>> : t \in Rows}
Served == {<<sub[t], t>> : t \in {u \in Rows : tenant[u] = "active"}}

LEMMA RefineInit == Init => Directory!Init
BY DEF Init, Directory!Init, Rows

\* A step that keeps the rows, their names and their activity is a stutter.
LEMMA RefineStutter ==
    ASSUME Rows' = Rows,
           \A t \in Rows : sub'[t] = sub[t] /\ (tenant'[t] = "active" <=> tenant[t] = "active")
    PROVE  Claims' = Claims /\ Served' = Served
BY DEF Claims, Served

LEMMA RefineStep ==
    ASSUME IInv, [ProvNext]_vars
    PROVE  [Directory!Next]_<<Claims, Served>>
<1> USE DEF IInv, TypeOK
<1> DEFINE Keeps == /\ Rows' = Rows
                    /\ \A t \in Rows : /\ sub'[t] = sub[t]
                                       /\ tenant'[t] = "active" <=> tenant[t] = "active"
<1>1. Keeps => [Directory!Next]_<<Claims, Served>>
  BY RefineStutter
<1>2. ASSUME NEW t \in Tenants, NEW s \in Subdomains, Submit(t, s)
      PROVE  Keeps
  BY <1>2 DEF Submit, Progress, Rows
<1>3. ASSUME NEW t \in Tenants, InsertTenant(t)
      PROVE  Keeps \/ Directory!Claim(sub[t], t)
  <2>1. CASE Taken(sub[t])
    BY <1>3, <2>1 DEF InsertTenant, Rows
  <2>2. CASE ~Taken(sub[t])
    <3>1. /\ Rows' = Rows \cup {t} /\ t \notin Rows /\ sub' = sub
          /\ \A u \in Rows : tenant'[u] = tenant[u]
          /\ tenant'[t] # "active"
      BY <1>3, <2>2 DEF InsertTenant, Rows, Progress
    <3>2. Claims' = Claims \cup {<<sub[t], t>>} /\ Served' = Served
      BY <3>1 DEF Claims, Served
    <3>3. \A p \in Claims : p[1] # sub[t] /\ p[2] # t
      BY <2>2, <3>1 DEF Claims, Taken
    <3> QED
      BY <3>2, <3>3 DEF Directory!Claim, Claims, Served
  <2> QED
    BY <2>1, <2>2
<1>4. ASSUME NEW t \in Tenants, Activate(t)
      PROVE  Directory!Serve(sub[t], t)
  <2>1. t \in Rows /\ Rows' = Rows /\ sub' = sub
    BY <1>4 DEF Activate, Rows, Progress
  <2>2. {u \in Rows' : tenant'[u] = "active"} = {u \in Rows : tenant[u] = "active"} \cup {t}
    BY <1>4, <2>1 DEF Activate, Rows
  <2>3. Claims' = Claims /\ Served' = Served \cup {<<sub[t], t>>}
    BY <2>1, <2>2 DEF Claims, Served
  <2>4. <<sub[t], t>> \in Claims
    BY <2>1 DEF Claims
  <2> QED
    BY <2>3, <2>4 DEF Directory!Serve, Claims, Served
<1>5. ASSUME NEW t \in Tenants,
             \/ InsertUser(t) \/ Spawn(t) \/ Abort(t) \/ CreateDns(t) \/ DnsReplyLost(t)
             \/ WarmKv(t) \/ NotifyDone(t) \/ TaskFails(t)
      PROVE  Keeps
  BY <1>5 DEF InsertUser, Spawn, Abort, CreateDns, DnsReplyLost, WarmKv, NotifyDone,
              TaskFails, Rows
<1>6. AppCrash \/ PgCrash \/ UNCHANGED vars => Keeps
  BY DEF AppCrash, PgCrash, vars, provVars, Rows
<1>7. \A t \in Tenants : InsertTenant(t) \/ Activate(t) => sub[t] \in Subdomains
  BY DEF InsertTenant, Activate, Progress
<1> HIDE DEF Keeps
<1> QED
  BY <1>1, <1>2, <1>3, <1>4, <1>5, <1>6, <1>7
     DEF ProvNext, SignUpStep, HandlerStep, TaskStep, Directory!Next

\* Sign-up implements SubdomainDirectory, with its claims and served names.
THEOREM Implements == Spec => ImplementsDirectory
<1>1. Init => Directory!Init
  BY RefineInit
<1>2. IInv /\ [ProvNext]_vars => [Directory!Next]_<<Claims, Served>>
  BY RefineStep
<1> QED
  BY <1>1, <1>2, Invariance, PTL DEF Spec, ImplementsDirectory, Directory!Spec, Claims, Served
=============================================================================
