------------------------------- MODULE Login -------------------------------
(***************************************************************************)
(* POST /api/login composed with sign-up and the status pages: the owner a  *)
(* page sends to the tenant's host asks for a token, and /api/me shows the  *)
(* holder of a token its last session.  Each attempt to register brings an  *)
(* email and a password of its owner.                                       *)
(***************************************************************************)
EXTENDS ProvisioningStream

CONSTANTS Logins,               \* bound on the requests for a token
          Emails, Passwords,
          EmailOf, PasswordOf   \* what the owner of a tenant registered with

ASSUME LoginAssumption == /\ EmailOf \in [Tenants -> Emails]
                          /\ PasswordOf \in [Tenants -> Passwords]

VARIABLES lpc,      \* how far each POST /api/login got
          creds,    \* the email and password it brought, none before
          user,     \* the tenant whose owner it found
          sessions  \* the table, in the order of created_at

loginVars == <<lpc, creds, user, sessions>>
signUpVars == <<allVars, loginVars>>

LoginTypeOK ==
    /\ lpc \in [Logins -> {"idle", "asked", "valid", "granted", "refused", "cut"}]
    /\ creds \in [Logins -> {<<>>} \cup (Emails \X Passwords)]
    /\ user \in [Logins -> Tenants \cup {NoTenant}]
    /\ sessions \in Seq(Tenants)

LoginInit == /\ StreamInit
             /\ lpc = [l \in Logins |-> "idle"]
             /\ creds = [l \in Logins |-> <<>>]
             /\ user = [l \in Logins |-> NoTenant]
             /\ sessions = <<>>

-----------------------------------------------------------------------------

\* check_login lets the address through, or not (see RateLimit)
LoginAsk(l, e, p) ==
    /\ lpc[l] = "idle"
    /\ creds' = [creds EXCEPT ![l] = <<e, p>>]
    /\ \E pc \in {"asked", "refused"} : lpc' = [lpc EXCEPT ![l] = pc]
    /\ UNCHANGED <<allVars, user, sessions>>

\* faulty: the status of the tenant is not asked for
NamedAnyStatus(e) == {t \in Tenants : owner[t] /\ tenant[t] # "none" /\ EmailOf[t] = e}

\* The owners a query by email finds, whatever host was asked
Named(e) == {t \in Tenants : owner[t] /\ tenant[t] = "active" /\ EmailOf[t] = e}

NotFound(l) ==
    /\ lpc[l] = "asked" /\ Named(creds[l][1]) = {}
    /\ lpc' = [lpc EXCEPT ![l] = "refused"]
    /\ UNCHANGED <<allVars, creds, user, sessions>>

\* fetch_optional takes the first row the database sends, and bcrypt::verify
\* compares the password with that row's
FindUser(l) ==
    /\ lpc[l] = "asked"
    /\ \E t \in Named(creds[l][1]) :
           /\ user' = [user EXCEPT ![l] = t]
           /\ lpc' = [lpc EXCEPT ![l] = IF PasswordOf[t] = creds[l][2] THEN "valid" ELSE "refused"]
    /\ UNCHANGED <<allVars, creds, sessions>>

\* faulty: the email is stored as the session's user
StoreSessionEmail(l) ==
    /\ lpc[l] = "valid"
    /\ sessions' = Append(sessions, creds[l][1])
    /\ lpc' = [lpc EXCEPT ![l] = "granted"]
    /\ UNCHANGED <<allVars, creds, user>>

\* faulty: the token is issued first, and the session is left to be stored
GrantFirst(l) ==
    /\ lpc[l] = "valid"
    /\ lpc' = [lpc EXCEPT ![l] = "granted"]
    /\ UNCHANGED <<allVars, creds, user, sessions>>

\* INSERT INTO sessions, and the token
StoreSession(l) ==
    /\ lpc[l] = "valid"
    /\ sessions' = Append(sessions, user[l])
    /\ lpc' = [lpc EXCEPT ![l] = "granted"]
    /\ UNCHANGED <<allVars, creds, user>>

\* a statement fails, or the browser leaves: the session may have been stored
LoginCut(l) ==
    /\ MayFail
    /\ lpc[l] \in {"asked", "valid"}
    /\ lpc' = [lpc EXCEPT ![l] = "cut"]
    /\ \/ UNCHANGED sessions
       \/ lpc[l] = "valid" /\ sessions' = Append(sessions, user[l])
    /\ UNCHANGED <<allVars, creds, user>>

ServerCrash ==
    /\ ProcessCrash
    /\ lpc' = [l \in Logins |-> IF lpc[l] \in {"asked", "valid"} THEN "cut" ELSE lpc[l]]
    /\ UNCHANGED <<creds, user, sessions>>

LoginStep(l) == NotFound(l) \/ FindUser(l) \/ StoreSession(l)

LoginNext ==
    \/ SignUpMoves /\ UNCHANGED loginVars
    \/ DatabaseCrash /\ UNCHANGED loginVars
    \/ ServerCrash
    \/ (\E c \in Clients : ClientStep(c)) /\ UNCHANGED loginVars
    \/ \E l \in Logins : \/ \E e \in Emails, p \in Passwords : LoginAsk(l, e, p)
                         \/ LoginStep(l) \/ LoginCut(l)

LoginSpec == LoginInit /\ [][LoginNext]_signUpVars

\* as in ProvisioningStream, and the login's handler runs
LoginFairSpec ==
    /\ LoginSpec
    /\ \A t \in Tenants :
           /\ WF_signUpVars(HandlerStep(t) /\ UNCHANGED <<streamVars, loginVars>>)
           /\ WF_signUpVars(TaskStep(t) /\ UNCHANGED <<streamVars, loginVars>>)
    /\ \A c \in Clients : WF_signUpVars(StreamStep(c) /\ UNCHANGED loginVars)
    /\ \A l \in Logins : WF_signUpVars(LoginStep(l))

-----------------------------------------------------------------------------
(* Properties *)

\* What me() looks for: the sessions of a user
SessionsOf(t) == {i \in DOMAIN sessions : sessions[i] = t}

\* A token is for the owner of a tenant that is served, who registered with the
\* email and the password it was asked with, and /api/me has a session to show.
TokenIsBacked ==
    \A l \in Logins : lpc[l] = "granted" =>
        /\ user[l] \in Tenants /\ user[l] \in Resolved(sub[user[l]])
        /\ owner[user[l]]
        /\ creds[l] = <<EmailOf[user[l]], PasswordOf[user[l]]>>
        /\ SessionsOf(user[l]) # {}

OnlyOwner(t) == \A u \in Tenants : EmailOf[u] = EmailOf[t] => u = t

Told(c, t) == watch[c] = t /\ cpc[c] = "done"
Asks(l, t) == lpc[l] = "asked" /\ OnlyOwner(t) /\ creds[l] = <<EmailOf[t], PasswordOf[t]>>

\* Without failures, an owner whose page was told "done" gets in with the
\* password of the sign-up, unless others registered with the same email.
DoneLetsIn ==
    \A c \in Clients, l \in Logins, t \in Tenants :
        Told(c, t) /\ Asks(l, t) ~> lpc[l] = "granted" /\ user[l] = t
=============================================================================
