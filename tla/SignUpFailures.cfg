SPECIFICATION LoginSpec
CONSTANTS
  t1 = t1
  t2 = t2
  t3 = t3
  c1 = c1
  c2 = c2
  l1 = l1
  e1 = e1
  alpha = alpha
  beta = beta
  www = www
  Tenants = {t1, t2, t3}
  Channels = {t1, t2, t3}
  Clients = {c1}
  Logins = {l1}
  Subdomains = {alpha, beta, www}
  Reserved = {www}
  Foreign = {beta}
  Emails = {e1}
  Passwords = {t1, t2, t3}
  EmailOf <- SharedEmail
  PasswordOf <- OwnPassword
  NoTenant = NoTenant
  NoName = NoName
  NoChannel = NoChannel
  MaxInbox = 2
  Mock = FALSE
  MayFail = TRUE
  MaxCrashes = 1
SYMMETRY MCSymmetry
INVARIANTS TypeOK ActiveIsComplete KvNamesHolder NoOrphanDns NothingForgotten
           StreamTypeOK DoneIsTrue LoginTypeOK TokenIsBacked
PROPERTY ImplementsDirectory
CHECK_DEADLOCK FALSE
