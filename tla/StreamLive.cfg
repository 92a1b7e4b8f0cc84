SPECIFICATION LoginFairSpec
CONSTANTS
  t1 = t1
  t2 = t2
  t3 = t3
  c1 = c1
  c2 = c2
  l1 = l1
  e1 = e1
  alpha = alpha
  beta = beta
  www = www
  Tenants = {t1, t2}
  Channels = {t1, t2}
  Clients = {c1, c2}
  Logins = {l1}
  Subdomains = {alpha}
  Reserved = {}
  Foreign = {}
  Emails = {t1, t2}
  Passwords = {t1, t2}
  EmailOf <- OwnEmail
  PasswordOf <- OwnPassword
  NoTenant = NoTenant
  NoName = NoName
  NoChannel = NoChannel
  MaxInbox = 2
  Mock = TRUE
  MayFail = FALSE
  MaxCrashes = 0
PROPERTIES Provisioned ListenersHear DoneLetsIn
CHECK_DEADLOCK FALSE
