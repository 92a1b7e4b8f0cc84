SPECIFICATION StreamFairSpec
CONSTANTS
  t1 = t1
  t2 = t2
  c1 = c1
  c2 = c2
  alpha = alpha
  Tenants = {t1, t2}
  Channels = {t1, t2}
  Clients = {c1, c2}
  Subdomains = {alpha}
  Reserved = {}
  Foreign = {}
  NoTenant = NoTenant
  NoName = NoName
  NoChannel = NoChannel
  MaxInbox = 2
  Mock = FALSE
  MayFail = FALSE
  MaxCrashes = 0
PROPERTY WatchersHear
CHECK_DEADLOCK FALSE
