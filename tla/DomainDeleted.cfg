SPECIFICATION Spec
CONSTANTS
  a = a
  b = b
  d1 = d1
  i1 = i1
  i2 = i2
  h1 = h1
  h2 = h2
  k1 = k1
  k2 = k2
  x1 = x1
  x2 = x2
  Tenants = {a}
  Domains = {d1}
  Ids = {i1}
  Channels = {i1}
  Clients = {}
  Hosts = {h1}
  Tasks = {k1}
  Handlers = {x1}
  NoTenant = NoTenant
  NoDomain = NoDomain
  NoId = NoId
  NoHost = NoHost
  NoChannel = NoChannel
  MaxInbox = 2
  MaxCname = 1
  MaxTxt = 1
  MaxSsl = 2
  MayFail = FALSE
  CfMayOmit = TRUE
  MaxCrashes = 0

INVARIANT DeleteIsComplete
CHECK_DEADLOCK FALSE
