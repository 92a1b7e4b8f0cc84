SPECIFICATION StreamSpec
CONSTANTS
  a = a
  d1 = d1
  c1 = c1
  i1 = i1
  h1 = h1
  k1 = k1
  k2 = k2
  x1 = x1
  Tenants = {a}
  Domains = {d1}
  Ids = {i1}
  Channels = {i1}
  Clients = {c1}
  Hosts = {h1}
  Tasks = {k1}
  Handlers = {x1}
  NoTenant = NoTenant
  NoDomain = NoDomain
  NoId = NoId
  NoHost = NoHost
  NoChannel = NoChannel
  MaxInbox = 3
  MaxCname = 1
  MaxTxt = 1
  MaxSsl = 2
  MayFail = TRUE
  CfMayOmit = FALSE
  MaxCrashes = 1

INVARIANTS StreamTypeOK DoneIsEarned
CHECK_DEADLOCK FALSE
