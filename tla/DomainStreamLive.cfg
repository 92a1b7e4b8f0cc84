SPECIFICATION StreamFairSpec
CONSTANTS
  a = a
  d1 = d1
  c1 = c1
  i1 = i1
  h1 = h1
  k1 = k1
  k2 = k2
  x1 = x1
  Tenants = {a}
  Domains = {d1}
  Ids = {i1}
  Channels = {i1}
  Clients = {c1}
  Hosts = {h1}
  Tasks = {k1, k2}
  Handlers = {x1}
  NoTenant = NoTenant
  NoDomain = NoDomain
  NoId = NoId
  NoHost = NoHost
  NoChannel = NoChannel
  MaxInbox = 2
  MaxCname = 1
  MaxTxt = 1
  MaxSsl = 2
  MayFail = FALSE
  CfMayOmit = FALSE
  MaxCrashes = 0

PROPERTIES RowSettles DomainListenersHear ListenersSeeRecords
CHECK_DEADLOCK FALSE
