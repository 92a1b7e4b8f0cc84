SPECIFICATION ResolverSpec
CONSTANTS
  a = a
  b = b
  d1 = d1
  i1 = i1
  i2 = i2
  h1 = h1
  k1 = k1
  x1 = x1
  w1 = w1
  Tenants = {a, b}
  Domains = {d1}
  Ids = {i1, i2}
  Channels = {i1, i2}
  Clients = {}
  Hosts = {h1}
  Tasks = {k1}
  Handlers = {x1}
  NoTenant = NoTenant
  NoDomain = NoDomain
  NoId = NoId
  NoHost = NoHost
  NoChannel = NoChannel
  Unknown = Unknown
  Browsers = {w1}
  MaxInbox = 2
  MaxCname = 1
  MaxTxt = 1
  MaxSsl = 1
  MayFail = TRUE
  CfMayOmit = FALSE
  MaxCrashes = 1
SYMMETRY MCSymmetry
INVARIANTS TypeOK ActiveHasCert RoutesEarned ResolverTypeOK AnswersEarned
CHECK_DEADLOCK FALSE
