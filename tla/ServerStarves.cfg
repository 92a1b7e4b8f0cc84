SPECIFICATION FairSpec
CONSTANTS
  r1 = r1
  r2 = r2
  r3 = r3
  p1 = p1
  p2 = p2
  s1 = s1
  s2 = s2
  s3 = s3
  a = a
  b = b
  shard = shard
  Requests = {}
  Jobs = {p1}
  Streams = {s1}
  Keys = {a}
  Shards = {shard}
  ShardOf <- OneShard
  Workers = 2
  PoolSize = 1
  NoKey = NoKey
  NoJob = NoJob
PROPERTY ListenersAreTold
CHECK_DEADLOCK FALSE
