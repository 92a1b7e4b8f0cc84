SPECIFICATION FairSpec
CONSTANTS
  r1 = r1
  r2 = r2
  r3 = r3
  p1 = p1
  p2 = p2
  s1 = s1
  s2 = s2
  s3 = s3
  a = a
  b = b
  shard = shard
  Requests = {r1, r2}
  Jobs = {p1}
  Streams = {s1, s2, s3}
  Keys = {a}
  Shards = {shard}
  ShardOf <- OneShard
  Workers = 2
  PoolSize = 2
  NoKey = NoKey
  NoJob = NoJob
INVARIANTS TypeOK SomeThreadIsFree
PROPERTIES RequestsAnswered StreamsEnd
CHECK_DEADLOCK FALSE
