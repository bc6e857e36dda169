SPECIFICATION ProgressSpec
CONSTANTS
  r1 = r1
  r2 = r2
  t1 = t1
  t2 = t2
  Items = {r1, r2}
  Producer <- ExactProducer
  Topics = {t1, t2}
  TopicOf <- TwoTopics
  Workers = {w1}
  Tokens = {k1, k2}
  NoToken = NoToken
  NoItem = NoItem
  MaxAttempts = 2
  BatchSize = 2
  MaxFaults = 1
  Tables = {}
  Feishu = {base}
  Base = base
  Schedulers = {w1}
  LeaseTokens = {k1, k2}
  NoLeaseToken = NoLeaseToken
  MaxRow = 1
  PageSize = 1
  WalkLimit = 1
  MaxRuns = 2
  MaxManual = 1
  MaxSyncFaults = 1
  Payloads = {p1}
  MaxInFlight = 1
  MaxWriters = 1
  MaxStarts = 1
PROPERTIES EverySettles BlockedReturns StopCompletes LiveLeaseRespected SyncProgresses
