SPECIFICATION QueuesSpec
CONSTANTS
  r1 = r1
  r2 = r2
  t1 = t1
  table = table
  base = base
  wiki = wiki
  Items = {r1, r2}
  Producer <- MixedProducer
  Topics = {t1}
  TopicOf <- OneTopic
  Workers = {w1, w2}
  Tokens = {k1, k2, k3}
  NoToken = NoToken
  NoItem = NoItem
  MaxAttempts = 2
  BatchSize = 2
  MaxFaults = 1
  Tables = {table}
  Feishu = {base, wiki}
  Base = base
  Schedulers = {w1, w2}
  LeaseTokens = {k1, k2, k3}
  NoLeaseToken = NoLeaseToken
  MaxRow = 2
  PageSize = 1
  WalkLimit = 1
  MaxRuns = 2
  MaxManual = 1
  MaxSyncFaults = 2
  Payloads = {p1, p2}
  MaxInFlight = 1
  MaxWriters = 1
  MaxStarts = 2
SYMMETRY Symmetry
INVARIANTS LeaseDiscipline NothingSkipped SucceededImported ShutdownClean NoLostWakeUp
PROPERTIES AnswersLatestRequest LedgerSpec CursorAdvances
