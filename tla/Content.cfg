SPECIFICATION ContentSpec
CONSTANTS
  w1 = w1  w2 = w2  u1 = u1  u2 = u2  r1 = r1  r2 = r2  e1 = e1  e2 = e2  t1 = t1  t2 = t2
  c1 = c1  c2 = c2  i1 = i1  i2 = i2  q1 = q1  q2 = q2  m1 = m1  m2 = m2  v1 = v1  v2 = v2  g1 = g1  n1 = n1
  Users = {u1, u2}
  Threads = {w1, w2}
  NoRecord = NoRecord
  Nobody = Nobody
  MaxToken = 2
  Calls = {w1, w2}
  MaxCandidate = 2
  MaxRetries = 1
  Tenants = {ta}
  Rids = {r1, r2}
  NoRid = NoRid
  Idents = {x1}
  NoIdent = NoIdent
  Kinds = {ka, kb}
  NoKind = NoKind
  Bodies = {b1}
  Importers = {w1, w2}
  MaxRevision = 3
  Runs = {r1, r2}
  Evidence = {e1, e2}
  ShownBy <- Overlapping
  NoRun = NoRun
  Writers = {w1, w2}
  Cleaners = {d1, d2}
  MaxTime = 2
  Copies = {c1}
  Turns = {t1}
  OriginTurn <- FirstTurn
  Cited = {e1}
  ExplicitWindow = 1
  CommittedWindow = 2
  MinSample = 1
  MaxDay = 4
  MaxSeen = 2
  MaxCopyVersion = 2
  MaxEvents = 1
  Items = {i1, i2}
  DraftItems = {i1}
  Actors = {u1, u2}
  OwnerOf <- Owned
  TeardownOf <- TornDown
  FamilyOf <- EachOwn
  Groundings = {c1, c2}
  RunOf <- Asked
  ActorOf <- AskedBy
  NoRunId = NoRunId
  PackageLimit = 2
  MaxItemVersion = 2
  MaxShifts = 1
  Messages = {t1, t2}
  NoMessage = NoMessage
  Drafted = {v1, v2}
  NoDraft = NoDraft
  TurnScopes = {s1, s2}
  NoScope = NoScope
  ToolCalls = {w1, w2}
  MaxDraftVersion = 3
  Materials = {m1, m2}
  Teardowns = {m2}
  Snapshots = {m1}
  HolderOf <- OneHolder
  Shared = {}
  Texts = {x1}
  Near <- NotNear
  Related <- Akin
  NoAsset = NoAsset
  Enrichers = {w1, w2}
  MaxEdition <- Editing
  MaxFamily = 1
  MaxOwed = 1
  Drafts = {v1, v2}
  Opinions = {g1}
  OpinionOn <- OnFirst
  Rivals <- OverTwo
  Niches = {n1, n2}
  Accounts = {a1}
  Steps <- Adopting
  Editors = {w1, w2}
SYMMETRY Symmetry
INVARIANTS FailsOnlyExhausted CountsExact OneResourcePerIdentity MeasurementsExact ShownWasOpen OneCopyPerTurn DependentsFollow OwnFactsLearned
PROPERTIES DeletedWhenDead OthersKept FiguresFinal
CHECK_DEADLOCK FALSE
