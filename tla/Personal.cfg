SPECIFICATION PersonalSpec
CONSTANTS
  a1 = a1
  a2 = a2
  a3 = a3
  c1 = c1
  c2 = c2
  Workers = {w1, w2}
  Assets = {a1, a2}
  Own = {a2}
  Copies = {a2}
  Drafts = {1, 2}
  Scopes = {c1, c2}
  Global = Global
  ScopeOf <- TwoScopes
  Profiled = FALSE
  MinFamilies = 1
  NoWorker = NoWorker
  MaxChanges = 2
  MaxFaults = 1
  s1 = s1
  s2 = s2
  o1 = o1
  o2 = o2
  Owners = {o1, o2}
  NoOwner = NoOwner
  Skills = {s1, s2}
  OwnerOf <- OneEach
  Selectable <- Picks
  MaxVersions = 2
  MaxEvents <- LongAndShort
CHECK_DEADLOCK FALSE
INVARIANTS NoChangeForgotten AuditExplains OffersCurrent
PROPERTIES NeverOlderEvidence JobDrains HotReload
