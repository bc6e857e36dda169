SPECIFICATION Spec
CONSTANTS
  a1 = a1
  a2 = a2
  a3 = a3
  c1 = c1
  c2 = c2
  Workers = {w1, w2}
  Assets = {a1, a2}
  Own = {a2}
  Copies = {a2}
  Drafts = {1, 2}
  Scopes = {c1, c2}
  Global = Global
  ScopeOf <- TwoScopes
  Profiled = TRUE
  MinFamilies = 1
  NoWorker = NoWorker
  MaxChanges = 2
  MaxFaults = 1
SYMMETRY Symmetry
CHECK_DEADLOCK FALSE
INVARIANTS RetiredWhenUnsupported
