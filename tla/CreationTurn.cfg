SPECIFICATION CreationSpec
CONSTANTS
  Messages = {t1, t2}
  NoMessage = NoMessage
  Drafted = {d1, d2}
  NoDraft = NoDraft
  TurnScopes = {s1, s2}
  NoScope = NoScope
  ToolCalls = {w1, w2}
  MaxDraftVersion = 3
SYMMETRY Symmetry
INVARIANTS FreshTokensSuffice
CHECK_DEADLOCK FALSE
