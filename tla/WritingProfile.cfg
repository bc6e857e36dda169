SPECIFICATION ProfileSpec
CONSTANTS
  v1 = v1
  v2 = v2
  g1 = g1
  Drafts = {v1, v2}
  Opinions = {g1}
  OpinionOn <- OnFirst
  Rivals <- OverTwo
  Niches = {n1, n2}
  Accounts = {a1}
  Steps <- Adopting
  Editors = {w1, w2}
SYMMETRY Symmetry
INVARIANTS ProfilesComplete
CHECK_DEADLOCK FALSE
