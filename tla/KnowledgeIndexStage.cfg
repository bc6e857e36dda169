SPECIFICATION Spec
CONSTANTS
  Clients = {c1, c2}
  Requests = {q1}
  Drafts = {d1, d2}
  NoRequest = NoRequest
  NoDraft = NoDraft
  NoCall = NoCall
  NoPost = NoPost
  NoJob = NoJob
  NoDocument = NoDocument
  Workers = {w1, w2}
  MaxVersion = 3
  MaxState = 5
  MaxPasses = 2
  Scopes <- Publishers
PROPERTIES StageForward
CHECK_DEADLOCK FALSE
