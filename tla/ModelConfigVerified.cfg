SPECIFICATION Spec
CONSTANTS
  g1 = g1
  g2 = g2
  m1 = m1
  m2 = m2
  s1 = s1
  Admins = {a1, a2}
  Probe = Probe
  Scheduler = Scheduler
  Gateways = {g1, g2}
  NoGateway = NoGateway
  Models = {m1, m2}
  Whitelists <- Choices
  Settings = {s1}
  Serves <- OneEach
  Starts <- Deployed
  Offers <- Posted
  MaxSaves = 3
  MaxOutages = 0
  MaxRestarts = 0
INVARIANTS StoresVerified
