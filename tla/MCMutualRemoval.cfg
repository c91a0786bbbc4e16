SPECIFICATION Spec
CONSTANTS
  a = a
  b = b
  c = c
  f = f
  x = x
  y = y
  a1 = a1
  b1 = b1
  rc = rc
  kp = kp
  pv = pv
  ra = ra
  rb = rb
  ac = ac
  fc = fc
  fm = fm
  Device = {a, b}
  Creator = c
  Others = {c}
  Event = {ra, rb}
  Author <- Signed
  Parents <- Links
  Removes <- Removals
  Attached <- Files
  CatchUp = {}
  Welcomes <- Additions
  Order <- Ranking
  PublishLimit = 2
  RecentSessions = 2
  Scenarios <- MutualRemoval
PROPERTY
  OfflineWorkMerges
