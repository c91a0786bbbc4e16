SPECIFICATION Spec
CONSTANTS
  a = a
  b = b
  c = c
  f = f
  x = x
  y = y
  a1 = a1
  b1 = b1
  rc = rc
  kp = kp
  pv = pv
  ra = ra
  rb = rb
  ac = ac
  fc = fc
  fm = fm
  Device = {a, b}
  Creator = a
  Others = {c, f}
  Event = {a1, b1, rc, kp, pv, ra, ac, fc, fm}
  Author <- Signed
  Parents <- Links
  Removes <- Removals
  Attached <- Files
  CatchUp = {kp, pv}
  Welcomes <- Additions
  Order <- Ranking
  PublishLimit = 2
  RecentSessions = 2
  Scenarios <- Situations
INVARIANTS
  TypeOK
  GapsAreRefusals
  SkippedScansMissNothing
  CheckpointsCoverTheirWork
PROPERTIES
  FollowUpsDeliver
  EventsConverge
  AttachmentsArrive
  TransfersSettle
  MembersJoin
