SPECIFICATION Spec
CONSTANTS
  None = None
  d1 = d1
  d2 = d2
  q1 = q1
  q2 = q2
  desktop = desktop
  cli = cli
  Device = {d1, d2}
  Request = {q1, q2}
  Claim <- TwoClaims
  Sealable <- UsableKeys
  Worker = {desktop, cli}
  Process = {desktop, cli}
  ProcessOf <- OneEach
  MaxUses = 1
  RetryLimit = 1
  MaxOthers = 1
  MaxCrashes = 1
  Interference <- Meddling
CHECK_DEADLOCK FALSE
INVARIANT
  TypeOK
PROPERTY
  EveryClaimIsAnswered
