SPECIFICATION Spec
CONSTANTS
  None = None
  d1 = d1
  d2 = d2
  q1 = q1
  q2 = q2
  desktop = desktop
  cli = cli
  Device = {d1, d2}
  Request = {q1, q2}
  Claim <- ThreeClaims
  Sealable <- UsableKeys
  Worker = {desktop, cli}
  Process = {desktop, cli}
  ProcessOf <- OneEach
  MaxUses = 1
  RetryLimit = 2
  MaxOthers = 1
  MaxCrashes = 1
  Interference <- Meddling
SYMMETRY Interchange
CHECK_DEADLOCK FALSE
INVARIANTS
  AdmittedGetCredentials
  GrantsAreDurable
PROPERTY
  ImplementsLedger
  RepeatedClaimsAreAnswered
