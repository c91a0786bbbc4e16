SPECIFICATION Spec
CONSTANTS
  c = c
  m = m
  Nobody = Nobody
  Stray = Stray
  Request = {c, m}
  Claims = {c}
  InboxLimit = 2
  DueLimit = 2
  Batch = 1
  MaxTries = 2
  Scenarios <- OnlyAsked
INVARIANT ApprovalIsDelivered
