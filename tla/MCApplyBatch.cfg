SPECIFICATION Spec
CONSTANTS
  None = None
  owner = owner
  member = member
  guest = guest
  c1 = c1
  c2 = c2
  m1 = m1
  Histories <- Stories
  Batches <- SomeOrders
  EventId <- FiveEvents
  Device = {owner, member, guest}
  Channel = {c1, c2}
  Message = {m1}
  Invite = {}
  Request = {}
  Person = {}
  MaxClaims = 1
CHECK_DEADLOCK FALSE
INVARIANTS
  CausalOrder
  ConflictsFailClosed
  NothingLeftBehind
  MatchesRescan
PROPERTY
  Terminates
