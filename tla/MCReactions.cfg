SPECIFICATION Spec
CONSTANTS
  None = None
  Bodies <- ReactionBodies
  EventId <- SevenEvents
  Device = {d1, d2}
  Channel = {c1}
  Message = {m1}
  Invite = {}
  Request = {}
  Person = {}
  MaxClaims = 1
  Avatar = {}
  KeyPackage = {}
CHECK_DEADLOCK FALSE
INVARIANT
  ReactionCountsAreExact
