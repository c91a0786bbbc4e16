SPECIFICATION Spec
CONSTANTS
  None = None
  Bodies <- RoleBodies
  EventId <- FiveEvents
  Device = {d1, d2}
  Channel = {}
  Message = {}
  Invite = {}
  Request = {}
  Person = {}
  MaxClaims = 1
  Avatar = {}
  KeyPackage = {}
CHECK_DEADLOCK FALSE
INVARIANT
  RootStaysOwner
