SPECIFICATION Spec
CONSTANTS
  None = None
  Bodies <- ConversationBodies
  EventId <- FiveEvents
  Device = {d1, d2}
  Channel = {c1, c2}
  Message = {m1, m2}
  Invite = {}
  Request = {}
  Person = {p1}
  MaxClaims = 1
  Avatar = {av1}
  KeyPackage = {k1}
CHECK_DEADLOCK FALSE
INVARIANTS
  ViewMatchesIndex
  ReadMarkersStayInChannel
