SPECIFICATION Spec
CONSTANTS
  None = None
  Bodies <- AdmissionBodies
  EventId <- SixEvents
  Device = {d1, d2, d3}
  Channel = {}
  Message = {}
  Invite = {i1}
  Request = {q1}
  Person = {}
  MaxClaims = 2
  Avatar = {}
  KeyPackage = {}
CHECK_DEADLOCK FALSE
INVARIANTS
  TypeOK
  ViewMatchesIndex
  OpenInvitesAreClaimable
  WaitingMeansUndecided
