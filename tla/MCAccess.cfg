SPECIFICATION Spec
CONSTANTS
  None = None
  Bodies <- AccessBodies
  EventId <- SixEvents
  Device = {d1, d2, d3}
  Channel = {c1}
  Message = {}
  Invite = {}
  Request = {}
  Person = {p1}
  MaxClaims = 1
  Avatar = {}
  KeyPackage = {}
CHECK_DEADLOCK FALSE
INVARIANTS
  ViewMatchesIndex
  ChannelMembersAreMembers
  RootStaysMember
  PersonLinksOneToOne
PROPERTIES
  ChannelIdentityIsImmutable
  JoiningOpensNoPrivateChannel
