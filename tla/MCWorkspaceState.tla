-------------------------- MODULE MCWorkspaceState --------------------------
(* Instances of WorkspaceState: the configurations choose the bodies that    *)
(* occur and the number of events; these are the sets they pick from.        *)
EXTENDS WorkspaceState

\* Histories of at most seven, six or five events.
SevenEvents == 1..7
SixEvents == 1..6
FiveEvents == 1..5

\* Who is a member and who may see which channel.
AccessBodies ==
    { "WorkspaceCreated", "MemberInvited", "MemberRoleUpdated", "MemberRemoved",
      "ChannelCreated", "DirectMessageChannelCreated", "ChannelMemberAdded",
      "ChannelMemberRemoved", "PersonDeviceLinked" }

\* How a device is admitted.
AdmissionBodies ==
    { "WorkspaceCreated", "MemberInvited", "MemberRemoved", "DeviceProfileUpdated",
      "WorkspaceInviteRecorded", "WorkspaceInviteCapabilityCreated",
      "WorkspaceInviteClaimed", "WorkspaceInviteResolved",
      "WorkspaceJoinRequestRecorded", "WorkspaceJoinRequestResolved" }

\* What members then do.
ConversationBodies ==
    { "WorkspaceCreated", "MemberInvited", "WorkspaceAccessPolicyUpdated",
      "ChannelCreated", "ChannelDetailsUpdated", "DeviceProfileUpdated",
      "PersonDeviceLinked", "PersonProfileUpdated", "DeviceKeyPackagePublished",
      "PeerEndpointPublished", "OpenMls", "ContentKeyEpochPublished",
      "MessageCreated", "MessageReplyCreated", "MessageEdited", "MessageDeleted",
      "ReactionAdded", "ReactionRemoved", "ReadMarkerUpdated" }

\* Two devices react to a message.
ReactionBodies ==
    { "WorkspaceCreated", "MemberInvited", "MemberRemoved", "ChannelCreated",
      "MessageCreated", "MessageEdited", "MessageDeleted", "ReactionAdded",
      "ReactionRemoved" }

RoleBodies == { "WorkspaceCreated", "MemberInvited", "MemberRoleUpdated", "MemberRemoved" }

=============================================================================
