-------------------------- MODULE WorkspaceEvents --------------------------
(***************************************************************************)
(* Signed events as values, and the two functions of the access index that *)
(* dispatch on their bodies: authorize and apply_authorized.  An event is  *)
(* a record with at least body, author, parents and broken (its payload    *)
(* fails the size and shape checks that authorize makes first, whatever    *)
(* the index), and the fields its body needs: device, role, channel,       *)
(* private, participants, message, target, invite, request, claims, person.*)
(* The channel of a ContentKeyEpochPublished event is None for the scope   *)
(* of the whole workspace.                                                 *)
(***************************************************************************)
EXTENDS AccessIndex

\* Bodies that ask for membership only and leave the index as it is.
PlainBodies == {"DeviceProfileUpdated", "DeviceKeyPackagePublished", "PeerEndpointPublished"}

\* `authorize'.
Authorized(ix, ev) ==
    LET a == ev.author
        b == ev.body
    IN  /\ ~ev.broken
        /\ \/ b = "WorkspaceCreated" /\ MayCreateWorkspace(ix, a)
           \/ b \in {"MemberInvited", "WorkspaceInviteRecorded",
                     "WorkspaceInviteCapabilityCreated"} /\ MayInvite(ix, a, ev.role)
           \/ b = "MemberRoleUpdated" /\ MayUpdateMemberRole(ix, a, ev.device, ev.role)
           \/ b = "WorkspaceAccessPolicyUpdated" /\ MayUpdateAccessPolicy(ix, a)
           \/ b = "MemberRemoved" /\ MayRemoveMember(ix, a, ev.device)
           \/ b = "WorkspaceInviteClaimed" /\ MayClaimInvite(ix, a, ev.invite)
           \/ b = "WorkspaceInviteResolved" /\ MayResolveInvite(ix, a, ev.invite)
           \/ b = "WorkspaceJoinRequestRecorded" /\ MayRecordJoinRequest(ix, a)
           \/ b = "WorkspaceJoinRequestResolved" /\ MayResolveJoinRequest(ix, a, ev.request)
           \/ b = "ChannelCreated" /\ MayCreateChannel(ix, a, ev.channel)
           \/ b = "DirectMessageChannelCreated"
                /\ MayCreateDirectMessage(ix, a, ev.channel, ev.participants)
           \/ b = "ChannelDetailsUpdated" /\ MayUpdateChannelDetails(ix, a, ev.channel)
           \/ b = "ChannelMemberAdded" /\ MayAddChannelMember(ix, a, ev.channel, ev.device)
           \/ b = "ChannelMemberRemoved"
                /\ MayRemoveChannelMember(ix, a, ev.channel, ev.device)
           \/ b \in PlainBodies /\ MayPublish(ix, a)
           \/ b = "PersonDeviceLinked" /\ MayLinkPerson(ix, a, ev.person, ev.device)
           \/ b = "PersonProfileUpdated" /\ MayUpdatePersonProfile(ix, a, ev.person)
           \/ b = "OpenMlsWorkspaceGroupMemberAdded" /\ MayAddToWorkspaceGroup(ix, a, ev.device)
           \/ b = "OpenMlsWorkspaceGroupMemberRemoved"
                /\ MayRemoveFromWorkspaceGroup(ix, a, ev.device)
           \/ b = "OpenMlsWorkspaceGroupSelfUpdated" /\ MayUpdateWorkspaceGroup(ix, a)
           \/ b \in {"OpenMlsChannelGroupMemberAdded", "OpenMlsChannelGroupMemberRemoved"}
                /\ MayChangeChannelGroup(ix, a, ev.channel, ev.device)
           \/ b = "OpenMlsChannelGroupSelfUpdated" /\ MayUpdateChannelGroup(ix, a, ev.channel)
           \/ b = "ContentKeyEpochPublished"
                /\ IF ev.channel = None THEN MayPublishWorkspaceKeyEpoch(ix, a)
                   ELSE MayPublishChannelKeyEpoch(ix, a, ev.channel)
           \/ b = "MessageCreated" /\ MayPostMessage(ix, a, ev.channel)
           \/ b = "MessageReplyCreated" /\ MayReply(ix, a, ev.channel, ev.target)
           \/ b \in {"MessageEdited", "MessageDeleted"}
                /\ MayChangeMessage(ix, a, ev.channel, ev.message)
           \/ b \in {"ReactionAdded", "ReactionRemoved"}
                /\ MayReact(ix, a, ev.channel, ev.message)
           \/ b = "ReadMarkerUpdated" /\ MayMarkRead(ix, a, ev.channel, ev.target)

\* The errors of `authorize' that end a batch: a payload that no index accepts,
\* and a direct message that is not between its author and one other device,
\* which comes to light once its author may create the channel.
Malformed(ix, ev) ==
    \/ ev.broken
    \/ /\ ev.body = "DirectMessageChannelCreated"
       /\ MayCreateChannel(ix, ev.author, ev.channel)
       /\ ~(Cardinality(ev.participants) = 2 /\ ev.author \in ev.participants)

\* `apply_authorized', for the event with id e.
ApplyAuthorized(ix, ev, e) ==
    LET a == ev.author
        b == ev.body
    IN  CASE b = "WorkspaceCreated" -> ApplyWorkspaceCreated(ix, a)
          [] b = "MemberInvited" -> ApplyMemberInvited(ix, a, ev.device, ev.role)
          [] b = "MemberRoleUpdated" -> ApplyMemberRoleUpdated(ix, a, ev.device, ev.role)
          [] b = "MemberRemoved" -> ApplyMemberRemoved(ix, a, ev.device)
          [] b = "WorkspaceInviteRecorded" -> ApplyInviteRecorded(ix, ev.invite, ev.device)
          [] b = "WorkspaceInviteCapabilityCreated" ->
                ApplyInviteCapabilityCreated(ix, ev.invite, ev.claims)
          [] b = "WorkspaceInviteClaimed" -> ApplyInviteClaimed(ix, ev.invite)
          [] b = "WorkspaceInviteResolved" -> ApplyInviteResolved(ix, ev.invite)
          [] b = "WorkspaceJoinRequestRecorded" ->
                ApplyJoinRequestRecorded(ix, a, ev.request)
          [] b = "ChannelCreated" -> ApplyChannelCreated(ix, a, ev.channel, ev.private, e)
          [] b = "DirectMessageChannelCreated" ->
                ApplyDirectMessageCreated(ix, a, ev.channel, ev.participants, e)
          [] b = "ChannelMemberAdded" ->
                ApplyChannelMemberAdded(ix, a, ev.channel, ev.device, e)
          [] b = "ChannelMemberRemoved" ->
                ApplyChannelMemberRemoved(ix, a, ev.channel, ev.device, e)
          [] b = "PersonDeviceLinked" -> ApplyPersonDeviceLinked(ix, a, ev.person, ev.device)
          [] b \in {"MessageCreated", "MessageReplyCreated"} ->
                ApplyMessagePosted(ix, a, ev.channel, ev.message, e)
          [] b \in {"ChannelDetailsUpdated", "MessageEdited", "MessageDeleted",
                    "ReactionAdded", "ReactionRemoved", "ReadMarkerUpdated",
                    "OpenMlsChannelGroupMemberAdded", "OpenMlsChannelGroupMemberRemoved",
                    "OpenMlsChannelGroupSelfUpdated"} ->
                ApplyInChannel(ix, a, ev.channel, e)
          [] b = "ContentKeyEpochPublished" /\ ev.channel # None ->
                ApplyInChannel(ix, a, ev.channel, e)
          [] OTHER -> ApplyNothing(ix, a)

\* The events that define a channel.
CreatesChannel(ev) == ev.body \in {"ChannelCreated", "DirectMessageChannelCreated"}

\* The bodies that carry each field.
NamingDevice ==
    {"MemberInvited", "MemberRoleUpdated", "MemberRemoved", "WorkspaceInviteRecorded",
     "ChannelMemberAdded", "ChannelMemberRemoved", "PersonDeviceLinked",
     "OpenMlsWorkspaceGroupMemberAdded", "OpenMlsWorkspaceGroupMemberRemoved",
     "OpenMlsChannelGroupMemberAdded", "OpenMlsChannelGroupMemberRemoved"}
NamingRole ==
    {"MemberInvited", "MemberRoleUpdated", "WorkspaceInviteRecorded",
     "WorkspaceInviteCapabilityCreated"}
NamingInvite ==
    {"WorkspaceInviteRecorded", "WorkspaceInviteCapabilityCreated",
     "WorkspaceInviteClaimed", "WorkspaceInviteResolved"}
NamingChannel ==
    {"ChannelCreated", "DirectMessageChannelCreated", "ChannelDetailsUpdated",
     "ChannelMemberAdded", "ChannelMemberRemoved", "OpenMlsChannelGroupMemberAdded",
     "OpenMlsChannelGroupMemberRemoved", "OpenMlsChannelGroupSelfUpdated",
     "MessageCreated", "MessageReplyCreated", "MessageEdited", "MessageDeleted",
     "ReactionAdded", "ReactionRemoved", "ReadMarkerUpdated"}
NamingMessage ==
    {"MessageCreated", "MessageReplyCreated", "MessageEdited", "MessageDeleted",
     "ReactionAdded", "ReactionRemoved"}

\* A deserialized event: every field that its body carries has its type.
IsEvent(ev) ==
    /\ ev.author \in Device /\ ev.broken \in BOOLEAN
    /\ ev.parents \subseteq EventId /\ IsFiniteSet(ev.parents)
    /\ ev.body \in NamingDevice => ev.device \in Device
    /\ ev.body \in NamingRole => ev.role \in Role
    /\ ev.body \in NamingInvite => ev.invite \in Invite
    /\ ev.body = "WorkspaceInviteCapabilityCreated" => ev.claims \in 0..MaxClaims \cup {None}
    /\ ev.body \in {"WorkspaceJoinRequestRecorded", "WorkspaceJoinRequestResolved"}
            => ev.request \in Request
    /\ ev.body \in NamingChannel => ev.channel \in Channel
    /\ ev.body = "ContentKeyEpochPublished" => ev.channel \in Channel \cup {None}
    /\ ev.body = "ChannelCreated" => ev.private \in BOOLEAN
    /\ ev.body = "DirectMessageChannelCreated" => ev.participants \subseteq Device
    /\ ev.body \in NamingMessage => ev.message \in Message
    /\ ev.body = "MessageReplyCreated" => ev.target \in Message
    /\ ev.body = "ReadMarkerUpdated" => ev.target \in EventId
    /\ ev.body \in {"PersonDeviceLinked", "PersonProfileUpdated"} => ev.person \in Person

=============================================================================
