---------------------------- MODULE AccessIndex ----------------------------
(***************************************************************************)
(* The authorization index of one workspace: WorkspaceAccessIndex of       *)
(* domain/core.  It is a value, not a state machine: `ix' is the index and *)
(* every event body contributes two operators, May<Body> (the body's arm   *)
(* of `authorize') and Apply<Body> (its arm of `apply_authorized',         *)
(* the trailing invite loop included).  WorkspaceState uses the operators  *)
(* one event at a time, ApplyBatch through the dispatch on an event.       *)
(*                                                                         *)
(* A HashMap is a total function whose missing keys map to None.  The pair *)
(* root_seen / root_device_id is one field, because every assignment sets  *)
(* both.  Payload limits are not part of the index: an event that fails    *)
(* them is never authorized in any state (see ApplyBatch, `broken').        *)
(***************************************************************************)
EXTENDS Naturals, FiniteSets

CONSTANTS
    Device,     \* signing devices, the principals of a workspace
    Channel,    \* channel ids that events may mention
    Message,    \* message ids
    Invite,     \* invite ids
    Request,    \* join request ids
    Person,     \* person ids
    EventId,    \* ids of signed events
    MaxClaims,  \* WORKSPACE_INVITE_MAX_CLAIMS
    None        \* the absent value of an Option or of a map lookup

ASSUME DeviceFinite == IsFiniteSet(Device)

ASSUME MaxClaimsPositive == MaxClaims \in Nat /\ MaxClaims >= 1

ASSUME NoneIsNoId ==
    /\ None \notin Device /\ None \notin Channel /\ None \notin Message
    /\ None \notin Invite /\ None \notin Request /\ None \notin Person
    /\ None \notin EventId

-----------------------------------------------------------------------------
(* Roles and what they may do.                                             *)

Role == {"Owner", "Admin", "Member", "Guest"}

\* The roles that only an owner may hand out or take away.
Privileged == {"Owner", "Admin"}

\* `require_role': the roles that may perform each action.
Allowed ==
    [ ManagePrivilegedRoles   |-> {"Owner"},
      InviteMember            |-> Privileged,
      ManageWorkspaceSettings |-> Privileged,
      ManageJoinRequests      |-> Privileged,
      UpdateMemberRole        |-> Privileged,
      RemoveMember            |-> Privileged,
      CreateChannel           |-> {"Owner", "Admin", "Member"},
      RotateContentKey        |-> Privileged,
      ManageOpenMlsGroup      |-> Privileged ]

-----------------------------------------------------------------------------
(* The index.                                                              *)

\* A device without a role is not a member.
ASSUME NoneIsNoRole == None \notin Role

ChannelAccess == [isPrivate : BOOLEAN, creator : Device, members : SUBSET Device]

MessageAccess == [channel : Channel, author : Device \cup {None}]

InviteAccess == [maxClaims : 1..MaxClaims, claimCount : 0..MaxClaims,
                 revoked : BOOLEAN, invitee : Device \cup {None}]

\* No access record is the absent value.
ASSUME NoneIsNoRecord ==
    None \notin ChannelAccess /\ None \notin MessageAccess /\ None \notin InviteAccess

Index == [root          : Device \cup {None},
          roles         : [Device -> Role \cup {None}],
          channels      : [Channel -> ChannelAccess \cup {None}],
          messages      : [Message -> MessageAccess \cup {None}],
          eventChannels : [EventId -> Channel \cup {None}],
          invites       : [Invite -> InviteAccess \cup {None}],
          joinRequests  : SUBSET Request,
          personLinks   : [Device -> Person \cup {None}]]

NewIndex == [root          |-> None,
             roles         |-> [d \in Device |-> None],
             channels      |-> [c \in Channel |-> None],
             messages      |-> [m \in Message |-> None],
             eventChannels |-> [e \in EventId |-> None],
             invites       |-> [i \in Invite |-> None],
             joinRequests  |-> {},
             personLinks   |-> [d \in Device |-> None]]

-----------------------------------------------------------------------------
(* The requirements that the arms of `authorize' share.                    *)

RootedMember(ix, d) == ix.root # None /\ ix.roles[d] # None

RequireRole(ix, d, action) == RootedMember(ix, d) /\ ix.roles[d] \in Allowed[action]

\* `require_channel_access': public channels are open, private ones list members.
ChannelAccessOk(ix, c, d) ==
    /\ ix.channels[c] # None
    /\ ~ix.channels[c].isPrivate \/ d \in ix.channels[c].members

\* `channel_accessible_to': the same question asked about a device that may
\* have left the workspace.
ChannelAccessibleTo(ix, c, d) == RootedMember(ix, d) /\ ChannelAccessOk(ix, c, d)

\* `require_channel_member_grant', for a member d of the workspace.
ChannelGrantOk(ix, c, d) ==
    /\ ix.channels[c] # None
    /\ \/ ~ix.channels[c].isPrivate
       \/ ix.channels[c].creator = d
       \/ ix.roles[d] \in Privileged

WorkspaceCommitter(ix, d) == ix.root # None /\ ix.root = d

ChannelCommitter(ix, c, d) == ix.channels[c] # None /\ ix.channels[c].creator = d

\* Mutant: looks at the device only, not at who else claims the person.
PersonLinkOkUnshared(ix, p, d, author) ==
    d = author /\ ix.personLinks[d] \in {p, None}

\* `require_person_device_link': one person per device, one device per person.
PersonLinkOk(ix, p, d, author) ==
    /\ d = author
    /\ \/ ix.personLinks[d] = p
       \/ /\ ix.personLinks[d] = None
          /\ \A x \in Device : ix.personLinks[x] # p

-----------------------------------------------------------------------------
(* The trailing loop of `apply_authorized': whatever a device does other   *)
(* than handling invites uses up every invite recorded for that device.    *)

\* Mutant: activity leaves the invites alone.
SettledNever(invites, author) == invites

Settled(invites, author) ==
    [i \in Invite |->
        IF invites[i] # None /\ invites[i].invitee = author
        THEN [invites[i] EXCEPT !.claimCount = invites[i].maxClaims]
        ELSE invites[i]]

SettleInvites(ix, author) == [ix EXCEPT !.invites = Settled(ix.invites, author)]

\* An authorized event that leaves only that trace.
ApplyNothing(ix, author) == SettleInvites(ix, author)

\* An authorized event that is remembered as an event of channel c, so that a
\* read marker may point at it.
ApplyInChannel(ix, author, c, e) ==
    SettleInvites([ix EXCEPT !.eventChannels[e] = c], author)

-----------------------------------------------------------------------------
(* Members.                                                                *)

MayCreateWorkspace(ix, a) == ix.root = None

ApplyWorkspaceCreated(ix, a) ==
    SettleInvites([ix EXCEPT !.root = a, !.roles[a] = "Owner"], a)

MayInvite(ix, a, r) ==
    RequireRole(ix, a, IF r \in Privileged THEN "ManagePrivilegedRoles" ELSE "InviteMember")

ApplyMemberInvited(ix, a, d, r) == SettleInvites([ix EXCEPT !.roles[d] = r], a)

MayUpdateMemberRole(ix, a, d, r) ==
    /\ RootedMember(ix, d)
    /\ ix.root # d
    /\ RequireRole(ix, a, IF r \in Privileged \/ ix.roles[d] \in Privileged
                          THEN "ManagePrivilegedRoles" ELSE "UpdateMemberRole")

ApplyMemberRoleUpdated(ix, a, d, r) == SettleInvites([ix EXCEPT !.roles[d] = r], a)

MayUpdateAccessPolicy(ix, a) == RequireRole(ix, a, "ManageWorkspaceSettings")

\* Mutant: no exception for the root device.
MayRemoveAnyMember(ix, a, d) ==
    /\ RootedMember(ix, d)
    /\ RequireRole(ix, a, IF ix.roles[d] \in Privileged
                          THEN "ManagePrivilegedRoles" ELSE "RemoveMember")

MayRemoveMember(ix, a, d) ==
    /\ RootedMember(ix, d)
    /\ ix.root # d
    /\ RequireRole(ix, a, IF ix.roles[d] \in Privileged
                          THEN "ManagePrivilegedRoles" ELSE "RemoveMember")

\* Mutant: the channels keep listing the device.
ApplyMemberRemovedKeepsChannels(ix, a, d) ==
    SettleInvites([ix EXCEPT !.roles[d] = None, !.personLinks[d] = None], a)

\* Removal also drops the device's person link and every channel membership.
ApplyMemberRemoved(ix, a, d) ==
    SettleInvites(
        [ix EXCEPT
            !.roles[d] = None,
            !.personLinks[d] = None,
            !.channels = [c \in Channel |->
                IF ix.channels[c] = None THEN None
                ELSE [ix.channels[c] EXCEPT !.members = ix.channels[c].members \ {d}]]],
        a)

-----------------------------------------------------------------------------
(* Invites and join requests.                                              *)

\* Mutant: zero is not raised to one.
EffectiveMaxClaimsUnclamped(m) == IF m = None THEN 1 ELSE m

\* effective_workspace_invite_max_claims of an optional count.
EffectiveMaxClaims(m) == IF m = None THEN 1 ELSE IF m = 0 THEN 1 ELSE m

ApplyInviteRecorded(ix, i, d) ==
    [ix EXCEPT !.invites[i] =
        [maxClaims |-> 1, claimCount |-> 0, revoked |-> FALSE, invitee |-> d]]

ApplyInviteCapabilityCreated(ix, i, m) ==
    [ix EXCEPT !.invites[i] =
        [maxClaims |-> EffectiveMaxClaims(m), claimCount |-> 0,
         revoked |-> FALSE, invitee |-> None]]

\* An invite that still admits somebody.
Claimable(ix, i) ==
    /\ ix.invites[i] # None
    /\ ~ix.invites[i].revoked
    /\ ix.invites[i].claimCount < ix.invites[i].maxClaims

MayClaimInvite(ix, a, i) == RequireRole(ix, a, "InviteMember") /\ Claimable(ix, i)

ApplyInviteClaimed(ix, i) ==
    [ix EXCEPT !.invites[i].claimCount = ix.invites[i].claimCount + 1]

MayResolveInvite(ix, a, i) == RequireRole(ix, a, "InviteMember") /\ ix.invites[i] # None

ApplyInviteResolved(ix, i) == [ix EXCEPT !.invites[i].revoked = TRUE]

MayRecordJoinRequest(ix, a) == RequireRole(ix, a, "ManageJoinRequests")

\* Mutant: the index does not remember the request.
ApplyJoinRequestForgotten(ix, a, q) == SettleInvites(ix, a)

ApplyJoinRequestRecorded(ix, a, q) ==
    SettleInvites([ix EXCEPT !.joinRequests = ix.joinRequests \cup {q}], a)

MayResolveJoinRequest(ix, a, q) ==
    RequireRole(ix, a, "ManageJoinRequests") /\ q \in ix.joinRequests

-----------------------------------------------------------------------------
(* Channels.                                                               *)

\* Mutant: a channel id may be used again.
MayCreateChannelAgain(ix, a, c) == RequireRole(ix, a, "CreateChannel")

MayCreateChannel(ix, a, c) == RequireRole(ix, a, "CreateChannel") /\ ix.channels[c] = None

ApplyChannelCreated(ix, a, c, private, e) ==
    ApplyInChannel(
        [ix EXCEPT !.channels[c] =
            [isPrivate |-> private, creator |-> a,
             members |-> IF private THEN {a} ELSE {}]],
        a, c, e)

\* Exactly two distinct participants, the author among them, all members.
MayCreateDirectMessage(ix, a, c, participants) ==
    /\ MayCreateChannel(ix, a, c)
    /\ Cardinality(participants) = 2
    /\ a \in participants
    /\ \A d \in participants : RootedMember(ix, d)

ApplyDirectMessageCreated(ix, a, c, participants, e) ==
    ApplyInChannel(
        [ix EXCEPT !.channels[c] =
            [isPrivate |-> TRUE, creator |-> a, members |-> participants \cup {a}]],
        a, c, e)

MayUpdateChannelDetails(ix, a, c) ==
    RequireRole(ix, a, "CreateChannel") /\ ChannelAccessOk(ix, c, a)

MayAddChannelMember(ix, a, c, d) ==
    RootedMember(ix, a) /\ RootedMember(ix, d) /\ ChannelGrantOk(ix, c, a)

ApplyChannelMemberAdded(ix, a, c, d, e) ==
    ApplyInChannel(
        [ix EXCEPT !.channels[c].members = ix.channels[c].members \cup {d}], a, c, e)

MayRemoveChannelMember(ix, a, c, d) ==
    /\ RootedMember(ix, a) /\ RootedMember(ix, d)
    /\ a = d \/ ChannelGrantOk(ix, c, a)
    /\ ChannelAccessOk(ix, c, d)

ApplyChannelMemberRemoved(ix, a, c, d, e) ==
    ApplyInChannel(
        [ix EXCEPT !.channels[c].members = ix.channels[c].members \ {d}], a, c, e)

-----------------------------------------------------------------------------
(* Devices and people.                                                     *)

\* Profiles, key packages and peer endpoints ask only for membership.
MayPublish(ix, a) == RootedMember(ix, a)

MayLinkPerson(ix, a, p, d) == RootedMember(ix, a) /\ PersonLinkOk(ix, p, d, a)

ApplyPersonDeviceLinked(ix, a, p, d) == SettleInvites([ix EXCEPT !.personLinks[d] = p], a)

MayUpdatePersonProfile(ix, a, p) == RootedMember(ix, a) /\ ix.personLinks[a] = p

-----------------------------------------------------------------------------
(* OpenMLS group changes and content key epochs.  Workspace groups are     *)
(* committed by the root device, channel groups by the channel's creator.  *)

MayAddToWorkspaceGroup(ix, a, d) ==
    /\ WorkspaceCommitter(ix, a) /\ RootedMember(ix, d)
    /\ RequireRole(ix, a, "ManageOpenMlsGroup")

MayRemoveFromWorkspaceGroup(ix, a, d) ==
    /\ WorkspaceCommitter(ix, a) /\ RootedMember(ix, d)
    /\ ix.root # d
    /\ RequireRole(ix, a, IF ix.roles[d] \in Privileged
                          THEN "ManagePrivilegedRoles" ELSE "ManageOpenMlsGroup")

MayUpdateWorkspaceGroup(ix, a) == WorkspaceCommitter(ix, a) /\ RootedMember(ix, a)

\* Adding to and removing from a channel group ask the same.
MayChangeChannelGroup(ix, a, c, d) ==
    /\ ChannelCommitter(ix, c, a)
    /\ RootedMember(ix, a) /\ RootedMember(ix, d)
    /\ ChannelGrantOk(ix, c, a)
    /\ ChannelAccessOk(ix, c, d)

MayUpdateChannelGroup(ix, a, c) ==
    ChannelCommitter(ix, c, a) /\ RootedMember(ix, a) /\ ChannelAccessOk(ix, c, a)

MayPublishWorkspaceKeyEpoch(ix, a) == RequireRole(ix, a, "RotateContentKey")

MayPublishChannelKeyEpoch(ix, a, c) == RootedMember(ix, a) /\ ChannelGrantOk(ix, c, a)

-----------------------------------------------------------------------------
(* Messages.  c is the channel the event itself carries.                   *)

MayPostMessage(ix, a, c) == RootedMember(ix, a) /\ ChannelAccessOk(ix, c, a)

MayReply(ix, a, c, target) ==
    /\ MayPostMessage(ix, a, c)
    /\ ix.messages[target] # None
    /\ ix.messages[target].channel = c

\* Mutant: the index learns about the event, not about the message.
ApplyMessageForgotten(ix, a, c, m, e) == ApplyInChannel(ix, a, c, e)

ApplyMessagePosted(ix, a, c, m, e) ==
    ApplyInChannel([ix EXCEPT !.messages[m] = [channel |-> c, author |-> a]], a, c, e)

MayReact(ix, a, c, m) ==
    /\ RootedMember(ix, a)
    /\ ix.messages[m] # None
    /\ ix.messages[m].channel = c
    /\ ChannelAccessOk(ix, ix.messages[m].channel, a)

\* Editing and deleting: the author only; a message whose author is unknown
\* (it came from a trust snapshot) can be changed by nobody.
MayChangeMessage(ix, a, c, m) ==
    MayReact(ix, a, c, m) /\ ix.messages[m].author = a

\* Mutant: any event can be marked as read in any channel.
MayMarkAnythingRead(ix, a, c, target) == RootedMember(ix, a) /\ ChannelAccessOk(ix, c, a)

MayMarkRead(ix, a, c, target) ==
    /\ RootedMember(ix, a)
    /\ ChannelAccessOk(ix, c, a)
    /\ ix.eventChannels[target] = c

=============================================================================
