------------------------- MODULE AccessIndexProofs -------------------------
(***************************************************************************)
(* What the operators of AccessIndex do to an index, field by field.       *)
(* WorkspaceStateProofs cites these lemmas and never looks inside them.    *)
(***************************************************************************)
EXTENDS AccessIndex, TLAPS

\* Two indexes that differ at most in their invites and event channels.
SameAccess(x, y) ==
    /\ y.root = x.root /\ y.roles = x.roles /\ y.channels = x.channels
    /\ y.messages = x.messages /\ y.joinRequests = x.joinRequests
    /\ y.personLinks = x.personLinks

\* The trailing loop of apply_authorized keeps the index well formed and
\* touches nothing but the invites.
LEMMA SettleInvitesFields ==
    ASSUME NEW x \in Index, NEW a \in Device
    PROVE  /\ SettleInvites(x, a) \in Index
           /\ SameAccess(x, SettleInvites(x, a))
           /\ SettleInvites(x, a).eventChannels = x.eventChannels
           /\ SettleInvites(x, a).invites = Settled(x.invites, a)
<1>1. Settled(x.invites, a) \in [Invite -> InviteAccess \cup {None}]
  <2> SUFFICES ASSUME NEW i \in Invite
               PROVE  Settled(x.invites, a)[i] \in InviteAccess \cup {None}
    BY DEF Settled
  <2>1. x.invites[i] \in InviteAccess \cup {None}
    BY DEF Index
  <2>2. CASE x.invites[i] # None /\ x.invites[i].invitee = a
    <3>1. Settled(x.invites, a)[i] = [x.invites[i] EXCEPT !.claimCount = x.invites[i].maxClaims]
      BY <2>2 DEF Settled
    <3>2. x.invites[i].maxClaims \in 0..MaxClaims
      BY <2>1, <2>2, MaxClaimsPositive DEF InviteAccess
    <3> QED BY <2>1, <2>2, <3>1, <3>2 DEF InviteAccess
  <2>3. CASE ~(x.invites[i] # None /\ x.invites[i].invitee = a)
    BY <2>1, <2>3 DEF Settled
  <2> QED BY <2>2, <2>3
<1> QED BY <1>1 DEF SettleInvites, SameAccess, Index

-----------------------------------------------------------------------------
(* The fields of the results, one lemma per Apply operator.                *)

\* An event that leaves no other trace.
LEMMA ApplyNothingFields ==
    ASSUME NEW x \in Index, NEW a \in Device
    PROVE  /\ ApplyNothing(x, a) \in Index
           /\ SameAccess(x, ApplyNothing(x, a))
           /\ ApplyNothing(x, a).eventChannels = x.eventChannels
           /\ ApplyNothing(x, a).invites = Settled(x.invites, a)
BY SettleInvitesFields DEF ApplyNothing

\* An event that is remembered as an event of its channel.
LEMMA ApplyInChannelFields ==
    ASSUME NEW x \in Index, NEW a \in Device, NEW c \in Channel, NEW e \in EventId
    PROVE  /\ ApplyInChannel(x, a, c, e) \in Index
           /\ SameAccess(x, ApplyInChannel(x, a, c, e))
           /\ ApplyInChannel(x, a, c, e).eventChannels = [x.eventChannels EXCEPT ![e] = c]
           /\ ApplyInChannel(x, a, c, e).invites = Settled(x.invites, a)
<1> DEFINE y == [x EXCEPT !.eventChannels[e] = c]
<1>1. y \in Index /\ SameAccess(x, y) /\ y.invites = x.invites
      /\ y.eventChannels = [x.eventChannels EXCEPT ![e] = c]
  BY DEF Index, SameAccess
<1> HIDE DEF y
<1>2. ApplyInChannel(x, a, c, e) = SettleInvites(y, a)
  BY DEF ApplyInChannel, y
<1> QED BY <1>1, <1>2, SettleInvitesFields DEF SameAccess

\* The workspace root: its author becomes the root and an owner.
LEMMA ApplyWorkspaceCreatedFields ==
    ASSUME NEW x \in Index, NEW a \in Device
    PROVE  LET z == ApplyWorkspaceCreated(x, a)
           IN  /\ z \in Index
               /\ z.root = a /\ z.roles = [x.roles EXCEPT ![a] = "Owner"]
               /\ z.channels = x.channels /\ z.messages = x.messages
               /\ z.joinRequests = x.joinRequests /\ z.personLinks = x.personLinks
               /\ z.eventChannels = x.eventChannels
               /\ z.invites = Settled(x.invites, a)
<1> DEFINE y == [x EXCEPT !.root = a, !.roles[a] = "Owner"]
<1>1. /\ y \in Index /\ y.root = a /\ y.roles = [x.roles EXCEPT ![a] = "Owner"]
      /\ y.channels = x.channels /\ y.messages = x.messages
      /\ y.joinRequests = x.joinRequests /\ y.personLinks = x.personLinks
      /\ y.eventChannels = x.eventChannels /\ y.invites = x.invites
  BY DEF Index, Role
<1> HIDE DEF y
<1>2. ApplyWorkspaceCreated(x, a) = SettleInvites(y, a)
  BY DEF ApplyWorkspaceCreated, y
<1> QED BY <1>1, <1>2, SettleInvitesFields DEF SameAccess

\* A role is set: an invitation and a role update do the same to the index.
LEMMA ApplyMemberInvitedFields ==
    ASSUME NEW x \in Index, NEW a \in Device, NEW d \in Device, NEW r \in Role
    PROVE  LET z == ApplyMemberInvited(x, a, d, r)
           IN  /\ z \in Index
               /\ z.root = x.root /\ z.roles = [x.roles EXCEPT ![d] = r]
               /\ z.channels = x.channels /\ z.messages = x.messages
               /\ z.joinRequests = x.joinRequests /\ z.personLinks = x.personLinks
               /\ z.eventChannels = x.eventChannels
               /\ z.invites = Settled(x.invites, a)
<1> DEFINE y == [x EXCEPT !.roles[d] = r]
<1>1. /\ y \in Index /\ y.root = x.root /\ y.roles = [x.roles EXCEPT ![d] = r]
      /\ y.channels = x.channels /\ y.messages = x.messages
      /\ y.joinRequests = x.joinRequests /\ y.personLinks = x.personLinks
      /\ y.eventChannels = x.eventChannels /\ y.invites = x.invites
  BY DEF Index
<1> HIDE DEF y
<1>2. ApplyMemberInvited(x, a, d, r) = SettleInvites(y, a)
  BY DEF ApplyMemberInvited, y
<1> QED BY <1>1, <1>2, SettleInvitesFields DEF SameAccess

\* The same for a role update.
LEMMA ApplyMemberRoleUpdatedFields ==
    ASSUME NEW x \in Index, NEW a \in Device, NEW d \in Device, NEW r \in Role
    PROVE  ApplyMemberRoleUpdated(x, a, d, r) = ApplyMemberInvited(x, a, d, r)
BY DEF ApplyMemberRoleUpdated, ApplyMemberInvited

\* The channels of an index without device d.
Without(chans, d) ==
    [c \in Channel |-> IF chans[c] = None THEN None
                       ELSE [chans[c] EXCEPT !.members = chans[c].members \ {d}]]

\* Removal clears the role, the person link and every channel membership.
LEMMA ApplyMemberRemovedFields ==
    ASSUME NEW x \in Index, NEW a \in Device, NEW d \in Device
    PROVE  LET z == ApplyMemberRemoved(x, a, d)
           IN  /\ z \in Index
               /\ z.root = x.root /\ z.roles = [x.roles EXCEPT ![d] = None]
               /\ z.channels = Without(x.channels, d) /\ z.messages = x.messages
               /\ z.joinRequests = x.joinRequests
               /\ z.personLinks = [x.personLinks EXCEPT ![d] = None]
               /\ z.eventChannels = x.eventChannels
               /\ z.invites = Settled(x.invites, a)
<1>1. Without(x.channels, d) \in [Channel -> ChannelAccess \cup {None}]
  <2> SUFFICES ASSUME NEW c \in Channel
               PROVE  Without(x.channels, d)[c] \in ChannelAccess \cup {None}
    BY DEF Without
  <2>1. x.channels[c] \in ChannelAccess \cup {None}
    BY DEF Index
  <2>2. CASE x.channels[c] = None
    BY <2>2 DEF Without
  <2>3. CASE x.channels[c] # None
    <3>1. Without(x.channels, d)[c]
            = [x.channels[c] EXCEPT !.members = x.channels[c].members \ {d}]
      BY <2>3 DEF Without
    <3> QED BY <2>1, <2>3, <3>1 DEF ChannelAccess
  <2> QED BY <2>2, <2>3
<1> DEFINE y == [x EXCEPT !.roles[d] = None, !.personLinks[d] = None,
                          !.channels = Without(x.channels, d)]
<1>2. /\ y \in Index /\ y.root = x.root /\ y.roles = [x.roles EXCEPT ![d] = None]
      /\ y.channels = Without(x.channels, d) /\ y.messages = x.messages
      /\ y.joinRequests = x.joinRequests
      /\ y.personLinks = [x.personLinks EXCEPT ![d] = None]
      /\ y.eventChannels = x.eventChannels /\ y.invites = x.invites
  BY <1>1 DEF Index
<1>3. ApplyMemberRemoved(x, a, d) = SettleInvites(y, a)
  BY DEF ApplyMemberRemoved, Without
<1> HIDE DEF y
<1> QED BY <1>2, <1>3, SettleInvitesFields DEF SameAccess

\* The optional claim limit of a capability is brought into 1..MaxClaims.
LEMMA EffectiveMaxClaimsType ==
    ASSUME NEW m \in 0..MaxClaims \cup {None}
    PROVE  EffectiveMaxClaims(m) \in 1..MaxClaims
BY MaxClaimsPositive DEF EffectiveMaxClaims

\* A recorded invite admits one device, the one it names.
LEMMA ApplyInviteRecordedFields ==
    ASSUME NEW x \in Index, NEW i \in Invite, NEW d \in Device
    PROVE  LET z == ApplyInviteRecorded(x, i, d)
           IN  /\ z \in Index /\ SameAccess(x, z) /\ z.eventChannels = x.eventChannels
               /\ z.invites = [x.invites EXCEPT ![i] =
                    [maxClaims |-> 1, claimCount |-> 0, revoked |-> FALSE, invitee |-> d]]
<1> DEFINE v == [maxClaims |-> 1, claimCount |-> 0, revoked |-> FALSE, invitee |-> d]
<1>1. v \in InviteAccess
  BY MaxClaimsPositive DEF InviteAccess
<1> HIDE DEF v
<1>2. [x EXCEPT !.invites[i] = v] \in Index
      /\ SameAccess(x, [x EXCEPT !.invites[i] = v])
      /\ [x EXCEPT !.invites[i] = v].eventChannels = x.eventChannels
      /\ [x EXCEPT !.invites[i] = v].invites = [x.invites EXCEPT ![i] = v]
  BY <1>1 DEF Index, SameAccess
<1>3. ApplyInviteRecorded(x, i, d) = [x EXCEPT !.invites[i] = v]
  BY DEF ApplyInviteRecorded, v
<1> QED BY <1>2, <1>3 DEF v

\* A capability invite names nobody.
LEMMA ApplyInviteCapabilityCreatedFields ==
    ASSUME NEW x \in Index, NEW i \in Invite, NEW m \in 0..MaxClaims \cup {None}
    PROVE  LET z == ApplyInviteCapabilityCreated(x, i, m)
           IN  /\ z \in Index /\ SameAccess(x, z) /\ z.eventChannels = x.eventChannels
               /\ z.invites = [x.invites EXCEPT ![i] =
                    [maxClaims |-> EffectiveMaxClaims(m), claimCount |-> 0,
                     revoked |-> FALSE, invitee |-> None]]
<1> DEFINE v == [maxClaims |-> EffectiveMaxClaims(m), claimCount |-> 0,
                 revoked |-> FALSE, invitee |-> None]
<1>1. v \in InviteAccess
  BY MaxClaimsPositive, EffectiveMaxClaimsType DEF InviteAccess
<1> HIDE DEF v
<1>2. [x EXCEPT !.invites[i] = v] \in Index
      /\ SameAccess(x, [x EXCEPT !.invites[i] = v])
      /\ [x EXCEPT !.invites[i] = v].eventChannels = x.eventChannels
      /\ [x EXCEPT !.invites[i] = v].invites = [x.invites EXCEPT ![i] = v]
  BY <1>1 DEF Index, SameAccess
<1>3. ApplyInviteCapabilityCreated(x, i, m) = [x EXCEPT !.invites[i] = v]
  BY DEF ApplyInviteCapabilityCreated, v
<1> QED BY <1>2, <1>3 DEF v

\* A claim adds one to the count, which stays within the limit.
LEMMA ApplyInviteClaimedFields ==
    ASSUME NEW x \in Index, NEW i \in Invite, Claimable(x, i)
    PROVE  LET z == ApplyInviteClaimed(x, i)
           IN  /\ z \in Index /\ SameAccess(x, z) /\ z.eventChannels = x.eventChannels
               /\ z.invites = [x.invites EXCEPT ![i] =
                    [x.invites[i] EXCEPT !.claimCount = x.invites[i].claimCount + 1]]
<1> DEFINE v == [x.invites[i] EXCEPT !.claimCount = x.invites[i].claimCount + 1]
<1>1. v \in InviteAccess
  <2>1. x.invites[i] \in InviteAccess
    BY DEF Index, Claimable
  <2>2. x.invites[i].claimCount + 1 \in 0..MaxClaims
    BY <2>1, MaxClaimsPositive DEF Claimable, InviteAccess
  <2> QED BY <2>1, <2>2 DEF InviteAccess
<1>2. ApplyInviteClaimed(x, i) = [x EXCEPT !.invites[i] = v]
  BY DEF ApplyInviteClaimed, Index
<1> HIDE DEF v
<1>3. [x EXCEPT !.invites[i] = v] \in Index
      /\ SameAccess(x, [x EXCEPT !.invites[i] = v])
      /\ [x EXCEPT !.invites[i] = v].eventChannels = x.eventChannels
      /\ [x EXCEPT !.invites[i] = v].invites = [x.invites EXCEPT ![i] = v]
  BY <1>1 DEF Index, SameAccess
<1> QED BY <1>2, <1>3 DEF v

\* Resolving an invite revokes it.
LEMMA ApplyInviteResolvedFields ==
    ASSUME NEW x \in Index, NEW i \in Invite, x.invites[i] # None
    PROVE  LET z == ApplyInviteResolved(x, i)
           IN  /\ z \in Index /\ SameAccess(x, z) /\ z.eventChannels = x.eventChannels
               /\ z.invites = [x.invites EXCEPT ![i] =
                    [x.invites[i] EXCEPT !.revoked = TRUE]]
<1> DEFINE v == [x.invites[i] EXCEPT !.revoked = TRUE]
<1>1. v \in InviteAccess
  BY DEF Index, InviteAccess
<1>2. ApplyInviteResolved(x, i) = [x EXCEPT !.invites[i] = v]
  BY DEF ApplyInviteResolved, Index
<1> HIDE DEF v
<1>3. [x EXCEPT !.invites[i] = v] \in Index
      /\ SameAccess(x, [x EXCEPT !.invites[i] = v])
      /\ [x EXCEPT !.invites[i] = v].eventChannels = x.eventChannels
      /\ [x EXCEPT !.invites[i] = v].invites = [x.invites EXCEPT ![i] = v]
  BY <1>1 DEF Index, SameAccess
<1> QED BY <1>2, <1>3 DEF v

\* A join request is remembered by its id.
LEMMA ApplyJoinRequestRecordedFields ==
    ASSUME NEW x \in Index, NEW a \in Device, NEW q \in Request
    PROVE  LET z == ApplyJoinRequestRecorded(x, a, q)
           IN  /\ z \in Index
               /\ z.root = x.root /\ z.roles = x.roles
               /\ z.channels = x.channels /\ z.messages = x.messages
               /\ z.joinRequests = x.joinRequests \cup {q}
               /\ z.personLinks = x.personLinks
               /\ z.eventChannels = x.eventChannels
               /\ z.invites = Settled(x.invites, a)
<1> DEFINE y == [x EXCEPT !.joinRequests = x.joinRequests \cup {q}]
<1>1. /\ y \in Index /\ y.root = x.root /\ y.roles = x.roles
      /\ y.channels = x.channels /\ y.messages = x.messages
      /\ y.joinRequests = x.joinRequests \cup {q} /\ y.personLinks = x.personLinks
      /\ y.eventChannels = x.eventChannels /\ y.invites = x.invites
  BY DEF Index
<1> HIDE DEF y
<1>2. ApplyJoinRequestRecorded(x, a, q) = SettleInvites(y, a)
  BY DEF ApplyJoinRequestRecorded, y
<1> QED BY <1>1, <1>2, SettleInvitesFields DEF SameAccess

\* Any channel event: the channel gets the access record v.
ChannelSet(x, c, v) == [x EXCEPT !.channels[c] = v]

\* A channel event with an effect on the channel's access record.
LEMMA ChannelSetFields ==
    ASSUME NEW x \in Index, NEW a \in Device, NEW c \in Channel, NEW e \in EventId,
           NEW v \in ChannelAccess
    PROVE  LET z == ApplyInChannel(ChannelSet(x, c, v), a, c, e)
           IN  /\ z \in Index
               /\ z.root = x.root /\ z.roles = x.roles
               /\ z.channels = [x.channels EXCEPT ![c] = v] /\ z.messages = x.messages
               /\ z.joinRequests = x.joinRequests /\ z.personLinks = x.personLinks
               /\ z.eventChannels = [x.eventChannels EXCEPT ![e] = c]
               /\ z.invites = Settled(x.invites, a)
<1>1. /\ ChannelSet(x, c, v) \in Index
      /\ ChannelSet(x, c, v).channels = [x.channels EXCEPT ![c] = v]
      /\ ChannelSet(x, c, v).root = x.root /\ ChannelSet(x, c, v).roles = x.roles
      /\ ChannelSet(x, c, v).messages = x.messages
      /\ ChannelSet(x, c, v).joinRequests = x.joinRequests
      /\ ChannelSet(x, c, v).personLinks = x.personLinks
      /\ ChannelSet(x, c, v).eventChannels = x.eventChannels
      /\ ChannelSet(x, c, v).invites = x.invites
  BY DEF ChannelSet, Index
<1> QED BY <1>1, ApplyInChannelFields DEF SameAccess

\* The access record of a new channel, and of one whose member list changed.
Opened(private, creator, M) == [isPrivate |-> private, creator |-> creator, members |-> M]

Relisted(v, M) == [v EXCEPT !.members = M]

\* Creating a channel is such an event.
LEMMA ApplyChannelCreatedIsSet ==
    ASSUME NEW x, NEW a, NEW c, NEW private, NEW e
    PROVE  ApplyChannelCreated(x, a, c, private, e) = ApplyInChannel(
                ChannelSet(x, c, Opened(private, a, IF private THEN {a} ELSE {})), a, c, e)
BY DEF ApplyChannelCreated, ChannelSet, Opened

\* So is creating a direct-message channel.
LEMMA ApplyDirectMessageCreatedIsSet ==
    ASSUME NEW x, NEW a, NEW c, NEW participants, NEW e
    PROVE  ApplyDirectMessageCreated(x, a, c, participants, e) = ApplyInChannel(
                ChannelSet(x, c, Opened(TRUE, a, participants \cup {a})), a, c, e)
BY DEF ApplyDirectMessageCreated, ChannelSet, Opened

\* Changing the members of a channel is writing its record.
LEMMA RelistingIsSet ==
    ASSUME NEW x \in Index, NEW c \in Channel, NEW S
    PROVE  [x EXCEPT !.channels[c].members = S] = ChannelSet(x, c, Relisted(x.channels[c], S))
BY DEF ChannelSet, Relisted, Index

\* A device is linked to a person.
LEMMA ApplyPersonDeviceLinkedFields ==
    ASSUME NEW x \in Index, NEW a \in Device, NEW p \in Person, NEW d \in Device
    PROVE  LET z == ApplyPersonDeviceLinked(x, a, p, d)
           IN  /\ z \in Index
               /\ z.root = x.root /\ z.roles = x.roles
               /\ z.channels = x.channels /\ z.messages = x.messages
               /\ z.joinRequests = x.joinRequests
               /\ z.personLinks = [x.personLinks EXCEPT ![d] = p]
               /\ z.eventChannels = x.eventChannels
               /\ z.invites = Settled(x.invites, a)
<1> DEFINE y == [x EXCEPT !.personLinks[d] = p]
<1>1. /\ y \in Index /\ y.root = x.root /\ y.roles = x.roles
      /\ y.channels = x.channels /\ y.messages = x.messages
      /\ y.joinRequests = x.joinRequests /\ y.personLinks = [x.personLinks EXCEPT ![d] = p]
      /\ y.eventChannels = x.eventChannels /\ y.invites = x.invites
  BY DEF Index
<1> HIDE DEF y
<1>2. ApplyPersonDeviceLinked(x, a, p, d) = SettleInvites(y, a)
  BY DEF ApplyPersonDeviceLinked, y
<1> QED BY <1>1, <1>2, SettleInvitesFields DEF SameAccess

\* A message is placed in the channel of its event.
LEMMA ApplyMessagePostedFields ==
    ASSUME NEW x \in Index, NEW a \in Device, NEW c \in Channel, NEW m \in Message,
           NEW e \in EventId
    PROVE  LET z == ApplyMessagePosted(x, a, c, m, e)
           IN  /\ z \in Index
               /\ z.root = x.root /\ z.roles = x.roles /\ z.channels = x.channels
               /\ z.messages = [x.messages EXCEPT ![m] = [channel |-> c, author |-> a]]
               /\ z.joinRequests = x.joinRequests /\ z.personLinks = x.personLinks
               /\ z.eventChannels = [x.eventChannels EXCEPT ![e] = c]
               /\ z.invites = Settled(x.invites, a)
<1> DEFINE y == [x EXCEPT !.messages[m] = [channel |-> c, author |-> a]]
<1>1. /\ y \in Index /\ y.root = x.root /\ y.roles = x.roles
      /\ y.channels = x.channels
      /\ y.messages = [x.messages EXCEPT ![m] = [channel |-> c, author |-> a]]
      /\ y.joinRequests = x.joinRequests /\ y.personLinks = x.personLinks
      /\ y.eventChannels = x.eventChannels /\ y.invites = x.invites
  BY DEF Index, MessageAccess
<1> HIDE DEF y
<1>2. ApplyMessagePosted(x, a, c, m, e) = ApplyInChannel(y, a, c, e)
  BY DEF ApplyMessagePosted, y
<1> QED BY <1>1, <1>2, ApplyInChannelFields DEF SameAccess

=============================================================================
