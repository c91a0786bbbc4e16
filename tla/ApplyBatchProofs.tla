-------------------------- MODULE ApplyBatchProofs --------------------------
(***************************************************************************)
(* apply_batch for every history and every batch: events are applied once  *)
(* and after their parents, a channel that is defined twice is opened for  *)
(* nobody, and the report accounts for every event that is not applied.    *)
(***************************************************************************)
EXTENDS ApplyBatch, AccessIndexProofs, SelectionProofs

-----------------------------------------------------------------------------
(* What one authorized event does to the channels of an index.             *)

\* From index x to index z, channels get access records or events only if
\* they have a record already or are in C.
OpensOnly(x, z, C) ==
    /\ z \in Index
    /\ \A c \in Channel \ C : x.channels[c] = None =>
         /\ z.channels[c] = None
         /\ \A g \in EventId : z.eventChannels[g] = c => x.eventChannels[g] = c

\* The channel that an event defines.
Defined(ev) == IF CreatesChannel(ev) THEN {ev.channel} ELSE {}

\* An index with the same channels and event channels.
LEMMA SameChannelsOpenNothing ==
    ASSUME NEW x \in Index, NEW z \in Index, NEW C,
           z.channels = x.channels, z.eventChannels = x.eventChannels
    PROVE  OpensOnly(x, z, C)
BY DEF OpensOnly

\* An event of a channel that exists.
LEMMA ChannelEventOpensNothing ==
    ASSUME NEW x \in Index, NEW z \in Index, NEW C,
           NEW c \in Channel, NEW e \in EventId, x.channels[c] # None \/ c \in C,
           \A k \in Channel \ {c} : z.channels[k] = x.channels[k],
           z.eventChannels = [x.eventChannels EXCEPT ![e] = c]
    PROVE  OpensOnly(x, z, C)
<1>1. x.eventChannels \in [EventId -> Channel \cup {None}]
  BY DEF Index
<1> QED BY <1>1 DEF OpensOnly

\* Setting a role, and linking a device to a person.
LEMMA MemberArms ==
    ASSUME NEW x \in Index, NEW a \in Device, NEW d \in Device, NEW C
    PROVE  /\ \A r \in Role : OpensOnly(x, ApplyMemberInvited(x, a, d, r), C)
           /\ \A r \in Role : OpensOnly(x, ApplyMemberRoleUpdated(x, a, d, r), C)
           /\ \A p \in Person : OpensOnly(x, ApplyPersonDeviceLinked(x, a, p, d), C)
<1>1. ASSUME NEW r \in Role
      PROVE  OpensOnly(x, ApplyMemberInvited(x, a, d, r), C)
  <2> DEFINE z == ApplyMemberInvited(x, a, d, r)
  <2>1. /\ z \in Index
        /\ z.root = x.root /\ z.roles = [x.roles EXCEPT ![d] = r]
        /\ z.channels = x.channels /\ z.messages = x.messages
        /\ z.joinRequests = x.joinRequests /\ z.personLinks = x.personLinks
        /\ z.eventChannels = x.eventChannels
        /\ z.invites = Settled(x.invites, a)
    BY ApplyMemberInvitedFields
  <2> QED BY <2>1, SameChannelsOpenNothing
<1>2. ASSUME NEW r \in Role
      PROVE  OpensOnly(x, ApplyMemberRoleUpdated(x, a, d, r), C)
  BY <1>1, ApplyMemberRoleUpdatedFields
<1>3. ASSUME NEW p \in Person
      PROVE  OpensOnly(x, ApplyPersonDeviceLinked(x, a, p, d), C)
  <2> DEFINE z == ApplyPersonDeviceLinked(x, a, p, d)
  <2>1. /\ z \in Index
        /\ z.root = x.root /\ z.roles = x.roles
        /\ z.channels = x.channels /\ z.messages = x.messages
        /\ z.joinRequests = x.joinRequests
        /\ z.personLinks = [x.personLinks EXCEPT ![d] = p]
        /\ z.eventChannels = x.eventChannels
        /\ z.invites = Settled(x.invites, a)
    BY ApplyPersonDeviceLinkedFields
  <2> QED BY <2>1, SameChannelsOpenNothing
<1> QED BY <1>1, <1>2, <1>3

\* Events about members, invites and join requests.
LEMMA WorkspaceArms ==
    ASSUME NEW x \in Index, NEW ev, NEW e \in EventId, IsEvent(ev), Authorized(x, ev),
           ev.body \in {"WorkspaceCreated", "MemberInvited", "MemberRoleUpdated",
                        "MemberRemoved", "WorkspaceInviteRecorded",
                        "WorkspaceInviteCapabilityCreated", "WorkspaceInviteClaimed",
                        "WorkspaceInviteResolved", "WorkspaceJoinRequestRecorded",
                        "PersonDeviceLinked"}
    PROVE  OpensOnly(x, ApplyAuthorized(x, ev, e), Defined(ev))
<1> DEFINE z == ApplyAuthorized(x, ev, e)
           a == ev.author
           d == ev.device
           r == ev.role
           p == ev.person
<1>0. a \in Device
  BY DEF IsEvent
<1> SUFFICES OpensOnly(x, z, Defined(ev))
  OBVIOUS
<1> HIDE DEF z, a, d, r, p
<1>1. CASE ev.body = "WorkspaceCreated"
  <2>1. z = ApplyWorkspaceCreated(x, a)
    BY <1>1 DEF ApplyAuthorized, z, a, d, r, p
  <2>2. z \in Index /\ z.channels = x.channels /\ z.eventChannels = x.eventChannels
    BY <1>0, <2>1, ApplyWorkspaceCreatedFields
  <2> QED BY <2>2, SameChannelsOpenNothing
<1>2. CASE ev.body = "MemberInvited"
  <2>1. z = ApplyMemberInvited(x, a, d, r)
    BY <1>2 DEF ApplyAuthorized, z, a, d, r, p
  <2>2. d \in Device /\ r \in Role
    BY <1>2 DEF IsEvent, d, r, p, NamingDevice, NamingRole
  <2> QED BY <1>0, <2>1, <2>2, MemberArms
<1>3. CASE ev.body = "MemberRoleUpdated"
  <2>1. z = ApplyMemberRoleUpdated(x, a, d, r)
    BY <1>3 DEF ApplyAuthorized, z, a, d, r, p
  <2>2. d \in Device /\ r \in Role
    BY <1>3 DEF IsEvent, d, r, p, NamingDevice, NamingRole
  <2> QED BY <1>0, <2>1, <2>2, MemberArms
<1>4. CASE ev.body = "MemberRemoved"
  <2>1. z = ApplyMemberRemoved(x, a, d)
    BY <1>4 DEF ApplyAuthorized, z, a, d, r, p
  <2>2. d \in Device
    BY <1>4 DEF IsEvent, d, r, p, NamingDevice
  <2>3. /\ z \in Index /\ z.eventChannels = x.eventChannels
        /\ z.channels = Without(x.channels, d)
    BY <1>0, <2>1, <2>2, ApplyMemberRemovedFields
  <2>4. \A c \in Channel : x.channels[c] = None => z.channels[c] = None
    BY <2>3 DEF Without
  <2> QED BY <2>3, <2>4 DEF OpensOnly
<1>5. CASE ev.body = "WorkspaceInviteRecorded"
  <2>1. z = ApplyInviteRecorded(x, ev.invite, d)
    BY <1>5 DEF ApplyAuthorized, z, a, d, r, p
  <2>2. d \in Device /\ ev.invite \in Invite
    BY <1>5 DEF IsEvent, d, r, p, NamingDevice, NamingInvite
  <2> QED BY <2>1, <2>2, ApplyInviteRecordedFields, SameChannelsOpenNothing DEF SameAccess
<1>6. CASE ev.body = "WorkspaceInviteCapabilityCreated"
  <2>1. z = ApplyInviteCapabilityCreated(x, ev.invite, ev.claims)
    BY <1>6 DEF ApplyAuthorized, z, a, d, r, p
  <2>2. ev.claims \in 0..MaxClaims \cup {None} /\ ev.invite \in Invite
    BY <1>6 DEF IsEvent, d, r, p, NamingInvite
  <2> QED BY <2>1, <2>2, ApplyInviteCapabilityCreatedFields, SameChannelsOpenNothing
          DEF SameAccess
<1>7. CASE ev.body = "WorkspaceInviteClaimed"
  <2>1. z = ApplyInviteClaimed(x, ev.invite)
    BY <1>7 DEF ApplyAuthorized, z, a, d, r, p
  <2>2. ev.invite \in Invite
    BY <1>7 DEF IsEvent, d, r, p, NamingInvite
  <2>3. Claimable(x, ev.invite)
    BY <1>7 DEF Authorized, MayClaimInvite, PlainBodies
  <2> QED BY <2>1, <2>2, <2>3, ApplyInviteClaimedFields, SameChannelsOpenNothing
          DEF SameAccess
<1>8. CASE ev.body = "WorkspaceInviteResolved"
  <2>1. z = ApplyInviteResolved(x, ev.invite)
    BY <1>8 DEF ApplyAuthorized, z, a, d, r, p
  <2>2. ev.invite \in Invite
    BY <1>8 DEF IsEvent, d, r, p, NamingInvite
  <2>3. x.invites[ev.invite] # None
    BY <1>8 DEF Authorized, MayResolveInvite, PlainBodies
  <2> QED BY <2>1, <2>2, <2>3, ApplyInviteResolvedFields, SameChannelsOpenNothing
          DEF SameAccess
<1>9. CASE ev.body = "WorkspaceJoinRequestRecorded"
  <2>1. z = ApplyJoinRequestRecorded(x, a, ev.request)
    BY <1>9 DEF ApplyAuthorized, z, a, d, r, p
  <2>2. ev.request \in Request
    BY <1>9 DEF IsEvent, d, r, p
  <2> QED BY <1>0, <2>1, <2>2, ApplyJoinRequestRecordedFields, SameChannelsOpenNothing
<1>10. CASE ev.body = "PersonDeviceLinked"
  <2>1. z = ApplyPersonDeviceLinked(x, a, p, d)
    BY <1>10 DEF ApplyAuthorized, z, a, d, r, p
  <2>2. p \in Person /\ d \in Device
    BY <1>10 DEF IsEvent, d, r, p, NamingDevice
  <2> QED BY <1>0, <2>1, <2>2, MemberArms
<1> QED BY <1>1, <1>2, <1>3, <1>4, <1>5, <1>6, <1>7, <1>8, <1>9, <1>10

\* Whatever happens in a channel, other than defining it, needs its record.
LEMMA ChannelEventsNeedTheirChannel ==
    ASSUME NEW x \in Index, NEW ev, Authorized(x, ev),
           \/ ev.body \in NamingChannel /\ ~CreatesChannel(ev)
           \/ ev.body = "ContentKeyEpochPublished" /\ ev.channel # None
    PROVE  x.channels[ev.channel] # None
<1>1. CASE ev.body = "ChannelDetailsUpdated"
  BY <1>1 DEF Authorized, PlainBodies, MayUpdateChannelDetails, ChannelAccessOk
<1>2. CASE ev.body = "ChannelMemberAdded"
  BY <1>2 DEF Authorized, PlainBodies, MayAddChannelMember, ChannelGrantOk
<1>3. CASE ev.body = "ChannelMemberRemoved"
  BY <1>3 DEF Authorized, PlainBodies, MayRemoveChannelMember, ChannelAccessOk
<1>4. CASE ev.body \in {"OpenMlsChannelGroupMemberAdded", "OpenMlsChannelGroupMemberRemoved"}
  BY <1>4 DEF Authorized, PlainBodies, MayChangeChannelGroup, ChannelCommitter
<1>5. CASE ev.body = "OpenMlsChannelGroupSelfUpdated"
  BY <1>5 DEF Authorized, PlainBodies, MayUpdateChannelGroup, ChannelCommitter
<1>6. CASE ev.body = "MessageCreated"
  BY <1>6 DEF Authorized, PlainBodies, MayPostMessage, ChannelAccessOk
<1>7. CASE ev.body = "MessageReplyCreated"
  BY <1>7 DEF Authorized, PlainBodies, MayReply, MayPostMessage, ChannelAccessOk
<1>8. CASE ev.body \in {"MessageEdited", "MessageDeleted"}
  BY <1>8 DEF Authorized, PlainBodies, MayChangeMessage, MayReact, ChannelAccessOk
<1>9. CASE ev.body \in {"ReactionAdded", "ReactionRemoved"}
  BY <1>9 DEF Authorized, PlainBodies, MayReact, ChannelAccessOk
<1>10. CASE ev.body = "ReadMarkerUpdated"
  BY <1>10 DEF Authorized, PlainBodies, MayMarkRead, ChannelAccessOk
<1>11. CASE ev.body = "ContentKeyEpochPublished" /\ ev.channel # None
  BY <1>11 DEF Authorized, PlainBodies, MayPublishChannelKeyEpoch, ChannelGrantOk
<1> QED BY <1>1, <1>2, <1>3, <1>4, <1>5, <1>6, <1>7, <1>8, <1>9, <1>10, <1>11
        DEF NamingChannel, CreatesChannel

\* Writing the access record of a channel.
LEMMA ChannelSetOpensOnly ==
    ASSUME NEW x \in Index, NEW a \in Device, NEW c \in Channel, NEW e \in EventId,
           NEW v \in ChannelAccess, NEW C, x.channels[c] # None \/ c \in C
    PROVE  OpensOnly(x, ApplyInChannel(ChannelSet(x, c, v), a, c, e), C)
<1> DEFINE z == ApplyInChannel(ChannelSet(x, c, v), a, c, e)
<1>1. /\ z \in Index
      /\ z.root = x.root /\ z.roles = x.roles
      /\ z.channels = [x.channels EXCEPT ![c] = v] /\ z.messages = x.messages
      /\ z.joinRequests = x.joinRequests /\ z.personLinks = x.personLinks
      /\ z.eventChannels = [x.eventChannels EXCEPT ![e] = c]
      /\ z.invites = Settled(x.invites, a)
  BY ChannelSetFields
<1> HIDE DEF z
<1>2. x.channels \in [Channel -> ChannelAccess \cup {None}]
  BY DEF Index
<1>3. \A k \in Channel \ {c} : z.channels[k] = x.channels[k]
  BY <1>1, <1>2
<1>4. OpensOnly(x, z, C)
  BY <1>1, <1>3, ChannelEventOpensNothing
<1> QED BY <1>4 DEF z

\* Changing the members of a channel that exists.
LEMMA RelistingOpensNothing ==
    ASSUME NEW x \in Index, NEW a \in Device, NEW c \in Channel, NEW e \in EventId,
           NEW M \in SUBSET Device, NEW C, x.channels[c] # None
    PROVE  OpensOnly(x, ApplyInChannel([x EXCEPT !.channels[c].members = M], a, c, e), C)
<1>1. x.channels[c] \in ChannelAccess
  BY DEF Index
<1>2. Relisted(x.channels[c], M) \in ChannelAccess
  BY <1>1 DEF Relisted, ChannelAccess
<1> QED BY <1>2, RelistingIsSet, ChannelSetOpensOnly

\* Events that are only remembered for their channel, and messages.
LEMMA RememberedOpensNothing ==
    ASSUME NEW x \in Index, NEW a \in Device, NEW c \in Channel, NEW e \in EventId,
           NEW C, x.channels[c] # None
    PROVE  /\ OpensOnly(x, ApplyInChannel(x, a, c, e), C)
           /\ \A m \in Message : OpensOnly(x, ApplyMessagePosted(x, a, c, m, e), C)
<1>1. OpensOnly(x, ApplyInChannel(x, a, c, e), C)
  <2> DEFINE z == ApplyInChannel(x, a, c, e)
  <2>1. /\ z \in Index /\ SameAccess(x, z)
        /\ z.eventChannels = [x.eventChannels EXCEPT ![e] = c]
        /\ z.invites = Settled(x.invites, a)
    BY ApplyInChannelFields
  <2> HIDE DEF z
  <2>2. OpensOnly(x, z, C)
    BY <2>1, ChannelEventOpensNothing DEF SameAccess
  <2> QED BY <2>2 DEF z
<1>2. ASSUME NEW m \in Message
      PROVE  OpensOnly(x, ApplyMessagePosted(x, a, c, m, e), C)
  <2> DEFINE z == ApplyMessagePosted(x, a, c, m, e)
  <2>1. /\ z \in Index
        /\ z.root = x.root /\ z.roles = x.roles /\ z.channels = x.channels
        /\ z.messages = [x.messages EXCEPT ![m] = [channel |-> c, author |-> a]]
        /\ z.joinRequests = x.joinRequests /\ z.personLinks = x.personLinks
        /\ z.eventChannels = [x.eventChannels EXCEPT ![e] = c]
        /\ z.invites = Settled(x.invites, a)
    BY ApplyMessagePostedFields
  <2> HIDE DEF z
  <2>2. OpensOnly(x, z, C)
    BY <2>1, ChannelEventOpensNothing
  <2> QED BY <2>2 DEF z
<1> QED BY <1>1, <1>2

\* Events about channels and what is said in them.
LEMMA ChannelArms ==
    ASSUME NEW x \in Index, NEW ev, NEW e \in EventId, IsEvent(ev), Authorized(x, ev),
           ev.body \in NamingChannel
    PROVE  OpensOnly(x, ApplyAuthorized(x, ev, e), Defined(ev))
<1> DEFINE z == ApplyAuthorized(x, ev, e)
           a == ev.author
           c == ev.channel
           C == Defined(ev)
<1>0. a \in Device /\ c \in Channel
  BY DEF IsEvent
<1>1. ~CreatesChannel(ev) => x.channels[c] # None
  BY ChannelEventsNeedTheirChannel
<1> SUFFICES OpensOnly(x, z, C)
  OBVIOUS
<1>2. CASE ev.body = "ChannelCreated"
  <2>1. z = ApplyInChannel(
              ChannelSet(x, c, Opened(ev.private, a, IF ev.private THEN {a} ELSE {})), a, c, e)
    BY <1>2, ApplyChannelCreatedIsSet DEF ApplyAuthorized
  <2>2. Opened(ev.private, a, IF ev.private THEN {a} ELSE {}) \in ChannelAccess
    BY <1>0, <1>2 DEF Opened, ChannelAccess, IsEvent
  <2>3. c \in C
    BY <1>2 DEF Defined, CreatesChannel
  <2> HIDE DEF z, a, c, C
  <2> QED BY <1>0, <2>1, <2>2, <2>3, ChannelSetOpensOnly
<1>3. CASE ev.body = "DirectMessageChannelCreated"
  <2>1. z = ApplyInChannel(
              ChannelSet(x, c, Opened(TRUE, a, ev.participants \cup {a})), a, c, e)
    BY <1>3, ApplyDirectMessageCreatedIsSet DEF ApplyAuthorized
  <2>2. Opened(TRUE, a, ev.participants \cup {a}) \in ChannelAccess
    BY <1>0, <1>3 DEF Opened, ChannelAccess, IsEvent
  <2>3. c \in C
    BY <1>3 DEF Defined, CreatesChannel
  <2> HIDE DEF z, a, c, C
  <2> QED BY <1>0, <2>1, <2>2, <2>3, ChannelSetOpensOnly
<1>4. CASE ev.body \in {"ChannelMemberAdded", "ChannelMemberRemoved"}
  <2>1. x.channels[c] # None
    BY <1>1, <1>4 DEF CreatesChannel
  <2>2. x.channels[c] \in ChannelAccess
    BY <1>0, <2>1 DEF Index
  <2>3. ev.device \in Device
    BY <1>4 DEF IsEvent, NamingDevice
  <2>4. /\ x.channels[c].members \cup {ev.device} \in SUBSET Device
        /\ x.channels[c].members \ {ev.device} \in SUBSET Device
    BY <2>2, <2>3 DEF ChannelAccess
  <2>5. \E M \in SUBSET Device :
           z = ApplyInChannel([x EXCEPT !.channels[c].members = M], a, c, e)
    <3>1. CASE ev.body = "ChannelMemberAdded"
      BY <2>4, <3>1 DEF ApplyAuthorized, ApplyChannelMemberAdded
    <3>2. CASE ev.body = "ChannelMemberRemoved"
      BY <2>4, <3>2 DEF ApplyAuthorized, ApplyChannelMemberRemoved
    <3> QED BY <1>4, <3>1, <3>2
  <2> HIDE DEF z, a, c, C
  <2> QED BY <1>0, <2>1, <2>5, RelistingOpensNothing
<1>5. CASE ev.body \in {"MessageCreated", "MessageReplyCreated"}
  <2>1. x.channels[c] # None
    BY <1>1, <1>5 DEF CreatesChannel
  <2>2. z = ApplyMessagePosted(x, a, c, ev.message, e)
    BY <1>5 DEF ApplyAuthorized
  <2>3. ev.message \in Message
    BY <1>5 DEF IsEvent, NamingMessage
  <2> HIDE DEF z, a, c, C
  <2> QED BY <1>0, <2>1, <2>2, <2>3, RememberedOpensNothing
<1>6. CASE ev.body \in NamingChannel \ {"ChannelCreated", "DirectMessageChannelCreated",
                                      "ChannelMemberAdded", "ChannelMemberRemoved",
                                      "MessageCreated", "MessageReplyCreated"}
  <2>1. x.channels[c] # None
    BY <1>1, <1>6 DEF CreatesChannel
  <2>2. z = ApplyInChannel(x, a, c, e)
    BY <1>6 DEF ApplyAuthorized, NamingChannel
  <2> HIDE DEF z, a, c, C
  <2> QED BY <1>0, <2>1, <2>2, RememberedOpensNothing
<1> QED BY <1>2, <1>3, <1>4, <1>5, <1>6 DEF NamingChannel

\* An authorized event opens no channel but the one it defines.
LEMMA ApplyAuthorizedOpensOnly ==
    ASSUME NEW x \in Index, NEW ev, NEW e \in EventId, IsEvent(ev), Authorized(x, ev)
    PROVE  OpensOnly(x, ApplyAuthorized(x, ev, e), Defined(ev))
<1> DEFINE z == ApplyAuthorized(x, ev, e)
           a == ev.author
           workspace == {"WorkspaceCreated", "MemberInvited", "MemberRoleUpdated",
                         "MemberRemoved", "WorkspaceInviteRecorded",
                         "WorkspaceInviteCapabilityCreated", "WorkspaceInviteClaimed",
                         "WorkspaceInviteResolved", "WorkspaceJoinRequestRecorded",
                         "PersonDeviceLinked"}
<1>1. CASE ev.body \in workspace
  BY <1>1, WorkspaceArms
<1>2. CASE ev.body \in NamingChannel
  BY <1>2, ChannelArms
<1>3. CASE ev.body = "ContentKeyEpochPublished" /\ ev.channel # None
  <2>1. x.channels[ev.channel] # None
    BY <1>3, ChannelEventsNeedTheirChannel
  <2>2. z = ApplyInChannel(x, a, ev.channel, e)
    BY <1>3 DEF ApplyAuthorized
  <2>3. ev.channel \in Channel /\ a \in Device
    BY <1>3 DEF IsEvent
  <2> HIDE DEF z, a
  <2>4. OpensOnly(x, z, Defined(ev))
    BY <2>1, <2>2, <2>3, RememberedOpensNothing
  <2> QED BY <2>4 DEF z
<1>4. CASE /\ ev.body \notin workspace \cup NamingChannel
           /\ ~(ev.body = "ContentKeyEpochPublished" /\ ev.channel # None)
  <2>1. z = ApplyNothing(x, a)
    BY <1>4 DEF ApplyAuthorized, NamingChannel
  <2>2. a \in Device
    BY DEF IsEvent
  <2> HIDE DEF z, a
  <2>3. /\ z \in Index /\ SameAccess(x, z)
        /\ z.eventChannels = x.eventChannels
        /\ z.invites = Settled(x.invites, a)
    BY <2>1, <2>2, ApplyNothingFields
  <2>4. OpensOnly(x, z, Defined(ev))
    BY <2>3, SameChannelsOpenNothing DEF SameAccess
  <2> QED BY <2>4 DEF z
<1> QED BY <1>1, <1>2, <1>3, <1>4

-----------------------------------------------------------------------------
(* The inductive invariant.                                                *)

OnQueue == Range(stable) \cup dynamic \cup nextRound \cup Range(deferred)

BatchTypeOK ==
    /\ batch \in Seq(EventId) /\ \A e \in EventId : IsEvent(history[e])
    /\ ix \in Index /\ log \in Seq(EventId)
    /\ pending \subseteq Positions
    /\ missing \in [Positions -> Nat] /\ earliest \in [Positions -> Nat]
    /\ waiting \in [Ids(batch) -> SUBSET Positions]
    /\ stable \in Seq(Positions) /\ deferred \in Seq(Positions)
    /\ dynamic \subseteq Positions /\ nextRound \subseteq Positions
    /\ round \in Nat /\ progressed \in BOOLEAN
    /\ outcome \in {"running", "error", "done"}

\* The counters count the parents that are not applied, present or not.
CountsAreExact ==
    \A j \in Positions : missing[j] = Cardinality(EventAt(j).parents \ Applied)

\* An event that is not applied knows every position that waits for it.
WaitersAreExact ==
    \A e \in Ids(batch) :
        waiting[e] = IF e \in Applied THEN {} ELSE {i \in Positions : e \in EventAt(i).parents}

Eligible(j) == EventAt(j).parents \subseteq Applied /\ ~Conflicting(history, batch, batch[j])

QueuedAreEligible == \A j \in OnQueue : Eligible(j)

\* No position is forgotten: one that is eligible is on some queue.
EligibleAreQueued == \A j \in pending : Eligible(j) => j \in OnQueue

AppliedAreEligible ==
    \A e \in Applied : /\ e \in Ids(batch) /\ history[e].parents \subseteq Applied
                       /\ ~Conflicting(history, batch, e)

FinishedAreApplied == \A j \in Positions \ pending : batch[j] \in Applied

\* In a round without progress, what was deferred is still not authorized.
DeferredAreFresh ==
    ~progressed =>
        /\ nextRound = {}
        /\ \A j \in Range(deferred) : /\ batch[j] \notin Applied
                                      /\ ~Authorized(ix, EventAt(j))

\* A channel has an access record, or events, only if an applied event defines it.
ChannelsAreDefined ==
    \A c \in Channel : (\A e \in Applied : c \notin Defined(history[e])) =>
        ix.channels[c] = None /\ \A g \in EventId : ix.eventChannels[g] # c

Inv ==
    /\ BatchTypeOK /\ CountsAreExact /\ WaitersAreExact
    /\ QueuedAreEligible /\ EligibleAreQueued
    /\ AppliedAreEligible /\ FinishedAreApplied /\ DeferredAreFresh
    /\ ChannelsAreDefined /\ CausalOrder /\ NothingLeftBehind

-----------------------------------------------------------------------------
(* The queues of a round.                                                  *)

\* What is taken next is on a queue of the round.
LEMMA NextPositionIsQueued ==
    ASSUME BatchTypeOK, InRound
    PROVE  /\ NextPosition \in Range(stable) \cup dynamic
           /\ NextPosition \in Positions /\ NextPosition \in OnQueue
<1>1. CASE StableIsNext
  <2>1. NextPosition = stable[1] /\ 1 \in DOMAIN stable
    BY <1>1 DEF NextPosition, StableIsNext, BatchTypeOK
  <2> QED BY <2>1 DEF Range, BatchTypeOK, OnQueue
<1>2. CASE ~StableIsNext
  <2>1. dynamic # {}
    BY <1>2 DEF StableIsNext, InRound
  <2>2. dynamic \in SUBSET Nat
    BY DEF BatchTypeOK, Positions
  <2>3. LeastOf(dynamic) \in dynamic
    BY <2>1, <2>2, LeastNat DEF LeastOf
  <2> QED BY <1>2, <2>3 DEF NextPosition, BatchTypeOK, OnQueue
<1> QED BY <1>1, <1>2

\* Taking it off leaves everything else.
LEMMA TakeKeepsTheRest ==
    ASSUME BatchTypeOK, InRound, NEW woken \in SUBSET Positions, Take(woken)
    PROVE  /\ stable' \in Seq(Positions) /\ dynamic' \subseteq Positions
           /\ Range(stable') \cup dynamic' \subseteq Range(stable) \cup dynamic \cup woken
           /\ ((Range(stable) \cup dynamic) \ {NextPosition}) \cup woken
                    \subseteq Range(stable') \cup dynamic'
<1>1. CASE StableIsNext
  <2>1. /\ stable # <<>> /\ NextPosition = stable[1]
        /\ stable' = Tail(stable) /\ dynamic' = dynamic \cup woken
    BY <1>1 DEF StableIsNext, NextPosition, Take, BatchTypeOK
  <2>2. /\ Tail(stable) \in Seq(Positions) /\ Len(Tail(stable)) = Len(stable) - 1
        /\ \A k \in 1..Len(Tail(stable)) : Tail(stable)[k] = stable[k + 1]
        /\ Len(stable) \in Nat
    BY <2>1, HeadTailProperties DEF BatchTypeOK
  <2>3. /\ Range(stable) = {stable[k] : k \in 1..Len(stable)}
        /\ Range(Tail(stable)) = {Tail(stable)[k] : k \in 1..Len(Tail(stable))}
    BY <2>2, RangeEquality DEF BatchTypeOK
  <2>4. Range(Tail(stable)) \subseteq Range(stable)
    <3>1. \A k \in 1..Len(Tail(stable)) : k + 1 \in 1..Len(stable)
      BY <2>2
    <3> QED BY <2>2, <2>3, <3>1
  <2>5. Range(stable) \ {stable[1]} \subseteq Range(Tail(stable))
    <3> SUFFICES ASSUME NEW k \in 1..Len(stable), stable[k] # stable[1]
                 PROVE  stable[k] \in Range(Tail(stable))
      BY <2>3
    <3>1. k - 1 \in 1..Len(Tail(stable)) /\ Tail(stable)[k - 1] = stable[k]
      BY <2>2
    <3> QED BY <2>3, <3>1
  <2> QED BY <2>1, <2>2, <2>4, <2>5 DEF BatchTypeOK
<1>2. CASE ~StableIsNext
  BY <1>2 DEF Take, NextPosition, BatchTypeOK
<1> QED BY <1>1, <1>2

\* What depends on the input and the state alone.
LEMMA QuietKeeps ==
    ASSUME Inv, UNCHANGED <<input, state, index>>
    PROVE  /\ Positions' = Positions /\ Applied' = Applied
           /\ \A j : EventAt(j)' = EventAt(j) /\ (Eligible(j)' <=> Eligible(j))
           /\ CountsAreExact' /\ WaitersAreExact' /\ AppliedAreEligible'
           /\ ChannelsAreDefined' /\ CausalOrder'
<1>1. UNCHANGED <<history, batch, ix, log, missing, earliest, waiting>>
  BY DEF input, state, index
<1>2. Positions' = Positions /\ Applied' = Applied
  BY <1>1 DEF Positions, Applied
<1>3. \A j : EventAt(j)' = EventAt(j) /\ (Eligible(j)' <=> Eligible(j))
  BY <1>1, <1>2 DEF EventAt, Eligible
<1>4. CountsAreExact' /\ WaitersAreExact'
  BY <1>1, <1>2 DEF Inv, CountsAreExact, WaitersAreExact, EventAt
<1>5. AppliedAreEligible' /\ ChannelsAreDefined' /\ CausalOrder'
  BY <1>1, <1>2 DEF Inv, AppliedAreEligible, ChannelsAreDefined, CausalOrder
<1> QED BY <1>2, <1>3, <1>4, <1>5

-----------------------------------------------------------------------------
(* One lemma per action.                                                   *)

\* The ascending sequence of a set of positions lists all of it.
LEMMA AscendingListsAll ==
    ASSUME NEW n \in Nat, NEW S \in SUBSET (1..n), NEW s \in Ascending(S)
    PROVE  s \in Seq(S) /\ Range(s) = S
<1>1. IsFiniteSet(S) /\ Cardinality(S) \in Nat
  <2>1. IsFiniteSet(1..n)
    BY FS_Interval
  <2>2. IsFiniteSet(S)
    BY <2>1, FS_Subset
  <2> QED BY <2>2, FS_CardinalityType
<1>2. s \in [1..Cardinality(S) -> S]
  BY DEF Ascending
<1>3. s \in Seq(S)
  BY <1>1, <1>2
<1>4. s \in Injection(1..Cardinality(S), S)
  <2> SUFFICES ASSUME NEW j \in 1..Cardinality(S), NEW k \in 1..Cardinality(S), j # k
               PROVE  s[j] # s[k]
    BY <1>2 DEF Injection, IsInjective
  <2>1. j < k \/ k < j
    BY <1>1
  <2>2. s[j] < s[k] \/ s[k] < s[j]
    BY <2>1 DEF Ascending
  <2>3. s[j] \in S /\ s[k] \in S
    BY <1>2
  <2>4. \A m \in S : m \in Nat
    OBVIOUS
  <2>5. s[j] \in Nat /\ s[k] \in Nat
    BY <2>3, <2>4, Zenon
  <2> QED BY <2>2, <2>5
<1>5. IsFiniteSet(1..Cardinality(S)) /\ Cardinality(1..Cardinality(S)) = Cardinality(S)
  BY <1>1, FS_Interval
<1>6. s \in Surjection(1..Cardinality(S), S)
  BY <1>1, <1>4, <1>5, FS_Injection
<1> QED BY <1>2, <1>3, <1>6 DEF Surjection, Range

\* The first round starts from the events without parents.
LEMMA InitInv == Init => Inv
<1> SUFFICES ASSUME Init
             PROVE  Inv
  OBVIOUS
<1>1. batch \in Seq(EventId) /\ \A e \in EventId : IsEvent(history[e])
  BY InputsAreTyped DEF Init
<1>2. Len(batch) \in Nat /\ \A j \in Positions : batch[j] \in EventId
  BY <1>1 DEF Positions
<1>3. Applied = {} /\ log \in Seq(EventId)
  BY DEF Init, Applied
<1>4. \A j \in Positions : IsFiniteSet(EventAt(j).parents)
                         /\ Cardinality(EventAt(j).parents) \in Nat
  BY <1>1, <1>2, FS_CardinalityType DEF IsEvent, EventAt
<1> DEFINE first == {j \in Positions : /\ EventAt(j).parents = {}
                                       /\ ~Conflicting(history, batch, batch[j])}
<1>5. stable \in Seq(first) /\ Range(stable) = first
  <2>1. first \in SUBSET (1..Len(batch)) /\ stable \in Ascending(first)
    BY DEF Init, Positions
  <2> HIDE DEF first
  <2> QED BY <1>2, <2>1, AscendingListsAll
<1>6. OnQueue = first
  BY <1>5 DEF OnQueue, Init, Range
<1>7. ix \in Index
  BY DEF Init, NewIndex, Index
<1>8. BatchTypeOK
  <2>1. stable \in Seq(Positions)
    BY <1>5, SeqMonotonic
  <2>2. missing \in [Positions -> Nat] /\ earliest \in [Positions -> Nat]
    BY <1>4 DEF Init
  <2>3. waiting \in [Ids(batch) -> SUBSET Positions]
    BY DEF Init
  <2>4. deferred \in Seq(Positions)
    BY DEF Init
  <2> QED BY <1>1, <1>3, <1>7, <2>1, <2>2, <2>3, <2>4 DEF BatchTypeOK, Init
<1>9. CountsAreExact /\ WaitersAreExact
  <2>1. \A j \in Positions : EventAt(j).parents \ Applied = EventAt(j).parents
    BY <1>3
  <2>2. CountsAreExact
    BY <2>1 DEF Init, CountsAreExact
  <2> QED BY <1>3, <2>2 DEF Init, WaitersAreExact
<1>10. QueuedAreEligible /\ EligibleAreQueued
  BY <1>3, <1>6, <1>8 DEF QueuedAreEligible, EligibleAreQueued, Eligible, BatchTypeOK
<1>11. AppliedAreEligible /\ FinishedAreApplied
  BY <1>3 DEF AppliedAreEligible, FinishedAreApplied, Init
<1>12. DeferredAreFresh
  BY DEF DeferredAreFresh, Init, Range
<1>13. ChannelsAreDefined
  BY NoneIsNoId DEF ChannelsAreDefined, Init, NewIndex
<1>14. CausalOrder /\ NothingLeftBehind
  BY DEF CausalOrder, NothingLeftBehind, Init
<1> QED BY <1>8, <1>9, <1>10, <1>11, <1>12, <1>13, <1>14 DEF Inv

\* An event that came twice.
LEMMA SkipAppliedInv == Inv /\ SkipApplied => Inv'
<1> SUFFICES ASSUME Inv, SkipApplied
             PROVE  Inv'
  OBVIOUS
<1> DEFINE i == NextPosition
<1>1. /\ InRound /\ batch[i] \in Applied /\ pending' = pending \ {i} /\ Take({})
      /\ UNCHANGED <<input, state, index>>
      /\ UNCHANGED <<history, batch, ix, log, missing, earliest, waiting>>
      /\ UNCHANGED <<nextRound, deferred, round, progressed, gaps, outcome>>
  BY DEF SkipApplied, input, state, index
<1>2. BatchTypeOK /\ outcome = "running"
  BY <1>1 DEF Inv, InRound
<1>3. i \in Positions /\ i \in OnQueue
  BY <1>1, <1>2, NextPositionIsQueued
<1>4. /\ stable' \in Seq(Positions) /\ dynamic' \subseteq Positions
      /\ OnQueue' \subseteq OnQueue /\ OnQueue \ {i} \subseteq OnQueue'
  BY <1>1, <1>2, TakeKeepsTheRest DEF OnQueue
<1>5. /\ Positions' = Positions /\ Applied' = Applied
      /\ \A j : EventAt(j)' = EventAt(j) /\ (Eligible(j)' <=> Eligible(j))
      /\ CountsAreExact' /\ WaitersAreExact' /\ AppliedAreEligible'
      /\ ChannelsAreDefined' /\ CausalOrder'
  BY <1>1, QuietKeeps
<1> HIDE DEF i
<1>6. BatchTypeOK'
  BY <1>1, <1>2, <1>4, <1>5 DEF BatchTypeOK
<1>7. QueuedAreEligible' /\ EligibleAreQueued'
  BY <1>1, <1>4, <1>5 DEF Inv, QueuedAreEligible, EligibleAreQueued
<1>8. FinishedAreApplied'
  BY <1>1, <1>5 DEF Inv, FinishedAreApplied
<1>9. DeferredAreFresh'
  BY <1>1, <1>5 DEF Inv, DeferredAreFresh
<1>10. NothingLeftBehind'
  BY <1>1, <1>2 DEF NothingLeftBehind
<1> QED BY <1>5, <1>6, <1>7, <1>8, <1>9, <1>10 DEF Inv

\* An event that is not authorized moves to the next round.
LEMMA DeferInv == Inv /\ Defer => Inv'
<1> SUFFICES ASSUME Inv, Defer
             PROVE  Inv'
  OBVIOUS
<1> DEFINE i == NextPosition
<1>1. /\ InRound /\ batch[i] \notin Applied /\ ~Authorized(ix, EventAt(i))
      /\ deferred' = Append(deferred, i) /\ Take({})
      /\ UNCHANGED <<input, state, index>>
      /\ UNCHANGED <<history, batch, ix, log, missing, earliest, waiting>>
      /\ UNCHANGED <<pending, nextRound, round, progressed, gaps, outcome>>
  BY DEF Defer, input, state, index
<1>2. BatchTypeOK /\ outcome = "running"
  BY <1>1 DEF Inv, InRound
<1>3. i \in Positions /\ i \in OnQueue
  BY <1>1, <1>2, NextPositionIsQueued
<1> HIDE DEF i
<1>4. deferred' \in Seq(Positions) /\ Range(deferred') = Range(deferred) \cup {i}
  <2>1. /\ deferred \in Seq(Positions) /\ deferred' \in Seq(Positions)
        /\ Len(deferred') = Len(deferred) + 1 /\ Len(deferred) \in Nat
        /\ \A k \in 1..Len(deferred) : deferred'[k] = deferred[k]
        /\ deferred'[Len(deferred) + 1] = i
    BY <1>1, <1>2, <1>3, AppendProperties DEF BatchTypeOK
  <2>2. /\ Range(deferred) = {deferred[k] : k \in 1..Len(deferred)}
        /\ Range(deferred') = {deferred'[k] : k \in 1..Len(deferred')}
    BY <2>1, RangeEquality
  <2> QED BY <2>1, <2>2
<1>5. /\ stable' \in Seq(Positions) /\ dynamic' \subseteq Positions
      /\ OnQueue' = OnQueue
  BY <1>1, <1>2, <1>3, <1>4, TakeKeepsTheRest DEF OnQueue, i
<1>6. /\ Positions' = Positions /\ Applied' = Applied
      /\ \A j : EventAt(j)' = EventAt(j) /\ (Eligible(j)' <=> Eligible(j))
      /\ CountsAreExact' /\ WaitersAreExact' /\ AppliedAreEligible'
      /\ ChannelsAreDefined' /\ CausalOrder'
  BY <1>1, QuietKeeps
<1>7. BatchTypeOK'
  BY <1>1, <1>2, <1>4, <1>5, <1>6 DEF BatchTypeOK
<1>8. QueuedAreEligible' /\ EligibleAreQueued'
  BY <1>1, <1>5, <1>6 DEF Inv, QueuedAreEligible, EligibleAreQueued
<1>9. FinishedAreApplied'
  BY <1>1, <1>6 DEF Inv, FinishedAreApplied
<1>10. DeferredAreFresh'
  BY <1>1, <1>4, <1>6 DEF Inv, DeferredAreFresh
<1>11. NothingLeftBehind'
  BY <1>1, <1>2 DEF NothingLeftBehind
<1> QED BY <1>6, <1>7, <1>8, <1>9, <1>10, <1>11 DEF Inv

\* An invalid payload ends the call.
LEMMA AbortInv == Inv /\ Abort => Inv'
<1> SUFFICES ASSUME Inv, Abort
             PROVE  Inv'
  OBVIOUS
<1>1. /\ outcome' = "error" /\ UNCHANGED <<input, state, index>>
      /\ UNCHANGED <<history, batch, ix, log, missing, earliest, waiting>>
      /\ UNCHANGED <<pending, stable, dynamic, nextRound, deferred, round, progressed, gaps>>
  BY DEF Abort, input, state, index
<1>2. OnQueue' = OnQueue
  BY <1>1 DEF OnQueue
<1>3. /\ Positions' = Positions /\ Applied' = Applied
      /\ \A j : EventAt(j)' = EventAt(j) /\ (Eligible(j)' <=> Eligible(j))
      /\ CountsAreExact' /\ WaitersAreExact' /\ AppliedAreEligible'
      /\ ChannelsAreDefined' /\ CausalOrder'
  BY <1>1, QuietKeeps
<1>4. BatchTypeOK'
  BY <1>1, <1>3 DEF Inv, BatchTypeOK
<1>5. QueuedAreEligible' /\ EligibleAreQueued' /\ FinishedAreApplied' /\ DeferredAreFresh'
  BY <1>1, <1>2, <1>3 DEF Inv, QueuedAreEligible, EligibleAreQueued, FinishedAreApplied,
                          DeferredAreFresh
<1>6. NothingLeftBehind'
  BY <1>1 DEF NothingLeftBehind
<1> QED BY <1>3, <1>4, <1>5, <1>6 DEF Inv

\* A new round takes over what the last one left.
LEMMA NewRoundInv == Inv /\ NewRound => Inv'
<1> SUFFICES ASSUME Inv, NewRound
             PROVE  Inv'
  OBVIOUS
<1>1. /\ stable = <<>> /\ dynamic = {} /\ outcome = "running"
      /\ stable' = deferred /\ dynamic' = nextRound /\ nextRound' = {} /\ deferred' = <<>>
      /\ progressed' = FALSE /\ round' = round + 1 /\ UNCHANGED <<input, state, index>>
      /\ UNCHANGED <<history, batch, ix, log, missing, earliest, waiting>>
      /\ UNCHANGED <<pending, gaps, outcome>>
  BY DEF NewRound, RoundOver, input, state, index
<1>2. Range(stable) = {} /\ Range(deferred') = {}
  BY <1>1 DEF Range
<1>3. OnQueue' = OnQueue
  BY <1>1, <1>2 DEF OnQueue
<1>4. /\ Positions' = Positions /\ Applied' = Applied
      /\ \A j : EventAt(j)' = EventAt(j) /\ (Eligible(j)' <=> Eligible(j))
      /\ CountsAreExact' /\ WaitersAreExact' /\ AppliedAreEligible'
      /\ ChannelsAreDefined' /\ CausalOrder'
  BY <1>1, QuietKeeps
<1>5. BatchTypeOK'
  <2>1. <<>> \in Seq(Positions)
    OBVIOUS
  <2>2. stable' \in Seq(Positions') /\ deferred' \in Seq(Positions')
    BY <1>1, <1>4, <2>1 DEF Inv, BatchTypeOK
  <2>3. dynamic' \subseteq Positions' /\ nextRound' \subseteq Positions'
    BY <1>1, <1>4 DEF Inv, BatchTypeOK
  <2>4. round' \in Nat
    BY <1>1 DEF Inv, BatchTypeOK
  <2>5. progressed' \in BOOLEAN
    BY <1>1
  <2> QED BY <1>1, <1>4, <2>2, <2>3, <2>4, <2>5 DEF Inv, BatchTypeOK
<1>6. QueuedAreEligible' /\ EligibleAreQueued' /\ FinishedAreApplied'
  BY <1>1, <1>3, <1>4 DEF Inv, QueuedAreEligible, EligibleAreQueued, FinishedAreApplied
<1>7. DeferredAreFresh'
  BY <1>1, <1>2 DEF DeferredAreFresh
<1>8. NothingLeftBehind'
  BY <1>1 DEF NothingLeftBehind
<1> QED BY <1>4, <1>5, <1>6, <1>7, <1>8 DEF Inv

\* The report.
LEMMA FinishInv == Inv /\ Finish => Inv'
<1> SUFFICES ASSUME Inv, Finish
             PROVE  Inv'
  OBVIOUS
<1>1. /\ stable = <<>> /\ dynamic = {} /\ Stop
      /\ gaps' = {[event |-> batch[j], lacks |-> EventAt(j).parents \ Applied] : j \in pending}
      /\ outcome' = "done" /\ UNCHANGED <<input, state, index>>
      /\ UNCHANGED <<history, batch, ix, log, missing, earliest, waiting>>
      /\ UNCHANGED <<pending, stable, dynamic, nextRound, deferred, round, progressed>>
  BY DEF Finish, RoundOver, input, state, index
<1>2. OnQueue' = OnQueue
  BY <1>1 DEF OnQueue
<1>3. /\ Positions' = Positions /\ Applied' = Applied
      /\ \A j : EventAt(j)' = EventAt(j) /\ (Eligible(j)' <=> Eligible(j))
      /\ CountsAreExact' /\ WaitersAreExact' /\ AppliedAreEligible'
      /\ ChannelsAreDefined' /\ CausalOrder'
  BY <1>1, QuietKeeps
<1>4. BatchTypeOK'
  BY <1>1, <1>3 DEF Inv, BatchTypeOK
<1>5. QueuedAreEligible' /\ EligibleAreQueued' /\ FinishedAreApplied' /\ DeferredAreFresh'
  BY <1>1, <1>2, <1>3 DEF Inv, QueuedAreEligible, EligibleAreQueued, FinishedAreApplied,
                          DeferredAreFresh
<1>6. \A j \in OnQueue : batch[j] \notin Applied /\ ~Authorized(ix, EventAt(j))
  <2>1. Range(stable) = {}
    BY <1>1 DEF Range
  <2>2. CASE ~progressed
    BY <1>1, <2>1, <2>2 DEF Inv, DeferredAreFresh, OnQueue
  <2>3. CASE ~MoreToDo
    BY <1>1, <2>1, <2>3 DEF MoreToDo, OnQueue, Range
  <2> QED BY <1>1, <2>2, <2>3 DEF Stop
<1>7. \A j \in pending : /\ batch[j] \notin Applied
                       /\ \/ EventAt(j).parents \ Applied # {}
                          \/ Conflicting(history, batch, batch[j])
                          \/ ~Authorized(ix, EventAt(j))
  <2> SUFFICES ASSUME NEW j \in pending
               PROVE  /\ batch[j] \notin Applied
                      /\ \/ EventAt(j).parents \ Applied # {}
                         \/ Conflicting(history, batch, batch[j])
                         \/ ~Authorized(ix, EventAt(j))
    OBVIOUS
  <2>1. CASE Eligible(j)
    BY <1>6, <2>1 DEF Inv, EligibleAreQueued
  <2>2. CASE ~Eligible(j)
    BY <2>2 DEF Inv, AppliedAreEligible, Eligible, EventAt
  <2> QED BY <2>1, <2>2
<1>8. NothingLeftBehind'
  <2>1. {g.event : g \in gaps'} = Ids(batch) \ Applied
    <3>1. ASSUME NEW g \in gaps'
          PROVE  g.event \in Ids(batch) \ Applied
      <4>1. PICK j \in pending :
                g = [event |-> batch[j], lacks |-> EventAt(j).parents \ Applied]
        BY <1>1
      <4> QED BY <1>7, <4>1 DEF Inv, BatchTypeOK, Ids, Positions
    <3>2. ASSUME NEW e \in Ids(batch) \ Applied
          PROVE  \E g \in gaps' : g.event = e
      <4>1. PICK j \in Positions : e = batch[j]
        BY DEF Ids, Positions
      <4>2. j \in pending
        BY <4>1 DEF Inv, FinishedAreApplied
      <4>3. [event |-> batch[j], lacks |-> EventAt(j).parents \ Applied] \in gaps'
        BY <1>1, <4>2
      <4> QED BY <4>1, <4>3
    <3> QED BY <3>1, <3>2
  <2>2. ASSUME NEW g \in gaps'
        PROVE  \/ g.lacks # {}
               \/ \E f \in Ids(batch) : DefineTheSame(g.event, f)
               \/ ~Authorized(ix, history[g.event])
    <3>1. PICK j \in pending :
              g = [event |-> batch[j], lacks |-> EventAt(j).parents \ Applied]
      BY <1>1
    <3>2. g.event = batch[j] /\ g.lacks = EventAt(j).parents \ Applied
      BY <3>1
    <3> QED BY <1>7, <3>2 DEF Conflicting, DefineTheSame, EventAt
  <2>3. \A e, f : DefineTheSame(e, f)' <=> DefineTheSame(e, f)
    BY <1>1 DEF DefineTheSame
  <2> QED BY <1>1, <1>3, <2>1, <2>2, <2>3 DEF NothingLeftBehind
<1> QED BY <1>3, <1>4, <1>5, <1>8 DEF Inv

\* A sequence after Append.
LEMMA AppendRange ==
    ASSUME NEW X, NEW s \in Seq(X), NEW x \in X
    PROVE  /\ Append(s, x) \in Seq(X)
           /\ {Append(s, x)[k] : k \in 1..Len(Append(s, x))} = {s[k] : k \in 1..Len(s)} \cup {x}
<1>1. /\ Append(s, x) \in Seq(X) /\ Len(Append(s, x)) = Len(s) + 1 /\ Len(s) \in Nat
      /\ \A k \in 1..Len(s) : Append(s, x)[k] = s[k]
      /\ Append(s, x)[Len(s) + 1] = x
  BY AppendProperties
<1> HIDE DEF Append
<1>2. ASSUME NEW k \in 1..Len(Append(s, x))
      PROVE  Append(s, x)[k] \in {s[m] : m \in 1..Len(s)} \cup {x}
  BY <1>1
<1>3. ASSUME NEW k \in 1..Len(s)
      PROVE  s[k] \in {Append(s, x)[m] : m \in 1..Len(Append(s, x))}
  <2>1. k \in 1..Len(Append(s, x)) /\ Append(s, x)[k] = s[k]
    BY <1>1
  <2> QED BY <2>1
<1>4. x \in {Append(s, x)[m] : m \in 1..Len(Append(s, x))}
  <2>1. Len(s) + 1 \in 1..Len(Append(s, x))
    BY <1>1
  <2> QED BY <1>1, <2>1
<1> QED BY <1>1, <1>2, <1>3, <1>4

\* An applied event is counted off the positions that wait for it, and those it
\* was the last missing parent of are put on a queue.
LEMMA ApplyReadyInv == Inv /\ ApplyReady => Inv'
<1> SUFFICES ASSUME Inv, ApplyReady
             PROVE  Inv'
  OBVIOUS
<1> DEFINE i        == NextPosition
           e        == batch[i]
           children == waiting[e]
           ready    == {j \in children : /\ Unblocked(j)
                                         /\ ~Conflicting(history, batch, batch[j])}
           when(j)  == Larger(earliest[j], ReadyRound(i, j))
           now      == {j \in ready : when(j) = round}
           later    == {j \in ready : when(j) # round}
<1>1. /\ InRound /\ e \notin Applied /\ Authorized(ix, EventAt(i))
      /\ ix' = ApplyAuthorized(ix, EventAt(i), e) /\ log' = Append(log, e)
      /\ pending' = pending \ {i}
      /\ waiting' = [waiting EXCEPT ![e] = {}]
      /\ missing' = [j \in Positions |-> IF j \in children THEN missing[j] - 1
                                         ELSE missing[j]]
      /\ earliest' = [j \in Positions |-> IF j \in children THEN when(j) ELSE earliest[j]]
      /\ Take(now)
      /\ nextRound' = nextRound \cup later
      /\ progressed' = TRUE
      /\ UNCHANGED <<history, batch>>
      /\ UNCHANGED <<deferred, round, gaps, outcome>>
  BY DEF ApplyReady, input
<1>2. BatchTypeOK /\ outcome = "running"
  BY <1>1 DEF Inv, InRound
<1>3. i \in Positions /\ i \in OnQueue
  BY <1>1, <1>2, NextPositionIsQueued
<1>4. Eligible(i)
  BY <1>3 DEF Inv, QueuedAreEligible
<1>5. /\ Positions' = Positions
      /\ \A j : EventAt(j)' = EventAt(j)
      /\ Ids(batch)' = Ids(batch)
  BY <1>1 DEF Positions, EventAt, Ids
<1>6. e \in EventId /\ e \in Ids(batch)
  BY <1>2, <1>3 DEF BatchTypeOK, Positions, Ids
<1>7. log' \in Seq(EventId) /\ Applied' = Applied \cup {e}
  <2>1. log \in Seq(EventId) /\ log' = Append(log, e)
    BY <1>1, <1>2 DEF BatchTypeOK
  <2> HIDE DEF e
  <2>2. /\ log' \in Seq(EventId)
        /\ {log'[k] : k \in 1..Len(log')} = {log[k] : k \in 1..Len(log)} \cup {e}
    BY <1>6, <2>1, AppendRange
  <2> QED BY <2>2 DEF Applied
<1>8. children = {j \in Positions : e \in EventAt(j).parents}
  BY <1>1, <1>6 DEF Inv, WaitersAreExact
<1>9. now \cup later = ready /\ now \subseteq ready /\ later \subseteq ready
      /\ ready \subseteq Positions
  BY <1>8
<1>10. \A j \in Positions : /\ IsFiniteSet(EventAt(j).parents \ Applied)
                          /\ Cardinality(EventAt(j).parents \ Applied) \in Nat
  <2> SUFFICES ASSUME NEW j \in Positions
               PROVE  /\ IsFiniteSet(EventAt(j).parents \ Applied)
                      /\ Cardinality(EventAt(j).parents \ Applied) \in Nat
    OBVIOUS
  <2>1. batch[j] \in EventId
    BY <1>2 DEF BatchTypeOK, Positions
  <2>2. IsFiniteSet(EventAt(j).parents)
    BY <1>2, <2>1 DEF BatchTypeOK, IsEvent, EventAt
  <2>3. IsFiniteSet(EventAt(j).parents \ Applied)
    BY <2>2, FS_Subset
  <2> QED BY <2>3, FS_CardinalityType
<1>11. \A j \in children : /\ Cardinality(EventAt(j).parents \ Applied) >= 1
                         /\ Cardinality(EventAt(j).parents \ Applied')
                              = Cardinality(EventAt(j).parents \ Applied) - 1
  <2> SUFFICES ASSUME NEW j \in children
               PROVE  /\ Cardinality(EventAt(j).parents \ Applied) >= 1
                      /\ Cardinality(EventAt(j).parents \ Applied')
                              = Cardinality(EventAt(j).parents \ Applied) - 1
    OBVIOUS
  <2> DEFINE lack == EventAt(j).parents \ Applied
  <2>1. e \in lack /\ IsFiniteSet(lack) /\ Cardinality(lack) \in Nat
    BY <1>1, <1>8, <1>10
  <2>2. EventAt(j).parents \ Applied' = lack \ {e}
    BY <1>7
  <2> HIDE DEF lack
  <2>3. /\ IsFiniteSet(lack \ {e}) /\ Cardinality(lack \ {e}) = Cardinality(lack) - 1
        /\ Cardinality(lack \ {e}) \in Nat
    BY <2>1, FS_RemoveElement, FS_CardinalityType
  <2>4. Cardinality(lack) >= 1
    BY <2>1, <2>3
  <2> QED BY <2>2, <2>3, <2>4 DEF lack
<1>12. \A j \in Positions \ children : EventAt(j).parents \ Applied' = EventAt(j).parents \ Applied
  BY <1>7, <1>8
<1>13. \A j \in children : Unblocked(j) <=> EventAt(j).parents \subseteq Applied'
  <2> SUFFICES ASSUME NEW j \in children
               PROVE  Unblocked(j) <=> EventAt(j).parents \subseteq Applied'
    OBVIOUS
  <2> DEFINE lack == EventAt(j).parents \ Applied
  <2>1. j \in Positions
    BY <1>8
  <2>2. e \in lack /\ IsFiniteSet(lack) /\ missing[j] = Cardinality(lack)
    BY <1>1, <1>8, <1>10, <2>1 DEF Inv, CountsAreExact
  <2>3. (EventAt(j).parents \subseteq Applied') <=> lack = {e}
    BY <1>7, <2>2
  <2> HIDE DEF lack
  <2>4. Cardinality(lack) = 1 <=> lack = {e}
    BY <2>2, FS_Singleton
  <2> QED BY <2>2, <2>3, <2>4 DEF Unblocked
<1>14. \A j \in Positions : Eligible(j)' <=> \/ Eligible(j)
                                           \/ j \in ready
  <2> SUFFICES ASSUME NEW j \in Positions
               PROVE  Eligible(j)' <=> Eligible(j) \/ j \in ready
    OBVIOUS
  <2>1. Eligible(j)' <=> /\ EventAt(j).parents \subseteq Applied'
                        /\ ~Conflicting(history, batch, batch[j])
    BY <1>1, <1>5 DEF Eligible
  <2>2. CASE j \in children
    <3>1. ~Eligible(j)
      BY <1>1, <1>8, <2>2 DEF Eligible
    <3> QED BY <1>13, <2>1, <2>2, <3>1
  <2>3. CASE j \notin children
    BY <1>7, <1>8, <2>1, <2>3 DEF Eligible
  <2> QED BY <2>2, <2>3
<1>15. /\ stable' \in Seq(Positions) /\ dynamic' \subseteq Positions
       /\ OnQueue' \subseteq OnQueue \cup ready
       /\ (OnQueue \ {i}) \cup ready \subseteq OnQueue'
  <2>1. now \subseteq Positions
    BY <1>9
  <2> HIDE DEF now, later, ready
  <2>2. /\ stable' \in Seq(Positions) /\ dynamic' \subseteq Positions
        /\ Range(stable') \cup dynamic' \subseteq Range(stable) \cup dynamic \cup now
        /\ ((Range(stable) \cup dynamic) \ {i}) \cup now \subseteq Range(stable') \cup dynamic'
    BY <1>1, <1>2, <2>1, TakeKeepsTheRest
  <2> HIDE DEF i
  <2> QED BY <1>1, <1>9, <2>2 DEF OnQueue
<1>16. CountsAreExact'
  <2> SUFFICES ASSUME NEW j \in Positions
               PROVE  missing'[j] = Cardinality(EventAt(j).parents \ Applied')
    BY <1>5 DEF CountsAreExact
  <2>1. missing[j] = Cardinality(EventAt(j).parents \ Applied)
    BY DEF Inv, CountsAreExact
  <2>2. CASE j \in children
    BY <1>1, <1>11, <2>1, <2>2
  <2>3. CASE j \notin children
    BY <1>1, <1>12, <2>1, <2>3
  <2> QED BY <2>2, <2>3
<1>17. WaitersAreExact'
  <2> SUFFICES ASSUME NEW f \in Ids(batch)
               PROVE  waiting'[f] = IF f \in Applied' THEN {}
                                    ELSE {j \in Positions : f \in EventAt(j).parents}
    BY <1>5 DEF WaitersAreExact
  <2>1. waiting[f] = IF f \in Applied THEN {} ELSE {j \in Positions : f \in EventAt(j).parents}
    BY DEF Inv, WaitersAreExact
  <2>2. waiting'[f] = IF f = e THEN {} ELSE waiting[f]
    BY <1>1, <1>2 DEF BatchTypeOK
  <2> QED BY <1>7, <2>1, <2>2
<1>18. BatchTypeOK'
  <2>1. ix' \in Index
    <3>1. IsEvent(EventAt(i))
      BY <1>2, <1>6 DEF BatchTypeOK, EventAt
    <3>2. OpensOnly(ix, ix', Defined(EventAt(i)))
      BY <1>1, <1>2, <1>6, <3>1, ApplyAuthorizedOpensOnly DEF BatchTypeOK
    <3> QED BY <3>2 DEF OpensOnly
  <2>2. missing' \in [Positions -> Nat]
    <3>1. ASSUME NEW j \in Positions
          PROVE  missing'[j] \in Nat
      <4>1. missing[j] = Cardinality(EventAt(j).parents \ Applied) /\ missing[j] \in Nat
        BY <1>2 DEF Inv, CountsAreExact, BatchTypeOK
      <4>2. CASE j \in children
        <5>1. missing'[j] = missing[j] - 1
          BY <1>1, <4>2
        <5>2. missing[j] >= 1
          BY <1>11, <4>1, <4>2
        <5> QED BY <4>1, <5>1, <5>2
      <4>3. CASE j \notin children
        BY <1>1, <4>1, <4>3
      <4> QED BY <4>2, <4>3
    <3> QED BY <1>1, <3>1
  <2>3. earliest' \in [Positions -> Nat]
    <3>1. ASSUME NEW j \in Positions
          PROVE  when(j) \in Nat
      <4>1. earliest[j] \in Nat /\ round \in Nat
        BY <1>2 DEF BatchTypeOK
      <4> HIDE DEF i
      <4> QED BY <4>1 DEF Larger, ReadyRound
    <3> HIDE DEF when, children, i
    <3> QED BY <1>1, <1>2, <3>1 DEF BatchTypeOK
  <2>4. waiting' \in [Ids(batch) -> SUBSET Positions]
    BY <1>1, <1>2 DEF BatchTypeOK
  <2>5. pending' \subseteq Positions /\ nextRound' \subseteq Positions
    BY <1>1, <1>2, <1>9 DEF BatchTypeOK
  <2>6. progressed' \in BOOLEAN
    BY <1>1
  <2> HIDE DEF i, e, children, ready, when, now, later
  <2> QED BY <1>1, <1>2, <1>5, <1>7, <1>15, <2>1, <2>2, <2>3, <2>4, <2>5, <2>6
          DEF BatchTypeOK
<1>19. QueuedAreEligible' /\ EligibleAreQueued'
  <2>1. OnQueue \subseteq Positions
    BY <1>2 DEF BatchTypeOK, OnQueue, Range
  <2> HIDE DEF i, ready
  <2>2. QueuedAreEligible'
    BY <1>14, <1>15, <1>9, <2>1 DEF Inv, QueuedAreEligible
  <2>3. EligibleAreQueued'
    BY <1>1, <1>2, <1>14, <1>15 DEF Inv, EligibleAreQueued, BatchTypeOK
  <2> QED BY <2>2, <2>3
<1>20. AppliedAreEligible'
  <2>1. history[e].parents \subseteq Applied /\ ~Conflicting(history, batch, e)
    BY <1>4 DEF Eligible, EventAt
  <2> HIDE DEF e
  <2> QED BY <1>1, <1>5, <1>6, <1>7, <2>1 DEF Inv, AppliedAreEligible
<1>21. FinishedAreApplied'
  BY <1>1, <1>5, <1>7 DEF Inv, FinishedAreApplied
<1>22. DeferredAreFresh'
  BY <1>1 DEF DeferredAreFresh
<1>23. ChannelsAreDefined'
  <2>1. OpensOnly(ix, ix', Defined(history[e]))
    <3>1. IsEvent(EventAt(i))
      BY <1>2, <1>6 DEF BatchTypeOK, EventAt
    <3> QED BY <1>1, <1>2, <1>6, <3>1, ApplyAuthorizedOpensOnly DEF BatchTypeOK, EventAt
  <2> HIDE DEF e
  <2> SUFFICES ASSUME NEW c \in Channel, \A f \in Applied' : c \notin Defined(history[f])
               PROVE  ix'.channels[c] = None /\ \A g \in EventId : ix'.eventChannels[g] # c
    BY <1>1 DEF ChannelsAreDefined
  <2>2. c \notin Defined(history[e]) /\ \A f \in Applied : c \notin Defined(history[f])
    BY <1>7
  <2>3. ix.channels[c] = None /\ \A g \in EventId : ix.eventChannels[g] # c
    BY <2>2 DEF Inv, ChannelsAreDefined
  <2> QED BY <2>1, <2>2, <2>3 DEF OpensOnly
<1>24. CausalOrder'
  <2>1. history[e].parents \subseteq Applied
    BY <1>4 DEF Eligible, EventAt
  <2>2. /\ Len(log') = Len(log) + 1 /\ Len(log) \in Nat /\ log'[Len(log) + 1] = e
        /\ \A k \in 1..Len(log) : log'[k] = log[k]
    BY <1>1, <1>2, <1>6, AppendProperties DEF BatchTypeOK
  <2> HIDE DEF e
  <2> SUFFICES ASSUME NEW k \in 1..Len(log')
               PROVE  /\ log'[k] \notin {log'[j] : j \in 1..(k - 1)}
                      /\ history[log'[k]].parents \subseteq {log'[j] : j \in 1..(k - 1)}
    BY <1>1 DEF CausalOrder
  <2>3. {log'[j] : j \in 1..(k - 1)} = {log[j] : j \in 1..(k - 1)}
    BY <2>2
  <2>4. CASE k = Len(log) + 1
    <3>1. {log[j] : j \in 1..(k - 1)} = Applied /\ log'[k] = e
      BY <2>2, <2>4 DEF Applied
    <3> QED BY <1>1, <2>1, <2>3, <3>1
  <2>5. CASE k # Len(log) + 1
    <3>1. k \in 1..Len(log) /\ log'[k] = log[k]
      BY <2>2, <2>5
    <3> QED BY <2>3, <3>1 DEF Inv, CausalOrder
  <2> QED BY <2>4, <2>5
<1>25. NothingLeftBehind'
  BY <1>1, <1>2 DEF NothingLeftBehind
<1> HIDE DEF i, e, children, ready, when, now, later
<1> QED BY <1>16, <1>17, <1>18, <1>19, <1>20, <1>21, <1>22, <1>23, <1>24, <1>25 DEF Inv

-----------------------------------------------------------------------------
(* The theorems.                                                           *)

\* Inv holds in every state of apply_batch.
THEOREM Invariant == Spec => []Inv
<1>1. Inv /\ [Next]_vars => Inv'
  <2> SUFFICES ASSUME Inv, [Next]_vars
               PROVE  Inv'
    OBVIOUS
  <2>1. CASE Next
    BY <2>1, SkipAppliedInv, ApplyReadyInv, DeferInv, AbortInv, NewRoundInv, FinishInv
       DEF Next
  <2>2. CASE UNCHANGED vars
    <3>1. /\ UNCHANGED <<input, state, index>>
          /\ UNCHANGED <<history, batch, ix, log, missing, earliest, waiting>>
          /\ UNCHANGED <<pending, stable, dynamic, nextRound, deferred>>
          /\ UNCHANGED <<round, progressed, gaps, outcome>>
      BY <2>2 DEF vars, input, state, index
    <3>2. OnQueue' = OnQueue
      BY <3>1 DEF OnQueue
    <3>3. /\ Positions' = Positions /\ Applied' = Applied
          /\ \A j : EventAt(j)' = EventAt(j) /\ (Eligible(j)' <=> Eligible(j))
          /\ CountsAreExact' /\ WaitersAreExact' /\ AppliedAreEligible'
          /\ ChannelsAreDefined' /\ CausalOrder'
      BY <3>1, QuietKeeps
    <3>4. BatchTypeOK'
      BY <3>1, <3>3 DEF Inv, BatchTypeOK
    <3>5. QueuedAreEligible' /\ EligibleAreQueued' /\ FinishedAreApplied' /\ DeferredAreFresh'
      BY <3>1, <3>2, <3>3 DEF Inv, QueuedAreEligible, EligibleAreQueued, FinishedAreApplied,
                              DeferredAreFresh
    <3>6. NothingLeftBehind'
      BY <3>1, <3>3 DEF Inv, NothingLeftBehind, DefineTheSame
    <3> QED BY <3>3, <3>4, <3>5, <3>6 DEF Inv
  <2> QED BY <2>1, <2>2
<1> QED BY <1>1, InitInv, PTL DEF Spec

\* Every event is applied once and after all its parents, for every history and
\* every order in which the database returns it.
THEOREM AppliedInCausalOrder == Spec => []CausalOrder
<1>1. Inv => CausalOrder
  BY DEF Inv
<1> QED BY <1>1, Invariant, PTL

\* When the call returns, the gaps it reports are exactly the events that it did
\* not apply, each for a reason that holds in the resulting state: the rounds
\* drop no event, whatever the order and however often one is deferred.
THEOREM ReportsEveryGap == Spec => []NothingLeftBehind
<1>1. Inv => NothingLeftBehind
  BY DEF Inv
<1> QED BY <1>1, Invariant, PTL

\* A channel id that two events of the batch define is never opened by either,
\* nor by any other event of the batch.
THEOREM ConflictingChannelsStayClosed == Spec => []ConflictsFailClosed
<1>1. Inv => ConflictsFailClosed
  <2> SUFFICES ASSUME Inv, NEW e \in Ids(batch), NEW f \in Ids(batch), DefineTheSame(e, f)
               PROVE  /\ e \notin Applied
                      /\ ix.channels[history[e].channel] = None
                      /\ \A g \in EventId : ix.eventChannels[g] # history[e].channel
    BY DEF ConflictsFailClosed
  <2> DEFINE c == history[e].channel
  <2>1. e \in EventId /\ IsEvent(history[e])
    BY DEF Inv, BatchTypeOK, Ids
  <2>2. c \in Channel
    BY <2>1 DEF IsEvent, DefineTheSame, CreatesChannel, NamingChannel
  <2>3. \A h \in Ids(batch) : c \in Defined(history[h]) => Conflicting(history, batch, h)
    <3> SUFFICES ASSUME NEW h \in Ids(batch), c \in Defined(history[h])
                 PROVE  Conflicting(history, batch, h)
      OBVIOUS
    <3>1. CreatesChannel(history[h]) /\ history[h].channel = c
      BY DEF Defined
    <3>2. CASE h = e
      BY <3>1, <3>2 DEF Conflicting, DefineTheSame
    <3>3. CASE h # e
      BY <3>1, <3>3 DEF Conflicting, DefineTheSame
    <3> QED BY <3>2, <3>3
  <2>4. \A h \in Applied : c \notin Defined(history[h])
    BY <2>3 DEF Inv, AppliedAreEligible
  <2>5. c \in Defined(history[e])
    BY DEF Defined, DefineTheSame
  <2> QED BY <2>2, <2>4, <2>5 DEF Inv, ChannelsAreDefined
<1> QED BY <1>1, Invariant, PTL

=============================================================================
