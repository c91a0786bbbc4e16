------------------------ MODULE WorkspaceStateProofs ------------------------
(***************************************************************************)
(* Inv is an inductive invariant of WorkspaceState, for every set of       *)
(* devices, channels, messages, invites, requests and event ids, and every *)
(* claim limit.  One lemma per action (QuietStep stands for the actions    *)
(* that change neither membership, nor channels, nor messages, nor join    *)
(* requests), cited by the theorem at the end.                             *)
(***************************************************************************)
EXTENDS WorkspaceState, AccessIndexProofs, FiniteSetTheorems

-----------------------------------------------------------------------------
(* Facts that several actions share.                                       *)

\* While ids are left, the next one is new.
LEMMA NewEventIdIsNew ==
    ASSUME applied # EventId, applied \subseteq EventId
    PROVE  NewEventId \in EventId /\ NewEventId \notin applied
BY DEF NewEventId

\* The action's ids and event channels keep what is known about read markers.
EventChannelsStep ==
    \/ ix'.eventChannels = ix.eventChannels
    \/ \E c \in Channel : ix'.eventChannels = [ix.eventChannels EXCEPT ![NewEventId] = c]

\* Events keep their channel, so the markers that point at them stay right.
LEMMA ReadsKept ==
    ASSUME TypeOK, EventChannelsAreApplied, ReadMarkersStayInChannel,
           applied # EventId, applied' = applied \cup {NewEventId},
           EventChannelsStep, readMarkers' = readMarkers
    PROVE  EventChannelsAreApplied' /\ ReadMarkersStayInChannel'
<1>1. NewEventId \in EventId /\ NewEventId \notin applied
  BY NewEventIdIsNew DEF TypeOK
<1>2. ix.eventChannels \in [EventId -> Channel \cup {None}]
  BY DEF TypeOK, Index
<1>3. \A e \in EventId : ix.eventChannels[e] # None
                            => ix'.eventChannels[e] = ix.eventChannels[e]
  BY <1>1, <1>2 DEF EventChannelsStep, EventChannelsAreApplied
<1>4. EventChannelsAreApplied'
  BY <1>1, <1>2 DEF EventChannelsStep, EventChannelsAreApplied
<1>5. ReadMarkersStayInChannel'
  <2> SUFFICES ASSUME NEW d \in Device, NEW c \in Channel, readMarkers[d][c] # None
               PROVE  ix'.eventChannels[readMarkers[d][c]] = c
    BY DEF ReadMarkersStayInChannel
  <2>1. ix.eventChannels[readMarkers[d][c]] = c
    BY DEF ReadMarkersStayInChannel
  <2>2. readMarkers[d][c] \in EventId
    BY DEF TypeOK
  <2>3. ix.eventChannels[readMarkers[d][c]] # None
    BY <2>1, NoneIsNoId
  <2> QED BY <1>3, <2>1, <2>2, <2>3
<1> QED BY <1>4, <1>5

\* Marking the author's invites in both copies keeps them in agreement, and
\* changes neither whom an invite names nor for which request.
LEMMA SettlingKeepsInvites ==
    ASSUME TypeOK, InviteCopiesAgree, NEW a \in Device,
           ix'.invites = Settled(ix.invites, a), invites' = AcceptedBy(a)
    PROVE  /\ invites' \in [Invite -> InviteView \cup {None}]
           /\ InviteCopiesAgree'
           /\ \A i \in Invite : /\ invites'[i] = None <=> invites[i] = None
                                /\ invites'[i] # None =>
                                     /\ invites'[i].invitee = invites[i].invitee
                                     /\ invites'[i].request = invites[i].request
<1> SUFFICES ASSUME NEW i \in Invite
             PROVE  /\ invites'[i] \in InviteView \cup {None}
                    /\ invites'[i] = None <=> invites[i] = None
                    /\ invites'[i] # None =>
                         /\ invites'[i].invitee = invites[i].invitee
                         /\ invites'[i].request = invites[i].request
                    /\ invites'[i] = None <=> ix'.invites[i] = None
                    /\ invites'[i] # None =>
                        /\ invites'[i].maxClaims = ix'.invites[i].maxClaims
                        /\ invites'[i].capability <=> ix'.invites[i].invitee = None
                        /\ invites'[i].capability \/ invites'[i].maxClaims = 1
                        /\ invites'[i].status = "Invited" <=> Claimable(ix', i)
                        /\ invites'[i].status = "Invited" =>
                             /\ invites'[i].claimCount = ix'.invites[i].claimCount
                             /\ \/ invites'[i].capability
                                \/ invites'[i].invitee = ix'.invites[i].invitee
  BY DEF InviteCopiesAgree, AcceptedBy
<1> DEFINE v == invites[i]
           w == ix.invites[i]
<1>1. v \in InviteView \cup {None} /\ w \in InviteAccess \cup {None}
  BY DEF TypeOK, Index
<1>2. invites'[i] = IF v # None /\ v.invitee = a /\ v.status = "Invited" /\ ~v.capability
                    THEN [v EXCEPT !.status = "Accepted", !.claimCount = v.maxClaims]
                    ELSE v
  BY DEF AcceptedBy
<1>3. ix'.invites[i] = IF w # None /\ w.invitee = a
                       THEN [w EXCEPT !.claimCount = w.maxClaims] ELSE w
  BY DEF Settled
<1>4. /\ v = None <=> w = None
      /\ v # None =>
            /\ v.maxClaims = w.maxClaims
            /\ v.capability <=> w.invitee = None
            /\ v.capability \/ v.maxClaims = 1
            /\ v.status = "Invited" <=> ~w.revoked /\ w.claimCount < w.maxClaims
            /\ v.status = "Invited" =>
                  v.claimCount = w.claimCount /\ (v.capability \/ v.invitee = w.invitee)
  BY DEF InviteCopiesAgree, Claimable
<1>5. a # None
  BY NoneIsNoId
<1>6. CASE v = None
  BY <1>2, <1>3, <1>4, <1>6
<1>7. CASE v # None /\ w.invitee = a
  <2>1. ~v.capability
    BY <1>4, <1>5, <1>7
  <2>2. ix'.invites[i] = [w EXCEPT !.claimCount = w.maxClaims]
    BY <1>3, <1>4, <1>7
  <2>3. ix'.invites[i] \in InviteAccess /\ ix'.invites[i].claimCount = w.maxClaims
        /\ ix'.invites[i].maxClaims = w.maxClaims /\ ix'.invites[i].invitee = a
        /\ ix'.invites[i].revoked = w.revoked
    BY <1>1, <1>4, <1>7, <2>2, MaxClaimsPositive DEF InviteAccess
  <2>4. ~Claimable(ix', i)
    BY <1>1, <1>4, <1>7, <2>3 DEF Claimable, InviteAccess
  <2>5. CASE v.status = "Invited"
    <3>1. invites'[i] = [v EXCEPT !.status = "Accepted", !.claimCount = v.maxClaims]
      BY <1>2, <1>4, <1>7, <2>1, <2>5
    <3>2. /\ invites'[i] \in InviteView /\ invites'[i].status = "Accepted"
          /\ invites'[i].maxClaims = v.maxClaims /\ ~invites'[i].capability
          /\ invites'[i].invitee = v.invitee /\ invites'[i].request = v.request
      <4>1. v \in InviteView /\ v.maxClaims \in 0..MaxClaims
        BY <1>1, <1>7, MaxClaimsPositive DEF InviteView
      <4> HIDE DEF v
      <4>2. invites'[i] \in InviteView
        BY <3>1, <4>1 DEF InviteView
      <4> QED BY <2>1, <3>1, <4>1 DEF InviteView
    <3> QED BY <1>4, <1>5, <1>7, <2>1, <2>3, <2>4, <3>2, NoneIsNoRecord, NoneIsNoView
  <2>6. CASE v.status # "Invited"
    <3>1. invites'[i] = v
      BY <1>2, <2>6
    <3> QED BY <1>1, <1>4, <1>5, <1>7, <2>1, <2>3, <2>4, <2>6, <3>1, NoneIsNoRecord
  <2> QED BY <2>5, <2>6
<1>8. CASE v # None /\ w.invitee # a
  <2>1. ix'.invites[i] = w
    BY <1>3, <1>8
  <2>2. invites'[i] = v
    BY <1>2, <1>4, <1>8
  <2> QED BY <1>1, <1>4, <1>8, <2>1, <2>2 DEF Claimable
<1> QED BY <1>6, <1>7, <1>8

\* The other variables of the view keep their types in every action.
OthersTyped ==
    /\ accessPolicy \in AccessPolicy
    /\ profiles \in [Device -> Avatar \cup {None, Blank}]
    /\ personProfiles \in [Person -> Avatar \cup {None, Blank}]
    /\ keyPackages \in [KeyPackage -> Device \cup {None}]
    /\ peerEndpoints \subseteq Device
    /\ readMarkers \in [Device -> [Channel -> EventId \cup {None}]]

\* An id is taken and the author's invites are marked: common to every action
\* whose event is not about invites.
Settling(a) ==
    /\ applied # EventId
    /\ applied' = applied \cup {NewEventId}
    /\ ix' \in Index
    /\ ix'.invites = Settled(ix.invites, a)
    /\ invites' = AcceptedBy(a)

\* Requests that wait go on waiting for a device that is still unknown.
LEMMA WaitingKept ==
    ASSUME WaitingMeansUndecided, joinRequests' = joinRequests, TypeOK,
           \A d \in Device : members[d] = None => members'[d] = None,
           \A i \in Invite : /\ invites'[i] = None <=> invites[i] = None
                             /\ invites'[i] # None =>
                                  /\ invites'[i].invitee = invites[i].invitee
                                  /\ invites'[i].request = invites[i].request
    PROVE  WaitingMeansUndecided'
<1> SUFFICES ASSUME NEW q \in Request, joinRequests[q] # None,
                    joinRequests[q].status = "Waiting"
             PROVE  /\ members'[joinRequests[q].requester] = None
                    /\ \A i \in Invite :
                          invites'[i] # None /\ invites'[i].request = q =>
                              invites'[i].invitee # joinRequests[q].requester
  BY DEF WaitingMeansUndecided
<1>1. joinRequests[q].requester \in Device
  BY DEF TypeOK, RequestView
<1>2. members[joinRequests[q].requester] = None
  BY DEF WaitingMeansUndecided
<1>3. \A i \in Invite : invites[i] # None /\ invites[i].request = q
                            => invites[i].invitee # joinRequests[q].requester
  BY DEF WaitingMeansUndecided
<1> QED BY <1>1, <1>2, <1>3

\* An event that changes neither who is a member, nor a channel, nor a
\* message, nor a join request.
LEMMA QuietStep ==
    ASSUME Inv, NEW a \in Device, Settling(a), SameAccess(ix, ix'), EventChannelsStep,
           OthersTyped', readMarkers' = readMarkers,
           UNCHANGED <<members, channels, messages, joinRequests, personLinks>>
    PROVE  Inv'
<1> USE DEF Inv, Settling
<1>1. /\ invites' \in [Invite -> InviteView \cup {None}]
      /\ InviteCopiesAgree'
      /\ \A i \in Invite : /\ invites'[i] = None <=> invites[i] = None
                           /\ invites'[i] # None =>
                                /\ invites'[i].invitee = invites[i].invitee
                                /\ invites'[i].request = invites[i].request
  BY SettlingKeepsInvites
<1>2. applied' \subseteq EventId
  BY NewEventIdIsNew DEF TypeOK
<1>3. TypeOK'
  BY <1>1, <1>2 DEF TypeOK, OthersTyped
<1>4. ViewMatchesIndex'
  BY DEF ViewMatchesIndex, SameAccess
<1>5. WaitingMeansUndecided'
  BY <1>1, WaitingKept
<1>6. RequestsAreRooted' /\ RootStaysMember'
  BY DEF RequestsAreRooted, RootStaysMember, SameAccess
<1>7. ChannelMembersAreMembers'
  BY DEF ChannelMembersAreMembers, SameAccess
<1>8. PersonLinksOneToOne'
  BY DEF PersonLinksOneToOne, SameAccess
<1>9. EventChannelsAreApplied' /\ ReadMarkersStayInChannel'
  BY ReadsKept
<1>10. ReactionCountsAreExact'
  BY DEF ReactionCountsAreExact
<1> QED BY <1>1, <1>3, <1>4, <1>5, <1>6, <1>7, <1>8, <1>9, <1>10

\* What an event of the given body leaves in the index when it is quiet.
LEMMA QuietNothing ==
    ASSUME Inv, NEW a \in Device, NEW body, NextEvent(body), ix' = ApplyNothing(ix, a),
           invites' = AcceptedBy(a)
    PROVE  Settling(a) /\ SameAccess(ix, ix') /\ EventChannelsStep
BY ApplyNothingFields DEF Inv, TypeOK, Settling, NextEvent, EventChannelsStep

\* The same for an event of a channel.
LEMMA QuietInChannel ==
    ASSUME Inv, NEW a \in Device, NEW c \in Channel, NEW body, NextEvent(body),
           ix' = ApplyInChannel(ix, a, c, NewEventId), invites' = AcceptedBy(a)
    PROVE  Settling(a) /\ SameAccess(ix, ix') /\ EventChannelsStep
<1>1. NewEventId \in EventId
  BY NewEventIdIsNew DEF Inv, TypeOK, NextEvent
<1>2. ix \in Index
  BY DEF Inv, TypeOK
<1>3. /\ ix' \in Index /\ SameAccess(ix, ix')
      /\ ix'.eventChannels = [ix.eventChannels EXCEPT ![NewEventId] = c]
      /\ ix'.invites = Settled(ix.invites, a)
  BY <1>1, <1>2, ApplyInChannelFields
<1> QED BY <1>3 DEF Settling, NextEvent, EventChannelsStep

-----------------------------------------------------------------------------
(* The quiet actions.                                                      *)

\* Policy updates, OpenMLS commits and workspace key epochs.
LEMMA QuietWorkspaceActions ==
    ASSUME Inv, NEW a \in Device,
           \/ \E p \in AccessPolicy : WorkspaceAccessPolicyUpdated(a, p)
           \/ \E d \in Device : OpenMlsWorkspaceGroupChanged(a, d)
           \/ WorkspaceKeyEpochPublished(a)
    PROVE  Inv'
<1>1. Settling(a) /\ SameAccess(ix, ix') /\ EventChannelsStep
  BY QuietNothing DEF WorkspaceAccessPolicyUpdated, OpenMlsWorkspaceGroupChanged,
                      WorkspaceKeyEpochPublished
<1>2. OthersTyped' /\ readMarkers' = readMarkers
      /\ UNCHANGED <<members, channels, messages, joinRequests, personLinks>>
  BY DEF WorkspaceAccessPolicyUpdated, OpenMlsWorkspaceGroupChanged,
         WorkspaceKeyEpochPublished, Inv, TypeOK, OthersTyped, directory, people,
         published, talk
<1> QED BY <1>1, <1>2, QuietStep

\* Channel key epochs and channel group commits.
LEMMA QuietChannelActions ==
    ASSUME Inv, NEW a \in Device, NEW c \in Channel,
           \/ \E d \in Device : OpenMlsChannelGroupChanged(a, c, d)
           \/ ChannelKeyEpochPublished(a, c)
    PROVE  Inv'
<1>1. Settling(a) /\ SameAccess(ix, ix') /\ EventChannelsStep
  BY QuietInChannel DEF OpenMlsChannelGroupChanged, ChannelKeyEpochPublished
<1>2. OthersTyped' /\ readMarkers' = readMarkers
      /\ UNCHANGED <<members, channels, messages, joinRequests, personLinks>>
  BY DEF OpenMlsChannelGroupChanged, ChannelKeyEpochPublished, Inv, TypeOK, OthersTyped,
         directory, people, published, talk
<1> QED BY <1>1, <1>2, QuietStep

\* Profiles, key packages and endpoints.
LEMMA PublishingActions ==
    ASSUME Inv, NEW a \in Device,
           \/ \E avatar \in Avatar \cup {Blank} : DeviceProfileUpdated(a, avatar)
           \/ \E p \in Person, avatar \in Avatar \cup {Blank} :
                PersonProfileUpdated(a, p, avatar)
           \/ \E k \in KeyPackage : DeviceKeyPackagePublished(a, k)
           \/ PeerEndpointPublished(a)
    PROVE  Inv'
<1>1. Settling(a) /\ SameAccess(ix, ix') /\ EventChannelsStep
  BY QuietNothing DEF DeviceProfileUpdated, PersonProfileUpdated,
                      DeviceKeyPackagePublished, PeerEndpointPublished
<1>2. readMarkers' = readMarkers
      /\ UNCHANGED <<members, channels, messages, joinRequests, personLinks>>
  BY DEF DeviceProfileUpdated, PersonProfileUpdated, DeviceKeyPackagePublished,
         PeerEndpointPublished, directory, people, published, talk
<1>3. OthersTyped'
  <2> USE DEF Inv, TypeOK, OthersTyped, directory, people, published, talk
  <2>1. ASSUME NEW avatar \in Avatar \cup {Blank}, DeviceProfileUpdated(a, avatar)
        PROVE  OthersTyped'
    BY <2>1 DEF DeviceProfileUpdated
  <2>2. ASSUME NEW p \in Person, NEW avatar \in Avatar \cup {Blank},
               PersonProfileUpdated(a, p, avatar)
        PROVE  OthersTyped'
    BY <2>2 DEF PersonProfileUpdated
  <2>3. ASSUME NEW k \in KeyPackage, DeviceKeyPackagePublished(a, k)
        PROVE  OthersTyped'
    BY <2>3 DEF DeviceKeyPackagePublished
  <2>4. ASSUME PeerEndpointPublished(a)
        PROVE  OthersTyped'
    BY <2>4 DEF PeerEndpointPublished
  <2> QED BY <2>1, <2>2, <2>3, <2>4
<1> QED BY <1>1, <1>2, <1>3, QuietStep

-----------------------------------------------------------------------------
(* Messages and read markers.                                              *)

\* An event that changes messages only: what is left to show is that both
\* copies of the messages are right.
LEMMA TalkStep ==
    ASSUME Inv, NEW a \in Device, Settling(a), EventChannelsStep,
           ix'.root = ix.root, ix'.roles = ix.roles, ix'.channels = ix.channels,
           ix'.joinRequests = ix.joinRequests, ix'.personLinks = ix.personLinks,
           messages' \in [Message -> MessageView \cup {None}],
           \A m \in Message :
                /\ messages'[m] = None <=> ix'.messages[m] = None
                /\ messages'[m] # None => messages'[m].channel = ix'.messages[m].channel,
           ReactionCountsAreExact',
           UNCHANGED <<directory, joinRequests, channels, people, published, readMarkers>>
    PROVE  Inv'
<1> USE DEF Inv, Settling, directory, people, published
<1>1. /\ invites' \in [Invite -> InviteView \cup {None}]
      /\ InviteCopiesAgree'
      /\ \A i \in Invite : /\ invites'[i] = None <=> invites[i] = None
                           /\ invites'[i] # None =>
                                /\ invites'[i].invitee = invites[i].invitee
                                /\ invites'[i].request = invites[i].request
  BY SettlingKeepsInvites
<1>2. applied' \subseteq EventId
  BY NewEventIdIsNew DEF TypeOK
<1>3. TypeOK'
  BY <1>1, <1>2 DEF TypeOK
<1>4. ViewMatchesIndex'
  BY DEF ViewMatchesIndex
<1>5. WaitingMeansUndecided'
  BY <1>1, WaitingKept
<1>6. RequestsAreRooted' /\ RootStaysMember'
  BY DEF RequestsAreRooted, RootStaysMember
<1>7. ChannelMembersAreMembers'
  BY DEF ChannelMembersAreMembers
<1>8. PersonLinksOneToOne'
  BY DEF PersonLinksOneToOne
<1>9. EventChannelsAreApplied' /\ ReadMarkersStayInChannel'
  BY ReadsKept
<1> QED BY <1>1, <1>3, <1>4, <1>5, <1>6, <1>7, <1>8, <1>9

\* Posting a message or a reply.
LEMMA PostingActions ==
    ASSUME Inv, NEW a \in Device, NEW c \in Channel, NEW m \in Message,
           NEW content \in Content,
           \/ MessageCreated(a, c, m, content)
           \/ \E target \in Message : MessageReplyCreated(a, c, m, target, content)
    PROVE  Inv'
<1>1. PICK reply \in Message \cup {None} :
        messages' = [messages EXCEPT ![m] = NewMessage(c, content, reply)]
  BY DEF MessageCreated, MessageReplyCreated
<1>2. /\ ix' = ApplyMessagePosted(ix, a, c, m, NewEventId) /\ invites' = AcceptedBy(a)
      /\ UNCHANGED <<directory, joinRequests, channels, people, published, readMarkers>>
      /\ applied # EventId /\ applied' = applied \cup {NewEventId}
  BY DEF MessageCreated, MessageReplyCreated, NextEvent
<1>3. NewEventId \in EventId /\ ix \in Index
  BY <1>2, NewEventIdIsNew DEF Inv, TypeOK
<1>4. /\ ix' \in Index
      /\ ix'.root = ix.root /\ ix'.roles = ix.roles /\ ix'.channels = ix.channels
      /\ ix'.messages = [ix.messages EXCEPT ![m] = [channel |-> c, author |-> a]]
      /\ ix'.joinRequests = ix.joinRequests /\ ix'.personLinks = ix.personLinks
      /\ ix'.eventChannels = [ix.eventChannels EXCEPT ![NewEventId] = c]
      /\ ix'.invites = Settled(ix.invites, a)
  BY <1>2, <1>3, ApplyMessagePostedFields
<1>5. /\ NewMessage(c, content, reply) \in MessageView
      /\ NewMessage(c, content, reply).channel = c
      /\ NewMessage(c, content, reply).reactionCount = 0
      /\ NewMessage(c, content, reply).reactionAuthors = {}
  BY DEF NewMessage, MessageView
<1>6. messages' \in [Message -> MessageView \cup {None}]
  BY <1>1, <1>5 DEF Inv, TypeOK
<1>7. \A n \in Message :
        /\ messages'[n] = None <=> ix'.messages[n] = None
        /\ messages'[n] # None => messages'[n].channel = ix'.messages[n].channel
  <2> SUFFICES ASSUME NEW n \in Message
               PROVE  /\ messages'[n] = None <=> ix'.messages[n] = None
                      /\ messages'[n] # None => messages'[n].channel = ix'.messages[n].channel
    OBVIOUS
  <2>1. CASE n = m
    <3>1. messages'[n] = NewMessage(c, content, reply)
      BY <1>1, <2>1 DEF Inv, TypeOK
    <3>2. ix'.messages[n] = [channel |-> c, author |-> a]
      BY <1>3, <1>4, <2>1 DEF Index
    <3>3. [channel |-> c, author |-> a] \in MessageAccess
      BY DEF MessageAccess
    <3> QED BY <1>5, <3>1, <3>2, <3>3, NoneIsNoRecord, NoneIsNoView
  <2>2. CASE n # m
    BY <1>1, <1>3, <1>4, <2>2 DEF Inv, TypeOK, Index, ViewMatchesIndex
  <2> QED BY <2>1, <2>2
<1>8. ReactionCountsAreExact'
  BY <1>1, <1>5, FS_EmptySet DEF Inv, TypeOK, ReactionCountsAreExact
<1>9. Settling(a) /\ EventChannelsStep
  BY <1>2, <1>4 DEF Settling, EventChannelsStep
<1> QED BY <1>2, <1>4, <1>6, <1>7, <1>8, <1>9, TalkStep

\* Changing a message in place: an edit, a deletion, a reaction.
LEMMA MessageChange ==
    ASSUME Inv, NEW a \in Device, NEW c \in Channel, NEW m \in Message, NEW view,
           NEW body, NextEvent(body), MayReact(ix, a, c, m),
           ix' = ApplyInChannel(ix, a, c, NewEventId), invites' = AcceptedBy(a),
           messages' = MessageUpdated(m, view),
           UNCHANGED <<directory, joinRequests, channels, people, published, readMarkers>>,
           messages[m] \in MessageView =>
                /\ view \in MessageView
                /\ view.channel = messages[m].channel
                /\ view.reactionCount = Cardinality(view.reactionAuthors)
    PROVE  Inv'
<1>1. messages[m] # None /\ messages[m] \in MessageView
  BY DEF Inv, TypeOK, ViewMatchesIndex, MayReact
<1>2. messages' = [messages EXCEPT ![m] = view]
  BY <1>1 DEF MessageUpdated
<1>3. Settling(a) /\ SameAccess(ix, ix') /\ EventChannelsStep
  BY QuietInChannel
<1>4. messages' \in [Message -> MessageView \cup {None}]
  BY <1>1, <1>2 DEF Inv, TypeOK
<1>5. \A n \in Message :
        /\ messages'[n] = None <=> ix'.messages[n] = None
        /\ messages'[n] # None => messages'[n].channel = ix'.messages[n].channel
  BY <1>1, <1>2, <1>3, NoneIsNoView DEF Inv, TypeOK, ViewMatchesIndex, SameAccess
<1>6. ReactionCountsAreExact'
  BY <1>1, <1>2 DEF Inv, TypeOK, ReactionCountsAreExact
<1> QED BY <1>3, <1>4, <1>5, <1>6, TalkStep DEF SameAccess

\* The four ways of changing a message.
LEMMA MessageChangeActions ==
    ASSUME Inv, NEW a \in Device, NEW c \in Channel, NEW m \in Message,
           \/ \E content \in Content : MessageEdited(a, c, m, content)
           \/ MessageDeleted(a, c, m)
           \/ ReactionAdded(a, c, m)
           \/ ReactionRemoved(a, c, m)
    PROVE  Inv'
<1>1. messages[m] \in MessageView =>
        /\ messages[m].reactionCount = Cardinality(messages[m].reactionAuthors)
        /\ IsFiniteSet(messages[m].reactionAuthors)
  BY NoneIsNoView, DeviceFinite, FS_Subset
     DEF Inv, TypeOK, ReactionCountsAreExact, MessageView
<1>2. ASSUME NEW content \in Content, MessageEdited(a, c, m, content)
      PROVE  Inv'
  <2> DEFINE view == [messages[m] EXCEPT !.content = content]
  <2>1. messages[m] \in MessageView =>
          /\ view \in MessageView /\ view.channel = messages[m].channel
          /\ view.reactionCount = Cardinality(view.reactionAuthors)
    BY <1>1 DEF MessageView
  <2> HIDE DEF view
  <2>2. messages' = MessageUpdated(m, view)
    BY <1>2 DEF MessageEdited, view
  <2> QED BY <1>2, <2>1, <2>2, MessageChange DEF MessageEdited, MayChangeMessage
<1>3. ASSUME MessageDeleted(a, c, m)
      PROVE  Inv'
  <2> DEFINE view == [messages[m] EXCEPT !.deleted = TRUE]
  <2>1. messages[m] \in MessageView =>
          /\ view \in MessageView /\ view.channel = messages[m].channel
          /\ view.reactionCount = Cardinality(view.reactionAuthors)
    BY <1>1 DEF MessageView
  <2> HIDE DEF view
  <2>2. messages' = MessageUpdated(m, view)
    BY <1>3 DEF MessageDeleted, view
  <2> QED BY <1>3, <2>1, <2>2, MessageChange DEF MessageDeleted, MayChangeMessage
<1>4. ASSUME ReactionAdded(a, c, m)
      PROVE  Inv'
  <2> DEFINE authors == messages[m].reactionAuthors \cup {a}
             n == IF a \in messages[m].reactionAuthors THEN messages[m].reactionCount
                  ELSE Cardinality(authors)
             view == [messages[m] EXCEPT !.reactionAuthors = authors, !.reactionCount = n]
  <2>1. messages[m] \in MessageView => authors \subseteq Device
    BY DEF MessageView
  <2>2. messages[m] \in MessageView => n = Cardinality(authors)
    <3>1. a \in messages[m].reactionAuthors => authors = messages[m].reactionAuthors
      OBVIOUS
    <3> QED BY <1>1, <3>1
  <2>3. messages[m] \in MessageView => n \in Nat
    BY <2>1, <2>2, DeviceFinite, FS_Subset, FS_CardinalityType
  <2> HIDE DEF authors, n
  <2>4. messages[m] \in MessageView =>
          /\ view \in MessageView /\ view.channel = messages[m].channel
          /\ view.reactionCount = Cardinality(view.reactionAuthors)
    BY <2>1, <2>2, <2>3 DEF MessageView
  <2> HIDE DEF view
  <2>5. messages' = MessageUpdated(m, view)
    BY <1>4 DEF ReactionAdded, AddReaction, view, authors, n
  <2> QED BY <1>4, <2>4, <2>5, MessageChange DEF ReactionAdded
<1>5. ASSUME ReactionRemoved(a, c, m)
      PROVE  Inv'
  <2> DEFINE authors == messages[m].reactionAuthors \ {a}
             n == IF a \notin messages[m].reactionAuthors THEN messages[m].reactionCount
                  ELSE Cardinality(authors)
             view == [messages[m] EXCEPT !.reactionAuthors = authors, !.reactionCount = n]
  <2>1. messages[m] \in MessageView => authors \subseteq Device
    BY DEF MessageView
  <2>2. messages[m] \in MessageView => n = Cardinality(authors)
    <3>1. a \notin messages[m].reactionAuthors => authors = messages[m].reactionAuthors
      OBVIOUS
    <3> QED BY <1>1, <3>1
  <2>3. messages[m] \in MessageView => n \in Nat
    BY <2>1, <2>2, DeviceFinite, FS_Subset, FS_CardinalityType
  <2> HIDE DEF authors, n
  <2>4. messages[m] \in MessageView =>
          /\ view \in MessageView /\ view.channel = messages[m].channel
          /\ view.reactionCount = Cardinality(view.reactionAuthors)
    BY <2>1, <2>2, <2>3 DEF MessageView
  <2> HIDE DEF view
  <2>5. messages' = MessageUpdated(m, view)
    BY <1>5 DEF ReactionRemoved, RemoveReaction, view, authors, n
  <2> QED BY <1>5, <2>4, <2>5, MessageChange DEF ReactionRemoved
<1> QED BY <1>2, <1>3, <1>4, <1>5

\* A read marker is set to an event of its channel, and the event that sets it
\* is a new one.
LEMMA ReadMarkerAction ==
    ASSUME Inv, NEW a \in Device, NEW c \in Channel, NEW target \in EventId,
           ReadMarkerUpdated(a, c, target)
    PROVE  Inv'
<1> USE DEF Inv, directory, people, published
<1>1. Settling(a) /\ SameAccess(ix, ix') /\ EventChannelsStep
  BY QuietInChannel DEF ReadMarkerUpdated
<1>2. /\ invites' \in [Invite -> InviteView \cup {None}]
      /\ InviteCopiesAgree'
      /\ \A i \in Invite : /\ invites'[i] = None <=> invites[i] = None
                           /\ invites'[i] # None =>
                                /\ invites'[i].invitee = invites[i].invitee
                                /\ invites'[i].request = invites[i].request
  BY <1>1, SettlingKeepsInvites DEF Settling
<1>3. NewEventId \in EventId /\ NewEventId \notin applied /\ applied' \subseteq EventId
  BY <1>1, NewEventIdIsNew DEF TypeOK, Settling
<1>4. TypeOK'
  <2>1. readMarkers' \in [Device -> [Channel -> EventId \cup {None}]]
    BY DEF ReadMarkerUpdated, TypeOK
  <2> QED BY <1>1, <1>2, <1>3, <2>1 DEF ReadMarkerUpdated, TypeOK, Settling
<1>5. ViewMatchesIndex'
  BY <1>1 DEF ViewMatchesIndex, SameAccess, ReadMarkerUpdated
<1>6. WaitingMeansUndecided'
  BY <1>2, WaitingKept DEF ReadMarkerUpdated
<1>7. RequestsAreRooted' /\ RootStaysMember'
  BY <1>1 DEF RequestsAreRooted, RootStaysMember, SameAccess
<1>8. ChannelMembersAreMembers'
  BY <1>1 DEF ChannelMembersAreMembers, SameAccess
<1>9. PersonLinksOneToOne'
  BY <1>1 DEF PersonLinksOneToOne, SameAccess
<1>10. ix.eventChannels \in [EventId -> Channel \cup {None}]
  BY DEF TypeOK, Index
<1>11. \A e \in EventId : ix.eventChannels[e] # None
                             => ix'.eventChannels[e] = ix.eventChannels[e]
  BY <1>1, <1>3, <1>10 DEF EventChannelsStep, EventChannelsAreApplied
<1>12. EventChannelsAreApplied'
  BY <1>1, <1>3, <1>10 DEF EventChannelsStep, EventChannelsAreApplied, Settling
<1>13. ReadMarkersStayInChannel'
  <2> SUFFICES ASSUME NEW d \in Device, NEW k \in Channel, readMarkers'[d][k] # None
               PROVE  ix'.eventChannels[readMarkers'[d][k]] = k
    BY DEF ReadMarkersStayInChannel
  <2>1. readMarkers' = [readMarkers EXCEPT ![a][c] = target]
        /\ ix.eventChannels[target] = c
    BY DEF ReadMarkerUpdated, MayMarkRead
  <2>2. CASE d = a /\ k = c
    <3>1. readMarkers'[d][k] = target
      BY <2>1, <2>2 DEF TypeOK
    <3> QED BY <1>11, <2>1, <2>2, <3>1, NoneIsNoId
  <2>3. CASE ~(d = a /\ k = c)
    <3>1. readMarkers'[d][k] = readMarkers[d][k] /\ readMarkers[d][k] \in EventId
      BY <2>1, <2>3 DEF TypeOK
    <3>2. ix.eventChannels[readMarkers[d][k]] = k
      BY <3>1, NoneIsNoId DEF ReadMarkersStayInChannel
    <3> QED BY <1>11, <3>1, <3>2, NoneIsNoId
  <2> QED BY <2>2, <2>3
<1>14. ReactionCountsAreExact'
  BY DEF ReactionCountsAreExact, ReadMarkerUpdated
<1> QED BY <1>2, <1>4, <1>5, <1>6, <1>7, <1>8, <1>9, <1>12, <1>13, <1>14

-----------------------------------------------------------------------------
(* Members, channels and people: events that settle invites and change     *)
(* roles, channels or links.                                               *)

\* What such an event must still establish.
LEMMA StructureStep ==
    ASSUME Inv, NEW a \in Device, Settling(a), EventChannelsStep,
           ix'.messages = ix.messages,
           UNCHANGED <<accessPolicy, profiles, personProfiles, published, talk>>,
           members' \in [Device -> Role \cup {None}],
           channels' \in [Channel -> ChannelView \cup {None}],
           personLinks' \in [Device -> Person \cup {None}],
           joinRequests' \in [Request -> RequestView \cup {None}],
           ViewMatchesIndex', WaitingMeansUndecided', RequestsAreRooted',
           ChannelMembersAreMembers', RootStaysMember', PersonLinksOneToOne'
    PROVE  Inv'
<1> USE DEF Inv, Settling, published, talk
<1>1. invites' \in [Invite -> InviteView \cup {None}] /\ InviteCopiesAgree'
  BY SettlingKeepsInvites
<1>2. applied' \subseteq EventId
  BY NewEventIdIsNew DEF TypeOK
<1>3. TypeOK'
  BY <1>1, <1>2 DEF TypeOK
<1>4. EventChannelsAreApplied' /\ ReadMarkersStayInChannel'
  BY ReadsKept
<1>5. ReactionCountsAreExact'
  BY DEF ReactionCountsAreExact
<1> QED BY <1>1, <1>3, <1>4, <1>5

\* The root event.
LEMMA WorkspaceCreatedAction ==
    ASSUME Inv, NEW a \in Device, WorkspaceCreated(a)
    PROVE  Inv'
<1> USE DEF Inv
<1>1. ix \in Index /\ ix.root = None
  BY DEF TypeOK, WorkspaceCreated, MayCreateWorkspace
<1>2. /\ ix' \in Index
      /\ ix'.root = a /\ ix'.roles = [ix.roles EXCEPT ![a] = "Owner"]
      /\ ix'.channels = ix.channels /\ ix'.messages = ix.messages
      /\ ix'.joinRequests = ix.joinRequests /\ ix'.personLinks = ix.personLinks
      /\ ix'.eventChannels = ix.eventChannels
      /\ ix'.invites = Settled(ix.invites, a)
  BY <1>1, ApplyWorkspaceCreatedFields DEF WorkspaceCreated
<1>3. Settling(a) /\ EventChannelsStep
  BY <1>2 DEF WorkspaceCreated, NextEvent, Settling, EventChannelsStep
<1>4. members' \in [Device -> Role \cup {None}]
  BY DEF WorkspaceCreated, TypeOK, Role
<1>5. ViewMatchesIndex'
  BY <1>2 DEF ViewMatchesIndex, WorkspaceCreated, people, talk
<1>6. WaitingMeansUndecided'
  <2>1. \A q \in Request : joinRequests[q] = None
    BY <1>1 DEF ViewMatchesIndex, RequestsAreRooted
  <2> QED BY <2>1 DEF WaitingMeansUndecided, WorkspaceCreated
<1>7. RequestsAreRooted' /\ RootStaysMember'
  BY <1>1, <1>2, NoneIsNoId, NoneIsNoRole DEF RequestsAreRooted, RootStaysMember, Index, Role
<1>8. ChannelMembersAreMembers'
  BY <1>1, <1>2, NoneIsNoRole DEF ChannelMembersAreMembers, Index, ChannelAccess, Role
<1>9. PersonLinksOneToOne'
  BY <1>1, <1>2, NoneIsNoRole DEF PersonLinksOneToOne, Index, Role
<1> QED BY <1>2, <1>3, <1>4, <1>5, <1>6, <1>7, <1>8, <1>9, StructureStep
        DEF WorkspaceCreated, TypeOK, people, published, talk

\* Somebody becomes a member, or changes role, by invitation.
LEMMA MemberInvitedAction ==
    ASSUME Inv, NEW a \in Device, NEW d \in Device, NEW r \in Role, MemberInvited(a, d, r)
    PROVE  Inv'
<1> USE DEF Inv
<1>1. ix \in Index /\ ix.root # None
  BY DEF TypeOK, MemberInvited, MayInvite, RequireRole, RootedMember
<1>2. /\ ix' \in Index
      /\ ix'.root = ix.root /\ ix'.roles = [ix.roles EXCEPT ![d] = r]
      /\ ix'.channels = ix.channels /\ ix'.messages = ix.messages
      /\ ix'.joinRequests = ix.joinRequests /\ ix'.personLinks = ix.personLinks
      /\ ix'.eventChannels = ix.eventChannels
      /\ ix'.invites = Settled(ix.invites, a)
  BY <1>1, ApplyMemberInvitedFields DEF MemberInvited
<1>3. Settling(a) /\ EventChannelsStep
  BY <1>2 DEF MemberInvited, NextEvent, Settling, EventChannelsStep
<1>4. members' \in [Device -> Role \cup {None}]
  BY DEF MemberInvited, TypeOK
<1>5. \A q \in Request :
        /\ joinRequests'[q] \in RequestView \cup {None}
        /\ joinRequests'[q] = None <=> joinRequests[q] = None
        /\ joinRequests'[q] # None /\ joinRequests'[q].status = "Waiting" =>
              /\ joinRequests'[q] = joinRequests[q]
              /\ joinRequests[q].requester # d
  <2> SUFFICES ASSUME NEW q \in Request
               PROVE  /\ joinRequests'[q] \in RequestView \cup {None}
                      /\ joinRequests'[q] = None <=> joinRequests[q] = None
                      /\ joinRequests'[q] # None /\ joinRequests'[q].status = "Waiting" =>
                            /\ joinRequests'[q] = joinRequests[q]
                            /\ joinRequests[q].requester # d
    OBVIOUS
  <2>1. joinRequests[q] \in RequestView \cup {None}
    BY DEF TypeOK
  <2>2. CASE joinRequests[q] # None /\ joinRequests[q].requester = d
             /\ joinRequests[q].status = "Waiting"
    <3>1. joinRequests'[q] = [joinRequests[q] EXCEPT !.status = "Approved"]
      BY <2>2 DEF MemberInvited
    <3>2. joinRequests'[q] \in RequestView /\ joinRequests'[q].status = "Approved"
      BY <2>1, <2>2, <3>1 DEF RequestView, RequestStatus
    <3> QED BY <2>2, <3>2, NoneIsNoView
  <2>3. CASE ~(joinRequests[q] # None /\ joinRequests[q].requester = d
               /\ joinRequests[q].status = "Waiting")
    <3>1. joinRequests'[q] = joinRequests[q]
      BY <2>3 DEF MemberInvited
    <3> QED BY <2>1, <2>3, <3>1
  <2> QED BY <2>2, <2>3
<1>6. joinRequests' \in [Request -> RequestView \cup {None}]
  BY <1>5 DEF MemberInvited
<1>7. ViewMatchesIndex'
  BY <1>2, <1>5 DEF ViewMatchesIndex, MemberInvited, people, talk
<1>8. WaitingMeansUndecided'
  <2>1. \A i \in Invite : /\ invites'[i] = None <=> invites[i] = None
                          /\ invites'[i] # None =>
                               /\ invites'[i].invitee = invites[i].invitee
                               /\ invites'[i].request = invites[i].request
    BY <1>3, SettlingKeepsInvites DEF Settling
  <2> SUFFICES ASSUME NEW q \in Request, joinRequests'[q] # None,
                      joinRequests'[q].status = "Waiting"
               PROVE  /\ members'[joinRequests'[q].requester] = None
                      /\ \A i \in Invite :
                            invites'[i] # None /\ invites'[i].request = q =>
                                invites'[i].invitee # joinRequests'[q].requester
    BY DEF WaitingMeansUndecided
  <2>2. joinRequests'[q] = joinRequests[q] /\ joinRequests[q].requester # d
        /\ joinRequests[q].requester \in Device
    BY <1>5 DEF RequestView
  <2>3. /\ members[joinRequests[q].requester] = None
        /\ \A i \in Invite : invites[i] # None /\ invites[i].request = q
                                => invites[i].invitee # joinRequests[q].requester
    BY <2>2 DEF WaitingMeansUndecided
  <2>4. members'[joinRequests[q].requester] = members[joinRequests[q].requester]
    BY <2>2 DEF MemberInvited, TypeOK
  <2> QED BY <2>1, <2>2, <2>3, <2>4
<1>9. RequestsAreRooted' /\ RootStaysMember'
  BY <1>1, <1>2, NoneIsNoRole DEF RequestsAreRooted, RootStaysMember, Index
<1>10. ChannelMembersAreMembers'
  BY <1>1, <1>2, NoneIsNoRole DEF ChannelMembersAreMembers, Index, ChannelAccess
<1>11. PersonLinksOneToOne'
  BY <1>1, <1>2, NoneIsNoRole DEF PersonLinksOneToOne, Index
<1> QED BY <1>2, <1>3, <1>4, <1>6, <1>7, <1>8, <1>9, <1>10, <1>11, StructureStep
        DEF MemberInvited, TypeOK, people, published, talk

\* A member changes role.
LEMMA MemberRoleUpdatedAction ==
    ASSUME Inv, NEW a \in Device, NEW d \in Device, NEW r \in Role,
           MemberRoleUpdated(a, d, r)
    PROVE  Inv'
<1> USE DEF Inv
<1>1. ix \in Index /\ ix.root # None /\ ix.roles[d] # None
  BY DEF TypeOK, MemberRoleUpdated, MayUpdateMemberRole, RootedMember
<1>2. /\ ix' \in Index
      /\ ix'.root = ix.root /\ ix'.roles = [ix.roles EXCEPT ![d] = r]
      /\ ix'.channels = ix.channels /\ ix'.messages = ix.messages
      /\ ix'.joinRequests = ix.joinRequests /\ ix'.personLinks = ix.personLinks
      /\ ix'.eventChannels = ix.eventChannels
      /\ ix'.invites = Settled(ix.invites, a)
  BY <1>1, ApplyMemberInvitedFields, ApplyMemberRoleUpdatedFields DEF MemberRoleUpdated
<1>3. Settling(a) /\ EventChannelsStep
  BY <1>2 DEF MemberRoleUpdated, NextEvent, Settling, EventChannelsStep
<1>4. members[d] # None /\ members' = [members EXCEPT ![d] = r]
  BY <1>1 DEF MemberRoleUpdated, ViewMatchesIndex
<1>5. members' \in [Device -> Role \cup {None}]
  BY <1>4 DEF TypeOK
<1>6. ViewMatchesIndex'
  BY <1>2, <1>4 DEF ViewMatchesIndex, MemberRoleUpdated, people, talk
<1>7. WaitingMeansUndecided'
  <2>1. \A x \in Device : members[x] = None => members'[x] = None
    BY <1>4 DEF TypeOK
  <2> QED BY <1>3, <2>1, SettlingKeepsInvites, WaitingKept DEF Settling, MemberRoleUpdated
<1>8. RequestsAreRooted' /\ RootStaysMember'
  BY <1>1, <1>2, NoneIsNoRole DEF RequestsAreRooted, RootStaysMember, Index
<1>9. ChannelMembersAreMembers'
  BY <1>1, <1>2, NoneIsNoRole DEF ChannelMembersAreMembers, Index, ChannelAccess
<1>10. PersonLinksOneToOne'
  BY <1>1, <1>2, NoneIsNoRole DEF PersonLinksOneToOne, Index
<1> QED BY <1>2, <1>3, <1>5, <1>6, <1>7, <1>8, <1>9, <1>10, StructureStep
        DEF MemberRoleUpdated, TypeOK, people, published, talk

\* A member leaves: the role, the link and every channel membership go.
LEMMA MemberRemovedAction ==
    ASSUME Inv, NEW a \in Device, NEW d \in Device, MemberRemoved(a, d)
    PROVE  Inv'
<1> USE DEF Inv
<1>1. ix \in Index /\ ix.root # None /\ ix.root # d
  BY DEF TypeOK, MemberRemoved, MayRemoveMember, RootedMember
<1>2. /\ ix' \in Index
      /\ ix'.root = ix.root /\ ix'.roles = [ix.roles EXCEPT ![d] = None]
      /\ ix'.channels = Without(ix.channels, d) /\ ix'.messages = ix.messages
      /\ ix'.joinRequests = ix.joinRequests
      /\ ix'.personLinks = [ix.personLinks EXCEPT ![d] = None]
      /\ ix'.eventChannels = ix.eventChannels
      /\ ix'.invites = Settled(ix.invites, a)
  <2>1. ix' = ApplyMemberRemoved(ix, a, d)
    BY DEF MemberRemoved
  <2> QED BY <1>1, <2>1, ApplyMemberRemovedFields
<1>3. Settling(a) /\ EventChannelsStep
  BY <1>2 DEF MemberRemoved, NextEvent, Settling, EventChannelsStep
<1>4. members' \in [Device -> Role \cup {None}]
  BY DEF MemberRemoved, TypeOK
<1>5. personLinks' \in [Device -> Person \cup {None}]
  BY DEF MemberRemoved, TypeOK
<1>6. \A c \in Channel :
        /\ channels'[c] \in ChannelView \cup {None}
        /\ channels'[c] = None <=> channels[c] = None
        /\ channels[c] # None => /\ channels'[c].isPrivate = channels[c].isPrivate
                                 /\ channels'[c].members = channels[c].members \ {d}
  <2> SUFFICES ASSUME NEW c \in Channel
               PROVE  /\ channels'[c] \in ChannelView \cup {None}
                      /\ channels'[c] = None <=> channels[c] = None
                      /\ channels[c] # None =>
                            /\ channels'[c].isPrivate = channels[c].isPrivate
                            /\ channels'[c].members = channels[c].members \ {d}
    OBVIOUS
  <2>1. channels[c] \in ChannelView \cup {None}
    BY DEF TypeOK
  <2>2. CASE channels[c] = None
    BY <2>2 DEF MemberRemoved
  <2>3. CASE channels[c] # None
    <3>1. channels'[c] = [channels[c] EXCEPT !.members = channels[c].members \ {d}]
      BY <2>3 DEF MemberRemoved
    <3>2. /\ channels'[c] \in ChannelView
          /\ channels'[c].isPrivate = channels[c].isPrivate
          /\ channels'[c].members = channels[c].members \ {d}
      BY <2>1, <2>3, <3>1 DEF ChannelView
    <3> QED BY <2>3, <3>2, NoneIsNoView
  <2> QED BY <2>2, <2>3
<1>7. channels' \in [Channel -> ChannelView \cup {None}]
  BY <1>6 DEF MemberRemoved
<1>8. \A c \in Channel :
        /\ ix'.channels[c] = None <=> ix.channels[c] = None
        /\ ix.channels[c] # None =>
              /\ ix'.channels[c].isPrivate = ix.channels[c].isPrivate
              /\ ix'.channels[c].members = ix.channels[c].members \ {d}
  <2> SUFFICES ASSUME NEW c \in Channel
               PROVE  /\ ix'.channels[c] = None <=> ix.channels[c] = None
                      /\ ix.channels[c] # None =>
                            /\ ix'.channels[c].isPrivate = ix.channels[c].isPrivate
                            /\ ix'.channels[c].members = ix.channels[c].members \ {d}
    OBVIOUS
  <2>1. ix.channels[c] \in ChannelAccess \cup {None}
    BY <1>1 DEF Index
  <2>2. CASE ix.channels[c] = None
    BY <1>2, <2>2 DEF Without
  <2>3. CASE ix.channels[c] # None
    <3>1. ix'.channels[c]
            = [ix.channels[c] EXCEPT !.members = ix.channels[c].members \ {d}]
      BY <1>2, <2>3 DEF Without
    <3>2. /\ ix'.channels[c] \in ChannelAccess
          /\ ix'.channels[c].isPrivate = ix.channels[c].isPrivate
          /\ ix'.channels[c].members = ix.channels[c].members \ {d}
      BY <2>1, <2>3, <3>1 DEF ChannelAccess
    <3> QED BY <2>3, <3>2, NoneIsNoRecord
  <2> QED BY <2>2, <2>3
<1>9. ViewMatchesIndex'
  <2>1. members' = ix'.roles /\ personLinks' = ix'.personLinks
    BY <1>2 DEF ViewMatchesIndex, MemberRemoved
  <2>2. \A c \in Channel :
          /\ channels'[c] = None <=> ix'.channels[c] = None
          /\ channels'[c] # None => /\ channels'[c].isPrivate = ix'.channels[c].isPrivate
                                    /\ channels'[c].members = ix'.channels[c].members
    <3>1. \A c \in Channel :
            /\ channels[c] = None <=> ix.channels[c] = None
            /\ channels[c] # None => /\ channels[c].isPrivate = ix.channels[c].isPrivate
                                     /\ channels[c].members = ix.channels[c].members
      BY DEF ViewMatchesIndex
    <3> QED BY <1>6, <1>8, <3>1
  <2> QED BY <1>2, <2>1, <2>2 DEF ViewMatchesIndex, MemberRemoved, talk
<1>10. WaitingMeansUndecided'
  <2>1. \A x \in Device : members[x] = None => members'[x] = None
    BY DEF MemberRemoved, TypeOK
  <2> QED BY <1>3, <2>1, SettlingKeepsInvites, WaitingKept DEF Settling, MemberRemoved
<1>11. RequestsAreRooted' /\ RootStaysMember'
  BY <1>1, <1>2 DEF RequestsAreRooted, RootStaysMember, Index
<1>12. ChannelMembersAreMembers'
  BY <1>1, <1>2, <1>8 DEF ChannelMembersAreMembers, Index, ChannelAccess
<1>13. PersonLinksOneToOne'
  <2>1. /\ \A x \in Device : ix'.personLinks[x] # None
                  => x # d /\ ix'.personLinks[x] = ix.personLinks[x]
        /\ \A x \in Device : x # d => ix'.roles[x] = ix.roles[x]
    BY <1>1, <1>2 DEF Index
  <2> QED BY <2>1 DEF PersonLinksOneToOne
<1> QED BY <1>2, <1>3, <1>4, <1>5, <1>7, <1>9, <1>10, <1>11, <1>12, <1>13, StructureStep
        DEF MemberRemoved, TypeOK, people, published, talk

\* A device is linked to a person that nobody else is linked to.
LEMMA PersonDeviceLinkedAction ==
    ASSUME Inv, NEW a \in Device, NEW p \in Person, NEW d \in Device,
           PersonDeviceLinked(a, p, d)
    PROVE  Inv'
<1> USE DEF Inv
<1>1. ix \in Index /\ ix.roles[d] # None /\ PersonLinkOk(ix, p, d, a)
  BY DEF TypeOK, PersonDeviceLinked, MayLinkPerson, PersonLinkOk, RootedMember
<1>2. /\ ix' \in Index
      /\ ix'.root = ix.root /\ ix'.roles = ix.roles
      /\ ix'.channels = ix.channels /\ ix'.messages = ix.messages
      /\ ix'.joinRequests = ix.joinRequests
      /\ ix'.personLinks = [ix.personLinks EXCEPT ![d] = p]
      /\ ix'.eventChannels = ix.eventChannels
      /\ ix'.invites = Settled(ix.invites, a)
  BY <1>1, ApplyPersonDeviceLinkedFields DEF PersonDeviceLinked
<1>3. Settling(a) /\ EventChannelsStep
  BY <1>2 DEF PersonDeviceLinked, NextEvent, Settling, EventChannelsStep
<1>4. personLinks' \in [Device -> Person \cup {None}]
  BY DEF PersonDeviceLinked, TypeOK
<1>5. ViewMatchesIndex'
  BY <1>2 DEF ViewMatchesIndex, PersonDeviceLinked, directory, talk
<1>6. WaitingMeansUndecided'
  BY <1>3, SettlingKeepsInvites, WaitingKept DEF Settling, PersonDeviceLinked, directory
<1>7. RequestsAreRooted' /\ RootStaysMember'
  BY <1>2 DEF RequestsAreRooted, RootStaysMember
<1>8. ChannelMembersAreMembers'
  BY <1>2 DEF ChannelMembersAreMembers
<1>9. PersonLinksOneToOne'
  BY <1>1, <1>2, NoneIsNoId DEF PersonLinksOneToOne, PersonLinkOk, Index
<1> QED BY <1>2, <1>3, <1>4, <1>5, <1>6, <1>7, <1>8, <1>9, StructureStep
        DEF PersonDeviceLinked, TypeOK, directory, published, talk

\* An event that gives channel c new records in both copies, which agree and
\* list only members of the workspace.
LEMMA ChannelStepKeeps ==
    ASSUME Inv, NEW a \in Device, NEW c \in Channel,
           NEW v \in ChannelAccess, NEW w \in ChannelView,
           applied # EventId, applied' = applied \cup {NewEventId},
           ix' = ApplyInChannel(ChannelSet(ix, c, v), a, c, NewEventId),
           channels' = [channels EXCEPT ![c] = w], invites' = AcceptedBy(a),
           w.isPrivate = v.isPrivate, w.members = v.members,
           \A d \in v.members : ix.roles[d] # None,
           UNCHANGED <<directory, joinRequests, people, published, talk>>
    PROVE  Inv'
<1> USE DEF Inv
<1>1. ix \in Index /\ NewEventId \in EventId
  BY NewEventIdIsNew DEF TypeOK
<1>2. /\ ix' \in Index
      /\ ix'.root = ix.root /\ ix'.roles = ix.roles
      /\ ix'.channels = [ix.channels EXCEPT ![c] = v] /\ ix'.messages = ix.messages
      /\ ix'.joinRequests = ix.joinRequests /\ ix'.personLinks = ix.personLinks
      /\ ix'.eventChannels = [ix.eventChannels EXCEPT ![NewEventId] = c]
      /\ ix'.invites = Settled(ix.invites, a)
  BY <1>1, ChannelSetFields
<1>3. Settling(a) /\ EventChannelsStep
  BY <1>2 DEF Settling, EventChannelsStep
<1>4. channels' \in [Channel -> ChannelView \cup {None}]
  BY DEF TypeOK
<1>5. v # None /\ w # None
  BY NoneIsNoRecord, NoneIsNoView
<1>6. \A k \in Channel :
        /\ channels'[k] = None <=> ix'.channels[k] = None
        /\ channels'[k] # None => /\ channels'[k].isPrivate = ix'.channels[k].isPrivate
                                  /\ channels'[k].members = ix'.channels[k].members
  <2> SUFFICES ASSUME NEW k \in Channel
               PROVE  /\ channels'[k] = None <=> ix'.channels[k] = None
                      /\ channels'[k] # None =>
                            /\ channels'[k].isPrivate = ix'.channels[k].isPrivate
                            /\ channels'[k].members = ix'.channels[k].members
    OBVIOUS
  <2>1. CASE k = c
    <3>1. channels'[k] = w /\ ix'.channels[k] = v
      BY <1>1, <1>2, <2>1 DEF TypeOK, Index
    <3> QED BY <1>5, <3>1
  <2>2. CASE k # c
    <3>1. channels'[k] = channels[k] /\ ix'.channels[k] = ix.channels[k]
      BY <1>1, <1>2, <2>2 DEF TypeOK, Index
    <3> QED BY <3>1 DEF ViewMatchesIndex
  <2> QED BY <2>1, <2>2
<1>7. ViewMatchesIndex'
  BY <1>2, <1>6 DEF ViewMatchesIndex, directory, people, talk
<1>8. WaitingMeansUndecided'
  BY <1>3, SettlingKeepsInvites, WaitingKept DEF Settling, directory
<1>9. RequestsAreRooted' /\ RootStaysMember'
  BY <1>2 DEF RequestsAreRooted, RootStaysMember
<1>10. ChannelMembersAreMembers'
  BY <1>1, <1>2 DEF ChannelMembersAreMembers, Index
<1>11. PersonLinksOneToOne'
  BY <1>2 DEF PersonLinksOneToOne
<1> QED BY <1>2, <1>3, <1>4, <1>7, <1>8, <1>9, <1>10, <1>11, StructureStep
        DEF TypeOK, directory, people, published, talk

\* Channels come into being with members of the workspace only.
LEMMA ChannelCreationActions ==
    ASSUME Inv, NEW a \in Device, NEW c \in Channel,
           \/ \E private \in BOOLEAN : ChannelCreated(a, c, private)
           \/ \E participants \in SUBSET Device :
                DirectMessageChannelCreated(a, c, participants)
    PROVE  Inv'
<1>1. ix \in Index
  BY DEF Inv, TypeOK
<1>2. ASSUME applied # EventId
      PROVE  NewEventId \in EventId
  BY <1>2, NewEventIdIsNew DEF Inv, TypeOK
<1>3. ASSUME NEW private \in BOOLEAN, ChannelCreated(a, c, private)
      PROVE  Inv'
  <2> DEFINE M == IF private THEN {a} ELSE {}
             v == Opened(private, a, M)
             w == [isPrivate |-> private, members |-> M,
                   directMessage |-> FALSE, archived |-> FALSE]
  <2>1. ix.roles[a] # None
    BY <1>3 DEF ChannelCreated, MayCreateChannel, RequireRole, RootedMember
  <2>2. \A d \in M : ix.roles[d] # None
    BY <2>1
  <2>3. v \in ChannelAccess /\ w \in ChannelView
    BY DEF ChannelAccess, ChannelView, Opened
  <2>4. ix' = ApplyInChannel(ChannelSet(ix, c, v), a, c, NewEventId)
    <3>1. ix' = ApplyChannelCreated(ix, a, c, private, NewEventId) /\ applied # EventId
      BY <1>3 DEF ChannelCreated, NextEvent
    <3> QED BY <3>1, ApplyChannelCreatedIsSet
  <2>5. channels' = [channels EXCEPT ![c] = w]
    BY <1>3 DEF ChannelCreated
  <2>6. w.isPrivate = v.isPrivate /\ w.members = v.members /\ v.members = M
    BY DEF Opened
  <2> HIDE DEF v, w, M
  <2> QED BY <1>3, <2>2, <2>3, <2>4, <2>5, <2>6, ChannelStepKeeps
          DEF ChannelCreated, NextEvent
<1>4. ASSUME NEW participants \in SUBSET Device,
             DirectMessageChannelCreated(a, c, participants)
      PROVE  Inv'
  <2> DEFINE M == participants \cup {a}
             v == Opened(TRUE, a, M)
             w == [isPrivate |-> TRUE, members |-> M,
                   directMessage |-> TRUE, archived |-> FALSE]
  <2>1. \A d \in M : ix.roles[d] # None
    BY <1>4 DEF DirectMessageChannelCreated, MayCreateDirectMessage, RootedMember
  <2>2. v \in ChannelAccess /\ w \in ChannelView
    BY DEF ChannelAccess, ChannelView, Opened
  <2>3. ix' = ApplyInChannel(ChannelSet(ix, c, v), a, c, NewEventId)
    <3>1. /\ ix' = ApplyDirectMessageCreated(ix, a, c, participants, NewEventId)
          /\ applied # EventId
      BY <1>4 DEF DirectMessageChannelCreated, NextEvent
    <3> QED BY <3>1, ApplyDirectMessageCreatedIsSet
  <2>4. channels' = [channels EXCEPT ![c] = w]
    BY <1>4 DEF DirectMessageChannelCreated
  <2>5. w.isPrivate = v.isPrivate /\ w.members = v.members /\ v.members = M
    BY DEF Opened
  <2> HIDE DEF v, w, M
  <2> QED BY <1>4, <2>1, <2>2, <2>3, <2>4, <2>5, ChannelStepKeeps
          DEF DirectMessageChannelCreated, NextEvent
<1> QED BY <1>3, <1>4

\* Channel members come and go, in both copies; only members are added.
LEMMA ChannelMembershipActions ==
    ASSUME Inv, NEW a \in Device, NEW c \in Channel, NEW d \in Device,
           ChannelMemberAdded(a, c, d) \/ ChannelMemberRemoved(a, c, d)
    PROVE  Inv'
<1>1. ix \in Index /\ ix.channels[c] # None /\ ix.channels[c] \in ChannelAccess
  BY DEF Inv, TypeOK, Index, ChannelMemberAdded, ChannelMemberRemoved, MayAddChannelMember,
         MayRemoveChannelMember, ChannelGrantOk, ChannelAccessOk
<1>2. /\ channels[c] # None /\ channels[c] \in ChannelView
      /\ channels[c].isPrivate = ix.channels[c].isPrivate
      /\ channels[c].members = ix.channels[c].members
  BY <1>1 DEF Inv, TypeOK, ViewMatchesIndex
<1>3. applied # EventId /\ applied' = applied \cup {NewEventId} /\ NewEventId \in EventId
  BY NewEventIdIsNew DEF Inv, TypeOK, ChannelMemberAdded, ChannelMemberRemoved, NextEvent
<1>4. \A x \in ix.channels[c].members : ix.roles[x] # None
  BY <1>1 DEF Inv, ChannelMembersAreMembers
<1>5. ASSUME NEW M \in SUBSET Device, \A x \in M : ix.roles[x] # None,
             ix' = ApplyInChannel(ChannelSet(ix, c, Relisted(ix.channels[c], M)),
                                  a, c, NewEventId),
             channels' = [channels EXCEPT ![c] = [channels[c] EXCEPT !.members = M]]
      PROVE  Inv'
  <2> DEFINE v == Relisted(ix.channels[c], M)
             w == [channels[c] EXCEPT !.members = M]
  <2>1. v \in ChannelAccess /\ v.members = M /\ v.isPrivate = ix.channels[c].isPrivate
    BY <1>1 DEF ChannelAccess, Relisted
  <2>2. w \in ChannelView /\ w.members = M /\ w.isPrivate = channels[c].isPrivate
    BY <1>2 DEF ChannelView
  <2> HIDE DEF v, w
  <2>3. ix' = ApplyInChannel(ChannelSet(ix, c, v), a, c, NewEventId)
        /\ channels' = [channels EXCEPT ![c] = w]
    BY <1>5 DEF v, w
  <2>4. w.isPrivate = v.isPrivate
    BY <1>2, <2>1, <2>2
  <2>5. /\ invites' = AcceptedBy(a)
        /\ UNCHANGED <<directory, joinRequests, people, published, talk>>
    BY DEF ChannelMemberAdded, ChannelMemberRemoved
  <2>6. \A x \in v.members : ix.roles[x] # None
    BY <1>5, <2>1
  <2> QED BY <1>3, <2>1, <2>2, <2>3, <2>4, <2>5, <2>6, ChannelStepKeeps
<1>6. CASE ChannelMemberAdded(a, c, d)
  <2> DEFINE M == ix.channels[c].members \cup {d}
  <2>1. ix' = ApplyInChannel(ChannelSet(ix, c, Relisted(ix.channels[c], M)),
                             a, c, NewEventId)
    <3>1. ix' = ApplyInChannel([ix EXCEPT !.channels[c].members = M], a, c, NewEventId)
      BY <1>6 DEF ChannelMemberAdded, ApplyChannelMemberAdded
    <3> HIDE DEF M
    <3>2. [ix EXCEPT !.channels[c].members = M]
            = ChannelSet(ix, c, Relisted(ix.channels[c], M))
      BY <1>1, RelistingIsSet
    <3> QED BY <3>1, <3>2
  <2>2. channels' = [channels EXCEPT ![c] = [channels[c] EXCEPT !.members = M]]
    BY <1>2, <1>6 DEF ChannelMemberAdded, Inv, TypeOK
  <2>3. M \in SUBSET Device /\ \A x \in M : ix.roles[x] # None
    BY <1>1, <1>4, <1>6 DEF ChannelMemberAdded, MayAddChannelMember, RootedMember,
                            ChannelAccess
  <2> QED BY <1>5, <2>1, <2>2, <2>3
<1>7. CASE ChannelMemberRemoved(a, c, d)
  <2> DEFINE M == ix.channels[c].members \ {d}
  <2>1. ix' = ApplyInChannel(ChannelSet(ix, c, Relisted(ix.channels[c], M)),
                             a, c, NewEventId)
    <3>1. ix' = ApplyInChannel([ix EXCEPT !.channels[c].members = M], a, c, NewEventId)
      BY <1>7 DEF ChannelMemberRemoved, ApplyChannelMemberRemoved
    <3> HIDE DEF M
    <3>2. [ix EXCEPT !.channels[c].members = M]
            = ChannelSet(ix, c, Relisted(ix.channels[c], M))
      BY <1>1, RelistingIsSet
    <3> QED BY <3>1, <3>2
  <2>2. channels' = [channels EXCEPT ![c] = [channels[c] EXCEPT !.members = M]]
    BY <1>2, <1>7 DEF ChannelMemberRemoved, Inv, TypeOK
  <2>3. M \in SUBSET Device /\ \A x \in M : ix.roles[x] # None
    BY <1>1, <1>4 DEF ChannelAccess
  <2> QED BY <1>5, <2>1, <2>2, <2>3
<1> QED BY <1>6, <1>7

\* Renaming and archiving leave access alone.
LEMMA ChannelDetailsAction ==
    ASSUME Inv, NEW a \in Device, NEW c \in Channel, NEW archived \in BOOLEAN \cup {None},
           ChannelDetailsUpdated(a, c, archived)
    PROVE  Inv'
<1> USE DEF Inv
<1>1. Settling(a) /\ SameAccess(ix, ix') /\ EventChannelsStep
  BY QuietInChannel DEF ChannelDetailsUpdated
<1>2. channels[c] # None /\ channels[c] \in ChannelView
  BY DEF TypeOK, ViewMatchesIndex, ChannelDetailsUpdated, MayUpdateChannelDetails,
         ChannelAccessOk
<1> DEFINE f == IF archived = None THEN channels[c].archived ELSE archived
           w == [channels[c] EXCEPT !.archived = f]
<1>0. f \in BOOLEAN
  BY <1>2 DEF ChannelView
<1> HIDE DEF f
<1>3. w \in ChannelView /\ w.isPrivate = channels[c].isPrivate
      /\ w.members = channels[c].members
  BY <1>0, <1>2 DEF ChannelView
<1>4. channels' = [channels EXCEPT ![c] = w]
  BY <1>2 DEF ChannelDetailsUpdated, TypeOK, f
<1> HIDE DEF w
<1>5. channels' \in [Channel -> ChannelView \cup {None}]
  BY <1>3, <1>4 DEF TypeOK
<1>6. \A k \in Channel :
        /\ channels'[k] = None <=> channels[k] = None
        /\ channels'[k] # None => /\ channels'[k].isPrivate = channels[k].isPrivate
                                  /\ channels'[k].members = channels[k].members
  BY <1>2, <1>3, <1>4, NoneIsNoView DEF TypeOK
<1>7. ViewMatchesIndex'
  BY <1>1, <1>6 DEF ViewMatchesIndex, SameAccess, ChannelDetailsUpdated, directory,
                    people, talk
<1>8. WaitingMeansUndecided'
  BY <1>1, SettlingKeepsInvites, WaitingKept DEF Settling, directory, ChannelDetailsUpdated
<1>9. RequestsAreRooted' /\ RootStaysMember'
  BY <1>1 DEF RequestsAreRooted, RootStaysMember, SameAccess
<1>10. ChannelMembersAreMembers'
  BY <1>1 DEF ChannelMembersAreMembers, SameAccess
<1>11. PersonLinksOneToOne'
  BY <1>1 DEF PersonLinksOneToOne, SameAccess
<1> QED BY <1>1, <1>5, <1>7, <1>8, <1>9, <1>10, <1>11, StructureStep
        DEF TypeOK, ChannelDetailsUpdated, SameAccess, directory, people, published, talk

-----------------------------------------------------------------------------
(* Invites and join requests.                                              *)

\* An event about invites or join requests: what it must still establish.
LEMMA AdmissionKeeps ==
    ASSUME Inv, applied # EventId, applied' = applied \cup {NewEventId},
           ix' \in Index, SameAccess(ix, ix'), ix'.eventChannels = ix.eventChannels,
           invites' \in [Invite -> InviteView \cup {None}], InviteCopiesAgree',
           joinRequests' \in [Request -> RequestView \cup {None}],
           \A q \in Request : joinRequests'[q] = None <=> joinRequests[q] = None,
           WaitingMeansUndecided',
           UNCHANGED <<directory, channels, people, published, talk>>
    PROVE  Inv'
<1> USE DEF Inv, directory, people, published, talk
<1>1. applied' \subseteq EventId
  BY NewEventIdIsNew DEF TypeOK
<1>2. TypeOK'
  BY <1>1 DEF TypeOK
<1>3. ViewMatchesIndex'
  BY DEF ViewMatchesIndex, SameAccess
<1>4. RequestsAreRooted' /\ RootStaysMember'
  BY DEF RequestsAreRooted, RootStaysMember, SameAccess
<1>5. ChannelMembersAreMembers'
  BY DEF ChannelMembersAreMembers, SameAccess
<1>6. PersonLinksOneToOne'
  BY DEF PersonLinksOneToOne, SameAccess
<1>7. EventChannelsAreApplied' /\ ReadMarkersStayInChannel'
  BY ReadsKept DEF EventChannelsStep
<1>8. ReactionCountsAreExact'
  BY DEF ReactionCountsAreExact
<1> QED BY <1>2, <1>3, <1>4, <1>5, <1>6, <1>7, <1>8

\* The two copies of an invite are written together.
LEMMA InviteSetKeepsCopies ==
    ASSUME TypeOK, InviteCopiesAgree, NEW i \in Invite,
           NEW v \in InviteAccess, NEW w \in InviteView,
           ix'.invites = [ix.invites EXCEPT ![i] = v],
           invites' = [invites EXCEPT ![i] = w],
           w.maxClaims = v.maxClaims,
           w.capability <=> v.invitee = None,
           w.capability \/ w.maxClaims = 1,
           w.status = "Invited" <=> (~v.revoked /\ v.claimCount < v.maxClaims),
           w.status = "Invited" => /\ w.claimCount = v.claimCount
                                   /\ w.capability \/ w.invitee = v.invitee
    PROVE  invites' \in [Invite -> InviteView \cup {None}] /\ InviteCopiesAgree'
<1>1. invites' \in [Invite -> InviteView \cup {None}]
  BY DEF TypeOK
<1>2. v # None /\ w # None
  BY NoneIsNoRecord, NoneIsNoView
<1>3. ASSUME NEW j \in Invite
      PROVE  /\ invites'[j] = None <=> ix'.invites[j] = None
             /\ invites'[j] # None =>
                  /\ invites'[j].maxClaims = ix'.invites[j].maxClaims
                  /\ invites'[j].capability <=> ix'.invites[j].invitee = None
                  /\ invites'[j].capability \/ invites'[j].maxClaims = 1
                  /\ invites'[j].status = "Invited" <=> Claimable(ix', j)
                  /\ invites'[j].status = "Invited" =>
                       /\ invites'[j].claimCount = ix'.invites[j].claimCount
                       /\ \/ invites'[j].capability
                          \/ invites'[j].invitee = ix'.invites[j].invitee
  <2>1. CASE j = i
    <3>1. invites'[j] = w /\ ix'.invites[j] = v
      BY <2>1 DEF TypeOK, Index
    <3>2. Claimable(ix', j) <=> (~v.revoked /\ v.claimCount < v.maxClaims)
      BY <1>2, <3>1 DEF Claimable
    <3> QED BY <1>2, <3>1, <3>2
  <2>2. CASE j # i
    <3>1. invites'[j] = invites[j] /\ ix'.invites[j] = ix.invites[j]
      BY <2>2 DEF TypeOK, Index
    <3>2. Claimable(ix', j) <=> Claimable(ix, j)
      BY <3>1 DEF Claimable
    <3> QED BY <3>1, <3>2 DEF InviteCopiesAgree
  <2> QED BY <2>1, <2>2
<1> QED BY <1>1, <1>3 DEF InviteCopiesAgree

\* Approving a request through an invite: no request appears or vanishes, and
\* the one that is named does not go on waiting for the invited device.
LEMMA ApprovedFromInviteKeeps ==
    ASSUME TypeOK, NEW q \in Request, NEW d \in Device,
           joinRequests' = ApprovedFromInvite(q, d)
    PROVE  /\ joinRequests' \in [Request -> RequestView \cup {None}]
           /\ \A k \in Request :
                /\ joinRequests'[k] = None <=> joinRequests[k] = None
                /\ joinRequests'[k] # None /\ joinRequests'[k].status = "Waiting" =>
                      /\ joinRequests'[k] = joinRequests[k]
                      /\ k = q => joinRequests[k].requester # d
<1>1. joinRequests \in [Request -> RequestView \cup {None}]
  BY DEF TypeOK
<1>2. CASE joinRequests[q] # None /\ joinRequests[q].requester = d
           /\ joinRequests[q].status = "Waiting"
  <2> DEFINE v == [joinRequests[q] EXCEPT !.status = "Approved"]
  <2>1. v \in RequestView /\ v.status = "Approved"
    BY <1>1, <1>2 DEF RequestView, RequestStatus
  <2>2. joinRequests' = [joinRequests EXCEPT ![q] = v]
    BY <1>1, <1>2 DEF ApprovedFromInvite
  <2> HIDE DEF v
  <2> QED BY <1>1, <1>2, <2>1, <2>2, NoneIsNoView
<1>3. CASE ~(joinRequests[q] # None /\ joinRequests[q].requester = d
             /\ joinRequests[q].status = "Waiting")
  <2>1. joinRequests' = joinRequests
    BY <1>3 DEF ApprovedFromInvite
  <2> QED BY <1>1, <1>3, <2>1
<1> QED BY <1>2, <1>3

\* An invite that names device d for request q, once q no longer waits for d.
LEMMA NamedInviteKeepsWaiting ==
    ASSUME TypeOK, WaitingMeansUndecided, NEW i \in Invite, NEW w \in InviteView,
           invites' = [invites EXCEPT ![i] = w], members' = members,
           \A k \in Request :
                joinRequests'[k] # None /\ joinRequests'[k].status = "Waiting" =>
                    /\ joinRequests'[k] = joinRequests[k]
                    /\ k = w.request => joinRequests[k].requester # w.invitee
    PROVE  WaitingMeansUndecided'
<1> SUFFICES ASSUME NEW k \in Request, joinRequests'[k] # None,
                    joinRequests'[k].status = "Waiting"
             PROVE  /\ members'[joinRequests'[k].requester] = None
                    /\ \A j \in Invite :
                          invites'[j] # None /\ invites'[j].request = k =>
                              invites'[j].invitee # joinRequests'[k].requester
  BY DEF WaitingMeansUndecided
<1>1. joinRequests'[k] = joinRequests[k]
      /\ (k = w.request => joinRequests[k].requester # w.invitee)
  OBVIOUS
<1>2. /\ members[joinRequests[k].requester] = None
      /\ \A j \in Invite : invites[j] # None /\ invites[j].request = k
                              => invites[j].invitee # joinRequests[k].requester
  BY <1>1 DEF WaitingMeansUndecided
<1>3. ASSUME NEW j \in Invite, invites'[j] # None, invites'[j].request = k
      PROVE  invites'[j].invitee # joinRequests[k].requester
  <2>1. CASE j = i
    <3>1. invites'[j] = w
      BY <2>1 DEF TypeOK
    <3> QED BY <1>1, <1>3, <3>1
  <2>2. CASE j # i
    <3>1. invites'[j] = invites[j]
      BY <2>2 DEF TypeOK
    <3> QED BY <1>2, <1>3, <3>1
  <2> QED BY <2>1, <2>2
<1> QED BY <1>1, <1>2, <1>3

\* An invite is recorded for a device, and with it its join request approved.
LEMMA InviteRecordedAction ==
    ASSUME Inv, NEW a \in Device, NEW i \in Invite, NEW d \in Device, NEW r \in Role,
           NEW q \in Request \cup {None}, WorkspaceInviteRecorded(a, i, d, r, q)
    PROVE  Inv'
<1> USE DEF Inv
<1> DEFINE v == [maxClaims |-> 1, claimCount |-> 0, revoked |-> FALSE, invitee |-> d]
           w == [status |-> "Invited", capability |-> FALSE, invitee |-> d, request |-> q,
                 maxClaims |-> 1, claimCount |-> 0]
<1>1. /\ v \in InviteAccess
      /\ v.maxClaims = 1 /\ v.claimCount = 0 /\ ~v.revoked /\ v.invitee = d
  BY MaxClaimsPositive DEF InviteAccess
<1>2. /\ w \in InviteView /\ w.status = "Invited" /\ w.capability = FALSE
      /\ w.invitee = d /\ w.request = q /\ w.maxClaims = 1 /\ w.claimCount = 0
  BY MaxClaimsPositive DEF InviteView
<1>3. ix' = ApplyInviteRecorded(ix, i, d) /\ ix \in Index
  BY DEF WorkspaceInviteRecorded, TypeOK
<1>4. /\ ix' \in Index /\ SameAccess(ix, ix') /\ ix'.eventChannels = ix.eventChannels
      /\ ix'.invites = [ix.invites EXCEPT ![i] = v]
  BY <1>3, ApplyInviteRecordedFields
<1>5. invites' = [invites EXCEPT ![i] = w]
  BY DEF WorkspaceInviteRecorded
<1> HIDE DEF v, w
<1>6. /\ w.maxClaims = v.maxClaims /\ w.maxClaims = 1
      /\ w.capability <=> v.invitee = None
      /\ w.status = "Invited" <=> (~v.revoked /\ v.claimCount < v.maxClaims)
      /\ w.claimCount = v.claimCount /\ w.invitee = v.invitee
  BY <1>1, <1>2, NoneIsNoId
<1>7. invites' \in [Invite -> InviteView \cup {None}] /\ InviteCopiesAgree'
  BY <1>1, <1>2, <1>4, <1>5, <1>6, InviteSetKeepsCopies
<1>8. /\ joinRequests' \in [Request -> RequestView \cup {None}]
      /\ \A k \in Request :
            /\ joinRequests'[k] = None <=> joinRequests[k] = None
            /\ joinRequests'[k] # None /\ joinRequests'[k].status = "Waiting" =>
                  /\ joinRequests'[k] = joinRequests[k]
                  /\ k = w.request => joinRequests[k].requester # w.invitee
  <2>1. CASE q = None
    <3>1. joinRequests' = joinRequests
      BY <2>1 DEF WorkspaceInviteRecorded
    <3> QED BY <1>2, <2>1, <3>1, NoneIsNoId DEF TypeOK
  <2>2. CASE q # None
    <3>1. joinRequests' = ApprovedFromInvite(q, d) /\ q \in Request
      BY <2>2 DEF WorkspaceInviteRecorded
    <3> QED BY <1>2, <3>1, ApprovedFromInviteKeeps
  <2> QED BY <2>1, <2>2
<1>9. WaitingMeansUndecided'
  <2>1. members' = members
    BY DEF WorkspaceInviteRecorded, directory
  <2> QED BY <1>2, <1>5, <1>8, <2>1, NamedInviteKeepsWaiting
<1> QED BY <1>4, <1>7, <1>8, <1>9, AdmissionKeeps DEF WorkspaceInviteRecorded, NextEvent

\* A capability invite is created.
LEMMA InviteCapabilityCreatedAction ==
    ASSUME Inv, NEW a \in Device, NEW i \in Invite, NEW r \in Role,
           NEW m \in 0..MaxClaims \cup {None}, WorkspaceInviteCapabilityCreated(a, i, r, m)
    PROVE  Inv'
<1> USE DEF Inv
<1> DEFINE n == EffectiveMaxClaims(m)
           v == [maxClaims |-> n, claimCount |-> 0, revoked |-> FALSE, invitee |-> None]
           w == [status |-> "Invited", capability |-> TRUE, invitee |-> None,
                 request |-> None, maxClaims |-> n, claimCount |-> 0]
<1>1. n \in 1..MaxClaims
  BY EffectiveMaxClaimsType
<1>2. ix' = ApplyInviteCapabilityCreated(ix, i, m) /\ ix \in Index
  BY DEF WorkspaceInviteCapabilityCreated, TypeOK
<1>3. /\ ix' \in Index /\ SameAccess(ix, ix') /\ ix'.eventChannels = ix.eventChannels
      /\ ix'.invites = [ix.invites EXCEPT ![i] = v]
  BY <1>2, ApplyInviteCapabilityCreatedFields
<1>4. invites' = [invites EXCEPT ![i] = w]
  BY DEF WorkspaceInviteCapabilityCreated
<1> HIDE DEF n
<1>5. /\ v \in InviteAccess
      /\ v.maxClaims = n /\ v.claimCount = 0 /\ ~v.revoked /\ v.invitee = None
  BY <1>1, MaxClaimsPositive DEF InviteAccess
<1>6. /\ w \in InviteView /\ w.status = "Invited" /\ w.capability = TRUE
      /\ w.invitee = None /\ w.request = None /\ w.maxClaims = n /\ w.claimCount = 0
  BY <1>1, MaxClaimsPositive DEF InviteView
<1> HIDE DEF v, w
<1>7. 0 < n
  BY <1>1
<1>8. invites' \in [Invite -> InviteView \cup {None}] /\ InviteCopiesAgree'
  BY <1>3, <1>4, <1>5, <1>6, <1>7, InviteSetKeepsCopies
<1>9. joinRequests' = joinRequests
  BY DEF WorkspaceInviteCapabilityCreated
<1>10. WaitingMeansUndecided'
  <2>1. members' = members
    BY DEF WorkspaceInviteCapabilityCreated, directory
  <2>2. \A k \in Request : k # w.request
    BY <1>6, NoneIsNoId
  <2> QED BY <1>4, <1>6, <1>9, <2>1, <2>2, NamedInviteKeepsWaiting
<1> QED BY <1>3, <1>8, <1>9, <1>10, AdmissionKeeps
        DEF WorkspaceInviteCapabilityCreated, NextEvent, TypeOK

\* An invite is claimed: both counts go up while they are below the limit, and
\* the claim that reaches the limit closes both.
LEMMA InviteClaimedAction ==
    ASSUME Inv, NEW a \in Device, NEW i \in Invite, NEW d \in Device, NEW q \in Request,
           WorkspaceInviteClaimed(a, i, d, q)
    PROVE  Inv'
<1> USE DEF Inv
<1> DEFINE x == ix.invites[i]
           y == invites[i]
           v == [x EXCEPT !.claimCount = x.claimCount + 1]
           s == IF y.claimCount + 1 >= y.maxClaims THEN "Accepted" ELSE y.status
           w == [y EXCEPT !.invitee = d, !.request = q, !.claimCount = y.claimCount + 1,
                          !.status = s]
<1>1. ix' = ApplyInviteClaimed(ix, i) /\ ix \in Index /\ Claimable(ix, i)
  BY DEF WorkspaceInviteClaimed, TypeOK, MayClaimInvite
<1>2. /\ ix' \in Index /\ SameAccess(ix, ix') /\ ix'.eventChannels = ix.eventChannels
      /\ ix'.invites = [ix.invites EXCEPT ![i] = v]
  BY <1>1, ApplyInviteClaimedFields
<1>3. x \in InviteAccess /\ ~x.revoked /\ x.claimCount < x.maxClaims
  BY <1>1 DEF Claimable, Index
<1>4. y \in InviteView /\ y.status = "Invited" /\ y.maxClaims = x.maxClaims
      /\ y.claimCount = x.claimCount /\ (y.capability <=> x.invitee = None)
      /\ (y.capability \/ y.invitee = x.invitee) /\ (y.capability \/ y.maxClaims = 1)
  BY <1>1, <1>3, NoneIsNoRecord DEF InviteCopiesAgree, TypeOK
<1>5. invites' = [invites EXCEPT ![i] = w]
  BY DEF WorkspaceInviteClaimed
<1>6. joinRequests' = ApprovedFromInvite(q, d)
  BY DEF WorkspaceInviteClaimed
<1> HIDE DEF x, y
<1>7. /\ x.claimCount \in Nat /\ x.maxClaims \in Nat
      /\ x.claimCount + 1 \in 0..MaxClaims
  BY <1>3, MaxClaimsPositive DEF InviteAccess
<1>8. /\ v \in InviteAccess /\ v.maxClaims = x.maxClaims /\ v.invitee = x.invitee
      /\ v.claimCount = x.claimCount + 1 /\ v.revoked = x.revoked
  BY <1>3, <1>7 DEF InviteAccess
<1>9. s \in {"Invited", "Accepted"} /\ (s = "Invited" <=> x.claimCount + 1 < x.maxClaims)
  BY <1>4, <1>7
<1> HIDE DEF s
<1>10. /\ w \in InviteView /\ w.maxClaims = x.maxClaims /\ w.capability = y.capability
       /\ w.claimCount = x.claimCount + 1 /\ w.status = s
       /\ w.invitee = d /\ w.request = q
  BY <1>4, <1>7, <1>9 DEF InviteView
<1> HIDE DEF v, w
<1>11. w.status = "Invited" => w.capability
  BY <1>4, <1>7, <1>9, <1>10
<1>12. invites' \in [Invite -> InviteView \cup {None}] /\ InviteCopiesAgree'
  BY <1>2, <1>3, <1>4, <1>5, <1>8, <1>9, <1>10, <1>11, InviteSetKeepsCopies
<1>13. /\ joinRequests' \in [Request -> RequestView \cup {None}]
       /\ \A k \in Request :
            /\ joinRequests'[k] = None <=> joinRequests[k] = None
            /\ joinRequests'[k] # None /\ joinRequests'[k].status = "Waiting" =>
                  /\ joinRequests'[k] = joinRequests[k]
                  /\ k = w.request => joinRequests[k].requester # w.invitee
  BY <1>6, <1>10, ApprovedFromInviteKeeps
<1>14. WaitingMeansUndecided'
  <2>1. members' = members
    BY DEF WorkspaceInviteClaimed, directory
  <2> QED BY <1>5, <1>10, <1>13, <2>1, NamedInviteKeepsWaiting
<1> QED BY <1>2, <1>12, <1>13, <1>14, AdmissionKeeps DEF WorkspaceInviteClaimed, NextEvent

\* An invite is revoked, in both copies.
LEMMA InviteResolvedAction ==
    ASSUME Inv, NEW a \in Device, NEW i \in Invite, WorkspaceInviteResolved(a, i)
    PROVE  Inv'
<1> USE DEF Inv
<1> DEFINE x == ix.invites[i]
           y == invites[i]
           v == [x EXCEPT !.revoked = TRUE]
           w == [y EXCEPT !.status = "Revoked"]
<1>1. ix' = ApplyInviteResolved(ix, i) /\ ix \in Index /\ ix.invites[i] # None
  BY DEF WorkspaceInviteResolved, TypeOK, MayResolveInvite
<1>2. /\ ix' \in Index /\ SameAccess(ix, ix') /\ ix'.eventChannels = ix.eventChannels
      /\ ix'.invites = [ix.invites EXCEPT ![i] = v]
  BY <1>1, ApplyInviteResolvedFields
<1>3. x \in InviteAccess
  BY <1>1 DEF Index
<1>4. y \in InviteView /\ y # None /\ y.maxClaims = x.maxClaims
      /\ (y.capability <=> x.invitee = None) /\ (y.capability \/ y.maxClaims = 1)
  BY <1>1 DEF InviteCopiesAgree, TypeOK
<1>5. invites' = [invites EXCEPT ![i] = w]
  BY DEF WorkspaceInviteResolved, TypeOK
<1>6. joinRequests' = joinRequests /\ members' = members
  BY DEF WorkspaceInviteResolved, directory
<1>7. \A k \in Request :
        joinRequests[k] # None /\ joinRequests[k].status = "Waiting" /\ k = y.request
            => joinRequests[k].requester # y.invitee
  BY <1>4 DEF WaitingMeansUndecided
<1> HIDE DEF x, y
<1>8. /\ v \in InviteAccess /\ v.maxClaims = x.maxClaims /\ v.invitee = x.invitee
      /\ v.revoked
  BY <1>3 DEF InviteAccess
<1>9. /\ w \in InviteView /\ w.maxClaims = y.maxClaims /\ w.capability = y.capability
      /\ w.status = "Revoked" /\ w.request = y.request /\ w.invitee = y.invitee
  BY <1>4 DEF InviteView
<1> HIDE DEF v, w
<1>10. invites' \in [Invite -> InviteView \cup {None}] /\ InviteCopiesAgree'
  BY <1>2, <1>4, <1>5, <1>8, <1>9, InviteSetKeepsCopies
<1>11. WaitingMeansUndecided'
  BY <1>5, <1>6, <1>7, <1>9, NamedInviteKeepsWaiting
<1> QED BY <1>2, <1>6, <1>10, <1>11, AdmissionKeeps
        DEF WorkspaceInviteResolved, NextEvent, TypeOK

\* A join request is recorded: approved at once if its device is known.
LEMMA JoinRequestRecordedAction ==
    ASSUME Inv, NEW a \in Device, NEW q \in Request, NEW d \in Device,
           WorkspaceJoinRequestRecorded(a, q, d)
    PROVE  Inv'
<1> USE DEF Inv
<1> DEFINE Known == \/ members[d] # None
                    \/ \E i \in Invite : /\ invites[i] # None
                                         /\ invites[i].request = q
                                         /\ invites[i].invitee = d
           s == IF Known THEN "Approved" ELSE "Waiting"
           v == [requester |-> d, status |-> s]
<1>1. ix \in Index /\ ix.root # None
  BY DEF TypeOK, WorkspaceJoinRequestRecorded, MayRecordJoinRequest, RequireRole, RootedMember
<1>2. /\ ix' \in Index
      /\ ix'.root = ix.root /\ ix'.roles = ix.roles
      /\ ix'.channels = ix.channels /\ ix'.messages = ix.messages
      /\ ix'.joinRequests = ix.joinRequests \cup {q}
      /\ ix'.personLinks = ix.personLinks
      /\ ix'.eventChannels = ix.eventChannels
      /\ ix'.invites = Settled(ix.invites, a)
  <2>1. ix' = ApplyJoinRequestRecorded(ix, a, q)
    BY DEF WorkspaceJoinRequestRecorded
  <2> QED BY <1>1, <2>1, ApplyJoinRequestRecordedFields
<1>3. Settling(a) /\ EventChannelsStep
  BY <1>2 DEF WorkspaceJoinRequestRecorded, NextEvent, Settling, EventChannelsStep
<1>4. joinRequests' = [joinRequests EXCEPT ![q] = v]
  BY DEF WorkspaceJoinRequestRecorded
<1>5. s = "Waiting" => /\ members[d] = None
                       /\ \A i \in Invite : invites[i] # None /\ invites[i].request = q
                                                => invites[i].invitee # d
  OBVIOUS
<1>6. s \in {"Approved", "Waiting"}
  OBVIOUS
<1> HIDE DEF s, Known
<1>7. v \in RequestView /\ v.requester = d /\ v.status = s
  BY <1>6 DEF RequestView, RequestStatus
<1> HIDE DEF v
<1>8. joinRequests' \in [Request -> RequestView \cup {None}]
  BY <1>4, <1>7 DEF TypeOK
<1>9. \A k \in Request : joinRequests'[k] # None <=> k = q \/ joinRequests[k] # None
  BY <1>4, <1>7, NoneIsNoView DEF TypeOK
<1>10. UNCHANGED <<members, channels, messages, personLinks>>
  BY DEF WorkspaceJoinRequestRecorded, directory, people, talk
<1>11. ViewMatchesIndex'
  BY <1>2, <1>9, <1>10 DEF ViewMatchesIndex
<1>12. WaitingMeansUndecided'
  <2>1. \A i \in Invite : /\ invites'[i] = None <=> invites[i] = None
                          /\ invites'[i] # None =>
                               /\ invites'[i].invitee = invites[i].invitee
                               /\ invites'[i].request = invites[i].request
    BY <1>3, SettlingKeepsInvites DEF Settling
  <2> SUFFICES ASSUME NEW k \in Request, joinRequests'[k] # None,
                      joinRequests'[k].status = "Waiting"
               PROVE  /\ members'[joinRequests'[k].requester] = None
                      /\ \A i \in Invite :
                            invites'[i] # None /\ invites'[i].request = k =>
                                invites'[i].invitee # joinRequests'[k].requester
    BY DEF WaitingMeansUndecided
  <2>2. CASE k = q
    <3>1. joinRequests'[k] = v
      BY <1>4, <2>2 DEF TypeOK
    <3> QED BY <1>5, <1>7, <1>10, <2>1, <2>2, <3>1
  <2>3. CASE k # q
    <3>1. joinRequests'[k] = joinRequests[k]
      BY <1>4, <2>3 DEF TypeOK
    <3>2. /\ members[joinRequests[k].requester] = None
          /\ \A i \in Invite : invites[i] # None /\ invites[i].request = k
                                  => invites[i].invitee # joinRequests[k].requester
      BY <3>1 DEF WaitingMeansUndecided
    <3> QED BY <1>10, <2>1, <3>1, <3>2
  <2> QED BY <2>2, <2>3
<1>13. RequestsAreRooted' /\ RootStaysMember'
  BY <1>1, <1>2 DEF RequestsAreRooted, RootStaysMember
<1>14. ChannelMembersAreMembers'
  BY <1>2 DEF ChannelMembersAreMembers
<1>15. PersonLinksOneToOne'
  BY <1>2 DEF PersonLinksOneToOne
<1> QED BY <1>2, <1>3, <1>8, <1>11, <1>12, <1>13, <1>14, <1>15, StructureStep
        DEF WorkspaceJoinRequestRecorded, TypeOK, directory, people, published, talk

\* A join request is resolved, and no longer waits.
LEMMA JoinRequestResolvedAction ==
    ASSUME Inv, NEW a \in Device, NEW q \in Request, NEW t \in RequestStatus \ {"Waiting"},
           WorkspaceJoinRequestResolved(a, q, t)
    PROVE  Inv'
<1> USE DEF Inv
<1>1. Settling(a) /\ SameAccess(ix, ix') /\ EventChannelsStep
  BY QuietNothing DEF WorkspaceJoinRequestResolved
<1>2. joinRequests[q] # None /\ joinRequests[q] \in RequestView
  BY DEF TypeOK, ViewMatchesIndex, WorkspaceJoinRequestResolved, MayResolveJoinRequest
<1> DEFINE v == [joinRequests[q] EXCEPT !.status = t]
<1>3. v \in RequestView /\ v.status # "Waiting"
  BY <1>2 DEF RequestView
<1>4. joinRequests' = [joinRequests EXCEPT ![q] = v]
  BY <1>2 DEF WorkspaceJoinRequestResolved, TypeOK
<1> HIDE DEF v
<1>5. joinRequests' \in [Request -> RequestView \cup {None}]
  BY <1>3, <1>4 DEF TypeOK
<1>6. \A k \in Request :
        /\ joinRequests'[k] # None <=> joinRequests[k] # None
        /\ joinRequests'[k] # None /\ joinRequests'[k].status = "Waiting"
              => joinRequests'[k] = joinRequests[k]
  BY <1>2, <1>3, <1>4, NoneIsNoView DEF TypeOK
<1>7. UNCHANGED <<members, channels, messages, personLinks>>
  BY DEF WorkspaceJoinRequestResolved, directory, people, talk
<1>8. ViewMatchesIndex'
  BY <1>1, <1>6, <1>7 DEF ViewMatchesIndex, SameAccess
<1>9. WaitingMeansUndecided'
  <2>1. \A i \in Invite : /\ invites'[i] = None <=> invites[i] = None
                          /\ invites'[i] # None =>
                               /\ invites'[i].invitee = invites[i].invitee
                               /\ invites'[i].request = invites[i].request
    BY <1>1, SettlingKeepsInvites DEF Settling
  <2> SUFFICES ASSUME NEW k \in Request, joinRequests'[k] # None,
                      joinRequests'[k].status = "Waiting"
               PROVE  /\ members'[joinRequests'[k].requester] = None
                      /\ \A i \in Invite :
                            invites'[i] # None /\ invites'[i].request = k =>
                                invites'[i].invitee # joinRequests'[k].requester
    BY DEF WaitingMeansUndecided
  <2>2. joinRequests'[k] = joinRequests[k]
    BY <1>6
  <2>3. /\ members[joinRequests[k].requester] = None
        /\ \A i \in Invite : invites[i] # None /\ invites[i].request = k
                                => invites[i].invitee # joinRequests[k].requester
    BY <2>2 DEF WaitingMeansUndecided
  <2> QED BY <1>7, <2>1, <2>2, <2>3
<1>10. RequestsAreRooted' /\ RootStaysMember'
  BY <1>1 DEF RequestsAreRooted, RootStaysMember, SameAccess
<1>11. ChannelMembersAreMembers'
  BY <1>1 DEF ChannelMembersAreMembers, SameAccess
<1>12. PersonLinksOneToOne'
  BY <1>1 DEF PersonLinksOneToOne, SameAccess
<1> QED BY <1>1, <1>5, <1>8, <1>9, <1>10, <1>11, <1>12, StructureStep
        DEF WorkspaceJoinRequestResolved, SameAccess, TypeOK, directory, people,
            published, talk

-----------------------------------------------------------------------------
(* The theorems.                                                           *)

\* The empty workspace satisfies the invariant.
LEMMA InitInv ==
    ASSUME Init
    PROVE  Inv
<1> USE DEF Init, NewIndex
<1>1. ix \in Index
  BY DEF Index
<1>2. TypeOK
  BY <1>1 DEF TypeOK, AccessPolicy
<1>3. ViewMatchesIndex
  BY DEF ViewMatchesIndex
<1>4. InviteCopiesAgree
  BY DEF InviteCopiesAgree
<1>5. WaitingMeansUndecided
  BY DEF WaitingMeansUndecided
<1>6. RequestsAreRooted /\ RootStaysMember
  BY DEF RequestsAreRooted, RootStaysMember
<1>7. ChannelMembersAreMembers /\ PersonLinksOneToOne
  BY DEF ChannelMembersAreMembers, PersonLinksOneToOne
<1>8. EventChannelsAreApplied /\ ReadMarkersStayInChannel
  BY DEF EventChannelsAreApplied, ReadMarkersStayInChannel
<1>9. ReactionCountsAreExact
  BY DEF ReactionCountsAreExact
<1> QED BY <1>2, <1>3, <1>4, <1>5, <1>6, <1>7, <1>8, <1>9 DEF Inv

\* Every event keeps the invariant.
LEMMA NextInv ==
    ASSUME Inv, [Next]_vars
    PROVE  Inv'
<1>1. CASE MembershipStep
  BY <1>1, WorkspaceCreatedAction, MemberInvitedAction, MemberRoleUpdatedAction,
     QuietWorkspaceActions, MemberRemovedAction DEF MembershipStep
<1>2. CASE AdmissionStep
  BY <1>2, InviteRecordedAction, InviteCapabilityCreatedAction, InviteClaimedAction,
     InviteResolvedAction, JoinRequestRecordedAction, JoinRequestResolvedAction
     DEF AdmissionStep
<1>3. CASE ChannelStep
  BY <1>3, ChannelCreationActions, ChannelDetailsAction, ChannelMembershipActions
     DEF ChannelStep
<1>4. CASE PeopleStep
  BY <1>4, PublishingActions, PersonDeviceLinkedAction DEF PeopleStep
<1>5. CASE KeyStep
  BY <1>5, QuietWorkspaceActions, QuietChannelActions DEF KeyStep
<1>6. CASE MessageStep
  BY <1>6, PostingActions, MessageChangeActions DEF MessageStep
<1>7. CASE ReadStep
  BY <1>7, ReadMarkerAction DEF ReadStep
<1>8. CASE UNCHANGED vars
  <2> USE <1>8 DEF vars, directory, people, published, admission, talk, Inv
  <2>1. TypeOK' /\ ViewMatchesIndex'
    BY DEF TypeOK, ViewMatchesIndex
  <2>2. InviteCopiesAgree' /\ WaitingMeansUndecided'
    BY DEF InviteCopiesAgree, Claimable, WaitingMeansUndecided
  <2>3. RequestsAreRooted' /\ ChannelMembersAreMembers' /\ RootStaysMember'
    BY DEF RequestsAreRooted, ChannelMembersAreMembers, RootStaysMember
  <2>4. PersonLinksOneToOne' /\ EventChannelsAreApplied'
    BY DEF PersonLinksOneToOne, EventChannelsAreApplied
  <2>5. ReadMarkersStayInChannel' /\ ReactionCountsAreExact'
    BY DEF ReadMarkersStayInChannel, ReactionCountsAreExact
  <2> QED BY <2>1, <2>2, <2>3, <2>4, <2>5
<1> QED BY <1>1, <1>2, <1>3, <1>4, <1>5, <1>6, <1>7, <1>8 DEF Next

\* The inductive invariant holds in every reachable state of apply_ready_event.
THEOREM Invariant == Spec => []Inv
<1>1. Init => Inv
  BY InitInv
<1>2. Inv /\ [Next]_vars => Inv'
  BY NextInv
<1> QED BY <1>1, <1>2, PTL DEF Spec

\* Index and view keep their types: no count passes a limit, no role is made up.
THEOREM TypeCorrect == Spec => []TypeOK
<1>1. Inv => TypeOK
  BY DEF Inv
<1> QED BY <1>1, Invariant, PTL

\* The view that clients read agrees with the index that authorizes.
THEOREM ViewAgrees == Spec => []ViewMatchesIndex
<1>1. Inv => ViewMatchesIndex
  BY DEF Inv
<1> QED BY <1>1, Invariant, PTL

\* An invite is shown as open exactly when a claim of it would be accepted.
THEOREM OpenInvitesClaimable == Spec => []OpenInvitesAreClaimable
<1>1. Inv => OpenInvitesAreClaimable
  BY DEF Inv, InviteCopiesAgree, OpenInvitesAreClaimable, Claimable
<1> QED BY <1>1, Invariant, PTL

\* A join request waits only for a device that nothing has admitted yet.
THEOREM WaitingUndecided == Spec => []WaitingMeansUndecided
<1>1. Inv => WaitingMeansUndecided
  BY DEF Inv
<1> QED BY <1>1, Invariant, PTL

\* Channels list members of the workspace only, however members come and go.
THEOREM ChannelMembership == Spec => []ChannelMembersAreMembers
<1>1. Inv => ChannelMembersAreMembers
  BY DEF Inv
<1> QED BY <1>1, Invariant, PTL

\* No history removes the device that created the workspace.
THEOREM RootMember == Spec => []RootStaysMember
<1>1. Inv => RootStaysMember
  BY DEF Inv
<1> QED BY <1>1, Invariant, PTL

\* A person is one device, and that device is a member.
THEOREM PersonLinks == Spec => []PersonLinksOneToOne
<1>1. Inv => PersonLinksOneToOne
  BY DEF Inv
<1> QED BY <1>1, Invariant, PTL

\* Read markers point into their channel.
THEOREM ReadMarkers == Spec => []ReadMarkersStayInChannel
<1>1. Inv => ReadMarkersStayInChannel
  BY DEF Inv
<1> QED BY <1>1, Invariant, PTL

\* The reaction counts that are shown are exact.
THEOREM ReactionCounts == Spec => []ReactionCountsAreExact
<1>1. Inv => ReactionCountsAreExact
  BY DEF Inv
<1> QED BY <1>1, Invariant, PTL

-----------------------------------------------------------------------------
(* Action properties.  AccessStep is all that an event can do to roles and *)
(* channels at once.                                                       *)

AccessStep ==
    \/ ix'.channels = ix.channels
    \/ \E d \in Device : /\ ix'.roles = [ix.roles EXCEPT ![d] = None]
                         /\ ix'.channels = Without(ix.channels, d)
    \/ /\ ix'.roles = ix.roles
       /\ \E c \in Channel, v \in ChannelAccess :
            /\ ix'.channels = [ix.channels EXCEPT ![c] = v]
            /\ ix.channels[c] # None => /\ v.isPrivate = ix.channels[c].isPrivate
                                        /\ v.creator = ix.channels[c].creator

\* Writing a channel's access record is an AccessStep when it is a new channel
\* or keeps privacy and creator.
LEMMA ChannelSetAccess ==
    ASSUME Inv, NEW a \in Device, NEW c \in Channel, NEW v \in ChannelAccess,
           applied # EventId,
           ix' = ApplyInChannel(ChannelSet(ix, c, v), a, c, NewEventId),
           ix.channels[c] # None => /\ v.isPrivate = ix.channels[c].isPrivate
                                    /\ v.creator = ix.channels[c].creator
    PROVE  AccessStep
<1>1. ix \in Index /\ NewEventId \in EventId
  BY NewEventIdIsNew DEF Inv, TypeOK
<1>2. /\ ix' \in Index
      /\ ix'.root = ix.root /\ ix'.roles = ix.roles
      /\ ix'.channels = [ix.channels EXCEPT ![c] = v] /\ ix'.messages = ix.messages
      /\ ix'.joinRequests = ix.joinRequests /\ ix'.personLinks = ix.personLinks
      /\ ix'.eventChannels = [ix.eventChannels EXCEPT ![NewEventId] = c]
      /\ ix'.invites = Settled(ix.invites, a)
  BY <1>1, ChannelSetFields
<1> QED BY <1>2 DEF AccessStep

\* The channel events are AccessSteps.
LEMMA ChannelStepAccess ==
    ASSUME Inv, ChannelStep
    PROVE  AccessStep
<1>1. ix \in Index
  BY DEF Inv, TypeOK
<1>2. ASSUME NEW a \in Device, NEW c \in Channel, NEW private \in BOOLEAN,
             ChannelCreated(a, c, private)
      PROVE  AccessStep
  <2> DEFINE M == IF private THEN {a} ELSE {}
             v == Opened(private, a, M)
  <2>1. /\ ix' = ApplyChannelCreated(ix, a, c, private, NewEventId)
        /\ applied # EventId /\ ix.channels[c] = None
    BY <1>2 DEF ChannelCreated, NextEvent, MayCreateChannel
  <2>2. v \in ChannelAccess
    BY DEF ChannelAccess, Opened
  <2>3. ix' = ApplyInChannel(ChannelSet(ix, c, v), a, c, NewEventId)
    BY <2>1, ApplyChannelCreatedIsSet
  <2> HIDE DEF v
  <2> QED BY <2>1, <2>2, <2>3, ChannelSetAccess
<1>3. ASSUME NEW a \in Device, NEW c \in Channel, NEW participants \in SUBSET Device,
             DirectMessageChannelCreated(a, c, participants)
      PROVE  AccessStep
  <2> DEFINE v == Opened(TRUE, a, participants \cup {a})
  <2>1. /\ ix' = ApplyDirectMessageCreated(ix, a, c, participants, NewEventId)
        /\ applied # EventId /\ ix.channels[c] = None
    BY <1>3 DEF DirectMessageChannelCreated, NextEvent, MayCreateDirectMessage,
                MayCreateChannel
  <2>2. v \in ChannelAccess
    BY DEF ChannelAccess, Opened
  <2>3. ix' = ApplyInChannel(ChannelSet(ix, c, v), a, c, NewEventId)
    BY <2>1, ApplyDirectMessageCreatedIsSet
  <2> HIDE DEF v
  <2> QED BY <2>1, <2>2, <2>3, ChannelSetAccess
<1>4. ASSUME NEW a \in Device, NEW c \in Channel, NEW archived \in BOOLEAN \cup {None},
             ChannelDetailsUpdated(a, c, archived)
      PROVE  AccessStep
  <2>1. SameAccess(ix, ix')
    BY <1>4, QuietInChannel DEF ChannelDetailsUpdated
  <2> QED BY <2>1 DEF SameAccess, AccessStep
<1>5. ASSUME NEW a \in Device, NEW c \in Channel, NEW M \in SUBSET Device,
             ix.channels[c] # None, applied # EventId,
             ix' = ApplyInChannel([ix EXCEPT !.channels[c].members = M], a, c, NewEventId)
      PROVE  AccessStep
  <2> DEFINE v == Relisted(ix.channels[c], M)
  <2>1. ix.channels[c] \in ChannelAccess
    BY <1>1, <1>5 DEF Index
  <2>2. /\ v \in ChannelAccess /\ v.isPrivate = ix.channels[c].isPrivate
        /\ v.creator = ix.channels[c].creator
    BY <2>1 DEF ChannelAccess, Relisted
  <2>3. ix' = ApplyInChannel(ChannelSet(ix, c, v), a, c, NewEventId)
    BY <1>1, <1>5, RelistingIsSet
  <2> HIDE DEF v
  <2> QED BY <1>5, <2>2, <2>3, ChannelSetAccess
<1>6. ASSUME NEW a \in Device, NEW c \in Channel, NEW d \in Device,
             ChannelMemberAdded(a, c, d)
      PROVE  AccessStep
  <2> DEFINE M == ix.channels[c].members \cup {d}
  <2>1. ix.channels[c] # None /\ applied # EventId
    BY <1>6 DEF ChannelMemberAdded, NextEvent, MayAddChannelMember, ChannelGrantOk
  <2>2. M \in SUBSET Device
    BY <1>1, <2>1 DEF Index, ChannelAccess
  <2>3. ix' = ApplyInChannel([ix EXCEPT !.channels[c].members = M], a, c, NewEventId)
    BY <1>6 DEF ChannelMemberAdded, ApplyChannelMemberAdded
  <2> HIDE DEF M
  <2> QED BY <1>5, <2>1, <2>2, <2>3
<1>7. ASSUME NEW a \in Device, NEW c \in Channel, NEW d \in Device,
             ChannelMemberRemoved(a, c, d)
      PROVE  AccessStep
  <2> DEFINE M == ix.channels[c].members \ {d}
  <2>1. ix.channels[c] # None /\ applied # EventId
    BY <1>7 DEF ChannelMemberRemoved, NextEvent, MayRemoveChannelMember, ChannelAccessOk
  <2>2. M \in SUBSET Device
    BY <1>1, <2>1 DEF Index, ChannelAccess
  <2>3. ix' = ApplyInChannel([ix EXCEPT !.channels[c].members = M], a, c, NewEventId)
    BY <1>7 DEF ChannelMemberRemoved, ApplyChannelMemberRemoved
  <2> HIDE DEF M
  <2> QED BY <1>5, <2>1, <2>2, <2>3
<1> QED BY <1>2, <1>3, <1>4, <1>6, <1>7 DEF ChannelStep

\* So is every other event.
LEMMA NextAccess ==
    ASSUME Inv, [Next]_vars
    PROVE  AccessStep
<1>1. ix \in Index /\ (applied # EventId => NewEventId \in EventId)
  BY NewEventIdIsNew DEF Inv, TypeOK
<1>2. CASE MembershipStep
  <2>1. ASSUME NEW a \in Device, WorkspaceCreated(a)
        PROVE  AccessStep
    <3>1. ix' = ApplyWorkspaceCreated(ix, a)
      BY <2>1 DEF WorkspaceCreated
    <3>2. ix'.channels = ix.channels
      BY <1>1, <3>1, ApplyWorkspaceCreatedFields
    <3> QED BY <3>2 DEF AccessStep
  <2>2. ASSUME NEW a \in Device, NEW d \in Device, NEW r \in Role,
               MemberInvited(a, d, r) \/ MemberRoleUpdated(a, d, r)
        PROVE  AccessStep
    <3>1. ix' = ApplyMemberInvited(ix, a, d, r)
      BY <1>1, <2>2, ApplyMemberRoleUpdatedFields DEF MemberInvited, MemberRoleUpdated
    <3>2. /\ ix' \in Index
          /\ ix'.root = ix.root /\ ix'.roles = [ix.roles EXCEPT ![d] = r]
          /\ ix'.channels = ix.channels /\ ix'.messages = ix.messages
          /\ ix'.joinRequests = ix.joinRequests /\ ix'.personLinks = ix.personLinks
          /\ ix'.eventChannels = ix.eventChannels
          /\ ix'.invites = Settled(ix.invites, a)
      BY <1>1, <3>1, ApplyMemberInvitedFields
    <3> QED BY <3>1, <3>2 DEF AccessStep
  <2>3. ASSUME NEW a \in Device, NEW p \in AccessPolicy, WorkspaceAccessPolicyUpdated(a, p)
        PROVE  AccessStep
    BY <2>3, QuietNothing DEF WorkspaceAccessPolicyUpdated, SameAccess, AccessStep
  <2>4. ASSUME NEW a \in Device, NEW d \in Device, MemberRemoved(a, d)
        PROVE  AccessStep
    <3>1. ix' = ApplyMemberRemoved(ix, a, d)
      BY <2>4 DEF MemberRemoved
    <3>2. /\ ix'.roles = [ix.roles EXCEPT ![d] = None]
          /\ ix'.channels = Without(ix.channels, d)
      BY <1>1, <3>1, ApplyMemberRemovedFields
    <3> QED BY <3>2 DEF AccessStep
  <2> QED BY <1>2, <2>1, <2>2, <2>3, <2>4 DEF MembershipStep
<1>3. CASE AdmissionStep
  <2>1. ASSUME NEW a \in Device, NEW i \in Invite, NEW d \in Device, NEW r \in Role,
               NEW q \in Request \cup {None}, WorkspaceInviteRecorded(a, i, d, r, q)
        PROVE  AccessStep
    <3>1. ix' = ApplyInviteRecorded(ix, i, d)
      BY <2>1 DEF WorkspaceInviteRecorded
    <3>2. ix'.channels = ix.channels
      BY <1>1, <3>1, ApplyInviteRecordedFields DEF SameAccess
    <3> QED BY <3>2 DEF AccessStep
  <2>2. ASSUME NEW a \in Device, NEW i \in Invite, NEW r \in Role,
               NEW m \in 0..MaxClaims \cup {None},
               WorkspaceInviteCapabilityCreated(a, i, r, m)
        PROVE  AccessStep
    <3>1. ix' = ApplyInviteCapabilityCreated(ix, i, m)
      BY <2>2 DEF WorkspaceInviteCapabilityCreated
    <3>2. ix'.channels = ix.channels
      BY <1>1, <3>1, ApplyInviteCapabilityCreatedFields DEF SameAccess
    <3> QED BY <3>2 DEF AccessStep
  <2>3. ASSUME NEW a \in Device, NEW i \in Invite, NEW d \in Device, NEW q \in Request,
               WorkspaceInviteClaimed(a, i, d, q)
        PROVE  AccessStep
    <3>1. ix' = ApplyInviteClaimed(ix, i) /\ Claimable(ix, i)
      BY <2>3 DEF WorkspaceInviteClaimed, MayClaimInvite
    <3>2. ix'.channels = ix.channels
      BY <1>1, <3>1, ApplyInviteClaimedFields DEF SameAccess
    <3> QED BY <3>2 DEF AccessStep
  <2>4. ASSUME NEW a \in Device, NEW i \in Invite, WorkspaceInviteResolved(a, i)
        PROVE  AccessStep
    <3>1. ix' = ApplyInviteResolved(ix, i) /\ ix.invites[i] # None
      BY <2>4 DEF WorkspaceInviteResolved, MayResolveInvite
    <3>2. ix'.channels = ix.channels
      BY <1>1, <3>1, ApplyInviteResolvedFields DEF SameAccess
    <3> QED BY <3>2 DEF AccessStep
  <2>5. ASSUME NEW a \in Device, NEW q \in Request, NEW d \in Device,
               WorkspaceJoinRequestRecorded(a, q, d)
        PROVE  AccessStep
    <3>1. ix' = ApplyJoinRequestRecorded(ix, a, q)
      BY <2>5 DEF WorkspaceJoinRequestRecorded
    <3>2. ix'.channels = ix.channels
      BY <1>1, <3>1, ApplyJoinRequestRecordedFields
    <3> QED BY <3>2 DEF AccessStep
  <2>6. ASSUME NEW a \in Device, NEW q \in Request, NEW t \in RequestStatus \ {"Waiting"},
               WorkspaceJoinRequestResolved(a, q, t)
        PROVE  AccessStep
    BY <2>6, QuietNothing DEF WorkspaceJoinRequestResolved, SameAccess, AccessStep
  <2> QED BY <1>3, <2>1, <2>2, <2>3, <2>4, <2>5, <2>6 DEF AdmissionStep
<1>4. CASE ChannelStep
  BY <1>4, ChannelStepAccess
<1>5. CASE PeopleStep
  <2>1. ASSUME NEW a \in Device, NEW p \in Person, NEW d \in Device,
               PersonDeviceLinked(a, p, d)
        PROVE  AccessStep
    <3>1. ix' = ApplyPersonDeviceLinked(ix, a, p, d)
      BY <2>1 DEF PersonDeviceLinked
    <3>2. /\ ix' \in Index
          /\ ix'.root = ix.root /\ ix'.roles = ix.roles
          /\ ix'.channels = ix.channels /\ ix'.messages = ix.messages
          /\ ix'.joinRequests = ix.joinRequests
          /\ ix'.personLinks = [ix.personLinks EXCEPT ![d] = p]
          /\ ix'.eventChannels = ix.eventChannels
          /\ ix'.invites = Settled(ix.invites, a)
      BY <1>1, <3>1, ApplyPersonDeviceLinkedFields
    <3> QED BY <3>1, <3>2 DEF AccessStep
  <2>2. ASSUME NEW a \in Device,
               \/ \E avatar \in Avatar \cup {Blank} : DeviceProfileUpdated(a, avatar)
               \/ \E p \in Person, avatar \in Avatar \cup {Blank} :
                    PersonProfileUpdated(a, p, avatar)
               \/ \E k \in KeyPackage : DeviceKeyPackagePublished(a, k)
               \/ PeerEndpointPublished(a)
        PROVE  AccessStep
    <3>1. SameAccess(ix, ix')
      BY <2>2, QuietNothing DEF DeviceProfileUpdated, PersonProfileUpdated,
                                DeviceKeyPackagePublished, PeerEndpointPublished
    <3> QED BY <3>1 DEF SameAccess, AccessStep
  <2> QED BY <1>5, <2>1, <2>2 DEF PeopleStep
<1>6. CASE KeyStep
  <2>1. SameAccess(ix, ix')
    BY <1>6, QuietNothing, QuietInChannel
       DEF KeyStep, OpenMlsWorkspaceGroupChanged, OpenMlsChannelGroupChanged,
           WorkspaceKeyEpochPublished, ChannelKeyEpochPublished
  <2> QED BY <2>1 DEF SameAccess, AccessStep
<1>7. CASE MessageStep
  <2>1. ASSUME NEW a \in Device, NEW c \in Channel, NEW m \in Message,
               \/ \E content \in Content : MessageCreated(a, c, m, content)
               \/ \E target \in Message, content \in Content :
                    MessageReplyCreated(a, c, m, target, content)
        PROVE  AccessStep
    <3>1. ix' = ApplyMessagePosted(ix, a, c, m, NewEventId) /\ applied # EventId
      BY <2>1 DEF MessageCreated, MessageReplyCreated, NextEvent
    <3>2. /\ ix' \in Index
          /\ ix'.root = ix.root /\ ix'.roles = ix.roles
          /\ ix'.channels = ix.channels
          /\ ix'.messages = [ix.messages EXCEPT ![m] = [channel |-> c, author |-> a]]
          /\ ix'.joinRequests = ix.joinRequests /\ ix'.personLinks = ix.personLinks
          /\ ix'.eventChannels = [ix.eventChannels EXCEPT ![NewEventId] = c]
          /\ ix'.invites = Settled(ix.invites, a)
      BY <1>1, <3>1, ApplyMessagePostedFields
    <3> QED BY <3>1, <3>2 DEF AccessStep
  <2>2. ASSUME NEW a \in Device, NEW c \in Channel, NEW m \in Message,
               \/ \E content \in Content : MessageEdited(a, c, m, content)
               \/ MessageDeleted(a, c, m)
               \/ ReactionAdded(a, c, m)
               \/ ReactionRemoved(a, c, m)
        PROVE  AccessStep
    <3>1. SameAccess(ix, ix')
      BY <2>2, QuietInChannel DEF MessageEdited, MessageDeleted, ReactionAdded,
                                  ReactionRemoved
    <3> QED BY <3>1 DEF SameAccess, AccessStep
  <2> QED BY <1>7, <2>1, <2>2 DEF MessageStep
<1>8. CASE ReadStep
  <2>1. SameAccess(ix, ix')
    BY <1>8, QuietInChannel DEF ReadStep, ReadMarkerUpdated
  <2> QED BY <2>1 DEF SameAccess, AccessStep
<1>9. CASE UNCHANGED vars
  BY <1>9 DEF vars, AccessStep
<1> QED BY <1>2, <1>3, <1>4, <1>5, <1>6, <1>7, <1>8, <1>9 DEF Next

\* No event changes the privacy or the creator of a channel that exists, or
\* makes it disappear.
THEOREM ChannelIdentity == Spec => ChannelIdentityIsImmutable
<1> DEFINE Kept == \A c \in Channel :
                      ix.channels[c] # None =>
                          /\ ix'.channels[c] # None
                          /\ ix'.channels[c].isPrivate = ix.channels[c].isPrivate
                          /\ ix'.channels[c].creator = ix.channels[c].creator
<1>1. Inv /\ [Next]_vars => Kept
  <2> SUFFICES ASSUME Inv, [Next]_vars, NEW c \in Channel, ix.channels[c] # None
               PROVE  /\ ix'.channels[c] # None
                      /\ ix'.channels[c].isPrivate = ix.channels[c].isPrivate
                      /\ ix'.channels[c].creator = ix.channels[c].creator
    OBVIOUS
  <2>1. ix.channels \in [Channel -> ChannelAccess \cup {None}]
    BY DEF Inv, TypeOK, Index
  <2>2. AccessStep
    BY NextAccess
  <2>3. CASE ix'.channels = ix.channels
    BY <2>3
  <2>4. ASSUME NEW d \in Device, ix'.channels = Without(ix.channels, d)
        PROVE  /\ ix'.channels[c] # None
               /\ ix'.channels[c].isPrivate = ix.channels[c].isPrivate
               /\ ix'.channels[c].creator = ix.channels[c].creator
    <3>1. ix.channels[c] \in ChannelAccess
      BY <2>1
    <3>2. ix'.channels[c]
            = [ix.channels[c] EXCEPT !.members = ix.channels[c].members \ {d}]
      BY <2>4 DEF Without
    <3>3. /\ ix'.channels[c] \in ChannelAccess
          /\ ix'.channels[c].isPrivate = ix.channels[c].isPrivate
          /\ ix'.channels[c].creator = ix.channels[c].creator
      BY <3>1, <3>2 DEF ChannelAccess
    <3> QED BY <3>3, NoneIsNoRecord
  <2>5. ASSUME NEW k \in Channel, NEW v \in ChannelAccess,
               ix'.channels = [ix.channels EXCEPT ![k] = v],
               ix.channels[k] # None => /\ v.isPrivate = ix.channels[k].isPrivate
                                        /\ v.creator = ix.channels[k].creator
        PROVE  /\ ix'.channels[c] # None
               /\ ix'.channels[c].isPrivate = ix.channels[c].isPrivate
               /\ ix'.channels[c].creator = ix.channels[c].creator
    BY <2>1, <2>5, NoneIsNoRecord
  <2> QED BY <2>2, <2>3, <2>4, <2>5 DEF AccessStep
<1> QED BY <1>1, Invariant, PTL DEF Spec, ChannelIdentityIsImmutable

\* A device that becomes a member, for the first time or again, has no access
\* to the private channels that exist.
THEOREM JoiningOpensNothing == Spec => JoiningOpensNoPrivateChannel
<1> DEFINE Closed == \A c \in Channel, d \in Device :
                        /\ ix.roles[d] = None /\ ix'.roles[d] # None
                        /\ ix.channels[c] # None /\ ix.channels[c].isPrivate
                        => ~ChannelAccessibleTo(ix', c, d)
<1>1. Inv /\ [Next]_vars => Closed
  <2> SUFFICES ASSUME Inv, [Next]_vars, NEW c \in Channel, NEW d \in Device,
                      ix.roles[d] = None, ix'.roles[d] # None,
                      ix.channels[c] # None, ix.channels[c].isPrivate
               PROVE  ~ChannelAccessibleTo(ix', c, d)
    OBVIOUS
  <2>1. ix.roles \in [Device -> Role \cup {None}]
    BY DEF Inv, TypeOK, Index
  <2>2. AccessStep
    BY NextAccess
  <2>3. ix'.channels = ix.channels
    BY <2>1, <2>2 DEF AccessStep
  <2>4. d \notin ix.channels[c].members
    BY DEF Inv, ChannelMembersAreMembers
  <2> QED BY <2>3, <2>4 DEF ChannelAccessibleTo, ChannelAccessOk
<1> QED BY <1>1, Invariant, PTL DEF Spec, JoiningOpensNoPrivateChannel

=============================================================================
