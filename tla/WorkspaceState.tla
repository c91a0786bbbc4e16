--------------------------- MODULE WorkspaceState ---------------------------
(***************************************************************************)
(* One device's materialized workspace: WorkspaceState of domain/core.     *)
(* The state is the authorization index (`access_index', variable ix) and  *)
(* beside it the view that clients read, which `apply_ready_event' updates *)
(* by its own code after the index has authorized the event.  One action   *)
(* per event body (bodies that differ only in how the text is sealed share *)
(* one), every action being the whole of apply_ready_event for that body:  *)
(* authorize, apply to the index, mark the invites the author has          *)
(* accepted, update the view, remember the event id.                       *)
(*                                                                         *)
(* The behaviours of Spec are all the histories that can be materialized:  *)
(* any event that is authorized where it stands may come next.  Which of   *)
(* these a batch of stored events produces is the subject of ApplyBatch.   *)
(* Event ids are opaque, so an event gets whichever id is still free.      *)
(***************************************************************************)
EXTENDS AccessIndex

CONSTANTS
    Bodies,     \* the event bodies that occur in the histories considered
    Avatar,     \* avatar ids; a blank one leaves the avatar as it was
    KeyPackage  \* device key package ids

AllBodies ==
    { "WorkspaceCreated", "MemberInvited", "MemberRoleUpdated",
      "WorkspaceAccessPolicyUpdated", "MemberRemoved",
      "WorkspaceInviteRecorded", "WorkspaceInviteCapabilityCreated",
      "WorkspaceInviteClaimed", "WorkspaceInviteResolved",
      "WorkspaceJoinRequestRecorded", "WorkspaceJoinRequestResolved",
      "ChannelCreated", "DirectMessageChannelCreated", "ChannelDetailsUpdated",
      "ChannelMemberAdded", "ChannelMemberRemoved",
      "DeviceProfileUpdated", "PersonDeviceLinked", "PersonProfileUpdated",
      "DeviceKeyPackagePublished", "PeerEndpointPublished", "OpenMls", "ContentKeyEpochPublished",
      "MessageCreated", "MessageReplyCreated", "MessageEdited", "MessageDeleted",
      "ReactionAdded", "ReactionRemoved", "ReadMarkerUpdated" }

ASSUME BodiesAreBodies == Bodies \subseteq AllBodies

VARIABLES
    ix,             \* access_index
    applied,        \* applied_event_ids
    accessPolicy,   \* access_policy
    members,        \* members: role of each member
    channels,       \* channels
    messages,       \* messages
    invites,        \* invites
    joinRequests,   \* join_requests
    profiles,       \* profiles: avatar of each device that has one
    personProfiles, \* person_profiles
    personLinks,    \* person_device_links
    keyPackages,    \* key_packages: who published each
    peerEndpoints,  \* peer_endpoints: the devices that have published one
    readMarkers     \* read_markers

directory == <<accessPolicy, members>>
people    == <<profiles, personProfiles, personLinks>>
published == <<keyPackages, peerEndpoints>>
admission == <<invites, joinRequests>>
talk      == <<messages, readMarkers>>
vars      == <<ix, applied, directory, channels, people, published, admission, talk>>

-----------------------------------------------------------------------------
(* The view's own types.                                                   *)

AccessPolicy == {"InviteOnly", "RequestAccess", "Discoverable"}

Content == {"plain", "sealed"}

\* A profile whose avatar was never set.
Blank == ""

ChannelView == [isPrivate : BOOLEAN, members : SUBSET Device,
                directMessage : BOOLEAN, archived : BOOLEAN]

MessageView == [channel : Channel, content : Content, replyTo : Message \cup {None},
                deleted : BOOLEAN, reactionAuthors : SUBSET Device,
                reactionCount : Nat]

InviteView == [status : {"Invited", "Accepted", "Revoked"}, capability : BOOLEAN,
               invitee : Device \cup {None}, request : Request \cup {None},
               maxClaims : 1..MaxClaims, claimCount : 0..MaxClaims]

RequestStatus == {"Waiting", "Approved", "Declined", "Revoked"}

RequestView == [requester : Device, status : RequestStatus]

\* No view record is the absent value.
ASSUME NoneIsNoView ==
    /\ None \notin ChannelView /\ None \notin MessageView
    /\ None \notin InviteView /\ None \notin RequestView

\* Type correctness of the index and of the view.
TypeOK ==
    /\ ix \in Index
    /\ applied \subseteq EventId
    /\ accessPolicy \in AccessPolicy
    /\ members \in [Device -> Role \cup {None}]
    /\ channels \in [Channel -> ChannelView \cup {None}]
    /\ messages \in [Message -> MessageView \cup {None}]
    /\ invites \in [Invite -> InviteView \cup {None}]
    /\ joinRequests \in [Request -> RequestView \cup {None}]
    /\ profiles \in [Device -> Avatar \cup {None, Blank}]
    /\ personProfiles \in [Person -> Avatar \cup {None, Blank}]
    /\ personLinks \in [Device -> Person \cup {None}]
    /\ keyPackages \in [KeyPackage -> Device \cup {None}]
    /\ peerEndpoints \subseteq Device
    /\ readMarkers \in [Device -> [Channel -> EventId \cup {None}]]

Init ==
    /\ ix = NewIndex
    /\ applied = {}
    /\ accessPolicy = "InviteOnly"
    /\ members = [d \in Device |-> None]
    /\ channels = [c \in Channel |-> None]
    /\ messages = [m \in Message |-> None]
    /\ invites = [i \in Invite |-> None]
    /\ joinRequests = [q \in Request |-> None]
    /\ profiles = [d \in Device |-> None]
    /\ personProfiles = [p \in Person |-> None]
    /\ personLinks = [d \in Device |-> None]
    /\ keyPackages = [k \in KeyPackage |-> None]
    /\ peerEndpoints = {}
    /\ readMarkers = [d \in Device |-> [c \in Channel |-> None]]

-----------------------------------------------------------------------------
(* What every action has in common.                                        *)

NewEventId == CHOOSE e \in EventId : e \notin applied

\* An event of kind body is next, and there is an id left for it.
NextEvent(body) ==
    /\ body \in Bodies
    /\ applied # EventId
    /\ applied' = applied \cup {NewEventId}

\* mark_invites_accepted_by_event, for every body that is not itself about
\* invites: the pending invites recorded for the author count as accepted.
AcceptedBy(author) ==
    [i \in Invite |->
        IF /\ invites[i] # None
           /\ invites[i].invitee = author
           /\ invites[i].status = "Invited"
           /\ ~invites[i].capability
        THEN [invites[i] EXCEPT !.status = "Accepted", !.claimCount = invites[i].maxClaims]
        ELSE invites[i]]

\* Mutant: the invite does not reach the request.
ApprovedNever(q, d) == joinRequests

\* approve_join_request_from_invite.
ApprovedFromInvite(q, d) ==
    IF joinRequests[q] # None /\ joinRequests[q].requester = d
       /\ joinRequests[q].status = "Waiting"
    THEN [joinRequests EXCEPT ![q].status = "Approved"]
    ELSE joinRequests

-----------------------------------------------------------------------------
(* Members.                                                                *)

WorkspaceCreated(a) ==
    /\ NextEvent("WorkspaceCreated")
    /\ MayCreateWorkspace(ix, a)
    /\ ix' = ApplyWorkspaceCreated(ix, a)
    /\ members' = [members EXCEPT ![a] = "Owner"]
    /\ invites' = AcceptedBy(a)
    /\ UNCHANGED <<accessPolicy, joinRequests, channels, people, published, talk>>

\* A member invitation is the membership: the role is set whatever it was, and
\* every waiting join request of that device is approved.
MemberInvited(a, d, r) ==
    /\ NextEvent("MemberInvited")
    /\ MayInvite(ix, a, r)
    /\ ix' = ApplyMemberInvited(ix, a, d, r)
    /\ members' = [members EXCEPT ![d] = r]
    /\ joinRequests' = [q \in Request |->
            IF joinRequests[q] # None /\ joinRequests[q].requester = d
               /\ joinRequests[q].status = "Waiting"
            THEN [joinRequests[q] EXCEPT !.status = "Approved"]
            ELSE joinRequests[q]]
    /\ invites' = AcceptedBy(a)
    /\ UNCHANGED <<accessPolicy, channels, people, published, talk>>

MemberRoleUpdated(a, d, r) ==
    /\ NextEvent("MemberRoleUpdated")
    /\ MayUpdateMemberRole(ix, a, d, r)
    /\ ix' = ApplyMemberRoleUpdated(ix, a, d, r)
    /\ members' = [members EXCEPT ![d] = IF members[d] = None THEN None ELSE r]
    /\ invites' = AcceptedBy(a)
    /\ UNCHANGED <<accessPolicy, joinRequests, channels, people, published, talk>>

WorkspaceAccessPolicyUpdated(a, p) ==
    /\ NextEvent("WorkspaceAccessPolicyUpdated")
    /\ MayUpdateAccessPolicy(ix, a)
    /\ ix' = ApplyNothing(ix, a)
    /\ accessPolicy' = p
    /\ invites' = AcceptedBy(a)
    /\ UNCHANGED <<members, joinRequests, channels, people, published, talk>>

MemberRemoved(a, d) ==
    /\ NextEvent("MemberRemoved")
    /\ MayRemoveMember(ix, a, d)
    /\ ix' = ApplyMemberRemoved(ix, a, d)
    /\ members' = [members EXCEPT ![d] = None]
    /\ personLinks' = [personLinks EXCEPT ![d] = None]
    /\ channels' = [c \in Channel |->
            IF channels[c] = None THEN None
            ELSE [channels[c] EXCEPT !.members = channels[c].members \ {d}]]
    /\ invites' = AcceptedBy(a)
    /\ UNCHANGED <<accessPolicy, joinRequests, profiles, personProfiles, published, talk>>

-----------------------------------------------------------------------------
(* Invites and join requests.                                              *)

WorkspaceInviteRecorded(a, i, d, r, q) ==
    /\ NextEvent("WorkspaceInviteRecorded")
    /\ MayInvite(ix, a, r)
    /\ ix' = ApplyInviteRecorded(ix, i, d)
    /\ invites' = [invites EXCEPT ![i] =
            [status |-> "Invited", capability |-> FALSE, invitee |-> d, request |-> q,
             maxClaims |-> 1, claimCount |-> 0]]
    /\ joinRequests' = IF q = None THEN joinRequests ELSE ApprovedFromInvite(q, d)
    /\ UNCHANGED <<directory, channels, people, published, talk>>

WorkspaceInviteCapabilityCreated(a, i, r, m) ==
    /\ NextEvent("WorkspaceInviteCapabilityCreated")
    /\ MayInvite(ix, a, r)
    /\ ix' = ApplyInviteCapabilityCreated(ix, i, m)
    /\ invites' = [invites EXCEPT ![i] =
            [status |-> "Invited", capability |-> TRUE, invitee |-> None, request |-> None,
             maxClaims |-> EffectiveMaxClaims(m), claimCount |-> 0]]
    /\ UNCHANGED <<directory, joinRequests, channels, people, published, talk>>

\* The claim that reaches the limit closes the invite.
WorkspaceInviteClaimed(a, i, d, q) ==
    /\ NextEvent("WorkspaceInviteClaimed")
    /\ MayClaimInvite(ix, a, i)
    /\ ix' = ApplyInviteClaimed(ix, i)
    /\ invites' = [invites EXCEPT ![i] =
            LET claims == invites[i].claimCount + 1
            IN  [invites[i] EXCEPT
                    !.invitee = d, !.request = q, !.claimCount = claims,
                    !.status = IF claims >= invites[i].maxClaims THEN "Accepted"
                               ELSE invites[i].status]]
    /\ joinRequests' = ApprovedFromInvite(q, d)
    /\ UNCHANGED <<directory, channels, people, published, talk>>

WorkspaceInviteResolved(a, i) ==
    /\ NextEvent("WorkspaceInviteResolved")
    /\ MayResolveInvite(ix, a, i)
    /\ ix' = ApplyInviteResolved(ix, i)
    /\ invites' = [invites EXCEPT ![i].status = "Revoked"]
    /\ UNCHANGED <<directory, joinRequests, channels, people, published, talk>>

\* A request of somebody who is a member already, or whom an invite names for
\* this very request, is born approved.
WorkspaceJoinRequestRecorded(a, q, d) ==
    /\ NextEvent("WorkspaceJoinRequestRecorded")
    /\ MayRecordJoinRequest(ix, a)
    /\ ix' = ApplyJoinRequestRecorded(ix, a, q)
    /\ joinRequests' = [joinRequests EXCEPT ![q] =
            [requester |-> d,
             status |-> IF \/ members[d] # None
                           \/ \E i \in Invite : /\ invites[i] # None
                                                /\ invites[i].request = q
                                                /\ invites[i].invitee = d
                        THEN "Approved" ELSE "Waiting"]]
    /\ invites' = AcceptedBy(a)
    /\ UNCHANGED <<directory, channels, people, published, talk>>

WorkspaceJoinRequestResolved(a, q, resolution) ==
    /\ NextEvent("WorkspaceJoinRequestResolved")
    /\ MayResolveJoinRequest(ix, a, q)
    /\ ix' = ApplyNothing(ix, a)
    /\ joinRequests' = IF joinRequests[q] = None THEN joinRequests
                       ELSE [joinRequests EXCEPT ![q].status = resolution]
    /\ invites' = AcceptedBy(a)
    /\ UNCHANGED <<directory, channels, people, published, talk>>

-----------------------------------------------------------------------------
(* Channels.                                                               *)

ChannelCreated(a, c, private) ==
    /\ NextEvent("ChannelCreated")
    /\ MayCreateChannel(ix, a, c)
    /\ ix' = ApplyChannelCreated(ix, a, c, private, NewEventId)
    /\ channels' = [channels EXCEPT ![c] =
            [isPrivate |-> private, members |-> IF private THEN {a} ELSE {},
             directMessage |-> FALSE, archived |-> FALSE]]
    /\ invites' = AcceptedBy(a)
    /\ UNCHANGED <<directory, joinRequests, people, published, talk>>

DirectMessageChannelCreated(a, c, participants) ==
    /\ NextEvent("DirectMessageChannelCreated")
    /\ MayCreateDirectMessage(ix, a, c, participants)
    /\ ix' = ApplyDirectMessageCreated(ix, a, c, participants, NewEventId)
    /\ channels' = [channels EXCEPT ![c] =
            [isPrivate |-> TRUE, members |-> participants \cup {a},
             directMessage |-> TRUE, archived |-> FALSE]]
    /\ invites' = AcceptedBy(a)
    /\ UNCHANGED <<directory, joinRequests, people, published, talk>>

\* Name, topic and the archived flag are optional: what is absent stays.
ChannelDetailsUpdated(a, c, archived) ==
    /\ NextEvent("ChannelDetailsUpdated")
    /\ MayUpdateChannelDetails(ix, a, c)
    /\ ix' = ApplyInChannel(ix, a, c, NewEventId)
    /\ channels' = IF channels[c] = None THEN channels
                   ELSE [channels EXCEPT ![c].archived =
                            IF archived = None THEN channels[c].archived ELSE archived]
    /\ invites' = AcceptedBy(a)
    /\ UNCHANGED <<directory, joinRequests, people, published, talk>>

ChannelMemberAdded(a, c, d) ==
    /\ NextEvent("ChannelMemberAdded")
    /\ MayAddChannelMember(ix, a, c, d)
    /\ ix' = ApplyChannelMemberAdded(ix, a, c, d, NewEventId)
    /\ channels' = IF channels[c] = None THEN channels
                   ELSE [channels EXCEPT ![c].members = channels[c].members \cup {d}]
    /\ invites' = AcceptedBy(a)
    /\ UNCHANGED <<directory, joinRequests, people, published, talk>>

ChannelMemberRemoved(a, c, d) ==
    /\ NextEvent("ChannelMemberRemoved")
    /\ MayRemoveChannelMember(ix, a, c, d)
    /\ ix' = ApplyChannelMemberRemoved(ix, a, c, d, NewEventId)
    /\ channels' = IF channels[c] = None THEN channels
                   ELSE [channels EXCEPT ![c].members = channels[c].members \ {d}]
    /\ invites' = AcceptedBy(a)
    /\ UNCHANGED <<directory, joinRequests, people, published, talk>>

-----------------------------------------------------------------------------
(* Devices, people and what they publish.                                  *)

\* A blank avatar keeps the one the profile had.
DeviceProfileUpdated(a, avatar) ==
    /\ NextEvent("DeviceProfileUpdated")
    /\ MayPublish(ix, a)
    /\ ix' = ApplyNothing(ix, a)
    /\ profiles' = [profiles EXCEPT ![a] =
            IF avatar # Blank THEN avatar ELSE IF profiles[a] = None THEN Blank ELSE profiles[a]]
    /\ invites' = AcceptedBy(a)
    /\ UNCHANGED <<directory, joinRequests, channels, personProfiles, personLinks,
                   published, talk>>

PersonDeviceLinked(a, p, d) ==
    /\ NextEvent("PersonDeviceLinked")
    /\ MayLinkPerson(ix, a, p, d)
    /\ ix' = ApplyPersonDeviceLinked(ix, a, p, d)
    /\ personLinks' = [personLinks EXCEPT ![d] = p]
    /\ invites' = AcceptedBy(a)
    /\ UNCHANGED <<directory, joinRequests, channels, profiles, personProfiles,
                   published, talk>>

PersonProfileUpdated(a, p, avatar) ==
    /\ NextEvent("PersonProfileUpdated")
    /\ MayUpdatePersonProfile(ix, a, p)
    /\ ix' = ApplyNothing(ix, a)
    /\ personProfiles' = [personProfiles EXCEPT ![p] =
            IF avatar # Blank THEN avatar
            ELSE IF personProfiles[p] = None THEN Blank ELSE personProfiles[p]]
    /\ invites' = AcceptedBy(a)
    /\ UNCHANGED <<directory, joinRequests, channels, profiles, personLinks,
                   published, talk>>

DeviceKeyPackagePublished(a, k) ==
    /\ NextEvent("DeviceKeyPackagePublished")
    /\ MayPublish(ix, a)
    /\ ix' = ApplyNothing(ix, a)
    /\ keyPackages' = [keyPackages EXCEPT ![k] = a]
    /\ invites' = AcceptedBy(a)
    /\ UNCHANGED <<directory, joinRequests, channels, people, peerEndpoints, talk>>

PeerEndpointPublished(a) ==
    /\ NextEvent("PeerEndpointPublished")
    /\ MayPublish(ix, a)
    /\ ix' = ApplyNothing(ix, a)
    /\ peerEndpoints' = peerEndpoints \cup {a}
    /\ invites' = AcceptedBy(a)
    /\ UNCHANGED <<directory, joinRequests, channels, people, keyPackages, talk>>

-----------------------------------------------------------------------------
(* OpenMLS commits and content key epochs change nothing in the view.      *)

OpenMlsWorkspaceGroupChanged(a, d) ==
    /\ NextEvent("OpenMls")
    /\ \/ MayAddToWorkspaceGroup(ix, a, d)
       \/ MayRemoveFromWorkspaceGroup(ix, a, d)
       \/ MayUpdateWorkspaceGroup(ix, a)
    /\ ix' = ApplyNothing(ix, a)
    /\ invites' = AcceptedBy(a)
    /\ UNCHANGED <<directory, joinRequests, channels, people, published, talk>>

OpenMlsChannelGroupChanged(a, c, d) ==
    /\ NextEvent("OpenMls")
    /\ \/ MayChangeChannelGroup(ix, a, c, d)
       \/ MayUpdateChannelGroup(ix, a, c)
    /\ ix' = ApplyInChannel(ix, a, c, NewEventId)
    /\ invites' = AcceptedBy(a)
    /\ UNCHANGED <<directory, joinRequests, channels, people, published, talk>>

WorkspaceKeyEpochPublished(a) ==
    /\ NextEvent("ContentKeyEpochPublished")
    /\ MayPublishWorkspaceKeyEpoch(ix, a)
    /\ ix' = ApplyNothing(ix, a)
    /\ invites' = AcceptedBy(a)
    /\ UNCHANGED <<directory, joinRequests, channels, people, published, talk>>

ChannelKeyEpochPublished(a, c) ==
    /\ NextEvent("ContentKeyEpochPublished")
    /\ MayPublishChannelKeyEpoch(ix, a, c)
    /\ ix' = ApplyInChannel(ix, a, c, NewEventId)
    /\ invites' = AcceptedBy(a)
    /\ UNCHANGED <<directory, joinRequests, channels, people, published, talk>>

-----------------------------------------------------------------------------
(* Messages.  `content' tells the plain bodies from the encrypted ones.    *)

NewMessage(c, content, reply) ==
    [channel |-> c, content |-> content, replyTo |-> reply, deleted |-> FALSE,
     reactionAuthors |-> {}, reactionCount |-> 0]

MessageCreated(a, c, m, content) ==
    /\ NextEvent("MessageCreated")
    /\ MayPostMessage(ix, a, c)
    /\ ix' = ApplyMessagePosted(ix, a, c, m, NewEventId)
    /\ messages' = [messages EXCEPT ![m] = NewMessage(c, content, None)]
    /\ invites' = AcceptedBy(a)
    /\ UNCHANGED <<directory, joinRequests, channels, people, published, readMarkers>>

MessageReplyCreated(a, c, m, target, content) ==
    /\ NextEvent("MessageReplyCreated")
    /\ MayReply(ix, a, c, target)
    /\ ix' = ApplyMessagePosted(ix, a, c, m, NewEventId)
    /\ messages' = [messages EXCEPT ![m] = NewMessage(c, content, target)]
    /\ invites' = AcceptedBy(a)
    /\ UNCHANGED <<directory, joinRequests, channels, people, published, readMarkers>>

\* Message m shows the new view, if it is shown at all.
MessageUpdated(m, view) ==
    IF messages[m] = None THEN messages ELSE [messages EXCEPT ![m] = view]

MessageEdited(a, c, m, content) ==
    /\ NextEvent("MessageEdited")
    /\ MayChangeMessage(ix, a, c, m)
    /\ ix' = ApplyInChannel(ix, a, c, NewEventId)
    /\ messages' = MessageUpdated(m, [messages[m] EXCEPT !.content = content])
    /\ invites' = AcceptedBy(a)
    /\ UNCHANGED <<directory, joinRequests, channels, people, published, readMarkers>>

MessageDeleted(a, c, m) ==
    /\ NextEvent("MessageDeleted")
    /\ MayChangeMessage(ix, a, c, m)
    /\ ix' = ApplyInChannel(ix, a, c, NewEventId)
    /\ messages' = MessageUpdated(m, [messages[m] EXCEPT !.deleted = TRUE])
    /\ invites' = AcceptedBy(a)
    /\ UNCHANGED <<directory, joinRequests, channels, people, published, readMarkers>>

\* add_reaction: the count is recomputed only when the author is new.
AddReaction(view, a) ==
    LET authors == view.reactionAuthors \cup {a}
    IN  [view EXCEPT !.reactionAuthors = authors,
                     !.reactionCount = IF a \in view.reactionAuthors THEN view.reactionCount
                                       ELSE Cardinality(authors)]

\* Mutant: the count goes down even if the author had not reacted.
RemoveReactionAlways(view, a) ==
    [view EXCEPT !.reactionAuthors = view.reactionAuthors \ {a},
                 !.reactionCount = IF view.reactionCount = 0 THEN 0 ELSE view.reactionCount - 1]

\* remove_reaction: the count is recomputed only when the author was there.
RemoveReaction(view, a) ==
    LET authors == view.reactionAuthors \ {a}
    IN  [view EXCEPT !.reactionAuthors = authors,
                     !.reactionCount = IF a \notin view.reactionAuthors
                                       THEN view.reactionCount
                                       ELSE Cardinality(authors)]

ReactionAdded(a, c, m) ==
    /\ NextEvent("ReactionAdded")
    /\ MayReact(ix, a, c, m)
    /\ ix' = ApplyInChannel(ix, a, c, NewEventId)
    /\ messages' = MessageUpdated(m, AddReaction(messages[m], a))
    /\ invites' = AcceptedBy(a)
    /\ UNCHANGED <<directory, joinRequests, channels, people, published, readMarkers>>

ReactionRemoved(a, c, m) ==
    /\ NextEvent("ReactionRemoved")
    /\ MayReact(ix, a, c, m)
    /\ ix' = ApplyInChannel(ix, a, c, NewEventId)
    /\ messages' = MessageUpdated(m, RemoveReaction(messages[m], a))
    /\ invites' = AcceptedBy(a)
    /\ UNCHANGED <<directory, joinRequests, channels, people, published, readMarkers>>

ReadMarkerUpdated(a, c, target) ==
    /\ NextEvent("ReadMarkerUpdated")
    /\ MayMarkRead(ix, a, c, target)
    /\ ix' = ApplyInChannel(ix, a, c, NewEventId)
    /\ readMarkers' = [readMarkers EXCEPT ![a][c] = target]
    /\ invites' = AcceptedBy(a)
    /\ UNCHANGED <<directory, joinRequests, channels, people, published, messages>>

-----------------------------------------------------------------------------
MembershipStep ==
    \E a \in Device :
        \/ WorkspaceCreated(a)
        \/ \E d \in Device, r \in Role : MemberInvited(a, d, r)
        \/ \E d \in Device, r \in Role : MemberRoleUpdated(a, d, r)
        \/ \E p \in AccessPolicy : WorkspaceAccessPolicyUpdated(a, p)
        \/ \E d \in Device : MemberRemoved(a, d)

AdmissionStep ==
    \E a \in Device :
        \/ \E i \in Invite, d \in Device, r \in Role, q \in Request \cup {None} :
                WorkspaceInviteRecorded(a, i, d, r, q)
        \/ \E i \in Invite, r \in Role, m \in 0..MaxClaims \cup {None} :
                WorkspaceInviteCapabilityCreated(a, i, r, m)
        \/ \E i \in Invite, d \in Device, q \in Request :
                WorkspaceInviteClaimed(a, i, d, q)
        \/ \E i \in Invite : WorkspaceInviteResolved(a, i)
        \/ \E q \in Request, d \in Device : WorkspaceJoinRequestRecorded(a, q, d)
        \/ \E q \in Request, s \in RequestStatus \ {"Waiting"} :
                WorkspaceJoinRequestResolved(a, q, s)

ChannelStep ==
    \E a \in Device, c \in Channel :
        \/ \E private \in BOOLEAN : ChannelCreated(a, c, private)
        \/ \E participants \in SUBSET Device :
                DirectMessageChannelCreated(a, c, participants)
        \/ \E archived \in BOOLEAN \cup {None} : ChannelDetailsUpdated(a, c, archived)
        \/ \E d \in Device : ChannelMemberAdded(a, c, d)
        \/ \E d \in Device : ChannelMemberRemoved(a, c, d)

PeopleStep ==
    \E a \in Device :
        \/ \E avatar \in Avatar \cup {Blank} : DeviceProfileUpdated(a, avatar)
        \/ \E p \in Person, d \in Device : PersonDeviceLinked(a, p, d)
        \/ \E p \in Person, avatar \in Avatar \cup {Blank} :
                PersonProfileUpdated(a, p, avatar)
        \/ \E k \in KeyPackage : DeviceKeyPackagePublished(a, k)
        \/ PeerEndpointPublished(a)

KeyStep ==
    \E a \in Device :
        \/ \E d \in Device : OpenMlsWorkspaceGroupChanged(a, d)
        \/ \E c \in Channel, d \in Device : OpenMlsChannelGroupChanged(a, c, d)
        \/ WorkspaceKeyEpochPublished(a)
        \/ \E c \in Channel : ChannelKeyEpochPublished(a, c)

MessageStep ==
    \E a \in Device, c \in Channel, m \in Message :
        \/ \E content \in Content : MessageCreated(a, c, m, content)
        \/ \E target \in Message, content \in Content :
                MessageReplyCreated(a, c, m, target, content)
        \/ \E content \in Content : MessageEdited(a, c, m, content)
        \/ MessageDeleted(a, c, m)
        \/ ReactionAdded(a, c, m)
        \/ ReactionRemoved(a, c, m)

ReadStep ==
    \E a \in Device, c \in Channel, target \in EventId : ReadMarkerUpdated(a, c, target)

Next ==
    \/ MembershipStep \/ AdmissionStep \/ ChannelStep
    \/ PeopleStep \/ KeyStep \/ MessageStep \/ ReadStep

Spec == Init /\ [][Next]_vars

-----------------------------------------------------------------------------
(* Properties.                                                             *)

\* apply_ready_event keeps two copies of membership, channel access, message
\* placement, person links and join requests, by separate code: the private
\* index that authorizes and the public view that clients show.  They agree
\* after every event.
ViewMatchesIndex ==
    /\ members = ix.roles
    /\ personLinks = ix.personLinks
    /\ \A c \in Channel :
        /\ channels[c] = None <=> ix.channels[c] = None
        /\ channels[c] # None =>
              /\ channels[c].isPrivate = ix.channels[c].isPrivate
              /\ channels[c].members = ix.channels[c].members
    /\ \A m \in Message :
        /\ messages[m] = None <=> ix.messages[m] = None
        /\ messages[m] # None => messages[m].channel = ix.messages[m].channel
    /\ \A q \in Request : joinRequests[q] # None <=> q \in ix.joinRequests

\* An invite is shown as open exactly when the index would still accept a
\* claim of it, although the two copies count claims, revocations and the
\* activity of the invited device separately.
OpenInvitesAreClaimable ==
    \A i \in Invite :
        (invites[i] # None /\ invites[i].status = "Invited") <=> Claimable(ix, i)

\* A join request waits only while its requester is neither a member nor the
\* addressee of an invite for that request, whichever of the events arrives
\* first.
WaitingMeansUndecided ==
    \A q \in Request :
        joinRequests[q] # None /\ joinRequests[q].status = "Waiting" =>
            /\ members[joinRequests[q].requester] = None
            /\ \A i \in Invite :
                  invites[i] # None /\ invites[i].request = q =>
                      invites[i].invitee # joinRequests[q].requester

\* Nobody is listed in a channel without being a member of the workspace: the
\* removal of a member reaches every channel.
ChannelMembersAreMembers ==
    \A c \in Channel :
        ix.channels[c] # None =>
            \A d \in ix.channels[c].members : ix.roles[d] # None

\* The device that created the workspace stays a member of it for ever.
RootStaysMember == ix.root # None => ix.roles[ix.root] # None

\* A person is linked to at most one device, and only to a member.
PersonLinksOneToOne ==
    \A d \in Device :
        ix.personLinks[d] # None =>
            /\ ix.roles[d] # None
            /\ \A x \in Device : ix.personLinks[x] = ix.personLinks[d] => x = d

\* A read marker points at an event of the channel it is kept for.
ReadMarkersStayInChannel ==
    \A d \in Device, c \in Channel :
        readMarkers[d][c] # None => ix.eventChannels[readMarkers[d][c]] = c

\* The reaction count that is shown is the number of devices that react.
ReactionCountsAreExact ==
    \A m \in Message :
        messages[m] # None =>
            messages[m].reactionCount = Cardinality(messages[m].reactionAuthors)

\* A channel id is an immutable identity: once materialized, a channel stays,
\* and neither its privacy nor its creator ever changes.
ChannelIdentityIsImmutable ==
    [][\A c \in Channel :
        ix.channels[c] # None =>
            /\ ix'.channels[c] # None
            /\ ix'.channels[c].isPrivate = ix.channels[c].isPrivate
            /\ ix'.channels[c].creator = ix.channels[c].creator]_vars

\* Joining gives no access to a private channel that exists already, so a
\* device that was removed and is invited again has to be added again.
JoiningOpensNoPrivateChannel ==
    [][\A c \in Channel, d \in Device :
        /\ ix.roles[d] = None /\ ix'.roles[d] # None
        /\ ix.channels[c] # None /\ ix.channels[c].isPrivate
        => ~ChannelAccessibleTo(ix', c, d)]_vars

\* The policy of guides/workspace-admin-policy.md: the root owner "is always an
\* owner and cannot be removed or demoted".
RootStaysOwner == ix.root # None => ix.roles[ix.root] = "Owner"

-----------------------------------------------------------------------------
(* What the properties rest on, and the inductive invariant they make up.  *)

\* The two copies of an invite: same limit, one for an invite that names its
\* device; the view shows it open exactly when
\* it is neither revoked nor used up in the index; while it is open the claim
\* counts agree, and so does the device a recorded invite names.
InviteCopiesAgree ==
    \A i \in Invite :
        /\ invites[i] = None <=> ix.invites[i] = None
        /\ invites[i] # None =>
            /\ invites[i].maxClaims = ix.invites[i].maxClaims
            /\ invites[i].capability <=> ix.invites[i].invitee = None
            /\ invites[i].capability \/ invites[i].maxClaims = 1
            /\ invites[i].status = "Invited" <=> Claimable(ix, i)
            /\ invites[i].status = "Invited" =>
                  /\ invites[i].claimCount = ix.invites[i].claimCount
                  /\ invites[i].capability \/ invites[i].invitee = ix.invites[i].invitee

\* Nobody can have asked to join a workspace that has no root.
RequestsAreRooted == ix.joinRequests # {} => ix.root # None

\* Only events that were applied have a channel.
EventChannelsAreApplied ==
    \A e \in EventId : ix.eventChannels[e] # None => e \in applied

\* The inductive invariant.
Inv ==
    /\ TypeOK
    /\ ViewMatchesIndex
    /\ InviteCopiesAgree
    /\ WaitingMeansUndecided
    /\ RequestsAreRooted
    /\ ChannelMembersAreMembers
    /\ RootStaysMember
    /\ PersonLinksOneToOne
    /\ EventChannelsAreApplied
    /\ ReadMarkersStayInChannel
    /\ ReactionCountsAreExact

=============================================================================
