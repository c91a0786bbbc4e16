# A verification of Chaft's workspace core

Chaft is a local-first team chat. Every device keeps a signed, hash-linked
history of events for each workspace in a local SQLite database, exchanges
events with peers, and materializes the workspace (members, channels, messages,
invites) from the history it has. There is no server that decides anything, so
what the application shows and whom it lets in rests on code that has to cope
with events in any order, with several processes on one data directory, and
with crashes. This directory holds TLA+ models of that code, TLC
configurations that check them on small instances, and TLAPS proofs for every
value of the constants.

## The system

| Part | State it keeps | Operations | What makes it correct |
|---|---|---|---|
| Workspace state (`domain/core`) | the materialized view and a separate access index | `apply_ready_event`: authorize, then one arm per event body | both copies agree; access follows membership; invites and join requests agree |
| Batch application (`domain/core`) | queues, counters and rounds of one call | `apply_batch` | causal order, nothing lost, conflicts fail closed, same result as scanning again and again |
| Authorization, trust snapshots (`domain/core`) | none beyond an index | `authorize_event_with_history`, snapshot export and import | the same verdict as materialization gives |
| Event store (`storage/store`) | the events of all workspaces | append, compare-and-append, inventories | atomic batches, idempotent inserts |
| Invite claims (`runtime/workspace_invites`) | events, claim and response receipts on disk, mutexes | claim, answer, import, finalize the profile | use limit, one use per device, credentials for everybody admitted |
| Sync (`network/sync`, `runtime/sync_runtime`) | inventories of one session, two repair ledgers, a group checkpoint | plan, publish, pull, catch up, follow-up publish, retry | stores converge; no ledger or checkpoint hides work that is left |
| Join queues (`bindings/ffi`, driven by `apps/desktop-qt`) | two outboxes and two inboxes of JSON files, threads and timers of the desktop | queue, list due, submit, mark, acknowledge, prune; claim, stage, resolve, apply | no request or answer is lost between two queues; every claim is settled |
| Blob transfer (`runtime`, `storage/media`) | chunk files, ledger of attempts | plan, fetch, resume, repair | complete and verified before use |
| OpenMLS and content keys (`runtime`, `security/mls`) | group state, key epochs, reconciliation checkpoint | provision, commit, process, rotate | one epoch per commit; keys follow membership |
| Transports, wire, identity, cryptography | connections, keys on disk | framing, signing, sealing | formats; taken for granted here |
| Search, export, recovery, command line, rest of the desktop, node, website | projections and files | - | not behaviours for a model checker |

The runtime calls the core for authorization and materialization, the store for
persistence and the transports for peers. Within a call the runtime is
synchronous, but the desktop runs several calls on threads of its own and serves
peers beside them; the desktop application, the command line and the node are
different processes that may share a data directory, so SQLite transactions and
files are the shared state. What is hard is accordingly: two copies of one
truth, the order in which events arrive, decisions on a history that has
changed meanwhile, letters and confirmations that are lost, crashes between two
writes, and retries of what was done before. `PROJECT.json` lists these hazards at their lines, with the properties
that are about them.

## The modules

| Module | Models |
|---|---|
| `AccessIndex` | `WorkspaceAccessIndex`: what `authorize` requires (`May...`) and what `apply_authorized` does (`Apply...`), as operators on an index |
| `WorkspaceState` | `WorkspaceState::apply_ready_event`: one action per event body, on the view variables and the index `ix` |
| `WorkspaceEvents` | signed events as records; the dispatch of `authorize` and `apply_authorized` on their bodies |
| `ApplyBatch` | `apply_batch`: one step per visited position, and the ends of rounds |
| `StableScan` | the reference of the repository's tests, `apply_batch_with_legacy_stable_scans`, as recursive functions over the scans and their visits |
| `InviteLedger` | abstract: what an invite with a use limit promises |
| `InviteClaim` | `claim_workspace_invite`, the compare-and-append of the store, receipts, mutexes, crashes, other writers |
| `DeliveryQueue` | the files of the access-request queues, as operators on an outbox and on an inbox |
| `JoinHandoff` | the requester's and the answering desktop: the four queues, the threads and timers that move letters, the handlers that receive them, claims and administrator's decisions, crashes |
| `SyncSession` | `sync_workspace_direct` on two devices that run it concurrently, with the peer's handlers, the repair ledgers, the transfer ledger, the group checkpoint, local writers and failures |
| `Selection` | the elements of a sequence that belong to a set, used for the queues and for lists of events |
| `AccessIndexProofs`, `WorkspaceStateProofs`, `ApplyBatchProofs`, `StableScanProofs`, `InviteClaimProofs`, `JoinHandoffProofs`, `SyncSessionProofs` | the theorems |
| `SelectionProofs` | lemmas on recursive functions over `0..N` and on `Selection`, for the modules above |
| `MCWorkspaceState`, `MCApplyBatch`, `MCInviteClaim`, `MCJoinHandoff`, `MCSyncSession` | instances for TLC |

`AccessIndex` is used by `WorkspaceState` and, through `WorkspaceEvents`, by
`ApplyBatch`, so authorization is written once. An operator named `...Again`,
`...Never`, `...Skipped` and the like with a comment "Mutant" is a deliberately
wrong variant of the definition after it; no specification uses it.
`PROJECT.json` says which property must notice it.

### WorkspaceState and AccessIndex

The code keeps membership, channel access, message placement, invites, join
requests and person links twice: in the public view (`members`, `channels`,
`messages`, `invites`, `joinRequests`, ...) and in a private index that
authorizes the next event. The arms of `apply_ready_event` update the view, the
arms of `apply_authorized` the index, and two different loops settle the
invites of a device that becomes active. The model keeps both, with the
assignments of the respective code, so that their agreement is a property and
not an assumption. Each action takes the author and the payload from small
sets; its guard is the arm of `authorize`. The constant `Bodies` selects the
events of an instance. Names, texts, timestamps and length limits are left out;
profiles keep whether an avatar is present because the code merges it.
A restart reloads the same history, so it needs no action.

### ApplyBatch

`Init` chooses a history (a function from event ids to events, with acyclic
parents) and a batch (any sequence of ids: ids may be missing or occur twice)
and builds the indexes of the code: missing parent counts, children by parent,
the stable queue of events without parents. A round takes the lower of the head
of the stable queue and the top of the heap; `SkipApplied`, `ApplyReady`,
`Defer` and `Abort` are the outcomes of a visit, `NewRound` and `Finish` those
of a round. A visit aborts the call for the errors that no later event can mend
(`Malformed`): a payload that no index accepts, and a direct message that is not
between its author and one other device, which shows once its author may create
the channel. `StableScan!Rescan` states what the call is meant to compute.

Two devices that hold the same events in different orders can end in different
states when concurrent events affect each other's authorization (a member is
removed while it posts): the code applies in local order and the posted message
is either kept or left as a gap. No document promises otherwise; the models
state the result per order.

### InviteClaim

Workers of several processes handle claims of one reusable invite. A worker
takes its process's mutex, reads the event ids (`expected`), materializes the
history (`context`), reads the ids again, decides, and appends in a transaction
that compares the ids once more; it then may add the new member to the group,
stores the response and replies. Each of these is a step that others may
interleave with: workers of other processes, writers that append unconditionally
(direct invitations, removals, revocations, role changes, manual join
requests), the clock, and crashes that erase a process and its mutex. Storing the
response may fail too (`StoreFails`, counted with the crashes): the call returns
an error and the admission stays. A role change and a new invitation of a member
both make another event its membership event, so both are a `joined` entry. The three
events of an admission are one entry of the modelled history because only one
transaction writes them. A claimant without an answer sends the same claim
again.

### JoinHandoff and DeliveryQueue

A request travels from the joiner's request outbox to the owner's request inbox,
the answer from the owner's response outbox to the joiner's response inbox; a
claim's answer is also staged in the owner's own response inbox, where the
joiner fetches it by its request id. A queue is a directory with one file per
request id. `DeliveryQueue` has what the four Rust files do to such a directory:
queuing again keeps everything but the text, marking reads the entry again,
a scan for due entries removes delivered ones, a full inbox loses its oldest
entry, an id that is taken by another text is refused. The request outbox sets
files aside that do not validate; a scan of the response outbox fails on one
(`ListDueResponses`).

`JoinHandoff` adds the desktop. Three threads submit entries (the button's, and
one drain per outbox, gated as in `queueJoinRequestOutboxDrain`); each of send,
arrival, mark and acknowledgement is a step, so a confirmation can be lost, an
entry can disappear under a thread, and a crash can fall between any two. The
owner's refresh works through the inbox newest first: grant or refuse a claim,
stage, queue, acknowledge; other requests are recorded and wait. The
administrator declines or approves. The joiner's refresh lists answers to open
rows, marks declines, shows one approval at a time; the import closes the row.
Time is counted in ticks of 15 s, the base of the retry delay and the interval
of the poll timers. What a claim does to the history is `InviteClaim`'s subject;
here a claim is granted or refused. A granted claim is granted again when it is
read again, until the new member gets another role, is invited again or is
removed (`ChangeMembership`): its membership event is then no longer the claim's,
and the claim is refused for good. `outcomes` says what administrators may do in
a situation: decline, approve, change such a membership.

Left out: what a payload contains beyond being acceptable, more than one
joiner or owner, relays, a failed write of the response outbox while a claim is
answered (the staged copy covers it), and inboxes above their limit of 1024.

### SyncSession

Each device has an event store, an attachment store and at most one session. A
session fetches the peer's inventory, plans, publishes in requests of
`PublishLimit` events, uploads attachments the peer lacks, records the outbound
scan, fetches and appends event by event, catches up with the OpenMLS group,
scans for missing attachments, publishes what catching up made, and retries open
transfers. The two devices' sessions, the users' writes and failures interleave
between all these steps, and the plan of the start is used to the end, as in the
code. The peer's publish handler goes over a request again and again until a pass
accepts nothing (`Accepted`); it judges each event by the history it has by then
(`Accept`), whatever the event's parents, and keeps what it accepted although the
request as a whole fails; that ends the session.

The events are messages, replies, removals, key packages and additions to the
group. Of authorization the model has what concerns these: the author is a member,
and so is the device that an event removes (`Allowed`), so a second removal of the
same member is refused by a publish handler and is a gap in a history. An event is
applied if its parents are and it is authorized then, in one fixed order `Order`
(the batch order is `ApplyBatch`'s subject); all members are owners. Joins, roles,
invites and their limits, channel ids and access to channels also decide what a
peer refuses in the code; they are outside this model, and what it shows is shown
for workspaces whose concurrent events are of the five kinds. Ages of records are counted in
sessions: a record stands for the next session only (`RecentSessions` is 2),
which stands for the interval of 60 s. `group` is FALSE in scenarios where
catching up would change nothing. `open` holds the attachments with an unfinished
attempt, while the code's ledger has an id for every attempt: an attempt that
failed stays there until the reconciliation of a retry closes it along with the
successful one.

Left out: third peers, chunks of large attachments, publish-only and pull-only
calls, trust snapshots and proof events, invite-profile finalization, compromise
response and search after a pull, channel groups and commits, and a clock that
goes backwards.

## Runs

| Run | Checks | Bounds |
|---|---|---|
| `workspace_access` | the two copies agree, channel members are members, the root stays, person links, immutable channels, no private channel by joining | 3 devices, 1 channel, 1 person, 6 events: enough to create, invite, open a private channel, add, remove and invite again |
| `workspace_admission` | type, agreement, open invites are claimable, waiting requests are undecided | 6 events; every order of invite, claim, request, revocation |
| `workspace_conversation` | agreement, read markers | 5 events of all conversation bodies, 2 channels, 2 messages |
| `workspace_reactions` | reaction counts | 7 events, so that two members react to one message and withdraw |
| `root_owner` | violated: see below | |
| `apply_batch` | causal order, conflicts, nothing left behind, agreement with the rescan, termination | 5 events, 72 histories with 3 devices and 2 channels, all orders of all subsets and repetitions up to length 4 |
| `invite_claim` | refinement of the ledger, credentials, durable grants, repeated claims are answered from their admission | 3 claims that collide pairwise, single use, 2 processes, 1 interfering write, 1 crash or failed write, 2 rounds; the processes are symmetric |
| `invite_answers` | type, every claim is answered | 2 claims, 1 round, no symmetry |
| `join_handoff` | no claim is lost, grants stay reachable, delivered means received, claims are settled, declines are noticed | 1 claim and 1 manual request in five situations: the claim behind a request with a dead address and beside an unreadable file; the claim sent twice, by button and outbox, with an unreadable response outbox; the claim with a crash or an unsaved result, and a membership that may change after the grant; the manual request that may be declined; the one that may be approved. A drain attempts 1 entry, attempts are counted to 2 |
| `join_approval` | violated: see below | the manual request alone |
| `sync_session` | gaps are refusals, skipped scans miss nothing, checkpoints cover their work, follow-ups deliver, events converge, attachments arrive, transfers settle, members join | 2 devices in five situations: both write a message with an attachment; only one syncs by itself, 2 failures; a member joins the group, 1 failure; a removal crosses the removed member's message and a reply to it; two removals of the same member cross, one of them with a message that builds on it, 1 failure. 2 events per publish request |
| `mutual_removal` | violated: see below | 2 events |

Bounds: the number of events is the size of `EventId`; `MaxOthers` and
`MaxCrashes` bound the surroundings; `RetryLimit` stands for the 8 rounds of the
code. One interfering write suffices to invalidate every pair of reads, and
`RetryLimit` of 1 makes giving up common. Deadlock is not an error in these
instances: a history of bounded length ends, a batch finishes, claims are all
answered. The join and sync instances have timers, never stop, and are checked
for deadlock.

In `join_handoff` one claim and one other request are enough for an entry to be
starved by another one (`Batch` is 1), a second delivery of one request, and two
threads on one entry. The situations start separately because the faults of one
hide nothing of another; together they are 100 000 states. In them only the
administrator's answers are delivered directly; a claim's answer is fetched, the
direct delivery being lost behind the unreadable file or without an address. The
proofs cover both ways for both. In `sync_session`
a request limit of 2 makes a publish of three events take two requests, and two
failures allow a session to fail after the event and again after the ledger.

Fairness. `ApplyBatch` is one synchronous call: weak fairness of its next step.
In `InviteClaim` a worker that has taken up a claim keeps running (weak
fairness per worker), and a claimant that has no answer keeps sending (the
outbox of the bindings retries without a limit). Nothing is assumed of crashes,
other writers or the clock. The mutex need not be fair.

In `JoinHandoff` threads run, timers fire and refreshes go on (weak fairness).
Strong fairness is assumed of arrivals at a reachable address, in either direction,
and of an answer to a claim: these are environment assumptions, that a network or
a transient error does not fail every time something is tried. The user
imports an approval that is shown; nobody has to answer a manual request. In
`SyncSession` the desktop's timer starts a sync every three seconds when none is
running, and the session's thread goes on (weak fairness of both); failures are
bounded per situation, and users need not write.

`root_owner` shows a disagreement with the documentation: the guides say that
the root owner cannot be demoted, but a `MemberInvited` event for the root
device overwrites its role, since only `MemberRoleUpdated` and `MemberRemoved`
protect it. What does hold, and is proved, is that the root stays a member.

`join_approval` shows an approval that is never sent. The confirmation of a
request is lost, so the request is sent again; meanwhile it was declined, and the
decline delivered. The repeated request waits anew and is approved. If the
delivered decline is still in the response outbox, queuing the approval keeps its
status, and the next scan removes it as delivered. The guide promises that an
approval is queued, delivered and received. Claims do not have this problem,
because their answers are staged first (`GrantsStayReachable`).

`mutual_removal` shows two owners who remove each other offline. Each refuses
the other's removal, since its author is no member any more, and a refused
publish ends the session before the pull: no session of either device ever
fetches the other's event, whereas the guide says that later sync merges the
history. Two owners who remove the same third member offline get stuck in the same
way, since the target of either removal is no member at the other device; in
`sync_session` this happens between a and b, who brings f's removal. `EventsConverge`
therefore says that the devices merge unless every one of them that syncs has an
event which its peer refuses for good (`Standoff`). A removal of one side only does
merge: the remover publishes, and fetches what it would have refused.

## Proofs

`AccessIndexProofs` has, for each operator on the index, a lemma on what it
preserves. `WorkspaceStateProofs` proves the inductive invariant `Inv` of
`WorkspaceState`, one lemma per action, and from it the type invariant and all
safety and action properties of the runs, for any sets of devices, channels,
messages, invites, requests and persons and histories of any length. The
assumptions are that there are finitely many devices and that the claim limit
is at least one. `ViewMatchesIndex` alone is not inductive: the settling of
invites depends on both copies of an invite agreeing on the named device and,
while it is open, on the count (`InviteCopiesAgree`), a join request can only be
recorded in a rooted workspace (`RequestsAreRooted`), and a new event's channel
entry must not exist before it is applied (`EventChannelsAreApplied`).

`InviteClaimProofs` proves `AdmittedGetCredentials`, `GrantsAreDurable` and the
refinement `Spec => Ledger!Spec` for any number of processes, workers, claims,
writers and crashes. The argument: histories only grow, so what a worker read
first is a prefix of what it materialized, which is a prefix of the history
(`ReadsAreOrdered`); if the history equals the first reading, nothing lies
between, and the decision was made on it (`NothingBetween`,
`DecisionsAreSound`); the transaction compares once more, so the decision holds
of the history it extends. A use is counted per event and the ledger counts
claims, hence `ClaimsAreCounted`. `RepeatedClaimsAreAnswered` is an action property:
the step that refuses a claim has just compared the histories, so it refuses by
what the history is then (`RefusalsAreVerdicts`); and a device or a request id that
was admitted once is not admitted again (`OneUseEach`), so an admission that is in
force collides with no other claim, and the verdict on it does not ask for the
clock, the limit or a revocation. What a worker has passed is on disk
(`ProgressIsOnDisk`), which is what a crash leaves.

`ApplyBatchProofs` proves `CausalOrder`, `NothingLeftBehind` and
`ConflictsFailClosed` for every causal history and every batch, repetitions
included. None of them is inductive. Counters are decremented parent by parent,
so `Inv` says what they count: the distinct parents that are not applied
(`CountsAreExact`, `WaitersAreExact`). Then a pending position is on one of the four
lists exactly if its parents are applied and its channel has one definition
(`QueuedAreEligible`, `EligibleAreQueued`), and a deferred event is refused by
the index as it is, unless the round has made progress since
(`DeferredAreFresh`), which is what makes the last round's refusals final. For
conflicting channels each arm of `apply_authorized` is shown to open no channel
but the one its event defines (`OpensOnly`), with the lemmas of
`AccessIndexProofs`. The assumptions are that events are well typed
(`InputsAreTyped`: the database returns deserialized events) and that parents
are older than their children (`HistoriesAreCausal`: ids are hashes).

`StableScanProofs` proves `MatchesRescan` from the same assumptions: what a call
of `apply_batch` reports and the index that it leaves are those of the reference,
which scans the whole batch again and again. Each round of the worklist stands
for one scan, and each event that it takes up for the visits up to its position
(`FollowsScan`): what is applied, the index, and whether the round has made
progress are those of the reference there. A position that the round passes over
is on no list, and `Inv` says that its visit changes nothing: its parents are
missing, its channel is in conflict, or it has been applied. The lists of a
round hold positions ahead of the present one only, in input order (`Rising`,
`QueuesAround`), and the next round's the others (`WaitsAround`). Rounds end
because each but the last applies an event and no event is applied twice, so there are at most as many as the batch is long and the
reference, which makes that many scans, has seen them all; after a scan without
progress, or one that an invalid payload stopped, further scans change nothing.
The same bound is `CallsDoBoundedWork`: no more rounds that apply an event than
the batch has positions, within a round only forward, and a new round only after
progress. It is the safety part of `Terminates`.

`JoinHandoffProofs` proves the types and, for any set of requests and any
situation, `ClaimsAreNeverLost`, `GrantsStayReachable` and
`DeliveredMeansReceived`. `SafeInv` follows a letter through the steps: what a
thread has reached (`ArrivedAreReceived`), what the owner's refresh has done for
its present letter (`RefreshIsAt`), that the letters it works through have not
left the inbox (`TodoIsInTheInbox`), and that no letter is in a queue twice. The
last three theorems, and not the types, have a hypothesis, `RoomForAll`: there
are at most as many requests as an inbox holds (1024 in the code). It is needed,
since a full inbox drops its oldest letter, a claim that nobody has answered
included; the instance of `join_handoff` satisfies it.

`SyncSessionProofs` proves the types, `SkippedScansMissNothing` and
`CheckpointsCoverTheirWork` for two devices and any events, attachments,
removals, situations and failures. `SyncInv` says of each session how far it has
come: what it read at its start is still in the stores (`ReadsAreKept`), the own
attachments of the plan's inventory are in its list, uploaded, or at the peer
(`UploadIsAt`), and a pass that changed no secret had nothing to do
(`CatchUpIsAt`). Beside that an event is always in its author's store, with its
attachments (`OwnAtHome`, `OwnFilesAtHome`), so whatever an upload leaves out for
want of a file is not the device's own. `FollowUpsDeliver` has the hypothesis
`GroupsLoseNobody`: in situations where devices join the group no event removes
a member, as in the instance of `sync_session`. A member that is removed while
its session runs does not materialize its own package any more, and does not
publish it. `GapsAreRefusals` has two: `RemovalsStand` and `StartComplete`, the
devices start with complete histories. `RemovalsStand` says that whoever signed a
removal, or an event that a removal builds on, is never removed, and that a removal
which another removal builds on is the only one of its member. Two devices may
remove the same member, and messages may build on either removal. Without the
first part, a removal that takes out the first remover makes whom that one removed
a member again; without the second, so does a removal of the same member that is
earlier in the order, for the removals that build on the later one. A refused author
or target is then authorized after all, and the gap stays. The instance of
`sync_session` satisfies both hypotheses. Under them a history that has the
materialized events of another one has no member that the other has removed
(`MembersFollowRemovals`), so what a history refuses, for its author or for its
target, a longer one refuses too (`RefusalsLast`). `GapInv` then says what the lists of a
session are: a publish feeds the peer, each event with its parents before it or
at the peer already (`Feeds`); a pull fills the store, each event after its
parents, or after the removals for which the peer refused them (`Fills`; this is
what `append_workspace_events_in_materialized_order` puts the applicable events
first for). The follow-up counts the inventories of the start as exchanged; that
the peer has of them what is materialized by now rests on the events that only
one device has: they are there with all their ancestors (`Complete`), so what a
longer history materializes of them the plan has published
(`CompleteEventsWereMaterialized`). The assumptions on the constants: `Order`
lists every event once and after its parents, packages and additions carry no
attachments and remove nobody, and a device starts with every event of its own
that the peer has.

Some of these proofs are about recursive definitions: the view of a history, what
a publish handler accepts, the selection from a list. These are recursive
functions over `0..N`, not RECURSIVE operators. `SelectionProofs` shows that such
a recursion has a solution (`RecursionHasASolution`), so that its equation can be
used, and states induction for a set of naturals instead of a predicate
(`NatSetInduction`), from the least element of a non-empty set (`LeastNat`).

Only model-checked:

- the liveness properties and everything that depends on fairness:
  `Terminates`, `EveryClaimIsAnswered`, `ClaimsAreSettled`, `DeclinesAreNoticed`,
  `EventsConverge`, `AttachmentsArrive`, `TransfersSettle`, `MembersJoin`.

Every invariant and action property of a passing run is stated by a theorem.

## Plan

1. Done: workspace state and access index, batch application, invite claims; the
   access-request queues with the desktop's threads; sync sessions with
   attachments and the group checkpoint.
2. Done: theorems for every invariant and action property of these components.
3. Further components, in this order: trust snapshots and the writers that
   append without comparing; the joiner's import with its pending profile;
   content keys that are saved before the event that names them; sync with a
   third peer and the mirror node.

## Not modelled

- Formats, framing, size limits, signatures, encryption and the MLS library:
  events cannot be forged and ids identify their content in all models.
- Chunked attachments and their resume plans: `SyncSession` transfers an
  attachment as a whole.
- Search, export, recovery bundles, local files and secrets, presentation, the
  command line and the website: projections, files and layout.
- The parts of modelled components that their sections above leave out.

`PROJECT.json` gives the status of every component and the reason for each that
is left out.
