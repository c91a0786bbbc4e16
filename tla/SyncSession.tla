---------------------------- MODULE SyncSession ----------------------------
(***************************************************************************)
(* A workspace sync between two devices (runtime/sync_runtime.rs,          *)
(* network/sync, and the publish handler of network/direct).  Each device  *)
(* keeps an event store and a store of encrypted attachments, and both may *)
(* run a session with the other at the same time, as the desktop's timer   *)
(* does: fetch the peer's inventory, compare it with the own one, publish  *)
(* what the peer lacks and upload its attachments, fetch and store what    *)
(* the device lacks, catch up with the OpenMLS group, fetch attachments,   *)
(* publish what the catching up made, and retry open transfers.            *)
(*                                                                         *)
(* While a session waits for its peer, local writers and the other         *)
(* device's session change the stores it has already read.  A session may  *)
(* fail or crash between any two steps; what it stored stays.              *)
(*                                                                         *)
(* The events are messages, replies, key packages, additions to the group  *)
(* (a member may sign these) and removals (of a member, by a member).      *)
(* Joins, roles, channels and what else authorization asks for are those   *)
(* of WorkspaceState and are not told apart here.                          *)
(***************************************************************************)
EXTENDS Naturals, FiniteSets, Sequences, SequencesExt, Selection

CONSTANTS
    Device,         \* the two devices
    Creator,        \* the member that created the workspace and its group
    Others,         \* members without a device in the model; all members are owners
    Event,          \* the events of the workspace
    Author,         \* who signed each event
    Parents,        \* the parents of each event
    Removes,        \* the member an event removes, usually none
    Attached,       \* the attachments an event refers to
    CatchUp,        \* the events that catching up makes: packages and additions
    Welcomes,       \* the additions that let a device join the group
    Order,          \* the order of materialization, parents first
    PublishLimit,   \* MAX_PUBLISH_EVENTS_PER_REQUEST
    RecentSessions, \* the session after a scan that finds it a minute old
    Scenarios       \* the situations to start from, see Scenario

Blob == UNION {Attached[e] : e \in Event}

ASSUME DevicesAssumption ==
    /\ \E p, q \in Device : p # q /\ Device = {p, q}
    /\ Creator \in Device \cup Others /\ PublishLimit \in Nat \ {0}
    /\ RecentSessions \in Nat \ {0}
    /\ Author \in [Event -> Device \cup Others]

ASSUME EventsAssumption ==
    /\ Parents \in [Event -> SUBSET Event]
    /\ Removes \in [Event -> SUBSET ((Device \cup Others) \ {Creator})]
    /\ \A e \in Event : \A m, n \in Removes[e] : m = n
    /\ CatchUp \subseteq Event
    /\ \A e \in CatchUp : Attached[e] = {} /\ Removes[e] = {}
    /\ Welcomes \in [Device -> SUBSET Event]

\* Every event has its place in the order, after its parents.
ASSUME OrderAssumption ==
    /\ Order \in Seq(Event) /\ Range(Order) = Event
    /\ \A i, j \in 1..Len(Order) : /\ Order[i] = Order[j] => i = j
                                   /\ Order[i] \in Parents[Order[j]] => i < j

\* What each device has stored (an event that the peer has of it, it has too),
\* what its users will still write, whether the members have to be brought into
\* the group (if not, catching up changes nothing and is left out), which devices
\* sync by themselves, and how many failures and crashes there will be.
Scenario ==
    [stored : [Device -> SUBSET Event], writes : SUBSET Event, group : BOOLEAN,
     initiators : SUBSET Device, faults : Nat]

ASSUME ScenariosAssumption == \A s \in Scenarios :
    /\ s \in Scenario
    /\ \A d, p \in Device : \A e \in s.stored[p] : Author[e] = d => e \in s.stored[d]

VARIABLES
    store,      \* the event store of each device
    blobs,      \* the complete attachments of each device
    session,    \* the sync that each device runs
    inbound,    \* inbound-blob-repair-ledger.json, the workspace's entry
    outbound,   \* outbound-blob-repair-ledger.json, the peer's entry
    open,       \* blob transfer ledger: attempts that have not succeeded
    secret,     \* OpenMLS state: events the device has made or applied
    checkpoint, \* openmls-reconcile-checkpoint.json
    situation   \* the scenario; its faults count down

stores  == <<store, blobs>>
ledgers == <<inbound, outbound, open>>
openmls == <<secret, checkpoint>>
vars    == <<stores, session, ledgers, openmls, situation>>

Peer(d) == CHOOSE p \in Device : p # d

-----------------------------------------------------------------------------
(* What a set of stored events amounts to.                                 *)

\* authorize: the author is a member, and so is the device that it removes.
Allowed(members, e) == Author[e] \in members /\ Removes[e] \subseteq members

Apply(view, e) ==
    IF Parents[e] \subseteq view.applied /\ Allowed(view.members, e)
    THEN [applied |-> view.applied \cup {e}, members |-> view.members \ Removes[e]]
    ELSE view

Nothing == [applied |-> {}, members |-> Device \cup Others]

InOrder(S) == Kept(Order, S)

\* The materialized workspace: parents first, an event that is not authorized at
\* its place, or one that misses a parent, is left out.
View == [S \in SUBSET Event |->
    LET upto[n \in 0..Len(Order)] ==
            IF n = 0 THEN Nothing
            ELSE IF Order[n] \in S THEN Apply(upto[n - 1], Order[n])
            ELSE upto[n - 1]
    IN  upto[Len(Order)]]

Materialized(S) == View[S].applied

Members(S) == View[S].members

\* Whether a device with this history authorizes an event.
Admits(S, e) == Allowed(Members(S), e)

AttachmentBlobHashes(S) == UNION {Attached[e] : e \in S}

NoSession ==
    [phase |-> "idle", remote |-> {}, local |-> {}, todo |-> <<>>, blobs |-> {},
     missing |-> {}, fetched |-> FALSE, full |-> FALSE, made |-> {},
     followup |-> FALSE, snapshot |-> <<>>]

Phase == {"idle", "plan", "publish", "upload", "put", "record", "pull", "append",
          "finish", "catchup", "checkpoint", "blobs", "fetch", "followup", "retry"}

TypeOK ==
    /\ store \in [Device -> SUBSET Event]
    /\ blobs \in [Device -> SUBSET Blob]
    /\ \A d \in Device : LET s == session[d] IN
        /\ s.phase \in Phase /\ s.remote \subseteq Event /\ s.local \subseteq Event
        /\ Range(s.todo) \subseteq Event /\ s.blobs \subseteq Blob /\ s.missing \subseteq Blob
        /\ {s.fetched, s.full, s.followup} \subseteq BOOLEAN
        /\ s.made \subseteq CatchUp
        /\ s.phase = "idle" => s = NoSession
    /\ inbound \in [Device -> [recent : 0..RecentSessions, pending : SUBSET Blob]]
    /\ outbound \in [Device -> [recent : 0..RecentSessions, inventory : SUBSET Event]]
    /\ open \in [Device -> SUBSET Blob]
    /\ secret \in [Device -> SUBSET Event]
    /\ \A d \in Device : checkpoint[d] = <<>> \/ checkpoint[d] \in (SUBSET Event) \X (SUBSET Event)
    /\ situation.faults \in Nat

Init ==
    /\ situation \in Scenarios
    /\ store = situation.stored
    /\ blobs = [d \in Device |->
                    AttachmentBlobHashes({e \in store[d] : Author[e] = d})]
    /\ session = [d \in Device |-> NoSession]
    /\ inbound = [d \in Device |-> [recent |-> 0, pending |-> {}]]
    /\ outbound = [d \in Device |-> [recent |-> 0, inventory |-> {}]]
    /\ open = [d \in Device |-> {}]
    /\ secret = [d \in Device |-> {}]
    /\ checkpoint = [d \in Device |-> <<>>]

-----------------------------------------------------------------------------
(* Comparing the inventories and publishing.                               *)

At(d, phase) == session[d].phase = phase

\* Mutant: the age is subtracted without a floor.
AgedBelowZero(entry) == [entry EXCEPT !.recent = @ - 1]

\* A recorded scan gets older.
Aged(entry) == [entry EXCEPT !.recent = IF @ = 0 THEN 0 ELSE @ - 1]

\* syncWorkspaceIfIdle: one workspace operation at a time on a device.  Time
\* passes between two sessions.
FetchWorkspaceInventory(d) ==
    /\ At(d, "idle")
    /\ d \in situation.initiators
    /\ session' = [session EXCEPT ![d] =
                      [NoSession EXCEPT !.phase = "plan", !.remote = store[Peer(d)]]]
    /\ inbound' = [inbound EXCEPT ![d] = Aged(@)]
    /\ outbound' = [outbound EXCEPT ![d] = Aged(@)]
    /\ UNCHANGED <<stores, open, openmls, situation>>

\* Mutant: the recorded inventory is not compared.
OutboundRepairDueByAge(d, inventory) == outbound[d].recent = 0

\* outbound_blob_full_repair_due, for the inventory of the plan.
OutboundRepairDue(d, inventory) ==
    outbound[d].recent = 0 \/ outbound[d].inventory # inventory

AfterEvents(scan) == IF scan = {} THEN "record" ELSE "upload"

\* The events that the peer lacks go out in materialized order, those that are
\* gaps here stay; then the attachments of every materialized event.
Publishing(d, publish, followup) ==
    LET todo == InOrder(publish \cap Materialized(store[d]))
        scan == AttachmentBlobHashes(Materialized(store[d]))
    IN
    [session[d] EXCEPT
        !.phase = IF todo # <<>> THEN "publish" ELSE AfterEvents(scan),
        !.local = store[d],
        !.todo = todo,
        !.blobs = scan,
        !.followup = followup]

PlanWorkspaceSync(d) ==
    LET publish == store[d] \ session[d].remote IN
    /\ At(d, "plan")
    /\ session' = [session EXCEPT ![d] =
          IF publish # {} \/ OutboundRepairDue(d, store[d])
          THEN Publishing(d, publish, FALSE)
          ELSE [@ EXCEPT !.phase = "pull", !.local = store[d]]]
    /\ UNCHANGED <<stores, ledgers, openmls, situation>>

\* Each event is judged by the history as it stands, whatever its parents.
Accept(S, e) == IF e \in S \/ Admits(S, e) THEN S \cup {e} ELSE S

\* The events of a request, one after the other.
Pass(S, request) ==
    LET upto[n \in 0..Len(request)] ==
            IF n = 0 THEN S ELSE Accept(upto[n - 1], request[n])
    IN  upto[Len(request)]

\* authorize_pending_events: passes over the request until one accepts nothing,
\* which is after as many as it has events at the latest.  What is accepted is
\* stored although the request fails.
Accepted(S, request) ==
    LET after[n \in 0..Len(request)] ==
            IF n = 0 THEN S ELSE Pass(after[n - 1], request)
    IN  after[Len(request)]

\* One publish request; the first one that is not accepted as a whole ends the
\* session, before anything has been fetched.
PublishEvents(d) ==
    LET todo == session[d].todo
        size == IF Len(todo) < PublishLimit THEN Len(todo) ELSE PublishLimit
        request == SubSeq(todo, 1, size)
        after == Accepted(store[Peer(d)], request)
        rest == SubSeq(todo, size + 1, Len(todo))
    IN
    /\ At(d, "publish")
    /\ store' = [store EXCEPT ![Peer(d)] = after]
    /\ session' = [session EXCEPT ![d] =
          IF ~(Range(request) \subseteq after) THEN NoSession
          ELSE [@ EXCEPT !.todo = rest, !.phase = IF rest = <<>> THEN AfterEvents(session[d].blobs) ELSE "publish"]]
    /\ UNCHANGED <<blobs, ledgers, openmls, situation>>

-----------------------------------------------------------------------------
(* Uploading attachments, and the record that they have been uploaded.     *)

\* Mutant: attempts stay open although the peer has the attachment.
SettledNever(d, done) == open[d]

\* The attempts for attachments that the peer turns out to have are closed.
Settled(d, done) == open[d] \ done

\* publish_materialized_event_blobs_direct up to the upload: ask what the peer
\* has, and open an attempt for the rest, as far as this device has it.
StartUploads(d) ==
    LET there == session[d].blobs \cap blobs[Peer(d)]
        upload == (session[d].blobs \ there) \cap blobs[d]
    IN
    /\ At(d, "upload")
    /\ open' = [open EXCEPT ![d] = Settled(d, there) \cup upload]
    /\ session' = [session EXCEPT ![d].phase = IF upload = {} THEN "record" ELSE "put",
                                 ![d].blobs = upload]
    /\ UNCHANGED <<stores, inbound, outbound, openmls, situation>>

PutBlobs(d) ==
    /\ At(d, "put")
    /\ blobs' = [blobs EXCEPT ![Peer(d)] = @ \cup session[d].blobs]
    /\ session' = [session EXCEPT ![d].phase = "record"]
    /\ UNCHANGED <<store, ledgers, openmls, situation>>

\* A ledger that cannot be written is left as it is, and nobody is told.
Written(old, new) ==
    \/ new /\ UNCHANGED situation
    \/ old /\ situation.faults > 0 /\ situation' = [situation EXCEPT !.faults = @ - 1]

\* The uploads are confirmed, and the scan is recorded for the inventory that
\* the plan was made from.
RecordOutboundRepair(d) ==
    /\ At(d, "record")
    /\ open' = [open EXCEPT ![d] = @ \ session[d].blobs]
    /\ Written(UNCHANGED outbound,
               outbound' = [outbound EXCEPT ![d] =
                  [recent |-> RecentSessions, inventory |-> session[d].local]])
    /\ session' = [session EXCEPT ![d].phase = IF session[d].followup THEN "retry" ELSE "pull",
                                 ![d].blobs = {},
                                 ![d].local = IF session[d].followup THEN {} ELSE @,
                                 ![d].remote = IF session[d].followup THEN {} ELSE @]
    /\ UNCHANGED <<stores, inbound, openmls>>

-----------------------------------------------------------------------------
(* Fetching and storing events.                                            *)

\* Mutant: fetched events are stored as the peer lists them, newest first.
NewestFirst(S, fetched) == Reverse(InOrder(fetched))

\* append_workspace_events_in_materialized_order: what can be applied first.
AppendOrder(S, fetched) ==
    LET applied == fetched \cap Materialized(S \cup fetched) IN
    InOrder(applied) \o InOrder(fetched \ applied)

AfterEventsFetched == IF situation.group THEN "finish" ELSE "blobs"

\* Mutant: a pull leaves out what this device would not authorize.
FetchAuthorizedEvents(d) ==
    LET listed == (session[d].remote \ session[d].local) \cap store[Peer(d)]
        fetched == {e \in listed : Admits(store[d], e)}
    IN
    /\ At(d, "pull")
    /\ session' = [session EXCEPT
          ![d].phase = IF fetched = {} THEN AfterEventsFetched ELSE "append",
          ![d].todo = AppendOrder(store[d], fetched),
          ![d].fetched = fetched # {}]
    /\ UNCHANGED <<stores, ledgers, openmls, situation>>

\* pull_workspace_from_peer_with_plan up to the first event stored: the plan of
\* the session's start says what to ask for.
FetchEvents(d) ==
    LET fetched == (session[d].remote \ session[d].local) \cap store[Peer(d)] IN
    /\ At(d, "pull")
    /\ session' = [session EXCEPT
          ![d].phase = IF fetched = {} THEN AfterEventsFetched ELSE "append",
          ![d].todo = AppendOrder(store[d], fetched),
          ![d].fetched = fetched # {}]
    /\ UNCHANGED <<stores, ledgers, openmls, situation>>

AppendEvent(d) ==
    /\ At(d, "append")
    /\ store' = [store EXCEPT ![d] = @ \cup {Head(session[d].todo)}]
    /\ session' = [session EXCEPT
          ![d].phase = IF Len(session[d].todo) = 1 THEN AfterEventsFetched ELSE "append",
          ![d].todo = Tail(@)]
    /\ UNCHANGED <<blobs, ledgers, openmls, situation>>

-----------------------------------------------------------------------------
(* Catching up with the OpenMLS group after a pull.                        *)

Snapshot(d) == <<store[d], secret[d]>>

\* The packages and additions that this device has to make: a member offers a
\* key package, the creator adds each member that has offered one.
CatchUpDue(d) ==
    IF d \in Members(store[d])
    THEN {e \in CatchUp \ store[d] : Author[e] = d /\ Parents[e] \subseteq Materialized(store[d])}
    ELSE {}

\* The additions of this device that it has not joined with.
JoinDue(d) == (Welcomes[d] \cap Materialized(store[d])) \ secret[d]

\* Mutant: a pull that fetched nothing skips the catching up.
SnapshotAfterFetch(d) ==
    LET skip == ~session[d].fetched \/ checkpoint[d] = Snapshot(d) IN
    /\ At(d, "finish")
    /\ session' = [session EXCEPT
          ![d].phase = IF skip THEN "blobs" ELSE "catchup",
          ![d].snapshot = IF skip THEN <<>> ELSE Snapshot(d)]
    /\ UNCHANGED <<stores, ledgers, openmls, situation>>

\* reconcile_openmls_access: nothing to do when the checkpoint matches.
SnapshotOpenMls(d) ==
    /\ At(d, "finish")
    /\ session' = [session EXCEPT
          ![d].phase = IF checkpoint[d] = Snapshot(d) THEN "blobs" ELSE "catchup",
          ![d].snapshot = IF checkpoint[d] = Snapshot(d) THEN <<>> ELSE Snapshot(d)]
    /\ UNCHANGED <<stores, ledgers, openmls, situation>>

\* reconcile_openmls_access_uncached, from the store as it is by now.
CatchUpOpenMls(d) ==
    /\ At(d, "catchup")
    /\ store' = [store EXCEPT ![d] = @ \cup CatchUpDue(d)]
    /\ secret' = [secret EXCEPT ![d] = @ \cup CatchUpDue(d) \cup JoinDue(d)]
    /\ session' = [session EXCEPT ![d].phase = "checkpoint", ![d].made = CatchUpDue(d)]
    /\ UNCHANGED <<blobs, ledgers, checkpoint, situation>>

\* Mutant: the store is not compared with what the pass started from.
CheckpointableUnseen(d) ==
    /\ session[d].snapshot[2] = secret[d]
    /\ d = Creator => CatchUpDue(d) = {}

\* A pass is remembered only if it changed no secret, nobody else stored an
\* event meanwhile, and the creator has nobody left to add.
Checkpointable(d) ==
    /\ session[d].snapshot[2] = secret[d]
    /\ store[d] = session[d].snapshot[1] \cup session[d].made
    /\ d = Creator => CatchUpDue(d) = {}

RecordOpenMlsCheckpoint(d) ==
    /\ At(d, "checkpoint")
    /\ checkpoint' = [checkpoint EXCEPT ![d] = IF Checkpointable(d) THEN Snapshot(d) ELSE @]
    /\ session' = [session EXCEPT ![d].phase = "blobs", ![d].snapshot = <<>>]
    /\ UNCHANGED <<stores, ledgers, secret, situation>>

-----------------------------------------------------------------------------
(* Fetching attachments.                                                   *)

\* What follows the pull: publish what it made, or retry open transfers.
AfterPull(d) == IF session[d].made = {} THEN "retry" ELSE "followup"

\* Mutant: attachments are scanned only after new events.
InboundScanAfterFetch(d) == session[d].fetched

\* Everything is scanned after new events, without a record, and once the
\* recorded scan is a minute old.
InboundScanDue(d) == session[d].fetched \/ inbound[d].recent = 0

\* reconcile_missing_workspace_blobs, or the pending attachments alone.
ScanMissingBlobs(d) ==
    LET full == InboundScanDue(d)
        wanted == IF full THEN AttachmentBlobHashes(Materialized(store[d]))
                  ELSE inbound[d].pending
    IN
    /\ At(d, "blobs")
    /\ session' = [session EXCEPT
          ![d].phase = IF ~full /\ wanted = {} THEN AfterPull(d) ELSE "fetch",
          ![d].blobs = wanted \ blobs[d],
          ![d].full = full,
          ![d].fetched = FALSE,
          ![d].remote = IF session[d].made = {} THEN {} ELSE @,
          ![d].local = IF session[d].made = {} THEN {} ELSE @]
    /\ UNCHANGED <<stores, ledgers, openmls, situation>>

FetchBlob(d) ==
    /\ At(d, "fetch")
    /\ session[d].blobs # {}
    /\ LET h == CHOOSE h \in session[d].blobs : TRUE
           found == {h} \cap blobs[Peer(d)]
       IN  /\ blobs' = [blobs EXCEPT ![d] = @ \cup found]
           /\ session' = [session EXCEPT ![d].blobs = @ \ {h},
                                        ![d].missing = @ \cup ({h} \ found)]
    /\ UNCHANGED <<store, ledgers, openmls, situation>>

\* update_inbound_blob_repair_workspace.
RecordInboundRepair(d) ==
    /\ At(d, "fetch")
    /\ session[d].blobs = {}
    /\ Written(UNCHANGED inbound,
               inbound' = [inbound EXCEPT ![d] =
                  [recent |-> IF session[d].full THEN RecentSessions ELSE @.recent,
                   pending |-> session[d].missing]])
    /\ session' = [session EXCEPT ![d].phase = AfterPull(d), ![d].missing = {}, ![d].full = FALSE]
    /\ UNCHANGED <<stores, outbound, open, openmls>>

-----------------------------------------------------------------------------
(* The end of a session.                                                   *)

\* Mutant: the follow-up is planned against the store as it is now.
KnownToPeerNow(d) == session[d].remote \cup store[d]

\* followup_sync_plan: the inventories of the start count as exchanged.
KnownToPeer(d) == session[d].remote \cup session[d].local

PublishFollowUp(d) ==
    /\ At(d, "followup")
    /\ session' = [session EXCEPT ![d] = Publishing(d, store[d] \ KnownToPeer(d), TRUE)]
    /\ UNCHANGED <<stores, ledgers, openmls, situation>>

\* retry_pending_blob_transfers_direct: open attempts for attachments that are
\* still referred to and at hand; an attempt that fails again stays open.
RetryTransfers(d) ==
    LET again == open[d] \cap blobs[d] \cap AttachmentBlobHashes(Materialized(store[d])) IN
    /\ At(d, "retry")
    /\ Written(UNCHANGED <<open, blobs>>,
               /\ open' = [open EXCEPT ![d] = Settled(d, again)]
               /\ blobs' = [blobs EXCEPT ![Peer(d)] = @ \cup again])
    /\ session' = [session EXCEPT ![d] = NoSession]
    /\ UNCHANGED <<store, inbound, outbound, openmls>>

\* A request or its answer is lost, a store refuses a write, the device crashes.
Fail(d) ==
    /\ ~At(d, "idle")
    /\ situation.faults > 0
    /\ situation' = [situation EXCEPT !.faults = @ - 1]
    /\ session' = [session EXCEPT ![d] = NoSession]
    /\ UNCHANGED <<stores, ledgers, openmls>>

-----------------------------------------------------------------------------
(* Beside the sessions.                                                    *)

\* A user writes: the attachments are stored, then the event, which the own
\* workspace has to authorize.
WriteEvent(d, e) ==
    /\ e \in situation.writes \ store[d]
    /\ Author[e] = d /\ Admits(store[d], e)
    /\ Parents[e] \subseteq Materialized(store[d])
    /\ store' = [store EXCEPT ![d] = @ \cup {e}]
    /\ blobs' = [blobs EXCEPT ![d] = @ \cup Attached[e]]
    /\ UNCHANGED <<session, ledgers, openmls, situation>>

\* sync_workspace_direct, one step of it.
SyncStep(d) ==
    \/ PlanWorkspaceSync(d) \/ PublishEvents(d)
    \/ StartUploads(d) \/ PutBlobs(d) \/ RecordOutboundRepair(d)
    \/ FetchEvents(d) \/ AppendEvent(d)
    \/ SnapshotOpenMls(d) \/ CatchUpOpenMls(d) \/ RecordOpenMlsCheckpoint(d)
    \/ ScanMissingBlobs(d) \/ FetchBlob(d) \/ RecordInboundRepair(d)
    \/ PublishFollowUp(d) \/ RetryTransfers(d)

Next ==
    \E d \in Device :
        \/ FetchWorkspaceInventory(d) \/ SyncStep(d) \/ Fail(d)
        \/ \E e \in Event : WriteEvent(d, e)

\* The desktop's timer starts a sync every three seconds, and its thread runs;
\* users need not write.
Fairness ==
    \A d \in Device :
        /\ WF_vars(FetchWorkspaceInventory(d))
        /\ WF_vars(SyncStep(d))

Spec == Init /\ [][Next]_vars /\ Fairness

-----------------------------------------------------------------------------
(* Safety.                                                                 *)

\* A device never keeps an event without its parents because a pull or a
\* publish stopped half-way (append_workspace_events_in_materialized_order
\* stores one event at a time, publish requests go out one by one): if a parent
\* is missing, the device would refuse it, since its author or the device that
\* it removes is not a member.
GapsAreRefusals ==
    \A d \in Device : \A e \in store[d] : \A p \in Parents[e] \ store[d] :
        ~Admits(store[d], p)

\* record_outbound_blob_full_repair lets later sessions skip the scan while the
\* inventory stays the same.  When they skip it, the peer has every attachment
\* of this device's own events, whatever was lost or written meanwhile.
SkippedScansMissNothing ==
    \A d \in Device : ~OutboundRepairDue(d, store[d]) =>
        AttachmentBlobHashes({e \in Materialized(store[d]) : Author[e] = d}) \subseteq blobs[Peer(d)]

\* A checkpoint that matches suppresses the catching up.  Then there is nothing
\* to catch up with: no event that the peer stored here while the pass ran is
\* covered by it (openmls_reconcile_end_inventory_is_expected).
CheckpointsCoverTheirWork ==
    \A d \in Device : checkpoint[d] = Snapshot(d) => CatchUpDue(d) = {} /\ JoinDue(d) = {}

\* When a session ends without an error, the peer has what catching up made in
\* it, although the follow-up is planned from inventories that are stale by then
\* and other writers have stored events meanwhile (followup_sync_plan).
FollowUpsDeliver ==
    [][\A d \in Device : RetryTransfers(d) => session[d].made \subseteq store[Peer(d)]]_vars

-----------------------------------------------------------------------------
(* Liveness.                                                               *)

Merged == \A d \in Device : store[d] = store[Peer(d)]

\* Every device that syncs by itself has an event to publish that its peer
\* refuses, so that each of its sessions ends before it has fetched anything.
Standoff ==
    \A d \in situation.initiators :
        \E e \in Materialized(store[d]) \ store[Peer(d)] : ~Admits(store[Peer(d)], e)

\* Both devices end up with every event that either has, through lost requests,
\* crashes, and publishes that the peer refuses because it has removed the
\* author: such a session ends before it has fetched anything, and the peer's
\* own sessions have to make up for it.  The one exception is a standoff, as
\* after two devices have removed the same member before they met.
EventsConverge == <>[]Merged \/ <>[]Standoff

\* Every attachment of a materialized event arrives for good, although a session
\* that fails after it stored the event records nothing about the attachment.
AttachmentsArrive ==
    <>[](\A d \in Device : AttachmentBlobHashes(Materialized(store[d])) \subseteq blobs[d])

\* An upload whose confirmation is lost does not stay open: a later session
\* finds the attachment at the peer, or sends it again, unless the workspace no
\* longer refers to it.
TransfersSettle ==
    <>[](\A d \in Device : open[d] \cap AttachmentBlobHashes(Materialized(store[d])) = {})

\* Members join the group: a package reaches the creator, the creator's addition
\* reaches the member, and no checkpoint keeps either from acting.
MembersJoin == <>(situation.group => \A d \in Device : Welcomes[d] \subseteq secret[d])

\* "Two offline devices can advance independently; later sync merges the signed
\* causal history" (networking-and-replication.md): the two devices hold the same
\* history at some time, whatever they did before they met.
OfflineWorkMerges == <>Merged

=============================================================================
