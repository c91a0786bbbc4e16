----------------------------- MODULE JoinHandoff -----------------------------
(***************************************************************************)
(* How an access request reaches the device that answers it, and how the   *)
(* answer comes back: the four queues of DeliveryQueue, the desktop's      *)
(* threads and timers that move letters between them (main.cpp), the       *)
(* handlers of network/direct that receive them, and the copy of an answer *)
(* that the answering device keeps for the requester to fetch.             *)
(*                                                                         *)
(* One device, the joiner, asks; another, the owner, answers.  A claim of  *)
(* a reusable invite is answered at once (InviteClaim models how, and that *)
(* the same claim gets the same answer as long as the membership it gave   *)
(* is in force); any other request is recorded and waits for an            *)
(* administrator.  A delivery is lost, or its confirmation is lost, or it  *)
(* is refused.  Each device may crash, which ends its threads and leaves   *)
(* its files.                                                              *)
(***************************************************************************)
EXTENDS DeliveryQueue, FiniteSets

CONSTANTS
    Claims,     \* the requests that claim a reusable invite
    Batch,      \* kMaxJoinRequestOutboxDrainBatch
    Scenarios,  \* the situations to start from, see Scenario
    Nobody

ASSUME HandoffAssumption ==
    Claims \subseteq Request /\ Batch \in Nat \ {0} /\ Nobody \notin Request

Manual == Request \ Claims

Outcome == {"declined", "approved", "changed"}

\* What the workspace records of a request: nothing, that it waits, what an
\* administrator did, or how a claim was decided.
Decision == Outcome \cup {"none", "waiting", "granted", "refused"}

\* How often the user will send each request and whether with the button too,
\* how many crashes and failed writes there will be, what administrators may do
\* (decline or approve a request, change the membership that a claim gave), which
\* requests name an address for the answer, which are sent to an address that
\* leads nowhere, and the outboxes in which an older build left a file that this
\* build refuses.
Scenario ==
    [asks : [Request -> Nat], button : BOOLEAN, faults : Nat, outcomes : SUBSET Outcome,
     routed : SUBSET Request, unreachable : SUBSET Request, stray : SUBSET {"request", "response"}]

ASSUME ScenariosAssumption == \A s \in Scenarios :
    /\ s.asks \in [Request -> Nat] /\ s.button \in BOOLEAN /\ s.faults \in Nat
    /\ s.outcomes \subseteq Outcome
    /\ s.routed \subseteq Request /\ s.unreachable \subseteq Request
    /\ s.stray \subseteq {"request", "response"}

\* The threads that submit outbox entries: the one behind the button, and the
\* two that drain an outbox.
RequestThread == {"submit", "drainRequests"}
Thread == RequestThread \cup {"drainResponses"}

QueueOf(t) == IF t \in RequestThread THEN "request" ELSE "response"

VARIABLES
    row,        \* joiner: status of each row of m_pendingJoinRequests
    shown,      \* joiner: the approval in m_keyTransferJson
    listing,    \* joiner: what a refresh of the response inbox has listed
    acks,       \* joiner: acknowledgement threads that have not run
    decision,   \* owner: what the workspace records of each request
    refresh,    \* owner: the thread that works through the request inbox
    admin,      \* owner: the thread that resolves or approves a request
    outbox,     \* the request outbox (joiner) and the response outbox (owner)
    inbox,      \* the request inbox and the staged answers (owner), the answers (joiner)
    thread,     \* the submitting threads
    routed,     \* requests that name an address for the answer
    unreachable,\* requests whose saved address leads nowhere
    asks,       \* bound: how often the user will still send each request
    button,     \* whether the user also sends with the button
    faults,     \* bound: crashes and failed writes still to come
    outcomes    \* bound: what administrators may do

joiner == <<row, shown, listing, acks>>
owner  == <<decision, refresh, admin>>
queues == <<outbox, inbox>>
bounds == <<asks, button, faults, outcomes>>
routes == <<routed, unreachable>>
vars   == <<joiner, owner, queues, thread, routes, bounds>>

-----------------------------------------------------------------------------
Idle == [pc |-> "idle", todo |-> <<>>, text |-> "ask"]

Resting == [pc |-> "idle", todo |-> <<>>, queued |-> FALSE]

NoAdmin == [pc |-> "idle", req |-> Nobody, text |-> "ask"]

TypeOK ==
    /\ row \in [Request -> {"none", "sent", "unverified", "joined"}]
    /\ shown \in Request \cup {Nobody}
    /\ listing.pc \in {"idle", "listed"} /\ Range(listing.todo) \subseteq Letter
    /\ acks \subseteq Request
    /\ decision \in [Request -> Decision]
    /\ refresh.pc \in {"idle", "next", "stage", "queue", "ack"}
    /\ Range(refresh.todo) \subseteq Letter /\ refresh.queued \in BOOLEAN
    /\ admin \in [pc : {"idle", "queue"}, req : Request \cup {Nobody}, text : Word]
    /\ \A q \in {"request", "response"} : Range(outbox[q]) \subseteq OutboxEntry
    /\ \A b \in {"request", "staged", "response"} : Range(inbox[b]) \subseteq Letter
    /\ \A t \in Thread :
        /\ thread[t].pc \in {"idle", "list", "send", "sent", "arrived", "ack"}
        /\ Range(thread[t].todo) \subseteq Request /\ thread[t].text \in Word
    /\ routed \subseteq Request /\ unreachable \subseteq Request
    /\ asks \in [Request -> Nat] /\ button \in BOOLEAN /\ faults \in Nat
    /\ outcomes \subseteq Outcome

Init ==
    /\ row = [r \in Request |-> "none"]
    /\ shown = Nobody
    /\ listing = [pc |-> "idle", todo |-> <<>>]
    /\ acks = {}
    /\ decision = [r \in Request |-> "none"]
    /\ refresh = Resting
    /\ admin = NoAdmin
    /\ inbox = [b \in {"request", "staged", "response"} |-> <<>>]
    /\ thread = [t \in Thread |-> Idle]
    /\ \E s \in Scenarios :
        /\ outbox = [q \in {"request", "response"} |-> IF q \in s.stray THEN <<StrayFile>> ELSE <<>>]
        /\ routed = s.routed /\ unreachable = s.unreachable
        /\ asks = s.asks /\ button = s.button /\ faults = s.faults /\ outcomes = s.outcomes

-----------------------------------------------------------------------------
(* Sending the entries of an outbox.                                       *)

Started(threads, t) ==
    IF threads[t].pc = "idle" THEN [threads EXCEPT ![t].pc = "list"] ELSE threads

\* queueJoinRequestOutboxDrain: not beside another drain or the button's thread.
RequestDrainStarted(threads) ==
    IF threads["submit"].pc = "idle" THEN Started(threads, "drainRequests") ELSE threads

\* queueJoinResponseOutboxDrain.
ResponseDrainStarted(threads) == Started(threads, "drainResponses")

\* The user sends a request that is not closed, once more or for the first time.
Ask(r) ==
    /\ row[r] \in {"none", "sent", "unverified"}
    /\ asks[r] > 0
    /\ asks' = [asks EXCEPT ![r] = @ - 1]
    /\ row' = [row EXCEPT ![r] = "sent"]
    /\ outbox' = [outbox EXCEPT !["request"] = QueueEntry(@, r, "ask")]

\* The user asks; the request is saved in the outbox, which is drained.
QueueJoinRequest(r) ==
    /\ Ask(r)
    /\ thread' = RequestDrainStarted(thread)
    /\ UNCHANGED <<shown, listing, acks, owner, inbox, routes, button, faults, outcomes>>

\* The user asks with the button; a thread of its own saves and submits the
\* request, beside a drain that is already under way.
SubmitJoinRequest(r) ==
    /\ button /\ thread["submit"].pc = "idle"
    /\ Ask(r)
    /\ thread' = [thread EXCEPT !["submit"] = [pc |-> "send", todo |-> <<r>>, text |-> "ask"]]
    /\ UNCHANGED <<shown, listing, acks, owner, inbox, routes, button, faults, outcomes>>

\* The thread goes on with its list, or is done.
NextEntry(t) ==
    thread' = [thread EXCEPT ![t] =
        IF Len(@.todo) = 1 THEN Idle ELSE [pc |-> "send", todo |-> Tail(@.todo), text |-> "ask"]]

Attempts(due) == SubSeq(due, 1, IF Len(due) < Batch THEN Len(due) ELSE Batch)

Listed(t, due) ==
    thread' = [thread EXCEPT ![t] =
        IF due = <<>> THEN Idle ELSE [pc |-> "send", todo |-> Attempts(due), text |-> "ask"]]

\* A scan of the request outbox sets files aside that do not validate.
ListDueRequests ==
    LET box == Quarantined(outbox["request"])
    IN  /\ thread["drainRequests"].pc = "list"
        /\ Listed("drainRequests", DueEntries(box))
        /\ outbox' = [outbox EXCEPT !["request"] = Sweep(box)]
        /\ UNCHANGED <<joiner, owner, inbox, routes, bounds>>

\* A scan of the response outbox fails if one file does not validate.
ListDueResponses ==
    LET box == outbox["response"]
    IN  /\ thread["drainResponses"].pc = "list"
        /\ IF Holds(box, Stray)
           THEN Listed("drainResponses", <<>>) /\ UNCHANGED outbox
           ELSE /\ Listed("drainResponses", DueEntries(box))
                /\ outbox' = [outbox EXCEPT !["response"] = Sweep(box)]
        /\ UNCHANGED <<joiner, owner, inbox, routes, bounds>>

\* The entry is read again before it is sent; another thread may have removed it.
Send(t) ==
    /\ thread[t].pc = "send"
    /\ LET box == outbox[QueueOf(t)]
           r == Head(thread[t].todo)
       IN  IF Holds(box, r)
           THEN thread' = [thread EXCEPT ![t].pc = "sent", ![t].text = EntryOf(box, r).text]
           ELSE NextEntry(t)
    /\ UNCHANGED <<joiner, owner, queues, routes, bounds>>

\* The letter is saved where it was sent, unless its id is taken by another.
Arrives(t, to) ==
    LET r == Head(thread[t].todo)
    IN  /\ thread[t].pc = "sent"
        /\ r \notin unreachable
        /\ ~Conflicts(inbox[to], r, thread[t].text)
        /\ inbox' = [inbox EXCEPT ![to] = WriteInbox(@, r, thread[t].text)]
        /\ thread' = [thread EXCEPT ![t].pc = "arrived"]
        /\ UNCHANGED <<joiner, owner, outbox, routes, bounds>>

\* The owner's handler of a submitted request.
ReceiveJoinRequest(t) == t \in RequestThread /\ Arrives(t, "request")

\* The joiner's handler of a submitted answer.
ReceiveJoinResponse(t) == t = "drainResponses" /\ Arrives(t, "response")

\* The confirmation arrives; the result is saved if the entry is still there,
\* and the thread then acknowledges it.
MarkDelivered(t) ==
    LET q == QueueOf(t)
        r == Head(thread[t].todo)
    IN  /\ thread[t].pc = "arrived"
        /\ outbox' = [outbox EXCEPT ![q] = MarkEntry(@, r, "Delivered")]
        /\ IF Holds(outbox[q], r) THEN thread' = [thread EXCEPT ![t].pc = "ack"] ELSE NextEntry(t)
        /\ UNCHANGED <<joiner, owner, inbox, routes, bounds>>

\* Mutant: a failed submission is marked like a successful one.
MarkFailedDelivered(t) ==
    /\ thread[t].pc \in {"sent", "arrived"}
    /\ outbox' = [outbox EXCEPT ![QueueOf(t)] = MarkEntry(@, Head(thread[t].todo), "Delivered")]
    /\ NextEntry(t)
    /\ UNCHANGED <<joiner, owner, inbox, routes, bounds>>

\* The letter does not arrive or is refused, or its confirmation is lost.
MarkFailed(t) ==
    /\ thread[t].pc \in {"sent", "arrived"}
    /\ outbox' = [outbox EXCEPT ![QueueOf(t)] = MarkEntry(@, Head(thread[t].todo), "Failed")]
    /\ NextEntry(t)
    /\ UNCHANGED <<joiner, owner, inbox, routes, bounds>>

\* The result cannot be saved: the file cannot be written, a temporary file of
\* the same name was left by a crash, or the error text exceeds its limit.
MarkRefused(t) ==
    /\ thread[t].pc \in {"sent", "arrived"}
    /\ faults > 0 /\ faults' = faults - 1
    /\ NextEntry(t)
    /\ UNCHANGED <<joiner, owner, queues, routes, asks, button, outcomes>>

AckEntry(t) ==
    /\ thread[t].pc = "ack"
    /\ outbox' = [outbox EXCEPT ![QueueOf(t)] = Without(@, Head(thread[t].todo))]
    /\ NextEntry(t)
    /\ UNCHANGED <<joiner, owner, inbox, routes, bounds>>

\* Fifteen seconds pass, and the poll timers of both devices fire.  A scan that
\* a timer started has read its directory by then.
Tick ==
    /\ \A t \in Thread : thread[t].pc # "list"
    /\ outbox' = [q \in {"request", "response"} |-> Aged(outbox[q])]
    /\ thread' = ResponseDrainStarted(RequestDrainStarted(thread))
    /\ UNCHANGED <<joiner, owner, inbox, routes, bounds>>

-----------------------------------------------------------------------------
(* The owner works through the request inbox, newest first.                *)

Current == Head(refresh.todo)

\* The refresh goes on, or ends and has the answers it queued sent.
RefreshGoesOn ==
    IF Len(refresh.todo) = 1
    THEN /\ refresh' = Resting
         /\ thread' = IF refresh.queued THEN ResponseDrainStarted(thread) ELSE thread
    ELSE /\ refresh' = [refresh EXCEPT !.pc = "next", !.todo = Tail(@)]
         /\ UNCHANGED thread

ListJoinRequests ==
    /\ refresh.pc = "idle"
    /\ inbox["request"] # <<>>
    /\ refresh' = [pc |-> "next", todo |-> Newest(inbox["request"]), queued |-> FALSE]
    /\ UNCHANGED <<joiner, decision, admin, queues, thread, routes, bounds>>

\* A claim is granted, or granted again while the membership is the one it gave.
GrantClaim ==
    /\ refresh.pc = "next" /\ Current.req \in Claims
    /\ decision[Current.req] \in {"none", "granted"}
    /\ decision' = [decision EXCEPT ![Current.req] = "granted"]
    /\ refresh' = [refresh EXCEPT !.pc = "stage"]
    /\ UNCHANGED <<joiner, admin, queues, thread, routes, bounds>>

\* A claim is refused for good: the invite is unknown, expired or used up, or the
\* claim was granted before and the membership has changed since.
RefuseClaim ==
    /\ refresh.pc = "next" /\ Current.req \in Claims
    /\ decision[Current.req] \in {"none", "changed", "refused"}
    /\ decision' = [decision EXCEPT ![Current.req] = "refused"]
    /\ refresh' = [refresh EXCEPT !.pc = "ack"]
    /\ UNCHANGED <<joiner, admin, queues, thread, routes, bounds>>

\* The new member gets another role, is invited again or is removed: the claim's
\* membership event is not the current one any more.
ChangeMembership(r) ==
    /\ "changed" \in outcomes
    /\ r \in Claims /\ decision[r] = "granted"
    /\ decision' = [decision EXCEPT ![r] = "changed"]
    /\ UNCHANGED <<joiner, refresh, admin, queues, thread, routes, bounds>>

\* Another request is recorded; it waits again even if it had been declined,
\* unless the device has been invited meanwhile.
RecordJoinRequest ==
    /\ refresh.pc = "next" /\ Current.req \in Manual
    /\ decision' = [decision EXCEPT ![Current.req] = IF @ = "approved" THEN @ ELSE "waiting"]
    /\ refresh' = [refresh EXCEPT !.pc = "ack"]
    /\ UNCHANGED <<joiner, admin, queues, thread, routes, bounds>>

\* Mutant: every error is taken for a final one.
SkipRequestForGood ==
    /\ refresh.pc = "next"
    /\ inbox' = [inbox EXCEPT !["request"] = Without(@, Current.req)]
    /\ RefreshGoesOn
    /\ UNCHANGED <<joiner, decision, admin, outbox, routes, bounds>>

\* Any other error leaves the letter for the next refresh.
SkipRequest ==
    /\ refresh.pc = "next"
    /\ RefreshGoesOn
    /\ UNCHANGED <<joiner, decision, admin, queues, routes, bounds>>

\* Mutant: the answer is only staged if it could not be queued.
StageOnlyUnrouted ==
    LET r == Current.req
    IN  /\ refresh.pc = "stage"
        /\ refresh' = [refresh EXCEPT !.pc = "queue"]
        /\ inbox' = IF r \in routed THEN inbox
                    ELSE [inbox EXCEPT !["staged"] = WriteInbox(@, r, "granted")]
        /\ UNCHANGED <<joiner, decision, admin, outbox, thread, routes, bounds>>

\* The answer is first kept where the requester can fetch it.
StageResponse ==
    LET r == Current.req
    IN  /\ refresh.pc = "stage"
        /\ refresh' = [refresh EXCEPT !.pc = "queue"]
        /\ inbox' = [inbox EXCEPT !["staged"] = WriteInbox(@, r, "granted")]
        /\ UNCHANGED <<joiner, decision, admin, outbox, thread, routes, bounds>>

\* Then it is queued, if the request names an address.
QueueClaimResponse ==
    LET r == Current.req
    IN  /\ refresh.pc = "queue"
        /\ outbox' = IF r \in routed
                     THEN [outbox EXCEPT !["response"] = QueueEntry(@, r, "granted")] ELSE outbox
        /\ refresh' = [refresh EXCEPT !.pc = "ack", !.queued = @ \/ r \in routed]
        /\ UNCHANGED <<joiner, decision, admin, inbox, thread, routes, bounds>>

\* And only then the request leaves the inbox.
AckRequest ==
    /\ refresh.pc = "ack"
    /\ inbox' = [inbox EXCEPT !["request"] = Without(@, Current.req)]
    /\ RefreshGoesOn
    /\ UNCHANGED <<joiner, decision, admin, outbox, routes, bounds>>

-----------------------------------------------------------------------------
(* The administrator answers a request that waits.                         *)

Resolve(r, outcome) ==
    /\ admin.pc = "idle" /\ outcome \in outcomes
    /\ r \in Manual /\ decision[r] = "waiting"
    /\ decision' = [decision EXCEPT ![r] = outcome]
    /\ admin' = IF r \in routed THEN [pc |-> "queue", req |-> r, text |-> outcome] ELSE admin
    /\ UNCHANGED <<joiner, refresh, queues, thread, routes, bounds>>

\* Mutant: a decline is recorded but not sent.
ResolveSilently(r) ==
    /\ admin.pc = "idle" /\ "declined" \in outcomes
    /\ r \in Manual /\ decision[r] = "waiting"
    /\ decision' = [decision EXCEPT ![r] = "declined"]
    /\ UNCHANGED <<joiner, refresh, admin, queues, thread, routes, bounds>>

ResolveJoinRequest(r) == Resolve(r, "declined")

InviteMember(r) == Resolve(r, "approved")

QueueAdminResponse ==
    /\ admin.pc = "queue"
    /\ outbox' = [outbox EXCEPT !["response"] = QueueEntry(@, admin.req, admin.text)]
    /\ admin' = NoAdmin
    /\ thread' = ResponseDrainStarted(thread)
    /\ UNCHANGED <<joiner, decision, refresh, inbox, routes, bounds>>

-----------------------------------------------------------------------------
(* The joiner reads the answers.                                           *)

Awaited == {r \in Request : row[r] \in {"sent", "unverified"}}

\* Only answers to requests that are still open are listed.
ListJoinResponses ==
    /\ listing.pc = "idle"
    /\ \E k \in DOMAIN inbox["response"] : inbox["response"][k].req \in Awaited
    /\ listing' = [pc |-> "listed",
                   todo |-> Newest(Kept(inbox["response"],
                                        {e \in Range(inbox["response"]) : e.req \in Awaited}))]
    /\ UNCHANGED <<row, shown, acks, owner, queues, thread, routes, bounds>>

Notices == {r \in Request : row[r] # "joined" /\ \E e \in Range(listing.todo) :
                                                     e.req = r /\ e.text = "declined"}

Approvals == Kept(listing.todo, {e \in Range(listing.todo) :
    e.text # "declined" /\ row[e.req] # "joined" /\ shown \in {Nobody, e.req}})

\* A notice marks the row and is acknowledged by a thread of its own; the
\* newest approval is shown unless another one is being dealt with.
ApplyJoinResponses ==
    /\ listing.pc = "listed"
    /\ listing' = [pc |-> "idle", todo |-> <<>>]
    /\ row' = [r \in Request |-> IF r \in Notices THEN "unverified" ELSE row[r]]
    /\ acks' = acks \cup Notices
    /\ shown' = IF Approvals # <<>> THEN Head(Approvals).req ELSE shown
    /\ UNCHANGED <<owner, queues, thread, routes, bounds>>

\* The user imports the approval that is shown, which closes the row.
ImportAccess ==
    /\ shown # Nobody /\ row[shown] # "joined"
    /\ row' = [row EXCEPT ![shown] = "joined"]
    /\ acks' = acks \cup {shown}
    /\ UNCHANGED <<shown, listing, owner, queues, thread, routes, bounds>>

\* An acknowledgement removes whatever the inbox holds for the id by then.
AckResponse(r) ==
    /\ r \in acks
    /\ acks' = acks \ {r}
    /\ inbox' = [inbox EXCEPT !["response"] = Without(@, r)]
    /\ shown' = IF shown = r /\ row[r] = "joined" THEN Nobody ELSE shown
    /\ UNCHANGED <<row, listing, owner, outbox, thread, routes, bounds>>

\* The joiner fetches from the owner what is staged for its open requests.
PullJoinResponses(r) ==
    /\ r \in Awaited \ unreachable
    /\ Holds(inbox["staged"], r) /\ ~Holds(inbox["response"], r)
    /\ inbox' = [inbox EXCEPT !["response"] = WriteInbox(@, r, EntryOf(inbox["staged"], r).text)]
    /\ UNCHANGED <<joiner, owner, outbox, thread, routes, bounds>>

-----------------------------------------------------------------------------
\* The threads of the joiner end; rows and files stay.
CrashJoiner ==
    /\ faults > 0 /\ faults' = faults - 1
    /\ thread' = [t \in Thread |-> IF t \in RequestThread THEN Idle ELSE thread[t]]
    /\ listing' = [pc |-> "idle", todo |-> <<>>]
    /\ acks' = {} /\ shown' = Nobody
    /\ UNCHANGED <<row, owner, queues, routes, asks, button, outcomes>>

CrashOwner ==
    /\ faults > 0 /\ faults' = faults - 1
    /\ thread' = [thread EXCEPT !["drainResponses"] = Idle]
    /\ refresh' = Resting /\ admin' = NoAdmin
    /\ UNCHANGED <<joiner, decision, queues, routes, asks, button, outcomes>>

Delivery(t) ==
    \/ t = "drainRequests" /\ ListDueRequests
    \/ t = "drainResponses" /\ ListDueResponses
    \/ Send(t) \/ ReceiveJoinRequest(t) \/ ReceiveJoinResponse(t)
    \/ MarkDelivered(t) \/ MarkFailed(t) \/ MarkRefused(t) \/ AckEntry(t)

Refreshing ==
    ListJoinRequests \/ GrantClaim \/ RefuseClaim \/ RecordJoinRequest \/ SkipRequest
        \/ StageResponse \/ QueueClaimResponse \/ AckRequest

Next ==
    \/ \E r \in Request :
        \/ QueueJoinRequest(r) \/ SubmitJoinRequest(r)
        \/ ResolveJoinRequest(r) \/ InviteMember(r) \/ ChangeMembership(r)
        \/ AckResponse(r) \/ PullJoinResponses(r)
    \/ \E t \in Thread : Delivery(t)
    \/ Tick \/ Refreshing \/ QueueAdminResponse
    \/ ListJoinResponses \/ ApplyJoinResponses \/ ImportAccess
    \/ CrashJoiner \/ CrashOwner

\* Threads run on, timers fire and time passes; deliveries do not fail for
\* ever, nor do claims of one request meet transient errors for ever; the
\* joiner's timer fetches what is staged, and the user imports what is shown.
Fairness ==
    /\ \A t \in Thread : WF_vars(Delivery(t))
    /\ SF_vars(\E t \in RequestThread : ReceiveJoinRequest(t))
    /\ SF_vars(ReceiveJoinResponse("drainResponses"))
    /\ WF_vars(Tick)
    /\ WF_vars(Refreshing) /\ SF_vars(GrantClaim \/ RefuseClaim)
    /\ WF_vars(QueueAdminResponse)
    /\ WF_vars(ListJoinResponses \/ ApplyJoinResponses)
    /\ WF_vars(ImportAccess)
    /\ \A r \in Claims : WF_vars(PullJoinResponses(r))

Spec == Init /\ [][Next]_vars /\ Fairness

-----------------------------------------------------------------------------
(* Properties.                                                             *)

\* A claim that the joiner waits for is never lost: at any time it is in the
\* joiner's outbox and still to be sent, in the owner's inbox and still to be
\* answered, or answered where the joiner can fetch it.  This relates the
\* order of the steps of four queues, across crashes of both devices (the
\* owner acknowledges a request last, a sender after the confirmation).
ClaimsAreNeverLost ==
    \A r \in Claims : row[r] = "sent" =>
        \/ Holds(outbox["request"], r) /\ ~IsTerminal(EntryOf(outbox["request"], r))
        \/ Holds(inbox["request"], r)
        \/ Holds(inbox["staged"], r)
        \/ decision[r] = "refused"

\* A claim that was granted has spent a use of the invite, so its answer
\* stays within reach: the request is still in the inbox, and is granted
\* again, or the answer is staged (main.cpp: "The inbox copy keeps the
\* response recoverable by its exact request ID").  That ends only when the
\* claim is handled again after the membership has changed, and refused.
GrantsStayReachable ==
    \A r \in Claims : decision[r] \in {"granted", "changed"} =>
        Holds(inbox["request"], r) \/ Holds(inbox["staged"], r)

\* What the request outbox calls delivered, the owner has seen: it is still in
\* its inbox, or has been decided upon.
DeliveredMeansReceived ==
    \A r \in Request :
        Holds(outbox["request"], r) /\ IsTerminal(EntryOf(outbox["request"], r)) =>
            Holds(inbox["request"], r) \/ decision[r] # "none"

\* Every claim that is sent is in the end imported or refused for good,
\* although deliveries and confirmations are lost, the addresses of other
\* requests lead nowhere and their entries come first, a drain attempts a few
\* entries only, and the response outbox may be unreadable.
ClaimsAreSettled ==
    \A r \in Claims : row[r] = "sent" ~> (row[r] = "joined" \/ decision[r] = "refused")

\* request-access-transport-hardening.md: "Decline or close generated from a
\* request with a response route is queued, delivered directly, received by the
\* requester, and reflected in the pending request card", unless the request
\* came in again and waits anew.
DeclinesAreNoticed ==
    \A r \in Manual : decision[r] = "declined" /\ r \in routed
        ~> (row[r] = "unverified" \/ decision[r] # "declined")

\* request-access-transport-hardening.md: "Approval invite generated from a
\* request with a response route is queued, delivered directly, received by
\* the requester": an approval that is not imported yet is queued and still to
\* be sent, or in the joiner's inbox.
ApprovalIsDelivered ==
    \A r \in Manual \cap routed : decision[r] = "approved" /\ row[r] # "joined" =>
        \/ admin.req = r
        \/ Holds(outbox["response"], r) /\ ~IsTerminal(EntryOf(outbox["response"], r))
        \/ Holds(inbox["response"], r) /\ EntryOf(inbox["response"], r).text = "approved"

=============================================================================
