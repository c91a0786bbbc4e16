----------------------------- MODULE InviteClaim -----------------------------
(***************************************************************************)
(* claim_workspace_invite of runtime/workspace_invites.rs: the device that *)
(* created a reusable invite answers signed claims of it.  A claim is      *)
(* checked against a materialized copy of the history, and the three       *)
(* events that admit the claimant are appended in one transaction that     *)
(* fails if the history is no longer the one that was checked.  Claims are *)
(* handled by workers in several processes that share the data directory;  *)
(* one mutex per process serializes the workers of that process only.      *)
(* Meanwhile other writers append events without any such check, a         *)
(* process may crash anywhere, upon which the claimant sends the same      *)
(* claim again.  A lost answer is a crash just before the reply.           *)
(*                                                                         *)
(* The history keeps the events that the decision depends on, for one      *)
(* invite.  The three events of an admission (join request, membership,    *)
(* claim) are one entry, since only one transaction ever writes them.      *)
(***************************************************************************)
EXTENDS Naturals, Sequences, FiniteSets

CONSTANTS
    Device,
    Request,
    Claim,      \* the claims in play: [device, request] records
    Sealable,   \* those whose response key is usable
    Worker,
    Process,
    ProcessOf,  \* the process of each worker
    MaxUses,    \* max_claims of the invite
    RetryLimit, \* INVITE_CLAIM_HISTORY_RETRY_LIMIT
    MaxOthers,  \* bound: entries appended by other writers
    MaxCrashes, \* bound: crashes and failed writes
    Interference, \* the entries that other writers append here
    None

ASSUME ClaimsAreClaims == Claim \subseteq [device : Device, request : Request]

ASSUME WorkersHaveProcesses == ProcessOf \in [Worker -> Process]

ASSUME LimitsAreNaturals == MaxUses \in Nat /\ RetryLimit \in Nat \ {0}

VARIABLES
    history,    \* the stored events of the workspace, in order
    receipts,   \* claims whose response is stored on disk
    expired,    \* the clock has passed expires_at
    answer,     \* what each claimant has been told
    pc, job,    \* per worker: where it is and the claim it handles
    expected,   \* per worker: the event ids read first, while they matter
    context,    \* per worker: the history that was materialized, likewise
    tries,      \* per worker: rounds of the retry loop
    lock,       \* INVITE_CLAIM_MUTATION_LOCK of each process
    others, crashes

disk    == <<history, receipts>>
worker  == <<pc, job, expected, context, tries>>
bounds  == <<others, crashes>>
vars    == <<disk, expired, answer, worker, lock, bounds>>

-----------------------------------------------------------------------------
(* Histories.                                                              *)

Entry == [kind : {"admitted", "joined", "removed", "requested", "revoked", "dismissed", "other"},
          device : Device \cup {None}, request : Request \cup {None}]

Admission(c) == [kind |-> "admitted", device |-> c.device, request |-> c.request]

\* Entries of other writers: the device is invited directly or gets another role
\* (either gives it a new membership event) or is removed, a join request is
\* recorded by hand, the invite is revoked, the inviting device loses
\* the role that invites, or something unrelated happens.
OtherEntries ==
    [kind : {"joined", "removed"}, device : Device, request : {None}]
    \cup [kind : {"requested"}, device : {None}, request : Request]
    \cup [kind : {"revoked", "dismissed", "other"}, device : {None}, request : {None}]

Unrelated == [kind |-> "other", device |-> None, request |-> None]

ASSUME InterferenceIsOther == Interference \subseteq OtherEntries

Where(h, kind) == {k \in 1..Len(h) : h[k].kind = kind}

\* The claims that a history contains.
ClaimsIn(h) == {[device |-> h[k].device, request |-> h[k].request] : k \in Where(h, "admitted")}

RevokedIn(h) == Where(h, "revoked") # {}

ClaimCount(h) == Cardinality(Where(h, "admitted"))

\* Position k is where d became a member for the last time, and d still is one.
MembershipSince(h, d, k) ==
    /\ h[k].device = d /\ h[k].kind \in {"admitted", "joined"}
    /\ \A j \in (k + 1)..Len(h) :
        h[j].device = d => h[j].kind \notin {"admitted", "joined", "removed"}

IsMember(h, d) == \E k \in 1..Len(h) : MembershipSince(h, d, k)

-----------------------------------------------------------------------------
(* The decision, against a materialized history.                           *)

\* The request id was recorded outside the claim flow.
RecordedByHand(h, c) == \E k \in Where(h, "requested") : h[k].request = c.request

\* Another claim used the device or the request id, or it was recorded by hand.
Collision(h, c) ==
    \/ \E a \in ClaimsIn(h) : a # c /\ (a.device = c.device \/ a.request = c.request)
    \/ RecordedByHand(h, c)

\* The claim was admitted, and its device is a member by that admission.
InForce(h, c) ==
    \E k \in Where(h, "admitted") : h[k] = Admission(c) /\ MembershipSince(h, c.device, k)

AcceptedBefore(h, c) == ~Collision(h, c) /\ InForce(h, c)

\* Mutant: the response is sealed only after the events are appended.
AdmissibleUnsealed(h, c) ==
    /\ ~Collision(h, c)
    /\ c \notin ClaimsIn(h)
    /\ ~RevokedIn(h)
    /\ ClaimCount(h) < MaxUses
    /\ ~IsMember(h, c.device)
    /\ Where(h, "dismissed") = {}

\* A new claim that may be accepted.  The last two conjuncts stand for sealing
\* the response and for the authorization of the three events.
Admissible(h, c) ==
    /\ ~Collision(h, c)
    /\ c \notin ClaimsIn(h)
    /\ ~RevokedIn(h)
    /\ ClaimCount(h) < MaxUses
    /\ ~IsMember(h, c.device)
    /\ c \in Sealable
    /\ Where(h, "dismissed") = {}

\* Mutant: the clock is looked at before the claims that were accepted.
VerdictExpiryFirst(h, c) ==
    IF ~expired /\ AcceptedBefore(h, c) THEN "receipt"
    ELSE IF ~expired /\ Admissible(h, c) THEN "append"
    ELSE "refused"

\* A claim that was accepted is answered again, whatever the clock, the limit
\* and the invite say by now; the clock is read for the others.
Verdict(h, c) ==
    IF AcceptedBefore(h, c) THEN "receipt"
    ELSE IF Admissible(h, c) /\ ~expired THEN "append"
    ELSE "refused"

-----------------------------------------------------------------------------
Init ==
    /\ history = <<>>
    /\ receipts = {}
    /\ expired = FALSE
    /\ answer = [c \in Claim |-> "waiting"]
    /\ pc = [w \in Worker |-> "idle"]
    /\ job = [w \in Worker |-> None]
    /\ expected = [w \in Worker |-> <<>>]
    /\ context = [w \in Worker |-> <<>>]
    /\ tries = [w \in Worker |-> 0]
    /\ lock = [p \in Process |-> None]
    /\ others = 0 /\ crashes = 0

\* A claimant that has no answer sends its claim (again); a worker takes it up
\* once it holds the mutex.
Start(w, c) ==
    /\ answer[c] = "waiting"
    /\ pc[w] = "idle"
    /\ lock[ProcessOf[w]] = None
    /\ lock' = [lock EXCEPT ![ProcessOf[w]] = w]
    /\ job' = [job EXCEPT ![w] = c]
    /\ pc' = [pc EXCEPT ![w] = "inventory"]
    /\ UNCHANGED <<disk, expired, answer, expected, context, tries, bounds>>

\* The event ids that the append will insist on.
ReadInventory(w) ==
    /\ pc[w] = "inventory"
    /\ expected' = [expected EXCEPT ![w] = history]
    /\ pc' = [pc EXCEPT ![w] = "context"]
    /\ UNCHANGED <<disk, expired, answer, job, context, tries, lock, bounds>>

LoadContext(w) ==
    /\ pc[w] = "context"
    /\ context' = [context EXCEPT ![w] = history]
    /\ pc' = [pc EXCEPT ![w] = "recheck"]
    /\ UNCHANGED <<disk, expired, answer, job, expected, tries, lock, bounds>>

\* Mutant: the transaction does not compare.
HistoryUnchangedAssumed(w) == TRUE

HistoryUnchanged(w) == history = expected[w]

\* Mutant: the loop has no limit.
TryAgainForever(w) ==
    /\ tries' = [tries EXCEPT ![w] = tries[w] + 1]
    /\ pc' = [pc EXCEPT ![w] = "inventory"]

\* One more round; the loop gives up at the limit.
TryAgain(w) ==
    /\ tries' = [tries EXCEPT ![w] = tries[w] + 1]
    /\ pc' = [pc EXCEPT ![w] = IF tries[w] + 1 < RetryLimit THEN "inventory" ELSE "busy"]

\* The second look at the event ids, then the decision on the materialized copy.
Recheck(w) ==
    /\ pc[w] = "recheck"
    /\ IF history # expected[w]
       THEN TryAgain(w)
       ELSE pc' = [pc EXCEPT ![w] = Verdict(context[w], job[w])] /\ UNCHANGED tries
    /\ context' = [context EXCEPT ![w] = <<>>]
    /\ expected' = IF pc'[w] = "append" THEN expected ELSE [expected EXCEPT ![w] = <<>>]
    /\ UNCHANGED <<disk, expired, answer, job, lock, bounds>>

\* append_events_atomically_if_workspace_history_matches.
AppendAdmission(w) ==
    /\ pc[w] = "append"
    /\ IF HistoryUnchanged(w)
       THEN /\ history' = Append(history, Admission(job[w]))
            /\ pc' = [pc EXCEPT ![w] = "group"]
            /\ UNCHANGED tries
       ELSE TryAgain(w) /\ UNCHANGED history
    /\ expected' = [expected EXCEPT ![w] = <<>>]
    /\ UNCHANGED <<receipts, expired, answer, job, context, lock, bounds>>

\* auto_add_openmls_workspace_member_if_ready may append a group change; whether
\* it does, or fails, is ignored.
AddToGroup(w) ==
    /\ pc[w] = "group"
    /\ history' \in {history, Append(history, Unrelated)}
    /\ pc' = [pc EXCEPT ![w] = "receipt"]
    /\ UNCHANGED <<receipts, expired, answer, job, expected, context, tries, lock, bounds>>

\* A stored response is sent again as it is.
ReadReceipt(w) ==
    /\ pc[w] = "receipt"
    /\ pc' = [pc EXCEPT ![w] = IF job[w] \in receipts THEN "granted" ELSE "store"]
    /\ UNCHANGED <<disk, expired, answer, job, expected, context, tries, lock, bounds>>

\* Mutant: the response is sent, not stored.
StoreReceiptSkipped(w) ==
    /\ pc[w] = "store"
    /\ pc' = [pc EXCEPT ![w] = "granted"]
    /\ UNCHANGED <<disk, expired, answer, job, expected, context, tries, lock, bounds>>

StoreReceipt(w) ==
    /\ pc[w] = "store"
    /\ receipts' = receipts \cup {job[w]}
    /\ pc' = [pc EXCEPT ![w] = "granted"]
    /\ UNCHANGED <<history, expired, answer, job, expected, context, tries, lock, bounds>>

\* The response cannot be stored, and the call reports an error.
StoreFails(w) ==
    /\ pc[w] = "store"
    /\ crashes < MaxCrashes
    /\ crashes' = crashes + 1
    /\ pc' = [pc EXCEPT ![w] = "busy"]
    /\ UNCHANGED <<disk, expired, answer, job, expected, context, tries, lock, others>>

\* Mutant: the mutex stays with a worker that reports an error.
UnlockedOnSuccess(w) ==
    IF pc[w] = "granted" THEN [lock EXCEPT ![ProcessOf[w]] = None] ELSE lock

\* The guard is dropped on every return.
Unlocked(w) == [lock EXCEPT ![ProcessOf[w]] = None]

\* The call returns and the claimant learns the outcome; that the history kept
\* changing, or the response was not stored, tells it nothing.
Reply(w) ==
    /\ pc[w] \in {"granted", "refused", "busy"}
    /\ answer' = IF pc[w] = "busy" \/ answer[job[w]] = "granted" THEN answer
                 ELSE [answer EXCEPT ![job[w]] = pc[w]]
    /\ lock' = Unlocked(w)
    /\ pc' = [pc EXCEPT ![w] = "idle"]
    /\ job' = [job EXCEPT ![w] = None]
    /\ tries' = [tries EXCEPT ![w] = 0]
    /\ UNCHANGED <<disk, expired, expected, context, bounds>>

-----------------------------------------------------------------------------
(* The surroundings.                                                       *)

\* sign_authorize_and_append and the other writers that check nothing at the
\* moment of the append.
OtherWrite(e) ==
    /\ others < MaxOthers
    /\ others' = others + 1
    /\ e.kind = "removed" => IsMember(history, e.device)
    /\ history' = Append(history, e)
    /\ UNCHANGED <<receipts, expired, answer, worker, lock, crashes>>

Expire ==
    /\ ~expired
    /\ expired' = TRUE
    /\ UNCHANGED <<disk, answer, worker, lock, bounds>>

\* A process dies with its workers and its mutex; the disk stays.
Crash(p) ==
    /\ crashes < MaxCrashes
    /\ crashes' = crashes + 1
    /\ LET gone == {w \in Worker : ProcessOf[w] = p}
       IN  /\ pc' = [w \in Worker |-> IF w \in gone THEN "idle" ELSE pc[w]]
           /\ job' = [w \in Worker |-> IF w \in gone THEN None ELSE job[w]]
           /\ expected' = [w \in Worker |-> IF w \in gone THEN <<>> ELSE expected[w]]
           /\ context' = [w \in Worker |-> IF w \in gone THEN <<>> ELSE context[w]]
           /\ tries' = [w \in Worker |-> IF w \in gone THEN 0 ELSE tries[w]]
    /\ lock' = [lock EXCEPT ![p] = None]
    /\ UNCHANGED <<disk, expired, answer, others>>

\* The steps of a worker once it has taken up a claim.
Work(w) ==
    \/ ReadInventory(w) \/ LoadContext(w) \/ Recheck(w) \/ AppendAdmission(w)
    \/ AddToGroup(w) \/ ReadReceipt(w) \/ StoreReceipt(w) \/ StoreFails(w) \/ Reply(w)

Next ==
    \/ \E w \in Worker : Work(w)
    \/ \E w \in Worker, c \in Claim : Start(w, c)
    \/ \E e \in Interference : OtherWrite(e)
    \/ Expire
    \/ \E p \in Process : Crash(p)

\* A call runs to its end unless its process dies, and a claimant that has no
\* answer keeps sending its claim (the outbox retries without a limit).  The
\* mutex need not be fair: nobody else asks for it for ever.
Fairness ==
    /\ \A w \in Worker : WF_vars(Work(w))
    /\ \A c \in Claim : WF_vars(\E w \in Worker : Start(w, c))

Spec == Init /\ [][Next]_vars /\ Fairness

-----------------------------------------------------------------------------
(* Properties.                                                             *)

TypeOK ==
    /\ history \in Seq(Entry)
    /\ receipts \subseteq Claim
    /\ expired \in BOOLEAN
    /\ answer \in [Claim -> {"waiting", "granted", "refused"}]
    /\ pc \in [Worker -> {"idle", "inventory", "context", "recheck", "append", "group",
                          "receipt", "store", "granted", "refused", "busy"}]
    /\ job \in [Worker -> Claim \cup {None}]
    /\ expected \in [Worker -> Seq(Entry)]
    /\ context \in [Worker -> Seq(Entry)]
    /\ tries \in [Worker -> 0..RetryLimit]
    /\ lock \in [Process -> Worker \cup {None}]

\* Whatever the workers, the other writers and the crashes do, the invite
\* behaves as the ledger says: the limit, one use per device and per request
\* id, and no use after the revocation is on record here.
Ledger == INSTANCE InviteLedger WITH admitted <- ClaimsIn(history),
                                     revoked <- RevokedIn(history)

ImplementsLedger == Ledger!Spec

\* Nobody becomes a member through a claim whose response cannot be sealed
\* ("would consume one use and leave a member without credentials").
AdmittedGetCredentials == ClaimsIn(history) \subseteq Sealable

\* A claimant is told that it was granted access only when its admission and the
\* response, which a repeated claim returns again, are both on disk.
GrantsAreDurable ==
    \A c \in Claim : answer[c] = "granted" => c \in ClaimsIn(history) /\ c \in receipts

\* A claim that is delivered again is never refused while the admission that it
\* got is what its device's membership rests on: not because the answer was lost
\* in a crash or by another process, the invite has expired, was used up (by this
\* claim) or revoked, or other claims came in between.  The code looks for the
\* claim before it looks at the clock and the invite, and only a request id that
\* was also recorded by hand turns such a claim away.
RepeatedClaimsAreAnswered ==
    [][\A w \in Worker : pc[w] # "refused" /\ pc'[w] = "refused" =>
            (InForce(history, job[w]) => RecordedByHand(history, job[w]))]_vars

\* Every claimant is answered in the end: no crash, lost answer or interfering
\* writer leaves it waiting for ever.
EveryClaimIsAnswered == \A c \in Claim : <>(answer[c] # "waiting")

-----------------------------------------------------------------------------
(* What the properties rest on.                                            *)

\* A history grows at its end only.
Extends(h, g) == Len(g) <= Len(h) /\ \A k \in 1..Len(g) : h[k] = g[k]

\* What a worker has read is what the history was at some time, in this order.
ReadsAreOrdered ==
    \A w \in Worker :
        /\ pc[w] = "context" => Extends(history, expected[w])
        /\ pc[w] = "recheck" => /\ Extends(context[w], expected[w])
                               /\ Extends(history, context[w])

\* A worker about to append has found the claim admissible in the history that
\* its transaction insists on.
DecisionsAreSound ==
    \A w \in Worker :
        /\ pc[w] # "idle" => job[w] \in Claim
        /\ pc[w] = "append" => Admissible(expected[w], job[w])

\* No two claims that were admitted share a device or a request id.
OneUseEach ==
    \A a, b \in ClaimsIn(history) : a.device = b.device \/ a.request = b.request => a = b

\* The retry loop ends at its limit.
RoundsAreCounted == \A w \in Worker : pc[w] # "busy" => tries[w] < RetryLimit

\* A worker past the append has it on disk, and the response before it replies.
ProgressIsOnDisk ==
    \A w \in Worker :
        /\ pc[w] \in {"group", "receipt", "store", "granted"} => job[w] \in ClaimsIn(history)
        /\ pc[w] = "granted" => job[w] \in receipts

\* The inductive invariant.
Inv ==
    /\ TypeOK
    /\ RoundsAreCounted
    /\ ReadsAreOrdered
    /\ DecisionsAreSound
    /\ ProgressIsOnDisk
    /\ AdmittedGetCredentials
    /\ GrantsAreDurable

=============================================================================
