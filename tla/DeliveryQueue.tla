---------------------------- MODULE DeliveryQueue ----------------------------
(***************************************************************************)
(* The file queues that carry an access request to the device that answers *)
(* it and the answer back (join_request_outbox.rs, join_request_inbox.rs   *)
(* and their response twins of bindings/ffi).  A queue is a directory with *)
(* one file per request id.  An outbox is kept in order of creation, an    *)
(* inbox in order of arrival, so both are sequences here.                  *)
(*                                                                         *)
(* Time is counted in ticks of 15 s, the base of the retry delay and the   *)
(* interval of the desktop's poll timers.  What a letter says is the       *)
(* request it belongs to and one word.                                     *)
(***************************************************************************)
EXTENDS Naturals, Sequences, SequencesExt, Selection

CONSTANTS
    Request,
    InboxLimit, \* JOIN_REQUEST_INBOX_MAX_ENTRIES, JOIN_RESPONSE_INBOX_MAX_ENTRIES
    DueLimit,   \* kMaxJoinRequestOutboxEntries: how many due entries a scan returns
    MaxTries,   \* bound: attempts are counted no further than this
    Stray       \* the id of a file that an older build left behind

ASSUME LimitsArePositive ==
    /\ InboxLimit \in Nat \ {0} /\ DueLimit \in Nat \ {0}
    /\ MaxTries \in Nat \ {0} /\ Stray \notin Request

Word == {"ask", "declined", "approved", "granted"}

\* An entry of an outbox; wait is next_attempt_after less the present time.
OutboxEntry ==
    [req : Request \cup {Stray}, text : Word,
     status : {"Pending", "Failed", "Delivered", "Invalid"},
     tries : 0..MaxTries, wait : 0..20]

Letter == [req : Request, text : Word]

\* A file that the present build does not accept.
StrayFile ==
    [req |-> Stray, text |-> "ask", status |-> "Invalid", tries |-> 0, wait |-> 0]

-----------------------------------------------------------------------------
(* Outboxes.                                                               *)

Holds(box, r) == \E k \in DOMAIN box : box[k].req = r

EntryOf(box, r) == box[CHOOSE k \in DOMAIN box : box[k].req = r]

Without(box, r) == Kept(box, {e \in Range(box) : e.req # r})

\* Mutant: the delay does not grow with the attempts.
RetryDelayFlat(tries) == 1

\* 15 s, 30 s, 60 s, ... up to 300 s.
RetryDelay(tries) ==
    LET exponent == IF tries - 1 < 5 THEN tries - 1 ELSE 5
    IN  IF 2 ^ exponent < 20 THEN 2 ^ exponent ELSE 20

IsTerminal(entry) == entry.status = "Delivered"

IsDue(entry) == ~IsTerminal(entry) /\ entry.wait = 0

\* Queuing an id again keeps everything but the text.
QueueEntry(box, r, text) ==
    IF Holds(box, r)
    THEN [k \in DOMAIN box |-> IF box[k].req = r THEN [box[k] EXCEPT !.text = text] ELSE box[k]]
    ELSE Append(box, [req |-> r, text |-> text, status |-> "Pending", tries |-> 0, wait |-> 0])

Attempted(entry) == IF entry.tries < MaxTries THEN entry.tries + 1 ELSE MaxTries

Marked(entry, status) ==
    [entry EXCEPT !.status = status, !.tries = Attempted(entry),
                  !.wait = IF status = "Failed" THEN RetryDelay(Attempted(entry)) ELSE 0]

\* The entry is read again when it is marked, so what it says by then is kept.
MarkEntry(box, r, status) ==
    [k \in DOMAIN box |-> IF box[k].req = r THEN Marked(box[k], status) ELSE box[k]]

\* Mutant: files that do not validate are read like the others.
QuarantinedNone(box) == box

\* A file that does not validate is renamed, and no later scan sees it.
Quarantined(box) == Kept(box, {e \in Range(box) : e.status # "Invalid"})

\* A scan for due entries removes the ones that were delivered ...
Sweep(box) == Kept(box, {e \in Range(box) : ~IsTerminal(e)})

Ids(box) == [k \in DOMAIN box |-> box[k].req]

\* ... and returns the oldest ones that are due.
DueEntries(box) ==
    LET due == Kept(box, {e \in Range(box) : IsDue(e)})
    IN  Ids(SubSeq(due, 1, IF Len(due) < DueLimit THEN Len(due) ELSE DueLimit))

\* One tick passes.
Aged(box) == [k \in DOMAIN box |-> [box[k] EXCEPT !.wait = IF @ = 0 THEN 0 ELSE @ - 1]]

-----------------------------------------------------------------------------
(* Inboxes.                                                                *)

\* A letter is refused if its id is taken by a letter that says something else.
Conflicts(inbox, r, text) == Holds(inbox, r) /\ EntryOf(inbox, r).text # text

\* A full inbox loses its oldest entry.
Pruned(inbox) == IF Len(inbox) >= InboxLimit THEN Tail(inbox) ELSE inbox

\* A repeated letter changes nothing.
WriteInbox(inbox, r, text) ==
    IF Holds(inbox, r) THEN inbox ELSE Append(Pruned(inbox), [req |-> r, text |-> text])

Newest(inbox) == Reverse(inbox)

=============================================================================
