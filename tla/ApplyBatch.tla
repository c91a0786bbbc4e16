----------------------------- MODULE ApplyBatch -----------------------------
(***************************************************************************)
(* WorkspaceState::apply_batch: the stored events of a workspace, in the   *)
(* order the local database returns them, are materialized from an empty   *)
(* state.  An event runs once all its parents are applied; one that is not *)
(* authorized yet is deferred to the next round; a round goes through the  *)
(* batch in input order, so that the outcome is that of rescanning the     *)
(* whole batch until nothing moves, without doing so.                      *)
(*                                                                         *)
(* A position is an index of the batch.  One step visits one position; the *)
(* loops that build the indexes before the first round are in Init.        *)
(***************************************************************************)
EXTENDS WorkspaceEvents, Sequences

CONSTANTS
    Histories,  \* the histories considered: functions from event ids to events
    Batches     \* the batches considered: sequences of event ids

\* What a history is: ids are hashes of the events, so parents are older.
ASSUME HistoriesAreCausal ==
    \A h \in Histories : \E rank \in [EventId -> 0..Cardinality(EventId)] :
        \A e \in EventId : \A p \in h[e].parents : rank[p] < rank[e]

\* The database returns events that were checked when they were stored.
ASSUME InputsAreTyped ==
    /\ \A h \in Histories : \A e \in EventId : IsEvent(h[e])
    /\ \A b \in Batches : b \in Seq(EventId)

VARIABLES
    history,    \* the signed events, by id
    batch,      \* the input: a sequence of ids
    ix,         \* access_index of the state being materialized
    log,        \* applied_events
    pending,    \* positions not applied yet
    missing,    \* missing_parent_counts
    earliest,   \* earliest_ready_rounds
    waiting,    \* waiting_by_parent
    stable,     \* stable_ready_events from stable_ready_index on
    dynamic,    \* dynamically_ready_events, a heap
    nextRound,  \* next_round_ready_events, a heap
    deferred,   \* authorization_deferred
    round,      \* current_round
    progressed,
    gaps,       \* report.gaps
    outcome     \* "running", or how the call returned

input == <<history, batch>>
state == <<ix, log>>
index == <<missing, earliest, waiting>>
vars  == <<input, state, pending, index, stable, dynamic, nextRound, deferred,
           round, progressed, gaps, outcome>>

-----------------------------------------------------------------------------
(* Positions, and what is known about them before the first round.         *)

Positions == 1..Len(batch)

EventAt(i) == history[batch[i]]

Applied == {log[k] : k \in 1..Len(log)}

Ids(b) == {b[i] : i \in 1..Len(b)}

\* Mutant: the definition that comes first in the batch wins.
ConflictingLater(h, b, e) ==
    /\ CreatesChannel(h[e])
    /\ \E i, j \in 1..Len(b) :
        /\ i < j /\ b[j] = e /\ b[i] # e
        /\ CreatesChannel(h[b[i]]) /\ h[b[i]].channel = h[e].channel

\* channel_definition_conflicts: two distinct events of the batch define the
\* channel that this one defines.
Conflicting(h, b, e) ==
    /\ CreatesChannel(h[e])
    /\ \E f \in Ids(b) : f # e /\ CreatesChannel(h[f]) /\ h[f].channel = h[e].channel

\* The sequence of the positions in S in increasing order, the only element.
Ascending(S) == {s \in [1..Cardinality(S) -> S] :
                    \A j, k \in 1..Cardinality(S) : j < k => s[j] < s[k]}

LeastOf(S) == CHOOSE i \in S : \A j \in S : i <= j

Init ==
    /\ history \in Histories
    /\ batch \in Batches
    /\ ix = NewIndex
    /\ log = <<>>
    /\ pending = Positions
    /\ missing = [i \in Positions |-> Cardinality(EventAt(i).parents)]
    /\ earliest = [i \in Positions |-> 0]
    /\ waiting = [e \in Ids(batch) |-> {i \in Positions : e \in EventAt(i).parents}]
    /\ stable \in Ascending({i \in Positions : /\ EventAt(i).parents = {}
                                               /\ ~Conflicting(history, batch, batch[i])})
    /\ dynamic = {}
    /\ nextRound = {}
    /\ deferred = <<>>
    /\ round = 0
    /\ progressed = FALSE
    /\ gaps = {}
    /\ outcome = "running"

-----------------------------------------------------------------------------
(* One round.                                                              *)

\* The next position of the round: the head of the stable list or the least
\* element of the heap, whichever comes first in the batch.
StableIsNext == stable # <<>> /\ (dynamic = {} \/ Head(stable) <= LeastOf(dynamic))

NextPosition == IF StableIsNext THEN Head(stable) ELSE LeastOf(dynamic)

\* Taking it off its queue; `woken' are the positions that this step adds.
Take(woken) ==
    IF StableIsNext
    THEN stable' = Tail(stable) /\ dynamic' = dynamic \cup woken
    ELSE stable' = stable /\ dynamic' = (dynamic \ {LeastOf(dynamic)}) \cup woken

InRound == outcome = "running" /\ (stable # <<>> \/ dynamic # {})

\* The same event came twice and has been applied meanwhile.
SkipApplied ==
    /\ InRound
    /\ LET i == NextPosition
       IN  /\ batch[i] \in Applied
           /\ pending' = pending \ {i}
    /\ Take({})
    /\ UNCHANGED <<input, state, index, nextRound, deferred, round, progressed, gaps, outcome>>

\* Mutant: in this round, wherever the child is.
ReadyRoundNow(i, j) == round

\* The round in which a child at position j can run once the parent at position
\* i is applied: this one if its place is still to come.
ReadyRound(i, j) == round + (IF i >= j THEN 1 ELSE 0)

Larger(m, n) == IF m >= n THEN m ELSE n

\* Mutant: one applied parent is enough.
UnblockedByAny(j) == missing[j] >= 1

\* The parent just applied is the last one that position j waits for.
Unblocked(j) == missing[j] = 1

\* The event is authorized: apply it and count it off its children.
ApplyReady ==
    /\ InRound
    /\ LET i        == NextPosition
           e        == batch[i]
           children == waiting[e]
           ready    == {j \in children : /\ Unblocked(j)
                                         /\ ~Conflicting(history, batch, batch[j])}
           when(j)  == Larger(earliest[j], ReadyRound(i, j))
       IN  /\ e \notin Applied
           /\ Authorized(ix, EventAt(i))
           /\ ix' = ApplyAuthorized(ix, EventAt(i), e)
           /\ log' = Append(log, e)
           /\ pending' = pending \ {i}
           /\ waiting' = [waiting EXCEPT ![e] = {}]
           /\ missing' = [j \in Positions |-> IF j \in children THEN missing[j] - 1
                                              ELSE missing[j]]
           /\ earliest' = [j \in Positions |-> IF j \in children THEN when(j)
                                               ELSE earliest[j]]
           /\ Take({j \in ready : when(j) = round})
           /\ nextRound' = nextRound \cup {j \in ready : when(j) # round}
    /\ progressed' = TRUE
    /\ UNCHANGED <<input, deferred, round, gaps, outcome>>

\* Not authorized now: try again in the next round.
Defer ==
    /\ InRound
    /\ LET i == NextPosition
       IN  /\ batch[i] \notin Applied
           /\ ~Authorized(ix, EventAt(i))
           /\ ~Malformed(ix, EventAt(i))
           /\ deferred' = Append(deferred, i)
    /\ Take({})
    /\ UNCHANGED <<input, state, pending, index, nextRound, round, progressed, gaps, outcome>>

\* An event with an invalid payload aborts the whole batch.
Abort ==
    /\ InRound
    /\ batch[NextPosition] \notin Applied
    /\ Malformed(ix, EventAt(NextPosition))
    /\ outcome' = "error"
    /\ UNCHANGED <<input, state, pending, index, stable, dynamic, nextRound, deferred,
                   round, progressed, gaps>>

-----------------------------------------------------------------------------
(* Between rounds.                                                         *)

RoundOver == outcome = "running" /\ stable = <<>> /\ dynamic = {}

\* Mutant: events that were not authorized are not tried again.
MoreToDoUnblocked == nextRound # {}

MoreToDo == deferred # <<>> \/ nextRound # {}

NewRound ==
    /\ RoundOver
    /\ progressed
    /\ MoreToDo
    /\ stable' = deferred
    /\ dynamic' = nextRound
    /\ nextRound' = {}
    /\ deferred' = <<>>
    /\ progressed' = FALSE
    /\ round' = round + 1
    /\ UNCHANGED <<input, state, pending, index, gaps, outcome>>

\* Mutant: the loop ends only when nothing is left to try.
StopWhenEmpty == ~MoreToDo

Stop == ~progressed \/ ~MoreToDo

\* Every position still pending is reported with the parents it lacks.
Finish ==
    /\ RoundOver
    /\ Stop
    /\ gaps' = {[event |-> batch[i], lacks |-> EventAt(i).parents \ Applied] : i \in pending}
    /\ outcome' = "done"
    /\ UNCHANGED <<input, state, pending, index, stable, dynamic, nextRound, deferred,
                   round, progressed>>

Next == SkipApplied \/ ApplyReady \/ Defer \/ Abort \/ NewRound \/ Finish

\* apply_batch is one synchronous call that nothing interrupts, so it keeps
\* taking steps while it can.
Spec == Init /\ [][Next]_vars /\ WF_vars(Next)

-----------------------------------------------------------------------------
(* Properties.                                                             *)

\* Every event is applied once, after all its parents, although an event is
\* released by a counter that its parents decrement one by one, and although
\* the same event may occur twice in the batch.
CausalOrder ==
    \A k \in 1..Len(log) : LET before == {log[j] : j \in 1..(k - 1)}
                          IN  log[k] \notin before /\ history[log[k]].parents \subseteq before

\* Two events of the batch that define one channel.
DefineTheSame(e, f) ==
    /\ e # f
    /\ CreatesChannel(history[e]) /\ CreatesChannel(history[f])
    /\ history[e].channel = history[f].channel

\* A channel id with two definitions in the batch is never given to either: no
\* access record exists and no event was applied in the channel, whichever
\* definition the database returned first ("Fail closed").
ConflictsFailClosed ==
    \A e, f \in Ids(batch) : DefineTheSame(e, f) =>
        /\ e \notin Applied
        /\ ix.channels[history[e].channel] = None
        /\ \A g \in EventId : ix.eventChannels[g] # history[e].channel

\* When the call returns, the gaps are exactly the events that are not applied,
\* and each has a reason: a parent that is not applied either, a conflicting
\* channel definition, or an author who is not allowed to do this in the
\* resulting state.  No event is forgotten in a heap or in a list.
NothingLeftBehind ==
    outcome = "done" =>
        /\ {g.event : g \in gaps} = Ids(batch) \ Applied
        /\ \A g \in gaps : \/ g.lacks # {}
                           \/ \E f \in Ids(batch) : DefineTheSame(g.event, f)
                           \/ ~Authorized(ix, history[g.event])

\* The call returns, with a report or with an error, whatever the batch.
Terminates == <>(outcome # "running")

=============================================================================
