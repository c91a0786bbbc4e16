---------------------------- MODULE StableScan ----------------------------
(***************************************************************************)
(* What a batch materializes to, by definition: scan the events in input   *)
(* order, apply each one whose parents are applied and that is authorized, *)
(* and scan what is left again until a scan applies nothing.  This is the  *)
(* scan that apply_batch used to run and that its tests still compare it   *)
(* with, except that an event applied already, and one that defines a      *)
(* channel another event of the batch defines too, is passed over.         *)
(***************************************************************************)
EXTENDS ApplyBatch

\* The state of a scan: the index, the applied events in order, and whether an
\* event with an invalid payload stopped it.
Empty == [ix |-> NewIndex, log |-> <<>>, failed |-> FALSE]

Done(s) == {s.log[k] : k \in 1..Len(s.log)}

\* What the scan does with event e of batch b.
Visit(h, b, s, e) ==
    IF \/ s.failed \/ e \in Done(s) \/ ~(h[e].parents \subseteq Done(s))
       \/ Conflicting(h, b, e)
    THEN s
    ELSE IF Malformed(s.ix, h[e]) THEN [s EXCEPT !.failed = TRUE]
    ELSE IF ~Authorized(s.ix, h[e]) THEN s
    ELSE [ix |-> ApplyAuthorized(s.ix, h[e], e), log |-> Append(s.log, e), failed |-> FALSE]

\* The states of one scan that starts in s, by the number of events visited.
Visits(h, b, s) ==
    LET upto[n \in 0..Len(b)] == IF n = 0 THEN s ELSE Visit(h, b, upto[n - 1], b[n])
    IN  upto

Scan(h, b, s) == Visits(h, b, s)[Len(b)]

\* The states after each scan, and after enough of them: every scan but the
\* last applies an event.
Scans(h, b) ==
    LET after[n \in 0..Len(b)] == IF n = 0 THEN Empty ELSE Scan(h, b, after[n - 1])
    IN  after

Rescan(h, b) == Scans(h, b)[Len(b)]

-----------------------------------------------------------------------------

\* The indexed algorithm applies the same events in the same order, reaches the
\* same index and fails in the same cases as rescanning the batch: what the
\* permutation test of apply_batch checks for one history.
MatchesRescan ==
    outcome # "running" =>
        LET r == Rescan(history, batch)
        IN  /\ r.failed = (outcome = "error")
            /\ r.log = log
            /\ r.ix = ix

=============================================================================
