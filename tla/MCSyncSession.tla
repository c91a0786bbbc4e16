--------------------------- MODULE MCSyncSession ---------------------------
(* Two devices, a and b, and the members c and f.  The workspace is a's, and   *)
(* c's where a and b remove each other.                                        *)
EXTENDS SyncSession

CONSTANTS a, b, c, f, x, y, a1, b1, rc, kp, pv, ra, rb, ac, fc, fm

Signed ==
    [e \in Event |-> CASE e \in {a1, pv, ra, ac} -> a
                       [] e = rc -> c
                       [] e \in {fc, fm} -> f
                       [] OTHER -> b]

\* c replies to b's message; a adds b to the group with b's key package; f writes
\* a message after it has removed c.
Links ==
    [e \in Event |-> CASE e = rc -> {b1} [] e = pv -> {kp} [] e = fm -> {fc} [] OTHER -> {}]

Removals ==
    [e \in Event |-> CASE e = ra -> {b} [] e = rb -> {a} [] e \in {ac, fc} -> {c} [] OTHER -> {}]

Files == [e \in Event |-> IF e = a1 THEN {x} ELSE IF e = b1 THEN {y} ELSE {}]

Additions == [d \in Device |-> IF d = b THEN {pv} \cap Event ELSE {}]

Ranking == SelectSeq(<<ra, rb, ac, fc, kp, pv, a1, b1, rc, fm>>, LAMBDA e : e \in Event)

Empty == [d \in Device |-> {}]

Plain ==
    [stored |-> Empty, writes |-> {}, group |-> FALSE, initiators |-> Device, faults |-> 0]

\* Both write a message with an attachment.
Messages == [Plain EXCEPT !.writes = {a1, b1}]

\* Only a syncs by itself, b serves.
OneSided == [Plain EXCEPT !.writes = {a1, b1}, !.initiators = {a}, !.faults = 2]

\* b offers a key package and a adds it to the group.
Joining == [Plain EXCEPT !.group = TRUE, !.faults = 1]

\* a removes b, whose message and the reply to it a has not seen.
Removed ==
    [Plain EXCEPT !.stored = [d \in Device |-> IF d = b THEN {b1, rc} ELSE {}],
                  !.writes = {ra}]

\* f has removed c and written a message, which b has; a may remove c too before
\* it hears of it.
BothRemove ==
    [Plain EXCEPT !.stored = [d \in Device |-> IF d = b THEN {fc, fm} ELSE {}],
                  !.writes = {ac}, !.faults = 1]

Situations == {Messages, OneSided, Joining, Removed, BothRemove}

\* a and b remove each other before they sync.
MutualRemoval ==
    {[Plain EXCEPT !.stored = [d \in Device |-> IF d = a THEN {ra} ELSE {rb}]]}

\* TLC tabulates the view of every history here, once.
ASSUME ViewsAreTyped ==
    View \in [SUBSET Event -> [applied : SUBSET Event, members : SUBSET (Device \cup Others)]]

=============================================================================
