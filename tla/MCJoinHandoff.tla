--------------------------- MODULE MCJoinHandoff ---------------------------
(* One claim of a reusable invite and one request that an administrator has  *)
(* to answer, sent by the same device.                                       *)
EXTENDS JoinHandoff

CONSTANTS c, m

Asks(r, n) == [q \in Request |-> IF q = r THEN n ELSE 0]

\* The claim comes behind a request whose address leads nowhere, with a file
\* of an older build in the request outbox, and no address for the answer.
Blocked ==
    [asks |-> [r \in Request |-> 1], button |-> FALSE, faults |-> 0,
     outcomes |-> {}, routed |-> {}, unreachable |-> {m}, stray |-> {"request"}]

\* The claim alone, sent twice; the response outbox cannot be read.
Unreadable ==
    [asks |-> Asks(c, 2), button |-> TRUE, faults |-> 0,
     outcomes |-> {}, routed |-> {c}, unreachable |-> {}, stray |-> {"response"}]

\* The claim alone, with a crash or a result that cannot be saved, and the role
\* of the new member may change; no address for the answer.
Faulty ==
    [asks |-> Asks(c, 1), button |-> FALSE, faults |-> 1,
     outcomes |-> {"changed"}, routed |-> {}, unreachable |-> {}, stray |-> {}]

\* The request for the administrator alone, and what may be said to it.
Asked(said) ==
    [asks |-> Asks(m, 1), button |-> FALSE, faults |-> 0,
     outcomes |-> said, routed |-> {m}, unreachable |-> {}, stray |-> {}]

Situations == {Blocked, Unreadable, Faulty, Asked({"declined"}), Asked({"approved"})}

OnlyAsked == {Asked({"declined", "approved"})}

=============================================================================
