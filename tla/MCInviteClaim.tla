--------------------------- MODULE MCInviteClaim ---------------------------
(* Two devices compete for an invite that admits one, and one of them sends  *)
(* a second claim under the other's request id, with an unusable key.  The   *)
(* claims are handled by two processes that share the data directory.        *)
EXTENDS InviteClaim, TLC

CONSTANTS d1, d2, q1, q2, desktop, cli

First == [device |-> d1, request |-> q1]
Second == [device |-> d2, request |-> q2]
Muddled == [device |-> d1, request |-> q2]

ThreeClaims == {First, Second, Muddled}
TwoClaims == {First, Second}
UsableKeys == {First, Second}

\* Other writers invite or remove the first device, record its request id by
\* hand, revoke the invite, demote the inviting device, or do something else.
Meddling ==
    {e \in OtherEntries : e.device \in {None, d1} /\ e.request \in {None, q1}}

\* The two processes are interchangeable.
Interchange == Permutations(Process)

OneEach == [w \in Worker |-> w]

=============================================================================
