---------------------------- MODULE InviteLedger ----------------------------
(***************************************************************************)
(* What a reusable invite promises, without saying how claims are handled: *)
(* it admits at most MaxUses claims, never two of one device or with one   *)
(* request id, and none once it is revoked.                                *)
(***************************************************************************)
EXTENDS Naturals, FiniteSets

CONSTANTS
    Claim,      \* claims, records with a device and a request
    MaxUses     \* max_claims of the invite

VARIABLES
    admitted,   \* the claims that the workspace has accepted
    revoked

ledger == <<admitted, revoked>>

Init == admitted = {} /\ revoked = FALSE

Admit(c) ==
    /\ ~revoked
    /\ Cardinality(admitted) < MaxUses
    /\ \A a \in admitted : a.device # c.device /\ a.request # c.request
    /\ admitted' = admitted \cup {c}
    /\ UNCHANGED revoked

Revoke ==
    /\ revoked' = TRUE
    /\ UNCHANGED admitted

Next == Revoke \/ \E c \in Claim : Admit(c)

Spec == Init /\ [][Next]_ledger

=============================================================================
