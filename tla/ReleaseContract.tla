-------------------------- MODULE ReleaseContract --------------------------
(***************************************************************************)
(* What a workflow promises about its pull request, whatever the endpoints *)
(* and threads of the service do: a person approves, then the pull request *)
(* may be merged, then the deploy pipeline may be dispatched, once.        *)
(***************************************************************************)
EXTENDS Naturals

VARIABLES
    approved,   \* an approval by a person is recorded
    merged,     \* the pull request is merged
    deploys     \* how often the deploy pipeline was dispatched

vars == <<approved, merged, deploys>>

Init == approved = FALSE /\ merged = FALSE /\ deploys = 0

Approve == ~approved /\ approved' = TRUE /\ UNCHANGED <<merged, deploys>>

Merge == approved /\ ~merged /\ merged' = TRUE /\ UNCHANGED <<approved, deploys>>

Deploy == merged /\ deploys = 0 /\ deploys' = 1 /\ UNCHANGED <<approved, merged>>

Next == Approve \/ Merge \/ Deploy

Spec == Init /\ [][Next]_vars
=============================================================================
