------------------------------ MODULE Retrying ------------------------------
(* The constants of a POST with retries, shared by the services that make  *)
(* one.                                                                    *)
EXTENDS Naturals

CONSTANTS
    Retries,    \* attempts at most (3 in both services)
    MaxCrashes  \* bound on restarts of the calling service

ASSUME RetriesAssumption == Retries \in Nat \ {0} /\ MaxCrashes \in Nat
=============================================================================
