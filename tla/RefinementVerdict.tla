--------------------------- MODULE RefinementVerdict ---------------------------
(***************************************************************************)
(* What the refinement checker promises about a compilation, without the   *)
(* passes: the module is accepted only when every function that carries    *)
(* refinements has been proved to satisfy them, and a decision stands.  It *)
(* may be rejected at any time.                                            *)
(***************************************************************************)
CONSTANT Function

VARIABLES
    annotated,  \* the functions with refinements
    proved,     \* those that satisfy them
    verdict     \* "undecided", "accepted" or "rejected"

vars == <<annotated, proved, verdict>>

Init ==
    /\ annotated \in SUBSET Function
    /\ proved = {}
    /\ verdict = "undecided"

Prove(f) ==
    /\ verdict = "undecided"
    /\ proved' = proved \cup {f}
    /\ UNCHANGED <<annotated, verdict>>

Accept ==
    /\ verdict = "undecided"
    /\ annotated \subseteq proved
    /\ verdict' = "accepted"
    /\ UNCHANGED <<annotated, proved>>

Reject ==
    /\ verdict = "undecided"
    /\ verdict' = "rejected"
    /\ UNCHANGED <<annotated, proved>>

Next == (\E f \in Function : Prove(f)) \/ Accept \/ Reject

Spec == Init /\ [][Next]_vars
================================================================================
