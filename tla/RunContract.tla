----------------------------- MODULE RunContract -----------------------------
(***************************************************************************)
(* What a run of a scenario promises: it gathers evidence, judges it once, *)
(* gathers nothing after that, and is a success only if it was judged.     *)
(***************************************************************************)
CONSTANTS
    Evidence,    \* the artifacts a run may leave
    None

VARIABLES evidence, judged, outcome

vars == <<evidence, judged, outcome>>

Init == evidence = {} /\ ~judged /\ outcome = None

Gather ==
    /\ outcome = None /\ ~judged
    /\ evidence' \in SUBSET Evidence /\ evidence \subseteq evidence'
    /\ UNCHANGED <<judged, outcome>>

Judge ==
    /\ outcome = None /\ ~judged
    /\ judged'
    /\ UNCHANGED <<evidence, outcome>>

End ==
    /\ outcome = None
    /\ outcome' \in {"success", "failure", "raised"}
    /\ outcome' = "success" => judged
    /\ UNCHANGED <<evidence, judged>>

Next == Gather \/ Judge \/ End

Spec == Init /\ [][Next]_vars
=============================================================================
