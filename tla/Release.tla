------------------------------- MODULE Release -------------------------------
(***************************************************************************)
(* What the Arago updater promises: storage changes only at the end of an  *)
(* installation, an installation that is finished leaves the new release,  *)
(* and nothing ever leads back to the old one.                             *)
(***************************************************************************)
VARIABLES
    storage,   \* the release on storage: "old", "new", or "broken"
    session,   \* an installation: "none", "open", or "failed"
    intact     \* the last installation that began was also finished

Init == storage = "old" /\ session = "none" /\ intact = TRUE

Begin ==
    /\ session = "none" /\ session' = "open"
    /\ UNCHANGED << storage, intact >>

Fail ==
    /\ session = "open" /\ session' = "failed"
    /\ UNCHANGED << storage, intact >>

Finish ==
    /\ session = "open" /\ session' = "none"
    /\ storage' = "new" /\ intact' = TRUE

\* The installation is cut off, or a failed one comes to its end.
Abort ==
    /\ session # "none" /\ session' = "none"
    /\ storage' \in {"new", "broken"} \cup {storage}
    /\ intact' = FALSE

Next == Begin \/ Fail \/ Finish \/ Abort

Spec == Init /\ [][Next]_<< storage, session, intact >>
=============================================================================
