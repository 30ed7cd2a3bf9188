------------------------------ MODULE Dialogue ------------------------------
(***************************************************************************)
(* What the Debian updater promises the user: one order to write, placed   *)
(* by Start and by nothing else; the PMIC is programmed while the order    *)
(* waits, and only over older firmware; the card is written once; the user *)
(* is told, and the camera goes off, when nothing is written any more.     *)
(***************************************************************************)
EXTENDS Naturals

CONSTANT PMICHEXVERSION    \* version of the firmware that comes with the image

VARIABLES
    screen,    \* what the user sees: "checking", "started", "done" or "dead"
    order,     \* "none", "placed", "writing" or "ended"
    whole,     \* the card holds the whole image
    excused,   \* something outside the updater has failed
    pmic,      \* firmware version of the PMIC
    on         \* the camera is on

state == << screen, order, whole, excused, pmic, on >>

Init ==
    /\ screen = "checking" /\ order = "none"
    /\ whole = FALSE /\ excused \in BOOLEAN
    /\ pmic \in Nat /\ on = TRUE

Place ==
    /\ screen = "checking" /\ screen' = "started"
    /\ order = "none" /\ order' = "placed"
    /\ UNCHANGED << whole, excused, pmic, on >>

\* The updater has died at an answer nobody reads.
Lose ==
    /\ screen = "dead" /\ order = "placed" /\ order' = "none"
    /\ UNCHANGED << screen, whole, excused, pmic, on >>

Program ==
    /\ order = "placed" /\ pmic < PMICHEXVERSION
    /\ pmic' \in {0, PMICHEXVERSION}
    /\ UNCHANGED << screen, order, whole, excused, on >>

Begin ==
    /\ order = "placed" /\ order' = "writing"
    /\ UNCHANGED << screen, whole, excused, pmic, on >>

End ==
    /\ order = "writing" /\ order' = "ended"
    /\ whole' \in BOOLEAN /\ excused' \in {excused, TRUE}
    /\ whole' \/ excused'
    /\ UNCHANGED << screen, pmic, on >>

Tell ==
    /\ order = "ended" /\ screen = "started" /\ screen' = "done"
    /\ UNCHANGED << order, whole, excused, pmic, on >>

SwitchOff ==
    /\ order = "ended" /\ on /\ on' = FALSE
    /\ UNCHANGED << screen, order, whole, excused, pmic >>

\* The card is taken out, a write fails, or the interface dies.
Fail ==
    /\ on /\ excused' = TRUE
    /\ screen' \in {screen, "dead"}
    /\ UNCHANGED << order, whole, pmic, on >>

Next == Place \/ Lose \/ Program \/ Begin \/ End \/ Tell \/ SwitchOff \/ Fail

Spec == Init /\ [][Next]_state
=============================================================================
