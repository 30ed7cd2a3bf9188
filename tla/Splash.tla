------------------------------- MODULE Splash -------------------------------
(***************************************************************************)
(* What is on the screen while update_real.sh takes over from camApp.  The *)
(* update stops camApp, waits until it has gone, and draws the busy        *)
(* picture; runCamera.sh, which has run camApp, draws the shutdown picture *)
(* when camApp ends.  Only time orders the two: the update sleeps for half *)
(* a second before it draws, runCamera.sh for a fifth.                     *)
(*                                                                         *)
(* Time is counted in tenths of a second.  Lag bounds how late a process   *)
(* gets to run after a sleep or an event, its drawing included; checksums, *)
(* rm and tar take any time.                                               *)
(***************************************************************************)
EXTENDS Naturals

CONSTANTS
    Lag,        \* how late a process may be
    TIMEOUT     \* how often the update looks for camApp before it kills it

ASSUME SplashAssumption == Lag \in Nat /\ TIMEOUT \in Nat \ {0}

Settle == 5     \* sleep 0.5s of the update
Nap == 2        \* sleep 0.2s of runCamera.sh

VARIABLES
    package,    \* of the update: whether the checksums match and busy.raw is there
    camera,     \* camApp: it runs, it has been told to end, or it has gone
    shell,      \* runCamera.sh: it waits for camApp, it sleeps, it has ended
    update,     \* where update_real.sh is
    tries,      \* its TIMEOUT
    screen,     \* what was drawn last
    since       \* the time each of the processes has been where it is

splashVars == << package, camera, shell, update, tries, screen, since >>

SplashInit ==
    /\ package \in [sums : {"match", "FAILED"}, busy : {"there", "missing"}]
    /\ \/ camera = "runs" /\ shell = "waits"
       \/ camera = "gone" /\ shell = "ended"
    /\ update = "start"
    /\ tries = TIMEOUT /\ screen = "camera"
    /\ since = [p \in {"camera", "shell", "update"} |-> 0]

\* The process has been where it is for the given time, and not too long.
Due(p, time) == since[p] >= time
Restart(p) == since' = [since EXCEPT ![p] = 0]

-----------------------------------------------------------------------------
(* update_real.sh                                                          *)

KillCamApp ==
    /\ update = "start" /\ update' = "sums"
    /\ camera' = IF camera = "runs" THEN "ending" ELSE camera
    /\ since' = [since EXCEPT !["update"] = 0, !["camera"] = 0]
    /\ UNCHANGED << package, shell, tries, screen >>

\* A checksum that fails is shown, and then the camera reboots.
CheckSums ==
    /\ update = "sums" /\ Restart("update")
    /\ IF package.sums = "FAILED"
         THEN update' = "failed" /\ screen' = "checksum"
         ELSE update' = (IF package.busy = "there" THEN "wait" ELSE "remove") /\ UNCHANGED screen
    /\ UNCHANGED << package, camera, shell, tries >>

\* ps lists camApp as long as it has not gone, and sometimes the grep beside it.
LookFor ==
    /\ update = "wait" /\ UNCHANGED << package, shell, screen >>
    /\ \/ /\ camera = "gone" /\ update' = "settle"
          /\ Restart("update") /\ UNCHANGED << tries, camera >>
       \/ /\ tries > 0 /\ update' = "sleep" /\ tries' = tries - 1
          /\ Restart("update") /\ UNCHANGED camera
       \/ /\ tries = 0 /\ camera = "ending" /\ camera' = "killed"
          /\ since' = [since EXCEPT !["camera"] = 0, !["update"] = 0]
          /\ UNCHANGED << update, tries >>
       \/ /\ tries = 0 /\ camera # "ending"
          /\ Restart("update") /\ UNCHANGED << camera, update, tries >>

\* Fault: the loop does not sleep.
LookAgain_AtOnce ==
    /\ update = "sleep" /\ update' = "wait"
    /\ Restart("update")
    /\ UNCHANGED << package, camera, shell, tries, screen >>

LookAgain ==
    /\ update = "sleep" /\ Due("update", 1) /\ update' = "wait"
    /\ Restart("update")
    /\ UNCHANGED << package, camera, shell, tries, screen >>

\* Fault: the picture is drawn as soon as camApp has gone.
DrawBusy_AtOnce ==
    /\ update = "settle" /\ update' = "remove"
    /\ screen' = "busy" /\ Restart("update")
    /\ UNCHANGED << package, camera, shell, tries >>

DrawBusy ==
    /\ update = "settle" /\ Due("update", Settle) /\ update' = "remove"
    /\ screen' = "busy" /\ Restart("update")
    /\ UNCHANGED << package, camera, shell, tries >>

\* /boot has been removed: "just in case it didn't draw before".
DrawAgain ==
    /\ update = "remove" /\ update' = "copy" /\ Restart("update")
    /\ screen' = IF package.busy = "there" THEN "busy" ELSE screen
    /\ UNCHANGED << package, camera, shell, tries >>

Reboot ==
    /\ update \in {"copy", "failed"} /\ update' = "reboot"
    /\ Restart("update")
    /\ UNCHANGED << package, camera, shell, tries, screen >>

-----------------------------------------------------------------------------
(* camApp and runCamera.sh                                                 *)

\* Told to end camApp does so in its own time, or not at all.
CameraEnds ==
    /\ camera \in {"ending", "killed"} /\ camera' = "gone"
    /\ since' = [since EXCEPT !["camera"] = 0, !["shell"] = 0]
    /\ UNCHANGED << package, shell, update, tries, screen >>

ExitSplash ==
    /\ camera = "gone"
    /\ \/ shell = "waits" /\ shell' = "naps" /\ UNCHANGED screen
       \/ /\ shell = "naps" /\ Due("shell", Nap)
          /\ shell' = "ended" /\ screen' = "shutdown"
    /\ Restart("shell")
    /\ UNCHANGED << package, camera, update, tries >>

-----------------------------------------------------------------------------
\* Clocks nobody waits for stop where it makes no difference any more.
Bound == Settle + Nap + Lag + TIMEOUT

\* The time by which a process has to take its next step, or Never.
Never == Bound + 1
Deadline(p) ==
    CASE p = "camera" -> IF camera = "killed" THEN Lag ELSE Never
      [] p = "shell" -> IF camera # "gone" \/ shell = "ended" THEN Never
                        ELSE IF shell = "waits" THEN Lag ELSE Nap + Lag
      [] p = "update" -> CASE update = "wait" -> Lag
                           [] update = "sleep" -> 1 + Lag
                           [] update = "settle" -> Settle + Lag
                           [] OTHER -> Never

Tick ==
    /\ \A p \in DOMAIN since : since[p] < Deadline(p)
    /\ since' = [p \in DOMAIN since |-> IF since[p] < Bound THEN since[p] + 1 ELSE since[p]]
    /\ UNCHANGED << package, camera, shell, update, tries, screen >>

SplashNext ==
    \/ KillCamApp \/ CheckSums \/ LookFor \/ LookAgain \/ DrawBusy \/ DrawAgain \/ Reboot
    \/ CameraEnds \/ ExitSplash
    \/ Tick

SplashSpec == SplashInit /\ [][SplashNext]_splashVars

-----------------------------------------------------------------------------
\* The variables have their types, and nobody is late by more than Lag.
SplashTypeOK ==
    /\ package \in [sums : {"match", "FAILED"}, busy : {"there", "missing"}]
    /\ camera \in {"runs", "ending", "killed", "gone"}
    /\ shell \in {"waits", "naps", "ended"}
    /\ update \in {"start", "sums", "failed", "wait", "sleep", "settle", "remove", "copy", "reboot"}
    /\ tries \in 0 .. TIMEOUT
    /\ screen \in {"camera", "shutdown", "busy", "checksum"}
    /\ since \in [{"camera", "shell", "update"} -> Nat]
    /\ \A p \in DOMAIN since : since[p] <= Deadline(p)

\* While /boot is removed and the files are copied the screen shows that the
\* update is busy, and not that the camera is shutting down, which would invite
\* the user to switch it off.
BusyShown ==
    update \in {"remove", "copy"} /\ package.busy = "there" => screen = "busy"

\* camApp is not killed before it has had TIMEOUT tenths of a second to end.
TimeToEnd ==
    [][camera = "ending" /\ camera' = "killed" => since["camera"] >= TIMEOUT]_splashVars
=============================================================================
