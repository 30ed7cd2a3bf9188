----------------------------- MODULE DebianUpdate ----------------------------
(***************************************************************************)
(* The updater that moves a camera to Debian: update_real.sh starts a      *)
(* backend script and a user interface joined by two named pipes.  The     *)
(* backend answers the questions of the interface, and on "Start" flashes  *)
(* the power controller (PMIC), writes the image to the card in the top    *)
(* slot with zcat | dd and polls dd with SIGUSR1 until killall finds none. *)
(*                                                                         *)
(* The interface is a binary outside this code: it is known only by the    *)
(* lines the backend reads from it and echoes to it.                       *)
(***************************************************************************)
EXTENDS Integers, Sequences

CONSTANTS
    PipeCap,          \* lines a pipe holds
    MaxSyscheck,      \* bound on the questions the interface asks
    PMICHEXVERSION,   \* 7 in the code
    PmicVersion,      \* the PMIC versions in the field
    StartsInTime      \* zcat and dd run before the "sleep 1" after them ends

ASSUME ConstantAssumption ==
    /\ PipeCap \in Nat \ {0} /\ MaxSyscheck \in Nat
    /\ PMICHEXVERSION \in Nat \ {0} /\ PmicVersion \subseteq Nat
    /\ StartsInTime \in BOOLEAN

VARIABLES
    pc,          \* where the backend is
    line,        \* LINE, "none" when it is empty
    opens,       \* the pipes each side has still to open, in order
    toBackend, toUi,   \* contents of the two pipes
    usbChecked,  \* USBCHECKED, 0 or 1
    ui,          \* the interface: "checking", "started", "done" or "dead"
    asked,       \* number of Syscheck lines sent
    card,        \* the top slot is "empty", or has a card "in", or one "mounted"
    gz, hex,     \* the files of the package: "good", "bad" or "missing"
    dd,          \* the writing process, from "none" to "done" or "failed"
    target,      \* what dd writes: the "card", one that is "gone", a "file" in /dev
    image,       \* what the card holds: nothing of the image, a part, or all
    pmic,        \* firmware version of the PMIC, 0 when it holds none
    fault        \* history: "some" when what the backend cannot help failed

vars == << pc, line, opens, toBackend, toUi, usbChecked, ui, asked, card, gz,
           hex, dd, target, image, pmic, fault >>

package == << gz, hex >>
writing == << dd, target, image >>
talk == << line, opens, toBackend, toUi, usbChecked >>
people == << ui, asked, card >>

Ended == dd \in {"done", "failed"}
Holds(pipe, text) == \E i \in 1 .. Len(pipe) : pipe[i] = text

\* The first word of a shell's redirections is opened first.  Opening either
\* end of a pipe waits for the other end.
Init ==
    /\ pc = "open" /\ line = "none"
    /\ opens = [backend |-> << "to-update-backend", "to-update-ui" >>,
                ui |-> << "to-update-backend", "to-update-ui" >>]
    /\ toBackend = << >> /\ toUi = << >> /\ usbChecked = 0
    /\ ui = "checking" /\ asked = 0
    /\ card \in {"in", "mounted", "empty"}
    /\ gz \in {"good", "bad"} /\ hex \in {"good", "missing"}
    /\ dd = "none" /\ target = "none" /\ image = "none"
    /\ pmic \in PmicVersion
    /\ fault = IF gz = "bad" THEN "some" ELSE "none"

-----------------------------------------------------------------------------
(* The backend.                                                            *)

\* Fault: the interface opens the pipe it reads first.
Open_Swapped ==
    /\ pc = "open" /\ opens.backend # << >> /\ opens.ui # << >>
    /\ Head(opens.backend) = opens.ui[Len(opens.ui)]
    /\ opens' = [side \in {"backend", "ui"} |-> Tail(opens[side])]
    /\ pc' = IF Len(opens.backend) = 1 THEN "read" ELSE "open"
    /\ UNCHANGED << line, toBackend, toUi, usbChecked, people, package, writing, pmic, fault >>

Open ==
    /\ pc = "open" /\ opens.backend # << >> /\ opens.ui # << >>
    /\ Head(opens.backend) = Head(opens.ui)
    /\ opens' = [side \in {"backend", "ui"} |-> Tail(opens[side])]
    /\ pc' = IF Len(opens.backend) = 1 THEN "read" ELSE "open"
    /\ UNCHANGED << line, toBackend, toUi, usbChecked, people, package, writing, pmic, fault >>

\* echo of some lines: it waits for room in the pipe, and is killed by SIGPIPE
\* when the interface has gone.
Echo(lines, next) ==
    \/ /\ ui # "dead" /\ Len(toUi) + Len(lines) <= PipeCap
       /\ toUi' = toUi \o lines /\ pc' = next
    \/ /\ ui = "dead" /\ pc' = "dead" /\ UNCHANGED toUi

NextLine == IF toBackend = << >> THEN "none" ELSE Head(toBackend)

\* Fault: the last loop ends with the first read that times out.
Read_OrEnd ==
    /\ pc \in {"read", "wait"}
    /\ line' = NextLine
    /\ toBackend' = IF toBackend = << >> THEN << >> ELSE Tail(toBackend)
    /\ pc' = CASE pc = "read" /\ line' = "Syscheck" -> "syscheck"
               [] pc = "read" /\ line' = "Start" -> "umount"
               [] pc = "wait" /\ line' = "PowerDown" -> "shutdown"
               [] pc = "wait" /\ line' = "none" -> "dead"
               [] OTHER -> pc
    /\ UNCHANGED << opens, toUi, usbChecked, people, package, writing, pmic, fault >>

\* read -t 1: a line, or nothing after a second or at the end of file.
Read ==
    /\ pc \in {"read", "wait"}
    /\ line' = NextLine
    /\ toBackend' = IF toBackend = << >> THEN << >> ELSE Tail(toBackend)
    /\ pc' = CASE pc = "read" /\ line' = "Syscheck" -> "syscheck"
               [] pc = "read" /\ line' = "Start" -> "umount"
               [] pc = "wait" /\ line' = "PowerDown" -> "shutdown"
               [] OTHER -> pc
    /\ UNCHANGED << opens, toUi, usbChecked, people, package, writing, pmic, fault >>

\* The state of the top slot; with the first question, also the checksums.
Syscheck ==
    /\ pc = "syscheck"
    /\ Echo(IF usbChecked = 1 THEN << "TopSD" >> ELSE << "TopSD", "USBCheck" >>, "read")
    /\ usbChecked' = 1
    /\ UNCHANGED << line, opens, toBackend, people, package, writing, pmic, fault >>

\* umount, which fails when the card is in use, by this script for one, if the
\* package is on it; then the test for the firmware file of the PMIC.  What the
\* script says about the PMIC also goes to the interface.
Umount ==
    /\ pc = "umount"
    /\ card' \in IF card = "mounted" THEN {"in", "mounted"} ELSE {card}
    /\ IF hex = "missing" THEN pc' = "fork" /\ UNCHANGED toUi
       ELSE Echo(<< "Text" >>, "pmic")
    /\ UNCHANGED << line, opens, toBackend, usbChecked, ui, asked, package, writing, pmic, fault >>

\* The version is new enough, or pcUtil -v gave no number to compare.
PmicSkip ==
    /\ pc = "pmic" /\ Echo(<< "Text" >>, "fork")
    /\ UNCHANGED << line, opens, toBackend, usbChecked, people, package, writing, pmic, fault >>

\* Fault: -le for -lt.
PmicOld_OrEqual ==
    /\ pc = "pmic" /\ pmic <= PMICHEXVERSION /\ Echo(<< "Text" >>, "flash")
    /\ UNCHANGED << line, opens, toBackend, usbChecked, people, package, writing, pmic, fault >>

PmicOld ==
    /\ pc = "pmic" /\ pmic < PMICHEXVERSION /\ Echo(<< "Text" >>, "flash")
    /\ UNCHANGED << line, opens, toBackend, usbChecked, people, package, writing, pmic, fault >>

\* pcUtil -u erases the firmware and writes the new one.  It may fail before the one
\* and between the two, and nothing looks at its status.
FlashErase ==
    /\ pc = "flash"
    /\ \/ pc' = "flashing" /\ pmic' = 0
       \/ pc' = "fork" /\ UNCHANGED pmic
    /\ UNCHANGED << talk, people, package, writing, fault >>

FlashWrite ==
    /\ pc = "flashing" /\ pc' = "fork"
    /\ pmic' \in {0, PMICHEXVERSION}
    /\ UNCHANGED << talk, people, package, writing, fault >>

\* zcat ... | dd ... &: the shell forks; dd is not yet what killall looks for.
Fork ==
    /\ pc = "fork" /\ pc' = "poll"
    /\ dd' = "forked"
    /\ UNCHANGED << talk, people, package, target, image, pmic, fault >>

\* Fault: the loop is left after the first signal.
Poll_Once ==
    /\ pc = "poll" /\ (StartsInTime => dd \notin {"forked", "execed"})
    /\ pc' = "written"
    /\ UNCHANGED << talk, people, package, writing, pmic, fault >>

\* killall -USR1 dd: a dd that has not set up its handler dies of the signal.
\* Another one reports to its standard error, which is the pipe; while that is
\* full the report is pending.
SignalDd ==
    /\ \/ /\ dd = "running" /\ ui # "dead"
          /\ toUi' = IF Len(toUi) < PipeCap THEN Append(toUi, "Statistics") ELSE toUi
          /\ UNCHANGED << pc, dd, fault >>
       \/ /\ dd = "execed" \/ (dd = "running" /\ ui = "dead")
          /\ dd' = "failed" /\ fault' = "some"
          /\ UNCHANGED << pc, toUi >>
       \/ /\ dd \in {"forked", "done", "failed"}
          /\ pc' = "written"
          /\ UNCHANGED << toUi, dd, fault >>
    /\ UNCHANGED << line, opens, toBackend, usbChecked, people, package, target, image, pmic >>

\* Fault: no sleep between the start of dd and the first signal.
Poll_NoSleep == pc = "poll" /\ SignalDd

Poll == pc = "poll" /\ (StartsInTime => dd \notin {"forked", "execed"}) /\ SignalDd

\* Fault: the line is not sent.
WriteDone_Silent ==
    /\ pc = "written" /\ pc' = "wait"
    /\ UNCHANGED << talk, people, package, writing, pmic, fault >>

WriteDone ==
    /\ pc = "written" /\ Echo(<< "WriteDone" >>, "wait")
    /\ UNCHANGED << line, opens, toBackend, usbChecked, people, package, writing, pmic, fault >>

Shutdown ==
    /\ pc = "shutdown" /\ pc' = "off"
    /\ UNCHANGED << talk, people, package, writing, pmic, fault >>

Backend == Read \/ Syscheck \/ Umount \/ PmicSkip \/ PmicOld \/ FlashErase
           \/ FlashWrite \/ Fork \/ Poll \/ WriteDone \/ Shutdown

-----------------------------------------------------------------------------
(* zcat | dd.                                                              *)

Exec ==
    /\ dd = "forked" /\ dd' = "execed"
    /\ UNCHANGED << pc, talk, people, package, target, image, pmic, fault >>

\* dd creates /dev/mmcblk1 as a file when there is no card, and writes below
\* the file systems of one that is mounted.
OpenTarget ==
    /\ dd = "execed" /\ dd' = "running"
    /\ IF card = "empty" THEN target' = "file" /\ UNCHANGED image
                         ELSE target' = "card" /\ image' = "part"
    /\ fault' = IF card = "in" THEN fault ELSE "some"
    /\ UNCHANGED << pc, talk, people, package, pmic >>

\* At the end of its input dd is content, whatever zcat thought of the archive
\* and whatever a mounted file system wrote over the image.
Finish ==
    /\ dd = "running" /\ target # "gone" /\ dd' = "done"
    /\ \/ image' = IF target = "card" /\ gz = "good" THEN "all" ELSE image
       \/ card = "mounted" /\ UNCHANGED image
    /\ UNCHANGED << pc, talk, people, package, target, pmic, fault >>

\* The card, or in /dev the memory, takes no more.
WriteError ==
    /\ dd = "running" /\ dd' = "failed" /\ fault' = "some"
    /\ UNCHANGED << pc, talk, people, package, target, image, pmic >>

Writer == Exec \/ OpenTarget \/ Finish \/ WriteError

-----------------------------------------------------------------------------
(* The interface and its user.                                             *)

Send(text) ==
    /\ opens.ui = << >> /\ Len(toBackend) < PipeCap
    /\ toBackend' = Append(toBackend, text)
    /\ UNCHANGED << pc, line, opens, toUi, usbChecked, card, package, writing, pmic, fault >>

SendSyscheck == ui = "checking" /\ asked < MaxSyscheck /\ asked' = asked + 1
                /\ Send("Syscheck") /\ UNCHANGED ui
SendStart == ui = "checking" /\ ui' = "started" /\ Send("Start") /\ UNCHANGED asked
SendPowerDown == ui = "done" /\ Send("PowerDown") /\ UNCHANGED << ui, asked >>

\* Only WriteDone changes what the interface offers.
Receive ==
    /\ ui # "dead" /\ toUi # << >>
    /\ toUi' = Tail(toUi)
    /\ ui' = IF Head(toUi) = "WriteDone" THEN "done" ELSE ui
    /\ UNCHANGED << pc, line, opens, toBackend, usbChecked, asked, card, package, writing, pmic, fault >>

\* The interface crashes: nobody reads toUi, what it sent stays readable.
UiDies ==
    /\ opens.ui = << >> /\ ui # "dead" /\ ui' = "dead"
    /\ fault' = "some" /\ toUi' = << >>
    /\ UNCHANGED << pc, line, opens, toBackend, usbChecked, asked, card, package, writing, pmic >>

\* The user takes the card out or puts one in; one with a file system is mounted.
MoveCard ==
    /\ card' \in IF card = "empty" THEN {"in", "mounted"} ELSE {"empty"}
    /\ IF target = "card" /\ dd = "running"
         THEN target' = "gone" /\ fault' = "some"
         ELSE UNCHANGED << target, fault >>
    /\ UNCHANGED << pc, talk, ui, asked, package, dd, image, pmic >>

Interface == SendSyscheck \/ SendStart \/ SendPowerDown \/ Receive

Next == pc # "off" /\ (Open \/ Backend \/ Writer \/ Interface \/ UiDies \/ MoveCard)

\* All processes are scheduled.  The user need not press anything, and the
\* interface need not die; it does read what it is sent.
Spec == /\ Init /\ [][Next]_vars
        /\ WF_vars(pc # "off" /\ Open) /\ WF_vars(pc # "off" /\ Backend)
        /\ WF_vars(pc # "off" /\ Writer) /\ WF_vars(pc # "off" /\ Receive)

-----------------------------------------------------------------------------
Lines == {"Syscheck", "Start", "PowerDown"}
Answers == {"TopSD", "USBCheck", "Text", "Statistics", "WriteDone"}

TypeOK ==
    /\ pc \in {"open", "read", "syscheck", "umount", "pmic", "flash", "flashing", "fork",
               "poll", "written", "wait", "shutdown", "off", "dead"}
    /\ line \in Lines \cup {"none"}
    /\ toBackend \in Seq(Lines) /\ Len(toBackend) <= PipeCap
    /\ toUi \in Seq(Answers) /\ Len(toUi) <= PipeCap
    /\ usbChecked \in {0, 1} /\ card \in {"in", "mounted", "empty"} /\ fault \in {"none", "some"}
    /\ ui \in {"checking", "started", "done", "dead"}
    /\ asked \in 0 .. MaxSyscheck
    /\ gz \in {"good", "bad"} /\ hex \in {"good", "missing"}
    /\ dd \in {"none", "forked", "execed", "running", "done", "failed"}
    /\ target \in {"none", "card", "gone", "file"}
    /\ image \in {"none", "part", "all"}
    /\ pmic \in Nat

\* Once the user is told that writing is done, and when the camera is shut
\* down, dd no longer writes.
SafeToPowerOff == ui = "done" \/ pc \in {"shutdown", "off"} => Ended

\* What the user is told is done is the whole image, unless the archive, the
\* card, the interface or the start of dd failed.
WholeUnlessFault == ui = "done" /\ fault = "none" => image = "all"

\* The PMIC is programmed only over older firmware, and never beside dd, when
\* the user may already be asked to power off.
PmicBeforeImage == [][pmic' # pmic => pmic < PMICHEXVERSION /\ dd = "none"]_vars

\* The two processes open the pipes in orders that do not block each other.
BothConnect == <>(pc # "open")

\* Who presses Start learns that the writing ended, well or not.
WriteDoneDelivered == ui = "started" ~> ui \in {"done", "dead"}

\* Who presses PowerDown sees the camera go off, even if the interface dies.
PowerDownHonoured == Holds(toBackend, "PowerDown") ~> pc = "off"

\* A user who waits after Start is never forgotten: the line is still in the
\* pipe, the backend is at work on it, or its WriteDone is on its way.
StartIsServed ==
    ui = "started" =>
        \/ Holds(toBackend, "Start") \/ Holds(toUi, "WriteDone")
        \/ pc \in {"umount", "pmic", "flash", "flashing", "fork", "poll", "written"}

\* A PowerDown in the pipe has a backend that reads it, or has read one: it
\* has not ended, and is not in the loop that takes no notice of it.
PowerDownIsHeard ==
    Holds(toBackend, "PowerDown") => pc \in {"wait", "shutdown", "off"}

\* Neither side of the dialogue waits for something that is not to come.
NobodyWaitsInVain == StartIsServed /\ PowerDownIsHeard

\* How far the user's order to write is.
Stage ==
    CASE Ended -> "ended"
      [] dd \in {"forked", "execed", "running"} -> "writing"
      [] dd = "none" /\ (Holds(toBackend, "Start")
                         \/ pc \in {"umount", "pmic", "flash", "flashing", "fork"}) -> "placed"
      [] OTHER -> "none"

Word == INSTANCE Dialogue WITH
    screen <- ui, order <- Stage, whole <- image = "all", excused <- fault = "some",
    on <- pc # "off"

\* Seen by the user the pipes, the shell's processes and the polling by signal
\* are one order: nothing is programmed or written before Start, the PMIC only
\* over older firmware and never beside dd, the card once, and the end is told,
\* and the camera switched off, after it.
KeepsWord == Word!Spec

\* "unmount the SD card before writing the image"
CardUnmounted == dd = "running" /\ target = "card" => card # "mounted"

\* "If killall command errored out, dd has finished or errored out."
PollEndsWithDd == pc = "written" => Ended
=============================================================================
