----------------------------- MODULE AragoUpdate -----------------------------
(***************************************************************************)
(* The Arago updater, update.sh and update_real.sh: a shell script started *)
(* by camApp from a USB stick or SD card that checks the package, waits    *)
(* for camApp to stop, replaces /boot, unpacks the archive over the root   *)
(* file system, copies /boot to the boot partition, relinks the init       *)
(* scripts, flashes the power controller (PMIC) and reboots.               *)
(*                                                                         *)
(* Files are abstracted to whether they hold the old release, the new      *)
(* release, something torn, or nothing.  Every write goes to the page      *)
(* cache (cache); what a power cut leaves behind is decided by disk.  The  *)
(* script never calls sync, so the two agree again only after a reboot.    *)
(***************************************************************************)
EXTENDS Integers, Sequences

CONSTANTS
    Root,             \* files of the archive outside /boot
    Boot,             \* files of the archive under /boot
    Part,             \* the copies of Boot on the boot partition
    Logo,             \* ti_logo.bmp on the boot partition
    On,               \* On[b]: where cp puts the file b of /boot
    Link,             \* one element per service: all its links in /etc/rc?.d
    RcOrder,          \* the services in the order of the update-rc.d calls
    RcKind,           \* which update-rc.d calls the script makes for a service
    Package,          \* the packages a user may insert
    Timeout,          \* TIMEOUT, 100 in the code
    PMICHEXVERSION,   \* version of the firmware file, 7 in the code
    PmicVersion,      \* the PMIC versions in the field
    MissingIsFailed   \* md5sum -c ends the line of a missing file in FAILED

Tree == Root \cup Boot          \* what update.tgz holds
Path == Tree \cup Part \cup {Logo} \cup Link

Content == {"old", "new", "torn", "none"}
Whole == {"old", "new"}

Payload == {"update.tgz", "busy.raw", "pmic.hex"}

\* A package: the files its manifest lists (none when update.md5sum is not
\* there) and the state of each file of camUpdate/.
PackageType ==
    [manifest : SUBSET Payload, file : [Payload -> {"good", "bad", "missing"}]]

ASSUME PathAssumption ==
    /\ Boot \cap Root = {} /\ Tree \cap Part = {} /\ Tree # {}
    /\ Link \cap (Tree \cup Part) = {}
    /\ Logo \notin Tree \cup Part \cup Link
    /\ On \in [Boot -> Part]
    /\ \A p \in Part : \E b \in Boot : On[b] = p

ASSUME RcAssumption ==
    /\ RcOrder \in Seq(Link)
    /\ \A l \in Link : \E i \in 1 .. Len(RcOrder) : RcOrder[i] = l
    /\ \A i, j \in 1 .. Len(RcOrder) : RcOrder[i] = RcOrder[j] => i = j
    /\ RcKind \in [Link -> {"remove", "replace", "defaults"}]

ASSUME ValueAssumption ==
    /\ Package \subseteq PackageType
    /\ Timeout \in Nat
    /\ PMICHEXVERSION \in Nat \ {0}
    /\ PmicVersion \subseteq Nat
    /\ MissingIsFailed \in BOOLEAN

VARIABLES
    pc,        \* where the script is; "idle" and "off" when it does not run
    left,      \* what tar or cp has still to write
    rcPos,     \* index in RcOrder of the service being relinked
    timeout,   \* TIMEOUT
    grep_out,  \* grep_out # ""
    pkg,       \* the package of this run
    stick,     \* whether the stick is still "in"
    camApp,    \* "running", sent a signal ("termed", "killed"), or "gone"
    disk,      \* what storage holds
    cache,     \* what the running system sees
    pmic,      \* firmware version of the PMIC, 0 when it holds none
    spoiled,   \* history: something went wrong in this run
    damaged    \* history: ... in a run that no clean run has followed

vars == << pc, left, rcPos, timeout, grep_out, pkg, stick, camApp, disk,
           cache, pmic, spoiled, damaged >>

waitVars == << timeout, grep_out >>
history == << spoiled, damaged >>
world == << pkg, stick >>

\* From rm -rf /boot on, the file system is neither release until the end.
Installing == {"tar", "logo", "cp", "rcremove", "rcstart", "pmic", "flash",
               "flashing", "reboot"}
Checking == {"kill", "check", "ps", "test", "rmboot"}
Control == Checking \cup Installing \cup {"idle", "rejected", "dead", "off"}

Present(f) == stick = "in" /\ pkg.file[f] # "missing"

\* The file system of a camera as delivered, and of one with the new release.
Factory(d) ==
    /\ \A p \in Tree \cup Part : d[p] = "old"
    /\ \A l \in Link : RcKind[l] = "replace" => d[l] = "old"

\* The links of a "defaults" service are not part of it: update-rc.d leaves
\* links that exist alone, so what they hold depends on earlier releases.
Installed(d) ==
    /\ \A p \in Tree \cup Part : d[p] = "new"
    /\ d[Logo] = "none"
    /\ \A l \in Link : /\ RcKind[l] = "replace" => d[l] = "new"
                       /\ RcKind[l] = "remove" => d[l] = "none"

\* What the boot loader, init and camApp need to offer an update again.
Usable(d) ==
    /\ \A p \in Root \cup Part : d[p] \in Whole
    /\ \A l \in Link : RcKind[l] = "replace" => d[l] \in Whole

NoPackage == [manifest |-> {}, file |-> [f \in Payload |-> "missing"]]

Init ==
    /\ pc = "idle" /\ left = {} /\ rcPos = 1
    /\ timeout = Timeout /\ grep_out = FALSE
    /\ pkg = NoPackage /\ stick = "out"
    /\ camApp = "running"
    /\ disk \in {[p \in Path |-> IF p \in Link /\ RcKind[p] = "defaults"
                                   THEN dflt ELSE "old"] : dflt \in {"old", "none"}}
    /\ cache = disk
    /\ pmic \in PmicVersion
    /\ spoiled = FALSE /\ damaged = FALSE

-----------------------------------------------------------------------------
(* The start of the script, the checksums and the wait for camApp.         *)

\* The user chooses "Apply update": camApp runs update.sh in the background.
Apply ==
    /\ pc = "idle" /\ pc' = "kill"
    /\ pkg' \in Package /\ stick' = "in"
    /\ UNCHANGED << left, rcPos, waitVars, camApp, disk, cache, pmic, history >>

\* killall only sends the signal; camApp ends when it gets round to it.
KillCamApp ==
    /\ pc = "kill" /\ pc' = "check"
    /\ camApp' = "termed"
    /\ UNCHANGED << left, rcPos, waitVars, world, disk, cache, pmic, history >>

CamAppExits ==
    /\ camApp \in {"termed", "killed"} /\ camApp' = "gone"
    /\ UNCHANGED << pc, left, rcPos, waitVars, world, disk, cache, pmic, history >>

\* Fault: the pattern drops the line of the archive.
BadSums_NotArchive ==
    {f \in IF stick = "in" THEN pkg.manifest ELSE {} :
        f # "update.tgz" /\ pkg.file[f] = "bad"}

\* The lines of md5sum -c that grep 'FAILED$' keeps.  Without a manifest, and
\* on a stick that has been pulled, nothing is checked.
BadSums ==
    {f \in IF stick = "in" THEN pkg.manifest ELSE {} :
        \/ pkg.file[f] = "bad"
        \/ pkg.file[f] = "missing" /\ MissingIsFailed}

CheckReject ==
    /\ pc = "check" /\ BadSums # {}
    /\ pc' = "rejected"
    /\ UNCHANGED << left, rcPos, waitVars, world, camApp, disk, cache, pmic, history >>

\* Without busy.raw on the stick the script does not wait for camApp.
CheckPass ==
    /\ pc = "check" /\ BadSums = {}
    /\ pc' = IF Present("busy.raw") THEN "ps" ELSE "rmboot"
    /\ timeout' = Timeout
    /\ UNCHANGED << left, rcPos, grep_out, world, camApp, disk, cache, pmic, history >>

\* grep_out=$(ps | grep camApp): ps may also list the grep beside it.
Ps ==
    /\ pc = "ps" /\ pc' = "test"
    /\ grep_out' \in {camApp # "gone", TRUE}
    /\ UNCHANGED << left, rcPos, timeout, world, camApp, disk, cache, pmic, history >>

TestClear ==
    /\ pc = "test" /\ ~grep_out
    /\ pc' = "rmboot"
    /\ UNCHANGED << left, rcPos, waitVars, world, camApp, disk, cache, pmic, history >>

TestWait ==
    /\ pc = "test" /\ grep_out /\ timeout > 0
    /\ pc' = "ps" /\ timeout' = timeout - 1
    /\ UNCHANGED << left, rcPos, grep_out, world, camApp, disk, cache, pmic, history >>

\* Fault: the script goes on when TIMEOUT has run out.
TestKill_GivesUp ==
    /\ pc = "test" /\ grep_out /\ timeout = 0
    /\ pc' = "rmboot"
    /\ UNCHANGED << left, rcPos, waitVars, world, camApp, disk, cache, pmic, history >>

\* Fault: a second SIGTERM instead of SIGKILL.
TestKill_Term ==
    /\ pc = "test" /\ grep_out /\ timeout = 0
    /\ pc' = "ps"
    /\ UNCHANGED << left, rcPos, waitVars, world, camApp, disk, cache, pmic, history >>

TestKill ==
    /\ pc = "test" /\ grep_out /\ timeout = 0
    /\ pc' = "ps"
    /\ camApp' = IF camApp = "gone" THEN "gone" ELSE "killed"
    /\ UNCHANGED << left, rcPos, waitVars, world, disk, cache, pmic, history >>

-----------------------------------------------------------------------------
(* The installation.                                                       *)

RmBoot ==
    /\ pc = "rmboot" /\ pc' = "tar"
    /\ cache' = [p \in Path |-> IF p \in Boot THEN "none" ELSE cache[p]]
    /\ left' = Tree
    /\ UNCHANGED << rcPos, waitVars, world, camApp, disk, pmic, history >>

\* The order of the members is the archive's.  A damaged archive holds at
\* least one member that does not come out whole.
TarMember(p) ==
    /\ pc = "tar" /\ p \in left /\ Present("update.tgz")
    /\ pkg.file["update.tgz"] = "bad" => left # {p}
    /\ cache' = [cache EXCEPT ![p] = "new"]
    /\ left' = left \ {p}
    /\ UNCHANGED << pc, rcPos, waitVars, world, camApp, disk, pmic, history >>

\* No space left: tar reports it and goes on with the next member.
TarFull(p) ==
    /\ pc = "tar" /\ p \in left /\ Present("update.tgz")
    /\ cache' = [cache EXCEPT ![p] = "torn"]
    /\ left' = left \ {p}
    /\ spoiled' = TRUE
    /\ UNCHANGED << pc, rcPos, waitVars, world, camApp, disk, pmic, damaged >>

\* The archive breaks off inside a member: it is damaged, or the stick went.
TarBreaks(p) ==
    /\ pc = "tar" /\ p \in left
    /\ \/ pkg.file["update.tgz"] = "bad"
       \/ stick = "out" /\ pkg.file["update.tgz"] = "good"
    /\ cache' = [cache EXCEPT ![p] = "torn"]
    /\ left' = {} /\ spoiled' = TRUE
    /\ UNCHANGED << pc, rcPos, waitVars, world, camApp, disk, pmic, damaged >>

\* tar cannot open the archive, or read more of it.
TarNoArchive ==
    /\ pc = "tar" /\ left # {} /\ ~Present("update.tgz")
    /\ left' = {} /\ spoiled' = TRUE
    /\ UNCHANGED << pc, rcPos, waitVars, world, camApp, disk, cache, pmic, damaged >>

\* Whatever tar returned, the script goes on.
TarDone ==
    /\ pc = "tar" /\ left = {}
    /\ pc' = "logo"
    /\ UNCHANGED << left, rcPos, waitVars, world, camApp, disk, cache, pmic, history >>

\* cp /boot/*: the shell expands the pattern to what tar left there.
RemoveLogo ==
    /\ pc = "logo" /\ pc' = "cp"
    /\ cache' = [cache EXCEPT ![Logo] = "none"]
    /\ left' = {b \in Boot : cache[b] # "none"}
    /\ UNCHANGED << rcPos, waitVars, world, camApp, disk, pmic, history >>

CpFile(b) ==
    /\ pc = "cp" /\ b \in left
    /\ cache' = [cache EXCEPT ![On[b]] = cache[b]]
    /\ left' = left \ {b}
    /\ UNCHANGED << pc, rcPos, waitVars, world, camApp, disk, pmic, history >>

CpFull(b) ==
    /\ pc = "cp" /\ b \in left
    /\ cache' = [cache EXCEPT ![On[b]] = "torn"]
    /\ left' = left \ {b}
    /\ spoiled' = TRUE
    /\ UNCHANGED << pc, rcPos, waitVars, world, camApp, disk, pmic, damaged >>

\* Fault: cp is started in the background.
CpDone_Background ==
    /\ pc = "cp"
    /\ pc' = "rcremove" /\ rcPos' = 1
    /\ UNCHANGED << left, waitVars, world, camApp, disk, cache, pmic, history >>

CpDone ==
    /\ pc = "cp" /\ left = {}
    /\ pc' = "rcremove" /\ rcPos' = 1
    /\ UNCHANGED << left, waitVars, world, camApp, disk, cache, pmic, history >>

\* Fault: only the start calls, as for udhcpcd.
RcRemove_Skipped ==
    /\ pc = "rcremove" /\ rcPos <= Len(RcOrder)
    /\ pc' = "rcstart"
    /\ UNCHANGED << left, rcPos, waitVars, world, camApp, disk, cache, pmic, history >>

\* update-rc.d -f <service> remove; not called for a "defaults" service.
RcRemove ==
    /\ pc = "rcremove" /\ rcPos <= Len(RcOrder)
    /\ pc' = "rcstart"
    /\ cache' = IF RcKind[RcOrder[rcPos]] = "defaults" THEN cache
                ELSE [cache EXCEPT ![RcOrder[rcPos]] = "none"]
    /\ UNCHANGED << left, rcPos, waitVars, world, camApp, disk, pmic, history >>

\* update-rc.d <service> start ... or defaults; not called for the services
\* that are only removed.  Links that exist in any form are left as they are.
RcStart ==
    /\ pc = "rcstart" /\ pc' = "rcremove"
    /\ cache' = IF \/ RcKind[RcOrder[rcPos]] = "remove"
                   \/ cache[RcOrder[rcPos]] # "none" THEN cache
                ELSE [cache EXCEPT ![RcOrder[rcPos]] = "new"]
    /\ rcPos' = rcPos + 1
    /\ UNCHANGED << left, waitVars, world, camApp, disk, pmic, history >>

RcDone ==
    /\ pc = "rcremove" /\ rcPos > Len(RcOrder)
    /\ pc' = "pmic"
    /\ UNCHANGED << left, rcPos, waitVars, world, camApp, disk, cache, pmic, history >>

-----------------------------------------------------------------------------
(* The power controller, and the end.                                      *)

\* No firmware file, a version that is new enough, or no answer: the daemon
\* just killed may still hold the port, and [ "" -lt 7 ] is an error.
PmicSkip ==
    /\ pc = "pmic" /\ pc' = "reboot"
    /\ UNCHANGED << left, rcPos, waitVars, world, camApp, disk, cache, pmic, history >>

\* Fault: -le for -lt.
PmicOld_OrEqual ==
    /\ pc = "pmic" /\ Present("pmic.hex") /\ pmic <= PMICHEXVERSION
    /\ pc' = "flash"
    /\ UNCHANGED << left, rcPos, waitVars, world, camApp, disk, cache, pmic, history >>

PmicOld ==
    /\ pc = "pmic" /\ Present("pmic.hex") /\ pmic < PMICHEXVERSION
    /\ pc' = "flash"
    /\ UNCHANGED << left, rcPos, waitVars, world, camApp, disk, cache, pmic, history >>

\* pcUtil -u erases, then writes what it reads from the firmware file.
FlashErase ==
    /\ pc = "flash" /\ pc' = "flashing"
    /\ pmic' = 0
    /\ UNCHANGED << left, rcPos, waitVars, world, camApp, disk, cache, history >>

FlashWrite ==
    /\ pc = "flashing" /\ pc' = "reboot"
    /\ pmic' = IF Present("pmic.hex") /\ pkg.file["pmic.hex"] = "good"
                 THEN PMICHEXVERSION ELSE 0
    /\ UNCHANGED << left, rcPos, waitVars, world, camApp, disk, cache, history >>

\* With the power every process is gone, and the stick of the next run may
\* be another one.
Down ==
    /\ pc' = "off" /\ camApp' = "gone"
    /\ left' = {} /\ rcPos' = 1 /\ timeout' = Timeout /\ grep_out' = FALSE
    /\ pkg' = NoPackage /\ stick' = "out" /\ spoiled' = FALSE
    /\ UNCHANGED pmic

\* Fault: reboot -f, which leaves the page cache where it is.
Reboot_Forced ==
    /\ pc \in {"rejected", "reboot"} /\ Down
    /\ disk' \in {cache, disk} /\ cache' = disk'
    /\ damaged' = IF pc = "reboot" THEN spoiled ELSE damaged

\* An orderly shutdown writes the page cache back.
Reboot ==
    /\ pc \in {"rejected", "reboot"} /\ Down
    /\ disk' = cache /\ UNCHANGED cache
    /\ damaged' = IF pc = "reboot" THEN spoiled ELSE damaged

-----------------------------------------------------------------------------
(* The environment.                                                        *)

PullStick ==
    /\ pc \notin {"idle", "off"} /\ stick = "in"
    /\ stick' = "out"
    /\ UNCHANGED << pc, left, rcPos, waitVars, pkg, camApp, disk, cache, pmic, history >>

\* The shell reads the script from the stick too: without it it may stop.
ScriptDies ==
    /\ pc \in Checking \cup Installing /\ stick = "out"
    /\ pc' = "dead"
    /\ spoiled' = (spoiled \/ pc \in Installing)
    /\ UNCHANGED << left, rcPos, waitVars, world, camApp, disk, cache, pmic, damaged >>

\* A power cut keeps of each unsaved write all, nothing or a part.
PowerCut ==
    /\ pc # "off" /\ Down
    /\ \E lost \in SUBSET {p \in Path : cache[p] # disk[p]} :
         \E torn \in SUBSET {p \in lost : cache[p] # "none"} :
           disk' = [p \in Path |-> IF p \in torn THEN "torn"
                                   ELSE IF p \in lost THEN disk[p] ELSE cache[p]]
    /\ cache' = disk'
    /\ damaged' = (damaged \/ spoiled \/ pc \in Installing)

PowerOn ==
    /\ pc = "off" /\ Usable(disk)
    /\ pc' = "idle" /\ camApp' = "running"
    /\ UNCHANGED << left, rcPos, waitVars, world, disk, cache, pmic, history >>

-----------------------------------------------------------------------------
Wait == KillCamApp \/ CheckReject \/ CheckPass \/ Ps \/ TestClear \/ TestWait \/ TestKill
Tar == TarNoArchive \/ TarDone \/ \E p \in Tree : TarMember(p) \/ TarFull(p) \/ TarBreaks(p)
Cp == RemoveLogo \/ CpDone \/ \E b \in Boot : CpFile(b) \/ CpFull(b)
Rc == RcRemove \/ RcStart \/ RcDone
Pmic == PmicSkip \/ PmicOld \/ FlashErase \/ FlashWrite

Script == Wait \/ RmBoot \/ Tar \/ Cp \/ Rc \/ Pmic \/ Reboot
Environment == Apply \/ CamAppExits \/ PullStick \/ ScriptDies \/ PowerCut \/ PowerOn

Next == Script \/ Environment

\* The scheduler runs the script and the kernel delivers SIGKILL.  That ps
\* runs again and again without the grep beside it is a race of two
\* processes the shell starts together; it is assumed to be won some time.
Fairness ==
    /\ WF_vars(Script)
    /\ SF_vars(Ps /\ ~grep_out')
    /\ WF_vars(camApp = "killed" /\ CamAppExits)

Spec == Init /\ [][Next]_vars
FairSpec == Spec /\ Fairness

-----------------------------------------------------------------------------
TypeOK ==
    /\ pc \in Control
    /\ left \in SUBSET Tree
    /\ rcPos \in Nat \ {0}
    /\ timeout \in 0 .. Timeout
    /\ grep_out \in BOOLEAN
    /\ pkg \in PackageType
    /\ stick \in {"in", "out"}
    /\ camApp \in {"running", "termed", "killed", "gone"}
    /\ disk \in [Path -> Content]
    /\ cache \in [Path -> Content]
    /\ pmic \in Nat
    /\ spoiled \in BOOLEAN
    /\ damaged \in BOOLEAN

\* update_real.sh leaves one release on storage, the old or the new, unless
\* power, stick, space or an unchecked archive failed between rm -rf /boot
\* and the reboot; a run that met none of these repairs an earlier failure.
OneRelease == ~damaged => Factory(disk) \/ Installed(disk)

\* Whatever an interrupted run left behind, a run of the script from the top
\* that meets no failure has installed everything when it calls reboot.
RetryRepairs == pc = "reboot" /\ ~spoiled => Installed(cache)

\* With busy.raw on the stick nothing is replaced while camApp still runs,
\* although killall does not wait and ps may list the grep beside it.
CamAppStopped ==
    pc \in Installing /\ Present("busy.raw") => camApp = "gone"

\* A damaged archive that the manifest lists is never unpacked.
DamagedArchiveRefused ==
    pc \in Installing /\ stick = "in" /\ pkg.file["update.tgz"] = "bad"
        => "update.tgz" \notin pkg.manifest

\* The PMIC is programmed only over older firmware, and only once the
\* software that belongs to the new firmware is in place.
PmicAfterSoftware ==
    [][pmic' # pmic => /\ pmic < PMICHEXVERSION
                       /\ spoiled \/ Installed(cache)]_vars

\* What a camera that is switched off now would boot from, and whether the
\* script is between rm -rf /boot and its end.
Storage ==
    CASE Installed(disk) -> "new"
      [] Factory(disk) -> "old"
      [] OTHER -> "broken"

Session ==
    CASE pc \in Installing /\ ~spoiled -> "open"
      [] spoiled -> "failed"
      [] OTHER -> "none"

Promise == INSTANCE Release WITH
    storage <- Storage, session <- Session, intact <- ~damaged

\* Seen from storage an update happens when the camera goes down: up to then
\* nothing has changed, a finished installation is whole, and no sequence of
\* failures, power cuts and repeated runs brings the old release back.
KeepsPromise == Promise!Spec

\* Where the script stands, in the order of its lines.
Rank(p) ==
    [kill |-> 1, check |-> 2, ps |-> 3, test |-> 4, rmboot |-> 5, tar |-> 6,
     logo |-> 7, cp |-> 8, rcremove |-> 9, rcstart |-> 10, pmic |-> 11,
     flash |-> 12, flashing |-> 13, reboot |-> 14, rejected |-> 15, dead |-> 16][p]

\* The script goes back only in its two loops, and never for nothing: every
\* turn of the wait for camApp uses up some of TIMEOUT or has sent SIGKILL, and
\* every turn of the update-rc.d calls is for a service not yet relinked.
ScriptGetsOn ==
    [][{pc, pc'} \cap {"idle", "off"} = {} =>
         \/ UNCHANGED << pc, left, rcPos, waitVars >>
         \/ Rank(pc') > Rank(pc)
         \/ pc' = pc /\ left' \subseteq left /\ left' # left
         \/ /\ pc = "rcstart" /\ pc' = "rcremove"
            /\ rcPos <= Len(RcOrder) /\ rcPos' = rcPos + 1
         \/ /\ pc = "test" /\ pc' = "ps"
            /\ timeout' < timeout \/ camApp' \in {"killed", "gone"}]_vars

\* A script that has started ends: the camera goes down for its reboot, or
\* the script lost its stick.  In particular the wait for camApp ends.
UpdateEnds == pc = "kill" ~> pc \in {"off", "dead"}

\* The script says "completed!" before it reboots.
CompletedMeansInstalled == pc = "reboot" => Installed(cache)
=============================================================================
