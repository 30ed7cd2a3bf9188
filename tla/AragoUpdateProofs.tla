-------------------------- MODULE AragoUpdateProofs --------------------------
(***************************************************************************)
(* Safety of AragoUpdate for every archive, every list of services, every  *)
(* set of packages and every TIMEOUT.                                      *)
(***************************************************************************)
EXTENDS AragoUpdate, TLAPS

\* All constants' assumptions are used throughout.
LEMMA Constants ==
    /\ Path = Root \cup Boot \cup Part \cup {Logo} \cup Link
    /\ NoPackage \in PackageType
    /\ \A i \in 1 .. Len(RcOrder) : RcOrder[i] \in Link
    /\ Len(RcOrder) \in Nat
BY PathAssumption, RcAssumption
   DEF Path, Tree, NoPackage, PackageType, Payload

\* Every variable keeps its type.
LEMMA TypeInit == Init => TypeOK
<1> SUFFICES ASSUME Init PROVE TypeOK
    OBVIOUS
<1>1. disk \in [Path -> Content] /\ cache \in [Path -> Content]
  <2>1. PICK dflt \in {"old", "none"} :
          disk = [p \in Path |-> IF p \in Link /\ RcKind[p] = "defaults"
                                   THEN dflt ELSE "old"]
        BY DEF Init
  <2> QED BY <2>1 DEF Init, Content
<1>2. NoPackage \in PackageType
      BY Constants
<1>3. grep_out \in BOOLEAN /\ spoiled \in BOOLEAN /\ damaged \in BOOLEAN
      BY Zenon DEF Init
<1> QED BY <1>1, <1>2, <1>3, ValueAssumption DEF Init, TypeOK, Control

LEMMA TypeStep == TypeOK /\ [Next]_vars => TypeOK'
<1> SUFFICES ASSUME TypeOK, [Next]_vars PROVE TypeOK'
    OBVIOUS
<1> USE DEF TypeOK, waitVars, history, world, Tree
<1>1. CASE Wait
  <2> USE <1>1, ValueAssumption DEF Control, Checking
  <2>1. CASE KillCamApp   BY <2>1 DEF KillCamApp
  <2>2. CASE CheckReject  BY <2>2 DEF CheckReject
  <2>3. CASE CheckPass    BY <2>3 DEF CheckPass
  <2>4. CASE Ps           BY <2>4 DEF Ps
  <2>5. CASE TestClear    BY <2>5 DEF TestClear
  <2>6. CASE TestWait     BY <2>6 DEF TestWait
  <2>7. CASE TestKill     BY <2>7 DEF TestKill
  <2> QED BY <2>1, <2>2, <2>3, <2>4, <2>5, <2>6, <2>7 DEF Wait
<1>2. CASE RmBoot
  BY <1>2, PathAssumption DEF RmBoot, Control, Installing, Content
<1>3. CASE Tar
  <2> USE DEF Control, Installing, Content
  <2>1. CASE TarNoArchive  BY <2>1 DEF TarNoArchive
  <2>2. CASE TarDone       BY <2>2 DEF TarDone
  <2>3. ASSUME NEW p \in Tree, TarMember(p) PROVE TypeOK'
        BY <2>3 DEF TarMember
  <2>4. ASSUME NEW p \in Tree, TarFull(p) PROVE TypeOK'
        BY <2>4 DEF TarFull
  <2>5. ASSUME NEW p \in Tree, TarBreaks(p) PROVE TypeOK'
        BY <2>5 DEF TarBreaks
  <2> QED BY <1>3, <2>1, <2>2, <2>3, <2>4, <2>5 DEF Tar
<1>4. CASE Cp
  <2> USE DEF Control, Installing, Content
  <2>1. CASE RemoveLogo  BY <2>1 DEF RemoveLogo
  <2>2. CASE CpDone      BY <2>2 DEF CpDone
  <2>3. ASSUME NEW b \in Boot, CpFile(b) PROVE TypeOK'
        BY <2>3, PathAssumption DEF CpFile, Path
  <2>4. ASSUME NEW b \in Boot, CpFull(b) PROVE TypeOK'
        BY <2>4 DEF CpFull
  <2> QED BY <1>4, <2>1, <2>2, <2>3, <2>4 DEF Cp
<1>5. CASE Rc
  <2> USE DEF Control, Installing, Content
  <2>1. CASE RcRemove  BY <2>1 DEF RcRemove
  <2>2. CASE RcStart
    <3>1. cache' \in [Path -> Content]
          BY <2>2 DEF RcStart
    <3> QED BY <2>2, <3>1 DEF RcStart
  <2>3. CASE RcDone    BY <2>3 DEF RcDone
  <2> QED BY <1>5, <2>1, <2>2, <2>3 DEF Rc
<1>6. CASE Pmic
  BY <1>6, ValueAssumption DEF Pmic, PmicSkip, PmicOld, FlashErase, FlashWrite,
     Control, Installing
<1>7. ASSUME Down PROVE /\ pc' \in Control /\ left' \in SUBSET Tree
                        /\ rcPos' \in Nat \ {0} /\ timeout' \in 0 .. Timeout
                        /\ grep_out' \in BOOLEAN /\ pkg' \in PackageType
                        /\ stick' \in {"in", "out"}
                        /\ camApp' \in {"running", "termed", "killed", "gone"}
                        /\ pmic' \in Nat /\ spoiled' \in BOOLEAN
  <2>1. grep_out' \in BOOLEAN /\ spoiled' \in BOOLEAN /\ pkg' \in PackageType
        BY <1>7, Constants, Zenon DEF Down
  <2> QED BY <1>7, <2>1, ValueAssumption DEF Down, Control
<1>8. CASE Reboot
  BY <1>7, <1>8 DEF Reboot
<1>9. CASE Apply \/ CamAppExits \/ PullStick \/ ScriptDies \/ PowerOn
  <2> USE ValueAssumption DEF Control, Checking, Installing
  <2>1. CASE Apply        BY <2>1 DEF Apply
  <2>2. CASE CamAppExits  BY <2>2 DEF CamAppExits
  <2>3. CASE PullStick    BY <2>3 DEF PullStick
  <2>4. CASE ScriptDies   BY <2>4 DEF ScriptDies
  <2>5. CASE PowerOn      BY <2>5 DEF PowerOn
  <2> QED BY <1>9, <2>1, <2>2, <2>3, <2>4, <2>5
<1>10. CASE PowerCut
  <2>1. disk' \in [Path -> Content]
        BY <1>10 DEF PowerCut, Content
  <2>2. cache' = disk' /\ damaged' \in BOOLEAN /\ Down
        BY <1>10 DEF PowerCut
  <2> QED BY <1>7, <2>1, <2>2
<1>11. CASE UNCHANGED vars
  BY <1>11 DEF vars
<1> QED
  BY <1>1, <1>2, <1>3, <1>4, <1>5, <1>6, <1>8, <1>9, <1>10, <1>11
     DEF Next, Script, Environment

\* Type correctness of every reachable state of the updater.
THEOREM TypeCorrect == Spec => []TypeOK
BY TypeInit, TypeStep, PTL DEF Spec

-----------------------------------------------------------------------------
(* What makes the safety properties inductive.                             *)

\* Outside the installation the page cache holds nothing that storage does
\* not: before rm -rf /boot the script writes no file.
Saved == pc \notin Installing /\ (pc = "dead" => ~spoiled) => cache = disk

LinkDone(d, l) ==
    /\ RcKind[l] = "replace" => d[l] = "new"
    /\ RcKind[l] = "remove" => d[l] = "none"

\* What an unspoiled run has done when it reaches each of its points.
TreeDone ==
    /\ pc = "tar" => \A p \in Tree \ left : cache[p] = "new"
    /\ pc \in Installing \ {"tar"} => \A p \in Tree : cache[p] = "new"
PartDone ==
    /\ pc = "cp" => \A b \in Boot \ left : cache[On[b]] = "new"
    /\ pc \in Installing \ {"tar", "logo"} => cache[Logo] = "none"
    /\ pc \in Installing \ {"tar", "logo", "cp"} => \A p \in Part : cache[p] = "new"
LinksDone ==
    /\ pc \in {"rcremove", "rcstart"} =>
         \A i \in 1 .. Len(RcOrder) : i < rcPos => LinkDone(cache, RcOrder[i])
    /\ pc = "rcstart" =>
         /\ rcPos <= Len(RcOrder)
         /\ RcKind[RcOrder[rcPos]] # "defaults" => cache[RcOrder[rcPos]] = "none"
    /\ pc \in {"pmic", "flash", "flashing", "reboot"} =>
         \A l \in Link : LinkDone(cache, l)
Progress == ~spoiled => TreeDone /\ PartDone /\ LinksDone

\* grep_out is empty only when camApp has gone, and it never comes back.
Stopped ==
    /\ pc = "test" /\ ~grep_out => camApp = "gone"
    /\ pc \in Installing \cup {"rmboot"} /\ Present("busy.raw") => camApp = "gone"

\* Past the checksums a damaged archive is one the manifest does not list.
Refused ==
    pc \in {"ps", "test", "rmboot"} \cup Installing /\ stick = "in"
        /\ pkg.file["update.tgz"] = "bad" => "update.tgz" \notin pkg.manifest

PmicIsOld == pc \in {"flash", "flashing"} => pmic < PMICHEXVERSION

Inv == Saved /\ Progress /\ OneRelease /\ Stopped /\ Refused /\ PmicIsOld

LEMMA StoppedStep == TypeOK /\ Stopped /\ [Next]_vars => Stopped'
<1> SUFFICES ASSUME TypeOK, Stopped, [Next]_vars PROVE Stopped'
    OBVIOUS
<1> USE DEF TypeOK, Stopped, Present, waitVars, history, world, Installing
<1>1. CASE Wait
  <2>1. CASE Ps
    <3>1. pc' = "test" /\ (~grep_out' => camApp' = "gone")
          BY <2>1, Zenon DEF Ps
    <3> QED BY <3>1
  <2>2. CASE TestClear
        BY <2>2 DEF TestClear
  <2> QED BY <1>1, <2>1, <2>2
          DEF Wait, KillCamApp, CheckReject, CheckPass, TestWait, TestKill
<1>2. CASE RmBoot
  BY <1>2 DEF RmBoot
<1>3. CASE Tar
  BY <1>3 DEF Tar, TarNoArchive, TarDone, TarMember, TarFull, TarBreaks
<1>4. CASE Cp
  BY <1>4 DEF Cp, RemoveLogo, CpDone, CpFile, CpFull
<1>5. CASE Rc
  BY <1>5 DEF Rc, RcRemove, RcStart, RcDone
<1>6. CASE Pmic
  BY <1>6 DEF Pmic, PmicSkip, PmicOld, FlashErase, FlashWrite
<1>7. CASE Reboot \/ PowerCut
  BY <1>7 DEF Reboot, PowerCut, Down
<1>8. CASE Apply \/ CamAppExits \/ PullStick \/ ScriptDies \/ PowerOn
  BY <1>8 DEF Apply, CamAppExits, PullStick, ScriptDies, PowerOn
<1>9. CASE UNCHANGED vars
  BY <1>9 DEF vars
<1> QED
  BY <1>1, <1>2, <1>3, <1>4, <1>5, <1>6, <1>7, <1>8, <1>9
     DEF Next, Script, Environment

LEMMA RefusedStep == TypeOK /\ Refused /\ [Next]_vars => Refused'
<1> SUFFICES ASSUME TypeOK, Refused, [Next]_vars PROVE Refused'
    OBVIOUS
<1> USE DEF TypeOK, Refused, waitVars, history, world, Installing
<1>1. CASE CheckPass
  BY <1>1 DEF CheckPass, BadSums
<1>2. CASE Wait /\ ~CheckPass
  BY <1>2 DEF Wait, KillCamApp, CheckReject, Ps, TestClear, TestWait, TestKill
<1>3. CASE RmBoot \/ Tar
  BY <1>3 DEF RmBoot, Tar, TarNoArchive, TarDone, TarMember, TarFull, TarBreaks
<1>4. CASE Cp \/ Rc
  BY <1>4 DEF Cp, RemoveLogo, CpDone, CpFile, CpFull, Rc, RcRemove, RcStart, RcDone
<1>5. CASE Pmic
  BY <1>5 DEF Pmic, PmicSkip, PmicOld, FlashErase, FlashWrite
<1>6. CASE Reboot \/ PowerCut
  BY <1>6 DEF Reboot, PowerCut, Down
<1>7. CASE Apply \/ CamAppExits \/ PullStick \/ ScriptDies \/ PowerOn
  BY <1>7 DEF Apply, CamAppExits, PullStick, ScriptDies, PowerOn
<1>8. CASE UNCHANGED vars
  BY <1>8 DEF vars
<1> QED
  BY <1>1, <1>2, <1>3, <1>4, <1>5, <1>6, <1>7, <1>8
     DEF Next, Script, Environment

LEMMA PmicStep == TypeOK /\ PmicIsOld /\ [Next]_vars => PmicIsOld'
<1> SUFFICES ASSUME TypeOK, PmicIsOld, [Next]_vars PROVE PmicIsOld'
    OBVIOUS
<1> USE ValueAssumption DEF TypeOK, PmicIsOld, waitVars, history, world
<1>1. CASE Pmic
  BY <1>1 DEF Pmic, PmicSkip, PmicOld, FlashErase, FlashWrite
<1>2. CASE Wait \/ RmBoot
  BY <1>2 DEF Wait, KillCamApp, CheckReject, CheckPass, Ps, TestClear, TestWait,
              TestKill, RmBoot
<1>3. CASE Tar
  BY <1>3 DEF Tar, TarNoArchive, TarDone, TarMember, TarFull, TarBreaks
<1>4. CASE Cp \/ Rc
  BY <1>4 DEF Cp, RemoveLogo, CpDone, CpFile, CpFull, Rc, RcRemove, RcStart, RcDone
<1>5. CASE Reboot \/ PowerCut
  BY <1>5 DEF Reboot, PowerCut, Down
<1>6. CASE Apply \/ CamAppExits \/ PullStick \/ ScriptDies \/ PowerOn
  BY <1>6 DEF Apply, CamAppExits, PullStick, ScriptDies, PowerOn
<1>7. CASE UNCHANGED vars
  BY <1>7 DEF vars
<1> QED
  BY <1>1, <1>2, <1>3, <1>4, <1>5, <1>6, <1>7 DEF Next, Script, Environment

LEMMA SavedStep == TypeOK /\ Saved /\ [Next]_vars => Saved'
<1> SUFFICES ASSUME TypeOK, Saved, [Next]_vars PROVE Saved'
    OBVIOUS
<1> USE DEF TypeOK, Saved, waitVars, history, world, Installing
<1>1. CASE Wait
  BY <1>1 DEF Wait, KillCamApp, CheckReject, CheckPass, Ps, TestClear, TestWait,
              TestKill
<1>2. CASE RmBoot
  BY <1>2 DEF RmBoot
<1>3. CASE Tar
  BY <1>3 DEF Tar, TarNoArchive, TarDone, TarMember, TarFull, TarBreaks
<1>4. CASE Cp
  BY <1>4 DEF Cp, RemoveLogo, CpDone, CpFile, CpFull
<1>5. CASE Rc
  BY <1>5 DEF Rc, RcRemove, RcStart, RcDone
<1>6. CASE Pmic
  BY <1>6 DEF Pmic, PmicSkip, PmicOld, FlashErase, FlashWrite
<1>7. CASE Reboot \/ PowerCut
  BY <1>7 DEF Reboot, PowerCut, Down
<1>8. CASE ScriptDies
  BY <1>8, Zenon DEF ScriptDies
<1>9. CASE Apply \/ CamAppExits \/ PullStick \/ PowerOn
  BY <1>9 DEF Apply, CamAppExits, PullStick, PowerOn
<1>10. CASE UNCHANGED vars
  BY <1>10 DEF vars
<1> QED
  BY <1>1, <1>2, <1>3, <1>4, <1>5, <1>6, <1>7, <1>8, <1>9, <1>10
     DEF Next, Script, Environment

LEMMA ProgressMeansInstalled ==
    ASSUME TypeOK, Progress, ~spoiled,
           pc \in {"pmic", "flash", "flashing", "reboot"}
    PROVE  Installed(cache)
BY DEF Progress, TreeDone, PartDone, LinksDone, LinkDone, Installed, Installing

\* No service is relinked twice.
LEMMA NotAgain ==
    \A n \in 1 .. Len(RcOrder) :
        \A i \in 1 .. Len(RcOrder) : i < n => RcOrder[i] # RcOrder[n]
<1>1. \A i, n \in 1 .. Len(RcOrder) : i < n => i # n
      BY Constants
<1> QED BY <1>1, RcAssumption, Zenon

LEMMA ProgressStep == TypeOK /\ Progress /\ [Next]_vars => Progress'
<1> SUFFICES ASSUME TypeOK, Progress, [Next]_vars, ~spoiled'
             PROVE  (TreeDone /\ PartDone /\ LinksDone)'
    BY DEF Progress
<1> USE DEF waitVars, history, world, Installing
<1>1. CASE pc' \notin Installing
  BY <1>1 DEF TreeDone, PartDone, LinksDone
<1>2. CASE RmBoot
  BY <1>2, Constants DEF RmBoot, TypeOK, TreeDone, PartDone, LinksDone
<1>3. CASE ~spoiled /\ TreeDone /\ PartDone /\ LinksDone /\ Tar
  <2> USE <1>3, PathAssumption DEF TypeOK, Tree, TreeDone, PartDone, LinksDone
  <2>1. ASSUME NEW p \in Tree, TarMember(p) PROVE (TreeDone /\ PartDone /\ LinksDone)'
        BY <2>1 DEF TarMember, Path
  <2>2. CASE TarDone
        BY <2>2 DEF TarDone
  <2>3. ~TarNoArchive /\ \A p \in Tree : ~TarFull(p) /\ ~TarBreaks(p)
        BY Zenon DEF TarNoArchive, TarFull, TarBreaks
  <2> QED BY <2>1, <2>2, <2>3 DEF Tar
<1>4. CASE ~spoiled /\ TreeDone /\ PartDone /\ LinksDone /\ Cp
  <2> USE <1>4, PathAssumption DEF TypeOK, Tree, TreeDone, PartDone, LinksDone
  <2>1. CASE RemoveLogo
        BY <2>1 DEF RemoveLogo, Path
  <2>2. ASSUME NEW b \in Boot, CpFile(b) PROVE (TreeDone /\ PartDone /\ LinksDone)'
        BY <2>2 DEF CpFile, Path
  <2>3. CASE CpDone
        BY <2>3 DEF CpDone
  <2>4. \A b \in Boot : ~CpFull(b)
        BY Zenon DEF CpFull
  <2> QED BY <2>1, <2>2, <2>3, <2>4 DEF Cp
<1>5. CASE ~spoiled /\ TreeDone /\ PartDone /\ LinksDone /\ Rc
  <2> USE <1>5, PathAssumption, RcAssumption, Constants
      DEF TypeOK, Tree, TreeDone, PartDone, LinksDone, LinkDone
  <2>1. CASE RcRemove
    <3> DEFINE k == RcOrder[rcPos]
    <3>1. k \in Link /\ rcPos \in 1 .. Len(RcOrder)
          BY <2>1 DEF RcRemove
    <3>2. \A p \in Path : p # k => cache'[p] = cache[p]
          BY <2>1 DEF RcRemove
    <3>3. RcKind[k] # "defaults" => cache'[k] = "none"
          BY <2>1, <3>1 DEF RcRemove, Path
    <3>4. \A i \in 1 .. Len(RcOrder) : i < rcPos => RcOrder[i] # k
          BY <3>1, NotAgain, Zenon
    <3>5. TreeDone' /\ PartDone'
          BY <2>1, <3>1, <3>2, SMTT(30) DEF RcRemove, Path
    <3>6. \A i \in 1 .. Len(RcOrder) : i < rcPos => LinkDone(cache', RcOrder[i])
          BY <2>1, <3>1, <3>2, <3>4 DEF RcRemove, Path
    <3>7. pc' = "rcstart" /\ rcPos' = rcPos
          BY <2>1 DEF RcRemove
    <3> QED BY <3>1, <3>3, <3>5, <3>6, <3>7
  <2>2. CASE RcStart
    <3> DEFINE k == RcOrder[rcPos]
    <3>1. k \in Link /\ rcPos \in 1 .. Len(RcOrder)
          BY <2>2 DEF RcStart
    <3>2. \A p \in Path : p # k => cache'[p] = cache[p]
          BY <2>2 DEF RcStart
    <3>3. LinkDone(cache', k)
          BY <2>2, <3>1 DEF RcStart, Path
    <3>4. \A i \in 1 .. Len(RcOrder) : i < rcPos' => i < rcPos \/ i = rcPos
          BY <2>2 DEF RcStart
    <3>5. \A i \in 1 .. Len(RcOrder) : i < rcPos => RcOrder[i] # k
          BY <3>1, NotAgain, Zenon
    <3>6. TreeDone' /\ PartDone'
          BY <2>2, <3>1, <3>2, SMTT(30) DEF RcStart, Path
    <3>7. \A i \in 1 .. Len(RcOrder) : i < rcPos => LinkDone(cache', RcOrder[i])
          BY <2>2, <3>1, <3>2, <3>5 DEF RcStart, Path
    <3>8. \A i \in 1 .. Len(RcOrder) : i < rcPos' => LinkDone(cache', RcOrder[i])
          BY <3>3, <3>4, <3>7
    <3>9. pc' = "rcremove"
          BY <2>2 DEF RcStart
    <3> QED BY <3>6, <3>8, <3>9
  <2>3. CASE RcDone
    <3>1. TreeDone' /\ PartDone' /\ pc' = "pmic" /\ cache' = cache
          BY <2>3 DEF RcDone
    <3>2. \A i \in 1 .. Len(RcOrder) : i < rcPos /\ LinkDone(cache, RcOrder[i])
          BY <2>3 DEF RcDone
    <3>3. \A l \in Link : LinkDone(cache, l)
      <4> TAKE l \in Link
      <4>1. PICK i \in 1 .. Len(RcOrder) : RcOrder[i] = l
            OBVIOUS
      <4> QED BY <3>2, <4>1
    <3> QED BY <3>1, <3>3
  <2> QED BY <2>1, <2>2, <2>3 DEF Rc
<1>6. CASE ~spoiled /\ TreeDone /\ PartDone /\ LinksDone /\ Pmic
  BY <1>6 DEF Pmic, PmicSkip, PmicOld, FlashErase, FlashWrite,
     TreeDone, PartDone, LinksDone, LinkDone
<1>7. CASE ~spoiled /\ TreeDone /\ PartDone /\ LinksDone /\ (CamAppExits \/ PullStick)
  BY <1>7 DEF CamAppExits, PullStick, TreeDone, PartDone, LinksDone, LinkDone
<1>8. CASE ~spoiled /\ TreeDone /\ PartDone /\ LinksDone /\ UNCHANGED vars
  BY <1>8 DEF vars, TreeDone, PartDone, LinksDone, LinkDone
<1>9. CASE Wait \/ Reboot \/ PowerCut \/ PowerOn \/ Apply \/ ScriptDies
  <2>1. pc' \notin Installing
        BY <1>9 DEF Wait, KillCamApp, CheckReject, CheckPass, Ps, TestClear,
           TestWait, TestKill, Reboot, PowerCut, Down, PowerOn, Apply, ScriptDies
  <2> QED BY <1>1, <2>1
<1>10. ~spoiled \/ pc' \notin Installing \/ RmBoot
  <2>1. spoiled' = spoiled \/ pc' \notin Installing \/ spoiled' = TRUE
        BY DEF Next, Script, Environment, vars, Wait, KillCamApp, CheckReject,
           CheckPass, Ps, TestClear, TestWait, TestKill, RmBoot, Tar, TarNoArchive,
           TarDone, TarMember, TarFull, TarBreaks, Cp, RemoveLogo, CpDone, CpFile,
           CpFull, Rc, RcRemove, RcStart, RcDone, Pmic, PmicSkip, PmicOld,
           FlashErase, FlashWrite, Reboot, PowerCut, Down, PowerOn, Apply,
           ScriptDies, CamAppExits, PullStick
  <2> QED BY <2>1, Zenon
<1> QED
  BY <1>1, <1>2, <1>3, <1>4, <1>5, <1>6, <1>7, <1>8, <1>9, <1>10
     DEF Next, Script, Environment, Progress

\* Storage changes only when the power goes: an orderly reboot of an unspoiled
\* run stores an installed system, any other harmless end stores nothing new.
LEMMA OneReleaseStep ==
    TypeOK /\ Saved /\ Progress /\ OneRelease /\ [Next]_vars => OneRelease'
<1> SUFFICES ASSUME TypeOK, Saved, Progress, OneRelease, [Next]_vars
             PROVE  OneRelease'
    OBVIOUS
<1> USE DEF waitVars, history, world
<1>1. CASE Reboot
  <2>1. CASE pc = "reboot" /\ ~spoiled
    <3>1. Installed(cache)
          BY <2>1, ProgressMeansInstalled
    <3> QED BY <1>1, <3>1 DEF Reboot, OneRelease, Factory, Installed
  <2>2. CASE pc = "reboot" /\ spoiled
        BY <1>1, <2>2, Zenon DEF Reboot, OneRelease
  <2>3. CASE pc = "rejected"
    <3>1. disk' = disk
          BY <1>1, <2>3 DEF Reboot, Saved, Installing
    <3>2. damaged' = damaged
          BY <1>1, <2>3 DEF Reboot
    <3> QED BY <3>1, <3>2 DEF OneRelease, Factory, Installed
  <2> QED BY <1>1, <2>1, <2>2, <2>3 DEF Reboot
<1>2. CASE PowerCut
  <2>1. CASE damaged \/ spoiled \/ pc \in Installing
        BY <1>2, <2>1, Zenon DEF PowerCut, OneRelease
  <2>2. CASE ~(damaged \/ spoiled \/ pc \in Installing)
    <3>1. cache = disk
          BY <2>2 DEF Saved
    <3>2. disk' = disk
          BY <1>2, <3>1 DEF PowerCut, TypeOK
    <3> QED BY <2>2, <3>2 DEF OneRelease, Factory, Installed
  <2> QED BY <2>1, <2>2
<1>3. CASE ~Reboot /\ ~PowerCut
  <2>1. disk' = disk /\ damaged' = damaged
        BY <1>3 DEF Next, Script, Environment, vars, Wait, KillCamApp, CheckReject,
           CheckPass, Ps, TestClear, TestWait, TestKill, RmBoot, Tar, TarNoArchive,
           TarDone, TarMember, TarFull, TarBreaks, Cp, RemoveLogo, CpDone, CpFile,
           CpFull, Rc, RcRemove, RcStart, RcDone, Pmic, PmicSkip, PmicOld,
           FlashErase, FlashWrite, PowerOn, Apply, ScriptDies, CamAppExits, PullStick
  <2> QED BY <2>1 DEF OneRelease, Factory, Installed
<1> QED BY <1>1, <1>2, <1>3

LEMMA InvInit == Init => Inv
<1> SUFFICES ASSUME Init PROVE Inv
    OBVIOUS
<1>1. PICK dflt \in {"old", "none"} :
        disk = [p \in Path |-> IF p \in Link /\ RcKind[p] = "defaults"
                                 THEN dflt ELSE "old"]
      BY DEF Init
<1>2. Factory(disk)
      BY <1>1, PathAssumption DEF Factory, Path, Tree
<1>3. Saved /\ OneRelease
      BY <1>2 DEF Init, Saved, OneRelease
<1>4. pc = "idle"
      BY DEF Init
<1> QED
  BY <1>3, <1>4 DEF Inv, Progress, TreeDone, PartDone, LinksDone, Stopped, Refused,
     PmicIsOld, Installing

LEMMA InvStep == TypeOK /\ Inv /\ [Next]_vars => Inv'
BY SavedStep, ProgressStep, OneReleaseStep, StoppedStep, RefusedStep, PmicStep DEF Inv

LEMMA Invariance == Spec => [](TypeOK /\ Inv)
<1>1. Init => TypeOK /\ Inv
      BY TypeInit, InvInit
<1>2. TypeOK /\ Inv /\ [Next]_vars => (TypeOK /\ Inv)'
      BY TypeStep, InvStep
<1> QED BY <1>1, <1>2, PTL DEF Spec

-----------------------------------------------------------------------------
(* The promise of Release.                                                 *)

\* What is no longer the old release, on storage or in the page cache, does
\* not become it again; and cp has nothing old to copy.
NoWayBack ==
    /\ pc \in Installing => \A b \in Boot : cache[b] # "old"
    /\ \A p \in Tree \cup Part \cup Link : disk[p] # "old" => cache[p] # "old"

SpoiledWhere == spoiled => pc \in Installing \cup {"dead"}

LEMMA NoWayBackStep ==
    TypeOK /\ NoWayBack /\ [Next]_vars => NoWayBack'
<1> SUFFICES ASSUME TypeOK, NoWayBack, [Next]_vars PROVE NoWayBack'
    OBVIOUS
<1> USE DEF TypeOK, NoWayBack, waitVars, history, world, Installing, Tree
<1>1. CASE Wait
  BY <1>1 DEF Wait, KillCamApp, CheckReject, CheckPass, Ps, TestClear, TestWait,
              TestKill
<1>2. CASE RmBoot
  BY <1>2, PathAssumption DEF RmBoot, Path
<1>3. CASE Tar
  <2>1. \A p \in Path : cache'[p] = cache[p] \/ cache'[p] # "old"
        BY <1>3 DEF Tar, TarNoArchive, TarDone, TarMember, TarFull, TarBreaks
  <2>2. disk' = disk /\ pc \in Installing
        BY <1>3 DEF Tar, TarNoArchive, TarDone, TarMember, TarFull, TarBreaks
  <2> QED BY <2>1, <2>2 DEF Path
<1>4. CASE Cp
  <2>1. CASE RemoveLogo
        BY <2>1 DEF RemoveLogo
  <2>2. CASE CpDone
        BY <2>2 DEF CpDone
  <2>3. ASSUME NEW b \in Boot, CpFile(b) \/ CpFull(b) PROVE NoWayBack'
    <3>1. On[b] \in Part /\ On[b] \notin Boot
          BY PathAssumption
    <3>2. cache[b] # "old" /\ pc' = pc /\ disk' = disk /\ pc = "cp"
          BY <2>3 DEF CpFile, CpFull
    <3>3. \A p \in Path : cache'[p] = cache[p] \/ cache'[p] # "old"
          BY <2>3, <3>2 DEF CpFile, CpFull
    <3> QED BY <3>1, <3>2, <3>3 DEF Path
  <2> QED BY <1>4, <2>1, <2>2, <2>3 DEF Cp
<1>5. CASE Rc
  <2>1. \A p \in Path : cache'[p] = cache[p] \/ cache'[p] # "old"
        BY <1>5 DEF Rc, RcRemove, RcStart, RcDone
  <2>2. disk' = disk /\ pc \in Installing
        BY <1>5 DEF Rc, RcRemove, RcStart, RcDone
  <2> QED BY <2>1, <2>2 DEF Path
<1>6. CASE Pmic
  BY <1>6 DEF Pmic, PmicSkip, PmicOld, FlashErase, FlashWrite
<1>7. CASE Reboot
  BY <1>7 DEF Reboot, Down
<1>8. CASE PowerCut
  BY <1>8 DEF PowerCut, Down
<1>9. CASE Apply \/ CamAppExits \/ PullStick \/ ScriptDies \/ PowerOn
  BY <1>9 DEF Apply, CamAppExits, PullStick, ScriptDies, PowerOn
<1>10. CASE UNCHANGED vars
  BY <1>10 DEF vars
<1> QED
  BY <1>1, <1>2, <1>3, <1>4, <1>5, <1>6, <1>7, <1>8, <1>9, <1>10
     DEF Next, Script, Environment

LEMMA SpoiledWhereStep ==
    TypeOK /\ SpoiledWhere /\ [Next]_vars => SpoiledWhere'
<1> SUFFICES ASSUME TypeOK, SpoiledWhere, [Next]_vars, spoiled'
             PROVE  pc' \in Installing \cup {"dead"}
    BY DEF SpoiledWhere
<1> USE DEF TypeOK, SpoiledWhere, waitVars, history, world, Installing
<1>1. CASE Wait \/ Apply \/ PowerOn
  BY <1>1 DEF Wait, KillCamApp, CheckReject, CheckPass, Ps, TestClear, TestWait,
              TestKill, Apply, PowerOn
<1>2. CASE RmBoot
  BY <1>2 DEF RmBoot
<1>3. CASE Tar
  BY <1>3 DEF Tar, TarNoArchive, TarDone, TarMember, TarFull, TarBreaks
<1>4. CASE Cp \/ Rc
  BY <1>4 DEF Cp, RemoveLogo, CpDone, CpFile, CpFull, Rc, RcRemove, RcStart, RcDone
<1>5. CASE Pmic
  BY <1>5 DEF Pmic, PmicSkip, PmicOld, FlashErase, FlashWrite
<1>6. CASE Reboot \/ PowerCut
  <2>1. spoiled' = FALSE
        BY <1>6, Zenon DEF Reboot, PowerCut, Down
  <2> QED BY <2>1, Zenon
<1>7. CASE CamAppExits \/ PullStick \/ ScriptDies
  BY <1>7 DEF CamAppExits, PullStick, ScriptDies
<1>8. CASE UNCHANGED vars
  BY <1>8 DEF vars
<1> QED
  BY <1>1, <1>2, <1>3, <1>4, <1>5, <1>6, <1>7, <1>8 DEF Next, Script, Environment

LEMMA SessionIs ==
    /\ pc \in Installing /\ ~spoiled => Session = "open"
    /\ spoiled => Session = "failed"
    /\ pc \notin Installing /\ ~spoiled => Session = "none"
BY Zenon DEF Session

LEMMA StorageIs ==
    /\ Installed(disk) => Storage = "new"
    /\ Factory(disk) => Storage = "old"
    /\ ~Installed(disk) /\ ~Factory(disk) => Storage = "broken"
<1>1. ~(Installed(disk) /\ Factory(disk))
  <2>1. PICK p \in Tree : TRUE
        BY PathAssumption
  <2> QED BY <2>1, Zenon DEF Installed, Factory
<1> QED BY <1>1, Zenon DEF Storage

\* The same of the state after a step.
LEMMA SessionThen ==
    /\ pc' \in Installing /\ ~spoiled' => Session' = "open"
    /\ spoiled' => Session' = "failed"
    /\ pc' \notin Installing /\ ~spoiled' => Session' = "none"
BY Zenon DEF Session, Installing

LEMMA StorageThen ==
    /\ Installed(disk') => Storage' = "new"
    /\ Factory(disk') => Storage' = "old"
    /\ ~Installed(disk') /\ ~Factory(disk') => Storage' = "broken"
<1>1. ~(Installed(disk') /\ Factory(disk'))
  <2>1. PICK p \in Tree : TRUE
        BY PathAssumption
  <2> QED BY <2>1, Zenon DEF Installed, Factory
<1>2. Storage' = CASE Installed(disk') -> "new" [] Factory(disk') -> "old" [] OTHER -> "broken"
      BY DEF Storage, Installed, Factory
<1> QED BY <1>1, <1>2, Zenon

LEMMA StorageStays == disk' = disk => Storage' = Storage
BY DEF Storage, Installed, Factory

\* Wherever storage comes from, it does not come back to the old release.
LEMMA Onwards ==
    ASSUME TypeOK, NoWayBack,
           \A p \in Path : disk'[p] = "old" => disk[p] = "old" \/ cache[p] = "old"
    PROVE  Storage' \in {"new", "broken"} \cup {Storage}
<1>1. \A p \in Tree \cup Part \cup Link : disk'[p] = "old" => disk[p] = "old"
      BY DEF NoWayBack, Path
<1>2. Factory(disk') => Factory(disk)
      BY <1>1 DEF Factory
<1> QED BY <1>2, StorageIs, StorageThen

\* The steps of the script that storage does not see.
LEMMA PromiseInside ==
    ASSUME TypeOK, disk' = disk, damaged' = damaged, pc \in Installing,
           \/ pc' \in Installing /\ (spoiled' = spoiled \/ spoiled' = TRUE)
           \/ spoiled' = TRUE
    PROVE  Promise!Fail \/ UNCHANGED << Storage, Session, ~damaged >>
<1>1. Storage' = Storage /\ (~damaged)' = ~damaged
      BY StorageStays
<1>2. Session' = Session \/ (Session = "open" /\ Session' = "failed")
  <2>1. CASE spoiled
    <3>1. spoiled'
          BY <2>1, Zenon
    <3> QED BY <2>1, <3>1, SessionIs, SessionThen
  <2>2. CASE ~spoiled
    <3>1. Session = "open"
          BY <2>2, SessionIs
    <3>2. spoiled' \/ (~spoiled' /\ pc' \in Installing)
          BY <2>2, Zenon
    <3> QED BY <3>1, <3>2, SessionThen
  <2> QED BY <2>1, <2>2
<1> QED BY <1>1, <1>2 DEF Promise!Fail

LEMMA PromiseOutside ==
    ASSUME TypeOK, disk' = disk, damaged' = damaged, spoiled' = spoiled,
           pc \notin Installing, pc' \notin Installing
    PROVE  UNCHANGED << Storage, Session, ~damaged >>
<1>1. Storage' = Storage /\ (~damaged)' = ~damaged
      BY StorageStays
<1>2. Session' = Session
  <2>1. CASE spoiled
    <3>1. spoiled'
          BY <2>1, Zenon
    <3> QED BY <2>1, <3>1, SessionIs, SessionThen
  <2>2. CASE ~spoiled
    <3>1. ~spoiled'
          BY <2>2, Zenon
    <3> QED BY <2>2, <3>1, SessionIs, SessionThen
  <2> QED BY <2>1, <2>2
<1> QED BY <1>1, <1>2

LEMMA PromiseInit == Init => Promise!Init
<1> SUFFICES ASSUME Init PROVE Promise!Init
    OBVIOUS
<1>1. PICK dflt \in {"old", "none"} :
        disk = [p \in Path |-> IF p \in Link /\ RcKind[p] = "defaults"
                                 THEN dflt ELSE "old"]
      BY DEF Init
<1>2. Factory(disk)
      BY <1>1, PathAssumption DEF Factory, Path, Tree
<1>3. Storage = "old"
      BY <1>2, StorageIs
<1>4. Session = "none"
  <2>1. pc \notin Installing /\ ~spoiled
        BY Zenon DEF Init, Installing
  <2> QED BY <2>1, SessionIs, Zenon
<1>5. ~damaged = TRUE
      BY Zenon DEF Init
<1> QED BY <1>3, <1>4, <1>5 DEF Promise!Init

LEMMA PromiseReboot ==
    ASSUME TypeOK, Inv, NoWayBack, SpoiledWhere, Reboot
    PROVE  Promise!Next \/ UNCHANGED << Storage, Session, ~damaged >>
<1>1. Session' = "none"
  <2>1. pc' = "off" /\ ~spoiled'
        BY Zenon DEF Reboot, Down
  <2> QED BY <2>1, SessionThen, Zenon DEF Installing
<1>2. CASE pc = "reboot" /\ ~spoiled
  <2>1. Installed(disk')
        BY <1>2, ProgressMeansInstalled DEF Inv, Reboot
  <2>2. Session = "open"
        BY <1>2, SessionIs DEF Installing
  <2>3. (~damaged)' = TRUE
        BY <1>2, Zenon DEF Reboot
  <2>4. Storage' = "new"
        BY <2>1, StorageThen
  <2> QED BY <1>1, <2>2, <2>3, <2>4 DEF Promise!Next, Promise!Finish
<1>3. CASE pc = "reboot" /\ spoiled
  <2>1. Storage' \in {"new", "broken"} \cup {Storage}
        BY Onwards DEF Reboot
  <2>2. Session # "none"
        BY <1>3, SessionIs
  <2>3. (~damaged)' = FALSE
        BY <1>3, Zenon DEF Reboot
  <2> QED BY <1>1, <2>1, <2>2, <2>3 DEF Promise!Next, Promise!Abort
<1>4. CASE pc = "rejected"
  <2>1. ~spoiled
        BY <1>4 DEF SpoiledWhere, Installing
  <2>2. Session = "none"
        BY <1>4, <2>1, SessionIs DEF Installing
  <2>3. disk' = disk
        BY <1>4 DEF Inv, Saved, Installing, Reboot
  <2>4. damaged' = damaged
        BY <1>4 DEF Reboot
  <2> QED BY <1>1, <2>2, <2>3, <2>4, StorageStays
<1> QED BY <1>2, <1>3, <1>4 DEF Reboot

LEMMA PromisePowerCut ==
    ASSUME TypeOK, Inv, NoWayBack, SpoiledWhere, PowerCut
    PROVE  Promise!Next \/ UNCHANGED << Storage, Session, ~damaged >>
<1>1. Session' = "none"
  <2>1. pc' = "off" /\ ~spoiled'
        BY Zenon DEF PowerCut, Down
  <2> QED BY <2>1, SessionThen, Zenon DEF Installing
<1>2. CASE spoiled \/ pc \in Installing
  <2>1. \A p \in Path : disk'[p] = "old" => disk[p] = "old" \/ cache[p] = "old"
        BY DEF PowerCut
  <2>2. Storage' \in {"new", "broken"} \cup {Storage}
        BY <2>1, Onwards
  <2>3. Session # "none"
        BY <1>2, SessionIs
  <2>4. (~damaged)' = FALSE
        BY <1>2, Zenon DEF PowerCut
  <2> QED BY <1>1, <2>2, <2>3, <2>4 DEF Promise!Next, Promise!Abort
<1>3. CASE ~spoiled /\ pc \notin Installing
  <2>1. Session = "none"
        BY <1>3, SessionIs
  <2>2. cache = disk
        BY <1>3 DEF Inv, Saved
  <2>3. disk' = disk
        BY <2>2 DEF PowerCut, TypeOK
  <2>4. (~damaged)' = ~damaged
        BY <1>3, Zenon DEF PowerCut
  <2> QED BY <1>1, <2>1, <2>3, <2>4, StorageStays
<1> QED BY <1>2, <1>3

LEMMA PromiseStep ==
    TypeOK /\ Inv /\ NoWayBack /\ SpoiledWhere /\ [Next]_vars
        => [Promise!Next]_<< Storage, Session, ~damaged >>
<1> SUFFICES ASSUME TypeOK, Inv, NoWayBack, SpoiledWhere, [Next]_vars
             PROVE  Promise!Next \/ UNCHANGED << Storage, Session, ~damaged >>
    OBVIOUS
<1> USE DEF waitVars, history, world
<1>1. CASE Wait \/ Apply \/ PowerOn
  <2>1. /\ disk' = disk /\ damaged' = damaged /\ spoiled' = spoiled
        /\ pc \notin Installing /\ pc' \notin Installing
        BY <1>1 DEF Wait, KillCamApp, CheckReject, CheckPass, Ps, TestClear,
           TestWait, TestKill, Apply, PowerOn, Installing
  <2> QED BY <2>1, PromiseOutside
<1>2. CASE RmBoot
  <2>1. ~spoiled
        BY <1>2 DEF RmBoot, SpoiledWhere, Installing
  <2>2. disk' = disk /\ damaged' = damaged /\ spoiled' = spoiled
        BY <1>2 DEF RmBoot
  <2>3. pc \notin Installing /\ pc' \in Installing
        BY <1>2 DEF RmBoot, Installing
  <2>4. Session = "none" /\ Session' = "open"
        BY <2>1, <2>2, <2>3, SessionIs, SessionThen
  <2> QED BY <2>2, <2>4, StorageStays DEF Promise!Next, Promise!Begin
<1>3. CASE Tar
  <2>1. /\ disk' = disk /\ damaged' = damaged /\ pc \in Installing /\ pc' \in Installing
        /\ spoiled' = spoiled \/ spoiled' = TRUE
        BY <1>3 DEF Tar, TarNoArchive, TarDone, TarMember, TarFull, TarBreaks, Installing
  <2> QED BY <2>1, PromiseInside DEF Promise!Next
<1>4. CASE Cp \/ Rc
  <2>1. /\ disk' = disk /\ damaged' = damaged /\ pc \in Installing /\ pc' \in Installing
        /\ spoiled' = spoiled \/ spoiled' = TRUE
        BY <1>4 DEF Cp, RemoveLogo, CpDone, CpFile, CpFull, Rc, RcRemove, RcStart,
           RcDone, Installing
  <2> QED BY <2>1, PromiseInside DEF Promise!Next
<1>5. CASE Pmic
  <2>1. /\ disk' = disk /\ damaged' = damaged /\ pc \in Installing /\ pc' \in Installing
        /\ spoiled' = spoiled
        BY <1>5 DEF Pmic, PmicSkip, PmicOld, FlashErase, FlashWrite, Installing
  <2> QED BY <2>1, PromiseInside DEF Promise!Next
<1>6. CASE Reboot
      BY <1>6, PromiseReboot
<1>7. CASE PowerCut
      BY <1>7, PromisePowerCut
<1>8. CASE ScriptDies /\ pc \in Installing
  <2>1. disk' = disk /\ damaged' = damaged
        BY <1>8 DEF ScriptDies
  <2>2. spoiled' = TRUE
        BY <1>8, Zenon DEF ScriptDies
  <2> QED BY <1>8, <2>1, <2>2, PromiseInside DEF Promise!Next
<1>9. CASE ScriptDies /\ pc \notin Installing
  <2>1. disk' = disk /\ damaged' = damaged /\ pc' \notin Installing
        BY <1>9 DEF ScriptDies, Installing
  <2>2. spoiled' = spoiled
    <3>1. ~spoiled
          BY <1>9 DEF SpoiledWhere, ScriptDies, Checking, Installing
    <3>2. spoiled' = (spoiled \/ pc \in Installing)
          BY <1>9 DEF ScriptDies
    <3>3. spoiled = FALSE
          BY <3>1 DEF TypeOK
    <3> QED BY <1>9, <3>2, <3>3, Zenon
  <2> QED BY <1>9, <2>1, <2>2, PromiseOutside
<1>10. CASE CamAppExits \/ PullStick \/ UNCHANGED vars
  <2>1. disk' = disk /\ damaged' = damaged /\ spoiled' = spoiled /\ pc' = pc
        BY <1>10 DEF CamAppExits, PullStick, vars
  <2> QED BY <2>1, StorageStays DEF Session
<1> QED
  BY <1>1, <1>2, <1>3, <1>4, <1>5, <1>6, <1>7, <1>8, <1>9, <1>10
     DEF Next, Script, Environment

-----------------------------------------------------------------------------
\* Storage holds the old or the new release, except after a run that failed
\* between rm -rf /boot and the reboot and was not yet followed by a good one.
THEOREM StorageHoldsOneRelease == Spec => []OneRelease
<1>1. Inv => OneRelease
      BY DEF Inv
<1> QED BY <1>1, Invariance, PTL

\* A run without a failure installs everything, whatever it started from.
THEOREM CleanRunInstalls == Spec => []RetryRepairs
<1>1. TypeOK /\ Inv => RetryRepairs
      BY ProgressMeansInstalled DEF Inv, RetryRepairs
<1> QED BY <1>1, Invariance, PTL

\* camApp has gone before anything is replaced, if busy.raw is there.
THEOREM CamAppStopsFirst == Spec => []CamAppStopped
<1>1. Inv => CamAppStopped
      BY DEF Inv, Stopped, CamAppStopped
<1> QED BY <1>1, Invariance, PTL

\* A damaged archive named in the manifest is never unpacked.
THEOREM ListedDamageIsRefused == Spec => []DamagedArchiveRefused
<1>1. Inv => DamagedArchiveRefused
      BY DEF Inv, Refused, DamagedArchiveRefused
<1> QED BY <1>1, Invariance, PTL

\* The PMIC changes only from older firmware, after the software it is for.
THEOREM PmicIsFlashedLast == Spec => PmicAfterSoftware
<1>1. TypeOK /\ Inv /\ [Next]_vars =>
        [pmic' # pmic => pmic < PMICHEXVERSION /\ (spoiled \/ Installed(cache))]_vars
  <2> SUFFICES ASSUME TypeOK, Inv, Next, pmic' # pmic
               PROVE  pmic < PMICHEXVERSION /\ (spoiled \/ Installed(cache))
      BY DEF vars
  <2>1. pc \in {"flash", "flashing"}
        BY DEF Next, Script, Environment, Wait, KillCamApp, CheckReject,
           CheckPass, Ps, TestClear, TestWait, TestKill, RmBoot, Tar, TarNoArchive,
           TarDone, TarMember, TarFull, TarBreaks, Cp, RemoveLogo, CpDone, CpFile,
           CpFull, Rc, RcRemove, RcStart, RcDone, Pmic, PmicSkip, PmicOld, FlashErase,
           FlashWrite, Reboot, PowerCut, Down, PowerOn, Apply, ScriptDies,
           CamAppExits, PullStick
  <2>2. spoiled \/ Installed(cache)
        BY <2>1, ProgressMeansInstalled DEF Inv
  <2> QED BY <2>1, <2>2 DEF Inv, PmicIsOld
<1> QED BY <1>1, Invariance, PTL DEF Spec, PmicAfterSoftware

\* The script implements the promise: whatever fails, is cut off and is tried
\* again, storage changes only when an installation ends, a finished one leaves
\* the new release, and none leads back to the old one.
THEOREM ImplementsRelease == Spec => KeepsPromise
<1>1. Init => NoWayBack /\ SpoiledWhere /\ Promise!Init
  <2>1. Init => NoWayBack
        BY DEF Init, NoWayBack, Installing
  <2>2. Init => SpoiledWhere
        BY DEF Init, SpoiledWhere
  <2> QED BY <2>1, <2>2, PromiseInit
<1>2. /\ TypeOK /\ Inv /\ NoWayBack /\ SpoiledWhere /\ [Next]_vars
      => NoWayBack' /\ SpoiledWhere' /\ [Promise!Next]_<< Storage, Session, ~damaged >>
      BY NoWayBackStep, SpoiledWhereStep, PromiseStep
<1> QED BY <1>1, <1>2, Invariance, PTL DEF Spec, KeepsPromise, Promise!Spec
-----------------------------------------------------------------------------
(* The half of UpdateEnds that needs no fairness.                          *)

\* Between the two update-rc.d calls of a service there is a service.
Relinking == pc = "rcstart" => rcPos <= Len(RcOrder)

LEMMA RelinkingStep == Relinking /\ [Next]_vars => Relinking'
<1> SUFFICES ASSUME Relinking, [Next]_vars, pc' = "rcstart"
             PROVE  rcPos' <= Len(RcOrder)
    BY DEF Relinking
<1> USE DEF Relinking, waitVars, history, world
<1>1. CASE RcRemove
  BY <1>1 DEF RcRemove
<1>2. CASE Rc /\ ~RcRemove
  BY <1>2 DEF Rc, RcStart, RcDone
<1>3. CASE Wait \/ RmBoot \/ Apply \/ PowerOn \/ ScriptDies
  BY <1>3 DEF Wait, KillCamApp, CheckReject, CheckPass, Ps, TestClear, TestWait,
              TestKill, RmBoot, Apply, PowerOn, ScriptDies
<1>4. CASE Tar \/ Cp
  BY <1>4 DEF Tar, TarNoArchive, TarDone, TarMember, TarFull, TarBreaks, Cp,
              RemoveLogo, CpDone, CpFile, CpFull
<1>5. CASE Pmic
  BY <1>5 DEF Pmic, PmicSkip, PmicOld, FlashErase, FlashWrite
<1>6. CASE Reboot \/ PowerCut
  BY <1>6 DEF Reboot, PowerCut, Down
<1>7. CASE CamAppExits \/ PullStick \/ UNCHANGED vars
  BY <1>7 DEF CamAppExits, PullStick, vars
<1> QED
  BY <1>1, <1>2, <1>3, <1>4, <1>5, <1>6, <1>7 DEF Next, Script, Environment

\* Every step of a script that runs goes on in its order, shrinks what tar or
\* cp has left, relinks the next service, or uses up the wait for camApp: it
\* never turns in a loop for nothing, so that fair scheduling ends it.
THEOREM EveryStepGetsOn == Spec => ScriptGetsOn
<1> DEFINE Onward ==
      {pc, pc'} \cap {"idle", "off"} = {} =>
         \/ UNCHANGED << pc, left, rcPos, waitVars >>
         \/ Rank(pc') > Rank(pc)
         \/ pc' = pc /\ left' \subseteq left /\ left' # left
         \/ /\ pc = "rcstart" /\ pc' = "rcremove"
            /\ rcPos <= Len(RcOrder) /\ rcPos' = rcPos + 1
         \/ /\ pc = "test" /\ pc' = "ps"
            /\ timeout' < timeout \/ camApp' \in {"killed", "gone"}
<1>1. Relinking /\ TypeOK /\ Next => Onward
  <2> SUFFICES ASSUME Relinking, TypeOK, Next PROVE Onward
      OBVIOUS
  <2>1. CASE Wait
    <3>1. CASE TestWait
          BY <3>1, ValueAssumption DEF TestWait, TypeOK
    <3>2. CASE TestKill
          BY <3>2 DEF TestKill
    <3>3. CASE CheckPass
          BY <3>3 DEF CheckPass, Rank
    <3>4. CASE KillCamApp \/ CheckReject \/ TestClear
          BY <3>4 DEF KillCamApp, CheckReject, TestClear, Rank
    <3>5. CASE Ps
      <4>1. pc = "ps" /\ pc' = "test"
            BY <3>5, Zenon DEF Ps
      <4> QED BY <4>1 DEF Rank
    <3> QED BY <2>1, <3>1, <3>2, <3>3, <3>4, <3>5 DEF Wait
  <2>2. CASE RmBoot \/ ScriptDies
        BY <2>2 DEF RmBoot, ScriptDies, Rank, Checking, Installing
  <2>3. CASE Tar
        BY <2>3 DEF Tar, TarNoArchive, TarDone, TarMember, TarFull, TarBreaks, Rank
  <2>4. CASE Cp
        BY <2>4 DEF Cp, RemoveLogo, CpDone, CpFile, CpFull, Rank
  <2>5. CASE Rc
        BY <2>5 DEF Rc, RcRemove, RcStart, RcDone, Rank, Relinking
  <2>6. CASE Pmic
        BY <2>6 DEF Pmic, PmicSkip, PmicOld, FlashErase, FlashWrite, Rank
  <2>7. CASE Apply \/ PowerOn
        BY <2>7 DEF Apply, PowerOn
  <2>8. CASE Reboot \/ PowerCut
        BY <2>8 DEF Reboot, PowerCut, Down
  <2>9. CASE CamAppExits \/ PullStick
        BY <2>9 DEF CamAppExits, PullStick
  <2> QED
      BY <2>1, <2>2, <2>3, <2>4, <2>5, <2>6, <2>7, <2>8, <2>9
         DEF Next, Script, Environment
<1> HIDE DEF Onward
<1>2. Relinking /\ TypeOK /\ [Next]_vars => [Onward]_vars
      BY <1>1
<1>3. Init => Relinking
      BY DEF Init, Relinking
<1> QED BY <1>2, <1>3, RelinkingStep, TypeCorrect, PTL DEF Spec, ScriptGetsOn, Onward
=============================================================================
