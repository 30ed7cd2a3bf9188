-------------------------- MODULE CardFormatProofs --------------------------
(***************************************************************************)
(* Whichever commands may fail: what mksd-loopdev.sh prints is attached and *)
(* formatted, and no system is copied over the files of another.            *)
(***************************************************************************)
EXTENDS CardFormat, TLAPS

\* Where mksd-loopdev.sh is, and what it has made by then.
Loopdev ==
    script = "loopdev" =>
        /\ pc[1] \in {"start", "mkfs", "print", "ended"}
        /\ device \in {"loop", "none"}
        /\ pc[1] \in {"mkfs", "print"} /\ device = "loop" => loop
        /\ pc = <<"mkfs", "root">> => fs["boot"] = "new"
        /\ pc[1] = "print" => device = "loop" /\ \A p \in Part : fs[p] = "new"

Printed ==
    /\ out # "nothing" => pc[1] = "ended"
    /\ pc[1] = "print" => script = "loopdev"

\* The other scripts, when nothing is spoilt: nobody has the root partition mounted
\* from when it was unmounted to the end, so that mkfs empties it if it can be mounted
\* at all.
Unmounted ==
    /\ script # "loopdev" /\ ~spoilt /\ ~desktop /\ Block
    /\ pc[1] \notin {"start", "unmount", "detach", "ended"}
    => "root" \notin seen
Emptied ==
    script # "loopdev" /\ ~spoilt /\ ~desktop /\ Block /\ nodes /\ pc \in {<<"mount", "root">>, <<"rsync", "root">>}
        => "old" \notin holds["root"]
Pure == ~spoilt /\ ~desktop /\ "new" \in holds["root"] => "old" \notin holds["root"]

\* What is mounted is a partition of the device, and nothing is spoilt before umount.
Order ==
    /\ temp = "mounted" => Block /\ nodes
    /\ pc[1] \in {"start", "unmount"} => ~spoilt

IInv == TypeOK /\ Loopdev /\ Printed /\ PrintedMeansFormatted /\ Unmounted /\ Emptied /\ Pure /\ Order

LEMMA StartRootfsKeeps ==
    ASSUME IInv, StartRootfs
    PROVE  IInv'
<1> USE DEF StartRootfs, At, Goto, call, still, disk, Block
<1>1. TypeOK'
  <2>1. spoilt' \in BOOLEAN
      BY DEF IInv, TypeOK, Outcome
  <2>2. seen' \subseteq seen
      OBVIOUS
  <2>5. pc' \in Step \X Part
      BY DEF Step, Part
  <2>3. host' \subseteq {"file", "unmounted", "spilled"}
      BY DEF IInv, TypeOK, Outcome
  <2>4. temp' # "none" => pc'[1] \in {"rsync", "umount"}
      BY DEF IInv, TypeOK
  <2> QED BY <2>1, <2>2, <2>3, <2>4, <2>5 DEF IInv, TypeOK
<1>2. Loopdev' /\ Printed' /\ PrintedMeansFormatted'
    BY DEF IInv, TypeOK, Loopdev, Printed, PrintedMeansFormatted, Step, Part, Outcome
<1>3. Unmounted' /\ Emptied'
  <2>1. Unmounted'
      BY DEF IInv, TypeOK, Unmounted, Outcome
  <2>2. Emptied'
      BY DEF Emptied
  <2> QED BY <2>1, <2>2
<1>4. Pure'
    BY DEF IInv, TypeOK, Loopdev, Order, Emptied, Pure, Step, Part, System, Outcome
<1>5. Order'
    BY DEF IInv, TypeOK, Loopdev, Order, Step, Part, Outcome
<1> QED BY <1>1, <1>2, <1>3, <1>4, <1>5 DEF IInv

LEMMA StartFormatKeeps ==
    ASSUME IInv, StartFormat
    PROVE  IInv'
<1> USE DEF StartFormat, At, Goto, call, still, disk, Block
<1>1. TypeOK'
    BY DEF IInv, TypeOK, Loopdev, Step, Part, System
<1>2. Loopdev' /\ Printed' /\ PrintedMeansFormatted'
    BY DEF IInv, TypeOK, Loopdev, Printed, PrintedMeansFormatted, Step, Part
<1>3. Unmounted' /\ Emptied'
    BY DEF IInv, TypeOK, Loopdev, Order, Unmounted, Emptied, Step, Part
<1>4. Pure'
    BY DEF IInv, TypeOK, Loopdev, Order, Emptied, Pure, Step, Part, System
<1>5. Order'
    BY DEF IInv, TypeOK, Loopdev, Order, Step, Part
<1> QED BY <1>1, <1>2, <1>3, <1>4, <1>5 DEF IInv

LEMMA StartImageKeeps ==
    ASSUME IInv, StartImage
    PROVE  IInv'
<1> USE DEF StartImage, At, Goto, call, still, disk, Block
<1>1. TypeOK'
    BY DEF IInv, TypeOK, Loopdev, Step, Part, System, Outcome
<1>2. Loopdev' /\ Printed' /\ PrintedMeansFormatted'
    BY DEF IInv, TypeOK, Loopdev, Printed, PrintedMeansFormatted, Step, Part, Outcome
<1>3. Unmounted' /\ Emptied'
    BY DEF IInv, TypeOK, Loopdev, Order, Unmounted, Emptied, Step, Part, Outcome
<1>4. Pure'
    BY DEF IInv, TypeOK, Loopdev, Order, Emptied, Pure, Step, Part, System, Outcome
<1>5. Order'
    BY DEF IInv, TypeOK, Loopdev, Order, Step, Part, Outcome
<1> QED BY <1>1, <1>2, <1>3, <1>4, <1>5 DEF IInv

LEMMA StartLoopdevKeeps ==
    ASSUME IInv, StartLoopdev
    PROVE  IInv'
<1> USE DEF StartLoopdev, At, Goto, call, still, disk, Block
<1>1. TypeOK'
    BY DEF IInv, TypeOK, Loopdev, Step, Part, System, Outcome
<1>2. Loopdev' /\ Printed' /\ PrintedMeansFormatted'
    BY DEF IInv, TypeOK, Loopdev, Printed, PrintedMeansFormatted, Step, Part, Outcome
<1>3. Unmounted' /\ Emptied'
    BY DEF IInv, TypeOK, Loopdev, Order, Unmounted, Emptied, Step, Part, Outcome
<1>4. Pure'
    BY DEF IInv, TypeOK, Loopdev, Order, Emptied, Pure, Step, Part, System, Outcome
<1>5. Order'
    BY DEF IInv, TypeOK, Loopdev, Order, Step, Part, Outcome
<1> QED BY <1>1, <1>2, <1>3, <1>4, <1>5 DEF IInv

LEMMA UnmountKeeps ==
    ASSUME IInv, Unmount
    PROVE  IInv'
<1> USE DEF Unmount, At, Goto, call, still, disk, Block
<1>1. TypeOK'
  <2>1. spoilt' \in BOOLEAN
      BY DEF IInv, TypeOK, Outcome
  <2>2. seen' \subseteq seen
      OBVIOUS
  <2>5. pc' \in Step \X Part
      BY DEF Step, Part
  <2>3. host' \subseteq {"file", "unmounted", "spilled"}
      BY DEF IInv, TypeOK, Outcome
  <2>4. temp' # "none" => pc'[1] \in {"rsync", "umount"}
      BY DEF IInv, TypeOK
  <2> QED BY <2>1, <2>2, <2>3, <2>4, <2>5 DEF IInv, TypeOK
<1>2. Loopdev' /\ Printed' /\ PrintedMeansFormatted'
    BY DEF IInv, TypeOK, Loopdev, Printed, PrintedMeansFormatted, Step, Part, Outcome
<1>3. Unmounted' /\ Emptied'
    BY DEF IInv, TypeOK, Loopdev, Order, Unmounted, Emptied, Step, Part, Outcome
<1>4. Pure'
    BY DEF IInv, TypeOK, Loopdev, Order, Emptied, Pure, Step, Part, System, Outcome
<1>5. Order'
    BY DEF IInv, TypeOK, Loopdev, Order, Step, Part, Outcome
<1> QED BY <1>1, <1>2, <1>3, <1>4, <1>5 DEF IInv

LEMMA DdKeeps ==
    ASSUME IInv, Dd
    PROVE  IInv'
<1> USE DEF Dd, At, Goto, call, still, disk, Block
<1>1. TypeOK'
  <2>1. fs' \in [Part -> {"none", "old", "new"}] /\ holds' \in [Part -> SUBSET System]
      BY DEF IInv, TypeOK, Part, System, Outcome
  <2>2. host' \subseteq {"file", "unmounted", "spilled"}
      BY DEF IInv, TypeOK, Outcome
  <2>3. table' \in {"none", "old", "new"} /\ pc' \in Step \X Part
      BY DEF IInv, TypeOK, Step, Part, Outcome
  <2>4. temp' # "none" => pc'[1] \in {"rsync", "umount"}
      BY DEF IInv, TypeOK
  <2> QED BY <2>1, <2>2, <2>3, <2>4 DEF IInv, TypeOK
<1>2. Loopdev' /\ Printed' /\ PrintedMeansFormatted'
    BY DEF IInv, TypeOK, Loopdev, Printed, PrintedMeansFormatted, Step, Part, Outcome
<1>3. Unmounted' /\ Emptied'
    BY DEF IInv, TypeOK, Loopdev, Order, Unmounted, Emptied, Step, Part, Outcome
<1>4. Pure'
    BY DEF IInv, TypeOK, Loopdev, Order, Emptied, Pure, Step, Part, System, Outcome
<1>5. Order'
    BY DEF IInv, TypeOK, Loopdev, Order, Step, Part, Outcome
<1> QED BY <1>1, <1>2, <1>3, <1>4, <1>5 DEF IInv

LEMMA SfdiskKeeps ==
    ASSUME IInv, Sfdisk
    PROVE  IInv'
<1> USE DEF Sfdisk, At, Goto, call, still, disk, Block
<1>1. TypeOK'
    BY DEF IInv, TypeOK, Loopdev, Step, Part, System, Outcome
<1>2. Loopdev' /\ Printed' /\ PrintedMeansFormatted'
    BY DEF IInv, TypeOK, Loopdev, Printed, PrintedMeansFormatted, Step, Part, Outcome
<1>3. Unmounted' /\ Emptied'
    BY DEF IInv, TypeOK, Loopdev, Order, Unmounted, Emptied, Step, Part, Outcome
<1>4. Pure'
    BY DEF IInv, TypeOK, Loopdev, Order, Emptied, Pure, Step, Part, System, Outcome
<1>5. Order'
    BY DEF IInv, TypeOK, Loopdev, Order, Step, Part, Outcome
<1> QED BY <1>1, <1>2, <1>3, <1>4, <1>5 DEF IInv

LEMMA PartprobeKeeps ==
    ASSUME IInv, Partprobe
    PROVE  IInv'
<1> USE DEF Partprobe, At, Goto, call, still, disk, Block
<1>1. TypeOK'
    BY ZenonT(60) DEF IInv, TypeOK, Loopdev, Step, Part, System
<1>2. Loopdev' /\ Printed' /\ PrintedMeansFormatted'
    BY DEF IInv, TypeOK, Loopdev, Printed, PrintedMeansFormatted, Step, Part
<1>3. Unmounted' /\ Emptied'
    BY DEF IInv, TypeOK, Loopdev, Order, Unmounted, Emptied, Step, Part
<1>4. Pure'
    BY DEF IInv, TypeOK, Loopdev, Order, Emptied, Pure, Step, Part, System
<1>5. Order'
    BY DEF IInv, TypeOK, Loopdev, Order, Step, Part
<1> QED BY <1>1, <1>2, <1>3, <1>4, <1>5 DEF IInv

LEMMA MkfsKeeps ==
    ASSUME IInv, NEW p \in Part, Mkfs(p)
    PROVE  IInv'
<1> USE DEF Mkfs, At, Goto, call, still, disk, Block
<1>1. TypeOK'
    BY DEF IInv, TypeOK, Loopdev, Step, Part, System, Outcome, CanMake
<1>2. Loopdev' /\ Printed' /\ PrintedMeansFormatted'
    BY DEF IInv, TypeOK, Loopdev, Printed, PrintedMeansFormatted, Step, Part, Outcome, CanMake
<1>3. Unmounted' /\ Emptied'
    BY DEF IInv, TypeOK, Loopdev, Order, Unmounted, Emptied, Step, Part, Outcome, CanMake
<1>4. Pure'
    BY DEF IInv, TypeOK, Loopdev, Order, Emptied, Pure, Step, Part, System, Outcome, CanMake
<1>5. Order'
    BY DEF IInv, TypeOK, Loopdev, Order, Step, Part, Outcome, CanMake
<1> QED BY <1>1, <1>2, <1>3, <1>4, <1>5 DEF IInv

LEMMA MountKeeps ==
    ASSUME IInv, NEW p \in Part, Mount(p)
    PROVE  IInv'
<1> USE DEF Mount, At, Goto, call, still, disk, Block
<1>1. TypeOK'
    BY DEF IInv, TypeOK, Loopdev, Step, Part, System, Outcome
<1>2. Loopdev' /\ Printed' /\ PrintedMeansFormatted'
    BY DEF IInv, TypeOK, Loopdev, Printed, PrintedMeansFormatted, Step, Part, Outcome
<1>3. Unmounted' /\ Emptied'
    BY DEF IInv, TypeOK, Loopdev, Order, Unmounted, Emptied, Step, Part, Outcome
<1>4. Pure'
    BY DEF IInv, TypeOK, Loopdev, Order, Emptied, Pure, Step, Part, System, Outcome
<1>5. Order'
    BY DEF IInv, TypeOK, Loopdev, Order, Step, Part, Outcome
<1> QED BY <1>1, <1>2, <1>3, <1>4, <1>5 DEF IInv

LEMMA RsyncKeeps ==
    ASSUME IInv, NEW p \in Part, Rsync(p)
    PROVE  IInv'
<1> USE DEF Rsync, At, Goto, call, still, disk, Block
<1>1. TypeOK'
  <2>1. fs' \in [Part -> {"none", "old", "new"}] /\ holds' \in [Part -> SUBSET System]
      BY DEF IInv, TypeOK, Part, System, Outcome
  <2>2. host' \subseteq {"file", "unmounted", "spilled"}
      BY DEF IInv, TypeOK, Outcome
  <2>3. table' \in {"none", "old", "new"} /\ pc' \in Step \X Part
      BY DEF IInv, TypeOK, Step, Part, Outcome
  <2>4. temp' # "none" => pc'[1] \in {"rsync", "umount"}
      BY DEF IInv, TypeOK
  <2> QED BY <2>1, <2>2, <2>3, <2>4 DEF IInv, TypeOK
<1>2. Loopdev' /\ Printed' /\ PrintedMeansFormatted'
    BY DEF IInv, TypeOK, Loopdev, Printed, PrintedMeansFormatted, Step, Part, Outcome
<1>3. Unmounted' /\ Emptied'
    BY DEF IInv, TypeOK, Loopdev, Order, Unmounted, Emptied, Step, Part, Outcome
<1>4. Pure'
    BY DEF IInv, TypeOK, Loopdev, Order, Emptied, Pure, Step, Part, System, Outcome
<1>5. Order'
    BY DEF IInv, TypeOK, Loopdev, Order, Step, Part, Outcome
<1> QED BY <1>1, <1>2, <1>3, <1>4, <1>5 DEF IInv

LEMMA UmountKeeps ==
    ASSUME IInv, NEW p \in Part, Umount(p)
    PROVE  IInv'
<1> USE DEF Umount, At, Goto, call, still, disk, Block
<1>1. TypeOK'
    BY DEF IInv, TypeOK, Loopdev, Step, Part, System
<1>2. Loopdev' /\ Printed' /\ PrintedMeansFormatted'
    BY DEF IInv, TypeOK, Loopdev, Printed, PrintedMeansFormatted, Step, Part
<1>3. Unmounted' /\ Emptied'
    BY DEF IInv, TypeOK, Loopdev, Order, Unmounted, Emptied, Step, Part
<1>4. Pure'
    BY DEF IInv, TypeOK, Loopdev, Order, Emptied, Pure, Step, Part, System
<1>5. Order'
    BY DEF IInv, TypeOK, Loopdev, Order, Step, Part
<1> QED BY <1>1, <1>2, <1>3, <1>4, <1>5 DEF IInv

LEMMA MkfsLoopKeeps ==
    ASSUME IInv, NEW p \in Part, MkfsLoop(p)
    PROVE  IInv'
<1> USE DEF MkfsLoop, At, Goto, call, still, disk, Block
<1>1. TypeOK'
    BY DEF IInv, TypeOK, Loopdev, Step, Part, System, Outcome, CanMake
<1>2. Loopdev' /\ Printed' /\ PrintedMeansFormatted'
    BY DEF IInv, TypeOK, Loopdev, Printed, PrintedMeansFormatted, Step, Part, Outcome, CanMake
<1>3. Unmounted' /\ Emptied'
    BY DEF IInv, TypeOK, Loopdev, Order, Unmounted, Emptied, Step, Part, Outcome, CanMake
<1>4. Pure'
    BY DEF IInv, TypeOK, Loopdev, Order, Emptied, Pure, Step, Part, System, Outcome, CanMake
<1>5. Order'
    BY DEF IInv, TypeOK, Loopdev, Order, Step, Part, Outcome, CanMake
<1> QED BY <1>1, <1>2, <1>3, <1>4, <1>5 DEF IInv

LEMMA DesktopMountKeeps ==
    ASSUME IInv, NEW p \in Part, DesktopMount(p)
    PROVE  IInv'
<1> USE DEF DesktopMount, At, Goto, call, still, disk, Block
<1>1. TypeOK'
    BY DEF IInv, TypeOK, Loopdev, Step, Part, System
<1>2. Loopdev' /\ Printed' /\ PrintedMeansFormatted'
    BY DEF IInv, TypeOK, Loopdev, Printed, PrintedMeansFormatted, Step, Part
<1>3. Unmounted' /\ Emptied'
    BY DEF IInv, TypeOK, Loopdev, Order, Unmounted, Emptied, Step, Part
<1>4. Pure'
    BY DEF IInv, TypeOK, Loopdev, Order, Emptied, Pure, Step, Part, System
<1>5. Order'
    BY DEF IInv, TypeOK, Loopdev, Order, Step, Part
<1> QED BY <1>1, <1>2, <1>3, <1>4, <1>5 DEF IInv

LEMMA DetachKeeps ==
    ASSUME IInv, Detach
    PROVE  IInv'
<1> USE DEF Detach, At, Goto, call, still, disk, Block
<1>1. TypeOK'
    BY ZenonT(60) DEF IInv, TypeOK, Loopdev, Step, Part, System
<1>2. Loopdev' /\ Printed' /\ PrintedMeansFormatted'
    BY DEF IInv, TypeOK, Loopdev, Printed, PrintedMeansFormatted, Step, Part
<1>3. Unmounted' /\ Emptied'
    BY DEF IInv, TypeOK, Loopdev, Order, Unmounted, Emptied, Step, Part
<1>4. Pure'
    BY DEF IInv, TypeOK, Loopdev, Order, Emptied, Pure, Step, Part, System
<1>5. Order'
    BY DEF IInv, TypeOK, Loopdev, Order, Step, Part
<1> QED BY <1>1, <1>2, <1>3, <1>4, <1>5 DEF IInv

LEMMA PrintDeviceKeeps ==
    ASSUME IInv, PrintDevice
    PROVE  IInv'
<1> USE DEF PrintDevice, At, Goto, call, still, disk, Block
<1>1. TypeOK'
  <2>1. out' \in {"nothing", "loop", "none"}
      BY DEF IInv, Printed, Loopdev
  <2>2. pc' \in Step \X Part /\ (temp' # "none" => pc'[1] \in {"rsync", "umount"})
      BY DEF IInv, TypeOK, Step, Part
  <2> QED BY <2>1, <2>2 DEF IInv, TypeOK
<1>2. Loopdev' /\ Printed' /\ PrintedMeansFormatted'
    BY DEF IInv, TypeOK, Loopdev, Printed, PrintedMeansFormatted, Step, Part
<1>3. Unmounted' /\ Emptied'
    BY DEF IInv, TypeOK, Loopdev, Order, Unmounted, Emptied, Step, Part
<1>4. Pure'
    BY DEF IInv, TypeOK, Loopdev, Order, Emptied, Pure, Step, Part, System
<1>5. Order'
    BY DEF IInv, TypeOK, Loopdev, Order, Step, Part
<1> QED BY <1>1, <1>2, <1>3, <1>4, <1>5 DEF IInv

-----------------------------------------------------------------------------
LEMMA IInvInit == Init => IInv
<1> SUFFICES ASSUME Init PROVE IInv
    OBVIOUS
<1>1. TypeOK
  <2>1. fs \in [Part -> {"none", "old", "new"}] /\ holds \in [Part -> SUBSET System]
      BY DEF Init, System
  <2>2. nodes \in BOOLEAN /\ loop \in BOOLEAN /\ sudo \in BOOLEAN /\ desktop \in BOOLEAN /\ spoilt \in BOOLEAN
      BY DEF Init
  <2> QED BY <2>1, <2>2 DEF Init, TypeOK, Step, Part
<1>2. Loopdev /\ Printed /\ PrintedMeansFormatted /\ Unmounted /\ Emptied
    BY DEF Init, Loopdev, Printed, PrintedMeansFormatted, Unmounted, Emptied
<1>3. Pure /\ Order
    BY DEF Init, Pure, Order, Part
<1> QED BY <1>1, <1>2, <1>3 DEF IInv

LEMMA IInvNext == IInv /\ [Next]_vars => IInv'
<1> SUFFICES ASSUME IInv, [Next]_vars PROVE IInv'
    OBVIOUS
<1>1. CASE UNCHANGED vars
  <2>1. TypeOK' /\ Loopdev' /\ Printed'
      BY <1>1 DEF vars, IInv, TypeOK, Loopdev, Printed
  <2>2. PrintedMeansFormatted' /\ Unmounted' /\ Emptied' /\ Pure' /\ Order'
      BY <1>1 DEF vars, IInv, PrintedMeansFormatted, Unmounted, Emptied, Pure, Order, Block
  <2> QED BY <2>1, <2>2 DEF IInv
<1>2. CASE Next
    BY <1>2, StartRootfsKeeps, StartFormatKeeps, StartImageKeeps, StartLoopdevKeeps, UnmountKeeps, DdKeeps,
       SfdiskKeeps, PartprobeKeeps, MkfsKeeps, MountKeeps, RsyncKeeps, UmountKeeps, MkfsLoopKeeps,
       DesktopMountKeeps, DetachKeeps, PrintDeviceKeeps
    DEF Next
<1> QED BY <1>1, <1>2

LEMMA Always == Spec => []IInv
BY IInvInit, IInvNext, PTL DEF Spec

\* The variables have their types, and only a formatting script has a mount.
THEOREM TypeCorrect == Spec => []TypeOK
<1>1. IInv => TypeOK
    BY DEF IInv
<1> QED BY <1>1, Always, PTL

\* What mksd-loopdev.sh prints is a device that is attached and formatted,
\* whichever of its commands may fail.
THEOREM PrintedIsFormatted == Spec => []PrintedMeansFormatted
<1>1. IInv => PrintedMeansFormatted
    BY DEF IInv
<1> QED BY <1>1, Always, PTL

\* Whichever other commands may fail, as long as umount and mkfs do what they can
\* and no desktop runs, no system is copied over another.
THEOREM NoSystemOverAnother == Spec => []NotMixed
<1>1. IInv => NotMixed
    BY DEF IInv, Pure, NotMixed
<1> QED BY <1>1, Always, PTL
=============================================================================
