-------------------------- MODULE ImageBuildProofs --------------------------
(***************************************************************************)
(* However many builds run side by side, and whatever they mount, unmount  *)
(* and leave under each other: a build that ends through its trap gives    *)
(* both of its loop devices back, when all have done so nothing is left,   *)
(* and a build that is alone assembles only what it has unpacked.          *)
(***************************************************************************)
EXTENDS ImageBuild, TLAPS

\* Given back, or to be detached with the last mount.
Returned(b, p) == <<b, p>> \in loops => <<b, p>> \in autoclear

\* Build b has been through its detaching of the device of part p.
Past(b, p) ==
    \/ pc[b] = "detach2" /\ p = "boot"
    \/ pc[b] = "rm"
    \/ pc[b] = "ended" /\ status[b] # "early"

Typed == pc \in [Build -> Point] /\ status \in [Build -> Status]

\* The inductive invariant.  The property speaks of builds that have ended;
\* one on its way from a device to the end must have returned it already.
Inv == Typed /\ \A b \in Build, p \in Part : Past(b, p) => Returned(b, p)

LEMMA InvInit == Init => Inv
<1> SUFFICES ASSUME Init PROVE Inv
    OBVIOUS
<1>1. Typed
    BY DEF Init, Typed, Point, Status, Unguarded, HookUnguarded, Working
<1>2. ASSUME NEW b \in Build, NEW p \in Part PROVE ~Past(b, p)
    BY DEF Init, Past
<1> QED BY <1>1, <1>2 DEF Inv

\* A step of a build that leaves the devices alone and does not take it past one
\* of them keeps the invariant.
LEMMA Elsewhere ==
    ASSUME Inv, NEW c \in Build, NEW to \in Point, UNCHANGED devices,
           pc' = [pc EXCEPT ![c] = to],
           status' \in [Build -> Status],
           \A b \in Build : b # c => status'[b] = status[b],
           \A p \in Part : Past(c, p)' => Past(c, p)
    PROVE  Inv'
<1>1. Typed'
    BY DEF Inv, Typed
<1>2. ASSUME NEW b \in Build, NEW p \in Part, Past(b, p)' PROVE Returned(b, p)'
  <2>1. Past(b, p)
    <3>1. CASE b = c
        BY <3>1, <1>2
    <3>2. CASE b # c
        BY <3>2, <1>2 DEF Past, Inv, Typed
    <3> QED BY <3>1, <3>2
  <2>2. Returned(b, p)
      BY <2>1 DEF Inv
  <2> QED BY <2>2 DEF Returned, devices
<1> QED BY <1>1, <1>2 DEF Inv

\* The same for a step that leaves the status alone, by the point it goes to.
LEMMA Step1 ==
    ASSUME Inv, NEW c \in Build, NEW from \in Point, NEW to \in Point \ {"detach2", "rm", "ended"},
           UNCHANGED devices, UNCHANGED status, Goto(c, from, to)
    PROVE  Inv'
<1>1. pc' = [pc EXCEPT ![c] = to] /\ status' \in [Build -> Status]
    BY DEF Goto, Inv, Typed
<1>2. \A p \in Part : ~Past(c, p)'
    BY <1>1 DEF Past, Inv, Typed
<1> QED BY <1>1, <1>2, Elsewhere

\* Attaching a device, before the trap, and detaching it.
LEMMA LosetupKeeps ==
    ASSUME Inv, NEW c \in Build, NEW q \in Part, NEW from \in {"losetup1", "losetup2"},
           NEW to \in {"losetup2", "pmount1"}, Losetup(c, q, from, to)
    PROVE  Inv'
<1>1. Typed'
    BY DEF Inv, Typed, Losetup, Goto, Point, Unguarded
<1>2. ASSUME NEW b \in Build, NEW p \in Part, Past(b, p)' PROVE Returned(b, p)'
  <2>1. b # c
      BY <1>2 DEF Losetup, Goto, Past, Inv, Typed
  <2>2. Past(b, p)
      BY <1>2, <2>1 DEF Losetup, Goto, Past, Inv, Typed
  <2>3. Returned(b, p)
      BY <2>2 DEF Inv
  <2> QED BY <2>1, <2>3 DEF Returned, Losetup
<1> QED BY <1>1, <1>2 DEF Inv

LEMMA DetachKeeps ==
    ASSUME Inv, NEW c \in Build, NEW q \in Part,
           \/ q = "boot" /\ Detach(c, q, "detach1", "detach2")
           \/ q = "rootfs" /\ Detach(c, q, "detach2", "rm")
    PROVE  Inv'
<1> DEFINE to == IF q = "boot" THEN "detach2" ELSE "rm"
<1>1. /\ pc' = [pc EXCEPT ![c] = to] /\ status' = status
      /\ q = "rootfs" => pc[c] = "detach2"
      /\ q \in {"boot", "rootfs"}
    BY DEF Detach, Goto
<1>2. Typed'
    BY <1>1 DEF Inv, Typed, Point, Exiting
<1>3. \A b \in Build, p \in Part : Returned(b, p) => Returned(b, p)'
    BY DEF Detach, Returned
<1>4. Returned(c, q)'
    BY DEF Detach, Returned
<1>5. ASSUME NEW b \in Build, NEW p \in Part, Past(b, p)' PROVE Returned(b, p)'
  <2>1. CASE b # c
    <3>1. Past(b, p)
        BY <1>1, <1>5, <2>1 DEF Past, Inv, Typed
    <3> QED BY <3>1, <1>3 DEF Inv
  <2>2. CASE b = c /\ p = q
      BY <2>2, <1>4
  <2>3. CASE b = c /\ p # q
    <3>1. q = "rootfs" /\ p = "boot"
        BY <1>1, <1>5, <2>3 DEF Past, Inv, Typed, Part
    <3>2. Past(c, "boot")
        BY <3>1, <1>1 DEF Past
    <3> QED BY <3>1, <3>2, <2>3, <1>3 DEF Inv, Part
  <2> QED BY <2>1, <2>2, <2>3
<1> QED BY <1>2, <1>5 DEF Inv

\* Removing the files is the way to the end.
LEMMA RmKeeps ==
    ASSUME Inv, NEW c \in Build, Rm(c)
    PROVE  Inv'
<1>1. /\ pc' = [pc EXCEPT ![c] = "ended"] /\ pc[c] = "rm"
      /\ UNCHANGED devices /\ status' \in [Build -> Status] /\ status' = status
    BY DEF Rm, Goto, Inv, Typed
<1>2. "ended" \in Point
    BY DEF Point, Exiting
<1>3. \A p \in Part : Past(c, p)
    BY <1>1 DEF Past
<1> QED BY <1>1, <1>2, <1>3, Elsewhere

\* A build that is interrupted is on no way past a detaching: it has ended early,
\* or it still has the trap to run.
LEMMA InterruptKeeps ==
    ASSUME Inv, NEW c \in Build, Interrupt(c)
    PROVE  Inv'
<1>1. PICK to \in {"ended", "pumount1", "umountdev"}, s \in {"early", "stopped"} :
        /\ pc' = [pc EXCEPT ![c] = to] /\ status' = [status EXCEPT ![c] = s]
        /\ to = "ended" => s = "early"
    BY DEF Interrupt
<1>2. UNCHANGED devices /\ to \in Point /\ s \in Status
    BY DEF Interrupt, Point, Exiting, HookExiting, Status
<1>3. status' \in [Build -> Status] /\ \A b \in Build : b # c => status'[b] = status[b]
    BY <1>1, <1>2 DEF Inv, Typed
<1>4. \A p \in Part : ~Past(c, p)'
    BY <1>1 DEF Past, Inv, Typed
<1> QED BY <1>1, <1>2, <1>3, <1>4, Elsewhere

LEMMA NotFoundKeeps ==
    ASSUME Inv, NEW c \in Build, NotFound(c)
    PROVE  Inv'
<1>1. /\ pc' = [pc EXCEPT ![c] = "pumount1"] /\ UNCHANGED devices
      /\ status' = [status EXCEPT ![c] = "notfound"]
    BY DEF NotFound, Goto
<1>2. "pumount1" \in Point /\ "notfound" \in Status
    BY DEF Point, Exiting, Status
<1>3. status' \in [Build -> Status] /\ \A b \in Build : b # c => status'[b] = status[b]
    BY <1>1, <1>2 DEF Inv, Typed
<1>4. \A p \in Part : ~Past(c, p)'
    BY <1>1 DEF Past, Inv, Typed
<1> QED BY <1>1, <1>2, <1>3, <1>4, Elsewhere

\* The points a build can be at while it leaves its devices alone.
LEMMA Points ==
    {"start", "losetup1", "losetup2", "pmount1", "pmount2", "trap", "bootstrap", "unpack",
     "mountuboot", "mountdev", "mountsys", "mountproc", "hooktrap", "configure", "umountdev",
     "umountsys", "umountproc", "umountuboot", "assemble", "pumount1", "pumount2", "detach1"}
    \subseteq Point
BY DEF Point, Unguarded, HookUnguarded, Working, Exiting, HookExiting

LEMMA AcquireKeeps ==
    ASSUME Inv, NEW c \in Build, Acquire(c)
    PROVE  Inv'
<1>1. CASE Partition(c)
    BY <1>1, Points, Step1 DEF Partition, devices
<1>2. CASE Losetup(c, "boot", "losetup1", "losetup2") \/ Losetup(c, "rootfs", "losetup2", "pmount1")
    BY <1>2, LosetupKeeps DEF Part
<1>3. CASE Pmount(c, "boot", "pmount1", "pmount2") \/ Pmount(c, "rootfs", "pmount2", "trap")
    BY <1>3, Points, Step1 DEF Pmount
<1>4. CASE Trap(c)
    BY <1>4, Points, Step1 DEF Trap
<1> QED BY <1>1, <1>2, <1>3, <1>4 DEF Acquire

LEMMA HookKeeps ==
    ASSUME Inv, NEW c \in Build, Hook(c)
    PROVE  Inv'
<1>1. ASSUME NEW p, NEW from \in Point, NEW to \in Point \ {"detach2", "rm", "ended"},
             BindMount(c, p, from, to) \/ UmountBind(c, p, from, to)
      PROVE  Inv'
    BY <1>1, Step1 DEF BindMount, UmountBind
<1>2. CASE BindMount(c, "uboot", "mountuboot", "mountdev") \/ BindMount(c, "dev", "mountdev", "mountsys")
           \/ BindMount(c, "sys", "mountsys", "mountproc") \/ BindMount(c, "proc", "mountproc", "hooktrap")
    BY <1>2, <1>1, Points
<1>3. CASE HookTrap(c) \/ Configure(c)
    BY <1>3, Points, Step1 DEF HookTrap, Configure
<1>4. CASE UmountBind(c, "dev", "umountdev", "umountsys") \/ UmountBind(c, "sys", "umountsys", "umountproc")
           \/ UmountBind(c, "proc", "umountproc", "umountuboot")
    BY <1>4, <1>1, Points
<1>5. CASE UmountBind(c, "uboot", "umountuboot", IF status[c] = "stopped" THEN "pumount1" ELSE "assemble")
    BY <1>5, <1>1, Points
<1> QED BY <1>2, <1>3, <1>4, <1>5 DEF Hook

LEMMA BootstrapKeeps ==
    ASSUME Inv, NEW c \in Build, Bootstrap(c)
    PROVE  Inv'
<1>1. CASE ShowHelp(c) \/ BootstrapFails(c)
    BY <1>1, Points, Step1 DEF ShowHelp, BootstrapFails
<1>2. CASE Multistrap(c) \/ Unpack(c)
    BY <1>2, Points, Step1 DEF Multistrap, Unpack
<1>3. CASE NotFound(c)
    BY <1>3, NotFoundKeeps
<1>4. CASE Hook(c)
    BY <1>4, HookKeeps
<1> QED BY <1>1, <1>2, <1>3, <1>4 DEF Bootstrap

LEMMA AtExitKeeps ==
    ASSUME Inv, NEW c \in Build, AtExit(c)
    PROVE  Inv'
<1>1. CASE Pumount(c, "boot", "pumount1", "pumount2") \/ Pumount(c, "rootfs", "pumount2", "detach1")
    BY <1>1, Points, Step1 DEF Pumount
<1>2. CASE Detach(c, "boot", "detach1", "detach2") \/ Detach(c, "rootfs", "detach2", "rm")
    BY <1>2, DetachKeeps DEF Part
<1>3. CASE Rm(c)
    BY <1>3, RmKeeps
<1> QED BY <1>1, <1>2, <1>3 DEF AtExit

LEMMA InvNext == Inv /\ [Next]_vars => Inv'
<1> SUFFICES ASSUME Inv, [Next]_vars PROVE Inv'
    OBVIOUS
<1>1. CASE UNCHANGED vars
    BY <1>1 DEF vars, devices, Inv, Typed, Past, Returned
<1>2. CASE \E i \in Image : WriteBack(i)
    BY <1>2 DEF WriteBack, devices, Inv, Typed, Past, Returned
<1>3. ASSUME NEW c \in Build, Step(c) PROVE Inv'
  <2>1. CASE Acquire(c)
      BY <2>1, AcquireKeeps
  <2>2. CASE Bootstrap(c)
      BY <2>2, BootstrapKeeps
  <2>3. CASE Assemble(c)
      BY <2>3, Points, Step1 DEF Assemble
  <2>4. CASE AtExit(c)
      BY <2>4, AtExitKeeps
  <2> QED BY <1>3, <2>1, <2>2, <2>3, <2>4 DEF Step
<1>4. ASSUME NEW c \in Build, Interrupt(c) PROVE Inv'
    BY <1>4, InterruptKeeps
<1> QED BY <1>1, <1>2, <1>3, <1>4 DEF Next

\* However many builds run, and whatever they unmount under each other, a build
\* that has run atexit has no loop device left for good.
THEOREM DevicesReturned == Spec => []LoopsGivenBack
<1>1. Inv => LoopsGivenBack
    BY DEF Inv, LoopsGivenBack, Past, Returned
<1> QED BY <1>1, InvInit, InvNext, PTL DEF Spec

-----------------------------------------------------------------------------
(* The types.                                                              *)

Place == Image \cup {Host}
Binding == [by : Build, point : Bind, under : Place, src : Place]

\* Only a device that has been detached is marked to be detached once more.
Marked ==
    \A b \in Build, p \in Part : <<b, p>> \in autoclear =>
        pc[b] \in {"rm", "ended"} \/ (pc[b] = "detach2" /\ p = "boot")

Rest ==
    /\ pc \in [Build -> Point]
    /\ loops \subseteq Image /\ autoclear \subseteq loops /\ Marked
    /\ mount \in [Part -> Place]
    /\ binds \subseteq Binding
    /\ content \in [Place -> Content] /\ stored \in [Image -> Content]
    /\ files \subseteq Build
    /\ result \in [Build -> [Part -> Content \cup {"none"}]]

\* A step that goes on to another point and leaves everything else alone.
LEMMA OnlyGoes ==
    ASSUME Rest, NEW c \in Build, NEW from \in Point, NEW to \in Point, Goto(c, from, to),
           from \notin {"detach2", "rm", "ended"},
           UNCHANGED << devices, mount, binds, data, files, result >>
    PROVE  Rest'
<1>1. pc' \in [Build -> Point] /\ \A b \in Build : b # c => pc'[b] = pc[b]
    BY DEF Goto, Rest
<1>2. Marked'
    BY <1>1 DEF Rest, Marked, Goto, devices
<1> QED BY <1>1, <1>2 DEF Rest, devices, data

\* The same for one that leaves the devices alone.
LEMMA DevicesAlone ==
    ASSUME Rest, NEW c \in Build, NEW from \in Point, NEW to \in Point, Goto(c, from, to),
           from \notin {"detach2", "rm", "ended"} \/ to \in {"rm", "ended"}, UNCHANGED devices
    PROVE  /\ pc' \in [Build -> Point]
           /\ loops' \subseteq Image /\ autoclear' \subseteq loops' /\ Marked'
<1>1. pc' \in [Build -> Point] /\ \A b \in Build : b # c => pc'[b] = pc[b]
    BY DEF Goto, Rest
<1>2. Marked'
    BY <1>1 DEF Rest, Marked, Goto, devices
<1> QED BY <1>1, <1>2 DEF Rest, devices

LEMMA RestAcquire ==
    ASSUME Rest, NEW c \in Build, Acquire(c)
    PROVE  Rest'
<1>1. CASE Partition(c) \/ Trap(c)
  <2>1. files' \subseteq Build
      BY <1>1 DEF Partition, Trap, Rest
  <2>2. pc' \in [Build -> Point] /\ loops' \subseteq Image /\ autoclear' \subseteq loops' /\ Marked'
      BY <1>1, DevicesAlone DEF Partition, Trap, Point, Unguarded, Working
  <2> QED BY <1>1, <2>1, <2>2 DEF Partition, Trap, Rest, data
<1>2. ASSUME NEW p \in Part, NEW from \in Unguarded, NEW to \in Unguarded, Losetup(c, p, from, to)
      PROVE  Rest'
  <2>1. pc' \in [Build -> Point] /\ \A b \in Build : b # c => pc'[b] = pc[b]
      BY <1>2 DEF Losetup, Goto, Rest, Point
  <2>2. Marked'
      BY <1>2, <2>1 DEF Losetup, Goto, Rest, Marked, Unguarded
  <2>3. loops' \subseteq Image /\ autoclear' \subseteq loops'
      BY <1>2 DEF Losetup, Rest, Image
  <2> QED BY <1>2, <2>1, <2>2, <2>3 DEF Losetup, Rest, data
<1>3. ASSUME NEW p \in Part, NEW from \in Unguarded, NEW to \in Unguarded, Pmount(c, p, from, to)
      PROVE  Rest'
  <2>1. mount' \in [Part -> Place]
      BY <1>3 DEF Pmount, Rest, Place, Image
  <2>2. pc' \in [Build -> Point] /\ loops' \subseteq Image /\ autoclear' \subseteq loops' /\ Marked'
      BY <1>3, DevicesAlone DEF Pmount, Point, Unguarded
  <2> QED BY <1>3, <2>1, <2>2 DEF Pmount, Rest, data
<1> QED BY <1>1, <1>2, <1>3 DEF Acquire, Part, Unguarded

LEMMA RestBootstrap ==
    ASSUME Rest, NEW c \in Build, ShowHelp(c) \/ BootstrapFails(c) \/ Multistrap(c) \/ NotFound(c) \/ Unpack(c)
    PROVE  Rest'
<1>1. CASE ShowHelp(c) \/ Multistrap(c) \/ NotFound(c)
    BY <1>1, OnlyGoes DEF ShowHelp, Multistrap, NotFound, Point, Working, Exiting
<1>2. CASE BootstrapFails(c) \/ Unpack(c)
  <2>1. content' \in [Place -> Content]
      BY <1>2 DEF BootstrapFails, Cut, Unpack, Rest, Content, System, Part
  <2>2. pc' \in [Build -> Point] /\ loops' \subseteq Image /\ autoclear' \subseteq loops' /\ Marked'
      BY <1>2, DevicesAlone DEF BootstrapFails, Unpack, Point, Working, Exiting
  <2> QED BY <1>2, <2>1, <2>2 DEF BootstrapFails, Unpack, Rest
<1> QED BY <1>1, <1>2

HookPoint == HookUnguarded \cup HookExiting \cup {"mountuboot", "configure", "pumount1", "assemble"}

LEMMA HookPoints == HookPoint \subseteq Point /\ HookPoint \cap {"detach2", "rm", "ended"} = {}
BY DEF HookPoint, Point, HookUnguarded, HookExiting, Working, Exiting

LEMMA RestHook ==
    ASSUME Rest, NEW c \in Build, Hook(c)
    PROVE  Rest'
<1>1. ASSUME NEW p \in Bind, NEW from \in HookPoint, NEW to \in HookPoint, BindMount(c, p, from, to)
      PROVE  Rest'
  <2>1. mount["rootfs"] \in Place /\ mount["boot"] \in Place /\ Host \in Place
      BY DEF Rest, Part, Place
  <2>2. content' \in [Place -> Content]
      BY <1>1, <2>1 DEF BindMount, Rest, Content
  <2>3. binds' \subseteq Binding
      BY <1>1, <2>1 DEF BindMount, Rest, Binding
  <2>4. pc' \in [Build -> Point] /\ loops' \subseteq Image /\ autoclear' \subseteq loops' /\ Marked'
      BY <1>1, DevicesAlone, HookPoints DEF BindMount
  <2> QED BY <1>1, <2>2, <2>3, <2>4 DEF BindMount, Rest
<1>2. ASSUME NEW p \in Bind, NEW from \in HookPoint, NEW to \in HookPoint, UmountBind(c, p, from, to)
      PROVE  Rest'
  <2>1. binds' \subseteq Binding
      BY <1>2 DEF UmountBind, Rest
  <2>2. pc' \in [Build -> Point] /\ loops' \subseteq Image /\ autoclear' \subseteq loops' /\ Marked'
      BY <1>2, DevicesAlone, HookPoints DEF UmountBind
  <2> QED BY <1>2, <2>1, <2>2 DEF UmountBind, Rest, data
<1>3. CASE HookTrap(c)
    BY <1>3, OnlyGoes, HookPoints DEF HookTrap, HookPoint, HookUnguarded
<1>4. CASE Configure(c)
  <2>1. content' \in [Place -> Content]
      BY <1>4 DEF Configure, Rest, Content, System, Part, Binding
  <2>2. pc' \in [Build -> Point] /\ loops' \subseteq Image /\ autoclear' \subseteq loops' /\ Marked'
      BY <1>4, DevicesAlone, HookPoints DEF Configure, HookPoint, HookExiting
  <2> QED BY <1>4, <2>1, <2>2 DEF Configure, Rest
<1> QED BY <1>1, <1>2, <1>3, <1>4 DEF Hook, Bind, HookPoint, HookUnguarded, HookExiting

LEMMA RestAtExit ==
    ASSUME Rest, NEW c \in Build, AtExit(c)
    PROVE  Rest'
<1>1. ASSUME NEW p \in Part, NEW from \in {"pumount1", "pumount2"}, NEW to \in {"pumount2", "detach1"},
             Pumount(c, p, from, to)
      PROVE  Rest'
  <2>1. mount' \in [Part -> Place]
      BY <1>1 DEF Pumount, Rest, Place
  <2>2. stored' \in [Image -> Content]
    <3>1. CASE UNCHANGED stored
        BY <3>1 DEF Rest
    <3>2. CASE mount[p] # Host /\ stored' = [stored EXCEPT ![mount[p]] = content[mount[p]]]
        BY <3>2 DEF Rest, Place
    <3> QED BY <1>1, <3>1, <3>2 DEF Pumount
  <2>3. pc' \in [Build -> Point] /\ loops' \subseteq Image /\ autoclear' \subseteq loops' /\ Marked'
      BY <1>1, DevicesAlone DEF Pumount, Point, Exiting
  <2> QED BY <1>1, <2>1, <2>2, <2>3 DEF Pumount, Rest
<1>2. ASSUME NEW p \in Part, NEW from, NEW to,
             <<p, from, to>> \in {<<"boot", "detach1", "detach2">>, <<"rootfs", "detach2", "rm">>},
             Detach(c, p, from, to)
      PROVE  Rest'
  <2>1. pc' \in [Build -> Point] /\ (\A b \in Build : b # c => pc'[b] = pc[b]) /\ pc[c] = from /\ pc'[c] = to
      BY <1>2 DEF Detach, Goto, Rest, Point, Exiting
  <2>2. <<c, p>> \notin autoclear
      BY <1>2, <2>1 DEF Rest, Marked, Part
  <2>3. loops' \subseteq Image /\ autoclear' \subseteq loops' /\ autoclear' \subseteq autoclear \cup {<<c, p>>}
    <3>1. \/ loops' = loops /\ <<c, p>> \in loops /\ autoclear' = autoclear \cup {<<c, p>>}
          \/ loops' = loops \ {<<c, p>>} /\ autoclear' = autoclear
        BY <1>2 DEF Detach
    <3>2. loops \subseteq Image /\ autoclear \subseteq loops
        BY DEF Rest
    <3> QED BY <2>2, <3>1, <3>2
  <2>4. Marked'
    <3> SUFFICES ASSUME NEW b \in Build, NEW q \in Part, <<b, q>> \in autoclear'
                 PROVE  pc'[b] \in {"rm", "ended"} \/ (pc'[b] = "detach2" /\ q = "boot")
        BY DEF Marked
    <3>1. CASE <<b, q>> = <<c, p>>
        BY <1>2, <2>1, <3>1
    <3>2. CASE <<b, q>> \in autoclear
        BY <1>2, <2>1, <3>2 DEF Rest, Marked
    <3> QED BY <2>3, <3>1, <3>2
  <2> QED BY <1>2, <2>1, <2>3, <2>4 DEF Detach, Rest, data
<1>3. CASE Rm(c)
  <2>1. pc' \in [Build -> Point] /\ loops' \subseteq Image /\ autoclear' \subseteq loops' /\ Marked'
      BY <1>3, DevicesAlone DEF Rm, Point, Exiting
  <2> QED BY <1>3, <2>1 DEF Rm, Rest, data
<1> QED BY <1>1, <1>2, <1>3 DEF AtExit, Part

LEMMA RestNext == Rest /\ [Next]_vars => Rest'
<1> SUFFICES ASSUME Rest, [Next]_vars PROVE Rest'
    OBVIOUS
<1>1. CASE UNCHANGED vars
    BY <1>1 DEF vars, devices, data, Rest, Marked
<1>2. ASSUME NEW i \in Image, WriteBack(i) PROVE Rest'
  <2>1. stored' \in [Image -> Content]
      BY <1>2 DEF WriteBack, Rest, Place
  <2> QED BY <1>2, <2>1 DEF WriteBack, Rest, Marked, devices
<1>3. ASSUME NEW c \in Build, Assemble(c) PROVE Rest'
  <2>1. [p \in Part |-> stored[<<c, p>>]] \in [Part -> Content \cup {"none"}]
      BY DEF Rest, Image
  <2>2. result' \in [Build -> [Part -> Content \cup {"none"}]]
      BY <1>3, <2>1 DEF Assemble, Rest
  <2>3. pc' \in [Build -> Point] /\ loops' \subseteq Image /\ autoclear' \subseteq loops' /\ Marked'
      BY <1>3, DevicesAlone DEF Assemble, Point, Working, Exiting
  <2> QED BY <1>3, <2>2, <2>3 DEF Assemble, Rest, data
<1>4. ASSUME NEW c \in Build, Interrupt(c) PROVE Rest'
  <2>1. PICK to \in {"ended", "pumount1", "umountdev"} :
          /\ pc' = [pc EXCEPT ![c] = to]
          /\ pc[c] \in Unguarded \cup HookUnguarded \cup Working \cup {"configure"}
      BY <1>4 DEF Interrupt
  <2>2. pc' \in [Build -> Point] /\ \A b \in Build : b # c => pc'[b] = pc[b]
      BY <2>1 DEF Rest, Point, Exiting, HookExiting
  <2>3. Marked'
      BY <1>4, <2>1, <2>2 DEF Interrupt, devices, Rest, Marked, Unguarded, HookUnguarded, Working
  <2>4. content' \in [Place -> Content]
      BY <1>4 DEF Interrupt, Cut, Rest, Content, System, Part
  <2> QED BY <1>4, <2>2, <2>3, <2>4 DEF Interrupt, devices, Rest
<1> QED BY <1>1, <1>2, <1>3, <1>4, RestAcquire, RestBootstrap, RestHook, RestAtExit DEF Next, Step, Bootstrap

LEMMA RestInit == Init => Rest
<1> SUFFICES ASSUME Init PROVE Rest
    OBVIOUS
<1>1. pc \in [Build -> Point] /\ loops \subseteq Image /\ autoclear \subseteq loops /\ Marked
    BY DEF Init, Point, Marked
<1>2. mount \in [Part -> Place] /\ binds \subseteq Binding /\ files \subseteq Build
    BY DEF Init, Place
<1>3. content \in [Place -> Content] /\ stored \in [Image -> Content]
    BY DEF Init, Place, Content
<1>4. result \in [Build -> [Part -> Content \cup {"none"}]]
    BY DEF Init, Nothing
<1> QED BY <1>1, <1>2, <1>3, <1>4 DEF Rest

\* The variables have their types, and only an attached device is marked.
THEOREM TypeCorrect == Spec => []TypeOK
<1>1. Init => root \in [Build -> BOOLEAN] /\ help \in [Build -> BOOLEAN]
    BY Zenon DEF Init
<1>2. [Next]_vars => UNCHANGED arguments
  <2>1. UNCHANGED vars => UNCHANGED arguments
      BY DEF vars, arguments
  <2> QED
      BY <2>1
      DEF Next, Step, Acquire, Partition, Losetup, Pmount, Trap, Bootstrap, ShowHelp, BootstrapFails,
           Multistrap, NotFound, Unpack, Hook, BindMount, HookTrap, Configure, UmountBind, Assemble,
           AtExit, Pumount, Detach, Rm, Interrupt, WriteBack
<1>3. root \in [Build -> BOOLEAN] /\ help \in [Build -> BOOLEAN] /\ UNCHANGED arguments
        => (root \in [Build -> BOOLEAN] /\ help \in [Build -> BOOLEAN])'
    BY Zenon DEF arguments
<1>4. Inv /\ Rest /\ root \in [Build -> BOOLEAN] /\ help \in [Build -> BOOLEAN] => TypeOK
    BY Zenon DEF Inv, Typed, Rest, Place, Binding, TypeOK
<1> QED BY <1>1, <1>2, <1>3, <1>4, InvInit, InvNext, RestInit, RestNext, PTL DEF Spec

-----------------------------------------------------------------------------
(* What has been acquired has a build that will still release it.          *)

Early(b) == status[b] = "early"

\* Where a build is that has made the bind mount at p and has still to undo it.
Between(p) ==
    CASE p = "uboot" -> {"mountdev", "mountsys", "mountproc", "hooktrap", "configure"} \cup HookExiting
      [] p = "dev" -> {"mountsys", "mountproc", "hooktrap", "configure", "umountdev"}
      [] p = "sys" -> {"mountproc", "hooktrap", "configure", "umountdev", "umountsys"}
      [] p = "proc" -> {"hooktrap", "configure", "umountdev", "umountsys", "umountproc"}

At(p) == {m \in binds : m.point = p}
Answers(p) == {b \in Build : pc[b] \in Between(p) \/ Early(b)}

\* A build may undo the mount of another, and leave it its own: there are no more
\* mounts than there are builds to undo them.
Match(p, f) == f \in [At(p) -> Answers(p)] /\ \A m, n \in At(p) : f[m] = f[n] => m = n
Matched(p) == \E f : Match(p, f)

\* Where a build has not mounted its partition p, or is past unmounting that.
Outside(p) ==
    {"start", "losetup1", "losetup2", "pmount1", "detach1", "detach2", "rm", "ended"}
        \cup IF p = "rootfs" THEN {"pmount2"} ELSE {"pumount2"}
Held(p) == mount[p] # Host => \E b \in Build : pc[b] \notin Outside(p) \/ Early(b)

\* All bind mounts are below the root mounted now: it is busy as long as there is
\* one, and pmount refuses the mount point once a build has worked in it.
Below ==
    /\ \A p \in Part : mount[p] = Host \/ \E b \in Build : mount[p] = <<b, p>>
    /\ \A m \in binds : m.under = mount["rootfs"]
    /\ (\E m \in binds : m.under = Host) => content[Host] # "empty"

\* Files and devices come with the start of a build, and the files go with its end.
Begun ==
    /\ \A b \in Build : b \in files => pc[b] # "start" /\ (pc[b] = "ended" => Early(b))
    /\ \A b \in Build, p \in Part : <<b, p>> \in loops => pc[b] # "start"
    /\ \A b \in Build : Early(b) => pc[b] \in Exiting

Owned == Below /\ Begun /\ (\A p \in Bind : Matched(p)) /\ (\A p \in Part : Held(p))

LEMMA HostIsNoImage == Host \notin Image /\ \A b \in Build, p \in Part : Host # <<b, p>>
BY BuildAssumption DEF Host, Image

LEMMA OwnedInit == Init => Owned
<1> SUFFICES ASSUME Init PROVE Owned
    OBVIOUS
<1>1. Below /\ Begun /\ \A p \in Part : Held(p)
    BY DEF Init, Below, Begun, Held, Early
<1>2. ASSUME NEW p \in Bind PROVE Matched(p)
  <2>1. At(p) = {}
      BY DEF Init, At
  <2>2. Match(p, [m \in {} |-> Host])
      BY <2>1 DEF Match
  <2> QED BY <2>2 DEF Matched
<1> QED BY <1>1, <1>2 DEF Owned

\* A step from one point to another that keeps a build where it answers for a mount.
KeepsPlace(from, to) ==
    /\ \A p \in Bind : from \in Between(p) => to \in Between(p)
    /\ \A p \in Part : to \in Outside(p) => from \in Outside(p)

LEMMA MoreAnswers ==
    ASSUME NEW p \in Bind, Matched(p), At(p)' = At(p),
           \A b \in Build : pc[b] \in Between(p) \/ Early(b) => pc'[b] \in Between(p) \/ Early(b)'
    PROVE  Matched(p)'
<1>1. PICK f : Match(p, f)
    BY DEF Matched
<1>2. Answers(p) \subseteq Answers(p)'
    BY DEF Answers
<1>3. f \in [At(p)' -> Answers(p)']
    BY <1>1, <1>2 DEF Match
<1>4. Match(p, f)'
    BY <1>1, <1>3 DEF Match
<1> QED BY <1>4 DEF Matched

\* A step of build c to the point to.
Goes(c, to) ==
    /\ pc' = [pc EXCEPT ![c] = to] /\ to # "start"
    /\ \A b \in Build : b # c => status'[b] = status[b]
    /\ Early(c) => Early(c)'
    /\ Early(c)' => to \in Exiting
    /\ files' \subseteq files \cup {c} /\ (to = "ended" /\ c \in files' => Early(c)')
    /\ loops' \subseteq loops \cup {<<c, p>> : p \in Part}

LEMMA BegunKept ==
    ASSUME Rest, Owned, NEW c \in Build, NEW to \in Point, Goes(c, to)
    PROVE  /\ Begun'
           /\ pc'[c] = to /\ \A b \in Build : b # c => pc'[b] = pc[b] /\ (Early(b)' <=> Early(b))
<1>1. pc'[c] = to /\ \A b \in Build : b # c => pc'[b] = pc[b] /\ (Early(b)' <=> Early(b))
    BY DEF Rest, Goes, Early
<1>2. \A b \in Build : b \in files' => pc'[b] # "start" /\ (pc'[b] = "ended" => Early(b)')
    BY <1>1 DEF Owned, Begun, Goes
<1>3. \A b \in Build, p \in Part : <<b, p>> \in loops' => pc'[b] # "start"
    BY <1>1 DEF Owned, Begun, Goes
<1>4. \A b \in Build : Early(b)' => pc'[b] \in Exiting
    BY <1>1 DEF Owned, Begun, Goes
<1> QED BY <1>1, <1>2, <1>3, <1>4 DEF Begun

\* What does not concern the step of a build.
LEMMA MatchedKept ==
    ASSUME Rest, Owned, NEW c \in Build, NEW to \in Point, Goes(c, to),
           NEW p \in Bind, At(p)' = At(p), pc[c] \in Between(p) => to \in Between(p) \/ Early(c)'
    PROVE  Matched(p)'
<1>1. ASSUME NEW b \in Build, pc[b] \in Between(p) \/ Early(b) PROVE pc'[b] \in Between(p) \/ Early(b)'
  <2>1. CASE b = c
      BY <1>1, <2>1, BegunKept DEF Goes
  <2>2. CASE b # c
      BY <1>1, <2>2, BegunKept
  <2> QED BY <2>1, <2>2
<1> QED BY <1>1, MoreAnswers DEF Owned

LEMMA HeldKept ==
    ASSUME Rest, Owned, NEW c \in Build, NEW to \in Point, Goes(c, to),
           NEW p \in Part, mount'[p] = mount[p], to \in Outside(p) => pc[c] \in Outside(p) \/ Early(c)'
    PROVE  Held(p)'
BY BegunKept DEF Goes, Owned, Held

\* A step that leaves the mounts alone.
LEMMA Moves ==
    ASSUME Rest, Owned, NEW c \in Build, NEW to \in Point, Goes(c, to),
           KeepsPlace(pc[c], to) \/ Early(c)',
           binds' = binds, mount' = mount, content[Host] # "empty" => content'[Host] # "empty"
    PROVE  Owned'
<1>1. Below'
    BY DEF Owned, Below
<1>2. Begun'
    BY BegunKept
<1>3. ASSUME NEW p \in Bind PROVE Matched(p)'
  <2>1. At(p)' = At(p)
      BY DEF At
  <2> QED BY <2>1, MatchedKept DEF KeepsPlace
<1>4. ASSUME NEW p \in Part PROVE Held(p)'
    BY HeldKept DEF KeepsPlace
<1> QED BY <1>1, <1>2, <1>3, <1>4 DEF Owned

\* The steps that keep what a build answers for, but for the mount the step is about.
Steps ==
    {<<"start", "losetup1">>, <<"losetup1", "losetup2">>, <<"losetup2", "pmount1">>,
     <<"pmount1", "pmount2">>, <<"pmount2", "trap">>, <<"trap", "bootstrap">>,
     <<"bootstrap", "assemble">>, <<"bootstrap", "pumount1">>, <<"unpack", "pumount1">>,
     <<"bootstrap", "unpack">>, <<"unpack", "mountuboot">>, <<"mountuboot", "mountdev">>,
     <<"mountdev", "mountsys">>, <<"mountsys", "mountproc">>, <<"mountproc", "hooktrap">>,
     <<"hooktrap", "configure">>, <<"configure", "umountdev">>, <<"assemble", "pumount1">>,
     <<"detach1", "detach2">>, <<"detach2", "rm">>}

LEMMA StepsKeep ==
    ASSUME NEW from, NEW to, <<from, to>> \in Steps
    PROVE  /\ from \in Point /\ to \in Point /\ to \notin {"start", "ended"}
           /\ KeepsPlace(from, to) /\ (from \in Exiting => to \in Exiting)
<1>1. from \in Point /\ to \in Point /\ to \notin {"start", "ended"} /\ (from \in Exiting => to \in Exiting)
    BY DEF Steps, Point, Unguarded, HookUnguarded, Working, Exiting, HookExiting
<1>2. \A p \in Bind : from \in Between(p) => to \in Between(p)
    BY DEF Steps, Bind, Between, HookExiting
<1>3. \A p \in Part : to \in Outside(p) => from \in Outside(p)
    BY DEF Steps, Part, Outside
<1> QED BY <1>1, <1>2, <1>3 DEF KeepsPlace

\* A step that leaves the status alone.
LEMMA GoesOn ==
    ASSUME Owned, NEW c \in Build, NEW from, NEW to, Goto(c, from, to), status' = status,
           to \notin {"start", "ended"}, from \in Exiting => to \in Exiting,
           files' \subseteq files \cup {c}, loops' \subseteq loops \cup {<<c, p>> : p \in Part}
    PROVE  Goes(c, to) /\ pc[c] = from /\ (Early(c)' <=> Early(c)) /\ (Early(c) => from \in Exiting)
BY DEF Goto, Goes, Early, Owned, Begun

LEMMA StepsOwned ==
    ASSUME Rest, Owned, NEW c \in Build, NEW from, NEW to, <<from, to>> \in Steps,
           Goto(c, from, to), status' = status, binds' = binds, mount' = mount,
           content[Host] # "empty" => content'[Host] # "empty",
           files' \subseteq files \cup {c}, loops' \subseteq loops \cup {<<c, p>> : p \in Part}
    PROVE  Owned'
BY StepsKeep, GoesOn, Moves

LEMMA PmountOwned ==
    ASSUME Rest, Owned, NEW c \in Build, NEW p \in Part, NEW from, NEW to,
           <<p, from, to>> \in {<<"boot", "pmount1", "pmount2">>, <<"rootfs", "pmount2", "trap">>},
           Pmount(c, p, from, to)
    PROVE  Owned'
<1>1. <<from, to>> \in Steps
    BY DEF Steps
<1>2. CASE ~CanMount(c, p)
    BY <1>1, <1>2, StepsOwned DEF Pmount, devices, data
<1>3. CASE CanMount(c, p)
  <2>1. /\ mount[p] = Host /\ (p = "rootfs" => content[Host] = "empty")
        /\ mount'[p] = <<c, p>> /\ \A q \in Part : q # p => mount'[q] = mount[q]
        /\ UNCHANGED << binds, content, status, files, loops >>
      BY <1>3 DEF CanMount, Pmount, Rest, data, devices
  <2>2. Goes(c, to) /\ pc[c] = from /\ to \in Point /\ KeepsPlace(from, to)
      BY <1>1, <2>1, StepsKeep, GoesOn DEF Pmount
  <2>3. Below'
    <3>1. \A q \in Part : mount'[q] = Host \/ \E b \in Build : mount'[q] = <<b, q>>
        BY <2>1 DEF Owned, Below
    <3>2. CASE p = "rootfs"
      <4>1. binds = {}
          BY <2>1, <3>2 DEF Owned, Below
      <4> QED BY <2>1, <3>1, <4>1 DEF Below
    <3>3. CASE p = "boot"
        BY <2>1, <3>1, <3>3 DEF Owned, Below, Part
    <3> QED BY <3>2, <3>3 DEF Part
  <2>4. Begun' /\ pc'[c] = to
      BY <2>2, BegunKept
  <2>5. ASSUME NEW q \in Bind PROVE Matched(q)'
    <3>1. At(q)' = At(q)
        BY <2>1 DEF At
    <3> QED BY <2>2, <3>1, MatchedKept DEF KeepsPlace
  <2>6. ASSUME NEW q \in Part PROVE Held(q)'
    <3>1. CASE q = p
        BY <2>4, <3>1 DEF Held, Outside
    <3>2. CASE q # p
        BY <2>1, <2>2, <3>2, HeldKept DEF KeepsPlace
    <3> QED BY <3>1, <3>2
  <2> QED BY <2>3, <2>4, <2>5, <2>6 DEF Owned
<1> QED BY <1>2, <1>3

LEMMA BindOwned ==
    ASSUME Rest, Owned, NEW c \in Build, NEW p, NEW from, NEW to,
           <<p, from, to>> \in {<<"uboot", "mountuboot", "mountdev">>, <<"dev", "mountdev", "mountsys">>,
                                <<"sys", "mountsys", "mountproc">>, <<"proc", "mountproc", "hooktrap">>},
           BindMount(c, p, from, to)
    PROVE  Owned'
<1>1. <<from, to>> \in Steps /\ p \in Bind /\ to \in Between(p) /\ from \notin Between(p) /\ from \notin Exiting
    BY DEF Steps, Bind, Between, Exiting, HookExiting
<1>2. /\ mount' = mount /\ UNCHANGED << status, files, loops >>
      /\ content' = [content EXCEPT ![mount["rootfs"]] = IF @ = "empty" THEN "part" ELSE @]
    BY DEF BindMount, devices
<1>3. Goes(c, to) /\ pc[c] = from /\ to \in Point /\ KeepsPlace(from, to) /\ ~Early(c) /\ ~Early(c)'
    BY <1>1, <1>2, StepsKeep, GoesOn DEF BindMount
<1>4. PICK m : /\ m.point = p /\ m.under = mount["rootfs"]
               /\ binds' = binds \/ binds' = binds \cup {m}
  <2> DEFINE n == [by |-> c, point |-> p, under |-> mount["rootfs"],
                   src |-> IF p = "uboot" THEN mount["boot"] ELSE Host]
  <2>1. binds' = binds \/ binds' = binds \cup {n}
      BY DEF BindMount
  <2>2. n.point = p /\ n.under = mount["rootfs"]
      OBVIOUS
  <2> HIDE DEF n
  <2> QED BY <2>1, <2>2
<1>5. Begun' /\ pc'[c] = to
    BY <1>3, BegunKept
<1>6. mount["rootfs"] \in Place /\ Host \in Place
    BY DEF Rest, Part, Place
<1>7. Below'
  <2>1. content'[mount["rootfs"]] # "empty"
      BY <1>2, <1>6 DEF Rest
  <2>2. content[Host] # "empty" => content'[Host] # "empty"
      BY <1>2, <1>6 DEF Rest
  <2> QED BY <1>2, <1>4, <2>1, <2>2 DEF Owned, Below
<1>8. ASSUME NEW q \in Bind PROVE Matched(q)'
  <2>1. CASE q # p \/ binds' = binds
    <3>1. At(q)' = At(q)
        BY <1>4, <2>1 DEF At
    <3> QED BY <1>3, <3>1, MatchedKept DEF KeepsPlace
  <2>2. CASE q = p /\ binds' = binds \cup {m}
    <3>1. PICK f : Match(p, f)
        BY <1>1 DEF Owned, Matched
    <3>2. At(p)' = At(p) \cup {m}
        BY <1>4, <2>2 DEF At
    <3>3. c \notin Answers(p) /\ c \in Answers(p)'
        BY <1>1, <1>3, <1>5 DEF Answers
    <3>4. Answers(p) \subseteq Answers(p)'
        BY <1>1, <1>3, BegunKept DEF Answers, Goes
    <3>5. \A n \in At(p) : f[n] \in Answers(p) /\ f[n] # c
        BY <3>1, <3>3 DEF Match
    <3>6. PICK g : g = [n \in At(p)' |-> IF n = m THEN c ELSE f[n]]
        OBVIOUS
    <3>7. g \in [At(p)' -> Answers(p)']
        BY <3>2, <3>3, <3>4, <3>5, <3>6
    <3>8. \A n, k \in At(p)' : g[n] = g[k] => n = k
        BY <3>1, <3>2, <3>5, <3>6 DEF Match
    <3>9. Match(p, g)'
        BY <3>7, <3>8 DEF Match
    <3> QED BY <2>2, <3>9 DEF Matched
  <2> QED BY <1>4, <2>1, <2>2
<1>9. ASSUME NEW q \in Part PROVE Held(q)'
    BY <1>2, <1>3, HeldKept DEF KeepsPlace
<1> QED BY <1>5, <1>7, <1>8, <1>9 DEF Owned

\* Where the mount at p is undone, and the points that may come next.
Undone ==
    {<<"dev", "umountdev", "umountsys">>, <<"sys", "umountsys", "umountproc">>,
     <<"proc", "umountproc", "umountuboot">>, <<"uboot", "umountuboot", "pumount1">>,
     <<"uboot", "umountuboot", "assemble">>}

LEMMA UndonePlaces ==
    ASSUME NEW p, NEW from, NEW to, <<p, from, to>> \in Undone
    PROVE  /\ p \in Bind /\ from \in Between(p) /\ to \in Point
           /\ from \notin Exiting /\ to \notin {"start", "ended"}
           /\ \A q \in Bind : q # p /\ from \in Between(q) => to \in Between(q)
           /\ \A q \in Part : to \notin Outside(q)
<1>1. p \in Bind /\ to \in Point /\ from \notin Exiting /\ to \notin {"start", "ended"}
    BY DEF Undone, Bind, Point, Exiting, HookExiting, Working
<1>2. from \in Between(p) /\ \A q \in Bind : q # p /\ from \in Between(q) => to \in Between(q)
    BY DEF Undone, Bind, Between, HookExiting
<1>3. \A q \in Part : to \notin Outside(q)
    BY DEF Undone, Part, Outside
<1> QED BY <1>1, <1>2, <1>3

\* A build that undoes the mount another answers for leaves that one its own.
LEMMA UmountOwned ==
    ASSUME Rest, Owned, NEW c \in Build, NEW p, NEW from, NEW to, <<p, from, to>> \in Undone,
           UmountBind(c, p, from, to)
    PROVE  Owned'
<1>1. mount' = mount /\ UNCHANGED << status, files, loops, content >>
    BY DEF UmountBind, devices, data
<1>2. Goes(c, to) /\ pc[c] = from /\ to \in Point /\ ~Early(c) /\ ~Early(c)'
    BY <1>1, UndonePlaces, GoesOn DEF UmountBind
<1>3. Begun' /\ pc'[c] = to /\ \A b \in Build : b # c => pc'[b] = pc[b] /\ (Early(b)' <=> Early(b))
    BY <1>2, BegunKept
<1>4. (At(p) = {} /\ binds' = binds) \/ \E m \in At(p) : binds' = binds \ {m}
    BY DEF UmountBind, At, Owned, Below
<1>5. binds' \subseteq binds
    BY <1>4
<1>6. Below'
    BY <1>1, <1>5 DEF Owned, Below
<1>7. ASSUME NEW q \in Bind, q # p PROVE Matched(q)'
  <2>1. At(q)' = At(q)
      BY <1>4, <1>7 DEF At
  <2> QED BY <1>2, <1>7, <2>1, UndonePlaces, MatchedKept
<1>8. Matched(p)'
  <2>1. PICK f : Match(p, f)
      BY UndonePlaces DEF Owned, Matched
  <2>2. CASE At(p) = {} /\ binds' = binds
    <3>1. At(p)' = {}
        BY <2>2 DEF At
    <3>2. Match(p, [m \in {} |-> Host])'
        BY <3>1 DEF Match
    <3> QED BY <3>2 DEF Matched
  <2>3. ASSUME NEW m \in At(p), binds' = binds \ {m} PROVE Matched(p)'
    <3>1. At(p)' = At(p) \ {m}
        BY <2>3 DEF At
    <3>2. PICK g : g = [n \in At(p)' |-> IF f[n] = c THEN f[m] ELSE f[n]]
        OBVIOUS
    <3>3. \A b \in Build : b \in Answers(p) /\ b # c => b \in Answers(p)'
        BY <1>3 DEF Answers
    <3>4. \A n \in At(p)' : g[n] \in Answers(p) /\ g[n] # c /\ g[n] \in Build
        BY <2>1, <3>1, <3>2 DEF Match, Answers
    <3>5. g \in [At(p)' -> Answers(p)']
        BY <3>2, <3>3, <3>4
    <3>6. \A n, k \in At(p)' : g[n] = g[k] => n = k
        BY <2>1, <3>1, <3>2 DEF Match
    <3>7. Match(p, g)'
        BY <3>5, <3>6 DEF Match
    <3> QED BY <3>7 DEF Matched
  <2> QED BY <1>4, <2>2, <2>3
<1>9. ASSUME NEW q \in Part PROVE Held(q)'
    BY <1>1, <1>2, UndonePlaces, HeldKept
<1> QED BY <1>3, <1>6, <1>7, <1>8, <1>9 DEF Owned

\* pumount fails only while another build is in the file system, or has mounts there.
LEMMA PumountOwned ==
    ASSUME Rest, Owned, NEW c \in Build, NEW p, NEW from, NEW to,
           <<p, from, to>> \in {<<"boot", "pumount1", "pumount2">>, <<"rootfs", "pumount2", "detach1">>},
           Pumount(c, p, from, to)
    PROVE  Owned'
<1>1. /\ p \in Part /\ to \in Point /\ from \in Exiting /\ to \in Exiting /\ to \notin {"start", "ended"}
      /\ \A q \in Bind : from \notin Between(q)
      /\ \A q \in Part : q # p /\ to \in Outside(q) => from \in Outside(q)
    BY DEF Part, Point, Exiting, Bind, Between, HookExiting, Outside
<1>2. UNCHANGED << status, files, loops, content, binds >>
    BY DEF Pumount, devices
<1>3. Goes(c, to) /\ pc[c] = from
    BY <1>1, <1>2, GoesOn DEF Pumount
<1>4. Begun' /\ pc'[c] = to /\ \A b \in Build : b # c => pc'[b] = pc[b] /\ (Early(b)' <=> Early(b))
    BY <1>1, <1>3, BegunKept
<1>5. ASSUME NEW q \in Bind PROVE Matched(q)'
  <2>1. At(q)' = At(q)
      BY <1>2 DEF At
  <2> QED BY <1>1, <1>3, <2>1, MatchedKept
<1>6. CASE mount[p] # Host /\ mount' = [mount EXCEPT ![p] = Host] /\ ~\E m \in binds : m.under = mount[p]
  <2>1. mount'[p] = Host /\ \A q \in Part : q # p => mount'[q] = mount[q]
      BY <1>1, <1>6 DEF Rest
  <2>2. Below'
    <3>1. p = "rootfs" => binds = {}
        BY <1>6 DEF Owned, Below
    <3> QED BY <1>1, <1>2, <2>1, <3>1 DEF Owned, Below, Part
  <2>3. ASSUME NEW q \in Part PROVE Held(q)'
    <3>1. CASE q = p
        BY <2>1, <3>1 DEF Held
    <3>2. CASE q # p
        BY <1>1, <1>3, <2>1, <3>2, HeldKept
    <3> QED BY <3>1, <3>2
  <2> QED BY <1>4, <1>5, <2>2, <2>3 DEF Owned
<1>7. CASE /\ mount' = mount
           /\ \/ mount[p] = Host
              \/ \E m \in binds : m.under = mount[p]
              \/ p = "rootfs" /\ \E b \in Build \ {c} : pc[b] \in {"unpack", "mountuboot", "configure"}
  <2>1. Below'
      BY <1>2, <1>7 DEF Owned, Below
  <2>2. Held(p)'
    <3>1. CASE mount[p] = Host
        BY <1>7, <3>1 DEF Held
    <3>2. CASE mount[p] # Host /\ \E m \in binds : m.under = mount[p]
      <4>1. PICK m \in binds : m.under = mount[p]
          BY <3>2
      <4>2. mount["rootfs"] = mount[p]
          BY <4>1 DEF Owned, Below
      <4>3. p = "rootfs"
          BY <1>1, <3>2, <4>2 DEF Owned, Below, Part
      <4>4. m.point \in Bind /\ m \in At(m.point)
          BY DEF Rest, Binding, At
      <4>5. PICK f : Match(m.point, f)
          BY <4>4 DEF Owned, Matched
      <4>6. f[m] \in Build /\ (pc[f[m]] \in Between(m.point) \/ Early(f[m]))
          BY <4>4, <4>5 DEF Match, Answers
      <4>7. pc'[f[m]] \in Between(m.point) \/ Early(f[m])'
        <5>1. CASE f[m] = c
            BY <1>1, <1>3, <4>4, <4>6, <5>1 DEF Goes
        <5>2. CASE f[m] # c
            BY <1>4, <4>6, <5>2
        <5> QED BY <5>1, <5>2
      <4>8. Between(m.point) \cap Outside("rootfs") = {}
          BY <4>4 DEF Bind, Between, Outside, HookExiting
      <4> QED BY <4>3, <4>6, <4>7, <4>8 DEF Held
    <3>3. CASE p = "rootfs" /\ \E b \in Build \ {c} : pc[b] \in {"unpack", "mountuboot", "configure"}
        BY <1>4, <3>3 DEF Held, Outside
    <3> QED BY <1>7, <3>1, <3>2, <3>3
  <2>3. ASSUME NEW q \in Part PROVE Held(q)'
    <3>1. CASE q # p
        BY <1>1, <1>3, <1>7, <3>1, HeldKept
    <3> QED BY <2>2, <3>1
  <2> QED BY <1>4, <1>5, <2>1, <2>3 DEF Owned
<1> QED BY <1>6, <1>7 DEF Pumount

LEMMA InterruptOwned ==
    ASSUME Inv, Rest, Owned, NEW c \in Build, Interrupt(c)
    PROVE  Owned'
<1>1. /\ UNCHANGED << devices, mount, binds, files >>
      /\ content[Host] # "empty" => content'[Host] # "empty"
    BY DEF Interrupt, Cut, Rest, Place
<1>2. ~Early(c)
    BY DEF Interrupt, Owned, Begun, Unguarded, HookUnguarded, Working, Exiting
<1>3. PICK to \in {"ended", "pumount1", "umountdev"}, s \in {"early", "stopped"} :
        /\ pc' = [pc EXCEPT ![c] = to] /\ status' = [status EXCEPT ![c] = s]
        /\ s = "early" => to \in {"ended", "pumount1"}
        /\ s = "stopped" => (pc[c] \in Working /\ to = "pumount1") \/ (pc[c] = "configure" /\ to = "umountdev")
    BY DEF Interrupt
<1>4. to \in Point /\ (s = "early" => to \in Exiting)
    BY <1>3 DEF Point, Exiting, HookExiting
<1>5. ASSUME s = "early" PROVE Early(c)'
  <2>1. status'[c] = s
      BY <1>3 DEF Inv, Typed
  <2> QED BY <1>5, <2>1 DEF Early
<1>6. Goes(c, to)
    BY <1>1, <1>2, <1>3, <1>4, <1>5 DEF Goes, Early, devices
<1>7. s = "stopped" => KeepsPlace(pc[c], to)
    BY <1>3 DEF KeepsPlace, Bind, Part, Between, HookExiting, Outside, Working
<1> QED BY <1>1, <1>3, <1>4, <1>5, <1>6, <1>7, Moves

LEMMA OwnedNext == Inv /\ Rest /\ Owned /\ [Next]_vars => Owned'
<1> SUFFICES ASSUME Inv, Rest, Owned, [Next]_vars PROVE Owned'
    OBVIOUS
<1>1. CASE (UNCHANGED vars) \/ \E i \in Image : WriteBack(i)
  <2>1. UNCHANGED << pc, status, loops, mount, binds, content, files >>
      BY <1>1 DEF vars, WriteBack, devices
  <2>2. Below' /\ Begun' /\ \A p \in Part : Held(p)'
      BY <2>1 DEF Owned, Below, Begun, Held, Early
  <2>3. ASSUME NEW p \in Bind PROVE Matched(p)'
    <3>1. At(p)' = At(p)
        BY <2>1 DEF At
    <3> QED BY <2>1, <3>1, MoreAnswers DEF Owned, Early
  <2> QED BY <2>2, <2>3 DEF Owned
<1>2. ASSUME NEW c \in Build, Interrupt(c) PROVE Owned'
    BY <1>2, InterruptOwned
<1>3. ASSUME NEW c \in Build, Step(c) PROVE Owned'
  <2>1. CASE Partition(c)
      BY <2>1, StepsOwned DEF Partition, Steps, devices, data
  <2>2. CASE Losetup(c, "boot", "losetup1", "losetup2") \/ Losetup(c, "rootfs", "losetup2", "pmount1")
    <3>1. ASSUME NEW p \in Part, NEW from, NEW to, <<from, to>> \in Steps, Losetup(c, p, from, to)
          PROVE  Owned'
        BY <3>1, StepsOwned DEF Losetup, data
    <3> QED BY <2>2, <3>1 DEF Steps, Part
  <2>3. CASE Pmount(c, "boot", "pmount1", "pmount2") \/ Pmount(c, "rootfs", "pmount2", "trap")
      BY <2>3, PmountOwned DEF Part
  <2>4. CASE Trap(c) \/ ShowHelp(c) \/ Multistrap(c)
      BY <2>4, StepsOwned DEF Trap, ShowHelp, Multistrap, Steps, devices, data
  <2>5. CASE NotFound(c)
    <3>1. pc[c] = "bootstrap" /\ pc' = [pc EXCEPT ![c] = "pumount1"]
          /\ status' = [status EXCEPT ![c] = "notfound"]
          /\ UNCHANGED << devices, mount, binds, content, files >>
        BY <2>5 DEF NotFound, Goto, data
    <3>2. ~Early(c)
        BY <3>1 DEF Owned, Begun, Exiting
    <3>3. Goes(c, "pumount1")
        BY <3>1, <3>2 DEF Goes, Early, Exiting, devices, Inv, Typed
    <3>4. KeepsPlace("bootstrap", "pumount1") /\ "pumount1" \in Point
        BY StepsKeep DEF Steps
    <3> QED BY <3>1, <3>3, <3>4, Moves
  <2>6. CASE BootstrapFails(c) \/ Unpack(c)
    <3>1. content[Host] # "empty" => content'[Host] # "empty"
        BY <2>6 DEF BootstrapFails, Cut, Unpack, Rest, Place
    <3> QED BY <2>6, <3>1, StepsOwned DEF BootstrapFails, Unpack, Steps, devices
  <2>7. CASE BindMount(c, "uboot", "mountuboot", "mountdev") \/ BindMount(c, "dev", "mountdev", "mountsys")
             \/ BindMount(c, "sys", "mountsys", "mountproc") \/ BindMount(c, "proc", "mountproc", "hooktrap")
      BY <2>7, BindOwned
  <2>8. CASE HookTrap(c)
      BY <2>8, StepsOwned DEF HookTrap, Steps, devices, data
  <2>9. CASE Configure(c)
    <3>1. content[Host] # "empty" => content'[Host] # "empty"
        BY <2>9 DEF Configure, Rest, Place
    <3> QED BY <2>9, <3>1, StepsOwned DEF Configure, Steps, devices
  <2>10. CASE UmountBind(c, "dev", "umountdev", "umountsys") \/ UmountBind(c, "sys", "umountsys", "umountproc")
              \/ UmountBind(c, "proc", "umountproc", "umountuboot")
              \/ UmountBind(c, "uboot", "umountuboot", IF status[c] = "stopped" THEN "pumount1" ELSE "assemble")
      BY <2>10, UmountOwned DEF Undone
  <2>11. CASE Assemble(c)
      BY <2>11, StepsOwned DEF Assemble, Steps, devices, data
  <2>12. CASE Pumount(c, "boot", "pumount1", "pumount2") \/ Pumount(c, "rootfs", "pumount2", "detach1")
      BY <2>12, PumountOwned
  <2>13. CASE Detach(c, "boot", "detach1", "detach2") \/ Detach(c, "rootfs", "detach2", "rm")
    <3>1. ASSUME NEW p \in Part, NEW from, NEW to, <<from, to>> \in Steps, Detach(c, p, from, to)
          PROVE  Owned'
        BY <3>1, StepsOwned DEF Detach, data
    <3> QED BY <2>13, <3>1 DEF Steps, Part
  <2>14. CASE Rm(c)
    <3>1. pc[c] = "rm" /\ pc' = [pc EXCEPT ![c] = "ended"] /\ files' = files \ {c}
          /\ UNCHANGED << devices, mount, binds, content, status >>
        BY <2>14 DEF Rm, Goto, data
    <3>2. Goes(c, "ended") /\ "ended" \in Point
        BY <3>1 DEF Goes, Early, Exiting, devices, Point
    <3>3. KeepsPlace("rm", "ended")
        BY DEF KeepsPlace, Bind, Part, Between, HookExiting, Outside
    <3> QED BY <3>1, <3>2, <3>3, Moves
  <2> QED BY <1>3, <2>1, <2>2, <2>3, <2>4, <2>5, <2>6, <2>7, <2>8, <2>9, <2>10, <2>11, <2>12, <2>13, <2>14
          DEF Step, Acquire, Bootstrap, Hook, AtExit
<1> QED BY <1>1, <1>2, <1>3 DEF Next

\* However many builds have run side by side, mounted and unmounted in each other's
\* images, and failed, nothing is left when all have ended through their traps.
THEOREM NothingKept == Spec => []ReleasedAfterTrap
<1>1. Inv /\ Rest /\ Owned => ReleasedAfterTrap
  <2> SUFFICES ASSUME Inv, Rest, Owned,
                      \A b \in Build : pc[b] \in {"start", "ended"} /\ ~Early(b)
               PROVE  Attached = {} /\ mount = [p \in Part |-> Host] /\ binds = {} /\ files = {}
      BY DEF ReleasedAfterTrap, Early
  <2>1. files = {}
      BY DEF Rest, Owned, Begun
  <2>2. \A p \in Part : mount[p] = Host
      BY DEF Owned, Held, Outside
  <2>3. mount = [p \in Part |-> Host]
      BY <2>2 DEF Rest
  <2>4. binds = {}
    <3> SUFFICES ASSUME NEW m \in binds PROVE FALSE
        OBVIOUS
    <3>1. m.point \in Bind /\ m \in At(m.point)
        BY DEF Rest, Binding, At
    <3>2. PICK f : Match(m.point, f)
        BY <3>1 DEF Owned, Matched
    <3>3. f[m] \in Build /\ pc[f[m]] \in Between(m.point)
        BY <3>1, <3>2 DEF Match, Answers
    <3>4. "start" \notin Between(m.point) /\ "ended" \notin Between(m.point)
        BY <3>1 DEF Bind, Between, HookExiting
    <3> QED BY <3>3, <3>4
  <2>5. Attached = {}
    <3> SUFFICES ASSUME NEW i \in loops, i \in autoclear => InUse(i) PROVE FALSE
        BY DEF Attached
    <3>1. i \in Image
        BY DEF Rest
    <3>2. PICK b \in Build, p \in Part : i = <<b, p>>
        BY <3>1 DEF Image
    <3>3. pc[b] = "ended"
        BY <3>2 DEF Owned, Begun
    <3>4. i \in autoclear
        BY <3>2, <3>3 DEF Inv, Past, Returned, Early
    <3>5. ~InUse(i)
        BY <2>2, <2>4, <3>1, HostIsNoImage DEF InUse, Part
    <3> QED BY <3>4, <3>5
  <2> QED BY <2>1, <2>3, <2>4, <2>5
<1> QED BY <1>1, InvInit, InvNext, RestInit, RestNext, OwnedInit, OwnedNext, PTL DEF Spec

-----------------------------------------------------------------------------
(* A build that is alone.                                                  *)

Alone(b) == \A c \in Build \ {b} : pc[c] = "start"

\* In the hook, before dpkg --configure -a has come to its end.
Hooked(b) == pc[b] \in HookUnguarded \cup {"mountuboot", "configure"}

\* Past it, and not stopped in it.
Configured(b) == pc[b] = "assemble" \/ (pc[b] \in HookExiting /\ status[b] # "stopped")

\* multistrap runs the hook when it has unpacked everything, and of a system that
\* is unpacked dpkg makes one that is configured or is not.
Ready(b) ==
    /\ Hooked(b) => content[mount["rootfs"]] \in System
    /\ Configured(b) => content[mount["rootfs"]] \in {"failed", "configured"}

Finished == \A b \in Build : Alone(b) /\ ~help[b] => Ready(b)

\* A step of any build but b to where it is not at the start ends that b is alone.
LEMMA OnlyOneMoves ==
    ASSUME Rest, NEW c \in Build, NEW to \in Point \ {"start"}, pc' = [pc EXCEPT ![c] = to], help' = help,
           Alone(c) /\ ~help[c] => Ready(c)'
    PROVE  Finished'
<1> SUFFICES ASSUME NEW b \in Build, Alone(b)', ~help[b] PROVE Ready(b)'
    BY DEF Finished
<1>1. pc'[c] = to /\ \A a \in Build : a # c => pc'[a] = pc[a]
    BY DEF Rest
<1>2. b = c
    BY <1>1 DEF Alone
<1>3. Alone(c)
    BY <1>1, <1>2 DEF Alone
<1> QED BY <1>2, <1>3

OtherPoint ==
    {"losetup1", "losetup2", "pmount1", "pmount2", "trap", "bootstrap", "unpack",
     "pumount1", "pumount2", "detach1", "detach2", "rm", "ended"}
HookedPoint == {"mountuboot", "mountdev", "mountsys", "mountproc", "hooktrap", "configure"}

LEMMA NotHooked ==
    ASSUME Rest, NEW c \in Build, NEW from, NEW to \in OtherPoint, Goto(c, from, to), help' = help
    PROVE  Finished'
<1>1. to \in Point \ {"start"} /\ to \notin HookUnguarded \cup HookExiting \cup {"mountuboot", "configure", "assemble"}
    BY DEF OtherPoint, Point, Unguarded, HookUnguarded, Working, Exiting, HookExiting
<1>2. pc' = [pc EXCEPT ![c] = to] /\ pc'[c] = to
    BY DEF Goto, Rest
<1>3. Ready(c)'
    BY <1>1, <1>2 DEF Ready, Hooked, Configured
<1> QED BY <1>1, <1>2, <1>3, OnlyOneMoves

\* A step into the hook, or on in it.
LEMMA StaysHooked ==
    ASSUME Rest, NEW c \in Build, NEW from, NEW to \in HookedPoint, Goto(c, from, to), help' = help,
           Alone(c) /\ ~help[c] => content'[mount'["rootfs"]] \in System
    PROVE  Finished'
<1>1. to \in Point \ {"start", "assemble"} /\ to \notin HookExiting
    BY DEF HookedPoint, Point, HookUnguarded, Working, HookExiting
<1>2. pc' = [pc EXCEPT ![c] = to] /\ pc'[c] = to
    BY DEF Goto, Rest
<1>3. Alone(c) /\ ~help[c] => Ready(c)'
    BY <1>1, <1>2 DEF Ready, Configured
<1> QED BY <1>1, <1>2, <1>3, OnlyOneMoves

LEMMA FinishedNext == Inv /\ Rest /\ Finished /\ [Next]_vars => Finished'
<1> SUFFICES ASSUME Inv, Rest, Finished, [Next]_vars PROVE Finished'
    OBVIOUS
<1>1. CASE (UNCHANGED vars) \/ \E i \in Image : WriteBack(i)
    BY <1>1 DEF vars, WriteBack, arguments, Finished, Alone, Ready, Hooked, Configured
<1>2. ASSUME NEW c \in Build, Interrupt(c) PROVE Finished'
  <2>1. PICK to \in {"ended", "pumount1", "umountdev"} :
          pc' = [pc EXCEPT ![c] = to] /\ (to = "umountdev" => status'[c] = "stopped")
      BY <1>2 DEF Interrupt, Inv, Typed
  <2>2. /\ to \in Point \ {"start", "assemble"} /\ help' = help
        /\ to \notin HookUnguarded \cup {"mountuboot", "configure"}
        /\ to # "umountdev" => to \notin HookExiting
      BY <1>2 DEF Interrupt, arguments, Point, Exiting, HookExiting, HookUnguarded
  <2>3. Ready(c)'
      BY <2>1, <2>2 DEF Ready, Hooked, Configured, Rest
  <2> QED BY <2>1, <2>2, <2>3, OnlyOneMoves
<1>3. ASSUME NEW c \in Build, Step(c) PROVE Finished'
  <2> USE NotHooked DEF OtherPoint, arguments
  <2>1. CASE Acquire(c)
      BY <2>1 DEF Acquire, Partition, Losetup, Pmount, Trap
  <2>2. CASE ShowHelp(c)
    <3>1. "assemble" \in Point \ {"start"}
        BY DEF Point, Working
    <3> QED BY <2>2, <3>1, OnlyOneMoves DEF ShowHelp, Goto
  <2>3. CASE BootstrapFails(c)
    \* The build goes straight to its trap.
    <3>1. PICK from : Goto(c, from, "pumount1")
        BY <2>3 DEF BootstrapFails
    <3> QED BY <2>3, <3>1 DEF BootstrapFails
  <2>4. CASE Multistrap(c) \/ NotFound(c)
      BY <2>4 DEF Multistrap, NotFound
  <2>5. CASE Unpack(c)
    <3>1. content'[mount'["rootfs"]] \in System
        BY <2>5 DEF Unpack, Rest, Part, System
    <3> QED BY <2>5, <3>1, StaysHooked DEF Unpack, HookedPoint
  <2>6. ASSUME NEW p, NEW from \in HookedPoint, NEW to \in HookedPoint,
               BindMount(c, p, from, to) \/ (HookTrap(c) /\ from = "hooktrap" /\ to = "configure")
        PROVE  Finished'
    <3>1. Goto(c, from, to) /\ UNCHANGED << mount, help >>
        BY <2>6 DEF BindMount, HookTrap
    <3>2. Hooked(c)
        BY <2>6, <3>1 DEF Goto, Hooked, HookedPoint, HookUnguarded
    <3>3. content[mount["rootfs"]] \in System => content'[mount'["rootfs"]] \in System
        BY <2>6 DEF BindMount, HookTrap, data, Rest, System, Part
    <3>4. Alone(c) /\ ~help[c] => content'[mount'["rootfs"]] \in System
        BY <3>2, <3>3 DEF Finished, Ready
    <3> QED BY <3>1, <3>4, StaysHooked
  <2>7. CASE \/ BindMount(c, "uboot", "mountuboot", "mountdev") \/ BindMount(c, "dev", "mountdev", "mountsys")
             \/ BindMount(c, "sys", "mountsys", "mountproc") \/ BindMount(c, "proc", "mountproc", "hooktrap")
             \/ HookTrap(c)
      BY <2>6, <2>7 DEF HookedPoint
  <2>8. CASE Configure(c)
    <3>1. pc[c] = "configure" /\ pc' = [pc EXCEPT ![c] = "umountdev"] /\ UNCHANGED << mount, help >>
        BY <2>8 DEF Configure, Goto
    <3>2. Alone(c) /\ ~help[c] => content[mount["rootfs"]] \in System
        BY <3>1 DEF Finished, Ready, Hooked
    <3>3. content[mount["rootfs"]] \in System => content'[mount'["rootfs"]] \in {"failed", "configured"}
        BY <2>8 DEF Configure, Rest, Part
    <3>4. "umountdev" \in Point \ {"start"} /\ "umountdev" \notin HookUnguarded \cup {"mountuboot", "configure"}
        BY DEF Point, HookExiting, HookUnguarded
    <3>5. Alone(c) /\ ~help[c] => Ready(c)'
        BY <3>1, <3>2, <3>3, <3>4 DEF Ready, Hooked, Rest
    <3> QED BY <3>1, <3>4, <3>5, OnlyOneMoves
  <2>9. ASSUME NEW p, NEW from \in HookExiting, NEW to \in HookExiting \cup {"pumount1", "assemble"},
               UmountBind(c, p, from, to),
               to = "assemble" => status[c] # "stopped"
        PROVE  Finished'
    <3>1. /\ pc[c] = from /\ pc' = [pc EXCEPT ![c] = to]
          /\ UNCHANGED << help, content, mount, status >>
        BY <2>9 DEF UmountBind, Goto, data
    <3>2. to \in Point \ {"start"} /\ to \notin HookUnguarded \cup {"mountuboot", "configure"}
        BY DEF Point, HookExiting, Exiting, Working, HookUnguarded
    <3>3. Configured(c)' => Configured(c)
        BY <2>9, <3>1, <3>2 DEF Configured, Rest, HookExiting
    <3>4. Alone(c) /\ ~help[c] => Ready(c)'
        BY <3>1, <3>2, <3>3 DEF Finished, Ready, Hooked, Rest
    <3> QED BY <3>1, <3>2, <3>4, OnlyOneMoves
  <2>10. CASE UmountBind(c, "dev", "umountdev", "umountsys") \/ UmountBind(c, "sys", "umountsys", "umountproc")
             \/ UmountBind(c, "proc", "umountproc", "umountuboot")
             \/ UmountBind(c, "uboot", "umountuboot", IF status[c] = "stopped" THEN "pumount1" ELSE "assemble")
      BY <2>9, <2>10 DEF HookExiting
  <2>11. CASE Assemble(c) \/ AtExit(c)
      BY <2>11 DEF Assemble, AtExit, Pumount, Detach, Rm
  <2> QED BY <1>3, <2>1, <2>2, <2>3, <2>4, <2>5, <2>7, <2>8, <2>10, <2>11 DEF Step, Bootstrap, Hook
<1> QED BY <1>1, <1>2, <1>3 DEF Next

\* However it is interrupted, a build puts an image together only when the system has
\* been unpacked in its own file system and dpkg has come to its end on it, well or
\* badly, as long as no other build has begun.
THEOREM AssembledComplete == Spec => []UnpackedBeforeAssembly
<1>1. Init => Finished
    BY DEF Init, Finished, Ready, Hooked, Configured, HookUnguarded, HookExiting
<1>2. Finished => UnpackedBeforeAssembly
    BY DEF Finished, Alone, Ready, Configured, UnpackedBeforeAssembly
<1> QED BY <1>1, <1>2, InvInit, InvNext, RestInit, RestNext, FinishedNext, PTL DEF Spec
=============================================================================
