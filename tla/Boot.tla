-------------------------------- MODULE Boot --------------------------------
(***************************************************************************)
(* The boot of the camera: init runs the services that have a link in      *)
(* rcS.d, one after the other, in the order the update has given them.     *)
(* load-hd-firmware.sh, and on Debian hwsetup, load modules and wait for   *)
(* the device nodes udev makes for them: the one without bound, the other  *)
(* ten times.  No status is looked at: a command that fails, like a        *)
(* firmware_loader whose file is missing or torn, is followed by the next. *)
(*                                                                         *)
(* An update that was cut short may have left any set of links; a module   *)
(* may fail to load.                                                       *)
(***************************************************************************)
EXTENDS Naturals, Sequences, SequencesExt

CONSTANT HwTimeout     \* TIMEOUT of hwsetup, 10 in the code

ASSUME BootAssumption == HwTimeout \in Nat

Module == {"syslink", "vpss", "ti81xxfb"}
Node == {"syslinkipc_ProcMgr", "syslinkipc_ClientNotifyMgr", "fb0"}

VARIABLES
    debian,     \* the release: Debian with hwsetup, else Arago
    links,      \* the services that have their link
    good,       \* the modules that load
    todo,       \* the linked services init has still to start
    at,         \* where the script is that init has started last
    timeout,    \* TIMEOUT of hwsetup
    modules,    \* the modules loaded
    nodes,      \* the device nodes
    done,       \* what the scripts have set up
    failed,     \* what a script has tried to set up with all it takes there, in vain
    camApp      \* whether camApp has been started

bootVars == << debian, links, good, todo, at, timeout, modules, nodes, done, failed, camApp >>
given == << debian, links, good >>

\* The services of rcS.d that matter here, in the order of their numbers; on
\* Debian camera stands for the interface, which is started after them.
Order_UdevLate ==   \* Fault: udev is started after the firmware is loaded.
    IF debian THEN << "hwsetup", "udev", "camera" >>
    ELSE << "load-hd-firmware", "udev", "vidorder", "camera" >>
Order ==
    IF debian THEN << "udev", "hwsetup", "camera" >>
    ELSE << "udev", "load-hd-firmware", "vidorder", "camera" >>
Service == {"udev", "hwsetup", "load-hd-firmware", "vidorder", "camera"}

BootInit ==
    /\ debian \in BOOLEAN
    /\ links \in SUBSET Service /\ good \in SUBSET Module
    /\ links \subseteq ToSet(Order)
    /\ todo = links
    /\ at = "idle" /\ timeout = HwTimeout
    /\ modules = {} /\ nodes = {} /\ done = {} /\ failed = {}
    /\ camApp = "off"

\* The link of t has a smaller number than that of s.
Before(t, s) == \E j \in DOMAIN Order : \E i \in 1 .. j - 1 : Order[i] = t /\ Order[j] = s

Starts(s) ==
    /\ at = "idle" /\ s \in todo /\ ~\E t \in todo : Before(t, s)
    /\ todo' = todo \ {s}
Goes(from, to) == at = from /\ at' = to

\* ti81xxfb uses symbols of vpss; both are loaded in this order.
Loaded(ms, m) ==
    IF m \in good /\ (m = "ti81xxfb" => "vpss" \in ms) THEN ms \cup {m} ELSE ms

\* Commands that have what they need: each succeeds or fails, and no one looks.
Attempt(set) ==
    \E ok \in SUBSET set : done' = done \cup ok /\ failed' = failed \cup (set \ ok)

\* The attributes of the display are those of vpss.
Display(ms, set) == IF "vpss" \in ms THEN set ELSE {}

-----------------------------------------------------------------------------
Udev ==
    /\ Starts("udev") /\ done' = done \cup {"udev"}
    /\ UNCHANGED << given, at, timeout, modules, nodes, failed, camApp >>

\* load-hd-firmware.sh start
LoadSyslink ==
    /\ Starts("load-hd-firmware") /\ at' = "ipc"
    /\ modules' = Loaded(modules, "syslink")
    /\ UNCHANGED << given, timeout, nodes, done, failed, camApp >>

\* The loader works through both nodes, for one processor after the other.
LoadFirmware ==
    /\ Goes("ipc", "video")
    /\ {"syslinkipc_ProcMgr", "syslinkipc_ClientNotifyMgr"} \subseteq nodes
    /\ Attempt({"hdvicp", "hdvpss"})
    /\ UNCHANGED << given, todo, timeout, modules, nodes, camApp >>

LoadVideo ==
    /\ Goes("video", "lcd")
    /\ modules' = Loaded(Loaded(modules, "vpss"), "ti81xxfb")
    /\ UNCHANGED << given, todo, timeout, nodes, done, failed, camApp >>

ConfigureLcd ==
    /\ Goes("lcd", "fb0") /\ Attempt(Display(modules, {"lcd"}))
    /\ UNCHANGED << given, todo, timeout, modules, nodes, camApp >>

\* Fault: the script does not wait for fb0.
SetResolution_AtOnce ==
    /\ Goes("fb0", "idle")
    /\ Attempt(IF "fb0" \in nodes THEN {"resolution"} ELSE {})
    /\ UNCHANGED << given, todo, timeout, modules, nodes, camApp >>

SetResolution ==
    /\ Goes("fb0", "idle") /\ "fb0" \in nodes /\ Attempt({"resolution"})
    /\ UNCHANGED << given, todo, timeout, modules, nodes, camApp >>

VidOrder ==
    /\ Starts("vidorder") /\ Attempt(Display(modules, {"order"}) \cup {"pins"})
    /\ UNCHANGED << given, at, timeout, modules, nodes, camApp >>

\* hwsetup start: the same for the display, but it waits TIMEOUT times at most.
HwSetup ==
    /\ Starts("hwsetup") /\ at' = "wait"
    /\ modules' = Loaded(Loaded(modules, "vpss"), "ti81xxfb")
    /\ Attempt(Display(modules', {"lcd", "order"}))
    /\ UNCHANGED << given, timeout, nodes, camApp >>

HwWait ==
    /\ at = "wait" /\ "fb0" \notin nodes /\ timeout > 0
    /\ timeout' = timeout - 1
    /\ UNCHANGED << given, todo, at, modules, nodes, done, failed, camApp >>

HwPins ==
    /\ Goes("wait", "idle") /\ ("fb0" \in nodes \/ timeout = 0)
    /\ Attempt({"pins"} \cup IF "fb0" \in nodes THEN {"resolution"} ELSE {})
    /\ UNCHANGED << given, todo, timeout, modules, nodes, camApp >>

Camera ==
    /\ Starts("camera") /\ camApp' = "running"
    /\ UNCHANGED << given, at, timeout, modules, nodes, done, failed >>

Script ==
    \/ Udev \/ VidOrder \/ Camera
    \/ LoadSyslink \/ LoadFirmware \/ LoadVideo \/ ConfigureLcd \/ SetResolution
    \/ HwSetup \/ HwWait \/ HwPins

Announced(n) == IF n = "fb0" THEN "ti81xxfb" \in modules ELSE "syslink" \in modules

\* udev, once it runs, makes the nodes of the devices a module has announced.
MakeNode(n) ==
    /\ "udev" \in done /\ n \notin nodes /\ Announced(n)
    /\ nodes' = nodes \cup {n}
    /\ UNCHANGED << given, todo, at, timeout, modules, done, failed, camApp >>

BootNext == Script \/ \E n \in Node : MakeNode(n)

BootFairness == WF_bootVars(Script) /\ \A n \in Node : WF_bootVars(MakeNode(n))

BootSpec == BootInit /\ [][BootNext]_bootVars /\ BootFairness

-----------------------------------------------------------------------------
\* What camApp relies on: the firmware of two processors, the display, the pins.
Setting == {"hdvicp", "hdvpss", "lcd", "resolution", "order", "pins"}

\* The variables have their types.
BootTypeOK ==
    /\ debian \in BOOLEAN /\ links \subseteq Service /\ good \subseteq Module
    /\ todo \subseteq links
    /\ at \in {"idle", "ipc", "video", "lcd", "fb0", "wait"}
    /\ timeout \in 0 .. HwTimeout
    /\ modules \subseteq good /\ nodes \subseteq Node
    /\ done \subseteq Setting \cup {"udev"} /\ failed \subseteq Setting
    /\ camApp \in {"off", "running"}

\* camApp of an Arago camera with all its links starts only when everything it
\* relies on has been tried with all there that it takes, whatever modules do not
\* load and however long udev takes: what is not set up then is what a command
\* itself has failed at, and never for having come too early.
NothingTooEarly ==
    ~debian /\ camApp = "running" /\ links = ToSet(Order) => Setting \subseteq done \cup failed

\* A wait without bound is for nodes that udev will make: it runs, and their
\* module is loaded, unless udev has no link or a module does not load.
WaitedForComes ==
    "udev" \in links =>
        /\ at = "ipc" /\ "syslink" \in good =>
             "udev" \in done /\ \A n \in Node \ {"fb0"} : Announced(n)
        /\ at = "fb0" /\ {"vpss", "ti81xxfb"} \subseteq good =>
             "udev" \in done /\ Announced("fb0")

\* The boot comes to its end: on Debian always, on Arago if udev is among the
\* services and all modules load.
BootEnds ==
    (debian \/ ("udev" \in links /\ good = Module)) => <>(todo = {} /\ at = "idle")

=============================================================================
