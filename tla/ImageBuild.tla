----------------------------- MODULE ImageBuild -----------------------------
(***************************************************************************)
(* chronos-mkimage.sh with chronos-debootstrap.sh and the hook             *)
(* completion-dpkg-configure.sh: a build makes two partition images,       *)
(* attaches them to loop devices, mounts them, has multistrap bootstrap a  *)
(* system into them, and puts the image together.  What it has acquired is *)
(* released by EXIT traps, one of the hook and one of the build.           *)
(*                                                                         *)
(* Builds have loop devices of their own, but share the mount points       *)
(* /media/chronos-mkimage-{bootpart,rootfs}; no failure on the way stops a *)
(* build, so that one which finds them taken works in another's images.    *)
(***************************************************************************)
CONSTANTS
    Build,       \* each one is a run of chronos-mkimage.sh
    LoopsFree    \* losetup always finds a free loop device

Part == {"boot", "rootfs"}
Image == Build \X Part           \* the partition images, files of a build
Host == <<"host", "host">>       \* the directory under an unused mount point
Bind == {"uboot", "dev", "sys", "proc"}

\* What a partition holds of what the bootstrap puts on it: nothing, a part of a
\* system, a system unpacked, one that dpkg has failed to configure, or all.
System == {"unpacked", "failed", "configured"}
Content == {"empty", "part"} \cup System

ASSUME BuildAssumption == "host" \notin Build /\ LoopsFree \in BOOLEAN

VARIABLES
    pc,         \* where each build is
    root,       \* it runs as root: SUDO is empty
    help,       \* -h is among the arguments passed on
    loops,      \* the images attached to a loop device
    autoclear,  \* those of them to be detached when no longer in use
    mount,      \* what is mounted on each of the two mount points, or Host
    binds,      \* the bind mounts of the hooks
    content,    \* what the file system in each image holds
    stored,     \* what of it has reached the image file
    files,      \* the builds whose partition files exist
    result,     \* the image put together, "none" before
    status      \* of a build: it was "stopped", or that before a trap was set
                \* ("early"), or the shell did not find its command ("notfound")

vars == << pc, root, help, loops, autoclear, mount, binds, content, stored,
           files, result, status >>
arguments == << root, help >>
devices == << loops, autoclear >>
data == << content, stored >>

\* What has been acquired at these points no trap releases.
Unguarded == {"losetup1", "losetup2", "pmount1", "pmount2", "trap"}
HookUnguarded == {"mountdev", "mountsys", "mountproc", "hooktrap"}
Working == {"bootstrap", "unpack", "mountuboot", "assemble"}
Exiting == {"pumount1", "pumount2", "detach1", "detach2", "rm", "ended"}
HookExiting == {"umountdev", "umountsys", "umountproc", "umountuboot"}

Nothing == [p \in Part |-> "none"]

Init ==
    /\ pc = [b \in Build |-> "start"]
    /\ root \in [Build -> BOOLEAN] /\ help \in [Build -> BOOLEAN]
    /\ loops = {} /\ autoclear = {}
    /\ mount = [p \in Part |-> Host]
    /\ binds = {}
    /\ content = [i \in Image \cup {Host} |-> "empty"]
    /\ stored = [i \in Image |-> "empty"]
    /\ files = {} /\ result = [b \in Build |-> Nothing]
    /\ status = [b \in Build |-> "ok"]

Goto(b, from, to) == pc[b] = from /\ pc' = [pc EXCEPT ![b] = to]

\* An image is in use while it is mounted, or the source of a bind mount.
InUse(i) == i \in {mount["boot"], mount["rootfs"]} \/ \E m \in binds : m.src = i

Attached == {i \in loops : i \in autoclear => InUse(i)}

-----------------------------------------------------------------------------
(* chronos-mkimage.sh up to its trap.                                      *)

Partition(b) ==
    /\ Goto(b, "start", "losetup1")
    /\ files' = files \cup {b}
    /\ UNCHANGED << arguments, devices, mount, binds, data, result, status >>

\* losetup may find no free device; nothing looks at that.
Losetup(b, p, from, to) ==
    /\ Goto(b, from, to)
    /\ \/ loops' = loops \cup {<<b, p>>}
       \/ ~LoopsFree /\ UNCHANGED loops
    /\ UNCHANGED << arguments, autoclear, mount, binds, data, files, result, status >>

\* pmount needs a device, and a mount point that is free and empty.
CanMount(b, p) ==
    <<b, p>> \in loops /\ mount[p] = Host /\ (p = "rootfs" => content[Host] = "empty")

Pmount(b, p, from, to) ==
    /\ Goto(b, from, to)
    /\ mount' = IF CanMount(b, p) THEN [mount EXCEPT ![p] = <<b, p>>] ELSE mount
    /\ UNCHANGED << arguments, devices, binds, data, files, result, status >>

Trap(b) ==
    /\ Goto(b, "trap", "bootstrap")
    /\ UNCHANGED << arguments, devices, mount, binds, data, files, result, status >>

Acquire(b) ==
    \/ Partition(b)
    \/ Losetup(b, "boot", "losetup1", "losetup2")
    \/ Losetup(b, "rootfs", "losetup2", "pmount1")
    \/ Pmount(b, "boot", "pmount1", "pmount2")
    \/ Pmount(b, "rootfs", "pmount2", "trap")
    \/ Trap(b)

-----------------------------------------------------------------------------
(* chronos-debootstrap.sh, multistrap and the hook.                        *)

\* With -h it prints its usage and exits with 0.
ShowHelp(b) ==
    /\ help[b] /\ Goto(b, "bootstrap", "assemble")
    /\ UNCHANGED << arguments, devices, mount, binds, data, files, result, status >>

\* multistrap has begun, and come to an end before it has unpacked everything.
Cut == content' = [content EXCEPT ![mount["rootfs"]] = "part"]

\* Fault: the status of chronos-debootstrap.sh is not looked at.
BootstrapFails_Ignored(b) ==
    /\ ~help[b]
    /\ \/ Goto(b, "bootstrap", "assemble") /\ UNCHANGED content
       \/ Goto(b, "unpack", "assemble") /\ Cut
    /\ UNCHANGED << arguments, devices, mount, binds, stored, files, result, status >>

\* A tool is missing, or multistrap fails.
BootstrapFails(b) ==
    /\ ~help[b]
    /\ \/ Goto(b, "bootstrap", "pumount1") /\ UNCHANGED content
       \/ Goto(b, "unpack", "pumount1") /\ Cut
    /\ UNCHANGED << arguments, devices, mount, binds, stored, files, result, status >>

Multistrap(b) ==
    /\ ~help[b] /\ ~root[b] /\ Goto(b, "bootstrap", "unpack")
    /\ UNCHANGED << arguments, devices, mount, binds, data, files, result, status >>

\* ${SUDO} SUITE=... multistrap: for root SUDO is empty, and as no assignment
\* may follow an expansion, the shell looks for a command named SUITE=...
NotFound(b) ==
    /\ ~help[b] /\ root[b] /\ Goto(b, "bootstrap", "pumount1")
    /\ status' = [status EXCEPT ![b] = "notfound"]
    /\ UNCHANGED << arguments, devices, mount, binds, data, files, result >>

Unpack(b) ==
    /\ Goto(b, "unpack", "mountuboot")
    /\ content' = [content EXCEPT ![mount["rootfs"]] = "unpacked"]
    /\ UNCHANGED << arguments, devices, mount, binds, stored, files, result, status >>

\* The hook makes the directories to mount on in whatever it finds.  pumount has
\* removed the one of the boot partition if it has unmounted it.
BindMount(b, p, from, to) ==
    /\ Goto(b, from, to)
    /\ content' = [content EXCEPT ![mount["rootfs"]] = IF @ = "empty" THEN "part" ELSE @]
    /\ binds' = IF p = "uboot" /\ mount["boot"] = Host THEN binds
                ELSE binds \cup {[by |-> b, point |-> p, under |-> mount["rootfs"],
                                  src |-> IF p = "uboot" THEN mount["boot"] ELSE Host]}
    /\ UNCHANGED << arguments, devices, mount, stored, files, result, status >>

HookTrap(b) ==
    /\ Goto(b, "hooktrap", "configure")
    /\ UNCHANGED << arguments, devices, mount, binds, data, files, result, status >>

\* dpkg --configure -a, in a chroot that has a dpkg: it succeeds or fails, and no
\* status is looked at.  The kernel may have got to the file system bound to /boot/uboot,
\* if there is one.
Configure(b) ==
    /\ Goto(b, "configure", "umountdev")
    /\ \/ content[mount["rootfs"]] \notin System /\ UNCHANGED content
       \/ /\ content[mount["rootfs"]] \in System
          /\ \E end \in {"failed", "configured"} :
               \/ content' = [content EXCEPT ![mount["rootfs"]] = end]
               \/ \E m \in binds :
                    /\ m.point = "uboot" /\ m.under = mount["rootfs"]
                    /\ content' = [content EXCEPT ![mount["rootfs"]] = end, ![m.src] = "configured"]
    /\ UNCHANGED << arguments, devices, mount, binds, stored, files, result, status >>

\* Fault: the mount of the boot partition is not undone.
UmountBind_NotUboot(b, p, from, to) ==
    /\ Goto(b, from, to)
    /\ LET here == {m \in binds : m.point = p /\ m.under = mount["rootfs"]} IN
         \/ (here = {} \/ p = "uboot") /\ UNCHANGED binds
         \/ \E m \in here : p # "uboot" /\ binds' = binds \ {m}
    /\ UNCHANGED << arguments, devices, mount, data, files, result, status >>

\* umount -l takes the mount at this place off, whoever made it.
UmountBind(b, p, from, to) ==
    /\ Goto(b, from, to)
    /\ LET here == {m \in binds : m.point = p /\ m.under = mount["rootfs"]} IN
         \/ here = {} /\ UNCHANGED binds
         \/ \E m \in here : binds' = binds \ {m}
    /\ UNCHANGED << arguments, devices, mount, data, files, result, status >>

Hook(b) ==
    \/ BindMount(b, "uboot", "mountuboot", "mountdev")
    \/ BindMount(b, "dev", "mountdev", "mountsys")
    \/ BindMount(b, "sys", "mountsys", "mountproc")
    \/ BindMount(b, "proc", "mountproc", "hooktrap")
    \/ HookTrap(b) \/ Configure(b)
    \/ UmountBind(b, "dev", "umountdev", "umountsys")
    \/ UmountBind(b, "sys", "umountsys", "umountproc")
    \/ UmountBind(b, "proc", "umountproc", "umountuboot")
    \/ UmountBind(b, "uboot", "umountuboot", IF status[b] = "stopped" THEN "pumount1" ELSE "assemble")

Bootstrap(b) == ShowHelp(b) \/ BootstrapFails(b) \/ Multistrap(b) \/ NotFound(b)
                \/ Unpack(b) \/ Hook(b)

-----------------------------------------------------------------------------
(* The image, and the trap of the build.                                   *)

\* cat, or a compressor, reads the image files, while they are still mounted.
Assemble(b) ==
    /\ Goto(b, "assemble", "pumount1")
    /\ result' = [result EXCEPT ![b] = [p \in Part |-> stored[<<b, p>>]]]
    /\ UNCHANGED << arguments, devices, mount, binds, data, files, status >>

\* The kernel writes a file system back when it likes.
WriteBack(i) ==
    /\ stored[i] # content[i]
    /\ stored' = [stored EXCEPT ![i] = content[i]]
    /\ UNCHANGED << pc, arguments, devices, mount, binds, content, files, result, status >>

\* A file system is busy when another is mounted in it, and may be while
\* someone works in it.
Pumount(b, p, from, to) ==
    /\ Goto(b, from, to)
    /\ \/ /\ \/ mount[p] = Host
             \/ \E m \in binds : m.under = mount[p]
             \/ p = "rootfs" /\ \E c \in Build \ {b} : pc[c] \in {"unpack", "mountuboot", "configure"}
          /\ UNCHANGED << mount, stored >>
       \/ /\ mount[p] # Host /\ ~\E m \in binds : m.under = mount[p]
          /\ mount' = [mount EXCEPT ![p] = Host]
          /\ stored' = [stored EXCEPT ![mount[p]] = content[mount[p]]]
    /\ UNCHANGED << arguments, devices, binds, content, files, result, status >>

\* Fault: a device in use is not detached.
Detach_Busy(b, p, from, to) ==
    /\ Goto(b, from, to)
    /\ loops' = IF InUse(<<b, p>>) THEN loops ELSE loops \ {<<b, p>>}
    /\ UNCHANGED << arguments, autoclear, mount, binds, data, files, result, status >>

\* A loop device in use is detached when it is not any more.
Detach(b, p, from, to) ==
    /\ Goto(b, from, to)
    /\ IF InUse(<<b, p>>) /\ <<b, p>> \in loops
         THEN autoclear' = autoclear \cup {<<b, p>>} /\ UNCHANGED loops
         ELSE loops' = loops \ {<<b, p>>} /\ UNCHANGED autoclear
    /\ UNCHANGED << arguments, mount, binds, data, files, result, status >>

Rm(b) ==
    /\ Goto(b, "rm", "ended")
    /\ files' = files \ {b}
    /\ UNCHANGED << arguments, devices, mount, binds, data, result, status >>

AtExit(b) ==
    \/ Pumount(b, "boot", "pumount1", "pumount2")
    \/ Pumount(b, "rootfs", "pumount2", "detach1")
    \/ Detach(b, "boot", "detach1", "detach2")
    \/ Detach(b, "rootfs", "detach2", "rm")
    \/ Rm(b)

\* Ctrl-C ends the command that runs, the hook and then the build, each of
\* which runs the trap it has set.
Interrupt(b) ==
    /\ \/ /\ pc[b] \in Unguarded
          /\ pc' = [pc EXCEPT ![b] = "ended"]
          /\ status' = [status EXCEPT ![b] = "early"]
       \/ /\ pc[b] \in HookUnguarded
          /\ pc' = [pc EXCEPT ![b] = "pumount1"]
          /\ status' = [status EXCEPT ![b] = "early"]
       \/ /\ pc[b] \in Working
          /\ pc' = [pc EXCEPT ![b] = "pumount1"]
          /\ status' = [status EXCEPT ![b] = "stopped"]
       \/ /\ pc[b] = "configure"
          /\ pc' = [pc EXCEPT ![b] = "umountdev"]
          /\ status' = [status EXCEPT ![b] = "stopped"]
    /\ \/ pc[b] = "unpack" /\ Cut
       \/ /\ pc[b] = "configure" /\ content[mount["rootfs"]] \in System
          /\ content' = [content EXCEPT ![mount["rootfs"]] = "failed"]
       \/ pc[b] # "unpack" /\ UNCHANGED content
    /\ UNCHANGED << arguments, devices, mount, binds, stored, files, result >>

Step(b) == Acquire(b) \/ Bootstrap(b) \/ Assemble(b) \/ AtExit(b)

Next == (\E b \in Build : Step(b) \/ Interrupt(b)) \/ \E i \in Image : WriteBack(i)

Spec == Init /\ [][Next]_vars

-----------------------------------------------------------------------------
Point == {"start", "configure"} \cup Unguarded \cup HookUnguarded
             \cup Working \cup Exiting \cup HookExiting
Status == {"ok", "stopped", "early", "notfound"}

\* The variables have their types; only an attached device is marked.
TypeOK ==
    /\ pc \in [Build -> Point]
    /\ root \in [Build -> BOOLEAN] /\ help \in [Build -> BOOLEAN]
    /\ loops \subseteq Image /\ autoclear \subseteq loops
    /\ mount \in [Part -> Image \cup {Host}]
    /\ binds \subseteq [by : Build, point : Bind, under : Image \cup {Host},
                         src : Image \cup {Host}]
    /\ content \in [Image \cup {Host} -> Content]
    /\ stored \in [Image -> Content]
    /\ files \subseteq Build
    /\ result \in [Build -> [Part -> Content \cup {"none"}]]
    /\ status \in [Build -> Status]

\* Once all builds have come to their end through the trap, no loop device, no
\* mount and no file is left, although builds that ran side by side have worked
\* in, and unmounted, each other's file systems.
ReleasedAfterTrap ==
    (\A b \in Build : pc[b] \in {"start", "ended"} /\ status[b] # "early") =>
        Attached = {} /\ mount = [p \in Part |-> Host] /\ binds = {} /\ files = {}

\* A build that has come to its end through its trap has given both of its
\* loop devices back, or up to be detached with their last mount.
LoopsGivenBack ==
    \A b \in Build : pc[b] = "ended" /\ status[b] # "early" =>
        \A p \in Part : <<b, p>> \in loops => <<b, p>> \in autoclear

\* As long as no other build has begun, a build puts an image together only when the
\* system has been unpacked, all of it, in the file system it has made for it, and
\* dpkg has been run on it to its end, well or badly: that status nobody looks at.
UnpackedBeforeAssembly ==
    \A b \in Build :
        /\ pc[b] = "assemble" /\ ~help[b] /\ mount["rootfs"] = <<b, "rootfs">>
        /\ \A c \in Build \ {b} : pc[c] = "start"
        => content[<<b, "rootfs">>] \in {"failed", "configured"}

\* "Bootstrap a Chronos/Debian base system and package it into an SD card image."
PackagesSystem ==
    \A b \in Build : ~help[b] => result[b]["rootfs"] \in {"none", "configured"}

\* "-h       Print this message and exit."
HelpExits == \A b \in Build : help[b] => result[b] = Nothing

\* "We will need sudo if we are not root."
RootNeedsNoSudo == \A b \in Build : root[b] => status[b] # "notfound"

\* "Cleanup when we're finished."
CleanedUp == \A b \in Build : pc[b] = "ended" => b \notin files /\ ~\E p \in Part : <<b, p>> \in Attached
=============================================================================
