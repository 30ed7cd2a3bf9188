----------------------------- MODULE CardFormat -----------------------------
(***************************************************************************)
(* mksd-format.sh, mksd-image.sh, mksd-loopdev.sh and mksd-rootfs.sh: a    *)
(* boot and a root partition are made on a card or on the loop device of   *)
(* an image file, and a system is copied to them.                          *)
(*                                                                         *)
(* Of all the commands only the mkfs of mksd-loopdev.sh have their status  *)
(* looked at.  Beside a script the desktop mounts what file systems it     *)
(* sees.  The card may hold an older system in the same two partitions.    *)
(***************************************************************************)
CONSTANT Fails       \* the commands that may fail for reasons of their own

Part == {"boot", "root"}
Command == {"losetup", "umount", "dd", "sfdisk", "mkfs", "mount", "rsync"}

ASSUME CardAssumption == Fails \subseteq Command

VARIABLES
    script,   \* the script that runs
    device,   \* its BLOCKDEV: the card, the loop device of an image, a path
              \* that is no block device, or empty
    sudo,     \* SUDO is sudo
    desktop,  \* a desktop runs, which mounts what it finds
    pc,       \* where it is
    seen,     \* the partitions mounted by others, or left mounted
    table,    \* the partition table on the device
    nodes,    \* the kernel has device nodes for the partitions
    fs,       \* the file system in each partition: none, old, or made by the script
    holds,    \* the systems each partition has files of
    temp,     \* the mount point from mktemp: none, a directory, or mounted on
    host,     \* what happens to the host: a file is made where there was no block
              \* device, its file systems are unmounted, its /tmp is filled
    loop,     \* the loop device is attached
    out,      \* what the script prints for its caller
    spoilt    \* a umount or a mkfs has failed although it could have succeeded

vars == << script, device, sudo, desktop, spoilt, pc, seen, table, nodes, fs, holds, temp, host, loop, out >>
call == << script, sudo, desktop >>
still == << call, spoilt >>
disk == << table, nodes, fs, holds >>

Init ==
    /\ \/ script = "format" /\ device \in {"card", "file", "none"}
       \/ script = "rootfs" /\ device \in {"card", "file"}
       \/ script \in {"image", "loopdev"} /\ device = "none"
    /\ sudo \in BOOLEAN /\ desktop \in BOOLEAN /\ spoilt = FALSE
    /\ pc = << "start", "boot" >>
    /\ \E old \in {"none", "old"} :
         /\ table = old
         /\ nodes = (device = "card" /\ old = "old")
         /\ fs = [p \in Part |-> old]
         /\ holds = [p \in Part |-> IF old = "old" THEN {"old"} ELSE {}]
    /\ seen \in SUBSET Part /\ (seen # {} => nodes)
    /\ temp = "none" /\ host = {} /\ loop = FALSE /\ out = "nothing"

At(step, p) == pc = << step, p >>
Goto(step, p) == pc' = << step, p >>

\* A command fails for a reason the state shows, or for one of its own.
Outcome(command, possible) ==
    {ok \in BOOLEAN : (ok => possible) /\ (~ok => ~possible \/ command \in Fails)}

Block == device \in {"card", "loop"}

-----------------------------------------------------------------------------
(* The beginning of each script.                                           *)

StartRootfs ==
    /\ script = "rootfs" /\ At("start", "boot")
    /\ \/ ~Block /\ Goto("ended", "boot") /\ UNCHANGED << seen, spoilt >>
       \/ /\ Block /\ Goto("mkfs", "root")
          /\ \E ok \in Outcome("umount", "root" \in seen) :
               /\ seen' = IF ok THEN seen \ {"root"} ELSE seen
               /\ spoilt' = (~ok /\ "root" \in seen)
    /\ UNCHANGED << call, device, disk, temp, host, loop, out >>

\* The test of mksd-format.sh only prints; lsblk lists what is mounted of the
\* device, and of the whole host when there is none.
StartFormat ==
    /\ script = "format" /\ At("start", "boot") /\ Goto("unmount", "boot")
    /\ UNCHANGED << still, device, seen, disk, temp, host, loop, out >>

\* BLOCKDEV is what losetup -j finds attached to the image: nothing if the one
\* before it has failed.
StartImage ==
    /\ script = "image" /\ At("start", "boot") /\ Goto("unmount", "boot")
    /\ \E ok \in Outcome("losetup", TRUE) :
         loop' = ok /\ device' = IF ok THEN "loop" ELSE "none"
    /\ UNCHANGED << still, seen, disk, temp, host, out >>

\* The image of mksd-loopdev.sh is partitioned as a file.
StartLoopdev ==
    /\ script = "loopdev" /\ At("start", "boot") /\ Goto("mkfs", "boot")
    /\ fs' = [fs EXCEPT !["boot"] = "none"] /\ holds' = [holds EXCEPT !["boot"] = {}]
    /\ \E partitioned \in Outcome("sfdisk", TRUE), ok \in Outcome("losetup", TRUE) :
         /\ table' = IF partitioned THEN "new" ELSE "none"
         /\ loop' = ok /\ device' = IF ok THEN "loop" ELSE "none"
         /\ nodes' = (ok /\ partitioned)
    /\ UNCHANGED << still, seen, temp, host, out >>

-----------------------------------------------------------------------------
(* mksd-format.sh up to the partitions.                                    *)

Unmount ==
    /\ At("unmount", "boot") /\ Goto("dd", "boot")
    /\ \/ /\ Block /\ UNCHANGED host
          /\ seen' \in IF "umount" \in Fails THEN SUBSET seen ELSE {{}}
          /\ spoilt' = (seen' # {})
       \/ /\ device = "file" /\ UNCHANGED << seen, host, spoilt >>
       \/ /\ device = "none"
          /\ \E ok \in Outcome("umount", TRUE) :
               host' = IF ok THEN host \cup {"unmounted"} ELSE host
          /\ UNCHANGED << seen, spoilt >>
    /\ UNCHANGED << call, device, disk, temp, loop, out >>

\* The first MiB holds the table and the beginning of the boot partition.
Dd ==
    /\ At("dd", "boot") /\ Goto("sfdisk", "boot")
    /\ \E ok \in Outcome("dd", device # "none") :
         IF ok /\ Block
           THEN /\ table' = "none"
                /\ fs' = [fs EXCEPT !["boot"] = "none"]
                /\ holds' = [holds EXCEPT !["boot"] = {}]
                /\ UNCHANGED host
           ELSE /\ host' = IF ok THEN host \cup {"file"} ELSE host
                /\ UNCHANGED << table, fs, holds >>
    /\ UNCHANGED << still, device, seen, nodes, temp, loop, out >>

\* sfdisk refuses a device that is in use.
Sfdisk ==
    /\ At("sfdisk", "boot") /\ Goto("partprobe", "boot")
    /\ \E ok \in Outcome("sfdisk", Block /\ seen = {}) : table' = IF ok THEN "new" ELSE table
    /\ UNCHANGED << still, device, seen, nodes, fs, holds, temp, host, loop, out >>

Partprobe ==
    /\ At("partprobe", "boot") /\ Goto("mkfs", "boot")
    /\ nodes' = IF Block /\ seen = {} THEN table # "none" ELSE nodes
    /\ UNCHANGED << still, device, seen, table, fs, holds, temp, host, loop, out >>

-----------------------------------------------------------------------------
(* A partition: its file system is made, mounted on a temporary directory, *)
(* filled, and unmounted.                                                  *)

CanMake(p) == Block /\ nodes /\ p \notin seen

\* Fault: a file system that is there already is kept.
Mkfs_Keeps(p) ==
    /\ script # "loopdev" /\ At("mkfs", p) /\ Goto("mount", p)
    /\ \E ok \in Outcome("mkfs", CanMake(p)) :
         IF ok /\ fs[p] = "none" THEN fs' = [fs EXCEPT ![p] = "new"] /\ holds' = [holds EXCEPT ![p] = {}]
               ELSE UNCHANGED << fs, holds >>
    /\ UNCHANGED << still, device, seen, table, nodes, temp, host, loop, out >>

Mkfs(p) ==
    /\ script # "loopdev" /\ At("mkfs", p) /\ Goto("mount", p)
    /\ \E ok \in Outcome("mkfs", CanMake(p)) :
         /\ spoilt' = (spoilt \/ (~ok /\ CanMake(p)))
         /\ IF ok THEN fs' = [fs EXCEPT ![p] = "new"] /\ holds' = [holds EXCEPT ![p] = {}]
            ELSE UNCHANGED << fs, holds >>
    /\ UNCHANGED << call, device, seen, table, nodes, temp, host, loop, out >>

Mount(p) ==
    /\ At("mount", p) /\ Goto("rsync", p)
    /\ \E ok \in Outcome("mount", Block /\ nodes /\ fs[p] # "none") :
         temp' = IF ok THEN "mounted" ELSE "directory"
    /\ UNCHANGED << still, device, seen, disk, host, loop, out >>

Rsync(p) ==
    /\ At("rsync", p) /\ Goto("umount", p)
    /\ \E ok \in Outcome("rsync", TRUE) :
         IF temp = "mounted"
           THEN holds' = [holds EXCEPT ![p] = IF ok THEN @ \cup {"new"} ELSE @ \cup {"part"}] /\ UNCHANGED host
           ELSE host' = host \cup {"spilled"} /\ UNCHANGED holds
    /\ UNCHANGED << still, device, seen, table, nodes, fs, temp, loop, out >>

\* rmdir leaves a directory that has been filled, or is still mounted on.
Umount(p) ==
    /\ At("umount", p)
    /\ \E ok \in Outcome("umount", temp = "mounted") :
         seen' = IF ~ok /\ temp = "mounted" THEN seen \cup {p} ELSE seen
    /\ IF p = "boot" THEN Goto("mkfs", "root")
       ELSE IF script = "image" THEN Goto("detach", "root") ELSE Goto("ended", "root")
    /\ temp' = "none"
    /\ UNCHANGED << still, device, disk, host, loop, out >>

-----------------------------------------------------------------------------
(* The ends of mksd-image.sh and mksd-loopdev.sh.                          *)

\* A loop device that is in use is detached with its last mount.
Detach ==
    /\ At("detach", "root") /\ Goto("ended", "root")
    /\ loop' = FALSE
    /\ UNCHANGED << still, device, seen, disk, temp, host, out >>

\* Fault: the status of mkfs.ext3 is not looked at.
MkfsLoop_Unchecked(p) ==
    /\ script = "loopdev" /\ At("mkfs", p)
    /\ \E ok \in Outcome("mkfs", CanMake(p)) :
         /\ fs' = IF ok THEN [fs EXCEPT ![p] = "new"] ELSE fs
         /\ holds' = IF ok THEN [holds EXCEPT ![p] = {}] ELSE holds
         /\ IF p = "boot" /\ ~ok
              THEN Goto("ended", p) /\ loop' = FALSE
              ELSE (IF p = "boot" THEN Goto("mkfs", "root") ELSE Goto("print", "root")) /\ UNCHANGED loop
    /\ UNCHANGED << still, device, seen, table, nodes, temp, host, out >>

\* A failure ends the script.  After mkfs.ext3 the words ${SUDO}losetup run
\* together, and with sudo the loop device stays.
MkfsLoop(p) ==
    /\ script = "loopdev" /\ At("mkfs", p)
    /\ \E ok \in Outcome("mkfs", CanMake(p)) :
         /\ fs' = IF ok THEN [fs EXCEPT ![p] = "new"] ELSE fs
         /\ holds' = IF ok THEN [holds EXCEPT ![p] = {}] ELSE holds
         /\ IF ok
              THEN (IF p = "boot" THEN Goto("mkfs", "root") ELSE Goto("print", "root")) /\ UNCHANGED loop
              ELSE Goto("ended", p) /\ loop' = (loop /\ p = "root" /\ sudo)
    /\ UNCHANGED << still, device, seen, table, nodes, temp, host, out >>

PrintDevice ==
    /\ At("print", "root") /\ Goto("ended", "root")
    /\ out' = device
    /\ UNCHANGED << still, device, seen, disk, temp, host, loop >>

-----------------------------------------------------------------------------
\* When it hears of new partitions the desktop mounts a file system it finds.
DesktopMount(p) ==
    /\ desktop /\ pc[1] \in {"mkfs", "mount", "rsync", "umount"} /\ script # "rootfs"
    /\ nodes /\ fs[p] # "none" /\ p \notin seen
    /\ seen' = seen \cup {p}
    /\ UNCHANGED << still, device, pc, disk, temp, host, loop, out >>

Next ==
    \/ StartRootfs \/ StartFormat \/ StartImage \/ StartLoopdev
    \/ Unmount \/ Dd \/ Sfdisk \/ Partprobe
    \/ \E p \in Part : Mkfs(p) \/ Mount(p) \/ Rsync(p) \/ Umount(p) \/ MkfsLoop(p) \/ DesktopMount(p)
    \/ Detach \/ PrintDevice

Spec == Init /\ [][Next]_vars

-----------------------------------------------------------------------------
System == {"old", "new", "part"}
Step == {"start", "unmount", "dd", "sfdisk", "partprobe", "mkfs", "mount", "rsync",
         "umount", "detach", "print", "ended"}

\* The variables have their types, and only a formatting script has a mount.
TypeOK ==
    /\ script \in {"format", "rootfs", "image", "loopdev"}
    /\ device \in {"card", "loop", "file", "none"}
    /\ sudo \in BOOLEAN /\ desktop \in BOOLEAN /\ spoilt \in BOOLEAN /\ pc \in Step \X Part
    /\ seen \subseteq Part
    /\ table \in {"none", "old", "new"} /\ nodes \in BOOLEAN
    /\ fs \in [Part -> {"none", "old", "new"}] /\ holds \in [Part -> SUBSET System]
    /\ temp \in {"none", "directory", "mounted"}
    /\ host \subseteq {"file", "unmounted", "spilled"}
    /\ loop \in BOOLEAN /\ out \in {"nothing", "loop", "none"}
    /\ temp # "none" => pc[1] \in {"rsync", "umount"}

\* As long as umount and mkfs do what they can and no desktop runs, no system is
\* copied over the files of another, whichever of the other commands fail.
NotMixed ==
    ~spoilt /\ ~desktop /\ pc[1] = "ended" /\ "new" \in holds["root"] => "old" \notin holds["root"]

\* "print the loopback device name to stdout if successful": what is printed is a
\* device that is attached and has both file systems.
PrintedMeansFormatted ==
    out # "nothing" => out = "loop" /\ loop /\ \A p \in Part : fs[p] = "new"

\* "Cowardly refusing to format": what is no block device is left alone, and the
\* host with it.
Refuses == script \in {"format", "image"} /\ ~Block => host = {}

\* "Unmount all partitions": nobody has one mounted when they are made anew.
AllUnmounted == script = "format" /\ pc[1] = "mkfs" => seen = {}

\* A mksd-loopdev.sh that fails has no device attached.
FailureDetaches == script = "loopdev" /\ pc[1] = "ended" /\ out = "nothing" => ~loop
=============================================================================
