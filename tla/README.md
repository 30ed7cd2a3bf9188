# A verification project for chronos-updates

This directory holds TLA+ models of the scripts that update a Chronos 1.4
camera, boot it, and build what it is updated with, the TLC configurations that check
them on small instances, and theorems about them whose proofs TLAPS checks for every
value of the constants. Paths are relative to the root of the repository; in
`PROJECT.json` they start with `src/`.

1. [Inventory](#1-inventory)
2. [Modules](#2-modules)
3. [Arago updater](#3-arago-updater)
4. [Debian updater](#4-debian-updater)
5. [Persistent names](#5-persistent-names)
6. [Screen, boot and firmware](#6-screen-boot-and-firmware)
7. [Device paths](#7-device-paths)
8. [Packages, images and cards](#8-packages-images-and-cards)
9. [Runs, bounds and fairness](#9-runs-bounds-and-fairness)
10. [Proofs](#10-proofs)
11. [Disagreements found](#11-disagreements-found)
12. [Not modelled](#12-not-modelled)

## 1. Inventory

The repository is a set of shell scripts around binary packages. Its own logic:

| Component | Files | State it keeps | Operations |
|---|---|---|---|
| Arago updater | `update.sh`, `update_real.sh` | root and boot partition, links in `/etc/rc?.d`, PMIC firmware, TIMEOUT | check, wait for camApp, rm, tar, cp, update-rc.d, flash, reboot |
| Debian updater backend | `update-to-debian/update_real.sh`, `update_backend.sh` | LINE, USBCHECKED, two named pipes, the card, the PMIC | Syscheck, Start, poll, WriteDone, PowerDown |
| Debian updater interface | binary `update-to-debian` | its screens | sends Syscheck, Start, PowerDown; shows answers |
| Persistent names | `rootfs/lib/udev/rule_generator.functions`, `write_net_rules`, `write_cd_rules` | lock directories, two rules files per kind, the probe link | lock, probe, search, append, unlock |
| Firmware helper | `rootfs/lib/udev/firmware.sh` | the kernel's `loading` and `data` | announce, copy, finish or give up |
| Device paths | `rootfs/lib/udev/path_id` | the path still to walk | one handler per bus |
| Boot and init | `rootfs/boot/boot.cmd`, `rootfs/etc/init.d/*`, `rootfs/opt/camera/runCamera.sh`, `scripts/hwsetup.sh` | loaded modules, device nodes, running daemons | start and stop in the order of the links |
| Image build | `scripts/chronos-*.sh`, `scripts/hooks/*` | loop devices, mounts, files in the sysroot | acquire, bootstrap, assemble, release |
| Card formatting | `scripts/mksd-*.sh` | block and loop devices, mounts | check, unmount, partition, format, copy |
| Packaging | `Makefile` | `camUpdate/` and its manifest | archive, copy, checksum, zip |

How they interact:

* camApp starts `update.sh` from the stick in the background; the script then
  kills camApp. They share the file system, the frame buffer and the process
  table.
* The Makefile writes the manifest (`update.md5sum`) that the updater checks.
* The updater replaces the init scripts and their links, and the boot
  partition; the next boot runs what it left.
* On the way to Debian the interface and the backend talk through two named
  pipes. `dd` and `pcUtil` write to the pipe of the backend as well.
* udev starts `write_net_rules` and `write_cd_rules` in processes of their own,
  one per device; they share a lock directory per rules file, the rules files,
  and the directory in which they probe for write permission.
* `chronos-mkimage.sh` calls `chronos-debootstrap.sh`, multistrap calls the hooks.

What is hard, and what makes each component correct:

* *Arago updater.* There is no transaction: between `rm -rf /boot/*` and the
  reboot the camera has neither release, power may be cut and the stick pulled
  at any moment, nothing is synced, and no status is looked at after the
  checksums. Correct means: storage holds one whole release unless something
  went wrong, a later clean run repairs what went wrong, nothing is replaced
  under a running camApp, no listed damage is installed, the PMIC comes last,
  and the script ends.
* *Debian updater.* Five actors (backend, interface, zcat | dd, user, PMIC
  tool) over two bounded pipes, polled by signal. Correct means: nobody is told
  to power off while dd writes, what is reported as written is the whole image
  unless a fault outside the backend happened, and every dialogue ends.
* *Persistent names.* Correct means: no name is given twice, whatever processes
  are killed and whatever the state of the root file system, and every helper
  ends.
* *Image build, formatting.* Every loop device and mount is released on every
  way out; a device that is not meant is not overwritten; the image holds what
  was written to the mounted partitions.
* *Boot.* Each script finds what the earlier ones prepared; no wait is unbounded.
* *Firmware helper, device paths.* The kernel's handshake is closed on every
  way out; the walk up the tree ends.

`PROJECT.json` lists every hazard at its line, with the properties that cover
it, or the reason why none does.

## 2. Modules

| Module | Contents |
|---|---|
| `Release` | abstract: what an update promises of the release on storage |
| `AragoUpdate`, `MCAragoUpdate`, `AragoUpdateProofs` | the Arago updater and its environment; files, services and packages for TLC; theorems |
| `DebianUpdate`, `DebianUpdateProofs` | the Debian updater: pipes, backend, writer, interface; theorems |
| `Dialogue` | abstract: what the Debian updater promises the user |
| `NameRegistry` | abstract: a table in which a device gets its name in one step, for good |
| `RuleGenerator`, `MCRuleGenerator`, `RuleGeneratorProofs` | the udev helpers for names and the system around them; devices for TLC; theorems |
| `Splash` | who draws on the screen while the updater takes over from camApp, in tenths of a second |
| `Boot` | the services of one boot with the modules they load and the device nodes they wait for |
| `FirmwareLoad` | `firmware.sh` and the kernel's side of the handshake |
| `CameraProofs` | theorems about `FirmwareLoad`, `Boot` and `Splash` |
| `PathId`, `MCPathId`, `PathIdProofs` | the walk of `path_id` up the device tree; a host with 22 devices for TLC; theorems |
| `Package`, `PackageProofs` | the goals of the Makefile, run after run; theorems |
| `ImageBuild`, `MCImageBuild`, `ImageBuildProofs` | loop devices, mounts and traps of `chronos-mkimage.sh` and what it calls; two builds for TLC; theorems |
| `CardFormat`, `CardFormatProofs` | the four `mksd` scripts; theorems |

How they compose: `AragoUpdate` implements `Release`, `DebianUpdate` implements
`Dialogue`, and `RuleGenerator` implements `NameRegistry`, each through
`INSTANCE ... WITH`. `Splash` has the same
script as `AragoUpdate` beside `runCamera.sh`, with time instead of files.
The other modules meet in what one leaves and the other starts from: `Boot` in any
set of links and modules, because `AragoUpdate` shows that a power cut may leave
any; `AragoUpdate` in packages as `Package` makes them, and in ones that lost
something on the way.

In each module an operator whose name contains an underscore after the name of
an action (`TestWait_Unbounded`) is a plausible mistake in that action. It is not
part of the specification: it is put in the place of the action to see that the
properties notice.

No module declares a RECURSIVE operator.

## 3. Arago updater

State:

| Variable | In the code |
|---|---|
| `pc` | the line of `update_real.sh` |
| `left` | the files tar or cp has still to write |
| `rcPos` | the next update-rc.d call (in `RcOrder`) |
| `timeout`, `grep_out` | TIMEOUT, and whether ps and grep found camApp |
| `pkg`, `stick` | the package on the stick, and whether the stick is in |
| `camApp` | running, sent SIGTERM, sent SIGKILL, gone |
| `disk`, `cache` | per file: old, new, torn or none, on storage and as seen by the running system |
| `pmic` | its firmware version, 0 when it has none |
| `spoiled`, `damaged` | history: a failure in this run; in a run no clean run has followed |

Every file of the archive is an element of `Root` or `Boot`; `Part` holds the
copies of `/boot` on the boot partition, `Link` one element per service for all
its links. What the contents are is abstracted to the release they belong to.
Actions follow the script: `KillCamApp` (line 10), `CheckReject`/`CheckPass`
(18-30), `Ps`/`TestClear`/`TestWait`/`TestKill` (32-42), `RmBoot` (50),
`TarMember`/`TarFull`/`TarBreaks`/`TarNoArchive`/`TarDone` (61), `RemoveLogo`
(64), `CpFile`/`CpFull`/`CpDone` (67), `RcRemove`/`RcStart`/`RcDone` (71-104),
`PmicSkip`/`PmicOld`/`FlashErase`/`FlashWrite` (107-122) and `Reboot` (24, 127).
The shell's `md5sum -c | grep 'FAILED$'` is `BadSums`; since the md5sum of
coreutils ends the line of a missing file in `FAILED open or read` and that of
busybox in `FAILED`, `MissingIsFailed` says which one is installed.

The environment may pull the stick, end the script when the stick it is read
from is gone, and cut the power. A power cut keeps, of each write not yet on
storage, all, nothing or a part, and independently for every file. After a
power cut the camera comes up only if it holds what the boot loader and camApp
need (`Usable`): then the user may apply an update again.

Properties: `OneRelease`, `RetryRepairs`, `CamAppStopped`,
`DamagedArchiveRefused`, `PmicAfterSoftware`, `ScriptGetsOn`, the liveness property
`UpdateEnds`, and the refinement `KeepsPromise`. `ScriptGetsOn` says how the script
comes to its end: it goes back only in its two loops, a turn of the update-rc.d calls
is for a service not yet relinked, and a turn of the wait for camApp uses up some of
TIMEOUT or has sent SIGKILL. `UpdateEnds` needs in addition that the script is
scheduled and that `ps` is at last without the `grep`. For the refinement, `Release`
sees what a camera switched off now would boot from (`Storage`: old, new or broken),
and whether an installation is open, has failed, or there is none (`Session`). Its
steps are `Begin`, `Fail`, `Finish` and `Abort`: storage changes when a session ends
and at no other time, a finished one leaves the new release, and nothing leads back to
the old one. `KeepsPromise` says that the script, with its many writes, power cuts and
repetitions, takes no other steps than these.

The links of `udhcpcd` are not part of what a release is: the script calls
`update-rc.d udhcpcd defaults` without a `remove` before it, and update-rc.d
leaves links that exist alone, so what they hold is decided by earlier releases.

## 4. Debian updater

| Variable | In the code |
|---|---|
| `pc` | the line of `update_backend.sh` |
| `line`, `usbChecked` | LINE, USBCHECKED |
| `opens` | the pipes each side has still to open, in the order of its redirections |
| `toBackend`, `toUi` | `/opt/camera/to-update-backend` and `to-update-ui`: sequences of at most `PipeCap` lines |
| `ui`, `asked`, `card` | the interface, how often it asked, the card in the top slot |
| `gz`, `hex` | the state of `debian.img.gz` and of the PMIC's firmware file |
| `dd`, `target`, `image` | the writing process, what it writes to, what the card holds |
| `pmic`, `fault` | its firmware version; history: something outside the backend failed |

Opening a named pipe waits for the other end, so `Open` is a step of both sides
at once, possible when both have the same pipe to open next. `Echo` waits for
room in the pipe, and is the end of the backend (SIGPIPE) when the interface has
gone. `Read` is `read -t 1`: a line, or nothing after a second or at the end of
file. The pipeline `zcat | dd` goes through `forked` (no process is called dd
yet), `execed` (dd has no handler for SIGUSR1, which then kills it) and
`running`; `Poll` treats the three as `killall -USR1 dd` does. `StartsInTime` is
the assumption on which the code's `sleep 1` (line 72) rests.

The interface is outside the repository. It sends any number of Syscheck (up to
`MaxSyscheck`) while it has not sent Start, sends Start once, sends PowerDown
when it has been told WriteDone, and may crash at any time. The user may take
the card out or put one in at any time; a card that is put in may be mounted, and
the `umount` before `dd` may fail, since its status is not looked at. Nor is that of
pcUtil: `FlashErase` may fail before it has erased anything, and `FlashWrite` after that
may leave the PMIC without firmware.

Properties: `SafeToPowerOff`, `WholeUnlessFault`, `NobodyWaitsInVain`, the liveness
properties `BothConnect`, `WriteDoneDelivered`, `PowerDownHonoured`, and the refinement
`KeepsWord`.

`NobodyWaitsInVain` is about whose turn it is. Neither loop of the backend takes notice
of the other's line, and the backend may die at any echo; so it has to hold that who
waits after Start has the line in the pipe, the backend at work or WriteDone on its way
(`StartIsServed`), and that a PowerDown is in the pipe only where the backend waits for
it or has read one (`PowerDownIsHeard`).

For the refinement `Dialogue` sees the screen of the interface, whether the card holds
the whole image, the PMIC, whether something outside has failed, whether the camera is
on, and how far the user's order is (`Stage`): placed while Start is in the pipe or the
backend prepares the writing, writing while there is a dd, ended after it. Its steps
are `Place`, `Program`, `Begin`, `End`, `Tell`, `SwitchOff`, `Fail`, and `Lose` for a
backend that dies before dd because nobody reads its echo. `KeepsWord` says that pipes,
polling and signals come to no more than that: nothing is programmed or written without
Start, the PMIC only over older firmware and never beside dd (which is `PmicBeforeImage`),
the card is written once, and neither is the user told, nor the camera switched off,
before that has ended.

What pcUtil itself prints is not in the model: how it would take a closed pipe
is not known from this repository.

## 5. Persistent names

Each element of `NetDev` and `CdDev` is a device, and the helper process that
udev starts for it. `lock[k]` is the lock directory of the kind `k`; `held[d]`
that the process has set RULES_LOCK; `file[d]` is RULES_FILE after
`choose_rules_file`; `rules` is the contents of all rules files: records of the
file, the device matched, the base of the name and its number. Names with
different bases do not interact in the code, so there is one base for
interfaces (`eth`), and per drive `cdrom` and its aliases.

`Mkdir`, `MkdirFails` and `NoLockDir` are `lock_rules_file`; `Probe` and
`Unprobe` are `writeable` within `choose_rules_file`, two steps because the
link is visible between them; `Seen` and `Numbers` are `find_all_rules`,
`NextFree` is `raw_find_next_available` (an empty number counts as 0);
`DecideNet` and `DecideCd` are the two scripts up to the choice of the name;
`WriteRule` is one append; `WriteFails` is what `sh -e` does when an append
fails. Processes may be killed anywhere, the root may become writable, and the
system may reboot, which clears `/dev` and keeps `/etc`.

Properties: `OneWriter`, `NamesUnique`, `LockHasOwner`, `MissesOnlyBeside`,
`HelpersGetOn`, the liveness property `ProcessEnds`, and the refinement `NamesPersist`.
`MissesOnlyBeside` says who can make a helper take a writable directory for read-only
by the link both probe with: only a helper of the other kind, under its other lock, and
only while it is between making the link and removing it, as long as none was killed
there. `HelpersGetOn`: no step of a helper leads back, and both its loops use something
up. `NamesUnique` leaves out names an
external tool asks for: the code writes these unseen. For the refinement,
`NameRegistry` sees the numbers each device has in the file in `/etc`, and whether
processes exclude each other. Its one step gives a device that has none a number,
which no other of its kind has; so whatever a drive's several appends, kills between
them, lost locks and reboots do, no device ever changes its name.

## 6. Screen, boot and firmware

**`Splash`.** Two processes draw: `update_real.sh` the busy picture (lines 18-56),
and `runCamera.sh`, which has run camApp, the shutdown picture when camApp ends
(`ExitSplash`). Nothing but time orders them: the update sleeps for 0.5 s
(`Settle`) after camApp has gone, `runCamera.sh` for 0.2 s (`Nap`). The variable
`since` is the time each process has been where it is; `Tick` is a tenth of a
second, and cannot pass while a process is later than `Lag`. `BusyShown`: while
`/boot` is replaced the screen does not say that the camera is shutting down.
`TimeToEnd`: camApp is killed only after it has had TIMEOUT tenths of a second.

**`Boot`.** `todo` is the set of services init has still to start, of which it takes
the one whose link has the smallest number (`Before`), `at` where the script is that
runs, `timeout` the TIMEOUT of hwsetup, `modules` and `nodes` what is loaded and what
udev has made, `done` what has been set up, and `failed` what a script has tried to set
up with all there that it takes, in vain: no script looks at a status, so a
`firmware_loader` whose file is missing or torn, an `fbset` or a write to the display
that fails is followed by the next command (`Attempt`). Actions: `Udev`; `LoadSyslink`, `LoadFirmware`, `LoadVideo`, `ConfigureLcd`,
`SetResolution` for `load-hd-firmware.sh` with its two waits without bound; `VidOrder`;
`HwSetup`, `HwWait`, `HwPins` for the `hwsetup` of Debian with its bounded one;
`Camera`; and `MakeNode` for udev. A udev that does not start is like one that has no
link. `NothingTooEarly`: camApp of a camera with all its links starts only when
firmware, display and pins have each been tried with all there that it takes, whatever
modules do not load; so what is missing then is what a command itself has failed at, and
nothing is missing for having been tried too early. It does not say that they are set
up: the code does not see to that (section 11).
`WaitedForComes`: where the boot waits without bound for a node, its module is loaded
and udev runs, unless udev has no link or a module does not load; so it never waits for
what a later line would bring. `BootEnds`: the
boot ends, on Debian always, on Arago if udev has its link and all modules load. The
condition is the code's: an update cut short while udev has no link leaves a camera
that waits for its device nodes for ever.

**`FirmwareLoad`.** Each request is for a file of its own (`asks`, $FIRMWARE of its
event), which is of some `length` and may be missing (`present`). The kernel's files
`loading` and `data` belong to the request `current`; a helper that is late finds those
of a later request under the same name, and answers it with the file it was started
for. `written` is what the kernel has been given, each part with the file it is of. `TestLoading`, `StartLoading`, `OpenData`, `Cat`, `EndLoading` and `Abort` are
the commands of `firmware.sh`, each of which ends the script if it fails (`sh -e`);
`Ask`, `Timeout` and `StartHelper` are the driver, the kernel and udev.
`WholeOrNothing`: a driver that is told that its firmware is there has been given the
whole of one file, not a part and not a mix, and it is the one asked for unless this or
an earlier request has timed out; then it may be that of an earlier request.
`NoneLeftWaiting`: a helper that ended of itself has answered. `Answered`: each
request is, unless `cat` fails.

## 7. Device paths

`PathId` has the loop of `handle_device`: `D` is the directory it is at, `d` the path
so far, `cwd` the working directory, which stays where it was when `cd` fails.
A device is the sequence of the parts of its directory, each a kind (a bus, or a
device on one) with the numbers in its name. `Cases` lists the patterns of the
`case` in their order, `Is(c)` says that `c` is the first that fits, and each of
`Ide`, `Css`, `Fc`, `Sas`, `Firewire`, `Iscsi`, `Scsi`, `TtyUSB`, `Usb`, `Bus`
(pci, platform, serio), `Top` and `Other` is a handler with the rest of its turn.
`Port` is `get_port_offset`: the number of a host or hub less the lowest one at the
same controller. Two devices are looked at, one after the other, and each may be
unplugged in the middle; or one is looked at in two boots, in the second of which the
numbers of each kind of controller (`Numbered`: IDE channels, hosts, USB hubs) begin
elsewhere, higher by one of `Shifts`.

`TreeAssumption` is what the code takes for granted of a device, and the kernel provides:
an IDE controller, a host and a USB root hub have a number in their names, and an IDE
device is below a controller and its master or slave (0 or 1, so that the branch of lines
177-179 is never taken), an FC or SAS remote port below a host. Without the last,
`${D%%/host*}` would leave D as it is. `Usb` is met only where no pci, serio or platform
case has come before it: its pattern is the more special one of a whole directory.

`PathsUnique`: two devices that have a path do not have the same. `PathsPersist`:
a device has the same in both boots. `NearerEachStep`: each turn of the loop takes a
part of D away or is the last, also where a handler goes on from the directory the script
has stayed in because its device is gone; the one exception is a FireWire device whose
`ieee1394_id` cannot be read (236-239). `WalkEnds`: the loop ends.

## 8. Packages, images and cards

**`Package`.** `dir` and `list` are `camUpdate/` and its `update.md5sum`, `zips` the
packages, `img` the Debian image; each file is what it is a copy of and of which
revision of the tree (`src`). `After` is the order of the commands of each goal,
prerequisites first. A command may fail (`Break`), Ctrl-C may be pressed
(`Interrupt`: make removes the file it was making, unless it is a phony goal from
the command line), both leaving any part of what it does (`Leaves`); the tree may be
edited at any moment, and make be run again with any goal. `ManifestExact`,
`PackageWhole`, `RevisionAgrees` and `NothingLeftOver` say what every package that
exists is like, whatever was left behind by the runs before it.

**`ImageBuild`.** A build is a process of `chronos-mkimage.sh` with
`chronos-debootstrap.sh`, multistrap and the hook `completion-dpkg-configure.sh` in
it; `pc` goes through all their commands. `loops` are the image files attached to
loop devices, `mount` what is mounted on the two mount points under `/media`, which
builds share, `binds` the bind mounts of the hook, `content` what a file system holds
(nothing, a part, a system unpacked, one that dpkg has failed to configure, or all) and
`stored` what of it has reached the image file. A multistrap that is cut short leaves
a part (`Cut`), and `dpkg --configure -a` may fail (`Configure`): the hook does not look. `Acquire`, `Bootstrap`, `Hook`,
`Assemble` and `AtExit` group the actions by script; `Interrupt` is Ctrl-C, which runs
the traps that are set by then. `LoopsGivenBack`, `ReleasedAfterTrap`: what a build
acquired is given back by its trap, however many run side by side and unmount each
other's file systems. `UnpackedBeforeAssembly`: a build alone is assembled only from a
system that multistrap has unpacked to the end, and on which dpkg has been run to its
end, well or badly.

**`CardFormat`.** One of `mksd-format.sh`, `mksd-rootfs.sh`, `mksd-image.sh` (which
calls the first) and `mksd-loopdev.sh` runs on a card, an ordinary file, a loop
device or nothing. `seen` are the partitions others have mounted, or that
the script could not unmount again, `table` and
`nodes` the partition table and what the kernel has read of it, `fs` and `holds` the
file systems and whose files are in them, `temp` the mount point of the script, `host`
what happens to the machine it runs on. `Outcome(command, possible)` are the
outcomes of a command: it fails if the state does not allow it, and may fail
otherwise if it is in `Fails`. `DesktopMount` is a desktop that mounts what it sees.
`NotMixed`: no system is copied over the files of another, as long as `umount` and
`mkfs` do what they can and no desktop runs. `PrintedMeansFormatted`: the loop device
`mksd-loopdev.sh` prints is attached and has both file systems.

## 9. Runs, bounds and fairness

| Run | Shows | Instance |
|---|---|---|
| `arago` | all properties of the Arago updater over any number of interrupted updates, and that it implements `Release` | one file each of root, boot and boot partition; one service that is relinked; five packages; TIMEOUT 1; PMIC version 6 |
| `arago_completed` | violated: `completed!` means installed | the same with a second service, which has `defaults` |
| `debian` | all properties of the Debian updater, and that it implements `Dialogue` | pipes of two lines, two questions, PMIC versions 6 and 7 |
| `rules` | mutual exclusion, unique names, no forgotten lock, and who spoils a probe | three interfaces, two of which come up as eth0 and one of them with a name asked for, a drive with two aliases; one try more for the lock, one boot |
| `rules_boots` | the implementation of `NameRegistry`, and that every helper ends | an interface, two drives, two boots |
| `image` | what is released, and what is assembled | two builds, `losetup`, dpkg and all else may fail |
| `card` | no mix, and what is printed | the four scripts, every command may fail |
| `splash` | the order on the screen | `Lag` 1, TIMEOUT 4 |
| `firmware` | whole firmware, whose it is, and an answer | three requests, two files of one or two writes, present or not |
| `boot` | that camApp starts last, and that the boot ends | both releases, any set of links and of modules that load, any command failing, ten tries |
| `package` | what a package is like | three runs of make, one edit |
| `pathid` | unique and persistent paths, that each turn of the loop shortens what is left to walk, and that the walk ends | every pair of 22 devices on all buses, with their attributes readable or not; in the second boot each kind of number is the same or higher by one |

Why these are enough to be interesting:

* *Arago.* Files of the same group are treated alike by every action, so one of
  each group shows every mix of old, new, torn and missing between groups. The
  services do not interact either, and a relinked one has the most states between
  removal and start. TIMEOUT 1 lets the loop wait, time out, and kill. Power cuts
  and repeated runs are not bounded. The theorems cover any number of files and
  services.
* *Debian.* With two lines per pipe the answer to the first Syscheck fills the pipe,
  and a report of dd makes WriteDone wait.
* *Names.* Two or three processes of a kind contend for the lock; a stale lock, a
  full file and the probe race all occur. A drive whose rules are incomplete frees
  its lock only by a reboot, hence two boots.
* *Image.* Two builds are enough for one to find its mount points taken, to work in
  the other's images, and to unmount them; a third would find what the second does.
* *Firmware.* Three requests let a helper be late for its own and meet one that is
  being loaded and one that is not, and let one timeout shift the answers of two later
  requests. Two files show what is mixed up; with two writes a file can be there in part.
* *Splash.* With `Lag` 2 TLC finds `BusyShown` violated: `runCamera.sh` may then draw
  0.2 + 2 * 0.2 s after camApp has gone, later than the 0.5 s of the update. The
  theorem says where the limit is: below 0.15 s.
* *Package.* Three runs are: one that leaves something, one that is broken off in
  the middle of it, and the one whose package is looked at. The theorems cover any
  number of runs and edits.
* *PathId.* Most of the devices come in pairs that differ in one number, so that
  leaving any number out of a path makes two alike.

`CHECK_DEADLOCK FALSE` is set in all configurations because the systems do stop: a
camera that is off and cannot boot, one that has booted, a Debian updater after
shutdown, udev when all helpers have ended, a script or a build at its end.

Fairness:

* `AragoUpdate` (`FairSpec`): the script is scheduled (weak fairness of `Script`),
  and SIGKILL is delivered. Nothing is assumed about SIGTERM: camApp may ignore it.
  `ps` and the `grep` beside it are started together by the shell, and which of
  them is listed is a race at each turn of the loop; strong fairness says that
  a loop that runs for ever meets one turn where `grep` is not listed. Without
  it the code does not end, and no code of this form would.
* `DebianUpdate`: each process is scheduled, and the interface reads what it is
  sent while it lives. The user and crashes are not fair.
* `RuleGenerator`: each process that udev has started is scheduled.
* `Boot`: init and the scripts run on, and udev makes every node it can.
* `FirmwareLoad`: the driver and the helpers are scheduled. The kernel's timeout is
  not fair: `Answered` does not rest on it.
* `PathId`: the script runs on. Unplugging is not fair.
* The other modules have safety properties only.

## 10. Proofs

All proofs are checked by tlapm with Z3, Zenon and LS4.

**`AragoUpdateProofs`** proves `TypeOK`, all five safety and action properties of the
run `arago`, `ScriptGetsOn`, and the refinement (`ImplementsRelease`), for every archive, every
injective or overlapping layout of the boot partition (`PathAssumption` only asks that
each file there is the copy of some file of `/boot`), every list of services and every
set of packages. The properties are not inductive. The strengthening says, per stage of
the script, what is already in place unless the run is spoiled: after tar every
member not in `left` is new; while cp runs, the copy of every file of `/boot` that is
not in `left` is new (`PartDone`), so that after it the whole partition is; in the
relinking loop every service before `rcPos` has its final links. It also relates
`disk` and `cache` outside an installation, and records that a camera that is not
`damaged` starts from one whole release. The refinement adds `NoWayBack`: once a
session has begun, the old release is not what storage returns to. `ScriptGetsOn`
(`EveryStepGetsOn`) needs only `TypeOK` and that between the two calls for a service
`rcPos` is the place of one (`Relinking`), in a spoiled run too.

**`DebianUpdateProofs`** proves `TypeOK`, `SafeToPowerOff`, `PmicBeforeImage` and
`WholeUnlessFault` (`DoneMeansWhole`) for pipes of every capacity. `SafeToPowerOff`
needs the invariant `Honest`: once the poll has ended dd has ended, and there is a
WriteDone in the pipe, or the interface has seen one, only after that. It holds under
`StartsInTime`, which the theorem names as its assumption. `Order` records that dd
does not exist before `Fork` and that the PMIC is only erased when its firmware was
older; `Clean` that without a fault a dd that has ended has written everything.

`NobodyWaitsInVain` (`NobodyForgotten`) needs no assumption. Its invariant is `Turn`: while the interface checks, the backend
is in its first loop and no Start is in the pipe; a WriteDone in the pipe or seen, and a
PowerDown, are there only once the backend is in its last loop; it has died only where
the interface has. The lemmas `HoldsTail` and `HoldsAppend` say what taking a line from
a pipe and putting one in does to what it holds. The refinement (`ImplementsDialogue`,
under `StartsInTime`) rests on all these invariants and on `WholeAtEnd`: the card holds
the whole image only after dd. `NothingShown` sums up the steps the user does not see.

**`RuleGeneratorProofs`** proves `TypeOK`, `OneWriter`, `NamesUnique`, `LockHasOwner`
(`LockIsGivenBack`) and the refinement `NamesPersist` (`Implements`), for every number
of devices, tries and boots. Mutual exclusion rests on the invariant `Locking`: a
process in its critical section holds the lock of its kind, and that lock is taken.
`NamesUnique` needs in addition that between its choice and its first append a
process's number is unused in its file (`Fresh`, with `Writing`, which says what it
has still to append), that a rule belongs to a device of its own kind (`RuleKinds`), and
that a drive with any rule has a rule for `cdrom`, the one the next drive counts
(`CdromFirst`). That `NextFree` returns a number above all others uses that a finite
set of numbers has a greatest element, which is proved from the well-foundedness of
the natural numbers. The refinement needs `Once`: all rules of a device have one
number, also the ones still to be written.

`MissesOnlyBeside` (`ProbesMeet`) needs that up to the first reboot, as long as nobody
is killed, the link has a process that is about to remove it (`LinkHasOwner`), which by
`OneWriter` is not of the same kind. `HelpersGetOn` (`NoHelperGoesBack`) is proved action
by action (`GetsOn`).

**`ImageBuildProofs`** proves `TypeOK` and all three properties of `ImageBuild` for every
set of builds.

* `LoopsGivenBack` speaks of builds that have ended; the invariant says of every build that
  is past the detaching of one of its devices (`Past`) that this one is given back
  (`Returned`), and is kept because no other build touches it. `TypeOK`, which says that
  only an attached device is marked, needs that a device is marked only by its own
  build's detaching (`Marked`).
* `ReleasedAfterTrap` (`NothingKept`) speaks of the moment when all builds have ended, and
  one build may undo the mount of another. So the invariant `Owned` counts: for every
  mount point of the hook there is an injection of what is mounted there into the builds
  that have still to undo one (`Matched`), whoever made it; a mounted partition has a
  build that has still to unmount it (`Held`); and all bind mounts are below the root that
  is mounted now (`Below`), because a file system with a mount in it is busy, and pmount
  refuses a mount point that a build has worked in.
* `UnpackedBeforeAssembly` (`AssembledComplete`): as long as a build is alone, in the hook
  what is mounted as root is a whole system (`Hooked`), and once `dpkg --configure -a` is
  behind it and it was not stopped in it, dpkg has come to its end there (`Ready`,
  `Finished`).

**`CardFormatProofs`** proves `TypeOK`, `NotMixed` and `PrintedMeansFormatted` for every
set of commands that may fail. `Loopdev` follows `mksd-loopdev.sh` and says what it has
made at each point. For `NotMixed` the invariant follows the root partition: nobody has
it mounted after the unmounting (`Unmounted`), so mkfs can empty it or it cannot be
mounted at all (`Emptied`), and what is filled is empty (`Pure`).

**`CameraProofs`** holds the theorems of three modules that share nothing, and extends
them all: for its sake `Boot` and `Splash` have specifications, and type invariants, with
names of their own (`BootSpec`, `SplashTypeOK`).

* *Firmware.* `TypeOK`, `WholeOrNothing` and `NoneLeftWaiting` for every number of requests,
  set of files and their lengths. Helpers run one after the other (`Serial`); if the request
  that is pending is being loaded, the helper that runs has said so, and what the kernel
  has is what this one has written, of its own file (`Told`); a helper that is still at
  work when its request is over has seen a timeout, its own or an earlier one (`InTime`); only the last request can be pending (`OnlyCurrent`).
* *Boot.* `BootTypeOK` and `NothingTooEarly` (`CameraStartsLast`), for every TIMEOUT of
  hwsetup (`HwTimeout`), on which `NothingTooEarly` does not depend. The invariant has two
  parts, for a camera with all its links: the services start in their order and none
  while a script is at work (`InOrder`); and what each part of `load-hd-firmware.sh` sets
  up has been tried (`Tried`) once it is past (`SetUp`). The link between them is `fb0`:
  the script waits for it without bound, udev makes it for ti81xxfb only, and that module
  loads only when vpss has, without which the display could not have been tried. So a
  camera on which a module does not load hangs in its boot, and camApp is never started
  on one whose settings had nothing to take hold of. `WaitedForComes` (`WaitsForWhatComes`) is of any set
  of links: that udev, if it has one, comes before the loader (`UdevFirst`, `Prepared`),
  and that the modules have been asked for before their nodes are waited for.
* *Splash.* `SplashTypeOK`, `BusyShown` for every `Lag` with `Nap + 2 * Lag < Settle`, and
  `TimeToEnd` for every `Lag` and TIMEOUT. The invariants compare clocks: the update has
  waited since camApp went no longer than `runCamera.sh` and its lag (`Waited`); each look
  at `ps` but the last has been slept after (`Looked`).

**`PathIdProofs`** proves `TypeOK`, `NearerEachStep` and `PathsPersist` for every set of
devices that satisfies `TreeAssumption`, and paths of any length.

* `PlaceIs` and `AboveIs` say what `Place` and `Above` return: that a directory has a
  first part of a kind uses that a set of numbers has a least one, which is proved from the
  well-foundedness of the natural numbers. `Steps` sums up the twelve handlers: the script
  goes on above D, or above the directory it has stayed in, or waits for an `ieee1394_id`,
  or ends the walk.
* `NearerEachStep` (`WalksGetNearer`) needs that the directory the script has stayed in is
  never above D (`Stayed`), so that cutting it at the first part of a kind that D has too
  leaves less than D. It is the half of `WalkEnds` that is not about fairness: a walk has no
  more turns than its device has parts.
* `PathsPersist` (`SamePathEachBoot`) compares two walks that may have any number of turns,
  without induction, for any `Shifts`. `PortIs`: the offset of a port is higher by what the
  boot's numbers of that kind are higher by, so their difference says nothing of the boot. Hence, as long as the device
  is there, a step is a function of the directory and the path alone (`Succ`, `OneWay`). The
  invariant `Follow` keeps a set of all places the first walk has been to (`Trail`), and
  that the second walk is at one of them: where it can only end as the first did.

**`PackageProofs`** proves `TypeOK` and all four properties of `Package` for every number
of edits and runs. The invariant follows camUpdate and its list from command to
command: which goal comes to which command (`StepFits`), what has been copied by then
(`DistHas`, `DebianHas`), that the list is gone before md5sum and is of the files that
are there after it (`ListHas`), and that at "pack" there is no older package for zip to
add to (`ZipGone`).

Only model-checked:

* The liveness properties `UpdateEnds`, `BothConnect`, `WriteDoneDelivered`,
  `PowerDownHonoured`, `ProcessEnds`, `BootEnds`, `Answered` and `WalkEnds`: fairness and
  ENABLED are out of the prover's reach. What these rest on besides fairness is proved:
  the rankings of `UpdateEnds` (`ScriptGetsOn`), `ProcessEnds` (`HelpersGetOn`) and
  `WalkEnds` (`NearerEachStep`), by which no loop goes on for ever; of
  `WriteDoneDelivered`, `PowerDownHonoured` and `BootEnds` that what is waited for is
  still to come (`NobodyWaitsInVain`, `WaitedForComes`). That TIMEOUT and
  the tries are used up one by one to their end is an induction, and stays with TLC too.
* `PathsUnique`: it does not hold of every tree. That no two devices get one path rests on
  how the kernel names the devices of each bus (which numbers below one controller may
  be alike), and the 22 devices say that by example.

Proved, and in no configuration: the type invariants, `ScriptGetsOn`,
`HelpersGetOn` and `WaitedForComes`, which are the halves of the liveness properties of
their runs that TLC checks with them, and `PmicBeforeImage`, which `KeepsWord` contains.
TLC agrees with each when it is put into the configuration of its module.

## 11. Disagreements found

The run `arago_completed` shows that the script reports completion without having
looked at the status of tar or cp; `PROJECT.json` quotes the lines.

The modules also state what other comments say and the code does not do. These
properties are in no configuration; to see TLC violate one, put it in the place of the
properties of the configuration named here.

| Property | Configuration | What the text says | What the code does |
|---|---|---|---|
| `PollEndsWithDd` | `DebianUpdate.cfg`, `StartsInTime = FALSE` | `update_backend.sh:79`: "If killall command errored out, dd has finished or errored out." | it may also not have started |
| `CardUnmounted` | `DebianUpdate.cfg` | `update_backend.sh:45`: "unmount the SD card before writing the image" | the status of umount (46) is not looked at, and a card may be put in and mounted later |
| `WriteableIsRight` (PROPERTIES) | `RuleGenerator.cfg` | `rule_generator.functions:25`: "Return true if a directory is writeable." | false while a helper of the other kind, under another lock, probes it (27) |
| `BothFilesChecked` | `RuleGenerator.cfg` | `rule_generator.functions:58`: "Both files should be checked later when looking for existing rules." | only one is, once the directory is writable (64) |
| `PackagesSystem` | `ImageBuild.cfg` | `chronos-mkimage.sh:8`: "Bootstrap a Chronos/Debian base system and package it into an SD card image." | the image is put together (90-106) from files whose file systems are mounted until the trap (68-69), so what it holds is up to the kernel |
| `HelpExits` | `ImageBuild.cfg` | `chronos-mkimage.sh:13`: "-h Print this message and exit." | `chronos-debootstrap.sh:29` exits with 0, and an empty image is put together |
| `RootNeedsNoSudo` | `ImageBuild.cfg` | `chronos-debootstrap.sh:58`: "We will need sudo if we are not root." | for root `${SUDO}` is empty and the shell looks for a command `SUITE=...` (64) |
| `CleanedUp` | `ImageBuild.cfg` | `chronos-mkimage.sh:66`: "Cleanup when we're finished." | Ctrl-C before the trap is set (76) leaves devices, mounts and files |
| `Refuses` | `CardFormat.cfg` | `mksd-format.sh:8-9`: "Cowardly refusing to format", "Not a block device." | the script goes on: dd makes a file, or the host's file systems are unmounted |
| `AllUnmounted` | `CardFormat.cfg` | `mksd-format.sh:20`: "Unmount all partitions" | no status is looked at, and a desktop mounts them again (40) |
| `FailureDetaches` | `CardFormat.cfg` | `mksd-loopdev.sh:10`: "We will require sudo if not already root to properly use losetup." | after a failed `mkfs.ext3`, `${SUDO}losetup` (53) is no command, and the device stays |

Seen while modelling, without a property of their own:

* `Makefile`: a second `make debian`, or one after a failure, runs `clean` (39, 23) and
  with it removes the image that line 43 has moved to camUpdate, though README.txt:38-44
  has one put it in place once. A plain `make` after `make debian` packs the program and
  the image for Debian, even parts of them, into the package for Arago. `clean` does not
  remove a package that was made under another name.
* `path_id`: the walk of a FireWire device never ends without `ieee1394_id` or when it
  is unplugged (236-239), which `WalkEnds` leaves out. A directory no case knows ends the
  walk with a part of a path and status 0 (538-541), so that two disks at different
  adapters of such a bus get one path, though line 3 says "provide the shortest
  possible unique hardware path to a device"; `PathsUnique` speaks of walks that came to
  the top. The ports of one USB serial adapter share a path.

* `firmware.sh`: when a request has timed out, its helper, if it is late, answers the next
  request of the device with its own file (17-19), and the helper of that one answers the
  one after it: a single timeout shifts all answers that follow, and each driver is told
  that its firmware is there.
* `load-hd-firmware.sh`: the status of `firmware_loader` (39, 41), of the writes to the
  display (13-18) and of `fbset` (26) is not looked at, and camApp is started on a camera
  without its firmware.
* `completion-dpkg-configure.sh`: the status of `dpkg --configure -a` (41-43) is not looked
  at, and a system that is not configured is put together like any other.
* `update_backend.sh`: nor is that of `pcUtil -u` (61), though a PMIC whose writing fails
  once it has been erased leaves a camera that does not start.

## 12. Not modelled

* Compiled helpers, kernel modules, fonts, third-party headers, generated D-Bus
  bindings and the Debian meta package: not this project's logic, or declarations
  without behaviour.
* The interface `update-to-debian` is a binary; it is modelled as its dialogue with
  the backend requires (hence "partly").
* The network init scripts, `sendsigs`, `pwrmonitor` and `boot.cmd` are one command each,
  without state of their own; so are the hooks that write configuration files, and
  `chronos-chroot.sh`, which binds /dev, runs a shell, and undoes what it did at its exit.
* `load-hd-firmware.sh stop`, which no link calls.
* Any Ctrl-C while a trap of a build runs, be it the first, in the trap of a normal exit, or
  a second one, and SIGKILL of a build: nothing in the scripts handles them, and what the
  trap has not released by then stays, as after an `Interrupt` before the trap is set.
* `firmware.sh` for two devices at once: they have files of their own under `/sys` and
  share nothing. One device makes its requests one after the other.
* Of `path_id` the choice of the first directory (433-474), the names of cciss devices
  and the suffix of tape devices: they replace characters of names, and the model has
  no names.
* Boots between which the ports of one controller are numbered in another order, or with
  other gaps: `path_id` counts from the lowest number and takes that for granted. (That
  controllers are found in another order is covered: a device is below one of a kind, and
  only what that one's numbers begin with matters.)
* That `zip` leaves a file out that it cannot read and makes an archive without it (exit
  code 18): make has itself just made or copied every file it packs. What one run or a
  failure leaves in camUpdate can be read.
* The wording of messages; of Syscheck's answers only what kind of line is sent.
