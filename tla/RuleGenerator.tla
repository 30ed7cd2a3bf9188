---------------------------- MODULE RuleGenerator ----------------------------
(***************************************************************************)
(* write_net_rules and write_cd_rules, the udev helpers that give network  *)
(* interfaces and optical drives persistent names, on the functions they   *)
(* share (rule_generator.functions).  udev runs one process per new        *)
(* device.  The processes of one kind exclude each other with mkdir; each  *)
(* looks for existing rules, takes the next free number and appends rules  *)
(* to /etc/udev/rules.d or, on a read-only root, to a file in /dev/.udev.  *)
(***************************************************************************)
EXTENDS Integers, Sequences

CONSTANTS
    NetDev, CdDev,    \* the devices; each one's event is a process
    Interface,        \* INTERFACE, the number in the kernel's name, eth0 = 0
    Custom,           \* INTERFACE_NAME, a number too, or NoName
    NoName,
    Aliases,          \* the rules a drive gets besides cdrom: cdrw, dvd, dvdrw
    Retries,          \* retry, 30 in the code
    MaxBoots          \* bound on the number of boots

Dev == NetDev \cup CdDev
Alias == {"cdrw", "dvd", "dvdrw"}

ASSUME ConstantAssumption ==
    /\ NetDev \cap CdDev = {}
    /\ Interface \in [NetDev -> Nat]
    /\ NoName \notin Nat /\ Custom \in [NetDev -> Nat \cup {NoName}]
    /\ Aliases \in [CdDev -> Seq(Alias)]
    /\ Retries \in Nat /\ MaxBoots \in Nat

VARIABLES
    pc, retry,    \* of each process
    held,         \* RULES_LOCK is set
    file,         \* RULES_FILE after choose_rules_file: "real" or "tmp"
    number,       \* the number of the name it has chosen
    todo,         \* the rules it has still to append
    lock,         \* the directories .lock-70-persistent-net.rules and -cd
    udevDir,      \* /dev/.udev exists
    rw,           \* the root file system is writable
    isWriteable,  \* the link /etc/udev/rules.d/.is-writeable exists
    rules,        \* the rules in both files
    boots,        \* number of boots so far
    lost          \* history: a process was killed or could not write

vars == << pc, retry, held, file, number, todo, lock, udevDir, rw, isWriteable,
           rules, boots, lost >>
plan == << file, number, todo >>
locking == << retry, held, lock >>
system == << udevDir, rw, boots >>

Kind(d) == IF d \in NetDev THEN "net" ELSE "cd"
Ended == {"done", "failed"}
Critical == {"probe", "unprobe", "decide", "write", "unlock"}

Init ==
    /\ pc = [d \in Dev |-> "start"] /\ retry = [d \in Dev |-> Retries]
    /\ held = [d \in Dev |-> FALSE]
    /\ file = [d \in Dev |-> "real"] /\ number = [d \in Dev |-> 0]
    /\ todo = [d \in Dev |-> << >>]
    /\ lock = [k \in {"net", "cd"} |-> FALSE]
    /\ udevDir \in BOOLEAN /\ rw \in BOOLEAN /\ isWriteable = FALSE
    /\ rules = {} /\ boots = 1 /\ lost = FALSE

Goto(d, from, to) == pc[d] = from /\ pc' = [pc EXCEPT ![d] = to]

\* udev calls the helper for a device that no rule it reads has named.
Event(d) ==
    /\ Goto(d, "start", "lock")
    /\ ~\E r \in rules : r.dev = d /\ r.file = "real"
    /\ UNCHANGED << locking, plan, system, isWriteable, rules, lost >>

-----------------------------------------------------------------------------
(* lock_rules_file and choose_rules_file                                   *)

NoLockDir(d) ==
    /\ ~udevDir /\ Goto(d, "lock", "probe")
    /\ UNCHANGED << locking, plan, system, isWriteable, rules, lost >>

\* Fault: the test for the directory and mkdir are two steps, and mkdir -p
\* never fails.
Mkdir_NotExclusive(d) ==
    /\ udevDir /\ Goto(d, "lock", "probe")
    /\ lock' = [lock EXCEPT ![Kind(d)] = TRUE]
    /\ held' = [held EXCEPT ![d] = TRUE]
    /\ UNCHANGED << retry, plan, system, isWriteable, rules, lost >>

Mkdir(d) ==
    /\ udevDir /\ ~lock[Kind(d)] /\ Goto(d, "lock", "probe")
    /\ lock' = [lock EXCEPT ![Kind(d)] = TRUE]
    /\ held' = [held EXCEPT ![d] = TRUE]
    /\ UNCHANGED << retry, plan, system, isWriteable, rules, lost >>

\* Fault: retry is not counted.
MkdirFails_Forever(d) ==
    /\ udevDir /\ lock[Kind(d)] /\ pc[d] = "lock"
    /\ UNCHANGED vars

\* Someone holds the lock: sleep 1 and try again, or exit 2.
MkdirFails(d) ==
    /\ udevDir /\ lock[Kind(d)]
    /\ IF retry[d] = 0 THEN Goto(d, "lock", "failed") /\ UNCHANGED retry
       ELSE /\ pc[d] = "lock" /\ UNCHANGED pc
            /\ retry' = [retry EXCEPT ![d] = @ - 1]
    /\ UNCHANGED << held, lock, plan, system, isWriteable, rules, lost >>

\* writeable: the directory counts as writable if a link can be made in it ...
Probe(d) ==
    /\ IF rw /\ ~isWriteable
         THEN Goto(d, "probe", "unprobe") /\ isWriteable' = TRUE /\ UNCHANGED file
         ELSE /\ Goto(d, "probe", "decide")
              /\ file' = [file EXCEPT ![d] = "tmp"] /\ UNCHANGED isWriteable
    /\ UNCHANGED << locking, number, todo, system, rules, lost >>

\* Fault: the link is not removed.
Unprobe_KeepsLink(d) ==
    /\ Goto(d, "unprobe", "decide")
    /\ file' = [file EXCEPT ![d] = "real"]
    /\ UNCHANGED << locking, number, todo, system, isWriteable, rules, lost >>

\* ... which is then removed.
Unprobe(d) ==
    /\ Goto(d, "unprobe", "decide")
    /\ isWriteable' = FALSE
    /\ file' = [file EXCEPT ![d] = "real"]
    /\ UNCHANGED << locking, number, todo, system, rules, lost >>

-----------------------------------------------------------------------------
(* Choosing a name.                                                        *)

\* find_all_rules reads RULES_FILE and RO_RULES_FILE: the real file alone when
\* it is writable, otherwise both.
Seen(d) == {r \in rules : file[d] = "real" => r.file = "real"}

Numbers(d, link) == {r.num : r \in {s \in Seen(d) : s.link = link}}

\* Fault: the highest number itself.
NextFree_Highest(nums) == IF nums = {} THEN 0 ELSE CHOOSE n \in nums : \A m \in nums : m <= n

\* raw_find_next_available
NextFree(nums) ==
    IF nums = {} THEN 0 ELSE 1 + CHOOSE n \in nums : \A m \in nums : m <= n

\* A name asked for by an external tool is taken as it is.  Otherwise the
\* kernel's name is kept if no rule has it.
NetNumber(d) ==
    CASE Custom[d] # NoName -> Custom[d]
      [] Custom[d] = NoName /\ Interface[d] \notin Numbers(d, "eth") -> Interface[d]
      [] OTHER -> NextFree(Numbers(d, "eth"))

CdRules(d) == << "cdrom" >> \o Aliases[d]

DecideNet(d) ==
    /\ d \in NetDev /\ Goto(d, "decide", "write")
    /\ number' = [number EXCEPT ![d] = NetNumber(d)]
    /\ todo' = [todo EXCEPT ![d] = << "eth" >>]
    /\ UNCHANGED << locking, file, system, isWriteable, rules, lost >>

\* Fault: the exit for a device without anything to match keeps the lock.
NoMatch_KeepsLock(d) ==
    /\ d \in NetDev /\ Goto(d, "decide", "failed")
    /\ UNCHANGED << locking, plan, system, isWriteable, rules, lost >>

\* "missing valid match"
NoMatch(d) ==
    /\ d \in NetDev /\ Goto(d, "decide", "unlock")
    /\ UNCHANGED << locking, plan, system, isWriteable, rules, lost >>

DecideCd(d) ==
    /\ d \in CdDev /\ Goto(d, "decide", "write")
    /\ number' = [number EXCEPT ![d] = NextFree(Numbers(d, "cdrom"))]
    /\ todo' = [todo EXCEPT ![d] = CdRules(d)]
    /\ UNCHANGED << locking, file, system, isWriteable, rules, lost >>

WriteRule(d) ==
    /\ todo[d] # << >> /\ Goto(d, "write", "write")
    /\ file[d] = "tmp" => udevDir
    /\ rules' = rules \cup
          {[file |-> file[d], dev |-> d, link |-> Head(todo[d]), num |-> number[d]]}
    /\ todo' = [todo EXCEPT ![d] = Tail(@)]
    /\ UNCHANGED << locking, file, number, system, isWriteable, lost >>

\* The file system is full, or there is no /dev/.udev: sh -e exits at once.
WriteFails(d) ==
    /\ todo[d] # << >> /\ Goto(d, "write", "failed")
    /\ lost' = TRUE
    /\ UNCHANGED << locking, plan, system, isWriteable, rules >>

AllWritten(d) ==
    /\ todo[d] = << >> /\ Goto(d, "write", "unlock")
    /\ UNCHANGED << locking, plan, system, isWriteable, rules, lost >>

Unlock(d) ==
    /\ Goto(d, "unlock", "done")
    /\ lock' = IF held[d] THEN [lock EXCEPT ![Kind(d)] = FALSE] ELSE lock
    /\ held' = [held EXCEPT ![d] = FALSE]
    /\ UNCHANGED << retry, plan, system, isWriteable, rules, lost >>

Process(d) ==
    \/ NoLockDir(d) \/ Mkdir(d) \/ MkdirFails(d) \/ Probe(d) \/ Unprobe(d)
    \/ DecideNet(d) \/ NoMatch(d) \/ DecideCd(d)
    \/ WriteRule(d) \/ WriteFails(d) \/ AllWritten(d) \/ Unlock(d)

-----------------------------------------------------------------------------
(* The system around the processes.                                        *)

\* udev kills a process that takes too long.
Kill(d) ==
    /\ pc[d] \in Critical \cup {"lock"}
    /\ pc' = [pc EXCEPT ![d] = "failed"]
    /\ lost' = TRUE
    /\ UNCHANGED << locking, plan, system, isWriteable, rules >>

\* The boot scripts make the root file system writable.
Remount ==
    /\ ~rw /\ rw' = TRUE
    /\ UNCHANGED << pc, locking, plan, udevDir, boots, isWriteable, rules, lost >>

\* /dev is in memory; what is in /etc stays, the link too.
Reboot ==
    /\ boots < MaxBoots /\ boots' = boots + 1
    /\ pc' = [d \in Dev |-> "start"] /\ retry' = [d \in Dev |-> Retries]
    /\ held' = [d \in Dev |-> FALSE] /\ lock' = [k \in {"net", "cd"} |-> FALSE]
    /\ file' = [d \in Dev |-> "real"] /\ number' = [d \in Dev |-> 0]
    /\ todo' = [d \in Dev |-> << >>]
    /\ rw' = FALSE
    /\ rules' = {r \in rules : r.file = "real"}
    /\ lost' = FALSE
    /\ UNCHANGED << udevDir, isWriteable >>

Next == \/ \E d \in Dev : Event(d) \/ Process(d) \/ Kill(d)
        \/ Remount \/ Reboot

\* Every process that udev has started is scheduled.
Spec == Init /\ [][Next]_vars /\ \A d \in Dev : WF_vars(Process(d))

-----------------------------------------------------------------------------
Rule == [file : {"real", "tmp"}, dev : Dev, link : {"eth", "cdrom"} \cup Alias, num : Nat]

TypeOK ==
    /\ pc \in [Dev -> {"start", "lock"} \cup Critical \cup Ended]
    /\ retry \in [Dev -> 0 .. Retries]
    /\ held \in [Dev -> BOOLEAN]
    /\ file \in [Dev -> {"real", "tmp"}]
    /\ number \in [Dev -> Nat]
    /\ todo \in [Dev -> Seq({"eth", "cdrom"} \cup Alias)]
    /\ lock \in [{"net", "cd"} -> BOOLEAN]
    /\ udevDir \in BOOLEAN /\ rw \in BOOLEAN /\ isWriteable \in BOOLEAN
    /\ rules \subseteq Rule
    /\ boots \in Nat
    /\ lost \in BOOLEAN

Clash(r, s) ==
    /\ r.dev # s.dev /\ r.link = s.link /\ r.num = s.num
    /\ \A d \in {r.dev, s.dev} \cap NetDev : Custom[d] = NoName

\* Where /dev/.udev exists, only one process of a kind reads and writes rules.
OneWriter ==
    udevDir => \A d, e \in Dev :
        pc[d] \in Critical /\ pc[e] \in Critical /\ Kind(d) = Kind(e) => d = e

\* Where the lock works, no file of rules gives two devices one name, unless
\* an external tool asked for it: whatever processes were killed or could not
\* write all the rules of a drive, and over reboots.
NamesUnique ==
    udevDir => \A r, s \in rules : r.file = s.file => ~Clash(r, s)

\* The lock directory is there only while a process works under it, unless one
\* was killed or failed to write: every other way out removes it.
LockHasOwner ==
    ~lost => \A k \in {"net", "cd"} :
        lock[k] => \E d \in Dev : Kind(d) = k /\ pc[d] \in Critical

\* The devices' names in the file that survives a reboot.
RealName == [d \in Dev |-> {r.num : r \in {s \in rules : s.dev = d /\ s.file = "real"}}]

Registry == INSTANCE NameRegistry WITH
    Device <- Dev, KindOf <- [d \in Dev |-> Kind(d)], Asked <- {d \in NetDev : Custom[d] # NoName},
    name <- RealName, exclusive <- udevDir

\* Seen from outside, each device gets its name in one step and keeps it for
\* good: the several appends of a drive, the kills between them and reboots
\* never show another one.
NamesPersist == Registry!Spec

\* A process that udev started comes to an end, also behind a lock that no
\* one will ever give back.
ProcessEnds == \A d \in Dev : pc[d] = "lock" ~> pc[d] \in Ended \cup {"start"}

\* A helper takes a writable directory for read-only at most beside one of the
\* other kind, whose probe it has run into: the probe of one that was not killed
\* leaves nothing behind, and helpers of a kind never meet in it.
MissesOnlyBeside ==
    [][\A d \in Dev :
         pc[d] = "probe" /\ pc'[d] = "decide" /\ rw /\ ~lost /\ boots = 1 =>
            \E e \in Dev : pc[e] = "unprobe" /\ (udevDir => Kind(e) # Kind(d))]_vars

\* How far a process is.
Rank(p) ==
    CASE p = "start" -> 0 [] p = "lock" -> 1 [] p = "probe" -> 2 [] p = "unprobe" -> 3
      [] p = "decide" -> 4 [] p = "write" -> 5 [] p = "unlock" -> 6 [] OTHER -> 7

\* No step leads a process back, and neither loop goes on for ever: it has tries
\* left for the lock, and fewer rules to write after each.
HelpersGetOn ==
    [][\A d \in Dev : pc'[d] # "start" =>
         \/ UNCHANGED << pc[d], retry[d], todo[d] >>
         \/ Rank(pc'[d]) > Rank(pc[d])
         \/ pc[d] = "lock" /\ UNCHANGED pc[d] /\ retry'[d] < retry[d]
         \/ pc[d] = "write" /\ UNCHANGED pc[d] /\ Len(todo'[d]) < Len(todo[d])]_vars

\* "Return true if a directory is writeable."
WriteableIsRight ==
    [][udevDir => \A d \in Dev : pc[d] = "probe" /\ pc'[d] = "decide" => ~rw]_vars

\* "Both files should be checked later when looking for existing rules."
BothFilesChecked ==
    udevDir => \A r, s \in rules : ~Clash(r, s)
=============================================================================
