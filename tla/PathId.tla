------------------------------- MODULE PathId -------------------------------
(***************************************************************************)
(* path_id: the hardware path of a device, ID_PATH, from the directory of  *)
(* the device in sysfs.  One loop looks at the directory D, takes the      *)
(* first case that fits any part of it, puts what identifies that part in  *)
(* front of d, and goes on above it.                                       *)
(*                                                                         *)
(* Two devices are looked at one after the other.  Each may be unplugged   *)
(* while the script is at it, which takes its directories away from some   *)
(* place down: cd then fails and the script stays where it was.  Or the    *)
(* same device is looked at in two boots, in the second of which hosts and *)
(* hubs have got other numbers.                                            *)
(*                                                                         *)
(* The choice of the directory to begin with, the names of cciss and tape  *)
(* devices and the digits of addresses are left out.                       *)
(***************************************************************************)
EXTENDS Naturals, Sequences, SequencesExt, FiniteSetsExt

CONSTANTS
    Tree,      \* the devices: their directories, part by part
    Shifts     \* what numbers of the second boot may be higher by

\* The parts the kernel numbers in the order it finds them.
Numbered == {"ide", "host", "usb"}

\* A part: "devices", a bus or a device, with the numbers of its name.  What is called
\* ide0, host0 or usb1 has a number; an IDE device is the master or the slave below
\* its controller, and what an FC or SAS host reaches is below that host.
Piece == [kind : STRING, id : Seq(Nat)]
ASSUME TreeAssumption ==
    \A v \in Tree :
        /\ v \in Seq(Piece) /\ Len(v) > 1 /\ v[1].kind = "devices"
        /\ \A i \in 1 .. Len(v) :
             /\ v[i].kind \in Numbered => v[i].id # << >>
             /\ v[i].kind = "idedev" =>
                  Len(v[i].id) = 2 /\ v[i].id[2] \in {0, 1} /\ \E j \in 1 .. i - 1 : v[j].kind = "ide"
             /\ v[i].kind \in {"rport", "end_device"} => \E j \in 1 .. i - 1 : v[j].kind = "host"
ASSUME ShiftAssumption == Shifts \subseteq Nat /\ 0 \in Shifts

VARIABLES
    dev,      \* the devices, the first and the second
    shift,    \* what the numbers of each kind are higher by in the second boot
    attr,     \* whether their attributes (address, identity, session) can be read
    who,      \* the device that is looked at
    there,    \* how many of its parts there are
    D, d,     \* of the script
    cwd,      \* its working directory, << >> for OPWD
    out       \* what has been printed for each, with where the walk ended

vars == << dev, shift, attr, who, there, D, d, cwd, out >>

given == << dev, shift, attr >>

NoPath == << >>
Nothing == [path |-> NoPath, why |-> "none"]

Init ==
    /\ dev \in Tree \X Tree /\ shift \in [Numbered -> IF dev[1] = dev[2] THEN Shifts ELSE {0}]
    /\ attr \in BOOLEAN \X BOOLEAN
    /\ who = 1 /\ there = Len(dev[1]) /\ D = dev[1] /\ d = NoPath /\ cwd = << >>
    /\ out = << Nothing, Nothing >>

-----------------------------------------------------------------------------
(* Directories.                                                            *)

Has(p, k) == \E i \in 1 .. Len(p) : p[i].kind = k
Inside(p, k) == \E i \in 1 .. Len(p) - 1 : p[i].kind = k     \* with something below it
Place(p, k) == CHOOSE i \in 1 .. Len(p) : p[i].kind = k /\ ~Has(SubSeq(p, 1, i - 1), k)
Above(p, k) == IF Has(p, k) THEN SubSeq(p, 1, Place(p, k) - 1) ELSE p
Part(p, k) == p[Place(p, k)]
LastId(p) == IF p = << >> THEN << >> ELSE Last(p).id

Exists(p) == Len(p) <= there
Reads == attr[who] /\ Exists(D)

Number(part) == part.id[1] + IF who = 2 THEN shift[part.kind] ELSE 0

\* get_port_offset: the lowest number at the controller or, when the script could
\* not change to it, the number n itself.
Offset(controller, k, n) ==
    LET Below(v) == v[Len(controller) + 1] IN
    IF ~Exists(controller) THEN n
    ELSE Min({Number(Below(v)) : v \in {w \in Tree : IsStrictPrefix(controller, w) /\ Below(w).kind = k}})

\* Fault: the number of the port is taken as it is.
Port_NoOffset(p, k) == Number(Part(p, k))
Port(p, k) == Number(Part(p, k)) - Offset(Above(p, k), k, Number(Part(p, k)))

\* The cases in their order; each looks for its names anywhere in D.
Cases == << "ide", "css0", "rport", "end_device", "fw-host", "session", "scsi",
            "ttyUSB", "usb", "pci", "serio", "platform", "devices", "other" >>
Fits(c, p) ==
    CASE c = "ide"      -> Has(p, "idedev")
      [] c \in {"css0", "rport", "end_device", "fw-host", "session", "platform"} -> Inside(p, c)
      [] c = "scsi"     -> Has(p, "host") /\ Has(p, "scsi")
      [] c = "usb"      -> Has(p, "usb") /\ Has(p, "port") /\ Inside(p, "port")
      [] c \in {"ttyUSB", "pci", "serio"} -> Has(p, c)
      [] c = "devices"  -> p # << >> /\ Last(p).kind = "devices"
      [] c = "other"    -> TRUE

-----------------------------------------------------------------------------
(* The end of a walk and the steps of one.                                 *)

Ended == who = 3

\* The script prints what it has in d; the other device is next.
Finish(path, why) ==
    /\ out' = [out EXCEPT ![who] = [path |-> path, why |-> IF there = Len(dev[who]) THEN why ELSE "unplugged"]]
    /\ who' = who + 1
    /\ there' = IF who = 1 THEN Len(dev[2]) ELSE 0
    /\ D' = IF who = 1 THEN dev[2] ELSE << >>
    /\ d' = NoPath /\ cwd' = << >>
    /\ UNCHANGED given

GoOn(path, above) ==
    /\ d' = path /\ D' = above
    /\ UNCHANGED << given, who, there, out >>

\* The case c is the first that fits.
Is(c) ==
    /\ ~Ended /\ Fits(c, D)
    /\ \E i \in 1 .. Len(Cases) : Cases[i] = c /\ \A j \in 1 .. i - 1 : ~Fits(Cases[j], D)

Ide ==
    /\ Is("ide") /\ UNCHANGED cwd
    /\ GoOn(<< <<"ide", << Port(D, "ide"), Part(D, "idedev").id[2] >> >> >> \o d, Above(D, "ide"))

\* A disk or an adapter of an S/390 is the end of the walk.
Css == Is("css0") /\ Finish(<< <<"ccw", LastId(D)>> >>, "top")

\* FC and SAS devices are always endpoints: what is in d is left out.
Endpoint(c, name) ==
    /\ Is(c)
    /\ IF Reads
         THEN GoOn(<< <<name, Part(D, c).id \o << Last(LastId(D)) >> >> >>, Above(D, "host")) /\ UNCHANGED cwd
         ELSE Finish(d, "unread")
Fc == Endpoint("rport", "fc")
Sas == Endpoint("end_device", "sas")

\* Without ieee1394_id D stays as it is.
Firewire ==
    /\ Is("fw-host") /\ UNCHANGED cwd
    /\ IF Reads THEN GoOn(<< <<"ieee1394", LastId(D)>> >>, Above(D, "fw-host")) ELSE GoOn(d, D)

\* Fault: D is not made empty after handle_iscsi, which does not change it.
Iscsi_GoesOn ==
    /\ Is("session") /\ UNCHANGED cwd
    /\ GoOn(IF Reads THEN << <<"ip", Part(D, "session").id \o << Last(LastId(D)) >> >> >> ELSE d, D)

Iscsi ==
    /\ Is("session")
    /\ IF Reads THEN Finish(<< <<"ip", Part(D, "session").id \o << Last(LastId(D)) >> >> >>, "top")
       ELSE Finish(d, "unread")

\* Fault: cil is what is behind the last colon, the LUN.
Scsi_Lun ==
    /\ Is("scsi") /\ UNCHANGED cwd
    /\ GoOn(<< <<"scsi", << Port(D, "host"), Last(LastId(D)) >> >> >> \o d, Above(D, "host"))

Scsi ==
    /\ Is("scsi") /\ UNCHANGED cwd
    /\ GoOn(<< <<"scsi", << Port(D, "host") >> \o Tail(LastId(D)) >> >> \o d, Above(D, "host"))

TtyUSB == Is("ttyUSB") /\ GoOn(d, Above(D, "ttyUSB")) /\ UNCHANGED cwd

\* Where nothing is left to count the arithmetic of the shell ends the script.  (It
\* has not stayed in a directory: what this case fits comes before handle_pci,
\* handle_platform and handle_serio, which do, on the way up from any device.)
Usb ==
    /\ Is("usb")
    /\ IF Exists(D)
         THEN GoOn(<< <<"usb", << Port(D, "usb") >> \o LastId(D)>> >> \o d, Above(D, "usb")) /\ cwd' = << >>
         ELSE Finish(NoPath, "none")

\* handle_pci, handle_platform and handle_serio, which stay in the directory.
Bus(c) ==
    /\ Is(c)
    /\ LET dir == IF Exists(D) THEN D ELSE cwd IN
         /\ cwd' = dir
         /\ GoOn(<< <<c, LastId(dir)>> >> \o d, Above(dir, c))

\* The top, and a part that no case knows: d is printed in both.
Top == Is("devices") /\ Finish(d, "top")
Other == Is("other") /\ Finish(d, "unknown")

Walk ==
    \/ Ide \/ Css \/ Fc \/ Sas \/ Firewire \/ Iscsi \/ Scsi \/ TtyUSB \/ Usb
    \/ \E c \in {"pci", "serio", "platform"} : Bus(c)
    \/ Top \/ Other

Unplug ==
    /\ ~Ended /\ there = Len(dev[who])
    /\ there' \in 1 .. there - 1
    /\ UNCHANGED << given, who, D, d, cwd, out >>

Next == Walk \/ Unplug

Spec == Init /\ [][Next]_vars /\ WF_vars(Walk)

-----------------------------------------------------------------------------
\* The variables have their types, and the script is never below its device.
TypeOK ==
    /\ dev \in Tree \X Tree /\ shift \in [Numbered -> Shifts] /\ attr \in BOOLEAN \X BOOLEAN
    /\ who \in 1 .. 3 /\ there \in Nat
    /\ ~Ended => IsPrefix(D, dev[who]) /\ IsPrefix(cwd, dev[who]) /\ there \in 1 .. Len(dev[who])
    /\ \A w \in 1 .. 2 : out[w].why \in {"none", "top", "unread", "unknown", "unplugged"}

\* A walk that came to an end of the script's own, and printed a path.
Named(w) == out[w].why \in {"top", "unread"} /\ out[w].path # NoPath

\* "provide the shortest possible unique hardware path to a device": two devices
\* that have a path have different ones, whatever buses they are on and whether or
\* not their addresses can be read.  (Ports of one serial adapter are the same
\* device to the script.)
PathsUnique ==
    dev[1] # dev[2] /\ Named(1) /\ Named(2) /\ ~(Has(dev[1], "ttyUSB") /\ Has(dev[2], "ttyUSB"))
        => out[1].path # out[2].path

\* "for the Linux Persistent Device Naming scheme": a device has the same path in a
\* boot in which the ports of its controllers begin with other numbers, each
\* controller's with one of its own.
PathsPersist ==
    dev[1] = dev[2] /\ out[1].why = "top" /\ out[2].why = "top" => out[1].path = out[2].path

\* Each turn of the loop takes a part of D away or is the last, also when the device
\* is unplugged and the script has stayed in a directory it has been to, so that a walk
\* has no more turns than the device has parts.
NearerEachStep ==
    [][Walk => Len(D') < Len(D) \/ who' = who + 1 \/ (Is("fw-host") /\ ~Reads)]_vars

\* The walk ends, though the device be unplugged in the middle of it.  (Only that of
\* a FireWire device does not, without its ieee1394_id or when it is unplugged.)
WalkEnds ==
    /\ \A w \in 1 .. 2 : Has(dev[w], "fw-host") => attr[w]
    /\ [](~Ended /\ Has(dev[who], "fw-host") => there = Len(dev[who]))
    => <>Ended
=============================================================================
