------------------------------ MODULE MCPathId ------------------------------
(* A host with devices on every bus path_id knows, most of them in pairs    *)
(* that differ in one number only.                                          *)
EXTENDS PathId

P(kind, id) == [kind |-> kind, id |-> id]
Devices == << P("devices", << >>) >>
Pci(n) == Devices \o << P("pci", <<0>>), P("pcidev", <<n>>) >>
Platform(n) == Devices \o << P("platform", << >>), P("platdev", <<n>>) >>
Vio(n) == Devices \o << P("vio", << >>), P("viodev", <<n>>) >>

Disk(host, target) == << P("host", <<host>>), P("target", <<host, target>>), P("scsi", <<host, 0, target, 0>>) >>
UsbIf(n, port) == << P("usb", <<n>>), P("port", <<port>>), P("if", <<port, 0>>) >>
Fabric(host, kind, n) ==
    << P("host", <<host>>), P(kind, <<host, n>>), P("target", <<host, 0>>), P("scsi", <<host, 0, 0, 0>>) >>

MCTree ==
    { Pci(1) \o Disk(0, 0), Pci(1) \o Disk(0, 1), Pci(1) \o Disk(1, 0), Pci(2) \o Disk(2, 0),
      Pci(3) \o UsbIf(1, 1) \o Disk(3, 0), Pci(3) \o UsbIf(1, 2) \o Disk(4, 0), Platform(1) \o UsbIf(2, 1) \o Disk(5, 0),
      Platform(1) \o UsbIf(2, 2) \o << P("ttyUSB", <<0>>) >>, Platform(1) \o UsbIf(2, 2) \o << P("ttyUSB", <<1>>) >>,
      Pci(4) \o Fabric(6, "rport", 1), Pci(4) \o Fabric(6, "rport", 2), Pci(5) \o Fabric(7, "end_device", 1),
      Platform(2) \o Fabric(8, "session", 1), Platform(2) \o Fabric(8, "session", 2),
      Pci(6) \o << P("ide", <<0>>), P("idedev", <<0, 0>>) >>, Pci(6) \o << P("ide", <<1>>), P("idedev", <<1, 1>>) >>,
      Pci(7) \o << P("fw-host", <<0>>), P("node", <<1>>), P("scsi", <<9, 0, 0, 0>>) >>,
      Platform(3) \o << P("serio", <<0>>) >>, Platform(3) \o << P("serio", <<1>>) >>,
      Devices \o << P("css0", << >>), P("ccw", <<1>>) >>,
      Vio(1) \o Disk(10, 0), Vio(2) \o Disk(11, 0) }
=============================================================================
