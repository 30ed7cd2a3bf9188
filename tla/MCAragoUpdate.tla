--------------------------- MODULE MCAragoUpdate ---------------------------
(* Instances of AragoUpdate for TLC.                                       *)
EXTENDS AragoUpdate, TLC

CONSTANTS r1, b1, p1, logo, telnetd, camera, udhcpcd

MCOn == [b \in {b1} |-> p1]
MCRcOrder == << camera, udhcpcd >>
MCRcOrderShort == << camera >>
MCRcKind == (camera :> "replace") @@ (udhcpcd :> "defaults")
MCRcKindShort == camera :> "replace"

Files(tgz, busy, hex) ==
    [f \in Payload |-> IF f = "update.tgz" THEN tgz
                       ELSE IF f = "busy.raw" THEN busy ELSE hex]

\* As released; without manifest, with a damaged archive; without manifest
\* and splash image, with damaged firmware; with a damaged archive the
\* manifest lists; and with an archive that was lost.
MCPackage ==
    { [manifest |-> Payload, file |-> Files("good", "good", "good")],
      [manifest |-> {}, file |-> Files("bad", "good", "missing")],
      [manifest |-> {}, file |-> Files("good", "missing", "bad")],
      [manifest |-> Payload, file |-> Files("bad", "good", "good")],
      [manifest |-> Payload, file |-> Files("missing", "good", "good")] }
=============================================================================
