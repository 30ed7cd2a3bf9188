---------------------------- MODULE PathIdProofs ----------------------------
(***************************************************************************)
(* Whatever devices there are and however long their paths: the script is  *)
(* never below its device, each turn of its loop but the last brings it    *)
(* nearer to the top, and what it prints does not depend on the numbers    *)
(* hosts and hubs got in this boot.                                        *)
(***************************************************************************)
EXTENDS PathId, TLAPS, WellFoundedInduction

-----------------------------------------------------------------------------
(* Directories.                                                            *)

\* A set of numbers has a least one.
LEMMA Least ==
    ASSUME NEW nums \in SUBSET Nat, nums # {}
    PROVE  \E n \in nums : \A m \in nums : n <= m
<1> DEFINE R == {p \in Nat \X Nat : p[1] < p[2]}
<1>1. IsWellFoundedOn(R, Nat)
    BY NatLessThanWellFounded DEF OpToRel
<1>2. PICK n \in nums : \A m \in nums : ~(<< m, n >> \in R)
  <2> HIDE DEF R
  <2> QED BY <1>1, WFMin
<1>3. \A m \in nums : ~(m < n)
    BY <1>2
<1> QED BY <1>3

LEMMA PrefixIs ==
    ASSUME NEW p \in Seq(Piece), NEW v \in Seq(Piece)
    PROVE  IsPrefix(p, v) <=> Len(p) <= Len(v) /\ \A i \in 1 .. Len(p) : p[i] = v[i]
<1>1. ASSUME Len(p) <= Len(v) PROVE SubSeq(v, 1, Len(p)) \in Seq(Piece) /\ Len(SubSeq(v, 1, Len(p))) = Len(p)
                                    /\ \A i \in 1 .. Len(p) : SubSeq(v, 1, Len(p))[i] = v[i]
    BY <1>1
<1>2. SubSeq(p, 1, Len(p)) = p
    OBVIOUS
<1> QED BY <1>1, <1>2 DEF IsPrefix

LEMMA Ends ==
    ASSUME NEW v \in Seq(Piece)
    PROVE  << >> \in Seq(Piece) /\ IsPrefix(<< >>, v) /\ IsPrefix(v, v)
<1>1. << >> \in Seq(Piece) /\ Len(<< >>) = 0 /\ 0 <= Len(v)
    OBVIOUS
<1>2. \A i \in 1 .. 0 : FALSE
    OBVIOUS
<1>3. IsPrefix(<< >>, v)
    BY <1>1, <1>2, PrefixIs
<1> QED BY <1>1, <1>3, PrefixIs

\* Place is where the first part of the kind is.
LEMMA PlaceIs ==
    ASSUME NEW p \in Seq(Piece), NEW k, Has(p, k)
    PROVE  /\ Place(p, k) \in 1 .. Len(p) /\ p[Place(p, k)].kind = k
           /\ \A j \in 1 .. Place(p, k) - 1 : p[j].kind # k
<1> DEFINE nums == {i \in 1 .. Len(p) : p[i].kind = k}
<1>1. PICK n \in nums : \A m \in nums : n <= m
  <2>1. nums \in SUBSET Nat /\ nums # {}
      BY DEF Has
  <2> HIDE DEF nums
  <2> QED BY <2>1, Least
<1>2. ~Has(SubSeq(p, 1, n - 1), k)
  <2>1. Len(SubSeq(p, 1, n - 1)) = n - 1 /\ \A i \in 1 .. n - 1 : SubSeq(p, 1, n - 1)[i] = p[i]
      OBVIOUS
  <2>2. \A i \in 1 .. n - 1 : p[i].kind # k
      BY <1>1
  <2> QED BY <2>1, <2>2 DEF Has
<1>3. Place(p, k) \in 1 .. Len(p) /\ p[Place(p, k)].kind = k /\ ~Has(SubSeq(p, 1, Place(p, k) - 1), k)
    BY <1>1, <1>2 DEF Place
<1>4. \A j \in 1 .. Place(p, k) - 1 : p[j].kind # k
  <2> DEFINE at == Place(p, k)
  <2>1. Len(SubSeq(p, 1, at - 1)) = at - 1 /\ \A i \in 1 .. at - 1 : SubSeq(p, 1, at - 1)[i] = p[i]
      BY <1>3
  <2> QED BY <1>3, <2>1 DEF Has
<1> QED BY <1>3, <1>4

\* What is above a part of a directory is a directory it is in.
LEMMA AboveIs ==
    ASSUME NEW p \in Seq(Piece), NEW v \in Seq(Piece), IsPrefix(p, v), NEW k
    PROVE  /\ Above(p, k) \in Seq(Piece) /\ IsPrefix(Above(p, k), v)
           /\ Has(p, k) => Len(Above(p, k)) = Place(p, k) - 1
<1>1. CASE ~Has(p, k)
    BY <1>1 DEF Above
<1>2. CASE Has(p, k)
  <2> DEFINE n == Place(p, k) - 1
  <2>1. n \in 0 .. Len(p) - 1 /\ Above(p, k) = SubSeq(p, 1, n)
      BY <1>2, PlaceIs DEF Above
  <2>2. SubSeq(p, 1, n) \in Seq(Piece) /\ Len(SubSeq(p, 1, n)) = n
        /\ \A i \in 1 .. n : SubSeq(p, 1, n)[i] = p[i]
      BY <2>1
  <2>3. Len(p) <= Len(v) /\ \A i \in 1 .. Len(p) : p[i] = v[i]
      BY PrefixIs
  <2> HIDE DEF n
  <2>4. n <= Len(v) /\ \A i \in 1 .. n : SubSeq(p, 1, n)[i] = v[i]
      BY <2>1, <2>2, <2>3
  <2>5. IsPrefix(SubSeq(p, 1, n), v)
      BY <2>2, <2>4, PrefixIs
  <2> QED BY <2>1, <2>2, <2>5 DEF n
<1> QED BY <1>1, <1>2

\* To cut at the first part of a kind takes something away, no less than in a directory
\* further down.
LEMMA AboveShortens ==
    ASSUME NEW p \in Seq(Piece), NEW v \in Seq(Piece), IsPrefix(p, v), NEW k, Has(p, k)
    PROVE  Len(Above(p, k)) < Len(p) /\ Len(Above(v, k)) < Len(p)
<1>1. Len(p) <= Len(v) /\ \A i \in 1 .. Len(p) : p[i] = v[i]
    BY PrefixIs
<1>2. Has(v, k) /\ Len(p) \in Nat /\ Len(v) \in Nat
    BY <1>1 DEF Has
<1>3. Place(p, k) \in 1 .. Len(p) /\ v[Place(p, k)].kind = k
    BY <1>1, PlaceIs
<1>4. Place(v, k) \in 1 .. Len(v) /\ \A j \in 1 .. Place(v, k) - 1 : v[j].kind # k
    BY <1>2, PlaceIs
<1>5. Place(v, k) <= Place(p, k)
    BY <1>1, <1>3, <1>4
<1>6. IsPrefix(v, v)
    BY Ends
<1>7. Len(Above(p, k)) = Place(p, k) - 1 /\ Len(Above(v, k)) = Place(v, k) - 1
    BY <1>2, <1>6, AboveIs
<1> QED BY <1>2, <1>3, <1>4, <1>5, <1>7

-----------------------------------------------------------------------------
(* Steps.                                                                  *)

Types == TypeOK /\ DOMAIN out = 1 .. 2 /\ D \in Seq(Piece) /\ cwd \in Seq(Piece)

\* The device that is looked at.
LEMMA Device ==
    ASSUME Types, ~Ended
    PROVE  who \in 1 .. 2 /\ dev[who] \in Tree /\ dev[who] \in Seq(Piece) /\ Len(dev[who]) > 1
BY TreeAssumption DEF Types, TypeOK, Ended

\* The cases in which the walk goes on, and the part D is cut at.
Going == {"ide", "rport", "end_device", "fw-host", "scsi", "ttyUSB", "usb", "pci", "serio", "platform"}
Cut(c) == IF c \in {"rport", "end_device", "scsi"} THEN "host" ELSE c
Upper(c, p) == Above(p, Cut(c))
Why == {"none", "top", "unread", "unknown"}

LEMMA CutIsThere ==
    ASSUME Types, ~Ended
    PROVE  \A c \in Going : Fits(c, D) => Has(D, Cut(c))
<1>1. dev[who] \in Tree /\ dev[who] \in Seq(Piece) /\ Len(D) <= Len(dev[who])
      /\ Len(D) \in Nat /\ \A i \in 1 .. Len(D) : D[i] = dev[who][i]
    BY Device, PrefixIs DEF Types, TypeOK
<1>2. ASSUME NEW k \in {"idedev", "rport", "end_device"}, Has(D, k)
      PROVE  Has(D, IF k = "idedev" THEN "ide" ELSE "host")
  <2>1. PICK i \in 1 .. Len(D) : D[i].kind = k
      BY <1>2 DEF Has
  <2>2. PICK j \in 1 .. i - 1 : dev[who][j].kind = IF k = "idedev" THEN "ide" ELSE "host"
      BY <1>1, <2>1, TreeAssumption
  <2> QED BY <1>1, <2>1, <2>2 DEF Has
<1>3. \A k : Inside(D, k) => Has(D, k)
    BY <1>1 DEF Inside, Has
<1>4. Fits("ide", D) => Has(D, "ide")
    BY <1>2 DEF Fits
<1>5. \A c \in {"rport", "end_device"} : Fits(c, D) => Has(D, "host")
    BY <1>2, <1>3 DEF Fits
<1>6. Fits("scsi", D) => Has(D, "host")
    BY DEF Fits
<1>7. Fits("usb", D) => Has(D, "usb")
    BY DEF Fits
<1>8. \A c \in {"fw-host", "platform"} : Fits(c, D) => Has(D, c)
    BY <1>3 DEF Fits
<1>9. \A c \in {"ttyUSB", "pci", "serio"} : Fits(c, D) => Has(D, c)
    BY DEF Fits
<1> QED BY <1>4, <1>5, <1>6, <1>7, <1>8, <1>9 DEF Going, Cut

\* What a step of the script is: it goes on above D, or above the directory it has
\* stayed in; it waits for an ieee1394_id; or it ends the walk.
LEMMA Steps ==
    ASSUME Walk
    PROVE  /\ ~Ended
           /\ \/ \E c \in Going : \E path : Is(c) /\ GoOn(path, Upper(c, D)) /\ cwd' \in {cwd, D, << >>}
              \/ \E c \in {"pci", "serio", "platform"} : \E path :
                   Is(c) /\ ~Exists(D) /\ GoOn(path, Above(cwd, c)) /\ UNCHANGED cwd
              \/ Is("fw-host") /\ ~Reads /\ GoOn(d, D) /\ UNCHANGED cwd
              \/ \E why \in Why : \E path : Finish(path, why)
<1> DEFINE Goal ==
             /\ ~Ended
             /\ \/ \E c \in Going : \E path : Is(c) /\ GoOn(path, Upper(c, D)) /\ cwd' \in {cwd, D, << >>}
                \/ \E c \in {"pci", "serio", "platform"} : \E path :
                     Is(c) /\ ~Exists(D) /\ GoOn(path, Above(cwd, c)) /\ UNCHANGED cwd
                \/ Is("fw-host") /\ ~Reads /\ GoOn(d, D) /\ UNCHANGED cwd
                \/ \E why \in Why : \E path : Finish(path, why)
<1> SUFFICES Goal
    OBVIOUS
<1>1. ASSUME NEW c \in Going, NEW path, Is(c), GoOn(path, Above(D, Cut(c))), cwd' \in {cwd, D, << >>}
      PROVE  Goal
    BY <1>1 DEF Is, Upper
<1>2. ASSUME NEW c, NEW path, NEW why \in Why, Is(c), Finish(path, why) PROVE Goal
    BY <1>2 DEF Is
<1>3. ASSUME Is("fw-host"), ~Reads, GoOn(d, D), UNCHANGED cwd PROVE Goal
    BY <1>3 DEF Is
<1>4. ASSUME NEW c \in {"pci", "serio", "platform"}, NEW path, Is(c), ~Exists(D), GoOn(path, Above(cwd, c)),
             UNCHANGED cwd
      PROVE  Goal
    BY <1>4 DEF Is
<1> HIDE DEF Goal
<1>5. CASE Ide \/ TtyUSB \/ Usb
    BY <1>1, <1>2, <1>5 DEF Ide, TtyUSB, Usb, Going, Cut, Why
<1>6. CASE Fc \/ Sas
    BY <1>1, <1>2, <1>6 DEF Fc, Sas, Endpoint, Going, Cut, Why
<1>7. CASE Scsi
    BY <1>1, <1>7 DEF Scsi, Going, Cut
<1>8. CASE Firewire
    BY <1>1, <1>3, <1>8 DEF Firewire, Going, Cut
<1>9. CASE Css \/ Iscsi \/ Top \/ Other
    BY <1>2, <1>9 DEF Css, Iscsi, Top, Other, Why
<1>10. ASSUME NEW c \in {"pci", "serio", "platform"}, Bus(c) PROVE Goal
    BY <1>1, <1>4, <1>10 DEF Bus, Going, Cut
<1> QED BY <1>5, <1>6, <1>7, <1>8, <1>9, <1>10 DEF Walk

-----------------------------------------------------------------------------
(* Types.                                                                  *)

LEMMA FinishTypes ==
    ASSUME Types, ~Ended, NEW path, NEW why \in Why, Finish(path, why)
    PROVE  Types'
<1>1. dev \in Tree \X Tree /\ dev' = dev /\ dev[2] \in Tree /\ who \in 1 .. 2 /\ who' = who + 1
    BY Device DEF Finish, given, Types, TypeOK
<1>2. dev[2] \in Seq(Piece) /\ Len(dev[2]) > 1 /\ Len(dev[2]) \in Nat
    BY <1>1, TreeAssumption
<1>3. << >> \in Seq(Piece) /\ IsPrefix(<< >>, dev[2]) /\ IsPrefix(dev[2], dev[2])
    BY <1>2, Ends
<1>4. D' \in Seq(Piece) /\ cwd' \in Seq(Piece) /\ there' \in Nat
      /\ (~Ended' => IsPrefix(D', dev'[who']) /\ IsPrefix(cwd', dev'[who']) /\ there' \in 1 .. Len(dev'[who']))
  <2>1. CASE who = 1
      BY <2>1, <1>1, <1>2, <1>3 DEF Finish, given
  <2>2. CASE who = 2
      BY <2>2, <1>1, <1>3 DEF Finish, Ended
  <2> QED BY <2>1, <2>2, <1>1
<1>5. DOMAIN out' = 1 .. 2 /\ \A w \in 1 .. 2 : out'[w].why \in {"none", "top", "unread", "unknown", "unplugged"}
    BY <1>1 DEF Finish, Types, TypeOK, Why
<1>6. shift' \in [Numbered -> Shifts] /\ attr' \in BOOLEAN \X BOOLEAN /\ who' \in 1 .. 3
    BY <1>1 DEF Finish, Types, TypeOK, given
<1> QED BY <1>1, <1>4, <1>5, <1>6 DEF Types, TypeOK

\* The directories the script goes to are above its device.
LEMMA GoOnTypes ==
    ASSUME Types, ~Ended, NEW path, NEW above \in Seq(Piece), IsPrefix(above, dev[who]), GoOn(path, above),
           cwd' \in {cwd, D, << >>}
    PROVE  Types'
<1>1. << >> \in Seq(Piece) /\ IsPrefix(<< >>, dev[who])
    BY Device, Ends
<1>2. UNCHANGED << dev, shift, attr, who, there, out >> /\ D' = above
    BY DEF GoOn, given
<1>3. cwd' \in Seq(Piece) /\ IsPrefix(cwd', dev[who])
    BY <1>1 DEF Types, TypeOK
<1> QED BY <1>2, <1>3 DEF Types, TypeOK, Ended

LEMMA TypesNext == Types /\ [Next]_vars => Types'
<1> SUFFICES ASSUME Types, [Next]_vars PROVE Types'
    OBVIOUS
<1>1. CASE Walk
  <2>1. ~Ended /\ dev[who] \in Seq(Piece) /\ IsPrefix(D, dev[who]) /\ IsPrefix(cwd, dev[who])
      BY <1>1, Steps, Device DEF Types, TypeOK
  <2>2. ASSUME NEW p \in {D, cwd}, NEW k, NEW path, GoOn(path, Above(p, k)), cwd' \in {cwd, D, << >>}
        PROVE  Types'
    <3>1. Above(p, k) \in Seq(Piece) /\ IsPrefix(Above(p, k), dev[who])
        BY <2>1, AboveIs DEF Types
    <3> QED BY <2>1, <2>2, <3>1, GoOnTypes
  <2>3. CASE \E c \in Going : \E path : GoOn(path, Upper(c, D)) /\ cwd' \in {cwd, D, << >>}
      BY <2>2, <2>3 DEF Upper
  <2>4. CASE \E c, path : GoOn(path, Above(cwd, c)) /\ UNCHANGED cwd
      BY <2>2, <2>4
  <2>5. CASE GoOn(d, D) /\ UNCHANGED cwd
      BY <2>1, <2>5, GoOnTypes DEF Types
  <2>6. CASE \E why \in Why : \E path : Finish(path, why)
      BY <2>1, <2>6, FinishTypes
  <2> QED BY <1>1, <2>3, <2>4, <2>5, <2>6, Steps
<1>2. CASE Unplug
  <2>1. there' \in 1 .. Len(dev[who])
      BY <1>2, Device DEF Unplug
  <2> QED BY <1>2, <2>1 DEF Unplug, given, Types, TypeOK, Ended
<1>3. CASE UNCHANGED vars
    BY <1>3 DEF vars, Types, TypeOK, Ended
<1> QED BY <1>1, <1>2, <1>3 DEF Next

LEMMA TypesInit == Init => Types
<1> SUFFICES ASSUME Init PROVE Types
    OBVIOUS
<1>1. dev[1] \in Tree /\ dev[1] \in Seq(Piece) /\ Len(dev[1]) > 1 /\ Len(dev[1]) \in Nat
    BY TreeAssumption DEF Init
<1>2. << >> \in Seq(Piece) /\ IsPrefix(<< >>, dev[1]) /\ IsPrefix(dev[1], dev[1])
    BY <1>1, Ends
<1>3. shift \in [Numbered -> Shifts]
    BY ShiftAssumption DEF Init
<1> QED BY <1>1, <1>2, <1>3 DEF Init, Types, TypeOK, Nothing, Ended

\* The variables have their types, and the script is never below its device.
THEOREM TypeCorrect == Spec => []TypeOK
<1>1. Types => TypeOK
    BY DEF Types
<1> QED BY <1>1, TypesInit, TypesNext, PTL DEF Spec

-----------------------------------------------------------------------------
(* The end of a walk.                                                      *)

\* The directory the script has stayed in is not above D.
Stayed == cwd # << >> => IsPrefix(D, cwd)

LEMMA StayedNext == Types /\ Stayed /\ [Next]_vars => Stayed'
<1> SUFFICES ASSUME Types, Stayed, [Next]_vars PROVE Stayed'
    OBVIOUS
<1>1. IsPrefix(D, D) /\ IsPrefix(cwd, cwd)
    BY Ends DEF Types
<1>2. CASE Walk
  <2>1. ASSUME NEW c, NEW path, GoOn(path, Upper(c, D)), cwd' \in {cwd, D, << >>} PROVE Stayed'
    <3>1. D' = Above(D, Cut(c)) /\ D \in Seq(Piece) /\ cwd \in Seq(Piece)
        BY <2>1 DEF GoOn, Upper, Types
    <3>2. CASE cwd' = D
        BY <1>1, <3>1, <3>2, AboveIs DEF Stayed
    <3>3. CASE cwd' = cwd
        BY <3>1, <3>3, AboveIs DEF Stayed
    <3> QED BY <2>1, <3>2, <3>3 DEF Stayed
  <2>2. ASSUME NEW c, NEW path, GoOn(path, Above(cwd, c)), UNCHANGED cwd PROVE Stayed'
    <3>1. IsPrefix(Above(cwd, c), cwd)
        BY <1>1, AboveIs DEF Types
    <3> QED BY <2>2, <3>1 DEF GoOn, Stayed
  <2>3. CASE GoOn(d, D) /\ UNCHANGED cwd
      BY <2>3 DEF GoOn, Stayed
  <2>4. CASE \E why \in Why : \E path : Finish(path, why)
      BY <2>4 DEF Finish, Stayed
  <2> QED BY <1>2, <2>1, <2>2, <2>3, <2>4, Steps
<1>3. CASE Unplug \/ UNCHANGED vars
    BY <1>3 DEF Unplug, vars, Stayed
<1> QED BY <1>2, <1>3 DEF Next

\* For every tree, and wherever the device is unplugged, D gets shorter with each turn
\* of the loop but the last: a walk has no more turns than the device has parts.
THEOREM WalksGetNearer == Spec => NearerEachStep
<1>1. Types /\ Stayed /\ [Next]_vars =>
        [Walk => Len(D') < Len(D) \/ who' = who + 1 \/ (Is("fw-host") /\ ~Reads)]_vars
  <2> SUFFICES ASSUME Types, Stayed, Walk
               PROVE  Len(D') < Len(D) \/ who' = who + 1 \/ (Is("fw-host") /\ ~Reads)
      OBVIOUS
  <2>1. ~Ended /\ D \in Seq(Piece) /\ cwd \in Seq(Piece) /\ IsPrefix(D, D)
      BY Steps, Ends DEF Types
  <2>2. \A c \in Going : Is(c) => Has(D, Cut(c))
      BY <2>1, CutIsThere DEF Is
  <2>3. ASSUME NEW c \in Going, Is(c), D' = Upper(c, D) PROVE Len(D') < Len(D)
      BY <2>1, <2>2, <2>3, AboveShortens DEF Upper
  <2>4. ASSUME NEW c \in {"pci", "serio", "platform"}, Is(c), D' = Above(cwd, c) PROVE Len(D') < Len(D)
    <3>1. Has(D, c)
        BY <2>2, <2>4 DEF Going, Cut
    <3>2. CASE cwd = << >>
        BY <2>1, <2>4, <3>1, <3>2 DEF Above, Has
    <3>3. CASE cwd # << >>
        BY <2>1, <2>4, <3>1, <3>3, AboveShortens DEF Stayed
    <3> QED BY <3>2, <3>3
  <2> QED BY <2>3, <2>4, Steps DEF GoOn, Finish
<1>2. Init => Stayed
    BY DEF Init, Stayed
<1> QED BY <1>1, <1>2, TypesInit, TypesNext, StayedNext, PTL DEF Spec, NearerEachStep

-----------------------------------------------------------------------------
(* Ports.                                                                  *)

\* Numbers that are all higher by s have a least one that is.
LEMMA MinShift ==
    ASSUME NEW nums \in SUBSET Nat, nums # {}, NEW s \in Nat
    PROVE  Min(nums) \in Nat /\ Min({n + s : n \in nums}) = Min(nums) + s
<1>1. PICK least \in nums : \A m \in nums : least <= m
    BY Least
<1>2. Min(nums) = least
  <2>1. \A x \in nums : (\A y \in nums : x =< y) => x = least
      BY <1>1
  <2> QED BY <1>1, <2>1 DEF Min
<1>3. Min({n + s : n \in nums}) = least + s
  <2> DEFINE higher == {n + s : n \in nums}
  <2>1. least + s \in higher /\ \A y \in higher : least + s =< y
      BY <1>1
  <2>2. \A x \in higher : (\A y \in higher : x =< y) => x = least + s
    <3>1. \A x \in higher : x \in Nat
        OBVIOUS
    <3> HIDE DEF higher
    <3> QED BY <2>1, <3>1
  <2> HIDE DEF higher
  <2>3. Min(higher) = least + s
      BY <2>1, <2>2 DEF Min
  <2> QED BY <2>3 DEF higher
<1> QED BY <1>1, <1>2, <1>3

\* The devices of the kind at a controller, and the number of a port among them, with
\* what the kernel numbered it as in the first boot.
Ports(controller, k) == {w \in Tree : IsStrictPrefix(controller, w) /\ w[Len(controller) + 1].kind = k}
PortOf(p, k) ==
    Part(p, k).id[1] - Min({w[Len(Above(p, k)) + 1].id[1] : w \in Ports(Above(p, k), k)})

\* As long as the controller is there, the port of a device is the same in both boots.
LEMMA PortIs ==
    ASSUME shift \in [Numbered -> Shifts], NEW v \in Tree, NEW p \in Seq(Piece), IsPrefix(p, v),
           NEW k \in {"ide", "host", "usb"}, Has(p, k), Exists(Above(p, k))
    PROVE  Port(p, k) = PortOf(p, k)
<1> DEFINE controller == Above(p, k)
           at == Len(controller) + 1
           s == IF who = 2 THEN shift[k] ELSE 0
           nums == {w[at].id[1] : w \in Ports(controller, k)}
<1>1. v \in Seq(Piece) /\ controller \in Seq(Piece) /\ IsPrefix(controller, v)
      /\ at = Place(p, k) /\ at \in 1 .. Len(p) /\ p[at].kind = k
    BY TreeAssumption, AboveIs, PlaceIs
<1>2. s \in Nat
    BY ShiftAssumption DEF Numbered
<1>3. \A w \in Ports(controller, k) : w[at].id[1] \in Nat
  <2> SUFFICES ASSUME NEW w \in Ports(controller, k) PROVE w[at].id[1] \in Nat
      OBVIOUS
  <2>1. w \in Tree /\ w \in Seq(Piece) /\ IsPrefix(controller, w) /\ controller # w /\ w[at].kind = k
      BY TreeAssumption DEF Ports, IsStrictPrefix
  <2>2. Len(controller) <= Len(w) /\ \A i \in 1 .. Len(controller) : controller[i] = w[i]
      BY <1>1, <2>1, PrefixIs
  <2>3. Len(controller) # Len(w)
      BY <1>1, <2>1, <2>2
  <2>4. at \in 1 .. Len(w)
      BY <1>1, <2>1, <2>2, <2>3
  <2>5. w[at] \in Piece /\ w[at].id # << >>
      BY <2>1, <2>4, TreeAssumption DEF Numbered
  <2> QED BY <2>5 DEF Piece
<1>4. nums \in SUBSET Nat
    BY <1>3
<1>5. v \in Ports(controller, k) /\ p[at] = v[at]
  <2>1. Len(p) <= Len(v) /\ p[at] = v[at]
      BY <1>1, PrefixIs
  <2>2. controller # v
      BY <1>1, <2>1
  <2> QED BY <1>1, <2>1, <2>2 DEF Ports, IsStrictPrefix
<1>6. nums # {} /\ p[at].id[1] \in Nat
    BY <1>3, <1>5
<1>7. {Number(w[at]) : w \in Ports(controller, k)} = {n + s : n \in nums}
    BY DEF Number, Ports
<1>8. Offset(controller, k, Number(Part(p, k))) = Min({n + s : n \in nums})
    BY <1>7 DEF Offset, Ports
<1>9. Number(Part(p, k)) = p[at].id[1] + s
    BY <1>1 DEF Number, Part
<1>10. Min(nums) \in Nat /\ Min({n + s : n \in nums}) = Min(nums) + s
  <2> HIDE DEF nums, s
  <2> QED BY <1>2, <1>4, <1>6, MinShift
<1>11. PortOf(p, k) = p[at].id[1] - Min(nums)
    BY <1>1 DEF PortOf, Part
<1>12. Port(p, k) = (p[at].id[1] + s) - (Min(nums) + s)
    BY <1>8, <1>9, <1>10 DEF Port
<1> HIDE DEF nums, s, at
<1> QED BY <1>2, <1>6, <1>10, <1>11, <1>12

-----------------------------------------------------------------------------
(* Walks.  Where the script goes from a directory and a path, as long as   *)
(* the device is there, says nothing of the boot.                          *)

\* The case c is the first that fits the directory p.
First(c, p) ==
    Fits(c, p) /\ \E i \in 1 .. Len(Cases) : Cases[i] = c /\ \A j \in 1 .. i - 1 : ~Fits(Cases[j], p)

Longer(c, p, path) ==
    CASE c = "ide"        -> << <<c, << PortOf(p, c), Part(p, "idedev").id[2] >> >> >> \o path
      [] c = "rport"      -> << <<"fc", Part(p, c).id \o << Last(LastId(p)) >> >> >>
      [] c = "end_device" -> << <<"sas", Part(p, c).id \o << Last(LastId(p)) >> >> >>
      [] c = "fw-host"    -> << <<"ieee1394", LastId(p)>> >>
      [] c = "scsi"       -> << <<c, << PortOf(p, "host") >> \o Tail(LastId(p)) >> >> \o path
      [] c = "ttyUSB"     -> path
      [] c = "usb"        -> << <<c, << PortOf(p, c) >> \o LastId(p)>> >> \o path
      [] c \in {"pci", "serio", "platform"} -> << <<c, LastId(p)>> >> \o path

\* From x, a directory and a path, the script goes to y.
Succ(x, y) == \E c \in Going : First(c, x[1]) /\ y = << Upper(c, x[1]), Longer(c, x[1], x[2]) >>

\* At x the walk comes to its end, and the path is printed.
Final(x, path) ==
    \/ First("css0", x[1]) /\ path = << <<"ccw", LastId(x[1])>> >>
    \/ First("session", x[1]) /\ path = << <<"ip", Part(x[1], "session").id \o << Last(LastId(x[1])) >> >> >>
    \/ First("devices", x[1]) /\ path = x[2]

LEMMA OneFirst ==
    ASSUME NEW p, NEW c, NEW e, First(c, p), First(e, p)
    PROVE  c = e
<1>1. PICK i \in 1 .. Len(Cases) : Cases[i] = c /\ \A j \in 1 .. i - 1 : ~Fits(Cases[j], p)
    BY DEF First
<1>2. PICK k \in 1 .. Len(Cases) : Cases[k] = e /\ \A j \in 1 .. k - 1 : ~Fits(Cases[j], p)
    BY DEF First
<1>3. Fits(Cases[i], p) /\ Fits(Cases[k], p)
    BY <1>1, <1>2 DEF First
<1>4. Len(Cases) \in Nat
    BY DEF Cases
<1> QED BY <1>1, <1>2, <1>3, <1>4

\* There is one way to go from x, or one path to print.
LEMMA OneWay ==
    ASSUME NEW x
    PROVE  /\ \A y, z : Succ(x, y) /\ Succ(x, z) => y = z
           /\ \A a, b : Final(x, a) /\ Final(x, b) => a = b
           /\ \A y, a : ~(Succ(x, y) /\ Final(x, a))
<1>1. ASSUME NEW y, NEW z, Succ(x, y), Succ(x, z) PROVE y = z
    BY <1>1, OneFirst DEF Succ
<1>2. ASSUME NEW a, NEW b, Final(x, a), Final(x, b) PROVE a = b
  <2>1. \A c, e \in {"css0", "session", "devices"} : First(c, x[1]) /\ First(e, x[1]) => c = e
      BY OneFirst
  <2> QED BY <1>2, <2>1 DEF Final
<1>3. ASSUME NEW y, NEW a, Succ(x, y), Final(x, a) PROVE FALSE
  <2>1. PICK c \in Going : First(c, x[1])
      BY <1>3 DEF Succ
  <2>2. PICK e \in {"css0", "session", "devices"} : First(e, x[1])
      BY <1>3 DEF Final
  <2>3. c = e
      BY <2>1, <2>2, OneFirst
  <2> QED BY <2>3 DEF Going
<1> QED BY <1>1, <1>2, <1>3

LEMMA IsFirst == ASSUME NEW c, Is(c) PROVE ~Ended /\ First(c, D)
BY DEF Is, First

\* The device is there, and so are the directories above it.
LEMMA AllThere ==
    ASSUME Types, ~Ended, there = Len(dev[who])
    PROVE  /\ Exists(D)
           /\ \A k \in {"ide", "host", "usb"} : Has(D, k) => Port(D, k) = PortOf(D, k)
<1>1. dev[who] \in Tree /\ dev[who] \in Seq(Piece) /\ D \in Seq(Piece) /\ IsPrefix(D, dev[who])
      /\ shift \in [Numbered -> Shifts]
    BY Device DEF Types, TypeOK
<1>2. \A p \in Seq(Piece) : IsPrefix(p, dev[who]) => Exists(p)
    BY <1>1, PrefixIs DEF Exists
<1>3. \A k : Exists(Above(D, k))
    BY <1>1, <1>2, AboveIs
<1> QED BY <1>1, <1>2, <1>3, PortIs

Here == << D, d >>

\* A step of the script leaves it where it is, takes it from where it is to what
\* follows, or ends the walk; "top" is the end of a walk that is final.
LEMMA Walked ==
    ASSUME Types, Walk
    PROVE  /\ ~Ended
           /\ \/ /\ UNCHANGED << given, who, there, out >>
                 /\ there = Len(dev[who]) => UNCHANGED Here \/ Succ(Here, Here')
              \/ \E path, why : Finish(path, why) /\ (why = "top" => Final(Here, path))
<1> DEFINE Stays == UNCHANGED << given, who, there, out >>
           Goes == there = Len(dev[who]) => UNCHANGED Here \/ Succ(Here, Here')
           Stops == \E path, why : Finish(path, why) /\ (why = "top" => Final(Here, path))
<1>1. ASSUME NEW c \in Going, Is(c), NEW path, GoOn(path, Upper(c, D)),
             there = Len(dev[who]) => path = Longer(c, D, d)
      PROVE  ~Ended /\ Stays /\ Goes
    BY <1>1, IsFirst DEF GoOn, Succ, Here
<1>2. CASE Ide
  <2>1. Is("ide")
      BY <1>2 DEF Ide
  <2>2. there = Len(dev[who]) => Port(D, "ide") = PortOf(D, "ide")
      BY <2>1, AllThere, CutIsThere DEF Is, Going, Cut
  <2> QED BY <1>1, <1>2, <2>1, <2>2 DEF Ide, Going, Upper, Cut, Longer
<1>3. CASE Css
    BY <1>3, IsFirst DEF Css, Final, Here
<1>4. CASE Fc
  <2>1. Is("rport")
      BY <1>4 DEF Fc, Endpoint
  <2> QED BY <1>1, <1>4, <2>1, IsFirst, SMTT(30) DEF Fc, Endpoint, Going, Upper, Cut, Longer
<1>5. CASE Sas
  <2>1. Is("end_device")
      BY <1>5 DEF Sas, Endpoint
  <2> QED BY <1>1, <1>5, <2>1, IsFirst, SMTT(30) DEF Sas, Endpoint, Going, Upper, Cut, Longer
<1>6. CASE Firewire
  <2>1. Is("fw-host")
      BY <1>6 DEF Firewire
  <2>2. CASE GoOn(d, D)
      BY <2>1, <2>2, IsFirst DEF GoOn, Here
  <2> QED BY <1>1, <1>6, <2>1, <2>2 DEF Firewire, Going, Upper, Cut, Longer
<1>7. CASE Iscsi
    BY <1>7, IsFirst DEF Iscsi, Final, Here
<1>8. CASE Scsi
  <2>1. Is("scsi")
      BY <1>8 DEF Scsi
  <2>2. there = Len(dev[who]) => Port(D, "host") = PortOf(D, "host")
      BY <2>1, AllThere, CutIsThere DEF Is, Going, Cut
  <2> DEFINE path == << <<"scsi", << Port(D, "host") >> \o Tail(LastId(D)) >> >> \o d
  <2>3. GoOn(path, Upper("scsi", D))
      BY <1>8 DEF Scsi, Upper, Cut
  <2>4. there = Len(dev[who]) => path = Longer("scsi", D, d)
      BY <2>2 DEF Longer
  <2>5. "scsi" \in Going
      BY DEF Going
  <2> QED BY <1>1, <2>1, <2>3, <2>4, <2>5
<1>9. CASE TtyUSB
  <2>1. Is("ttyUSB")
      BY <1>9 DEF TtyUSB
  <2> QED BY <1>1, <1>9, <2>1 DEF TtyUSB, Going, Upper, Cut, Longer
<1>10. CASE Usb
  <2>1. Is("usb")
      BY <1>10 DEF Usb
  <2>2. there = Len(dev[who]) => Port(D, "usb") = PortOf(D, "usb")
      BY <2>1, AllThere, CutIsThere DEF Is, Going, Cut
  <2>3. CASE Finish(NoPath, "none")
      BY <2>1, <2>3, IsFirst
  <2> QED BY <1>1, <1>10, <2>1, <2>2, <2>3 DEF Usb, Going, Upper, Cut, Longer
<1>11. ASSUME NEW c \in {"pci", "serio", "platform"}, Bus(c) PROVE ~Ended /\ Stays /\ Goes
  <2>1. Is(c) /\ c \in Going
      BY <1>11 DEF Bus, Going
  <2>2. CASE Exists(D)
    <3>1. GoOn(<< <<c, LastId(D)>> >> \o d, Above(D, c))
        BY <1>11, <2>2 DEF Bus
    <3> QED BY <1>1, <2>1, <3>1 DEF Upper, Cut, Longer
  <2>3. CASE ~Exists(D)
    <3>1. ~Ended /\ there # Len(dev[who])
        BY <2>1, <2>3, IsFirst, AllThere
    <3> QED BY <1>11, <3>1 DEF Bus, GoOn
  <2> QED BY <2>2, <2>3
<1>12. CASE Top
    BY <1>12, IsFirst DEF Top, Final, Here
<1>13. CASE Other
    BY <1>13, IsFirst DEF Other
<1> QED
    BY <1>2, <1>3, <1>4, <1>5, <1>6, <1>7, <1>8, <1>9, <1>10, <1>11, <1>12, <1>13 DEF Walk

\* T holds every place of a walk that began at the first device and has come to x.
Trail(T, x) ==
    /\ << dev[1], NoPath >> \in T /\ x \in T
    /\ \A y \in T : y = x \/ \E z \in T : Succ(y, z)

\* The second walk of a device is on the trail of the first.
Follow ==
    /\ \A w \in 1 .. 2 : who <= w => out[w].why # "top"
    /\ who = 1 /\ there = Len(dev[1]) => \E T : Trail(T, Here)
    /\ who # 1 /\ out[1].why = "top" =>
         \E T, x :
            /\ Trail(T, x) /\ Final(x, out[1].path)
            /\ dev[1] = dev[2] /\ who = 2 /\ there = Len(dev[2]) => Here \in T
            /\ dev[1] = dev[2] /\ who = 3 /\ out[2].why = "top" => out[2].path = out[1].path

LEMMA FollowGoes ==
    ASSUME Types, Follow, ~Ended, UNCHANGED << given, who, there, out >>,
           there = Len(dev[who]) => UNCHANGED Here \/ Succ(Here, Here')
    PROVE  Follow'
<1>1. \A T, x : Trail(T, x) => Trail(T, x)'
    BY DEF Trail, given, Succ, First, Fits, Longer, PortOf, Ports
<1>2. CASE who = 1
  <2> SUFFICES ASSUME there = Len(dev[1]) PROVE \E T : Trail(T, Here)'
      BY <1>2 DEF Follow, given
  <2>1. PICK T : Trail(T, Here)
      BY <1>2 DEF Follow
  <2>2. CASE UNCHANGED Here
      BY <1>1, <2>1, <2>2 DEF Trail
  <2>3. CASE Succ(Here, Here')
    <3>1. Trail(T \cup {Here'}, Here')
        BY <2>1, <2>3 DEF Trail
    <3> QED BY <1>1, <3>1
  <2> QED BY <1>2, <2>2, <2>3
<1>3. CASE who = 2
  <2> SUFFICES ASSUME out[1].why = "top"
               PROVE  \E T, x : /\ Trail(T, x)' /\ Final(x, out[1].path)
                                /\ dev[1] = dev[2] /\ there = Len(dev[2]) => Here' \in T
      BY <1>3 DEF Follow, given
  <2>1. PICK T, x : /\ Trail(T, x) /\ Final(x, out[1].path)
                    /\ dev[1] = dev[2] /\ there = Len(dev[2]) => Here \in T
      BY <1>3 DEF Follow
  <2>2. ASSUME dev[1] = dev[2], there = Len(dev[2]), Succ(Here, Here') PROVE Here' \in T
    <3>1. Here # x
        BY <2>1, <2>2, OneWay
    <3>2. PICK z \in T : Succ(Here, z)
        BY <2>1, <2>2, <3>1 DEF Trail
    <3> QED BY <2>2, <3>2, OneWay
  <2>3. Trail(T, x)'
      BY <1>1, <2>1
  <2>4. dev[1] = dev[2] /\ there = Len(dev[2]) => Here' \in T
    <3>1. who = 2 /\ (there = Len(dev[who]) => UNCHANGED Here \/ Succ(Here, Here'))
        BY <1>3
    <3> QED BY <2>1, <2>2, <3>1
  <2> QED BY <2>1, <2>3, <2>4, Zenon
<1> QED BY <1>2, <1>3, Device

LEMMA FollowStops ==
    ASSUME Types, Follow, ~Ended, NEW path, NEW why, Finish(path, why), why = "top" => Final(Here, path)
    PROVE  Follow'
<1>1. \A T, x : Trail(T, x) => Trail(T, x)'
    BY DEF Finish, Trail, given
<1>2. CASE who = 1
  <2> SUFFICES ASSUME out'[1].why = "top"
               PROVE  \E T, x : /\ Trail(T, x)' /\ Final(x, out'[1].path)
                                /\ dev[1] = dev[2] => Here' \in T
      BY <1>2 DEF Follow, Finish, given
  <2>1. out'[1] = [path |-> path, why |-> IF there = Len(dev[1]) THEN why ELSE "unplugged"]
      BY <1>2 DEF Finish, Types
  <2>2. there = Len(dev[1]) /\ why = "top" /\ out'[1].path = path
      BY <2>1
  <2>3. PICK T : Trail(T, Here)
      BY <1>2, <2>2 DEF Follow
  <2>4. dev[1] = dev[2] => Here' \in T
      BY <1>2, <2>3 DEF Finish, Here, Trail
  <2> QED BY <1>1, <2>2, <2>3, <2>4
<1>3. CASE who = 2
  <2> SUFFICES ASSUME out'[1].why = "top"
               PROVE  \E T, x : /\ Trail(T, x)' /\ Final(x, out'[1].path)
                                /\ dev[1] = dev[2] /\ out'[2].why = "top" => out'[2].path = out'[1].path
      BY <1>3 DEF Follow, Finish, given
  <2>1. /\ out'[1] = out[1]
        /\ out'[2] = [path |-> path, why |-> IF there = Len(dev[2]) THEN why ELSE "unplugged"]
      BY <1>3 DEF Finish, Types
  <2>2. PICK T, x : /\ Trail(T, x) /\ Final(x, out[1].path)
                    /\ dev[1] = dev[2] /\ there = Len(dev[2]) => Here \in T
      BY <1>3, <2>1 DEF Follow
  <2>3. ASSUME dev[1] = dev[2], out'[2].why = "top" PROVE out'[2].path = out[1].path
    <3>1. there = Len(dev[2]) /\ why = "top" /\ out'[2].path = path
        BY <2>1, <2>3
    <3>2. Here \in T /\ Final(Here, path)
        BY <2>2, <2>3, <3>1
    <3>3. Here = x
        BY <2>2, <3>2, OneWay DEF Trail
    <3> QED BY <2>2, <3>1, <3>2, <3>3, OneWay
  <2> QED BY <1>1, <2>1, <2>2, <2>3
<1> QED BY <1>2, <1>3, Device

LEMMA FollowNext == Types /\ Follow /\ [Next]_vars => Follow'
<1> SUFFICES ASSUME Types, Follow, [Next]_vars PROVE Follow'
    OBVIOUS
<1>1. CASE Walk
    BY <1>1, Walked, FollowGoes, FollowStops
<1>2. CASE Unplug
  <2>1. there' < Len(dev[who]) /\ ~Ended /\ UNCHANGED << given, who, D, d, out >>
      BY <1>2, Device DEF Unplug
  <2>2. there' # Len(dev[who])
      BY <2>1, <1>2, Device DEF Unplug
  <2>3. \A T, x : Trail(T, x) => Trail(T, x)'
      BY <2>1 DEF Trail, given
  <2> QED BY <2>1, <2>2, <2>3, Device DEF Follow, given
<1>3. CASE UNCHANGED vars
  <2>1. \A T, x : Trail(T, x) => Trail(T, x)'
      BY <1>3 DEF vars, Trail
  <2> QED BY <1>3, <2>1 DEF vars, Follow, Here
<1> QED BY <1>1, <1>2, <1>3 DEF Next

\* In whatever boot, and with whatever numbers the kernel has begun at each controller,
\* a device that is not unplugged has the same path.
THEOREM SamePathEachBoot == Spec => []PathsPersist
<1>1. Init => Follow
  <2> SUFFICES ASSUME Init PROVE Follow
      OBVIOUS
  <2>1. Trail({Here}, Here)
      BY DEF Init, Trail, Here
  <2>2. who = 1 /\ \A w \in 1 .. 2 : out[w].why = "none"
      BY DEF Init, Nothing
  <2> QED BY <2>1, <2>2 DEF Follow
<1>2. Types /\ Follow => PathsPersist
  <2> SUFFICES ASSUME Types, Follow, dev[1] = dev[2], out[1].why = "top", out[2].why = "top"
               PROVE  out[1].path = out[2].path
      BY DEF PathsPersist
  <2>1. who = 3
      BY DEF Follow, Types, TypeOK
  <2> QED BY <2>1 DEF Follow
<1> QED BY <1>1, <1>2, TypesInit, TypesNext, FollowNext, PTL DEF Spec
=============================================================================
