--------------------------- MODULE PackageProofs ---------------------------
(***************************************************************************)
(* Package keeps what it says of every package, for every number of edits  *)
(* and of runs of make.                                                    *)
(*                                                                         *)
(* What zip puts into a package is what lies in camUpdate and the list that *)
(* was made of it, so the invariant follows both from one command to the    *)
(* next: at its command "pack" the directory is as the package must be, the *)
(* list is of just these files, and there is no older package to add to.   *)
(***************************************************************************)
EXTENDS Package, TLAPS

OfDist == goal \in {"zip", "camUpdate.zip"}

\* The goals whose builds come to a command.
StepFits ==
    /\ step \in {"cp dist", "tar", "rm list", "rm pack", "docs"} => OfDist
    /\ step \in {"rm zips", "rm dir"} => goal \in {"debian", "clean"}
    /\ step \in {"cp app", "cp both", "mv image"} => goal = "debian"
    /\ step \in {"md5sum", "pack"} => goal # "clean"

Packing == step \in {"md5sum", "pack"}

\* What has been copied by the time a build for Arago is at a command.
DistHas ==
    /\ step = "tar" \/ step \in {"rm list", "rm pack"} \/ (Packing /\ OfDist) =>
          \A f \in DistFiles : dir[f].of = "arago"
    /\ step \in {"rm list", "rm pack"} \/ (Packing /\ OfDist) => dir[Tgz] = File("arago", version)

Foreign == Name \ (AppFiles \cup Both \cup {Image})

\* The same of a build for Debian, in a directory that was removed before.
DebianHas ==
    /\ img \in {Absent, File("image", 0)}
    /\ step \in {"cp app", "cp both", "mv image"} \/ (Packing /\ goal = "debian") =>
          \A f \in Foreign : dir[f] = Absent
    /\ step \in {"cp both", "mv image"} \/ (Packing /\ goal = "debian") =>
          \A f \in AppFiles : dir[f].of = "debian"
    /\ step = "mv image" \/ (Packing /\ goal = "debian") => \A f \in Both : dir[f].of = "debian"
    /\ Packing /\ goal = "debian" => dir[Image].of = "image"

\* The list is not among the files that are listed; it is gone before md5sum and
\* is of the files that are there from then on.
ListHas ==
    /\ dir[List] = Absent
    /\ step \in {"cp app", "cp both", "mv image", "md5sum"} => list = NoList
    /\ step \in {"rm pack", "pack"} => list = [is |-> "whole", sums |-> dir]

\* The package that is to be made is not there.
ZipGone ==
    /\ step \in {"rm dir", "cp app", "cp both", "mv image"} \/ (Packing /\ goal = "debian") =>
          zips[<<"debian", 0>>] = NoZip
    /\ step = "pack" => zips[Target] = NoZip

IInv == TypeOK /\ StepFits /\ DistHas /\ DebianHas /\ ListHas /\ ZipGone

-----------------------------------------------------------------------------
(* The commands.                                                           *)

LEMMA Contents ==
    /\ Absent \in Content /\ Cut \in Content
    /\ NoFiles \in [Name -> Content] /\ NoList \in Lists /\ CutList \in Lists
    /\ NoZip \in Zip /\ NoZip.docs = "out"
<1>1. Absent \in Content /\ Cut \in Content
  BY BoundsAssumption DEF Absent, Cut, File, Content, Revision
<1>2. NoFiles \in [Name -> Content]
  BY <1>1 DEF NoFiles
<1>3. NoList \in Lists /\ CutList \in Lists
  BY <1>2 DEF NoList, CutList, Lists
<1> QED  BY <1>1, <1>2, <1>3 DEF NoZip, Zip

LEMMA FileType ==
    ASSUME NEW o \in {"arago", "debian", "image"}, NEW r \in Revision
    PROVE  File(o, r) \in Content /\ File(o, r).of = o /\ File(o, r) # Absent
  BY DEF File, Content, Absent

LEMMA Targets ==
    ASSUME TypeOK, goal # "clean"
    PROVE  /\ Target \in ZipName
           /\ goal = "debian" <=> Target = <<"debian", 0>>
           /\ goal = "debian" \/ OfDist
  BY DEF TypeOK, Target, ZipName, Goal, Revision, OfDist

LEMMA CpDistKeeps ==
    ASSUME IInv, Cp("cp dist", DistFiles, "arago")
    PROVE  IInv'
<1> USE DEF Cp, At, run, Copied
<1>1. step = "cp dist" /\ OfDist /\ step' = "tar"
  BY DEF IInv, StepFits, After, AfterPack
<1>a. src \in Revision /\ File("arago", src) \in Content /\ File("arago", src).of = "arago"
  BY FileType DEF IInv, TypeOK
<1>b. /\ dir' \in [Name -> Content]
      /\ \A f \in DistFiles : dir'[f].of = "arago"
      /\ \A f \in Name \ DistFiles : dir'[f] = dir[f]
  BY <1>a DEF IInv, TypeOK, Name, DistFiles, AppFiles, Both, Tgz, Image, List
<1>2. TypeOK'
  BY <1>1, <1>b DEF IInv, TypeOK, Steps
<1>3. StepFits'
  BY <1>1 DEF IInv, StepFits, OfDist
<1>4. DistHas'
  BY <1>1, <1>b DEF IInv, DistHas, StepFits, OfDist, Packing
<1>5. DebianHas'
  BY <1>1, <1>b DEF IInv, DebianHas, StepFits, OfDist, Packing, Foreign, Name, DistFiles, AppFiles, Both, Tgz, Image, List
<1>6. ListHas'
  BY <1>1, <1>b DEF IInv, ListHas, Name, DistFiles, AppFiles, Both, Tgz, Image, List
<1>7. ZipGone'
  BY <1>1 DEF IInv, ZipGone, StepFits, OfDist, Packing
<1> QED  BY <1>2, <1>3, <1>4, <1>5, <1>6, <1>7 DEF IInv

LEMMA TarKeeps ==
    ASSUME IInv, Tar
    PROVE  IInv'
<1> USE DEF Tar, At, run
<1>1. step = "tar" /\ OfDist /\ step' = "rm list"
  BY DEF IInv, StepFits, After, AfterPack
<1>a. /\ File("arago", version) \in Content
      /\ dir' \in [Name -> Content] /\ dir'[Tgz] = File("arago", version)
      /\ \A f \in Name \ {Tgz} : dir'[f] = dir[f]
  BY FileType DEF IInv, TypeOK, Name, DistFiles, AppFiles, Both, Tgz, Image, List
<1>2. TypeOK'
  BY <1>1, <1>a DEF IInv, TypeOK, Steps
<1>3. StepFits'
  BY <1>1 DEF IInv, StepFits, OfDist
<1>4. DistHas'
  BY <1>1, <1>a DEF IInv, DistHas, StepFits, Packing, Name, DistFiles, AppFiles, Both, Tgz, Image, List
<1>5. DebianHas'
  BY <1>1, <1>a DEF IInv, DebianHas, OfDist, Packing
<1>6. ListHas'
  BY <1>1, <1>a DEF IInv, ListHas, Name, DistFiles, AppFiles, Both, Tgz, Image, List
<1>7. ZipGone'
  BY <1>1 DEF IInv, ZipGone, StepFits, OfDist, Packing
<1> QED  BY <1>2, <1>3, <1>4, <1>5, <1>6, <1>7 DEF IInv

LEMMA RmListKeeps ==
    ASSUME IInv, RmList
    PROVE  IInv'
<1> USE DEF RmList, At, run
<1>1. step = "rm list" /\ OfDist /\ step' = "md5sum"
  BY DEF IInv, StepFits, After, AfterPack
<1>2. TypeOK'
  BY <1>1, Contents DEF IInv, TypeOK, Steps
<1>3. StepFits'
  BY <1>1 DEF IInv, StepFits, OfDist
<1>4. DistHas'
  BY <1>1 DEF IInv, DistHas, StepFits, OfDist, Packing
<1>5. DebianHas'
  BY <1>1 DEF IInv, DebianHas, StepFits, OfDist, Packing
<1>6. ListHas'
  BY <1>1 DEF IInv, ListHas
<1>7. ZipGone'
  BY <1>1 DEF IInv, ZipGone, StepFits, OfDist, Packing
<1> QED  BY <1>2, <1>3, <1>4, <1>5, <1>6, <1>7 DEF IInv

LEMMA Md5sumKeeps ==
    ASSUME IInv, Md5sum
    PROVE  IInv'
<1> USE DEF Md5sum, At, run
<1>1. /\ step = "md5sum" /\ goal # "clean"
      /\ step' = IF goal = "debian" THEN "pack" ELSE "rm pack"
  BY DEF IInv, StepFits, After, AfterPack
<1>a. list.is = "none" /\ dir[List] = Absent /\ dir \in [Name -> Content]
  <2>1. list = NoList /\ dir[List] = Absent /\ dir \in [Name -> Content]
    BY <1>1 DEF IInv, ListHas, TypeOK
  <2> QED  BY <2>1 DEF NoList
<1>b. [dir EXCEPT ![List] = Absent] = dir
  BY <1>a
<1>c. list' = [is |-> "whole", sums |-> dir] /\ list' \in Lists
  BY <1>a, <1>b DEF Lists
<1>d. goal = "debian" \/ OfDist
  BY <1>1, Targets DEF IInv
<1>e. goal = "debian" => Target' = <<"debian", 0>>
  BY DEF Target
<1>2. TypeOK'
  BY <1>1, <1>c DEF IInv, TypeOK, Steps
<1>3. StepFits'
  BY <1>1, <1>d DEF IInv, StepFits, OfDist
<1>4. DistHas'
  BY <1>1, <1>d DEF IInv, DistHas, OfDist, Packing
<1>5. DebianHas'
  BY <1>1, <1>d DEF IInv, DebianHas, OfDist, Packing
<1>6. ListHas'
  BY <1>1, <1>a, <1>c DEF IInv, ListHas
<1>7. ZipGone'
  BY <1>1, <1>e DEF IInv, ZipGone, OfDist, Packing
<1> QED  BY <1>2, <1>3, <1>4, <1>5, <1>6, <1>7 DEF IInv

LEMMA RmPackKeeps ==
    ASSUME IInv, RmPack
    PROVE  IInv'
<1> USE DEF RmPack, At, run
<1>1. step = "rm pack" /\ OfDist /\ step' = "pack"
  BY DEF IInv, StepFits, After, AfterPack
<1>a. Target \in ZipName /\ Target # <<"debian", 0>> /\ Target' = Target
  BY <1>1, Targets DEF IInv, OfDist, Target
<1>b. /\ <<"debian", 0>> \in ZipName
      /\ zips' \in [ZipName -> Zip] /\ zips'[Target] = NoZip
      /\ zips'[<<"debian", 0>>] = zips[<<"debian", 0>>]
  BY <1>a, Contents DEF IInv, TypeOK, ZipName
<1>2. TypeOK'
  BY <1>1, <1>b DEF IInv, TypeOK, Steps
<1>3. StepFits'
  BY <1>1 DEF IInv, StepFits, OfDist
<1>4. DistHas'
  BY <1>1 DEF IInv, DistHas, StepFits, OfDist, Packing
<1>5. DebianHas'
  BY <1>1 DEF IInv, DebianHas, StepFits, OfDist, Packing
<1>6. ListHas'
  BY <1>1 DEF IInv, ListHas
<1>7. ZipGone'
  BY <1>1, <1>a, <1>b DEF IInv, ZipGone, OfDist, Packing
<1> QED  BY <1>2, <1>3, <1>4, <1>5, <1>6, <1>7 DEF IInv

\* What zip makes where nothing was.
Packed == [is |-> "zip", list |-> list, docs |-> "out", files |-> dir]

LEMMA PackedIs ==
    ASSUME TypeOK, Pack, zips[Target] = NoZip
    PROVE  zips' = [zips EXCEPT ![Target] = Packed]
<1> DEFINE files == [f \in Name |-> IF dir[f] = Absent THEN zips[Target].files[f] ELSE dir[f]]
<1>1. \A f \in Name : zips[Target].files[f] = Absent
  BY DEF NoZip, NoFiles
<1>2. files = dir
  BY <1>1 DEF TypeOK
<1>3. zips[Target].docs = "out"
  BY DEF NoZip
<1> QED  BY <1>2, <1>3 DEF Pack, Packed

LEMMA PackKeeps ==
    ASSUME IInv, Pack
    PROVE  IInv'
<1> USE DEF Pack, At, run
<1>1. /\ step = "pack" /\ goal # "clean" /\ step' \in {"docs", "end"}
      /\ step' = "docs" => goal # "debian"
  BY DEF IInv, StepFits, After, AfterPack
<1>a. /\ Target \in ZipName /\ zips[Target] = NoZip
      /\ list = [is |-> "whole", sums |-> dir]
      /\ goal = "debian" \/ OfDist
  BY <1>1, Targets DEF IInv, ZipGone, ListHas
<1>b. zips' = [zips EXCEPT ![Target] = Packed]
  BY <1>a, PackedIs DEF IInv
<1>c. Packed \in Zip /\ Packed.docs = "out"
  BY <1>a DEF IInv, TypeOK, Packed, Zip
<1>d. zips' \in [ZipName -> Zip] /\ zips'[<<"debian", 0>>].docs = "out"
  BY <1>a, <1>b, <1>c DEF IInv, TypeOK, ZipName
<1>2. TypeOK'
  BY <1>1, <1>d DEF IInv, TypeOK, Steps, Ended
<1>3. StepFits'
  BY <1>1, <1>a DEF IInv, StepFits, OfDist
<1>4. DistHas'
  BY <1>1 DEF IInv, DistHas, StepFits, OfDist, Packing
<1>5. DebianHas'
  BY <1>1 DEF IInv, DebianHas, StepFits, OfDist, Packing
<1>6. ListHas'
  BY <1>1 DEF IInv, ListHas
<1>7. ZipGone'
  BY <1>1 DEF IInv, ZipGone, StepFits, OfDist, Packing
<1> QED  BY <1>2, <1>3, <1>4, <1>5, <1>6, <1>7 DEF IInv

LEMMA DocsKeeps ==
    ASSUME IInv, Docs
    PROVE  IInv'
<1> USE DEF Docs, At, run
<1>1. step = "docs" /\ OfDist /\ step' = "end"
  BY DEF IInv, StepFits, After, AfterPack
<1>a. Target \in ZipName /\ Target # <<"debian", 0>>
  BY <1>1, Targets DEF IInv, OfDist
<1>b. zips' \in [ZipName -> Zip] /\ zips'[<<"debian", 0>>].docs = "out"
  BY <1>a DEF IInv, TypeOK, Zip, ZipName
<1>2. TypeOK'
  BY <1>1, <1>b DEF IInv, TypeOK, Ended
<1>3. StepFits'
  BY <1>1 DEF IInv, StepFits, OfDist
<1>4. DistHas'
  BY <1>1 DEF IInv, DistHas, StepFits, OfDist, Packing
<1>5. DebianHas'
  BY <1>1 DEF IInv, DebianHas, StepFits, OfDist, Packing
<1>6. ListHas'
  BY <1>1 DEF IInv, ListHas
<1>7. ZipGone'
  BY <1>1 DEF IInv, ZipGone, StepFits, OfDist, Packing
<1> QED  BY <1>2, <1>3, <1>4, <1>5, <1>6, <1>7 DEF IInv

LEMMA RmZipsKeeps ==
    ASSUME IInv, RmZips
    PROVE  IInv'
<1> USE DEF RmZips, At, run
<1>1. /\ step = "rm zips" /\ goal \in {"debian", "clean"}
      /\ step' = "rm dir"
  BY DEF IInv, StepFits, After, AfterPack
<1>a. <<"debian", 0>> \in ZipName
  BY DEF ZipName
<1>b. zips' \in [ZipName -> Zip] /\ zips'[<<"debian", 0>>] = NoZip
  BY <1>a, Contents DEF IInv, TypeOK
<1>2. TypeOK'
  BY <1>1, <1>b, Contents DEF IInv, TypeOK, Steps
<1>3. StepFits'
  BY <1>1 DEF IInv, StepFits, OfDist
<1>4. DistHas'
  BY <1>1 DEF IInv, DistHas, StepFits, OfDist, Packing
<1>5. DebianHas'
  BY <1>1 DEF IInv, DebianHas, StepFits, OfDist, Packing
<1>6. ListHas'
  BY <1>1 DEF IInv, ListHas
<1>7. ZipGone'
  BY <1>1, <1>b DEF ZipGone
<1> QED  BY <1>2, <1>3, <1>4, <1>5, <1>6, <1>7 DEF IInv

LEMMA RmDirKeeps ==
    ASSUME IInv, RmDir
    PROVE  IInv'
<1> USE DEF RmDir, At, run
<1>1. /\ step = "rm dir" /\ goal \in {"debian", "clean"}
      /\ step' = IF goal = "clean" THEN "end" ELSE "cp app"
  BY DEF IInv, StepFits, After, AfterPack
<1>a. \A f \in Name : dir'[f] = Absent
  BY DEF NoFiles
<1>2. TypeOK'
  BY <1>1, Contents DEF IInv, TypeOK, Steps, Ended
<1>3. StepFits'
  BY <1>1 DEF IInv, StepFits, OfDist
<1>4. DistHas'
  BY <1>1 DEF IInv, DistHas, StepFits, OfDist, Packing
<1>5. DebianHas'
  BY <1>1, <1>a DEF IInv, DebianHas, Foreign, Packing
<1>6. ListHas'
  BY <1>1, <1>a DEF ListHas, Name
<1>7. ZipGone'
  BY <1>1 DEF IInv, ZipGone, StepFits, OfDist, Packing
<1> QED  BY <1>2, <1>3, <1>4, <1>5, <1>6, <1>7 DEF IInv

LEMMA CpAppKeeps ==
    ASSUME IInv, Cp("cp app", AppFiles, "debian")
    PROVE  IInv'
<1> USE DEF Cp, At, run, Copied
<1>1. step = "cp app" /\ goal = "debian" /\ step' = "cp both"
  BY DEF IInv, StepFits, After, AfterPack
<1>a. src \in Revision /\ File("debian", src) \in Content /\ File("debian", src).of = "debian"
  BY FileType DEF IInv, TypeOK
<1>b. /\ dir' \in [Name -> Content]
      /\ \A f \in AppFiles : dir'[f].of = "debian"
      /\ \A f \in Name \ AppFiles : dir'[f] = dir[f]
  BY <1>a DEF IInv, TypeOK, Name, DistFiles, AppFiles, Both, Tgz, Image, List
<1>2. TypeOK'
  BY <1>1, <1>b DEF IInv, TypeOK, Steps
<1>3. StepFits'
  BY <1>1 DEF IInv, StepFits, OfDist
<1>4. DistHas'
  BY <1>1, <1>b DEF IInv, DistHas, StepFits, OfDist, Packing
<1>5. DebianHas'
  BY <1>1, <1>b DEF IInv, DebianHas, StepFits, OfDist, Packing, Foreign, Name, DistFiles, AppFiles, Both, Tgz, Image, List
<1>6. ListHas'
  BY <1>1, <1>b DEF IInv, ListHas, Name, DistFiles, AppFiles, Both, Tgz, Image, List
<1>7. ZipGone'
  BY <1>1 DEF IInv, ZipGone, StepFits, OfDist, Packing
<1> QED  BY <1>2, <1>3, <1>4, <1>5, <1>6, <1>7 DEF IInv

LEMMA CpBothKeeps ==
    ASSUME IInv, Cp("cp both", Both, "debian")
    PROVE  IInv'
<1> USE DEF Cp, At, run, Copied
<1>1. step = "cp both" /\ goal = "debian" /\ step' = "mv image"
  BY DEF IInv, StepFits, After, AfterPack
<1>a. src \in Revision /\ File("debian", src) \in Content /\ File("debian", src).of = "debian"
  BY FileType DEF IInv, TypeOK
<1>b. /\ dir' \in [Name -> Content]
      /\ \A f \in Both : dir'[f].of = "debian"
      /\ \A f \in Name \ Both : dir'[f] = dir[f]
  BY <1>a DEF IInv, TypeOK, Name, DistFiles, AppFiles, Both, Tgz, Image, List
<1>2. TypeOK'
  BY <1>1, <1>b DEF IInv, TypeOK, Steps
<1>3. StepFits'
  BY <1>1 DEF IInv, StepFits, OfDist
<1>4. DistHas'
  BY <1>1, <1>b DEF IInv, DistHas, StepFits, OfDist, Packing
<1>5. DebianHas'
  BY <1>1, <1>b DEF IInv, DebianHas, StepFits, OfDist, Packing, Foreign, Name, DistFiles, AppFiles, Both, Tgz, Image, List
<1>6. ListHas'
  BY <1>1, <1>b DEF IInv, ListHas, Name, DistFiles, AppFiles, Both, Tgz, Image, List
<1>7. ZipGone'
  BY <1>1 DEF IInv, ZipGone, StepFits, OfDist, Packing
<1> QED  BY <1>2, <1>3, <1>4, <1>5, <1>6, <1>7 DEF IInv

LEMMA MvImageKeeps ==
    ASSUME IInv, MvImage
    PROVE  IInv'
<1> USE DEF MvImage, At, run
<1>1. step = "mv image" /\ goal = "debian" /\ step' = "md5sum"
  BY DEF IInv, StepFits, After, AfterPack
<1>a. img \in Content /\ img.of = "image"
  <2>1. img \in Content /\ img = File("image", 0)
    BY DEF IInv, TypeOK, DebianHas
  <2> QED  BY <2>1 DEF File
<1>b. /\ dir' \in [Name -> Content] /\ dir'[Image].of = "image"
      /\ \A f \in Name \ {Image} : dir'[f] = dir[f]
  BY <1>a DEF IInv, TypeOK, Name, DistFiles, AppFiles, Both, Tgz, Image, List
<1>2. TypeOK'
  BY <1>1, <1>b, Contents DEF IInv, TypeOK, Steps
<1>3. StepFits'
  BY <1>1 DEF IInv, StepFits, OfDist
<1>4. DistHas'
  BY <1>1 DEF IInv, DistHas, StepFits, OfDist, Packing
<1>5. DebianHas'
  BY <1>1, <1>b DEF IInv, DebianHas, Foreign, Packing, Name, DistFiles, AppFiles, Both, Tgz, Image, List
<1>6. ListHas'
  BY <1>1, <1>b DEF IInv, ListHas, Name, DistFiles, AppFiles, Both, Tgz, Image, List
<1>7. ZipGone'
  BY <1>1 DEF IInv, ZipGone, StepFits, OfDist, Packing
<1> QED  BY <1>2, <1>3, <1>4, <1>5, <1>6, <1>7 DEF IInv

-----------------------------------------------------------------------------
(* Failures, and what people do.                                           *)

LEMMA PartlyType ==
    ASSUME IInv, NEW files \in SUBSET (Name \ {List}), NEW o \in {"arago", "debian"},
           NEW x \in PartlyCopied(files, o)
    PROVE  x \in [Name -> Content] /\ x[List] = Absent
<1>1. PICK some \in SUBSET files, cut \in SUBSET files :
        x = [f \in Name |-> IF f \in cut THEN Cut ELSE Copied(some, o)[f]]
  BY DEF PartlyCopied
<1>2. File(o, src) \in Content /\ dir \in [Name -> Content] /\ dir[List] = Absent
  BY FileType DEF IInv, TypeOK, ListHas
<1>3. \A f \in Name : Copied(some, o)[f] = IF f \in some THEN File(o, src) ELSE dir[f]
  BY DEF Copied
<1>4. List \in Name
  BY DEF Name
<1>5. x[List] = dir[List]
  BY <1>1, <1>3, <1>4
<1>6. \A f \in Name : (IF f \in cut THEN Cut ELSE Copied(some, o)[f]) \in Content
  BY <1>2, <1>3, Contents
<1> QED  BY <1>1, <1>2, <1>5, <1>6

\* Whatever is broken off, the list is not among the files.
LEMMA LeavesType ==
    ASSUME IInv, NEW x \in Leaves
    PROVE  x \in [Name -> Content] /\ x[List] = Absent
<1>1. dir \in [Name -> Content] /\ dir[List] = Absent /\ List \in Name
  BY DEF IInv, TypeOK, ListHas, Name
<1>2. CASE step = "cp dist"
  <2>1. DistFiles \in SUBSET (Name \ {List})
    BY DEF Name, DistFiles, List
  <2> QED  BY <1>2, <2>1, PartlyType DEF Leaves
<1>3. CASE step = "cp app"
  <2>1. AppFiles \in SUBSET (Name \ {List})
    BY DEF Name, AppFiles, List
  <2> QED  BY <1>3, <2>1, PartlyType DEF Leaves
<1>4. CASE step = "cp both"
  <2>1. Both \in SUBSET (Name \ {List})
    BY DEF Name, Both, DistFiles, List
  <2> QED  BY <1>4, <2>1, PartlyType DEF Leaves
<1>5. CASE step = "tar"
  <2>1. x = [dir EXCEPT ![Tgz] = Cut]
    BY <1>5 DEF Leaves
  <2> QED  BY <1>1, <2>1, Contents DEF Tgz, List
<1>6. CASE step = "rm dir"
  <2>1. PICK gone \in SUBSET Name : x = [f \in Name |-> IF f \in gone THEN Absent ELSE dir[f]]
    BY <1>6 DEF Leaves
  <2> QED  BY <1>1, <2>1, Contents
<1>7. CASE step \notin {"cp dist", "cp app", "cp both", "tar", "rm dir"}
  BY <1>1, <1>7 DEF Leaves
<1> QED  BY <1>2, <1>3, <1>4, <1>5, <1>6, <1>7

\* What was right of a broken run's packages and image stays so.
LEMMA BrokenKeeps ==
    ASSUME IInv, step' = "failed", dir' \in Leaves, list' \in LeavesList \cup {NoList},
           zips' \in [ZipName -> Zip], zips'[<<"debian", 0>>].docs = "out",
           UNCHANGED << src, img, run >>
    PROVE  IInv'
<1> USE DEF run
<1>1. dir' \in [Name -> Content] /\ dir'[List] = Absent
  BY LeavesType
<1>2. list' \in Lists
  BY Contents DEF LeavesList, IInv, TypeOK
<1>3. TypeOK'
  BY <1>1, <1>2 DEF IInv, TypeOK, Ended
<1>4. StepFits' /\ DistHas' /\ ZipGone'
  BY DEF StepFits, DistHas, Packing, ZipGone
<1>5. DebianHas' /\ ListHas'
  BY <1>1 DEF IInv, DebianHas, Packing, ListHas
<1> QED  BY <1>3, <1>4, <1>5 DEF IInv

LEMMA BreakKeeps == ASSUME IInv, Break PROVE IInv'
  BY BrokenKeeps DEF Break, IInv, TypeOK

LEMMA InterruptZips ==
    ASSUME IInv, Interrupt
    PROVE  /\ zips' \in [ZipName -> Zip] /\ zips'[<<"debian", 0>>].docs = "out"
           /\ zips' = zips \/ (goal = "zip" /\ zips' = [zips EXCEPT ![Target] = NoZip])
<1>1. CASE goal = "zip" /\ zips' = [zips EXCEPT ![Target] = NoZip]
  <2>1. Target \in ZipName /\ Target # <<"debian", 0>> /\ <<"debian", 0>> \in ZipName
    BY <1>1, Targets DEF IInv, ZipName
  <2> QED  BY <1>1, <2>1, Contents DEF IInv, TypeOK
<1>2. CASE zips' = zips
  BY <1>2 DEF IInv, TypeOK
<1> QED  BY <1>1, <1>2 DEF Interrupt

LEMMA InterruptKeeps == ASSUME IInv, Interrupt PROVE IInv'
<1>1. zips' \in [ZipName -> Zip] /\ zips'[<<"debian", 0>>].docs = "out"
  BY InterruptZips
<1>2. list' \in LeavesList \cup {NoList}
  BY DEF Interrupt
<1> QED  BY <1>1, <1>2, BrokenKeeps DEF Interrupt

LEMMA MakeKeeps == ASSUME IInv, NEW g \in Goal, Make(g) PROVE IInv'
<1> USE DEF Make
<1>1. \/ step' = "cp dist" /\ goal' \in {"zip", "camUpdate.zip"}
      \/ step' = "rm zips" /\ goal' \in {"debian", "clean"}
  BY DEF First, Goal
<1>2. TypeOK'
  <2>1. makes' \in 0 .. MaxMakes
    BY BoundsAssumption DEF IInv, TypeOK
  <2>2. step' \in Steps
    BY <1>1 DEF Steps
  <2> QED  BY <2>1, <2>2 DEF IInv, TypeOK
<1>3. StepFits' /\ DistHas' /\ ZipGone'
  BY <1>1 DEF StepFits, DistHas, OfDist, Packing, ZipGone
<1>4. DebianHas' /\ ListHas'
  BY <1>1 DEF IInv, DebianHas, Packing, ListHas
<1> QED  BY <1>2, <1>3, <1>4 DEF IInv

LEMMA PeopleKeep == ASSUME IInv, Edit \/ PutImage \/ UNCHANGED vars PROVE IInv'
<1>0. UNCHANGED << dir, list, zips, step, goal, version, makes >>
  BY DEF Edit, PutImage, vars, run
<1>1. File("image", 0) \in Content /\ 0 \in Revision
  BY BoundsAssumption, FileType DEF Revision
<1>2. img' \in {img, File("image", 0)} /\ src' \in Revision
  BY BoundsAssumption DEF IInv, TypeOK, Revision, Edit, PutImage, vars
<1>3. TypeOK'
  BY <1>0, <1>1, <1>2 DEF IInv, TypeOK
<1>4. StepFits' /\ ListHas'
  BY <1>0 DEF IInv, StepFits, OfDist, ListHas
<1>5. ZipGone'
  BY <1>0 DEF IInv, ZipGone, Packing, Target
<1>6. DistHas'
  BY <1>0 DEF IInv, DistHas, OfDist, Packing
<1>7. DebianHas'
  BY <1>0, <1>2 DEF IInv, DebianHas, Packing
<1> QED  BY <1>3, <1>4, <1>5, <1>6, <1>7 DEF IInv

-----------------------------------------------------------------------------
(* The invariant, and what it says of the packages.                        *)

LEMMA IInvInit == Init => IInv
<1> SUFFICES ASSUME Init PROVE IInv
    OBVIOUS
<1>1. zips \in [ZipName -> Zip] /\ zips[<<"debian", 0>>].docs = "out"
  BY Contents DEF Init, ZipName
<1>2. TypeOK
  BY <1>1, Contents, BoundsAssumption DEF Init, TypeOK, Revision, Goal, Ended
<1>3. StepFits /\ DistHas /\ DebianHas /\ ZipGone
  BY DEF Init, StepFits, DistHas, DebianHas, ZipGone, Packing
<1>4. ListHas
  BY DEF Init, ListHas, NoFiles, Name
<1> QED  BY <1>2, <1>3, <1>4 DEF IInv

LEMMA IInvNext == IInv /\ [Next]_vars => IInv'
<1> SUFFICES ASSUME IInv, [Next]_vars PROVE IInv'
    OBVIOUS
<1>1. CASE Command
  BY <1>1, CpDistKeeps, TarKeeps, RmListKeeps, Md5sumKeeps, RmPackKeeps, PackKeeps, DocsKeeps,
     RmZipsKeeps, RmDirKeeps, CpAppKeeps, CpBothKeeps, MvImageKeeps DEF Command
<1>2. CASE Break \/ Interrupt
  BY <1>2, BreakKeeps, InterruptKeeps
<1>3. CASE \E g \in Goal : Make(g)
  BY <1>3, MakeKeeps
<1>4. CASE Edit \/ PutImage \/ UNCHANGED vars
  BY <1>4, PeopleKeep
<1> QED  BY <1>1, <1>2, <1>3, <1>4 DEF Next


\* A package p with the name z as the four properties want it.
Right(z, p) ==
    p.is = "zip" =>
        /\ p.list = [is |-> "whole", sums |-> p.files]
        /\ z[1] = "debian" =>
              /\ \A f \in AppFiles \cup Both : p.files[f].of = "debian"
              /\ p.files[Image].of = "image"
              /\ \A f \in Foreign : p.files[f] = Absent
        /\ z[1] # "debian" => \A f \in DistFiles \cup {Tgz} : p.files[f].of = "arago"
        /\ z[1] = "zip" => p.files[Tgz].rev = z[2]

AllRight == \A z \in ZipName : Right(z, zips[z])

LEMMA PackedRight ==
    ASSUME IInv, step = "pack"
    PROVE  Right(Target, Packed)
<1>1. Packed.list = [is |-> "whole", sums |-> Packed.files] /\ Packed.files = dir
  BY DEF IInv, ListHas, Packed
<1>2. goal = "debian" \/ OfDist
  BY Targets DEF IInv, StepFits
<1>3. goal = "debian" =>
        /\ \A f \in AppFiles \cup Both : dir[f].of = "debian"
        /\ dir[Image].of = "image"
        /\ \A f \in Foreign : dir[f] = Absent
  BY DEF IInv, DebianHas, Packing
<1>4. OfDist => \A f \in DistFiles \cup {Tgz} : dir[f].of = "arago"
  BY DEF IInv, DistHas, Packing, File
<1>5. OfDist => dir[Tgz].rev = version
  BY DEF IInv, DistHas, Packing, File
<1>6. Target[1] = goal /\ (goal = "zip" => Target[2] = version)
  BY DEF Target
<1>7. OfDist => goal # "debian"
  BY DEF OfDist
<1>8. goal = "zip" => OfDist
  BY DEF OfDist
<1> QED  BY <1>1, <1>2, <1>3, <1>4, <1>5, <1>6, <1>7, <1>8 DEF Right

LEMMA RightNext == IInv /\ AllRight /\ [Next]_vars => AllRight'
<1> SUFFICES ASSUME IInv, AllRight, [Next]_vars, NEW z \in ZipName PROVE Right(z, zips'[z])
  BY DEF AllRight
<1>1. Right(z, zips[z]) /\ Right(z, NoZip) /\ zips \in [ZipName -> Zip]
  BY DEF AllRight, Right, NoZip, IInv, TypeOK
<1>2. CASE Pack
  <2>1. step = "pack" /\ zips[Target] = NoZip
    BY <1>2 DEF Pack, At, IInv, ZipGone
  <2>2. zips' = [zips EXCEPT ![Target] = Packed]
    BY <1>2, <2>1, PackedIs DEF IInv
  <2>3. zips'[z] = IF z = Target THEN Packed ELSE zips[z]
    BY <1>1, <2>2
  <2> QED  BY <1>1, <2>1, <2>3, PackedRight
<1>3. CASE RmPack
  BY <1>1, <1>3 DEF RmPack
<1>4. CASE Docs
  <2>1. zips'[z] = IF z = Target THEN [zips[z] EXCEPT !.docs = "in"] ELSE zips[z]
    BY <1>1, <1>4 DEF Docs
  <2>2. zips[z] \in Zip
    BY <1>1
  <2>3. [zips[z] EXCEPT !.docs = "in"].is = zips[z].is
    BY <2>2 DEF Zip
  <2>4. [zips[z] EXCEPT !.docs = "in"].list = zips[z].list
    BY <2>2 DEF Zip
  <2>5. [zips[z] EXCEPT !.docs = "in"].files = zips[z].files
    BY <2>2 DEF Zip
  <2> QED  BY <1>1, <2>1, <2>3, <2>4, <2>5 DEF Right
<1>5. CASE RmZips
  BY <1>1, <1>5 DEF RmZips
<1>6. CASE Interrupt
  BY <1>1, <1>6, InterruptZips
<1>7. CASE UNCHANGED zips
  BY <1>1, <1>7
<1> QED
  BY <1>2, <1>3, <1>4, <1>5, <1>6, <1>7
  DEF Next, Command, Cp, Tar, RmList, Md5sum, RmDir, MvImage, Break, Make, Edit, PutImage, vars, run

LEMMA Always == Spec => [](IInv /\ AllRight)
<1>1. Init => IInv /\ AllRight
  <2>1. Init => AllRight
    BY DEF Init, AllRight, Right, NoZip
  <2> QED  BY <2>1, IInvInit
<1> QED  BY <1>1, IInvNext, RightNext, PTL DEF Spec

\* The variables have their types.
THEOREM TypeCorrect == Spec => []TypeOK
<1>1. IInv => TypeOK
  BY DEF IInv
<1> QED  BY <1>1, Always, PTL

\* The list in every package is of the files in it, as they are there.
THEOREM ListIsExact == Spec => []ManifestExact
<1>1. AllRight => ManifestExact
  BY DEF AllRight, Right, ManifestExact
<1> QED  BY <1>1, Always, PTL

\* Every package is whole.
THEOREM Complete == Spec => []PackageWhole
<1>1. AllRight => PackageWhole
  BY DEF AllRight, Right, PackageWhole
<1> QED  BY <1>1, Always, PTL

\* Every package for Arago is named after the revision it brings.
THEOREM NamedByRevision == Spec => []RevisionAgrees
<1>1. AllRight => RevisionAgrees
  <2> SUFFICES ASSUME AllRight, NEW v \in Revision, zips[<<"zip", v>>].is = "zip"
               PROVE  zips[<<"zip", v>>].files[Tgz].rev = v
    BY DEF RevisionAgrees
  <2>1. <<"zip", v>> \in ZipName
    BY DEF ZipName
  <2> QED  BY <2>1 DEF AllRight, Right
<1> QED  BY <1>1, Always, PTL

\* The package for Debian has nothing of an older build.
THEOREM OnlyItsOwn == Spec => []NothingLeftOver
<1>1. AllRight => NothingLeftOver
  <2>1. <<"debian", 0>> \in ZipName
    BY DEF ZipName
  <2> QED  BY <2>1 DEF AllRight, Right, NothingLeftOver, Foreign
<1> QED  BY <1>1, Always, PTL
=============================================================================
