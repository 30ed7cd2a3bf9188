------------------------------ MODULE Package ------------------------------
(***************************************************************************)
(* src/Makefile: the goals of make, command by command, in a working tree  *)
(* that is edited meanwhile, where a command may fail or Ctrl-C be pressed.*)
(* What one run leaves in camUpdate, and of the packages and the Debian    *)
(* image, is what the next one starts from.                                *)
(*                                                                         *)
(* update.sh stands for both files that every package has, busy.raw for    *)
(* both pictures, update_backend.sh for it and its program.                *)
(***************************************************************************)
EXTENDS Naturals, FiniteSets

CONSTANTS
    MaxEdits,    \* bound on how often the working tree is edited
    MaxMakes     \* bound on how often make is run

ASSUME BoundsAssumption == MaxEdits \in Nat /\ MaxMakes \in Nat

Revision == 0 .. MaxEdits

DistFiles == {"update.sh", "update_real.sh", "busy.raw"}     \* DISTFILES
AppFiles == {"update_real.sh", "update_backend.sh"}          \* update-to-debian/*
Both == {"update.sh"}
Tgz == "update.tgz"
Image == "debian.img.gz"
List == "update.md5sum"
Name == DistFiles \cup AppFiles \cup {Tgz, Image, List}

\* A file is what it is a copy of, and of which revision.
Content == [of : {"none", "cut", "arago", "debian", "image"}, rev : Revision]
File(o, r) == [of |-> o, rev |-> r]
Absent == File("none", 0)
Cut == File("cut", 0)     \* written in part
NoFiles == [f \in Name |-> Absent]

\* update.md5sum and what its sums were taken of.
Lists == [is : {"none", "cut", "whole"}, sums : [Name -> Content]]
NoList == [is |-> "none", sums |-> NoFiles]
CutList == [is |-> "cut", sums |-> NoFiles]

Zip == [is : {"none", "zip"}, files : [Name -> Content], list : Lists, docs : {"out", "in"}]
NoZip == [is |-> "none", files |-> NoFiles, list |-> NoList, docs |-> "out"]

\* Without a goal make builds the package named after VERSION.
Goal == {"zip", "camUpdate.zip", "debian", "clean"}
ZipName == ({"zip"} \X Revision) \cup ({"camUpdate.zip", "debian"} \X {0})

VARIABLES
    src,        \* the revision of the working tree
    img,        \* debian.img.gz in the root of the repository
    dir, list,  \* camUpdate, and its update.md5sum
    zips,       \* the packages
    goal,       \* of the present or the last run of make
    step,       \* the command it is at
    version,    \* VERSION
    makes       \* runs so far

vars == << src, img, dir, list, zips, goal, step, version, makes >>
run == << goal, version, makes >>

First(g) == IF g \in {"debian", "clean"} THEN "rm zips" ELSE "cp dist"

AfterPack(g) == IF g = "debian" THEN "end" ELSE "docs"

\* The commands in their order: prerequisites from left to right, then the recipe.
After(g, s) ==
    CASE s = "cp dist"  -> "tar"
      [] s = "tar"      -> "rm list"
      [] s = "rm list"  -> "md5sum"
      [] s = "md5sum"   -> IF g = "debian" THEN "pack" ELSE "rm pack"
      [] s = "rm pack"  -> "pack"
      [] s = "pack"     -> AfterPack(g)
      [] s = "docs"     -> "end"
      [] s = "rm zips"  -> "rm dir"
      [] s = "rm dir"   -> IF g = "clean" THEN "end" ELSE "cp app"
      [] s = "cp app"   -> "cp both"
      [] s = "cp both"  -> "mv image"
      [] s = "mv image" -> "md5sum"

Steps == {"cp dist", "tar", "rm list", "md5sum", "rm pack", "pack", "docs", "rm zips",
          "rm dir", "cp app", "cp both", "mv image"}
Ended == {"end", "failed"}

Target == << goal, IF goal = "zip" THEN version ELSE 0 >>

Init ==
    /\ src = 0 /\ img = Absent /\ dir = NoFiles /\ list = NoList
    /\ zips = [z \in ZipName |-> NoZip]
    /\ goal = "clean" /\ step = "end" /\ version = 0 /\ makes = 0

At(s) == step = s /\ step' = After(goal, s)

-----------------------------------------------------------------------------
(* The commands.                                                           *)

Copied(files, o) == [f \in Name |-> IF f \in files THEN File(o, src) ELSE dir[f]]

Cp(s, files, o) ==
    /\ At(s) /\ dir' = Copied(files, o)
    /\ UNCHANGED << src, img, list, zips, run >>

\* Fault: VERSION is evaluated anew wherever it is used.
Tar_Lazy ==
    /\ At("tar") /\ dir' = [dir EXCEPT ![Tgz] = File("arago", src)]
    /\ UNCHANGED << src, img, list, zips, run >>

\* VERSION has been written to the archive's filesystemRevision just before.
Tar ==
    /\ At("tar") /\ dir' = [dir EXCEPT ![Tgz] = File("arago", version)]
    /\ UNCHANGED << src, img, list, zips, run >>

\* Fault: an old list stays where it is.
RmList_Not ==
    /\ At("rm list") /\ UNCHANGED << src, img, dir, list, zips, run >>

RmList ==
    /\ At("rm list") /\ list' = NoList
    /\ UNCHANGED << src, img, dir, zips, run >>

\* The shell expands camUpdate/* before it opens update.md5sum: an older list
\* would be in the new one, as the empty file it is by then.
Md5sum ==
    /\ At("md5sum")
    /\ list' = [is |-> "whole",
                sums |-> [dir EXCEPT ![List] = IF list.is = "none" THEN Absent ELSE Cut]]
    /\ UNCHANGED << src, img, dir, zips, run >>

RmPack ==
    /\ At("rm pack") /\ zips' = [zips EXCEPT ![Target] = NoZip]
    /\ UNCHANGED << src, img, dir, list, run >>

\* zip -r replaces and adds, and keeps what else is in an archive.
Pack ==
    /\ At("pack")
    /\ zips' = [zips EXCEPT ![Target] =
                  [is |-> "zip", list |-> list, docs |-> @.docs,
                   files |-> [f \in Name |-> IF dir[f] = Absent THEN @.files[f] ELSE dir[f]]]]
    /\ UNCHANGED << src, img, dir, list, run >>

Docs ==
    /\ At("docs") /\ zips' = [zips EXCEPT ![Target].docs = "in"]
    /\ UNCHANGED << src, img, dir, list, run >>

\* The packages clean knows: not one that was made under another name.
RmZips ==
    /\ At("rm zips")
    /\ zips' = [z \in ZipName |-> IF z \in {<<"zip", version>>, <<"debian", 0>>} THEN NoZip ELSE zips[z]]
    /\ UNCHANGED << src, img, dir, list, run >>

\* Fault: clean leaves the directory.
RmDir_Not ==
    /\ At("rm dir") /\ list' = NoList
    /\ UNCHANGED << src, img, dir, zips, run >>

RmDir ==
    /\ At("rm dir") /\ dir' = NoFiles /\ list' = NoList
    /\ UNCHANGED << src, img, zips, run >>

MvImage ==
    /\ At("mv image") /\ img # Absent
    /\ dir' = [dir EXCEPT ![Image] = img] /\ img' = Absent
    /\ UNCHANGED << src, list, zips, run >>

Command ==
    \/ Cp("cp dist", DistFiles, "arago") \/ Tar \/ RmList \/ Md5sum \/ RmPack \/ Pack \/ Docs
    \/ RmZips \/ RmDir \/ Cp("cp app", AppFiles, "debian") \/ Cp("cp both", Both, "debian") \/ MvImage

-----------------------------------------------------------------------------
(* Failures, and what people do.                                           *)

\* Some files copied, the last one in part.
PartlyCopied(files, o) ==
    {[f \in Name |-> IF f \in cut THEN Cut ELSE Copied(some, o)[f]] :
        some \in SUBSET files, cut \in {c \in SUBSET files : Cardinality(c) <= 1}}

\* What a command leaves in the directory that does not come to its end.
Leaves ==
    CASE step = "cp dist" -> PartlyCopied(DistFiles, "arago")
      [] step = "cp app"  -> PartlyCopied(AppFiles, "debian")
      [] step = "cp both" -> PartlyCopied(Both, "debian")
      [] step = "tar"     -> {[dir EXCEPT ![Tgz] = Cut]}
      [] step = "rm dir"  -> {[f \in Name |-> IF f \in gone THEN Absent ELSE dir[f]] : gone \in SUBSET Name}
      [] OTHER            -> {dir}

LeavesList ==
    IF step = "md5sum" THEN {CutList} ELSE IF step = "rm dir" THEN {list, NoList} ELSE {list}

\* Fault: "-" before the commands.
Break_GoesOn ==
    /\ step \in Steps /\ step' = After(goal, step)
    /\ dir' \in Leaves /\ list' \in LeavesList
    /\ UNCHANGED << src, img, zips, run >>

\* A command fails, or is killed with make, and the rest is not run.  zip and mv
\* do all or nothing.
Break ==
    /\ step \in Steps /\ step' = "failed"
    /\ dir' \in Leaves /\ list' \in LeavesList
    /\ UNCHANGED << src, img, zips, run >>

\* On Ctrl-C make removes the file it was making, unless that is a goal from the
\* command line, which is .PHONY.
Interrupt ==
    /\ step \in Steps /\ step' = "failed"
    /\ dir' \in Leaves
    /\ list' \in IF step = "md5sum" /\ goal # "debian" THEN {NoList} ELSE LeavesList
    /\ zips' = IF step = "docs" /\ goal = "zip" THEN [zips EXCEPT ![Target] = NoZip] ELSE zips
    /\ UNCHANGED << src, img, run >>

Make(g) ==
    /\ step \in Ended /\ makes < MaxMakes
    /\ goal' = g /\ step' = First(g) /\ version' = src /\ makes' = makes + 1
    /\ UNCHANGED << src, img, dir, list, zips >>

Edit ==
    /\ src < MaxEdits /\ src' = src + 1
    /\ UNCHANGED << img, dir, list, zips, step, run >>

\* "Put that file into the root of this repository."
PutImage ==
    /\ step \in Ended /\ img = Absent /\ img' = File("image", 0)
    /\ UNCHANGED << src, dir, list, zips, step, run >>

Next == Command \/ Break \/ Interrupt \/ (\E g \in Goal : Make(g)) \/ Edit \/ PutImage

Spec == Init /\ [][Next]_vars

-----------------------------------------------------------------------------
\* The variables have their types; the package for Debian has no documents.
TypeOK ==
    /\ src \in Revision /\ version \in Revision /\ makes \in 0 .. MaxMakes
    /\ goal \in Goal /\ step \in Steps \cup Ended
    /\ img \in Content /\ dir \in [Name -> Content] /\ list \in Lists
    /\ zips \in [ZipName -> Zip] /\ zips[<<"debian", 0>>].docs = "out"

\* The list in a package, with which the camera checks it, names all its files but
\* itself and nothing else, with the sums of what is packed: whatever runs before
\* have left, and whichever of them were broken off.
ManifestExact ==
    \A z \in ZipName : zips[z].is = "zip" =>
        zips[z].list = [is |-> "whole", sums |-> zips[z].files]

\* A package for Arago has all of DISTFILES and the archive, one for Debian the
\* program and the image, and each of them as a whole.
PackageWhole ==
    \A z \in ZipName : zips[z].is = "zip" =>
        IF z[1] = "debian"
          THEN /\ \A f \in AppFiles \cup Both : zips[z].files[f].of = "debian"
               /\ zips[z].files[Image].of = "image"
          ELSE \A f \in DistFiles \cup {Tgz} : zips[z].files[f].of = "arago"

\* The revision a package is named after is the one it will leave in
\* filesystemRevision on the camera, though the tree be edited during the build.
RevisionAgrees ==
    \A v \in Revision : zips[<<"zip", v>>].is = "zip" => zips[<<"zip", v>>].files[Tgz].rev = v

\* Nothing of a package for Arago built before gets into one for Debian.
NothingLeftOver ==
    zips[<<"debian", 0>>].is = "zip" =>
        \A f \in Name \ (AppFiles \cup Both \cup {Image}) : zips[<<"debian", 0>>].files[f] = Absent
=============================================================================
