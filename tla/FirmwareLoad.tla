---------------------------- MODULE FirmwareLoad ----------------------------
(***************************************************************************)
(* firmware.sh, which udev runs for every firmware a driver requests, and  *)
(* the kernel's side of the handshake.  For each request the kernel makes  *)
(* the files loading and data under /sys$DEVPATH, and gives up after its   *)
(* timeout; the next request of the device has files of the same names,    *)
(* and a helper that is late finds those.  udev starts the helper of a     *)
(* request when the one before it for the same device has ended.  Each     *)
(* request names its own file, and what helpers write is told apart by it. *)
(***************************************************************************)
EXTENDS Naturals

CONSTANTS
    Requests,    \* how many requests the driver makes, one after the other
    File,        \* the firmware files the driver asks for
    Size         \* the greatest length of one, in writes of cat

ASSUME FirmwareAssumption == Requests \in Nat \ {0} /\ Size \in Nat \ {0}

Request == 1 .. Requests

VARIABLES
    asks,       \* of each request, the file it is for: $FIRMWARE
    length,     \* of each file
    present,    \* the files that one of FIRMWARE_DIRS has
    current,    \* the request the files under /sys belong to; 0 before the first
    status,     \* of each request: none, pending, loaded, aborted, timedout
    loading,    \* 1 while the kernel is told that data is being written
    written,    \* the parts the kernel has, each of some file
    pc,         \* where the helper of each request is
    part,       \* how much its cat has written
    opened      \* the request whose data file it has open

files == << asks, length, present >>
kernel == << current, status, loading, written >>
vars == << files, kernel, pc, part, opened >>

Init ==
    /\ asks \in [Request -> File] /\ length \in [File -> 1 .. Size]
    /\ present \in SUBSET File
    /\ current = 0
    /\ status = [r \in Request |-> "none"]
    /\ loading = 0 /\ written = {}
    /\ pc = [r \in Request |-> "none"]
    /\ part = [r \in Request |-> 0]
    /\ opened = [r \in Request |-> 0]

\* The files under /sys exist as long as a request is pending.
Pending == current # 0 /\ status[current] = "pending"
Finish(s) == status' = [status EXCEPT ![current] = s] /\ UNCHANGED << current, written >>

-----------------------------------------------------------------------------
(* The kernel, the driver and udev.                                        *)

\* The driver asks again only when it has its answer.
Ask ==
    /\ ~Pending /\ current < Requests /\ current' = current + 1
    /\ status' = [status EXCEPT ![current'] = "pending"]
    /\ loading' = 0 /\ written' = {}
    /\ pc' = [pc EXCEPT ![current'] = "queued"]
    /\ UNCHANGED << files, part, opened >>

Timeout ==
    /\ Pending /\ Finish("timedout") /\ UNCHANGED loading
    /\ UNCHANGED << files, pc, part, opened >>

Over == {"done", "missing", "died"}

StartHelper(r) ==
    /\ pc[r] = "queued" /\ \A q \in 1 .. r - 1 : pc[q] \in Over
    /\ pc' = [pc EXCEPT ![r] = "test"]
    /\ UNCHANGED << files, kernel, part, opened >>

-----------------------------------------------------------------------------
(* firmware.sh                                                             *)

\* A command that fails ends the script (sh -e).
Goto(r, from, to) == pc[r] = from /\ pc' = [pc EXCEPT ![r] = to]
Die(r, from) == Goto(r, from, "died") /\ UNCHANGED << files, kernel, part, opened >>

TestLoading(r) ==
    \/ ~Pending /\ Die(r, "test")
    \/ /\ Pending /\ Goto(r, "test", IF asks[r] \in present THEN "one" ELSE "minus")
       /\ UNCHANGED << files, kernel, part, opened >>

\* echo 1 > loading: the kernel drops what it has been given.
StartLoading(r) ==
    \/ ~Pending /\ Die(r, "one")
    \/ /\ Pending /\ Goto(r, "one", "open")
       /\ loading' = 1 /\ written' = {}
       /\ UNCHANGED << files, current, status, part, opened >>

OpenData(r) ==
    \/ ~Pending /\ Die(r, "open")
    \/ /\ Pending /\ Goto(r, "open", "cat")
       /\ opened' = [opened EXCEPT ![r] = current] /\ part' = [part EXCEPT ![r] = 0]
       /\ UNCHANGED << files, kernel >>

\* Fault: without -e the script goes on when cat fails.
Cat_GoesOn(r) ==
    \/ part[r] < length[asks[r]] /\ Goto(r, "cat", "zero") /\ UNCHANGED << files, kernel, part, opened >>
    \/ /\ pc[r] = "cat" /\ Pending /\ opened[r] = current /\ part[r] < length[asks[r]]
       /\ part' = [part EXCEPT ![r] = @ + 1]
       /\ written' = written \cup {<< asks[r], part'[r] >>}
       /\ UNCHANGED << files, current, status, loading, pc, opened >>
    \/ /\ part[r] = length[asks[r]] /\ Goto(r, "cat", "zero")
       /\ UNCHANGED << files, kernel, part, opened >>

\* Fault: a write that fails is tried again.
Cat_Retries(r) ==
    /\ Pending /\ opened[r] = current
    /\ \/ part[r] < length[asks[r]] /\ Die(r, "cat")
       \/ /\ pc[r] = "cat" /\ part[r] < length[asks[r]]
          /\ part' = [part EXCEPT ![r] = @ + 1]
          /\ written' = written \cup {<< asks[r], part'[r] >>}
          /\ UNCHANGED << files, current, status, loading, pc, opened >>
       \/ /\ part[r] = length[asks[r]] /\ Goto(r, "cat", "zero")
          /\ UNCHANGED << files, kernel, part, opened >>

\* A write goes to the request whose file is open, and fails when that is over;
\* reading may fail at any point.
Cat(r) ==
    \/ part[r] < length[asks[r]] /\ Die(r, "cat")
    \/ /\ pc[r] = "cat" /\ Pending /\ opened[r] = current /\ part[r] < length[asks[r]]
       /\ part' = [part EXCEPT ![r] = @ + 1]
       /\ written' = written \cup {<< asks[r], part'[r] >>}
       /\ UNCHANGED << files, current, status, loading, pc, opened >>
    \/ /\ part[r] = length[asks[r]] /\ Goto(r, "cat", "zero")
       /\ UNCHANGED << files, kernel, part, opened >>

\* echo 0 > loading: the firmware is complete, unless none was being loaded.
EndLoading(r) ==
    \/ ~Pending /\ Die(r, "zero")
    \/ /\ Pending /\ Goto(r, "zero", "done")
       /\ Finish(IF loading = 1 THEN "loaded" ELSE "aborted") /\ loading' = 0
       /\ UNCHANGED << files, part, opened >>

\* Fault: a missing file is only reported.
Abort_Not(r) ==
    /\ Goto(r, "minus", "missing") /\ UNCHANGED << files, kernel, part, opened >>

\* echo -1 > loading.
Abort(r) ==
    \/ ~Pending /\ Die(r, "minus")
    \/ /\ Pending /\ Goto(r, "minus", "missing")
       /\ Finish("aborted") /\ UNCHANGED loading
       /\ UNCHANGED << files, part, opened >>

Helper(r) ==
    \/ StartHelper(r) \/ TestLoading(r) \/ StartLoading(r) \/ OpenData(r)
    \/ Cat(r) \/ EndLoading(r) \/ Abort(r)

Next == Ask \/ Timeout \/ \E r \in Request : Helper(r)

Fairness == WF_vars(Ask) /\ \A r \in Request : WF_vars(Helper(r))

Spec == Init /\ [][Next]_vars /\ Fairness

-----------------------------------------------------------------------------
Parts(f) == {f} \X (1 .. length[f])

\* The variables have their types, and nothing is written to a request that is over.
TypeOK ==
    /\ asks \in [Request -> File] /\ length \in [File -> 1 .. Size] /\ present \subseteq File
    /\ current \in 0 .. Requests
    /\ status \in [Request -> {"none", "pending", "loaded", "aborted", "timedout"}]
    /\ loading \in {0, 1} /\ written \subseteq File \X (1 .. Size)
    /\ pc \in [Request -> {"none", "queued", "test", "one", "open", "cat", "zero", "minus"} \cup Over]
    /\ part \in [Request -> 0 .. Size] /\ opened \in [Request -> 0 .. Requests]

\* A driver that is told that its firmware is there has been given the whole of
\* one file, never a part and never a mix, although helpers may be late and answer
\* a later request. The file is the one it has asked for, unless it or a request
\* before it timed out: then it may be the one of an earlier request.
WholeOrNothing ==
    current # 0 /\ status[current] = "loaded" =>
        \E r \in 1 .. current :
            /\ written = Parts(asks[r])
            /\ r # current => \E q \in 1 .. r : status[q] = "timedout"

\* A helper that has come to an end of its own, and not been stopped by an error,
\* has not left the driver waiting for it.
NoneLeftWaiting ==
    \A r \in Request : pc[r] \in {"done", "missing"} => status[r] # "pending"

\* Unless reading the file fails, every request the driver makes has an answer
\* without the kernel's timeout: whatever pends is answered, or a helper has died.
Answered ==
    \A r \in Request :
        status[r] = "pending" ~> status[r] # "pending" \/ pc[r] = "died"
=============================================================================
