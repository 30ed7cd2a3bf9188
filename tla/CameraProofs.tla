---------------------------- MODULE CameraProofs ----------------------------
(***************************************************************************)
(* What the scripts of a camera do between the kernel and camApp: the      *)
(* helper that gives drivers their firmware, the services that set the     *)
(* camera up when it boots, and the pictures on the screen when an update  *)
(* takes over.  The three share nothing.                                   *)
(***************************************************************************)
EXTENDS FirmwareLoad, Boot, Splash, TLAPS

-----------------------------------------------------------------------------
(* Firmware.                                                               *)

Active == {"test", "one", "open", "cat", "zero", "minus"}

Types ==
    /\ asks \in [Request -> File] /\ length \in [File -> 1 .. Size]
    /\ current \in 0 .. Requests
    /\ status \in [Request -> {"none", "pending", "loaded", "aborted", "timedout"}]
    /\ pc \in [Request -> {"none", "queued"} \cup Active \cup Over]
    /\ part \in [Request -> 0 .. Size] /\ opened \in [Request -> 0 .. Requests]

\* The helpers run one after the other; those of requests to come are not there.
Serial ==
    /\ \A r \in Request : r > current => pc[r] = "none"
    /\ \A q, r \in Request : q < r /\ pc[r] \in Active => pc[q] \in Over

\* If the request that is pending is being loaded, it is the helper that runs that
\* has told the kernel so, and what the kernel has is what this helper has written:
\* loading is 0 again in a request the helper was late for.
Told(r) ==
    Pending /\ loading = 1 =>
        /\ pc[r] = "open" => written = {}
        /\ pc[r] = "cat" => opened[r] = current /\ written = {asks[r]} \X (1 .. part[r])
        /\ pc[r] = "zero" => written = Parts(asks[r])

\* The helper of a request that is over, by whatever has answered it, has come to an
\* end too, unless this or an earlier request timed out.
Late(r) == pc[r] \notin Over => \E q \in 1 .. r : status[q] = "timedout"
Answers == {"loaded", "aborted", "timedout"}
InTime ==
    \A r \in Request :
        /\ status[r] \in Answers => Late(r)
        /\ r < current => status[r] \in Answers
        /\ status[r] = "none" <=> r > current

Inv == Types /\ Serial /\ InTime /\ (\A r \in Request : Told(r)) /\ WholeOrNothing

LEMMA InvInit == Init => Inv
BY FirmwareAssumption DEF Init, Inv, Types, Serial, InTime, Answers, Told, Pending, WholeOrNothing,
       Request, Active, Over

\* Only one helper is active.
LEMMA OneActive ==
    ASSUME Types, Serial, NEW q \in Request, NEW r \in Request, q # r, pc[r] \in Active
    PROVE  pc[q] \notin Active
BY DEF Types, Serial, Request, Active, Over

LEMMA TypesNext == Types /\ [Next]_vars => Types'
<1> SUFFICES ASSUME Types, [Next]_vars PROVE Types'
    OBVIOUS
<1> USE FirmwareAssumption DEF Types
<1>1. CASE Ask
    BY <1>1 DEF Ask, files, Request
<1>2. CASE Timeout
    BY <1>2 DEF Timeout, Finish, Pending, files, Request
<1>3. ASSUME NEW r \in Request, Helper(r) PROVE Types'
  <2>1. CASE StartHelper(r)
      BY <2>1 DEF StartHelper, kernel, files, Active
  <2>2. CASE TestLoading(r)
      BY <2>2 DEF TestLoading, Die, Goto, kernel, files, Active, Over
  <2>3. CASE StartLoading(r)
      BY <2>3 DEF StartLoading, Die, Goto, kernel, files, Active, Over
  <2>4. CASE OpenData(r)
      BY <2>4 DEF OpenData, Die, Goto, kernel, files, Active, Over
  <2>5. CASE Cat(r)
    <3>1. length[asks[r]] \in 1 .. Size
        OBVIOUS
    <3> QED BY <2>5, <3>1 DEF Cat, Die, Goto, kernel, files, Active, Over
  <2>6. CASE EndLoading(r)
      BY <2>6 DEF EndLoading, Die, Goto, Finish, Pending, kernel, files, Active, Over, Request
  <2>7. CASE Abort(r)
      BY <2>7 DEF Abort, Die, Goto, Finish, Pending, kernel, files, Active, Over, Request
  <2> QED BY <1>3, <2>1, <2>2, <2>3, <2>4, <2>5, <2>6, <2>7 DEF Helper
<1>4. CASE UNCHANGED vars
    BY <1>4 DEF vars, kernel, files
<1> QED BY <1>1, <1>2, <1>3, <1>4 DEF Next

\* A helper moves from an active place to an active one or to its end, or starts.
LEMMA HelperMoves ==
    ASSUME Types, NEW r \in Request, Helper(r)
    PROVE  /\ current' = current
           /\ pc[r] # "none" /\ pc'[r] \in Active \cup Over
           /\ \A q \in Request : q # r => pc'[q] = pc[q]
           /\ \/ pc[r] = "queued" /\ \A q \in 1 .. r - 1 : pc[q] \in Over
              \/ pc[r] \in Active
<1> USE DEF Types, Active, Over
<1>1. CASE StartHelper(r)
    BY <1>1 DEF StartHelper, kernel, files
<1>2. CASE TestLoading(r)
    BY <1>2 DEF TestLoading, Die, Goto, kernel, files
<1>3. CASE StartLoading(r) \/ OpenData(r)
    BY <1>3 DEF StartLoading, OpenData, Die, Goto, kernel, files
<1>4. CASE Cat(r)
    BY <1>4 DEF Cat, Die, Goto, kernel, files
<1>5. CASE EndLoading(r) \/ Abort(r)
    BY <1>5 DEF EndLoading, Abort, Die, Goto, Finish, kernel, files
<1> QED BY <1>1, <1>2, <1>3, <1>4, <1>5 DEF Helper

LEMMA SerialNext == Types /\ Serial /\ [Next]_vars => Serial'
<1> SUFFICES ASSUME Types, Serial, [Next]_vars PROVE Serial'
    OBVIOUS
<1>1. CASE Ask
    BY <1>1 DEF Ask, Serial, Types, Request, Active, Over
<1>2. CASE Timeout \/ UNCHANGED vars
    BY <1>2 DEF Timeout, Finish, vars, kernel, files, Serial
<1>3. ASSUME NEW s \in Request, Helper(s) PROVE Serial'
  <2>1. \A r \in Request : r > current' => pc'[r] = "none"
      BY <1>3, HelperMoves DEF Serial
  <2>2. ASSUME NEW q \in Request, NEW r \in Request, q < r, pc'[r] \in Active PROVE pc'[q] \in Over
    <3>1. CASE r = s
      <4>1. q # s /\ q \in 1 .. r - 1
          BY <3>1, <2>2, FirmwareAssumption DEF Request
      <4> QED BY <4>1, <3>1, <2>2, <1>3, HelperMoves DEF Serial
    <3>2. CASE r # s /\ q # s
        BY <3>2, <2>2, <1>3, HelperMoves DEF Serial
    <3>3. CASE r # s /\ q = s
      <4>1. pc[r] \in Active
          BY <3>3, <2>2, <1>3, HelperMoves
      <4>2. pc[s] \in Over
          BY <4>1, <3>3, <2>2 DEF Serial
      <4> QED BY <4>2, <1>3, HelperMoves DEF Active, Over
    <3> QED BY <3>1, <3>2, <3>3
  <2> QED BY <2>1, <2>2 DEF Serial
<1> QED BY <1>1, <1>2, <1>3 DEF Next

\* A helper leaves the others what they are told, for they are not active.
LEMMA OthersTold ==
    ASSUME Types, Serial, NEW r \in Request, NEW q \in Request, q # r, Helper(r), pc[r] \in Active
    PROVE  Told(q)'
<1>1. pc[q] \notin Active /\ pc'[q] = pc[q]
    BY OneActive, HelperMoves
<1> QED BY <1>1 DEF Told, Active

LEMMA HelperTells ==
    ASSUME Types, Serial, NEW r \in Request, Told(r), Helper(r)
    PROVE  Told(r)'
<1> USE FirmwareAssumption DEF files, kernel
<1>1. CASE StartHelper(r)
    BY <1>1 DEF StartHelper, Types, Told, Pending
<1>2. CASE TestLoading(r)
    BY <1>2 DEF TestLoading, Die, Goto, Types, Told, Pending
<1>3. CASE StartLoading(r)
    BY <1>3 DEF StartLoading, Die, Goto, Types, Told, Pending
<1>4. CASE OpenData(r)
  <2>1. {asks[r]} \X (1 .. 0) = {}
      OBVIOUS
  <2> QED BY <1>4, <2>1 DEF OpenData, Die, Goto, Types, Told, Pending
<1>5. CASE Cat(r)
  <2>1. ASSUME Pending, opened[r] = current, pc[r] = "cat",
               part' = [part EXCEPT ![r] = @ + 1], written' = written \cup {<< asks[r], part'[r] >>},
               UNCHANGED << files, current, status, loading, pc, opened >>
        PROVE  Told(r)'
    <3>1. part[r] \in Nat /\ part'[r] = part[r] + 1
        BY <2>1 DEF Types
    <3>2. ({asks[r]} \X (1 .. part[r])) \cup {<< asks[r], part[r] + 1 >>} = {asks[r]} \X (1 .. (part[r] + 1))
        BY <3>1
    <3> QED BY <2>1, <3>1, <3>2 DEF Told, Pending
  <2>2. CASE Die(r, "cat")
      BY <2>2 DEF Die, Goto, Types, Told, Pending
  <2>3. CASE part[r] = length[asks[r]] /\ Goto(r, "cat", "zero") /\ UNCHANGED << files, kernel, part, opened >>
      BY <2>3 DEF Goto, Types, Told, Pending, Parts
  <2> QED BY <1>5, <2>1, <2>2, <2>3 DEF Cat
<1>6. CASE EndLoading(r)
    BY <1>6 DEF EndLoading, Die, Goto, Finish, Types, Told, Pending
<1>7. CASE Abort(r)
    BY <1>7 DEF Abort, Die, Goto, Finish, Types, Told
<1> QED BY <1>1, <1>2, <1>3, <1>4, <1>5, <1>6, <1>7 DEF Helper

LEMMA ToldNext == Inv /\ [Next]_vars => \A r \in Request : Told(r)'
<1> SUFFICES ASSUME Inv, [Next]_vars, NEW r \in Request PROVE Told(r)'
    OBVIOUS
<1>0. Types /\ Serial /\ Told(r)
    BY DEF Inv
<1>1. CASE Ask
    BY <1>1 DEF Ask, Told
<1>2. CASE Timeout
  <2>1. ~Pending'
      BY <1>0, <1>2, FirmwareAssumption DEF Timeout, Finish, Types, Pending, Request
  <2> QED BY <2>1 DEF Told
<1>3. ASSUME NEW q \in Request, Helper(q) PROVE Told(r)'
  <2>1. CASE q = r
      BY <1>0, <1>3, <2>1, HelperTells
  <2>2. CASE q # r /\ pc[q] \in Active
      BY <1>0, <1>3, <2>2, OthersTold
  <2>3. CASE q # r /\ pc[q] \notin Active
    <3>1. StartHelper(q)
        BY <1>3, <2>3 DEF Helper, StartHelper, TestLoading, StartLoading, OpenData, Cat, EndLoading,
               Abort, Die, Goto, Active
    <3>2. pc'[r] = pc[r] /\ UNCHANGED << files, kernel, part, opened >>
        BY <1>0, <1>3, <2>3, <3>1, HelperMoves DEF StartHelper
    <3> QED BY <1>0, <3>2 DEF Told, Pending, Parts, kernel, files
  <2> QED BY <2>1, <2>2, <2>3
<1>4. CASE UNCHANGED vars
    BY <1>0, <1>4 DEF vars, kernel, files, Told, Pending, Parts
<1> QED BY <1>1, <1>2, <1>3, <1>4 DEF Next

\* What a helper does to the answers: it gives one to what pends, and has then come
\* to its end, or it gives none.
LEMMA HelperAnswer ==
    ASSUME Types, NEW r \in Request, Helper(r)
    PROVE  \/ UNCHANGED status
           \/ /\ Pending /\ pc[r] \in Active /\ pc'[r] \in Over
              /\ \E s \in {"loaded", "aborted"} : status' = [status EXCEPT ![current] = s]
<1>1. CASE EndLoading(r)
    BY <1>1 DEF EndLoading, Die, Goto, Finish, kernel, Types, Active, Over
<1>2. CASE Abort(r)
    BY <1>2 DEF Abort, Die, Goto, Finish, kernel, Types, Active, Over
<1> QED
    BY <1>1, <1>2 DEF Helper, StartHelper, TestLoading, StartLoading, OpenData, Cat, Die, kernel

\* A step that only moves helpers on leaves InTime as it is.
LEMMA LateStays ==
    ASSUME Types, InTime, current' = current, status' \in [Request -> Answers \cup {"none", "pending"}],
           \A r \in Request : status[r] = "timedout" => status'[r] = "timedout",
           \A r \in Request : r # current => status'[r] = status[r],
           \A r \in Request : pc[r] \in Over => pc'[r] \in Over,
           current \in Request => status'[current] # "none",
           status'[current] \in Answers => Late(current)'
    PROVE  InTime'
<1>1. ASSUME NEW r \in Request, r # current, status'[r] \in Answers PROVE Late(r)'
  <2>1. pc'[r] \notin Over => pc[r] \notin Over
      OBVIOUS
  <2>2. \A q \in 1 .. r : q \in Request
      BY FirmwareAssumption DEF Request
  <2>3. Late(r)
      BY <1>1 DEF InTime
  <2> QED BY <2>1, <2>2, <2>3 DEF Late
<1>2. ASSUME NEW r \in Request
      PROVE  (r < current => status'[r] \in Answers) /\ (r # current => (status'[r] = "none" <=> r > current))
    BY <1>2 DEF InTime, Types, Request
<1>3. current \in Request => status'[current] # "none"
    OBVIOUS
<1> QED BY <1>1, <1>2, <1>3 DEF InTime, Types, Request

LEMMA InTimeNext == Types /\ Serial /\ InTime /\ [Next]_vars => InTime'
<1> SUFFICES ASSUME Types, Serial, InTime, [Next]_vars PROVE InTime'
    OBVIOUS
<1>0. Types' /\ \A q \in Request : \A r \in 1 .. q : r \in Request
    BY TypesNext, FirmwareAssumption DEF Request
<1>1. CASE Ask
  <2>1. /\ current' = current + 1 /\ current' \in Request /\ status'[current'] = "pending"
        /\ \A r \in Request : r # current' => status'[r] = status[r] /\ pc'[r] = pc[r]
      BY <1>1, FirmwareAssumption DEF Ask, Types, Request
  <2>2. ASSUME NEW r \in Request, r < current' PROVE status'[r] \in Answers
      BY <1>1, <2>1, <2>2 DEF Ask, Pending, InTime, Types, Answers, Request
  <2>3. ASSUME NEW r \in Request, status'[r] \in Answers PROVE Late(r)'
    <3>1. r < current' /\ status[r] \in Answers
        BY <2>1, <2>3 DEF InTime, Answers, Types, Request
    <3>2. /\ \A q \in 1 .. r : q \in Request /\ q # current'
          /\ r # current' /\ Late(r)
        BY <1>0, <2>1, <2>3, <3>1 DEF InTime, Types, Request
    <3> QED BY <2>1, <3>2 DEF Late
  <2>4. ASSUME NEW r \in Request PROVE status'[r] = "none" <=> r > current'
      BY <2>1, <2>4 DEF InTime, Types, Request
  <2> QED BY <2>2, <2>3, <2>4 DEF InTime
<1>2. CASE Timeout
  <2>1. /\ current' = current /\ current \in Request /\ pc' = pc
        /\ status' = [status EXCEPT ![current] = "timedout"]
      BY <1>2, FirmwareAssumption DEF Timeout, Finish, Pending, Types, Request
  <2>2. Late(current)'
      BY <2>1 DEF Late, Types, Request
  <2> QED BY <2>1, <2>2, LateStays DEF Types, Answers
<1>3. ASSUME NEW r \in Request, Helper(r) PROVE InTime'
  <2>1. current' = current /\ \A q \in Request : pc[q] \in Over => pc'[q] \in Over
      BY <1>3, HelperMoves DEF Active, Over
  <2>2. CASE UNCHANGED status
    <3>1. ASSUME current \in Request, status[current] \in Answers PROVE Late(current)'
        BY <1>0, <2>1, <2>2, <3>1 DEF InTime, Late
    <3>2. CASE current \in Request
      <4>1. status[current] # "none"
          BY <3>2 DEF InTime, Types, Request
      <4>2. status' \in [Request -> Answers \cup {"none", "pending"}]
          BY <2>2 DEF Types, Answers
      <4> QED BY <2>1, <2>2, <3>1, <3>2, <4>1, <4>2, LateStays
    <3>3. CASE current \notin Request
        BY <2>1, <2>2, <3>3 DEF InTime, Late
    <3> QED BY <3>2, <3>3
  <2>3. ASSUME Pending, pc[r] \in Active, pc'[r] \in Over, NEW s \in {"loaded", "aborted"},
               status' = [status EXCEPT ![current] = s]
        PROVE  InTime'
    <3>1. current \in Request
        BY <2>3 DEF Pending, Types, Request
    <3>2. r <= current
        BY <2>3 DEF Serial, Active, Types, Request
    <3>3. Late(current)'
      <4>1. CASE r = current
          BY <2>1, <2>3, <4>1 DEF Late
      <4>2. CASE r < current
        <5>1. PICK q \in 1 .. r : status[q] = "timedout"
            BY <2>3, <4>2 DEF InTime, Late, Active, Over
        <5>2. q \in 1 .. current /\ q # current /\ q \in Request
            BY <3>1, <4>2, <1>0, <5>1 DEF Request
        <5> QED BY <2>1, <2>3, <5>1, <5>2 DEF Late, Types
      <4> QED BY <3>1, <3>2, <4>1, <4>2 DEF Request
    <3>4. \A q \in Request : status[q] = "timedout" => q # current
        BY <2>3 DEF Pending
    <3> QED BY <1>0, <2>1, <2>3, <3>1, <3>3, <3>4, LateStays DEF Types, Answers
  <2> QED BY <1>3, <2>2, <2>3, HelperAnswer
<1>4. CASE UNCHANGED vars
    BY <1>4 DEF vars, kernel, InTime, Late
<1> QED BY <1>1, <1>2, <1>3, <1>4 DEF Next

\* What has been loaded stays as it is until the driver asks again.
LEMMA WholeStays ==
    ASSUME Types, WholeOrNothing, current' = current, length' = length, asks' = asks,
           UNCHANGED status, Pending \/ UNCHANGED written
    PROVE  WholeOrNothing'
BY DEF WholeOrNothing, Pending, Parts

LEMMA WholeNext == Inv /\ [Next]_vars => WholeOrNothing'
<1> SUFFICES ASSUME Inv, [Next]_vars PROVE WholeOrNothing'
    OBVIOUS
<1>0. Types /\ Serial /\ InTime /\ WholeOrNothing /\ \A r \in Request : Told(r)
    BY DEF Inv
<1>1. CASE Ask
  <2>1. status'[current'] = "pending"
      BY <1>0, <1>1, FirmwareAssumption DEF Ask, Types, Request
  <2> QED BY <2>1 DEF WholeOrNothing
<1>2. CASE Timeout
  <2>1. status'[current'] = "timedout"
      BY <1>0, <1>2, FirmwareAssumption DEF Timeout, Finish, Pending, Types, Request
  <2> QED BY <2>1 DEF WholeOrNothing
<1>3. ASSUME NEW r \in Request, EndLoading(r) PROVE WholeOrNothing'
  <2>1. CASE Die(r, "zero")
      BY <1>0, <2>1, WholeStays DEF Die, kernel, files
  <2>2. CASE Pending /\ Goto(r, "zero", "done") /\ Finish(IF loading = 1 THEN "loaded" ELSE "aborted")
             /\ UNCHANGED << files, part, opened >>
    <3>1. current' = current /\ current \in Request /\ length' = length /\ asks' = asks /\ written' = written
        BY <1>0, <2>2 DEF Finish, Pending, files, Types, Request
    <3>2. SUFFICES ASSUME status'[current] = "loaded" PROVE WholeOrNothing'
        BY <3>1 DEF WholeOrNothing
    <3>3. written = Parts(asks[r])
        BY <1>0, <2>2, <3>1, <3>2 DEF Finish, Goto, Told, Types
    <3>4. r \in 1 .. current
        BY <1>0, <2>2, <3>1 DEF Goto, Serial, Types, Request
    <3>5. ASSUME r # current PROVE \E q \in 1 .. r : status'[q] = "timedout"
      <4>1. Late(r) /\ pc[r] \notin Over
          BY <1>0, <2>2, <3>1, <3>4, <3>5 DEF InTime, Goto, Over, Request
      <4>2. PICK q \in 1 .. r : status[q] = "timedout"
          BY <4>1 DEF Late
      <4>3. q # current
          BY <3>4, <3>5, <4>2, <3>1 DEF Request
      <4> QED BY <1>0, <2>2, <4>2, <4>3 DEF Finish, Types
    <3> QED BY <3>1, <3>3, <3>4, <3>5 DEF WholeOrNothing, Parts
  <2> QED BY <1>3, <2>1, <2>2 DEF EndLoading
<1>4. ASSUME NEW r \in Request, Abort(r) PROVE WholeOrNothing'
  <2>1. CASE Die(r, "minus")
      BY <1>0, <2>1, WholeStays DEF Die, kernel, files
  <2>2. CASE Pending /\ Finish("aborted")
      BY <1>0, <2>2 DEF Finish, Pending, Types, WholeOrNothing, Request
  <2> QED BY <1>4, <2>1, <2>2 DEF Abort
<1>5. ASSUME NEW r \in Request,
             StartHelper(r) \/ TestLoading(r) \/ StartLoading(r) \/ OpenData(r) \/ Cat(r)
      PROVE  WholeOrNothing'
  <2>1. /\ UNCHANGED << current, status, length, asks >>
        /\ Pending \/ UNCHANGED written
      BY <1>5 DEF StartHelper, TestLoading, StartLoading, OpenData, Cat, Die, kernel, files
  <2> QED BY <1>0, <2>1, WholeStays
<1>6. CASE UNCHANGED vars
    BY <1>0, <1>6, WholeStays DEF vars, kernel, files
<1> QED BY <1>1, <1>2, <1>3, <1>4, <1>5, <1>6 DEF Next, Helper

LEMMA InvNext == Inv /\ [Next]_vars => Inv'
BY TypesNext, SerialNext, InTimeNext, ToldNext, WholeNext DEF Inv

\* However many requests time out, and however late their helpers are, what a
\* driver is given is the whole of one file, and the one it asked for as long as no
\* request has timed out.
THEOREM Whole == Spec => []WholeOrNothing
<1>1. Inv => WholeOrNothing
    BY DEF Inv
<1> QED BY <1>1, InvInit, InvNext, PTL DEF Spec

\* Only the last request can be pending, so a helper that has answered whatever was
\* pending has not left its own driver waiting.
OnlyCurrent == \A r \in Request : status[r] = "pending" => r = current

LEMMA OnlyCurrentNext == Types /\ OnlyCurrent /\ [Next]_vars => OnlyCurrent'
<1> SUFFICES ASSUME Types, OnlyCurrent, [Next]_vars PROVE OnlyCurrent'
    OBVIOUS
<1>1. CASE Ask
  <2>1. current' \in Request /\ \A r \in Request : r # current' => status'[r] = status[r]
      BY <1>1, FirmwareAssumption DEF Ask, Types, Request
  <2>2. \A r \in Request : status[r] # "pending"
      BY <1>1 DEF Ask, Pending, OnlyCurrent, Request
  <2> QED BY <2>1, <2>2 DEF OnlyCurrent
<1>2. CASE UNCHANGED << current, status >>
    BY <1>2 DEF OnlyCurrent
<1>3. CASE current' = current /\ \E s \in {"loaded", "aborted", "timedout"} : status' = [status EXCEPT ![current] = s]
    BY <1>3 DEF OnlyCurrent, Types
<1> QED
    BY <1>1, <1>2, <1>3
    DEF Next, Timeout, Finish, Helper, StartHelper, TestLoading, StartLoading, OpenData, Cat,
        EndLoading, Abort, Die, kernel, files, vars

LEMMA HelperAnswers ==
    ASSUME Types, OnlyCurrent, NoneLeftWaiting, NEW r \in Request, Helper(r)
    PROVE  NoneLeftWaiting'
<1>1. CASE status' = [status EXCEPT ![current] = "loaded"] \/ status' = [status EXCEPT ![current] = "aborted"]
  <2>1. \A q \in Request : status'[q] # "pending"
      BY <1>1 DEF OnlyCurrent, Types
  <2> QED BY <2>1 DEF NoneLeftWaiting
<1>2. CASE UNCHANGED status /\ pc'[r] \notin {"done", "missing"}
  <2>1. \A q \in Request : q # r => pc'[q] = pc[q]
      BY HelperMoves
  <2> QED BY <1>2, <2>1 DEF NoneLeftWaiting
<1>3. (UNCHANGED status /\ pc'[r] \notin {"done", "missing"})
      \/ status' = [status EXCEPT ![current] = "loaded"] \/ status' = [status EXCEPT ![current] = "aborted"]
    BY DEF Types, Helper, StartHelper, TestLoading, StartLoading, OpenData, Cat, EndLoading, Abort,
           Finish, Die, Goto, kernel, files
<1> QED BY <1>1, <1>2, <1>3

LEMMA AnsweredNext ==
    Types /\ OnlyCurrent /\ NoneLeftWaiting /\ [Next]_vars => NoneLeftWaiting'
<1> SUFFICES ASSUME Types, OnlyCurrent, NoneLeftWaiting, [Next]_vars PROVE NoneLeftWaiting'
    OBVIOUS
<1>1. CASE Ask
  <2>1. current' \in Request /\ pc'[current'] = "queued"
      BY <1>1, FirmwareAssumption DEF Ask, Types, Request
  <2>2. \A q \in Request : q # current' => pc'[q] = pc[q] /\ status'[q] = status[q]
      BY <1>1 DEF Ask, Types
  <2> QED BY <2>1, <2>2 DEF NoneLeftWaiting
<1>2. CASE Timeout
    BY <1>2 DEF Timeout, Finish, Types, NoneLeftWaiting
<1>3. CASE UNCHANGED vars
    BY <1>3 DEF vars, kernel, files, NoneLeftWaiting
<1> QED BY <1>1, <1>2, <1>3, HelperAnswers DEF Next

\* A helper that came to an end of its own has answered its driver, or the kernel's
\* timeout has, for every number of requests.
THEOREM DriverNotLeft == Spec => []NoneLeftWaiting
<1>1. Init => OnlyCurrent /\ NoneLeftWaiting
    BY DEF Init, OnlyCurrent, NoneLeftWaiting
<1>2. Inv => Types
    BY DEF Inv
<1> QED BY <1>1, <1>2, InvInit, InvNext, OnlyCurrentNext, AnsweredNext, PTL DEF Spec

LEMMA FirmwareTypesNext == TypeOK /\ [Next]_vars => TypeOK'
<1> SUFFICES ASSUME TypeOK, [Next]_vars PROVE TypeOK'
    OBVIOUS
<1>1. Types /\ Types'
    BY TypesNext DEF TypeOK, Types, Active
<1>2. UNCHANGED files
    BY DEF Next, Ask, Timeout, Helper, StartHelper, TestLoading, StartLoading, OpenData, Cat,
           EndLoading, Abort, Die, vars
<1>3. loading' \in {0, 1}
    BY DEF TypeOK, Next, Ask, Timeout, Helper, StartHelper, TestLoading, StartLoading, OpenData, Cat,
           EndLoading, Abort, Die, kernel, vars
<1>4. written' \subseteq File \X (1 .. Size)
  <2>1. ASSUME NEW r \in Request, Cat(r) PROVE written' \subseteq File \X (1 .. Size)
    <3>1. CASE UNCHANGED written
        BY <3>1 DEF TypeOK
    <3>2. CASE /\ part[r] < length[asks[r]] /\ part' = [part EXCEPT ![r] = @ + 1]
               /\ written' = written \cup {<< asks[r], part'[r] >>}
      <4>1. part[r] \in 0 .. Size /\ part'[r] = part[r] + 1
          BY <3>2 DEF TypeOK
      <4>2. asks[r] \in File /\ length[asks[r]] \in 1 .. Size
          BY DEF TypeOK
      <4>3. part'[r] \in 1 .. Size
          BY <3>2, <4>1, <4>2, FirmwareAssumption
      <4> QED BY <3>2, <4>2, <4>3 DEF TypeOK
    <3> QED BY <2>1, <3>1, <3>2 DEF Cat, Die, kernel
  <2>2. written' = written \/ written' = {} \/ \E r \in Request : Cat(r)
      BY DEF Next, Ask, Timeout, Finish, Helper, StartHelper, TestLoading, StartLoading, OpenData,
             EndLoading, Abort, Die, kernel, vars
  <2> QED BY <2>1, <2>2 DEF TypeOK
<1> QED BY <1>1, <1>2, <1>3, <1>4 DEF TypeOK, Types, Active, files

\* The variables have their types.
THEOREM FirmwareTypes == Spec => []TypeOK
<1>1. Init => TypeOK
    BY FirmwareAssumption DEF Init, TypeOK, Request, Over
<1> QED BY <1>1, FirmwareTypesNext, PTL DEF Spec

-----------------------------------------------------------------------------
(* The services.                                                           *)

LEMMA BootTypesNext ==
    ASSUME BootTypeOK, [BootNext]_bootVars
    PROVE  BootTypeOK'
<1> USE BootAssumption DEF BootTypeOK, given
<1>1. CASE Udev \/ VidOrder \/ Camera
    BY <1>1 DEF Udev, VidOrder, Camera, Starts, Display, Attempt, Setting
<1>2. CASE LoadSyslink \/ LoadVideo
    BY <1>2 DEF LoadSyslink, LoadVideo, Starts, Loaded, Goes
<1>3. CASE LoadFirmware \/ ConfigureLcd \/ SetResolution
    BY <1>3 DEF LoadFirmware, ConfigureLcd, SetResolution, Display, Attempt, Setting, Goes
<1>4. CASE HwSetup
    BY <1>4 DEF HwSetup, Display, Attempt, Setting, Starts, Loaded
<1>5. CASE HwWait
    BY <1>5 DEF HwWait
<1>6. CASE HwPins
    BY <1>6 DEF HwPins, Attempt, Setting, Goes
<1>7. ASSUME NEW n \in Node, MakeNode(n) PROVE BootTypeOK'
    BY <1>7 DEF MakeNode
<1>8. CASE UNCHANGED bootVars
    BY <1>8 DEF bootVars
<1> QED BY <1>1, <1>2, <1>3, <1>4, <1>5, <1>6, <1>7, <1>8 DEF BootNext, Script

\* The variables of the boot have their types, and hwsetup does not count below 0.
THEOREM BootTypes == BootSpec => []BootTypeOK
<1>1. BootInit => BootTypeOK
    BY BootAssumption DEF BootInit, BootTypeOK, Service, Module, Order, ToSet
<1>2. BootTypeOK /\ [BootNext]_bootVars => BootTypeOK'
    BY BootTypesNext
<1> QED BY <1>1, <1>2, PTL DEF BootSpec

\* An Arago camera that has all its links.
Complete == ~debian /\ links = {"udev", "load-hd-firmware", "vidorder", "camera"}

\* The services are started in their order, and none while a script is at work.
InOrder ==
    /\ todo \subseteq links
    /\ "load-hd-firmware" \in todo => "vidorder" \in todo
    /\ "vidorder" \in todo => "camera" \in todo
    /\ at # "idle" => "load-hd-firmware" \notin todo /\ "vidorder" \in todo
    /\ at \in {"idle", "ipc", "video", "lcd", "fb0"}

\* What has been tried with all there that it takes.
Tried == done \cup failed

\* What the parts of load-hd-firmware.sh, and vidorder, have tried once they are
\* past; the script does not end without fb0, for which vpss had to be loaded.
SetUp ==
    /\ at \in {"video", "lcd", "fb0"} => {"hdvicp", "hdvpss"} \subseteq Tried
    /\ at = "fb0" /\ "vpss" \in modules => "lcd" \in Tried
    /\ at = "idle" /\ "load-hd-firmware" \notin todo =>
         {"hdvicp", "hdvpss", "lcd", "resolution"} \subseteq Tried /\ "vpss" \in modules
    /\ "vidorder" \notin todo => {"order", "pins"} \subseteq Tried
    /\ "fb0" \in nodes => "vpss" \in modules
    /\ "ti81xxfb" \in modules => "vpss" \in modules
    /\ camApp = "running" => "camera" \notin todo

Started == InOrder /\ SetUp

LEMMA AragoOrder ==
    ASSUME Complete
    PROVE  /\ Order = << "udev", "load-hd-firmware", "vidorder", "camera" >>
           /\ ToSet(Order) = links
           /\ Before("load-hd-firmware", "vidorder") /\ Before("vidorder", "camera")
<1>1. Order = << "udev", "load-hd-firmware", "vidorder", "camera" >>
    BY DEF Complete, Order
<1>2. DOMAIN Order = 1 .. 4
    BY <1>1
<1>3. ToSet(Order) = links
    BY <1>1, <1>2 DEF Complete, ToSet
<1>4. Before("load-hd-firmware", "vidorder")
  <2>1. 3 \in DOMAIN Order /\ 2 \in 1 .. 3 - 1
      BY <1>2
  <2> QED BY <1>1, <2>1 DEF Before
<1>5. Before("vidorder", "camera")
  <2>1. 4 \in DOMAIN Order /\ 3 \in 1 .. 4 - 1
      BY <1>2
  <2> QED BY <1>1, <2>1 DEF Before
<1> QED BY <1>1, <1>3, <1>4, <1>5

\* An attempt is one whether it succeeds or not.
LEMMA AttemptTries ==
    ASSUME NEW set, Attempt(set)
    PROVE  Tried' = Tried \cup set
BY DEF Attempt, Tried

LEMMA StartedNext ==
    ASSUME Complete, Started, [BootNext]_bootVars
    PROVE  Complete' /\ Started'
<1> USE DEF Started, InOrder, SetUp, Complete, given
<1>1. CASE Udev
    BY <1>1 DEF Udev, Starts, Tried
<1>2. CASE VidOrder
  <2>1. Tried' = Tried \cup (Display(modules, {"order"}) \cup {"pins"})
      BY <1>2, AttemptTries DEF VidOrder
  <2> QED BY <1>2, <2>1, AragoOrder DEF VidOrder, Starts, Display
<1>3. CASE Camera
    BY <1>3, AragoOrder DEF Camera, Starts, Tried
<1>4. CASE LoadSyslink
    BY <1>4 DEF LoadSyslink, Starts, Loaded, Tried
<1>5. CASE LoadFirmware
  <2>1. Tried' = Tried \cup {"hdvicp", "hdvpss"}
      BY <1>5, AttemptTries DEF LoadFirmware
  <2> QED BY <1>5, <2>1 DEF LoadFirmware, Goes
<1>6. CASE LoadVideo
  <2>1. /\ "ti81xxfb" \in modules' => "vpss" \in modules'
        /\ modules \subseteq modules'
      BY <1>6 DEF LoadVideo, Loaded
  <2> QED BY <1>6, <2>1 DEF LoadVideo, Goes, Tried
<1>7. CASE ConfigureLcd
  <2>1. Tried' = Tried \cup Display(modules, {"lcd"})
      BY <1>7, AttemptTries DEF ConfigureLcd
  <2> QED BY <1>7, <2>1 DEF ConfigureLcd, Goes, Display
<1>8. CASE SetResolution
  <2>1. Tried' = Tried \cup {"resolution"}
      BY <1>8, AttemptTries DEF SetResolution
  <2> QED BY <1>8, <2>1 DEF SetResolution, Goes
<1>9. CASE HwSetup \/ HwWait \/ HwPins
    BY <1>9 DEF HwSetup, HwWait, HwPins, Starts, Goes
<1>10. ASSUME NEW n \in Node, MakeNode(n) PROVE Complete' /\ Started'
    BY <1>10 DEF MakeNode, Announced, Tried
<1>11. CASE UNCHANGED bootVars
    BY <1>11 DEF bootVars, Tried
<1> QED BY <1>1, <1>2, <1>3, <1>4, <1>5, <1>6, <1>7, <1>8, <1>9, <1>10, <1>11 DEF BootNext,
       Script

\* The links and the release do not change, so that a camera that is not complete
\* stays so.
LEMMA StaysIncomplete == ~Complete /\ [BootNext]_bootVars => ~Complete'
BY DEF Complete, given, bootVars, BootNext, Script, Udev, VidOrder, Camera,
       LoadSyslink, LoadFirmware, LoadVideo, ConfigureLcd, SetResolution,
       HwSetup, HwWait, HwPins, MakeNode

\* Whatever does not load, whichever commands fail, and however late udev is, an
\* Arago camera with all its links has tried everything camApp relies on when the
\* time for it was there, before it starts camApp.
THEOREM CameraStartsLast == BootSpec => []NothingTooEarly
<1>1. BootInit => (Complete => Started)
    BY DEF BootInit, Complete, Started, InOrder, SetUp
<1>2. (Complete => Started) /\ [BootNext]_bootVars => (Complete => Started)'
    BY StartedNext, StaysIncomplete
<1>3. (Complete => Started) => NothingTooEarly
  <2> SUFFICES ASSUME Complete => Started, ~debian, camApp = "running", links = ToSet(Order)
               PROVE  Setting \subseteq done \cup failed
      BY DEF NothingTooEarly
  <2>1. Order = << "udev", "load-hd-firmware", "vidorder", "camera" >>
      BY DEF Order
  <2>2. DOMAIN Order = 1 .. 4
      BY <2>1
  <2>3. Complete
      BY <2>1, <2>2 DEF Complete, ToSet
  <2> QED BY <2>3 DEF Started, InOrder, SetUp, Tried, Setting
<1> QED BY <1>1, <1>2, <1>3, PTL DEF BootSpec

\* What an Arago boot that waits relies on. The services before the loader's have
\* been started; udev, if it has a link, is one of them.
Prepared ==
    /\ at \in {"ipc", "video", "lcd", "fb0"} => ~debian /\ "udev" \notin todo
    /\ "udev" \in links => "udev" \in todo \cup done
    /\ at = "ipc" /\ "syslink" \in good => "syslink" \in modules
    /\ at \in {"lcd", "fb0"} /\ {"vpss", "ti81xxfb"} \subseteq good => "ti81xxfb" \in modules

LEMMA UdevFirst ==
    ASSUME BootTypeOK, Starts("load-hd-firmware"), ~debian
    PROVE  "udev" \notin todo'
<1>1. Order = << "udev", "load-hd-firmware", "vidorder", "camera" >>
    BY DEF Order
<1>2. 2 \in DOMAIN Order /\ 1 \in 1 .. 2 - 1
    BY <1>1
<1>3. Before("udev", "load-hd-firmware")
    BY <1>1, <1>2 DEF Before
<1> QED BY <1>3 DEF Starts

\* Only the services of the release have links.
Linked == links \subseteq ToSet(Order)

LEMMA PreparedNext ==
    ASSUME BootTypeOK, Linked, Prepared, [BootNext]_bootVars
    PROVE  Linked' /\ Prepared'
<1> USE DEF Prepared, given
<1>0. Linked'
  <2>1. Order' = Order /\ links' = links
      BY DEF BootNext, Script, Udev, VidOrder, Camera, LoadSyslink, LoadFirmware, LoadVideo,
             ConfigureLcd, SetResolution, HwSetup, HwWait, HwPins, MakeNode, bootVars, Order
  <2> QED BY <2>1 DEF Linked
<1>1. CASE Udev \/ VidOrder \/ Camera
    BY <1>0, <1>1 DEF Udev, VidOrder, Camera, Starts, Attempt
<1>2. CASE LoadSyslink
  <2>1. ~debian
    <3> SUFFICES ASSUME debian PROVE FALSE
        OBVIOUS
    <3>1. "load-hd-firmware" \in ToSet(Order)
        BY <1>0, <1>2 DEF LoadSyslink, Starts, Linked, BootTypeOK
    <3>2. Order = << "udev", "hwsetup", "camera" >> /\ DOMAIN Order = 1 .. 3
        BY DEF Order
    <3> QED BY <3>1, <3>2 DEF ToSet
  <2>2. "udev" \notin todo'
      BY <1>2, <2>1, UdevFirst DEF LoadSyslink
  <2> QED BY <1>0, <1>2, <2>1, <2>2 DEF LoadSyslink, Starts, Loaded
<1>3. CASE LoadFirmware \/ ConfigureLcd \/ SetResolution
    BY <1>0, <1>3 DEF LoadFirmware, ConfigureLcd, SetResolution, Goes, Attempt
<1>4. CASE LoadVideo
    BY <1>0, <1>4 DEF LoadVideo, Goes, Loaded
<1>5. CASE HwSetup \/ HwWait \/ HwPins
    BY <1>0, <1>5 DEF HwSetup, HwWait, HwPins, Starts, Goes, Loaded, Attempt
<1>6. ASSUME NEW n \in Node, MakeNode(n) PROVE Linked' /\ Prepared'
    BY <1>0, <1>6 DEF MakeNode
<1>7. CASE UNCHANGED bootVars
    BY <1>0, <1>7 DEF bootVars
<1> QED BY <1>0, <1>1, <1>2, <1>3, <1>4, <1>5, <1>6, <1>7 DEF BootNext, Script

\* Whichever links an update has left and whichever modules load, a boot waits
\* without bound only for what is still to come, or what nothing could bring: of
\* BootEnds the part that does not rest on fairness.
THEOREM WaitsForWhatComes == BootSpec => []WaitedForComes
<1>1. BootInit => BootTypeOK /\ Linked /\ Prepared
    BY BootAssumption DEF BootInit, BootTypeOK, Service, Module, Order, ToSet, Linked, Prepared
<1>2. BootTypeOK /\ Linked /\ Prepared /\ [BootNext]_bootVars
        => BootTypeOK' /\ Linked' /\ Prepared'
    BY BootTypesNext, PreparedNext
<1>3. Prepared => WaitedForComes
    BY DEF Prepared, WaitedForComes, Announced, Node
<1> QED BY <1>1, <1>2, <1>3, PTL DEF BootSpec

-----------------------------------------------------------------------------
(* The pictures.                                                           *)

USE SplashAssumption

Process == {"camera", "shell", "update"}

Processes ==
    /\ camera \in {"runs", "ending", "killed", "gone"}
    /\ shell \in {"waits", "naps", "ended"}
    /\ tries \in Nat /\ tries <= TIMEOUT
    /\ since \in [Process -> Nat]

\* A nap begins no later than Lag after camApp has gone, and ends no later than
\* Lag after its time; the update has waited from then on at the earliest.
Shell ==
    /\ shell = "naps" => camera = "gone"
    /\ camera = "gone" /\ shell = "waits" => since["shell"] <= Lag
    /\ shell = "naps" => since["shell"] <= Nap + Lag
Waited ==
    update = "settle" =>
        /\ camera = "gone"
        /\ shell = "waits" => since["update"] <= since["shell"]
        /\ shell = "naps" => since["update"] <= since["shell"] + Lag
Shown ==
    update \in {"remove", "copy"} /\ package.busy = "there" =>
        camera = "gone" /\ shell = "ended" /\ screen = "busy"

Picture == Processes /\ Shell /\ Waited /\ Shown

\* Each look but the last has been slept after.
Looked ==
    /\ update = "wait" /\ camera = "ending" => since["camera"] + tries >= TIMEOUT
    /\ update = "sleep" /\ camera = "ending" =>
         /\ since["camera"] + tries + 1 >= TIMEOUT
         /\ since["update"] >= 1 => since["camera"] + tries >= TIMEOUT
    /\ update \in {"start", "sums"} => tries = TIMEOUT

LEMMA PictureInit == SplashInit => Picture /\ Looked
BY DEF SplashInit, Picture, Processes, Shell, Waited, Shown, Looked, Process

LEMMA ProcessesNext == Processes /\ [SplashNext]_splashVars => Processes'
<1> SUFFICES ASSUME Processes, [SplashNext]_splashVars PROVE Processes'
    OBVIOUS
<1> USE DEF Processes, Process
<1>1. CASE KillCamApp
    BY <1>1 DEF KillCamApp
<1>2. CASE CheckSums
    BY <1>2 DEF CheckSums, Restart
<1>3. CASE LookFor
    BY <1>3 DEF LookFor, Restart
<1>4. CASE LookAgain \/ DrawBusy \/ DrawAgain \/ Reboot
    BY <1>4 DEF LookAgain, DrawBusy, DrawAgain, Reboot, Restart
<1>5. CASE CameraEnds \/ ExitSplash
    BY <1>5 DEF CameraEnds, ExitSplash, Restart
<1>6. CASE Tick
    BY <1>6 DEF Tick
<1>7. CASE UNCHANGED splashVars
    BY <1>7 DEF splashVars
<1> QED BY <1>1, <1>2, <1>3, <1>4, <1>5, <1>6, <1>7 DEF SplashNext

\* What a tick does to the clocks that are looked at.
LEMMA TickClocks ==
    ASSUME Processes, Tick
    PROVE  /\ \A p \in Process : since'[p] = IF since[p] < Bound THEN since[p] + 1 ELSE since[p]
           /\ \A p \in Process : since[p] < Deadline(p)
           /\ Bound \in Nat /\ Bound >= TIMEOUT /\ Bound > Nap + Lag
BY DEF Tick, Processes, Process, Bound, Settle, Nap

LEMMA PictureNext ==
    ASSUME Nap + 2 * Lag < Settle, Picture, [SplashNext]_splashVars
    PROVE  Picture'
<1>0. Processes /\ Processes' /\ Lag \in Nat
    BY ProcessesNext DEF Picture, Processes
<1> USE <1>0
<1>1. CASE KillCamApp
    BY <1>1 DEF KillCamApp, Picture, Processes, Shell, Waited, Shown, Process, Nap
<1>2. CASE CheckSums
    BY <1>2 DEF CheckSums, Restart, Picture, Processes, Shell, Waited, Shown,
           Process, Nap
<1>3. CASE LookFor
    BY <1>3 DEF LookFor, Restart, Picture, Processes, Shell, Waited, Shown, Process,
           Nap
<1>4. CASE LookAgain \/ Reboot
    BY <1>4 DEF LookAgain, Reboot, Restart, Picture, Processes, Shell, Waited,
           Shown, Process, Nap
<1>5. CASE DrawBusy
  <2>1. since["update"] >= Settle /\ camera = "gone" /\ update = "settle"
      BY <1>5 DEF DrawBusy, Due, Picture, Waited
  <2>2. shell = "ended"
      BY <2>1 DEF Picture, Processes, Shell, Waited, Process, Nap, Settle
  <2> QED BY <1>5, <2>1, <2>2 DEF DrawBusy, Restart, Picture, Processes, Shell,
         Waited, Shown, Process, Nap
<1>6. CASE DrawAgain
    BY <1>6 DEF DrawAgain, Restart, Picture, Processes, Shell, Waited, Shown,
           Process, Nap
<1>7. CASE CameraEnds
    BY <1>7 DEF CameraEnds, Picture, Processes, Shell, Waited, Shown, Process, Nap
<1>8. CASE ExitSplash
    BY <1>8 DEF ExitSplash, Due, Restart, Picture, Processes, Shell, Waited,
           Shown, Process, Nap
<1>9. CASE Tick
  <2>1. UNCHANGED << package, camera, shell, update, tries, screen >>
      BY <1>9 DEF Tick
  <2>2. /\ camera = "gone" /\ shell = "waits" => since["shell"] < Lag
        /\ shell = "naps" => since["shell"] < Nap + Lag
    <3>1. Deadline("shell") = IF camera # "gone" \/ shell = "ended" THEN Never
                              ELSE IF shell = "waits" THEN Lag ELSE Nap + Lag
        BY DEF Deadline
    <3>2. since["shell"] < Deadline("shell")
        BY <1>9, TickClocks DEF Process
    <3> QED BY <3>1, <3>2 DEF Picture, Shell
  <2>3. /\ since'["shell"] = IF since["shell"] < Bound THEN since["shell"] + 1 ELSE since["shell"]
        /\ since'["update"] = IF since["update"] < Bound THEN since["update"] + 1 ELSE since["update"]
        /\ since["shell"] \in Nat /\ since["update"] \in Nat
        /\ Bound \in Nat /\ Bound > Nap + Lag
      BY <1>9, TickClocks DEF Processes, Process
  <2>4. Shell'
      BY <2>1, <2>2, <2>3 DEF Picture, Shell, Nap
  <2>5. Waited'
      BY <2>1, <2>2, <2>3 DEF Picture, Processes, Waited, Nap
  <2> QED BY <2>1, <2>4, <2>5 DEF Picture, Shown
<1>10. CASE UNCHANGED splashVars
    BY <1>10 DEF splashVars, Picture, Processes, Shell, Waited, Shown
<1> QED BY <1>1, <1>2, <1>3, <1>4, <1>5, <1>6, <1>7, <1>8, <1>9, <1>10 DEF SplashNext

\* As long as Nap + 2 * Lag < Settle, that is, as long as no process is late by
\* 0.15 s or more, the update's picture stays.
THEOREM BusyStays ==
    Nap + 2 * Lag < Settle => (SplashSpec => []BusyShown)
<1> SUFFICES ASSUME Nap + 2 * Lag < Settle
             PROVE  SplashSpec => []BusyShown
    OBVIOUS
<1>1. SplashInit => Picture
    BY PictureInit
<1>2. Picture /\ [SplashNext]_splashVars => Picture'
    BY PictureNext
<1>3. Picture => BusyShown
    BY DEF Picture, Shown, BusyShown
<1> QED BY <1>1, <1>2, <1>3, PTL DEF SplashSpec

LEMMA LookedNext == Processes /\ Looked /\ [SplashNext]_splashVars => Looked'
<1> SUFFICES ASSUME Processes, Looked, [SplashNext]_splashVars PROVE Looked'
    OBVIOUS
<1>0. Processes'
    BY ProcessesNext
<1> USE <1>0 DEF Processes, Looked, Process
<1>1. CASE KillCamApp
    BY <1>1 DEF KillCamApp
<1>2. CASE CheckSums
    BY <1>2 DEF CheckSums, Restart
<1>3. CASE LookFor
    BY <1>3 DEF LookFor, Restart
<1>4. CASE LookAgain
    BY <1>4 DEF LookAgain, Due, Restart
<1>5. CASE DrawBusy \/ DrawAgain \/ Reboot
    BY <1>5 DEF DrawBusy, DrawAgain, Reboot, Restart
<1>6. CASE CameraEnds \/ ExitSplash
    BY <1>6 DEF CameraEnds, ExitSplash, Restart
<1>7. CASE Tick
  <2>1. /\ since'["camera"] = IF since["camera"] < Bound THEN since["camera"] + 1 ELSE since["camera"]
        /\ since'["update"] = IF since["update"] < Bound THEN since["update"] + 1 ELSE since["update"]
        /\ Bound \in Nat /\ Bound >= TIMEOUT
      BY <1>7, TickClocks
  <2>2. UNCHANGED << camera, update, tries >>
      BY <1>7 DEF Tick
  <2>3. since["camera"] \in Nat /\ since["update"] \in Nat /\ tries \in Nat
      OBVIOUS
  <2> QED BY <2>1, <2>2, <2>3
<1>8. CASE UNCHANGED splashVars
    BY <1>8 DEF splashVars
<1> QED BY <1>1, <1>2, <1>3, <1>4, <1>5, <1>6, <1>7, <1>8 DEF SplashNext

\* However late the processes are, camApp has TIMEOUT tenths of a second.
THEOREM CameraHasTime == SplashSpec => TimeToEnd
<1>1. Processes /\ Looked /\ [SplashNext]_splashVars =>
        [camera = "ending" /\ camera' = "killed" => since["camera"] >= TIMEOUT]_splashVars
  <2> SUFFICES ASSUME Processes, Looked, SplashNext, camera = "ending", camera' = "killed"
               PROVE  since["camera"] >= TIMEOUT
      OBVIOUS
  <2>1. LookFor
      BY DEF SplashNext, KillCamApp, CheckSums, LookAgain, DrawBusy,
             DrawAgain, Reboot, CameraEnds,
             ExitSplash, Tick
  <2>2. tries = 0 /\ update = "wait"
      BY <2>1 DEF LookFor
  <2> QED BY <2>2 DEF Looked, Processes, Process
<1> QED BY <1>1, PictureInit, ProcessesNext, LookedNext, PTL DEF SplashSpec, TimeToEnd, Picture

\* A step that is no tick: each clock goes on, with no earlier deadline, or begins anew.
LEMMA Clocks ==
    ASSUME SplashTypeOK, since' \in [Process -> Nat],
           \A p \in Process : since'[p] = 0 \/ (since'[p] = since[p] /\ Deadline(p)' = Deadline(p))
    PROVE  \A p \in DOMAIN since' : since'[p] <= Deadline(p)'
<1>1. \A p \in Process : Deadline(p)' \in Nat
    BY DEF Process, Deadline, Never, Bound, Settle,
           Nap
<1> QED BY <1>1 DEF SplashTypeOK, Process

LEMMA SplashTypesNext ==
    SplashTypeOK /\ [SplashNext]_splashVars => SplashTypeOK'
<1> SUFFICES ASSUME SplashTypeOK, [SplashNext]_splashVars PROVE SplashTypeOK'
    OBVIOUS
<1>1. Processes /\ Processes'
    BY ProcessesNext DEF SplashTypeOK, Processes, Process
<1>2. package' = package
    BY DEF SplashNext, KillCamApp, CheckSums, LookFor, LookAgain,
           DrawBusy, DrawAgain, Reboot, CameraEnds,
           ExitSplash, Tick, splashVars
<1>3. update' \in {"start", "sums", "failed", "wait", "sleep", "settle", "remove", "copy", "reboot"}
    BY DEF SplashTypeOK, SplashNext, KillCamApp, CheckSums, LookFor,
           LookAgain, DrawBusy, DrawAgain, Reboot,
           CameraEnds, ExitSplash, Tick, splashVars
<1>4. screen' \in {"camera", "shutdown", "busy", "checksum"}
    BY DEF SplashTypeOK, SplashNext, KillCamApp, CheckSums, LookFor,
           LookAgain, DrawBusy, DrawAgain, Reboot,
           CameraEnds, ExitSplash, Tick, splashVars
<1>5. \A p \in DOMAIN since' : since'[p] <= Deadline(p)'
  <2>1. CASE Tick
    <3>1. \A p \in Process : Deadline(p)' = Deadline(p) /\ Deadline(p) \in Nat
        BY <2>1 DEF Tick, Process, Deadline, Never,
               Bound, Settle, Nap
    <3>2. \A p \in Process : since[p] < Deadline(p) /\ since[p] \in Nat /\ since'[p] \in Nat
        BY <2>1, <1>1 DEF Tick, Processes, Process
    <3>3. \A p \in Process : since'[p] = since[p] + 1 \/ since'[p] = since[p]
        BY <2>1, <1>1, TickClocks
    <3>4. DOMAIN since' = Process
        BY <1>1 DEF Processes
    <3> QED BY <3>1, <3>2, <3>3, <3>4
  <2>2. CASE ~Tick
    <3> USE DEF Process, Restart
    <3>1. \/ Deadline("camera")' = Deadline("camera") /\ since'["camera"] = since["camera"]
          \/ since'["camera"] = 0
        BY <1>1, <2>2 DEF SplashTypeOK, Processes, Deadline, SplashNext, KillCamApp, CheckSums, LookFor,
               LookAgain, DrawBusy, DrawAgain, Reboot, CameraEnds, ExitSplash, splashVars, Never, Bound
    <3>2. \/ Deadline("shell")' = Deadline("shell") /\ since'["shell"] = since["shell"]
          \/ since'["shell"] = 0
        BY <1>1, <2>2 DEF SplashTypeOK, Processes, Deadline, SplashNext, KillCamApp, CheckSums, LookFor,
               LookAgain, DrawBusy, DrawAgain, Reboot, CameraEnds, ExitSplash, splashVars, Never, Bound
    <3>3. \/ Deadline("update")' = Deadline("update") /\ since'["update"] = since["update"]
          \/ since'["update"] = 0
        BY <1>1, <2>2 DEF SplashTypeOK, Processes, Deadline, SplashNext, KillCamApp, CheckSums, LookFor,
               LookAgain, DrawBusy, DrawAgain, Reboot, CameraEnds, ExitSplash, splashVars, Never, Bound
    <3> QED BY <1>1, <3>1, <3>2, <3>3, Clocks DEF Processes
  <2> QED BY <2>1, <2>2
<1> QED BY <1>1, <1>2, <1>3, <1>4, <1>5 DEF SplashTypeOK, Processes, Process

\* The variables have their types, and no process is late by more than Lag.
THEOREM SplashTypes == SplashSpec => []SplashTypeOK
<1>1. SplashInit => SplashTypeOK
    BY DEF SplashInit, SplashTypeOK, Deadline, Never,
           Bound, Settle, Nap
<1> QED BY <1>1, SplashTypesNext, PTL DEF SplashSpec
=============================================================================
