------------------------- MODULE DebianUpdateProofs -------------------------
(***************************************************************************)
(* Safety of DebianUpdate for pipes of every size and every PMIC version.  *)
(***************************************************************************)
EXTENDS DebianUpdate, TLAPS

Told == \E i \in 1 .. Len(toUi) : toUi[i] = "WriteDone"

LEMMA TypeInit == Init => TypeOK
<1> SUFFICES ASSUME Init PROVE TypeOK
    OBVIOUS
<1>1. toBackend \in Seq(Lines) /\ Len(toBackend) <= PipeCap
  <2>1. toBackend = << >>
        BY DEF Init
  <2> QED BY <2>1, ConstantAssumption
<1>2. toUi \in Seq(Answers) /\ Len(toUi) <= PipeCap
  <2>1. toUi = << >>
        BY DEF Init
  <2> QED BY <2>1, ConstantAssumption
<1>3. pmic \in Nat /\ asked \in 0 .. MaxSyscheck
      BY ConstantAssumption DEF Init
<1>4. pc = "open" /\ line = "none" /\ usbChecked = 0 /\ ui = "checking"
      /\ dd = "none" /\ target = "none" /\ image = "none"
      BY DEF Init
<1>5. card \in {"in", "mounted", "empty"} /\ gz \in {"good", "bad"} /\ hex \in {"good", "missing"}
      /\ fault \in {"none", "some"}
      BY DEF Init
<1> QED BY <1>1, <1>2, <1>3, <1>4, <1>5 DEF TypeOK

LEMMA EchoType ==
    ASSUME TypeOK, NEW lines \in Seq(Answers), NEW next, Echo(lines, next)
    PROVE  toUi' \in Seq(Answers) /\ Len(toUi') <= PipeCap /\ pc' \in {next, "dead"}
<1>1. CASE ui = "dead"
      BY <1>1 DEF TypeOK, Echo
<1>2. CASE ui # "dead"
  <2>1. toUi \in Seq(Answers) /\ toUi' = toUi \o lines
        /\ Len(toUi) + Len(lines) <= PipeCap /\ pc' = next
        BY <1>2 DEF TypeOK, Echo
  <2> QED BY <2>1
<1> QED BY <1>1, <1>2

LEMMA AnswersType ==
    /\ << "Text" >> \in Seq(Answers) /\ << "WriteDone" >> \in Seq(Answers)
    /\ << "TopSD" >> \in Seq(Answers) /\ << "TopSD", "USBCheck" >> \in Seq(Answers)
BY DEF Answers

LEMMA TypeStep == TypeOK /\ [Next]_vars => TypeOK'
<1> SUFFICES ASSUME TypeOK, [Next]_vars PROVE TypeOK'
    OBVIOUS
<1> USE DEF TypeOK, talk, people, package, writing
<1>1. CASE Open
      BY <1>1 DEF Open
<1>2. CASE Backend
  <2>1. CASE Read
    <3>1. toBackend' \in Seq(Lines) /\ Len(toBackend') <= PipeCap
          BY <2>1, ConstantAssumption DEF Read
    <3>2. line' \in Lines \cup {"none"}
      <4>1. CASE toBackend = << >>
            BY <2>1, <4>1 DEF Read, NextLine
      <4>2. CASE toBackend # << >>
            BY <2>1, <4>2 DEF Read, NextLine
      <4> QED BY <4>1, <4>2
    <3>3. pc' \in {pc, "syscheck", "umount", "shutdown"}
          BY <2>1 DEF Read
    <3> QED BY <2>1, <3>1, <3>2, <3>3 DEF Read
  <2>2. CASE Syscheck
    <3>1. toUi' \in Seq(Answers) /\ Len(toUi') <= PipeCap /\ pc' \in {"read", "dead"}
      <4>1. CASE usbChecked = 1
        <5>1. Echo(<< "TopSD" >>, "read")
              BY <2>2, <4>1 DEF Syscheck
        <5> QED BY <5>1, EchoType, AnswersType
      <4>2. CASE usbChecked # 1
        <5>1. Echo(<< "TopSD", "USBCheck" >>, "read")
              BY <2>2, <4>2 DEF Syscheck
        <5> QED BY <5>1, EchoType, AnswersType
      <4> QED BY <4>1, <4>2
    <3> QED BY <2>2, <3>1 DEF Syscheck
  <2>3. CASE Umount
    <3>1. toUi' \in Seq(Answers) /\ Len(toUi') <= PipeCap /\ pc' \in {"fork", "pmic", "dead"}
      <4>1. CASE hex = "missing"
            BY <2>3, <4>1 DEF Umount
      <4>2. CASE hex # "missing"
        <5>1. Echo(<< "Text" >>, "pmic")
              BY <2>3, <4>2 DEF Umount
        <5> QED BY <5>1, EchoType, AnswersType
      <4> QED BY <4>1, <4>2
    <3> QED BY <2>3, <3>1 DEF Umount
  <2>4. CASE PmicSkip \/ PmicOld
        BY <2>4, EchoType, AnswersType DEF PmicSkip, PmicOld
  <2>5. CASE FlashErase
        BY <2>5 DEF FlashErase
  <2>6. CASE FlashWrite
        BY <2>6, ConstantAssumption DEF FlashWrite
  <2>7. CASE Fork
        BY <2>7 DEF Fork
  <2>8. CASE Poll
    <3>1. toUi' \in Seq(Answers) /\ Len(toUi') <= PipeCap
      <4>1. CASE UNCHANGED toUi
            BY <4>1
      <4>2. CASE toUi' = Append(toUi, "Statistics") /\ Len(toUi) < PipeCap
        <5>1. "Statistics" \in Answers
              BY DEF Answers
        <5> QED BY <4>2, <5>1, ConstantAssumption
      <4> QED BY <2>8, <4>1, <4>2 DEF Poll, SignalDd
    <3>2. pc' \in {pc, "written"} /\ dd' \in {dd, "failed"} /\ fault' \in {fault, "some"}
          BY <2>8 DEF Poll, SignalDd
    <3> QED BY <2>8, <3>1, <3>2 DEF Poll, SignalDd
  <2>9. CASE WriteDone
    <3>1. Echo(<< "WriteDone" >>, "wait")
          BY <2>9 DEF WriteDone
    <3>2. toUi' \in Seq(Answers) /\ Len(toUi') <= PipeCap /\ pc' \in {"wait", "dead"}
          BY <3>1, EchoType, AnswersType
    <3> QED BY <2>9, <3>2 DEF WriteDone
  <2>10. CASE Shutdown
        BY <2>10 DEF Shutdown
  <2> QED BY <1>2, <2>1, <2>2, <2>3, <2>4, <2>5, <2>6, <2>7, <2>8, <2>9, <2>10
          DEF Backend
<1>3. CASE Writer
      BY <1>3 DEF Writer, Exec, OpenTarget, Finish, WriteError
<1>4. CASE Interface
  <2>1. ASSUME NEW text \in Lines, Send(text)
        PROVE  toBackend' \in Seq(Lines) /\ Len(toBackend') <= PipeCap
        BY <2>1, ConstantAssumption DEF Send
  <2>2. CASE SendSyscheck
    <3>1. toBackend' \in Seq(Lines) /\ Len(toBackend') <= PipeCap
          BY <2>1, <2>2 DEF SendSyscheck, Lines
    <3> QED BY <2>2, <3>1, ConstantAssumption DEF SendSyscheck, Send
  <2>3. CASE SendStart \/ SendPowerDown
    <3>1. toBackend' \in Seq(Lines) /\ Len(toBackend') <= PipeCap
          BY <2>1, <2>3 DEF SendStart, SendPowerDown, Lines
    <3> QED BY <2>3, <3>1 DEF SendStart, SendPowerDown, Send
  <2>4. CASE Receive
    <3>1. toUi' \in Seq(Answers) /\ Len(toUi') <= PipeCap
          BY <2>4, ConstantAssumption DEF Receive
    <3> QED BY <2>4, <3>1 DEF Receive
  <2> QED BY <1>4, <2>2, <2>3, <2>4 DEF Interface
<1>5. CASE UiDies
  <2>1. toUi' \in Seq(Answers) /\ Len(toUi') <= PipeCap
        BY <1>5, ConstantAssumption DEF UiDies
  <2> QED BY <1>5, <2>1 DEF UiDies
<1>6. CASE MoveCard
      BY <1>6 DEF MoveCard
<1>7. CASE UNCHANGED vars
      BY <1>7 DEF vars
<1> QED BY <1>1, <1>2, <1>3, <1>4, <1>5, <1>6, <1>7 DEF Next

\* Every variable keeps its type; in particular no pipe overflows.
THEOREM TypeCorrect == Spec => []TypeOK
BY TypeInit, TypeStep, PTL DEF Spec

-----------------------------------------------------------------------------
\* dd is started after the PMIC is done, and has ended when the poll is over.
Early == {"open", "read", "syscheck", "umount", "pmic", "flash", "flashing", "fork"}
Order ==
    /\ pc \in Early => dd = "none"
    /\ pc = "flash" => pmic < PMICHEXVERSION
    /\ pc = "flashing" => pmic = 0

\* Nothing is said about the end of dd before it.
Honest ==
    /\ pc \in {"written", "wait", "shutdown", "off"} => Ended
    /\ ui = "done" \/ Told => Ended

LEMMA OrderStep == TypeOK /\ Order /\ [Next]_vars => Order'
<1> SUFFICES ASSUME TypeOK, Order, [Next]_vars PROVE Order'
    OBVIOUS
<1> USE DEF TypeOK, Order, Early, talk, people, package, writing
<1>1. CASE Open  BY <1>1 DEF Open
<1>2. CASE Backend
  <2>1. CASE Read      BY <2>1 DEF Read
  <2>2. CASE Syscheck  BY <2>2 DEF Syscheck, Echo
  <2>3. CASE Umount \/ PmicSkip \/ PmicOld
        BY <2>3 DEF Umount, PmicSkip, PmicOld, Echo
  <2>6. CASE FlashErase \/ FlashWrite \/ Fork
        BY <2>6 DEF FlashErase, FlashWrite, Fork
  <2>4. CASE Poll      BY <2>4 DEF Poll, SignalDd
  <2>5. CASE WriteDone \/ Shutdown  BY <2>5 DEF WriteDone, Echo, Shutdown
  <2> QED BY <1>2, <2>1, <2>2, <2>3, <2>4, <2>5, <2>6 DEF Backend
<1>3. CASE Writer
      BY <1>3 DEF Writer, Exec, OpenTarget, Finish, WriteError
<1>4. CASE Interface
      BY <1>4 DEF Interface, SendSyscheck, SendStart, SendPowerDown, Send, Receive
<1>5. CASE UiDies \/ MoveCard \/ UNCHANGED vars
      BY <1>5 DEF UiDies, MoveCard, vars
<1> QED BY <1>1, <1>2, <1>3, <1>4, <1>5 DEF Next

LEMMA HonestStep ==
    ASSUME StartsInTime
    PROVE  TypeOK /\ Order /\ Honest /\ [Next]_vars => Honest'
<1> SUFFICES ASSUME TypeOK, Order, Honest, [Next]_vars PROVE Honest'
    OBVIOUS
<1> USE DEF TypeOK, Honest, Ended, talk, people, package, writing
<1>1. CASE Open  BY <1>1 DEF Open, Told
<1>2. CASE Backend
  <2>1. CASE Read      BY <2>1 DEF Read, Told
  <2>2. CASE Syscheck
    <3>1. Told' => Told
          BY <2>2 DEF Syscheck, Echo, Told
    <3> QED BY <2>2, <3>1 DEF Syscheck, Echo
  <2>3. CASE Umount \/ PmicSkip \/ PmicOld
    <3>1. Told' => Told
          BY <2>3 DEF Umount, PmicSkip, PmicOld, Echo, Told
    <3> QED BY <2>3, <3>1 DEF Umount, PmicSkip, PmicOld, Echo
  <2>7. CASE FlashErase \/ FlashWrite
        BY <2>7 DEF FlashErase, FlashWrite, Told
  <2>4. CASE Fork
        BY <2>4 DEF Fork, Order, Early, Told
  <2>5. CASE Poll
    <3>1. Told' => Told
      <4>1. CASE UNCHANGED toUi
            BY <4>1 DEF Told
      <4>2. CASE toUi' = Append(toUi, "Statistics")
            BY <4>2 DEF Told
      <4> QED BY <2>5, <4>1, <4>2 DEF Poll, SignalDd
    <3>2. pc' = "written" => Ended'
          BY <2>5 DEF Poll, SignalDd
    <3>3. Ended => Ended'
          BY <2>5 DEF Poll, SignalDd
    <3> QED BY <2>5, <3>1, <3>2, <3>3 DEF Poll, SignalDd
  <2>6. CASE WriteDone \/ Shutdown
        BY <2>6 DEF WriteDone, Echo, Shutdown, Told
  <2> QED BY <1>2, <2>1, <2>2, <2>3, <2>4, <2>5, <2>6, <2>7 DEF Backend
<1>3. CASE Writer
      BY <1>3 DEF Writer, Exec, OpenTarget, Finish, WriteError, Told
<1>4. CASE Interface
  <2>1. CASE Receive
    <3>1. Told' => Told
          BY <2>1 DEF Receive, Told
    <3>2. ui' = "done" => ui = "done" \/ Told
          BY <2>1 DEF Receive, Told
    <3> QED BY <2>1, <3>1, <3>2 DEF Receive
  <2>2. CASE SendSyscheck \/ SendStart \/ SendPowerDown
        BY <2>2 DEF SendSyscheck, SendStart, SendPowerDown, Send, Told
  <2> QED BY <1>4, <2>1, <2>2 DEF Interface
<1>5. CASE UiDies
      BY <1>5 DEF UiDies, Told
<1>6. CASE MoveCard \/ UNCHANGED vars
      BY <1>6 DEF MoveCard, vars, Told
<1> QED BY <1>1, <1>2, <1>3, <1>4, <1>5, <1>6 DEF Next

\* Where nothing outside the backend has failed, dd writes to a card that is in
\* and not mounted, from a good archive, to the end.
Clean ==
    fault = "none" =>
        /\ gz = "good" /\ dd # "failed"
        /\ dd = "running" => target = "card" /\ card = "in"
        /\ dd = "done" => image = "all"

LEMMA CleanStep ==
    ASSUME StartsInTime
    PROVE  TypeOK /\ Order /\ Clean /\ [Next]_vars => Clean'
<1> SUFFICES ASSUME TypeOK, Order, Clean, [Next]_vars PROVE Clean'
    OBVIOUS
<1> USE DEF TypeOK, Clean, talk, people, package, writing
<1>1. CASE Open  BY <1>1 DEF Open
<1>2. CASE Backend
  <2>1. CASE Read \/ Syscheck \/ PmicSkip \/ PmicOld \/ WriteDone \/ Shutdown
        BY <2>1 DEF Read, Syscheck, PmicSkip, PmicOld, WriteDone, Shutdown
  <2>2. CASE Umount
    <3>1. dd = "none"
          BY <2>2 DEF Umount, Order, Early
    <3> QED BY <2>2, <3>1 DEF Umount
  <2>3. CASE FlashErase \/ FlashWrite \/ Fork
        BY <2>3 DEF FlashErase, FlashWrite, Fork
  <2>4. CASE Poll
        BY <2>4 DEF Poll, SignalDd
  <2> QED BY <1>2, <2>1, <2>2, <2>3, <2>4 DEF Backend
<1>3. CASE Writer
      BY <1>3 DEF Writer, Exec, OpenTarget, Finish, WriteError
<1>4. CASE Interface
      BY <1>4 DEF Interface, SendSyscheck, SendStart, SendPowerDown, Send, Receive
<1>5. CASE UiDies \/ UNCHANGED vars
      BY <1>5 DEF UiDies, vars
<1>6. CASE MoveCard
      BY <1>6 DEF MoveCard
<1> QED BY <1>1, <1>2, <1>3, <1>4, <1>5, <1>6 DEF Next

LEMMA OrderHolds == Spec => [](TypeOK /\ Order)
<1>1. Init => Order
      BY DEF Init, Order
<1> QED BY <1>1, TypeInit, TypeStep, OrderStep, PTL DEF Spec

\* If dd runs before the first poll, it has ended when the user is told so and
\* when the camera is shut down.
THEOREM DoneMeansEnded ==
    ASSUME StartsInTime
    PROVE  Spec => []SafeToPowerOff
<1>1. Init => Honest
      BY DEF Init, Honest, Told
<1>2. Honest => SafeToPowerOff
      BY DEF Honest, SafeToPowerOff
<1> QED BY <1>1, <1>2, OrderHolds, HonestStep, PTL DEF Spec

\* If dd runs before the first poll, what the user is told is done is the whole
\* image, unless something outside the backend failed.
THEOREM DoneMeansWhole ==
    ASSUME StartsInTime
    PROVE  Spec => []WholeUnlessFault
<1>1. Init => Honest /\ Clean
      BY DEF Init, Honest, Told, Clean
<1>2. Honest /\ Clean => WholeUnlessFault
      BY DEF Honest, Ended, Clean, WholeUnlessFault
<1> QED BY <1>1, <1>2, OrderHolds, HonestStep, CleanStep, PTL DEF Spec

\* The PMIC is programmed over older firmware only, before dd is started.
THEOREM PmicComesFirst == Spec => PmicBeforeImage
<1>1. TypeOK /\ Order /\ [Next]_vars =>
        [pmic' # pmic => pmic < PMICHEXVERSION /\ dd = "none"]_vars
  <2> SUFFICES ASSUME TypeOK, Order, Next, pmic' # pmic
               PROVE  pmic < PMICHEXVERSION /\ dd = "none"
      BY DEF vars
  <2>1. FlashErase \/ FlashWrite
        BY DEF Next, Open, Backend, Read, Syscheck, Umount, PmicSkip, PmicOld, Fork,
           Poll, SignalDd, WriteDone, Shutdown, Writer, Exec, OpenTarget, Finish,
           WriteError, Interface, SendSyscheck, SendStart, SendPowerDown, Send,
           Receive, UiDies, MoveCard
  <2> QED BY <2>1, ConstantAssumption DEF FlashErase, FlashWrite, Order, Early
<1> QED BY <1>1, OrderHolds, PTL DEF Spec, PmicBeforeImage

-----------------------------------------------------------------------------
(* What is in the pipes.                                                   *)

LEMMA HoldsTail ==
    ASSUME NEW S, NEW pipe \in Seq(S), pipe # << >>, NEW text
    PROVE  Holds(pipe, text) <=> Head(pipe) = text \/ Holds(Tail(pipe), text)
<1>1. ASSUME Holds(pipe, text) PROVE Head(pipe) = text \/ Holds(Tail(pipe), text)
  <2>1. PICK i \in 1 .. Len(pipe) : pipe[i] = text
        BY <1>1 DEF Holds
  <2>2. CASE i = 1
        BY <2>1, <2>2
  <2>3. CASE i # 1
    <3>1. i - 1 \in 1 .. Len(Tail(pipe)) /\ Tail(pipe)[i - 1] = text
          BY <2>1, <2>3
    <3> QED BY <3>1 DEF Holds
  <2> QED BY <2>2, <2>3
<1>2. ASSUME Head(pipe) = text PROVE Holds(pipe, text)
  <2>1. 1 \in 1 .. Len(pipe) /\ pipe[1] = text
        BY <1>2
  <2> QED BY <2>1 DEF Holds
<1>3. ASSUME Holds(Tail(pipe), text) PROVE Holds(pipe, text)
  <2>1. PICK i \in 1 .. Len(Tail(pipe)) : Tail(pipe)[i] = text
        BY <1>3 DEF Holds
  <2>2. i + 1 \in 1 .. Len(pipe) /\ pipe[i + 1] = text
        BY <2>1
  <2> QED BY <2>2 DEF Holds
<1> QED BY <1>1, <1>2, <1>3

LEMMA HoldsAppend ==
    ASSUME NEW S, NEW pipe \in Seq(S), NEW new \in S, NEW text
    PROVE  Holds(Append(pipe, new), text) <=> Holds(pipe, text) \/ new = text
<1>1. ASSUME Holds(Append(pipe, new), text) PROVE Holds(pipe, text) \/ new = text
      BY <1>1 DEF Holds
<1>2. ASSUME Holds(pipe, text) PROVE Holds(Append(pipe, new), text)
      BY <1>2 DEF Holds
<1>3. ASSUME new = text PROVE Holds(Append(pipe, new), text)
  <2>1. Len(pipe) + 1 \in 1 .. Len(Append(pipe, new))
        /\ Append(pipe, new)[Len(pipe) + 1] = text
        BY <1>3
  <2> QED BY <2>1 DEF Holds
<1> QED BY <1>1, <1>2, <1>3

\* A line read is taken from the pipe; one that is acted on was its first.
LEMMA ReadTakes ==
    ASSUME TypeOK, Read, NEW text
    PROVE  /\ Holds(toBackend', text) => Holds(toBackend, text)
           /\ Holds(toBackend, text) => line' = text \/ Holds(toBackend', text)
           /\ line' # "none" => Holds(toBackend, line')
<1>1. CASE toBackend = << >>
      BY <1>1 DEF Read, NextLine, Holds
<1>2. CASE toBackend # << >>
  <2>1. toBackend \in Seq(Lines) /\ toBackend' = Tail(toBackend) /\ line' = Head(toBackend)
        BY <1>2 DEF Read, NextLine, TypeOK
  <2> QED BY <1>2, <2>1, HoldsTail
<1> QED BY <1>1, <1>2

\* Only WriteDone announces the end.
LEMMA EchoSays ==
    ASSUME TypeOK, NEW lines \in Seq(Answers), NEW next, Echo(lines, next)
    PROVE  /\ Told => Told'
           /\ (~\E i \in 1 .. Len(lines) : lines[i] = "WriteDone") => (Told' => Told)
           /\ pc' = next \/ (pc' = "dead" /\ ui = "dead")
<1>1. CASE ui = "dead"
      BY <1>1 DEF Echo, Told
<1>2. CASE ui # "dead"
  <2>1. toUi \in Seq(Answers) /\ toUi' = toUi \o lines /\ pc' = next
        BY <1>2 DEF TypeOK, Echo
  <2>2. /\ Len(toUi') = Len(toUi) + Len(lines)
        /\ \A i \in 1 .. Len(toUi) : toUi'[i] = toUi[i]
        /\ \A i \in 1 .. Len(toUi') : i > Len(toUi) =>
              i - Len(toUi) \in 1 .. Len(lines) /\ toUi'[i] = lines[i - Len(toUi)]
        BY <2>1
  <2>3. Told => Told'
        BY <2>1, <2>2 DEF Told
  <2>4. ASSUME Told', ~\E i \in 1 .. Len(lines) : lines[i] = "WriteDone" PROVE Told
    <3>1. PICK i \in 1 .. Len(toUi') : toUi'[i] = "WriteDone"
          BY <2>4 DEF Told
    <3>2. i <= Len(toUi)
          BY <2>1, <2>2, <2>4, <3>1
    <3> QED BY <2>1, <2>2, <3>1, <3>2 DEF Told
  <2> QED BY <2>1, <2>3, <2>4
<1> QED BY <1>1, <1>2

-----------------------------------------------------------------------------
\* Whose turn it is: the user's before Start, the backend's up to WriteDone,
\* the user's again after it.  The backend has ended only where nobody waits.
Last == {"wait", "shutdown", "off"}
Turn ==
    /\ ui = "checking" => pc \in {"open", "read", "syscheck"} /\ ~Holds(toBackend, "Start")
    /\ pc = "dead" => ui = "dead"
    /\ pc \in Last => ui \in {"done", "dead"} \/ Told
    /\ Told \/ ui = "done" \/ Holds(toBackend, "PowerDown") => pc \in Last
    /\ StartIsServed

LEMMA TurnStep == TypeOK /\ Turn /\ [Next]_vars => Turn'
<1> SUFFICES ASSUME TypeOK, Turn, [Next]_vars PROVE Turn'
    OBVIOUS
<1>0. Told <=> Holds(toUi, "WriteDone")
      BY DEF Told, Holds
<1>00. (Told <=> Holds(toUi, "WriteDone"))'
      BY DEF Told, Holds
<1> USE <1>0, <1>00 DEF Turn, StartIsServed, Last, talk, people, package, writing
\* Nothing changes in either pipe.
<1>a. ASSUME UNCHANGED << toBackend, toUi >>
      PROVE  /\ Told' <=> Told
             /\ \A text \in Lines : Holds(toBackend', text) <=> Holds(toBackend, text)
      BY <1>a DEF Told, Holds
<1>1. CASE Open
      BY <1>1, <1>a DEF Open, Lines, TypeOK
<1>2. CASE Backend
  <2>1. CASE Read
    <3>1. UNCHANGED << toUi, ui >> /\ (Told' <=> Told)
          BY <2>1 DEF Read, Told
    <3>2. \A text \in {"Start", "PowerDown"} :
            /\ Holds(toBackend', text) => Holds(toBackend, text)
            /\ Holds(toBackend, text) => line' = text \/ Holds(toBackend', text)
          BY <2>1, ReadTakes
    <3>3. line' = "Start" => Holds(toBackend, "Start")
          BY <2>1, ReadTakes
    <3>4. CASE pc = "read"
      <4>1. pc' \in {"read", "syscheck", "umount"}
            /\ (pc' = "umount" <=> line' = "Start")
            BY <2>1, <3>4 DEF Read
      <4> QED BY <3>1, <3>2, <3>3, <3>4, <4>1
    <3>5. CASE pc = "wait"
      <4>1. pc' \in {"wait", "shutdown"}
            BY <2>1, <3>5 DEF Read
      <4> QED BY <3>1, <3>2, <3>5, <4>1
    <3> QED BY <2>1, <3>4, <3>5 DEF Read
  <2>2. CASE Syscheck \/ Umount \/ PmicSkip \/ PmicOld
    <3>1. UNCHANGED << toBackend, ui >>
          BY <2>2 DEF Syscheck, Umount, PmicSkip, PmicOld
    <3>2. Told' <=> Told
      <4>1. ASSUME NEW lines \in {<< "Text" >>, << "TopSD" >>, << "TopSD", "USBCheck" >>},
                   NEW next, Echo(lines, next)
            PROVE  Told' <=> Told
        <5>1. lines \in Seq(Answers)
              BY AnswersType
        <5>2. ~\E i \in 1 .. Len(lines) : lines[i] = "WriteDone"
              OBVIOUS
        <5> QED BY <4>1, <5>1, <5>2, EchoSays
      <4>2. CASE UNCHANGED toUi
            BY <4>2 DEF Told
      <4> QED BY <2>2, <4>1, <4>2 DEF Syscheck, Umount, PmicSkip, PmicOld
    <3>3. \/ pc = "syscheck" /\ pc' = "read"
          \/ pc \in {"umount", "pmic"} /\ pc' \in {"pmic", "flash", "fork"}
          \/ pc \in {"syscheck", "umount", "pmic"} /\ pc' = "dead" /\ ui = "dead"
          BY <2>2 DEF Syscheck, Umount, PmicSkip, PmicOld, Echo
    <3>4. \A text \in Lines : Holds(toBackend', text) <=> Holds(toBackend, text)
          BY <3>1 DEF Holds
    <3> QED BY <3>1, <3>2, <3>3, <3>4 DEF Lines
  <2>3. CASE FlashErase \/ FlashWrite \/ Fork \/ Shutdown
    <3>1. UNCHANGED << toBackend, toUi, ui >>
          BY <2>3 DEF FlashErase, FlashWrite, Fork, Shutdown
    <3>2. \/ pc \in {"flash", "flashing", "fork"} /\ pc' \in {"flashing", "fork", "poll"}
          \/ pc = "shutdown" /\ pc' = "off"
          BY <2>3 DEF FlashErase, FlashWrite, Fork, Shutdown
    <3> QED BY <1>a, <3>1, <3>2 DEF Lines
  <2>4. CASE Poll
    <3>1. UNCHANGED << toBackend, ui >> /\ pc = "poll" /\ pc' \in {"poll", "written"}
          BY <2>4 DEF Poll, SignalDd
    <3>2. Told' <=> Told
      <4>1. CASE UNCHANGED toUi
            BY <4>1 DEF Told
      <4>2. CASE toUi' = Append(toUi, "Statistics")
        <5>1. toUi \in Seq(Answers) /\ "Statistics" \in Answers
              BY DEF TypeOK, Answers
        <5> QED BY <4>2, <5>1, HoldsAppend
      <4> QED BY <2>4, <4>1, <4>2 DEF Poll, SignalDd
    <3>3. \A text \in Lines : Holds(toBackend', text) <=> Holds(toBackend, text)
          BY <3>1 DEF Holds
    <3> QED BY <3>1, <3>2, <3>3 DEF Lines
  <2>5. CASE WriteDone
    <3>1. UNCHANGED << toBackend, ui >> /\ pc = "written" /\ Echo(<< "WriteDone" >>, "wait")
          BY <2>5 DEF WriteDone
    <3>2. \A text \in Lines : Holds(toBackend', text) <=> Holds(toBackend, text)
          BY <3>1 DEF Holds
    <3>3. CASE ui = "dead"
      <4>1. pc' = "dead" /\ (Told' <=> Told)
            BY <3>1, <3>3 DEF Echo, Told
      <4> QED BY <3>1, <3>2, <3>3, <4>1 DEF Lines
    <3>4. CASE ui # "dead"
      <4>1. toUi \in Seq(Answers) /\ toUi' = toUi \o << "WriteDone" >> /\ pc' = "wait"
            BY <3>1, <3>4 DEF Echo, TypeOK
      <4>2. Len(toUi) + 1 \in 1 .. Len(toUi') /\ toUi'[Len(toUi) + 1] = "WriteDone"
            BY <4>1
      <4>3. Told'
            BY <4>2 DEF Told
      <4> QED BY <3>1, <3>2, <4>1, <4>3 DEF Lines
    <3> QED BY <3>3, <3>4
  <2> QED BY <1>2, <2>1, <2>2, <2>3, <2>4, <2>5 DEF Backend
<1>3. CASE Writer
      BY <1>3, <1>a DEF Writer, Exec, OpenTarget, Finish, WriteError, Lines
<1>4. CASE Interface
  <2>1. CASE SendSyscheck \/ SendStart \/ SendPowerDown
    <3>1. UNCHANGED << pc, toUi >> /\ (Told' <=> Told)
          BY <2>1 DEF SendSyscheck, SendStart, SendPowerDown, Send, Told
    <3>2. PICK new \in Lines : /\ Send(new)
                               /\ new = "Start" => ui = "checking" /\ ui' = "started"
                               /\ new = "Syscheck" => ui = "checking" /\ ui' = ui
                               /\ new = "PowerDown" => ui = "done" /\ ui' = ui
          BY <2>1 DEF SendSyscheck, SendStart, SendPowerDown, Lines
    <3>3. \A text \in Lines :
            Holds(toBackend', text) <=> Holds(toBackend, text) \/ new = text
          BY <3>2, HoldsAppend DEF Send, TypeOK
    <3> QED BY <3>1, <3>2, <3>3 DEF Lines
  <2>2. CASE Receive
    <3>1. UNCHANGED << pc, toBackend >> /\ ui # "dead" /\ toUi # << >> /\ toUi' = Tail(toUi)
          /\ ui' = IF Head(toUi) = "WriteDone" THEN "done" ELSE ui
          BY <2>2 DEF Receive
    <3>2. Told <=> Head(toUi) = "WriteDone" \/ Told'
          BY <3>1, HoldsTail DEF TypeOK
    <3>3. \A text \in Lines : Holds(toBackend', text) <=> Holds(toBackend, text)
          BY <3>1 DEF Holds
    <3> QED BY <3>1, <3>2, <3>3 DEF Lines
  <2> QED BY <1>4, <2>1, <2>2 DEF Interface
<1>5. CASE UiDies
  <2>1. UNCHANGED << pc, toBackend >> /\ ui' = "dead" /\ ~Told'
        BY <1>5 DEF UiDies, Told
  <2>2. \A text \in Lines : Holds(toBackend', text) <=> Holds(toBackend, text)
        BY <2>1 DEF Holds
  <2> QED BY <2>1, <2>2 DEF Lines
<1>6. CASE MoveCard \/ UNCHANGED vars
      BY <1>6, <1>a DEF MoveCard, vars, Lines
<1> QED BY <1>1, <1>2, <1>3, <1>4, <1>5, <1>6 DEF Next

LEMMA TurnHolds == Spec => [](TypeOK /\ Turn)
<1>1. Init => Turn
      BY DEF Init, Turn, Last, Told, Holds, StartIsServed
<1> QED BY <1>1, TypeInit, TypeStep, TurnStep, PTL DEF Spec

\* Whoever has pressed Start and waits still has the line in the pipe, the
\* backend at work, or WriteDone on its way; a PowerDown is in the pipe only
\* where the backend waits for it or has read it.  Of WriteDoneDelivered and
\* PowerDownHonoured this is the part that does not rest on fairness.
THEOREM NobodyForgotten == Spec => []NobodyWaitsInVain
<1>1. Turn => NobodyWaitsInVain
      BY DEF Turn, NobodyWaitsInVain, PowerDownIsHeard, Last
<1> QED BY <1>1, TurnHolds, PTL

-----------------------------------------------------------------------------
(* The dialogue the user sees.                                             *)

\* The whole image is there only when dd has ended.
WholeAtEnd == image = "all" => Ended

LEMMA WholeStep ==
    ASSUME StartsInTime
    PROVE  TypeOK /\ Order /\ WholeAtEnd /\ [Next]_vars => WholeAtEnd'
<1> SUFFICES ASSUME TypeOK, Order, WholeAtEnd, [Next]_vars PROVE WholeAtEnd'
    OBVIOUS
<1> USE DEF TypeOK, WholeAtEnd, Ended, talk, people, package, writing
<1>1. CASE Backend
  <2>1. CASE Fork
        BY <2>1 DEF Fork, Order, Early
  <2>2. CASE Poll
        BY <2>2 DEF Poll, SignalDd
  <2>3. CASE Read \/ Syscheck \/ Umount \/ PmicSkip \/ PmicOld \/ FlashErase \/ FlashWrite
             \/ WriteDone \/ Shutdown
        BY <2>3 DEF Read, Syscheck, Umount, PmicSkip, PmicOld, FlashErase, FlashWrite,
           WriteDone, Shutdown
  <2> QED BY <1>1, <2>1, <2>2, <2>3 DEF Backend
<1>2. CASE Writer
      BY <1>2 DEF Writer, Exec, OpenTarget, Finish, WriteError
<1>3. CASE Open \/ Interface \/ UiDies \/ MoveCard \/ UNCHANGED vars
      BY <1>3 DEF Open, Interface, SendSyscheck, SendStart, SendPowerDown, Send, Receive,
         UiDies, MoveCard, vars
<1> QED BY <1>1, <1>2, <1>3 DEF Next

Shown == << ui, Stage, image = "all", fault = "some", pmic, pc # "off" >>
Asked == Holds(toBackend, "Start") \/ pc \in {"umount", "pmic", "flash", "flashing", "fork"}

\* While the processes of the backend talk or poll, the user sees no step.
LEMMA NothingShown ==
    ASSUME TypeOK, TypeOK',
           UNCHANGED << ui, dd, image, fault, pmic >>,
           dd = "none" => (Asked' <=> Asked),
           pc = "off" <=> pc' = "off"
    PROVE  UNCHANGED Shown
<1>1. Stage' = Stage
  <2>1. Ended' <=> Ended
        BY DEF Ended
  <2>2. (dd # "none" \/ (Asked' <=> Asked)) /\ dd' = dd
        OBVIOUS
  <2> QED BY <2>1, <2>2 DEF Stage, Asked, TypeOK, Ended
<1>2. (image' = "all") = (image = "all") /\ (fault' = "some") = (fault = "some")
      /\ (pc' # "off") = (pc # "off")
      OBVIOUS
<1> QED BY <1>1, <1>2 DEF Shown

LEMMA ShownStep ==
    ASSUME StartsInTime, TypeOK, TypeOK', Order, Honest, Clean, Turn, WholeAtEnd,
           [Next]_vars
    PROVE  [Word!Next]_Shown
<1> SUFFICES ASSUME Next PROVE Word!Next \/ UNCHANGED Shown
  <2>1. CASE UNCHANGED vars
    <3>1. UNCHANGED << ui, dd, image, fault, pmic, pc >> /\ (Asked' <=> Asked)
          BY <2>1 DEF vars, Asked, Holds
    <3> QED BY <3>1, NothingShown
  <2> QED BY <2>1
<1> USE DEF talk, people, package, writing
<1>on. pc # "off"
       BY DEF Next
<1>1. CASE Open
  <2>1. UNCHANGED << ui, dd, image, fault, pmic >> /\ pc' \in {"open", "read"}
        /\ pc = "open" /\ (Asked' <=> Asked)
        BY <1>1 DEF Open, Asked, Holds
  <2> QED BY <2>1, NothingShown
<1>2. CASE Backend
  <2>1. CASE Read
    <3>1. UNCHANGED << ui, dd, image, fault, pmic >> /\ pc \in {"read", "wait"}
          /\ pc' \in {"read", "wait", "syscheck", "umount", "shutdown"}
          BY <2>1 DEF Read
    <3>2. CASE pc = "read"
      <4>1. pc' \in {"read", "syscheck", "umount"} /\ (pc' = "umount" <=> line' = "Start")
            BY <2>1, <3>2 DEF Read
      <4>2. Asked' <=> Asked
            BY <2>1, <3>2, <4>1, ReadTakes DEF Asked
      <4> QED BY <3>1, <4>2, NothingShown
    <3>3. CASE pc = "wait"
      <4>1. dd # "none"
            BY <3>3 DEF Honest, Ended
      <4> QED BY <3>1, <4>1, NothingShown
    <3> QED BY <3>1, <3>2, <3>3
  <2>2. CASE Syscheck
    <3>1. UNCHANGED << ui, dd, image, fault, pmic, toBackend >> /\ pc = "syscheck"
          /\ pc' \in {"read", "dead"}
          BY <2>2 DEF Syscheck, Echo
    <3>2. Asked' <=> Asked
          BY <3>1 DEF Asked, Holds
    <3> QED BY <3>1, <3>2, NothingShown
  <2>3. CASE Umount \/ PmicSkip \/ PmicOld
    <3>1. UNCHANGED << ui, dd, image, fault, pmic, toBackend >> /\ pc \in {"umount", "pmic"}
          /\ (pc' \in {"pmic", "flash", "fork"} \/ (pc' = "dead" /\ ui = "dead"))
          BY <2>3 DEF Umount, PmicSkip, PmicOld, Echo
    <3>2. CASE Asked'
      <4>1. Asked
            BY <3>1 DEF Asked
      <4> QED BY <3>1, <3>2, <4>1, NothingShown
    <3>3. CASE ~Asked'
      <4>1. pc' = "dead" /\ ui = "dead" /\ dd = "none" /\ Asked
            BY <3>1, <3>3 DEF Asked, Order, Early
      <4>2. Stage = "placed" /\ Stage' = "none"
        <5>1. dd' = "none"
              BY <3>1, <4>1
        <5> QED BY <3>3, <4>1, <5>1 DEF Stage, Ended, Asked
      <4>3. (image' = "all") = (image = "all") /\ (fault' = "some") = (fault = "some")
            /\ (pc' # "off") = (pc # "off") /\ pmic' = pmic /\ ui' = ui
            BY <3>1, <4>1
      <4>4. Word!Lose
            BY <4>1, <4>2, <4>3 DEF Word!Lose
      <4> QED BY <4>4 DEF Word!Next
    <3> QED BY <3>2, <3>3
  <2>4. CASE FlashErase \/ FlashWrite
    <3>1. UNCHANGED << ui, dd, image, fault, toBackend >> /\ pc \in {"flash", "flashing"}
          /\ pc' \in {"flashing", "fork"} /\ dd = "none"
          BY <2>4 DEF FlashErase, FlashWrite, Order, Early
    <3>2. Stage = "placed" /\ Stage' = "placed"
          BY <3>1 DEF Stage, Ended
    <3>3. (image' = "all") = (image = "all") /\ (fault' = "some") = (fault = "some")
          /\ (pc' # "off") = (pc # "off") /\ ui' = ui
          BY <3>1
    <3>4. CASE pmic' \in {0, PMICHEXVERSION}
      <4>1. pmic < PMICHEXVERSION
            BY <2>4, ConstantAssumption DEF FlashErase, FlashWrite, Order
      <4>2. Word!Program
            BY <3>2, <3>3, <3>4, <4>1 DEF Word!Program
      <4> QED BY <4>2 DEF Word!Next
    <3>5. CASE pmic' = pmic
          BY <3>1, <3>2, <3>3, <3>5 DEF Shown
    <3> QED BY <2>4, <3>4, <3>5 DEF FlashErase, FlashWrite
  <2>5. CASE Fork
    <3>1. UNCHANGED << ui, image, fault, pmic >> /\ pc = "fork" /\ pc' = "poll"
          /\ dd = "none" /\ dd' = "forked"
          BY <2>5 DEF Fork, Order, Early
    <3>2. Stage = "placed" /\ Stage' = "writing"
          BY <3>1 DEF Stage, Ended
    <3>3. (image' = "all") = (image = "all") /\ (fault' = "some") = (fault = "some")
          /\ (pc' # "off") = (pc # "off") /\ ui' = ui /\ pmic' = pmic
          BY <3>1
    <3>4. Word!Begin
          BY <3>2, <3>3 DEF Word!Begin
    <3> QED BY <3>4 DEF Word!Next
  <2>6. CASE Poll
    <3>1. UNCHANGED << ui, image, pmic, toBackend >> /\ pc = "poll" /\ pc' \in {"poll", "written"}
          BY <2>6 DEF Poll, SignalDd
    <3>2. CASE UNCHANGED << dd, fault >>
      <4>1. Asked' <=> Asked
            BY <3>1 DEF Asked, Holds
      <4> QED BY <3>1, <3>2, <4>1, NothingShown
    <3>3. CASE ~UNCHANGED << dd, fault >>
      <4>1. dd = "running" /\ dd' = "failed" /\ fault' = "some"
            BY <2>6, <3>3 DEF Poll, SignalDd
      <4>2. Stage = "writing" /\ Stage' = "ended"
            BY <4>1 DEF Stage, Ended
      <4>3. (image' = "all") \in BOOLEAN /\ (fault' = "some") = TRUE
            /\ (pc' # "off") = (pc # "off") /\ ui' = ui /\ pmic' = pmic
            BY <3>1, <4>1
      <4>4. Word!End
            BY <4>2, <4>3 DEF Word!End
      <4> QED BY <4>4 DEF Word!Next
    <3> QED BY <3>2, <3>3
  <2>7. CASE WriteDone
    <3>1. UNCHANGED << ui, dd, image, fault, pmic >> /\ pc = "written"
          /\ pc' \in {"wait", "dead"}
          BY <2>7 DEF WriteDone, Echo
    <3>2. dd # "none"
          BY <3>1 DEF Honest, Ended
    <3> QED BY <3>1, <3>2, NothingShown
  <2>8. CASE Shutdown
    <3>1. UNCHANGED << ui, dd, image, fault, pmic >> /\ pc = "shutdown" /\ pc' = "off"
          BY <2>8 DEF Shutdown
    <3>2. Stage = "ended" /\ Stage' = "ended"
          BY <3>1 DEF Stage, Honest, Ended
    <3>3. (image' = "all") = (image = "all") /\ (fault' = "some") = (fault = "some")
          /\ (pc' # "off") = FALSE /\ (pc # "off") = TRUE /\ ui' = ui /\ pmic' = pmic
          BY <3>1
    <3>4. Word!SwitchOff
          BY <3>2, <3>3 DEF Word!SwitchOff
    <3> QED BY <3>4 DEF Word!Next
  <2> QED BY <1>2, <2>1, <2>2, <2>3, <2>4, <2>5, <2>6, <2>7, <2>8 DEF Backend
\* A step that only adds a fault, or none.
<1>f. ASSUME UNCHANGED << pc, toBackend, pmic >>, fault' \in {fault, "some"},
             Stage' = Stage, ui' \in {ui, "dead"}, ui' = ui \/ fault' = "some",
             (image' = "all") = (image = "all")
      PROVE  Word!Next \/ UNCHANGED Shown
  <2>1. (pc' # "off") = TRUE /\ (pc # "off") = TRUE
        BY <1>on, <1>f
  <2>2. CASE fault' = "some"
    <3>1. (fault' = "some") = TRUE
          BY <2>2
    <3>2. Word!Fail
          BY <1>f, <2>1, <3>1 DEF Word!Fail
    <3> QED BY <3>2 DEF Word!Next
  <2>3. CASE fault' # "some"
    <3>1. (fault' = "some") = (fault = "some") /\ ui' = ui
          BY <1>f, <2>3
    <3> QED BY <1>f, <2>1, <3>1 DEF Shown
  <2> QED BY <2>2, <2>3
<1>3. CASE Writer
  <2>1. CASE Exec \/ OpenTarget
    <3>1. UNCHANGED << pc, toBackend, pmic, ui >> /\ dd \in {"forked", "execed"}
          /\ dd' \in {"execed", "running"} /\ fault' \in {fault, "some"} /\ image' \in {image, "part"}
          BY <2>1 DEF Exec, OpenTarget
    <3>2. Stage = "writing" /\ Stage' = "writing"
          BY <3>1 DEF Stage, Ended
    <3>3. image # "all" /\ image' # "all"
          BY <3>1 DEF WholeAtEnd, Ended
    <3> QED BY <1>f, <3>1, <3>2, <3>3
  <2>2. CASE Finish \/ WriteError
    <3>1. UNCHANGED << pc, pmic, ui >> /\ dd = "running" /\ dd' \in {"done", "failed"}
          /\ fault' \in {fault, "some"}
          BY <2>2 DEF Finish, WriteError
    <3>2. image' = "all" \/ fault' = "some"
          BY <2>2 DEF Finish, WriteError, Clean, TypeOK
    <3>3. Stage = "writing" /\ Stage' = "ended"
          BY <3>1 DEF Stage, Ended
    <3>4. (image' = "all") \in BOOLEAN /\ (fault' = "some") \in {fault = "some", TRUE}
          /\ (pc' # "off") = (pc # "off") /\ ui' = ui /\ pmic' = pmic
          BY <3>1
    <3>5. (image' = "all") \/ (fault' = "some")
          BY <3>2
    <3>6. Word!End
          BY <3>3, <3>4, <3>5 DEF Word!End
    <3> QED BY <3>6 DEF Word!Next
  <2> QED BY <1>3, <2>1, <2>2 DEF Writer
<1>4. CASE Interface
  <2>1. CASE SendSyscheck \/ SendPowerDown
    <3>1. UNCHANGED << pc, ui, dd, image, fault, pmic >>
          BY <2>1 DEF SendSyscheck, SendPowerDown, Send
    <3>2. Holds(toBackend', "Start") <=> Holds(toBackend, "Start")
      <4>1. toBackend \in Seq(Lines) /\ "Syscheck" \in Lines /\ "PowerDown" \in Lines
            BY DEF TypeOK, Lines
      <4>2. toBackend' = Append(toBackend, "Syscheck") \/ toBackend' = Append(toBackend, "PowerDown")
            BY <2>1 DEF SendSyscheck, SendPowerDown, Send
      <4>3. \A new \in {"Syscheck", "PowerDown"} :
              Holds(Append(toBackend, new), "Start") <=> Holds(toBackend, "Start")
            BY <4>1, HoldsAppend
      <4> QED BY <4>2, <4>3
    <3>3. Asked' <=> Asked
          BY <3>1, <3>2 DEF Asked
    <3> QED BY <3>1, <3>3, NothingShown
  <2>2. CASE SendStart
    <3>1. UNCHANGED << pc, dd, image, fault, pmic >> /\ ui = "checking" /\ ui' = "started"
          /\ toBackend' = Append(toBackend, "Start")
          BY <2>2 DEF SendStart, Send
    <3>2. dd = "none" /\ ~Asked
          BY <3>1 DEF Turn, Order, Early, Asked
    <3>3. Holds(toBackend', "Start")
      <4>1. toBackend \in Seq(Lines) /\ "Start" \in Lines
            BY DEF TypeOK, Lines
      <4> QED BY <3>1, <4>1, HoldsAppend
    <3>4. Stage = "none" /\ Stage' = "placed"
          BY <3>1, <3>2, <3>3 DEF Stage, Ended, Asked
    <3>5. (image' = "all") = (image = "all") /\ (fault' = "some") = (fault = "some")
          /\ (pc' # "off") = (pc # "off")
          BY <3>1
    <3>6. Word!Place
          BY <3>1, <3>4, <3>5 DEF Word!Place
    <3> QED BY <3>6 DEF Word!Next
  <2>3. CASE Receive
    <3>1. UNCHANGED << pc, dd, image, fault, pmic, toBackend >> /\ ui # "dead" /\ toUi # << >>
          /\ ui' = IF Head(toUi) = "WriteDone" THEN "done" ELSE ui
          BY <2>3 DEF Receive
    <3>2. Asked' <=> Asked
          BY <3>1 DEF Asked, Holds
    <3>3. CASE ui' = ui
          BY <3>1, <3>2, <3>3, NothingShown
    <3>4. CASE ui' # ui
      <4>1. Told
        <5>1. toUi \in Seq(Answers) /\ Head(toUi) = "WriteDone"
              BY <3>1, <3>4 DEF TypeOK
        <5>2. 1 \in 1 .. Len(toUi) /\ toUi[1] = "WriteDone"
              BY <3>1, <5>1
        <5> QED BY <5>2 DEF Told
      <4>2. ui = "started" /\ ui' = "done"
            BY <3>1, <3>4, <4>1 DEF Turn, Last, TypeOK
      <4>3. Stage = "ended" /\ Stage' = "ended"
            BY <3>1, <4>1 DEF Stage, Honest, Ended
      <4>4. (image' = "all") = (image = "all") /\ (fault' = "some") = (fault = "some")
            /\ (pc' # "off") = (pc # "off")
            BY <3>1
      <4>5. Word!Tell
            BY <3>1, <4>2, <4>3, <4>4 DEF Word!Tell
      <4> QED BY <4>5 DEF Word!Next
    <3> QED BY <3>3, <3>4
  <2> QED BY <1>4, <2>1, <2>2, <2>3 DEF Interface
<1>5. CASE UiDies \/ MoveCard
  <2>1. UNCHANGED << pc, toBackend, pmic, dd, image >> /\ fault' \in {fault, "some"}
        /\ ui' \in {ui, "dead"} /\ (ui' = ui \/ fault' = "some")
        BY <1>5 DEF UiDies, MoveCard
  <2>2. Stage' = Stage
        BY <2>1 DEF Stage, Ended, Holds
  <2> QED BY <1>f, <2>1, <2>2
<1> QED BY <1>1, <1>2, <1>3, <1>4, <1>5 DEF Next

\* If dd runs before the first poll, what the user sees of the updater is the
\* dialogue of Dialogue: one order, written once, told when it has ended.
THEOREM ImplementsDialogue ==
    ASSUME StartsInTime
    PROVE  Spec => KeepsWord
<1>1. Init => Honest /\ Clean /\ WholeAtEnd
      BY DEF Init, Honest, Told, Clean, WholeAtEnd
<1>2. Init => Word!Init
  <2> SUFFICES ASSUME Init PROVE Word!Init
      OBVIOUS
  <2>1. Stage = "none" /\ ui = "checking"
        BY DEF Init, Stage, Ended, Holds
  <2>2. (image = "all") = FALSE /\ (fault = "some") \in BOOLEAN /\ (pc # "off") = TRUE
        BY DEF Init
  <2>3. pmic \in Nat
        BY ConstantAssumption DEF Init
  <2> QED BY <2>1, <2>2, <2>3 DEF Word!Init
<1>3. TypeOK /\ TypeOK' /\ Order /\ Honest /\ Clean /\ Turn /\ WholeAtEnd /\ [Next]_vars
        => [Word!Next]_Word!state
      BY ShownStep DEF Shown, Word!state
<1> QED BY <1>1, <1>2, <1>3, OrderHolds, TurnHolds, HonestStep, CleanStep, WholeStep, PTL
        DEF Spec, KeepsWord, Word!Spec
=============================================================================
