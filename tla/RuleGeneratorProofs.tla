------------------------- MODULE RuleGeneratorProofs -------------------------
(***************************************************************************)
(* Mutual exclusion and unique names in RuleGenerator, for any number of   *)
(* devices, drives with any aliases, any retries and any number of boots.  *)
(***************************************************************************)
EXTENDS RuleGenerator, TLAPS, NaturalsInduction, WellFoundedInduction

Links == {"eth", "cdrom"} \cup Alias

-----------------------------------------------------------------------------
(* The next free number.                                                   *)

\* A set of numbers with an upper bound has a greatest element.
LEMMA Greatest ==
    ASSUME NEW nums \in SUBSET Nat, nums # {},
           NEW bound \in Nat, \A n \in nums : n <= bound
    PROVE  \E n \in nums : \A m \in nums : m <= n
<1> DEFINE U == {b \in Nat : \A n \in nums : n <= b}
<1>1. U \subseteq Nat /\ U # {}
      OBVIOUS
<1> DEFINE R == {p \in Nat \X Nat : p[1] < p[2]}
<1>2. PICK b \in U : \A c \in U : ~(<< c, b >> \in R)
  <2>1. IsWellFoundedOn(R, Nat)
        BY NatLessThanWellFounded DEF OpToRel
  <2> HIDE DEF U, R
  <2> QED BY <1>1, <2>1, WFMin
<1>3. b \in nums
  <2> SUFFICES ASSUME b \notin nums PROVE FALSE
      OBVIOUS
  <2>1. \A n \in nums : n < b
        OBVIOUS
  <2>2. PICK n \in nums : TRUE
        OBVIOUS
  <2>3. b - 1 \in U
        BY <2>1, <2>2
  <2>4. << b - 1, b >> \in R
        BY <1>1, <2>3
  <2> QED BY <1>2, <2>3, <2>4
<1> QED BY <1>3

\* raw_find_next_available returns a number no rule it has seen uses.
LEMMA NextFreeIsFree ==
    ASSUME NEW nums \in SUBSET Nat,
           NEW bound \in Nat, \A n \in nums : n <= bound
    PROVE  NextFree(nums) \in Nat /\ NextFree(nums) \notin nums
<1>1. CASE nums = {}
      BY <1>1 DEF NextFree
<1>2. CASE nums # {}
  <2>1. \E n \in nums : \A m \in nums : m <= n
        BY <1>2, Greatest
  <2> DEFINE top == CHOOSE n \in nums : \A m \in nums : m <= n
  <2>2. top \in nums /\ \A m \in nums : m <= top
        BY <2>1
  <2>3. NextFree(nums) = 1 + top
        BY <1>2 DEF NextFree
  <2> HIDE DEF top
  <2> QED BY <2>2, <2>3
<1> QED BY <1>1, <1>2

-----------------------------------------------------------------------------
(* Types.                                                                  *)

LEMMA NetNumberType == ASSUME TypeOK, NEW d \in NetDev,
                              NEW b \in Nat, \A r \in rules : r.num <= b
                       PROVE  /\ NetNumber(d) \in Nat
                              /\ Custom[d] = NoName => NetNumber(d) \notin Numbers(d, "eth")
<1>1. Numbers(d, "eth") \in SUBSET Nat /\ \A n \in Numbers(d, "eth") : n <= b
      BY DEF TypeOK, Rule, Numbers, Seen
<1>2. /\ NextFree(Numbers(d, "eth")) \in Nat
      /\ NextFree(Numbers(d, "eth")) \notin Numbers(d, "eth")
      BY <1>1, NextFreeIsFree
<1>3. Interface[d] \in Nat /\ Custom[d] \in Nat \cup {NoName}
      BY ConstantAssumption
<1> QED BY <1>2, <1>3 DEF NetNumber

\* The rules have a greatest number: each step adds at most one.
Bounded == \E b \in Nat : \A r \in rules : r.num <= b

LEMMA TypeInit == Init => TypeOK /\ Bounded
<1> SUFFICES ASSUME Init PROVE TypeOK /\ Bounded
    OBVIOUS
<1>1. lost \in BOOLEAN /\ isWriteable \in BOOLEAN
      BY Zenon DEF Init
<1>2. Bounded
      BY 0 \in Nat DEF Init, Bounded
<1>3. 0 \in Nat /\ << >> \in Seq(Links)
      OBVIOUS
<1>4. /\ held \in [Dev -> BOOLEAN] /\ lock \in [{"net", "cd"} -> BOOLEAN]
      /\ todo \in [Dev -> Seq(Links)]
  <2> USE <1>3 DEF Init
  <2>1. held = [d \in Dev |-> FALSE] /\ FALSE \in BOOLEAN
        OBVIOUS
  <2>2. held \in [Dev -> BOOLEAN] BY <2>1, Zenon
  <2>3. lock \in [{"net", "cd"} -> BOOLEAN] BY <2>1, Zenon
  <2>4. todo \in [Dev -> Seq(Links)] BY Zenon
  <2> QED BY <2>2, <2>3, <2>4
<1> QED BY <1>1, <1>2, <1>3, <1>4, ConstantAssumption DEF Init, TypeOK, Links

LEMMA TypeStep == TypeOK /\ Bounded /\ [Next]_vars => TypeOK' /\ Bounded'
<1> SUFFICES ASSUME TypeOK, Bounded, [Next]_vars PROVE TypeOK' /\ Bounded'
    OBVIOUS
<1> USE DEF TypeOK, plan, locking, system, Goto, Critical, Ended
<1>1. ASSUME NEW d \in Dev, Event(d) PROVE TypeOK' /\ Bounded'
      BY <1>1 DEF Event, Bounded
<1>2. ASSUME NEW d \in Dev, Process(d) PROVE TypeOK' /\ Bounded'
  <2>1. CASE NoLockDir(d)    BY <2>1 DEF NoLockDir, Bounded
  <2>2. CASE Mkdir(d)        BY <2>2 DEF Mkdir, Kind, Bounded
  <2>3. CASE MkdirFails(d)
    <3>1. retry' \in [Dev -> 0 .. Retries] /\ pc' \in [Dev -> {"start", "lock"} \cup Critical \cup Ended]
      <4>1. CASE retry[d] = 0
            BY <2>3, <4>1 DEF MkdirFails
      <4>2. CASE retry[d] # 0
        <5>1. retry[d] - 1 \in 0 .. Retries
              BY <4>2, ConstantAssumption
        <5> QED BY <2>3, <4>2, <5>1 DEF MkdirFails
      <4> QED BY <4>1, <4>2
    <3> QED BY <2>3, <3>1 DEF MkdirFails, Bounded
  <2>4. CASE Probe(d)        BY <2>4 DEF Probe, Bounded
  <2>5. CASE Unprobe(d)      BY <2>5 DEF Unprobe, Bounded
  <2>6. CASE DecideNet(d)
    <3>1. d \in NetDev /\ NetNumber(d) \in Nat
          BY <2>6, NetNumberType DEF DecideNet, Bounded
    <3>2. << "eth" >> \in Seq({"eth", "cdrom"} \cup Alias)
          OBVIOUS
    <3>3. /\ number' \in [Dev -> Nat]
          /\ todo' \in [Dev -> Seq({"eth", "cdrom"} \cup Alias)]
          BY <2>6, <3>1, <3>2 DEF DecideNet
    <3> QED BY <2>6, <3>3 DEF DecideNet, Bounded
  <2>7. CASE NoMatch(d)      BY <2>7 DEF NoMatch, Bounded
  <2>8. CASE DecideCd(d)
    <3>1. PICK b \in Nat : \A r \in rules : r.num <= b
          BY DEF Bounded
    <3>2. /\ Numbers(d, "cdrom") \in SUBSET Nat
          /\ \A n \in Numbers(d, "cdrom") : n <= b
          BY <3>1 DEF Rule, Numbers, Seen
    <3>3. NextFree(Numbers(d, "cdrom")) \in Nat
          BY <3>2, NextFreeIsFree
    <3>4. CdRules(d) \in Seq({"eth", "cdrom"} \cup Alias)
          BY <2>8, ConstantAssumption DEF DecideCd, CdRules
    <3> QED BY <2>8, <3>3, <3>4 DEF DecideCd, Bounded
  <2>9. CASE WriteRule(d)
    <3> DEFINE new == [file |-> file[d], dev |-> d, link |-> Head(todo[d]), num |-> number[d]]
    <3>1. new \in Rule /\ Tail(todo[d]) \in Seq({"eth", "cdrom"} \cup Alias)
          BY <2>9 DEF WriteRule, Rule
    <3>2. rules' = rules \cup {new}
          BY <2>9 DEF WriteRule
    <3>3. PICK b \in Nat : \A r \in rules : r.num <= b
          BY DEF Bounded
    <3>4. Bounded'
      <4>1. CASE new.num <= b
            BY <3>2, <3>3, <4>1 DEF Bounded
      <4>2. CASE ~(new.num <= b)
        <5>1. number[d] \in Nat /\ \A r \in rules : r.num \in Nat
              BY DEF Rule
        <5>2. \A r \in rules' : r.num <= number[d]
              BY <3>2, <3>3, <4>2, <5>1
        <5> QED BY <5>1, <5>2 DEF Bounded
      <4> QED BY <4>1, <4>2
    <3>5. rules' \subseteq Rule
          BY <3>1, <3>2
    <3>6. UNCHANGED << retry, held, lock, file, number, udevDir, rw, boots, isWriteable, lost >>
          BY <2>9 DEF WriteRule
    <3>7. pc' \in [Dev -> {"start", "lock"} \cup Critical \cup Ended]
          BY <2>9 DEF WriteRule
    <3>8. todo' \in [Dev -> Seq({"eth", "cdrom"} \cup Alias)]
          BY <2>9, <3>1 DEF WriteRule
    <3> QED BY <3>4, <3>5, <3>6, <3>7, <3>8
  <2>10. CASE WriteFails(d)  BY <2>10 DEF WriteFails, Bounded
  <2>11. CASE AllWritten(d)  BY <2>11 DEF AllWritten, Bounded
  <2>12. CASE Unlock(d)      BY <2>12 DEF Unlock, Kind, Bounded
  <2> QED BY <1>2, <2>1, <2>2, <2>3, <2>4, <2>5, <2>6, <2>7, <2>8, <2>9, <2>10,
             <2>11, <2>12 DEF Process
<1>3. ASSUME NEW d \in Dev, Kill(d) PROVE TypeOK' /\ Bounded'
      BY <1>3 DEF Kill, Bounded
<1>4. CASE Remount
      BY <1>4 DEF Remount, Bounded
<1>5. CASE Reboot
  <2>1. rules' \subseteq rules
        BY <1>5 DEF Reboot
  <2>2. Bounded'
        BY <2>1 DEF Bounded
  <2>3. FALSE \in BOOLEAN /\ 0 \in Nat /\ << >> \in Seq({"eth", "cdrom"} \cup Alias)
        OBVIOUS
  <2>4. /\ held' \in [Dev -> BOOLEAN] /\ lock' \in [{"net", "cd"} -> BOOLEAN]
        /\ todo' \in [Dev -> Seq({"eth", "cdrom"} \cup Alias)]
        /\ lost' \in BOOLEAN /\ rw' \in BOOLEAN
        BY <1>5, <2>3, Zenon DEF Reboot
  <2> QED BY <1>5, <2>1, <2>2, <2>3, <2>4, ConstantAssumption DEF Reboot
<1>6. CASE UNCHANGED vars
      BY <1>6 DEF vars, Bounded
<1> QED BY <1>1, <1>2, <1>3, <1>4, <1>5, <1>6 DEF Next

-----------------------------------------------------------------------------
(* Mutual exclusion.                                                       *)

\* A process that works on the rules holds the directory of its kind.
Locking ==
    udevDir => \A d \in Dev : pc[d] \in Critical => held[d] /\ lock[Kind(d)]

LEMMA UdevDirStays == TypeOK /\ [Next]_vars => udevDir' = udevDir
<1> SUFFICES ASSUME TypeOK, [Next]_vars PROVE udevDir' = udevDir
    OBVIOUS
<1> USE DEF plan, locking, system
<1>1. ASSUME NEW d \in Dev, Process(d) PROVE udevDir' = udevDir
  <2>1. CASE NoLockDir(d) \/ Mkdir(d) \/ MkdirFails(d) \/ Probe(d)
        BY <2>1 DEF NoLockDir, Mkdir, MkdirFails, Probe
  <2>2. CASE Unprobe(d) \/ DecideNet(d) \/ NoMatch(d) \/ DecideCd(d)
        BY <2>2 DEF Unprobe, DecideNet, NoMatch, DecideCd
  <2>3. CASE WriteRule(d) \/ WriteFails(d) \/ AllWritten(d) \/ Unlock(d)
        BY <2>3 DEF WriteRule, WriteFails, AllWritten, Unlock
  <2> QED BY <1>1, <2>1, <2>2, <2>3 DEF Process
<1>2. ASSUME NEW d \in Dev, Event(d) \/ Kill(d) PROVE udevDir' = udevDir
      BY <1>2 DEF Event, Kill
<1>3. CASE Remount \/ Reboot \/ UNCHANGED vars
      BY <1>3 DEF Remount, Reboot, vars
<1> QED BY <1>1, <1>2, <1>3 DEF Next

\* The steps that neither take nor give back a lock.
LEMMA LockFrame ==
    ASSUME TypeOK, Locking, OneWriter, udevDir' = udevDir,
           held' = held, lock' = lock,
           \A d \in Dev : pc'[d] \in Critical => pc[d] \in Critical
    PROVE  Locking' /\ OneWriter'
<1>1. Locking'
      BY DEF Locking
<1>2. OneWriter'
      BY DEF OneWriter
<1> QED BY <1>1, <1>2

LEMMA LockStep ==
    TypeOK /\ Locking /\ OneWriter /\ [Next]_vars => Locking' /\ OneWriter'
<1> SUFFICES ASSUME TypeOK, Locking, OneWriter, [Next]_vars, udevDir
             PROVE  Locking' /\ OneWriter'
    BY UdevDirStays DEF Locking, OneWriter
<1>0. udevDir' = udevDir
      BY UdevDirStays
<1> USE <1>0 DEF plan, locking, system, Goto
<1>1. ASSUME NEW d \in Dev, Process(d) PROVE Locking' /\ OneWriter'
  <2>1. CASE Mkdir(d)
    <3>1. \A e \in Dev : pc'[e] \in Critical =>
            e = d \/ (pc[e] \in Critical /\ Kind(e) # Kind(d))
          BY <2>1 DEF Mkdir, Critical, Locking, TypeOK
    <3>2. held'[d] /\ lock'[Kind(d)]
          BY <2>1 DEF Mkdir, TypeOK, Kind
    <3>3. \A e \in Dev : e # d => held'[e] = held[e]
          BY <2>1 DEF Mkdir, TypeOK
    <3>4. \A e \in Dev : Kind(e) # Kind(d) => lock'[Kind(e)] = lock[Kind(e)]
          BY <2>1 DEF Mkdir, TypeOK, Kind
    <3>5. Locking'
          BY <3>1, <3>2, <3>3, <3>4 DEF Locking, Kind
    <3>6. OneWriter'
          BY <3>1 DEF OneWriter, Kind
    <3> QED BY <3>5, <3>6
  <2>2. CASE Unlock(d)
    <3>1. pc' = [pc EXCEPT ![d] = "done"] /\ pc[d] = "unlock" /\ held[d]
          BY <2>2 DEF Unlock, Locking, Critical
    <3>2. \A e \in Dev : pc'[e] \in Critical =>
            e # d /\ pc[e] \in Critical /\ Kind(e) # Kind(d)
          BY <3>1 DEF OneWriter, Critical, TypeOK
    <3>3. \A e \in Dev : e # d => held'[e] = held[e]
          BY <2>2 DEF Unlock, TypeOK
    <3>4. \A e \in Dev : Kind(e) # Kind(d) => lock'[Kind(e)] = lock[Kind(e)]
          BY <2>2, <3>1 DEF Unlock, TypeOK, Kind
    <3>5. Locking'
          BY <3>2, <3>3, <3>4 DEF Locking, Kind
    <3>6. OneWriter'
          BY <3>2 DEF OneWriter, Kind
    <3> QED BY <3>5, <3>6
  <2>3. ASSUME held' = held, lock' = lock,
               \E to : /\ pc' = pc \/ pc' = [pc EXCEPT ![d] = to]
                       /\ to \in Critical => pc[d] \in Critical
        PROVE  Locking' /\ OneWriter'
    <3>1. \A e \in Dev : pc'[e] \in Critical => pc[e] \in Critical
          BY <2>3 DEF TypeOK
    <3> QED BY <2>3, <3>1, LockFrame
  <2> USE DEF Critical
  <2>4. CASE NoLockDir(d)   BY <2>4 DEF NoLockDir
  <2>5. CASE MkdirFails(d)  BY <2>3, <2>5 DEF MkdirFails
  <2>6. CASE Probe(d)       BY <2>3, <2>6 DEF Probe
  <2>7. CASE Unprobe(d)     BY <2>3, <2>7 DEF Unprobe
  <2>8. CASE DecideNet(d)   BY <2>3, <2>8 DEF DecideNet
  <2>9. CASE NoMatch(d)     BY <2>3, <2>9 DEF NoMatch
  <2>10. CASE DecideCd(d)   BY <2>3, <2>10 DEF DecideCd
  <2>11. CASE WriteRule(d)  BY <2>3, <2>11 DEF WriteRule
  <2>12. CASE WriteFails(d) BY <2>3, <2>12 DEF WriteFails
  <2>13. CASE AllWritten(d) BY <2>3, <2>13 DEF AllWritten
  <2> QED BY <1>1, <2>1, <2>2, <2>4, <2>5, <2>6, <2>7, <2>8, <2>9, <2>10, <2>11,
             <2>12, <2>13 DEF Process
<1>2. ASSUME NEW d \in Dev, Event(d) \/ Kill(d) PROVE Locking' /\ OneWriter'
  <2>1. held' = held /\ lock' = lock
        BY <1>2 DEF Event, Kill
  <2>2. \A e \in Dev : pc'[e] \in Critical => pc[e] \in Critical
        BY <1>2 DEF Event, Kill, Critical, TypeOK
  <2> QED BY <2>1, <2>2, LockFrame
<1>3. CASE Remount
      BY <1>3, LockFrame DEF Remount
<1>4. CASE Reboot
      BY <1>4 DEF Reboot, Locking, OneWriter, Critical
<1>5. CASE UNCHANGED vars
      BY <1>5, LockFrame DEF vars
<1> QED BY <1>1, <1>2, <1>3, <1>4, <1>5 DEF Next

LEMMA LockInit == Init => Locking /\ OneWriter
BY DEF Init, Locking, OneWriter, Critical

-----------------------------------------------------------------------------
(* Unique names.                                                           *)

Own(d) == [file |-> file[d], dev |-> d, link |-> "cdrom", num |-> number[d]]

RuleKinds == \A r \in rules : r.link = "eth" <=> r.dev \in NetDev

\* A drive's rule for cdrom is there before the others with its number.
CdromFirst ==
    \A r \in rules : r.link \in Alias =>
        [file |-> r.file, dev |-> r.dev, link |-> "cdrom", num |-> r.num] \in rules

\* What a process has still to write, and that its number is not in use.
Writing ==
    \A d \in Dev : pc[d] = "write" =>
        /\ d \in NetDev => todo[d] \in {<< "eth" >>, << >>}
        /\ d \in CdDev => todo[d] = CdRules(d) \/ (todo[d] \in Seq(Alias) /\ Own(d) \in rules)

FreshFor(d) ==
    /\ d \in NetDev /\ todo[d] = << "eth" >> /\ Custom[d] = NoName =>
         \A r \in rules : r.file = file[d] /\ r.link = "eth" => r.num # number[d]
    /\ d \in CdDev /\ todo[d] = CdRules(d) =>
         \A r \in rules : r.file = file[d] /\ r.link = "cdrom" => r.num # number[d]

Fresh ==
    udevDir => \A d \in Dev : pc[d] = "write" => FreshFor(d)

Names == RuleKinds /\ CdromFirst /\ Writing /\ Fresh /\ NamesUnique

LEMMA NamesInit == Init => Names
BY DEF Init, Names, RuleKinds, CdromFirst, Writing, Fresh, FreshFor, NamesUnique

LEMMA CdRulesShape ==
    ASSUME NEW d \in CdDev
    PROVE  /\ CdRules(d) # << >> /\ Head(CdRules(d)) = "cdrom"
           /\ Tail(CdRules(d)) \in Seq(Alias) /\ CdRules(d) \notin Seq(Alias)
<1>1. Aliases[d] \in Seq(Alias)
      BY ConstantAssumption
<1> DEFINE s == CdRules(d)
<1>2. /\ s \in Seq({"cdrom"} \cup Alias) /\ Len(s) = 1 + Len(Aliases[d]) /\ s[1] = "cdrom"
      /\ \A i \in 1 .. Len(Aliases[d]) : s[i + 1] = Aliases[d][i]
      BY <1>1 DEF CdRules
<1> HIDE DEF s
<1>3. s # << >> /\ Head(s) = "cdrom" /\ s \notin Seq(Alias)
      BY <1>1, <1>2 DEF Alias
<1>4. /\ Tail(s) \in Seq({"cdrom"} \cup Alias) /\ Len(Tail(s)) = Len(Aliases[d])
      /\ \A i \in 1 .. Len(Tail(s)) : Tail(s)[i] = s[i + 1]
      BY <1>1, <1>2, <1>3
<1>5. Tail(s) = Aliases[d]
      BY <1>1, <1>2, <1>4, SMTT(30)
<1> QED BY <1>1, <1>3, <1>5 DEF s

\* The steps that leave the rules, and the plans of writing processes, alone.
LEMMA NamesFrame ==
    ASSUME TypeOK, Names,
           UNCHANGED << rules, udevDir, todo, number >>,
           \A d \in Dev : pc'[d] = "write" =>
               pc[d] = "write" /\ file'[d] = file[d]
    PROVE  Names'
<1>1. RuleKinds' /\ CdromFirst' /\ NamesUnique'
      BY DEF Names, RuleKinds, CdromFirst, NamesUnique, Clash
<1>2. Writing'
      BY DEF Names, Writing, Own
<1>3. Fresh'
      BY DEF Names, Fresh, FreshFor
<1> QED BY <1>1, <1>2, <1>3 DEF Names

\* A process decides: the number is one it has not seen in its file.
LEMMA NamesDecide ==
    ASSUME TypeOK, Bounded, Names, NEW d \in Dev, DecideNet(d) \/ DecideCd(d)
    PROVE  Names'
<1> USE DEF TypeOK, plan, locking, system, Goto
<1>1. UNCHANGED << rules, udevDir, file >> /\ pc' = [pc EXCEPT ![d] = "write"]
      BY DEF DecideNet, DecideCd
<1>2. RuleKinds' /\ CdromFirst' /\ NamesUnique'
      BY <1>1 DEF Names, RuleKinds, CdromFirst, NamesUnique, Clash
<1>3. \A e \in Dev : e # d => UNCHANGED << pc[e], todo[e], number[e] >>
      BY DEF DecideNet, DecideCd
<1>4. PICK b \in Nat : \A r \in rules : r.num <= b
      BY DEF Bounded
<1>7. \A e \in Dev : e # d /\ pc'[e] = "write" /\ udevDir' => FreshFor(e)'
  <2> SUFFICES ASSUME NEW e \in Dev, e # d, pc'[e] = "write", udevDir' PROVE FreshFor(e)'
      OBVIOUS
  <2>1. FreshFor(e)
        BY <1>1 DEF Names, Fresh
  <2>2. todo'[e] = todo[e] /\ number'[e] = number[e]
        BY <1>3
  <2> QED BY <1>1, <2>1, <2>2 DEF FreshFor
<1>5. CASE DecideNet(d)
  <2>1. d \in NetDev /\ d \notin CdDev
        BY <1>5, ConstantAssumption DEF DecideNet
  <2>2. number'[d] = NetNumber(d) /\ todo'[d] = << "eth" >>
        BY <1>5 DEF DecideNet
  <2>3. Custom[d] = NoName => number'[d] \notin Numbers(d, "eth")
        BY <1>4, <2>1, <2>2, NetNumberType
  <2>4. Writing'
        BY <1>1, <1>3, <2>1, <2>2 DEF Names, Writing, Own
  <2>5. Custom[d] = NoName =>
          \A r \in rules : r.file = file[d] /\ r.link = "eth" => r.num # number'[d]
        BY <2>3 DEF Numbers, Seen, Rule
  <2>6. Fresh'
    <3>1. FreshFor(d)'
          BY <1>1, <2>1, <2>5 DEF FreshFor
    <3> QED BY <1>7, <3>1 DEF Fresh
  <2> QED BY <1>2, <2>4, <2>6 DEF Names
<1>6. CASE DecideCd(d)
  <2>1. d \in CdDev /\ d \notin NetDev
        BY <1>6, ConstantAssumption DEF DecideCd
  <2>2. number'[d] = NextFree(Numbers(d, "cdrom")) /\ todo'[d] = CdRules(d)
        BY <1>6 DEF DecideCd
  <2>3. number'[d] \notin Numbers(d, "cdrom")
    <3>1. /\ Numbers(d, "cdrom") \in SUBSET Nat
          /\ \A n \in Numbers(d, "cdrom") : n <= b
          BY <1>4 DEF Rule, Numbers, Seen
    <3> QED BY <2>2, <3>1, NextFreeIsFree
  <2>4. Writing'
        BY <1>1, <1>3, <2>1, <2>2 DEF Names, Writing, Own, CdRules
  <2>5. \A r \in rules : r.file = file[d] /\ r.link = "cdrom" => r.num # number'[d]
        BY <2>3 DEF Numbers, Seen, Rule
  <2>6. Fresh'
    <3>1. FreshFor(d)'
          BY <1>1, <2>1, <2>5 DEF FreshFor
    <3> QED BY <1>7, <3>1 DEF Fresh
  <2> QED BY <1>2, <2>4, <2>6 DEF Names
<1> QED BY <1>5, <1>6

\* A rule is appended: its name is new in the file.
LEMMA NamesWrite ==
    ASSUME TypeOK, Locking, OneWriter, Names, NEW d \in Dev, WriteRule(d)
    PROVE  Names'
<1> DEFINE new == [file |-> file[d], dev |-> d, link |-> Head(todo[d]), num |-> number[d]]
<1> USE DEF TypeOK, plan, locking, system, Goto
<1>1. /\ UNCHANGED << pc, file, number, udevDir >> /\ pc[d] = "write"
      /\ todo' = [todo EXCEPT ![d] = Tail(todo[d])] /\ todo[d] # << >>
      /\ rules' = rules \cup {new}
      BY DEF WriteRule
<1>2. /\ d \in NetDev => d \notin CdDev /\ todo[d] = << "eth" >>
      /\ d \in CdDev => d \notin NetDev
      /\ d \in CdDev => todo[d] = CdRules(d) \/ (todo[d] \in Seq(Alias) /\ Own(d) \in rules)
      BY <1>1, ConstantAssumption DEF Names, Writing
<1>3. /\ d \in NetDev => new.link = "eth" /\ Tail(todo[d]) = << >>
      /\ d \in CdDev /\ todo[d] = CdRules(d) =>
           new.link = "cdrom" /\ Tail(todo[d]) \in Seq(Alias) /\ new = Own(d)
      /\ d \in CdDev /\ todo[d] # CdRules(d) =>
           new.link \in Alias /\ Tail(todo[d]) \in Seq(Alias) /\ Own(d) \in rules
  <2>1. Head(<< "eth" >>) = "eth" /\ Tail(<< "eth" >>) = << >>
        OBVIOUS
  <2>2. CASE d \in NetDev
        BY <1>2, <2>1, <2>2
  <2>3. CASE d \in CdDev /\ todo[d] = CdRules(d)
        BY <1>2, <2>3, CdRulesShape DEF Own
  <2>4. CASE d \in CdDev /\ todo[d] # CdRules(d)
        BY <1>1, <1>2, <2>4
  <2> QED BY <1>2, <2>2, <2>3, <2>4 DEF Dev
<1>4. RuleKinds'
      BY <1>1, <1>2, <1>3, ConstantAssumption DEF Names, RuleKinds, Dev, Alias
<1>5. CdromFirst'
  <2>1. new.link \in Alias =>
          [file |-> new.file, dev |-> new.dev, link |-> "cdrom", num |-> new.num] \in rules
        BY <1>2, <1>3 DEF Own, Alias, Dev
  <2> QED BY <1>1, <2>1 DEF Names, CdromFirst
<1>6. Writing'
  <2>1. ASSUME NEW e \in Dev, e # d, pc[e] = "write"
        PROVE  /\ e \in NetDev => todo'[e] \in {<< "eth" >>, << >>}
               /\ e \in CdDev => todo'[e] = CdRules(e)
                      \/ (todo'[e] \in Seq(Alias) /\ Own(e)' \in rules')
    <3>1. todo'[e] = todo[e] /\ Own(e)' = Own(e)
          BY <1>1, <2>1 DEF Own
    <3>2. /\ e \in NetDev => todo[e] \in {<< "eth" >>, << >>}
          /\ e \in CdDev => todo[e] = CdRules(e) \/ (todo[e] \in Seq(Alias) /\ Own(e) \in rules)
          BY <2>1 DEF Names, Writing
    <3>3. Own(e) \in rules => Own(e)' \in rules'
          BY <1>1, <3>1
    <3> QED BY <3>1, <3>2, <3>3
  <2>2. d \in NetDev => todo'[d] = << >>
        BY <1>1, <1>3
  <2>3. d \in CdDev => todo'[d] \in Seq(Alias) /\ Own(d)' \in rules'
        BY <1>1, <1>3, ConstantAssumption DEF Own
  <2> QED BY <1>1, <2>1, <2>2, <2>3, ConstantAssumption DEF Writing
<1>7. Fresh'
  <2>1. ASSUME udevDir, NEW e \in Dev, e # d, pc[e] = "write" PROVE FreshFor(e)'
    <3>1. Kind(e) # Kind(d)
          BY <1>1, <2>1 DEF OneWriter, Critical
    <3>2. (e \in NetDev => new.link # "eth") /\ (e \in CdDev => new.link # "cdrom")
          BY <1>3, <3>1, ConstantAssumption DEF Kind, Dev, Alias
    <3>3. FreshFor(e) /\ todo'[e] = todo[e]
          BY <1>1, <2>1 DEF Names, Fresh
    <3> QED BY <1>1, <3>2, <3>3 DEF FreshFor
  <2>2. FreshFor(d)'
    <3>1. d \in NetDev => todo'[d] = << >> /\ << "eth" >> # << >>
          BY <1>1, <1>3
    <3>2. d \in CdDev => todo'[d] # CdRules(d)
          BY <1>1, <1>3, CdRulesShape
    <3> QED BY <3>1, <3>2 DEF FreshFor
  <2> QED BY <1>1, <2>1, <2>2 DEF Fresh
<1>8. NamesUnique'
  <2> SUFFICES ASSUME udevDir, NEW r \in rules, r.file = new.file, Clash(r, new) PROVE FALSE
      BY <1>1 DEF Names, NamesUnique, Clash
  <2>1. r.dev # d /\ r.link = new.link /\ r.num = number[d] /\ r.file = file[d]
        BY DEF Clash
  <2>2. FreshFor(d)
        BY <1>1 DEF Names, Fresh
  <2>3. CASE d \in NetDev
    <3>1. Custom[d] = NoName
          BY <2>3 DEF Clash
    <3> QED BY <1>2, <1>3, <2>1, <2>2, <2>3, <3>1 DEF FreshFor
  <2>4. CASE d \in CdDev /\ todo[d] = CdRules(d)
        BY <1>3, <2>1, <2>2, <2>4 DEF FreshFor
  <2>5. CASE d \in CdDev /\ todo[d] # CdRules(d)
    <3> DEFINE c == [file |-> r.file, dev |-> r.dev, link |-> "cdrom", num |-> r.num]
    <3>1. c \in rules /\ Own(d) \in rules
          BY <1>3, <2>1, <2>5 DEF Names, CdromFirst
    <3>2. r.dev \notin NetDev
          BY <1>3, <2>1, <2>5 DEF Names, RuleKinds, Alias
    <3>3. Clash(c, Own(d))
          BY <1>2, <2>1, <2>5, <3>2 DEF Clash, Own
    <3> QED BY <2>1, <3>1, <3>3 DEF Names, NamesUnique, Own
  <2> QED BY <2>3, <2>4, <2>5 DEF Dev
<1> QED BY <1>4, <1>5, <1>6, <1>7, <1>8 DEF Names

LEMMA NamesStep ==
    TypeOK /\ Bounded /\ Locking /\ OneWriter /\ Names /\ [Next]_vars => Names'
<1> SUFFICES ASSUME TypeOK, Bounded, Locking, OneWriter, Names, [Next]_vars PROVE Names'
    OBVIOUS
<1>0. udevDir' = udevDir
      BY UdevDirStays
<1> USE DEF plan, locking, system, Goto
<1>1. ASSUME NEW d \in Dev, Process(d) PROVE Names'
  <2>1. CASE DecideNet(d) \/ DecideCd(d)
        BY <2>1, NamesDecide
  <2>2. CASE WriteRule(d)
        BY <2>2, NamesWrite
  <2>3. ASSUME rules' = rules, todo' = todo, number' = number,
               \A e \in Dev : e # d => pc'[e] = pc[e] /\ file'[e] = file[e],
               pc'[d] # "write" \/ (pc[d] = "write" /\ file' = file)
        PROVE  Names'
    <3>1. \A e \in Dev : pc'[e] = "write" => pc[e] = "write" /\ file'[e] = file[e]
          BY <2>3
    <3> QED BY <1>0, <2>3, <3>1, NamesFrame
  <2> USE DEF TypeOK
  <2>4. CASE NoLockDir(d)  BY <2>3, <2>4 DEF NoLockDir
  <2>5. CASE Mkdir(d)      BY <2>3, <2>5 DEF Mkdir
  <2>6. CASE MkdirFails(d) BY <2>3, <2>6 DEF MkdirFails
  <2>7. CASE Probe(d)      BY <2>3, <2>7 DEF Probe
  <2>8. CASE Unprobe(d)    BY <2>3, <2>8 DEF Unprobe
  <2>9. CASE NoMatch(d)    BY <2>3, <2>9 DEF NoMatch
  <2>10. CASE WriteFails(d) BY <2>3, <2>10 DEF WriteFails
  <2>11. CASE AllWritten(d) BY <2>3, <2>11 DEF AllWritten
  <2>12. CASE Unlock(d)     BY <2>3, <2>12 DEF Unlock
  <2> QED BY <1>1, <2>1, <2>2, <2>4, <2>5, <2>6, <2>7, <2>8, <2>9, <2>10, <2>11,
             <2>12 DEF Process
<1>2. ASSUME NEW d \in Dev, Event(d) \/ Kill(d) PROVE Names'
  <2>1. \A e \in Dev : pc'[e] = "write" => pc[e] = "write" /\ file'[e] = file[e]
        BY <1>2 DEF Event, Kill, TypeOK
  <2>2. UNCHANGED << rules, todo, number >>
        BY <1>2 DEF Event, Kill
  <2> QED BY <1>0, <2>1, <2>2, NamesFrame
<1>3. CASE Remount
      BY <1>0, <1>3, NamesFrame DEF Remount
<1>4. CASE Reboot
  <2>1. /\ rules' = {r \in rules : r.file = "real"}
        /\ \A d \in Dev : pc'[d] = "start"
        BY <1>4 DEF Reboot
  <2> QED BY <1>0, <2>1 DEF Names, RuleKinds, CdromFirst, Writing, Fresh, NamesUnique, Clash
<1>5. CASE UNCHANGED vars
      BY <1>0, <1>5, NamesFrame DEF vars
<1> QED BY <1>1, <1>2, <1>3, <1>4, <1>5 DEF Next

LEMMA Invariance == Spec => [](TypeOK /\ Bounded /\ Locking /\ OneWriter /\ Names)
<1> DEFINE Inv == TypeOK /\ Bounded /\ Locking /\ OneWriter /\ Names
<1>1. Init => Inv
      BY TypeInit, LockInit, NamesInit
<1>2. Inv /\ [Next]_vars => Inv'
      BY TypeStep, LockStep, NamesStep
<1> QED BY <1>1, <1>2, PTL DEF Spec

-----------------------------------------------------------------------------
(* The abstract registry.                                                  *)

\* A process that has not yet decided finds no lasting rule of its device;
\* one that writes adds only the number it has chosen.
Once ==
    /\ \A d \in Dev : pc[d] \in {"lock", "probe", "unprobe", "decide"} =>
         \A r \in rules : r.file = "real" => r.dev # d
    /\ \A d \in Dev : pc[d] = "write" =>
         \A r \in rules : r.file = "real" /\ r.dev = d =>
             /\ file[d] = "real" /\ r.num = number[d]
             /\ d \in NetDev => todo[d] = << >>
             /\ d \in CdDev => todo[d] # CdRules(d)

LEMMA OnceInit == Init => Once
BY DEF Init, Once

\* The steps that add no rule and begin no plan.
LEMMA OnceFrame ==
    ASSUME TypeOK, Once, rules' \subseteq rules, UNCHANGED << todo, number >>,
           \A d \in Dev : pc'[d] \in {"lock", "probe", "unprobe", "decide"} =>
               \/ pc[d] \in {"lock", "probe", "unprobe", "decide"}
               \/ \A r \in rules : r.file = "real" => r.dev # d,
           \A d \in Dev : pc'[d] = "write" => pc[d] = "write" /\ file'[d] = file[d]
    PROVE  Once'
BY DEF Once

LEMMA OnceWrite ==
    ASSUME TypeOK, Names, Once, NEW d \in Dev, WriteRule(d)
    PROVE  Once'
<1> DEFINE new == [file |-> file[d], dev |-> d, link |-> Head(todo[d]), num |-> number[d]]
<1> USE DEF TypeOK, plan, locking, system, Goto
<1>1. /\ UNCHANGED << pc, file, number >> /\ pc[d] = "write"
      /\ todo' = [todo EXCEPT ![d] = Tail(todo[d])] /\ todo[d] # << >>
      /\ rules' = rules \cup {new}
      BY DEF WriteRule
<1>2. /\ d \in NetDev => d \notin CdDev /\ todo'[d] = << >>
      /\ d \in CdDev => d \notin NetDev /\ todo'[d] # CdRules(d)
  <2>1. Tail(<< "eth" >>) = << >>
        OBVIOUS
  <2>2. d \in NetDev => d \notin CdDev /\ todo[d] = << "eth" >>
        BY <1>1, ConstantAssumption DEF Names, Writing
  <2>3. CASE d \in CdDev
    <3>1. d \notin NetDev /\ (todo[d] = CdRules(d) \/ todo[d] \in Seq(Alias))
          BY <1>1, <2>3, ConstantAssumption DEF Names, Writing
    <3>2. CASE todo[d] = CdRules(d)
          BY <1>1, <2>3, <3>1, <3>2, CdRulesShape
    <3>3. CASE todo[d] \in Seq(Alias)
      <4>1. Tail(todo[d]) \in Seq(Alias)
            BY <1>1, <3>3
      <4> QED BY <1>1, <2>3, <3>1, <4>1, CdRulesShape
    <3> QED BY <3>1, <3>2, <3>3
  <2> QED BY <1>1, <2>1, <2>2, <2>3
<1>3. ASSUME NEW e \in Dev, NEW r \in rules', r.file = "real", r.dev = e
      PROVE  /\ pc[e] \notin {"lock", "probe", "unprobe", "decide"}
             /\ pc[e] = "write" =>
                  /\ file[e] = "real" /\ r.num = number[e]
                  /\ e \in NetDev => todo'[e] = << >>
                  /\ e \in CdDev => todo'[e] # CdRules(e)
  <2>1. CASE r = new
        BY <1>1, <1>2, <1>3, <2>1
  <2>2. CASE r \in rules /\ e = d
        BY <1>1, <1>2, <1>3, <2>2 DEF Once
  <2>3. CASE r \in rules /\ e # d
        BY <1>1, <1>3, <2>3 DEF Once
  <2> QED BY <1>1, <2>1, <2>2, <2>3
<1>4. \A e \in Dev : pc[e] \in {"lock", "probe", "unprobe", "decide"} =>
         \A r \in rules' : r.file = "real" => r.dev # e
      BY <1>3
<1>5. \A e \in Dev : pc[e] = "write" =>
         \A r \in rules' : r.file = "real" /\ r.dev = e =>
             /\ file[e] = "real" /\ r.num = number[e]
             /\ e \in NetDev => todo'[e] = << >>
             /\ e \in CdDev => todo'[e] # CdRules(e)
      BY <1>3
<1>6. pc' = pc /\ file' = file /\ number' = number
      BY <1>1
<1> QED BY <1>4, <1>5, <1>6 DEF Once, CdRules

LEMMA OnceStep == TypeOK /\ Names /\ Once /\ [Next]_vars => Once'
<1> SUFFICES ASSUME TypeOK, Names, Once, [Next]_vars PROVE Once'
    OBVIOUS
<1> USE DEF plan, locking, system, Goto
<1>1. ASSUME NEW d \in Dev, Process(d) PROVE Once'
  <2>1. CASE WriteRule(d)
        BY <2>1, OnceWrite
  <2>2. ASSUME rules' = rules, UNCHANGED file, pc[d] = "decide", pc'[d] = "write",
               \A e \in Dev : e # d => UNCHANGED << pc[e], todo[e], number[e] >>
        PROVE  Once'
        BY <2>2 DEF Once, TypeOK
  <2>3. ASSUME rules' = rules, todo' = todo, number' = number,
               \A e \in Dev : e # d => pc'[e] = pc[e] /\ file'[e] = file[e],
               pc'[d] # "write" \/ (pc[d] = "write" /\ file' = file),
               pc'[d] \in {"lock", "probe", "unprobe", "decide"} =>
                   pc[d] \in {"lock", "probe", "unprobe", "decide"}
        PROVE  Once'
        BY <2>3, OnceFrame
  <2> USE DEF TypeOK
  <2>4. CASE NoLockDir(d)  BY <2>3, <2>4 DEF NoLockDir
  <2>5. CASE Mkdir(d)      BY <2>3, <2>5 DEF Mkdir
  <2>6. CASE MkdirFails(d) BY <2>3, <2>6 DEF MkdirFails
  <2>7. CASE Probe(d)      BY <2>3, <2>7 DEF Probe
  <2>8. CASE Unprobe(d)    BY <2>3, <2>8 DEF Unprobe
  <2>9. CASE NoMatch(d)    BY <2>3, <2>9 DEF NoMatch
  <2>10. CASE WriteFails(d) BY <2>3, <2>10 DEF WriteFails
  <2>11. CASE AllWritten(d) BY <2>3, <2>11 DEF AllWritten
  <2>12. CASE Unlock(d)     BY <2>3, <2>12 DEF Unlock
  <2>13. CASE DecideNet(d)  BY <2>2, <2>13 DEF DecideNet
  <2>14. CASE DecideCd(d)   BY <2>2, <2>14 DEF DecideCd
  <2> QED BY <1>1, <2>1, <2>4, <2>5, <2>6, <2>7, <2>8, <2>9, <2>10, <2>11,
             <2>12, <2>13, <2>14 DEF Process
<1>2. ASSUME NEW d \in Dev, Event(d) PROVE Once'
  <2>1. \A r \in rules : r.file = "real" => r.dev # d
        BY <1>2 DEF Event
  <2> QED BY <1>2, <2>1, OnceFrame DEF Event, TypeOK
<1>3. ASSUME NEW d \in Dev, Kill(d) PROVE Once'
      BY <1>3, OnceFrame DEF Kill, TypeOK
<1>4. CASE Remount
      BY <1>4, OnceFrame DEF Remount
<1>5. CASE Reboot
      BY <1>5 DEF Reboot, Once
<1>6. CASE UNCHANGED vars
      BY <1>6, OnceFrame DEF vars
<1> QED BY <1>1, <1>2, <1>3, <1>4, <1>5, <1>6 DEF Next

\* The steps that leave the lasting rules alone are not seen by the registry.
LEMMA RegistryFrame ==
    ASSUME udevDir' = udevDir,
           \A r : r \in rules' /\ r.file = "real" <=> r \in rules /\ r.file = "real"
    PROVE  UNCHANGED << RealName, udevDir >>
<1>1. ASSUME NEW d \in Dev
      PROVE  {s \in rules : s.dev = d /\ s.file = "real"}'
             = {s \in rules : s.dev = d /\ s.file = "real"}
      OBVIOUS
<1> QED BY <1>1 DEF RealName

LEMMA RegistryInit == Init => Registry!Init
<1> SUFFICES ASSUME Init PROVE Registry!Init
    OBVIOUS
<1>1. rules = {} /\ udevDir \in BOOLEAN
      BY DEF Init
<1>2. RealName = [d \in Dev |-> {}]
      BY <1>1 DEF RealName
<1> QED BY <1>1, <1>2 DEF Registry!Init

LEMMA OneNumber ==
    ASSUME NEW S, NEW n, NEW q \in S, q.num = n, \A r \in S : r.num = n
    PROVE  {r.num : r \in S} = {n}
OBVIOUS

\* The first lasting rule of a device gives it its name.
LEMMA RegistryWrite ==
    ASSUME TypeOK, Names, Once, NEW d \in Dev, WriteRule(d)
    PROVE  Registry!Give(d) \/ UNCHANGED << RealName, udevDir >>
<1> DEFINE new == [file |-> file[d], dev |-> d, link |-> Head(todo[d]), num |-> number[d]]
           Real(e) == {s \in rules : s.dev = e /\ s.file = "real"}
<1> USE DEF TypeOK, plan, locking, system, Goto
<1>1. /\ udevDir' = udevDir /\ pc[d] = "write" /\ todo[d] # << >>
      /\ rules' = rules \cup {new}
      BY DEF WriteRule
<1>2. RealName \in [Dev -> SUBSET Nat] /\ RealName' \in [Dev -> SUBSET Nat]
      BY <1>1 DEF RealName, Rule
<1>3. \A e \in Dev : e # d => RealName'[e] = RealName[e]
  <2>1. \A e \in Dev : e # d => Real(e)' = Real(e)
        BY <1>1
  <2> QED BY <2>1 DEF RealName
<1>4. CASE file[d] # "real"
  <2>1. \A r : r \in rules' /\ r.file = "real" <=> r \in rules /\ r.file = "real"
        BY <1>1, <1>4
  <2> QED BY <1>1, <2>1, RegistryFrame
<1>5. CASE file[d] = "real" /\ Real(d) # {}
  <2>1. \A r \in Real(d) : r.num = number[d]
        BY <1>1 DEF Once
  <2>2. Real(d)' = Real(d) \cup {new}
        BY <1>1, <1>5
  <2>3. RealName[d] = {number[d]} /\ RealName'[d] = {number[d]}
    <3>1. RealName[d] = {r.num : r \in Real(d)} /\ RealName'[d] = {r.num : r \in Real(d)'}
          BY DEF RealName
    <3>2. \A r \in Real(d)' : r.num = number[d]
          BY <2>1, <2>2
    <3>3. PICK q \in Real(d) : q.num = number[d]
          BY <1>5, <2>1
    <3>4. q \in Real(d)'
          BY <2>2, <3>3
    <3>5. {r.num : r \in Real(d)} = {number[d]}
          BY <2>1, <3>3, OneNumber
    <3>6. {r.num : r \in Real(d)'} = {number[d]}
          BY <3>2, <3>3, <3>4, OneNumber
    <3> QED BY <3>1, <3>5, <3>6
  <2>4. \A e \in Dev : RealName'[e] = RealName[e]
        BY <1>3, <2>3
  <2>5. RealName' = RealName
        BY <2>4 DEF RealName
  <2> QED BY <1>1, <2>5
<1>6. CASE file[d] = "real" /\ Real(d) = {}
  <2>1. RealName[d] = {}
        BY <1>6 DEF RealName
  <2>2. Real(d)' = {new}
        BY <1>1, <1>6
  <2>3. RealName'[d] = {number[d]}
    <3>1. RealName'[d] = {r.num : r \in Real(d)'}
          BY DEF RealName
    <3>2. new \in Real(d)' /\ new.num = number[d] /\ \A r \in Real(d)' : r.num = number[d]
          BY <2>2
    <3> QED BY <3>1, <3>2, OneNumber
  <2>4. RealName' = [RealName EXCEPT ![d] = {number[d]}]
        BY <1>2, <1>3, <2>3
  <2>5. ASSUME udevDir, d \notin NetDev \/ Custom[d] = NoName,
               NEW e \in Dev \ {d}, Kind(e) = Kind(d), number[d] \in RealName[e]
        PROVE  FALSE
    <3>1. PICK r \in rules : r.dev = e /\ r.file = "real" /\ r.num = number[d]
          BY <2>5 DEF RealName
    <3>2. FreshFor(d)
          BY <1>1, <2>5 DEF Names, Fresh
    <3>3. CASE d \in NetDev
      <4>1. todo[d] = << "eth" >> /\ e \in NetDev
            BY <1>1, <2>5, <3>3 DEF Names, Writing, Kind
      <4>2. r.link = "eth"
            BY <3>1, <4>1 DEF Names, RuleKinds
      <4> QED BY <1>6, <2>5, <3>1, <3>2, <3>3, <4>1, <4>2 DEF FreshFor
    <3>4. CASE d \in CdDev /\ d \notin NetDev
      <4>1. Own(d) \notin rules
        <5>1. \A s \in rules : ~(s.dev = d /\ s.file = "real")
              BY <1>6
        <5>2. Own(d).dev = d /\ Own(d).file = "real"
              BY <1>6 DEF Own
        <5> QED BY <5>1, <5>2
      <4>2. todo[d] = CdRules(d)
            BY <1>1, <3>4, <4>1 DEF Names, Writing
      <4>3. r.link = "cdrom" \/ r.link \in Alias
        <5>1. e \notin NetDev
              BY <2>5, <3>4 DEF Kind
        <5> QED BY <3>1, <5>1 DEF Names, RuleKinds, Rule
      <4>4. [file |-> r.file, dev |-> r.dev, link |-> "cdrom", num |-> r.num] \in rules
        <5>1. CASE r.link = "cdrom"
              BY <5>1 DEF Rule
        <5>2. CASE r.link \in Alias
              BY <5>2 DEF Names, CdromFirst
        <5> QED BY <4>3, <5>1, <5>2
      <4> QED BY <1>6, <3>1, <3>2, <3>4, <4>2, <4>4 DEF FreshFor
    <3> QED BY <3>3, <3>4 DEF Dev
  <2>6. number[d] \in Nat
        OBVIOUS
  <2>7. ASSUME udevDir, d \notin {e \in NetDev : Custom[e] # NoName},
               number[d] \in UNION {RealName[e] : e \in
                  {f \in Dev \ {d} : [x \in Dev |-> Kind(x)][f] = [x \in Dev |-> Kind(x)][d]}}
        PROVE  FALSE
    <3>1. PICK e \in Dev \ {d} : Kind(e) = Kind(d) /\ number[d] \in RealName[e]
          BY <2>7
    <3> QED BY <2>5, <2>7, <3>1
  <2> QED BY <1>1, <2>1, <2>3, <2>4, <2>6, <2>7 DEF Registry!Give, Registry!Taken
<1> QED BY <1>4, <1>5, <1>6

LEMMA RegistryStep ==
    TypeOK /\ Names /\ Once /\ [Next]_vars
        => [Registry!Next]_<< RealName, udevDir >>
<1> SUFFICES ASSUME TypeOK, Names, Once, [Next]_vars
             PROVE  Registry!Next \/ UNCHANGED << RealName, udevDir >>
    OBVIOUS
<1>1. udevDir' = udevDir
      BY UdevDirStays
<1>2. ASSUME NEW d \in Dev, WriteRule(d)
      PROVE  Registry!Next \/ UNCHANGED << RealName, udevDir >>
      BY <1>2, RegistryWrite DEF Registry!Next
<1>3. ASSUME rules' = rules PROVE UNCHANGED << RealName, udevDir >>
      BY <1>1, <1>3, RegistryFrame
<1> USE DEF plan, locking, system
<1>4. ASSUME NEW d \in Dev, Process(d), ~WriteRule(d) PROVE rules' = rules
  <2>1. CASE NoLockDir(d) \/ Mkdir(d) \/ MkdirFails(d) \/ Probe(d)
        BY <2>1 DEF NoLockDir, Mkdir, MkdirFails, Probe
  <2>2. CASE Unprobe(d) \/ DecideNet(d) \/ NoMatch(d) \/ DecideCd(d)
        BY <2>2 DEF Unprobe, DecideNet, NoMatch, DecideCd
  <2>3. CASE WriteFails(d) \/ AllWritten(d) \/ Unlock(d)
        BY <2>3 DEF WriteFails, AllWritten, Unlock
  <2> QED BY <1>4, <2>1, <2>2, <2>3 DEF Process
<1>5. ASSUME NEW d \in Dev, Event(d) \/ Kill(d) PROVE rules' = rules
      BY <1>5 DEF Event, Kill
<1>6. CASE Reboot
  <2>1. rules' = {r \in rules : r.file = "real"}
        BY <1>6 DEF Reboot
  <2> QED BY <1>1, <2>1, RegistryFrame
<1>7. CASE Remount \/ UNCHANGED vars
      BY <1>3, <1>7 DEF Remount, vars
<1> QED BY <1>2, <1>3, <1>4, <1>5, <1>6, <1>7 DEF Next

-----------------------------------------------------------------------------
(* Nobody but a killed process leaves its lock behind.                     *)

NoLocks == ~udevDir => \A k \in {"net", "cd"} : ~lock[k]

LEMMA NoLocksStep == TypeOK /\ NoLocks /\ [Next]_vars => NoLocks'
<1> SUFFICES ASSUME TypeOK, NoLocks, [Next]_vars, ~udevDir
             PROVE  \A k \in {"net", "cd"} : ~lock'[k]
    BY UdevDirStays DEF NoLocks
<1>1. \A k \in {"net", "cd"} : ~lock[k]
      BY DEF NoLocks
<1> USE DEF plan, locking, system, Goto
<1>2. ASSUME NEW d \in Dev, Process(d) PROVE \A k \in {"net", "cd"} : ~lock'[k]
  <2>1. CASE Unlock(d)
        BY <1>1, <2>1 DEF Unlock, TypeOK, Kind
  <2>2. CASE ~Unlock(d)
    <3>1. lock' = lock
      <4>1. CASE NoLockDir(d) \/ Mkdir(d) \/ MkdirFails(d) \/ Probe(d) \/ Unprobe(d)
            BY <4>1 DEF NoLockDir, Mkdir, MkdirFails, Probe, Unprobe
      <4>2. CASE DecideNet(d) \/ NoMatch(d) \/ DecideCd(d)
            BY <4>2 DEF DecideNet, NoMatch, DecideCd
      <4>3. CASE WriteRule(d) \/ WriteFails(d) \/ AllWritten(d)
            BY <4>3 DEF WriteRule, WriteFails, AllWritten
      <4> QED BY <1>2, <2>2, <4>1, <4>2, <4>3 DEF Process
    <3> QED BY <1>1, <3>1
  <2> QED BY <2>1, <2>2
<1>3. CASE Reboot
      BY <1>3, Zenon DEF Reboot
<1>4. CASE Remount \/ UNCHANGED vars \/ \E d \in Dev : Event(d) \/ Kill(d)
  <2>1. lock' = lock
        BY <1>4 DEF Remount, vars, Event, Kill
  <2> QED BY <1>1, <2>1
<1> QED BY <1>2, <1>3, <1>4 DEF Next

LEMMA OwnerFrame ==
    ASSUME LockHasOwner, lock' = lock, lost' = lost,
           \A e \in Dev : pc[e] \in Critical => pc'[e] \in Critical
    PROVE  LockHasOwner'
<1> SUFFICES ASSUME ~lost', NEW k \in {"net", "cd"}, lock'[k]
             PROVE  \E e \in Dev : Kind(e) = k /\ pc'[e] \in Critical
    BY DEF LockHasOwner, Kind
<1>1. ~lost /\ lock[k]
      BY Zenon
<1>2. PICK e \in Dev : Kind(e) = k /\ pc[e] \in Critical
      BY <1>1, Zenon DEF LockHasOwner
<1> QED BY <1>2

LEMMA OwnerLost == lost' = TRUE => LockHasOwner'
BY Zenon DEF LockHasOwner

LEMMA OwnerStep ==
    TypeOK /\ Locking /\ NoLocks /\ LockHasOwner /\ [Next]_vars => LockHasOwner'
<1> SUFFICES ASSUME TypeOK, Locking, NoLocks, LockHasOwner, [Next]_vars
             PROVE  LockHasOwner'
    OBVIOUS
<1> USE DEF plan, locking, system, Goto
<1>1. ASSUME NEW d \in Dev, Process(d) PROVE LockHasOwner'
  <2>1. CASE Mkdir(d)
    <3>1. \A k \in {"net", "cd"} : k # Kind(d) => lock'[k] = lock[k]
          BY <2>1 DEF Mkdir, TypeOK
    <3>2. pc'[d] \in Critical /\ \A e \in Dev : pc[e] \in Critical => pc'[e] \in Critical
          BY <2>1 DEF Mkdir, TypeOK, Critical
    <3>3. lost' = lost
          BY <2>1 DEF Mkdir
    <3> SUFFICES ASSUME ~lost', NEW k \in {"net", "cd"}, lock'[k]
                 PROVE  \E e \in Dev : Kind(e) = k /\ pc'[e] \in Critical
        BY DEF LockHasOwner, Kind
    <3>4. CASE k = Kind(d)
          BY <3>2, <3>4
    <3>5. CASE k # Kind(d)
      <4>1. ~lost /\ lock[k]
            BY <3>1, <3>3, <3>5, Zenon
      <4>2. PICK e \in Dev : Kind(e) = k /\ pc[e] \in Critical
            BY <4>1, Zenon DEF LockHasOwner
      <4> QED BY <3>2, <4>2
    <3> QED BY <3>4, <3>5
  <2>2. CASE Unlock(d)
    <3>1. \A k \in {"net", "cd"} : k # Kind(d) => lock'[k] = lock[k]
          BY <2>2 DEF Unlock, TypeOK
    <3>2. ~lock'[Kind(d)]
      <4>1. CASE udevDir
        <5>1. held[d]
              BY <2>2, <4>1 DEF Locking, Unlock, Critical
        <5> QED BY <2>2, <5>1 DEF Unlock, TypeOK, Kind
      <4>2. CASE ~udevDir
        <5>1. ~lock[Kind(d)]
              BY <4>2 DEF NoLocks, Kind
        <5> QED BY <2>2, <5>1 DEF Unlock, TypeOK, Kind
      <4> QED BY <4>1, <4>2
    <3>3. \A e \in Dev : e # d /\ pc[e] \in Critical => pc'[e] \in Critical
          BY <2>2 DEF Unlock, TypeOK
    <3>4. lost' = lost
          BY <2>2 DEF Unlock
    <3> SUFFICES ASSUME ~lost', NEW k \in {"net", "cd"}, lock'[k]
                 PROVE  \E e \in Dev : Kind(e) = k /\ pc'[e] \in Critical
        BY DEF LockHasOwner, Kind
    <3>5. k # Kind(d)
          BY <3>2
    <3>6. ~lost /\ lock[k]
          BY <3>1, <3>4, <3>5, Zenon
    <3>7. PICK e \in Dev : Kind(e) = k /\ pc[e] \in Critical
          BY <3>6, Zenon DEF LockHasOwner
    <3> QED BY <3>3, <3>5, <3>7
  <2>3. CASE NoLockDir(d) \/ MkdirFails(d)
    <3>1. lock' = lock /\ lost' = lost
          BY <2>3 DEF NoLockDir, MkdirFails
    <3>2. \A e \in Dev : pc[e] \in Critical => pc'[e] \in Critical
          BY <2>3 DEF NoLockDir, MkdirFails, TypeOK, Critical
    <3> QED BY <3>1, <3>2, OwnerFrame
  <2>4. CASE Probe(d) \/ Unprobe(d) \/ DecideNet(d) \/ DecideCd(d) \/ NoMatch(d)
    <3>1. lock' = lock /\ lost' = lost
          BY <2>4 DEF Probe, Unprobe, DecideNet, DecideCd, NoMatch
    <3>2. \A e \in Dev : pc[e] \in Critical => pc'[e] \in Critical
          BY <2>4 DEF Probe, Unprobe, DecideNet, DecideCd, NoMatch, TypeOK, Critical
    <3> QED BY <3>1, <3>2, OwnerFrame
  <2>5. CASE WriteRule(d) \/ AllWritten(d)
    <3>1. lock' = lock /\ lost' = lost
          BY <2>5 DEF WriteRule, AllWritten
    <3>2. \A e \in Dev : pc[e] \in Critical => pc'[e] \in Critical
          BY <2>5 DEF WriteRule, AllWritten, TypeOK, Critical
    <3> QED BY <3>1, <3>2, OwnerFrame
  <2>6. CASE WriteFails(d)
        BY <2>6, OwnerLost DEF WriteFails
  <2> QED BY <1>1, <2>1, <2>2, <2>3, <2>4, <2>5, <2>6 DEF Process
<1>2. ASSUME NEW d \in Dev, Event(d) PROVE LockHasOwner'
  <2>1. lock' = lock /\ lost' = lost
        BY <1>2 DEF Event
  <2>2. \A e \in Dev : pc[e] \in Critical => pc'[e] \in Critical
        BY <1>2 DEF Event, TypeOK, Critical
  <2> QED BY <2>1, <2>2, OwnerFrame
<1>3. ASSUME NEW d \in Dev, Kill(d) PROVE LockHasOwner'
      BY <1>3, OwnerLost DEF Kill
<1>4. CASE Remount \/ UNCHANGED vars
  <2>1. lock' = lock /\ lost' = lost /\ pc' = pc
        BY <1>4 DEF Remount, vars
  <2> QED BY <2>1, OwnerFrame
<1>5. CASE Reboot
  <2>1. \A k \in {"net", "cd"} : ~lock'[k]
        BY <1>5, Zenon DEF Reboot
  <2> QED BY <2>1, Zenon DEF LockHasOwner
<1> QED BY <1>1, <1>2, <1>3, <1>4, <1>5 DEF Next

-----------------------------------------------------------------------------
(* The probe link, and the way of a helper.                                *)

\* Up to the first reboot, and as long as nobody is killed, the link is there
\* only while the process that has made it is about to remove it.
LinkHasOwner ==
    /\ boots # 0
    /\ ~lost /\ boots = 1 /\ isWriteable => \E e \in Dev : pc[e] = "unprobe"

LEMMA LinkStep == TypeOK /\ LinkHasOwner /\ [Next]_vars => LinkHasOwner'
<1> SUFFICES ASSUME TypeOK, LinkHasOwner, [Next]_vars PROVE LinkHasOwner'
    OBVIOUS
<1> USE DEF plan, locking, system, Goto
<1>0. ASSUME UNCHANGED << boots, lost, isWriteable >>,
             \A e \in Dev : pc[e] = "unprobe" => pc'[e] = "unprobe"
      PROVE  LinkHasOwner'
      BY <1>0 DEF LinkHasOwner
<1>1. ASSUME NEW d \in Dev, Process(d) PROVE LinkHasOwner'
  <2> USE DEF TypeOK
  <2>1. CASE NoLockDir(d) \/ Mkdir(d) \/ MkdirFails(d)
        BY <1>0, <2>1 DEF NoLockDir, Mkdir, MkdirFails
  <2>2. CASE Probe(d)
    <3>1. CASE isWriteable' = isWriteable
          BY <1>0, <2>2, <3>1 DEF Probe
    <3>2. CASE pc' = [pc EXCEPT ![d] = "unprobe"] /\ UNCHANGED boots
      <4>1. pc'[d] = "unprobe"
            BY <3>2
      <4> QED BY <3>2, <4>1 DEF LinkHasOwner
    <3> QED BY <2>2, <3>1, <3>2 DEF Probe
  <2>3. CASE Unprobe(d)
        BY <2>3 DEF Unprobe, LinkHasOwner
  <2>4. CASE DecideNet(d) \/ NoMatch(d) \/ DecideCd(d)
        BY <1>0, <2>4 DEF DecideNet, NoMatch, DecideCd
  <2>5. CASE WriteRule(d) \/ AllWritten(d) \/ Unlock(d)
        BY <1>0, <2>5 DEF WriteRule, AllWritten, Unlock
  <2>6. CASE WriteFails(d)
        BY <2>6 DEF WriteFails, LinkHasOwner
  <2> QED BY <1>1, <2>1, <2>2, <2>3, <2>4, <2>5, <2>6 DEF Process
<1>2. ASSUME NEW d \in Dev, Event(d) PROVE LinkHasOwner'
      BY <1>0, <1>2 DEF Event, TypeOK
<1>3. ASSUME NEW d \in Dev, Kill(d) PROVE LinkHasOwner'
      BY <1>3 DEF Kill, LinkHasOwner
<1>4. CASE Remount \/ UNCHANGED vars
      BY <1>0, <1>4 DEF Remount, vars
<1>5. CASE Reboot
      BY <1>5 DEF Reboot, LinkHasOwner, TypeOK
<1> QED BY <1>1, <1>2, <1>3, <1>4, <1>5 DEF Next

\* The other processes stay where they are.
LEMMA OthersStay ==
    ASSUME TypeOK, NEW d \in Dev, Event(d) \/ Process(d) \/ Kill(d), NEW e \in Dev, e # d
    PROVE  UNCHANGED << pc[e], retry[e], todo[e] >>
<1> USE DEF TypeOK, plan, locking, system, Goto
<1>1. CASE Event(d) \/ Kill(d)
      BY <1>1 DEF Event, Kill
<1>2. CASE NoLockDir(d) \/ Mkdir(d) \/ MkdirFails(d) \/ Probe(d) \/ Unprobe(d)
      BY <1>2 DEF NoLockDir, Mkdir, MkdirFails, Probe, Unprobe
<1>3. CASE DecideNet(d) \/ NoMatch(d) \/ DecideCd(d)
      BY <1>3 DEF DecideNet, NoMatch, DecideCd
<1>4. CASE WriteRule(d) \/ WriteFails(d) \/ AllWritten(d) \/ Unlock(d)
      BY <1>4 DEF WriteRule, WriteFails, AllWritten, Unlock
<1> QED BY <1>1, <1>2, <1>3, <1>4 DEF Process

\* One step of a process: to a later place, or once more round its loop.
LEMMA GetsOn ==
    ASSUME TypeOK, NEW d \in Dev, Event(d) \/ Process(d) \/ Kill(d)
    PROVE  \/ Rank(pc'[d]) > Rank(pc[d])
           \/ pc[d] = "lock" /\ UNCHANGED pc[d] /\ retry'[d] < retry[d]
           \/ pc[d] = "write" /\ UNCHANGED pc[d] /\ Len(todo'[d]) < Len(todo[d])
<1> USE DEF TypeOK, plan, locking, system, Goto, Rank
<1>1. CASE Event(d)
      BY <1>1 DEF Event
<1>2. CASE Kill(d)
      BY <1>2 DEF Kill, Critical
<1>3. CASE NoLockDir(d) \/ Mkdir(d)
      BY <1>3 DEF NoLockDir, Mkdir
<1>4. CASE MkdirFails(d)
  <2>1. CASE retry[d] = 0
        BY <1>4, <2>1 DEF MkdirFails
  <2>2. CASE retry[d] # 0
    <3>1. retry'[d] = retry[d] - 1 /\ retry[d] \in Nat /\ pc[d] = "lock" /\ pc' = pc
          BY <1>4, <2>2, ConstantAssumption DEF MkdirFails
    <3> QED BY <3>1
  <2> QED BY <2>1, <2>2
<1>5. CASE Probe(d) \/ Unprobe(d)
      BY <1>5 DEF Probe, Unprobe
<1>6. CASE DecideNet(d) \/ NoMatch(d) \/ DecideCd(d)
      BY <1>6 DEF DecideNet, NoMatch, DecideCd
<1>7. CASE WriteRule(d)
  <2>1. todo'[d] = Tail(todo[d]) /\ todo[d] # << >> /\ pc[d] = "write" /\ pc'[d] = "write"
        BY <1>7 DEF WriteRule
  <2>2. Len(Tail(todo[d])) < Len(todo[d])
        BY <2>1
  <2> QED BY <2>1, <2>2
<1>8. CASE WriteFails(d) \/ AllWritten(d) \/ Unlock(d)
      BY <1>8 DEF WriteFails, AllWritten, Unlock
<1> QED BY <1>1, <1>2, <1>3, <1>4, <1>5, <1>6, <1>7, <1>8 DEF Process

-----------------------------------------------------------------------------
\* Every variable keeps its type.
THEOREM TypeCorrect == Spec => []TypeOK
BY Invariance, PTL

\* mkdir lets one process of a kind at a time read and write the rules, also
\* when processes are killed and the system is restarted.
THEOREM MutualExclusion == Spec => []OneWriter
BY Invariance, PTL

\* No file of rules gives two devices the same generated name.
THEOREM NoNameTwice == Spec => []NamesUnique
<1>1. Names => NamesUnique
      BY DEF Names
<1> QED BY <1>1, Invariance, PTL

\* Every way out but being killed, or failing to write, gives the lock back.
THEOREM LockIsGivenBack == Spec => []LockHasOwner
<1> DEFINE Inv == TypeOK /\ Bounded /\ Locking /\ OneWriter /\ Names
<1>1. Init => NoLocks /\ LockHasOwner
  <2>1. Init => \A k \in {"net", "cd"} : ~lock[k]
        BY Zenon DEF Init
  <2> QED BY <2>1, Zenon DEF NoLocks, LockHasOwner
<1>2. Inv /\ NoLocks /\ LockHasOwner /\ [Next]_vars => NoLocks' /\ LockHasOwner'
      BY NoLocksStep, OwnerStep
<1> QED BY <1>1, <1>2, Invariance, PTL DEF Spec

\* The helpers implement the table: whatever the interleaving, the kills and
\* the reboots, a device is named once, in one step, and for good.
THEOREM Implements == Spec => NamesPersist
<1> DEFINE Inv == TypeOK /\ Bounded /\ Locking /\ OneWriter /\ Names
<1>1. Init => Once /\ Registry!Init
      BY OnceInit, RegistryInit
<1>2. Inv /\ Once /\ [Next]_vars => Once' /\ [Registry!Next]_<< RealName, udevDir >>
      BY OnceStep, RegistryStep
<1> QED BY <1>1, <1>2, Invariance, PTL DEF Spec, NamesPersist, Registry!Spec

\* A writable directory is taken for read-only at most by a helper that runs
\* into the probe of one of the other kind, unless a killed one has left its link.
THEOREM ProbesMeet == Spec => MissesOnlyBeside
<1>1. Init => LinkHasOwner
      BY DEF Init, LinkHasOwner
<1>2. TypeOK /\ OneWriter /\ LinkHasOwner /\ [Next]_vars =>
        [\A d \in Dev :
           pc[d] = "probe" /\ pc'[d] = "decide" /\ rw /\ ~lost /\ boots = 1 =>
              \E e \in Dev : pc[e] = "unprobe" /\ (udevDir => Kind(e) # Kind(d))]_vars
  <2> SUFFICES ASSUME TypeOK, OneWriter, LinkHasOwner, Next, NEW d \in Dev,
                      pc[d] = "probe", pc'[d] = "decide", rw, ~lost, boots = 1
               PROVE  \E e \in Dev : pc[e] = "unprobe" /\ (udevDir => Kind(e) # Kind(d))
      OBVIOUS
  <2>1. Process(d)
    <3>1. CASE Remount \/ Reboot
          BY <3>1 DEF Remount, Reboot
    <3>2. ASSUME NEW e \in Dev, Event(e) \/ Process(e) \/ Kill(e) PROVE e = d
          BY <3>2, OthersStay
    <3>3. ~Event(d) /\ ~Kill(d)
          BY DEF Event, Kill, Goto, TypeOK
    <3> QED BY <3>1, <3>2, <3>3 DEF Next
  <2>2. isWriteable
        BY <2>1 DEF Process, Probe, Goto, TypeOK, NoLockDir, Mkdir, MkdirFails, Unprobe,
           DecideNet, NoMatch, DecideCd, WriteRule, WriteFails, AllWritten, Unlock
  <2>3. PICK e \in Dev : pc[e] = "unprobe"
        BY <2>2 DEF LinkHasOwner
  <2>4. udevDir => Kind(e) # Kind(d)
        BY <2>3 DEF OneWriter, Critical
  <2> QED BY <2>3, <2>4
<1> QED BY <1>1, <1>2, Invariance, LinkStep, PTL DEF Spec, MissesOnlyBeside

\* No helper goes back, or round a loop for ever: of ProcessEnds the part that
\* does not rest on fairness.
THEOREM NoHelperGoesBack == Spec => HelpersGetOn
<1>1. TypeOK /\ [Next]_vars =>
        [\A d \in Dev : pc'[d] # "start" =>
           \/ UNCHANGED << pc[d], retry[d], todo[d] >>
           \/ Rank(pc'[d]) > Rank(pc[d])
           \/ pc[d] = "lock" /\ UNCHANGED pc[d] /\ retry'[d] < retry[d]
           \/ pc[d] = "write" /\ UNCHANGED pc[d] /\ Len(todo'[d]) < Len(todo[d])]_vars
  <2> SUFFICES ASSUME TypeOK, Next, NEW d \in Dev, pc'[d] # "start",
                      ~UNCHANGED << pc[d], retry[d], todo[d] >>
               PROVE  \/ Rank(pc'[d]) > Rank(pc[d])
                      \/ pc[d] = "lock" /\ UNCHANGED pc[d] /\ retry'[d] < retry[d]
                      \/ pc[d] = "write" /\ UNCHANGED pc[d] /\ Len(todo'[d]) < Len(todo[d])
      OBVIOUS
  <2>1. ~Remount /\ ~Reboot
        BY DEF Remount, Reboot, locking, plan
  <2>2. PICK e \in Dev : Event(e) \/ Process(e) \/ Kill(e)
        BY <2>1 DEF Next
  <2>3. e = d
        BY <2>2, OthersStay
  <2> QED BY <2>2, <2>3, GetsOn
<1> QED BY <1>1, Invariance, PTL DEF Spec, HelpersGetOn
=============================================================================
