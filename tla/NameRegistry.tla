---------------------------- MODULE NameRegistry ----------------------------
(***************************************************************************)
(* What the rule generator promises of the file in /etc: a table of names  *)
(* in which a device gets a number in one step, once, for good, and, where *)
(* its processes exclude each other, one no other device of its kind has.  *)
(***************************************************************************)
EXTENDS Naturals

CONSTANTS
    Device,
    KindOf,      \* devices of different kinds do not share a name space
    Asked        \* the devices whose number someone else asks for

VARIABLES
    name,        \* the numbers of each device: none, or one
    exclusive    \* whether the processes exclude each other

Init ==
    /\ name = [d \in Device |-> {}]
    /\ exclusive \in BOOLEAN

Taken(d) == UNION {name[e] : e \in {f \in Device \ {d} : KindOf[f] = KindOf[d]}}

Give(d) ==
    /\ name[d] = {}
    /\ \E n \in name'[d] :
         /\ n \in Nat
         /\ exclusive /\ d \notin Asked => n \notin Taken(d)
         /\ name' = [name EXCEPT ![d] = {n}]
    /\ UNCHANGED exclusive

Next == \E d \in Device : Give(d)

Spec == Init /\ [][Next]_<< name, exclusive >>
=============================================================================
