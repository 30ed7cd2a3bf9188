--------------------------- MODULE MCRuleGenerator ---------------------------
(* Instances of RuleGenerator for TLC.                                     *)
EXTENDS RuleGenerator

CONSTANTS n1, n2, n3, c1, c2

\* n1 and n2 both come up as eth0, one after the other has gone; n3 is eth1.
MCInterface == [d \in NetDev |-> IF d = n3 THEN 1 ELSE 0]
MCCustom == [d \in NetDev |-> NoName]
MCCustomOne == [d \in NetDev |-> IF d = n1 THEN 0 ELSE NoName]
MCAliases == [d \in CdDev |-> IF d = c1 THEN << "cdrw", "dvd" >> ELSE << "cdrw" >>]
=============================================================================
