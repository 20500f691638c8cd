---------------------------- MODULE MC_FairShare ----------------------------
(* Instances of FairShare for TLC: two orgs with two apps each.             *)
EXTENDS FairShare, TLC

CONSTANTS a1, a2, c1, d1

McAppOrg == [a \in Apps |-> IF a \in {c1, d1} THEN 2 ELSE 1]
\* The first org may use two slots, the second one.
McByOrg == [o \in Orgs |-> 3 - o]
McTwoPerOrg == [o \in Orgs |-> 2]

\* Webhook pushes of every app, and manual builds of one of them.
McMixed ==
    [app : Apps, branch : Branches, class : {"AUTOMATIC"}]
      \cup [app : {a1}, branch : Branches, class : {"INTERACTIVE"}]

McInstances == Permutations(Instances)
=============================================================================
