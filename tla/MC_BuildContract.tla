-------------------------- MODULE MC_BuildContract --------------------------
(* Instances of BuildContract for TLC: one org with one app.                *)
EXTENDS BuildContract

CONSTANTS a1

\* The condition under which the leases are proved right is met by the instance.
ASSUME GraceIsEnough == GraceCovers

McAppOrg == [a \in Apps |-> 1]
McOnePerOrg == [o \in Orgs |-> 1]
McTwoPerOrg == [o \in Orgs |-> 2]
McWebhooks == [app : Apps, branch : Branches, class : {"AUTOMATIC"}]
=============================================================================
