--------------------------- MODULE MC_BuildQueue ---------------------------
(* Instances of BuildQueue for TLC: one org.                                *)
EXTENDS BuildQueue

CONSTANT a1

McAppOrg == [a \in Apps |-> 1]
McOnePerOrg == [o \in Orgs |-> 1]

\* Webhook pushes of every app.
McWebhooks == [app : Apps, branch : Branches, class : {"AUTOMATIC"}]
=============================================================================
