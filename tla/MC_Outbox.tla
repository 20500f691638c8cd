----------------------------- MODULE MC_Outbox -----------------------------
EXTENDS Outbox, TLC

CONSTANTS t1, t2, t3, i1, i2

\* All transactions write for one org, or the third one for another.
McOneOrg == [t \in Txs |-> 1]
McTwoOrgs == [t \in Txs |-> IF t = t3 THEN 2 ELSE 1]

McInstances == Permutations({i1, i2})

\* t1 and t3 differ in nothing.
McReplicas == McInstances \cup Permutations({t1, t3})
=============================================================================
