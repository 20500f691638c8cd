----------------------------- MODULE FairShare -----------------------------
(***************************************************************************)
(* How evenly the dispatcher of BuildQueue serves those who wait.  The     *)
(* scheduler is BuildQueue's, action for action; the variables added here  *)
(* only count, and no action reads them.                                   *)
(***************************************************************************)
EXTENDS BuildQueue

VARIABLES
    passedBy,   \* passedBy[o][p]: committed turns of org p while org o waited to be offered one
    turns       \* the same, of the round that is open

fairVars == <<vars, passedBy, turns>>

\* An org waits for a turn when it has a build that no limit of its own holds back.
WaitsForTurn(o) ==
    /\ orgs[o] = "ACTIVE"
    /\ Cardinality(OfOrg(InFlight, o)) < MaxConcurrent[o]
    /\ \E b \in Queued : Org(b) = o /\ OfApp(InFlight, App(b)) = {}

NoCount == [o \in Orgs |-> [p \in Orgs |-> 0]]

\* Orgs that stopped waiting, or are served, start counting again.
StillWaiting(count, served) ==
    [o \in Orgs |-> IF WaitsForTurn(o)' /\ o \notin served THEN count[o] ELSE [p \in Orgs |-> 0]]

\* An org is offered its turn when its row is locked, also if the build it was listed for has
\* expired or been cancelled since: then the turn serves nobody, and the org stays where it is.
CountTurn(i) ==
    LET new == round'[i].sent \ round[i].sent
        offered == {Org(c) : c \in (round[i].list \ round'[i].list) \cup round'[i].sent}
    IN  turns' = [o \in Orgs |-> [p \in Orgs |->
                    IF ~WaitsForTurn(o) \/ o \in offered THEN 0
                    ELSE turns[o][p] + Cardinality(OfOrg(new, p))]]

CommitTurns(i) ==
    LET served == {Org(b) : b \in round[i].sent}
        summed == [o \in Orgs |-> [p \in Orgs |->
                     turns[o][p] + IF o \in round[i].locked THEN 0 ELSE passedBy[o][p]]]
    IN  passedBy' = StillWaiting(summed, served)

CountedRound(i) ==
    \/ DispatchOne(i) /\ CountTurn(i) /\ UNCHANGED passedBy
    \/ RoundCommit(i) /\ CommitTurns(i) /\ turns' = NoCount
    \/ RoundAbort(i) /\ turns' = NoCount /\ UNCHANGED passedBy
    \/ (RoundOpen(i) \/ Turn(i)) /\ UNCHANGED <<passedBy, turns>>

FairInit == Init /\ passedBy = NoCount /\ turns = NoCount

FairNext ==
    \/ \E i \in Dispatching : CountedRound(i)
    \/ /\ Elsewhere
       /\ passedBy' = StillWaiting(passedBy, {})
       /\ turns' = StillWaiting(turns, {})

FairShareSpec == FairInit /\ [][FairNext]_fairVars

-----------------------------------------------------------------------------
(* Properties *)

\* Round robin: while an org waits to be offered a turn no other org gets two, whatever its
\* backlog and however rounds, crashes, limits, expiries and returned slots interleave.
OneTurnEach == \A o, p \in Orgs : passedBy[o][p] <= 1
=============================================================================
