------------------------- MODULE OptimisticRemovals -------------------------
(* The lists of the web app that change before the server has answered: a    *)
(* team's people, pending invites, members' roles and the account's sessions *)
(* (useRemoveTeamMember, useRevokeInvite, useChangeRole, useRevokeSession).  *)
(* A row stands for one that the call takes out of the state it is shown in: *)
(* out of the list, or out of the role it had.                               *)
EXTENDS Naturals, FiniteSets, QueryCache

CONSTANTS
    Rows,         \* what the list shows at first
    Calls,        \* calls that can be under way at once, numbered
    MaxListTroubles, \* calls and reads that fail, reads of the screen's own, and rows that
                     \* other people or the server's own clock take away, together
    NoCall

VARIABLES
    hook,    \* the list that is on screen
    there,   \* the rows the server has
    others,  \* how often something else has changed the server's rows
    rows,    \* the cached pages of the list
    count,   \* the cached number of a team's people
    calls,   \* what became of each call
    late,    \* rows of requests that are carried out after the web app gave them up
    drifted, \* a removal failed or found its row gone, or the number was read during one
    listTroubles

vars == <<hook, there, others, rows, count, calls, late, drifted, listTroubles>>

\* Revoking an invite and ending a session differ in nothing that is modelled.
Hooks == {"teamMember", "role", "invite"}

\* What was read from the server, and when: a read is as old as the changes it knows of.
Reading(value) == [value |-> value, others |-> others]

Counted == hook = "teamMember"
Open(c) == calls[c] # NoCall

RowsRead == [value : SUBSET Rows, others : Nat]
NumbersRead == [value : Nat, others : Nat]
Call == [row : Rows, phase : {"sent", "made", "missing"}, rows : RowsRead, count : NumbersRead]

\* What the theorems assume of the constants.
ListConstants == IsFiniteSet(Rows) /\ IsFiniteSet(Calls) /\ NoCall \notin Call

TypeOK ==
    /\ hook \in Hooks
    /\ there \subseteq Rows
    /\ others \in Nat
    /\ rows \in Entries(RowsRead)
    /\ count \in Entries(NumbersRead)
    /\ calls \in [Calls -> Call \cup {NoCall}]
    /\ late \subseteq Rows
    /\ drifted \in BOOLEAN
    /\ listTroubles \in Nat

-----------------------------------------------------------------------------
Without(data, row) == [data EXCEPT !.value = @ \ {row}]

OneLess(data) == [data EXCEPT !.value = IF @ = 0 THEN 0 ELSE @ - 1]

Trouble == listTroubles < MaxListTroubles /\ listTroubles' = listTroubles + 1
Settle(c) == calls' = [calls EXCEPT ![c] = NoCall]
NotServer == UNCHANGED <<hook, there, others>>
OnlyCaches == UNCHANGED <<hook, there, others, calls, late>>

\* onMutate: reads under way are dropped, what is cached is kept for a refusal, and the row
\* goes at once. A list shows what it holds, so that a row can be asked for twice.
Start(c) ==
    /\ ~Open(c)
    /\ \A d \in Calls : d < c => Open(d)
    /\ \E row \in rows.data.value :
         /\ calls' = [calls EXCEPT ![c] =
                [row |-> row, phase |-> "sent", rows |-> rows.data, count |-> count.data]]
         /\ rows' = Put(Cancelled(rows), Without(rows.data, row))
    /\ count' = IF Counted THEN Put(Cancelled(count), OneLess(count.data)) ELSE count
    /\ UNCHANGED <<late, drifted, listTroubles>>
    /\ NotServer

\* The server takes the row away, or finds that it has gone.
Execute(c) ==
    /\ Open(c)
    /\ calls[c].phase = "sent"
    /\ there' = there \ {calls[c].row}
    /\ calls' = [calls EXCEPT ![c].phase = IF calls[c].row \in there THEN "made" ELSE "missing"]
    /\ UNCHANGED <<hook, others, rows, count, late, drifted, listTroubles>>

\* Mutant: the list is not read again once the call is over.
Succeed_Unread(c) ==
    /\ Open(c)
    /\ calls[c].phase \in {"made", "missing"}
    /\ UNCHANGED rows
    /\ count' = IF Counted /\ calls[c].phase = "missing" THEN Invalidated(count) ELSE count
    /\ drifted' = (drifted \/ calls[c].phase = "missing")
    /\ Settle(c)
    /\ UNCHANGED <<late, listTroubles>>
    /\ NotServer

\* A row that had gone already counts as taken away, except that a team's number is read
\* again. A changed role is written over the row once more. Then the list is read again.
Succeed(c) ==
    /\ Open(c)
    /\ calls[c].phase \in {"made", "missing"}
    /\ LET answered == IF hook = "role" THEN Put(rows, Without(rows.data, calls[c].row)) ELSE rows
       IN  rows' = Invalidated(answered)
    /\ count' = IF Counted /\ calls[c].phase = "missing" THEN Invalidated(count) ELSE count
    /\ drifted' = (drifted \/ calls[c].phase = "missing")
    /\ Settle(c)
    /\ UNCHANGED <<late, listTroubles>>
    /\ NotServer

\* The call is refused, or its answer is lost, or it is given up before the server has got to
\* it: what was cached when it began is put back, and the list is read again.
Fail(c) ==
    /\ Open(c)
    /\ Trouble
    /\ rows' = Invalidated(Put(rows, calls[c].rows))
    /\ count' = IF Counted THEN Put(count, calls[c].count) ELSE count
    /\ drifted' = TRUE
    /\ \/ UNCHANGED late
       \/ calls[c].phase = "sent" /\ late' = late \cup {calls[c].row}
    /\ Settle(c)
    /\ NotServer

\* A request that was given up is carried out after all, or something else takes a row away.
ExecuteLate ==
    /\ \E row \in late :
         /\ late' = late \ {row}
         /\ there' = there \ {row}
         /\ others' = IF row \in there THEN others + 1 ELSE others
    /\ UNCHANGED <<hook, rows, count, calls, drifted, listTroubles>>

Elsewhere ==
    /\ Trouble
    /\ \E row \in there : there' = there \ {row}
    /\ others' = others + 1
    /\ UNCHANGED <<hook, rows, count, calls, late, drifted>>

\* The screen reads for itself. The number of a team read while a removal is under way may
\* or may not have the removal in it.
ReadRows ==
    /\ Trouble
    /\ Idle(rows)
    /\ rows' = Asked(rows)
    /\ UNCHANGED <<hook, there, others, count, calls, late, drifted>>

ReadCount ==
    /\ Counted
    /\ Trouble
    /\ Idle(count)
    /\ count' = Asked(count)
    /\ drifted' = (drifted \/ \E c \in Calls : Open(c))
    /\ UNCHANGED <<hook, there, others, rows, calls, late>>

AnswerRows ==
    /\ Asking(rows)
    /\ rows' = Answered(rows, Reading(there))
    /\ UNCHANGED <<count, drifted, listTroubles>>
    /\ OnlyCaches

AnswerCount ==
    /\ Asking(count)
    /\ count' = Answered(count, Reading(Cardinality(there)))
    /\ UNCHANGED <<rows, drifted, listTroubles>>
    /\ OnlyCaches

ArriveRows ==
    /\ Answering(rows)
    /\ rows' = Arrived(rows)
    /\ UNCHANGED <<count, drifted, listTroubles>>
    /\ OnlyCaches

ArriveCount ==
    /\ Answering(count)
    /\ count' = Arrived(count)
    /\ UNCHANGED <<rows, drifted, listTroubles>>
    /\ OnlyCaches

ReadFails ==
    /\ Trouble
    /\ \/ ~Idle(rows) /\ rows' = Failed(rows) /\ UNCHANGED count
       \/ ~Idle(count) /\ count' = Failed(count) /\ UNCHANGED rows
    /\ UNCHANGED drifted
    /\ OnlyCaches

-----------------------------------------------------------------------------
Init ==
    /\ hook \in Hooks
    /\ there = Rows
    /\ others = 0
    /\ rows = Cached([value |-> Rows, others |-> 0])
    /\ count = Cached([value |-> Cardinality(Rows), others |-> 0])
    /\ calls = [c \in Calls |-> NoCall]
    /\ late = {}
    /\ drifted = FALSE
    /\ listTroubles = 0

Next ==
    \/ \E c \in Calls : Start(c) \/ Execute(c) \/ Succeed(c) \/ Fail(c)
    \/ ExecuteLate
    \/ Elsewhere
    \/ ReadRows
    \/ ReadCount
    \/ AnswerRows
    \/ AnswerCount
    \/ ArriveRows
    \/ ArriveCount
    \/ ReadFails

Spec == Init /\ [][Next]_vars

-----------------------------------------------------------------------------
AtRest == \A c \in Calls : ~Open(c)

\* However many calls overlap, fail or come late, a list that is not being read and not known
\* to be out of date shows the server's rows, unless something else changed them since they
\* were read (onSettled of the four hooks).
RowsTrueAtRest ==
    (AtRest /\ Settled(rows) /\ rows.data.others = others) => rows.data.value = there

\* The number of a team's people follows the removals without being read again, as long as
\* none of them fails or finds its row gone, and it is not read while one is under way
\* (changeMemberCount in use-team-mutations.ts).
NumberFollowsRemovals ==
    (/\ Counted
     /\ AtRest
     /\ ~drifted
     /\ Settled(count)
     /\ count.data.others = others)
    => count.data.value = Cardinality(there)
=============================================================================
