------------------------------ MODULE EventFeed ------------------------------
(***************************************************************************)
(* What the outbox promises the consumers of an org's events: there is one *)
(* line of events per org, it only ever grows at its end, and the          *)
(* consumers are told its events in that order, none skipped and none      *)
(* invented.  Copies of an event already told are not seen at this level.  *)
(***************************************************************************)
EXTENDS Sequences, SequencesExt

CONSTANT Orgs

VARIABLES
    line,   \* per org, the events that can no longer be overtaken
    told    \* per org, the events the broker holds, each once

feedVars == <<line, told>>

Init ==
    /\ line = [o \in Orgs |-> <<>>]
    /\ told = [o \in Orgs |-> <<>>]

\* Events join at the end, never in the middle and never in front.
Grow ==
    /\ \A o \in Orgs : IsPrefix(line[o], line'[o])
    /\ DOMAIN line' = Orgs
    /\ UNCHANGED told

Tell(o) ==
    /\ Len(told[o]) < Len(line[o])
    /\ told' = [told EXCEPT ![o] = Append(@, line[o][Len(@) + 1])]
    /\ UNCHANGED line

Next == Grow \/ \E o \in Orgs : Tell(o)

Spec == Init /\ [][Next]_feedVars
=============================================================================
