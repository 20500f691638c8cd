------------------------------- MODULE WebApp -------------------------------
(* The screens of the web app that keep state of their own, one in each      *)
(* behaviour: what is on another screen is read anew when it is opened. The   *)
(* lists come with their proofs; the others are proved about in WebAppProofs. *)
EXTENDS Naturals, FiniteSets

CONSTANTS Screens, Rows, Calls, MaxListTroubles, NoCall
CONSTANTS Notes, Marks, MaxBellTroubles, NoMark
CONSTANTS Panels, Fields, Values, MaxEdits, MaxSaves, MaxSlips, NotSaving
CONSTANTS People, Attempts, Branches, PerHour, MaxMishaps, NoBranch, NoAttempt
CONSTANTS Tabs, Orgs, Installations, States, MaxSetbacks, Nothing

VARIABLE screen
VARIABLES hook, there, others, rows, count, calls, late, drifted, listTroubles
VARIABLES filter, status, news, list, unreadCount, marks, lateMarks, muddled, bellTroubles
VARIABLES panel, stored, shown, typed, defaults, dirty, call, edits, saves, slips
VARIABLES link, pages, keys, keyed, attempts, requested, recent, mishaps
VARIABLES tabs, intents, histories, setOut, states, session, links, setbacks

L == INSTANCE OptimisticRemovalsProofs
B == INSTANCE NotificationBell
F == INSTANCE SettingsForms
M == INSTANCE ManualBuilds
G == INSTANCE GitHubHandoff

ASSUME Lists == L!ListConstants
ASSUME Bells == B!BellConstants
ASSUME Forms == F!FormConstants
ASSUME Submissions == M!BuildConstants
ASSUME RoundTrips == G!HandoffConstants

lists == <<hook, there, others, rows, count, calls, late, drifted, listTroubles>>
bell == <<filter, status, news, list, unreadCount, marks, lateMarks, muddled, bellTroubles>>
forms == <<panel, stored, shown, typed, defaults, dirty, call, edits, saves, slips>>
builds == <<link, pages, keys, keyed, attempts, requested, recent, mishaps>>
github == <<tabs, intents, histories, setOut, states, session, links, setbacks>>

vars == <<screen, lists, bell, forms, builds, github>>

\* A step of one screen leaves the others alone.
OnLists(step) == screen = "lists" /\ step /\ UNCHANGED <<screen, bell, forms, builds, github>>
OnBell(step) == screen = "bell" /\ step /\ UNCHANGED <<screen, lists, forms, builds, github>>
OnForms(step) == screen = "forms" /\ step /\ UNCHANGED <<screen, lists, bell, builds, github>>
OnBuilds(step) == screen = "builds" /\ step /\ UNCHANGED <<screen, lists, bell, forms, github>>
OnGitHub(step) == screen = "github" /\ step /\ UNCHANGED <<screen, lists, bell, forms, builds>>

\* What a screen that is not open holds is as it was at first, one way or another.
Init ==
    /\ screen \in Screens
    /\ IF screen = "lists" THEN L!Init ELSE L!Init /\ hook = "role"
    /\ IF screen = "bell" THEN B!Init ELSE B!Init /\ filter = "ALL" /\ status = [n \in Notes |-> "coming"]
    /\ IF screen = "forms" THEN F!Init ELSE F!Init /\ panel = (CHOOSE p \in Panels : TRUE)
    /\ M!Init
    /\ IF screen = "github" THEN G!Init ELSE G!Init /\ session = FALSE

ListsStep == OnLists(L!Next)
BellStep == OnBell(B!Next)
FormsStep == OnForms(F!Next)
BuildsStep == OnBuilds(M!Next)
GitHubStep == OnGitHub(G!Next)

Next ==
    \/ ListsStep
    \/ BellStep
    \/ FormsStep
    \/ BuildsStep
    \/ GitHubStep

Spec == Init /\ [][Next]_vars

\* The bell's interval goes on, calls are answered or given up, and someone keeps pressing Save.
FairSpec ==
    /\ Spec
    /\ WF_vars(OnBell(B!PollCount))
    /\ WF_vars(OnBell(B!AnswerCount))
    /\ WF_vars(OnBell(B!ArriveCount))
    /\ WF_vars(OnBell(B!CarryLate))
    /\ \A c \in Marks :
         /\ WF_vars(OnBell(B!Carry(c)))
         /\ WF_vars(OnBell(B!Succeed(c)))
    /\ WF_vars(OnForms(F!Save))
    /\ WF_vars(OnForms(F!Land))
    /\ WF_vars(OnForms(F!Refuse))
    /\ WF_vars(OnForms(F!Reread))
    /\ WF_vars(OnForms(F!Answer))

-----------------------------------------------------------------------------
\* A list shows the server's rows once its calls are over and it is not being read.
RowsTrueAtRest == L!RowsTrueAtRest

\* A team's number of people follows removals that go well.
NumberFollowsRemovals == L!NumberFollowsRemovals

\* Marks of single notifications leave each other alone, refused ones too.
EachMarkItsOwn == B!EachMarkItsOwn

\* The bell comes to show the server's number.
BellComesRight == B!BellComesRight

\* A save of build settings sends no field that was not edited.
OnlyEditsAreSent == F!OnlyEditsAreSent

\* A save of build settings replaces no value its form had not read.
NothingOverwrittenUnseen == F!NothingOverwrittenUnseen

\* Edits are saved in the end, or given up to a form that shows what others saved.
SavesGoThrough == F!SavesGoThrough

\* A retry of a manual build never starts a second one.
OneBuildPerIntent == M!OneBuildPerIntent

\* The hour's limit of manual builds is exact.
LimitExact == M!LimitExact

\* A fresh installation is linked to the org it was started for.
GrantsStayWithTheirOrg == G!GrantsStayWithTheirOrg

\* An installation is linked for a tab that had set out for its org.
LinksWhatItSetOutFor == G!LinksWhatItSetOutFor
=============================================================================
