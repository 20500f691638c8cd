---------------------------- MODULE SettingsForms ----------------------------
(* The settings forms of an app page: what a person types, what the page     *)
(* reads again meanwhile, and what a save sends. The app's own settings are  *)
(* sent without a version and the form keeps what it showed first; a link's  *)
(* build settings go with the version they were read at, and the form        *)
(* follows what is read (AppSettingsPanel, BuildSettingsPanel).              *)
EXTENDS Naturals, FiniteSets, QueryCache

CONSTANTS
    Panels,    \* the forms to look at: "app", "build"
    Fields,
    Values,
    MaxEdits,  \* fields the person changes
    MaxSaves,  \* saves of other people
    MaxSlips,  \* calls and reads that fail, and reads of the page's own, together
    NotSaving

VARIABLES
    panel,    \* the form on screen
    stored,   \* what the server has
    shown,    \* the cached app or link
    typed,    \* what stands in the form
    defaults, \* what the form compares edits with
    dirty,    \* the fields the person has edited
    call,     \* the save under way
    edits,
    saves,    \* saves of other people so far
    slips

vars == <<panel, stored, shown, typed, defaults, dirty, call, edits, saves, slips>>

\* A row with its version, and a save with the row the form had read and the server's.
Row == [values : [Fields -> Values], version : Nat]
SaveCall == [phase : {"sent", "landed", "refused", "reread"}, base : Row, settings : [Fields -> Values], row : Row]

\* What the theorems assume of the constants.
FormConstants == Values # {}

TypeOK ==
    /\ panel \in Panels
    /\ stored \in Row
    /\ shown \in Entries(Row)
    /\ typed \in [Fields -> Values]
    /\ defaults \in [Fields -> Values]
    /\ dirty \subseteq Fields
    /\ call \in SaveCall \cup {NotSaving}

-----------------------------------------------------------------------------
\* What differs from the row as last read: appChange, buildSettingsChange.
Change(row, settings) == {f \in Fields : settings[f] # row.values[f]}

\* What the server makes of the fields that are sent: a new version if any of them is new to it.
Applied(row, base, settings) ==
    LET values == [f \in Fields |-> IF f \in Change(base, settings) THEN settings[f] ELSE row.values[f]]
    IN  [values |-> values, version |-> IF values = row.values THEN row.version ELSE row.version + 1]

\* form.reset
Reset(values) == typed' = values /\ defaults' = values /\ dirty' = {}

\* The cached row has new values. Only the build form takes them, except in edited fields.
Follow(values) ==
    /\ UNCHANGED dirty
    /\ IF panel = "build"
       THEN /\ defaults' = values
            /\ typed' = [f \in Fields |-> IF f \in dirty THEN typed[f] ELSE values[f]]
       ELSE UNCHANGED <<typed, defaults>>

Slip == slips < MaxSlips /\ slips' = slips + 1

Edit(f) ==
    /\ edits < MaxEdits
    /\ edits' = edits + 1
    /\ \E v \in Values \ {typed[f]} :
         /\ typed' = [typed EXCEPT ![f] = v]
         /\ dirty' = IF v = defaults[f] THEN dirty \ {f} ELSE dirty \cup {f}
    /\ UNCHANGED <<panel, stored, shown, defaults, call, saves, slips>>

\* The button is there while something differs from the row as last read.
Save ==
    /\ call = NotSaving
    /\ Change(shown.data, typed) # {}
    /\ call' = [phase |-> "sent", base |-> shown.data, settings |-> typed, row |-> stored]
    /\ UNCHANGED <<panel, stored, shown, typed, defaults, dirty, edits, saves, slips>>

\* Mutant: the version that is sent along is not looked at.
Outdated_Never == FALSE

\* The server refuses a link's settings from an older version, and an app's when another
\* transaction commits within its own.
Outdated == panel = "build" /\ call.base.version # stored.version
Overtaken == panel = "app" /\ call.row.version # stored.version

Land ==
    /\ call # NotSaving
    /\ call.phase = "sent"
    /\ ~Outdated
    /\ stored' = Applied(stored, call.base, call.settings)
    /\ call' = [call EXCEPT !.phase = "landed", !.row = stored']
    /\ UNCHANGED <<panel, shown, typed, defaults, dirty, edits, saves, slips>>

Refuse ==
    /\ call # NotSaving
    /\ call.phase = "sent"
    /\ Outdated \/ Overtaken
    /\ call' = [call EXCEPT !.phase = "refused"]
    /\ UNCHANGED <<panel, stored, shown, typed, defaults, dirty, edits, saves, slips>>

\* A save that came second reads the row as it is now.
Reread ==
    /\ call # NotSaving
    /\ call.phase = "refused"
    /\ call' = [call EXCEPT !.phase = "reread", !.row = stored]
    /\ UNCHANGED <<panel, stored, shown, typed, defaults, dirty, edits, saves, slips>>

\* Mutant: only the answer to a save that landed gets into the cache.
Answer_LandedOnly ==
    /\ call # NotSaving
    /\ call.phase \in {"landed", "reread"}
    /\ IF call.phase = "landed"
       THEN shown' = Put(shown, call.row) /\ Reset(call.row.values)
       ELSE UNCHANGED <<shown, typed, defaults, dirty>>
    /\ call' = NotSaving
    /\ UNCHANGED <<panel, stored, edits, saves, slips>>

\* Whatever the server answered with gets into the cache. A save that landed resets the form
\* to it; one that came second resets the app's form, and leaves the edits in the link's.
Answer ==
    /\ call # NotSaving
    /\ call.phase \in {"landed", "reread"}
    /\ shown' = Put(shown, call.row)
    /\ IF call.phase = "landed" \/ panel = "app" THEN Reset(call.row.values) ELSE Follow(call.row.values)
    /\ call' = NotSaving
    /\ UNCHANGED <<panel, stored, edits, saves, slips>>

\* The call is refused for another reason, or its answer is lost: the form stays as it is.
Fail ==
    /\ call # NotSaving
    /\ Slip
    /\ call' = NotSaving
    /\ UNCHANGED <<panel, stored, shown, typed, defaults, dirty, edits, saves>>

\* Someone else saves a field.
SaveElsewhere ==
    /\ saves < MaxSaves
    /\ saves' = saves + 1
    /\ \E f \in Fields : \E v \in Values \ {stored.values[f]} :
         stored' = [values |-> [stored.values EXCEPT ![f] = v], version |-> stored.version + 1]
    /\ UNCHANGED <<panel, shown, typed, defaults, dirty, call, edits, slips>>

\* The window gets the focus again, or the page its place.
Ask ==
    /\ Idle(shown)
    /\ Slip
    /\ shown' = Asked(shown)
    /\ UNCHANGED <<panel, stored, typed, defaults, dirty, call, edits, saves>>

AnswerRead ==
    /\ Asking(shown)
    /\ shown' = Answered(shown, stored)
    /\ UNCHANGED <<panel, stored, typed, defaults, dirty, call, edits, saves, slips>>

ArriveRead ==
    /\ Answering(shown)
    /\ shown' = Arrived(shown)
    /\ Follow(shown'.data.values)
    /\ UNCHANGED <<panel, stored, call, edits, saves, slips>>

ReadFails ==
    /\ ~Idle(shown)
    /\ Slip
    /\ shown' = Failed(shown)
    /\ UNCHANGED <<panel, stored, typed, defaults, dirty, call, edits, saves>>

-----------------------------------------------------------------------------
Init ==
    /\ panel \in Panels
    /\ stored = [values |-> [f \in Fields |-> CHOOSE v \in Values : TRUE], version |-> 0]
    /\ shown = Cached(stored)
    /\ typed = stored.values
    /\ defaults = stored.values
    /\ dirty = {}
    /\ call = NotSaving
    /\ edits = 0
    /\ saves = 0
    /\ slips = 0

Next ==
    \/ \E f \in Fields : Edit(f)
    \/ Save
    \/ Land
    \/ Refuse
    \/ Reread
    \/ Answer
    \/ Fail
    \/ SaveElsewhere
    \/ Ask
    \/ AnswerRead
    \/ ArriveRead
    \/ ReadFails

Spec == Init /\ [][Next]_vars

-----------------------------------------------------------------------------
\* A save of build settings sends no field the person has not edited, whatever is read and
\* saved in between ("so an untouched field is never sent", buildSettingsChange).
OnlyEditsAreSent == panel = "build" => Change(shown.data, typed) \subseteq dirty

\* A save of build settings that lands replaces only values its form had read
\* (RepoLinkService.tune, CONCURRENT_MODIFICATION).
NothingOverwrittenUnseen ==
    [][(panel = "build" /\ Land) =>
         \A f \in Fields : stored'.values[f] # stored.values[f] => stored.values[f] = call.base.values[f]]_vars

\* Someone who keeps pressing Save gets their edits in, or loses them to a form that says
\* so, once nobody else saves any more (makeTuneRepoLink, useTuneRepoLink).
SavesGoThrough == (Change(shown.data, typed) # {}) ~> (Change(shown.data, typed) = {})
=============================================================================
