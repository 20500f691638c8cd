SPECIFICATION FairSpec
CONSTANTS
    Screens = {"lists", "bell", "forms", "builds", "github"}
    Rows = {1, 2}
    Calls = {1, 2}
    MaxListTroubles = 2
    NoCall = NoCall
    Notes = {1, 2}
    Marks = {1, 2}
    MaxBellTroubles = 1
    NoMark = NoMark
    Panels = {"app", "build"}
    Fields = {"command", "runtime"}
    Values = {"a", "b", "c"}
    MaxEdits = 2
    MaxSaves = 1
    MaxSlips = 1
    NotSaving = NotSaving
    People = {"ann", "ben"}
    Attempts = {1, 2, 3}
    Branches = {"main", "dev"}
    PerHour = 1
    MaxMishaps = 1
    NoBranch = NoBranch
    NoAttempt = NoAttempt
    Tabs = {1}
    Orgs = {"a", "b"}
    Installations = {1, 2}
    States = {1, 2, 3}
    MaxSetbacks = 1
    Nothing = Nothing
INVARIANT RowsTrueAtRest
INVARIANT EachMarkItsOwn
INVARIANT OneBuildPerIntent
INVARIANT LimitExact
INVARIANT GrantsStayWithTheirOrg
PROPERTY BellComesRight
PROPERTY NothingOverwrittenUnseen
PROPERTY SavesGoThrough
PROPERTY LinksWhatItSetOutFor
CHECK_DEADLOCK FALSE
