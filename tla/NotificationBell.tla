-------------------------- MODULE NotificationBell --------------------------
(* The notifications page and the bell: a list and a number that change      *)
(* before the server has answered, a number that is read again every minute, *)
(* and single marks that overlap with marking everything as read             *)
(* (useMarkRead, useMarkAllRead, useUnreadCount).                            *)
EXTENDS Naturals, FiniteSets, QueryCache

CONSTANTS
    Notes,        \* notifications
    Marks,        \* calls that can be under way at once, numbered
    MaxBellTroubles,  \* calls and reads that fail, lists read again, and notifications that come,
                  \* go, or are read on another device, together
    NoMark

VARIABLES
    filter,     \* the list on screen: every notification, or the unread ones
    status,     \* what the server knows of each notification
    news,       \* how often something else has changed that
    list,       \* the cached pages of the list
    unreadCount,
    marks,      \* what became of each call
    lateMarks,  \* requests that are carried out after the web app gave them up
    muddled,    \* something happened that the marks do not make up for
    bellTroubles

vars == <<filter, status, news, list, unreadCount, marks, lateMarks, muddled, bellTroubles>>

Unread == {n \in Notes : status[n] = "unread"}
Existing == {n \in Notes : status[n] \in {"unread", "read"}}
Shown == IF filter = "UNREAD" THEN Unread ELSE Existing

\* What is cached of the list and of the bell; news is the number of the server's other changes
\* that it has in it.
Pages == [rows : SUBSET Notes, unread : SUBSET Notes, news : Nat]
Bell == [value : Nat, news : Nat]

Mark ==
    [all : BOOLEAN, target : SUBSET Notes, phase : {"sent", "made", "missing"},
     kept : SUBSET [list : Pages, count : Bell]]

\* What the theorems assume of the constants.
BellConstants == IsFiniteSet(Notes) /\ NoMark \notin Mark

TypeOK ==
    /\ filter \in {"ALL", "UNREAD"}
    /\ status \in [Notes -> {"coming", "unread", "read", "gone"}]
    /\ news \in Nat
    /\ list \in Entries(Pages)
    /\ unreadCount \in Entries(Bell)
    /\ marks \in [Marks -> {NoMark} \cup Mark]
    /\ lateMarks \subseteq SUBSET Notes
    /\ muddled \in BOOLEAN
    /\ bellTroubles \in Nat

Marking(c) == marks[c] # NoMark
MarkingAll(c) == Marking(c) /\ marks[c].all

-----------------------------------------------------------------------------
Read(pages, target) == [pages EXCEPT !.unread = @ \ target]
ReadAll(pages) ==
    IF filter = "UNREAD" THEN [pages EXCEPT !.rows = {}, !.unread = {}] ELSE Read(pages, Notes)
PutBack(pages, target) == [pages EXCEPT !.unread = @ \cup (target \cap pages.rows)]
Dropped(pages, target) == [pages EXCEPT !.rows = @ \ target, !.unread = @ \ target]
Decremented(number) == [number EXCEPT !.value = IF @ = 0 THEN 0 ELSE @ - 1]
Incremented(number) == [number EXCEPT !.value = @ + 1]

Trouble == bellTroubles < MaxBellTroubles /\ bellTroubles' = bellTroubles + 1

Close(c) == marks' = [marks EXCEPT ![c] = NoMark]
Begin(c, all, target, kept) ==
    /\ ~Marking(c)
    /\ \A d \in Marks : d < c => Marking(d)
    /\ marks' = [marks EXCEPT ![c] = [all |-> all, target |-> target, phase |-> "sent", kept |-> kept]]
    /\ UNCHANGED <<filter, status, news, lateMarks, bellTroubles>>

\* onMutate of a single mark, from the button of a notification that is shown unread.
MarkRead(c) ==
    \E n \in list.data.unread :
        /\ Begin(c, FALSE, {n}, {})
        /\ list' = Put(Cancelled(list), Read(list.data, {n}))
        /\ unreadCount' = Put(Cancelled(unreadCount), Decremented(unreadCount.data))
        /\ muddled' = (muddled \/ list.data.news # unreadCount.data.news \/ \E d \in Marks : MarkingAll(d))

\* The button shows while the number is not zero, and spins while the call is under way.
CanMarkAll == unreadCount.data.value > 0 /\ \A d \in Marks : ~MarkingAll(d)

\* onMutate of marking everything.
MarkAllRead(c) ==
    /\ CanMarkAll
    /\ Begin(c, TRUE, Notes, {[list |-> list.data, count |-> unreadCount.data]})
    /\ list' = Put(Cancelled(list), ReadAll(list.data))
    /\ unreadCount' = Put(Cancelled(unreadCount), [unreadCount.data EXCEPT !.value = 0])
    /\ muddled' = (muddled \/ \E d \in Marks : Marking(d))

ReadAtServer(target) ==
    status' = [n \in Notes |-> IF n \in target \cap Unread THEN "read" ELSE status[n]]

Carry(c) ==
    /\ Marking(c)
    /\ marks[c].phase = "sent"
    /\ ReadAtServer(marks[c].target)
    /\ marks' = [marks EXCEPT ![c].phase =
           IF ~marks[c].all /\ marks[c].target \cap Existing = {} THEN "missing" ELSE "made"]
    /\ UNCHANGED <<filter, news, list, unreadCount, lateMarks, muddled, bellTroubles>>

\* A single mark reads nothing again: the unread list only learns that it is out of date, and
\* a notification that has gone is dropped. Marking everything reads both again.
Succeed(c) ==
    /\ Marking(c)
    /\ \/ /\ MarkingAll(c)
          /\ marks[c].phase = "made"
          /\ list' = Invalidated(list)
          /\ unreadCount' = Invalidated(unreadCount)
       \/ /\ ~MarkingAll(c)
          /\ marks[c].phase = "made"
          /\ list' = [list EXCEPT !.flagged = @ \/ filter = "UNREAD"]
          /\ UNCHANGED unreadCount
       \/ /\ marks[c].phase = "missing"
          /\ list' = Put(list, Dropped(list.data, marks[c].target))
          /\ UNCHANGED unreadCount
    /\ Close(c)
    /\ UNCHANGED <<filter, status, news, lateMarks, muddled, bellTroubles>>

\* Mutant: a failed mark puts back its notification and forgets the bell.
PutBackOne_ListOnly(c) ==
    /\ list' = Put(list, PutBack(list.data, marks[c].target))
    /\ UNCHANGED unreadCount

\* A failed mark puts back its own notification and no other.
PutBackOne(c) ==
    /\ list' = Put(list, PutBack(list.data, marks[c].target))
    /\ unreadCount' = Put(unreadCount, Incremented(unreadCount.data))

\* A failed mark of everything puts back what was cached, and reads it again.
PutBackAll(c) ==
    \E kept \in marks[c].kept :
        /\ list' = Invalidated(Put(list, kept.list))
        /\ unreadCount' = Invalidated(Put(unreadCount, kept.count))

\* The call is refused, or its answer is lost, or it is given up before the server has got to it.
Fail(c) ==
    /\ Marking(c)
    /\ Trouble
    /\ IF MarkingAll(c) THEN PutBackAll(c) ELSE PutBackOne(c)
    /\ muddled' = (muddled \/ MarkingAll(c) \/ marks[c].phase # "sent")
    /\ \/ UNCHANGED lateMarks
       \/ marks[c].phase = "sent" /\ lateMarks' = lateMarks \cup {marks[c].target}
    /\ Close(c)
    /\ UNCHANGED <<filter, status, news>>

CarryLate ==
    /\ \E target \in lateMarks :
         /\ lateMarks' = lateMarks \ {target}
         /\ ReadAtServer(target)
    /\ news' = news + 1
    /\ UNCHANGED <<filter, list, unreadCount, marks, muddled, bellTroubles>>

Elsewhere ==
    /\ Trouble
    /\ news' = news + 1
    /\ \E n \in Notes :
         \/ status[n] = "coming" /\ status' = [status EXCEPT ![n] = "unread"]
         \/ status[n] = "unread" /\ status' = [status EXCEPT ![n] = "read"]
         \/ n \in Existing /\ status' = [status EXCEPT ![n] = "gone"]
    /\ UNCHANGED <<filter, list, unreadCount, marks, lateMarks, muddled>>

\* Mutant: no interval; the number is only read again once it is known to be out of date.
PollCount_WhenFlagged ==
    /\ Idle(unreadCount)
    /\ unreadCount.flagged
    /\ unreadCount' = Asked(unreadCount)
    /\ muddled' = (muddled \/ \E c \in Marks : Marking(c))
    /\ UNCHANGED <<filter, status, news, list, marks, lateMarks, bellTroubles>>

\* The bell reads its number every minute. It may or may not find a mark under way in it.
PollCount ==
    /\ Idle(unreadCount)
    /\ unreadCount' = Asked(unreadCount)
    /\ muddled' = (muddled \/ \E c \in Marks : Marking(c))
    /\ UNCHANGED <<filter, status, news, list, marks, lateMarks, bellTroubles>>

ReadList ==
    /\ Idle(list)
    /\ list' = Asked(list)
    /\ Trouble
    /\ muddled' = (muddled \/ \E c \in Marks : Marking(c))
    /\ UNCHANGED <<filter, status, news, unreadCount, marks, lateMarks>>

AnswerCount ==
    /\ Asking(unreadCount)
    /\ unreadCount' = Answered(unreadCount, [value |-> Cardinality(Unread), news |-> news])
    /\ UNCHANGED <<filter, status, news, list, marks, lateMarks, muddled, bellTroubles>>

AnswerList ==
    /\ Asking(list)
    /\ list' = Answered(list, [rows |-> Shown, unread |-> Unread, news |-> news])
    /\ UNCHANGED <<filter, status, news, unreadCount, marks, lateMarks, muddled, bellTroubles>>

ArriveCount ==
    /\ Answering(unreadCount)
    /\ unreadCount' = Arrived(unreadCount)
    /\ UNCHANGED <<filter, status, news, list, marks, lateMarks, muddled, bellTroubles>>

ArriveList ==
    /\ Answering(list)
    /\ list' = Arrived(list)
    /\ UNCHANGED <<filter, status, news, unreadCount, marks, lateMarks, muddled, bellTroubles>>

ReadFails ==
    /\ Trouble
    /\ \/ ~Idle(list) /\ list' = Failed(list) /\ UNCHANGED unreadCount
       \/ ~Idle(unreadCount) /\ unreadCount' = Failed(unreadCount) /\ UNCHANGED list
    /\ UNCHANGED <<filter, status, news, marks, lateMarks, muddled>>

-----------------------------------------------------------------------------
Init ==
    /\ filter \in {"ALL", "UNREAD"}
    /\ \E waiting \in SUBSET Notes :
         status = [n \in Notes |-> IF n \in waiting THEN "unread" ELSE "coming"]
    /\ news = 0
    /\ list = Cached([rows |-> Unread, unread |-> Unread, news |-> 0])
    /\ unreadCount = Cached([value |-> Cardinality(Unread), news |-> 0])
    /\ marks = [c \in Marks |-> NoMark]
    /\ lateMarks = {}
    /\ muddled = FALSE
    /\ bellTroubles = 0

Next ==
    \/ \E c \in Marks : MarkRead(c) \/ MarkAllRead(c) \/ Carry(c) \/ Succeed(c) \/ Fail(c)
    \/ CarryLate
    \/ Elsewhere
    \/ PollCount
    \/ ReadList
    \/ AnswerCount
    \/ AnswerList
    \/ ArriveCount
    \/ ArriveList
    \/ ReadFails

Spec == Init /\ [][Next]_vars

-----------------------------------------------------------------------------
\* Marks of single notifications that overlap leave each other alone, refused ones too: once
\* none is under way, the list and the number are those of the server, unless something else
\* changed there, everything was marked meanwhile, an answer was lost, a read fell into a
\* mark, or the marks began from a list and a number of different times (useMarkRead,
\* "so a concurrent mark of another one survives").
EachMarkItsOwn ==
    (~muddled /\ \A c \in Marks : ~Marking(c)) =>
        /\ (Settled(unreadCount) /\ unreadCount.data.news = news)
               => unreadCount.data.value = Cardinality(Unread)
        /\ (Idle(list) /\ list.data.news = news) => list.data.unread = Unread

\* Whatever was lost, refused or late: once nothing changes any more, the bell comes to show
\* the server's number and keeps showing it (refetchInterval in use-unread-count.ts).
BellComesRight == <>[](unreadCount.data.value = Cardinality(Unread))
=============================================================================
