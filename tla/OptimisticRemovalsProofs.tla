---------------------- MODULE OptimisticRemovalsProofs ----------------------
(* Proofs about OptimisticRemovals: a list and its number come right for any *)
(* number of rows, overlapping calls, failures and late requests.            *)
EXTENDS OptimisticRemovals, FiniteSetTheorems, TLAPS

\* What each call of the query client makes of a well-formed entry.
LEMMA CacheCalls ==
    ASSUME NEW Data, NEW e \in Entries(Data), NEW d \in Data
    PROVE  /\ Put(e, d) \in Entries(Data)
           /\ Cancelled(e) \in Entries(Data)
           /\ Invalidated(e) \in Entries(Data)
           /\ Asked(e) \in Entries(Data)
           /\ Answered(e, d) \in Entries(Data)
           /\ Failed(e) \in Entries(Data)
<1>1. /\ e.data \in Data /\ e.flagged \in BOOLEAN
      /\ e.fetch \in {{}, {Unanswered}} \cup {{[answered |-> TRUE, data |-> x]} : x \in Data}
      /\ e = [data |-> e.data, flagged |-> e.flagged, fetch |-> e.fetch]
  BY DEF Entries
<1>2. {} \in {{}, {Unanswered}} /\ {Unanswered} \in {{}, {Unanswered}}
      /\ {[answered |-> TRUE, data |-> d]} \in {{[answered |-> TRUE, data |-> x]} : x \in Data}
  OBVIOUS
<1> QED BY <1>1, <1>2 DEF Entries, Put, Cancelled, Invalidated, Asked, Answered, Failed

\* An answer on its way is what arrives.
LEMMA Arrivals ==
    ASSUME NEW Data, NEW e \in Entries(Data), Answering(e)
    PROVE  \E d \in Data : /\ e.fetch = {[answered |-> TRUE, data |-> d]}
                           /\ Arrived(e) = Cached(d)
                           /\ Cached(d) \in Entries(Data)
<1>1. e.fetch \in {{}, {Unanswered}} \cup {{[answered |-> TRUE, data |-> x]} : x \in Data}
  BY DEF Entries
<1>2. PICK answer \in e.fetch : answer.answered
  BY DEF Answering
<1>3. PICK d \in Data : e.fetch = {[answered |-> TRUE, data |-> d]}
  BY <1>1, <1>2 DEF Unanswered
<1>4. (CHOOSE f \in e.fetch : f.answered) = [answered |-> TRUE, data |-> d]
  BY <1>3
<1>5. Cached(d) \in Entries(Data)
  BY DEF Cached, Entries
<1> QED BY <1>3, <1>4, <1>5 DEF Arrived

\* What a list or a number holds without one row is as well formed as with it.
LEMMA OneRowLess ==
    /\ \A d \in RowsRead, row \in Rows : Without(d, row) \in RowsRead
    /\ \A d \in NumbersRead : OneLess(d) \in NumbersRead
  BY DEF RowsRead, NumbersRead, Without, OneLess

\* The server's rows can be counted, so that what is read of them is well formed.
LEMMA ReadingsTyped ==
    ASSUME ListConstants, TypeOK
    PROVE  /\ IsFiniteSet(there) /\ Cardinality(there) \in Nat
           /\ Reading(there) \in RowsRead
           /\ Reading(Cardinality(there)) \in NumbersRead
<1>1. IsFiniteSet(there) /\ Cardinality(there) \in Nat
  BY FS_Subset, FS_CardinalityType DEF ListConstants, TypeOK
<1> QED BY <1>1 DEF TypeOK, Reading, RowsRead, NumbersRead

LEMMA InitTyped == ASSUME ListConstants, Init PROVE TypeOK
<1>1. Cardinality(Rows) \in Nat
  BY FS_CardinalityType DEF ListConstants
<1>2. [value |-> Rows, others |-> 0] \in RowsRead /\ [value |-> Cardinality(Rows), others |-> 0] \in NumbersRead
  BY <1>1 DEF RowsRead, NumbersRead
<1>3. rows \in Entries(RowsRead) /\ count \in Entries(NumbersRead)
  BY <1>2 DEF Init, Cached, Entries
<1> QED BY <1>3 DEF Init, TypeOK

LEMMA StartTyped == ASSUME ListConstants, TypeOK, NEW c \in Calls, Start(c) PROVE TypeOK'
<1> USE DEF TypeOK, NotServer
<1>1. rows.data \in RowsRead /\ count.data \in NumbersRead
  BY DEF Entries
<1>2. PICK row \in rows.data.value :
        /\ calls' = [calls EXCEPT ![c] =
               [row |-> row, phase |-> "sent", rows |-> rows.data, count |-> count.data]]
        /\ rows' = Put(Cancelled(rows), Without(rows.data, row))
  BY DEF Start
<1>3. row \in Rows
  BY <1>1 DEF RowsRead
<1>4. calls' \in [Calls -> Call \cup {NoCall}]
  BY <1>1, <1>2, <1>3 DEF Call
<1>5. rows' \in Entries(RowsRead)
  BY <1>1, <1>2, <1>3, OneRowLess, CacheCalls
<1>6. count' \in Entries(NumbersRead)
  BY <1>1, OneRowLess, CacheCalls DEF Start
<1> QED BY <1>4, <1>5, <1>6 DEF Start

LEMMA CallTyped ==
    ASSUME ListConstants, TypeOK, NEW c \in Calls, Execute(c) \/ Succeed(c) \/ Fail(c)
    PROVE  TypeOK'
<1> USE DEF TypeOK, NotServer, Settle, Open
<1>1. rows.data \in RowsRead /\ count.data \in NumbersRead
  BY DEF Entries
<1>2. calls[c] \in Call
  BY DEF Execute, Succeed, Fail
<1>3. CASE Execute(c)
  <2>1. calls' \in [Calls -> Call \cup {NoCall}]
    BY <1>2, <1>3 DEF Execute, Call
  <2> QED BY <1>3, <2>1 DEF Execute
<1>4. CASE Succeed(c)
  <2>1. rows' \in Entries(RowsRead)
    <3>1. Without(rows.data, calls[c].row) \in RowsRead
      BY <1>1, <1>2, OneRowLess DEF Call
    <3> QED BY <1>4, <3>1, CacheCalls DEF Succeed
  <2>2. count' \in Entries(NumbersRead)
    BY <1>1, <1>4, CacheCalls DEF Succeed
  <2> QED BY <1>4, <2>1, <2>2 DEF Succeed
<1>5. CASE Fail(c)
  <2>1. rows' \in Entries(RowsRead) /\ count' \in Entries(NumbersRead)
    <3>1. calls[c].rows \in RowsRead /\ calls[c].count \in NumbersRead
      BY <1>2 DEF Call
    <3> QED BY <1>5, <3>1, CacheCalls DEF Fail
  <2>2. late' \subseteq Rows
    BY <1>2, <1>5 DEF Fail, Call
  <2> QED BY <1>5, <2>1, <2>2 DEF Fail, Trouble
<1> QED BY <1>3, <1>4, <1>5

LEMMA ReadTyped ==
    ASSUME ListConstants, TypeOK,
           ReadRows \/ ReadCount \/ AnswerRows \/ AnswerCount \/ ArriveRows \/ ArriveCount \/ ReadFails
    PROVE  TypeOK'
<1> USE DEF TypeOK, OnlyCaches, Trouble
<1>1. rows.data \in RowsRead /\ count.data \in NumbersRead
  BY DEF Entries
<1>2. Reading(there) \in RowsRead /\ Reading(Cardinality(there)) \in NumbersRead
  BY ReadingsTyped
<1>3. CASE ReadRows
  BY <1>1, <1>3, CacheCalls DEF ReadRows
<1>4. CASE ReadCount
  BY <1>1, <1>4, CacheCalls DEF ReadCount
<1>5. CASE AnswerRows
  BY <1>2, <1>5, CacheCalls DEF AnswerRows
<1>6. CASE AnswerCount
  BY <1>2, <1>6, CacheCalls DEF AnswerCount
<1>7. CASE ArriveRows
  BY <1>7, Arrivals DEF ArriveRows
<1>8. CASE ArriveCount
  BY <1>8, Arrivals DEF ArriveCount
<1>9. CASE ReadFails
  BY <1>1, <1>9, CacheCalls DEF ReadFails
<1> QED BY <1>3, <1>4, <1>5, <1>6, <1>7, <1>8, <1>9

LEMMA NextTyped == ASSUME ListConstants, TypeOK, [Next]_vars PROVE TypeOK'
<1>1. CASE \E c \in Calls : Start(c) \/ Execute(c) \/ Succeed(c) \/ Fail(c)
  BY <1>1, StartTyped, CallTyped
<1>2. CASE ExecuteLate \/ Elsewhere
  BY <1>2 DEF TypeOK, ExecuteLate, Elsewhere, Trouble
<1>3. CASE ReadRows \/ ReadCount \/ AnswerRows \/ AnswerCount \/ ArriveRows \/ ArriveCount \/ ReadFails
  BY <1>3, ReadTyped
<1>4. CASE UNCHANGED vars
  BY <1>4 DEF TypeOK, vars
<1> QED BY <1>1, <1>2, <1>3, <1>4 DEF Next

\* Every variable keeps its type.
THEOREM ListTyped == ASSUME ListConstants PROVE Spec => []TypeOK
<1>1. Init => TypeOK
  BY InitTyped
<1>2. TypeOK /\ [Next]_vars => TypeOK'
  BY NextTyped
<1> QED BY <1>1, <1>2, PTL DEF Spec

-----------------------------------------------------------------------------
(* The list.  While a call is open it may show anything: the last one to end *)
(* has it read again, and a read that begins when none is open is true until *)
(* the next one begins, which drops it.                                      *)

\* What was read of the rows is still so, if nothing but the calls has changed them since.
TrueReading(reading) == reading.others = others => reading.value = there

ListInv ==
    /\ TypeOK
    /\ rows.data.others <= others
    /\ \A f \in rows.fetch : f.answered => f.data.others <= others
    /\ \A c \in Calls : Open(c) => calls[c].rows.others <= others
    /\ AtRest =>
         /\ Settled(rows) => TrueReading(rows.data)
         /\ \A f \in rows.fetch : f.answered => TrueReading(f.data)

LEMMA StartKeepsList ==
    ASSUME ListConstants, ListInv, TypeOK', NEW c \in Calls, Start(c)
    PROVE  ListInv'
<1> USE DEF ListInv, NotServer
<1>1. rows.data \in RowsRead
  BY DEF TypeOK, Entries
<1>2. PICK row \in rows.data.value :
        /\ calls' = [calls EXCEPT ![c] =
               [row |-> row, phase |-> "sent", rows |-> rows.data, count |-> count.data]]
        /\ rows' = Put(Cancelled(rows), Without(rows.data, row))
  BY DEF Start
<1>3. rows'.data.others = rows.data.others /\ rows'.fetch = {}
  BY <1>1, <1>2 DEF Put, Cancelled, Without, TypeOK, Entries, RowsRead
<1>4. row \in Rows /\ count.data \in NumbersRead
  BY <1>1 DEF TypeOK, RowsRead, Entries
<1>5. calls'[c] = [row |-> row, phase |-> "sent", rows |-> rows.data, count |-> count.data]
  BY <1>2 DEF TypeOK
<1>6. Open(c)' /\ \A d \in Calls : d # c => calls'[d] = calls[d]
  BY <1>1, <1>2, <1>4, <1>5 DEF Open, TypeOK, ListConstants, Call
<1>7. others' = others
  BY DEF Start
<1> QED BY <1>3, <1>5, <1>6, <1>7 DEF AtRest, Open

\* However a call ends, the list is known to be out of date and being read again.
LEMMA CallKeepsList ==
    ASSUME ListConstants, ListInv, TypeOK', NEW c \in Calls, Execute(c) \/ Succeed(c) \/ Fail(c)
    PROVE  ListInv'
<1> USE DEF ListInv, NotServer
<1>1. rows.data \in RowsRead /\ rows \in Entries(RowsRead)
  BY DEF TypeOK, Entries
<1>2. Open(c) /\ calls[c] \in Call
  BY DEF Execute, Succeed, Fail, TypeOK, Open
<1>3. others' = others
  BY DEF Execute, Succeed, Fail
<1>4. CASE Execute(c)
  <2>1. \A d \in Calls : Open(d)' => Open(d) /\ calls'[d].rows = calls[d].rows
    BY <1>2, <1>4 DEF Execute, Open, TypeOK, Call
  <2>2. calls'[c] \in Call
    BY <1>2, <1>4 DEF Execute, TypeOK, Call
  <2>3. ~AtRest'
    BY <2>2 DEF AtRest, Open, ListConstants
  <2> QED BY <1>3, <1>4, <2>1, <2>3 DEF Execute
<1>5. ASSUME Succeed(c) \/ Fail(c)
      PROVE  /\ rows'.fetch = {Unanswered} /\ rows'.flagged = TRUE /\ rows'.data.others <= others
             /\ calls' = [calls EXCEPT ![c] = NoCall]
  <2>1. CASE Succeed(c)
    <3>1. Without(rows.data, calls[c].row).others = rows.data.others
      BY <1>1 DEF Without, RowsRead
    <3> QED BY <1>1, <2>1, <3>1 DEF Succeed, Settle, Invalidated, Put, Entries
  <2>2. CASE Fail(c)
    BY <1>1, <1>2, <2>2 DEF Fail, Settle, Invalidated, Put, Entries
  <2> QED BY <1>5, <2>1, <2>2
<1>6. CASE Succeed(c) \/ Fail(c)
  <2>1. \A d \in Calls : Open(d)' => Open(d) /\ calls'[d] = calls[d]
    BY <1>5, <1>6 DEF Open, TypeOK
  <2>0. rows'.fetch = {Unanswered}
    BY <1>5, <1>6
  <2>2. ~Settled(rows)' /\ \A f \in rows'.fetch : ~f.answered
    <3>1. ~Settled(rows)'
      BY <2>0 DEF Settled, Idle
    <3> QED BY <2>0, <3>1 DEF Unanswered
  <2>3. \A d \in Calls : Open(d)' => calls'[d].rows.others <= others'
    BY <1>3, <2>1
  <2>4. rows'.data.others <= others'
    BY <1>3, <1>5, <1>6
  <2> QED BY <2>2, <2>3, <2>4
<1> QED BY <1>4, <1>6

\* The server's rows change behind the list's back: what was read of them counts as old.
LEMMA OthersKeepList ==
    ASSUME ListConstants, ListInv, TypeOK', ExecuteLate \/ Elsewhere
    PROVE  ListInv'
<1> USE DEF ListInv
<1>1. UNCHANGED <<rows, calls>> /\ (others' = others + 1 \/ UNCHANGED <<others, there>>)
  BY DEF ExecuteLate, Elsewhere, TypeOK
<1>2. rows.data \in RowsRead /\ (\A c \in Calls : Open(c) => calls[c].rows \in RowsRead) /\ others \in Nat
  BY DEF TypeOK, Entries, Open, Call
<1>3. \A f \in rows.fetch : f.answered => f.data \in RowsRead
  BY DEF TypeOK, Entries, Unanswered
<1>4. others <= others' /\ (AtRest' <=> AtRest) /\ (Settled(rows)' <=> Settled(rows))
  BY <1>1, <1>2 DEF AtRest, Open, Settled, Idle
<1>5. \A reading \in RowsRead : reading.others <= others =>
        reading.others <= others' /\ (TrueReading(reading) => (reading.others = others' => reading.value = there'))
  BY <1>1, <1>2 DEF TrueReading, RowsRead
<1> QED BY <1>1, <1>2, <1>3, <1>4, <1>5 DEF TrueReading, Open

LEMMA ReadKeepsList ==
    ASSUME ListConstants, ListInv, TypeOK',
           ReadRows \/ ReadCount \/ AnswerRows \/ AnswerCount \/ ArriveRows \/ ArriveCount \/ ReadFails
    PROVE  ListInv'
<1> USE DEF ListInv, OnlyCaches
<1>1. UNCHANGED <<there, others, calls>>
  BY DEF ReadRows, ReadCount, AnswerRows, AnswerCount, ArriveRows, ArriveCount, ReadFails
<1>2. rows \in Entries(RowsRead) /\ (AtRest' <=> AtRest)
  BY <1>1 DEF TypeOK, AtRest, Open
<1>3. ASSUME rows'.fetch = {}, rows'.flagged = TRUE, rows'.data = rows.data
      PROVE  ListInv'
  BY <1>1, <1>3 DEF Open, Settled
<1>4. CASE ReadRows
  <2>1. rows'.data = rows.data /\ rows'.fetch = {Unanswered} /\ ~Settled(rows)'
    BY <1>2, <1>4 DEF ReadRows, Asked, Entries, Settled, Idle
  <2>2. \A f \in rows'.fetch : ~f.answered
    BY <2>1 DEF Unanswered
  <2> QED BY <1>1, <2>1, <2>2 DEF Open
<1>5. CASE AnswerRows
  <2>1. rows'.data = rows.data /\ rows'.fetch = {[answered |-> TRUE, data |-> Reading(there)]}
    BY <1>2, <1>5 DEF AnswerRows, Answered, Entries
  <2>2. ~Settled(rows)'
    BY <2>1 DEF Settled, Idle
  <2>3. \A f \in rows'.fetch : f.data.others <= others' /\ TrueReading(f.data)'
    BY <1>1, <2>1 DEF Reading, TrueReading, TypeOK
  <2> QED BY <1>1, <2>1, <2>2, <2>3 DEF Open
<1>6. CASE ArriveRows
  <2>1. PICK d \in RowsRead : rows.fetch = {[answered |-> TRUE, data |-> d]} /\ rows' = Cached(d)
    BY <1>2, <1>6, Arrivals DEF ArriveRows
  <2>2. d.others <= others /\ (AtRest => TrueReading(d))
    BY <2>1
  <2> QED BY <1>1, <1>2, <2>1, <2>2 DEF Cached, TrueReading, Open
<1>7. CASE UNCHANGED rows
  BY <1>1, <1>2, <1>7 DEF TrueReading, Settled, Idle, Open
<1>8. CASE ReadFails
  BY <1>2, <1>3, <1>7, <1>8 DEF ReadFails, Failed, Entries
<1> QED BY <1>4, <1>5, <1>6, <1>7, <1>8 DEF ReadCount, AnswerCount, ArriveCount

LEMMA NextKeepsList == ASSUME ListConstants, ListInv, [Next]_vars PROVE ListInv'
<1>1. TypeOK'
  BY NextTyped DEF ListInv
<1>2. CASE \E c \in Calls : Start(c) \/ Execute(c) \/ Succeed(c) \/ Fail(c)
  BY <1>1, <1>2, StartKeepsList, CallKeepsList
<1>3. CASE ExecuteLate \/ Elsewhere
  BY <1>1, <1>3, OthersKeepList
<1>4. CASE ReadRows \/ ReadCount \/ AnswerRows \/ AnswerCount \/ ArriveRows \/ ArriveCount \/ ReadFails
  BY <1>1, <1>4, ReadKeepsList
<1>5. CASE UNCHANGED vars
  BY <1>1, <1>5 DEF ListInv, vars, TrueReading, AtRest, Open, Settled, Idle
<1> QED BY <1>2, <1>3, <1>4, <1>5 DEF Next

\* However many calls overlap, fail or come late, a list that is not being read shows the
\* server's rows, unless something else changed them since (onSettled of the four hooks).
THEOREM ListsComeRight == ASSUME ListConstants PROVE Spec => []RowsTrueAtRest
<1>1. Init => ListInv
  <2>1. ASSUME Init PROVE ListInv
    <3>1. rows.data = [value |-> there, others |-> others] /\ rows.fetch = {} /\ others = 0
      BY <2>1 DEF Init, Cached
    <3>2. rows.data.others <= others /\ TrueReading(rows.data)
      BY <3>1 DEF TrueReading
    <3>3. \A c \in Calls : ~Open(c)
      BY <2>1 DEF Init, Open
    <3> QED BY <2>1, <3>1, <3>2, <3>3, InitTyped DEF ListInv
  <2> QED BY <2>1
<1>2. ListInv /\ [Next]_vars => ListInv'
  BY NextKeepsList
<1>3. ListInv => RowsTrueAtRest
  BY DEF ListInv, RowsTrueAtRest, TrueReading
<1> QED BY <1>1, <1>2, <1>3, PTL DEF Spec

-----------------------------------------------------------------------------
(* The number of a team's people.  Each removal takes one off when it begins *)
(* and the server takes its row away later, so that in between the number is *)
(* behind the server's by the removals that have not been carried out.       *)

Pending == {c \in Calls : Open(c) /\ calls[c].phase = "sent"}

\* Every removal under way has found its row, or will.
AllWillCount ==
    /\ \A c \in Calls : Open(c) => calls[c].phase # "missing"
    /\ \A c \in Pending : calls[c].row \in there
    /\ \A c, d \in Pending : calls[c].row = calls[d].row => c = d

NumberInv ==
    /\ count.data.others <= others
    /\ \A f \in count.fetch : f.answered => f.data.others <= others
    /\ \A c \in Calls : Open(c) => calls[c].count.others <= others
    /\ (Counted /\ ~drifted) =>
         /\ count.fetch # {} => AtRest
         /\ \A f \in count.fetch :
               (f.answered /\ f.data.others = others) => f.data.value = Cardinality(there)
         /\ (count.data.others = others /\ AllWillCount) =>
               count.data.value = Cardinality(there) - Cardinality(Pending)

\* There are no more of what each has a row of its own than there are rows.
LEMMA OneRowEach ==
    ASSUME NEW S, NEW T, IsFiniteSet(S), IsFiniteSet(T), NEW f \in [S -> T],
           \A c, d \in S : f[c] = f[d] => c = d
    PROVE  Cardinality(S) <= Cardinality(T)
<1>1. ~(Cardinality(T) < Cardinality(S))
  BY FS_PigeonHole
<1> QED BY <1>1, FS_CardinalityType

\* Counting the removals that have not been carried out.
LEMMA PendingCounts ==
    ASSUME ListConstants, TypeOK
    PROVE  /\ IsFiniteSet(Pending) /\ Cardinality(Pending) \in Nat
           /\ AtRest => Cardinality(Pending) = 0
<1>1. IsFiniteSet(Pending) /\ Cardinality(Pending) \in Nat
  BY FS_Subset, FS_CardinalityType DEF Pending, ListConstants
<1>2. AtRest => Pending = {}
  BY DEF AtRest, Pending
<1> QED BY <1>1, <1>2, FS_EmptySet

LEMMA StartKeepsNumber ==
    ASSUME ListConstants, TypeOK, NumberInv, TypeOK', NEW c \in Calls, Start(c)
    PROVE  NumberInv'
<1> USE DEF NotServer
<1>1. rows.data \in RowsRead /\ count.data \in NumbersRead /\ count \in Entries(NumbersRead)
  BY DEF TypeOK, Entries
<1>2. PICK row \in rows.data.value :
        calls' = [calls EXCEPT ![c] =
               [row |-> row, phase |-> "sent", rows |-> rows.data, count |-> count.data]]
  BY DEF Start
<1>3. /\ calls'[c] = [row |-> row, phase |-> "sent", rows |-> rows.data, count |-> count.data]
      /\ \A d \in Calls : d # c => calls'[d] = calls[d]
      /\ calls'[c] \in Call /\ Open(c)' /\ ~Open(c)
  BY <1>1, <1>2 DEF TypeOK, RowsRead, Call, ListConstants, Open, Start
<1>4. UNCHANGED <<hook, there, others, drifted>>
  BY DEF Start
<1>5. count'.data.others = count.data.others /\ (Counted => count'.fetch = {} /\ count'.data = OneLess(count.data))
      /\ (~Counted => count' = count)
  BY <1>1 DEF Start, Put, Cancelled, OneLess, Entries, NumbersRead
<1>6. Pending' = Pending \cup {c} /\ c \notin Pending
  BY <1>3 DEF Pending, Open
<1>7. ASSUME Counted, ~drifted, count.data.others = others, AllWillCount'
      PROVE  count'.data.value = Cardinality(there) - Cardinality(Pending')
  <2>1. AllWillCount
    BY <1>3, <1>4, <1>6, <1>7 DEF AllWillCount, Open, Pending
  <2>2. count.data.value = Cardinality(there) - Cardinality(Pending)
    BY <1>7, <2>1 DEF NumberInv
  <2>3. Cardinality(Pending') = Cardinality(Pending) + 1
    BY <1>6, PendingCounts, FS_AddElement
  <2>4. Cardinality(Pending') <= Cardinality(there)
    <3> DEFINE rowOf == [d \in Pending' |-> calls'[d].row]
    <3>1. IsFiniteSet(Pending') /\ IsFiniteSet(there)
      BY <1>6, PendingCounts, ReadingsTyped, FS_AddElement
    <3>2. rowOf \in [Pending' -> there] /\ \A d, e \in Pending' : rowOf[d] = rowOf[e] => d = e
      BY <1>4, <1>7 DEF AllWillCount
    <3> HIDE DEF rowOf
    <3> QED BY <3>1, <3>2, OneRowEach
  <2>5. Cardinality(Pending) \in Nat /\ Cardinality(there) \in Nat
    BY PendingCounts, ReadingsTyped
  <2> QED BY <1>1, <1>5, <1>7, <2>2, <2>3, <2>4, <2>5 DEF OneLess, NumbersRead
<1>8. /\ count'.data.others <= others'
      /\ \A f \in count'.fetch : f.answered => f.data.others <= others'
      /\ \A d \in Calls : Open(d)' => calls'[d].count.others <= others'
  BY <1>3, <1>4, <1>5 DEF NumberInv, Open
<1> QED BY <1>4, <1>5, <1>7, <1>8 DEF NumberInv, Counted

LEMMA ExecuteKeepsNumber ==
    ASSUME ListConstants, TypeOK, NumberInv, NEW c \in Calls, Execute(c)
    PROVE  NumberInv'
<1>1. Open(c) /\ calls[c] \in Call /\ calls[c].phase = "sent"
  BY DEF Execute, TypeOK, Open
<1>2. /\ \A d \in Calls : d # c => calls'[d] = calls[d]
      /\ calls'[c] = [calls[c] EXCEPT !.phase = IF calls[c].row \in there THEN "made" ELSE "missing"]
      /\ calls'[c] \in Call /\ Open(c)'
  BY <1>1 DEF Execute, TypeOK, Open, Call, ListConstants
<1>3. UNCHANGED <<hook, others, count, drifted>> /\ there' = there \ {calls[c].row}
  BY DEF Execute
<1>4. Pending' = Pending \ {c} /\ c \in Pending
  BY <1>1, <1>2 DEF Pending, Open, Call
<1>5. ASSUME Counted, ~drifted, count.data.others = others, AllWillCount'
      PROVE  count.data.value = Cardinality(there') - Cardinality(Pending')
  <2>1. calls'[c].phase # "missing"
    BY <1>2, <1>5 DEF AllWillCount
  <2>2. calls[c].row \in there
    BY <1>1, <1>2, <2>1 DEF Call
  <2>3. \A d \in Pending : d # c => calls[d].row \in there' /\ d \in Pending' /\ calls'[d] = calls[d]
    BY <1>2, <1>4, <1>5 DEF AllWillCount, Pending
  <2>4. AllWillCount
    <3>1. \A d \in Calls : Open(d) => calls[d].phase # "missing"
      BY <1>1, <1>2, <1>5 DEF AllWillCount, Open
    <3>2. \A d \in Pending : calls[d].row \in there
      BY <1>3, <2>2, <2>3
    <3>3. \A d, e \in Pending : calls[d].row = calls[e].row => d = e
      BY <1>3, <1>5, <2>3 DEF AllWillCount
    <3> QED BY <3>1, <3>2, <3>3 DEF AllWillCount
  <2>5. count.data.value = Cardinality(there) - Cardinality(Pending)
    BY <1>5, <2>4 DEF NumberInv
  <2>6. Cardinality(there') = Cardinality(there) - 1 /\ Cardinality(Pending') = Cardinality(Pending) - 1
    BY <1>3, <1>4, <2>2, FS_RemoveElement, PendingCounts, ReadingsTyped
  <2> QED BY <2>5, <2>6, PendingCounts, ReadingsTyped
<1>6. /\ (AtRest <=> AtRest') /\ ~AtRest
      /\ \A d \in Calls : Open(d)' => calls'[d].count.others <= others'
  BY <1>1, <1>2, <1>3 DEF AtRest, Open, NumberInv, Call
<1> QED BY <1>3, <1>5, <1>6 DEF NumberInv, Counted

\* A call that ends well and found its row leaves the number as it is.
LEMMA EndKeepsNumber ==
    ASSUME ListConstants, TypeOK, NumberInv, NEW c \in Calls, Succeed(c) \/ Fail(c)
    PROVE  NumberInv'
<1>1. Open(c) /\ calls[c] \in Call /\ calls' = [calls EXCEPT ![c] = NoCall]
  BY DEF Succeed, Fail, TypeOK, Open, Settle
<1>2. UNCHANGED <<hook, there, others>> /\ count \in Entries(NumbersRead)
  BY DEF Succeed, Fail, NotServer, TypeOK
<1>3. \A d \in Calls : Open(d)' => d # c /\ Open(d) /\ calls'[d] = calls[d]
  BY <1>1 DEF Open, TypeOK
<1>4. \A d \in Calls : Open(d)' => calls'[d].count.others <= others'
  BY <1>2, <1>3 DEF NumberInv
<1>5. CASE Succeed(c) /\ calls[c].phase = "made"
  <2>1. count' = count /\ (drifted' <=> drifted)
    BY <1>5 DEF Succeed
  <2>2. \A d \in Calls : d # c => Open(d)' = Open(d) /\ calls'[d] = calls[d]
    BY <1>1 DEF Open, TypeOK
  <2>3. Pending' = Pending
    BY <1>1, <1>3, <1>5, <2>2 DEF Pending
  <2>4. AllWillCount' => AllWillCount
    BY <1>1, <1>2, <1>5, <2>2, <2>3 DEF AllWillCount, Pending
  <2>5. ~AtRest
    BY <1>1 DEF AtRest
  <2> QED BY <1>2, <1>4, <2>1, <2>3, <2>4, <2>5 DEF NumberInv, Counted
<1>6. ASSUME Fail(c) \/ calls[c].phase = "missing"
      PROVE  /\ drifted' /\ count'.data.others <= others
             /\ \A f \in count'.fetch : f.answered => f.data.others <= others
  <2>1. CASE Fail(c)
    <3>1. calls[c].count \in NumbersRead
      BY <1>1 DEF Call
    <3> QED BY <1>1, <1>2, <2>1 DEF Fail, Put, Entries, NumberInv
  <2>2. CASE Succeed(c)
    <3>1. drifted'
      BY <1>6, <2>1, <2>2 DEF Succeed, Fail
    <3> QED BY <1>1, <1>2, <2>2, <3>1 DEF Succeed, Invalidated, Entries, NumberInv, Unanswered
  <2> QED BY <2>1, <2>2
<1>7. CASE Fail(c) \/ calls[c].phase = "missing"
  BY <1>2, <1>4, <1>6, <1>7 DEF NumberInv
<1> QED BY <1>5, <1>7 DEF Succeed

LEMMA OthersKeepNumber ==
    ASSUME ListConstants, TypeOK, NumberInv, ExecuteLate \/ Elsewhere
    PROVE  NumberInv'
<1>1. UNCHANGED <<hook, count, calls, drifted>> /\ (others' = others + 1 \/ UNCHANGED <<others, there>>)
  BY DEF ExecuteLate, Elsewhere, TypeOK
<1>2. CASE UNCHANGED <<others, there>>
  BY <1>1, <1>2 DEF NumberInv, Counted, AtRest, Open, AllWillCount, Pending
<1>3. CASE others' = others + 1
  <2>1. others \in Nat /\ count.data.others \in Nat /\ (AtRest' <=> AtRest)
    BY <1>1 DEF TypeOK, Entries, NumbersRead, AtRest, Open
  <2>2. \A f \in count.fetch : f.answered => f.data.others \in Nat
    BY DEF TypeOK, Entries, NumbersRead, Unanswered
  <2>3. \A c \in Calls : Open(c) => calls[c].count.others \in Nat
    BY DEF TypeOK, Open, Call, NumbersRead
  <2> QED BY <1>1, <1>3, <2>1, <2>2, <2>3 DEF NumberInv, Counted, Open
<1> QED BY <1>1, <1>2, <1>3

\* Only a read that begins and ends while no removal is under way is one to go by.
LEMMA ReadKeepsNumber ==
    ASSUME ListConstants, TypeOK, NumberInv,
           ReadRows \/ ReadCount \/ AnswerRows \/ AnswerCount \/ ArriveRows \/ ArriveCount \/ ReadFails
    PROVE  NumberInv'
<1> USE DEF OnlyCaches
<1>1. UNCHANGED <<hook, there, others, calls>>
  BY DEF ReadRows, ReadCount, AnswerRows, AnswerCount, ArriveRows, ArriveCount, ReadFails
<1>2. /\ count \in Entries(NumbersRead) /\ (AtRest' <=> AtRest) /\ (Counted' <=> Counted)
      /\ Pending' = Pending /\ (AllWillCount' <=> AllWillCount)
      /\ \A c \in Calls : Open(c)' => calls'[c].count.others <= others'
  BY <1>1 DEF TypeOK, AtRest, Open, Counted, Pending, AllWillCount, NumberInv
<1>3. ASSUME count'.data = count.data, count'.fetch \in {{}, {Unanswered}, count.fetch},
             drifted' \/ (~drifted /\ (count'.fetch # {} => count.fetch # {} \/ AtRest))
      PROVE  NumberInv'
  <2>1. \A f \in count'.fetch : f.answered => f \in count.fetch
    BY <1>3 DEF Unanswered
  <2> QED BY <1>1, <1>2, <1>3, <2>1 DEF NumberInv
<1>4. CASE ReadCount
  <2>1. count'.data = count.data /\ count'.fetch = {Unanswered}
    BY <1>2, <1>4 DEF ReadCount, Asked, Entries
  <2>2. drifted' <=> (drifted \/ ~AtRest)
    BY <1>4 DEF ReadCount, AtRest
  <2> QED BY <1>3, <2>1, <2>2
<1>5. CASE AnswerCount
  <2>1. count'.data = count.data /\ count'.fetch = {[answered |-> TRUE, data |-> Reading(Cardinality(there))]}
        /\ count.fetch # {} /\ drifted' = drifted
    BY <1>2, <1>5 DEF AnswerCount, Answered, Entries, Asking
  <2>2. \A f \in count'.fetch : f.data.others = others /\ f.data.value = Cardinality(there) /\ others <= others
    BY <2>1 DEF Reading, TypeOK
  <2> QED BY <1>1, <1>2, <2>1, <2>2 DEF NumberInv
<1>6. CASE ArriveCount
  <2>1. PICK d \in NumbersRead : count.fetch = {[answered |-> TRUE, data |-> d]} /\ count' = Cached(d)
    BY <1>2, <1>6, Arrivals DEF ArriveCount
  <2>2. count'.data = d /\ count'.fetch = {} /\ drifted' = drifted
    BY <1>6, <2>1 DEF ArriveCount, Cached
  <2>3. d.others <= others
    BY <2>1 DEF NumberInv
  <2>4. ASSUME Counted, ~drifted, d.others = others
        PROVE  d.value = Cardinality(there) - Cardinality(Pending)
    <3>1. AtRest /\ d.value = Cardinality(there)
      BY <2>1, <2>4 DEF NumberInv
    <3> QED BY <3>1, PendingCounts, ReadingsTyped
  <2> QED BY <1>1, <1>2, <2>2, <2>3, <2>4 DEF NumberInv
<1>7. CASE UNCHANGED <<count, drifted>>
  BY <1>3, <1>7
<1>8. CASE ReadFails
  BY <1>2, <1>3, <1>7, <1>8 DEF ReadFails, Failed, Entries
<1> QED BY <1>4, <1>5, <1>6, <1>7, <1>8 DEF ReadRows, AnswerRows, ArriveRows

LEMMA NextKeepsNumber == ASSUME ListConstants, TypeOK, NumberInv, [Next]_vars PROVE NumberInv'
<1>1. TypeOK'
  BY NextTyped
<1>2. CASE \E c \in Calls : Start(c) \/ Execute(c) \/ Succeed(c) \/ Fail(c)
  BY <1>1, <1>2, StartKeepsNumber, ExecuteKeepsNumber, EndKeepsNumber
<1>3. CASE ExecuteLate \/ Elsewhere
  BY <1>3, OthersKeepNumber
<1>4. CASE ReadRows \/ ReadCount \/ AnswerRows \/ AnswerCount \/ ArriveRows \/ ArriveCount \/ ReadFails
  BY <1>4, ReadKeepsNumber
<1>5. CASE UNCHANGED vars
  BY <1>5 DEF vars, NumberInv, Counted, AtRest, Open, AllWillCount, Pending
<1> QED BY <1>2, <1>3, <1>4, <1>5 DEF Next

\* The number of a team's people follows overlapping removals that go well without being read
\* again (changeMemberCount in use-team-mutations.ts).
THEOREM NumbersComeRight == ASSUME ListConstants PROVE Spec => []NumberFollowsRemovals
<1>1. Init => TypeOK /\ NumberInv
  <2>1. ASSUME Init PROVE TypeOK /\ NumberInv
    <3>1. /\ count.data = [value |-> Cardinality(there), others |-> others] /\ count.fetch = {}
          /\ others = 0
      BY <2>1 DEF Init, Cached
    <3>2. \A c \in Calls : ~Open(c)
      BY <2>1 DEF Init, Open
    <3>3. TypeOK /\ AtRest
      BY <2>1, <3>2, InitTyped DEF AtRest
    <3>4. Cardinality(Pending) = 0 /\ Cardinality(there) \in Nat
      BY <3>3, PendingCounts, ReadingsTyped
    <3> QED BY <3>1, <3>2, <3>3, <3>4 DEF NumberInv
  <2> QED BY <2>1
<1>2. TypeOK /\ NumberInv /\ [Next]_vars => (TypeOK /\ NumberInv)'
  BY NextTyped, NextKeepsNumber
<1>3. TypeOK /\ NumberInv => NumberFollowsRemovals
  <2>1. ASSUME TypeOK, NumberInv, Counted, AtRest, ~drifted, Settled(count), count.data.others = others
        PROVE  count.data.value = Cardinality(there)
    <3>1. AllWillCount /\ Cardinality(Pending) = 0 /\ Cardinality(there) \in Nat
      BY <2>1, PendingCounts, ReadingsTyped DEF AllWillCount, AtRest, Pending
    <3> QED BY <2>1, <3>1 DEF NumberInv
  <2> QED BY <2>1 DEF NumberFollowsRemovals
<1> QED BY <1>1, <1>2, <1>3, PTL DEF Spec
=============================================================================
