----------------------------- MODULE QueryCache -----------------------------
(* The query cache of the web app (TanStack Query, a library) as the hooks   *)
(* of src/web use it: what one cached query holds, and what each call of the *)
(* query client does to it.                                                  *)
EXTENDS Naturals

\* A fetch that has been asked for, and has not been answered by the server yet.
Unanswered == [answered |-> FALSE]

\* data is what the screen shows, flagged that it is known to be out of date, fetch what is
\* under way: nothing, a question, or an answer on its way.
Cached(data) == [data |-> data, flagged |-> FALSE, fetch |-> {}]

Entries(Data) ==
    [data : Data, flagged : BOOLEAN,
     fetch : {{}, {Unanswered}} \cup {{[answered |-> TRUE, data |-> d]} : d \in Data}]

\* setQueryData: the data counts as just read.
Put(e, data) == [e EXCEPT !.data = data, !.flagged = FALSE]

\* cancelQueries: what is under way is dropped, and the data stays as it was.
Cancelled(e) == [e EXCEPT !.fetch = {}]

\* invalidateQueries of a query on screen: a fetch under way is dropped and asked for again.
Invalidated(e) == [e EXCEPT !.flagged = TRUE, !.fetch = {Unanswered}]

\* A read of its own: the window gets the focus, the page is opened again, an interval ends.
Asked(e) == [e EXCEPT !.fetch = {Unanswered}]

Idle(e) == e.fetch = {}
Asking(e) == e.fetch = {Unanswered}
Answering(e) == \E f \in e.fetch : f.answered

\* The server answers.
Answered(e, data) == [e EXCEPT !.fetch = {[answered |-> TRUE, data |-> data]}]

\* The answer arrives, or the last retry has failed.
Arrived(e) == Cached((CHOOSE f \in e.fetch : f.answered).data)
Failed(e) == [e EXCEPT !.fetch = {}, !.flagged = TRUE]

\* Nothing is under way and nothing is known to be out of date.
Settled(e) == Idle(e) /\ ~e.flagged
=============================================================================
