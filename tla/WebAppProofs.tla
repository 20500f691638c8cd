---------------------------- MODULE WebAppProofs ----------------------------
(* Proofs about WebApp: what the settings forms send and replace, how many    *)
(* builds a manual build's retries make, which org an installation is linked  *)
(* to, that marks of single notifications leave each other alone, for any     *)
(* settings, people, tabs, marks and failures; and that what is proved of     *)
(* each screen alone holds of the web app, because no other screen touches    *)
(* what it keeps.                                                             *)
EXTENDS WebApp, FiniteSetTheorems, TLAPS

-----------------------------------------------------------------------------
(* The settings forms alone.                                                 *)

\* A row that was read from the server, now or earlier: one of the version that is stored
\* there has the values that are stored there.
Fits(row) ==
    /\ row \in F!Row
    /\ row.version <= stored.version
    /\ row.version = stored.version => row.values = stored.values

RowsFit ==
    /\ Fits(shown.data)
    /\ \A f \in shown.fetch : f.answered => Fits(f.data)
    /\ call # NotSaving => Fits(call.base) /\ Fits(call.row)

\* The build form compares edits with what was read last, and differs from it in the fields
\* that were edited.
FormFollows ==
    panel = "build" =>
        /\ defaults = shown.data.values
        /\ \A f \in Fields \ dirty : typed[f] = defaults[f]

FormsInv == F!TypeOK /\ RowsFit /\ FormFollows

-----------------------------------------------------------------------------
\* What each call of the query client makes of a well-formed entry.
LEMMA CacheCalls ==
    ASSUME NEW e \in F!Entries(F!Row), NEW d \in F!Row
    PROVE  /\ F!Put(e, d) \in F!Entries(F!Row) /\ F!Put(e, d).data = d /\ F!Put(e, d).fetch = e.fetch
           /\ F!Asked(e) \in F!Entries(F!Row) /\ F!Asked(e).data = e.data /\ F!Asked(e).fetch = {F!Unanswered}
           /\ F!Failed(e) \in F!Entries(F!Row) /\ F!Failed(e).data = e.data /\ F!Failed(e).fetch = {}
           /\ F!Answered(e, d) \in F!Entries(F!Row) /\ F!Answered(e, d).data = e.data
           /\ F!Answered(e, d).fetch = {[answered |-> TRUE, data |-> d]}
<1>1. /\ e.data \in F!Row /\ e.flagged \in BOOLEAN
      /\ e.fetch \in {{}, {F!Unanswered}} \cup {{[answered |-> TRUE, data |-> x]} : x \in F!Row}
      /\ e = [data |-> e.data, flagged |-> e.flagged, fetch |-> e.fetch]
  BY DEF F!Entries
<1>2. {[answered |-> TRUE, data |-> d]} \in {{[answered |-> TRUE, data |-> x]} : x \in F!Row}
  OBVIOUS
<1> QED BY <1>1, <1>2 DEF F!Entries, F!Put, F!Asked, F!Answered, F!Failed

\* An answer on its way is what arrives.
LEMMA Arrivals ==
    ASSUME NEW Data, NEW e \in F!Entries(Data), F!Answering(e)
    PROVE  \E d \in Data : /\ e.fetch = {[answered |-> TRUE, data |-> d]}
                           /\ F!Arrived(e) = F!Cached(d)
                           /\ F!Cached(d) \in F!Entries(Data)
<1>1. e.fetch \in {{}, {F!Unanswered}} \cup {{[answered |-> TRUE, data |-> x]} : x \in Data}
  BY DEF F!Entries
<1>2. PICK answer \in e.fetch : answer.answered
  BY DEF F!Answering
<1>3. PICK d \in Data : e.fetch = {[answered |-> TRUE, data |-> d]}
  BY <1>1, <1>2 DEF F!Unanswered
<1>4. (CHOOSE f \in e.fetch : f.answered) = [answered |-> TRUE, data |-> d]
  BY <1>3
<1>5. F!Cached(d) \in F!Entries(Data)
  BY DEF F!Cached, F!Entries
<1> QED BY <1>3, <1>4, <1>5 DEF F!Arrived

\* A row that was read keeps to the server's while the server's only gets newer versions.
LEMMA StillFits ==
    ASSUME NEW row, Fits(row), stored \in F!Row, stored' \in F!Row,
           stored' = stored \/ stored'.version = stored.version + 1
    PROVE  Fits(row)'
  BY DEF Fits, F!Row

\* What the build form does when values are read or answered.
LEMMA ReadIsFollowed ==
    ASSUME F!TypeOK, NEW values \in [Fields -> Values], F!Follow(values) \/ F!Reset(values), panel' = panel
    PROVE  /\ typed' \in [Fields -> Values] /\ defaults' \in [Fields -> Values] /\ dirty' \subseteq Fields
           /\ panel = "build" => /\ defaults' = values
                                 /\ (\A f \in Fields \ dirty : typed[f] = defaults[f])
                                       => \A f \in Fields \ dirty' : typed'[f] = defaults'[f]
  BY DEF F!TypeOK, F!Follow, F!Reset

LEMMA FormsInit == ASSUME F!FormConstants, F!Init PROVE FormsInv
<1>1. stored \in F!Row
  BY DEF F!FormConstants, F!Init, F!Row
<1>2. shown.data = stored /\ shown.fetch = {} /\ shown \in F!Entries(F!Row)
  <2>1. shown = [data |-> stored, flagged |-> FALSE, fetch |-> {}]
    BY DEF F!Init, F!Cached
  <2>2. {} \in {{}, {F!Unanswered}} \cup {{[answered |-> TRUE, data |-> d]} : d \in F!Row}
    OBVIOUS
  <2> QED BY <1>1, <2>1, <2>2 DEF F!Entries
<1>3. F!TypeOK
  BY <1>1, <1>2 DEF F!Init, F!TypeOK, F!Row
<1>4. Fits(stored)
  BY <1>1 DEF Fits, F!Row
<1>5. RowsFit
  BY <1>2, <1>4 DEF F!Init, RowsFit
<1>6. FormFollows
  BY <1>2 DEF F!Init, FormFollows
<1> QED BY <1>3, <1>5, <1>6 DEF FormsInv

-----------------------------------------------------------------------------
(* Steps of the person and of the form.                                      *)

LEMMA EditKeeps == ASSUME FormsInv, NEW f \in Fields, F!Edit(f) PROVE FormsInv'
<1>1. PICK v \in Values :
        /\ typed' = [typed EXCEPT ![f] = v]
        /\ dirty' = IF v = defaults[f] THEN dirty \ {f} ELSE dirty \cup {f}
        /\ UNCHANGED <<panel, stored, shown, defaults, call>>
  BY DEF F!Edit
<1>2. F!TypeOK'
  BY <1>1 DEF FormsInv, F!TypeOK
<1>3. RowsFit'
  BY <1>1 DEF FormsInv, RowsFit, Fits
<1>4. FormFollows'
  BY <1>1 DEF FormsInv, F!TypeOK, FormFollows
<1> QED BY <1>2, <1>3, <1>4 DEF FormsInv

\* A save that is sent, refused or read again goes with rows of the server.
LEMMA CallKeeps == ASSUME FormsInv, F!Save \/ F!Refuse \/ F!Reread \/ F!Fail PROVE FormsInv'
<1>1. UNCHANGED <<panel, stored, shown, typed, defaults, dirty>>
  BY DEF F!Save, F!Refuse, F!Reread, F!Fail
<1>2. Fits(stored) /\ Fits(shown.data)
  BY DEF FormsInv, RowsFit, F!TypeOK, Fits, F!Row
<1>3. call' \in F!SaveCall \cup {NotSaving} /\ (call' # NotSaving => Fits(call'.base) /\ Fits(call'.row))
  <2>1. CASE F!Save
    BY <1>2, <2>1 DEF FormsInv, F!TypeOK, F!Save, F!SaveCall, Fits
  <2>2. CASE F!Refuse
    BY <2>2 DEF FormsInv, F!TypeOK, RowsFit, F!Refuse, F!SaveCall
  <2>3. CASE F!Reread
    BY <1>2, <2>3 DEF FormsInv, F!TypeOK, RowsFit, F!Reread, F!SaveCall
  <2>4. CASE F!Fail
    BY <2>4 DEF F!Fail
  <2> QED BY <2>1, <2>2, <2>3, <2>4
<1>4. F!TypeOK'
  BY <1>1, <1>3 DEF FormsInv, F!TypeOK
<1>5. RowsFit'
  BY <1>1, <1>3 DEF FormsInv, RowsFit, Fits
<1>6. FormFollows'
  BY <1>1 DEF FormsInv, FormFollows
<1> QED BY <1>4, <1>5, <1>6 DEF FormsInv

\* What a save makes of the row is a row of the next version, or the same.
LEMMA AppliedRow ==
    ASSUME NEW row \in F!Row, NEW base, NEW settings \in [Fields -> Values]
    PROVE  /\ F!Applied(row, base, settings) \in F!Row
           /\ F!Applied(row, base, settings) = row \/ F!Applied(row, base, settings).version = row.version + 1
  BY DEF F!Applied, F!Row

\* The server's row changes: a save lands, or someone else's does.
LEMMA ServerKeeps == ASSUME FormsInv, F!Land \/ F!SaveElsewhere PROVE FormsInv'
<1>1. UNCHANGED <<panel, shown, typed, defaults, dirty>>
  BY DEF F!Land, F!SaveElsewhere
<1>2. stored' \in F!Row /\ (stored' = stored \/ stored'.version = stored.version + 1)
  <2>1. CASE F!Land
    BY <2>1, AppliedRow DEF FormsInv, F!TypeOK, F!Land, F!SaveCall
  <2>2. CASE F!SaveElsewhere
    BY <2>2 DEF FormsInv, F!TypeOK, F!SaveElsewhere, F!Row
  <2> QED BY <2>1, <2>2
<1>3. call' \in F!SaveCall \cup {NotSaving} /\ (call' # NotSaving => Fits(call.base)' /\ Fits(call.row)')
  <2>1. CASE F!Land
    <3>1. call \in F!SaveCall /\ call' = [call EXCEPT !.phase = "landed", !.row = stored']
      BY <2>1 DEF FormsInv, F!TypeOK, F!Land
    <3>2. call' \in F!SaveCall /\ call'.base = call.base /\ call'.row = stored'
      BY <1>2, <3>1 DEF F!SaveCall
    <3>3. Fits(call.base)
      BY <2>1 DEF FormsInv, RowsFit, F!Land
    <3>4. Fits(call.base)'
      BY <1>2, <2>1, <3>2, <3>3 DEF FormsInv, F!TypeOK, Fits, F!Row
    <3>5. Fits(call.row)'
      <4>1. stored'.version \in Nat
        BY <1>2 DEF F!Row
      <4> QED BY <1>2, <3>2, <4>1 DEF Fits
    <3> QED BY <3>2, <3>4, <3>5
  <2>2. CASE F!SaveElsewhere
    BY <1>2, <2>2, StillFits DEF FormsInv, F!TypeOK, RowsFit, F!SaveElsewhere
  <2> QED BY <2>1, <2>2 DEF F!Land
<1>4. F!TypeOK'
  BY <1>1, <1>2, <1>3 DEF FormsInv, F!TypeOK
<1>5. RowsFit'
  BY <1>1, <1>2, <1>3, StillFits DEF FormsInv, F!TypeOK, RowsFit
<1>6. FormFollows'
  BY <1>1 DEF FormsInv, FormFollows
<1> QED BY <1>4, <1>5, <1>6 DEF FormsInv

\* The form and the cache take what the server answered with.
LEMMA AnswerKeeps == ASSUME FormsInv, F!Answer PROVE FormsInv'
<1>1. /\ call \in F!SaveCall /\ Fits(call.row) /\ call' = NotSaving /\ UNCHANGED <<panel, stored>>
      /\ shown' = F!Put(shown, call.row)
      /\ F!Follow(call.row.values) \/ F!Reset(call.row.values)
  BY DEF FormsInv, F!TypeOK, RowsFit, F!Answer
<1>2. call.row \in F!Row /\ call.row.values \in [Fields -> Values]
  BY <1>1 DEF Fits, F!Row
<1>3. shown' \in F!Entries(F!Row) /\ shown'.data = call.row /\ shown'.fetch = shown.fetch
  <2>1. shown \in F!Entries(F!Row)
    BY DEF FormsInv, F!TypeOK
  <2>2. /\ F!Put(shown, call.row) \in F!Entries(F!Row) /\ F!Put(shown, call.row).data = call.row
        /\ F!Put(shown, call.row).fetch = shown.fetch
    BY <1>2, <2>1, CacheCalls
  <2> QED BY <1>1, <2>2
<1>4. F!TypeOK'
  BY <1>1, <1>2, <1>3, ReadIsFollowed DEF FormsInv, F!TypeOK
<1>5. RowsFit'
  BY <1>1, <1>3 DEF FormsInv, RowsFit, Fits
<1>6. FormFollows'
  BY <1>1, <1>2, <1>3, ReadIsFollowed DEF FormsInv, FormFollows
<1> QED BY <1>4, <1>5, <1>6 DEF FormsInv

\* Reads of the page.
LEMMA ReadKeeps == ASSUME FormsInv, F!Ask \/ F!AnswerRead \/ F!ReadFails PROVE FormsInv'
<1>1. UNCHANGED <<panel, stored, typed, defaults, dirty, call>>
  BY DEF F!Ask, F!AnswerRead, F!ReadFails
<1>2. shown \in F!Entries(F!Row) /\ stored \in F!Row /\ Fits(stored)
  BY DEF FormsInv, F!TypeOK, Fits, F!Row
<1>3. /\ shown' \in F!Entries(F!Row) /\ shown'.data = shown.data
      /\ shown'.fetch \in {{}, {F!Unanswered}, {[answered |-> TRUE, data |-> stored]}}
  BY <1>2, CacheCalls DEF F!Ask, F!AnswerRead, F!ReadFails
<1>4. \A f \in shown'.fetch : f.answered => Fits(f.data)
  BY <1>2, <1>3 DEF F!Unanswered
<1>5. F!TypeOK' /\ FormFollows'
  BY <1>1, <1>3 DEF FormsInv, F!TypeOK, FormFollows
<1>6. RowsFit'
  BY <1>1, <1>3, <1>4 DEF FormsInv, RowsFit, Fits
<1> QED BY <1>5, <1>6 DEF FormsInv

LEMMA ArriveKeeps == ASSUME FormsInv, F!ArriveRead PROVE FormsInv'
<1>1. UNCHANGED <<panel, stored, call>> /\ F!Follow(shown'.data.values)
  BY DEF F!ArriveRead
<1>2. PICK d \in F!Row : /\ [answered |-> TRUE, data |-> d] \in shown.fetch
                       /\ shown'.data = d /\ shown'.fetch = {} /\ shown' \in F!Entries(F!Row)
  <2>1. PICK d \in F!Row : /\ shown.fetch = {[answered |-> TRUE, data |-> d]}
                         /\ shown' = F!Cached(d) /\ F!Cached(d) \in F!Entries(F!Row)
    BY Arrivals DEF F!ArriveRead, FormsInv, F!TypeOK
  <2>2. F!Cached(d).data = d /\ F!Cached(d).fetch = {}
    BY DEF F!Cached
  <2> QED BY <2>1, <2>2
<1>3. Fits(d) /\ d.values \in [Fields -> Values]
  BY <1>2 DEF FormsInv, RowsFit, F!Row
<1>4. F!TypeOK'
  BY <1>1, <1>2, <1>3, ReadIsFollowed DEF FormsInv, F!TypeOK
<1>5. RowsFit'
  BY <1>1, <1>2, <1>3 DEF FormsInv, RowsFit, Fits
<1>6. FormFollows'
  BY <1>1, <1>2, <1>3, ReadIsFollowed DEF FormsInv, FormFollows
<1> QED BY <1>4, <1>5, <1>6 DEF FormsInv

LEMMA FormsNext == ASSUME FormsInv, [F!Next]_(F!vars) PROVE FormsInv'
<1>1. CASE \E f \in Fields : F!Edit(f)
  BY <1>1, EditKeeps
<1>2. CASE F!Save \/ F!Refuse \/ F!Reread \/ F!Fail \/ F!Land \/ F!SaveElsewhere \/ F!Answer
  BY <1>2, CallKeeps, ServerKeeps, AnswerKeeps
<1>3. CASE F!Ask \/ F!AnswerRead \/ F!ReadFails \/ F!ArriveRead
  BY <1>3, ReadKeeps, ArriveKeeps
<1>4. CASE UNCHANGED F!vars
  BY <1>4 DEF F!vars, FormsInv, F!TypeOK, RowsFit, FormFollows, Fits
<1> QED BY <1>1, <1>2, <1>3, <1>4 DEF F!Next

LEMMA FormsInvariant == ASSUME F!FormConstants PROVE F!Spec => []FormsInv
<1>1. F!Init => FormsInv
  BY FormsInit
<1>2. FormsInv /\ [F!Next]_(F!vars) => FormsInv'
  BY FormsNext
<1> QED BY <1>1, <1>2, PTL DEF F!Spec

-----------------------------------------------------------------------------
\* Forms, saves and the cached row are well formed.
THEOREM FormsTyped == ASSUME F!FormConstants PROVE F!Spec => []F!TypeOK
<1>1. FormsInv => F!TypeOK
  BY DEF FormsInv
<1> QED BY <1>1, FormsInvariant, PTL

\* A save of build settings sends only fields that were edited (buildSettingsChange).
THEOREM EditsOnly == ASSUME F!FormConstants PROVE F!Spec => []F!OnlyEditsAreSent
<1>1. FormsInv => F!OnlyEditsAreSent
  BY DEF FormsInv, FormFollows, F!OnlyEditsAreSent, F!Change
<1> QED BY <1>1, FormsInvariant, PTL

\* A save of build settings that lands replaces only values its form had read
\* (RepoLinkService.tune).
THEOREM NothingUnseen == ASSUME F!FormConstants PROVE F!Spec => F!NothingOverwrittenUnseen
<1>1. ASSUME FormsInv, panel = "build", F!Land, NEW f \in Fields, stored'.values[f] # stored.values[f]
      PROVE  stored.values[f] = call.base.values[f]
  <2>1. call.base.version = stored.version
    BY <1>1 DEF F!Land, F!Outdated
  <2>2. call.base.values = stored.values
    BY <1>1, <2>1 DEF FormsInv, RowsFit, Fits, F!Land
  <2> QED BY <2>2
<1>2. FormsInv /\ [F!Next]_(F!vars) =>
        [(panel = "build" /\ F!Land) =>
           \A f \in Fields : stored'.values[f] # stored.values[f] => stored.values[f] = call.base.values[f]]_(F!vars)
  BY <1>1
<1> QED BY <1>2, FormsInvariant, PTL DEF F!Spec, F!NothingOverwrittenUnseen


-----------------------------------------------------------------------------
(* The manual builds alone.                                                  *)

-----------------------------------------------------------------------------
(* Types.                                                                    *)

\* The service moves a submission on without touching what was sent and who waits for it.
LEMMA ServiceTyped ==
    ASSUME M!BuildConstants, M!TypeOK, NEW a \in Attempts,
           \/ M!Arrive(a) \/ M!ResolveHead(a) \/ M!Refuse(a) \/ M!Replay(a) \/ M!Limit(a) \/ M!Build(a) \/ M!Crash(a)
    PROVE  M!TypeOK'
<1> USE DEF M!TypeOK, M!At, M!Made, M!Mishap
<1>1. attempts[a] \in M!Submission
  BY DEF M!Arrive, M!ResolveHead, M!Refuse, M!Replay, M!Limit, M!Build, M!Crash
<1>2. \A outcome \in {"none", "built", "replayed", "limited", "failed"} :
        M!Over(a, outcome) \in [Attempts -> M!Submission \cup {NoAttempt}]
  BY <1>1 DEF M!Over, M!Submission
<1>3. CASE M!Arrive(a)
  <2>1. (IF attempts[a].asked = NoBranch THEN link.production ELSE attempts[a].asked) \in M!Requests
    BY <1>1 DEF M!Submission, M!Requests
  <2>2. [attempts EXCEPT ![a].step = "resolving",
                         ![a].branch = IF attempts[a].asked = NoBranch THEN link.production
                                       ELSE attempts[a].asked]
          \in [Attempts -> M!Submission \cup {NoAttempt}]
    BY <1>1, <2>1 DEF M!Submission
  <2>3. attempts' \in [Attempts -> M!Submission \cup {NoAttempt}]
    BY <1>2, <1>3, <2>2 DEF M!Arrive
  <2> QED BY <1>3, <2>3 DEF M!Arrive
<1>4. CASE M!ResolveHead(a)
  <2>1. [attempts EXCEPT ![a].step = "resolved"] \in [Attempts -> M!Submission \cup {NoAttempt}]
    BY <1>1 DEF M!Submission
  <2>2. attempts' \in [Attempts -> M!Submission \cup {NoAttempt}]
    BY <1>2, <1>4, <2>1 DEF M!ResolveHead
  <2> QED BY <1>4, <2>2 DEF M!ResolveHead
<1>5. CASE M!Refuse(a) \/ M!Replay(a) \/ M!Limit(a) \/ M!Crash(a)
  BY <1>2, <1>5 DEF M!Refuse, M!Replay, M!Limit, M!Crash
<1>6. CASE M!Build(a)
  <2>1. attempts[a].key \in M!Keys
    BY <1>1 DEF M!Submission
  <2> QED BY <1>2, <1>6, <2>1 DEF M!Build, M!Keys
<1> QED BY <1>3, <1>4, <1>5, <1>6

LEMMA NextTyped == ASSUME M!BuildConstants, M!TypeOK, [M!Next]_(M!vars) PROVE M!TypeOK'
<1>1. CASE \E p \in People : M!Submit(p)
  <2>1. PICK p \in People : M!Submit(p)
    BY <1>1
  <2>2. PICK a \in Attempts, branch \in Branches :
          LET asked == M!Asked(p, branch)
              key == M!KeyFor(p, asked, a)
          IN  /\ keys' = [keys EXCEPT ![p] = key]
              /\ keyed' = [keyed EXCEPT ![p] = asked]
              /\ attempts' = [attempts EXCEPT ![a] =
                     [person |-> p, key |-> key, asked |-> asked, branch |-> NoBranch,
                      step |-> "arrived", outcome |-> "none", waiting |-> TRUE, heard |-> FALSE]]
    BY <2>1 DEF M!Submit
  <2>3. M!Asked(p, branch) \in M!Requests /\ M!KeyFor(p, M!Asked(p, branch), a) \in M!Keys
    BY DEF M!TypeOK, M!Asked, M!Requests, M!KeyFor, M!Keys
  <2>4. [person |-> p, key |-> M!KeyFor(p, M!Asked(p, branch), a), asked |-> M!Asked(p, branch),
         branch |-> NoBranch, step |-> "arrived", outcome |-> "none", waiting |-> TRUE,
         heard |-> FALSE] \in M!Submission
    BY <2>3 DEF M!Submission, M!Requests
  <2> QED BY <2>1, <2>2, <2>3, <2>4 DEF M!TypeOK, M!Submit
<1>2. CASE \E a \in Attempts : M!Hear(a) \/ M!GiveUp(a)
  <2>1. PICK a \in Attempts : M!Hear(a) \/ M!GiveUp(a)
    BY <1>2
  <2>2. attempts[a] \in M!Submission
    BY <2>1 DEF M!TypeOK, M!Hear, M!GiveUp, M!At, M!Made
  <2>3. attempts' \in [Attempts -> M!Submission \cup {NoAttempt}]
    <3>1. /\ [attempts[a] EXCEPT !.waiting = FALSE] \in M!Submission
          /\ [attempts[a] EXCEPT !.waiting = FALSE, !.heard = TRUE] \in M!Submission
      BY <2>2 DEF M!Submission
    <3>2. \/ attempts' = [attempts EXCEPT ![a] = [attempts[a] EXCEPT !.waiting = FALSE]]
          \/ attempts' = [attempts EXCEPT ![a] = [attempts[a] EXCEPT !.waiting = FALSE, !.heard = TRUE]]
      BY <2>1 DEF M!TypeOK, M!Hear, M!GiveUp
    <3> QED BY <3>1, <3>2 DEF M!TypeOK
  <2>4. CASE M!Hear(a)
    <3>1. keys' \in [People -> M!Keys \cup {NoAttempt}] /\ keyed' \in [People -> M!Requests \cup {NoAttempt}]
      BY <2>4 DEF M!TypeOK, M!Hear
    <3> QED BY <2>3, <2>4, <3>1 DEF M!TypeOK, M!Hear
  <2> QED BY <2>1, <2>3, <2>4 DEF M!TypeOK, M!GiveUp, M!Mishap
<1>3. CASE \E a \in Attempts : \/ M!Arrive(a) \/ M!ResolveHead(a) \/ M!Refuse(a) \/ M!Replay(a) \/ M!Limit(a)
                               \/ M!Build(a) \/ M!Crash(a)
  BY <1>3, ServiceTyped
<1>4. CASE \E p \in People : M!ReadLink(p)
  BY <1>4 DEF M!TypeOK, M!ReadLink
<1>5. CASE M!HourPasses
  BY <1>5 DEF M!TypeOK, M!HourPasses
<1>6. CASE M!Relink
  <2>1. link' \in [active : BOOLEAN, production : Branches]
    <3>1. CASE \E branch \in Branches \ {link.production} : link' = [link EXCEPT !.production = branch]
      BY <3>1 DEF M!TypeOK
    <3>2. CASE link' = [link EXCEPT !.active = ~@]
      BY <3>2, Zenon DEF M!TypeOK
    <3> QED BY <1>6, <3>1, <3>2 DEF M!Relink
  <2> QED BY <1>6, <2>1 DEF M!TypeOK, M!Relink, M!Mishap
<1>7. CASE UNCHANGED M!vars
  BY <1>7 DEF M!TypeOK, M!vars
<1> QED BY <1>1, <1>2, <1>3, <1>4, <1>5, <1>6, <1>7 DEF M!Next

LEMMA InitTyped == ASSUME M!BuildConstants, M!Init PROVE M!TypeOK
  BY DEF M!BuildConstants, M!Init, M!TypeOK, M!Keys

-----------------------------------------------------------------------------
(* The invariant.  A key is handed out for one request of one person, the    *)
(* answers to a person's earlier submissions are no longer waited for, and a *)
(* page whose intent is still open holds the key the intent began with.      *)

Successful(a) == attempts[a].heard /\ attempts[a].outcome \in {"built", "replayed"}
Of(a, c) == M!Made(c) /\ attempts[c].person = attempts[a].person

\* Since a, its person has asked for nothing else and heard of no build.
OpenIntent(a) ==
    \A c \in Attempts :
        (Of(a, c) /\ a <= c) => attempts[c].asked = attempts[a].asked /\ ~Successful(c)

MadeInOrder == \A a, b \in Attempts : M!Made(a) /\ b < a => M!Made(b)

KeysAreHandedOut ==
    /\ \A a \in Attempts : M!Made(a) =>
         Of(a, attempts[a].key) /\ attempts[attempts[a].key].asked = attempts[a].asked
    /\ \A p \in People : keys[p] # NoAttempt =>
         M!Made(keys[p]) /\ attempts[keys[p]].person = p /\ attempts[keys[p]].asked = keyed[p]

LastIsWaitedFor == \A a, b \in Attempts : M!Made(a) /\ a < b /\ Of(a, b) => ~attempts[a].waiting

HeardIsOver == \A a \in Attempts : M!Made(a) /\ attempts[a].heard => attempts[a].step = "over"

BuiltIsRecorded ==
    \A a \in Attempts : M!Made(a) /\ attempts[a].outcome = "built" => requested[attempts[a].key] = a

IntentsKeepTheirKey ==
    /\ \A a \in Attempts : M!Made(a) /\ OpenIntent(a) =>
         keys[attempts[a].person] = attempts[a].key /\ keyed[attempts[a].person] = attempts[a].asked
    /\ \A a, b \in Attempts :
         (M!Made(a) /\ a < b /\ Of(a, b) /\ M!SameIntent(a, b)) => attempts[a].key = attempts[b].key

BuildInv ==
    /\ M!TypeOK
    /\ MadeInOrder
    /\ KeysAreHandedOut
    /\ LastIsWaitedFor
    /\ HeardIsOver
    /\ BuiltIsRecorded
    /\ IntentsKeepTheirKey

\* A step that sends nothing, hands out no key and brings no answer back.
LEMMA QuietStep ==
    ASSUME BuildInv, M!TypeOK', BuiltIsRecorded', UNCHANGED <<keys, keyed>>,
           \A c \in Attempts :
             /\ M!Made(c)' <=> M!Made(c)
             /\ M!Made(c) =>
                  /\ attempts'[c].person = attempts[c].person
                  /\ attempts'[c].key = attempts[c].key
                  /\ attempts'[c].asked = attempts[c].asked
                  /\ attempts'[c].heard <=> attempts[c].heard
                  /\ attempts[c].heard => attempts'[c].step = attempts[c].step
                                          /\ attempts'[c].outcome = attempts[c].outcome
                  /\ attempts'[c].waiting => attempts[c].waiting
    PROVE  BuildInv'
<1> USE DEF BuildInv
<1>1. MadeInOrder'
  BY DEF MadeInOrder
<1>2. KeysAreHandedOut'
  <2>1. \A c \in Attempts : M!Made(c) => attempts[c] \in M!Submission
    BY DEF M!TypeOK, M!Made
  <2>2. \A c \in Attempts : M!Made(c) => attempts[c].key \in Attempts
    BY <2>1 DEF M!Submission, M!Keys
  <2>3. \A p \in People : keys[p] # NoAttempt => keys[p] \in Attempts
    BY DEF M!TypeOK, M!Keys
  <2> QED BY <2>2, <2>3 DEF KeysAreHandedOut, Of
<1>3. LastIsWaitedFor'
  BY DEF LastIsWaitedFor, Of
<1>4. HeardIsOver'
  BY DEF HeardIsOver
<1>5. \A a, c \in Attempts :
        M!Made(a) => (Of(a, c)' <=> Of(a, c)) /\ (M!Made(c) => (Successful(c)' <=> Successful(c)))
  BY DEF Of, Successful
<1>6. \A a \in Attempts : M!Made(a) => (OpenIntent(a)' <=> OpenIntent(a))
  BY <1>5 DEF OpenIntent, Of
<1>7. \A a, b \in Attempts : M!Made(a) => (M!SameIntent(a, b)' <=> M!SameIntent(a, b))
  BY <1>5 DEF M!SameIntent, Successful, Of
<1>8. \A a \in Attempts : M!Made(a) => attempts[a].person \in People
  BY DEF M!TypeOK, M!Made, M!Submission
<1>9. IntentsKeepTheirKey'
  BY <1>5, <1>6, <1>7, <1>8 DEF IntentsKeepTheirKey, Of
<1> QED BY <1>1, <1>2, <1>3, <1>4, <1>9

LEMMA ServiceKeeps ==
    ASSUME M!BuildConstants, BuildInv, NEW a \in Attempts,
           \/ M!Arrive(a) \/ M!ResolveHead(a) \/ M!Refuse(a) \/ M!Replay(a) \/ M!Limit(a) \/ M!Build(a) \/ M!Crash(a)
    PROVE  BuildInv'
<1> USE DEF BuildInv
<1>1. M!TypeOK'
  BY ServiceTyped
<1>2. M!Made(a) /\ attempts[a] \in M!Submission /\ attempts[a].step # "over" /\ ~attempts[a].heard
  BY DEF M!Arrive, M!ResolveHead, M!Refuse, M!Replay, M!Limit, M!Build, M!Crash, M!At, M!TypeOK, M!Made, HeardIsOver
<1>3. /\ \A c \in Attempts : c # a => attempts'[c] = attempts[c]
      /\ attempts'[a].person = attempts[a].person /\ attempts'[a].key = attempts[a].key
      /\ attempts'[a].asked = attempts[a].asked /\ attempts'[a].heard = attempts[a].heard
      /\ attempts'[a].waiting = attempts[a].waiting
      /\ attempts'[a].outcome = "built" => attempts[a].outcome = "built" \/ M!Build(a)
      /\ attempts'[a] \in M!Submission
  <2>1. PICK r \in M!Submission :
          /\ attempts' = [attempts EXCEPT ![a] = r]
          /\ r.person = attempts[a].person /\ r.key = attempts[a].key /\ r.asked = attempts[a].asked
          /\ r.heard = attempts[a].heard /\ r.waiting = attempts[a].waiting
          /\ r.outcome = "built" => attempts[a].outcome = "built" \/ M!Build(a)
    <3>1. ASSUME NEW outcome \in {"none", "built", "replayed", "limited", "failed"},
                 attempts' = M!Over(a, outcome), outcome = "built" => M!Build(a)
          PROVE  \E r \in M!Submission :
                    /\ attempts' = [attempts EXCEPT ![a] = r]
                    /\ r.person = attempts[a].person /\ r.key = attempts[a].key /\ r.asked = attempts[a].asked
                    /\ r.heard = attempts[a].heard /\ r.waiting = attempts[a].waiting
                    /\ r.outcome = "built" => attempts[a].outcome = "built" \/ M!Build(a)
      <4> DEFINE r == [attempts[a] EXCEPT !.step = "over", !.outcome = outcome]
      <4>1. r \in M!Submission
        BY <1>2 DEF M!Submission
      <4>2. attempts' = [attempts EXCEPT ![a] = r]
        BY <3>1 DEF M!Over, M!TypeOK
      <4> WITNESS r \in M!Submission
      <4> QED BY <1>2, <3>1, <4>2 DEF M!Submission
    <3>2. CASE attempts' = [attempts EXCEPT ![a].step = "resolved"]
      <4> DEFINE r == [attempts[a] EXCEPT !.step = "resolved"]
      <4>1. r \in M!Submission
        BY <1>2 DEF M!Submission
      <4>2. attempts' = [attempts EXCEPT ![a] = r]
        BY <3>2 DEF M!TypeOK
      <4> WITNESS r \in M!Submission
      <4> QED BY <1>2, <4>2 DEF M!Submission
    <3>3. ASSUME NEW branch \in M!Requests,
                 attempts' = [attempts EXCEPT ![a].step = "resolving", ![a].branch = branch]
          PROVE  \E r \in M!Submission :
                    /\ attempts' = [attempts EXCEPT ![a] = r]
                    /\ r.person = attempts[a].person /\ r.key = attempts[a].key /\ r.asked = attempts[a].asked
                    /\ r.heard = attempts[a].heard /\ r.waiting = attempts[a].waiting
                    /\ r.outcome = "built" => attempts[a].outcome = "built" \/ M!Build(a)
      <4> DEFINE r == [attempts[a] EXCEPT !.step = "resolving", !.branch = branch]
      <4>1. r \in M!Submission
        BY <1>2 DEF M!Submission
      <4>2. attempts' = [attempts EXCEPT ![a] = r]
        BY <3>3 DEF M!TypeOK
      <4> WITNESS r \in M!Submission
      <4> QED BY <1>2, <4>2 DEF M!Submission
    <3>4. (IF attempts[a].asked = NoBranch THEN link.production ELSE attempts[a].asked) \in M!Requests
      BY <1>2 DEF M!Submission, M!Requests, M!TypeOK
    <3> QED BY <3>1, <3>2, <3>3, <3>4 DEF M!Arrive, M!ResolveHead, M!Refuse, M!Replay, M!Limit, M!Build, M!Crash
  <2> QED BY <1>2, <2>1 DEF M!TypeOK
<1>4. BuiltIsRecorded'
  <2>1. \A c \in Attempts : (M!Made(c) /\ M!Made(c)') => attempts'[c].key = attempts[c].key
    BY <1>3
  <2>2. \A c \in Attempts : M!Made(c)' => M!Made(c)
    BY <1>2, <1>3 DEF M!Made
  <2>3. CASE M!Build(a)
    <3>1. /\ requested[attempts[a].key] = NoAttempt
          /\ requested' = [requested EXCEPT ![attempts[a].key] = a]
      BY <2>3 DEF M!Build, M!Recorded, M!Replayed
    <3>2. attempts[a].key \in M!Keys
      BY <1>2 DEF M!Submission
    <3>3. ASSUME NEW c \in Attempts, M!Made(c)', attempts'[c].outcome = "built"
          PROVE  requested'[attempts'[c].key] = c
      <4>1. CASE c = a
        BY <1>3, <3>1, <3>2, <4>1 DEF M!TypeOK
      <4>2. CASE c # a
        <5>1. requested[attempts[c].key] = c /\ c # NoAttempt
          BY <1>3, <2>2, <3>3, <4>2 DEF BuiltIsRecorded, M!BuildConstants
        <5> QED BY <1>3, <3>1, <4>2, <5>1 DEF M!TypeOK
      <4> QED BY <4>1, <4>2
    <3> QED BY <3>3 DEF BuiltIsRecorded
  <2>4. CASE ~M!Build(a)
    <3>1. requested' = requested
      BY <2>4 DEF M!Arrive, M!ResolveHead, M!Refuse, M!Replay, M!Limit, M!Crash
    <3> QED BY <1>3, <2>1, <2>2, <2>4, <3>1 DEF BuiltIsRecorded
  <2> QED BY <2>3, <2>4
<1>5. UNCHANGED <<keys, keyed>>
  BY DEF M!Arrive, M!ResolveHead, M!Refuse, M!Replay, M!Limit, M!Build, M!Crash
<1>6. M!Made(a)'
  BY <1>3 DEF M!Made, M!BuildConstants
<1> QED BY <1>1, <1>2, <1>3, <1>4, <1>5, <1>6, QuietStep DEF M!Made

\* A new submission goes on with the key of every earlier one whose intent is still open.
LEMMA SubmitKeeps ==
    ASSUME M!BuildConstants, BuildInv, M!TypeOK', NEW p \in People, M!Submit(p)
    PROVE  BuildInv'
<1> USE DEF BuildInv
<1>1. PICK a \in Attempts, branch \in Branches :
        /\ ~M!Made(a)
        /\ \A b \in Attempts : b < a => M!Made(b)
        /\ LET asked == M!Asked(p, branch)
               key == M!KeyFor(p, asked, a)
           IN  /\ keys' = [keys EXCEPT ![p] = key]
               /\ keyed' = [keyed EXCEPT ![p] = asked]
               /\ attempts' = [attempts EXCEPT ![a] =
                      [person |-> p, key |-> key, asked |-> asked, branch |-> NoBranch,
                       step |-> "arrived", outcome |-> "none", waiting |-> TRUE, heard |-> FALSE]]
  BY DEF M!Submit
<1> DEFINE asked == M!Asked(p, branch)
           key == M!KeyFor(p, asked, a)
<1>2. /\ attempts'[a] = [person |-> p, key |-> key, asked |-> asked, branch |-> NoBranch,
                         step |-> "arrived", outcome |-> "none", waiting |-> TRUE, heard |-> FALSE]
      /\ \A c \in Attempts : c # a => attempts'[c] = attempts[c]
      /\ keys'[p] = key /\ keyed'[p] = asked
      /\ \A q \in People : q # p => keys'[q] = keys[q] /\ keyed'[q] = keyed[q]
      /\ requested' = requested
  BY <1>1 DEF M!TypeOK, M!Submit
<1> HIDE DEF asked
<1>3. key = a \/ (key = keys[p] /\ keys[p] # NoAttempt /\ keyed[p] = asked)
  BY DEF M!KeyFor
<1>4. \A c, d \in Attempts : M!Made(c) /\ ~M!Made(d) => c < d
  <2>1. \A c, d \in Attempts : c \in Nat /\ d \in Nat
    BY DEF M!BuildConstants
  <2> QED BY <2>1 DEF MadeInOrder
<1>5. /\ \A c \in Attempts : M!Made(c) => c # a /\ c < a
      /\ M!Made(a)' /\ \A c \in Attempts : c # a => (M!Made(c)' <=> M!Made(c))
      /\ \A c \in Attempts : M!Made(c)' /\ c # a => c < a /\ ~(a < c)
  <2>1. \A c \in Attempts : c \in Nat
    BY DEF M!BuildConstants
  <2>2. attempts'[a] # NoAttempt
    <3>1. attempts'[a].person = p
      BY <1>2
    <3>2. attempts'[a] \in M!Submission \/ attempts'[a] = NoAttempt
      BY DEF M!TypeOK
    <3>3. attempts'[a] \in M!Submission
      <4>1. asked \in M!Requests /\ key \in M!Keys
        BY DEF M!TypeOK, M!Asked, M!Requests, M!KeyFor, M!Keys, asked
      <4> QED BY <1>2, <4>1 DEF M!Submission, M!Requests
    <3> QED BY <3>3 DEF M!BuildConstants
  <2> QED BY <1>1, <1>2, <1>4, <2>1, <2>2 DEF M!Made
<1> HIDE DEF key
<1>6. MadeInOrder'
  BY <1>1, <1>5 DEF MadeInOrder
<1>7. \A c \in Attempts : M!Made(c) => attempts[c] \in M!Submission /\ attempts[c].key \in Attempts
  BY DEF M!TypeOK, M!Made, M!Submission, M!Keys
<1>8. KeysAreHandedOut'
  <2>1. key \in Attempts /\ attempts'[key] # NoAttempt /\ attempts'[key].person = p /\ attempts'[key].asked = asked
    <3>1. CASE key = a
      BY <1>2, <1>5, <3>1 DEF M!Made
    <3>2. CASE key # a
      <4>1. key = keys[p] /\ keys[p] # NoAttempt /\ keyed[p] = asked /\ key \in Attempts
        BY <1>3, <3>2 DEF M!TypeOK, M!Keys
      <4>2. attempts[key] # NoAttempt /\ attempts[key].person = p /\ attempts[key].asked = asked
        BY <4>1 DEF KeysAreHandedOut, M!Made
      <4> QED BY <1>2, <3>2, <4>1, <4>2
    <3> QED BY <3>1, <3>2
  <2>2. ASSUME NEW c \in Attempts, attempts'[c] # NoAttempt, NEW k, k = attempts'[c].key
        PROVE  attempts'[k] # NoAttempt /\ attempts'[k].person = attempts'[c].person
               /\ attempts'[k].asked = attempts'[c].asked
    <3>1. CASE c = a
      BY <1>2, <2>1, <2>2, <3>1
    <3>2. CASE c # a
      <4>1. M!Made(c) /\ k = attempts[c].key /\ k \in Attempts
        BY <1>2, <1>7, <2>2, <3>2 DEF M!Made
      <4>2. attempts[k] # NoAttempt /\ attempts[k].person = attempts[c].person
            /\ attempts[k].asked = attempts[c].asked
        BY <4>1 DEF KeysAreHandedOut, Of, M!Made
      <4>3. k # a
        BY <1>1, <4>2 DEF M!Made
      <4> QED BY <1>2, <3>2, <4>1, <4>2, <4>3
    <3> QED BY <3>1, <3>2
  <2>3. ASSUME NEW q \in People, keys'[q] # NoAttempt, NEW k, k = keys'[q]
        PROVE  attempts'[k] # NoAttempt /\ attempts'[k].person = q /\ attempts'[k].asked = keyed'[q]
    <3>1. CASE q = p
      BY <1>2, <2>1, <2>3, <3>1
    <3>2. CASE q # p
      <4>1. attempts[k] # NoAttempt /\ attempts[k].person = q /\ attempts[k].asked = keyed[q] /\ k \in Attempts
        BY <1>2, <2>3, <3>2 DEF KeysAreHandedOut, M!Made, M!TypeOK, M!Keys
      <4>2. k # a
        BY <1>1, <4>1 DEF M!Made
      <4> QED BY <1>2, <3>2, <4>1, <4>2
    <3> QED BY <3>1, <3>2
  <2> QED BY <2>2, <2>3 DEF KeysAreHandedOut, Of, M!Made
<1>9. LastIsWaitedFor'
  <2>1. \A c \in Attempts : M!Made(c) /\ attempts[c].person = p => ~attempts[c].waiting
    BY DEF M!Submit, M!Waiting
  <2>2. ASSUME NEW c \in Attempts, NEW d \in Attempts, M!Made(c)', c < d, Of(c, d)'
        PROVE  ~attempts'[c].waiting
    <3>1. c # a /\ M!Made(c)
      BY <1>5, <2>2 DEF Of, M!BuildConstants
    <3>2. CASE d = a
      BY <1>2, <2>1, <2>2, <3>1, <3>2 DEF Of
    <3>3. CASE d # a
      BY <1>2, <1>5, <2>2, <3>1, <3>3 DEF Of, LastIsWaitedFor
    <3> QED BY <3>2, <3>3
  <2> QED BY <2>2 DEF LastIsWaitedFor
<1>10. HeardIsOver'
  BY <1>2, <1>5 DEF HeardIsOver
<1>11. BuiltIsRecorded'
  BY <1>2, <1>5 DEF BuiltIsRecorded
<1>12. ASSUME NEW c \in Attempts, M!Made(c), attempts[c].person = p,
              \A d \in Attempts : (Of(c, d)' /\ c <= d) =>
                 attempts'[d].asked = attempts'[c].asked /\ (d # a => ~Successful(d)')
       PROVE  key = attempts[c].key /\ asked = attempts[c].asked
  <2>1. c < a /\ c # a /\ Of(c, a)' /\ c <= a
    <3>1. c < a /\ c # a
      BY <1>5, <1>12
    <3>2. c <= a
      BY <3>1 DEF M!BuildConstants
    <3>3. attempts'[c].person = p /\ attempts'[a].person = p /\ M!Made(a)'
      BY <1>2, <1>5, <1>12, <3>1
    <3>4. Of(c, a)'
      BY <3>3 DEF Of
    <3> QED BY <3>1, <3>2, <3>4
  <2>2. asked = attempts[c].asked
    BY <1>2, <1>12, <2>1
  <2>3. OpenIntent(c)
    <3>1. ASSUME NEW d \in Attempts, Of(c, d), c <= d
          PROVE  attempts[d].asked = attempts[c].asked /\ ~Successful(d)
      <4>1. d # a /\ Of(c, d)'
        BY <1>1, <1>2, <1>5, <2>1, <3>1 DEF Of
      <4> QED BY <1>2, <1>12, <2>1, <3>1, <4>1 DEF Successful
    <3> QED BY <3>1 DEF OpenIntent
  <2>4. keys[p] = attempts[c].key /\ keyed[p] = attempts[c].asked
    BY <1>12, <2>3 DEF IntentsKeepTheirKey
  <2>5. keys[p] # NoAttempt
    BY <1>7, <1>12, <2>4 DEF M!BuildConstants
  <2> QED BY <2>2, <2>4, <2>5 DEF M!KeyFor, key
<1>13. IntentsKeepTheirKey'
  <2>1. ASSUME NEW c \in Attempts, M!Made(c)', OpenIntent(c)'
        PROVE  keys'[attempts'[c].person] = attempts'[c].key /\ keyed'[attempts'[c].person] = attempts'[c].asked
    <3>1. CASE c = a
      BY <1>2, <3>1
    <3>2. CASE c # a /\ attempts[c].person = p
      <4>1. key = attempts[c].key /\ asked = attempts[c].asked
        BY <1>5, <1>12, <2>1, <3>2 DEF OpenIntent
      <4> QED BY <1>2, <3>2, <4>1
    <3>3. CASE c # a /\ attempts[c].person # p
      <4>1. M!Made(c) /\ OpenIntent(c)
        BY <1>1, <1>2, <1>5, <2>1, <3>3 DEF OpenIntent, Of, Successful
      <4>2. attempts[c].person \in People
        BY <1>7, <4>1 DEF M!Submission
      <4> QED BY <1>2, <3>3, <4>1, <4>2 DEF IntentsKeepTheirKey
    <3> QED BY <3>1, <3>2, <3>3
  <2>2. ASSUME NEW c \in Attempts, NEW d \in Attempts, M!Made(c)', c < d, Of(c, d)', M!SameIntent(c, d)'
        PROVE  attempts'[c].key = attempts'[d].key
    <3>1. c # a /\ M!Made(c)
      BY <1>5, <2>2 DEF Of, M!BuildConstants
    <3>2. CASE d = a
      <4>1. attempts[c].person = p
        BY <1>2, <2>2, <3>1, <3>2 DEF Of
      <4>2. \A e \in Attempts : (Of(c, e)' /\ c <= e) => e \in c..d
        BY <1>5, <3>2 DEF Of, M!BuildConstants
      <4>3. key = attempts[c].key
        BY <1>12, <2>2, <3>1, <3>2, <4>1, <4>2 DEF M!SameIntent, Successful, Of
      <4> QED BY <1>2, <3>1, <3>2, <4>3
    <3>3. CASE d # a
      <4>1. Of(c, d) /\ M!SameIntent(c, d)
        BY <1>1, <1>2, <1>5, <2>2, <3>1, <3>3 DEF Of, M!SameIntent
      <4> QED BY <1>2, <2>2, <3>1, <3>3, <4>1 DEF IntentsKeepTheirKey
    <3> QED BY <3>2, <3>3
  <2> QED BY <2>1, <2>2 DEF IntentsKeepTheirKey
<1> QED BY <1>6, <1>8, <1>9, <1>10, <1>11, <1>13

\* A build that is reported ends the intent of every submission before it, and the key.
LEMMA HearKeeps ==
    ASSUME M!BuildConstants, BuildInv, M!TypeOK', NEW a \in Attempts, M!Hear(a)
    PROVE  BuildInv'
<1> USE DEF BuildInv
<1>1. /\ M!Made(a) /\ attempts[a] \in M!Submission /\ attempts[a].step = "over" /\ attempts[a].waiting
      /\ attempts'[a] = [attempts[a] EXCEPT !.waiting = FALSE, !.heard = TRUE]
      /\ \A c \in Attempts : c # a => attempts'[c] = attempts[c]
      /\ requested' = requested
  BY DEF M!Hear, M!At, M!Made, M!TypeOK
<1> DEFINE p == attempts[a].person
<1>2. /\ attempts'[a].person = p /\ attempts'[a].key = attempts[a].key /\ attempts'[a].asked = attempts[a].asked
      /\ attempts'[a].step = "over" /\ attempts'[a].outcome = attempts[a].outcome
      /\ ~attempts'[a].waiting /\ attempts'[a].heard /\ attempts'[a] # NoAttempt /\ p \in People
  <2>1. [attempts[a] EXCEPT !.waiting = FALSE, !.heard = TRUE] \in M!Submission
    BY <1>1 DEF M!Submission
  <2> QED BY <1>1, <2>1 DEF M!Submission, M!BuildConstants
<1>3. \A c \in Attempts :
        /\ attempts'[c] # NoAttempt <=> attempts[c] # NoAttempt
        /\ attempts'[c].person = attempts[c].person /\ attempts'[c].key = attempts[c].key
        /\ attempts'[c].asked = attempts[c].asked /\ attempts'[c].outcome = attempts[c].outcome
        /\ attempts'[c].waiting => attempts[c].waiting
        /\ attempts[c].heard => attempts'[c].heard
  BY <1>1, <1>2 DEF M!Made
<1>4. \A q \in People : \/ keys'[q] = keys[q] /\ keyed'[q] = keyed[q]
                        \/ q = p /\ keys'[q] = NoAttempt /\ attempts[a].outcome \in {"built", "replayed"}
  BY DEF M!Hear, M!TypeOK
<1>5. \A c \in Attempts : M!Made(c) => attempts[c] \in M!Submission /\ attempts[c].key \in Attempts
                                     /\ attempts[c].person \in People
  BY DEF M!TypeOK, M!Made, M!Submission, M!Keys
<1>6. MadeInOrder'
  BY <1>3 DEF MadeInOrder, M!Made
<1>7. KeysAreHandedOut'
  <2>1. ASSUME NEW c \in Attempts, attempts'[c] # NoAttempt, NEW k, k = attempts'[c].key
        PROVE  attempts'[k] # NoAttempt /\ attempts'[k].person = attempts'[c].person
               /\ attempts'[k].asked = attempts'[c].asked
    BY <1>3, <1>5, <2>1 DEF KeysAreHandedOut, Of, M!Made
  <2>2. ASSUME NEW q \in People, keys'[q] # NoAttempt, NEW k, k = keys'[q]
        PROVE  attempts'[k] # NoAttempt /\ attempts'[k].person = q /\ attempts'[k].asked = keyed'[q]
    <3>1. k = keys[q] /\ keyed'[q] = keyed[q] /\ k \in Attempts
      BY <1>4, <2>2 DEF M!TypeOK, M!Keys
    <3> QED BY <1>3, <2>2, <3>1 DEF KeysAreHandedOut, M!Made
  <2> QED BY <2>1, <2>2 DEF KeysAreHandedOut, Of, M!Made
<1>8. LastIsWaitedFor'
  BY <1>3 DEF LastIsWaitedFor, Of, M!Made
<1>9. HeardIsOver'
  BY <1>1, <1>2 DEF HeardIsOver, M!Made
<1>10. BuiltIsRecorded'
  BY <1>1, <1>3 DEF BuiltIsRecorded, M!Made
<1>11. \A c, d \in Attempts : (Of(c, d)' <=> Of(c, d)) /\ (M!Made(c)' <=> M!Made(c)) /\ (Successful(c) => Successful(c)')
  BY <1>3 DEF Of, M!Made, Successful
<1>12. \A c \in Attempts : OpenIntent(c)' => OpenIntent(c)
  BY <1>3, <1>11 DEF OpenIntent
<1>13. \A c, d \in Attempts : M!SameIntent(c, d)' => M!SameIntent(c, d)
  BY <1>3, <1>11 DEF M!SameIntent, M!Made
<1>14. ASSUME NEW c \in Attempts, M!Made(c), attempts[c].person = p, attempts[a].outcome \in {"built", "replayed"}
       PROVE  ~OpenIntent(c)'
  <2>1. c <= a
    BY <1>1, <1>14 DEF LastIsWaitedFor, Of, M!BuildConstants
  <2>2. Of(c, a)' /\ Successful(a)'
    BY <1>1, <1>2, <1>3, <1>14 DEF Of, Successful, M!Made
  <2> QED BY <2>1, <2>2 DEF OpenIntent
<1>15. IntentsKeepTheirKey'
  <2>1. ASSUME NEW c \in Attempts, M!Made(c)', OpenIntent(c)'
        PROVE  keys'[attempts'[c].person] = attempts'[c].key /\ keyed'[attempts'[c].person] = attempts'[c].asked
    <3>1. M!Made(c) /\ OpenIntent(c) /\ attempts[c].person \in People
      BY <1>5, <1>11, <1>12, <2>1
    <3>2. keys[attempts[c].person] = attempts[c].key /\ keyed[attempts[c].person] = attempts[c].asked
      BY <3>1 DEF IntentsKeepTheirKey
    <3> QED BY <1>3, <1>4, <1>14, <2>1, <3>1, <3>2
  <2>2. ASSUME NEW c \in Attempts, NEW d \in Attempts, M!Made(c)', c < d, Of(c, d)', M!SameIntent(c, d)'
        PROVE  attempts'[c].key = attempts'[d].key
    BY <1>3, <1>11, <1>13, <2>2 DEF IntentsKeepTheirKey
  <2> QED BY <2>1, <2>2 DEF IntentsKeepTheirKey
<1> QED BY <1>6, <1>7, <1>8, <1>9, <1>10, <1>15

LEMMA BuildsNext == ASSUME M!BuildConstants, BuildInv, [M!Next]_(M!vars) PROVE BuildInv'
<1> USE DEF BuildInv
<1>1. M!TypeOK'
  BY NextTyped
<1>2. CASE \E p \in People : M!Submit(p)
  BY <1>1, <1>2, SubmitKeeps
<1>3. CASE \E a \in Attempts : M!Hear(a)
  BY <1>1, <1>3, HearKeeps
<1>4. CASE \E a \in Attempts : M!GiveUp(a)
  <2>1. PICK a \in Attempts : M!GiveUp(a)
    BY <1>4
  <2>2. attempts[a] \in M!Submission /\ [attempts[a] EXCEPT !.waiting = FALSE] \in M!Submission
    BY <2>1 DEF M!GiveUp, M!Made, M!TypeOK, M!Submission
  <2>3. /\ \A c \in Attempts : c # a => attempts'[c] = attempts[c]
        /\ attempts'[a] = [attempts[a] EXCEPT !.waiting = FALSE]
        /\ UNCHANGED <<keys, keyed, requested>>
    BY <2>1 DEF M!GiveUp, M!TypeOK
  <2>4. /\ attempts'[a].person = attempts[a].person /\ attempts'[a].key = attempts[a].key
        /\ attempts'[a].asked = attempts[a].asked /\ attempts'[a].heard = attempts[a].heard
        /\ attempts'[a].step = attempts[a].step /\ attempts'[a].outcome = attempts[a].outcome
        /\ ~attempts'[a].waiting /\ M!Made(a) /\ M!Made(a)'
    <3>1. attempts'[a] # NoAttempt /\ attempts[a] # NoAttempt
      BY <2>2, <2>3 DEF M!BuildConstants
    <3> QED BY <2>2, <2>3, <3>1 DEF M!Made, M!Submission
  <2>5. BuiltIsRecorded'
    <3>1. \A c \in Attempts : M!Made(c)' => M!Made(c) /\ attempts'[c].key = attempts[c].key
                                         /\ attempts'[c].outcome = attempts[c].outcome
      BY <2>3, <2>4 DEF M!Made
    <3> QED BY <2>3, <3>1 DEF BuiltIsRecorded
  <2> QED BY <1>1, <2>3, <2>4, <2>5, QuietStep DEF M!Made
<1>5. CASE \E a \in Attempts : \/ M!Arrive(a) \/ M!ResolveHead(a) \/ M!Refuse(a) \/ M!Replay(a) \/ M!Limit(a)
                               \/ M!Build(a) \/ M!Crash(a)
  BY <1>5, ServiceKeeps
<1>6. CASE UNCHANGED <<keys, keyed, attempts, requested>>
  <2>1. BuiltIsRecorded'
    BY <1>6 DEF BuiltIsRecorded, M!Made
  <2> QED BY <1>1, <1>6, <2>1, QuietStep DEF M!Made
<1>7. CASE (\E p \in People : M!ReadLink(p)) \/ M!HourPasses \/ M!Relink \/ UNCHANGED M!vars
  BY <1>6, <1>7 DEF M!ReadLink, M!HourPasses, M!Relink, M!vars
<1> QED BY <1>2, <1>3, <1>4, <1>5, <1>7 DEF M!Next

LEMMA BuildsInvariant == ASSUME M!BuildConstants PROVE M!Spec => []BuildInv
<1>1. M!Init => BuildInv
  <2>1. ASSUME M!Init PROVE BuildInv
    <3>1. (\A a \in Attempts : ~M!Made(a)) /\ \A p \in People : keys[p] = NoAttempt
      BY <2>1 DEF M!Init, M!Made
    <3> QED BY <2>1, <3>1, InitTyped DEF BuildInv, MadeInOrder, KeysAreHandedOut, LastIsWaitedFor,
                                         HeardIsOver, BuiltIsRecorded, IntentsKeepTheirKey
  <2> QED BY <2>1
<1>2. BuildInv /\ [M!Next]_(M!vars) => BuildInv'
  BY BuildsNext
<1> QED BY <1>1, <1>2, PTL DEF M!Spec

-----------------------------------------------------------------------------
\* A retry of a manual build never starts a second one, however tries, answers and timeouts
\* fall and wherever the service stops (useIdempotencyKey, ManualBuildService.request).
THEOREM OneBuild == ASSUME M!BuildConstants PROVE M!Spec => []M!OneBuildPerIntent
<1>1. BuildInv => M!OneBuildPerIntent
  <2>1. ASSUME BuildInv, NEW a \in Attempts, NEW b \in Attempts, a < b, M!Made(a), M!Made(b),
               attempts[a].person = attempts[b].person, M!SameIntent(a, b),
               attempts[a].outcome = "built", attempts[b].outcome = "built"
        PROVE  FALSE
    <3>1. attempts[a].key = attempts[b].key
      BY <2>1 DEF BuildInv, IntentsKeepTheirKey, Of
    <3>2. requested[attempts[a].key] = a /\ requested[attempts[b].key] = b
      BY <2>1 DEF BuildInv, BuiltIsRecorded
    <3> QED BY <2>1, <3>1, <3>2 DEF M!BuildConstants
  <2> QED BY <2>1 DEF M!OneBuildPerIntent
<1> QED BY <1>1, BuildsInvariant, PTL

\* A key is never sent with two different requests.
THEOREM OneRequestPerKey == ASSUME M!BuildConstants PROVE M!Spec => []M!KeysFitRequests
<1>1. BuildInv => M!KeysFitRequests
  BY DEF BuildInv, KeysAreHandedOut, M!KeysFitRequests
<1> QED BY <1>1, BuildsInvariant, PTL

\* ManualBuilds counts the way the library's theorems do.
LEMMA SameCardinality == \A S : M!Cardinality(S) = Cardinality(S)
BY DEF M!Cardinality, M!IsFiniteSet, Cardinality, IsFiniteSet

\* The hour's limit holds for any number of requests that are checked at once.
THEOREM LimitHolds == ASSUME M!BuildConstants PROVE M!Spec => []M!LimitExact
<1> DEFINE Counted == IsFiniteSet(recent) /\ M!LimitExact
<1>1. M!Init => Counted
  BY FS_EmptySet, SameCardinality DEF M!Init, M!LimitExact, M!BuildConstants
<1>2. Counted /\ [M!Next]_(M!vars) => Counted'
  <2>1. ASSUME Counted, [M!Next]_(M!vars) PROVE Counted'
    <3>1. CASE UNCHANGED recent
      BY <2>1, <3>1 DEF M!LimitExact
    <3>2. CASE \E a \in Attempts : M!Build(a)
      <4>1. PICK a \in Attempts : M!Build(a)
        BY <3>2
      <4>2. Cardinality(recent) < PerHour /\ recent' = recent \cup {attempts[a].key}
        BY <4>1, SameCardinality DEF M!Build, M!StillWithinLimit, M!WithinLimit
      <4>3. Cardinality(recent) \in Nat
        BY <2>1, FS_CardinalityType
      <4>4. IsFiniteSet(recent') /\ Cardinality(recent') \in {Cardinality(recent), Cardinality(recent) + 1}
        BY <2>1, <4>2, FS_AddElement
      <4> QED BY <4>2, <4>3, <4>4, SameCardinality DEF M!LimitExact, M!BuildConstants
    <3>3. CASE M!HourPasses
      <4>1. PICK k \in recent : recent' = recent \ {k}
        BY <3>3 DEF M!HourPasses
      <4>2. Cardinality(recent) \in Nat
        BY <2>1, FS_CardinalityType
      <4>3. IsFiniteSet(recent') /\ Cardinality(recent') = Cardinality(recent) - 1
        BY <2>1, <4>1, FS_RemoveElement
      <4> QED BY <2>1, <4>2, <4>3, SameCardinality DEF M!LimitExact, M!BuildConstants
    <3> QED BY <2>1, <3>1, <3>2, <3>3 DEF M!Next, M!Submit, M!ReadLink, M!Hear, M!GiveUp, M!Arrive, M!ResolveHead,
                                       M!Refuse, M!Replay, M!Limit, M!Crash, M!Relink, M!vars
  <2> QED BY <2>1
<1>3. Counted => M!LimitExact
  OBVIOUS
<1> QED BY <1>1, <1>2, <1>3, PTL DEF M!Spec

-----------------------------------------------------------------------------
(* The round trips to GitHub alone.                                          *)

\* The places a tab can be put are places.
LEMMA Places ==
    /\ G!App \in G!Place
    /\ \A s \in States \cup {Nothing} : G!GitHub(s) \in G!Place
    /\ \A intent \in G!Intent : G!Stopped(intent) \in G!Place /\ G!Starting(intent) \in G!Place
  BY DEF G!Place, G!App, G!GitHub, G!Stopped, G!Starting

\* What a tab has with it at each place.
LEMMA AtPlaces ==
    ASSUME G!HandoffConstants, G!TypeOK, NEW t \in Tabs
    PROVE  /\ tabs[t].at \in {"starting", "stopped"} => tabs[t].intent \in G!Intent
           /\ tabs[t].at = "github" => tabs[t].state \in States \cup {Nothing}
           /\ tabs[t].at = "waiting" =>
                /\ tabs[t] \in [at : {"waiting"}, callback : G!Callback, intent : G!Intent,
                                setOut : G!Intent \cup {Nothing}, step : {"complete", "link", "linked"}]
                /\ tabs[t].intent \in G!Intent
                /\ tabs[t].callback \in G!Callback
                /\ tabs[t].setOut \in G!Intent \cup {Nothing}
<1>1. tabs[t] \in G!Place
  BY DEF G!TypeOK
<1> QED BY <1>1 DEF G!Place

\* GitHub's pages send back what belongs to them.
LEMMA CallbackKinds ==
    ASSUME NEW s \in States \cup {Nothing}, NEW callback \in G!Callbacks(s)
    PROVE  /\ callback \in G!Callback
           /\ callback.kind = "freshInstall" => s \in States /\ callback.state = s /\ callback.installation \in Installations
           /\ callback.kind = "installWithoutAuthorization" => callback.installation \in Installations
  BY DEF G!Callbacks, G!Callback

\* Every intent names an org, or nothing to link.
LEMMA IntentOrgs ==
    ASSUME NEW intent \in G!Intent
    PROVE  /\ intent.org \in Orgs \/ intent = G!Authorize
           /\ intent.org \in Orgs \cup {Nothing} /\ intent.installation \in Installations \cup {Nothing}
  BY DEF G!Intent, G!InstallFor, G!Authorize, G!Pending

-----------------------------------------------------------------------------
(* What a tab waits for with a grant, or has linked, goes back to a state    *)
(* that was consumed for it; what it waits for at all, to what it set out    *)
(* for.                                                                      *)

Waits(t) == tabs[t].at = "waiting"

\* A tab with a fresh installation whose state the service has accepted.
Granted(t) == Waits(t) /\ tabs[t].callback.kind = "freshInstall" /\ tabs[t].step # "complete"

Consumed(s) == s \in States /\ G!Issued(s) /\ states[s].spent # 0

SetOutInv ==
    \A t \in Tabs :
        /\ intents[t] # Nothing => setOut[t] = intents[t]
        /\ Waits(t) =>
             /\ tabs[t].setOut = tabs[t].intent
             /\ tabs[t].callback.kind # "authorization" =>
                  tabs[t].intent.org # Nothing /\ tabs[t].callback.installation \in Installations
             /\ tabs[t].callback.kind = "freshInstall" => tabs[t].callback.state \in States
             /\ (tabs[t].callback.kind = "authorization" /\ tabs[t].step # "complete") =>
                  tabs[t].intent.installation # Nothing

GrantInv ==
    /\ \A t \in Tabs : Granted(t) =>
         Consumed(tabs[t].callback.state) /\ states[tabs[t].callback.state].org = tabs[t].intent.org
    /\ \A t, u \in Tabs : Granted(t) /\ Granted(u) /\ tabs[t].callback.state = tabs[u].callback.state => t = u
    /\ \A made \in links : made.state # Nothing =>
         Consumed(made.state) /\ states[made.state].org = made.org
    /\ \A made \in links, t \in Tabs :
         Granted(t) /\ made.state = tabs[t].callback.state => tabs[t].step = "linked"
    /\ \A made, other \in links : made.state # Nothing /\ other.state = made.state => other = made

HandoffInv == G!TypeOK /\ SetOutInv /\ GrantInv

\* A tab goes somewhere else and waits for nothing there; states keep their org, and those that
\* are consumed stay so.
LEMMA NotWaiting ==
    ASSUME G!HandoffConstants, HandoffInv, G!TypeOK', UNCHANGED links,
           NEW t \in Tabs, NEW place \in G!Place, tabs' = [tabs EXCEPT ![t] = place], place.at # "waiting",
           \A u \in Tabs : intents'[u] # Nothing => setOut'[u] = intents'[u],
           \A s \in States : Consumed(s) => Consumed(s)' /\ states'[s].org = states[s].org
    PROVE  HandoffInv'
<1> USE DEF HandoffInv
<1>1. /\ tabs'[t] = place /\ ~Waits(t)' /\ ~Granted(t)'
      /\ \A u \in Tabs : u # t => tabs'[u] = tabs[u] /\ (Waits(u)' <=> Waits(u)) /\ (Granted(u)' <=> Granted(u))
  BY DEF G!TypeOK, Waits, Granted
<1>2. SetOutInv'
  BY <1>1 DEF SetOutInv
<1>3. \A s \in States : Consumed(s) => Consumed(s)' /\ states'[s].org = states[s].org
  OBVIOUS
<1>4. GrantInv'
  <2>1. \A u \in Tabs : Granted(u)' => u # t /\ Granted(u) /\ tabs'[u] = tabs[u]
    BY <1>1
  <2>2. \A u \in Tabs : Granted(u)' =>
          Consumed(tabs[u].callback.state)' /\ states'[tabs[u].callback.state].org = tabs[u].intent.org
    BY <1>3, <2>1 DEF GrantInv, Consumed
  <2> QED BY <1>3, <2>1, <2>2 DEF GrantInv, Consumed
<1> QED BY <1>2, <1>4

\* Setting out, giving up and moving through the browser's history.
LEMMA MovesKeep ==
    ASSUME G!HandoffConstants, HandoffInv, NEW t \in Tabs,
           \/ G!Start(t) \/ G!Retry(t) \/ G!StartFails(t) \/ G!GoBack(t) \/ G!GoForward(t) \/ G!Configure(t)
           \/ G!Reject(t) \/ G!AuthorizationRequired(t) \/ G!Installed(t) \/ G!Fail(t)
    PROVE  HandoffInv'
<1> USE DEF HandoffInv
<1>1. UNCHANGED <<intents, histories, setOut, states, session, links>> /\ setbacks' \in Nat
  BY DEF G!Start, G!Retry, G!StartFails, G!GoBack, G!GoForward, G!Configure, G!Reject, G!AuthorizationRequired, G!Installed,
         G!Fail, G!Setback, G!TypeOK
<1>2. \E place \in G!Place : tabs' = [tabs EXCEPT ![t] = place] /\ place.at # "waiting"
  <2>1. /\ G!App.at # "waiting"
        /\ \A s : G!GitHub(s).at # "waiting"
        /\ \A intent : G!Stopped(intent).at # "waiting" /\ G!Starting(intent).at # "waiting"
    BY DEF G!App, G!GitHub, G!Stopped, G!Starting
  <2>2. CASE G!Start(t)
    <3>1. PICK intent \in {G!InstallFor(org) : org \in Orgs} \cup {G!Authorize} : G!To(t, G!Starting(intent))
      BY <2>2 DEF G!Start
    <3>2. intent \in G!Intent
      BY DEF G!Intent
    <3> QED BY <2>1, <3>1, <3>2, Places DEF G!To
  <2>3. CASE G!Retry(t) \/ G!Reject(t) \/ G!Fail(t)
    <3>1. tabs[t].intent \in G!Intent
      BY <2>3, AtPlaces DEF G!Retry, G!Reject, G!Fail, G!At
    <3>2. G!To(t, G!Starting(tabs[t].intent)) \/ G!To(t, G!Stopped(tabs[t].intent))
      BY <2>3 DEF G!Retry, G!Reject, G!Fail
    <3> QED BY <2>1, <3>1, <3>2, Places DEF G!To
  <2>4. CASE G!StartFails(t) \/ G!GoBack(t) \/ G!Installed(t)
    BY <2>1, <2>4, Places DEF G!StartFails, G!GoBack, G!Installed, G!To
  <2>5. CASE G!GoForward(t) \/ G!Configure(t)
    <3>1. \E s \in States \cup {Nothing} : G!To(t, G!GitHub(s))
      BY <2>5 DEF G!GoForward, G!Configure, G!TypeOK
    <3> QED BY <2>1, <3>1, Places DEF G!To
  <2>6. CASE G!AuthorizationRequired(t)
    <3>1. Waits(t) /\ tabs[t].intent \in G!Intent
      BY <2>6, AtPlaces DEF G!AuthorizationRequired, G!At, Waits
    <3>2. CASE tabs[t].callback.kind = "installWithoutAuthorization"
      <4>1. tabs[t].intent.org # Nothing /\ tabs[t].callback.installation \in Installations
        BY <3>1, <3>2 DEF SetOutInv
      <4>2. tabs[t].intent.org \in Orgs
        BY <3>1, <4>1, IntentOrgs
      <4>3. G!Pending(tabs[t].intent.org, G!Wanted(t)) \in G!Intent
        BY <3>2, <4>1, <4>2 DEF G!Wanted, G!Intent
      <4> QED BY <2>1, <2>6, <3>2, <4>3, Places DEF G!AuthorizationRequired, G!To
    <3>3. CASE tabs[t].callback.kind # "installWithoutAuthorization"
      BY <2>1, <2>6, <3>1, <3>3, Places DEF G!AuthorizationRequired, G!To
    <3> QED BY <3>2, <3>3
  <2> QED BY <2>2, <2>3, <2>4, <2>5, <2>6
<1>3. G!TypeOK'
  BY <1>1, <1>2 DEF G!TypeOK
<1>4. \A s \in States : Consumed(s) => Consumed(s)' /\ states'[s].org = states[s].org
  BY <1>1 DEF Consumed, G!Issued
<1>5. \A u \in Tabs : intents'[u] # Nothing => setOut'[u] = intents'[u]
  BY <1>1 DEF SetOutInv
<1> QED BY <1>1, <1>2, <1>3, <1>4, <1>5, NotWaiting

\* The state is new, so nothing has been consumed or linked under it.
LEMMA LeaveKeeps ==
    ASSUME G!HandoffConstants, HandoffInv, NEW t \in Tabs, G!Leave(t)
    PROVE  HandoffInv'
<1> USE DEF HandoffInv
<1>1. tabs[t].intent \in G!Intent
  BY AtPlaces DEF G!Leave
<1>2. PICK s \in States :
        /\ ~G!Issued(s)
        /\ LET intent == tabs[t].intent
               issued == IF intent.kind = "install"
                         THEN [purpose |-> "INSTALL", org |-> intent.org, live |-> TRUE, spent |-> 0]
                         ELSE [purpose |-> "AUTHORIZE", org |-> Nothing, live |-> TRUE, spent |-> 0]
           IN  /\ states' = [states EXCEPT ![s] = issued]
               /\ intents' = [intents EXCEPT ![t] = intent]
               /\ setOut' = [setOut EXCEPT ![t] = intent]
        /\ histories' = [histories EXCEPT ![t] = @ \cup {s}]
        /\ G!To(t, G!GitHub(s))
  BY DEF G!Leave
<1>3. PICK issued \in G!State : states' = [states EXCEPT ![s] = issued]
  <2>1. tabs[t].intent.org \in Orgs \cup {Nothing}
    BY <1>1, IntentOrgs
  <2> DEFINE issued == IF tabs[t].intent.kind = "install"
                       THEN [purpose |-> "INSTALL", org |-> tabs[t].intent.org, live |-> TRUE, spent |-> 0]
                       ELSE [purpose |-> "AUTHORIZE", org |-> Nothing, live |-> TRUE, spent |-> 0]
  <2>2. issued \in G!State
    BY <2>1 DEF G!State
  <2>3. states' = [states EXCEPT ![s] = issued]
    BY <1>2
  <2> QED BY <2>2, <2>3
<1>4. G!GitHub(s) \in G!Place /\ G!GitHub(s).at # "waiting"
  BY Places DEF G!GitHub
<1>5. G!TypeOK'
  <2>1. tabs' \in [Tabs -> G!Place] /\ states' \in [States -> G!State \cup {Nothing}]
    BY <1>2, <1>3, <1>4 DEF G!To, G!TypeOK
  <2>2. intents' \in [Tabs -> G!Intent \cup {Nothing}] /\ setOut' \in [Tabs -> G!Intent \cup {Nothing}]
    BY <1>1, <1>2 DEF G!TypeOK
  <2>3. histories' \in [Tabs -> SUBSET States]
    BY <1>2 DEF G!TypeOK
  <2>4. session' \in BOOLEAN
    <3>1. session' = session
      BY DEF G!Leave
    <3> QED BY <3>1 DEF G!TypeOK
  <2>5. links' \subseteq G!Link /\ setbacks' \in Nat
    BY DEF G!Leave, G!TypeOK
  <2> QED BY <2>1, <2>2, <2>3, <2>4, <2>5 DEF G!TypeOK
<1>6. \A r \in States : Consumed(r) => Consumed(r)' /\ states'[r].org = states[r].org
  BY <1>2, <1>3 DEF Consumed, G!Issued, G!TypeOK
<1>7. \A u \in Tabs : intents'[u] # Nothing => setOut'[u] = intents'[u]
  BY <1>2 DEF SetOutInv, G!TypeOK
<1>8. UNCHANGED links /\ tabs' = [tabs EXCEPT ![t] = G!GitHub(s)]
  BY <1>2 DEF G!Leave, G!To
<1> QED BY <1>4, <1>5, <1>6, <1>7, <1>8, NotWaiting

LEMMA ExpireKeeps ==
    ASSUME G!HandoffConstants, HandoffInv, G!Expire
    PROVE  HandoffInv'
<1> USE DEF HandoffInv
<1>1. UNCHANGED <<tabs, histories, setOut, links>>
  BY DEF G!Expire
<1>2. \A s \in States :
        /\ states'[s] \in G!State \cup {Nothing}
        /\ states[s] # Nothing =>
             states'[s] # Nothing /\ states'[s].org = states[s].org /\ states'[s].spent = states[s].spent
  <2>1. CASE UNCHANGED states
    BY <2>1 DEF G!Issued, G!TypeOK
  <2>2. CASE \E s \in States : G!Issued(s) /\ states' = [states EXCEPT ![s].live = FALSE]
    <3>1. PICK s \in States : G!Issued(s) /\ states' = [states EXCEPT ![s].live = FALSE]
      BY <2>2
    <3>2. states[s] \in G!State
      BY <3>1 DEF G!TypeOK, G!Issued
    <3>3. /\ states'[s] = [states[s] EXCEPT !.live = FALSE] /\ states'[s] \in G!State
          /\ \A r \in States : r # s => states'[r] = states[r]
      BY <3>1, <3>2 DEF G!TypeOK, G!State
    <3>4. states'[s].org = states[s].org /\ states'[s].spent = states[s].spent /\ states'[s] # Nothing
      BY <3>2, <3>3 DEF G!State, G!HandoffConstants
    <3> QED BY <3>1, <3>3, <3>4 DEF G!Issued, G!TypeOK
  <2> QED BY <2>1, <2>2 DEF G!Expire
<1>3. \A t \in Tabs : intents'[t] \in {intents[t], Nothing}
  BY DEF G!Expire, G!TypeOK
<1>4. G!TypeOK'
  <2>1. states' \in [States -> G!State \cup {Nothing}]
    <3>1. CASE UNCHANGED states
      BY <3>1 DEF G!TypeOK
    <3>2. CASE \E s \in States : G!Issued(s) /\ states' = [states EXCEPT ![s].live = FALSE]
      <4>1. PICK s \in States : G!Issued(s) /\ states' = [states EXCEPT ![s].live = FALSE]
        BY <3>2
      <4>2. [states[s] EXCEPT !.live = FALSE] \in G!State
        BY <4>1 DEF G!TypeOK, G!Issued, G!State
      <4> QED BY <4>1, <4>2 DEF G!TypeOK
    <3> QED BY <3>1, <3>2 DEF G!Expire
  <2>2. intents' \in [Tabs -> G!Intent \cup {Nothing}]
    BY DEF G!Expire, G!TypeOK
  <2>3. session' \in BOOLEAN /\ setbacks' \in Nat
    <3>1. session' = session \/ session' = FALSE
      BY DEF G!Expire
    <3>2. session' \in BOOLEAN
      BY <3>1, Zenon DEF G!TypeOK
    <3> QED BY <3>2 DEF G!Expire, G!Setback, G!TypeOK
  <2> QED BY <1>1, <2>1, <2>2, <2>3 DEF G!TypeOK
<1>5. SetOutInv'
  BY <1>1, <1>3 DEF SetOutInv, Waits
<1>6. GrantInv'
  <2>1. \A s \in States : Consumed(s) => Consumed(s)' /\ states'[s].org = states[s].org
    <3>1. SUFFICES ASSUME NEW s \in States, Consumed(s)
                   PROVE  Consumed(s)' /\ states'[s].org = states[s].org
      OBVIOUS
    <3>2. states'[s] # Nothing /\ states'[s].org = states[s].org /\ states'[s].spent = states[s].spent
      BY <1>2, <3>1 DEF Consumed, G!Issued
    <3> QED BY <3>1, <3>2 DEF Consumed, G!Issued
  <2>2. \A t \in Tabs : Granted(t)' <=> Granted(t)
    BY <1>1 DEF Granted, Waits
  <2> QED BY <1>1, <2>1, <2>2 DEF GrantInv, Consumed
<1> QED BY <1>4, <1>5, <1>6

\* What GitHub sends back is settled against the intent, which is what the tab set out for, or
\* not at all.
LEMMA ReturnKeeps ==
    ASSUME G!HandoffConstants, HandoffInv, NEW t \in Tabs, G!Return(t)
    PROVE  HandoffInv'
<1> USE DEF HandoffInv
<1>1. /\ UNCHANGED <<histories, states, session, links, setbacks>>
      /\ intents' = [intents EXCEPT ![t] = Nothing] /\ setOut' = [setOut EXCEPT ![t] = Nothing]
  BY DEF G!Return, G!Cleared
<1>2. /\ \A u \in Tabs : intents'[u] # Nothing => setOut'[u] = intents'[u]
      /\ intents' \in [Tabs -> G!Intent \cup {Nothing}] /\ setOut' \in [Tabs -> G!Intent \cup {Nothing}]
  BY <1>1 DEF SetOutInv, G!TypeOK
<1>3. \A s \in States : Consumed(s) => Consumed(s)' /\ states'[s].org = states[s].org
  BY <1>1 DEF Consumed, G!Issued
<1>4. CASE G!To(t, G!App)
  <2>1. G!App \in G!Place /\ G!App.at # "waiting"
    BY Places DEF G!App
  <2>2. G!TypeOK'
    BY <1>1, <1>2, <1>4, <2>1 DEF G!To, G!TypeOK
  <2> QED BY <1>1, <1>2, <1>3, <1>4, <2>1, <2>2, NotWaiting DEF G!To
<1>5. ASSUME NEW callback \in G!Callbacks(tabs[t].state), G!Settles(callback, intents[t]),
             G!To(t, G!Waiting(t, callback, intents[t]))
      PROVE  HandoffInv'
  <2>1. tabs[t].state \in States \cup {Nothing}
    BY AtPlaces DEF G!Return
  <2>2. /\ callback \in G!Callback
        /\ callback.kind = "freshInstall" => callback.state \in States /\ callback.installation \in Installations
        /\ callback.kind = "installWithoutAuthorization" => callback.installation \in Installations
    BY <2>1, CallbackKinds
  <2>3. intents[t] # Nothing /\ intents[t] \in G!Intent /\ setOut[t] = intents[t]
        /\ (callback.kind # "authorization" => intents[t].org # Nothing)
    BY <1>5 DEF G!Settles, G!TypeOK, SetOutInv
  <2> DEFINE place == G!Waiting(t, callback, intents[t])
  <2>4. /\ place \in G!Place /\ place.at = "waiting" /\ place.callback = callback
        /\ place.intent = intents[t] /\ place.setOut = intents[t]
        /\ callback.kind # "installWithoutAuthorization" => place.step = "complete"
    BY <2>2, <2>3 DEF G!Waiting, G!Place
  <2> HIDE DEF place
  <2>5. tabs'[t] = place /\ (\A u \in Tabs : u # t => tabs'[u] = tabs[u]) /\ tabs' \in [Tabs -> G!Place]
    BY <1>5, <2>4 DEF G!To, G!TypeOK, place
  <2>6. G!TypeOK'
    BY <1>1, <1>2, <2>5 DEF G!TypeOK
  <2>7. SetOutInv'
    <3>1. callback.kind \in {"authorization", "freshInstall", "installWithoutAuthorization"}
      BY <2>2 DEF G!Callback
    <3> QED BY <1>2, <2>2, <2>3, <2>4, <2>5, <3>1 DEF SetOutInv, Waits
  <2>8. \A u \in Tabs : Granted(u)' => u # t /\ Granted(u) /\ tabs'[u] = tabs[u]
    BY <2>4, <2>5 DEF Granted, Waits
  <2>9. \A u \in Tabs : Granted(u)' =>
          Consumed(tabs[u].callback.state)' /\ states'[tabs[u].callback.state].org = tabs[u].intent.org
    BY <1>3, <2>8 DEF GrantInv, Consumed
  <2>10. GrantInv'
    BY <1>1, <1>3, <2>8, <2>9 DEF GrantInv, Consumed
  <2> QED BY <2>6, <2>7, <2>10
<1> QED BY <1>4, <1>5 DEF G!Return

\* The state a grant comes with is consumed for the first time, so no other tab has it and
\* nothing is linked under it.
LEMMA CompleteKeeps ==
    ASSUME G!HandoffConstants, HandoffInv, NEW t \in Tabs, G!Complete(t)
    PROVE  HandoffInv'
<1> USE DEF HandoffInv
<1>6. PICK s \in States : s = tabs[t].callback.state /\ G!Issued(s)
  BY DEF G!Complete, G!Accepted
<1>1. /\ Waits(t) /\ tabs[t].step = "complete" /\ G!Accepted(t)
      /\ UNCHANGED <<intents, histories, setOut, links>>
      /\ states' = [states EXCEPT ![s].spent = @ + 1]
  BY <1>6 DEF G!Complete, G!At, Waits
<1>2. /\ tabs[t].callback \in G!Callback /\ tabs[t].intent \in G!Intent
      /\ tabs[t] \in [at : {"waiting"}, callback : G!Callback, intent : G!Intent,
                       setOut : G!Intent \cup {Nothing}, step : {"complete", "link", "linked"}]
  BY <1>1, AtPlaces DEF Waits
<1>3. states[s].spent = 0
  BY <1>1, <1>6 DEF G!Accepted, G!Unspent
<1>4. /\ \A r \in States : r # s => states'[r] = states[r]
      /\ states'[s] = [states[s] EXCEPT !.spent = 1]
  BY <1>1, <1>3 DEF G!TypeOK
<1>5. /\ states'[s] \in G!State /\ states'[s] # Nothing /\ states'[s].spent # 0
      /\ states'[s].org = states[s].org
  <2>1. states[s] \in G!State
    BY <1>6 DEF G!TypeOK, G!Issued
  <2>2. [states[s] EXCEPT !.spent = 1] \in G!State
    BY <2>1 DEF G!State
  <2> QED BY <1>4, <2>1, <2>2 DEF G!State, G!HandoffConstants
<1>7. /\ states' \in [States -> G!State \cup {Nothing}]
      /\ \A r \in States : Consumed(r) => Consumed(r)' /\ states'[r].org = states[r].org
      /\ Consumed(s)' /\ states'[s].org = states[s].org
  BY <1>1, <1>4, <1>5, <1>6 DEF Consumed, G!Issued, G!TypeOK
<1>8. \/ session' = TRUE /\ (IF G!Wanted(t) = Nothing THEN G!To(t, G!App) ELSE G!Advance(t, "link")) /\ UNCHANGED setbacks
      \/ UNCHANGED session /\ G!To(t, G!Stopped(tabs[t].intent)) /\ G!Setback
  BY DEF G!Complete
<1>9. session' \in BOOLEAN /\ setbacks' \in Nat
  <2>1. session' = session \/ session' = TRUE
    BY <1>8
  <2>2. session' \in BOOLEAN
    BY <2>1, Zenon DEF G!TypeOK
  <2> QED BY <1>8, <2>2 DEF G!Setback, G!TypeOK
<1>10. \A u \in Tabs : intents'[u] # Nothing => setOut'[u] = intents'[u]
  BY <1>1 DEF SetOutInv
<1>11. CASE G!To(t, G!App) \/ G!To(t, G!Stopped(tabs[t].intent))
  <2>1. PICK place \in G!Place : tabs' = [tabs EXCEPT ![t] = place] /\ place.at # "waiting"
    <3>1. G!App.at # "waiting" /\ G!Stopped(tabs[t].intent).at # "waiting"
      BY DEF G!App, G!Stopped
    <3> QED BY <1>2, <1>11, <3>1, Places DEF G!To
  <2>2. G!TypeOK'
    BY <1>1, <1>7, <1>9, <2>1 DEF G!TypeOK
  <2> QED BY <1>1, <1>7, <1>10, <2>1, <2>2, NotWaiting
<1>12. CASE G!Advance(t, "link") /\ G!Wanted(t) # Nothing
  <2>1. /\ tabs'[t] = [tabs[t] EXCEPT !.step = "link"]
        /\ \A u \in Tabs : u # t => tabs'[u] = tabs[u]
        /\ tabs' = [tabs EXCEPT ![t] = tabs'[t]]
    BY <1>12 DEF G!Advance, G!TypeOK
  <2>2. /\ tabs'[t] \in [at : {"waiting"}, callback : G!Callback, intent : G!Intent,
                          setOut : G!Intent \cup {Nothing}, step : {"complete", "link", "linked"}]
        /\ tabs'[t].at = "waiting" /\ tabs'[t].callback = tabs[t].callback /\ tabs'[t].step = "link"
        /\ tabs'[t].intent = tabs[t].intent /\ tabs'[t].setOut = tabs[t].setOut
    BY <1>2, <2>1
  <2>3. G!TypeOK'
    <3>1. tabs'[t] \in G!Place
      BY <2>2 DEF G!Place
    <3>2. tabs' \in [Tabs -> G!Place]
      BY <2>1, <3>1 DEF G!TypeOK
    <3> QED BY <1>1, <1>7, <1>9, <3>2 DEF G!TypeOK
  <2>4. SetOutInv'
    <3>1. tabs[t].callback.kind = "authorization" => tabs[t].intent.installation # Nothing
      BY <1>12 DEF G!Wanted
    <3> QED BY <1>1, <2>1, <2>2, <3>1 DEF SetOutInv, Waits
  <2>5. /\ \A u \in Tabs : u # t => (Granted(u)' <=> Granted(u)) /\ tabs'[u] = tabs[u]
        /\ Granted(t)' => tabs[t].callback.kind = "freshInstall"
    BY <2>1, <2>2 DEF Granted, Waits
  <2>6. /\ \A u \in Tabs : Granted(u) => tabs[u].callback.state # s
        /\ \A made \in links : made.state # s
    BY <1>3 DEF GrantInv, Consumed, G!HandoffConstants
  <2>7. \A u \in Tabs : Granted(u)' =>
          Consumed(tabs[u].callback.state)' /\ states'[tabs'[u].callback.state].org = tabs'[u].intent.org
    <3>1. Granted(t)' => Consumed(tabs[t].callback.state)' /\ states'[tabs'[t].callback.state].org = tabs'[t].intent.org
      BY <1>1, <1>6, <1>7, <2>2, <2>5 DEF G!Accepted, G!Matches
    <3>2. \A u \in Tabs : u # t /\ Granted(u)' =>
            Consumed(tabs[u].callback.state)' /\ states'[tabs'[u].callback.state].org = tabs'[u].intent.org
      BY <1>7, <2>5 DEF GrantInv, Consumed
    <3> QED BY <3>1, <3>2
  <2>8. GrantInv'
    <3>1. \A u, v \in Tabs : Granted(u)' /\ Granted(v)' /\ tabs'[u].callback.state = tabs'[v].callback.state => u = v
      <4>1. \A u \in Tabs : u # t /\ Granted(u)' => tabs'[u].callback.state # s
        BY <2>5, <2>6
      <4>2. tabs'[t].callback.state = s
        BY <1>6, <2>2
      <4> QED BY <2>5, <4>1, <4>2 DEF GrantInv
    <3>2. \A made \in links : made.state # Nothing =>
            Consumed(made.state)' /\ states'[made.state].org = made.org
      BY <1>7 DEF GrantInv, Consumed
    <3>3. \A made \in links, u \in Tabs :
            Granted(u)' /\ made.state = tabs'[u].callback.state => tabs'[u].step = "linked"
      <4>1. tabs'[t].callback.state = s
        BY <1>6, <2>2
      <4> QED BY <2>5, <2>6, <4>1 DEF GrantInv
    <3> QED BY <1>1, <2>7, <3>1, <3>2, <3>3 DEF GrantInv
  <2> QED BY <2>3, <2>4, <2>8
<1> QED BY <1>8, <1>11, <1>12

\* What is linked under a grant's state is linked once, and to the org the state was issued for.
LEMMA LinkKeeps ==
    ASSUME G!HandoffConstants, HandoffInv, NEW t \in Tabs, G!LinkInstallation(t)
    PROVE  HandoffInv'
<1> USE DEF HandoffInv
<1>1. /\ Waits(t) /\ tabs[t].step = "link" /\ G!Advance(t, "linked")
      /\ UNCHANGED <<intents, histories, setOut, states, session, setbacks>>
  BY DEF G!LinkInstallation, G!At, Waits
<1>2. /\ tabs[t].callback \in G!Callback /\ tabs[t].intent \in G!Intent
      /\ tabs[t] \in [at : {"waiting"}, callback : G!Callback, intent : G!Intent,
                       setOut : G!Intent \cup {Nothing}, step : {"complete", "link", "linked"}]
  BY <1>1, AtPlaces DEF Waits
<1>3. PICK new : /\ links' = links \cup {new}
                 /\ new = [org |-> tabs[t].intent.org, installation |-> G!Wanted(t),
                           state |-> IF tabs[t].callback.kind = "freshInstall"
                                     THEN tabs[t].callback.state ELSE Nothing]
  BY DEF G!LinkInstallation
<1>4. /\ tabs'[t] = [tabs[t] EXCEPT !.step = "linked"]
      /\ \A u \in Tabs : u # t => tabs'[u] = tabs[u]
      /\ tabs' = [tabs EXCEPT ![t] = tabs'[t]]
  BY <1>1 DEF G!Advance, G!TypeOK
<1>5. /\ tabs'[t] \in [at : {"waiting"}, callback : G!Callback, intent : G!Intent,
                        setOut : G!Intent \cup {Nothing}, step : {"complete", "link", "linked"}]
      /\ tabs'[t].at = "waiting" /\ tabs'[t].callback = tabs[t].callback /\ tabs'[t].step = "linked"
      /\ tabs'[t].intent = tabs[t].intent /\ tabs'[t].setOut = tabs[t].setOut
  BY <1>2, <1>4
<1>6. new \in G!Link
  <2>1. CASE tabs[t].callback.kind = "authorization"
    <3>1. tabs[t].intent.installation # Nothing
      BY <1>1, <2>1 DEF SetOutInv
    <3>2. tabs[t].intent \in {G!Pending(org, installation) : org \in Orgs, installation \in Installations}
      BY <1>2, <3>1 DEF G!Intent, G!InstallFor, G!Authorize
    <3>3. tabs[t].intent.org \in Orgs /\ tabs[t].intent.installation \in Installations
      BY <3>2 DEF G!Pending
    <3> QED BY <1>3, <2>1, <3>3 DEF G!Link, G!Wanted
  <2>2. CASE tabs[t].callback.kind # "authorization"
    <3>1. tabs[t].intent.org # Nothing /\ tabs[t].callback.installation \in Installations
      BY <1>1, <2>2 DEF SetOutInv
    <3>2. tabs[t].intent.org \in Orgs
      BY <1>2, <3>1, IntentOrgs
    <3>3. tabs[t].callback.kind = "freshInstall" => tabs[t].callback.state \in States
      BY <1>1 DEF SetOutInv
    <3> QED BY <1>3, <2>2, <3>1, <3>2, <3>3 DEF G!Link, G!Wanted
  <2> QED BY <2>1, <2>2
<1>7. G!TypeOK'
  <2>1. tabs' \in [Tabs -> G!Place]
    <3>1. tabs'[t] \in G!Place
      BY <1>5 DEF G!Place
    <3> QED BY <1>4, <3>1 DEF G!TypeOK
  <2>2. session' \in BOOLEAN
    <3>1. session' = session
      BY <1>1
    <3> QED BY <3>1 DEF G!TypeOK
  <2> QED BY <1>1, <1>3, <1>6, <2>1, <2>2 DEF G!TypeOK
<1>8. SetOutInv'
  <2>1. \A u \in Tabs : intents'[u] # Nothing => setOut'[u] = intents'[u]
    BY <1>1 DEF SetOutInv
  <2> QED BY <1>1, <1>4, <1>5, <2>1 DEF SetOutInv, Waits
<1>9. GrantInv'
  <2>1. /\ \A u \in Tabs : Granted(u)' <=> Granted(u)
        /\ \A u \in Tabs : tabs'[u].callback = tabs[u].callback /\ tabs'[u].intent = tabs[u].intent
    BY <1>1, <1>4, <1>5 DEF Granted, Waits
  <2>2. new.state # Nothing => Granted(t) /\ new.state = tabs[t].callback.state /\ new.org = tabs[t].intent.org
    BY <1>1, <1>3 DEF Granted
  <2>3. \A r \in States : Consumed(r)' <=> Consumed(r)
    BY <1>1 DEF Consumed, G!Issued
  <2>4. \A u \in Tabs : Granted(u)' =>
          Consumed(tabs[u].callback.state)' /\ states'[tabs'[u].callback.state].org = tabs'[u].intent.org
    BY <1>1, <2>1 DEF GrantInv, Consumed, G!Issued
  <2>5. \A made \in links' : made.state # Nothing =>
          Consumed(made.state)' /\ states'[made.state].org = made.org
    <3>1. new.state # Nothing => Consumed(new.state)' /\ states'[new.state].org = new.org
      BY <1>1, <2>2 DEF GrantInv, Consumed, G!Issued
    <3>2. \A made \in links : made.state # Nothing =>
            Consumed(made.state)' /\ states'[made.state].org = made.org
      BY <1>1 DEF GrantInv, Consumed, G!Issued
    <3> QED BY <1>3, <3>1, <3>2
  <2>6. \A made \in links', u \in Tabs :
          Granted(u)' /\ made.state = tabs'[u].callback.state => tabs'[u].step = "linked"
    <3>1. \A u \in Tabs : Granted(u)' /\ new.state = tabs'[u].callback.state => u = t
      <4>1. \A u \in Tabs : Granted(u) => tabs[u].callback.state # Nothing
        BY DEF GrantInv, Consumed, G!HandoffConstants
      <4> QED BY <2>1, <2>2, <4>1 DEF GrantInv
    <3>2. \A made \in links, u \in Tabs :
            Granted(u)' /\ made.state = tabs'[u].callback.state => tabs'[u].step = "linked"
      BY <1>4, <1>5, <2>1 DEF GrantInv
    <3> QED BY <1>3, <1>5, <3>1, <3>2
  <2>7. \A made, other \in links' : made.state # Nothing /\ other.state = made.state => other = made
    <3>1. new.state # Nothing => \A made \in links : made.state # new.state
      BY <1>1, <2>2 DEF GrantInv
    <3> QED BY <1>3, <3>1 DEF GrantInv
  <2>8. \A u, v \in Tabs : Granted(u)' /\ Granted(v)' /\ tabs'[u].callback.state = tabs'[v].callback.state => u = v
    BY <2>1 DEF GrantInv
  <2> QED BY <2>4, <2>5, <2>6, <2>7, <2>8 DEF GrantInv
<1> QED BY <1>7, <1>8, <1>9

LEMMA HandoffNext ==
    ASSUME G!HandoffConstants, HandoffInv, [G!Next]_(G!vars)
    PROVE  HandoffInv'
<1>1. CASE G!Expire
  BY <1>1, ExpireKeeps
<1>2. ASSUME NEW t \in Tabs,
             \/ G!Start(t) \/ G!Retry(t) \/ G!StartFails(t) \/ G!GoBack(t) \/ G!GoForward(t) \/ G!Configure(t)
             \/ G!Reject(t) \/ G!AuthorizationRequired(t) \/ G!Installed(t) \/ G!Fail(t)
      PROVE  HandoffInv'
  BY <1>2, MovesKeep
<1>3. ASSUME NEW t \in Tabs, G!Leave(t) PROVE HandoffInv'
  BY <1>3, LeaveKeeps
<1>4. ASSUME NEW t \in Tabs, G!Return(t) PROVE HandoffInv'
  BY <1>4, ReturnKeeps
<1>5. ASSUME NEW t \in Tabs, G!Complete(t) PROVE HandoffInv'
  BY <1>5, CompleteKeeps
<1>6. ASSUME NEW t \in Tabs, G!LinkInstallation(t) PROVE HandoffInv'
  BY <1>6, LinkKeeps
<1>7. CASE UNCHANGED G!vars
  BY <1>7 DEF G!vars, HandoffInv, G!TypeOK, SetOutInv, GrantInv, Granted, Waits, Consumed, G!Issued
<1> QED BY <1>1, <1>2, <1>3, <1>4, <1>5, <1>6, <1>7 DEF G!Next

LEMMA HandoffInit ==
    ASSUME G!HandoffConstants, G!Init
    PROVE  HandoffInv
<1>1. \A t \in Tabs : tabs[t] = G!App /\ ~Waits(t) /\ ~Granted(t)
  BY DEF G!Init, G!App, Waits, Granted
<1>2. G!TypeOK
  BY Places DEF G!Init, G!TypeOK
<1>3. SetOutInv
  BY <1>1 DEF G!Init, SetOutInv
<1>4. GrantInv
  BY <1>1 DEF G!Init, GrantInv
<1> QED BY <1>2, <1>3, <1>4 DEF HandoffInv

LEMMA HandoffHolds ==
    ASSUME G!HandoffConstants
    PROVE  G!Spec => []HandoffInv
<1>1. G!Init => HandoffInv
  BY HandoffInit
<1>2. HandoffInv /\ [G!Next]_(G!vars) => HandoffInv'
  BY HandoffNext
<1> QED BY <1>1, <1>2, PTL DEF G!Spec

\* A fresh install stays with the org its state was issued for, and its state links nothing else:
\* the service consumes a state once, and the tab that had it consumed is the only one that links
\* under it.
THEOREM GrantsStay ==
    ASSUME G!HandoffConstants
    PROVE  G!Spec => []G!GrantsStayWithTheirOrg
<1>1. HandoffInv => G!GrantsStayWithTheirOrg
  BY DEF HandoffInv, GrantInv, G!GrantsStayWithTheirOrg
<1> QED BY <1>1, HandoffHolds, PTL

\* An installation is linked only for a tab that had set out for its org: the callback page
\* settles what GitHub brings back against the intent of the tab's last departure, or not at all.
THEOREM LinksWhatWasSetOut ==
    ASSUME G!HandoffConstants
    PROVE  G!Spec => G!LinksWhatItSetOutFor
<1>1. ASSUME HandoffInv, NEW t \in Tabs, G!LinkInstallation(t)
      PROVE  /\ tabs[t].setOut # Nothing
             /\ tabs[t].setOut.org = tabs[t].intent.org
             /\ tabs[t].callback.kind = "authorization" => tabs[t].setOut.installation = G!Wanted(t)
  <2>1. Waits(t)
    BY <1>1 DEF G!LinkInstallation, G!At, Waits
  <2>2. tabs[t].setOut = tabs[t].intent /\ tabs[t].intent \in G!Intent
    BY <1>1, <2>1, AtPlaces DEF HandoffInv, SetOutInv, Waits
  <2> QED BY <2>2 DEF G!Wanted, G!HandoffConstants
<1>2. HandoffInv /\ [G!Next]_(G!vars) =>
        [\A t \in Tabs :
           G!LinkInstallation(t) =>
               /\ tabs[t].setOut # Nothing
               /\ tabs[t].setOut.org = tabs[t].intent.org
               /\ tabs[t].callback.kind = "authorization" => tabs[t].setOut.installation = G!Wanted(t)]_(G!vars)
  BY <1>1
<1> QED BY <1>2, HandoffHolds, PTL DEF G!Spec, G!LinksWhatItSetOutFor

-----------------------------------------------------------------------------
(* The bell and the notifications alone.                                     *)

\* What single marks and marking everything are about to have read.
Underway(c) == B!Marking(c) /\ marks[c].phase = "sent"
OnTheWay == UNION {marks[c].target : c \in {d \in Marks : Underway(d)}}
ToRead == B!Unread \ OnTheWay

One(c) == B!Marking(c) /\ ~marks[c].all

\* No read is under way beside a mark, and no mark beside marking everything.
Alone ==
    /\ (\E c \in Marks : B!Marking(c)) => list.fetch = {} /\ unreadCount.fetch = {}
    /\ \A c \in Marks : B!MarkingAll(c) =>
         marks[c].phase # "missing" /\ \A d \in Marks : B!Marking(d) => d = c

\* What is cached, and what comes, knows of no change that has not happened yet.
NewsFit ==
    /\ list.data.news <= news /\ unreadCount.data.news <= news
    /\ \A f \in list.fetch : f.answered => f.data.news <= news
    /\ \A f \in unreadCount.fetch : f.answered => f.data.news <= news

\* A single mark is of one notification, and of a list and a number of the same time. If they
\* are of now, it is of one that the server has as unread, and no two are of the same.
OnesFit ==
    \A c \in Marks : One(c) =>
        /\ \E n \in Notes : marks[c].target = {n}
        /\ list.data.news = unreadCount.data.news
        /\ list.data.news = news =>
             /\ marks[c].phase # "missing"
             /\ Underway(c) =>
                  /\ marks[c].target \subseteq B!Unread \cap list.data.rows
                  /\ \A d \in Marks : Underway(d) /\ d # c => marks[d].target \cap marks[c].target = {}

\* A list, or a number, that is of now is the server's once the marks have got there.
ListFits ==
    /\ list.data.news = news => list.data.unread = ToRead /\ ToRead \subseteq list.data.rows
    /\ \A f \in list.fetch : f.answered /\ f.data.news = news =>
         f.data.unread = B!Unread /\ B!Unread \subseteq f.data.rows

NumberFits ==
    /\ unreadCount.data.news = news => unreadCount.data.value = Cardinality(ToRead)
    /\ \A f \in unreadCount.fetch : f.answered /\ f.data.news = news =>
         f.data.value = Cardinality(B!Unread)

MarksFit == Alone /\ NewsFit /\ OnesFit /\ ListFits /\ NumberFits
BellInv == B!TypeOK /\ (~muddled => MarksFit)

-----------------------------------------------------------------------------
\* What each call of the query client makes of a well-formed entry, whatever is cached in it.
LEMMA BellCalls ==
    ASSUME NEW Data, NEW e \in B!Entries(Data), NEW d \in Data
    PROVE  /\ e.data \in Data /\ e.flagged \in BOOLEAN
           /\ B!Put(e, d) \in B!Entries(Data) /\ B!Put(e, d).data = d /\ B!Put(e, d).fetch = e.fetch
           /\ B!Cancelled(e) \in B!Entries(Data) /\ B!Cancelled(e).data = e.data /\ B!Cancelled(e).fetch = {}
           /\ B!Invalidated(e) \in B!Entries(Data) /\ B!Invalidated(e).data = e.data
           /\ B!Invalidated(e).fetch = {B!Unanswered}
           /\ B!Asked(e) \in B!Entries(Data) /\ B!Asked(e).data = e.data /\ B!Asked(e).fetch = {B!Unanswered}
           /\ B!Failed(e) \in B!Entries(Data) /\ B!Failed(e).data = e.data /\ B!Failed(e).fetch = {}
           /\ B!Answered(e, d) \in B!Entries(Data) /\ B!Answered(e, d).data = e.data
           /\ B!Answered(e, d).fetch = {[answered |-> TRUE, data |-> d]}
<1>1. /\ e.data \in Data /\ e.flagged \in BOOLEAN
      /\ e.fetch \in {{}, {B!Unanswered}} \cup {{[answered |-> TRUE, data |-> x]} : x \in Data}
      /\ e = [data |-> e.data, flagged |-> e.flagged, fetch |-> e.fetch]
  BY DEF B!Entries
<1>2. {[answered |-> TRUE, data |-> d]} \in {{[answered |-> TRUE, data |-> x]} : x \in Data}
  OBVIOUS
<1>3. B!Put(e, d) \in B!Entries(Data) /\ B!Put(e, d).data = d /\ B!Put(e, d).fetch = e.fetch
  BY <1>1 DEF B!Entries, B!Put
<1>4. B!Cancelled(e) \in B!Entries(Data) /\ B!Cancelled(e).data = e.data /\ B!Cancelled(e).fetch = {}
  BY <1>1 DEF B!Entries, B!Cancelled
<1>5. B!Invalidated(e) \in B!Entries(Data) /\ B!Invalidated(e).data = e.data /\ B!Invalidated(e).fetch = {B!Unanswered}
  BY <1>1 DEF B!Entries, B!Invalidated
<1>6. B!Asked(e) \in B!Entries(Data) /\ B!Asked(e).data = e.data /\ B!Asked(e).fetch = {B!Unanswered}
  BY <1>1 DEF B!Entries, B!Asked
<1>7. B!Failed(e) \in B!Entries(Data) /\ B!Failed(e).data = e.data /\ B!Failed(e).fetch = {}
  BY <1>1 DEF B!Entries, B!Failed
<1>8. /\ B!Answered(e, d) \in B!Entries(Data) /\ B!Answered(e, d).data = e.data
      /\ B!Answered(e, d).fetch = {[answered |-> TRUE, data |-> d]}
  BY <1>1, <1>2 DEF B!Entries, B!Answered
<1> QED BY <1>1, <1>3, <1>4, <1>5, <1>6, <1>7, <1>8

\* What a mark makes of what is cached.
LEMMA Replaced ==
    ASSUME NEW Data, NEW e \in B!Entries(Data), NEW d \in Data
    PROVE  /\ B!Put(B!Cancelled(e), d) \in B!Entries(Data)
           /\ B!Put(B!Cancelled(e), d).data = d /\ B!Put(B!Cancelled(e), d).fetch = {}
<1>1. B!Cancelled(e) \in B!Entries(Data) /\ B!Cancelled(e).fetch = {}
  BY BellCalls
<1> QED BY <1>1, BellCalls

\* An answer on its way is what arrives, and it is of nothing that is not under way.
LEMMA BellArrivals ==
    ASSUME NEW Data, NEW e \in B!Entries(Data), B!Answering(e)
    PROVE  \E d \in Data : /\ e.fetch = {[answered |-> TRUE, data |-> d]}
                           /\ B!Arrived(e) = B!Cached(d)
                           /\ B!Cached(d) \in B!Entries(Data) /\ B!Cached(d).data = d /\ B!Cached(d).fetch = {}
<1>1. e.fetch \in {{}, {B!Unanswered}} \cup {{[answered |-> TRUE, data |-> x]} : x \in Data}
  BY DEF B!Entries
<1>2. PICK answer \in e.fetch : answer.answered
  BY DEF B!Answering
<1>3. PICK d \in Data : e.fetch = {[answered |-> TRUE, data |-> d]}
  BY <1>1, <1>2 DEF B!Unanswered
<1>4. (CHOOSE f \in e.fetch : f.answered) = [answered |-> TRUE, data |-> d]
  BY <1>3
<1>5. B!Cached(d) \in B!Entries(Data) /\ B!Cached(d).data = d /\ B!Cached(d).fetch = {}
  BY DEF B!Cached, B!Entries
<1> QED BY <1>3, <1>4, <1>5 DEF B!Arrived

LEMMA BellSizes == \A S : B!Cardinality(S) = Cardinality(S) /\ (B!IsFiniteSet(S) <=> IsFiniteSet(S))
BY DEF B!Cardinality, B!IsFiniteSet, Cardinality, IsFiniteSet

\* What the sets of notifications and their sizes are.
LEMMA UnreadFinite ==
    ASSUME B!BellConstants, B!TypeOK
    PROVE  /\ B!Unread \subseteq B!Existing /\ B!Unread \subseteq Notes /\ B!Existing \subseteq Notes
           /\ B!Shown \in SUBSET Notes /\ B!Unread \subseteq B!Shown
           /\ \A S \in SUBSET Notes : IsFiniteSet(S) /\ Cardinality(S) \in Nat
<1>1. \A S \in SUBSET Notes : IsFiniteSet(S) /\ Cardinality(S) \in Nat
  BY FS_Subset, FS_CardinalityType, BellSizes DEF B!BellConstants
<1> QED BY <1>1 DEF B!Unread, B!Existing, B!Shown

\* A call under way is a well-formed mark, and those of single notifications are no others.
LEMMA MarkFields ==
    ASSUME B!TypeOK, NEW c \in Marks, B!Marking(c)
    PROVE  /\ marks[c] \in B!Mark /\ marks[c].target \in SUBSET Notes /\ marks[c].all \in BOOLEAN
           /\ marks[c].phase \in {"sent", "made", "missing"}
           /\ One(c) \/ B!MarkingAll(c)
  BY DEF B!TypeOK, B!Marking, B!Mark, One, B!MarkingAll

\* How the calls under way change when one begins.
LEMMA Begun ==
    ASSUME B!BellConstants, B!TypeOK, NEW c \in Marks, NEW all \in BOOLEAN, NEW target \in SUBSET Notes,
           NEW kept \in SUBSET [list : B!Pages, count : B!Bell], B!Begin(c, all, target, kept)
    PROVE  /\ ~B!Marking(c)
           /\ marks' \in [Marks -> {NoMark} \cup B!Mark]
           /\ B!Marking(c)' /\ marks'[c].all = all /\ marks'[c].target = target /\ marks'[c].phase = "sent"
           /\ \A d \in Marks \ {c} : marks'[d] = marks[d]
           /\ OnTheWay' = OnTheWay \cup target
<1> DEFINE new == [all |-> all, target |-> target, phase |-> "sent", kept |-> kept]
<1>1. new \in B!Mark /\ new # NoMark
  BY DEF B!BellConstants, B!Mark
<1>2. ~B!Marking(c) /\ marks' = [marks EXCEPT ![c] = new]
  BY DEF B!Begin
<1>3. /\ marks' \in [Marks -> {NoMark} \cup B!Mark] /\ marks'[c] = new
      /\ \A d \in Marks \ {c} : marks'[d] = marks[d]
  BY <1>1, <1>2 DEF B!TypeOK
<1>4. new.all = all /\ new.target = target /\ new.phase = "sent"
  OBVIOUS
<1> HIDE DEF new
<1>5. Underway(c)' /\ ~Underway(c) /\ \A d \in Marks \ {c} : Underway(d)' <=> Underway(d)
  BY <1>1, <1>2, <1>3, <1>4 DEF Underway, B!Marking
<1>6. OnTheWay' = OnTheWay \cup target
  <2>1. ASSUME NEW n PROVE n \in OnTheWay' <=> \E d \in Marks : Underway(d)' /\ n \in marks'[d].target
    BY DEF OnTheWay
  <2>2. ASSUME NEW n PROVE n \in OnTheWay <=> \E d \in Marks : Underway(d) /\ n \in marks[d].target
    BY DEF OnTheWay
  <2>3. ASSUME NEW n PROVE n \in OnTheWay' <=> n \in OnTheWay \cup target
    BY <1>3, <1>4, <1>5, <2>1, <2>2
  <2> QED BY <2>3
<1> QED BY <1>1, <1>2, <1>3, <1>4, <1>6 DEF B!Marking

\* A call that is over takes only its own notifications off those that are on their way.
LEMMA Closed ==
    ASSUME B!TypeOK, NEW c \in Marks, B!Marking(c), B!Close(c)
    PROVE  /\ marks' \in [Marks -> {NoMark} \cup B!Mark]
           /\ ~B!Marking(c)'
           /\ \A d \in Marks \ {c} : marks'[d] = marks[d]
           /\ marks[c].phase # "sent" => OnTheWay' = OnTheWay
           /\ marks[c].phase = "sent" => /\ OnTheWay \subseteq OnTheWay' \cup marks[c].target
                                         /\ OnTheWay' \subseteq OnTheWay
<1>1. /\ marks' \in [Marks -> {NoMark} \cup B!Mark] /\ marks'[c] = NoMark
      /\ \A d \in Marks \ {c} : marks'[d] = marks[d]
  BY DEF B!TypeOK, B!Close
<1>2. ~Underway(c)' /\ \A d \in Marks \ {c} : Underway(d)' <=> Underway(d)
  BY <1>1 DEF Underway, B!Marking
<1>3. Underway(c) <=> marks[c].phase = "sent"
  BY DEF Underway
<1>4. ASSUME NEW n PROVE n \in OnTheWay' <=> \E d \in Marks : Underway(d)' /\ n \in marks'[d].target
  BY DEF OnTheWay
<1>5. ASSUME NEW n PROVE n \in OnTheWay <=> \E d \in Marks : Underway(d) /\ n \in marks[d].target
  BY DEF OnTheWay
<1>6. marks[c].phase # "sent" => OnTheWay' = OnTheWay
  <2>1. ASSUME marks[c].phase # "sent", NEW n PROVE n \in OnTheWay' <=> n \in OnTheWay
    BY <1>1, <1>2, <1>3, <1>4, <1>5, <2>1
  <2> QED BY <2>1
<1>7. OnTheWay \subseteq OnTheWay' \cup marks[c].target /\ OnTheWay' \subseteq OnTheWay
  <2>1. ASSUME NEW n \in OnTheWay PROVE n \in OnTheWay' \cup marks[c].target
    BY <1>1, <1>2, <1>4, <1>5
  <2>2. ASSUME NEW n \in OnTheWay' PROVE n \in OnTheWay
    BY <1>1, <1>2, <1>4, <1>5
  <2> QED BY <2>1, <2>2
<1> QED BY <1>1, <1>6, <1>7 DEF B!Marking

\* What the server has of the notifications when a mark gets to it.
LEMMA HasRead ==
    ASSUME B!TypeOK, NEW target \in SUBSET Notes, B!ReadAtServer(target)
    PROVE  /\ status' \in [Notes -> {"coming", "unread", "read", "gone"}]
           /\ B!Unread' = B!Unread \ target
  BY DEF B!TypeOK, B!ReadAtServer, B!Unread

-----------------------------------------------------------------------------
\* What is under way at the server is not shown, and a change there makes everything of earlier.
LEMMA NewsKeeps ==
    ASSUME BellInv, B!CarryLate \/ B!Elsewhere
    PROVE  BellInv'
<1>1. news' = news + 1 /\ UNCHANGED <<filter, list, unreadCount, marks, muddled>>
  BY DEF B!CarryLate, B!Elsewhere
<1>2. /\ status' \in [Notes -> {"coming", "unread", "read", "gone"}]
      /\ lateMarks' \subseteq SUBSET Notes /\ bellTroubles' \in Nat
  <2>1. CASE B!CarryLate
    BY <2>1, HasRead DEF B!CarryLate, BellInv, B!TypeOK
  <2>2. CASE B!Elsewhere
    BY <2>2 DEF B!Elsewhere, B!Trouble, BellInv, B!TypeOK
  <2> QED BY <2>1, <2>2
<1>3. B!TypeOK'
  BY <1>1, <1>2 DEF BellInv, B!TypeOK
<1>4. ASSUME ~muddled PROVE MarksFit'
  <2>1. Alone' /\ NewsFit /\ B!TypeOK
    BY <1>1, <1>4 DEF BellInv, MarksFit, Alone, B!Marking, B!MarkingAll
  <2>2. /\ list.data.news \in Nat /\ unreadCount.data.news \in Nat /\ news \in Nat
        /\ \A f \in list.fetch : f.answered => f.data.news \in Nat
        /\ \A f \in unreadCount.fetch : f.answered => f.data.news \in Nat
    BY <2>1 DEF B!TypeOK, B!Entries, B!Pages, B!Bell, B!Unanswered
  <2>3. /\ list.data.news < news' /\ unreadCount.data.news < news'
        /\ \A f \in list.fetch : f.answered => f.data.news < news'
        /\ \A f \in unreadCount.fetch : f.answered => f.data.news < news'
    BY <1>1, <2>1, <2>2 DEF NewsFit
  <2>4. NewsFit' /\ ListFits' /\ NumberFits'
    BY <1>1, <2>2, <2>3 DEF NewsFit, ListFits, NumberFits
  <2>5. OnesFit'
    <3>1. list'.data.news # news'
      BY <1>1, <2>2, <2>3
    <3>2. ASSUME NEW c \in Marks, One(c)'
          PROVE  (\E n \in Notes : marks'[c].target = {n}) /\ list'.data.news = unreadCount'.data.news
      BY <1>1, <1>4, <3>2 DEF BellInv, MarksFit, OnesFit, One, B!Marking
    <3> QED BY <3>1, <3>2 DEF OnesFit
  <2> QED BY <2>1, <2>4, <2>5 DEF MarksFit
<1> QED BY <1>1, <1>3, <1>4 DEF BellInv

\* Reads that are asked for, and answered, and fail.
LEMMA ReadsKeep ==
    ASSUME B!BellConstants, BellInv,
           B!PollCount \/ B!ReadList \/ B!AnswerCount \/ B!AnswerList \/ B!ReadFails
    PROVE  BellInv'
<1> USE DEF BellInv
<1>1. /\ UNCHANGED <<filter, status, news, marks, lateMarks>>
      /\ bellTroubles' \in Nat /\ muddled' \in BOOLEAN
      /\ ~muddled' => ~muddled
  <2>1. muddled' = muddled \/ muddled' = (muddled \/ \E c \in Marks : B!Marking(c))
    BY DEF B!PollCount, B!ReadList, B!AnswerCount, B!AnswerList, B!ReadFails
  <2>2. muddled \in BOOLEAN
    BY DEF B!TypeOK
  <2>3. muddled' \in BOOLEAN
    <3>1. CASE muddled' = muddled
      BY <2>2, <3>1
    <3>2. CASE muddled' = (muddled \/ \E c \in Marks : B!Marking(c))
      <4>1. CASE muddled \/ \E c \in Marks : B!Marking(c)
        BY <3>2, <4>1
      <4>2. CASE ~(muddled \/ \E c \in Marks : B!Marking(c))
        BY <3>2, <4>2
      <4> QED BY <4>1, <4>2
    <3> QED BY <2>1, <3>1, <3>2
  <2>5. ~muddled' => ~muddled
    BY <2>1, Zenon
  <2>4. UNCHANGED <<filter, status, news, marks, lateMarks>> /\ bellTroubles' \in Nat
    BY DEF B!PollCount, B!ReadList, B!AnswerCount, B!AnswerList, B!ReadFails, B!Trouble, B!TypeOK
  <2> QED BY <2>3, <2>4, <2>5
<1>2. PICK page \in B!Pages, number \in B!Bell :
        /\ page = [rows |-> B!Shown, unread |-> B!Unread, news |-> news]
        /\ number = [value |-> Cardinality(B!Unread), news |-> news]
  BY UnreadFinite, BellSizes DEF B!Pages, B!Bell, B!TypeOK
<1>3. list \in B!Entries(B!Pages) /\ unreadCount \in B!Entries(B!Bell)
  BY DEF B!TypeOK
<1>4. /\ list' \in B!Entries(B!Pages) /\ list'.data = list.data
      /\ unreadCount' \in B!Entries(B!Bell) /\ unreadCount'.data = unreadCount.data
      /\ \/ list'.fetch = list.fetch \/ list'.fetch = {} \/ list'.fetch = {B!Unanswered}
         \/ list'.fetch = {[answered |-> TRUE, data |-> page]}
      /\ \/ unreadCount'.fetch = unreadCount.fetch \/ unreadCount'.fetch = {} \/ unreadCount'.fetch = {B!Unanswered}
         \/ unreadCount'.fetch = {[answered |-> TRUE, data |-> number]}
  <2>1. /\ B!Asked(list) \in B!Entries(B!Pages) /\ B!Asked(list).data = list.data /\ B!Asked(list).fetch = {B!Unanswered}
        /\ B!Failed(list) \in B!Entries(B!Pages) /\ B!Failed(list).data = list.data /\ B!Failed(list).fetch = {}
        /\ B!Answered(list, page) \in B!Entries(B!Pages) /\ B!Answered(list, page).data = list.data
        /\ B!Answered(list, page).fetch = {[answered |-> TRUE, data |-> page]}
    BY <1>3, BellCalls
  <2>2. /\ B!Asked(unreadCount) \in B!Entries(B!Bell) /\ B!Asked(unreadCount).data = unreadCount.data
        /\ B!Asked(unreadCount).fetch = {B!Unanswered}
        /\ B!Failed(unreadCount) \in B!Entries(B!Bell) /\ B!Failed(unreadCount).data = unreadCount.data
        /\ B!Failed(unreadCount).fetch = {}
        /\ B!Answered(unreadCount, number) \in B!Entries(B!Bell) /\ B!Answered(unreadCount, number).data = unreadCount.data
        /\ B!Answered(unreadCount, number).fetch = {[answered |-> TRUE, data |-> number]}
    BY <1>3, BellCalls
  <2>3. \/ list' = list \/ list' = B!Asked(list) \/ list' = B!Failed(list) \/ list' = B!Answered(list, page)
    BY <1>2 DEF B!PollCount, B!ReadList, B!AnswerCount, B!AnswerList, B!ReadFails
  <2>4. \/ unreadCount' = unreadCount \/ unreadCount' = B!Asked(unreadCount)
        \/ unreadCount' = B!Failed(unreadCount) \/ unreadCount' = B!Answered(unreadCount, number)
    BY <1>2, BellSizes DEF B!PollCount, B!ReadList, B!AnswerCount, B!AnswerList, B!ReadFails
  <2>5. /\ list' \in B!Entries(B!Pages) /\ list'.data = list.data
        /\ \/ list'.fetch = list.fetch \/ list'.fetch = {} \/ list'.fetch = {B!Unanswered}
           \/ list'.fetch = {[answered |-> TRUE, data |-> page]}
    BY <1>3, <2>1, <2>3
  <2>6. /\ unreadCount' \in B!Entries(B!Bell) /\ unreadCount'.data = unreadCount.data
        /\ \/ unreadCount'.fetch = unreadCount.fetch \/ unreadCount'.fetch = {}
           \/ unreadCount'.fetch = {B!Unanswered}
           \/ unreadCount'.fetch = {[answered |-> TRUE, data |-> number]}
    BY <1>3, <2>2, <2>4
  <2> QED BY <2>5, <2>6
<1>5. B!TypeOK'
  BY <1>1, <1>4 DEF B!TypeOK
<1>6. ASSUME ~muddled' PROVE MarksFit'
  <2>1. MarksFit /\ B!TypeOK
    BY <1>1, <1>6
  <2>2. \/ \A c \in Marks : ~B!Marking(c)
        \/ list'.fetch = {} /\ unreadCount'.fetch = {}
    <3>1. CASE B!PollCount \/ B!ReadList
      BY <1>6, <3>1 DEF B!PollCount, B!ReadList
    <3>2. CASE B!AnswerCount \/ B!AnswerList
      BY <2>1, <3>2 DEF B!AnswerCount, B!AnswerList, B!Asking, MarksFit, Alone
    <3>3. CASE B!ReadFails
      BY <1>3, <2>1, <3>3, BellCalls DEF B!ReadFails, B!Idle, MarksFit, Alone
    <3> QED BY <3>1, <3>2, <3>3
  <2>3. Alone'
    BY <1>1, <2>1, <2>2 DEF MarksFit, Alone, B!Marking, B!MarkingAll
  <2>4. /\ page.unread = B!Unread /\ B!Unread \subseteq page.rows /\ page.news = news
        /\ number.value = Cardinality(B!Unread) /\ number.news = news /\ news \in Nat
    BY <1>2, UnreadFinite DEF B!TypeOK
  <2>5. UNCHANGED <<B!Unread, ToRead>>
    BY <1>1 DEF B!Unread, ToRead, OnTheWay, Underway, B!Marking
  <2>6. NewsFit'
    BY <1>1, <1>4, <2>1, <2>4 DEF MarksFit, NewsFit, B!Unanswered
  <2>7. OnesFit'
    BY <1>1, <1>4, <2>1, <2>5 DEF MarksFit, OnesFit, One, Underway, B!Marking
  <2>8. ListFits'
    BY <1>1, <1>4, <2>1, <2>4, <2>5 DEF MarksFit, ListFits, B!Unanswered
  <2>9. NumberFits'
    BY <1>1, <1>4, <2>1, <2>4, <2>5 DEF MarksFit, NumberFits, B!Unanswered
  <2> QED BY <2>3, <2>6, <2>7, <2>8, <2>9 DEF MarksFit
<1> QED BY <1>5, <1>6

\* An answer arrives. No mark is under way then, so what it says of now is all there is to read.
LEMMA ArrivalsKeep ==
    ASSUME B!BellConstants, BellInv, B!ArriveCount \/ B!ArriveList
    PROVE  BellInv'
<1> USE DEF BellInv
<1>1. /\ UNCHANGED <<filter, status, news, marks, lateMarks, muddled, bellTroubles>>
      /\ list \in B!Entries(B!Pages) /\ unreadCount \in B!Entries(B!Bell)
  BY DEF B!ArriveCount, B!ArriveList, B!TypeOK
<1>2. \/ UNCHANGED list
      \/ \E f \in list.fetch : /\ f.answered
                               /\ list' \in B!Entries(B!Pages) /\ list'.data = f.data /\ list'.fetch = {}
  <2>1. CASE B!ArriveCount
    BY <2>1 DEF B!ArriveCount
  <2>2. CASE B!ArriveList
    <3>1. PICK d \in B!Pages : /\ list.fetch = {[answered |-> TRUE, data |-> d]}
                             /\ list' \in B!Entries(B!Pages) /\ list'.data = d /\ list'.fetch = {}
      BY <1>1, <2>2, BellArrivals DEF B!ArriveList
    <3> QED BY <3>1
  <2> QED BY <2>1, <2>2
<1>3. \/ UNCHANGED unreadCount
      \/ \E f \in unreadCount.fetch :
           f.answered /\ unreadCount' \in B!Entries(B!Bell) /\ unreadCount'.data = f.data /\ unreadCount'.fetch = {}
  <2>1. CASE B!ArriveCount
    <3>1. PICK d \in B!Bell : /\ unreadCount.fetch = {[answered |-> TRUE, data |-> d]}
                            /\ unreadCount' \in B!Entries(B!Bell) /\ unreadCount'.data = d /\ unreadCount'.fetch = {}
      BY <1>1, <2>1, BellArrivals DEF B!ArriveCount
    <3> QED BY <3>1
  <2>2. CASE B!ArriveList
    BY <2>2 DEF B!ArriveList
  <2> QED BY <2>1, <2>2
<1>4. B!TypeOK'
  BY <1>1, <1>2, <1>3 DEF B!TypeOK
<1>5. ASSUME ~muddled PROVE MarksFit'
  <2>1. MarksFit
    BY <1>5
  <2>2. \A c \in Marks : ~B!Marking(c)
    <3>1. CASE B!ArriveCount
      BY <2>1, <3>1 DEF B!ArriveCount, B!Answering, MarksFit, Alone
    <3>2. CASE B!ArriveList
      BY <2>1, <3>2 DEF B!ArriveList, B!Answering, MarksFit, Alone
    <3> QED BY <3>1, <3>2
  <2>3. \A c \in Marks : ~B!Marking(c)'
    BY <1>1, <2>2 DEF B!Marking
  <2>4. Alone' /\ OnesFit'
    BY <2>3 DEF Alone, OnesFit, One, B!MarkingAll
  <2>5. ToRead = B!Unread /\ ToRead' = B!Unread' /\ B!Unread' = B!Unread
    BY <1>1, <2>2, <2>3 DEF ToRead, OnTheWay, Underway, B!Unread
  <2>6. NewsFit'
    BY <1>1, <1>2, <1>3, <2>1 DEF MarksFit, NewsFit
  <2>7. ListFits'
    BY <1>1, <1>2, <2>1, <2>5 DEF MarksFit, ListFits
  <2>8. NumberFits'
    BY <1>1, <1>3, <2>1, <2>5 DEF MarksFit, NumberFits
  <2> QED BY <2>4, <2>6, <2>7, <2>8 DEF MarksFit
<1> QED BY <1>1, <1>4, <1>5

-----------------------------------------------------------------------------
\* A mark of one notification.
LEMMA MarkReadKeeps ==
    ASSUME B!BellConstants, BellInv, NEW c \in Marks, B!MarkRead(c)
    PROVE  BellInv'
<1> USE DEF BellInv
<1>1. PICK n \in list.data.unread :
        /\ B!Begin(c, FALSE, {n}, {})
        /\ list' = B!Put(B!Cancelled(list), B!Read(list.data, {n}))
        /\ unreadCount' = B!Put(B!Cancelled(unreadCount), B!Decremented(unreadCount.data))
        /\ muddled' = (muddled \/ list.data.news # unreadCount.data.news \/ \E d \in Marks : B!MarkingAll(d))
  BY DEF B!MarkRead
<1>2. /\ list \in B!Entries(B!Pages) /\ unreadCount \in B!Entries(B!Bell)
      /\ list.data \in B!Pages /\ unreadCount.data \in B!Bell /\ n \in Notes
  <2>1. list \in B!Entries(B!Pages) /\ unreadCount \in B!Entries(B!Bell)
    BY DEF B!TypeOK
  <2>2. list.data \in B!Pages /\ unreadCount.data \in B!Bell
    BY <2>1 DEF B!Entries
  <2> QED BY <1>1, <2>1, <2>2 DEF B!Pages
<1>3. PICK page \in B!Pages, number \in B!Bell :
        /\ page = B!Read(list.data, {n}) /\ number = B!Decremented(unreadCount.data)
        /\ page.rows = list.data.rows /\ page.unread = list.data.unread \ {n} /\ page.news = list.data.news
        /\ number.news = unreadCount.data.news
        /\ number.value = IF unreadCount.data.value = 0 THEN 0 ELSE unreadCount.data.value - 1
  <2>1. /\ B!Read(list.data, {n}) \in B!Pages
        /\ B!Read(list.data, {n}).rows = list.data.rows
        /\ B!Read(list.data, {n}).unread = list.data.unread \ {n}
        /\ B!Read(list.data, {n}).news = list.data.news
    BY <1>2 DEF B!Read, B!Pages
  <2>2. /\ B!Decremented(unreadCount.data) \in B!Bell
        /\ B!Decremented(unreadCount.data).news = unreadCount.data.news
        /\ B!Decremented(unreadCount.data).value =
             IF unreadCount.data.value = 0 THEN 0 ELSE unreadCount.data.value - 1
    BY <1>2 DEF B!Decremented, B!Bell
  <2> QED BY <2>1, <2>2
<1>4. /\ list' \in B!Entries(B!Pages) /\ list'.data = page /\ list'.fetch = {}
      /\ unreadCount' \in B!Entries(B!Bell) /\ unreadCount'.data = number /\ unreadCount'.fetch = {}
  <2>1. list' = B!Put(B!Cancelled(list), page) /\ unreadCount' = B!Put(B!Cancelled(unreadCount), number)
    BY <1>1, <1>3
  <2>2. /\ B!Put(B!Cancelled(list), page) \in B!Entries(B!Pages)
        /\ B!Put(B!Cancelled(list), page).data = page /\ B!Put(B!Cancelled(list), page).fetch = {}
    BY <1>2, Replaced
  <2>3. /\ B!Put(B!Cancelled(unreadCount), number) \in B!Entries(B!Bell)
        /\ B!Put(B!Cancelled(unreadCount), number).data = number /\ B!Put(B!Cancelled(unreadCount), number).fetch = {}
    BY <1>2, Replaced
  <2> QED BY <2>1, <2>2, <2>3
<1>5. /\ UNCHANGED <<filter, status, news, lateMarks, bellTroubles>>
      /\ ~B!Marking(c)
      /\ marks' \in [Marks -> {NoMark} \cup B!Mark]
      /\ B!Marking(c)' /\ marks'[c].all = FALSE /\ marks'[c].target = {n} /\ marks'[c].phase = "sent"
      /\ \A d \in Marks \ {c} : marks'[d] = marks[d]
      /\ OnTheWay' = OnTheWay \cup {n}
  <2>1. FALSE \in BOOLEAN /\ {n} \in SUBSET Notes /\ {} \in SUBSET [list : B!Pages, count : B!Bell]
    BY <1>2
  <2>2. B!Begin(c, FALSE, {n}, {}) /\ B!TypeOK
    BY <1>1
  <2>3. UNCHANGED <<filter, status, news, lateMarks, bellTroubles>>
    BY <2>2 DEF B!Begin
  <2> QED BY <2>1, <2>2, <2>3, Begun
<1>6. muddled' \in BOOLEAN
  <2> DEFINE more == list.data.news # unreadCount.data.news \/ \E d \in Marks : B!MarkingAll(d)
  <2>1. CASE muddled \/ more
    BY <1>1, <2>1
  <2>2. CASE ~(muddled \/ more)
    BY <1>1, <2>2
  <2> QED BY <2>1, <2>2
<1>7. B!TypeOK'
  BY <1>4, <1>5, <1>6 DEF B!TypeOK
<1>8. ASSUME ~muddled' PROVE MarksFit'
  <2>1. ~muddled /\ list.data.news = unreadCount.data.news /\ \A d \in Marks : ~B!MarkingAll(d)
    BY <1>1, <1>8, Zenon
  <2>2. MarksFit /\ list.data.news = news => n \in ToRead /\ n \in list.data.rows
    BY <1>1 DEF MarksFit, ListFits
  <2>3. MarksFit
    BY <2>1
  <2>4. B!Unread' = B!Unread /\ ToRead' = ToRead \ {n}
    BY <1>5 DEF B!Unread, ToRead
  <2>5. Alone'
    BY <1>4, <1>5, <2>1 DEF Alone, B!MarkingAll, B!Marking
  <2>6. NewsFit'
    BY <1>3, <1>4, <1>5, <2>3 DEF MarksFit, NewsFit
  <2>7. OnesFit'
    <3>1. ASSUME NEW d \in Marks, One(d)'
          PROVE  (\E m \in Notes : marks'[d].target = {m}) /\ list'.data.news = unreadCount'.data.news
      BY <1>2, <1>3, <1>4, <1>5, <2>1, <2>3, <3>1 DEF MarksFit, OnesFit, One, B!Marking
    <3>2. ASSUME NEW d \in Marks, One(d)', list'.data.news = news'
          PROVE  marks'[d].phase # "missing"
      BY <1>3, <1>4, <1>5, <2>3, <3>2 DEF MarksFit, OnesFit, One, B!Marking
    <3>3. \A d \in Marks \ {c} : Underway(d)' <=> Underway(d)
      BY <1>5 DEF Underway, B!Marking
    <3>4. list.data.news = news => \A d \in Marks : Underway(d) => n \notin marks[d].target
      BY <2>2, <2>3 DEF ToRead, OnTheWay
    <3>5. \A d \in Marks : Underway(d) => One(d)
      BY <2>1 DEF Underway, One, B!MarkingAll, B!TypeOK, B!Mark
    <3>6. ASSUME NEW d \in Marks, Underway(d)', list'.data.news = news'
          PROVE  /\ marks'[d].target \subseteq B!Unread' \cap list'.data.rows
                 /\ \A o \in Marks : Underway(o)' /\ o # d => marks'[o].target \cap marks'[d].target = {}
      <4>1. list.data.news = news /\ list'.data.rows = list.data.rows
        BY <1>3, <1>4, <1>5, <3>6
      <4>2. CASE d = c
        BY <1>5, <2>2, <2>3, <2>4, <3>3, <3>4, <4>1, <4>2 DEF ToRead
      <4>3. CASE d # c
        <5>1. Underway(d) /\ One(d) /\ marks'[d] = marks[d]
          BY <1>5, <3>3, <3>5, <3>6, <4>3
        <5>2. /\ marks[d].target \subseteq B!Unread \cap list.data.rows
              /\ \A o \in Marks : Underway(o) /\ o # d => marks[o].target \cap marks[d].target = {}
          BY <2>3, <4>1, <5>1 DEF MarksFit, OnesFit
        <5> QED BY <1>5, <2>4, <3>3, <3>4, <4>1, <5>1, <5>2
      <4> QED BY <4>2, <4>3
    <3> QED BY <3>1, <3>2, <3>6 DEF OnesFit
  <2>8. ListFits'
    BY <1>3, <1>4, <1>5, <2>3, <2>4 DEF MarksFit, ListFits
  <2>9. NumberFits'
    <3>1. ASSUME unreadCount'.data.news = news' PROVE unreadCount'.data.value = Cardinality(ToRead')
      <4>1. /\ list.data.news = news /\ unreadCount.data.news = news
            /\ n \in ToRead /\ unreadCount.data.value = Cardinality(ToRead)
        BY <1>3, <1>4, <1>5, <2>1, <2>2, <2>3, <3>1 DEF MarksFit, NumberFits
      <4>2. IsFiniteSet(ToRead) /\ Cardinality(ToRead) \in Nat
        BY UnreadFinite DEF ToRead
      <4>3. Cardinality(ToRead \ {n}) = Cardinality(ToRead) - 1
        BY <4>1, <4>2, FS_RemoveElement
      <4>4. Cardinality(ToRead) # 0
        BY <4>1, <4>2, FS_EmptySet
      <4> QED BY <1>3, <1>4, <2>4, <4>1, <4>3, <4>4
    <3> QED BY <1>4, <3>1 DEF NumberFits
  <2> QED BY <2>5, <2>6, <2>7, <2>8, <2>9 DEF MarksFit
<1> QED BY <1>7, <1>8

\* A mark of everything, which begins when no other mark is under way.
LEMMA MarkAllReadKeeps ==
    ASSUME B!BellConstants, BellInv, NEW c \in Marks, B!MarkAllRead(c)
    PROVE  BellInv'
<1> USE DEF BellInv
<1> DEFINE kept == [list |-> list.data, count |-> unreadCount.data]
<1>1. /\ B!Begin(c, TRUE, Notes, {kept})
      /\ list' = B!Put(B!Cancelled(list), B!ReadAll(list.data))
      /\ unreadCount' = B!Put(B!Cancelled(unreadCount), [unreadCount.data EXCEPT !.value = 0])
      /\ muddled' = (muddled \/ \E d \in Marks : B!Marking(d))
  BY DEF B!MarkAllRead
<1>2. /\ list \in B!Entries(B!Pages) /\ unreadCount \in B!Entries(B!Bell)
      /\ list.data \in B!Pages /\ unreadCount.data \in B!Bell
  <2>1. list \in B!Entries(B!Pages) /\ unreadCount \in B!Entries(B!Bell)
    BY DEF B!TypeOK
  <2> QED BY <2>1 DEF B!Entries
<1>3. PICK page \in B!Pages, number \in B!Bell :
        /\ page = B!ReadAll(list.data) /\ number = [unreadCount.data EXCEPT !.value = 0]
        /\ page.unread = {} /\ page.news = list.data.news
        /\ number.news = unreadCount.data.news /\ number.value = 0
  <2>1. /\ B!ReadAll(list.data) \in B!Pages
        /\ B!ReadAll(list.data).unread = {} /\ B!ReadAll(list.data).news = list.data.news
    BY <1>2 DEF B!ReadAll, B!Read, B!Pages
  <2>2. LET number == [unreadCount.data EXCEPT !.value = 0]
        IN  number \in B!Bell /\ number.news = unreadCount.data.news /\ number.value = 0
    BY <1>2 DEF B!Bell
  <2> QED BY <2>1, <2>2
<1>4. /\ list' \in B!Entries(B!Pages) /\ list'.data = page /\ list'.fetch = {}
      /\ unreadCount' \in B!Entries(B!Bell) /\ unreadCount'.data = number /\ unreadCount'.fetch = {}
  <2>1. list' = B!Put(B!Cancelled(list), page) /\ unreadCount' = B!Put(B!Cancelled(unreadCount), number)
    BY <1>1, <1>3
  <2>2. /\ B!Put(B!Cancelled(list), page) \in B!Entries(B!Pages)
        /\ B!Put(B!Cancelled(list), page).data = page /\ B!Put(B!Cancelled(list), page).fetch = {}
    BY <1>2, Replaced
  <2>3. /\ B!Put(B!Cancelled(unreadCount), number) \in B!Entries(B!Bell)
        /\ B!Put(B!Cancelled(unreadCount), number).data = number /\ B!Put(B!Cancelled(unreadCount), number).fetch = {}
    BY <1>2, Replaced
  <2> QED BY <2>1, <2>2, <2>3
<1>5. /\ UNCHANGED <<filter, status, news, lateMarks, bellTroubles>>
      /\ marks' \in [Marks -> {NoMark} \cup B!Mark]
      /\ B!Marking(c)' /\ marks'[c].all = TRUE /\ marks'[c].phase = "sent"
      /\ \A d \in Marks \ {c} : marks'[d] = marks[d]
      /\ OnTheWay' = OnTheWay \cup Notes
  <2>1. TRUE \in BOOLEAN /\ Notes \in SUBSET Notes /\ {kept} \in SUBSET [list : B!Pages, count : B!Bell]
    BY <1>2
  <2>2. B!Begin(c, TRUE, Notes, {kept}) /\ B!TypeOK
    BY <1>1
  <2>3. UNCHANGED <<filter, status, news, lateMarks, bellTroubles>>
    BY <2>2 DEF B!Begin
  <2> HIDE DEF kept
  <2> QED BY <2>1, <2>2, <2>3, Begun
<1>6. muddled' \in BOOLEAN
  <2>1. CASE muddled \/ \E d \in Marks : B!Marking(d)
    BY <1>1, <2>1
  <2>2. CASE ~(muddled \/ \E d \in Marks : B!Marking(d))
    BY <1>1, <2>2
  <2> QED BY <2>1, <2>2
<1>7. B!TypeOK'
  BY <1>4, <1>5, <1>6 DEF B!TypeOK
<1>8. ASSUME ~muddled' PROVE MarksFit'
  <2>1. ~muddled /\ \A d \in Marks : ~B!Marking(d)
    BY <1>1, <1>8, Zenon
  <2>2. MarksFit
    BY <2>1
  <2>3. \A d \in Marks : B!Marking(d)' <=> d = c
    BY <1>5, <2>1 DEF B!Marking
  <2>4. Alone' /\ OnesFit'
    BY <1>4, <1>5, <2>3 DEF Alone, OnesFit, One, B!MarkingAll
  <2>5. ToRead' = {} /\ Cardinality({}) = 0
    BY <1>5, FS_EmptySet DEF ToRead, B!Unread
  <2>6. NewsFit'
    BY <1>3, <1>4, <1>5, <2>2 DEF MarksFit, NewsFit
  <2>7. ListFits' /\ NumberFits'
    BY <1>3, <1>4, <2>5 DEF ListFits, NumberFits
  <2> QED BY <2>4, <2>6, <2>7 DEF MarksFit
<1> QED BY <1>7, <1>8

\* A mark gets to the server: what was on its way is read there.
LEMMA CarryKeeps ==
    ASSUME B!BellConstants, BellInv, NEW c \in Marks, B!Carry(c)
    PROVE  BellInv'
<1> USE DEF BellInv
<1>1. /\ B!Marking(c) /\ marks[c].phase = "sent"
      /\ B!ReadAtServer(marks[c].target)
      /\ UNCHANGED <<filter, news, list, unreadCount, lateMarks, muddled, bellTroubles>>
  BY DEF B!Carry
<1>2. PICK phase \in {"missing", "made"} :
        /\ phase = IF ~marks[c].all /\ marks[c].target \cap B!Existing = {} THEN "missing" ELSE "made"
        /\ marks' = [marks EXCEPT ![c].phase = phase]
  BY DEF B!Carry
<1>3. marks[c] \in B!Mark /\ marks[c].target \in SUBSET Notes
  BY <1>1, MarkFields
<1>4. PICK new \in B!Mark :
        /\ new = [marks[c] EXCEPT !.phase = phase]
        /\ new.all = marks[c].all /\ new.target = marks[c].target /\ new.phase = phase
  <2>1. PICK all \in BOOLEAN, target \in SUBSET Notes, was \in {"sent", "made", "missing"},
             kept \in SUBSET [list : B!Pages, count : B!Bell] :
          marks[c] = [all |-> all, target |-> target, phase |-> was, kept |-> kept]
    BY <1>3 DEF B!Mark
  <2>2. [marks[c] EXCEPT !.phase = phase] = [all |-> all, target |-> target, phase |-> phase, kept |-> kept]
    BY <2>1
  <2>3. [all |-> all, target |-> target, phase |-> phase, kept |-> kept] \in B!Mark
    BY DEF B!Mark
  <2> QED BY <2>1, <2>2, <2>3
<1>5. /\ marks' \in [Marks -> {NoMark} \cup B!Mark]
      /\ marks'[c] = new /\ \A d \in Marks \ {c} : marks'[d] = marks[d]
  BY <1>2, <1>4 DEF B!TypeOK
<1>6. /\ status' \in [Notes -> {"coming", "unread", "read", "gone"}]
      /\ B!Unread' = B!Unread \ marks[c].target
  BY <1>1, <1>3, HasRead
<1>7. B!TypeOK'
  BY <1>1, <1>5, <1>6 DEF B!TypeOK
<1>8. ASSUME ~muddled PROVE MarksFit'
  <2>1. MarksFit
    BY <1>8
  <2>2. \A d \in Marks : B!Marking(d)' <=> B!Marking(d)
    BY <1>1, <1>5 DEF B!Marking, B!BellConstants
  <2>3. \A d \in Marks : B!MarkingAll(d)' <=> B!MarkingAll(d)
    BY <1>4, <1>5, <2>2 DEF B!MarkingAll
  <2>4. \A d \in Marks : One(d)' <=> One(d)
    BY <1>4, <1>5, <2>2 DEF One
  <2>5. /\ Underway(c) /\ ~Underway(c)'
        /\ \A d \in Marks \ {c} : Underway(d)' <=> Underway(d)
    BY <1>1, <1>2, <1>4, <1>5, <2>2 DEF Underway
  <2>6. ToRead' = ToRead
    <3>1. ASSUME NEW n PROVE n \in OnTheWay' <=> \E d \in Marks : Underway(d)' /\ n \in marks'[d].target
      BY DEF OnTheWay
    <3>2. ASSUME NEW n PROVE n \in OnTheWay <=> \E d \in Marks : Underway(d) /\ n \in marks[d].target
      BY DEF OnTheWay
    <3>3. ASSUME NEW n PROVE n \in OnTheWay <=> n \in OnTheWay' \cup marks[c].target
      BY <1>5, <2>5, <3>1, <3>2
    <3> QED BY <1>6, <3>3 DEF ToRead
  <2>7. Alone'
    <3>1. ASSUME NEW d \in Marks, B!MarkingAll(d)' PROVE marks'[d].phase # "missing"
      BY <1>2, <1>4, <1>5, <2>1, <2>3, <3>1 DEF MarksFit, Alone, B!MarkingAll
    <3> QED BY <1>1, <2>1, <2>2, <2>3, <3>1 DEF MarksFit, Alone
  <2>8. NewsFit'
    BY <1>1, <2>1 DEF MarksFit, NewsFit
  <2>9. list.fetch = {} /\ unreadCount.fetch = {}
    BY <1>1, <2>1 DEF MarksFit, Alone
  <2>10. ListFits' /\ NumberFits'
    BY <1>1, <2>1, <2>6, <2>9 DEF MarksFit, ListFits, NumberFits
  <2>11. OnesFit'
    <3>1. ASSUME NEW d \in Marks, One(d)'
          PROVE  (\E n \in Notes : marks'[d].target = {n}) /\ list'.data.news = unreadCount'.data.news
      <4>1. One(d) /\ marks'[d].target = marks[d].target
        BY <1>4, <1>5, <2>4, <3>1
      <4> QED BY <1>1, <2>1, <4>1 DEF MarksFit, OnesFit
    <3>2. ASSUME NEW d \in Marks, One(d)', list'.data.news = news'
          PROVE  marks'[d].phase # "missing"
      <4>1. CASE d # c
        BY <1>1, <1>5, <2>1, <2>4, <3>2, <4>1 DEF MarksFit, OnesFit
      <4>2. CASE d = c
        <5>1. /\ \E n \in Notes : marks[c].target = {n}
              /\ marks[c].target \subseteq B!Unread
          BY <1>1, <2>1, <2>4, <2>5, <3>2, <4>2 DEF MarksFit, OnesFit
        <5>2. marks[c].target \cap B!Existing # {}
          BY <5>1, UnreadFinite
        <5> QED BY <1>2, <1>4, <1>5, <4>2, <5>2
      <4> QED BY <4>1, <4>2
    <3>3. ASSUME NEW d \in Marks, One(d)', Underway(d)', list'.data.news = news'
          PROVE  /\ marks'[d].target \subseteq B!Unread' \cap list'.data.rows
                 /\ \A o \in Marks : Underway(o)' /\ o # d => marks'[o].target \cap marks'[d].target = {}
      <4>1. d # c /\ One(d) /\ Underway(d) /\ marks'[d] = marks[d]
        BY <1>5, <2>4, <2>5, <3>3
      <4>2. /\ marks[d].target \subseteq B!Unread \cap list.data.rows
            /\ \A o \in Marks : Underway(o) /\ o # d => marks[o].target \cap marks[d].target = {}
        BY <1>1, <2>1, <3>3, <4>1 DEF MarksFit, OnesFit
      <4>3. marks[c].target \cap marks[d].target = {}
        BY <2>5, <4>1, <4>2
      <4> QED BY <1>1, <1>5, <1>6, <2>5, <4>1, <4>2, <4>3
    <3> QED BY <3>1, <3>2, <3>3 DEF OnesFit
  <2> QED BY <2>7, <2>8, <2>10, <2>11 DEF MarksFit
<1> QED BY <1>1, <1>7, <1>8

\* A mark is over: a single one reads nothing again, and was found unless the server has changed.
LEMMA SucceedKeeps ==
    ASSUME B!BellConstants, BellInv, NEW c \in Marks, B!Succeed(c)
    PROVE  BellInv'
<1> USE DEF BellInv
<1>1. B!Marking(c) /\ B!Close(c) /\ UNCHANGED <<filter, status, news, lateMarks, muddled, bellTroubles>>
  BY DEF B!Succeed
<1>2. /\ list \in B!Entries(B!Pages) /\ unreadCount \in B!Entries(B!Bell)
      /\ list.data \in B!Pages /\ unreadCount.data \in B!Bell
  <2>1. list \in B!Entries(B!Pages) /\ unreadCount \in B!Entries(B!Bell)
    BY DEF B!TypeOK
  <2> QED BY <2>1 DEF B!Entries
<1>3. /\ marks' \in [Marks -> {NoMark} \cup B!Mark]
      /\ ~B!Marking(c)'
      /\ \A d \in Marks \ {c} : marks'[d] = marks[d]
      /\ marks[c].phase # "sent" => OnTheWay' = OnTheWay
  BY <1>1, Closed
<1>4. marks[c].phase # "sent"
  BY DEF B!Succeed
<1>5. \/ /\ B!MarkingAll(c)
         /\ list' \in B!Entries(B!Pages) /\ list'.data = list.data /\ list'.fetch = {B!Unanswered}
         /\ unreadCount' \in B!Entries(B!Bell) /\ unreadCount'.data = unreadCount.data
         /\ unreadCount'.fetch = {B!Unanswered}
      \/ /\ ~B!MarkingAll(c) /\ UNCHANGED unreadCount
         /\ list' \in B!Entries(B!Pages) /\ list'.data = list.data /\ list'.fetch = list.fetch
      \/ /\ UNCHANGED unreadCount /\ marks[c].phase = "missing"
         /\ list' \in B!Entries(B!Pages) /\ list'.data.news = list.data.news /\ list'.fetch = list.fetch
  <2>1. CASE B!MarkingAll(c) /\ list' = B!Invalidated(list) /\ unreadCount' = B!Invalidated(unreadCount)
    <3>1. /\ B!Invalidated(list) \in B!Entries(B!Pages) /\ B!Invalidated(list).data = list.data
          /\ B!Invalidated(list).fetch = {B!Unanswered}
      BY <1>2, BellCalls
    <3>2. /\ B!Invalidated(unreadCount) \in B!Entries(B!Bell) /\ B!Invalidated(unreadCount).data = unreadCount.data
          /\ B!Invalidated(unreadCount).fetch = {B!Unanswered}
      BY <1>2, BellCalls
    <3> QED BY <2>1, <3>1, <3>2
  <2>2. CASE /\ ~B!MarkingAll(c) /\ UNCHANGED unreadCount
             /\ list' = [list EXCEPT !.flagged = @ \/ filter = "UNREAD"]
    <3>1. PICK flagged \in BOOLEAN : list' = [list EXCEPT !.flagged = flagged]
      <4>1. (list.flagged \/ filter = "UNREAD") \in BOOLEAN
        BY <1>2 DEF B!Entries
      <4> QED BY <2>2, <4>1
    <3>2. list' \in B!Entries(B!Pages) /\ list'.data = list.data /\ list'.fetch = list.fetch
      BY <1>2, <3>1 DEF B!Entries
    <3> QED BY <2>2, <3>2
  <2>3. CASE /\ marks[c].phase = "missing" /\ UNCHANGED unreadCount
             /\ list' = B!Put(list, B!Dropped(list.data, marks[c].target))
    <3>1. PICK page \in B!Pages : page = B!Dropped(list.data, marks[c].target) /\ page.news = list.data.news
      BY <1>2 DEF B!Dropped, B!Pages
    <3>2. /\ B!Put(list, page) \in B!Entries(B!Pages) /\ B!Put(list, page).data = page
          /\ B!Put(list, page).fetch = list.fetch
      BY <1>2, BellCalls
    <3> QED BY <2>3, <3>1, <3>2
  <2> QED BY <2>1, <2>2, <2>3 DEF B!Succeed
<1>6. B!TypeOK'
  BY <1>1, <1>3, <1>5 DEF B!TypeOK
<1>7. ASSUME ~muddled PROVE MarksFit'
  <2>1. MarksFit
    BY <1>7
  <2>2. /\ \A d \in Marks : B!Marking(d)' => B!Marking(d) /\ marks'[d] = marks[d] /\ d # c
        /\ \A d \in Marks : B!MarkingAll(d)' => B!MarkingAll(d)
        /\ \A d \in Marks : One(d)' => One(d)
        /\ \A d \in Marks : Underway(d)' => Underway(d)
    BY <1>3 DEF B!Marking, B!MarkingAll, One, Underway
  <2>3. UNCHANGED <<B!Unread, OnTheWay, ToRead>>
    BY <1>1, <1>3, <1>4 DEF B!Unread, ToRead
  <2>4. list.fetch = {} /\ unreadCount.fetch = {}
    BY <1>1, <2>1 DEF MarksFit, Alone
  <2>5. Alone'
    <3>1. CASE B!MarkingAll(c)
      <4>1. \A d \in Marks : ~B!Marking(d)'
        BY <2>1, <2>2, <3>1 DEF MarksFit, Alone
      <4> QED BY <4>1 DEF Alone, B!MarkingAll
    <3>2. CASE ~B!MarkingAll(c)
      <4>1. list'.fetch = {} /\ unreadCount'.fetch = {}
        BY <1>5, <2>4, <3>2
      <4>2. ASSUME NEW d \in Marks, B!MarkingAll(d)'
            PROVE  marks'[d].phase # "missing" /\ \A o \in Marks : B!Marking(o)' => o = d
        <5>1. B!MarkingAll(d) /\ marks'[d] = marks[d]
          BY <2>2, <4>2 DEF B!MarkingAll
        <5>2. marks[d].phase # "missing" /\ \A o \in Marks : B!Marking(o) => o = d
          BY <2>1, <5>1 DEF MarksFit, Alone
        <5> QED BY <2>2, <5>1, <5>2
      <4> QED BY <4>1, <4>2 DEF Alone
    <3> QED BY <3>1, <3>2
  <2>6. NewsFit'
    BY <1>1, <1>5, <2>1, <2>4 DEF MarksFit, NewsFit, B!Unanswered
  <2>7. ASSUME list'.data # list.data PROVE list.data.news # news /\ list'.data.news = list.data.news
    <3>1. marks[c].phase = "missing" /\ ~B!MarkingAll(c) /\ list'.data.news = list.data.news
      BY <1>5, <2>1, <2>7 DEF MarksFit, Alone
    <3>2. One(c)
      BY <1>1, <3>1, MarkFields
    <3> QED BY <2>1, <3>1, <3>2 DEF MarksFit, OnesFit
  <2>8. list'.data.news = list.data.news /\ unreadCount'.data = unreadCount.data /\ news' = news
    BY <1>1, <1>5
  <2>9. OnesFit'
    <3>1. ASSUME NEW d \in Marks, One(d)'
          PROVE  /\ marks'[d] = marks[d] /\ One(d) /\ (Underway(d)' => Underway(d))
                 /\ \A o \in Marks : Underway(o)' => Underway(o) /\ marks'[o] = marks[o]
      BY <2>2, <3>1 DEF One, Underway
    <3>2. list'.data.news = news' => list'.data = list.data /\ list.data.news = news
      BY <2>7, <2>8
    <3>3. ASSUME NEW d \in Marks, One(d)'
          PROVE  (\E n \in Notes : marks'[d].target = {n}) /\ list'.data.news = unreadCount'.data.news
      BY <2>1, <2>8, <3>1, <3>3 DEF MarksFit, OnesFit
    <3>4. ASSUME NEW d \in Marks, One(d)', list'.data.news = news'
          PROVE  /\ marks'[d].phase # "missing"
                 /\ Underway(d)' =>
                      /\ marks'[d].target \subseteq B!Unread' \cap list'.data.rows
                      /\ \A o \in Marks : Underway(o)' /\ o # d => marks'[o].target \cap marks'[d].target = {}
      <4>1. /\ marks[d].phase # "missing"
            /\ Underway(d) =>
                 /\ marks[d].target \subseteq B!Unread \cap list.data.rows
                 /\ \A o \in Marks : Underway(o) /\ o # d => marks[o].target \cap marks[d].target = {}
        BY <2>1, <3>1, <3>2, <3>4 DEF MarksFit, OnesFit
      <4> QED BY <2>3, <3>1, <3>2, <3>4, <4>1
    <3> QED BY <3>3, <3>4 DEF OnesFit
  <2>10. ListFits' /\ NumberFits'
    BY <1>1, <1>5, <2>1, <2>3, <2>4, <2>7, <2>8 DEF MarksFit, ListFits, NumberFits, B!Unanswered
  <2> QED BY <2>5, <2>6, <2>9, <2>10 DEF MarksFit
<1> QED BY <1>1, <1>6, <1>7

\* A mark that failed for sure: its notification goes back where it was, and the bell with it.
LEMMA FailKeeps ==
    ASSUME B!BellConstants, BellInv, NEW c \in Marks, B!Fail(c)
    PROVE  BellInv'
<1> USE DEF BellInv
<1>1. /\ B!Marking(c) /\ B!Close(c) /\ UNCHANGED <<filter, status, news>>
      /\ bellTroubles' = bellTroubles + 1
      /\ muddled' = (muddled \/ B!MarkingAll(c) \/ marks[c].phase # "sent")
      /\ lateMarks' = lateMarks \/ lateMarks' = lateMarks \cup {marks[c].target}
      /\ B!MarkingAll(c) => B!PutBackAll(c)
      /\ ~B!MarkingAll(c) => B!PutBackOne(c)
  BY DEF B!Fail, B!Trouble
<1>2. /\ list \in B!Entries(B!Pages) /\ unreadCount \in B!Entries(B!Bell)
      /\ list.data \in B!Pages /\ unreadCount.data \in B!Bell
      /\ marks[c] \in B!Mark /\ marks[c].target \in SUBSET Notes
  <2>1. list \in B!Entries(B!Pages) /\ unreadCount \in B!Entries(B!Bell)
    BY DEF B!TypeOK
  <2>2. list.data \in B!Pages /\ unreadCount.data \in B!Bell
    BY <2>1 DEF B!Entries
  <2> QED BY <1>1, <2>1, <2>2, MarkFields
<1>3. /\ marks' \in [Marks -> {NoMark} \cup B!Mark]
      /\ ~B!Marking(c)'
      /\ \A d \in Marks \ {c} : marks'[d] = marks[d]
      /\ marks[c].phase = "sent" => /\ OnTheWay \subseteq OnTheWay' \cup marks[c].target
                                    /\ OnTheWay' \subseteq OnTheWay
  BY <1>1, Closed
<1>4. PICK page \in B!Pages, number \in B!Bell :
        /\ page = B!PutBack(list.data, marks[c].target) /\ number = B!Incremented(unreadCount.data)
        /\ page.rows = list.data.rows /\ page.news = list.data.news
        /\ page.unread = list.data.unread \cup (marks[c].target \cap list.data.rows)
        /\ number.news = unreadCount.data.news /\ number.value = unreadCount.data.value + 1
  <2>1. /\ B!PutBack(list.data, marks[c].target) \in B!Pages
        /\ B!PutBack(list.data, marks[c].target).rows = list.data.rows
        /\ B!PutBack(list.data, marks[c].target).news = list.data.news
        /\ B!PutBack(list.data, marks[c].target).unread = list.data.unread \cup (marks[c].target \cap list.data.rows)
    BY <1>2 DEF B!PutBack, B!Pages
  <2>2. /\ B!Incremented(unreadCount.data) \in B!Bell
        /\ B!Incremented(unreadCount.data).news = unreadCount.data.news
        /\ B!Incremented(unreadCount.data).value = unreadCount.data.value + 1
    BY <1>2 DEF B!Incremented, B!Bell
  <2> QED BY <2>1, <2>2
<1>5. ~B!MarkingAll(c) =>
        /\ list' \in B!Entries(B!Pages) /\ list'.data = page /\ list'.fetch = list.fetch
        /\ unreadCount' \in B!Entries(B!Bell) /\ unreadCount'.data = number /\ unreadCount'.fetch = unreadCount.fetch
  <2>1. B!Put(list, page) \in B!Entries(B!Pages) /\ B!Put(list, page).data = page /\ B!Put(list, page).fetch = list.fetch
    BY <1>2, BellCalls
  <2>2. /\ B!Put(unreadCount, number) \in B!Entries(B!Bell) /\ B!Put(unreadCount, number).data = number
        /\ B!Put(unreadCount, number).fetch = unreadCount.fetch
    BY <1>2, BellCalls
  <2> QED BY <1>1, <1>4, <2>1, <2>2 DEF B!PutBackOne
<1>6. B!MarkingAll(c) => list' \in B!Entries(B!Pages) /\ unreadCount' \in B!Entries(B!Bell)
  <2> SUFFICES ASSUME B!MarkingAll(c) PROVE list' \in B!Entries(B!Pages) /\ unreadCount' \in B!Entries(B!Bell)
    OBVIOUS
  <2>1. PICK kept \in marks[c].kept :
          /\ list' = B!Invalidated(B!Put(list, kept.list))
          /\ unreadCount' = B!Invalidated(B!Put(unreadCount, kept.count))
    BY <1>1 DEF B!PutBackAll
  <2>2. kept.list \in B!Pages /\ kept.count \in B!Bell
    BY <1>2, <2>1 DEF B!Mark
  <2>3. B!Put(list, kept.list) \in B!Entries(B!Pages)
    BY <1>2, <2>2, BellCalls
  <2>4. B!Put(unreadCount, kept.count) \in B!Entries(B!Bell)
    BY <1>2, <2>2, BellCalls
  <2>5. B!Invalidated(B!Put(list, kept.list)) \in B!Entries(B!Pages)
    BY <2>2, <2>3, BellCalls
  <2>6. B!Invalidated(B!Put(unreadCount, kept.count)) \in B!Entries(B!Bell)
    BY <2>2, <2>4, BellCalls
  <2> QED BY <2>1, <2>5, <2>6
<1>7. muddled' \in BOOLEAN
  <2>1. CASE muddled \/ B!MarkingAll(c) \/ marks[c].phase # "sent"
    BY <1>1, <2>1
  <2>2. CASE ~(muddled \/ B!MarkingAll(c) \/ marks[c].phase # "sent")
    BY <1>1, <2>2
  <2> QED BY <2>1, <2>2
<1>8. B!TypeOK'
  <2>1. list' \in B!Entries(B!Pages) /\ unreadCount' \in B!Entries(B!Bell)
    BY <1>5, <1>6
  <2>2. filter' = filter /\ status' = status /\ news' = news /\ bellTroubles' \in Nat
    BY <1>1 DEF B!TypeOK
  <2>3. lateMarks' \subseteq SUBSET Notes
    BY <1>1, <1>2 DEF B!TypeOK
  <2> QED BY <1>3, <1>7, <2>1, <2>2, <2>3 DEF B!TypeOK
<1>9. ASSUME ~muddled' PROVE MarksFit'
  <2>1. ~muddled /\ ~B!MarkingAll(c) /\ marks[c].phase = "sent"
    BY <1>1, <1>9, Zenon
  <2>2. MarksFit
    BY <2>1
  <2>3. One(c) /\ Underway(c)
    BY <1>1, <2>1, MarkFields DEF Underway
  <2>4. PICK n \in Notes : marks[c].target = {n} /\ list.data.news = unreadCount.data.news
    BY <2>2, <2>3 DEF MarksFit, OnesFit
  <2>5. list.data.news = news =>
          /\ n \in B!Unread /\ n \in list.data.rows
          /\ \A d \in Marks : Underway(d) /\ d # c => n \notin marks[d].target
    BY <2>2, <2>3, <2>4 DEF MarksFit, OnesFit
  <2>6. /\ \A d \in Marks : B!Marking(d)' => B!Marking(d) /\ marks'[d] = marks[d] /\ d # c
        /\ \A d \in Marks : B!MarkingAll(d)' => B!MarkingAll(d)
        /\ \A d \in Marks : One(d)' => One(d)
        /\ \A d \in Marks : Underway(d)' => Underway(d)
    BY <1>3 DEF B!Marking, B!MarkingAll, One, Underway
  <2>7. /\ list'.data = page /\ list'.fetch = {} /\ unreadCount'.data = number /\ unreadCount'.fetch = {}
        /\ B!Unread' = B!Unread /\ news' = news
    BY <1>1, <1>5, <2>1, <2>2 DEF MarksFit, Alone, B!Unread
  <2>8. list.data.news = news => n \notin OnTheWay'
    <3>1. ASSUME n \in OnTheWay' PROVE \E d \in Marks : Underway(d) /\ d # c /\ n \in marks[d].target
      <4>1. PICK d \in Marks : Underway(d)' /\ n \in marks'[d].target
        BY <3>1 DEF OnTheWay
      <4> QED BY <2>6, <4>1 DEF Underway
    <3> QED BY <2>5, <3>1
  <2>9. list.data.news = news => ToRead' = ToRead \cup {n} /\ n \notin ToRead
    <3>1. n \in OnTheWay
      BY <2>3, <2>4 DEF OnTheWay
    <3> QED BY <1>3, <2>1, <2>4, <2>5, <2>7, <2>8, <3>1 DEF ToRead
  <2>10. Alone'
    <3>1. ASSUME NEW d \in Marks, B!MarkingAll(d)'
          PROVE  marks'[d].phase # "missing" /\ \A o \in Marks : B!Marking(o)' => o = d
      <4>1. B!MarkingAll(d) /\ marks'[d] = marks[d]
        BY <2>6, <3>1 DEF B!MarkingAll
      <4>2. marks[d].phase # "missing" /\ \A o \in Marks : B!Marking(o) => o = d
        BY <2>2, <4>1 DEF MarksFit, Alone
      <4> QED BY <2>6, <4>1, <4>2
    <3> QED BY <2>7, <3>1 DEF Alone
  <2>11. NewsFit'
    BY <1>4, <2>2, <2>7 DEF MarksFit, NewsFit
  <2>12. OnesFit'
    <3>1. ASSUME NEW d \in Marks, One(d)'
          PROVE  /\ marks'[d] = marks[d] /\ One(d) /\ (Underway(d)' => Underway(d))
                 /\ \A o \in Marks : Underway(o)' => Underway(o) /\ marks'[o] = marks[o]
      BY <2>6, <3>1 DEF One, Underway
    <3>2. ASSUME NEW d \in Marks, One(d)'
          PROVE  (\E m \in Notes : marks'[d].target = {m}) /\ list'.data.news = unreadCount'.data.news
      BY <1>4, <2>2, <2>7, <3>1, <3>2 DEF MarksFit, OnesFit
    <3>3. ASSUME NEW d \in Marks, One(d)', list'.data.news = news'
          PROVE  /\ marks'[d].phase # "missing"
                 /\ Underway(d)' =>
                      /\ marks'[d].target \subseteq B!Unread' \cap list'.data.rows
                      /\ \A o \in Marks : Underway(o)' /\ o # d => marks'[o].target \cap marks'[d].target = {}
      <4>1. /\ marks[d].phase # "missing"
            /\ Underway(d) =>
                 /\ marks[d].target \subseteq B!Unread \cap list.data.rows
                 /\ \A o \in Marks : Underway(o) /\ o # d => marks[o].target \cap marks[d].target = {}
        BY <1>4, <2>2, <2>7, <3>1, <3>3 DEF MarksFit, OnesFit
      <4> QED BY <1>4, <2>7, <3>1, <3>3, <4>1
    <3> QED BY <3>2, <3>3 DEF OnesFit
  <2>13. ListFits'
    BY <1>4, <2>2, <2>4, <2>5, <2>7, <2>9 DEF MarksFit, ListFits
  <2>14. NumberFits'
    <3>1. ASSUME unreadCount'.data.news = news' PROVE unreadCount'.data.value = Cardinality(ToRead')
      <4>1. /\ list.data.news = news /\ unreadCount.data.value = Cardinality(ToRead)
            /\ unreadCount'.data.value = unreadCount.data.value + 1
        BY <1>4, <2>2, <2>4, <2>7, <3>1 DEF MarksFit, NumberFits
      <4>2. IsFiniteSet(ToRead)
        BY UnreadFinite DEF ToRead
      <4>3. Cardinality(ToRead \cup {n}) = Cardinality(ToRead) + 1
        BY <2>9, <4>1, <4>2, FS_AddElement
      <4> QED BY <2>9, <4>1, <4>3
    <3> QED BY <2>7, <3>1 DEF NumberFits
  <2> QED BY <2>10, <2>11, <2>12, <2>13, <2>14 DEF MarksFit
<1> QED BY <1>8, <1>9

-----------------------------------------------------------------------------
LEMMA BellInit == ASSUME B!BellConstants, B!Init PROVE BellInv
<1>1. /\ list.data = [rows |-> B!Unread, unread |-> B!Unread, news |-> 0] /\ list.fetch = {}
      /\ unreadCount.data = [value |-> Cardinality(B!Unread), news |-> 0] /\ unreadCount.fetch = {}
      /\ list.flagged = FALSE /\ unreadCount.flagged = FALSE
  BY BellSizes DEF B!Init, B!Cached
<1>2. status \in [Notes -> {"coming", "unread", "read", "gone"}] /\ B!Unread \in SUBSET Notes
  BY DEF B!Init, B!Unread
<1>3. Cardinality(B!Unread) \in Nat
  BY <1>2, FS_Subset, FS_CardinalityType, BellSizes DEF B!BellConstants
<1>4. list \in B!Entries(B!Pages) /\ unreadCount \in B!Entries(B!Bell)
  <2>1. list = [data |-> [rows |-> B!Unread, unread |-> B!Unread, news |-> 0], flagged |-> FALSE, fetch |-> {}]
    BY DEF B!Init, B!Cached
  <2>2. unreadCount = [data |-> [value |-> Cardinality(B!Unread), news |-> 0], flagged |-> FALSE, fetch |-> {}]
    BY BellSizes DEF B!Init, B!Cached
  <2>3. [rows |-> B!Unread, unread |-> B!Unread, news |-> 0] \in B!Pages
    BY <1>2 DEF B!Pages
  <2>4. [value |-> Cardinality(B!Unread), news |-> 0] \in B!Bell
    BY <1>3 DEF B!Bell
  <2>5. list \in B!Entries(B!Pages)
    BY <2>1, <2>3 DEF B!Entries
  <2>6. unreadCount \in B!Entries(B!Bell)
    BY <2>2, <2>4 DEF B!Entries
  <2> QED BY <2>5, <2>6
<1>5. B!TypeOK
  BY <1>2, <1>4 DEF B!Init, B!TypeOK
<1>6. \A c \in Marks : ~B!Marking(c)
  BY DEF B!Init, B!Marking
<1>7. ToRead = B!Unread /\ news = 0
  BY <1>6 DEF B!Init, ToRead, OnTheWay, Underway
<1>8. MarksFit
  BY <1>1, <1>6, <1>7 DEF MarksFit, Alone, NewsFit, OnesFit, ListFits, NumberFits, One, B!MarkingAll
<1> QED BY <1>5, <1>8 DEF BellInv

LEMMA BellNext == ASSUME B!BellConstants, BellInv, [B!Next]_(B!vars) PROVE BellInv'
<1>1. CASE UNCHANGED B!vars
  BY <1>1 DEF B!vars, BellInv, B!TypeOK, MarksFit, Alone, NewsFit, OnesFit, ListFits, NumberFits, One,
     Underway, ToRead, OnTheWay, B!Unread, B!Marking, B!MarkingAll
<1>2. CASE \E c \in Marks : B!MarkRead(c) \/ B!MarkAllRead(c) \/ B!Carry(c) \/ B!Succeed(c) \/ B!Fail(c)
  BY <1>2, MarkReadKeeps, MarkAllReadKeeps, CarryKeeps, SucceedKeeps, FailKeeps
<1>3. CASE B!CarryLate \/ B!Elsewhere
  BY <1>3, NewsKeeps
<1>4. CASE B!PollCount \/ B!ReadList \/ B!AnswerCount \/ B!AnswerList \/ B!ReadFails
  BY <1>4, ReadsKeep
<1>5. CASE B!ArriveCount \/ B!ArriveList
  BY <1>5, ArrivalsKeep
<1> QED BY <1>1, <1>2, <1>3, <1>4, <1>5 DEF B!Next

LEMMA BellHolds == ASSUME B!BellConstants PROVE B!Spec => []BellInv
<1>1. B!Init => BellInv
  BY BellInit
<1>2. BellInv /\ [B!Next]_(B!vars) => BellInv'
  BY BellNext
<1> QED BY <1>1, <1>2, PTL DEF B!Spec

\* The cached list and number, the calls and what the server knows keep their shape, also when
\* everything that was marked is put back (useMarkRead, useMarkAllRead).
THEOREM BellTyped == ASSUME B!BellConstants PROVE B!Spec => []B!TypeOK
<1>1. BellInv => B!TypeOK
  BY DEF BellInv
<1> QED BY <1>1, BellHolds, PTL

\* Single marks that overlap leave each other alone, refused ones too, for any notifications
\* and calls (useMarkRead, "so a concurrent mark of another one survives").
THEOREM MarksStayTheirOwn == ASSUME B!BellConstants PROVE B!Spec => []B!EachMarkItsOwn
<1>1. BellInv => B!EachMarkItsOwn
  <2> SUFFICES ASSUME BellInv, ~muddled, \A c \in Marks : ~B!Marking(c)
               PROVE  /\ unreadCount.data.news = news => unreadCount.data.value = Cardinality(B!Unread)
                      /\ list.data.news = news => list.data.unread = B!Unread
    BY BellSizes DEF B!EachMarkItsOwn, B!Settled, B!Idle
  <2>1. ToRead = B!Unread
    BY DEF ToRead, OnTheWay, Underway
  <2> QED BY <2>1 DEF BellInv, MarksFit, ListFits, NumberFits
<1> QED BY <1>1, BellHolds, PTL

-----------------------------------------------------------------------------
(* Every screen in the app.                                                  *)

\* The lists go through behaviours of OptimisticRemovals.
LEMMA ListsAlone == Spec => L!Spec
<1>1. Init => L!Init
  BY DEF Init
<1>2. [Next]_vars => [L!Next]_(L!vars)
  <2>1. ListsStep => L!Next
    BY DEF ListsStep, OnLists
  <2>2. BellStep \/ FormsStep \/ BuildsStep \/ GitHubStep => UNCHANGED L!vars
    BY DEF BellStep, FormsStep, BuildsStep, GitHubStep, OnBell, OnForms, OnBuilds, OnGitHub, lists, L!vars
  <2>3. UNCHANGED vars => UNCHANGED L!vars
    BY DEF vars, lists, L!vars
  <2> QED BY <2>1, <2>2, <2>3 DEF Next
<1> QED BY <1>1, <1>2, PTL DEF Spec, L!Spec

\* The bell and the notifications go through behaviours of NotificationBell.
LEMMA BellAlone == Spec => B!Spec
<1>1. Init => B!Init
  BY DEF Init
<1>2. [Next]_vars => [B!Next]_(B!vars)
  <2>1. BellStep => B!Next
    BY DEF BellStep, OnBell
  <2>2. ListsStep \/ FormsStep \/ BuildsStep \/ GitHubStep => UNCHANGED B!vars
    BY DEF ListsStep, FormsStep, BuildsStep, GitHubStep, OnLists, OnForms, OnBuilds, OnGitHub, bell, B!vars
  <2>3. UNCHANGED vars => UNCHANGED B!vars
    BY DEF vars, bell, B!vars
  <2> QED BY <2>1, <2>2, <2>3 DEF Next
<1> QED BY <1>1, <1>2, PTL DEF Spec, B!Spec

\* The settings forms go through behaviours of SettingsForms.
LEMMA FormsAlone == Spec => F!Spec
<1>1. Init => F!Init
  BY DEF Init
<1>2. [Next]_vars => [F!Next]_(F!vars)
  <2>1. FormsStep => F!Next
    BY DEF FormsStep, OnForms
  <2>2. ListsStep \/ BellStep \/ BuildsStep \/ GitHubStep => UNCHANGED F!vars
    BY DEF ListsStep, BellStep, BuildsStep, GitHubStep, OnLists, OnBell, OnBuilds, OnGitHub, forms, F!vars
  <2>3. UNCHANGED vars => UNCHANGED F!vars
    BY DEF vars, forms, F!vars
  <2> QED BY <2>1, <2>2, <2>3 DEF Next
<1> QED BY <1>1, <1>2, PTL DEF Spec, F!Spec

\* The dialog for manual builds and the service behind it go through behaviours of ManualBuilds.
LEMMA BuildsAlone == Spec => M!Spec
<1>1. Init => M!Init
  BY DEF Init
<1>2. [Next]_vars => [M!Next]_(M!vars)
  <2>1. BuildsStep => M!Next
    BY DEF BuildsStep, OnBuilds
  <2>2. ListsStep \/ BellStep \/ FormsStep \/ GitHubStep => UNCHANGED M!vars
    BY DEF ListsStep, BellStep, FormsStep, GitHubStep, OnLists, OnBell, OnForms, OnGitHub, builds, M!vars
  <2>3. UNCHANGED vars => UNCHANGED M!vars
    BY DEF vars, builds, M!vars
  <2> QED BY <2>1, <2>2, <2>3 DEF Next
<1> QED BY <1>1, <1>2, PTL DEF Spec, M!Spec

\* The round trips go through behaviours of GitHubHandoff.
LEMMA GitHubAlone == Spec => G!Spec
<1>1. Init => G!Init
  BY DEF Init
<1>2. [Next]_vars => [G!Next]_(G!vars)
  <2>1. GitHubStep => G!Next
    BY DEF GitHubStep, OnGitHub
  <2>2. ListsStep \/ BellStep \/ FormsStep \/ BuildsStep => UNCHANGED G!vars
    BY DEF ListsStep, BellStep, FormsStep, BuildsStep, OnLists, OnBell, OnForms, OnBuilds, github, G!vars
  <2>3. UNCHANGED vars => UNCHANGED G!vars
    BY DEF vars, github, G!vars
  <2> QED BY <2>1, <2>2, <2>3 DEF Next
<1> QED BY <1>1, <1>2, PTL DEF Spec, G!Spec

\* A list of the web app shows the server's rows once its calls are over and it is not being
\* read, however many removals overlapped, failed or came late (useRemoveTeamMember,
\* useRevokeInvite, useChangeRole, useRevokeSession).
THEOREM AppListsComeRight == Spec => []RowsTrueAtRest
<1>1. L!Spec => []L!RowsTrueAtRest
  BY Lists, L!ListsComeRight
<1> QED BY <1>1, ListsAlone, PTL DEF RowsTrueAtRest

\* A team's number of people follows any number of overlapping removals that go well, though
\* it is never read again (useRemoveTeamMember).
THEOREM AppNumbersComeRight == Spec => []NumberFollowsRemovals
<1>1. L!Spec => []L!NumberFollowsRemovals
  BY Lists, L!NumbersComeRight
<1> QED BY <1>1, ListsAlone, PTL DEF NumberFollowsRemovals

\* Marks of single notifications leave each other alone, refused ones too, however many overlap:
\* once they are over the list and the bell are the server's (useMarkRead).
THEOREM AppMarksTheirOwn == Spec => []EachMarkItsOwn
<1>1. B!Spec => []B!EachMarkItsOwn
  BY Bells, MarksStayTheirOwn
<1> QED BY <1>1, BellAlone, PTL DEF EachMarkItsOwn

\* A save of build settings sends only fields that were edited, whatever was read or saved by
\* others since the form was opened (buildSettingsChange, BuildSettingsPanel).
THEOREM AppEditsOnly == Spec => []OnlyEditsAreSent
<1>1. F!Spec => []F!OnlyEditsAreSent
  BY Forms, EditsOnly
<1> QED BY <1>1, FormsAlone, PTL DEF OnlyEditsAreSent

\* A save of build settings that lands replaces only values its form had read
\* (RepoLinkService.tune).
THEOREM AppNothingUnseen == Spec => NothingOverwrittenUnseen
<1>1. F!Spec => F!NothingOverwrittenUnseen
  BY Forms, NothingUnseen
<1> QED BY <1>1, FormsAlone, PTL DEF NothingOverwrittenUnseen

\* However often, late and concurrently a request for a manual build is sent, its intent starts
\* one build at most (ManualBuildButton, ManualBuildService).
THEOREM AppOneBuild == Spec => []OneBuildPerIntent
<1>1. M!Spec => []M!OneBuildPerIntent
  BY Submissions, OneBuild
<1> QED BY <1>1, BuildsAlone, PTL DEF OneBuildPerIntent

\* No hour has more manual builds than its limit, though each request looks at the count before
\* GitHub is asked for the head (ManualBuildService).
THEOREM AppLimitHolds == Spec => []LimitExact
<1>1. M!Spec => []M!LimitExact
  BY Submissions, LimitHolds
<1> QED BY <1>1, BuildsAlone, PTL DEF LimitExact

\* A fresh installation is linked to the org its state was issued for, and under that state
\* nothing else is (makeFinishGitHubRedirect, AuthorizationStateTokens).
THEOREM AppGrantsStay == Spec => []GrantsStayWithTheirOrg
<1>1. G!Spec => []G!GrantsStayWithTheirOrg
  BY RoundTrips, GrantsStay
<1> QED BY <1>1, GitHubAlone, PTL DEF GrantsStayWithTheirOrg

\* An installation is linked only for a tab that had set out for its org and come back for the
\* first time since (makeFinishGitHubRedirect).
THEOREM AppLinksWhatWasSetOut == Spec => LinksWhatItSetOutFor
<1>1. G!Spec => G!LinksWhatItSetOutFor
  BY RoundTrips, LinksWhatWasSetOut
<1> QED BY <1>1, GitHubAlone, PTL DEF LinksWhatItSetOutFor
=============================================================================
