---------------------------- MODULE SessionLife ----------------------------
(* What the web app promises of a browser session: it is opened once, its    *)
(* token pair is replaced only by another pair of the same user that no      *)
(* session held before, and once it has ended its cookie opens nothing again.*)
CONSTANTS Ids, Pairs, Users, Nothing

VARIABLES
    tokens,   \* the pair each open session holds
    user,     \* the account of each open session
    held      \* the pairs each session has held

vars == <<tokens, user, held>>

New(i) == held[i] = {}
IsOpen(i) == tokens[i] # Nothing
Unheld(p) == \A i \in Ids : p \notin held[i]

Init ==
    /\ held \in [Ids -> {{}} \cup {{p} : p \in Pairs}]
    /\ tokens \in [Ids -> Pairs \cup {Nothing}]
    /\ user \in [Ids -> Users \cup {Nothing}]
    /\ \A i \in Ids : IF New(i) THEN tokens[i] = Nothing /\ user[i] = Nothing
                                ELSE tokens[i] \in held[i] /\ user[i] \in Users

Hold(i, p) ==
    /\ Unheld(p)
    /\ tokens' = [tokens EXCEPT ![i] = p]
    /\ held' = [held EXCEPT ![i] = @ \cup {p}]

Open(i) ==
    /\ New(i)
    /\ \E p \in Pairs : Hold(i, p)
    /\ \E u \in Users : user' = [user EXCEPT ![i] = u]

Replace(i) ==
    /\ IsOpen(i)
    /\ \E p \in Pairs : Hold(i, p)
    /\ UNCHANGED user

End(i) ==
    /\ IsOpen(i)
    /\ tokens' = [tokens EXCEPT ![i] = Nothing]
    /\ user' = [user EXCEPT ![i] = Nothing]
    /\ UNCHANGED held

Next == \E i \in Ids : Open(i) \/ Replace(i) \/ End(i)

Spec == Init /\ [][Next]_vars
=============================================================================
