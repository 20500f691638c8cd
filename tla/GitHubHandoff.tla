---------------------------- MODULE GitHubHandoff ----------------------------
(* Round trips to GitHub that connect an org to an installation: the signed  *)
(* single-use state the service issues, the intent a tab records before it   *)
(* leaves, and what the callback page makes of the two when GitHub sends the *)
(* browser back, from whichever of its pages the tab has got to              *)
(* (makeFinishGitHubRedirect, AuthorizationStateTokens, InstallationService).*)
EXTENDS Naturals

CONSTANTS
    Tabs,
    Orgs,
    Installations,
    States,       \* states the service issues, numbered in order
    MaxSetbacks,  \* calls that fail, states and intents that expire, GitHub sessions that end,
                  \* together
    Nothing

VARIABLES
    tabs,      \* where each tab is
    intents,   \* the intent in each tab's session storage, unless it is too old to be read
    histories, \* states whose GitHub page a tab can go back to
    setOut,    \* what each tab last set out for and has not come back from
    states,    \* authorization_states
    session,   \* whether the person has a GitHub session
    links,     \* installation_links, with the state each came from
    setbacks

vars == <<tabs, intents, histories, setOut, states, session, links, setbacks>>

InstallFor(org) == [kind |-> "install", org |-> org, installation |-> Nothing]
Authorize == [kind |-> "authorize", org |-> Nothing, installation |-> Nothing]
Pending(org, installation) == [kind |-> "authorize", org |-> org, installation |-> installation]

Intent ==
    {InstallFor(org) : org \in Orgs} \cup {Authorize}
        \cup {Pending(org, installation) : org \in Orgs, installation \in Installations}
Callback == [kind : {"authorization", "freshInstall", "installWithoutAuthorization"},
             state : States \cup {Nothing}, installation : Installations \cup {Nothing}]
State == [purpose : {"INSTALL", "AUTHORIZE"}, org : Orgs \cup {Nothing}, live : BOOLEAN, spent : Nat]
Link == [org : Orgs, installation : Installations, state : States \cup {Nothing}]

\* Where a tab can be.
Place ==
    [at : {"app"}]
        \cup [at : {"starting", "stopped"}, intent : Intent]
        \cup [at : {"github"}, state : States \cup {Nothing}]
        \cup [at : {"waiting"}, callback : Callback, intent : Intent, setOut : Intent \cup {Nothing},
              step : {"complete", "link", "linked"}]

\* What the theorems assume of the constants.
HandoffConstants ==
    /\ Nothing \notin States
    /\ Nothing \notin Orgs
    /\ Nothing \notin Intent
    /\ Nothing \notin State

Issued(s) == states[s] # Nothing

TypeOK ==
    /\ tabs \in [Tabs -> Place]
    /\ intents \in [Tabs -> Intent \cup {Nothing}]
    /\ setOut \in [Tabs -> Intent \cup {Nothing}]
    /\ histories \in [Tabs -> SUBSET States]
    /\ states \in [States -> State \cup {Nothing}]
    /\ session \in BOOLEAN
    /\ links \subseteq Link
    /\ setbacks \in Nat

-----------------------------------------------------------------------------
Setback == setbacks < MaxSetbacks /\ setbacks' = setbacks + 1
To(t, place) == tabs' = [tabs EXCEPT ![t] = place]
App == [at |-> "app"]
GitHub(s) == [at |-> "github", state |-> s]
Stopped(intent) == [at |-> "stopped", intent |-> intent]
Starting(intent) == [at |-> "starting", intent |-> intent]

\* The person sets out from a page of the app: to install, or to sign in to GitHub.
Start(t) ==
    /\ tabs[t].at = "app"
    /\ \E intent \in {InstallFor(org) : org \in Orgs} \cup {Authorize} : To(t, Starting(intent))
    /\ UNCHANGED <<intents, histories, setOut, states, session, links, setbacks>>

\* "Try again" sets out on the same round trip, with a new state.
Retry(t) ==
    /\ tabs[t].at = "stopped"
    /\ To(t, Starting(tabs[t].intent))
    /\ UNCHANGED <<intents, histories, setOut, states, session, links, setbacks>>

\* The service issues a state. The tab records its intent and leaves for GitHub.
Leave(t) ==
    /\ tabs[t].at = "starting"
    /\ \E s \in States :
         /\ ~Issued(s)
         /\ \A r \in States : r < s => Issued(r)
         /\ LET intent == tabs[t].intent
                issued == IF intent.kind = "install"
                          THEN [purpose |-> "INSTALL", org |-> intent.org, live |-> TRUE, spent |-> 0]
                          ELSE [purpose |-> "AUTHORIZE", org |-> Nothing, live |-> TRUE, spent |-> 0]
            IN  /\ states' = [states EXCEPT ![s] = issued]
                /\ intents' = [intents EXCEPT ![t] = intent]
                /\ setOut' = [setOut EXCEPT ![t] = intent]
         /\ histories' = [histories EXCEPT ![t] = @ \cup {s}]
         /\ To(t, GitHub(s))
    /\ UNCHANGED <<session, links, setbacks>>

StartFails(t) ==
    /\ tabs[t].at = "starting"
    /\ Setback
    /\ To(t, App)
    /\ UNCHANGED <<intents, histories, setOut, states, session, links>>

\* The browser's history: back to the app, or on to a GitHub page the tab has been to.
GoBack(t) ==
    /\ tabs[t].at \in {"github", "stopped"}
    /\ To(t, App)
    /\ UNCHANGED <<intents, histories, setOut, states, session, links, setbacks>>

GoForward(t) ==
    /\ tabs[t].at = "app"
    /\ \E s \in histories[t] : To(t, GitHub(s))
    /\ UNCHANGED <<intents, histories, setOut, states, session, links, setbacks>>

\* An installation's settings on GitHub: no state, no intent, but GitHub redirects from there too.
Configure(t) ==
    /\ tabs[t].at = "app"
    /\ To(t, GitHub(Nothing))
    /\ UNCHANGED <<intents, histories, setOut, states, session, links, setbacks>>

\* What GitHub comes back with from one of its pages: classifyCallback. Without a grant it may
\* be an installation from any page but the one that asks for authorization.
Callbacks(s) ==
    LET granted == {[kind |-> "freshInstall", state |-> s, installation |-> i] : i \in Installations}
        bare == {[kind |-> "installWithoutAuthorization", state |-> Nothing, installation |-> i] :
                    i \in Installations}
    IN  IF s = Nothing THEN bare
        ELSE IF states[s].purpose = "INSTALL" THEN granted \cup bare
        ELSE {[kind |-> "authorization", state |-> s, installation |-> Nothing]}

\* Authorizing needs an intent, and an install one that names an org.
Settles(callback, intent) ==
    intent # Nothing /\ (callback.kind # "authorization" => intent.org # Nothing)

Waiting(t, callback, intent) ==
    [at |-> "waiting", callback |-> callback, intent |-> intent, setOut |-> setOut[t],
     step |-> IF callback.kind = "installWithoutAuthorization" THEN "link" ELSE "complete"]

\* Mutant: the intent stays in the tab.
Cleared_Not(t) == UNCHANGED intents

Cleared(t) == intents' = [intents EXCEPT ![t] = Nothing]

\* GitHub redirects back: cancelled, requested or unreadable, or with something to settle against
\* the intent, which is cleared whatever comes of it.
Return(t) ==
    /\ tabs[t].at = "github"
    /\ \/ To(t, App)
       \/ \E callback \in Callbacks(tabs[t].state) :
            To(t, IF Settles(callback, intents[t]) THEN Waiting(t, callback, intents[t]) ELSE App)
    /\ Cleared(t)
    /\ setOut' = [setOut EXCEPT ![t] = Nothing]
    /\ UNCHANGED <<histories, states, session, links, setbacks>>

-----------------------------------------------------------------------------
(* The service.                                                              *)

At(t, step) == tabs[t].at = "waiting" /\ tabs[t].step = step
Advance(t, step) == tabs' = [tabs EXCEPT ![t].step = step]

\* The installation to link, Nothing when the person only signs in.
Wanted(t) ==
    IF tabs[t].callback.kind = "authorization" THEN tabs[t].intent.installation
    ELSE tabs[t].callback.installation

\* Mutant: the state is only checked to be of the right kind, not of the right org.
Matches_AnyOrg(state, kind, org) == state.purpose = IF kind = "authorization" THEN "AUTHORIZE" ELSE "INSTALL"

\* A state is good for the purpose and the org it was issued for.
Matches(state, kind, org) ==
    IF kind = "authorization" THEN state.purpose = "AUTHORIZE"
    ELSE state.purpose = "INSTALL" /\ state.org = org

Unspent(state) == state.live /\ state.spent = 0

Accepted(t) ==
    LET s == tabs[t].callback.state
    IN  /\ s \in States /\ Issued(s)
        /\ Matches(states[s], tabs[t].callback.kind, tabs[t].intent.org)
        /\ Unspent(states[s])

\* The state is consumed before the code is exchanged for a GitHub session.
Complete(t) ==
    /\ At(t, "complete")
    /\ Accepted(t)
    /\ states' = [states EXCEPT ![tabs[t].callback.state].spent = @ + 1]
    /\ \/ session' = TRUE /\ (IF Wanted(t) = Nothing THEN To(t, App) ELSE Advance(t, "link"))
          /\ UNCHANGED setbacks
       \/ UNCHANGED session /\ To(t, Stopped(tabs[t].intent)) /\ Setback
    /\ UNCHANGED <<intents, histories, setOut, links>>

Reject(t) ==
    /\ At(t, "complete")
    /\ ~Accepted(t)
    /\ To(t, Stopped(tabs[t].intent))
    /\ UNCHANGED <<intents, histories, setOut, states, session, links, setbacks>>

\* A grant brings its own session; anything else needs the one that is kept.
Authorized(t) == tabs[t].callback.kind = "freshInstall" \/ session

LinkInstallation(t) ==
    /\ At(t, "link")
    /\ Authorized(t)
    /\ links' = links \cup {[org |-> tabs[t].intent.org, installation |-> Wanted(t),
                             state |-> IF tabs[t].callback.kind = "freshInstall"
                                       THEN tabs[t].callback.state ELSE Nothing]}
    /\ Advance(t, "linked")
    /\ UNCHANGED <<intents, histories, setOut, states, session, setbacks>>

\* GITHUB_AUTHORIZATION_REQUIRED: an install without authorization sets out for one, and
\* keeps what it came with.
AuthorizationRequired(t) ==
    /\ At(t, "link")
    /\ ~Authorized(t)
    /\ To(t, IF tabs[t].callback.kind = "installWithoutAuthorization"
             THEN Starting(Pending(tabs[t].intent.org, Wanted(t)))
             ELSE Stopped(tabs[t].intent))
    /\ UNCHANGED <<intents, histories, setOut, states, session, links, setbacks>>

Installed(t) ==
    /\ At(t, "linked")
    /\ To(t, App)
    /\ UNCHANGED <<intents, histories, setOut, states, session, links, setbacks>>

\* A call is refused or its answer is lost.
Fail(t) ==
    /\ tabs[t].at = "waiting"
    /\ Setback
    /\ To(t, Stopped(tabs[t].intent))
    /\ UNCHANGED <<intents, histories, setOut, states, session, links>>

Expire ==
    /\ Setback
    /\ \/ \E s \in States : Issued(s) /\ states' = [states EXCEPT ![s].live = FALSE]
          /\ UNCHANGED <<intents, session>>
       \/ \E t \in Tabs : intents[t] # Nothing /\ intents' = [intents EXCEPT ![t] = Nothing]
          /\ UNCHANGED <<states, session>>
       \/ session /\ session' = FALSE /\ UNCHANGED <<intents, states>>
    /\ UNCHANGED <<tabs, histories, setOut, links>>

-----------------------------------------------------------------------------
Init ==
    /\ tabs = [t \in Tabs |-> App]
    /\ intents = [t \in Tabs |-> Nothing]
    /\ histories = [t \in Tabs |-> {}]
    /\ setOut = [t \in Tabs |-> Nothing]
    /\ states = [s \in States |-> Nothing]
    /\ session \in BOOLEAN
    /\ links = {}
    /\ setbacks = 0

Next ==
    \/ \E t \in Tabs :
         \/ Start(t)
         \/ Retry(t)
         \/ Leave(t)
         \/ StartFails(t)
         \/ GoBack(t)
         \/ GoForward(t)
         \/ Configure(t)
         \/ Return(t)
         \/ Complete(t)
         \/ Reject(t)
         \/ LinkInstallation(t)
         \/ AuthorizationRequired(t)
         \/ Installed(t)
         \/ Fail(t)
    \/ Expire

Spec == Init /\ [][Next]_vars

-----------------------------------------------------------------------------
\* A fresh install is linked to the org it was started for, and to no other installation, whatever
\* the tab has set out for since, however often it goes back to the page it was sent to, and
\* whichever of its GitHub pages the redirect comes from ("binds the redirect to the request
\* that started it", ARCHITECTURE.md).
GrantsStayWithTheirOrg ==
    \A link \in links : link.state # Nothing =>
        /\ states[link.state].org = link.org
        /\ \A other \in links : other.state = link.state => other = link

\* An installation is linked only for a tab that had set out for its org and come back for the
\* first time since; one that was chosen before signing in to GitHub is the one that is linked.
LinksWhatItSetOutFor ==
    [][\A t \in Tabs :
         LinkInstallation(t) =>
             /\ tabs[t].setOut # Nothing
             /\ tabs[t].setOut.org = tabs[t].intent.org
             /\ tabs[t].callback.kind = "authorization" => tabs[t].setOut.installation = Wanted(t)]_vars
=============================================================================
