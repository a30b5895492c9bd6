------------------------------- MODULE Workspace -------------------------------
(***************************************************************************)
(* Accounts, sessions, sites, robots and builds of the application store   *)
(* (apps/api/src/application/store.ts), behind the routes of server.ts,    *)
(* as the web application uses them: a browser in which accounts come and  *)
(* go while setup forms of real-workspace.tsx work through their calls.    *)
(* A page left behind, by navigation or in another tab, goes on with its   *)
(* submission, and all pages of the browser share its credential.          *)
(*                                                                         *)
(* A route handler runs without a pause from the session lookup to its     *)
(* answer, so a call is one step; it may also be lost on the way, or its   *)
(* answer on the way back.  apiFetch reads the credential anew for every   *)
(* call.  An address stands for every spelling that is normalised to it,   *)
(* and of a policy only the width of the warehouse is kept, of a route     *)
(* only how far it reaches.                                                *)
(***************************************************************************)
EXTENDS Naturals, FiniteSets

CONSTANTS
    Emails, Passwords,
    Tokens, Sites, Robots, Builds,  \* what the server may draw, each once
    Widths, Reaches,                \* warehouse widths, route reaches
    Pages,                          \* mounted workspaces: tabs, and mounts left behind
    Keys,                           \* policy keys the server may be started with
    SessionTtl, MaxTime

None == "NONE"

ASSUME WorkspaceAssumption ==
    /\ None \notin Emails \cup Tokens \cup Sites \cup Robots
    /\ Widths \subseteq Nat /\ Reaches \subseteq Nat
    /\ SessionTtl \in Nat \ {0} /\ MaxTime \in Nat

VARIABLES
    accounts,  \* email -> password of its account
    sessions,  \* token -> session row
    sites, robots, builds,  \* id -> row
    key,       \* the running process's policy key
    clock,
    credential,  \* the token the browser's calls carry
    form,      \* page -> its setup form: where submit stands and what it made
    view,      \* page -> the rows it last loaded
    halted     \* sites of submissions that failed after making them (history)

rowVars == <<accounts, sessions, sites, robots, builds>>
pageVars == <<credential, form, view, halted>>
vars == <<rowVars, key, clock, pageVars>>

Unused == [account |-> None]
Ready == [step |-> "READY", site |-> None, robot |-> None]
NoView == [sites |-> {}, robots |-> {}, builds |-> {}]

Session == [account : Emails, expiresAt : Nat]
Site == [account : Emails, commitment : Sites \X Widths, cipher : Widths \X Keys, createdAt : Nat]
Robot == [account : Emails, site : Sites]
Build == [account : Emails, site : Sites, robot : Robots, reach : Reaches]

WorkspaceTypeOK ==
    /\ accounts \in [Emails -> Passwords \cup {None}]
    /\ sessions \in [Tokens -> {Unused, [account |-> "DELETED"]} \cup Session]
    /\ sites \in [Sites -> {Unused} \cup Site]
    /\ robots \in [Robots -> {Unused} \cup Robot]
    /\ builds \in [Builds -> {Unused} \cup Build]
    /\ key \in Keys /\ clock \in 0..MaxTime
    /\ credential \in Tokens \cup {None}
    /\ form \in [Pages -> [step : {"READY", "ROBOT", "BUILD"},
                           site : Sites \cup {None}, robot : Robots \cup {None}]]
    /\ view \in [Pages -> [sites : SUBSET Sites, robots : SUBSET Robots, builds : SUBSET Builds]]
    /\ halted \subseteq Sites

-----------------------------------------------------------------------------
\* accountForSession and requireAccount: the account a call is served for.
Live(t) == sessions[t] \in Session /\ clock < sessions[t].expiresAt

Caller == IF credential # None /\ Live(credential) THEN sessions[credential].account ELSE None

\* createSession, and the answer that hands the token to the browser.
CreateSession(t, email) ==
    /\ sessions[t] = Unused
    /\ sessions' = [sessions EXCEPT ![t] = [account |-> email, expiresAt |-> clock + SessionTtl]]

RegisterAccount(email, password, t) ==
    /\ accounts[email] = None
    /\ accounts' = [accounts EXCEPT ![email] = password]
    /\ CreateSession(t, email)
    /\ credential' = t
    /\ UNCHANGED <<sites, robots, builds, key, clock, form, view, halted>>

(* The process stops between the account's INSERT and createSession: the   *)
(* address is taken, and only signing in opens it.                         *)
RegisterInterrupted(email, password) ==
    /\ accounts[email] = None
    /\ accounts' = [accounts EXCEPT ![email] = password]
    /\ UNCHANGED <<sessions, sites, robots, builds, key, clock, pageVars>>

SignIn(email, password, t) ==
    /\ accounts[email] = password
    /\ CreateSession(t, email)
    /\ credential' = t
    /\ UNCHANGED <<accounts, sites, robots, builds, key, clock, form, view, halted>>

(* revokeSession, whether or not the session is still live.  The page that *)
(* asked forgets its rows, another page keeps them, and a submission that  *)
(* is under way goes on.                                                   *)
SignOut ==
    /\ credential # None
    /\ sessions' = [sessions EXCEPT ![credential] = [account |-> "DELETED"]]
    /\ credential' = None
    /\ \E q \in Pages : view' \in {view, [view EXCEPT ![q] = NoView]}
    /\ UNCHANGED <<accounts, sites, robots, builds, key, clock, form, halted>>

\* The first call of an expired session deletes its row and is refused.
DropExpired ==
    /\ credential # None
    /\ sessions[credential] \in Session /\ sessions[credential].expiresAt <= clock
    /\ sessions' = [sessions EXCEPT ![credential] = [account |-> "DELETED"]]
    /\ UNCHANGED <<accounts, sites, robots, builds, key, clock, pageVars>>

-----------------------------------------------------------------------------
\* Mutant: sites are looked up by id alone.
SiteRowAnyones(account, s) == sites[s] # Unused

SiteRow(account, s) == sites[s] # Unused /\ sites[s].account = account

RobotRow(account, s, r) ==
    robots[r] # Unused /\ robots[r].account = account /\ robots[r].site = s

(* createSite: the committed envelope and the encrypted one are the same,  *)
(* and both name the site.                                                 *)
CreateSite(s, width) ==
    /\ Caller # None
    /\ sites[s] = Unused
    /\ sites' = [sites EXCEPT ![s] =
          [account |-> Caller, commitment |-> <<s, width>>, cipher |-> <<width, key>>,
           createdAt |-> clock]]
    /\ UNCHANGED <<accounts, sessions, robots, builds>>

CreateRobot(s, r) ==
    /\ Caller # None /\ SiteRow(Caller, s)
    /\ robots[r] = Unused
    /\ robots' = [robots EXCEPT ![r] = [account |-> Caller, site |-> s]]
    /\ UNCHANGED <<accounts, sessions, sites, builds>>

\* decryptPolicy: another key cannot open the envelope.
Opens(s) == sites[s].cipher[2] = key

(* createBuild and createSourceBuild: the route must stay inside the       *)
(* warehouse of the decrypted envelope, its border included.               *)
CreateBuild(s, r, k, reach) ==
    /\ Caller # None /\ SiteRow(Caller, s) /\ RobotRow(Caller, s, r)
    /\ Opens(s) /\ reach <= sites[s].cipher[1]
    /\ builds[k] = Unused
    /\ builds' = [builds EXCEPT ![k] =
          [account |-> Caller, site |-> s, robot |-> r, reach |-> reach]]
    /\ UNCHANGED <<accounts, sessions, sites, robots>>

\* readConfidentialEvaluationSecretForOperator.
OperatorSecret(s) ==
    IF ~Opens(s) THEN [error |-> "POLICY_UNAVAILABLE"]
    ELSE IF <<s, sites[s].cipher[1]>> # sites[s].commitment THEN [error |-> "CONFLICT"]
    ELSE [width |-> sites[s].cipher[1]]

-----------------------------------------------------------------------------
OwnedBy(rows, account) ==
    {i \in DOMAIN rows : rows[i] # Unused /\ rows[i].account = account}

Loaded == [sites |-> OwnedBy(sites, Caller), robots |-> OwnedBy(robots, Caller),
           builds |-> OwnedBy(builds, Caller)]

Show(q, loaded) == view' = [view EXCEPT ![q] = loaded]

\* refresh, or its 401, after which the page asks for a sign-in.
Refresh(q) ==
    /\ Show(q, Loaded)
    /\ UNCHANGED <<rowVars, key, clock, credential, form, halted>>

(* A call of submit is refused or lost, or its answer is: the form shows   *)
(* an error and forgets what the submission has made.                      *)
Halt(q, site) ==
    /\ form' = [form EXCEPT ![q] = Ready]
    /\ halted' = halted \cup ({site} \ {None})
    /\ UNCHANGED view

SubmitFails(q) ==
    /\ form[q].step # "READY"
    /\ Halt(q, form[q].site)
    /\ UNCHANGED <<rowVars, key, clock, credential>>

\* The setup form is shown while the page knows of no site.
SubmitSite(q, s, width) ==
    /\ form[q].step = "READY" /\ view[q].sites = {}
    /\ CreateSite(s, width)
    /\ \/ /\ form' = [form EXCEPT ![q] = [step |-> "ROBOT", site |-> s, robot |-> None]]
          /\ UNCHANGED <<view, halted>>
       \/ Halt(q, s)
    /\ UNCHANGED <<key, clock, credential>>

\* Mutant: the form is done once the robot is created.
SubmitRobotOnly(q, r) ==
    /\ form[q].step = "ROBOT"
    /\ CreateRobot(form[q].site, r)
    /\ form' = [form EXCEPT ![q] = Ready] /\ Show(q, Loaded)
    /\ UNCHANGED <<key, clock, credential, halted>>

SubmitRobot(q, r) ==
    /\ form[q].step = "ROBOT"
    /\ CreateRobot(form[q].site, r)
    /\ \/ /\ form' = [form EXCEPT ![q] = [@ EXCEPT !.step = "BUILD", !.robot = r]]
          /\ UNCHANGED <<view, halted>>
       \/ Halt(q, form[q].site)
    /\ UNCHANGED <<key, clock, credential>>

\* After the build the page is refreshed, unless an answer is lost.
SubmitBuild(q, k, reach) ==
    /\ form[q].step = "BUILD"
    /\ CreateBuild(form[q].site, form[q].robot, k, reach)
    /\ \/ /\ form' = [form EXCEPT ![q] = Ready]
          /\ Show(q, [Loaded EXCEPT !.builds = @ \cup {k}])
          /\ UNCHANGED halted
       \/ Halt(q, form[q].site)
    /\ UNCHANGED <<key, clock, credential>>

\* listSites orders by created_at and a random id; the page works on the first.
FirstSites(q) ==
    {s \in view[q].sites : \A o \in view[q].sites : sites[s].createdAt <= sites[o].createdAt}

\* BuildOnlyView, for the first site and any robot of the account.
AddBuild(q, s, r, k, reach) ==
    /\ s \in FirstSites(q) /\ r \in view[q].robots
    /\ CreateBuild(s, r, k, reach)
    /\ Show(q, [Loaded EXCEPT !.builds = @ \cup {k}]) \/ UNCHANGED view
    /\ UNCHANGED <<key, clock, credential, form, halted>>

-----------------------------------------------------------------------------
Restart(k) ==
    /\ k # key
    /\ key' = k
    /\ UNCHANGED <<rowVars, clock, pageVars>>

Tick ==
    /\ clock < MaxTime
    /\ clock' = clock + 1
    /\ UNCHANGED <<rowVars, key, pageVars>>

Init ==
    /\ accounts = [e \in Emails |-> None]
    /\ sessions = [t \in Tokens |-> Unused]
    /\ sites = [s \in Sites |-> Unused]
    /\ robots = [r \in Robots |-> Unused]
    /\ builds = [k \in Builds |-> Unused]
    /\ key \in Keys /\ clock = 0
    /\ credential = None /\ halted = {}
    /\ form = [q \in Pages |-> Ready] /\ view = [q \in Pages |-> NoView]

Next ==
    \/ \E email \in Emails, password \in Passwords :
          \/ \E t \in Tokens : RegisterAccount(email, password, t) \/ SignIn(email, password, t)
          \/ RegisterInterrupted(email, password)
    \/ SignOut \/ DropExpired
    \/ \E q \in Pages :
          \/ Refresh(q) \/ SubmitFails(q)
          \/ \E s \in Sites, width \in Widths : SubmitSite(q, s, width)
          \/ \E r \in Robots : SubmitRobot(q, r)
          \/ \E k \in Builds, reach \in Reaches :
                \/ SubmitBuild(q, k, reach)
                \/ \E s \in Sites, r \in Robots : AddBuild(q, s, r, k, reach)
    \/ \E k \in Keys : Restart(k)
    \/ Tick

Spec == Init /\ [][Next]_vars

-----------------------------------------------------------------------------
(* Whoever signs in or out between two calls of a form, no row hangs on    *)
(* another account's: a robot stands on a site of its account, a build is  *)
(* of a robot of its site and runs inside the warehouse that the site      *)
(* committed to, and the operator's secret is the committed one under      *)
(* every key that opens it.                                                *)
RowsAgree ==
    /\ \A r \in Robots :
          robots[r] # Unused => sites[robots[r].site].account = robots[r].account
    /\ \A k \in Builds :
          LET build == builds[k]
          IN  build # Unused =>
                 /\ robots[build.robot] = [account |-> build.account, site |-> build.site]
                 /\ sites[build.site].account = build.account
                 /\ build.reach <= sites[build.site].commitment[2]
    /\ \A s \in Sites :
          sites[s] # Unused =>
              OperatorSecret(s) = IF sites[s].cipher[2] = key
                                  THEN [width |-> sites[s].commitment[2]]
                                  ELSE [error |-> "POLICY_UNAVAILABLE"]

(* A site without a robot, or whose robots have no build, is the one some   *)
(* form is working on or what a submission that failed has left, however   *)
(* many forms run at once and whatever the pages load meanwhile.           *)
StraysAreOfFailedSetups ==
    \A s \in Sites :
        sites[s] # Unused /\ ~(\E k \in Builds : builds[k] # Unused /\ builds[k].site = s)
            => s \in halted \/ \E q \in Pages : form[q].site = s

(* "Return to site setup to register the first build for this account":    *)
(* while a page that is up to date shows a site and no build, and no       *)
(* submission is under way, the form behind that link has a robot of the   *)
(* site to offer.                                                          *)
FirstBuildIsPossible ==
    \A q \in Pages :
        /\ view[q].sites # {} /\ view[q].builds = {} /\ view[q] = Loaded
        /\ \A other \in Pages : form[other].step = "READY"
        => \E r \in view[q].robots : robots[r].site \in FirstSites(q)
=============================================================================
