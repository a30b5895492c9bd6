------------------------------- MODULE Browser -------------------------------
(***************************************************************************)
(* The web client (apps/web): tabs of one browser, the session token they  *)
(* share, and the request one page hands to the next through the tab's     *)
(* sessionStorage.                                                         *)
(*                                                                         *)
(* Every call reads the token when it is sent and its answer is applied    *)
(* when it arrives, by then perhaps to a page that has been left: live is  *)
(* TRUE while the component that made the call is still mounted.  State of *)
(* a component that is gone no longer changes; tokens, storage and the     *)
(* router do, unless the code asks whether it is still active.             *)
(*                                                                         *)
(* The server is reduced to its sessions and to the owner of each prepared *)
(* request; every call may fail, before or after it was served.            *)
(***************************************************************************)
EXTENDS Naturals, FiniteSets

CONSTANTS
    Tabs, Accounts, Prepared,
    Tokens, AccountOf,   \* session tokens, each issued once, to its account
    MaxCalls,            \* calls in flight in a tab
    DemoRoutes,          \* development fixture routes enabled
    Nobody

ASSUME BrowserAssumption ==
    /\ AccountOf \in [Tokens -> Accounts]
    /\ DemoRoutes \in BOOLEAN
    /\ Nobody \notin Accounts \cup Tokens \cup Prepared \cup {"DEMO"}

VARIABLES
    tabs,      \* tab -> the mounted page
    local,     \* token in localStorage, shared by the tabs
    own,       \* tab -> token in its sessionStorage
    storage,   \* tab -> handed-off request in its sessionStorage
    cookie,    \* session cookie, shared by the tabs
    calls,     \* calls in flight
    sessions,  \* tokens the server accepts
    issued,    \* tokens ever issued
    creator    \* request -> who prepared it: an account, "DEMO", or Nobody before

browserVars == <<tabs, local, own, storage, cookie, calls, sessions, issued, creator>>
serverVars == <<sessions, issued, creator>>
tokenVars == <<local, own, cookie>>

OrNobody(S) == S \cup {Nobody}

\* What the workspace shows: the account it names and the account whose records it lists.
Data == [account : Accounts, records : Accounts]

Page == [screen : {"START", "APP", "LEDGER", "DEMO", "DEMO_LEDGER"},
         state : {"CHECKING", "READY", "FAILED"},
         data : OrNobody(Data), shown : OrNobody(Prepared), viewer : OrNobody(Accounts),
         selection : {"unsafe", "corrected", "mutated"}, signingOut : BOOLEAN]

Handoff == [scope : {"account"}, account : Accounts, request : Prepared]
      \cup [scope : {"demo"}, request : Prepared]

Kinds == {"SIGN_IN", "PROBE", "REFRESH", "PREPARE", "SIGN_OUT", "LEDGER_PROBE", "DEMO_PREPARE"}

\* account: what the call knows when it is sent; answer: what the server said.
Call == [kind : Kinds, tab : Tabs, live : BOOLEAN, first : BOOLEAN, data : OrNobody(Data),
         answer : {"NONE", "ACCOUNT", "OK", "DENIED"},
         account : OrNobody(Accounts), request : OrNobody(Prepared), token : OrNobody(Tokens)]

BrowserTypeOK ==
    /\ tabs \in [Tabs -> Page]
    /\ local \in OrNobody(Tokens) /\ cookie \in OrNobody(Tokens)
    /\ own \in [Tabs -> OrNobody(Tokens)]
    /\ storage \in [Tabs -> OrNobody(Handoff)]
    /\ calls \subseteq Call
    /\ sessions \subseteq issued /\ issued \subseteq Tokens
    /\ creator \in [Prepared -> Accounts \cup {"DEMO", Nobody}]

-----------------------------------------------------------------------------
(* getClientSessionToken, then the cookie the server falls back to when no *)
(* token is sent; a token that is sent and refused is not replaced.        *)
TokenOf(t) ==
    IF local # Nobody THEN local ELSE IF own[t] # Nobody THEN own[t] ELSE cookie

Caller(t) == IF TokenOf(t) \in sessions THEN AccountOf[TokenOf(t)] ELSE Nobody

SetClientSessionToken(t, token) ==
    /\ local' = token
    /\ own' = [own EXCEPT ![t] = token]

Blank(screen) == [screen |-> screen, state |-> "CHECKING", data |-> Nobody, shown |-> Nobody,
                  viewer |-> Nobody, selection |-> "unsafe", signingOut |-> FALSE]

NewCall(kind, t) ==
    [kind |-> kind, tab |-> t, live |-> TRUE, first |-> FALSE, data |-> Nobody,
     answer |-> "NONE", account |-> Nobody, request |-> Nobody, token |-> Nobody]

Of(t) == {call \in calls : call.tab = t}
Pending(kind, t) == \E call \in Of(t) : call.kind = kind /\ call.live

\* The component that made these calls is unmounted.
Left(set, t) == {IF call.tab = t THEN [call EXCEPT !.live = FALSE] ELSE call : call \in set}

\* What mounting a screen asks the server.
MountCall(screen, t) ==
    CASE screen = "START"  -> {NewCall("PROBE", t)}
      [] screen = "APP"    -> {[NewCall("REFRESH", t) EXCEPT !.first = TRUE]}
      [] screen = "LEDGER" -> {NewCall("LEDGER_PROBE", t)}
      [] OTHER             -> {}

\* Client-side navigation; calls that were made go on.
Route(t, screen, set) ==
    /\ tabs' = [tabs EXCEPT ![t] = Blank(screen)]
    /\ calls' = Left(set, t) \cup MountCall(screen, t)

Send(call) ==
    /\ Cardinality(Of(call.tab)) < MaxCalls
    /\ calls' = calls \cup {call}

Replace(call, updated) == calls' = (calls \ {call}) \cup {updated}

-----------------------------------------------------------------------------
\* The user follows a link or the history within the application.
Navigate(t, screen) ==
    /\ screen \in {"START", "APP", "LEDGER"} /\ tabs[t].screen \in {"START", "APP", "LEDGER"}
    /\ screen # tabs[t].screen
    /\ Cardinality(Of(t)) < MaxCalls
    /\ Route(t, screen, calls)
    /\ UNCHANGED <<tokenVars, storage, serverVars>>

\* The page is loaded afresh: nothing of what was pending runs on.
Load(t, screen) ==
    /\ screen \in {"DEMO", "DEMO_LEDGER"} => DemoRoutes
    /\ tabs' = [tabs EXCEPT ![t] =
          IF screen = "DEMO" THEN [Blank(screen) EXCEPT !.state = "READY"]
          ELSE IF screen = "DEMO_LEDGER" /\ storage[t] # Nobody /\ storage[t].scope = "demo"
               THEN [Blank(screen) EXCEPT !.state = "READY", !.shown = storage[t].request]
               ELSE Blank(screen)]
    /\ calls' = (calls \ Of(t)) \cup MountCall(screen, t)
    /\ storage' = [storage EXCEPT ![t] =
          IF \/ screen = "DEMO"
             \/ screen = "DEMO_LEDGER" /\ @ # Nobody /\ @.scope # "demo"
          THEN Nobody ELSE @]
    /\ UNCHANGED <<tokenVars, serverVars>>

\* A network error: the call is over; a page that waited for it says so.
Lose(call) ==
    /\ calls' = calls \ {call}
    /\ IF call.live /\ (call.kind \in {"PROBE", "LEDGER_PROBE"} \/ call.first)
       THEN tabs' = [tabs EXCEPT ![call.tab].state = "FAILED"]
       ELSE IF call.live /\ call.kind = "SIGN_OUT"
            THEN tabs' = [tabs EXCEPT ![call.tab].signingOut = FALSE]
            ELSE UNCHANGED tabs
    /\ storage' = IF call.live /\ call.kind = "LEDGER_PROBE"
                  THEN [storage EXCEPT ![call.tab] = Nobody] ELSE storage
    /\ UNCHANGED <<tokenVars, serverVars>>

ExpireSession(token) ==
    /\ token \in sessions
    /\ sessions' = sessions \ {token}
    /\ UNCHANGED <<tabs, tokenVars, storage, calls, issued, creator>>

-----------------------------------------------------------------------------
(* Account entry (onboarding-flow.tsx).                                    *)

\* Mutant: a late answer is applied by the page that was left.
AlwaysActive(call) == TRUE

Active(call) == call.live

\* GET /auth/me as every first call uses it.
ServeProbe(call) ==
    /\ call.kind \in {"PROBE", "LEDGER_PROBE"} /\ call.answer = "NONE"
    /\ Replace(call, [call EXCEPT !.account = Caller(call.tab),
          !.answer = IF Caller(call.tab) = Nobody THEN "DENIED" ELSE "OK"])
    /\ UNCHANGED <<tabs, tokenVars, storage, serverVars>>

ProbeAnswered(call) ==
    /\ call.kind = "PROBE" /\ call.answer # "NONE"
    /\ IF ~Active(call)
       THEN calls' = calls \ {call} /\ UNCHANGED <<tabs, local, own>>
       ELSE IF call.answer = "OK"
            THEN Route(call.tab, "APP", calls \ {call}) /\ UNCHANGED <<local, own>>
            ELSE /\ SetClientSessionToken(call.tab, Nobody)
                 /\ tabs' = [tabs EXCEPT ![call.tab].state = "READY"]
                 /\ calls' = calls \ {call}
    /\ UNCHANGED <<cookie, storage, serverVars>>

\* POST /auth/sign-in or /auth/register: the form is disabled while one is pending.
SubmitEntry(t) ==
    /\ tabs[t].screen = "START" /\ tabs[t].state = "READY"
    /\ ~Pending("SIGN_IN", t)
    /\ Send(NewCall("SIGN_IN", t))
    /\ UNCHANGED <<tabs, tokenVars, storage, serverVars>>

ServeSignIn(call, token) ==
    /\ call.kind = "SIGN_IN" /\ call.answer = "NONE"
    /\ token \in Tokens \ issued
    /\ issued' = issued \cup {token} /\ sessions' = sessions \cup {token}
    /\ cookie' = token
    /\ Replace(call, [call EXCEPT !.answer = "OK", !.token = token])
    /\ UNCHANGED <<tabs, local, own, storage, creator>>

SignedIn(call) ==
    /\ call.kind = "SIGN_IN" /\ call.answer = "OK"
    /\ SetClientSessionToken(call.tab, call.token)
    /\ Route(call.tab, "APP", calls \ {call})
    /\ UNCHANGED <<cookie, storage, serverVars>>

-----------------------------------------------------------------------------
(* The workspace (real-workspace.tsx).                                     *)

\* refresh() of a mounted page: polling, after an evaluation, after a preparation.
Refresh(t) ==
    /\ tabs[t].screen = "APP" /\ tabs[t].data # Nobody
    /\ ~Pending("REFRESH", t)
    /\ Send(NewCall("REFRESH", t))
    /\ UNCHANGED <<tabs, tokenVars, storage, serverVars>>

\* The account first, then its sites, robots, builds, evaluations and releases.
ServeRefresh(call) ==
    /\ call.kind = "REFRESH" /\ call.answer \in {"NONE", "ACCOUNT"}
    /\ LET caller == Caller(call.tab)
       IN  Replace(call,
             IF caller = Nobody THEN [call EXCEPT !.answer = "DENIED"]
             ELSE IF call.answer = "NONE"
                  THEN [call EXCEPT !.answer = "ACCOUNT", !.account = caller]
                  ELSE [call EXCEPT !.answer = "OK",
                           !.data = [account |-> call.account, records |-> caller]])
    /\ UNCHANGED <<tabs, tokenVars, storage, serverVars>>

Refreshed(call) ==
    /\ call.kind = "REFRESH" /\ call.answer = "OK"
    /\ calls' = calls \ {call}
    /\ tabs' = IF call.live
               THEN [tabs EXCEPT ![call.tab].data = call.data, ![call.tab].state = "READY"]
               ELSE tabs
    /\ UNCHANGED <<tokenVars, storage, serverVars>>

\* Only the refresh of the mount looks at a 401, and only while it is active.
RefreshDenied(call) ==
    /\ call.kind = "REFRESH" /\ call.answer = "DENIED"
    /\ IF call.first /\ Active(call)
       THEN /\ SetClientSessionToken(call.tab, Nobody)
            /\ Route(call.tab, "START", calls \ {call})
       ELSE calls' = calls \ {call} /\ UNCHANGED <<tabs, local, own>>
    /\ UNCHANGED <<cookie, storage, serverVars>>

\* ReleasesView: the label and the evaluation are those on the screen.
Prepare(t) ==
    /\ tabs[t].screen = "APP" /\ tabs[t].data # Nobody
    /\ ~Pending("PREPARE", t)
    /\ Send([NewCall("PREPARE", t) EXCEPT !.data = tabs[t].data])
    /\ UNCHANGED <<tabs, tokenVars, storage, serverVars>>

\* POST /releases/prepare finds the evaluation only in the caller's account.
ServePrepare(call, request) ==
    /\ call.kind = "PREPARE" /\ call.answer = "NONE"
    /\ Caller(call.tab) = call.data.records
    /\ creator[request] = Nobody
    /\ creator' = [creator EXCEPT ![request] = Caller(call.tab)]
    /\ Replace(call, [call EXCEPT !.answer = "OK", !.request = request])
    /\ UNCHANGED <<tabs, tokenVars, storage, sessions, issued>>

Label(call) == call.data.account

\* The request is stored, whatever has become of the page, and the data refreshed.
PreparedAnswered(call) ==
    /\ call.kind = "PREPARE" /\ call.answer = "OK"
    /\ storage' = [storage EXCEPT ![call.tab] =
          [scope |-> "account", account |-> Label(call), request |-> call.request]]
    /\ Replace(call, [NewCall("REFRESH", call.tab) EXCEPT !.live = call.live])
    /\ UNCHANGED <<tabs, tokenVars, serverVars>>

SignOut(t) ==
    /\ tabs[t].screen = "APP" /\ tabs[t].data # Nobody /\ ~tabs[t].signingOut
    /\ Send(NewCall("SIGN_OUT", t))
    /\ tabs' = [tabs EXCEPT ![t].signingOut = TRUE]
    /\ UNCHANGED <<tokenVars, storage, serverVars>>

ServeSignOut(call) ==
    /\ call.kind = "SIGN_OUT" /\ call.answer = "NONE"
    /\ sessions' = sessions \ {TokenOf(call.tab)}
    /\ cookie' = Nobody
    /\ Replace(call, [call EXCEPT !.answer = "OK"])
    /\ UNCHANGED <<tabs, local, own, storage, issued, creator>>

SignedOut(call) ==
    /\ call.kind = "SIGN_OUT" /\ call.answer = "OK"
    /\ SetClientSessionToken(call.tab, Nobody)
    /\ storage' = [storage EXCEPT ![call.tab] = Nobody]
    /\ Route(call.tab, "START", calls \ {call})
    /\ UNCHANGED <<cookie, serverVars>>

-----------------------------------------------------------------------------
(* The operator page's effect (p5-ledger/operator-page.tsx).               *)

MayLoad(handoff, account) ==
    /\ handoff # Nobody /\ handoff.scope = "account"
    /\ handoff.account = account

LedgerProbeAnswered(call) ==
    LET t == call.tab
        handoff == storage[t]
    IN  /\ call.kind = "LEDGER_PROBE" /\ call.answer # "NONE"
        /\ IF ~Active(call)
           THEN calls' = calls \ {call} /\ UNCHANGED <<tabs, storage>>
           ELSE IF call.answer = "DENIED"
                THEN /\ storage' = [storage EXCEPT ![t] = Nobody]
                     /\ Route(t, "START", calls \ {call})
                ELSE /\ tabs' = [tabs EXCEPT ![t].state = "READY", ![t].viewer = call.account,
                            ![t].shown = IF MayLoad(handoff, call.account)
                                         THEN handoff.request ELSE Nobody]
                     /\ storage' = IF MayLoad(handoff, call.account) THEN storage
                                   ELSE [storage EXCEPT ![t] = Nobody]
                     /\ calls' = calls \ {call}
        /\ UNCHANGED <<tokenVars, serverVars>>

\* Try again after a failed probe, on either page that has the button.
RetryProbe(t) ==
    /\ tabs[t].state = "FAILED" /\ tabs[t].screen \in {"START", "LEDGER"}
    /\ Cardinality(Of(t)) < MaxCalls
    /\ Route(t, tabs[t].screen, calls)
    /\ UNCHANGED <<tokenVars, storage, serverVars>>

-----------------------------------------------------------------------------
(* The development dashboard (judge-dashboard.tsx).                        *)

\* Mutant: another selection leaves the pending request current.
KeepPending(t) == calls

InvalidatePending(t) == Left(calls, t)

SelectBuild(t, selection) ==
    /\ tabs[t].screen = "DEMO"
    /\ selection = "mutated" => tabs[t].selection = "corrected"
    /\ tabs' = [tabs EXCEPT ![t].selection = selection, ![t].shown = Nobody]
    /\ storage' = [storage EXCEPT ![t] = Nobody]
    /\ calls' = InvalidatePending(t)
    /\ UNCHANGED <<tokenVars, serverVars>>

RequestLedgerApproval(t) ==
    /\ tabs[t].screen = "DEMO" /\ tabs[t].selection = "corrected" /\ tabs[t].shown = Nobody
    /\ ~Pending("DEMO_PREPARE", t)
    /\ Send(NewCall("DEMO_PREPARE", t))
    /\ UNCHANGED <<tabs, tokenVars, storage, serverVars>>

ServeDemoPrepare(call, request) ==
    /\ call.kind = "DEMO_PREPARE" /\ call.answer = "NONE"
    /\ creator[request] = Nobody
    /\ creator' = [creator EXCEPT ![request] = "DEMO"]
    /\ Replace(call, [call EXCEPT !.answer = "OK", !.request = request])
    /\ UNCHANGED <<tabs, tokenVars, storage, sessions, issued>>

\* An answer of an older generation is dropped.
DemoPrepared(call) ==
    /\ call.kind = "DEMO_PREPARE" /\ call.answer = "OK"
    /\ calls' = calls \ {call}
    /\ IF call.live
       THEN /\ storage' = [storage EXCEPT ![call.tab] =
                  [scope |-> "demo", request |-> call.request]]
            /\ tabs' = [tabs EXCEPT ![call.tab].shown = call.request]
       ELSE UNCHANGED <<tabs, storage>>
    /\ UNCHANGED <<tokenVars, serverVars>>

-----------------------------------------------------------------------------
BrowserInit ==
    /\ tabs = [t \in Tabs |-> Blank("START")]
    /\ local = Nobody /\ cookie = Nobody
    /\ own = [t \in Tabs |-> Nobody]
    /\ storage = [t \in Tabs |-> Nobody]
    /\ calls = {NewCall("PROBE", t) : t \in Tabs}
    /\ sessions = {} /\ issued = {}
    /\ creator = [p \in Prepared |-> Nobody]

UserStep(t) ==
    \/ \E screen \in {"START", "APP", "LEDGER"} : Navigate(t, screen)
    \/ \E screen \in {"START", "APP", "LEDGER", "DEMO", "DEMO_LEDGER"} : Load(t, screen)
    \/ SubmitEntry(t) \/ Refresh(t) \/ Prepare(t) \/ SignOut(t) \/ RetryProbe(t)
    \/ \E selection \in {"unsafe", "corrected", "mutated"} : SelectBuild(t, selection)
    \/ RequestLedgerApproval(t)

ServerStep(call) ==
    \/ ServeProbe(call) \/ ServeRefresh(call) \/ ServeSignOut(call)
    \/ \E token \in Tokens : ServeSignIn(call, token)
    \/ \E request \in Prepared : ServePrepare(call, request) \/ ServeDemoPrepare(call, request)

Arrive(call) ==
    \/ ProbeAnswered(call) \/ SignedIn(call) \/ Refreshed(call) \/ RefreshDenied(call)
    \/ PreparedAnswered(call) \/ SignedOut(call) \/ LedgerProbeAnswered(call)
    \/ DemoPrepared(call)

BrowserNext ==
    \/ \E t \in Tabs : UserStep(t)
    \/ \E call \in calls : ServerStep(call) \/ Arrive(call) \/ Lose(call)
    \/ \E token \in Tokens : ExpireSession(token)

BrowserSpec == BrowserInit /\ [][BrowserNext]_browserVars

-----------------------------------------------------------------------------
(* A private handoff is available only to the account that created it:     *)
(* what the operator page shows an account was prepared by that account,   *)
(* whoever signed in and out while it was prepared and handed over.        *)
HandoffIsPrivate ==
    \A t \in Tabs :
        tabs[t].screen = "LEDGER" /\ tabs[t].shown # Nobody => creator[tabs[t].shown] = tabs[t].viewer

(* A tab's late answers never discard the session the tab has obtained     *)
(* since: while the token in use is the one the tab was given, and the     *)
(* server accepts it, the tab drops it only when it signs out.  (Another   *)
(* tab may: an answer refused before the sign-in clears the shared token.) *)
SessionIsNotDiscarded ==
    [][\A t \in Tabs :
          (own[t] = local /\ local \in sessions)
             => own'[t] # Nobody \/ \E call \in Of(t) : SignedOut(call)]_browserVars

(* The dashboard's handoff is the request of the current selection; the    *)
(* fixture's requests never show up on an account's operator page.         *)
DemoHandoffIsCurrent ==
    \A t \in Tabs :
        /\ tabs[t].screen = "DEMO" /\ storage[t] # Nobody =>
              /\ tabs[t].selection = "corrected"
              /\ storage[t].request = tabs[t].shown
        /\ tabs[t].screen = "DEMO_LEDGER" /\ tabs[t].shown # Nobody
              => creator[tabs[t].shown] = "DEMO"
=============================================================================
