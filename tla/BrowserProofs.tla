----------------------------- MODULE BrowserProofs -----------------------------
(***************************************************************************)
(* What the web client guarantees for any number of tabs, accounts,        *)
(* session tokens, requests and calls in flight: no late answer discards   *)
(* the session a tab has obtained since, and the dashboard's handoff is    *)
(* the request of its current selection.                                   *)
(***************************************************************************)
EXTENDS Browser, TLAPS

AccountScreens == {"START", "APP", "LEDGER"}
Screens == AccountScreens \cup {"DEMO", "DEMO_LEDGER"}

\* What a call names by the time it is in this state.
Formed(call) ==
    /\ call.kind = "REFRESH" /\ call.answer = "ACCOUNT" => call.account \in Accounts
    /\ call.kind = "PREPARE" => call.data \in Data
    /\ call.kind \in {"PREPARE", "DEMO_PREPARE"} /\ call.answer = "OK" => call.request \in Prepared

FormedCall == {call \in Call : Formed(call)}

BrowserTypes == BrowserTypeOK /\ calls \subseteq FormedCall

\* The answer of a sign-in that has not arrived: the token is the server's and its own only.
Holds(call) == call.kind = "SIGN_IN" /\ call.answer = "OK"

\* An answer that makes the page that asked drop its session.
Denied(call) ==
    /\ call.live
    /\ \/ call.kind = "PROBE" /\ call.answer \notin {"NONE", "OK"}
       \/ call.kind = "REFRESH" /\ call.first /\ call.answer = "DENIED"

InUse(t) == own[t] = local /\ local \in sessions

\* Tokens in use were issued, and one that is still on its way is nowhere else.
TokensInv ==
    /\ local \in OrNobody(issued)
    /\ \A t \in Tabs : own[t] \in OrNobody(issued)
    /\ \A call \in calls : Holds(call) =>
          /\ call.token \in issued /\ call.token # local
          /\ \A t \in Tabs : own[t] # call.token
    /\ \A c, d \in calls : Holds(c) /\ Holds(d) /\ c.token = d.token => c = d
    /\ \A call \in calls : Denied(call) => ~InUse(call.tab)

\* Which calls a tab can have, by the page it shows.
CallOnPage(call) ==
    /\ call.kind # "DEMO_PREPARE" => tabs[call.tab].screen \in AccountScreens
    /\ call.kind = "DEMO_PREPARE" =>
          /\ tabs[call.tab].screen = "DEMO"
          /\ call.live => tabs[call.tab].selection = "corrected"
          /\ call.answer = "OK" => creator[call.request] = "DEMO"

HandoffOnPage(t) ==
    /\ storage[t] # Nobody /\ storage[t].scope = "demo" => creator[storage[t].request] = "DEMO"
    /\ tabs[t].screen = "DEMO" /\ storage[t] # Nobody =>
          tabs[t].selection = "corrected" /\ storage[t].request = tabs[t].shown
    /\ tabs[t].screen = "DEMO_LEDGER" /\ tabs[t].shown # Nobody
          => creator[tabs[t].shown] = "DEMO"

DemoInv ==
    /\ \A call \in calls : CallOnPage(call)
    /\ \A t \in Tabs : HandoffOnPage(t)

USE BrowserAssumption DEF OrNobody

-----------------------------------------------------------------------------
(* Shapes.                                                                 *)
LEMMA FormedIsCall == FormedCall \subseteq Call
BY DEF FormedCall

USE FormedIsCall

LEMMA TypeShape ==
    ASSUME BrowserTypes
    PROVE  /\ tabs \in [Tabs -> Page] /\ own \in [Tabs -> Tokens \cup {Nobody}]
           /\ local \in Tokens \cup {Nobody} /\ cookie \in Tokens \cup {Nobody}
           /\ storage \in [Tabs -> Handoff \cup {Nobody}] /\ calls \subseteq FormedCall
           /\ sessions \subseteq issued /\ issued \subseteq Tokens
           /\ creator \in [Prepared -> Accounts \cup {"DEMO", Nobody}]
BY DEF BrowserTypes, BrowserTypeOK

LEMMA CallShape ==
    ASSUME NEW call \in Call
    PROVE  /\ call.kind \in Kinds /\ call.tab \in Tabs /\ call.live \in BOOLEAN
           /\ call.first \in BOOLEAN /\ call.data \in Data \cup {Nobody}
           /\ call.answer \in {"NONE", "ACCOUNT", "OK", "DENIED"}
           /\ call.account \in Accounts \cup {Nobody} /\ call.request \in Prepared \cup {Nobody}
           /\ call.token \in Tokens \cup {Nobody}
BY DEF Call

LEMMA FormedShape ==
    ASSUME NEW call \in FormedCall
    PROVE  call \in Call /\ Formed(call)
BY DEF FormedCall

LEMMA PageShape ==
    ASSUME NEW page \in Page
    PROVE  /\ page.screen \in Screens /\ page.data \in Data \cup {Nobody}
           /\ page.shown \in Prepared \cup {Nobody} /\ page.viewer \in Accounts \cup {Nobody}
BY DEF Page, Screens, AccountScreens

LEMMA NewCallShape ==
    ASSUME NEW kind \in Kinds, NEW t \in Tabs, NEW call, call = NewCall(kind, t)
    PROVE  /\ call \in Call /\ call.kind = kind /\ call.tab = t /\ call.answer = "NONE"
           /\ call.live /\ ~call.first /\ call.request = Nobody
           /\ kind # "PREPARE" => call \in FormedCall
<1>1. /\ call \in Call /\ call.kind = kind /\ call.tab = t /\ call.answer = "NONE"
      /\ call.live /\ ~call.first /\ call.request = Nobody
  BY DEF NewCall, Call
<1> QED BY <1>1 DEF FormedCall, Formed

LEMMA BlankShape ==
    ASSUME NEW screen \in Screens
    PROVE  /\ Blank(screen) \in Page /\ Blank(screen).screen = screen
           /\ Blank(screen).shown = Nobody
BY DEF Blank, Page, Screens, AccountScreens

LEMMA MountCallShape ==
    ASSUME NEW screen \in Screens, NEW t \in Tabs, NEW call \in MountCall(screen, t)
    PROVE  /\ call \in FormedCall /\ call.answer = "NONE" /\ call.tab = t
           /\ call.kind \in {"PROBE", "REFRESH", "LEDGER_PROBE"}
           /\ screen \in AccountScreens
<1>1. CASE screen = "START"
  <2>1. call = NewCall("PROBE", t)
    BY <1>1 DEF MountCall
  <2> QED BY <1>1, <2>1, NewCallShape DEF Kinds, AccountScreens
<1>2. CASE screen = "APP"
  <2>1. PICK fresh : fresh = NewCall("REFRESH", t)
    OBVIOUS
  <2>2. call = [fresh EXCEPT !.first = TRUE]
    BY <1>2, <2>1 DEF MountCall
  <2>3. fresh \in Call /\ fresh.kind = "REFRESH" /\ fresh.tab = t /\ fresh.answer = "NONE"
    BY <2>1, NewCallShape DEF Kinds
  <2>4. call \in Call /\ call.kind = "REFRESH" /\ call.answer = "NONE" /\ call.tab = t
    BY <2>2, <2>3 DEF Call
  <2> QED BY <1>2, <2>4 DEF FormedCall, Formed, AccountScreens
<1>3. CASE screen = "LEDGER"
  <2>1. call = NewCall("LEDGER_PROBE", t)
    BY <1>3 DEF MountCall
  <2> QED BY <1>3, <2>1, NewCallShape DEF Kinds, AccountScreens
<1>4. CASE screen \in {"DEMO", "DEMO_LEDGER"}
  BY <1>4 DEF MountCall
<1> QED BY <1>1, <1>2, <1>3, <1>4 DEF Screens, AccountScreens

\* What becomes of a call in flight when its page is left.
LEMMA LateShape ==
    ASSUME NEW c \in FormedCall, NEW d, d = [c EXCEPT !.live = FALSE]
    PROVE  /\ d \in FormedCall /\ ~d.live /\ d.tab = c.tab /\ d.kind = c.kind /\ d.token = c.token
           /\ d.answer = c.answer /\ d.request = c.request /\ d.first = c.first
<1>1. c \in Call /\ Formed(c)
  BY FormedShape
<1>2. /\ d \in Call /\ ~d.live /\ d.tab = c.tab /\ d.kind = c.kind /\ d.token = c.token
      /\ d.answer = c.answer /\ d.request = c.request /\ d.first = c.first
      /\ d.data = c.data /\ d.account = c.account
  BY <1>1 DEF Call
<1> QED BY <1>1, <1>2 DEF FormedCall, Formed

LEMMA LeftShape ==
    ASSUME NEW S \in SUBSET FormedCall, NEW t \in Tabs, NEW d \in Left(S, t)
    PROVE  \E c \in S : /\ c.tab # t => d = c
                        /\ c.tab = t => d = [c EXCEPT !.live = FALSE]
BY DEF Left

\* Every call that a page change leaves is one that was there, or is made by the page.
LEMMA RouteShape ==
    ASSUME BrowserTypes, NEW t \in Tabs, NEW screen \in Screens, NEW S \in SUBSET calls,
           Route(t, screen, S)
    PROVE  /\ tabs' \in [Tabs -> Page] /\ tabs'[t] = Blank(screen)
           /\ \A u \in Tabs \ {t} : tabs'[u] = tabs[u]
           /\ calls' \subseteq FormedCall
           /\ calls' \subseteq Left(S, t) \cup MountCall(screen, t)
<1>1. tabs \in [Tabs -> Page] /\ calls \subseteq FormedCall
  BY TypeShape
<1>2. calls' = Left(S, t) \cup MountCall(screen, t) /\ tabs' = [tabs EXCEPT ![t] = Blank(screen)]
  BY DEF Route
<1>3. ASSUME NEW d \in Left(S, t) PROVE d \in FormedCall
  <2>1. PICK c \in S : d = IF c.tab = t THEN [c EXCEPT !.live = FALSE] ELSE c
    BY <1>3 DEF Left
  <2>2. c \in FormedCall
    BY <1>1
  <2> QED BY <2>1, <2>2, LateShape
<1> QED BY <1>1, <1>2, <1>3, BlankShape, MountCallShape

-----------------------------------------------------------------------------
(* Types.                                                                  *)
LEMMA UserStepTypes ==
    ASSUME BrowserTypes, NEW t \in Tabs, UserStep(t)
    PROVE  BrowserTypes'
<1> USE DEF BrowserTypes, BrowserTypeOK
<1>0. /\ tabs[t] \in Page /\ storage[t] \in Handoff \cup {Nobody}
      /\ "START" \in Screens /\ "APP" \in Screens /\ "LEDGER" \in Screens
  BY DEF Screens, AccountScreens
<1>1. ASSUME NEW screen \in Screens, Route(t, screen, calls),
             UNCHANGED <<tokenVars, storage, serverVars>>
      PROVE  BrowserTypes'
  <2>1. calls \in SUBSET calls
    OBVIOUS
  <2>2. tabs' \in [Tabs -> Page] /\ calls' \subseteq FormedCall
    BY <1>1, <2>1, RouteShape
  <2> QED BY <1>1, <2>2 DEF tokenVars, serverVars
<1>2. ASSUME NEW screen \in {"START", "APP", "LEDGER"}, Navigate(t, screen)
      PROVE  BrowserTypes'
  BY <1>0, <1>1, <1>2 DEF Navigate
<1>3. CASE RetryProbe(t)
  BY <1>0, <1>1, <1>3 DEF RetryProbe
<1>4. ASSUME NEW screen \in Screens, Load(t, screen)
      PROVE  BrowserTypes'
  <2>1. PICK blank \in Page : blank = Blank(screen)
    BY <1>4, BlankShape
  <2>2. [blank EXCEPT !.state = "READY"] \in Page
    BY DEF Page
  <2>3. storage[t] # Nobody /\ storage[t].scope = "demo" =>
           [blank EXCEPT !.state = "READY", !.shown = storage[t].request] \in Page
    BY <1>0 DEF Page, Handoff
  <2>4. PICK page \in Page : tabs' = [tabs EXCEPT ![t] = page]
    BY <1>4, <2>1, <2>2, <2>3 DEF Load
  <2>5. storage' \in [Tabs -> Handoff \cup {Nobody}]
    BY <1>4 DEF Load
  <2>6. calls' \subseteq FormedCall
    BY <1>4, MountCallShape DEF Load
  <2> QED BY <1>4, <2>4, <2>5, <2>6 DEF Load, tokenVars, serverVars
<1>5. CASE SubmitEntry(t) \/ Refresh(t) \/ RequestLedgerApproval(t)
  <2>1. PICK kind \in Kinds \ {"PREPARE"} : calls' = calls \cup {NewCall(kind, t)}
    BY <1>5, NewCallShape DEF SubmitEntry, Refresh, RequestLedgerApproval, Send, Kinds
  <2> QED BY <1>5, <2>1, NewCallShape DEF SubmitEntry, Refresh, RequestLedgerApproval,
             tokenVars, serverVars
<1>6. CASE Prepare(t)
  <2>1. PICK fresh : fresh = NewCall("PREPARE", t)
    OBVIOUS
  <2>2. fresh \in Call /\ fresh.kind = "PREPARE" /\ fresh.answer = "NONE"
    BY <2>1, NewCallShape DEF Kinds
  <2>3. PICK data \in Data : data = tabs[t].data
    BY <1>0, <1>6, PageShape DEF Prepare
  <2>4. PICK asked : asked = [fresh EXCEPT !.data = data]
    OBVIOUS
  <2>5. asked \in Call /\ asked.kind = "PREPARE" /\ asked.answer = "NONE" /\ asked.data = data
    BY <2>2, <2>4 DEF Call
  <2>6. asked \in FormedCall
    BY <2>5 DEF FormedCall, Formed
  <2> QED BY <1>6, <2>1, <2>3, <2>4, <2>6 DEF Prepare, Send, tokenVars, serverVars
<1>7. CASE SignOut(t)
  <2>1. NewCall("SIGN_OUT", t) \in FormedCall
    BY NewCallShape DEF Kinds
  <2>2. [tabs[t] EXCEPT !.signingOut = TRUE] \in Page
    BY <1>0 DEF Page
  <2>3. tabs' = [tabs EXCEPT ![t] = [tabs[t] EXCEPT !.signingOut = TRUE]]
    BY <1>7 DEF SignOut
  <2> QED BY <1>7, <2>1, <2>2, <2>3 DEF SignOut, Send, tokenVars, serverVars
<1>8. ASSUME NEW selection \in {"unsafe", "corrected", "mutated"}, SelectBuild(t, selection)
      PROVE  BrowserTypes'
  <2>1. PICK page : page = [tabs[t] EXCEPT !.selection = selection, !.shown = Nobody]
    OBVIOUS
  <2>2. page \in Page
    BY <1>0, <2>1 DEF Page
  <2>3. tabs' = [tabs EXCEPT ![t] = page]
    BY <1>8, <2>1 DEF SelectBuild
  <2>4. ASSUME NEW d \in Left(calls, t) PROVE d \in FormedCall
    <3>1. PICK c \in calls : (c.tab # t => d = c) /\ (c.tab = t => d = [c EXCEPT !.live = FALSE])
      BY <2>4, LeftShape
    <3> QED BY <3>1, LateShape
  <2>5. calls' \subseteq FormedCall
    BY <1>8, <2>4 DEF SelectBuild, InvalidatePending
  <2>6. FormedCall \subseteq Call
    BY DEF FormedCall
  <2>7. tabs' \in [Tabs -> Page]
    BY <2>2, <2>3
  <2>8. storage' \in [Tabs -> OrNobody(Handoff)]
    BY <1>8 DEF SelectBuild, OrNobody
  <2> QED BY <1>8, <2>5, <2>6, <2>7, <2>8 DEF SelectBuild, tokenVars, serverVars
<1> QED BY <1>2, <1>3, <1>4, <1>5, <1>6, <1>7, <1>8 DEF UserStep, Screens, AccountScreens

LEMMA CallerShape ==
    ASSUME BrowserTypes, NEW t \in Tabs
    PROVE  /\ TokenOf(t) \in Tokens \cup {Nobody}
           /\ Caller(t) \in Accounts \cup {Nobody}
           /\ Caller(t) = Nobody <=> TokenOf(t) \notin sessions
BY TypeShape DEF TokenOf, Caller

LEMMA ServerStepTypes ==
    ASSUME BrowserTypes, NEW call \in calls, ServerStep(call)
    PROVE  BrowserTypes'
<1> USE DEF BrowserTypes, BrowserTypeOK
<1>0. call \in Call /\ call.tab \in Tabs /\ Formed(call)
  BY CallShape, FormedShape
<1>1. PICK caller \in Accounts \cup {Nobody} : caller = Caller(call.tab)
  BY <1>0, CallerShape
<1>2. CASE ServeProbe(call)
  <2>1. PICK answer \in {"DENIED", "OK"} :
           answer = IF caller = Nobody THEN "DENIED" ELSE "OK"
    OBVIOUS
  <2>2. PICK told : told = [call EXCEPT !.account = caller, !.answer = answer]
    OBVIOUS
  <2>3. told \in Call /\ told.kind = call.kind
    BY <1>0, <2>2 DEF Call
  <2>4. told \in FormedCall
    BY <1>2, <2>3 DEF FormedCall, Formed, ServeProbe
  <2> QED BY <1>1, <1>2, <2>1, <2>2, <2>4 DEF ServeProbe, Replace, tokenVars, serverVars
<1>3. CASE ServeRefresh(call)
  <2>1. [call EXCEPT !.answer = "DENIED"] \in FormedCall
    BY <1>0, <1>3 DEF FormedCall, Call, Formed, ServeRefresh
  <2>2. caller # Nobody => [call EXCEPT !.answer = "ACCOUNT", !.account = caller] \in FormedCall
    BY <1>0, <1>3 DEF FormedCall, Call, Formed, ServeRefresh
  <2>3. caller # Nobody /\ call.answer # "NONE" =>
           [call EXCEPT !.answer = "OK", !.data = [account |-> call.account, records |-> caller]]
              \in FormedCall
    BY <1>0, <1>3 DEF FormedCall, Call, Formed, Data, ServeRefresh
  <2> QED BY <1>1, <1>3, <2>1, <2>2, <2>3 DEF ServeRefresh, Replace, tokenVars, serverVars
<1>4. CASE ServeSignOut(call)
  <2>1. [call EXCEPT !.answer = "OK"] \in FormedCall
    BY <1>0, <1>4 DEF FormedCall, Call, Formed, ServeSignOut
  <2> QED BY <1>4, <2>1 DEF ServeSignOut, Replace
<1>5. ASSUME NEW token \in Tokens, ServeSignIn(call, token)
      PROVE  BrowserTypes'
  <2>1. [call EXCEPT !.answer = "OK", !.token = token] \in FormedCall
    BY <1>0, <1>5 DEF FormedCall, Call, Formed, ServeSignIn
  <2> QED BY <1>5, <2>1 DEF ServeSignIn, Replace
<1>6. ASSUME NEW request \in Prepared, ServePrepare(call, request)
      PROVE  BrowserTypes'
  <2>1. PICK told : told = [call EXCEPT !.answer = "OK", !.request = request]
    OBVIOUS
  <2>2. told \in Call /\ told.kind = call.kind /\ told.request = request /\ told.data = call.data
    BY <1>0, <2>1 DEF Call
  <2>3. told \in FormedCall
    BY <1>0, <1>6, <2>2 DEF FormedCall, Formed, ServePrepare
  <2> QED BY <1>1, <1>6, <2>1, <2>3 DEF ServePrepare, Replace, tokenVars
<1>7. ASSUME NEW request \in Prepared, ServeDemoPrepare(call, request)
      PROVE  BrowserTypes'
  <2>1. PICK told : told = [call EXCEPT !.answer = "OK", !.request = request]
    OBVIOUS
  <2>2. told \in Call /\ told.kind = call.kind /\ told.request = request
    BY <1>0, <2>1 DEF Call
  <2>3. told \in FormedCall
    BY <1>7, <2>2 DEF FormedCall, Formed, ServeDemoPrepare
  <2> QED BY <1>7, <2>1, <2>3 DEF ServeDemoPrepare, Replace, tokenVars
<1> QED BY <1>2, <1>3, <1>4, <1>5, <1>6, <1>7 DEF ServerStep

LEMMA ArriveTypes ==
    ASSUME BrowserTypes, NEW call \in calls, Arrive(call)
    PROVE  BrowserTypes'
<1> USE DEF BrowserTypes, BrowserTypeOK
<1>0. /\ call \in Call /\ call.tab \in Tabs /\ Formed(call) /\ call.kind \in Kinds
      /\ call.token \in Tokens \cup {Nobody} /\ call.data \in Data \cup {Nobody}
      /\ call.account \in Accounts \cup {Nobody} /\ call.live \in BOOLEAN
      /\ "START" \in Screens /\ "APP" \in Screens
      /\ calls \ {call} \in SUBSET calls
  BY CallShape, FormedShape DEF Screens, AccountScreens
<1>a. PICK t \in Tabs : t = call.tab
  BY <1>0
<1>b. tabs[t] \in Page /\ storage[t] \in Handoff \cup {Nobody}
  OBVIOUS
<1>1. ASSUME NEW screen \in Screens, Route(t, screen, calls \ {call})
      PROVE  tabs' \in [Tabs -> Page] /\ calls' \subseteq FormedCall
  BY <1>0, <1>1, RouteShape
<1>2. ASSUME NEW token \in Tokens \cup {Nobody}, SetClientSessionToken(t, token)
      PROVE  local' \in Tokens \cup {Nobody} /\ own' \in [Tabs -> Tokens \cup {Nobody}]
  BY <1>2 DEF SetClientSessionToken
<1>3. CASE ProbeAnswered(call)
  <2>1. [tabs[t] EXCEPT !.state = "READY"] \in Page
    BY <1>b DEF Page
  <2>2. tabs' \in [Tabs -> Page] /\ calls' \subseteq FormedCall
    BY <1>0, <1>a, <1>1, <1>3, <2>1 DEF ProbeAnswered
  <2> QED BY <1>0, <1>a, <1>2, <1>3, <2>2 DEF ProbeAnswered, serverVars
<1>4. CASE SignedIn(call)
  BY <1>0, <1>a, <1>1, <1>2, <1>4 DEF SignedIn, serverVars
<1>5. CASE Refreshed(call)
  <2>1. PICK page : page = [tabs[t] EXCEPT !.data = call.data, !.state = "READY"]
    OBVIOUS
  <2>2. page \in Page
    BY <1>0, <1>b, <2>1 DEF Page
  <2>3. tabs' = IF call.live THEN [tabs EXCEPT ![t] = page] ELSE tabs
    BY <1>a, <1>5, <2>1 DEF Refreshed
  <2>4. calls' \subseteq calls /\ UNCHANGED <<local, own, cookie, storage, sessions, issued, creator>>
    BY <1>5 DEF Refreshed, tokenVars, serverVars
  <2>5. tabs' \in [Tabs -> Page]
    BY <2>2, <2>3
  <2> QED BY <2>4, <2>5
<1>6. CASE RefreshDenied(call)
  BY <1>0, <1>a, <1>1, <1>2, <1>6 DEF RefreshDenied, serverVars
<1>7. CASE PreparedAnswered(call)
  <2>1. call.data \in Data /\ call.request \in Prepared
    BY <1>0, <1>7 DEF PreparedAnswered, Formed
  <2>2. [scope |-> "account", account |-> Label(call), request |-> call.request] \in Handoff
    BY <2>1 DEF Handoff, Label, Data
  <2>3. PICK fresh : fresh = NewCall("REFRESH", t)
    OBVIOUS
  <2>4. fresh \in Call /\ fresh.kind = "REFRESH" /\ fresh.answer = "NONE"
    BY <2>3, NewCallShape DEF Kinds
  <2>5. PICK again : again = [fresh EXCEPT !.live = call.live]
    OBVIOUS
  <2>6. again \in Call /\ again.kind = "REFRESH" /\ again.answer = "NONE"
    BY <1>0, <2>4, <2>5 DEF Call
  <2>7. again \in FormedCall
    BY <2>6 DEF FormedCall, Formed
  <2> QED BY <1>a, <1>7, <2>2, <2>3, <2>5, <2>7 DEF PreparedAnswered, Replace, tokenVars, serverVars
<1>8. CASE SignedOut(call)
  BY <1>0, <1>a, <1>1, <1>2, <1>8 DEF SignedOut, serverVars
<1>9. CASE LedgerProbeAnswered(call)
  <2>1. PICK shown : shown = IF MayLoad(storage[t], call.account) THEN storage[t].request ELSE Nobody
    OBVIOUS
  <2>2. shown \in Prepared \cup {Nobody}
    BY <1>b, <2>1 DEF MayLoad, Handoff
  <2>3. PICK page : page = [tabs[t] EXCEPT !.state = "READY", !.viewer = call.account, !.shown = shown]
    OBVIOUS
  <2>4. page \in Page
    BY <1>0, <1>b, <2>2, <2>3 DEF Page
  <2>5. ASSUME Active(call), call.answer # "DENIED"
        PROVE  tabs' = [tabs EXCEPT ![t] = page] /\ calls' = calls \ {call}
    BY <1>a, <1>9, <2>1, <2>3, <2>5 DEF LedgerProbeAnswered
  <2>6. tabs' \in [Tabs -> Page] /\ calls' \subseteq FormedCall
    BY <1>0, <1>a, <1>1, <1>9, <2>4, <2>5 DEF LedgerProbeAnswered
  <2>7. storage' \in [Tabs -> Handoff \cup {Nobody}]
    BY <1>a, <1>9 DEF LedgerProbeAnswered
  <2> QED BY <1>9, <2>6, <2>7 DEF LedgerProbeAnswered, tokenVars, serverVars
<1>10. CASE DemoPrepared(call)
  <2>1. call.request \in Prepared
    BY <1>0, <1>10 DEF DemoPrepared, Formed
  <2>2. [scope |-> "demo", request |-> call.request] \in Handoff
    BY <2>1 DEF Handoff
  <2>3. [tabs[t] EXCEPT !.shown = call.request] \in Page
    BY <1>b, <2>1 DEF Page
  <2> QED BY <1>a, <1>10, <2>2, <2>3 DEF DemoPrepared, tokenVars, serverVars
<1> QED BY <1>3, <1>4, <1>5, <1>6, <1>7, <1>8, <1>9, <1>10 DEF Arrive

LEMMA LossTypes ==
    ASSUME BrowserTypes, NEW call \in calls, Lose(call)
    PROVE  BrowserTypes'
<1> USE DEF BrowserTypes, BrowserTypeOK
<1>0. call.tab \in Tabs
  BY CallShape
<1>1. tabs[call.tab] \in Page
  BY <1>0
<1>2. /\ [tabs[call.tab] EXCEPT !.state = "FAILED"] \in Page
      /\ [tabs[call.tab] EXCEPT !.signingOut = FALSE] \in Page
  BY <1>1 DEF Page
<1>3. tabs' \in [Tabs -> Page]
  BY <1>0, <1>2 DEF Lose
<1> QED BY <1>0, <1>3 DEF Lose, tokenVars, serverVars

-----------------------------------------------------------------------------
(* The session tokens.                                                     *)

\* A call of which the tabs in T were left.
Late(c, T) == IF c.tab \in T THEN [c EXCEPT !.live = FALSE] ELSE c

\* A call that neither brings a token nor makes its tab drop the one in use.
Tame(call) == ~Holds(call) /\ (Denied(call) => ~InUse(call.tab))

LEMMA LateCall ==
    ASSUME NEW c \in FormedCall, NEW T, NEW d, d = Late(c, T)
    PROVE  /\ d.tab = c.tab /\ d.token = c.token /\ (Holds(d) <=> Holds(c))
           /\ Denied(d) => Denied(c)
<1>1. CASE c.tab \in T
  BY <1>1, LateShape DEF Late, Holds, Denied
<1> QED BY <1>1 DEF Late

LEMMA LeftIsLate ==
    ASSUME NEW S, NEW t, NEW d \in Left(S, t)
    PROVE  \E c \in S : d = Late(c, {t})
BY DEF Left, Late

\* A step that issues no token and puts none into use.
LEMMA TokensStep ==
    ASSUME BrowserTypes, BrowserTypes', TokensInv,
           local' \in {local, Nobody}, issued' = issued,
           \A u \in Tabs : own'[u] \in {own[u], Nobody},
           \A u \in Tabs : InUse(u)' => InUse(u),
           NEW T,
           \A d \in calls' : (\E c \in calls : d = Late(c, T)) \/ Tame(d)
    PROVE  TokensInv'
<1>1. calls \subseteq FormedCall /\ calls' \subseteq FormedCall
      /\ issued \subseteq Tokens /\ Nobody \notin Tokens
  BY TypeShape DEF BrowserTypes
<1>2. \A d \in calls' : d.tab \in Tabs
  BY <1>1, CallShape
<1>3. (local \in OrNobody(issued))' /\ \A t \in Tabs : (own[t] \in OrNobody(issued))'
  BY DEF TokensInv
<1>4. ASSUME NEW d \in calls', Holds(d)
      PROVE  \E c \in calls : d = Late(c, T) /\ Holds(c) /\ d.token = c.token
  BY <1>1, <1>4, LateCall DEF Tame
<1>5. ASSUME NEW d \in calls', Holds(d)
      PROVE  /\ d.token \in issued' /\ d.token # local'
             /\ \A t \in Tabs : own'[t] # d.token
  BY <1>1, <1>4, <1>5 DEF TokensInv
<1>6. ASSUME NEW c \in calls', NEW d \in calls', Holds(c), Holds(d), c.token = d.token
      PROVE  c = d
  BY <1>4, <1>6 DEF TokensInv
<1>7. ASSUME NEW d \in calls', Denied(d)
      PROVE  ~InUse(d.tab)'
  BY <1>1, <1>2, <1>7, LateCall DEF TokensInv, Tame
<1> QED BY <1>3, <1>5, <1>6, <1>7 DEF TokensInv

LEMMA SameIsLate == \A c : c = Late(c, {})
BY DEF Late

\* A call that was not answered yet.
LEMMA UnansweredIsTame ==
    ASSUME NEW call, call.answer = "NONE"
    PROVE  Tame(call)
BY DEF Tame, Holds, Denied

LEMMA UserStepTokens ==
    ASSUME BrowserTypes, BrowserTypes', TokensInv, NEW t \in Tabs, UserStep(t)
    PROVE  TokensInv'
<1>0. UNCHANGED <<local, own, sessions, issued>>
  BY DEF UserStep, Navigate, Load, SubmitEntry, Refresh, Prepare, SignOut, RetryProbe, SelectBuild,
         RequestLedgerApproval, tokenVars, serverVars
<1>1. ASSUME NEW T, \A d \in calls' : (\E c \in calls : d = Late(c, T)) \/ d.answer = "NONE"
      PROVE  TokensInv'
  <2>1. \A u \in Tabs : InUse(u)' => InUse(u)
    BY <1>0 DEF InUse
  <2> QED BY <1>0, <1>1, <2>1, UnansweredIsTame, TokensStep
<1>2. ASSUME NEW screen \in Screens, Route(t, screen, calls)
      PROVE  TokensInv'
  <2>1. calls' = Left(calls, t) \cup MountCall(screen, t)
    BY <1>2 DEF Route
  <2>2. \A d \in Left(calls, t) : \E c \in calls : d = Late(c, {t})
    BY LeftIsLate
  <2>3. \A d \in calls' : (\E c \in calls : d = Late(c, {t})) \/ d.answer = "NONE"
    BY <2>1, <2>2, MountCallShape
  <2> QED BY <1>1, <2>3
<1>3. ASSUME NEW screen \in Screens, Navigate(t, screen) PROVE TokensInv'
  BY <1>2, <1>3 DEF Navigate
<1>4. CASE RetryProbe(t)
  BY <1>2, <1>4 DEF RetryProbe, Screens, AccountScreens
<1>5. ASSUME NEW screen \in Screens, Load(t, screen) PROVE TokensInv'
  <2>1. \A d \in calls' : (\E c \in calls : d = Late(c, {})) \/ d.answer = "NONE"
    BY <1>5, SameIsLate, MountCallShape DEF Load
  <2> QED BY <1>1, <2>1
<1>6. ASSUME NEW call, call.answer = "NONE", Send(call) PROVE TokensInv'
  <2>1. \A d \in calls' : (\E c \in calls : d = Late(c, {})) \/ d.answer = "NONE"
    BY <1>6, SameIsLate DEF Send
  <2> QED BY <1>1, <2>1
<1>7. CASE SubmitEntry(t) \/ Refresh(t) \/ SignOut(t) \/ RequestLedgerApproval(t)
  <2>1. \A kind \in Kinds : NewCall(kind, t).answer = "NONE"
    BY NewCallShape
  <2> QED BY <1>6, <1>7, <2>1 DEF SubmitEntry, Refresh, SignOut, RequestLedgerApproval, Kinds
<1>8. CASE Prepare(t)
  <2>1. PICK fresh : fresh = NewCall("PREPARE", t)
    OBVIOUS
  <2>2. fresh \in Call /\ fresh.answer = "NONE"
    BY <2>1, NewCallShape DEF Kinds
  <2>3. [fresh EXCEPT !.data = tabs[t].data].answer = "NONE"
    BY <2>2 DEF Call
  <2> QED BY <1>6, <1>8, <2>1, <2>3 DEF Prepare
<1>9. ASSUME NEW selection, SelectBuild(t, selection) PROVE TokensInv'
  <2>1. \A d \in calls' : \E c \in calls : d = Late(c, {t})
    BY <1>9, LeftIsLate DEF SelectBuild, InvalidatePending
  <2> QED BY <1>1, <2>1
<1> QED BY <1>3, <1>4, <1>5, <1>7, <1>8, <1>9 DEF UserStep, Screens, AccountScreens

LEMMA LossTokens ==
    ASSUME BrowserTypes, BrowserTypes', TokensInv, NEW call \in calls, Lose(call)
    PROVE  TokensInv'
<1>1. UNCHANGED <<local, own, sessions, issued>> /\ calls' \subseteq calls
  BY DEF Lose, tokenVars, serverVars
<1>2. \A u \in Tabs : InUse(u)' => InUse(u)
  BY <1>1 DEF InUse
<1> QED BY <1>1, <1>2, SameIsLate, TokensStep

LEMMA ExpiryTokens ==
    ASSUME BrowserTypes, BrowserTypes', TokensInv, NEW token \in Tokens, ExpireSession(token)
    PROVE  TokensInv'
<1>1. UNCHANGED <<local, own, issued, calls>> /\ sessions' \subseteq sessions
  BY DEF ExpireSession, tokenVars
<1>2. \A u \in Tabs : InUse(u)' => InUse(u)
  BY <1>1 DEF InUse
<1> QED BY <1>1, <1>2, SameIsLate, TokensStep

\* What the server refuses is not the token in use.
LEMMA RefusedIsNotInUse ==
    ASSUME BrowserTypes, NEW t \in Tabs, Caller(t) = Nobody
    PROVE  ~InUse(t)
<1>1. TokenOf(t) \notin sessions /\ sessions \subseteq Tokens /\ Nobody \notin Tokens
  BY CallerShape, TypeShape
<1> QED BY <1>1 DEF TokenOf, InUse

LEMMA ServerStepTokens ==
    ASSUME BrowserTypes, BrowserTypes', TokensInv, NEW call \in calls, ServerStep(call)
    PROVE  TokensInv'
<1>0. call \in Call /\ call.tab \in Tabs
  BY TypeShape, CallShape
<1>1. ASSUME NEW told, Tame(told), Replace(call, told),
             UNCHANGED <<local, own, issued>>, sessions' \subseteq sessions
      PROVE  TokensInv'
  <2>1. \A u \in Tabs : InUse(u)' => InUse(u)
    BY <1>1 DEF InUse
  <2>2. \A d \in calls' : (\E c \in calls : d = Late(c, {})) \/ Tame(d)
    BY <1>1, SameIsLate DEF Replace
  <2> QED BY <1>1, <2>1, <2>2, TokensStep
<1>2. CASE ServeProbe(call)
  <2>1. PICK caller : caller = Caller(call.tab)
    OBVIOUS
  <2>2. PICK told : told = [call EXCEPT !.account = caller,
                               !.answer = IF caller = Nobody THEN "DENIED" ELSE "OK"]
    OBVIOUS
  <2>3. /\ told.kind = call.kind /\ told.tab = call.tab
        /\ told.answer = IF caller = Nobody THEN "DENIED" ELSE "OK"
    BY <1>0, <2>2 DEF Call
  <2>4. Tame(told)
    BY <1>0, <1>2, <2>1, <2>3, RefusedIsNotInUse DEF ServeProbe, Tame, Holds, Denied
  <2> QED BY <1>1, <1>2, <2>1, <2>2, <2>4 DEF ServeProbe, tokenVars, serverVars
<1>3. CASE ServeRefresh(call)
  <2>1. PICK caller : caller = Caller(call.tab)
    OBVIOUS
  <2>2. PICK told :
           told = IF caller = Nobody THEN [call EXCEPT !.answer = "DENIED"]
                  ELSE IF call.answer = "NONE"
                       THEN [call EXCEPT !.answer = "ACCOUNT", !.account = caller]
                       ELSE [call EXCEPT !.answer = "OK",
                                !.data = [account |-> call.account, records |-> caller]]
    OBVIOUS
  <2>3. told.kind = call.kind /\ told.tab = call.tab /\ (told.answer = "DENIED" => caller = Nobody)
    BY <1>0, <2>2 DEF Call
  <2>4. Tame(told)
    BY <1>0, <1>3, <2>1, <2>3, RefusedIsNotInUse DEF ServeRefresh, Tame, Holds, Denied
  <2> QED BY <1>1, <1>3, <2>1, <2>2, <2>4 DEF ServeRefresh, tokenVars, serverVars
<1>4. ASSUME NEW told, told.kind \in {"SIGN_OUT", "PREPARE", "DEMO_PREPARE"}
      PROVE  Tame(told)
  BY <1>4 DEF Tame, Holds, Denied
<1>5. CASE ServeSignOut(call)
  <2>1. PICK told : told = [call EXCEPT !.answer = "OK"]
    OBVIOUS
  <2>2. told.kind = "SIGN_OUT"
    BY <1>0, <1>5, <2>1 DEF ServeSignOut, Call
  <2>3. Replace(call, told) /\ UNCHANGED <<local, own, issued>> /\ sessions' \subseteq sessions
    BY <1>5, <2>1 DEF ServeSignOut
  <2> QED BY <1>1, <1>4, <2>2, <2>3
<1>6. ASSUME NEW request \in Prepared, ServePrepare(call, request) \/ ServeDemoPrepare(call, request)
      PROVE  TokensInv'
  <2>1. PICK told : told = [call EXCEPT !.answer = "OK", !.request = request]
    OBVIOUS
  <2>2. told.kind \in {"PREPARE", "DEMO_PREPARE"}
    BY <1>0, <1>6, <2>1 DEF ServePrepare, ServeDemoPrepare, Call
  <2>3. Replace(call, told) /\ UNCHANGED <<local, own, sessions, issued>>
    BY <1>6, <2>1 DEF ServePrepare, ServeDemoPrepare, tokenVars
  <2> QED BY <1>1, <1>4, <2>2, <2>3
<1>7. ASSUME NEW token \in Tokens, ServeSignIn(call, token)
      PROVE  TokensInv'
  <2>1. PICK told : told = [call EXCEPT !.answer = "OK", !.token = token]
    OBVIOUS
  <2>2. told.token = token /\ told.kind = "SIGN_IN"
    BY <1>0, <1>7, <2>1 DEF ServeSignIn, Call
  <2>3. /\ calls' = (calls \ {call}) \cup {told} /\ UNCHANGED <<local, own>>
        /\ token \notin issued /\ issued' = issued \cup {token}
        /\ sessions' = sessions \cup {token}
    BY <1>7, <2>1 DEF ServeSignIn, Replace
  <2>4. token # Nobody
    BY BrowserAssumption
  <2>5. /\ local # token /\ \A u \in Tabs : own[u] # token
        /\ \A d \in calls : Holds(d) => d.token # token
    BY <2>3, <2>4 DEF TokensInv
  <2>6. calls \subseteq FormedCall /\ \A d \in calls : d.tab \in Tabs
    BY TypeShape, CallShape
  <2>7. \A d \in calls' : Denied(d) => ~InUse(d.tab)'
    BY <2>2, <2>3, <2>5, <2>6 DEF TokensInv, InUse, Denied
  <2>8. \A d \in calls' : Holds(d) =>
          /\ d.token \in issued' /\ d.token # local'
          /\ \A u \in Tabs : own'[u] # d.token
    BY <2>2, <2>3, <2>5 DEF TokensInv
  <2>9. \A c, d \in calls' : Holds(c) /\ Holds(d) /\ c.token = d.token => c = d
    BY <2>2, <2>3, <2>5 DEF TokensInv
  <2>10. local' \in OrNobody(issued') /\ \A u \in Tabs : own'[u] \in OrNobody(issued')
    BY <2>3 DEF TokensInv
  <2> QED BY <2>7, <2>8, <2>9, <2>10 DEF TokensInv
<1> QED BY <1>2, <1>3, <1>5, <1>6, <1>7 DEF ServerStep

LEMMA RoutedIsLate ==
    ASSUME NEW t \in Tabs, NEW screen \in Screens, NEW S \in SUBSET calls, Route(t, screen, S)
    PROVE  \A d \in calls' : (\E c \in S : d = Late(c, {t})) \/ d.answer = "NONE"
<1>1. calls' = Left(S, t) \cup MountCall(screen, t)
  BY DEF Route
<1>2. \A d \in Left(S, t) : \E c \in S : d = Late(c, {t})
  BY LeftIsLate
<1> QED BY <1>1, <1>2, MountCallShape

LEMMA ArriveTokens ==
    ASSUME BrowserTypes, BrowserTypes', TokensInv, NEW call \in calls, Arrive(call)
    PROVE  TokensInv'
<1>0. /\ call \in Call /\ call.tab \in Tabs /\ "START" \in Screens /\ "APP" \in Screens
      /\ calls \ {call} \in SUBSET calls /\ Nobody \notin sessions
  BY TypeShape, CallShape DEF Screens, AccountScreens
<1>1. PICK t \in Tabs : t = call.tab
  BY <1>0
\* The tokens stay, or the tab drops them.
<1>2. ASSUME UNCHANGED <<sessions, issued>>,
             UNCHANGED <<local, own>> \/ SetClientSessionToken(t, Nobody),
             NEW T, \A d \in calls' : (\E c \in calls : d = Late(c, T)) \/ d.answer = "NONE"
      PROVE  TokensInv'
  <2>1. own \in [Tabs -> Tokens \cup {Nobody}]
    BY TypeShape
  <2>2. local' \in {local, Nobody} /\ \A u \in Tabs : own'[u] \in {own[u], Nobody}
    BY <1>2, <2>1 DEF SetClientSessionToken
  <2>3. \A u \in Tabs : InUse(u)' => InUse(u)
    BY <1>0, <1>2 DEF InUse, SetClientSessionToken
  <2> QED BY <1>2, <2>2, <2>3, UnansweredIsTame, TokensStep
<1>3. ASSUME NEW screen \in Screens, Route(t, screen, calls \ {call})
      PROVE  \A d \in calls' : (\E c \in calls : d = Late(c, {t})) \/ d.answer = "NONE"
  BY <1>0, <1>3, RoutedIsLate
<1>4. ASSUME calls' = calls \ {call}
      PROVE  \A d \in calls' : (\E c \in calls : d = Late(c, {})) \/ d.answer = "NONE"
  BY <1>4, SameIsLate
<1>5. CASE ProbeAnswered(call)
  <2>1. UNCHANGED <<sessions, issued>>
        /\ (UNCHANGED <<local, own>> \/ SetClientSessionToken(t, Nobody))
    BY <1>1, <1>5 DEF ProbeAnswered, serverVars
  <2>2. CASE calls' = calls \ {call}
    BY <1>2, <1>4, <2>1, <2>2
  <2>3. CASE Route(t, "APP", calls \ {call})
    BY <1>0, <1>2, <1>3, <2>1, <2>3
  <2> QED BY <1>1, <1>5, <2>2, <2>3 DEF ProbeAnswered
<1>6. CASE RefreshDenied(call)
  <2>1. UNCHANGED <<sessions, issued>>
        /\ (UNCHANGED <<local, own>> \/ SetClientSessionToken(t, Nobody))
    BY <1>1, <1>6 DEF RefreshDenied, serverVars
  <2>2. CASE calls' = calls \ {call}
    BY <1>2, <1>4, <2>1, <2>2
  <2>3. CASE Route(t, "START", calls \ {call})
    BY <1>0, <1>2, <1>3, <2>1, <2>3
  <2> QED BY <1>1, <1>6, <2>2, <2>3 DEF RefreshDenied
<1>7. CASE SignedOut(call)
  <2>1. UNCHANGED <<sessions, issued>> /\ SetClientSessionToken(t, Nobody)
        /\ Route(t, "START", calls \ {call})
    BY <1>1, <1>7 DEF SignedOut, serverVars
  <2> QED BY <1>0, <1>2, <1>3, <2>1
<1>8. CASE Refreshed(call) \/ DemoPrepared(call)
  <2>1. UNCHANGED <<sessions, issued, local, own>> /\ calls' = calls \ {call}
    BY <1>8 DEF Refreshed, DemoPrepared, tokenVars, serverVars
  <2> QED BY <1>2, <1>4, <2>1
<1>9. CASE LedgerProbeAnswered(call)
  <2>1. UNCHANGED <<sessions, issued, local, own>>
    BY <1>9 DEF LedgerProbeAnswered, tokenVars, serverVars
  <2>2. calls' = calls \ {call} \/ Route(t, "START", calls \ {call})
    BY <1>1, <1>9 DEF LedgerProbeAnswered
  <2> QED BY <1>0, <1>2, <1>3, <1>4, <2>1, <2>2
<1>10. CASE PreparedAnswered(call)
  <2>1. PICK fresh : fresh = NewCall("REFRESH", t)
    OBVIOUS
  <2>2. PICK again : again = [fresh EXCEPT !.live = call.live]
    OBVIOUS
  <2>3. again.answer = "NONE"
    BY <2>1, <2>2, NewCallShape DEF Kinds, Call
  <2>4. UNCHANGED <<sessions, issued, local, own>> /\ calls' = (calls \ {call}) \cup {again}
    BY <1>1, <1>10, <2>1, <2>2 DEF PreparedAnswered, Replace, tokenVars, serverVars
  <2>5. \A d \in calls' : (\E c \in calls : d = Late(c, {})) \/ d.answer = "NONE"
    BY <2>3, <2>4, SameIsLate
  <2> QED BY <1>2, <2>4, <2>5
<1>11. CASE SignedIn(call)
  <2>1. /\ Holds(call) /\ UNCHANGED <<sessions, issued>>
        /\ local' = call.token /\ own' = [own EXCEPT ![t] = call.token]
        /\ Route(t, "APP", calls \ {call})
    BY <1>1, <1>11 DEF SignedIn, Holds, SetClientSessionToken, serverVars
  <2>2. own \in [Tabs -> Tokens \cup {Nobody}] /\ calls \subseteq FormedCall
    BY TypeShape
  <2>3. /\ call.token \in issued /\ call.token # local
        /\ \A u \in Tabs : own[u] # call.token
        /\ \A c \in calls \ {call} : Holds(c) => c.token # call.token
    BY <2>1 DEF TokensInv
  <2>4. local' \in OrNobody(issued') /\ \A u \in Tabs : own'[u] \in OrNobody(issued')
    BY <2>1, <2>2, <2>3 DEF TokensInv
  <2>5. ASSUME NEW d \in calls', Holds(d)
        PROVE  \E c \in calls \ {call} : d = Late(c, {t}) /\ Holds(c) /\ d.token = c.token
    <3>1. d.answer # "NONE"
      BY <2>5 DEF Holds
    <3>2. PICK c \in calls \ {call} : d = Late(c, {t})
      BY <1>0, <2>1, <3>1, RoutedIsLate
    <3>3. c \in FormedCall
      BY <2>2
    <3>4. Holds(c) /\ d.token = c.token
      BY <2>5, <3>2, <3>3, LateCall
    <3> QED BY <3>2, <3>4
  <2>6. ASSUME NEW d \in calls', Holds(d)
        PROVE  /\ d.token \in issued' /\ d.token # local'
               /\ \A u \in Tabs : own'[u] # d.token
    <3>1. PICK c \in calls \ {call} : Holds(c) /\ d.token = c.token
      BY <2>5, <2>6
    <3> QED BY <2>1, <2>2, <2>3, <3>1 DEF TokensInv
  <2>7. ASSUME NEW c \in calls', NEW d \in calls', Holds(c), Holds(d), c.token = d.token
        PROVE  c = d
    BY <2>5, <2>7 DEF TokensInv
  <2>8. ASSUME NEW d \in calls', Denied(d)
        PROVE  ~InUse(d.tab)'
    <3>1. d.answer # "NONE"
      BY <2>8 DEF Denied
    <3>2. PICK c \in calls \ {call} : d = Late(c, {t})
      BY <1>0, <2>1, <3>1, RoutedIsLate
    <3>3. c.tab # t /\ d = c
      BY <2>2, <2>8, <3>2, LateShape DEF Late, Denied
    <3>4. d.tab \in Tabs /\ own'[d.tab] = own[d.tab]
      BY <2>1, <2>2, <3>3, CallShape
    <3> QED BY <2>1, <2>3, <3>4 DEF InUse
  <2> QED BY <2>4, <2>6, <2>7, <2>8 DEF TokensInv
<1> QED BY <1>5, <1>6, <1>7, <1>8, <1>9, <1>10, <1>11 DEF Arrive

-----------------------------------------------------------------------------
(* What a step may do to a session in use.                                 *)
LEMMA SessionStep ==
    ASSUME BrowserTypes, TokensInv, BrowserNext, NEW t \in Tabs, InUse(t)
    PROVE  own'[t] # Nobody \/ \E call \in Of(t) : SignedOut(call)
<1>0. own[t] # Nobody /\ own \in [Tabs -> Tokens \cup {Nobody}]
  BY TypeShape DEF InUse
<1>1. CASE UNCHANGED own
  BY <1>0, <1>1
<1>2. ASSUME NEW call \in calls, Arrive(call), own' # own
      PROVE  own'[t] # Nobody \/ \E c \in Of(t) : SignedOut(c)
  <2>0. call.tab \in Tabs
    BY TypeShape, CallShape
  <2>1. CASE call.tab # t
    <3>1. \E token : own' = [own EXCEPT ![call.tab] = token]
      BY <1>2 DEF Arrive, ProbeAnswered, SignedIn, Refreshed, RefreshDenied, PreparedAnswered,
         SignedOut, LedgerProbeAnswered, DemoPrepared, SetClientSessionToken, tokenVars
    <3> QED BY <1>0, <2>1, <3>1
  <2>2. CASE call.tab = t /\ SignedIn(call)
    <3>1. call.token \in issued /\ own' = [own EXCEPT ![t] = call.token]
      BY <2>2 DEF SignedIn, SetClientSessionToken, TokensInv, Holds
    <3> QED BY <1>0, <3>1, TypeShape
  <2>3. CASE call.tab = t /\ SignedOut(call)
    BY <2>3 DEF Of
  <2>4. CASE call.tab = t /\ (ProbeAnswered(call) \/ RefreshDenied(call))
    <3>1. Denied(call)
      BY <1>2, <2>4 DEF ProbeAnswered, RefreshDenied, Denied, Active
    <3> QED BY <2>4, <3>1 DEF TokensInv
  <2> QED BY <1>2, <2>1, <2>2, <2>3, <2>4 DEF Arrive, Refreshed, PreparedAnswered,
             LedgerProbeAnswered, DemoPrepared, tokenVars
<1>3. ASSUME own' # own
      PROVE  \E call \in calls : Arrive(call)
  <2>1. ASSUME NEW u \in Tabs, UserStep(u) PROVE UNCHANGED own
    BY <2>1 DEF UserStep, Navigate, Load, SubmitEntry, Refresh, Prepare, SignOut, RetryProbe,
       SelectBuild, RequestLedgerApproval, tokenVars
  <2>2. ASSUME NEW call \in calls, ServerStep(call) \/ Lose(call) PROVE UNCHANGED own
    BY <2>2 DEF ServerStep, ServeProbe, ServeRefresh, ServeSignOut, ServeSignIn, ServePrepare,
       ServeDemoPrepare, Lose, tokenVars
  <2>3. ASSUME NEW token \in Tokens, ExpireSession(token) PROVE UNCHANGED own
    BY <2>3 DEF ExpireSession, tokenVars
  <2> QED BY <1>3, <2>1, <2>2, <2>3 DEF BrowserNext
<1> QED BY <1>1, <1>2, <1>3

-----------------------------------------------------------------------------
(* The dashboard's handoff.                                                *)

\* A fixture request stays one.
FixturesStay == \A p \in Prepared : creator[p] = "DEMO" => creator'[p] = "DEMO"

\* A step in one tab.
LEMMA DemoStep ==
    ASSUME BrowserTypes, BrowserTypes', DemoInv, FixturesStay, NEW t \in Tabs,
           \A u \in Tabs \ {t} : tabs'[u] = tabs[u] /\ storage'[u] = storage[u],
           \A d \in calls' : d.tab # t => d \in calls,
           \A d \in calls' : d.tab = t => CallOnPage(d)',
           HandoffOnPage(t)'
    PROVE  DemoInv'
<1>1. /\ tabs \in [Tabs -> Page] /\ storage \in [Tabs -> Handoff \cup {Nobody}]
      /\ calls \subseteq FormedCall
  BY TypeShape
<1>2. ASSUME NEW d \in calls', d.tab # t
      PROVE  CallOnPage(d)'
  <2>1. d \in calls /\ d.tab \in Tabs \ {t} /\ Formed(d) /\ CallOnPage(d)
    BY <1>1, <1>2, CallShape, FormedShape DEF DemoInv
  <2>2. tabs'[d.tab] = tabs[d.tab]
    BY <2>1
  <2> QED BY <2>1, <2>2 DEF CallOnPage, FixturesStay, Formed
<1>3. ASSUME NEW u \in Tabs \ {t}
      PROVE  HandoffOnPage(u)'
  <2>1. HandoffOnPage(u) /\ tabs'[u] = tabs[u] /\ storage'[u] = storage[u]
    BY <1>3 DEF DemoInv
  <2>2. PICK page \in Page : page = tabs[u]
    BY <1>1
  <2>3. PICK kept \in Handoff \cup {Nobody} : kept = storage[u]
    BY <1>1
  <2>4. page.shown \in Prepared \cup {Nobody} /\ (kept # Nobody => kept.request \in Prepared)
    BY <2>2, <2>3, PageShape DEF Handoff
  <2> QED BY <2>1, <2>2, <2>3, <2>4 DEF HandoffOnPage, FixturesStay
<1> QED BY <1>2, <1>3 DEF DemoInv

\* A step of a page for accounts: it leaves the fixture's pages alone.
LEMMA AccountStep ==
    ASSUME BrowserTypes, BrowserTypes', DemoInv, FixturesStay, NEW t \in Tabs,
           tabs[t].screen \in AccountScreens, tabs'[t].screen \in AccountScreens,
           \A u \in Tabs \ {t} : tabs'[u] = tabs[u] /\ storage'[u] = storage[u],
           storage'[t] = storage[t] \/ storage'[t] = Nobody \/ storage'[t].scope = "account",
           \A d \in calls' : d \in calls \/ (d.tab = t /\ d.kind # "DEMO_PREPARE")
    PROVE  DemoInv'
<1>1. \A d \in calls' : d.tab = t => d.kind # "DEMO_PREPARE"
  BY DEF DemoInv, CallOnPage, AccountScreens
<1>2. \A d \in calls' : d.tab = t => CallOnPage(d)'
  BY <1>1 DEF CallOnPage
<1>3. storage \in [Tabs -> Handoff \cup {Nobody}]
  BY TypeShape
<1>4. PICK kept \in Handoff \cup {Nobody} : kept = storage[t]
  BY <1>3
<1>5. kept # Nobody => kept.request \in Prepared
  BY DEF Handoff
<1>6. kept # Nobody /\ kept.scope = "demo" => creator'[kept.request] = "DEMO"
  BY <1>4, <1>5 DEF DemoInv, HandoffOnPage, FixturesStay
<1>7. HandoffOnPage(t)'
  BY <1>4, <1>6 DEF HandoffOnPage, AccountScreens
<1> QED BY <1>2, <1>7, DemoStep

\* Navigation of such a page.
LEMMA RoutedCalls ==
    ASSUME BrowserTypes, DemoInv, NEW t \in Tabs, NEW screen \in AccountScreens,
           NEW S \in SUBSET calls, tabs[t].screen \in AccountScreens, Route(t, screen, S)
    PROVE  /\ \A d \in calls' : d \in calls \/ (d.tab = t /\ d.kind # "DEMO_PREPARE")
           /\ tabs'[t].screen \in AccountScreens
           /\ \A u \in Tabs \ {t} : tabs'[u] = tabs[u]
<1>0. screen \in Screens
  BY DEF Screens
<1>1. /\ tabs'[t] = Blank(screen) /\ \A u \in Tabs \ {t} : tabs'[u] = tabs[u]
      /\ calls' \subseteq Left(S, t) \cup MountCall(screen, t)
  BY <1>0, RouteShape
<1>2. calls \subseteq FormedCall
  BY TypeShape
<1>3. ASSUME NEW d \in Left(S, t)
      PROVE  d \in calls \/ (d.tab = t /\ d.kind # "DEMO_PREPARE")
  <2>1. PICK c \in S : (c.tab # t => d = c) /\ (c.tab = t => d = [c EXCEPT !.live = FALSE])
    BY <1>2, LeftShape
  <2>2. c \in FormedCall /\ CallOnPage(c)
    BY <1>2 DEF DemoInv
  <2>3. c.tab = t => c.kind # "DEMO_PREPARE" /\ d.kind = c.kind /\ d.tab = c.tab
    <3>1. c.tab = t => c.kind # "DEMO_PREPARE"
      BY <2>2 DEF CallOnPage, AccountScreens
    <3>2. c.tab = t => d.kind = c.kind /\ d.tab = c.tab
      BY <2>1, <2>2, LateShape
    <3> QED BY <3>1, <3>2
  <2>4. c \in calls
    OBVIOUS
  <2>5. CASE c.tab = t
    BY <2>3, <2>5
  <2>6. CASE c.tab # t
    BY <2>1, <2>4, <2>6
  <2> QED BY <2>5, <2>6
<1>4. \A d \in MountCall(screen, t) : d.tab = t /\ d.kind # "DEMO_PREPARE"
  BY <1>0, MountCallShape
<1> QED BY <1>0, <1>1, <1>3, <1>4, BlankShape

LEMMA UserStepDemo ==
    ASSUME BrowserTypes, BrowserTypes', DemoInv, NEW t \in Tabs, UserStep(t)
    PROVE  DemoInv'
<1>0. /\ tabs \in [Tabs -> Page] /\ storage \in [Tabs -> Handoff \cup {Nobody}]
      /\ calls \subseteq FormedCall
  BY TypeShape
<1>1. UNCHANGED creator /\ FixturesStay
  BY DEF UserStep, Navigate, Load, SubmitEntry, Refresh, Prepare, SignOut, RetryProbe, SelectBuild,
         RequestLedgerApproval, serverVars, FixturesStay
<1>2. ASSUME NEW screen \in AccountScreens, Route(t, screen, calls), UNCHANGED storage,
             tabs[t].screen \in AccountScreens
      PROVE  DemoInv'
  BY <1>1, <1>2, RoutedCalls, AccountStep
<1>3. ASSUME NEW screen \in AccountScreens, Navigate(t, screen) PROVE DemoInv'
  BY <1>2, <1>3 DEF Navigate, AccountScreens
<1>4. CASE RetryProbe(t)
  BY <1>2, <1>4 DEF RetryProbe, AccountScreens
<1>5. ASSUME NEW call, call.tab = t, call.kind # "DEMO_PREPARE", Send(call),
             tabs[t].screen \in AccountScreens, tabs'[t].screen = tabs[t].screen,
             \A u \in Tabs \ {t} : tabs'[u] = tabs[u], UNCHANGED storage
      PROVE  DemoInv'
  <2>1. \A d \in calls' : d \in calls \/ (d.tab = t /\ d.kind # "DEMO_PREPARE")
    BY <1>5 DEF Send
  <2>2. tabs'[t].screen \in AccountScreens /\ storage'[t] = storage[t]
        /\ \A u \in Tabs \ {t} : storage'[u] = storage[u]
    BY <1>5
  <2> QED BY <1>1, <1>5, <2>1, <2>2, AccountStep
<1>6. CASE SubmitEntry(t) \/ Refresh(t)
  <2>1. PICK kind \in {"SIGN_IN", "REFRESH"} :
           Send(NewCall(kind, t)) /\ UNCHANGED <<tabs, storage>> /\ tabs[t].screen \in AccountScreens
    BY <1>6 DEF SubmitEntry, Refresh, AccountScreens
  <2>2. NewCall(kind, t).tab = t /\ NewCall(kind, t).kind = kind
    BY NewCallShape DEF Kinds
  <2> QED BY <1>5, <2>1, <2>2
<1>7. CASE Prepare(t)
  <2>1. PICK fresh : fresh = NewCall("PREPARE", t)
    OBVIOUS
  <2>2. PICK asked : asked = [fresh EXCEPT !.data = tabs[t].data]
    OBVIOUS
  <2>3. asked.tab = t /\ asked.kind = "PREPARE"
    BY <2>1, <2>2, NewCallShape DEF Kinds, Call
  <2>4. Send(asked) /\ UNCHANGED <<tabs, storage>> /\ tabs[t].screen \in AccountScreens
    BY <1>7, <2>1, <2>2 DEF Prepare, AccountScreens
  <2> QED BY <1>5, <2>3, <2>4
<1>8. CASE SignOut(t)
  <2>1. NewCall("SIGN_OUT", t).tab = t /\ NewCall("SIGN_OUT", t).kind = "SIGN_OUT"
    BY NewCallShape DEF Kinds
  <2>2. PICK page \in Page : page = tabs[t]
    BY <1>0
  <2>3. [page EXCEPT !.signingOut = TRUE].screen = page.screen
    BY DEF Page
  <2>4. tabs' = [tabs EXCEPT ![t] = [page EXCEPT !.signingOut = TRUE]]
    BY <1>8, <2>2 DEF SignOut
  <2>5. tabs'[t].screen = tabs[t].screen /\ \A u \in Tabs \ {t} : tabs'[u] = tabs[u]
    BY <1>0, <2>2, <2>3, <2>4
  <2>6. Send(NewCall("SIGN_OUT", t)) /\ UNCHANGED storage /\ tabs[t].screen \in AccountScreens
    BY <1>8 DEF SignOut, AccountScreens
  <2> QED BY <1>5, <2>1, <2>5, <2>6
<1>9. ASSUME NEW screen \in Screens, Load(t, screen) PROVE DemoInv'
  <2>1. \A u \in Tabs \ {t} : tabs'[u] = tabs[u] /\ storage'[u] = storage[u]
    BY <1>0, <1>9 DEF Load
  <2>2. calls' = (calls \ Of(t)) \cup MountCall(screen, t)
    BY <1>9 DEF Load
  <2>3. \A d \in MountCall(screen, t) :
           d.tab = t /\ d.kind # "DEMO_PREPARE" /\ screen \in AccountScreens
    BY MountCallShape
  <2>4. PICK blank \in Page : blank = Blank(screen) /\ blank.screen = screen /\ blank.shown = Nobody
    BY BlankShape
  <2>5. PICK kept \in Handoff \cup {Nobody} : kept = storage[t]
    BY <1>0
  <2>6. tabs'[t].screen = screen
    <3>1. [blank EXCEPT !.state = "READY"].screen = screen
      BY <2>4 DEF Page
    <3>2. [blank EXCEPT !.state = "READY", !.shown = kept.request].screen = screen
      BY <2>4 DEF Page
    <3>3. tabs'[t] \in {blank, [blank EXCEPT !.state = "READY"],
                        [blank EXCEPT !.state = "READY", !.shown = kept.request]}
      BY <1>0, <1>9, <2>4, <2>5 DEF Load
    <3> QED BY <2>4, <3>1, <3>2, <3>3
  <2>7. \A d \in calls' : d.tab = t => CallOnPage(d)'
    BY <2>2, <2>3, <2>6 DEF CallOnPage, Of
  <2>8. kept # Nobody /\ kept.scope = "demo" => creator'[kept.request] = "DEMO"
    BY <1>1, <2>5 DEF DemoInv, HandoffOnPage
  <2>9. storage'[t] \in {kept, Nobody} /\ (screen = "DEMO" => storage'[t] = Nobody)
    BY <1>0, <1>9, <2>5 DEF Load
  <2>10. ASSUME screen = "DEMO_LEDGER", tabs'[t].shown # Nobody
         PROVE  creator'[tabs'[t].shown] = "DEMO"
    <3>1. CASE kept # Nobody /\ kept.scope = "demo"
      <4>1. tabs'[t] = [blank EXCEPT !.state = "READY", !.shown = kept.request]
        BY <1>0, <1>9, <2>4, <2>5, <2>10, <3>1 DEF Load
      <4>2. tabs'[t].shown = kept.request
        BY <2>4, <4>1 DEF Page
      <4> QED BY <2>8, <3>1, <4>2
    <3>2. CASE ~(kept # Nobody /\ kept.scope = "demo")
      <4>1. tabs'[t] = blank
        BY <1>0, <1>9, <2>4, <2>5, <2>10, <3>2 DEF Load
      <4> QED BY <2>4, <2>10, <4>1
    <3> QED BY <3>1, <3>2
  <2>11. HandoffOnPage(t)'
    BY <2>6, <2>8, <2>9, <2>10 DEF HandoffOnPage
  <2>12. \A d \in calls' : d.tab # t => d \in calls
    BY <2>2, <2>3
  <2> QED BY <1>1, <2>1, <2>7, <2>11, <2>12, DemoStep
<1>10. ASSUME NEW selection, SelectBuild(t, selection) PROVE DemoInv'
  <2>1. PICK page \in Page : page = tabs[t]
    BY <1>0
  <2>2. PICK cleared : cleared = [page EXCEPT !.selection = selection, !.shown = Nobody]
    OBVIOUS
  <2>3. cleared.screen = page.screen /\ page.screen = "DEMO"
    BY <1>10, <2>1, <2>2 DEF SelectBuild, Page
  <2>4. tabs' = [tabs EXCEPT ![t] = cleared] /\ storage' = [storage EXCEPT ![t] = Nobody]
        /\ calls' = Left(calls, t)
    BY <1>10, <2>1, <2>2 DEF SelectBuild, InvalidatePending
  <2>5. tabs'[t].screen = "DEMO" /\ storage'[t] = Nobody
        /\ \A u \in Tabs \ {t} : tabs'[u] = tabs[u] /\ storage'[u] = storage[u]
    BY <1>0, <2>3, <2>4
  <2>6. ASSUME NEW d \in calls'
        PROVE  (d.tab # t => d \in calls) /\ (d.tab = t => CallOnPage(d)')
    <3>1. PICK c \in calls : (c.tab # t => d = c) /\ (c.tab = t => d = [c EXCEPT !.live = FALSE])
      BY <1>0, <2>4, <2>6, LeftShape
    <3>2. c \in FormedCall /\ CallOnPage(c)
      BY <1>0 DEF DemoInv
    <3>3. CASE c.tab = t
      <4>1. /\ ~d.live /\ d.tab = t /\ d.kind = c.kind /\ d.answer = c.answer
            /\ d.request = c.request
        BY <3>1, <3>2, <3>3, LateShape
      <4>2. c.kind = "DEMO_PREPARE"
        BY <2>1, <2>3, <3>2, <3>3 DEF CallOnPage, AccountScreens
      <4>3. c.answer = "OK" => creator'[c.request] = "DEMO"
        BY <1>1, <3>2, <4>2 DEF CallOnPage
      <4> QED BY <2>5, <4>1, <4>2, <4>3 DEF CallOnPage
    <3> QED BY <3>1, <3>3
  <2>7. HandoffOnPage(t)'
    BY <2>5 DEF HandoffOnPage
  <2> QED BY <1>1, <2>5, <2>6, <2>7, DemoStep
<1>11. CASE RequestLedgerApproval(t)
  <2>1. PICK fresh : fresh = NewCall("DEMO_PREPARE", t)
    OBVIOUS
  <2>2. fresh.tab = t /\ fresh.kind = "DEMO_PREPARE" /\ fresh.answer = "NONE"
    BY <2>1, NewCallShape DEF Kinds
  <2>3. /\ calls' = calls \cup {fresh} /\ UNCHANGED <<tabs, storage>>
        /\ tabs[t].screen = "DEMO" /\ tabs[t].selection = "corrected"
    BY <1>11, <2>1 DEF RequestLedgerApproval, Send
  <2>4. CallOnPage(fresh)'
    BY <2>2, <2>3 DEF CallOnPage
  <2>5. \A d \in calls : CallOnPage(d)'
    BY <1>1, <2>3 DEF DemoInv, CallOnPage
  <2>6. \A u \in Tabs : HandoffOnPage(u)'
    BY <1>1, <2>3 DEF DemoInv, HandoffOnPage
  <2> QED BY <2>3, <2>4, <2>5, <2>6 DEF DemoInv
<1> QED BY <1>3, <1>4, <1>6, <1>7, <1>8, <1>9, <1>10, <1>11 DEF UserStep, Screens, AccountScreens

LEMMA ServerStepDemo ==
    ASSUME BrowserTypes, BrowserTypes', DemoInv, NEW call \in calls, ServerStep(call)
    PROVE  DemoInv'
<1>0. call \in Call /\ call.tab \in Tabs /\ CallOnPage(call)
  BY TypeShape, CallShape DEF DemoInv
<1>1. PICK t \in Tabs : t = call.tab
  BY <1>0
<1>2. ASSUME NEW told, told.kind = call.kind, told.tab = t, call.kind # "DEMO_PREPARE",
             Replace(call, told), UNCHANGED <<tabs, storage>>, FixturesStay
      PROVE  DemoInv'
  <2>1. \A d \in calls' : d \in calls \/ (d.tab = t /\ d.kind # "DEMO_PREPARE")
    BY <1>2 DEF Replace
  <2>2. tabs[t].screen \in AccountScreens
    BY <1>0, <1>1, <1>2 DEF CallOnPage
  <2> QED BY <1>2, <2>1, <2>2, AccountStep
<1>3. CASE ServeProbe(call) \/ ServeRefresh(call) \/ ServeSignOut(call)
           \/ \E token \in Tokens : ServeSignIn(call, token)
  <2>1. UNCHANGED <<tabs, storage, creator>> /\ call.kind # "DEMO_PREPARE"
    BY <1>3 DEF ServeProbe, ServeRefresh, ServeSignOut, ServeSignIn, serverVars
  <2>2. FixturesStay
    BY <2>1 DEF FixturesStay
  <2>3. ASSUME ServeProbe(call) PROVE \E told : Replace(call, told) /\ told.kind = call.kind /\ told.tab = t
    <3>1. PICK caller : caller = Caller(call.tab)
      OBVIOUS
    <3>2. PICK told : told = [call EXCEPT !.account = caller,
                                 !.answer = IF caller = Nobody THEN "DENIED" ELSE "OK"]
      OBVIOUS
    <3>3. told.kind = call.kind /\ told.tab = t
      BY <1>0, <1>1, <3>2 DEF Call
    <3> QED BY <2>3, <3>1, <3>2, <3>3 DEF ServeProbe
  <2>4. ASSUME ServeRefresh(call) PROVE \E told : Replace(call, told) /\ told.kind = call.kind /\ told.tab = t
    <3>1. PICK caller : caller = Caller(call.tab)
      OBVIOUS
    <3>2. PICK told :
             told = IF caller = Nobody THEN [call EXCEPT !.answer = "DENIED"]
                    ELSE IF call.answer = "NONE"
                         THEN [call EXCEPT !.answer = "ACCOUNT", !.account = caller]
                         ELSE [call EXCEPT !.answer = "OK",
                                  !.data = [account |-> call.account, records |-> caller]]
      OBVIOUS
    <3>3. told.kind = call.kind /\ told.tab = t
      BY <1>0, <1>1, <3>2 DEF Call
    <3> QED BY <2>4, <3>1, <3>2, <3>3 DEF ServeRefresh
  <2>5. ASSUME ServeSignOut(call) PROVE \E told : Replace(call, told) /\ told.kind = call.kind /\ told.tab = t
    <3>1. PICK told : told = [call EXCEPT !.answer = "OK"]
      OBVIOUS
    <3>2. told.kind = call.kind /\ told.tab = t
      BY <1>0, <1>1, <3>1 DEF Call
    <3> QED BY <2>5, <3>1, <3>2 DEF ServeSignOut
  <2>6. ASSUME NEW token \in Tokens, ServeSignIn(call, token)
        PROVE \E told : Replace(call, told) /\ told.kind = call.kind /\ told.tab = t
    <3>1. PICK told : told = [call EXCEPT !.answer = "OK", !.token = token]
      OBVIOUS
    <3>2. told.kind = call.kind /\ told.tab = t
      BY <1>0, <1>1, <3>1 DEF Call
    <3> QED BY <2>6, <3>1, <3>2 DEF ServeSignIn
  <2>7. PICK told : Replace(call, told) /\ told.kind = call.kind /\ told.tab = t
    BY <1>3, <2>3, <2>4, <2>5, <2>6
  <2> QED BY <1>2, <2>1, <2>2, <2>7
<1>4. ASSUME NEW request \in Prepared, ServePrepare(call, request)
      PROVE  DemoInv'
  <2>1. PICK told : told = [call EXCEPT !.answer = "OK", !.request = request]
    OBVIOUS
  <2>2. told.kind = call.kind /\ told.tab = t /\ call.kind # "DEMO_PREPARE"
    BY <1>0, <1>1, <1>4, <2>1 DEF ServePrepare, Call
  <2>3. Replace(call, told) /\ UNCHANGED <<tabs, storage>>
    BY <1>4, <2>1 DEF ServePrepare
  <2>4. FixturesStay
    BY <1>4, TypeShape DEF ServePrepare, FixturesStay
  <2> QED BY <1>2, <2>2, <2>3, <2>4
<1>5. ASSUME NEW request \in Prepared, ServeDemoPrepare(call, request)
      PROVE  DemoInv'
  <2>1. PICK told : told = [call EXCEPT !.answer = "OK", !.request = request]
    OBVIOUS
  <2>2. /\ told.kind = "DEMO_PREPARE" /\ told.tab = t /\ told.live = call.live
        /\ told.request = request
    BY <1>0, <1>1, <1>5, <2>1 DEF ServeDemoPrepare, Call
  <2>3. calls' = (calls \ {call}) \cup {told} /\ UNCHANGED <<tabs, storage>>
    BY <1>5, <2>1 DEF ServeDemoPrepare, Replace
  <2>4. FixturesStay /\ creator'[request] = "DEMO"
    BY <1>5, TypeShape DEF ServeDemoPrepare, FixturesStay
  <2>5. CallOnPage(told)'
    BY <1>0, <1>1, <1>5, <2>2, <2>3, <2>4 DEF CallOnPage, ServeDemoPrepare
  <2>6. ASSUME NEW d \in calls PROVE CallOnPage(d)'
    <3>1. Formed(d) /\ CallOnPage(d)
      BY TypeShape, FormedShape DEF DemoInv
    <3> QED BY <2>3, <2>4, <3>1 DEF CallOnPage, FixturesStay, Formed
  <2>7. HandoffOnPage(t)'
    <3>1. PICK page \in Page : page = tabs[t]
      BY TypeShape
    <3>2. PICK kept \in Handoff \cup {Nobody} : kept = storage[t]
      BY TypeShape
    <3>3. page.shown \in Prepared \cup {Nobody} /\ (kept # Nobody => kept.request \in Prepared)
      BY PageShape DEF Handoff
    <3>4. HandoffOnPage(t)
      BY DEF DemoInv
    <3> QED BY <2>3, <2>4, <3>1, <3>2, <3>3, <3>4 DEF HandoffOnPage, FixturesStay
  <2>8. /\ \A d \in calls' : d.tab # t => d \in calls
        /\ \A d \in calls' : CallOnPage(d)'
        /\ \A u \in Tabs \ {t} : tabs'[u] = tabs[u] /\ storage'[u] = storage[u]
    BY <2>2, <2>3, <2>5, <2>6
  <2> QED BY <2>4, <2>7, <2>8, DemoStep
<1> QED BY <1>3, <1>4, <1>5 DEF ServerStep

LEMMA ArriveDemo ==
    ASSUME BrowserTypes, BrowserTypes', DemoInv, NEW call \in calls, Arrive(call)
    PROVE  DemoInv'
<1>0. /\ call \in Call /\ call.tab \in Tabs /\ CallOnPage(call)
      /\ calls \ {call} \in SUBSET calls
      /\ "START" \in AccountScreens /\ "APP" \in AccountScreens
  BY TypeShape, CallShape DEF DemoInv, AccountScreens
<1>1. PICK t \in Tabs : t = call.tab
  BY <1>0
<1>2. /\ tabs \in [Tabs -> Page] /\ storage \in [Tabs -> Handoff \cup {Nobody}]
      /\ calls \subseteq FormedCall /\ call.live \in BOOLEAN
  BY <1>0, TypeShape, CallShape
<1>3. UNCHANGED creator /\ FixturesStay
  BY DEF Arrive, ProbeAnswered, SignedIn, Refreshed, RefreshDenied, PreparedAnswered, SignedOut,
         LedgerProbeAnswered, DemoPrepared, serverVars, FixturesStay
<1>4. PICK page \in Page : page = tabs[t]
  BY <1>2
\* What a call for accounts changes: its own tab.
<1>5. ASSUME call.kind # "DEMO_PREPARE", tabs'[t].screen \in AccountScreens,
             \A u \in Tabs \ {t} : tabs'[u] = tabs[u] /\ storage'[u] = storage[u],
             storage'[t] = storage[t] \/ storage'[t] = Nobody \/ storage'[t].scope = "account",
             \A d \in calls' : d \in calls \/ (d.tab = t /\ d.kind # "DEMO_PREPARE")
      PROVE  DemoInv'
  <2>1. tabs[t].screen \in AccountScreens
    BY <1>0, <1>1, <1>5 DEF CallOnPage
  <2> QED BY <1>3, <1>5, <2>1, AccountStep
<1>6. ASSUME call.kind # "DEMO_PREPARE"
      PROVE  tabs[t].screen \in AccountScreens /\ page.screen \in AccountScreens
  BY <1>0, <1>1, <1>4, <1>6 DEF CallOnPage
<1>7. ASSUME call.kind # "DEMO_PREPARE", NEW screen \in AccountScreens,
             Route(t, screen, calls \ {call}),
             UNCHANGED storage \/ storage' = [storage EXCEPT ![t] = Nobody]
      PROVE  DemoInv'
  <2>1. /\ \A d \in calls' : d \in calls \/ (d.tab = t /\ d.kind # "DEMO_PREPARE")
        /\ tabs'[t].screen \in AccountScreens
        /\ \A u \in Tabs \ {t} : tabs'[u] = tabs[u]
    BY <1>0, <1>6, <1>7, RoutedCalls
  <2>2. (storage'[t] = storage[t] \/ storage'[t] = Nobody)
        /\ \A u \in Tabs \ {t} : storage'[u] = storage[u]
    BY <1>2, <1>7
  <2> QED BY <1>5, <1>7, <2>1, <2>2
<1>8. ASSUME call.kind # "DEMO_PREPARE", NEW next, next.screen = page.screen,
             UNCHANGED tabs \/ tabs' = [tabs EXCEPT ![t] = next],
             UNCHANGED storage \/ storage' = [storage EXCEPT ![t] = Nobody],
             calls' = calls \ {call}
      PROVE  DemoInv'
  <2>1. tabs'[t].screen \in AccountScreens /\ \A u \in Tabs \ {t} : tabs'[u] = tabs[u]
    BY <1>2, <1>6, <1>8
  <2>2. (storage'[t] = storage[t] \/ storage'[t] = Nobody)
        /\ \A u \in Tabs \ {t} : storage'[u] = storage[u]
    BY <1>2, <1>8
  <2> QED BY <1>5, <1>8, <2>1, <2>2
<1>9. CASE ProbeAnswered(call)
  <2>1. call.kind # "DEMO_PREPARE" /\ UNCHANGED storage
    BY <1>9 DEF ProbeAnswered
  <2>2. CASE Route(t, "APP", calls \ {call})
    BY <1>0, <1>7, <2>1, <2>2
  <2>3. PICK next : next = [page EXCEPT !.state = "READY"]
    OBVIOUS
  <2>4. next.screen = page.screen
    BY <2>3 DEF Page
  <2>5. ASSUME calls' = calls \ {call}, UNCHANGED tabs \/ tabs' = [tabs EXCEPT ![t] = next]
        PROVE  DemoInv'
    BY <1>8, <2>1, <2>4, <2>5
  <2> QED BY <1>1, <1>4, <1>9, <2>2, <2>3, <2>5 DEF ProbeAnswered
<1>10. CASE RefreshDenied(call)
  <2>1. call.kind # "DEMO_PREPARE" /\ UNCHANGED storage
    BY <1>10 DEF RefreshDenied
  <2>2. CASE Route(t, "START", calls \ {call})
    BY <1>0, <1>7, <2>1, <2>2
  <2>3. CASE calls' = calls \ {call} /\ UNCHANGED tabs
    BY <1>8, <2>1, <2>3
  <2> QED BY <1>1, <1>10, <2>2, <2>3 DEF RefreshDenied
<1>11. CASE SignedIn(call)
  <2>1. call.kind # "DEMO_PREPARE" /\ UNCHANGED storage /\ Route(t, "APP", calls \ {call})
    BY <1>1, <1>11 DEF SignedIn
  <2> QED BY <1>0, <1>7, <2>1
<1>12. CASE SignedOut(call)
  <2>1. /\ call.kind # "DEMO_PREPARE" /\ storage' = [storage EXCEPT ![t] = Nobody]
        /\ Route(t, "START", calls \ {call})
    BY <1>1, <1>12 DEF SignedOut
  <2> QED BY <1>0, <1>7, <2>1
<1>13. CASE Refreshed(call)
  <2>1. call.kind # "DEMO_PREPARE" /\ UNCHANGED storage /\ calls' = calls \ {call}
    BY <1>13 DEF Refreshed, tokenVars
  <2>2. PICK next : next = [page EXCEPT !.data = call.data, !.state = "READY"]
    OBVIOUS
  <2>3. next.screen = page.screen
    BY <2>2 DEF Page
  <2>4. UNCHANGED tabs \/ tabs' = [tabs EXCEPT ![t] = next]
    BY <1>1, <1>4, <1>13, <2>2 DEF Refreshed
  <2> QED BY <1>8, <2>1, <2>3, <2>4
<1>14. CASE PreparedAnswered(call)
  <2>1. PICK fresh : fresh = NewCall("REFRESH", t)
    OBVIOUS
  <2>2. PICK again : again = [fresh EXCEPT !.live = call.live]
    OBVIOUS
  <2>3. again.tab = t /\ again.kind = "REFRESH"
    BY <2>1, <2>2, NewCallShape DEF Kinds, Call
  <2>4. call.kind # "DEMO_PREPARE" /\ UNCHANGED tabs /\ calls' = (calls \ {call}) \cup {again}
    BY <1>1, <1>14, <2>1, <2>2 DEF PreparedAnswered, Replace
  <2>5. storage' = [storage EXCEPT ![t] =
                      [scope |-> "account", account |-> Label(call), request |-> call.request]]
    BY <1>1, <1>14 DEF PreparedAnswered
  <2>6. storage'[t].scope = "account" /\ \A u \in Tabs \ {t} : storage'[u] = storage[u]
    BY <1>2, <2>5
  <2>7. \A d \in calls' : d \in calls \/ (d.tab = t /\ d.kind # "DEMO_PREPARE")
    BY <2>3, <2>4
  <2> QED BY <1>5, <1>6, <2>4, <2>6, <2>7
<1>15. CASE LedgerProbeAnswered(call)
  <2>1. /\ call.kind # "DEMO_PREPARE"
        /\ UNCHANGED storage \/ storage' = [storage EXCEPT ![t] = Nobody]
    BY <1>1, <1>15 DEF LedgerProbeAnswered
  <2>2. CASE Route(t, "START", calls \ {call})
    BY <1>0, <1>7, <2>1, <2>2
  <2>3. PICK shown : shown = IF MayLoad(storage[t], call.account) THEN storage[t].request ELSE Nobody
    OBVIOUS
  <2>4. PICK next : next = [page EXCEPT !.state = "READY", !.viewer = call.account, !.shown = shown]
    OBVIOUS
  <2>5. next.screen = page.screen
    BY <2>4 DEF Page
  <2>6. ASSUME calls' = calls \ {call}, UNCHANGED tabs \/ tabs' = [tabs EXCEPT ![t] = next]
        PROVE  DemoInv'
    BY <1>8, <2>1, <2>5, <2>6
  <2>7. calls' = calls \ {call} \/ Route(t, "START", calls \ {call})
    BY <1>1, <1>15 DEF LedgerProbeAnswered
  <2>8. \/ UNCHANGED tabs
        \/ tabs' = [tabs EXCEPT ![t] = next]
        \/ Route(t, "START", calls \ {call})
    BY <1>1, <1>4, <1>15, <2>3, <2>4 DEF LedgerProbeAnswered
  <2> QED BY <2>2, <2>6, <2>7, <2>8
<1>16. CASE DemoPrepared(call)
  <2>1. /\ call.kind = "DEMO_PREPARE" /\ call.answer = "OK" /\ calls' = calls \ {call}
        /\ call.request \in Prepared
    BY <1>16, <1>2, FormedShape DEF DemoPrepared, Formed
  <2>2. CASE ~call.live
    <3>1. UNCHANGED <<tabs, storage>>
      BY <1>16, <2>2 DEF DemoPrepared
    <3>2. \A d \in calls' : CallOnPage(d)'
      BY <1>3, <2>1, <3>1 DEF DemoInv, CallOnPage
    <3>3. \A u \in Tabs : HandoffOnPage(u)'
      BY <1>3, <3>1 DEF DemoInv, HandoffOnPage
    <3> QED BY <3>2, <3>3 DEF DemoInv
  <2>3. CASE call.live
    <3>1. PICK next : next = [page EXCEPT !.shown = call.request]
      OBVIOUS
    <3>2. next.screen = page.screen /\ next.selection = page.selection /\ next.shown = call.request
      BY <3>1 DEF Page
    <3>3. PICK handoff : handoff = [scope |-> "demo", request |-> call.request]
      OBVIOUS
    <3>4. tabs' = [tabs EXCEPT ![t] = next] /\ storage' = [storage EXCEPT ![t] = handoff]
      BY <1>1, <1>4, <1>16, <2>3, <3>1, <3>3 DEF DemoPrepared
    <3>5. tabs'[t] = next /\ storage'[t] = handoff
          /\ \A u \in Tabs \ {t} : tabs'[u] = tabs[u] /\ storage'[u] = storage[u]
      BY <1>2, <3>4
    <3>6. /\ page.screen = "DEMO" /\ page.selection = "corrected"
          /\ creator[call.request] = "DEMO"
      BY <1>0, <1>1, <1>4, <2>1, <2>3 DEF CallOnPage
    <3>7. HandoffOnPage(t)'
      BY <1>3, <3>2, <3>3, <3>5, <3>6 DEF HandoffOnPage
    <3>8. ASSUME NEW d \in calls, d.tab = t PROVE CallOnPage(d)'
      <4>1. CallOnPage(d) /\ tabs[t].screen = page.screen /\ tabs[t].selection = page.selection
        BY <1>4 DEF DemoInv
      <4>2. tabs'[t].screen = page.screen /\ tabs'[t].selection = page.selection
        BY <3>2, <3>5
      <4> QED BY <1>3, <3>8, <4>1, <4>2 DEF CallOnPage
    <3> QED BY <1>3, <2>1, <3>5, <3>7, <3>8, DemoStep
  <2> QED BY <2>2, <2>3
<1> QED BY <1>9, <1>10, <1>11, <1>12, <1>13, <1>14, <1>15, <1>16 DEF Arrive

LEMMA LossDemo ==
    ASSUME BrowserTypes, BrowserTypes', DemoInv, NEW call \in calls, Lose(call)
    PROVE  DemoInv'
<1>0. /\ call.tab \in Tabs /\ CallOnPage(call)
      /\ tabs \in [Tabs -> Page] /\ storage \in [Tabs -> Handoff \cup {Nobody}]
  BY TypeShape, CallShape DEF DemoInv
<1>1. PICK t \in Tabs : t = call.tab
  BY <1>0
<1>2. PICK page \in Page : page = tabs[t]
  BY <1>0
<1>3. UNCHANGED creator /\ FixturesStay /\ calls' = calls \ {call}
  BY DEF Lose, serverVars, FixturesStay
<1>4. CASE call.kind = "DEMO_PREPARE"
  <2>1. UNCHANGED storage
    BY <1>4 DEF Lose
  <2>2. PICK next : next = [page EXCEPT !.state = "FAILED"]
    OBVIOUS
  <2>3. next.screen = page.screen /\ next.selection = page.selection /\ next.shown = page.shown
    BY <2>2 DEF Page
  <2>4. UNCHANGED tabs \/ tabs' = [tabs EXCEPT ![t] = next]
    BY <1>1, <1>2, <1>4, <2>2 DEF Lose
  <2>5. \A u \in Tabs : /\ tabs'[u].screen = tabs[u].screen /\ tabs'[u].shown = tabs[u].shown
                        /\ tabs'[u].selection = tabs[u].selection
    BY <1>0, <1>2, <2>3, <2>4
  <2>6. ASSUME NEW d \in calls' PROVE CallOnPage(d)'
    <3>1. CallOnPage(d) /\ d.tab \in Tabs
      BY <1>3, TypeShape, CallShape DEF DemoInv
    <3> QED BY <1>3, <2>5, <3>1 DEF CallOnPage
  <2>7. \A u \in Tabs : HandoffOnPage(u)'
    BY <1>3, <2>1, <2>5 DEF DemoInv, HandoffOnPage
  <2> QED BY <2>6, <2>7 DEF DemoInv
<1>5. CASE call.kind # "DEMO_PREPARE"
  <2>1. tabs[t].screen \in AccountScreens
    BY <1>0, <1>1, <1>5 DEF CallOnPage
  <2>2. PICK failed : failed = [page EXCEPT !.state = "FAILED"]
    OBVIOUS
  <2>3. PICK staying : staying = [page EXCEPT !.signingOut = FALSE]
    OBVIOUS
  <2>4. failed.screen = page.screen /\ staying.screen = page.screen
    BY <2>2, <2>3 DEF Page
  <2>5. \/ UNCHANGED tabs \/ tabs' = [tabs EXCEPT ![t] = failed]
        \/ tabs' = [tabs EXCEPT ![t] = staying]
    BY <1>1, <1>2, <2>2, <2>3 DEF Lose
  <2>6. tabs'[t].screen \in AccountScreens /\ \A u \in Tabs \ {t} : tabs'[u] = tabs[u]
    BY <1>0, <1>2, <2>1, <2>4, <2>5
  <2>7. UNCHANGED storage \/ storage' = [storage EXCEPT ![t] = Nobody]
    BY <1>1 DEF Lose
  <2>8. (storage'[t] = storage[t] \/ storage'[t] = Nobody)
        /\ \A u \in Tabs \ {t} : storage'[u] = storage[u]
    BY <1>0, <2>7
  <2> QED BY <1>3, <2>1, <2>6, <2>8, AccountStep
<1> QED BY <1>4, <1>5

-----------------------------------------------------------------------------
(* The invariant and the theorems.                                         *)
BrowserInv == BrowserTypes /\ TokensInv /\ DemoInv

LEMMA InitBrowser == BrowserInit => BrowserInv
<1> SUFFICES ASSUME BrowserInit PROVE BrowserInv
  OBVIOUS
<1>1. ASSUME NEW c \in calls
      PROVE  /\ c \in FormedCall /\ c.kind = "PROBE" /\ c.tab \in Tabs /\ c.answer = "NONE"
    BY <1>1, NewCallShape DEF BrowserInit, Kinds
<1>2. Blank("START") \in Page /\ Blank("START").screen = "START"
  BY BlankShape DEF Screens, AccountScreens
<1>3. BrowserTypes
  BY <1>1, <1>2 DEF BrowserInit, BrowserTypes, BrowserTypeOK
<1>4. TokensInv
  BY <1>1 DEF BrowserInit, TokensInv, Holds, Denied
<1>5. DemoInv
  BY <1>1, <1>2 DEF BrowserInit, DemoInv, CallOnPage, HandoffOnPage, AccountScreens
<1> QED BY <1>3, <1>4, <1>5 DEF BrowserInv

LEMMA BrowserStep == BrowserInv /\ [BrowserNext]_browserVars => BrowserInv'
<1> SUFFICES ASSUME BrowserInv, [BrowserNext]_browserVars PROVE BrowserInv'
  OBVIOUS
<1> USE DEF BrowserInv
<1>1. ASSUME NEW t \in Tabs, UserStep(t) PROVE BrowserInv'
  BY <1>1, UserStepTypes, UserStepTokens, UserStepDemo
<1>2. ASSUME NEW call \in calls, ServerStep(call) PROVE BrowserInv'
  BY <1>2, ServerStepTypes, ServerStepTokens, ServerStepDemo
<1>3. ASSUME NEW call \in calls, Arrive(call) PROVE BrowserInv'
  BY <1>3, ArriveTypes, ArriveTokens, ArriveDemo
<1>4. ASSUME NEW call \in calls, Lose(call) PROVE BrowserInv'
  BY <1>4, LossTypes, LossTokens, LossDemo
<1>5. ASSUME NEW token \in Tokens, ExpireSession(token) PROVE BrowserInv'
  <2>1. BrowserTypes'
    BY <1>5 DEF ExpireSession, BrowserTypes, BrowserTypeOK, tokenVars
  <2>2. DemoInv'
    BY <1>5 DEF ExpireSession, DemoInv, CallOnPage, HandoffOnPage
  <2> QED BY <1>5, <2>1, <2>2, ExpiryTokens
<1>6. CASE UNCHANGED browserVars
  <2>1. UNCHANGED <<tabs, local, own, storage, cookie, calls, sessions, issued, creator>>
    BY <1>6 DEF browserVars
  <2>2. BrowserTypes'
    BY <2>1 DEF BrowserTypes, BrowserTypeOK
  <2>3. TokensInv'
    BY <2>1 DEF TokensInv, InUse
  <2>4. DemoInv'
    BY <2>1 DEF DemoInv, CallOnPage, HandoffOnPage
  <2> QED BY <2>2, <2>3, <2>4
<1> QED BY <1>1, <1>2, <1>3, <1>4, <1>5, <1>6 DEF BrowserNext

\* Types, the tokens, and the dashboard's calls and handoffs, whatever is in flight.
THEOREM BrowserInvariant == BrowserSpec => []BrowserInv
<1> QED BY InitBrowser, BrowserStep, PTL DEF BrowserSpec

\* The handoff of the development dashboard (judge-dashboard.tsx) is the request of
\* its current selection, and the page that takes it shows only fixture requests.
THEOREM DemoHandoffAlways == BrowserSpec => []DemoHandoffIsCurrent
<1>1. BrowserInv => DemoHandoffIsCurrent
  BY DEF BrowserInv, DemoInv, HandoffOnPage, DemoHandoffIsCurrent
<1> QED BY <1>1, BrowserInvariant, PTL

\* A late answer never discards the session a tab has obtained since
\* (setClientSessionToken, only after the active checks of the pages' effects).
THEOREM SessionKept == BrowserSpec => SessionIsNotDiscarded
<1>1. ASSUME BrowserInv, [BrowserNext]_browserVars
      PROVE  [\A t \in Tabs :
                (own[t] = local /\ local \in sessions)
                   => own'[t] # Nobody \/ \E call \in Of(t) : SignedOut(call)]_browserVars
  BY <1>1, SessionStep DEF BrowserInv, InUse
<1> QED BY <1>1, BrowserInvariant, PTL DEF BrowserSpec, SessionIsNotDiscarded
=============================================================================
