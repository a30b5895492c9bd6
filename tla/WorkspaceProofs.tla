---------------------------- MODULE WorkspaceProofs ----------------------------
(***************************************************************************)
(* What the application store and the setup form guarantee for any number  *)
(* of accounts, sessions, sites, robots, builds and policy keys; and, of   *)
(* the evaluator a site's policy is for, that it misses no point of a      *)
(* route, whatever the coordinates.                                        *)
(***************************************************************************)
EXTENDS Workspace, SitePolicy, TLAPS

\* What a row says of the rows it hangs on; a row that is unused has no account.
SiteOK(row, s) ==
    row # Unused => row.account # None /\ row.commitment = <<s, row.cipher[1]>>

RobotOK(row) ==
    row # Unused => row.account # None /\ sites[row.site].account = row.account

BuildOK(row) ==
    row # Unused =>
        /\ row.account # None
        /\ robots[row.robot] = [account |-> row.account, site |-> row.site]
        /\ sites[row.site].account = row.account
        /\ row.reach <= sites[row.site].cipher[1]

RowsInv ==
    /\ \A s \in Sites : SiteOK(sites[s], s)
    /\ \A r \in Robots : RobotOK(robots[r])
    /\ \A k \in Builds : BuildOK(builds[k])

\* A site that no build runs on.
Stray(s) == sites[s] # Unused /\ ~(\E k \in Builds : builds[k] # Unused /\ builds[k].site = s)

\* A submission that is under way has made what its next call names.
FormOK(f) ==
    /\ f.step = "READY" <=> f.site = None
    /\ f.step = "BUILD" => f.robot # None

FormInv == \A q \in Pages : FormOK(form[q])

WorkspaceInv ==
    /\ WorkspaceTypeOK
    /\ RowsInv
    /\ FormInv
    /\ StraysAreOfFailedSetups

USE WorkspaceAssumption DEF None

-----------------------------------------------------------------------------
(* The rows.                                                               *)
RowTypes ==
    /\ sites \in [Sites -> {Unused} \cup Site]
    /\ robots \in [Robots -> {Unused} \cup Robot]
    /\ builds \in [Builds -> {Unused} \cup Build]

FormRecord == [step : {"READY", "ROBOT", "BUILD"},
               site : Sites \cup {None}, robot : Robots \cup {None}]
ViewRecord == [sites : SUBSET Sites, robots : SUBSET Robots, builds : SUBSET Builds]

RestTypes ==
    /\ accounts \in [Emails -> Passwords \cup {None}]
    /\ sessions \in [Tokens -> {Unused, [account |-> "DELETED"]} \cup Session]
    /\ key \in Keys /\ clock \in 0..MaxTime
    /\ credential \in Tokens \cup {None}
    /\ form \in [Pages -> FormRecord]
    /\ view \in [Pages -> ViewRecord]
    /\ halted \subseteq Sites

LEMMA Types == WorkspaceTypeOK <=> RowTypes /\ RestTypes
BY DEF WorkspaceTypeOK, RowTypes, RestTypes, FormRecord, ViewRecord

LEMMA UnusedHasNoAccount == Unused.account = None
BY DEF Unused

LEMMA RowShape ==
    ASSUME RowTypes
    PROVE  /\ \A s \in Sites : sites[s].account # None => sites[s] \in Site
           /\ \A s \in Sites : sites[s] # Unused =>
                 sites[s].cipher[1] \in Nat /\ sites[s].cipher[2] \in Keys
           /\ \A r \in Robots : robots[r] # Unused =>
                 robots[r] \in Robot /\ robots[r].site \in Sites
           /\ \A k \in Builds : builds[k] # Unused =>
                 /\ builds[k] \in Build /\ builds[k].site \in Sites
                 /\ builds[k].robot \in Robots
BY UnusedHasNoAccount DEF RowTypes, Site, Robot, Build

LEMMA CallerShape ==
    ASSUME RestTypes
    PROVE  Caller \in Emails \cup {None}
BY DEF RestTypes, Caller, Live, Session

\* The session's account owns what the call makes.
LEMMA SiteCreated ==
    ASSUME RowTypes, RestTypes, RowsInv, NEW s \in Sites, NEW width \in Widths,
           CreateSite(s, width)
    PROVE  RowTypes' /\ RowsInv' /\ \A x \in Sites \ {s} : Stray(x)' => Stray(x)
<1>1. PICK row : row = [account |-> Caller, commitment |-> <<s, width>>,
                        cipher |-> <<width, key>>, createdAt |-> clock]
  OBVIOUS
<1>2. /\ row \in Site /\ row.account # None /\ row.commitment = <<s, row.cipher[1]>>
  BY <1>1, CallerShape DEF CreateSite, RestTypes, Site
<1>3. /\ sites' = [sites EXCEPT ![s] = row] /\ robots' = robots /\ builds' = builds
      /\ sites[s] = Unused
  BY <1>1 DEF CreateSite
<1>4. /\ sites' \in [Sites -> {Unused} \cup Site] /\ sites'[s] = row
      /\ \A x \in Sites \ {s} : sites'[x] = sites[x]
  BY <1>2, <1>3 DEF RowTypes
<1>5. \A x \in Sites : sites[x].account # None => x # s /\ sites'[x] = sites[x]
  BY <1>3, <1>4, UnusedHasNoAccount
<1>6. RowTypes'
  BY <1>3, <1>4 DEF RowTypes
<1>7. \A x \in Sites : SiteOK(sites[x], x)'
  BY <1>2, <1>4 DEF RowsInv, SiteOK
<1>8. \A r \in Robots : RobotOK(robots[r])'
  BY <1>3, <1>5, RowShape DEF RowsInv, RobotOK
<1>9. \A k \in Builds : BuildOK(builds[k])'
  BY <1>3, <1>5, RowShape DEF RowsInv, BuildOK
<1>10. \A x \in Sites \ {s} : Stray(x)' => Stray(x)
  BY <1>3, <1>4 DEF Stray
<1> QED BY <1>6, <1>7, <1>8, <1>9, <1>10 DEF RowsInv

LEMMA RobotCreated ==
    ASSUME RowTypes, RestTypes, RowsInv, NEW s, NEW r \in Robots, s \in Sites, CreateRobot(s, r)
    PROVE  RowTypes' /\ RowsInv' /\ \A x \in Sites : Stray(x)' => Stray(x)
<1>1. PICK row : row = [account |-> Caller, site |-> s]
  OBVIOUS
<1>2. /\ row \in Robot /\ row.account # None /\ row.site = s
      /\ sites[s].account = row.account
  BY <1>1, CallerShape DEF CreateRobot, SiteRow, Robot
<1>3. /\ robots' = [robots EXCEPT ![r] = row] /\ sites' = sites /\ builds' = builds
      /\ robots[r] = Unused
  BY <1>1 DEF CreateRobot
<1>4. /\ robots' \in [Robots -> {Unused} \cup Robot] /\ robots'[r] = row
      /\ \A x \in Robots \ {r} : robots'[x] = robots[x]
  BY <1>2, <1>3 DEF RowTypes
<1>5. RowTypes'
  BY <1>3, <1>4 DEF RowTypes
<1>6. \A x \in Sites : SiteOK(sites[x], x)'
  BY <1>3 DEF RowsInv, SiteOK
<1>7. \A x \in Robots : RobotOK(robots[x])'
  BY <1>2, <1>3, <1>4 DEF RowsInv, RobotOK
<1>8. ASSUME NEW k \in Builds PROVE BuildOK(builds[k])'
  <2>1. BuildOK(builds[k])
    BY DEF RowsInv
  <2>2. builds[k] # Unused => builds[k].robot \in Robots \ {r}
    BY <1>3, <2>1, RowShape, UnusedHasNoAccount DEF BuildOK
  <2> QED BY <1>3, <1>4, <2>1, <2>2 DEF BuildOK
<1>9. \A x \in Sites : Stray(x)' => Stray(x)
  BY <1>3 DEF Stray
<1> QED BY <1>5, <1>6, <1>7, <1>8, <1>9 DEF RowsInv

LEMMA BuildCreated ==
    ASSUME RowTypes, RestTypes, RowsInv, NEW s, NEW r, NEW k \in Builds, NEW reach \in Reaches,
           r \in Robots, CreateBuild(s, r, k, reach)
    PROVE  /\ RowTypes' /\ RowsInv'
           /\ \A x \in Sites : Stray(x)' => Stray(x) /\ x # s
<1>1. PICK row : row = [account |-> Caller, site |-> s, robot |-> r, reach |-> reach]
  OBVIOUS
<1>2. s \in Sites /\ robots[r] = [account |-> Caller, site |-> s]
  BY RowShape DEF CreateBuild, RobotRow, Robot
<1>3. /\ row \in Build /\ row # Unused /\ row.account # None /\ row.site = s
      /\ robots[row.robot] = [account |-> row.account, site |-> row.site]
      /\ sites[row.site].account = row.account
      /\ row.reach <= sites[row.site].cipher[1]
  BY <1>1, <1>2, CallerShape DEF CreateBuild, SiteRow, Build, Unused
<1>4. /\ builds' = [builds EXCEPT ![k] = row] /\ sites' = sites /\ robots' = robots
      /\ builds[k] = Unused
  BY <1>1 DEF CreateBuild
<1>5. /\ builds' \in [Builds -> {Unused} \cup Build] /\ builds'[k] = row
      /\ \A x \in Builds \ {k} : builds'[x] = builds[x]
  BY <1>3, <1>4 DEF RowTypes
<1>6. RowTypes'
  BY <1>4, <1>5 DEF RowTypes
<1>7. /\ \A x \in Sites : SiteOK(sites[x], x)'
      /\ \A x \in Robots : RobotOK(robots[x])'
  BY <1>4 DEF RowsInv, SiteOK, RobotOK
<1>8. \A x \in Builds : BuildOK(builds[x])'
  BY <1>3, <1>4, <1>5 DEF RowsInv, BuildOK
<1>9. \A x \in Sites : Stray(x)' => Stray(x) /\ x # s
  BY <1>3, <1>4, <1>5 DEF Stray
<1> QED BY <1>6, <1>7, <1>8, <1>9 DEF RowsInv

LEMMA RowsStay ==
    ASSUME RowTypes, RowsInv, UNCHANGED <<sites, robots, builds>>
    PROVE  /\ RowTypes' /\ RowsInv'
           /\ \A x \in Sites : Stray(x)' => Stray(x)
BY DEF RowTypes, RowsInv, SiteOK, RobotOK, BuildOK, Stray

-----------------------------------------------------------------------------
(* The page.                                                               *)
LEMMA LoadedShape ==
    ASSUME RowTypes
    PROVE  Loaded \in ViewRecord
BY DEF RowTypes, Loaded, OwnedBy, ViewRecord

LEMMA LoadedWithBuild ==
    ASSUME RowTypes, NEW k \in Builds
    PROVE  [Loaded EXCEPT !.builds = @ \cup {k}] \in ViewRecord
<1>1. PICK loaded : loaded = Loaded
  OBVIOUS
<1> QED BY <1>1, LoadedShape DEF ViewRecord

LEMMA FormShape ==
    ASSUME RestTypes, NEW q \in Pages
    PROVE  /\ form[q] \in FormRecord /\ form[q].site \in Sites \cup {None}
           /\ form[q].robot \in Robots \cup {None} /\ form[q].step \in {"READY", "ROBOT", "BUILD"}
BY DEF RestTypes, FormRecord

LEMMA ReadyForm == Ready \in FormRecord /\ FormOK(Ready) /\ Ready.site = None
BY DEF Ready, FormOK, FormRecord

\* The strays a step leaves are those there were, less what it put a build on.
LEMMA Gathered ==
    ASSUME RowTypes', RowsInv', RestTypes', FormInv',
           \A s \in Sites : Stray(s)' => s \in halted' \/ \E q \in Pages : form'[q].site = s
    PROVE  WorkspaceInv'
BY Types DEF WorkspaceInv, WorkspaceTypeOK, RowTypes, RestTypes, FormRecord, ViewRecord, Stray,
             StraysAreOfFailedSetups

\* A step that leaves rows and forms alone.
LEMMA FormStays ==
    ASSUME WorkspaceInv, RestTypes', UNCHANGED <<sites, robots, builds, form, halted>>
    PROVE  WorkspaceInv'
<1>1. RowTypes' /\ RowsInv' /\ \A s \in Sites : Stray(s)' => Stray(s)
  BY RowsStay, Types DEF WorkspaceInv
<1>2. \A s \in Sites : Stray(s)' => s \in halted' \/ \E q \in Pages : form'[q].site = s
  BY <1>1 DEF WorkspaceInv, StraysAreOfFailedSetups, Stray
<1> QED BY <1>1, <1>2, Gathered DEF WorkspaceInv, FormInv, FormOK

\* One form moves on, and accounts for its site: the form has it, or it failed.
LEMMA FormMoves ==
    ASSUME WorkspaceInv, NEW q \in Pages, NEW f \in FormRecord, FormOK(f),
           form' = [form EXCEPT ![q] = f],
           UNCHANGED <<accounts, sessions, key, clock, credential>>,
           view' \in [Pages -> ViewRecord], halted' \subseteq Sites, halted \subseteq halted',
           RowTypes', RowsInv',
           \A s \in Sites : Stray(s)' =>
               \/ s \in halted' \/ s = f.site
               \/ Stray(s) /\ s # form[q].site
    PROVE  WorkspaceInv'
<1>1. /\ form \in [Pages -> FormRecord] /\ form' \in [Pages -> FormRecord] /\ form'[q] = f
      /\ \A other \in Pages \ {q} : form'[other] = form[other]
  BY Types DEF WorkspaceInv, RestTypes
<1>2. FormInv'
  BY <1>1 DEF WorkspaceInv, FormInv, FormOK
<1>3. RestTypes'
  BY <1>1, Types DEF WorkspaceInv, RestTypes
<1>4. ASSUME NEW s \in Sites, Stray(s)'
      PROVE  s \in halted' \/ \E other \in Pages : form'[other].site = s
  <2>1. CASE Stray(s) /\ s # form[q].site
    <3>1. s \in halted \/ \E other \in Pages : form[other].site = s
      BY <2>1 DEF WorkspaceInv, StraysAreOfFailedSetups, Stray
    <3> QED BY <1>1, <2>1, <3>1
  <2> QED BY <1>1, <1>4, <2>1
<1> QED BY <1>2, <1>3, <1>4, Gathered

LEMMA NoViewShape == NoView \in ViewRecord
BY DEF NoView, ViewRecord

LEMMA AccountStepKeeps ==
    ASSUME WorkspaceInv,
           \/ \E email \in Emails, password \in Passwords :
                 \/ \E t \in Tokens : RegisterAccount(email, password, t)
                                      \/ SignIn(email, password, t)
                 \/ RegisterInterrupted(email, password)
           \/ SignOut \/ DropExpired
           \/ \E k \in Keys : Restart(k)
           \/ Tick
    PROVE  WorkspaceInv'
<1>1. RestTypes
  BY Types DEF WorkspaceInv
<1>2. ASSUME NEW email \in Emails, NEW password \in Passwords, NEW t \in Tokens,
             RegisterAccount(email, password, t) \/ SignIn(email, password, t)
      PROVE  WorkspaceInv'
  <2>1. PICK row : row = [account |-> email, expiresAt |-> clock + SessionTtl]
    OBVIOUS
  <2>2. row \in Session
    BY <1>1, <2>1 DEF RestTypes, Session
  <2>3. sessions' = [sessions EXCEPT ![t] = row]
    BY <1>2, <2>1 DEF RegisterAccount, SignIn, CreateSession
  <2>4. RestTypes'
    BY <1>1, <1>2, <2>2, <2>3 DEF RestTypes, RegisterAccount, SignIn
  <2> QED BY <1>2, <2>4, FormStays DEF RegisterAccount, SignIn
<1>3. ASSUME NEW email \in Emails, NEW password \in Passwords,
             RegisterInterrupted(email, password)
      PROVE  WorkspaceInv'
  <2>1. RestTypes'
    BY <1>1, <1>3 DEF RestTypes, RegisterInterrupted, pageVars
  <2> QED BY <1>3, <2>1, FormStays DEF RegisterInterrupted, pageVars
<1>4. CASE SignOut
  <2>1. RestTypes'
    BY <1>1, <1>4, NoViewShape DEF RestTypes, SignOut
  <2> QED BY <1>4, <2>1, FormStays DEF SignOut
<1>5. CASE DropExpired
  <2>1. RestTypes'
    BY <1>1, <1>5 DEF RestTypes, DropExpired, pageVars
  <2> QED BY <1>5, <2>1, FormStays DEF DropExpired, pageVars
<1>6. CASE (\E k \in Keys : Restart(k)) \/ Tick
  <2>1. RestTypes'
    BY <1>1, <1>6 DEF RestTypes, Restart, Tick, pageVars, rowVars
  <2> QED BY <1>6, <2>1, FormStays DEF Restart, Tick, pageVars, rowVars
<1> QED BY <1>2, <1>3, <1>4, <1>5, <1>6

LEMMA RefreshKeeps ==
    ASSUME WorkspaceInv, NEW q \in Pages, Refresh(q)
    PROVE  WorkspaceInv'
<1>1. RestTypes'
  BY Types, LoadedShape DEF WorkspaceInv, RestTypes, Refresh, Show, rowVars
<1> QED BY <1>1, FormStays DEF Refresh, rowVars

\* A submission ends in an error: its site, if it made one, is left behind.
LEMMA HaltShape ==
    ASSUME RestTypes, NEW q \in Pages, NEW site \in Sites \cup {None}, Halt(q, site)
    PROVE  /\ form' = [form EXCEPT ![q] = Ready] /\ view' \in [Pages -> ViewRecord]
           /\ halted' \subseteq Sites /\ halted \subseteq halted' /\ site \in halted' \cup {None}
BY DEF RestTypes, Halt

LEMMA SubmitFailsKeeps ==
    ASSUME WorkspaceInv, NEW q \in Pages, SubmitFails(q)
    PROVE  WorkspaceInv'
<1>1. RowTypes /\ RestTypes /\ RowsInv
  BY Types DEF WorkspaceInv
<1>2. /\ Halt(q, form[q].site) /\ UNCHANGED <<sites, robots, builds>>
      /\ UNCHANGED <<accounts, sessions, key, clock, credential>>
  BY DEF SubmitFails, rowVars
<1>3. RowTypes' /\ RowsInv' /\ \A s \in Sites : Stray(s)' => Stray(s)
  BY <1>1, <1>2, RowsStay
<1> QED BY <1>1, <1>2, <1>3, HaltShape, FormShape, ReadyForm, FormMoves

LEMMA SubmitSiteKeeps ==
    ASSUME WorkspaceInv, NEW q \in Pages, NEW s \in Sites, NEW width \in Widths,
           SubmitSite(q, s, width)
    PROVE  WorkspaceInv'
<1> DEFINE asked == [step |-> "ROBOT", site |-> s, robot |-> None]
<1>1. RowTypes /\ RestTypes /\ RowsInv /\ form[q].site = None
  BY Types DEF WorkspaceInv, FormInv, FormOK, SubmitSite
<1>2. RowTypes' /\ RowsInv' /\ \A x \in Sites \ {s} : Stray(x)' => Stray(x)
  BY <1>1, SiteCreated DEF SubmitSite
<1>3. UNCHANGED <<accounts, sessions, key, clock, credential>>
  BY DEF SubmitSite, CreateSite
<1>4. \A x \in Sites : Stray(x)' => x = s \/ (Stray(x) /\ x # form[q].site)
  BY <1>1, <1>2
<1>5. CASE Halt(q, s)
  BY <1>1, <1>2, <1>3, <1>4, <1>5, HaltShape, ReadyForm, FormMoves
<1>6. CASE form' = [form EXCEPT ![q] = asked] /\ UNCHANGED <<view, halted>>
  <2>1. asked \in FormRecord /\ FormOK(asked) /\ asked.site = s
    BY DEF FormRecord, FormOK
  <2>2. view' \in [Pages -> ViewRecord] /\ halted' \subseteq Sites /\ halted \subseteq halted'
    BY <1>1, <1>6 DEF RestTypes
  <2> HIDE DEF asked
  <2> QED BY <1>2, <1>3, <1>4, <1>6, <2>1, <2>2, FormMoves
<1> QED BY <1>5, <1>6 DEF SubmitSite

LEMMA SubmitRobotKeeps ==
    ASSUME WorkspaceInv, NEW q \in Pages, NEW r \in Robots, SubmitRobot(q, r)
    PROVE  WorkspaceInv'
<1> DEFINE asked == [form[q] EXCEPT !.step = "BUILD", !.robot = r]
<1>1. RowTypes /\ RestTypes /\ RowsInv /\ form[q] \in FormRecord
      /\ form[q].site \in Sites \cup {None}
  BY Types, FormShape DEF WorkspaceInv
<1>2. form[q].site \in Sites
  BY <1>1 DEF WorkspaceInv, FormInv, FormOK, SubmitRobot
<1>3. RowTypes' /\ RowsInv' /\ \A x \in Sites : Stray(x)' => Stray(x)
  BY <1>1, <1>2, RobotCreated DEF SubmitRobot
<1>4. UNCHANGED <<accounts, sessions, key, clock, credential>>
  BY DEF SubmitRobot, CreateRobot
<1>5. CASE Halt(q, form[q].site)
  BY <1>1, <1>2, <1>3, <1>4, <1>5, HaltShape, ReadyForm, FormMoves
<1>6. CASE form' = [form EXCEPT ![q] = asked] /\ UNCHANGED <<view, halted>>
  <2>1. asked \in FormRecord /\ FormOK(asked) /\ asked.site = form[q].site
    BY <1>1, <1>2 DEF FormRecord, FormOK
  <2>2. view' \in [Pages -> ViewRecord] /\ halted' \subseteq Sites /\ halted \subseteq halted'
    BY <1>1, <1>6 DEF RestTypes
  <2> HIDE DEF asked
  <2> QED BY <1>3, <1>4, <1>6, <2>1, <2>2, FormMoves
<1> QED BY <1>5, <1>6 DEF SubmitRobot

LEMMA SubmitBuildKeeps ==
    ASSUME WorkspaceInv, NEW q \in Pages, NEW k \in Builds, NEW reach \in Reaches,
           SubmitBuild(q, k, reach)
    PROVE  WorkspaceInv'
<1>1. RowTypes /\ RestTypes /\ RowsInv
      /\ form[q].site \in Sites \cup {None} /\ form[q].robot \in Robots \cup {None}
  BY Types, FormShape DEF WorkspaceInv
<1>2. form[q].robot \in Robots
  BY <1>1 DEF WorkspaceInv, FormInv, FormOK, SubmitBuild
<1>3. RowTypes' /\ RowsInv' /\ \A x \in Sites : Stray(x)' => Stray(x) /\ x # form[q].site
  BY <1>1, <1>2, BuildCreated DEF SubmitBuild
<1>4. UNCHANGED <<accounts, sessions, key, clock, credential>>
  BY DEF SubmitBuild, CreateBuild
<1>5. /\ form' = [form EXCEPT ![q] = Ready] /\ halted' \subseteq Sites /\ halted \subseteq halted'
      /\ view' \in [Pages -> ViewRecord]
  <2>1. CASE Halt(q, form[q].site)
    BY <1>1, <2>1, HaltShape
  <2>2. CASE /\ form' = [form EXCEPT ![q] = Ready]
             /\ Show(q, [Loaded EXCEPT !.builds = @ \cup {k}]) /\ UNCHANGED halted
    BY <1>1, <2>2, LoadedWithBuild DEF RestTypes, Show
  <2> QED BY <2>1, <2>2 DEF SubmitBuild
<1> QED BY <1>3, <1>4, <1>5, ReadyForm, FormMoves

LEMMA AddBuildKeeps ==
    ASSUME WorkspaceInv, NEW q \in Pages, NEW s \in Sites, NEW r \in Robots, NEW k \in Builds,
           NEW reach \in Reaches, AddBuild(q, s, r, k, reach)
    PROVE  WorkspaceInv'
<1>1. RowTypes /\ RestTypes /\ RowsInv
  BY Types DEF WorkspaceInv
<1>2. CreateBuild(s, r, k, reach)
  BY DEF AddBuild
<1>3. RowTypes' /\ RowsInv' /\ \A x \in Sites : Stray(x)' => Stray(x)
  BY <1>1, <1>2, BuildCreated
<1>4. view' \in [Pages -> ViewRecord]
  BY <1>1, LoadedWithBuild DEF AddBuild, Show, RestTypes
<1>5. RestTypes'
  BY <1>1, <1>2, <1>4 DEF RestTypes, AddBuild, CreateBuild
<1>6. \A x \in Sites : Stray(x)' => x \in halted' \/ \E other \in Pages : form'[other].site = x
  BY <1>3 DEF WorkspaceInv, StraysAreOfFailedSetups, Stray, AddBuild
<1> QED BY <1>3, <1>5, <1>6, Gathered DEF WorkspaceInv, FormInv, FormOK, AddBuild

LEMMA WorkspaceStep ==
    ASSUME WorkspaceInv, [Next]_vars
    PROVE  WorkspaceInv'
<1>1. CASE UNCHANGED vars
  <2>1. RestTypes'
    BY <1>1, Types DEF WorkspaceInv, RestTypes, vars, rowVars, pageVars
  <2> QED BY <1>1, <2>1, FormStays DEF vars, rowVars, pageVars
<1>2. CASE Next
  BY <1>2, AccountStepKeeps, RefreshKeeps, SubmitFailsKeeps, SubmitSiteKeeps,
     SubmitRobotKeeps, SubmitBuildKeeps, AddBuildKeeps DEF Next
<1> QED BY <1>1, <1>2

LEMMA WorkspaceInitially ==
    ASSUME Init
    PROVE  WorkspaceInv
<1>1. WorkspaceTypeOK
  BY Types, ReadyForm, NoViewShape DEF Init, RowTypes, RestTypes, Unused
<1>2. RowsInv
  BY DEF Init, RowsInv, SiteOK, RobotOK, BuildOK
<1> QED BY <1>1, <1>2, ReadyForm DEF Init, WorkspaceInv, FormInv, StraysAreOfFailedSetups

-----------------------------------------------------------------------------
(* Rows keep their types and what they say of each other, and the setup    *)
(* forms account for every site without a build, in every reachable state. *)
THEOREM WorkspaceInvariant == Spec => []WorkspaceInv
<1>1. Init => WorkspaceInv
  BY WorkspaceInitially
<1>2. WorkspaceInv /\ [Next]_vars => WorkspaceInv'
  BY WorkspaceStep
<1> QED BY <1>1, <1>2, PTL DEF Spec

(* However sign-ins, sign-outs, expiries and key changes fall between the  *)
(* calls of a form, no row hangs on another account's, a build's route     *)
(* stays inside the committed warehouse, and the operator is given the     *)
(* committed policy or none.                                               *)
THEOREM RowsAgreeAlways == Spec => []RowsAgree
<1>1. ASSUME WorkspaceInv
      PROVE  RowsAgree
  <2>1. RowTypes /\ RowsInv
    BY <1>1, Types DEF WorkspaceInv
  <2>2. ASSUME NEW s \in Sites, sites[s] # Unused
        PROVE  OperatorSecret(s) = IF sites[s].cipher[2] = key
                                   THEN [width |-> sites[s].commitment[2]]
                                   ELSE [error |-> "POLICY_UNAVAILABLE"]
    BY <2>1, <2>2 DEF RowsInv, SiteOK, OperatorSecret, Opens
  <2>3. ASSUME NEW k \in Builds, builds[k] # Unused
        PROVE  /\ robots[builds[k].robot]
                     = [account |-> builds[k].account, site |-> builds[k].site]
               /\ sites[builds[k].site].account = builds[k].account
               /\ builds[k].reach <= sites[builds[k].site].commitment[2]
    <3>1. BuildOK(builds[k]) /\ builds[k].site \in Sites
      BY <2>1, <2>3, RowShape DEF RowsInv
    <3>2. sites[builds[k].site] # Unused /\ SiteOK(sites[builds[k].site], builds[k].site)
      BY <2>1, <2>3, <3>1, UnusedHasNoAccount DEF RowsInv, BuildOK
    <3> QED BY <2>3, <3>1, <3>2 DEF BuildOK, SiteOK
  <2>4. \A r \in Robots : robots[r] # Unused => sites[robots[r].site].account = robots[r].account
    BY <2>1 DEF RowsInv, RobotOK
  <2> QED BY <2>2, <2>3, <2>4 DEF RowsAgree
<1> QED BY <1>1, WorkspaceInvariant, PTL

(* A site without a build is one some form is at, or is left of a          *)
(* submission that failed: no successful setup leaves one behind, however  *)
(* many forms run at once.                                                 *)
THEOREM StraysAreExplained == Spec => []StraysAreOfFailedSetups
<1>1. WorkspaceInv => StraysAreOfFailedSetups
  BY DEF WorkspaceInv
<1> QED BY <1>1, WorkspaceInvariant, PTL

-----------------------------------------------------------------------------
(* The evaluator's geometry (Evaluator, SitePolicy), on integers of any    *)
(* size.  A rectangle is met by a segment that starts outside of it only   *)
(* through a side; the sides are seen from the start of the segment, as    *)
(* lines x = m or y = n, and every case is one of the left side, reflected *)
(* or transposed.                                                          *)

\* Products keep the order, and a positive factor can be taken away.
LEMMA Products ==
    ASSUME NEW x \in Int, NEW y \in Int, NEW z \in Int
    PROVE  /\ x <= y /\ 0 <= z => x * z <= y * z
           /\ 0 < x /\ 0 < z => 0 < x * z
           /\ 0 < z /\ x * z <= y * z => x <= y
           /\ (x * y) * z = (x * z) * y /\ x * y = y * x
OBVIOUS

(* Of a segment from the origin to (u, v): it crosses the line x = m       *)
(* between its ends, at a height from n to N.                              *)
Side(u, v, m, n, N) ==
    \/ 0 < m /\ m < u /\ u * n <= v * m /\ v * m <= u * N
    \/ u < m /\ m < 0 /\ u * N <= v * m /\ v * m <= u * n

\* The point k / d of the way along is between two values.
Along(u, m, M, k, d) == d * m <= k * u /\ k * u <= d * M

\* So it is in a mirror.
LEMMA AlongReflected ==
    ASSUME NEW u \in Int, NEW m \in Int, NEW M \in Int, NEW k \in Int, NEW d \in Int,
           Along(u, m, M, k, d)
    PROVE  Along(-u, -M, -m, k, d)
BY DEF Along

\* A coordinate greater than the start's that is reached is passed, or is that of the end.
LEMMA Reached ==
    ASSUME NEW u \in Int, NEW m \in Int, NEW k \in Int, NEW d \in Int,
           0 < d, 0 <= k, k <= d, 0 < m, d * m <= k * u
    PROVE  0 < k /\ m <= u /\ (u = m => k = d)
<1>1. 0 < d * m
  BY Products
<1>2. 0 < k /\ 0 < u
  <2>1. k # 0
    BY <1>1
  <2>2. ~(u <= 0)
    <3> SUFFICES ASSUME u <= 0 PROVE FALSE
      OBVIOUS
    <3>1. u * k <= 0 * k
      BY Products
    <3> QED BY <1>1, <3>1, Products
  <2> QED BY <2>1, <2>2
<1>3. k * u <= d * u
  BY <1>2, Products
<1>4. m * d <= u * d
  BY <1>3, Products
<1>5. m <= u
  BY <1>4, Products
<1>6. ASSUME u = m PROVE k = d
  <2>1. d * m <= k * m
    BY <1>6
  <2>2. d <= k
    BY <2>1, Products
  <2> QED BY <2>2
<1> QED BY <1>2, <1>5, <1>6

\* One that passes x = m too low for the left side comes in through the bottom.
LEMMA FromBelow ==
    ASSUME NEW u \in Int, NEW v \in Int, NEW m \in Int, NEW M \in Int, NEW n \in Int, NEW N \in Int,
           NEW k \in Int, NEW d \in Int, 0 < d, 0 <= k, k <= d,
           Along(u, m, M, k, d), Along(v, n, N, k, d), 0 < m, v * m < u * n
    PROVE  (v = n /\ k = d) \/ Side(v, u, n, m, M)
<1>1. 0 < k /\ m <= u
  BY Reached DEF Along
<1>2. 0 < u
  BY <1>1
<1>3. d * n <= k * v /\ k * u <= d * M
  BY DEF Along
<1>4. 0 < v
  <2> SUFFICES ASSUME v <= 0 PROVE FALSE
    OBVIOUS
  <2>1. (d * n) * u <= (k * v) * u
    BY <1>2, <1>3, Products
  <2>2. (d * m) * (-v) <= (k * u) * (-v)
    BY Products DEF Along
  <2>3. d * (n * u) <= d * (m * v)
    BY <2>1, <2>2
  <2>4. (n * u) * d <= (m * v) * d
    BY <2>3, Products
  <2>5. n * u <= m * v
    BY <2>4, Products
  <2> QED BY <2>5
<1>5. 0 < n
  <2> SUFFICES ASSUME n <= 0 PROVE FALSE
    OBVIOUS
  <2>1. 0 < v * m
    BY <1>4, Products
  <2>2. n * u <= 0 * u
    BY <1>2, Products
  <2> QED BY <2>1, <2>2
<1>6. n <= v /\ (v = n => k = d)
  BY <1>3, <1>5, Reached
<1>7. u * n <= v * M
  <2>1. (k * u) * n <= (d * M) * n
    BY <1>3, <1>5, Products
  <2>2. M >= 0
    <3>1. 0 < k * u
      BY <1>1, <1>2, Products
    <3> SUFFICES ASSUME M < 0 PROVE FALSE
      OBVIOUS
    <3>2. M * d <= 0 * d
      BY Products
    <3> QED BY <1>3, <3>1, <3>2
  <2>3. (d * n) * M <= (k * v) * M
    BY <1>3, <2>2, Products
  <2>4. (u * n) * k <= (v * M) * k
    BY <2>1, <2>3
  <2> QED BY <1>1, <2>4, Products
<1> QED BY <1>4, <1>5, <1>6, <1>7 DEF Side

\* Mirrored at either axis a side is still crossed.
LEMMA SideReflected ==
    ASSUME NEW u \in Int, NEW v \in Int, NEW m \in Int, NEW n \in Int, NEW N \in Int
    PROVE  /\ Side(-u, v, -m, n, N) => Side(u, v, m, n, N)
           /\ Side(u, -v, m, -N, -n) => Side(u, v, m, n, N)
<1>1. /\ (-u) * n = -(u * n) /\ (-u) * N = -(u * N) /\ v * (-m) = -(v * m)
      /\ u * (-n) = -(u * n) /\ u * (-N) = -(u * N) /\ (-v) * m = -(v * m)
  OBVIOUS
<1> QED BY <1>1 DEF Side

\* The segment ends in a rectangle, or crosses a side of it.
Sides(u, v, m, M, n, N) ==
    \/ m <= u /\ u <= M /\ n <= v /\ v <= N
    \/ Side(u, v, m, n, N) \/ Side(u, v, M, n, N)
    \/ Side(v, u, n, m, M) \/ Side(v, u, N, m, M)

\* A segment that starts left of a rectangle it reaches.
LEMMA FromLeft ==
    ASSUME NEW u \in Int, NEW v \in Int, NEW m \in Int, NEW M \in Int, NEW n \in Int, NEW N \in Int,
           NEW k \in Int, NEW d \in Int, 0 < d, 0 <= k, k <= d,
           Along(u, m, M, k, d), Along(v, n, N, k, d), 0 < m
    PROVE  Sides(u, v, m, M, n, N)
<1>1. m <= u /\ (u = m => k = d)
  BY Reached DEF Along
<1>2. ASSUME k = d PROVE m <= u /\ u <= M /\ n <= v /\ v <= N
  <2>1. u * d <= M * d /\ n * d <= v * d /\ v * d <= N * d
    BY <1>2, Products DEF Along
  <2> QED BY <1>1, <2>1, Products
<1>3. CASE v * m < u * n
  BY <1>2, <1>3, FromBelow DEF Sides
<1>4. CASE u * N < v * m
  <2>1. Along(-v, -N, -n, k, d)
    BY AlongReflected
  <2>2. (-v) * m < u * (-N)
    BY <1>4
  <2>3. k = d \/ Side(-v, u, -N, m, M)
    BY <2>1, <2>2, FromBelow
  <2>4. k = d \/ Side(v, u, N, m, M)
    BY <2>3, SideReflected
  <2> QED BY <1>2, <2>4 DEF Sides
<1>5. CASE u * n <= v * m /\ v * m <= u * N
  BY <1>1, <1>2, <1>5 DEF Sides, Side
<1>6. u * n \in Int /\ v * m \in Int /\ u * N \in Int
  OBVIOUS
<1> QED BY <1>3, <1>4, <1>5, <1>6

\* A segment that starts left or right of a rectangle it reaches.
LEMMA FromAside ==
    ASSUME NEW u \in Int, NEW v \in Int, NEW m \in Int, NEW M \in Int, NEW n \in Int, NEW N \in Int,
           NEW k \in Int, NEW d \in Int, 0 < d, 0 <= k, k <= d,
           Along(u, m, M, k, d), Along(v, n, N, k, d), 0 < m \/ M < 0
    PROVE  Sides(u, v, m, M, n, N)
<1>1. CASE M < 0
  <2>1. Along(-u, -M, -m, k, d) /\ 0 < -M
    BY <1>1, AlongReflected
  <2>2. Sides(-u, v, -M, -m, n, N)
    BY <2>1, FromLeft
  <2>3. /\ Side(-u, v, -M, n, N) => Side(u, v, M, n, N)
        /\ Side(-u, v, -m, n, N) => Side(u, v, m, n, N)
        /\ Side(v, -u, n, -M, -m) => Side(v, u, n, m, M)
        /\ Side(v, -u, N, -M, -m) => Side(v, u, N, m, M)
    BY SideReflected
  <2> QED BY <2>2, <2>3 DEF Sides
<1> QED BY <1>1, FromLeft

\* Or below or above it, which is the same with the axes exchanged; or in it.
LEMMA FromAnywhere ==
    ASSUME NEW u \in Int, NEW v \in Int, NEW m \in Int, NEW M \in Int, NEW n \in Int, NEW N \in Int,
           NEW k \in Int, NEW d \in Int, 0 < d, 0 <= k, k <= d,
           Along(u, m, M, k, d), Along(v, n, N, k, d)
    PROVE  (m <= 0 /\ 0 <= M /\ n <= 0 /\ 0 <= N) \/ Sides(u, v, m, M, n, N)
<1>1. CASE 0 < m \/ M < 0
  BY <1>1, FromAside
<1>2. CASE 0 < n \/ N < 0
  <2>1. Sides(v, u, n, N, m, M)
    BY <1>2, FromAside
  <2> QED BY <2>1 DEF Sides
<1> QED BY <1>1, <1>2

-----------------------------------------------------------------------------
\* The sides as the source sees them.
Place == [x : Int, y : Int]

\* It does not matter which end of a side comes first.
LEMMA EndsSwapped ==
    ASSUME NEW a \in Place, NEW b \in Place, NEW c \in Place, NEW d \in Place
    PROVE  SegmentsIntersect(a, b, c, d) <=> SegmentsIntersect(a, b, d, c)
<1>1. ASSUME NEW e \in Place PROVE Orientation(c, d, e) = -Orientation(d, c, e)
  <2>1. PICK x \in Int, y \in Int, s \in Int, t \in Int :
           x = d.x - c.x /\ y = d.y - c.y /\ s = e.x - c.x /\ t = e.y - c.y
    BY DEF Place
  <2>2. Orientation(c, d, e) = x * t - y * s
    BY <2>1 DEF Orientation
  <2>3. Orientation(d, c, e) = (-x) * (t - y) - (-y) * (s - x)
    BY <2>1 DEF Orientation, Place
  <2> QED BY <2>2, <2>3
<1>2. ASSUME NEW e \in Place, NEW f \in Place, NEW g \in Place PROVE Orientation(e, f, g) \in Int
  BY DEF Orientation, Place
<1>3. PICK i \in Int, j \in Int, p \in Int, q \in Int :
         i = Orientation(a, b, c) /\ j = Orientation(a, b, d)
         /\ p = Orientation(c, d, a) /\ q = Orientation(c, d, b)
  BY <1>2
<1>4. -p = Orientation(d, c, a) /\ -q = Orientation(d, c, b)
  BY <1>1, <1>2, <1>3
<1>5. Opposite(p, q) <=> Opposite(-p, -q)
  BY DEF Opposite
<1>6. Opposite(i, j) <=> Opposite(j, i)
  BY DEF Opposite
<1>7. ASSUME NEW e \in Place, Orientation(c, d, e) = 0 <=> Orientation(d, c, e) = 0
      PROVE  PointOnSegment(e, c, d) <=> PointOnSegment(e, d, c)
  BY <1>7 DEF PointOnSegment, Between, Place
<1>8. /\ PointOnSegment(a, c, d) <=> PointOnSegment(a, d, c)
      /\ PointOnSegment(b, c, d) <=> PointOnSegment(b, d, c)
  BY <1>1, <1>2, <1>7
<1> QED BY <1>3, <1>4, <1>5, <1>6, <1>8 DEF SegmentsIntersect

\* Nor on which axis is called x.
Transposed(p) == [x |-> p.y, y |-> p.x]

LEMMA AxesSwapped ==
    ASSUME NEW a \in Place, NEW b \in Place, NEW c \in Place, NEW d \in Place
    PROVE  SegmentsIntersect(a, b, c, d) <=>
           SegmentsIntersect(Transposed(a), Transposed(b), Transposed(c), Transposed(d))
<1>1. ASSUME NEW e \in Place, NEW f \in Place, NEW g \in Place
      PROVE  /\ Orientation(e, f, g) \in Int
             /\ Orientation(Transposed(e), Transposed(f), Transposed(g)) = -Orientation(e, f, g)
  BY DEF Orientation, Place, Transposed
<1>2. ASSUME NEW i \in Int, NEW j \in Int PROVE Opposite(i, j) <=> Opposite(-i, -j)
  BY DEF Opposite
<1>3. ASSUME NEW e \in Place, NEW f \in Place, NEW g \in Place
      PROVE  PointOnSegment(e, f, g)
                <=> PointOnSegment(Transposed(e), Transposed(f), Transposed(g))
  <2>1. Orientation(f, g, e) = 0 <=> Orientation(Transposed(f), Transposed(g), Transposed(e)) = 0
    BY <1>1
  <2> QED BY <2>1 DEF PointOnSegment, Transposed
<1>4. ASSUME NEW e \in Place, NEW f \in Place, NEW g \in Place, NEW h \in Place
      PROVE  Opposite(Orientation(e, f, g), Orientation(e, f, h))
                <=> Opposite(Orientation(Transposed(e), Transposed(f), Transposed(g)),
                             Orientation(Transposed(e), Transposed(f), Transposed(h)))
  <2>1. PICK i \in Int, j \in Int : i = Orientation(e, f, g) /\ j = Orientation(e, f, h)
    BY <1>1
  <2>2. /\ Orientation(Transposed(e), Transposed(f), Transposed(g)) = -i
        /\ Orientation(Transposed(e), Transposed(f), Transposed(h)) = -j
    BY <1>1, <2>1
  <2> QED BY <1>2, <2>1, <2>2
<1> QED BY <1>3, <1>4 DEF SegmentsIntersect

-----------------------------------------------------------------------------
\* A point of the segment at a corner's bearing is between its ends.
LEMMA Abreast ==
    ASSUME NEW u \in Int, NEW v \in Int, NEW m \in Int, NEW n \in Int, u * n = v * m,
           (0 < m /\ m < u) \/ (u < m /\ m < 0)
    PROVE  Between(n, 0, v)
<1>1. CASE 0 < m /\ m < u
  <2>1. CASE 0 <= v
    <3>1. 0 * m <= v * m /\ m * v <= u * v
      BY <1>1, <2>1, Products
    <3>2. 0 * u <= n * u /\ n * u <= v * u
      BY <3>1, Products
    <3> QED BY <1>1, <3>2, Products DEF Between
  <2>2. CASE v < 0
    <3>1. v * m <= 0 * m /\ m * (-v) <= u * (-v)
      BY <1>1, <2>2, Products
    <3>2. n * u <= 0 * u /\ v * u <= n * u
      BY <3>1, Products
    <3> QED BY <1>1, <3>2, Products DEF Between
  <2> QED BY <2>1, <2>2
<1>2. CASE u < m /\ m < 0
  <2>1. CASE 0 <= v
    <3>1. 0 * (-m) <= v * (-m) /\ (-m) * v <= (-u) * v
      BY <1>2, <2>1, Products
    <3>2. 0 * (-u) <= n * (-u) /\ n * (-u) <= v * (-u)
      BY <3>1, Products
    <3> QED BY <1>2, <3>2, Products DEF Between
  <2>2. CASE v < 0
    <3>1. v * (-m) <= 0 * (-m) /\ (-m) * (-v) <= (-u) * (-v)
      BY <1>2, <2>2, Products
    <3>2. n * (-u) <= 0 * (-u) /\ v * (-u) <= n * (-u)
      BY <3>1, Products
    <3> QED BY <1>2, <3>2, Products DEF Between
  <2> QED BY <2>1, <2>2
<1> QED BY <1>1, <1>2

\* The orientations of a segment's ends from a vertical side.
LEMMA SideOrientations ==
    ASSUME NEW a \in Place, NEW b \in Place, NEW c \in Place, NEW d \in Place, c.x = d.x
    PROVE  /\ Orientation(c, d, a) = (d.y - c.y) * (c.x - a.x)
           /\ Orientation(c, d, b) = -((d.y - c.y) * (b.x - c.x))
           /\ d.y - c.y = (d.y - a.y) - (c.y - a.y)
           /\ b.x - c.x = (b.x - a.x) - (c.x - a.x)
<1>1. PICK h \in Int, m \in Int, w \in Int :
         h = d.y - c.y /\ m = c.x - a.x /\ w = b.x - c.x
  BY DEF Place
<1>2. d.x - c.x = 0 /\ a.x - c.x = -m /\ a.y - c.y \in Int /\ b.y - c.y \in Int
  BY <1>1 DEF Place
<1>3. /\ Orientation(c, d, a) = 0 * (a.y - c.y) - h * (-m)
      /\ Orientation(c, d, b) = 0 * (b.y - c.y) - h * w
  BY <1>1, <1>2 DEF Orientation
<1>4. 0 * (a.y - c.y) - h * (-m) = h * m /\ 0 * (b.y - c.y) - h * w = -(h * w)
  BY <1>2
<1>5. d.y - c.y = (d.y - a.y) - (c.y - a.y) /\ b.x - c.x = (b.x - a.x) - (c.x - a.x)
  BY DEF Place
<1> QED BY <1>1, <1>3, <1>4, <1>5

\* A side that is crossed intersects.
LEMMA VerticalSide ==
    ASSUME NEW a \in Place, NEW b \in Place, NEW c \in Place, NEW d \in Place,
           c.x = d.x, c.y < d.y, Side(b.x - a.x, b.y - a.y, c.x - a.x, c.y - a.y, d.y - a.y)
    PROVE  SegmentsIntersect(a, b, c, d)
<1>1. PICK u \in Int, v \in Int, m \in Int, n \in Int, N \in Int :
         u = b.x - a.x /\ v = b.y - a.y /\ m = c.x - a.x /\ n = c.y - a.y /\ N = d.y - a.y
  BY DEF Place
<1>2. n < N /\ Side(u, v, m, n, N)
  BY <1>1 DEF Place
<1>3. Orientation(a, b, c) = u * n - v * m /\ Orientation(a, b, d) = u * N - v * m
  BY <1>1 DEF Orientation
<1>4. Orientation(c, d, a) = (N - n) * m /\ Orientation(c, d, b) = -((N - n) * (u - m))
  BY <1>1, SideOrientations
<1>5. (0 < m /\ m < u) \/ (u < m /\ m < 0)
  BY <1>2 DEF Side
<1>6. Opposite(Orientation(c, d, a), Orientation(c, d, b))
  <2>1. CASE 0 < m /\ m < u
    <3>1. 0 < (N - n) * m /\ 0 < (N - n) * (u - m)
      BY <1>2, <2>1, Products
    <3> QED BY <1>4, <3>1 DEF Opposite
  <2>2. CASE u < m /\ m < 0
    <3>1. 0 < (N - n) * (-m) /\ 0 < (N - n) * (m - u)
      BY <1>2, <2>2, Products
    <3>2. (N - n) * m < 0 /\ (N - n) * (u - m) < 0
      BY <3>1
    <3> QED BY <1>4, <3>2 DEF Opposite
  <2> QED BY <1>5, <2>1, <2>2
<1>7. CASE u * n = v * m
  <2>1. Between(n, 0, v)
    BY <1>5, <1>7, Abreast
  <2>2. Between(c.x, a.x, b.x) /\ Between(c.y, a.y, b.y)
    BY <1>1, <1>5, <2>1 DEF Between, Place
  <2>3. PointOnSegment(c, a, b)
    BY <1>3, <1>7, <2>2 DEF PointOnSegment
  <2> QED BY <2>3 DEF SegmentsIntersect
<1>8. CASE u * N = v * m
  <2>1. Between(N, 0, v)
    BY <1>5, <1>8, Abreast
  <2>2. Between(d.x, a.x, b.x) /\ Between(d.y, a.y, b.y)
    BY <1>1, <1>5, <2>1 DEF Between, Place
  <2>3. PointOnSegment(d, a, b)
    BY <1>3, <1>8, <2>2 DEF PointOnSegment
  <2> QED BY <2>3 DEF SegmentsIntersect
<1>9. CASE u * n # v * m /\ u * N # v * m
  <2>1. Opposite(u * n - v * m, u * N - v * m)
    BY <1>2, <1>9 DEF Side, Opposite
  <2> QED BY <1>3, <1>6, <2>1 DEF SegmentsIntersect
<1> QED BY <1>7, <1>8, <1>9

\* Some point of a segment from the origin is in a rectangle.
Meets(u, v, m, M, n, N) ==
    \E d \in Nat \ {0} : \E k \in 0..d : Along(u, m, M, k, d) /\ Along(v, n, N, k, d)

\* A point that lies on a segment is some way along it.
LEMMA OnTheWay ==
    ASSUME NEW u \in Int, NEW v \in Int, NEW m \in Int, NEW n \in Int,
           u * n = v * m, Between(m, 0, u), Between(n, 0, v)
    PROVE  Meets(u, v, m, m, n, n)
<1>1. ASSUME NEW k \in Int, NEW d \in Int, 0 < d, 0 <= k, k <= d, d * m = k * u, d * n = k * v
      PROVE  Meets(u, v, m, m, n, n)
  <2>1. d \in Nat \ {0} /\ k \in 0..d /\ Along(u, m, m, k, d) /\ Along(v, n, n, k, d)
    BY <1>1 DEF Along
  <2> QED BY <2>1 DEF Meets
<1>2. CASE 0 < u
  <2>1. 0 <= m /\ m <= u /\ u * m = m * u /\ u * n = m * v
    BY <1>2 DEF Between
  <2> QED BY <1>1, <1>2, <2>1
<1>3. CASE u < 0
  <2>1. PICK w \in Int, p \in Int : w = -u /\ p = -m
    OBVIOUS
  <2>2. 0 < w /\ 0 <= p /\ p <= w
    BY <1>3, <2>1 DEF Between
  <2>3. w * m = p * u /\ w * n = p * v
    BY <2>1
  <2> QED BY <1>1, <2>2, <2>3
<1>4. CASE u = 0 /\ v # 0
  <2>1. m = 0
    BY <1>4 DEF Between
  <2>2. CASE 0 < v
    BY <1>1, <1>4, <2>1, <2>2 DEF Between
  <2>3. CASE v < 0
    <3>1. PICK w \in Int, p \in Int : w = -v /\ p = -n
      OBVIOUS
    <3>2. 0 < w /\ 0 <= p /\ p <= w
      BY <2>3, <3>1 DEF Between
    <3>3. w * m = p * u /\ w * n = p * v
      BY <1>4, <2>1, <3>1
    <3> QED BY <1>1, <3>2, <3>3
  <2> QED BY <1>4, <2>2, <2>3
<1>5. CASE u = 0 /\ v = 0
  <2>1. m = 0 /\ n = 0
    BY <1>5 DEF Between
  <2> QED BY <1>1, <1>5, <2>1
<1> QED BY <1>2, <1>3, <1>4, <1>5

\* What meets a part of a rectangle meets the rectangle.
LEMMA MeetsMore ==
    ASSUME NEW u \in Int, NEW v \in Int, NEW m \in Int, NEW M \in Int, NEW n \in Int, NEW N \in Int,
           NEW p \in Int, NEW P \in Int, NEW q \in Int, NEW Q \in Int,
           m <= p, P <= M, n <= q, Q <= N, Meets(u, v, p, P, q, Q)
    PROVE  Meets(u, v, m, M, n, N)
<1>1. PICK d \in Nat \ {0} : \E k \in 0..d : Along(u, p, P, k, d) /\ Along(v, q, Q, k, d)
  BY DEF Meets
<1>2. PICK k \in 0..d : Along(u, p, P, k, d) /\ Along(v, q, Q, k, d)
  BY <1>1
<1>3. m * d <= p * d /\ P * d <= M * d /\ n * d <= q * d /\ Q * d <= N * d
  BY <1>1, Products
<1>4. Along(u, m, M, k, d) /\ Along(v, n, N, k, d)
  <2>1. d \in Int /\ k \in Int /\ k * u \in Int /\ k * v \in Int
    BY <1>1
  <2>2. d * m <= d * p /\ d * P <= d * M /\ d * n <= d * q /\ d * Q <= d * N
    BY <1>3, <2>1, Products
  <2> QED BY <1>2, <2>1, <2>2 DEF Along
<1> QED BY <1>1, <1>4 DEF Meets

\* Both ends of the segment are points of it.
LEMMA EndsMeet ==
    ASSUME NEW u \in Int, NEW v \in Int, NEW m \in Int, NEW M \in Int, NEW n \in Int, NEW N \in Int,
           \/ m <= 0 /\ 0 <= M /\ n <= 0 /\ 0 <= N
           \/ m <= u /\ u <= M /\ n <= v /\ v <= N
    PROVE  Meets(u, v, m, M, n, N)
<1>1. CASE m <= 0 /\ 0 <= M /\ n <= 0 /\ 0 <= N
  <2>1. Along(u, m, M, 0, 1) /\ Along(v, n, N, 0, 1)
    BY <1>1 DEF Along
  <2> QED BY <2>1 DEF Meets
<1>2. CASE m <= u /\ u <= M /\ n <= v /\ v <= N
  <2>1. Along(u, m, M, 1, 1) /\ Along(v, n, N, 1, 1)
    BY <1>2 DEF Along
  <2> QED BY <2>1 DEF Meets
<1> QED BY <1>1, <1>2

\* Intersections with a side are points of it.
LEMMA ThroughSide ==
    ASSUME NEW a \in Place, NEW b \in Place, NEW c \in Place, NEW d \in Place,
           c.x = d.x, c.y < d.y, SegmentsIntersect(a, b, c, d)
    PROVE  Meets(b.x - a.x, b.y - a.y, c.x - a.x, c.x - a.x, c.y - a.y, d.y - a.y)
<1>1. PICK u \in Int, v \in Int, m \in Int, n \in Int, N \in Int :
         u = b.x - a.x /\ v = b.y - a.y /\ m = c.x - a.x /\ n = c.y - a.y /\ N = d.y - a.y
  BY DEF Place
<1>2. n < N
  BY <1>1 DEF Place
<1>3. Orientation(a, b, c) = u * n - v * m /\ Orientation(a, b, d) = u * N - v * m
  BY <1>1 DEF Orientation
<1>4. Orientation(c, d, a) = (N - n) * m /\ Orientation(c, d, b) = -((N - n) * (u - m))
  BY <1>1, SideOrientations
<1>5. CASE PointOnSegment(c, a, b)
  <2>1. u * n = v * m /\ Between(m, 0, u) /\ Between(n, 0, v)
    BY <1>1, <1>3, <1>5 DEF PointOnSegment, Between, Place
  <2>2. Meets(u, v, m, m, n, n)
    BY <2>1, OnTheWay
  <2>3. Meets(u, v, m, m, n, N)
    BY <1>2, <2>2, MeetsMore
  <2> QED BY <1>1, <2>3
<1>6. CASE PointOnSegment(d, a, b)
  <2>1. u * N = v * m /\ Between(m, 0, u) /\ Between(N, 0, v)
    BY <1>1, <1>3, <1>6 DEF PointOnSegment, Between, Place
  <2>2. Meets(u, v, m, m, N, N)
    BY <2>1, OnTheWay
  <2>3. Meets(u, v, m, m, n, N)
    BY <1>2, <2>2, MeetsMore
  <2> QED BY <1>1, <2>3
<1>7. CASE PointOnSegment(a, c, d) \/ PointOnSegment(b, c, d)
  <2>1. \/ m = 0 /\ n <= 0 /\ 0 <= N
        \/ m = u /\ n <= v /\ v <= N
    BY <1>1, <1>7 DEF PointOnSegment, Between, Place
  <2>2. Meets(u, v, m, m, n, N)
    BY <2>1, EndsMeet
  <2> QED BY <1>1, <2>2
<1>8. CASE /\ Opposite(u * n - v * m, u * N - v * m)
           /\ Opposite((N - n) * m, -((N - n) * (u - m)))
  <2>1. (0 < m /\ m < u) \/ (u < m /\ m < 0)
    <3>1. /\ 0 < m => 0 < (N - n) * m
          /\ m < 0 => 0 < (N - n) * (-m)
          /\ m < u => 0 < (N - n) * (u - m)
          /\ u < m => 0 < (N - n) * (m - u)
      BY <1>2, Products
    <3>2. /\ m < 0 => (N - n) * m < 0
          /\ u < m => (N - n) * (u - m) < 0
          /\ m = 0 => (N - n) * m = 0
          /\ u = m => (N - n) * (u - m) = 0
      BY <3>1
    <3> QED BY <1>8, <3>1, <3>2 DEF Opposite
  <2>2. CASE 0 < m /\ m < u
    <3>1. n * u <= N * u
      BY <1>2, <2>2, Products
    <3>2. u * n < v * m /\ v * m < u * N
      BY <1>8, <3>1 DEF Opposite
    <3>3. Along(u, m, m, m, u) /\ Along(v, n, N, m, u)
      BY <3>2 DEF Along
    <3>4. u \in Nat \ {0} /\ m \in 0..u
      BY <2>2
    <3>5. Meets(u, v, m, m, n, N)
      BY <3>3, <3>4 DEF Meets
    <3> QED BY <1>1, <3>5
  <2>3. CASE u < m /\ m < 0
    <3>1. n * (-u) <= N * (-u)
      BY <1>2, <2>3, Products
    <3>2. u * N < v * m /\ v * m < u * n
      BY <1>8, <3>1 DEF Opposite
    <3>3. Along(u, m, m, -m, -u) /\ Along(v, n, N, -m, -u)
      BY <3>2 DEF Along
    <3>4. -u \in Nat \ {0} /\ -m \in 0..(-u)
      BY <2>3
    <3>5. Meets(u, v, m, m, n, N)
      BY <3>3, <3>4 DEF Meets
    <3> QED BY <1>1, <3>5
  <2> QED BY <2>1, <2>2, <2>3
<1> QED BY <1>3, <1>4, <1>5, <1>6, <1>7, <1>8 DEF SegmentsIntersect

-----------------------------------------------------------------------------
Areas == [minX : Int, minY : Int, maxX : Int, maxY : Int]

(* Some point of the closed segment lies in the closed rectangle: the one  *)
(* k / d of the way along, on integers.                                    *)
Touches(a, b, r) ==
    \E d \in Nat \ {0} : \E k \in 0..d :
        PointInside([x |-> a.x * d + k * (b.x - a.x), y |-> a.y * d + k * (b.y - a.y)],
                    [minX |-> r.minX * d, minY |-> r.minY * d,
                     maxX |-> r.maxX * d, maxY |-> r.maxY * d])

\* The same seen from the start of the segment.
LEMMA TouchesIsMeets ==
    ASSUME NEW a \in Place, NEW b \in Place, NEW r \in Areas
    PROVE  Touches(a, b, r) <=> Meets(b.x - a.x, b.y - a.y, r.minX - a.x, r.maxX - a.x,
                                      r.minY - a.y, r.maxY - a.y)
<1>1. ASSUME NEW o \in Int, NEW e \in Int, NEW m \in Int, NEW M \in Int, NEW k \in Int,
             NEW d \in Int
      PROVE  Along(e - o, m - o, M - o, k, d)
                <=> m * d <= o * d + k * (e - o) /\ o * d + k * (e - o) <= M * d
  <2>1. d * (m - o) = m * d - o * d /\ d * (M - o) = M * d - o * d
    OBVIOUS
  <2>2. m * d \in Int /\ M * d \in Int /\ o * d \in Int /\ k * (e - o) \in Int
    OBVIOUS
  <2> QED BY <2>1, <2>2 DEF Along
<1>2. ASSUME NEW d \in Nat \ {0}, NEW k \in 0..d
      PROVE  PointInside([x |-> a.x * d + k * (b.x - a.x), y |-> a.y * d + k * (b.y - a.y)],
                         [minX |-> r.minX * d, minY |-> r.minY * d,
                          maxX |-> r.maxX * d, maxY |-> r.maxY * d])
                <=> /\ Along(b.x - a.x, r.minX - a.x, r.maxX - a.x, k, d)
                    /\ Along(b.y - a.y, r.minY - a.y, r.maxY - a.y, k, d)
  <2>1. /\ a.x \in Int /\ b.x \in Int /\ r.minX \in Int /\ r.maxX \in Int
        /\ a.y \in Int /\ b.y \in Int /\ r.minY \in Int /\ r.maxY \in Int
        /\ k \in Int /\ d \in Int
    BY DEF Place, Areas
  <2> QED BY <1>1, <2>1 DEF PointInside
<1> QED BY <1>2 DEF Touches, Meets

\* The four sides, with their ends in one order.
SidesIntersect(a, b, r) ==
    \/ SegmentsIntersect(a, b, [x |-> r.minX, y |-> r.minY], [x |-> r.maxX, y |-> r.minY])
    \/ SegmentsIntersect(a, b, [x |-> r.minX, y |-> r.maxY], [x |-> r.maxX, y |-> r.maxY])
    \/ SegmentsIntersect(a, b, [x |-> r.minX, y |-> r.minY], [x |-> r.minX, y |-> r.maxY])
    \/ SegmentsIntersect(a, b, [x |-> r.maxX, y |-> r.minY], [x |-> r.maxX, y |-> r.maxY])

LEMMA CornersInTurn ==
    ASSUME NEW a \in Place, NEW b \in Place, NEW r \in Areas
    PROVE  SegmentIntersectsRectangle(a, b, r)
              <=> PointInside(a, r) \/ PointInside(b, r) \/ SidesIntersect(a, b, r)
<1>1. PICK p \in Place, q \in Place, s \in Place, t \in Place :
         /\ p = [x |-> r.minX, y |-> r.minY] /\ q = [x |-> r.maxX, y |-> r.minY]
         /\ s = [x |-> r.maxX, y |-> r.maxY] /\ t = [x |-> r.minX, y |-> r.maxY]
  BY DEF Place, Areas
<1>2. /\ Corners(r)[1] = p /\ Corners(r)[2] = q /\ Corners(r)[3] = s /\ Corners(r)[4] = t
  BY <1>1 DEF Corners
<1>3. (1 % 4) + 1 = 2 /\ (2 % 4) + 1 = 3 /\ (3 % 4) + 1 = 4 /\ (4 % 4) + 1 = 1
  OBVIOUS
<1>4. (\E i \in 1..4 : SegmentsIntersect(a, b, Corners(r)[i], Corners(r)[(i % 4) + 1]))
         <=> \/ SegmentsIntersect(a, b, p, q) \/ SegmentsIntersect(a, b, q, s)
             \/ SegmentsIntersect(a, b, s, t) \/ SegmentsIntersect(a, b, t, p)
  <2>1. \A i \in 1..4 : i = 1 \/ i = 2 \/ i = 3 \/ i = 4
    OBVIOUS
  <2> QED BY <1>2, <1>3, <2>1
<1>5. /\ SegmentsIntersect(a, b, s, t) <=> SegmentsIntersect(a, b, t, s)
      /\ SegmentsIntersect(a, b, t, p) <=> SegmentsIntersect(a, b, p, t)
  BY EndsSwapped
<1> QED BY <1>1, <1>4, <1>5 DEF SegmentIntersectsRectangle, SidesIntersect

\* Of a side that lies along an axis: crossed, it intersects; intersected, it is met.
LEMMA VerticalIsExact ==
    ASSUME NEW a \in Place, NEW b \in Place, NEW x \in Int, NEW y \in Int, NEW Y \in Int, y < Y
    PROVE  /\ Side(b.x - a.x, b.y - a.y, x - a.x, y - a.y, Y - a.y)
                 => SegmentsIntersect(a, b, [x |-> x, y |-> y], [x |-> x, y |-> Y])
           /\ SegmentsIntersect(a, b, [x |-> x, y |-> y], [x |-> x, y |-> Y])
                 => Meets(b.x - a.x, b.y - a.y, x - a.x, x - a.x, y - a.y, Y - a.y)
<1>1. PICK c \in Place, d \in Place : c = [x |-> x, y |-> y] /\ d = [x |-> x, y |-> Y]
  BY DEF Place
<1>2. c.x = x /\ d.x = x /\ c.y = y /\ d.y = Y
  BY <1>1
<1> QED BY <1>1, <1>2, VerticalSide, ThroughSide

\* The same of the other axis.
LEMMA HorizontalIsExact ==
    ASSUME NEW a \in Place, NEW b \in Place, NEW x \in Int, NEW X \in Int, NEW y \in Int, x < X
    PROVE  /\ Side(b.y - a.y, b.x - a.x, y - a.y, x - a.x, X - a.x)
                 => SegmentsIntersect(a, b, [x |-> x, y |-> y], [x |-> X, y |-> y])
           /\ SegmentsIntersect(a, b, [x |-> x, y |-> y], [x |-> X, y |-> y])
                 => Meets(b.x - a.x, b.y - a.y, x - a.x, X - a.x, y - a.y, y - a.y)
<1>1. PICK c \in Place, d \in Place : c = [x |-> x, y |-> y] /\ d = [x |-> X, y |-> y]
  BY DEF Place
<1>2. Transposed(c) = [x |-> y, y |-> x] /\ Transposed(d) = [x |-> y, y |-> X]
  BY <1>1 DEF Transposed
<1>3. PICK e \in Place, f \in Place : e = Transposed(a) /\ f = Transposed(b)
  BY DEF Place, Transposed
<1>4. e.x = a.y /\ e.y = a.x /\ f.x = b.y /\ f.y = b.x
  BY <1>3 DEF Transposed
<1>5. SegmentsIntersect(a, b, c, d)
         <=> SegmentsIntersect(e, f, [x |-> y, y |-> x], [x |-> y, y |-> X])
  BY <1>2, <1>3, AxesSwapped
<1>6. Meets(b.y - a.y, b.x - a.x, y - a.y, y - a.y, x - a.x, X - a.x)
         => Meets(b.x - a.x, b.y - a.y, x - a.x, X - a.x, y - a.y, y - a.y)
  BY DEF Meets
<1> QED BY <1>1, <1>4, <1>5, <1>6, VerticalIsExact

\* Of integer coordinates of any size, the evaluator finds a segment in a zone exactly
\* when one of its points, between the observations too, is in the zone
\* (segmentIntersectsRectangle).
THEOREM ZonesAreDetected ==
    ASSUME NEW a \in Place, NEW b \in Place, NEW r \in Areas, IsRectangle(r)
    PROVE  SegmentIntersectsRectangle(a, b, r) <=> Touches(a, b, r)
<1>1. PICK u \in Int, v \in Int, m \in Int, M \in Int, n \in Int, N \in Int :
         /\ u = b.x - a.x /\ v = b.y - a.y
         /\ m = r.minX - a.x /\ M = r.maxX - a.x /\ n = r.minY - a.y /\ N = r.maxY - a.y
  <2>1. /\ b.x - a.x \in Int /\ b.y - a.y \in Int /\ r.minX - a.x \in Int
        /\ r.maxX - a.x \in Int /\ r.minY - a.y \in Int /\ r.maxY - a.y \in Int
    BY DEF Place, Areas
  <2> QED BY <2>1
<1>2. m < M /\ n < N /\ r.minX < r.maxX /\ r.minY < r.maxY
  BY <1>1 DEF IsRectangle, Place, Areas
<1>3. Touches(a, b, r) <=> Meets(u, v, m, M, n, N)
  BY <1>1, TouchesIsMeets
<1>4. /\ PointInside(a, r) <=> m <= 0 /\ 0 <= M /\ n <= 0 /\ 0 <= N
      /\ PointInside(b, r) <=> m <= u /\ u <= M /\ n <= v /\ v <= N
  BY <1>1 DEF PointInside, Place, Areas
<1>5. r.minX \in Int /\ r.maxX \in Int /\ r.minY \in Int /\ r.maxY \in Int
  BY DEF Areas
<1>6. ASSUME Meets(u, v, m, M, n, N)
      PROVE  PointInside(a, r) \/ PointInside(b, r) \/ SidesIntersect(a, b, r)
  <2>1. PICK d \in Nat \ {0} : \E k \in 0..d : Along(u, m, M, k, d) /\ Along(v, n, N, k, d)
    BY <1>6 DEF Meets
  <2>2. PICK k \in 0..d : Along(u, m, M, k, d) /\ Along(v, n, N, k, d)
    BY <2>1
  <2>3. (m <= 0 /\ 0 <= M /\ n <= 0 /\ 0 <= N) \/ Sides(u, v, m, M, n, N)
    BY <2>2, FromAnywhere
  <2>4. Sides(u, v, m, M, n, N) => PointInside(b, r) \/ SidesIntersect(a, b, r)
    BY <1>1, <1>2, <1>4, <1>5, VerticalIsExact, HorizontalIsExact DEF Sides, SidesIntersect
  <2> QED BY <1>4, <2>3, <2>4
<1>7. ASSUME SidesIntersect(a, b, r) PROVE Meets(u, v, m, M, n, N)
  <2>1. \/ Meets(u, v, m, M, n, n) \/ Meets(u, v, m, M, N, N)
        \/ Meets(u, v, m, m, n, N) \/ Meets(u, v, M, M, n, N)
    BY <1>1, <1>2, <1>5, <1>7, VerticalIsExact, HorizontalIsExact DEF SidesIntersect
  <2> QED BY <1>2, <2>1, MeetsMore
<1>8. PointInside(a, r) \/ PointInside(b, r) => Meets(u, v, m, M, n, N)
  BY <1>4, EndsMeet
<1> QED BY <1>3, <1>6, <1>7, <1>8, CornersInTurn

-----------------------------------------------------------------------------
(* What evaluateScenario finds in the two steps of a build's trace, under  *)
(* the envelope createSite makes of a policy.                              *)
LEMMA PolicyShape ==
    ASSUME NEW p
    PROVE  LET e == BuildEnvelope(p)
           IN  /\ DOMAIN e.rules = {1, 2, 3, 4}
               /\ e.rules[1].type = "restricted-zone" /\ e.rules[1].zone = RESTRICTED
               /\ e.rules[2].type = "site-speed-limit" /\ e.rules[2].limit = p.maximumSpeed
               /\ e.rules[3].type = "zone-speed-limit" /\ e.rules[3].zone = RESTRICTED
               /\ e.rules[4].type = "payload-zone-restriction" /\ e.rules[4].zone = RESTRICTED
               /\ \A rule : rule.zone = RESTRICTED => e.zones[ZoneOf(e, rule)].bounds = p.zone
<1>1. PICK e : e = BuildEnvelope(p)
  OBVIOUS
<1>2. e.zones = <<[id |-> RESTRICTED, bounds |-> p.zone]>>
  BY <1>1 DEF BuildEnvelope
<1>3. DOMAIN e.zones = {1} /\ e.zones[1].id = RESTRICTED /\ e.zones[1].bounds = p.zone
  BY <1>2
<1>4. ASSUME NEW rule, rule.zone = RESTRICTED PROVE ZoneOf(e, rule) = 1
  BY <1>3, <1>4 DEF ZoneOf
<1>5. e.rules = <<[id |-> 2, type |-> "restricted-zone", zone |-> RESTRICTED],
                  [id |-> 3, type |-> "site-speed-limit", limit |-> p.maximumSpeed],
                  [id |-> 4, type |-> "zone-speed-limit", zone |-> RESTRICTED,
                   limit |-> p.zoneSpeed],
                  [id |-> 1, type |-> "payload-zone-restriction", zone |-> RESTRICTED,
                   limit |-> p.threshold]>>
  BY <1>1 DEF BuildEnvelope
<1>6. /\ DOMAIN e.rules = {1, 2, 3, 4}
      /\ e.rules[1].type = "restricted-zone" /\ e.rules[1].zone = RESTRICTED
      /\ e.rules[2].type = "site-speed-limit" /\ e.rules[2].limit = p.maximumSpeed
      /\ e.rules[3].type = "zone-speed-limit" /\ e.rules[3].zone = RESTRICTED
      /\ e.rules[4].type = "payload-zone-restriction" /\ e.rules[4].zone = RESTRICTED
  BY <1>5
<1>7. \A rule : rule.zone = RESTRICTED => e.zones[ZoneOf(e, rule)].bounds = p.zone
  BY <1>3, <1>4
<1> QED BY <1>1, <1>6, <1>7

\* At a step some rule is broken when the zone is entered or the site's speed exceeded.
LEMMA StepOfPolicy ==
    ASSUME NEW p, NEW payload, NEW steps, NEW i
    PROVE  LET e == BuildEnvelope(p)
           IN  (\E k \in DOMAIN e.rules : Violates(e.rules[k], payload, steps, i, e))
                  <=> Enters(steps, i, p.zone) \/ steps[i].speed > p.maximumSpeed
<1>1. PICK e : e = BuildEnvelope(p)
  OBVIOUS
<1>2. /\ DOMAIN e.rules = {1, 2, 3, 4}
      /\ e.rules[1].type = "restricted-zone" /\ e.rules[1].zone = RESTRICTED
      /\ e.rules[2].type = "site-speed-limit" /\ e.rules[2].limit = p.maximumSpeed
      /\ e.rules[3].type = "zone-speed-limit" /\ e.rules[3].zone = RESTRICTED
      /\ e.rules[4].type = "payload-zone-restriction" /\ e.rules[4].zone = RESTRICTED
      /\ \A rule : rule.zone = RESTRICTED => e.zones[ZoneOf(e, rule)].bounds = p.zone
  BY <1>1, PolicyShape, Zenon
<1>3. Violates(e.rules[1], payload, steps, i, e) <=> Enters(steps, i, p.zone)
  BY <1>2 DEF Violates
<1>4. Violates(e.rules[2], payload, steps, i, e) <=> steps[i].speed > p.maximumSpeed
  BY <1>2 DEF Violates
<1>5. Violates(e.rules[3], payload, steps, i, e) => Enters(steps, i, p.zone)
  BY <1>2 DEF Violates
<1>6. Violates(e.rules[4], payload, steps, i, e) => Enters(steps, i, p.zone)
  BY <1>2 DEF Violates
<1> QED BY <1>1, <1>2, <1>3, <1>4, <1>5, <1>6

\* Of a policy the store accepts and any route, some rule is broken exactly when the route
\* touches the restricted zone anywhere or is faster than the site allows: the other two
\* rules decide nothing (evaluateRule, over buildEnvelope and buildTraceSuite).
THEOREM RoutesAreJudged ==
    ASSUME NEW p, p.zone \in Areas, p.maximumSpeed \in Nat, IsPolicy(p),
           NEW route \in [start : Place, end : Place, speed : Nat], NEW payload, NEW s \in 1..3
    PROVE  LET e == BuildEnvelope(p)
               steps == TraceSuite(route)[s].steps
           IN  (\E i \in DOMAIN steps, k \in DOMAIN e.rules :
                   Violates(e.rules[k], payload, steps, i, e))
                  <=> Touches(route.start, route.end, p.zone) \/ route.speed > p.maximumSpeed
<1>1. PICK steps : steps = TraceSuite(route)[s].steps
  OBVIOUS
<1>2. steps = <<[position |-> route.start, speed |-> 0],
                [position |-> route.end, speed |-> route.speed]>>
  BY <1>1 DEF TraceSuite
<1>3. /\ DOMAIN steps = {1, 2}
      /\ steps[1].position = route.start /\ steps[1].speed = 0
      /\ steps[2].position = route.end /\ steps[2].speed = route.speed
  BY <1>2
<1>4. IsRectangle(p.zone)
  BY DEF IsPolicy
<1>5. Enters(steps, 1, p.zone) <=> PointInside(route.start, p.zone)
  BY <1>3 DEF Enters
<1>6. Enters(steps, 2, p.zone) <=> SegmentIntersectsRectangle(route.start, route.end, p.zone)
  <2>1. 2 - 1 = 1 /\ 2 # 1
    OBVIOUS
  <2> QED BY <1>3, <2>1 DEF Enters
<1>7. SegmentIntersectsRectangle(route.start, route.end, p.zone)
         <=> Touches(route.start, route.end, p.zone)
  BY <1>4, ZonesAreDetected
<1>8. PointInside(route.start, p.zone) => SegmentIntersectsRectangle(route.start, route.end, p.zone)
  BY DEF SegmentIntersectsRectangle
<1>9. ~(0 > p.maximumSpeed)
  OBVIOUS
<1>10. PICK e : e = BuildEnvelope(p)
  OBVIOUS
<1>11. \A i \in {1, 2} :
          (\E k \in DOMAIN e.rules : Violates(e.rules[k], payload, steps, i, e))
             <=> Enters(steps, i, p.zone) \/ steps[i].speed > p.maximumSpeed
  BY <1>10, StepOfPolicy
<1> QED BY <1>1, <1>3, <1>5, <1>6, <1>7, <1>8, <1>9, <1>10, <1>11

-----------------------------------------------------------------------------
(* The generator's words.  Two words that one step makes equal differ in a *)
(* set of bits that is its own shift, which no bits of a word are.         *)
LEMMA ShiftsMove ==
    ASSUME NEW w \in SUBSET (0..31)
    PROVE  /\ w = ShiftLeft(w, 13) => w = {}
           /\ w = ShiftRight(w, 17) => w = {}
           /\ w = ShiftLeft(w, 5) => w = {}
<1>1. ASSUME w = ShiftLeft(w, 13) PROVE w = {}
  <2>1. \A i \in w : i \in 0..31 /\ i - 13 \in w
    BY <1>1 DEF ShiftLeft
  <2>2. \A i \in w : i - 13 \in w /\ i - 26 \in w /\ i - 39 \in w
    BY <2>1
  <2> QED BY <2>1, <2>2
<1>2. ASSUME w = ShiftRight(w, 17) PROVE w = {}
  <2>1. \A i \in w : i \in 0..31 /\ i + 17 \in w
    BY <1>2 DEF ShiftRight
  <2>2. \A i \in w : i + 17 \in w /\ i + 34 \in w
    BY <2>1
  <2> QED BY <2>1, <2>2
<1>3. ASSUME w = ShiftLeft(w, 5) PROVE w = {}
  <2>1. \A i \in w : i \in 0..31 /\ i - 5 \in w
    BY <1>3 DEF ShiftLeft
  <2>2. \A i \in w : i - 5 \in w /\ i - 10 \in w /\ i - 15 \in w /\ i - 20 \in w
    BY <2>1
  <2>3. \A i \in w : i - 25 \in w /\ i - 30 \in w /\ i - 35 \in w
    BY <2>1, <2>2
  <2> QED BY <2>1, <2>3
<1> QED BY <1>1, <1>2, <1>3

\* From a seed the envelope's parser accepts, no draw makes the generator a constant zero:
\* a word with a bit set is followed by another one (createXorshift32).
THEOREM GeneratorNeverDies ==
    ASSUME NEW w \in SUBSET (0..31), w # {}
    PROVE  NextWord(w) \in SUBSET (0..31) /\ NextWord(w) # {}
<1>1. PICK u : u = Xor(w, ShiftLeft(w, 13))
  OBVIOUS
<1>2. PICK v : v = Xor(u, ShiftRight(u, 17))
  OBVIOUS
<1>3. \A x, y \in SUBSET (0..31) : Xor(x, y) \in SUBSET (0..31) /\ (Xor(x, y) = {} => x = y)
  BY DEF Xor
<1>4. \A x, n : ShiftLeft(x, n) \in SUBSET (0..31) /\ ShiftRight(x, n) \in SUBSET (0..31)
  BY DEF ShiftLeft, ShiftRight
<1>5. u \in SUBSET (0..31) /\ u # {}
  <2>1. u \in SUBSET (0..31) /\ (u = {} => w = ShiftLeft(w, 13))
    BY <1>1, <1>3, <1>4
  <2> QED BY <2>1, ShiftsMove
<1>6. v \in SUBSET (0..31) /\ v # {}
  <2>1. v \in SUBSET (0..31) /\ (v = {} => u = ShiftRight(u, 17))
    BY <1>2, <1>3, <1>4, <1>5
  <2> QED BY <1>5, <2>1, ShiftsMove
<1>7. NextWord(w) = Xor(v, ShiftLeft(v, 5))
  BY <1>1, <1>2 DEF NextWord
<1>8. NextWord(w) \in SUBSET (0..31) /\ (NextWord(w) = {} => v = ShiftLeft(v, 5))
  BY <1>3, <1>4, <1>6, <1>7
<1> QED BY <1>6, <1>8, ShiftsMove
=============================================================================
