----------------------------- MODULE WebProofs -----------------------------
(***************************************************************************)
(* FolderBrowser for any number of clicks; SignIn for any number of tabs   *)
(* and sessions; FindingsView for any number of scans and any limit of the *)
(* listing.                                                                *)
(***************************************************************************)
EXTENDS FolderBrowser, SignIn, FindingsView, FiniteSetTheorems, WellFoundedInduction, TLAPS

(* Only the request for what is asked for is waited for.                   *)
OnlyCurrentRequest == requests \subseteq {[path |-> path, hidden |-> hidden]}

ShownIsCurrent ==
    ~loading /\ ~failed /\ open => listing.folder = Resolved(path) /\ listing.all = hidden

BrowserInv ==
    /\ open \in BOOLEAN /\ loading \in BOOLEAN /\ failed \in BOOLEAN
    /\ OnlyCurrentRequest
    /\ ShownIsCurrent

LEMMA LoadInv ==
    ASSUME NEW p, NEW h, Load(p, h), open' \in BOOLEAN
    PROVE  BrowserInv'
BY DEF Load, AfterAbort, BrowserInv, OnlyCurrentRequest, ShownIsCurrent

LEMMA BrowserStep == ASSUME BrowserInv, [BrowserNext]_browserVars PROVE BrowserInv'
<1>1. ASSUME NEW p, SetPath(p) PROVE BrowserInv'
  BY <1>1, LoadInv DEF SetPath, BrowserInv
<1>2. ASSUME NEW start, OpenBrowser(start) PROVE BrowserInv'
  BY <1>2, LoadInv DEF OpenBrowser
<1>3. CASE ShowHidden
  BY <1>3, LoadInv DEF ShowHidden, BrowserInv
<1>4. ASSUME NEW r \in requests, Answer(r) PROVE BrowserInv'
  <2>1. r = [path |-> path, hidden |-> hidden]
    BY DEF BrowserInv, OnlyCurrentRequest
  <2>2. Listing(r).folder = Resolved(path) /\ Listing(r).all = hidden
    BY <2>1 DEF Listing
  <2>3. OnlyCurrentRequest'
    BY <1>4 DEF BrowserInv, OnlyCurrentRequest, Answer
  <2>4. ShownIsCurrent'
    BY <1>4, <2>2 DEF ShownIsCurrent, Answer
  <2> QED
    BY <1>4, <2>3, <2>4 DEF BrowserInv, Answer
<1>5. CASE Leave
  BY <1>5 DEF Leave, AfterAbort, BrowserInv, OnlyCurrentRequest, ShownIsCurrent
<1>6. CASE UNCHANGED browserVars
  BY <1>6 DEF browserVars, BrowserInv, OnlyCurrentRequest, ShownIsCurrent
<1> QED
  BY <1>1, <1>2, <1>3, <1>4, <1>5, <1>6
  DEF BrowserNext, OpenEntry, OpenCrumb, Up, GoHome, GoHomeAfterError, AnyAnswer, Cancel, Choose

(* However often the visitor clicks, and in whatever order requests are    *)
(* answered, the folder that can be chosen is the one last asked for.      *)
THEOREM ChooseIsCurrentHolds == BrowserSpec => []ChooseIsCurrent
<1>1. BrowserInit => BrowserInv
  BY DEF BrowserInit, BrowserInv, OnlyCurrentRequest, ShownIsCurrent
<1>2. BrowserInv => ChooseIsCurrent
  BY DEF BrowserInv, ShownIsCurrent, ChooseIsCurrent, CanChoose
<1> QED
  BY <1>1, <1>2, BrowserStep, PTL DEF BrowserSpec

-----------------------------------------------------------------------------

Pages == Protected \union {"login", "register", "verify"}

SignTypeOK ==
    /\ DOMAIN url = Tabs
    /\ \A t \in Tabs : url[t].page \in Pages /\ url[t].next \in Protected
    /\ tab \in [Tabs -> Stages \union Pages \union {"error"}]
    /\ headed \in [Tabs -> Protected \union {"none"}]

(* What is shown is what was asked for.                                    *)
ShownWasAsked == \A t \in Tabs : tab[t] \in Pages => tab[t] = url[t].page

(* The page headed for is asked for, or remembered in `next`.              *)
Remembered ==
    \A t \in Tabs : headed[t] # "none" =>
       IF url[t].page \in Protected THEN url[t].page = headed[t] ELSE url[t].next = headed[t]

(* Nobody who registers heads for a page.                                  *)
RegisterIsPlain == \A t \in Tabs : url[t].page = "register" => headed[t] = "none"

SignInv == SignTypeOK /\ ShownWasAsked /\ Remembered /\ RegisterIsPlain

(* A request that heads where its tab headed.                              *)
LEMMA RequestInv ==
    ASSUME SignInv, NEW t \in Tabs, NEW page \in Pages, NEW next \in Protected, NEW with,
           Request(t, page, next, with),
           NEW to \in Protected \union {"none"}, headed' = [headed EXCEPT ![t] = to],
           page = "register" => to = "none",
           to # "none" => IF page \in Protected THEN page = to ELSE next = to
    PROVE  SignInv'
<1>1. SignTypeOK'
  BY DEF SignInv, SignTypeOK, Request, Stages
<1>2. ShownWasAsked'
  BY DEF SignInv, SignTypeOK, ShownWasAsked, Request, Pages, Protected
<1>3. Remembered'
  BY DEF SignInv, SignTypeOK, Remembered, Request
<1>4. RegisterIsPlain'
  BY DEF SignInv, SignTypeOK, RegisterIsPlain, Request
<1> QED
  BY <1>1, <1>2, <1>3, <1>4 DEF SignInv

LEMMA RequestOnInv ==
    ASSUME SignInv, NEW t \in Tabs, NEW page \in Pages, NEW next \in Protected, NEW with,
           Request(t, page, next, with), UNCHANGED headed, page # "register",
           headed[t] # "none" => IF page \in Protected THEN page = headed[t] ELSE next = headed[t]
    PROVE  SignInv'
<1>1. headed[t] \in Protected \union {"none"} /\ headed' = [headed EXCEPT ![t] = headed[t]]
  BY DEF SignInv, SignTypeOK
<1> QED
  BY <1>1, RequestInv

LEMMA ExpiredInv == ASSUME SignInv, NEW t \in Tabs, Expired(t) PROVE SignInv'
BY RequestInv DEF Expired, Pages, Protected

LEMMA TabInv ==
    ASSUME SignInv, NEW t \in Tabs, NEW to \in Stages \union Pages \union {"error"},
           tab' = [tab EXCEPT ![t] = to], UNCHANGED <<url, headed>>,
           to \in Pages => to = url[t].page
    PROVE  SignInv'
BY DEF SignInv, SignTypeOK, ShownWasAsked, Remembered, RegisterIsPlain

LEMMA ServeInv == ASSUME SignInv, NEW t \in Tabs, Serve(t) PROVE SignInv'
<1>1. CASE Proxy(t)
  <2>1. url[t].page \in Protected /\ headed[t] # "none" => url[t].page = headed[t]
    BY DEF SignInv, Remembered
  <2>2. CASE Request(t, "login", url[t].page, cookie) /\ url[t].page \in Protected
    BY <1>1, <2>1, <2>2, RequestOnInv DEF Proxy, Pages, Protected
  <2>3. CASE Advance(t, "render")
    BY <1>1, <2>3, TabInv DEF Proxy, Advance, Stages, Pages, Protected
  <2> QED
    BY <1>1, <2>2, <2>3 DEF Proxy
<1>2. CASE RequireUser(t)
  <2>1. CASE Advance(t, "read") /\ UNCHANGED headed
    BY <2>1, TabInv DEF Advance, Stages, Pages, Protected
  <2>2. CASE Unreachable(t)
    BY <2>2, TabInv DEF Unreachable, ShowPage, Pages, Protected
  <2> QED
    BY <1>2, <2>1, <2>2, ExpiredInv DEF RequireUser, MeFails
<1>3. CASE ReadPage(t)
  <2>1. CASE ShowPage(t, url[t].page) /\ UNCHANGED headed
    BY <2>1, TabInv DEF ShowPage, SignInv, SignTypeOK
  <2>2. CASE Unreachable(t)
    BY <2>2, TabInv DEF Unreachable, ShowPage, Pages, Protected
  <2> QED
    BY <1>3, <2>1, <2>2, ExpiredInv DEF ReadPage
<1>4. CASE LoginPage(t)
  <2>1. url[t].page = "login" /\ UNCHANGED headed /\ url[t].next \in Protected
    BY <1>4 DEF LoginPage, SignInv, SignTypeOK
  <2>2. CASE Request(t, url[t].next, "home", cookie)
    <3>1. headed[t] # "none" => url[t].next = headed[t]
      BY <2>1 DEF SignInv, Remembered, Protected
    <3> QED
      BY <2>1, <2>2, <3>1, RequestOnInv DEF Pages, Protected
  <2>3. CASE ShowPage(t, "login")
    BY <2>1, <2>3, TabInv DEF ShowPage, Pages
  <2> QED
    BY <1>4, <2>2, <2>3 DEF LoginPage
<1>5. CASE VerifyPage(t)
  BY <1>5, TabInv DEF VerifyPage, ShowPage, Pages
<1>6. CASE RegisterPage(t)
  <2>1. url[t].page = "register" /\ UNCHANGED headed /\ headed[t] = "none"
    BY <1>6 DEF RegisterPage, SignInv, RegisterIsPlain
  <2>2. CASE Request(t, "home", "home", cookie)
    BY <2>1, <2>2, RequestOnInv DEF Pages, Protected
  <2>3. CASE ShowPage(t, "register")
    BY <2>1, <2>3, TabInv DEF ShowPage, Pages
  <2> QED
    BY <1>6, <2>2, <2>3 DEF RegisterPage
<1> QED
  BY <1>1, <1>2, <1>3, <1>4, <1>5, <1>6 DEF Serve

LEMMA ActInv ==
    ASSUME SignInv, NEW t \in Tabs,
           \/ LoginAction(t) \/ RegisterAction(t) \/ VerifyAction(t)
           \/ NotVerified(t) \/ LogoutAction(t)
    PROVE  SignInv'
<1>1. ASSUME tab[t] \in {"login", "verify"}
      PROVE  url[t].next \in Protected /\ (headed[t] # "none" => url[t].next = headed[t])
  BY <1>1 DEF SignInv, SignTypeOK, ShownWasAsked, Remembered, Pages, Protected
<1>2. CASE LoginAction(t) \/ VerifyAction(t)
  BY <1>1, <1>2, RequestOnInv DEF LoginAction, VerifyAction, SignInAs, Pages, Protected
<1>3. CASE NotVerified(t)
  BY <1>1, <1>3, RequestOnInv DEF NotVerified, Pages, Protected
<1>4. CASE LogoutAction(t)
  BY <1>4, RequestInv DEF LogoutAction, Pages, Protected
<1>5. CASE RegisterAction(t)
  <2>1. headed[t] = "none" /\ UNCHANGED headed
    BY <1>5 DEF RegisterAction, SignInv, ShownWasAsked, RegisterIsPlain, Pages
  <2> QED
    BY <1>5, <2>1, RequestOnInv DEF RegisterAction, Pages, Protected
<1> QED
  BY <1>2, <1>3, <1>4, <1>5

LEMMA SignStep == ASSUME SignInv, [SignNext]_signVars PROVE SignInv'
<1>1. CASE SessionEnds
  BY <1>1 DEF SessionEnds, SignInv, SignTypeOK, ShownWasAsked, Remembered, RegisterIsPlain
<1>2. ASSUME NEW t \in Tabs, NEW p \in Protected \union {"login", "register"}, Visit(t, p)
      PROVE  SignInv'
  BY <1>2, RequestInv DEF Visit, Pages, Protected
<1>3. CASE UNCHANGED signVars
  BY <1>3 DEF signVars, SignInv, SignTypeOK, ShownWasAsked, Remembered, RegisterIsPlain
<1> QED
  BY <1>1, <1>2, <1>3, ServeInv, ActInv DEF SignNext

(* However many tabs sign in and out beside each other: a visitor the      *)
(* proxy sends to sign in, also by way of the verification page, sees the  *)
(* page that was asked for.  Not claimed of visitors sent to sign in again *)
(* as expired or after an error of /v1/auth/me, who register, or log out.  *)
THEOREM ReturnsWhereHeadedHolds == SignSpec => []ReturnsWhereHeaded
<1>1. SignInit => SignInv
  BY DEF SignInit, SignInv, SignTypeOK, ShownWasAsked, Remembered, RegisterIsPlain,
         Pages, Protected, Stages
<1>2. SignInv => ReturnsWhereHeaded
  BY DEF SignInv, ShownWasAsked, Remembered, ReturnsWhereHeaded, Pages
<1> QED
  BY <1>1, <1>2, SignStep, PTL DEF SignSpec

-----------------------------------------------------------------------------

ViewTypeOK ==
    /\ started \in Nat /\ underWay \in {None, started}
    /\ DOMAIN status \subseteq 1..started
    /\ render \in [step : {"none", "resolve", "load"}, scan : 0..started,
                   listed : SUBSET (1..started), reads : SUBSET {"list", "summary"},
                   selected : Findings \union {"first", "none"}]
    /\ render.step # "load" => render.reads = {}

UnderWayRuns == underWay \in DOMAIN status => status[underWay] = "running"

(* p is the last scan before s that succeeded, as long as both are there:  *)
(* what says so of scans that are over says so for good.                   *)
Settled(p, s) ==
    /\ p \in 0..started /\ s \in 0..started
    /\ p \in DOMAIN status /\ s \in DOMAIN status =>
          /\ p < s /\ status[p] = "ok" /\ status[s] = "ok"
          /\ \A t \in DOMAIN status : p < t /\ t < s => status[t] # "ok"

LoadedSucceeded ==
    render.step = "load" /\ render.scan \in DOMAIN status => status[render.scan] = "ok"

ListSettled == "list" \in render.reads => Settled(Previous, render.scan)

ScreenSettled == Settled(screen.previous, screen.scan)

ApiInv == ViewTypeOK /\ UnderWayRuns

ViewInv == ApiInv /\ LoadedSucceeded /\ ListSettled /\ ScreenSettled

(* Numbers that are bounded have a greatest: the least distance to it.     *)
LEMMA LatestIsLast ==
    ASSUME NEW n \in Nat, NEW scans \in SUBSET (1..n), scans # {}
    PROVE  Latest(scans) \in scans /\ \A t \in scans : t <= Latest(scans)
<1> DEFINE Distances == {n - t : t \in scans}
<1>1. Distances \subseteq Nat /\ Distances # {}
  <2>1. \A t \in scans : n - t \in Nat
    OBVIOUS
  <2>2. PICK t \in scans : TRUE
    OBVIOUS
  <2>3. n - t \in Distances
    OBVIOUS
  <2> QED
    BY <2>1, <2>3
<1>2. PICK d \in Distances : \A e \in Distances : ~(<<e, d>> \in OpToRel(<, Nat))
  <2> HIDE DEF Distances
  <2> QED
    BY <1>1, NatLessThanWellFounded, WFMin
<1>3. \A e \in Distances : ~(e < d)
  <2> HIDE DEF Distances
  <2> QED
    BY <1>1, <1>2 DEF OpToRel
<1>4. PICK s \in scans : d = n - s
  BY <1>2
<1>5. \A t \in scans : t <= s
  <2> SUFFICES ASSUME NEW t \in scans PROVE t <= s
    OBVIOUS
  <2>1. ~(n - t < n - s)
    BY <1>3, <1>4
  <2> QED
    BY <2>1
<1> QED
  BY <1>5 DEF Latest

LEMMA LatestOrNone ==
    ASSUME NEW n \in Nat, NEW scans \in SUBSET (1..n)
    PROVE  Latest(scans) \in scans \union {None} /\ Latest(scans) \in 0..n
<1>1. CASE scans = {}
  BY <1>1 DEF Latest, None
<1>2. CASE scans # {}
  <2>1. Latest(scans) \in scans
    BY <1>2, LatestIsLast
  <2>2. Latest(scans) \in 1..n
    BY <2>1
  <2> QED
    BY <2>1, <2>2
<1> QED
  BY <1>1, <1>2

(* What begins, ends or is removed later changes nothing between two scans *)
(* that are over.                                                          *)
LEMMA SettledStep ==
    ASSUME ApiInv, NEW p, NEW s, Settled(p, s),
           StartScanning \/ EndScanning \/ RemoveProject
           \/ UNCHANGED <<status, started, underWay>>
    PROVE  Settled(p, s)'
<1> USE DEF ApiInv, ViewTypeOK, UnderWayRuns, Settled
<1>1. CASE StartScanning
  <2>1. started' = started + 1
        /\ DOMAIN status' = DOMAIN status \union {started + 1}
        /\ \A t \in DOMAIN status : status'[t] = status[t]
    BY <1>1 DEF StartScanning
  <2> QED
    BY <2>1
<1>2. CASE EndScanning
  <2>1. started' = started /\ underWay # None /\ underWay = started
        /\ DOMAIN status' = DOMAIN status
        /\ \A t \in DOMAIN status : t # underWay => status'[t] = status[t]
    BY <1>2 DEF EndScanning
  <2>2. ASSUME p \in DOMAIN status, s \in DOMAIN status PROVE p < started /\ s # started
    BY <2>1, <2>2
  <2> QED
    BY <2>1, <2>2
<1>3. CASE RemoveProject
  BY <1>3 DEF RemoveProject
<1>4. CASE UNCHANGED <<status, started, underWay>>
  BY <1>4
<1> QED
  BY <1>1, <1>2, <1>3, <1>4

LEMMA ApiStep ==
    ASSUME ApiInv, UNCHANGED render,
           StartScanning \/ EndScanning \/ RemoveProject
    PROVE  ApiInv'
<1> USE DEF ApiInv, ViewTypeOK, UnderWayRuns, None
<1>1. CASE StartScanning
  <2>1. started' = started + 1 /\ underWay' = started + 1
        /\ DOMAIN status' = DOMAIN status \union {started + 1}
        /\ status'[started + 1] = "running"
    BY <1>1 DEF StartScanning
  <2>2. 1..started \subseteq 1..(started + 1) /\ 0..started \subseteq 0..(started + 1)
    OBVIOUS
  <2>3. render' \in [step : {"none", "resolve", "load"}, scan : 0..started',
                    listed : SUBSET (1..started'), reads : SUBSET {"list", "summary"},
                    selected : Findings \union {"first", "none"}]
    BY <2>1, <2>2
  <2> QED
    BY <2>1, <2>2, <2>3
<1>2. CASE EndScanning
  <2>1. started' = started /\ underWay' = None /\ DOMAIN status' = DOMAIN status
    BY <1>2 DEF EndScanning
  <2> QED
    BY <2>1
<1>3. CASE RemoveProject
  BY <1>3 DEF RemoveProject
<1> QED
  BY <1>1, <1>2, <1>3

(* The limit cuts off older scans only: with a scan it lists every newer.  *)
LEMMA NewerAreListed ==
    ASSUME ApiInv, NEW p \in Newest, NEW t \in DOMAIN status, p < t
    PROVE  t \in Newest
<1> DEFINE Above(x) == {y \in DOMAIN status : y > x}
<1>1. DOMAIN status \in SUBSET (1..started) /\ started \in Nat /\ p \in DOMAIN status
  BY DEF ApiInv, ViewTypeOK, Newest
<1>2. IsFiniteSet(1..started)
  BY <1>1, FS_Interval
<1>3. Above(p) \in SUBSET (1..started) /\ Above(t) \in SUBSET Above(p)
  BY <1>1
<1>4. IsFiniteSet(Above(p))
  BY <1>2, <1>3, FS_Subset
<1>5. Cardinality(Above(p)) \in Nat /\ Cardinality(Above(t)) \in Nat
      /\ Cardinality(Above(t)) <= Cardinality(Above(p))
  BY <1>3, <1>4, FS_Subset, FS_CardinalityType
<1>6. Cardinality(Above(p)) < ListLimit
  BY DEF Newest
<1>7. Cardinality(Above(t)) < ListLimit
  BY <1>5, <1>6, ViewAssumption
<1> QED
  BY <1>7 DEF Newest

LEMMA ListingSettles ==
    ASSUME ApiInv, NEW s \in 0..started, s \in DOMAIN status => status[s] = "ok"
    PROVE  Settled(PreviousIn(Listed, s), s)
<1> DEFINE Before == {t \in Listed : t < s}
           p == PreviousIn(Listed, s)
<1>1. started \in Nat /\ DOMAIN status \subseteq 1..started /\ Listed \subseteq DOMAIN status
  BY DEF ApiInv, ViewTypeOK, Listed, Newest
<1>2. Before \in SUBSET (1..started)
  BY <1>1
<1>3. CASE s \notin Listed \/ Before = {}
  <2>1. p = None
    BY <1>3 DEF PreviousIn, Latest
  <2> QED
    BY <1>1, <2>1 DEF Settled, None
<1>4. CASE s \in Listed /\ Before # {}
  <2>1. p = Latest(Before)
    BY <1>4 DEF PreviousIn
  <2>2. p \in Before /\ \A t \in Before : t <= p
    BY <1>1, <1>2, <1>4, <2>1, LatestIsLast
  <2> HIDE DEF p
  <2>3. p \in Newest /\ p \in DOMAIN status /\ status[p] = "ok" /\ p < s
    BY <2>2 DEF Listed, Newest
  <2>4. ASSUME NEW t \in DOMAIN status, p < t, t < s, status[t] = "ok" PROVE FALSE
    <3>1. t \in Before
      BY <2>3, <2>4, NewerAreListed DEF Listed
    <3> QED
      BY <1>1, <2>2, <2>3, <2>4, <3>1
  <2>5. s \in DOMAIN status /\ status[s] = "ok"
    BY <1>1, <1>4
  <2>6. Settled(p, s)
    BY <1>1, <2>3, <2>4, <2>5 DEF Settled
  <2> QED
    BY <2>6 DEF p
<1> QED
  BY <1>3, <1>4

(* The state of the render and of the page is read and replaced as a whole.*)
LEMMA PageStep ==
    ASSUME ViewInv, UNCHANGED <<status, started, underWay>>,
           render' \in [step : {"none", "resolve", "load"}, scan : 0..started,
                       listed : SUBSET (1..started), reads : SUBSET {"list", "summary"},
                       selected : Findings \union {"first", "none"}],
           render'.step # "load" => render'.reads = {},
           LoadedSucceeded', ListSettled',
           screen' # screen => Settled(screen'.previous, screen'.scan)
    PROVE  ViewInv'
<1>1. \A p, s : Settled(p, s) => Settled(p, s)'
  BY DEF Settled
<1>2. ScreenSettled'
  <2>1. PICK p, s : p = screen'.previous /\ s = screen'.scan
    OBVIOUS
  <2>2. Settled(p, s)
    BY <2>1 DEF ViewInv, ScreenSettled
  <2> QED
    BY <1>1, <2>1, <2>2 DEF ScreenSettled
<1>3. ApiInv'
  BY DEF ViewInv, ApiInv, ViewTypeOK, UnderWayRuns
<1> QED
  BY <1>2, <1>3 DEF ViewInv

LEMMA NothingSettled == ASSUME ApiInv PROVE Settled(None, None)
BY DEF ApiInv, ViewTypeOK, Settled, None

(* The page goes up, the render is over.                                   *)
LEMMA ShowStep ==
    ASSUME ViewInv, UNCHANGED <<status, started, underWay>>, NEW page, Show(page),
           Settled(page.previous, page.scan)
    PROVE  ViewInv'
<1>1. render' = NoRender /\ screen' = page
  BY DEF Show
<1>2. started \in Nat
  BY DEF ViewInv, ApiInv, ViewTypeOK
<1>3. render' \in [step : {"none", "resolve", "load"}, scan : 0..started,
                  listed : SUBSET (1..started), reads : SUBSET {"list", "summary"},
                  selected : Findings \union {"first", "none"}]
      /\ render'.step = "none" /\ render'.reads = {}
  BY <1>1, <1>2 DEF NoRender, None
<1>4. LoadedSucceeded' /\ ListSettled'
  BY <1>3 DEF LoadedSucceeded, ListSettled
<1> QED
  BY <1>1, <1>3, <1>4, PageStep

LEMMA NoPageStep ==
    ASSUME ViewInv, UNCHANGED <<status, started, underWay>>, Show(NoPage)
    PROVE  ViewInv'
<1>1. Settled(NoPage.previous, NoPage.scan)
  BY NothingSettled DEF ViewInv, NoPage
<1> QED
  BY <1>1, ShowStep

LEMMA RenderInv ==
    ASSUME ViewInv, NEW f \in Findings \union {"first"}, NEW s \in 0..started, Render(f, s),
           screen' = screen \/ screen' = NoPage
    PROVE  ViewInv'
<1>1. UNCHANGED <<status, started, underWay>>
      /\ render' = [NoRender EXCEPT !.step = "resolve", !.scan = s, !.selected = f]
  BY DEF Render
<1>2. render' \in [step : {"none", "resolve", "load"}, scan : 0..started,
                  listed : SUBSET (1..started), reads : SUBSET {"list", "summary"},
                  selected : Findings \union {"first", "none"}]
      /\ render'.step = "resolve" /\ render'.reads = {}
  BY <1>1 DEF NoRender
<1>3. LoadedSucceeded' /\ ListSettled'
  BY <1>2 DEF LoadedSucceeded, ListSettled
<1>4. screen' # screen => Settled(screen'.previous, screen'.scan)
  BY NothingSettled DEF ViewInv, NoPage
<1> QED
  BY <1>1, <1>2, <1>3, <1>4, PageStep

LEMMA ResolveInv == ASSUME ViewInv, ResolveScan PROVE ViewInv'
<1>1. PICK s : s = IF render.scan = None THEN Latest(Listed)
                   ELSE IF render.scan \in Listed THEN render.scan ELSE None
  OBVIOUS
<1>2. started \in Nat /\ Listed \in SUBSET (1..started)
  BY DEF ViewInv, ApiInv, ViewTypeOK, Listed, Newest
<1>3. s \in Listed \union {None} /\ s \in 0..started
  <2>1. Latest(Listed) \in Listed \union {None} /\ Latest(Listed) \in 0..started
    BY <1>2, LatestOrNone
  <2>2. render.scan \in 0..started
    BY DEF ViewInv, ApiInv, ViewTypeOK
  <2> QED
    BY <1>1, <1>2, <2>1, <2>2 DEF None
<1>4. CASE Show(NoPage) /\ UNCHANGED <<status, started, underWay>>
  BY <1>4, NoPageStep
<1>5. CASE /\ s # None /\ render' = [render EXCEPT !.step = "load", !.scan = s]
           /\ UNCHANGED <<screen, explanation>> /\ UNCHANGED <<status, started, underWay>>
  <2>1. render' \in [step : {"none", "resolve", "load"}, scan : 0..started,
                    listed : SUBSET (1..started), reads : SUBSET {"list", "summary"},
                    selected : Findings \union {"first", "none"}]
        /\ render'.step = "load" /\ render'.scan = s /\ render'.reads = render.reads
    BY <1>3, <1>5 DEF ViewInv, ApiInv, ViewTypeOK
  <2>2. render.reads = {}
    BY DEF ViewInv, ApiInv, ViewTypeOK, ResolveScan
  <2>3. LoadedSucceeded'
    BY <1>3, <1>5, <2>1 DEF LoadedSucceeded, Listed
  <2>4. ListSettled'
    BY <2>1, <2>2 DEF ListSettled
  <2> QED
    BY <1>5, <2>1, <2>3, <2>4, PageStep
<1> QED
  BY <1>1, <1>4, <1>5 DEF ResolveScan

LEMMA ReadInv ==
    ASSUME ViewInv, LoadScan, NEW what \in {"list", "summary"}, ReadOne(what)
    PROVE  ViewInv'
<1>1. render.step = "load" /\ UNCHANGED <<status, started, underWay>> /\ UNCHANGED screen
  BY DEF LoadScan, ReadOne
<1>2. PICK listed : listed = IF what = "list" THEN Listed ELSE render.listed
  OBVIOUS
<1>3. render' = [render EXCEPT !.reads = @ \union {what}, !.listed = listed]
  BY <1>2 DEF ReadOne
<1>4. listed \in SUBSET (1..started)
  BY <1>2 DEF ViewInv, ApiInv, ViewTypeOK, Listed, Newest
<1>5. render' \in [step : {"none", "resolve", "load"}, scan : 0..started,
                  listed : SUBSET (1..started), reads : SUBSET {"list", "summary"},
                  selected : Findings \union {"first", "none"}]
      /\ render'.step = "load" /\ render'.scan = render.scan /\ render'.listed = listed
      /\ render'.reads = render.reads \union {what}
  BY <1>1, <1>3, <1>4 DEF ViewInv, ApiInv, ViewTypeOK
<1>6. LoadedSucceeded'
  BY <1>1, <1>5 DEF ViewInv, LoadedSucceeded
<1>7. ListSettled'
  <2>1. PICK s : s = render.scan
    OBVIOUS
  <2>2. s \in 0..started /\ (s \in DOMAIN status => status[s] = "ok")
    BY <1>1, <2>1 DEF ViewInv, ApiInv, ViewTypeOK, LoadedSucceeded
  <2>3. Settled(PreviousIn(listed, s), s) \/ "list" \notin render'.reads
    <3>1. CASE what = "list"
      BY <1>2, <2>2, <3>1, ListingSettles DEF ViewInv
    <3>2. CASE what # "list"
      BY <1>2, <1>5, <2>1, <3>2 DEF ViewInv, ListSettled, Previous
    <3> QED
      BY <3>1, <3>2
  <2>4. PICK p : p = PreviousIn(listed, s)
    OBVIOUS
  <2>5. Previous' = p /\ render'.scan = s
    BY <1>5, <2>1, <2>4 DEF Previous, PreviousIn
  <2>6. Settled(p, s) => Settled(p, s)'
    BY <1>1 DEF Settled
  <2> QED
    BY <2>3, <2>4, <2>5, <2>6 DEF ListSettled
<1> QED
  BY <1>1, <1>5, <1>6, <1>7, PageStep

LEMMA LoadFindingsInv == ASSUME ViewInv, LoadFindings PROVE ViewInv'
<1>1. Settled(Previous, render.scan)
  BY DEF LoadFindings, ViewInv, ListSettled
<1>2. CASE Show(NoPage)
  BY <1>2, NoPageStep DEF LoadFindings
<1>3. PICK selected : selected = IF render.selected = "first"
                                 THEN CHOOSE f \in Findings : TRUE ELSE render.selected
  OBVIOUS
<1>4. CASE Show([scan |-> render.scan, previous |-> Previous, selected |-> selected])
  BY <1>1, <1>4, ShowStep DEF LoadFindings
<1> QED
  BY <1>2, <1>3, <1>4 DEF LoadFindings

LEMMA ScanEventInv ==
    ASSUME ViewInv, StartScanning \/ EndScanning \/ RemoveProject PROVE ViewInv'
<1>1. UNCHANGED <<render, screen>>
  BY DEF StartScanning, EndScanning, RemoveProject
<1>2. \A p, s : Settled(p, s) => Settled(p, s)'
  BY SettledStep DEF ViewInv
<1>3. ApiInv'
  BY <1>1, ApiStep DEF ViewInv
<1>4. LoadedSucceeded'
  <2>1. SUFFICES ASSUME render.step = "load", NEW s, s = render.scan, s \in DOMAIN status'
                 PROVE  status'[s] = "ok"
    BY <1>1 DEF LoadedSucceeded
  <2>2. s \in 0..started /\ started \in Nat
    BY <2>1 DEF ViewInv, ApiInv, ViewTypeOK
  <2>3. s \in DOMAIN status
    BY <2>1, <2>2 DEF StartScanning, EndScanning, RemoveProject
  <2>4. status[s] = "ok"
    BY <2>1, <2>3 DEF ViewInv, LoadedSucceeded
  <2>5. s # underWay
    BY <2>3, <2>4 DEF ViewInv, ApiInv, UnderWayRuns
  <2> QED
    BY <2>1, <2>2, <2>3, <2>4, <2>5 DEF StartScanning, EndScanning, RemoveProject
<1>5. ListSettled'
  <2>1. PICK p, s : p = Previous /\ s = render.scan
    OBVIOUS
  <2>2. Previous' = p /\ render'.scan = s /\ render'.reads = render.reads
    BY <1>1, <2>1 DEF Previous, PreviousIn, Latest
  <2> QED
    BY <1>2, <2>1, <2>2 DEF ViewInv, ListSettled
<1>6. ScreenSettled'
  <2>1. PICK p, s : p = screen.previous /\ s = screen.scan
    OBVIOUS
  <2> QED
    BY <1>1, <1>2, <2>1 DEF ViewInv, ScreenSettled
<1> QED
  BY <1>3, <1>4, <1>5, <1>6 DEF ViewInv

LEMMA ViewStep == ASSUME ViewInv, [ViewNext]_viewVars PROVE ViewInv'
<1>1. CASE OpenPage
  <2>1. None \in 0..started
    BY DEF ViewInv, ApiInv, ViewTypeOK, None
  <2> QED
    BY <1>1, <2>1, RenderInv DEF OpenPage
<1>2. CASE SelectFinding
  <2>1. screen.scan \in 0..started
    BY DEF ViewInv, ScreenSettled, Settled
  <2> QED
    BY <1>2, <2>1, RenderInv DEF SelectFinding
<1>3. CASE LoadScan
  BY <1>3, ReadInv, NoPageStep DEF LoadScan
<1>4. CASE Explain \/ Explained \/ UNCHANGED viewVars
  <2>1. UNCHANGED <<status, started, underWay, render, screen>>
    BY <1>4 DEF Explain, Explained, viewVars
  <2> QED
    BY <2>1 DEF ViewInv, ApiInv, ViewTypeOK, UnderWayRuns, LoadedSucceeded, ListSettled,
                ScreenSettled, Settled, Previous, PreviousIn, Latest
<1> QED
  BY <1>1, <1>2, <1>3, <1>4, ScanEventInv, ResolveInv, LoadFindingsInv DEF ViewNext

(* However many scans start, end, fail or are removed while the page and   *)
(* its listing are read one after the other: what the findings are         *)
(* compared with is the last scan before them that succeeded.              *)
THEOREM ComparedIsPreviousHolds == ViewSpec => []ComparedIsPrevious
<1>1. ViewInit => ViewInv
  BY DEF ViewInit, ViewInv, ApiInv, ViewTypeOK, UnderWayRuns, LoadedSucceeded, ListSettled,
         ScreenSettled, Settled, NoRender, NoPage, None
<1>2. ViewInv => ComparedIsPrevious
  BY DEF ViewInv, ScreenSettled, Settled, ComparedIsPrevious
<1> QED
  BY <1>1, <1>2, ViewStep, PTL DEF ViewSpec
=============================================================================
