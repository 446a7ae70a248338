------------------------------- MODULE SignIn -------------------------------
(***************************************************************************)
(* Navigation and sessions in apps/dashboard/src: proxy.ts looks for a     *)
(* cookie, requireUser and every read of lib/api.ts ask the API whether    *)
(* the session is still there, the sign-in page leads on whoever has one,  *)
(* app/(auth)/actions.ts sets and clears the cookie all tabs share.        *)
(***************************************************************************)
EXTENDS Integers

CONSTANTS
    Tabs,
    MaxSessions     \* bound: sessions ever opened

ASSUME SessionsAssumption == MaxSessions \in Nat

Protected == {"home", "project"}

VARIABLES
    cookie,     \* the session the browser holds, 0 for none
    live,       \* the sessions the API knows
    opened,     \* sessions ever opened
    url,        \* what a tab asked for: the page and `next`
    sent,       \* the cookie its request was sent with
    tab,        \* how far the server is with it, or the page that is shown
    headed      \* history: the page the visitor opened, until `next` is given up

signVars == <<cookie, live, opened, url, sent, tab, headed>>

Stages == {"proxy", "render", "read"}
Idle(t) == tab[t] \notin Stages

SignInit ==
    /\ cookie = 0 /\ live = {} /\ opened = 0
    /\ url = [t \in Tabs |-> [page |-> "login", next |-> "home"]]
    /\ sent = [t \in Tabs |-> 0]
    /\ tab = [t \in Tabs |-> "login"]
    /\ headed = [t \in Tabs |-> "none"]

(* A request of tab t, the first one or a redirect.                        *)
Request(t, page, next, with) ==
    /\ url' = [url EXCEPT ![t] = [page |-> page, next |-> next]]
    /\ sent' = [sent EXCEPT ![t] = with]
    /\ tab' = [tab EXCEPT ![t] = "proxy"]

Advance(t, stage) == tab' = [tab EXCEPT ![t] = stage] /\ UNCHANGED <<url, sent>>

ShowPage(t, page) ==
    /\ tab' = [tab EXCEPT ![t] = page]
    /\ sent' = [sent EXCEPT ![t] = 0]
    /\ UNCHANGED url

sessions == <<cookie, live, opened>>

(* A page of the app, or the sign-in or registration form, which links and *)
(* the redirect after a new password open without `next`.                  *)
Visit(t, page) ==
    /\ Idle(t)
    /\ Request(t, page, "home", cookie)
    /\ headed' = [headed EXCEPT ![t] = IF page \in Protected THEN page ELSE "none"]
    /\ UNCHANGED sessions

(* No cookie: to the sign-in page, remembering where the visitor headed.   *)
Proxy(t) ==
    /\ tab[t] = "proxy"
    /\ IF url[t].page \in Protected /\ sent[t] = 0
       THEN Request(t, "login", url[t].page, cookie)
       ELSE Advance(t, "render")
    /\ UNCHANGED <<sessions, headed>>

(* The API knows the session the request came with.                        *)
Known(t) == sent[t] \in live

(* redirect("/login?expired=1")                                            *)
Expired(t) ==
    /\ Request(t, "login", "home", cookie)
    /\ headed' = [headed EXCEPT ![t] = "none"]

(* The call throws: the page shows that the API is out of reach.           *)
Unreachable(t) == ShowPage(t, "error") /\ UNCHANGED headed

AsksMe(t) == tab[t] = "render" /\ url[t].page \in Protected

(* currentUser takes every answer that is no success for "signed out", so  *)
(* an error of /v1/auth/me sends a live session to the sign-in page.       *)
MeFails(t) ==
    /\ AsksMe(t) /\ Known(t)
    /\ Expired(t)
    /\ UNCHANGED sessions

(* requireUser of the signed-in layout.                                    *)
RequireUser(t) ==
    \/ /\ AsksMe(t)
       /\ \/ Known(t) /\ Advance(t, "read") /\ UNCHANGED headed
          \/ ~Known(t) /\ Expired(t)
          \/ Unreachable(t)
       /\ UNCHANGED sessions
    \/ MeFails(t)

(* The reads of the page: 401 sends to the sign-in page; another error of  *)
(* the API shows as one, as an API out of reach does.                      *)
ReadPage(t) ==
    /\ tab[t] = "read"
    /\ \/ Known(t) /\ ShowPage(t, url[t].page) /\ UNCHANGED headed
       \/ ~Known(t) /\ Expired(t)
       \/ Unreachable(t)
    /\ UNCHANGED sessions

(* A visitor the API knows is led on; the form is for everybody else, and  *)
(* for those whose session /v1/auth/me could not tell, by whatever error.  *)
LedOn_ByCookie(t) == sent[t] # 0
LedOn(t) == Known(t)

LoginPage(t) ==
    /\ tab[t] = "render" /\ url[t].page = "login"
    /\ \/ LedOn(t) /\ Request(t, url[t].next, "home", cookie)
       \/ ShowPage(t, "login")
    /\ UNCHANGED <<sessions, headed>>

RegisterPage(t) ==
    /\ tab[t] = "render" /\ url[t].page = "register"
    /\ \/ LedOn(t) /\ Request(t, "home", "home", cookie)
       \/ ShowPage(t, "register")
    /\ UNCHANGED <<sessions, headed>>

VerifyPage(t) ==
    /\ tab[t] = "render" /\ url[t].page = "verify"
    /\ ShowPage(t, "verify")
    /\ UNCHANGED <<sessions, headed>>

(* setSession and the redirect of loginAction and verifyAction.            *)
SignInAs(t) ==
    /\ opened < MaxSessions
    /\ opened' = opened + 1
    /\ live' = live \union {opened'}
    /\ cookie' = opened'
    /\ Request(t, url[t].next, "home", opened')
    /\ UNCHANGED headed

LoginAction(t) == tab[t] = "login" /\ SignInAs(t)
VerifyAction(t) == tab[t] = "verify" /\ SignInAs(t)

(* A new account, or a code asked for again too soon: on to the            *)
(* verification page, without `next`.                                      *)
RegisterAction(t) ==
    /\ tab[t] = "register"
    /\ Request(t, "verify", "home", cookie)
    /\ UNCHANGED <<sessions, headed>>

(* The address is not verified yet: `next` goes along.                     *)
NotVerified_Forgets(t) ==
    /\ tab[t] = "login"
    /\ Request(t, "verify", "home", cookie)
    /\ UNCHANGED <<sessions, headed>>

NotVerified(t) ==
    /\ tab[t] = "login"
    /\ Request(t, "verify", url[t].next, cookie)
    /\ UNCHANGED <<sessions, headed>>

(* The cookie is cleared whatever the API answers, if it does.             *)
LogoutAction(t) ==
    /\ tab[t] \in Protected
    /\ live' \in {live \ {cookie}, live}
    /\ cookie' = 0
    /\ Request(t, "login", "home", 0)
    /\ headed' = [headed EXCEPT ![t] = "none"]
    /\ UNCHANGED opened

(* It expires, or another device ends it.                                  *)
SessionEnds ==
    /\ \E s \in live : live' = live \ {s}
    /\ UNCHANGED <<cookie, opened, url, sent, tab, headed>>

Serve(t) ==
    \/ Proxy(t) \/ RequireUser(t) \/ ReadPage(t)
    \/ LoginPage(t) \/ RegisterPage(t) \/ VerifyPage(t)

SignNext ==
    \/ SessionEnds
    \/ \E t \in Tabs :
          \/ \E p \in Protected \union {"login", "register"} : Visit(t, p)
          \/ Serve(t)
          \/ LoginAction(t) \/ RegisterAction(t) \/ VerifyAction(t)
          \/ NotVerified(t) \/ LogoutAction(t)

(* The server answers what it was asked.                                   *)
SignFairness == \A t \in Tabs : WF_signVars(Serve(t))

SignSpec == SignInit /\ [][SignNext]_signVars /\ SignFairness

-----------------------------------------------------------------------------

(* No redirect loop: whatever cookie the browser kept and whichever tab    *)
(* signs in or out meanwhile, each request ends with a page, unless        *)
(* /v1/auth/me fails for a live session again and again while it answers   *)
(* the sign-in page: those two then send the visitor back and forth.       *)
NavigationSettles ==
    \A t \in Tabs : (~Idle(t) ~> Idle(t)) \/ []<><<MeFails(t)>>_signVars

(* From the proxy over the sign-in form, and from there over the           *)
(* verification page if the address is not verified yet: the page that     *)
(* comes after it is the page that was asked for, whatever other tabs do.  *)
(* Nothing is said of visitors whose `next` the app gives up: those sent   *)
(* to "/login?expired=1", for an ended session or a failing /v1/auth/me,   *)
(* those who register, log out, or open a form without `next` themselves.  *)
ReturnsWhereHeaded ==
    \A t \in Tabs :
       tab[t] \in Protected /\ headed[t] # "none" => tab[t] = headed[t]
=============================================================================
