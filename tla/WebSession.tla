----------------------------- MODULE WebSession ------------------------------
(***************************************************************************)
(* How one tab of the web application finds its page: Auth.tsx asks        *)
(* /auth/info and leads on, Login.tsx and AuthSetup.tsx send a password,   *)
(* layout.tsx asks again whenever it renders, the sidebar logs out, and    *)
(* the buttons of GeneralTab.tsx restart the server and come back to "/"   *)
(* two seconds later.  Sessions live in the server's memory, numbered as   *)
(* they are made; a request is of the session its cookie named when it was *)
(* sent, and a new cookie comes with the answer, or is lost with it.       *)
(*                                                                         *)
(* The dashboard's pages are one page, "dash".  Answers may overtake each  *)
(* other, be lost, and outlive the page that asked: navigate still works.  *)
(***************************************************************************)
EXTENDS Naturals, FiniteSets

CONSTANTS
  MaxVisits, \* bound: what the user clicks and submits
  MaxOutages  \* bound: lost answers, and passwords removed from config.json

ASSUME WebSessionAssumption == MaxVisits \in Nat /\ MaxOutages \in Nat

VARIABLES
  wsServer,   \* "up", "stopping" (gracefulShutdown) or "down"
  wsPassword, \* config.json has a password
  wsCookie,   \* the session this tab's cookie names, or 0
  wsStored,   \* the sessions the server has, all authenticated
  wsSessions, \* sessions made so far
  wsWith,     \* what the form, the logout and the button were sent with;
              \* once it is handled, the session the form is handled in
  wsPage,     \* "root", "unavailable" (root with its retry button), "login", "setup", "dash"
  wsAsks,     \* GET /auth/info under way
  wsForm,     \* the password form: "idle", sent as "login" or "setup", handled
              \* ("comparing", "hashing"), "accepted", "ok", "failed"
  wsLogout,   \* POST /auth/logout: "idle", "sent", "answered", "done"
  wsButton,   \* a restart button: "idle", which one was sent, "ok", "failed"
  wsTimer,    \* its two seconds run
  wsClicks,   \* clicks so far
  wsFaults    \* faults so far

sessionVars == <<wsCookie, wsStored, wsSessions, wsWith>>
wsVars == <<wsServer, wsPassword, sessionVars, wsPage, wsAsks, wsForm, wsLogout, wsButton,
            wsTimer, wsClicks, wsFaults>>

(* by: "auth", "layout", or "gone" when the Auth that asked is unmounted;  *)
(* stale: answered before the last password was accepted.                  *)
Ask(id, by) == [id |-> id, by |-> by, cookie |-> wsCookie, answer |-> "none", stale |-> FALSE]
Unused == CHOOSE n \in 1..Cardinality(wsAsks) + 1 : \A r \in wsAsks : r.id # n

(* The tab is opened at "/" or straight at a page of the dashboard.        *)
WebSessionInit ==
  /\ wsServer = "up" /\ wsPassword \in BOOLEAN
  /\ wsCookie = 0 /\ wsStored = {} /\ wsSessions = 0
  /\ wsWith = [form |-> 0, logout |-> 0, button |-> 0]
  /\ wsPage \in {"root", "dash"}
  /\ wsAsks = {Ask(1, IF wsPage = "root" THEN "auth" ELSE "layout")}
  /\ wsForm = "idle" /\ wsLogout = "idle" /\ wsButton = "idle" /\ wsTimer = FALSE
  /\ wsClicks = 0 /\ wsFaults = 0

-----------------------------------------------------------------------------
(* Moving around.                                                          *)

(* Leaving "/" unmounts the Auth that waits.                               *)
Orphaned(asks) == {IF r.by = "auth" THEN [r EXCEPT !.by = "gone"] ELSE r : r \in asks}

(* navigate(p) with asks under way: mounting Auth and rendering Layout     *)
(* each ask.                                                               *)
Goto(p, asks) ==
  /\ wsPage' = p
  /\ wsAsks' = CASE p = "root" -> Orphaned(asks) \cup {Ask(Unused, "auth")}
                 [] p = "dash" -> Orphaned(asks) \cup {Ask(Unused, "layout")}
                 [] OTHER -> Orphaned(asks)

PageIdle == UNCHANGED <<wsForm, wsLogout, wsButton, wsTimer>>
Server == UNCHANGED <<wsServer, wsPassword, sessionVars>>
Visit == wsClicks < MaxVisits /\ wsClicks' = wsClicks + 1

(* A link of the sidebar, or its trigger: Layout renders again.            *)
Render ==
  /\ wsPage = "dash" /\ Visit
  /\ Goto("dash", wsAsks)
  /\ Server /\ PageIdle /\ UNCHANGED wsFaults

Retry ==
  /\ wsPage = "unavailable" /\ Visit
  /\ Goto("root", wsAsks)
  /\ Server /\ PageIdle /\ UNCHANGED wsFaults

-----------------------------------------------------------------------------
(* /auth/info.                                                             *)

Info(cookie) == IF ~wsPassword THEN "setup" ELSE IF cookie \in wsStored THEN "in" ELSE "out"

Answered(r, a) == (wsAsks \ {r}) \cup {[r EXCEPT !.answer = a]}

AuthInfo(r) ==
  /\ r.answer = "none"
  /\ wsAsks' = Answered(r, IF wsServer = "down" THEN "failed" ELSE Info(r.cookie))
  /\ Server /\ PageIdle /\ UNCHANGED <<wsPage, wsClicks, wsFaults>>

LoseAnswer == wsFaults < MaxOutages /\ wsFaults' = wsFaults + 1

InfoLost(r) ==
  /\ r.answer # "failed" /\ LoseAnswer
  /\ wsAsks' = Answered(r, "failed")
  /\ Server /\ PageIdle /\ UNCHANGED <<wsPage, wsClicks>>

(* navigateToProperPage.                                                   *)
Leads(a) == CASE a = "in" -> "dash" [] a = "out" -> "login" [] OTHER -> "setup"

(* Mutant: a question that failed counts as "not authenticated".           *)
SendsAwayUnlessIn(a) == a # "in"

(* Layout's then: no catch, and setup-required leads to the login too.     *)
SendsAway(a) == a \in {"out", "setup"}

InfoLeads(r) ==
  /\ r.by # "layout" /\ r.answer \in {"in", "out", "setup"}
  /\ Goto(Leads(r.answer), wsAsks \ {r})
  /\ Server /\ PageIdle /\ UNCHANGED <<wsClicks, wsFaults>>

InfoUnavailable(r) ==
  /\ r.by # "layout" /\ r.answer = "failed"
  /\ wsAsks' = wsAsks \ {r}
  /\ wsPage' = IF r.by = "auth" THEN "unavailable" ELSE wsPage
  /\ Server /\ PageIdle /\ UNCHANGED <<wsClicks, wsFaults>>

LayoutStays(r) ==
  /\ r.by = "layout" /\ r.answer # "none" /\ ~SendsAway(r.answer)
  /\ wsAsks' = wsAsks \ {r}
  /\ Server /\ PageIdle /\ UNCHANGED <<wsPage, wsClicks, wsFaults>>

LayoutSendsAway(r) ==
  /\ r.by = "layout" /\ r.answer # "none" /\ SendsAway(r.answer)
  /\ Goto("login", wsAsks \ {r})
  /\ Server /\ PageIdle /\ UNCHANGED <<wsClicks, wsFaults>>

-----------------------------------------------------------------------------
(* The password forms; one submission of the tab at a time.                *)

SubmitForm ==
  /\ wsPage \in {"login", "setup"} /\ wsForm = "idle" /\ Visit
  /\ wsForm' = wsPage /\ wsWith' = [wsWith EXCEPT !.form = wsCookie]
  /\ UNCHANGED <<wsServer, wsPassword, wsCookie, wsStored, wsSessions, wsPage, wsAsks, wsLogout,
                 wsButton, wsTimer, wsFaults>>

(* A login once there is a password, a setup while there is none: in the   *)
(* session of the cookie, or in a new one, while bcrypt works.             *)
PasswordReceived ==
  /\ wsServer # "down"
  /\ \/ wsForm = "login" /\ wsPassword /\ wsForm' = "comparing"
     \/ wsForm = "setup" /\ ~wsPassword /\ wsForm' = "hashing"
  /\ IF wsWith.form \in wsStored THEN UNCHANGED <<wsSessions, wsWith>>
     ELSE wsSessions' = wsSessions + 1 /\ wsWith' = [wsWith EXCEPT !.form = wsSessions']
  /\ UNCHANGED <<wsServer, wsPassword, wsCookie, wsStored, wsPage, wsAsks, wsLogout, wsButton,
                 wsTimer, wsClicks, wsFaults>>

(* What is answered already is older than the session that is saved.       *)
Aged == {[r EXCEPT !.stale = r.answer # "none"] : r \in wsAsks}

PasswordAccepted ==
  /\ wsForm \in {"comparing", "hashing"} /\ wsForm' = "accepted"
  /\ wsPassword' = (wsPassword \/ wsForm = "hashing")
  /\ wsStored' = wsStored \cup {wsWith.form} /\ wsAsks' = Aged
  /\ UNCHANGED <<wsServer, wsCookie, wsSessions, wsWith, wsPage, wsLogout, wsButton, wsTimer,
                 wsClicks, wsFaults>>

(* The answer comes with the cookie.                                       *)
CookieSet ==
  /\ wsForm = "accepted" /\ wsForm' = "ok" /\ wsCookie' = wsWith.form
  /\ UNCHANGED <<wsServer, wsPassword, wsStored, wsSessions, wsWith, wsPage, wsAsks, wsLogout,
                 wsButton, wsTimer, wsClicks, wsFaults>>

CookieLost ==
  /\ wsForm = "accepted" /\ wsForm' = "failed" /\ LoseAnswer
  /\ Server /\ UNCHANGED <<wsPage, wsAsks, wsLogout, wsButton, wsTimer, wsClicks>>

(* A wrong password, too many tries, no setup yet, a setup already made or *)
(* no server.                                                              *)
PasswordRefused ==
  /\ wsForm \in {"login", "setup", "comparing", "hashing"}
  /\ wsForm' = "failed"
  /\ Server
  /\ UNCHANGED <<wsPage, wsAsks, wsLogout, wsButton, wsTimer, wsClicks, wsFaults>>

(* then: navigate("/").  catch: the error is shown.                        *)
FormSucceeds ==
  /\ wsForm = "ok" /\ wsForm' = "idle"
  /\ Goto("root", wsAsks)
  /\ Server /\ UNCHANGED <<wsLogout, wsButton, wsTimer, wsClicks, wsFaults>>

FormFails ==
  /\ wsForm = "failed" /\ wsForm' = "idle"
  /\ Server
  /\ UNCHANGED <<wsPage, wsAsks, wsLogout, wsButton, wsTimer, wsClicks, wsFaults>>

(* Another visitor sets the password.                                      *)
OtherSetsPassword ==
  /\ ~wsPassword /\ wsServer # "down" /\ wsPassword' = TRUE
  /\ PageIdle /\ UNCHANGED <<wsServer, sessionVars, wsPage, wsAsks, wsClicks, wsFaults>>

(* cookie.maxAge.                                                          *)
SessionExpires ==
  /\ wsCookie # 0 /\ LoseAnswer
  /\ wsCookie' = 0 /\ wsStored' = wsStored \ {wsCookie}
  /\ PageIdle
  /\ UNCHANGED <<wsServer, wsPassword, wsSessions, wsWith, wsPage, wsAsks, wsClicks>>

-----------------------------------------------------------------------------
(* handleLogout.                                                           *)

ClickLogout ==
  /\ wsPage = "dash" /\ wsLogout = "idle" /\ Visit
  /\ wsLogout' = "sent" /\ wsWith' = [wsWith EXCEPT !.logout = wsCookie]
  /\ UNCHANGED <<wsServer, wsPassword, wsCookie, wsStored, wsSessions, wsPage, wsAsks, wsForm,
                 wsButton, wsTimer, wsFaults>>

LoggedOut ==
  /\ wsLogout = "sent" /\ wsServer # "down"
  /\ wsLogout' = "answered" /\ wsStored' = wsStored \ {wsWith.logout}
  /\ UNCHANGED <<wsServer, wsPassword, wsCookie, wsSessions, wsWith, wsPage, wsAsks, wsForm,
                 wsButton, wsTimer, wsClicks, wsFaults>>

(* The answer clears the cookie, whatever the tab has by then.             *)
CookieCleared ==
  /\ wsLogout = "answered" /\ wsLogout' = "done" /\ wsCookie' = 0
  /\ UNCHANGED <<wsServer, wsPassword, wsStored, wsSessions, wsWith, wsPage, wsAsks, wsForm,
                 wsButton, wsTimer, wsClicks, wsFaults>>

(* No server, or the answer is lost.                                       *)
LogoutFails ==
  /\ \/ wsLogout = "sent" /\ wsServer = "down" /\ UNCHANGED wsFaults
     \/ wsLogout \in {"sent", "answered"} /\ LoseAnswer
  /\ wsLogout' = "done"
  /\ Server /\ UNCHANGED <<wsPage, wsAsks, wsForm, wsButton, wsTimer, wsClicks>>

(* finally: navigate("/").                                                 *)
LogoutLeaves ==
  /\ wsLogout = "done" /\ wsLogout' = "idle"
  /\ Goto("root", wsAsks)
  /\ Server /\ UNCHANGED <<wsForm, wsButton, wsTimer, wsClicks, wsFaults>>

-----------------------------------------------------------------------------
(* The buttons that restart the server.                                    *)

(* cleanupTasks, resetModulesDatabase, and restartServer or toggleSwagger  *)
(* with its restart.                                                       *)
Press(kind) ==
  /\ wsPage = "dash" /\ wsButton = "idle" /\ Visit
  /\ wsButton' = kind /\ wsWith' = [wsWith EXCEPT !.button = wsCookie]
  /\ UNCHANGED <<wsServer, wsPassword, wsCookie, wsStored, wsSessions, wsPage, wsAsks, wsForm,
                 wsLogout, wsTimer, wsFaults>>

RequireAuth == wsWith.button \in wsStored

(* The controllers: behind requireAuth; a cleanup that fails does not      *)
(* restart, a reset that fails does.                                       *)
ServerStops ==
  /\ wsServer = "up" /\ RequireAuth
  /\ \/ wsButton \in {"restart", "cleanup"} /\ wsButton' = "ok"
     \/ wsButton = "reset" /\ wsButton' \in {"ok", "failed"}
  /\ wsServer' = "stopping"
  /\ UNCHANGED <<wsPassword, sessionVars, wsPage, wsAsks, wsForm, wsLogout, wsTimer, wsClicks, wsFaults>>

ButtonRefused ==
  /\ \/ wsButton \in {"restart", "cleanup", "reset"} /\ ~(wsServer # "down" /\ RequireAuth)
     \/ wsButton = "cleanup"
  /\ wsButton' = "failed"
  /\ Server /\ UNCHANGED <<wsPage, wsAsks, wsForm, wsLogout, wsTimer, wsClicks, wsFaults>>

(* Pressed again while the server already stops: it only stops once more.  *)
StopsAlready ==
  /\ wsServer = "stopping" /\ RequireAuth /\ wsButton \in {"restart", "cleanup", "reset"}
  /\ wsButton' = "ok"
  /\ Server /\ UNCHANGED <<wsPage, wsAsks, wsForm, wsLogout, wsTimer, wsClicks, wsFaults>>

ButtonAnswered ==
  /\ wsButton \in {"ok", "failed"} /\ wsButton' = "idle"
  /\ wsTimer' = (wsTimer \/ wsButton = "ok")
  /\ Server /\ UNCHANGED <<wsPage, wsAsks, wsForm, wsLogout, wsClicks, wsFaults>>

(* Nothing clears the timer when the page is left.                         *)
TimerLeaves ==
  /\ wsTimer /\ wsTimer' = FALSE
  /\ Goto("root", wsAsks)
  /\ Server /\ UNCHANGED <<wsForm, wsLogout, wsButton, wsClicks, wsFaults>>

(* process.exit, one second after the modules stopped.                     *)
Exit ==
  /\ wsServer = "stopping" /\ wsServer' = "down"
  /\ wsStored' = {}
  /\ wsForm' = IF wsForm \in {"comparing", "hashing"} THEN "failed" ELSE wsForm
  /\ UNCHANGED <<wsPassword, wsCookie, wsSessions, wsWith, wsPage, wsAsks, wsLogout, wsButton,
                 wsTimer, wsClicks, wsFaults>>

(* The container starts again, with a new secret for its sessions.         *)
OpenApp ==
  /\ wsServer = "down" /\ wsServer' = "up"
  /\ PageIdle
  /\ UNCHANGED <<wsPassword, sessionVars, wsPage, wsAsks, wsClicks, wsFaults>>

(* The steps LostPassword.tsx lists: password "" in config.json, restart.  *)
PasswordRemoved ==
  /\ wsServer = "down" /\ wsPassword /\ wsPassword' = FALSE /\ LoseAnswer
  /\ PageIdle /\ UNCHANGED <<wsServer, sessionVars, wsPage, wsAsks, wsClicks>>

InfoStep ==
  \E r \in wsAsks :
    AuthInfo(r) \/ InfoLeads(r) \/ InfoUnavailable(r) \/ LayoutStays(r) \/ LayoutSendsAway(r)

WebSessionNext ==
  \/ Render \/ Retry \/ InfoStep \/ \E r \in wsAsks : InfoLost(r)
  \/ SubmitForm \/ PasswordReceived \/ PasswordAccepted \/ CookieSet \/ CookieLost
  \/ PasswordRefused \/ FormSucceeds \/ FormFails \/ OtherSetsPassword \/ SessionExpires
  \/ ClickLogout \/ LoggedOut \/ CookieCleared \/ LogoutFails \/ LogoutLeaves
  \/ \E k \in {"restart", "cleanup", "reset"} : Press(k)
  \/ ServerStops \/ ButtonRefused \/ StopsAlready \/ ButtonAnswered \/ TimerLeaves
  \/ Exit \/ OpenApp \/ PasswordRemoved

WebSessionSpec == WebSessionInit /\ [][WebSessionNext]_wsVars
-----------------------------------------------------------------------------
(* Properties.                                                             *)

(* The dashboard sends to the login only a tab without a session, or one   *)
(* that a question from before its session catches up with: sent with      *)
(* another cookie, or answered before its password was accepted.           *)
SentAwayWithoutSession ==
  [][wsPage = "dash" /\ wsPage' = "login" =>
       \/ wsCookie \notin wsStored
       \/ \E r \in wsAsks \ wsAsks' : r.cookie # wsCookie \/ r.stale]_wsVars
=============================================================================
