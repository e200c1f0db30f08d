----------------------------- MODULE AuthSession -----------------------------
(***************************************************************************)
(* Signing in and out of the browser client in several tabs: the token in  *)
(* memory, sessionStorage and the localStorage the tabs share, the public  *)
(* pages with their forms, and the route that guards the workspace         *)
(* (contexts/AuthContext.jsx, pages/auth, PublicLayout.jsx, App.js).       *)
(*                                                                         *)
(* A token is the number of the sign-in it comes from.  Whether the API or *)
(* the local fallback accepts the credentials makes no difference to the   *)
(* client and is left open.  What is typed into a form is valid or not;    *)
(* the name an account is registered under is kept.  The back button is    *)
(* left out.                                                               *)
(***************************************************************************)
EXTENDS Integers, FiniteSets

CONSTANTS
  Tab,
  Name,        \* user names an account is registered under
  MaxSignIns,  \* bound: successful sign-ins
  MaxCalls     \* bound: calls and timers of all tabs under way

NoToken  == 0
Token == 1 .. MaxSignIns
Page  == {"landing", "login", "register", "verify", "forgot", "reset", "workspace"}
Anyone == CHOOSE n \in Name : TRUE

SessionAssumption == MaxSignIns \in Nat /\ Name # {}

VARIABLES
  token,      \* AuthContext's token, of each tab
  session,    \* sessionStorage sf_token, of each tab
  local,      \* localStorage sf_token
  expired,    \* tokens whose time is over
  users,      \* sf_mock_users: how often each name is in it
  route,      \* the page each tab shows
  status,     \* of the page's form: idle, loading, success, failure
  calls,      \* sign-ins and forms under way: [tab, op, keep, name]
  redirects,  \* setTimeout(navigate): <<tab, page>>
  overtaken,  \* history: tabs whose stored token another tab may have replaced or removed
              \* since theirs was set
  issued      \* sign-ins so far

vars == <<token, session, local, expired, users, route, status, calls, redirects, overtaken, issued>>

Op   == {"form", "demo", "launch", "register", "forgot", "reset"}
Call == [tab : Tab, op : Op, keep : BOOLEAN, name : Name]

TypeOK ==
  /\ token \in [Tab -> Token \cup {NoToken}] /\ session \in [Tab -> Token \cup {NoToken}]
  /\ local \in Token \cup {NoToken} /\ expired \subseteq Token
  /\ users \in [Name -> 0 .. 1]   \* no name is registered twice, in whichever tabs (register)
  /\ route \in [Tab -> Page]
  /\ status \in [Tab -> {"idle", "loading", "success", "failure"}]
  /\ calls \subseteq Call
  /\ redirects \subseteq Tab \X {"workspace", "verify", "login"}
  /\ overtaken \subseteq Tab /\ issued \in Token \cup {NoToken}

Init ==
  /\ token = [t \in Tab |-> NoToken] /\ session = token /\ local = NoToken /\ expired = {}
  /\ users = [u \in Name |-> 0]
  /\ route = [t \in Tab |-> "landing"] /\ status = [t \in Tab |-> "idle"]
  /\ calls = {} /\ redirects = {} /\ overtaken = {} /\ issued = 0

----------------------------------------------------------------------------
(* Pages.                                                                  *)

\* localStorage.getItem || sessionStorage.getItem
Saved(t) == IF local # NoToken THEN local ELSE session[t]

\* ProtectedRoute.
Guarded(page, signedIn) == IF page = "workspace" /\ ~signedIn THEN "login" ELSE page

\* A page is loaded afresh, by a link, location.href or the browser: everything under
\* way is gone, and the session is restored or, when its token has expired, removed.
Load(t, page) ==
  LET valid == Saved(t) # NoToken /\ Saved(t) \notin expired
  IN /\ token' = [token EXCEPT ![t] = IF valid THEN Saved(t) ELSE NoToken]
     /\ IF Saved(t) \in expired THEN local' = NoToken /\ session' = [session EXCEPT ![t] = NoToken]
        ELSE UNCHANGED <<local, session>>
     /\ overtaken' = (IF Saved(t) \in expired THEN overtaken \cup Tab ELSE overtaken) \ {t}
     /\ route' = [route EXCEPT ![t] = Guarded(page, valid)]
     /\ status' = [status EXCEPT ![t] = "idle"]
     /\ redirects' = {r \in redirects : r[1] # t}
     /\ UNCHANGED <<expired, users>>

Visit(t, page) == Load(t, page) /\ calls' = {c \in calls : c.tab # t} /\ UNCHANGED issued

\* The router shows another page of the same load.
Show(t, page) ==
  LET shown == Guarded(page, token[t] # NoToken)
  IN /\ route' = [route EXCEPT ![t] = shown]
     /\ status' = IF shown = route[t] THEN status ELSE [status EXCEPT ![t] = "idle"]

Redirect(r) ==
  /\ r \in redirects /\ redirects' = redirects \ {r}
  /\ Show(r[1], r[2])
  /\ UNCHANGED <<token, session, local, expired, users, calls, overtaken, issued>>

\* EmailVerification has waited its 1.5 s, and "Go to Login" is clicked.
Verified(t) ==
  /\ route[t] = "verify"
  /\ Show(t, "login")
  /\ UNCHANGED <<token, session, local, expired, users, calls, redirects, overtaken, issued>>

\* The buttons beside a page's form.
Offered(t) ==
  IF route[t] = "workspace" THEN {}
  ELSE (IF token[t] = NoToken THEN {"launch"} ELSE {"logout"})
       \cup (IF route[t] = "login" THEN {"demo"} ELSE {})

\* The form of a page, its "retry" button included: locked while it is sent and after.
FormOpen(t, page) == route[t] = page /\ status[t] \notin {"loading", "success"}

----------------------------------------------------------------------------
(* Signing in and out.                                                     *)

Begin(c) ==
  /\ Cardinality(calls) + Cardinality(redirects) < MaxCalls
  /\ calls' = calls \cup {c}
  /\ status' = IF c.op = "launch" THEN status ELSE [status EXCEPT ![c.tab] = "loading"]
  /\ UNCHANGED <<token, session, local, expired, users, route, redirects, overtaken, issued>>

SubmitLogin(t, keep) ==
  FormOpen(t, "login") /\ Begin([tab |-> t, op |-> "form", keep |-> keep, name |-> Anyone])

SubmitRegister(t, name) ==
  FormOpen(t, "register") /\ Begin([tab |-> t, op |-> "register", keep |-> FALSE, name |-> name])

SubmitForgot(t) ==
  FormOpen(t, "forgot") /\ Begin([tab |-> t, op |-> "forgot", keep |-> FALSE, name |-> Anyone])

SubmitReset(t) ==
  FormOpen(t, "reset") /\ Begin([tab |-> t, op |-> "reset", keep |-> FALSE, name |-> Anyone])

\* "Instant Demo Access", never disabled, and "Launch Workspace": admin, remembered.
SignInAsAdmin(t, op) ==
  /\ op \in {"demo", "launch"} \cap Offered(t)
  /\ Begin([tab |-> t, op |-> op, keep |-> TRUE, name |-> Anyone])

\* Faulty variant: a remembered token of an earlier sign-in is left where it was.
StoreBeside(t, n, keep) ==
  IF keep THEN local' = n /\ session' = [session EXCEPT ![t] = NoToken]
  ELSE session' = [session EXCEPT ![t] = n] /\ UNCHANGED local

Store(t, n, keep) ==
  IF keep THEN local' = n /\ session' = [session EXCEPT ![t] = NoToken]
  ELSE session' = [session EXCEPT ![t] = n] /\ local' = NoToken

SignInOps == {"form", "demo", "launch"}

\* A full load of the page, which ends every other call and timer of the tab.
LoadAfter(t, page) ==
  /\ calls' = {c \in calls : c.tab # t}
  /\ redirects' = {r \in redirects : r[1] # t}
  /\ route' = [route EXCEPT ![t] = page] /\ status' = [status EXCEPT ![t] = "idle"]

\* login has its token, from the API or of its own making; the form then waits 500 or
\* 700 ms, and "launch" sets location.href.
SignInAccepted(c) ==
  /\ c \in calls /\ c.op \in SignInOps /\ issued < MaxSignIns
  /\ issued' = issued + 1
  /\ token' = [token EXCEPT ![c.tab] = issued']
  /\ Store(c.tab, issued', c.keep)
  /\ overtaken' = (overtaken \cup Tab) \ {c.tab}
  /\ IF c.op = "launch" THEN LoadAfter(c.tab, "workspace")
     ELSE /\ calls' = calls \ {c}
          /\ redirects' = redirects \cup {<<c.tab, "workspace">>}
          /\ status' = IF route[c.tab] = "login" THEN [status EXCEPT ![c.tab] = "success"] ELSE status
          /\ UNCHANGED route
  /\ UNCHANGED <<expired, users>>

SignInRefused(c) ==
  /\ c \in calls /\ c.op \in SignInOps
  /\ IF c.op = "launch" THEN Load(c.tab, "login") /\ calls' = {d \in calls : d.tab # c.tab}
     ELSE /\ calls' = calls \ {c}
          /\ status' = IF route[c.tab] = "login" THEN [status EXCEPT ![c.tab] = "failure"] ELSE status
          /\ UNCHANGED <<token, session, local, expired, users, route, redirects, overtaken>>
  /\ UNCHANGED issued

logout(t) ==
  /\ "logout" \in Offered(t)
  /\ token' = [token EXCEPT ![t] = NoToken]
  /\ local' = NoToken /\ session' = [session EXCEPT ![t] = NoToken]
  /\ overtaken' = (overtaken \cup Tab) \ {t}
  /\ UNCHANGED <<expired, users, route, status, calls, redirects, issued>>

\* The clock, which nothing but a restore looks at.
Expire(n) ==
  /\ n \in 1 .. issued \ expired
  /\ expired' = expired \cup {n}
  /\ UNCHANGED <<token, session, local, users, route, status, calls, redirects, overtaken, issued>>

----------------------------------------------------------------------------
(* The other forms, 800 ms later.                                          *)

Answered(c, outcome, page) ==
  /\ calls' = calls \ {c}
  /\ status' = IF route[c.tab] = c.op THEN [status EXCEPT ![c.tab] = outcome] ELSE status
  /\ redirects' = IF outcome = "success" THEN redirects \cup ({c.tab} \X page) ELSE redirects
  /\ UNCHANGED <<token, session, local, expired, route, overtaken, issued>>

\* The names taken are read and the new one is added after the wait, in one step.
register(c) ==
  /\ c \in calls /\ c.op = "register"
  /\ IF users[c.name] > 0 THEN Answered(c, "failure", {}) /\ UNCHANGED users
     ELSE Answered(c, "success", {"verify"}) /\ users' = [users EXCEPT ![c.name] = @ + 1]

forgotPassword(c) ==
  c \in calls /\ c.op = "forgot" /\ Answered(c, "success", {}) /\ UNCHANGED users

resetPassword(c) ==
  c \in calls /\ c.op = "reset" /\ Answered(c, "success", {"login"}) /\ UNCHANGED users

----------------------------------------------------------------------------
Next ==
  \/ \E t \in Tab :
       \/ \E page \in Page : Visit(t, page)
       \/ Verified(t)
       \/ \E keep \in BOOLEAN : SubmitLogin(t, keep)
       \/ \E name \in Name : SubmitRegister(t, name)
       \/ SubmitForgot(t) \/ SubmitReset(t)
       \/ \E op \in {"demo", "launch"} : SignInAsAdmin(t, op)
       \/ logout(t)
  \/ \E c \in calls : SignInAccepted(c) \/ SignInRefused(c) \/ register(c)
                      \/ forgotPassword(c) \/ resetPassword(c)
  \/ \E r \in redirects : Redirect(r)
  \/ \E n \in Token : Expire(n)

Spec == Init /\ [][Next]_vars

----------------------------------------------------------------------------
\* A signed-in tab finds its own session again after a reload, as long as no other tab
\* has signed in or out and no reload has found its token expired: remembered or not, a
\* sign-in leaves no older token where AuthContext looks first.
KeptOnReload == \A t \in Tab : token[t] # NoToken /\ t \notin overtaken => Saved(t) = token[t]

=============================================================================
