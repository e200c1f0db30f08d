--------------------------- MODULE AuthSessionProofs ---------------------------
(* Proofs about AuthSession: for any tabs, names and numbers of sign-ins, the   *)
(* variables keep their types, and a tab nobody interfered with finds its own   *)
(* session again.  Why types are needed for it: a sign-in's token is not NoToken.  *)
EXTENDS AuthSession, TLAPS

\* The tabs' tokens and what is stored, as far as they are typed.
TokensOK ==
  /\ token \in [Tab -> Token \cup {NoToken}] /\ session \in [Tab -> Token \cup {NoToken}]
  /\ local \in Token \cup {NoToken} /\ overtaken \subseteq Tab

ShownOK == route \in [Tab -> Page] /\ status \in [Tab -> {"idle", "loading", "success", "failure"}]
PagesOK ==
  /\ ShownOK
  /\ redirects \subseteq Tab \X {"workspace", "verify", "login"}

IInv == TypeOK /\ KeptOnReload

\* What KeptOnReload reads.
stored == <<token, session, local, overtaken>>

----------------------------------------------------------------------------
LEMMA InitHolds == ASSUME Init PROVE IInv
PROOF
<1>1. TypeOK
  BY DEF Init, TypeOK, NoToken, Token, Page, Call
<1>2. KeptOnReload
  BY DEF Init, KeptOnReload, NoToken
<1> QED
  BY <1>1, <1>2 DEF IInv

\* Nothing stored moves: the session is found as before.
LEMMA StoredStays ==
  ASSUME KeptOnReload, UNCHANGED stored
  PROVE  KeptOnReload'
BY DEF KeptOnReload, stored, Saved

\* The page a guard lets through is a page, and so is what the router shows.
LEMMA ShowKeeps ==
  ASSUME TypeOK, NEW t \in Tab, NEW page \in Page, Show(t, page)
  PROVE  ShownOK'
BY DEF TypeOK, Show, Guarded, Page, ShownOK

\* A fresh load restores what is stored, or signs the tab out.
LEMMA LoadKeeps ==
  ASSUME IInv, NEW t \in Tab, NEW page \in Page, Load(t, page)
  PROVE  TokensOK' /\ PagesOK' /\ KeptOnReload'
PROOF
<1>1. Saved(t) \in Token \cup {NoToken}
  BY DEF IInv, TypeOK, Saved
<1>2. TokensOK'
  BY <1>1 DEF IInv, TypeOK, Load, TokensOK
<1>3. PagesOK'
  BY DEF IInv, TypeOK, Load, PagesOK, ShownOK, Guarded, Page
<1>4. KeptOnReload'
  <2>1. CASE Saved(t) \in expired
    <3>1. token'[t] = NoToken /\ overtaken' = (overtaken \cup Tab) \ {t}
      BY <2>1 DEF IInv, TypeOK, Load
    <3> QED
      BY <3>1 DEF KeptOnReload
  <2>2. CASE Saved(t) \notin expired
    <3>1. UNCHANGED <<local, session>> /\ overtaken' = overtaken \ {t}
      BY <2>2 DEF Load
    <3>2. token' = [token EXCEPT ![t] = Saved(t)]
      BY <2>2 DEF Load, Saved
    <3>3. \A u \in Tab : Saved(u)' = Saved(u)
      BY <3>1 DEF Saved
    <3>4. token'[t] = Saved(t) /\ \A u \in Tab \ {t} : token'[u] = token[u]
      BY <3>2 DEF IInv, TypeOK
    <3> QED
      BY <3>1, <3>3, <3>4 DEF IInv, KeptOnReload
  <2> QED
    BY <2>1, <2>2
<1> QED
  BY <1>2, <1>3, <1>4

LEMMA VisitKeeps ==
  ASSUME IInv, NEW t \in Tab, NEW page \in Page, Visit(t, page)
  PROVE  IInv'
PROOF
<1>1. Load(t, page)
  BY DEF Visit
<1>2. TokensOK' /\ PagesOK' /\ KeptOnReload'
  BY <1>1, LoadKeeps
<1>3. UNCHANGED <<expired, users, issued>> /\ calls' \subseteq calls
  BY DEF Visit, Load
<1> QED
  BY <1>2, <1>3 DEF IInv, TypeOK, TokensOK, PagesOK, ShownOK

\* A form sent, or a button pressed, begins a call.
LEMMA BeginKeeps ==
  ASSUME IInv, NEW c \in Call, Begin(c)
  PROVE  IInv'
PROOF
<1>1. status' \in [Tab -> {"idle", "loading", "success", "failure"}]
  BY DEF Begin, IInv, TypeOK, Call
<1>2. KeptOnReload'
  BY StoredStays DEF Begin, IInv, stored
<1> QED
  BY <1>1, <1>2 DEF Begin, IInv, TypeOK

LEMMA SubmitKeeps ==
  ASSUME SessionAssumption, IInv, NEW t \in Tab,
         \/ \E keep \in BOOLEAN : SubmitLogin(t, keep)
         \/ \E name \in Name : SubmitRegister(t, name)
         \/ SubmitForgot(t) \/ SubmitReset(t)
  PROVE  IInv'
PROOF
<1>1. Anyone \in Name
  BY DEF SessionAssumption, Anyone
<1>2. ASSUME NEW op \in Op, NEW keep \in BOOLEAN, NEW name \in Name,
             Begin([tab |-> t, op |-> op, keep |-> keep, name |-> name])
      PROVE  IInv'
  <2>1. [tab |-> t, op |-> op, keep |-> keep, name |-> name] \in Call
    BY DEF Call
  <2> QED
    BY <1>2, <2>1, BeginKeeps
<1>3. ASSUME NEW keep \in BOOLEAN, SubmitLogin(t, keep) PROVE IInv'
  BY <1>1, <1>2, <1>3 DEF SubmitLogin, Op
<1>4. ASSUME NEW name \in Name, SubmitRegister(t, name) PROVE IInv'
  BY <1>2, <1>4 DEF SubmitRegister, Op
<1>5. CASE SubmitForgot(t)
  BY <1>1, <1>2, <1>5 DEF SubmitForgot, Op
<1>6. CASE SubmitReset(t)
  BY <1>1, <1>2, <1>6 DEF SubmitReset, Op
<1> QED
  BY <1>3, <1>4, <1>5, <1>6

LEMMA AdminKeeps ==
  ASSUME SessionAssumption, IInv, NEW t \in Tab, NEW op \in {"demo", "launch"}, SignInAsAdmin(t, op)
  PROVE  IInv'
PROOF
<1>1. [tab |-> t, op |-> op, keep |-> TRUE, name |-> Anyone] \in Call
  BY DEF SessionAssumption, Anyone, Call, Op
<1> QED
  BY <1>1, BeginKeeps DEF SignInAsAdmin

\* A sign-in stores its token where it is looked for first.
LEMMA AcceptedKeeps ==
  ASSUME SessionAssumption, IInv, NEW c \in calls, SignInAccepted(c)
  PROVE  IInv'
PROOF
<1>1. c \in Call /\ c.tab \in Tab /\ c.keep \in BOOLEAN
  BY DEF IInv, TypeOK, Call
<1>2. issued' \in Token /\ issued' # NoToken
  BY DEF IInv, TypeOK, SignInAccepted, Token, NoToken, SessionAssumption
<1>3. /\ token' = [token EXCEPT ![c.tab] = issued']
      /\ overtaken' = (overtaken \cup Tab) \ {c.tab}
      /\ Store(c.tab, issued', c.keep)
  BY DEF SignInAccepted
<1>4. TokensOK'
  BY <1>1, <1>2, <1>3 DEF IInv, TypeOK, TokensOK, Store
<1>5. KeptOnReload'
  <2>1. token'[c.tab] = issued' /\ \A t \in Tab : t \notin overtaken' => t = c.tab
    BY <1>1, <1>3 DEF IInv, TypeOK
  <2>2. Saved(c.tab)' = issued'
    BY <1>1, <1>2, <1>3 DEF IInv, TypeOK, Saved, Store
  <2> QED
    BY <2>1, <2>2 DEF KeptOnReload
<1>6. PagesOK' /\ calls' \subseteq calls
  <2>1. CASE c.op = "launch"
    BY <1>1, <2>1 DEF IInv, TypeOK, SignInAccepted, LoadAfter, PagesOK, ShownOK, Page
  <2>2. CASE c.op # "launch"
    BY <1>1, <2>2 DEF IInv, TypeOK, SignInAccepted, PagesOK, ShownOK
  <2> QED
    BY <2>1, <2>2
<1>7. UNCHANGED <<expired, users>>
  BY DEF SignInAccepted
<1> QED
  BY <1>2, <1>4, <1>5, <1>6, <1>7 DEF IInv, TypeOK, TokensOK, PagesOK, ShownOK

LEMMA RefusedKeeps ==
  ASSUME IInv, NEW c \in calls, SignInRefused(c)
  PROVE  IInv'
PROOF
<1>1. c.tab \in Tab
  BY DEF IInv, TypeOK, Call
<1>2. CASE c.op = "launch"
  <2>1. Load(c.tab, "login") /\ calls' \subseteq calls /\ UNCHANGED issued
    BY <1>2 DEF SignInRefused
  <2>2. "login" \in Page /\ UNCHANGED <<expired, users>>
    BY <2>1 DEF Page, Load
  <2> QED
    BY <1>1, <2>1, <2>2, LoadKeeps DEF IInv, TypeOK, TokensOK, PagesOK, ShownOK
<1>3. CASE c.op # "launch"
  <2>1. UNCHANGED <<stored, expired, users, route, redirects, issued>> /\ calls' \subseteq calls
    BY <1>3 DEF SignInRefused, stored
  <2>2. status' \in [Tab -> {"idle", "loading", "success", "failure"}]
    BY <1>1, <1>3 DEF SignInRefused, IInv, TypeOK
  <2>3. KeptOnReload'
    BY <2>1, StoredStays DEF IInv
  <2> QED
    BY <2>1, <2>2, <2>3 DEF IInv, TypeOK, stored
<1> QED
  BY <1>2, <1>3

\* Signing out takes every tab's stored token away: the others are overtaken.
LEMMA LogoutKeeps ==
  ASSUME IInv, NEW t \in Tab, logout(t)
  PROVE  IInv'
PROOF
<1>1. TypeOK'
  BY DEF IInv, TypeOK, logout
<1>2. token'[t] = NoToken /\ overtaken' = (overtaken \cup Tab) \ {t}
  BY DEF IInv, TypeOK, logout
<1>3. KeptOnReload'
  BY <1>2 DEF KeptOnReload
<1> QED
  BY <1>1, <1>3 DEF IInv

\* A form's answer touches neither tokens nor what is stored.
LEMMA AnsweredKeeps ==
  ASSUME IInv, NEW c \in calls, NEW outcome \in {"success", "failure"},
         NEW page \in SUBSET {"verify", "login"},
         Answered(c, outcome, page), users' \in [Name -> 0 .. 1]
  PROVE  IInv'
PROOF
<1>1. c.tab \in Tab
  BY DEF IInv, TypeOK, Call
<1>2. UNCHANGED <<stored, expired, route, issued>> /\ calls' \subseteq calls
  BY DEF Answered, stored
<1>3. status' \in [Tab -> {"idle", "loading", "success", "failure"}]
  BY <1>1 DEF Answered, IInv, TypeOK
<1>4. redirects' \subseteq Tab \X {"workspace", "verify", "login"}
  BY <1>1 DEF Answered, IInv, TypeOK
<1>5. KeptOnReload'
  BY <1>2, StoredStays DEF IInv
<1> QED
  BY <1>2, <1>3, <1>4, <1>5 DEF IInv, TypeOK, stored

LEMMA FormsKeep ==
  ASSUME IInv, NEW c \in calls, register(c) \/ forgotPassword(c) \/ resetPassword(c)
  PROVE  IInv'
PROOF
<1>1. users \in [Name -> 0 .. 1] /\ c.name \in Name
  BY DEF IInv, TypeOK, Call
<1>2. CASE register(c)
  <2>1. CASE users[c.name] > 0
    BY <1>1, <1>2, <2>1, AnsweredKeeps DEF register
  <2>2. CASE ~(users[c.name] > 0)
    <3>1. users' = [users EXCEPT ![c.name] = @ + 1] /\ Answered(c, "success", {"verify"})
      BY <1>2, <2>2 DEF register
    <3>2. users[c.name] = 0
      BY <1>1, <2>2
    <3>3. users' \in [Name -> 0 .. 1]
      BY <1>1, <3>1, <3>2
    <3> QED
      BY <3>1, <3>3, AnsweredKeeps
  <2> QED
    BY <2>1, <2>2
<1>3. CASE forgotPassword(c)
  BY <1>1, <1>3, AnsweredKeeps DEF forgotPassword
<1>4. CASE resetPassword(c)
  BY <1>1, <1>4, AnsweredKeeps DEF resetPassword
<1> QED
  BY <1>2, <1>3, <1>4

LEMMA PagesKeep ==
  ASSUME IInv, (\E t \in Tab : Verified(t)) \/ (\E r \in redirects : Redirect(r))
               \/ (\E n \in Token : Expire(n))
  PROVE  IInv'
PROOF
<1>1. UNCHANGED <<stored, users, calls, issued>>
  BY DEF Verified, Redirect, Expire, stored
<1>2. KeptOnReload'
  BY <1>1, StoredStays DEF IInv
<1>3. expired' \subseteq Token
  BY DEF IInv, TypeOK, Verified, Redirect, Expire
<1>4. redirects' \subseteq redirects
  BY DEF Verified, Redirect, Expire
<1>5. ShownOK'
  <2>1. ASSUME NEW t \in Tab, Verified(t) PROVE ShownOK'
    BY <2>1, ShowKeeps DEF IInv, Verified, Page
  <2>2. ASSUME NEW r \in redirects, Redirect(r) PROVE ShownOK'
    <3>1. r[1] \in Tab /\ r[2] \in Page
      BY DEF IInv, TypeOK, Page
    <3> QED
      BY <2>2, <3>1, ShowKeeps DEF IInv, Redirect
  <2>3. ASSUME NEW n \in Token, Expire(n) PROVE ShownOK'
    BY <2>3 DEF IInv, TypeOK, Expire, ShownOK
  <2> QED
    BY <2>1, <2>2, <2>3
<1> QED
  BY <1>1, <1>2, <1>3, <1>4, <1>5 DEF IInv, TypeOK, stored, ShownOK

LEMMA StepKeeps ==
  ASSUME SessionAssumption, IInv, [Next]_vars
  PROVE  IInv'
PROOF
<1>1. CASE UNCHANGED vars
  <2>1. UNCHANGED stored
    BY <1>1 DEF vars, stored
  <2> QED
    BY <1>1, <2>1, StoredStays DEF vars, IInv, TypeOK
<1>2. ASSUME NEW t \in Tab, NEW page \in Page, Visit(t, page) PROVE IInv'
  BY <1>2, VisitKeeps
<1>3. ASSUME NEW t \in Tab,
             \/ \E keep \in BOOLEAN : SubmitLogin(t, keep)
             \/ \E name \in Name : SubmitRegister(t, name)
             \/ SubmitForgot(t) \/ SubmitReset(t)
      PROVE  IInv'
  BY <1>3, SubmitKeeps
<1>4. ASSUME NEW t \in Tab, NEW op \in {"demo", "launch"}, SignInAsAdmin(t, op) PROVE IInv'
  BY <1>4, AdminKeeps
<1>5. ASSUME NEW t \in Tab, logout(t) PROVE IInv'
  BY <1>5, LogoutKeeps
<1>6. ASSUME NEW c \in calls, SignInAccepted(c) PROVE IInv'
  BY <1>6, AcceptedKeeps
<1>7. ASSUME NEW c \in calls, SignInRefused(c) PROVE IInv'
  BY <1>7, RefusedKeeps
<1>8. ASSUME NEW c \in calls, register(c) \/ forgotPassword(c) \/ resetPassword(c) PROVE IInv'
  BY <1>8, FormsKeep
<1> QED
  BY <1>1, <1>2, <1>3, <1>4, <1>5, <1>6, <1>7, <1>8, PagesKeep DEF Next

\* The variables of AuthSession keep their types; in particular no two accounts are
\* registered under one name, in whichever tabs (register).
THEOREM TypeCorrect == ASSUME SessionAssumption PROVE Spec => []TypeOK
PROOF
<1>1. Init => IInv
  BY InitHolds
<1>2. IInv /\ [Next]_vars => IInv'
  BY StepKeeps
<1>3. IInv => TypeOK
  BY DEF IInv
<1> QED
  BY <1>1, <1>2, <1>3, PTL DEF Spec

\* A signed-in tab whose stored token no other tab replaced or removed is restored to
\* the session it has (login, logout and the restore of AuthContext).
THEOREM KeptOnReloadAlways == ASSUME SessionAssumption PROVE Spec => []KeptOnReload
PROOF
<1>1. Init => IInv
  BY InitHolds
<1>2. IInv /\ [Next]_vars => IInv'
  BY StepKeeps
<1>3. IInv => KeptOnReload
  BY DEF IInv
<1> QED
  BY <1>1, <1>2, <1>3, PTL DEF Spec

================================================================================
