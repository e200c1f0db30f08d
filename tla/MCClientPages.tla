---------------------------- MODULE MCClientPages ----------------------------
(* The parts of the client around a document and a pipeline, for TLC: the      *)
(* reading pane with its chat, the session, the shell's navigation and its     *)
(* requests, the polling store, the notices and the replay page.  They share   *)
(* no state, so a behaviour is one of one of them.                             *)
EXTENDS ReadingPane

CONSTANTS
  Tab, Name, MaxSignIns, MaxCalls,             \* the session
  MaxOpen,                                     \* the shell
  Pipeline, Query, MaxAsks, MaxRuns,           \* its requests
  MaxSlots, MaxChanges,                        \* the polling store
  Posted, Own, MaxPolls,                       \* the notices
  Events, MaxFetched, MaxRebuilt                    \* the replay page

VARIABLES
  part,
  token, session, local, expired, users, route, form, calls, redirects, overtaken, issued,  \* the session's; form is its status
  view, devMode, devTools, collapsed, panel, mobile, overlays, summoned,       \* the shell's; overlays is its open
  status, selected, known, polls, typed, found, searches, runs, testing, results, shown,    \* its requests'; known is its details
  server, changes, watching, timers, slots, store, stuck,                      \* the polling store's; slots is its loads
  notices, read, posted, list, seen, unread, fetched, marks, clearing, toasts, hidden,      \* the notices'; server and polls
  pipelines, replayed, events, index, playing, loading, fetches, rebuilt, asks \* the replay page's

sessionVars == <<token, session, local, expired, users, route, form, calls, redirects, overtaken, issued>>
shellVars   == <<view, devMode, devTools, collapsed, panel, mobile, overlays, summoned>>
requestVars == <<status, selected, known, polls, typed, found, searches, runs, testing, results, shown>>
pollingVars == <<server, changes, watching, timers, slots, store, stuck>>
noticeVars  == <<notices, read, posted, list, seen, unread, fetched, marks, clearing, toasts, hidden>>
replayVars  == <<pipelines, replayed, events, index, playing, loading, fetches, rebuilt, asks>>
allVars     == <<part, vars, sessionVars, shellVars, requestVars, pollingVars, noticeVars, replayVars>>

A == INSTANCE AuthSession WITH status <- form
S == INSTANCE ClientShell WITH open <- overlays
R == INSTANCE ShellRequests WITH details <- known
T == INSTANCE TelemetryPolling WITH MaxLoads <- MaxSlots, loads <- slots
N == INSTANCE NotificationCenter WITH server <- notices, polls <- fetched
P == INSTANCE ReplayPage WITH Pipeline <- DOMAIN Events, Recorded <- Events, MaxLoads <- MaxFetched,
                              MaxAsks <- MaxRebuilt, selected <- replayed, details <- events, loads <- fetches

ASSUME PartsAssumption ==
  /\ A!SessionAssumption /\ S!ShellAssumption /\ R!RequestsAssumption /\ T!TelemetryAssumption
  /\ N!NoticesAssumption /\ P!ReplayAssumption

\* A document of two pages and one of text.
Docs    == {"paper", "note"}
KindOf  == [d \in Docs |-> IF d = "paper" THEN "pdf" ELSE "text"]
PagesOf == [d \in Docs |-> IF d = "paper" THEN 2 ELSE 1]

\* Pipelines of a few events, of one and of none.
EventsOf ==
  [p \in {"P1", "P2", "P3"} |-> CASE p = "P1" -> <<"task_retry", "task_completed">>
                                  [] p = "P2" -> <<"lease_expired">> [] p = "P3" -> <<>>]

\* Bound: once a question has been asked only the paper is opened, and one preview is
\* loaded at a time.
OnePreview == asked' = 0 \/ (open' # "note" /\ Cardinality(loads') <= 1)

\* Bound: one tab at a time has a form filled in, or shows a form other than the login's.
OneForm == Cardinality({t \in Tab : form'[t] # "idle" \/ route'[t] \notin {"landing", "login", "workspace"}}) <= 1

\* Bound: the tests are run while the search field rests, and it rests from then on.
TestsLast ==
  /\ runs' > runs => searches = <<>> /\ typed = R!Null
  /\ typed' # typed => runs = 0 /\ results = R!Null

Reading  == part = "reading" /\ UNCHANGED <<part, sessionVars, shellVars, requestVars, pollingVars, noticeVars, replayVars>>
Session  == part = "session" /\ UNCHANGED <<part, vars, shellVars, requestVars, pollingVars, noticeVars, replayVars>>
Shell    == part = "shell" /\ UNCHANGED <<part, vars, sessionVars, requestVars, pollingVars, noticeVars, replayVars>>
Requests == part = "requests" /\ UNCHANGED <<part, vars, sessionVars, shellVars, pollingVars, noticeVars, replayVars>>
Polling  == part = "polling" /\ UNCHANGED <<part, vars, sessionVars, shellVars, requestVars, noticeVars, replayVars>>
Notices  == part = "notices" /\ UNCHANGED <<part, vars, sessionVars, shellVars, requestVars, pollingVars, replayVars>>
Replay   == part = "replay" /\ UNCHANGED <<part, vars, sessionVars, shellVars, requestVars, pollingVars, noticeVars>>

\* The server and the switches of the shell start in one way where a behaviour is not
\* of them.
AllInit ==
  /\ part \in {"reading", "session", "shell", "requests", "polling", "notices", "replay"}
  /\ Init /\ A!Init /\ S!Init /\ R!Init /\ T!Init /\ N!Init /\ P!Init
  /\ part # "shell" => ~devMode /\ ~collapsed /\ ~panel /\ ~mobile
  /\ part # "polling" => server = [workers |-> "busy", queue |-> "empty", db |-> "online"]

AllNext ==
  \/ Reading /\ Next /\ OnePreview
  \/ Session /\ A!Next /\ OneForm
  \/ Shell /\ S!Next
  \/ Requests /\ R!Next /\ TestsLast
  \/ Polling /\ T!Next
  \/ Notices /\ N!Next
  \/ Replay /\ P!Next

\* The fairness of every part.  Since a behaviour is one of one part, fairness of a
\* disjunction over parts is fairness of each disjunct in the behaviours of its part.
WeakOf(k) ==
  \/ Reading /\ IF k <= 2 THEN Answer(k) ELSE End(k - 2)
  \/ Requests /\ \/ k = 1 /\ R!Interval
                 \/ k = 2 /\ R!loadDetails(1)
                 \/ k = 3 /\ (R!TestsAnswered("passed") \/ R!TestsAnswered("failed"))
  \/ Polling /\ IF k <= 2 THEN T!Answer(k) ELSE T!Arrive(k - 2)
  \/ Notices /\ k <= 2 /\ N!PollArrives(k)
  \/ Replay /\ k = 1 /\ \E a \in asks : P!StateArrives(a)

StrongOf(k) ==
  \/ Requests /\ k = 1 /\ R!PollSucceeds /\ known'[1] = selected
  \/ Polling /\ (\/ k = 1 /\ T!Tick("fast")
                 \/ k = 2 /\ T!Tick("slow")) /\ slots' # slots
  \/ Notices /\ \/ k <= 2 /\ N!PollServed(k)
                \/ k = 3 /\ N!Interval /\ fetched' # fetched
  \/ Replay /\ k = 1 /\ P!Tick

AllFairness ==
  /\ \A k \in 1 .. 4 : WF_allVars(WeakOf(k))
  /\ \A k \in 1 .. 3 : SF_allVars(StrongOf(k))

AllSpec == AllInit /\ [][AllNext]_allVars /\ AllFairness

\* The variables have the types of their modules.
AllTypeOK == TypeOK /\ A!TypeOK /\ S!TypeOK /\ R!TypeOK /\ T!TypeOK /\ N!TypeOK /\ P!TypeOK

\* As in AuthSession: a signed-in tab finds its own session again after a reload.
KeptOnReload == A!KeptOnReload

\* What is on the screen is there and may be: something of the open document
\* (ReadingPane), an event of the replay and a summary that counts its marks (ReplayPage), a
\* developer view only in developer mode or when the palette was asked for it (ClientShell).
ShownExists == PreviewTells /\ P!PositionExists /\ P!StatsAgree /\ S!DevViewsFollowMode

\* Nothing is left pending on the screen for ever: the status of the pipeline selected
\* (ShellRequests), the dot and the warning (TelemetryPolling) come to say what holds at the
\* server; and again and again the chat takes a question (ChatReturns of ReadingPane), no
\* test runs (TestsEnd of ShellRequests), the server's notices are shown (NoticesAppear of
\* NotificationCenter) and no playback runs (PlaybackEnds of ReplayPage): in one formula,
\* as what a behaviour is not of rests.
AllSettle ==
  /\ R!Settles /\ T!Settles
  /\ []<>(ChatRests /\ ~testing /\ (\A n \in Posted : N!Appears(n)) /\ ~playing)
=============================================================================
