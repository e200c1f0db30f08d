-------------------------- MODULE NotificationCenter --------------------------
(***************************************************************************)
(* The notices of the signed-in client and their copies at the server:     *)
(* polled every 2 s, read, cleared, added by the client itself, and the    *)
(* toasts beside them (contexts/NotificationContext.js and the drawer of   *)
(* layout/AppShell.jsx).                                                   *)
(***************************************************************************)
EXTENDS Naturals, FiniteSets

CONSTANTS
  Posted,      \* notices the server may come to have
  Own,         \* notices the client adds; the server never has them
  MaxPolls     \* bound: polls under way

NoticesAssumption == IsFiniteSet(Posted) /\ IsFiniteSet(Own)

VARIABLES
  server,     \* the server's notices: those it has
  read,       \* those it has as read
  posted,     \* those it ever had
  list,       \* notifications: the client's list
  seen,       \* those of the list shown as read
  unread,     \* unreadCount
  polls,      \* of each poll: "none", "sent", or <<server, read>> when it was answered
  marks,      \* notices being marked as read
  clearing,   \* a clearAll: "none", "sent", "served"
  toasts,     \* activeToasts
  hidden      \* document.visibilityState

vars == <<server, read, posted, list, seen, unread, polls, marks, clearing, toasts, hidden>>

remote == <<server, read, posted>>
shown  == <<list, seen, unread>>

Poll == 1 .. MaxPolls
Free == <<>>
Sent == <<"sent">>

TypeOK ==
  /\ server \subseteq posted /\ posted \subseteq Posted /\ read \subseteq server
  /\ list \subseteq Posted \cup Own /\ seen \subseteq list
  /\ unread \in 0 .. Cardinality(Posted \cup Own)
  /\ polls \in [Poll -> {Free, Sent} \cup ((SUBSET Posted) \X (SUBSET Posted))]
  /\ marks \subseteq Posted \cup Own /\ clearing \in {"none", "sent", "served"}
  /\ toasts \subseteq Own /\ hidden \in BOOLEAN

Init ==
  /\ server = {} /\ read = {} /\ posted = {} /\ list = {} /\ seen = {} /\ unread = 0
  /\ polls = [i \in Poll |-> Free] /\ marks = {} /\ clearing = "none" /\ toasts = {}
  /\ hidden = FALSE

----------------------------------------------------------------------------
(* Polls.                                                                  *)

Post(n) ==
  /\ n \in Posted \ posted
  /\ server' = server \cup {n} /\ posted' = posted \cup {n}
  /\ UNCHANGED <<read, shown, polls, marks, clearing, toasts, hidden>>

\* fetchNotifications: nothing in a hidden window; a poll too many is not begun.
Fetched(ps) ==
  LET free == {i \in Poll : ps[i] = Free}
  IN IF hidden \/ free = {} THEN ps ELSE [ps EXCEPT ![CHOOSE i \in free : \A j \in free : i <= j] = Sent]

Interval ==
  /\ polls' = Fetched(polls)
  /\ UNCHANGED <<remote, shown, marks, clearing, toasts, hidden>>

PollServed(i) ==
  /\ polls[i] = Sent /\ polls' = [polls EXCEPT ![i] = <<server, read>>]
  /\ UNCHANGED <<remote, shown, marks, clearing, toasts, hidden>>

\* The whole list is replaced, whatever has happened to it meanwhile.
PollArrives(i) ==
  /\ polls[i] \notin {Free, Sent}
  /\ list' = polls[i][1] /\ seen' = polls[i][2] /\ unread' = Cardinality(polls[i][1] \ polls[i][2])
  /\ polls' = [polls EXCEPT ![i] = Free]
  /\ UNCHANGED <<remote, marks, clearing, toasts, hidden>>

PollFails(i) ==
  /\ polls[i] = Sent /\ polls' = [polls EXCEPT ![i] = Free]
  /\ UNCHANGED <<remote, shown, marks, clearing, toasts, hidden>>

----------------------------------------------------------------------------
(* The client's own notices.                                               *)

addNotification(n) ==
  /\ n \in Own \ (list \cup toasts)
  /\ list' = list \cup {n} /\ unread' = unread + 1 /\ toasts' = toasts \cup {n}
  /\ UNCHANGED <<remote, seen, polls, marks, clearing, hidden>>

\* Its button, or 4 s.
Dismiss(n) ==
  /\ n \in toasts /\ toasts' = toasts \ {n}
  /\ UNCHANGED <<remote, shown, polls, marks, clearing, hidden>>

----------------------------------------------------------------------------
(* The drawer.                                                             *)

\* A dot on the bell, and one line of the drawer for each notice.
Bell == list \ seen # {}
Drawer == IF list = {} THEN {"No active notifications."} ELSE list

markAsRead(n) ==
  /\ n \in list /\ marks' = marks \cup {n}
  /\ UNCHANGED <<remote, shown, polls, clearing, toasts, hidden>>

\* The server marks what it has; then, unless the request fails, a poll is sent.
Marked(n) ==
  /\ n \in marks /\ marks' = marks \ {n}
  /\ \/ read' = read \cup ({n} \cap server) /\ polls' = Fetched(polls)
     \/ UNCHANGED <<read, polls>>
  /\ UNCHANGED <<server, posted, shown, clearing, toasts, hidden>>

clearAll ==
  /\ clearing = "none" /\ clearing' = "sent"
  /\ UNCHANGED <<remote, shown, polls, marks, toasts, hidden>>

ClearServed ==
  /\ clearing = "sent" /\ clearing' = "served"
  /\ server' = {} /\ read' = {}
  /\ UNCHANGED <<posted, shown, polls, marks, toasts, hidden>>

Cleared ==
  /\ clearing = "served" /\ clearing' = "none"
  /\ list' = {} /\ seen' = {} /\ unread' = 0
  /\ UNCHANGED <<remote, polls, marks, toasts, hidden>>

ClearFails ==
  /\ clearing = "sent" /\ clearing' = "none"
  /\ UNCHANGED <<remote, shown, polls, marks, toasts, hidden>>

Hide ==
  hidden' = ~hidden /\ UNCHANGED <<remote, shown, polls, marks, clearing, toasts>>

Next ==
  \/ \E n \in Posted : Post(n)
  \/ \E n \in Posted \cup Own : addNotification(n) \/ Dismiss(n) \/ markAsRead(n) \/ Marked(n)
  \/ \E i \in Poll : PollServed(i) \/ PollArrives(i) \/ PollFails(i)
  \/ Interval \/ clearAll \/ ClearServed \/ Cleared \/ ClearFails \/ Hide

Spec == Init /\ [][Next]_vars

\* The interval fires, requests are served in the end and answers arrive.
FairSpec ==
  /\ Spec
  /\ SF_vars(Interval /\ polls' # polls)
  /\ \A i \in Poll : SF_vars(PollServed(i)) /\ WF_vars(PollArrives(i))

----------------------------------------------------------------------------
Appears(n) == n \in server => hidden \/ (n \in Drawer /\ (n \in read \/ Bell))

\* A notice the server has is shown sooner or later, with a dot on the bell while it is
\* unread, whatever the client has in its list by then, unless it is cleared or the window is out of view again and again.
NoticesAppear == \A n \in Posted : []<>Appears(n)

=============================================================================
