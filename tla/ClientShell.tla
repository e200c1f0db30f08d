----------------------------- MODULE ClientShell -----------------------------
(***************************************************************************)
(* The frame of the signed-in client: which view is shown and what offers  *)
(* the others - sidebar, command palette, global search, the pages         *)
(* themselves (App.js, layout/AppShell.jsx, ui/CommandPalette.jsx).        *)
(*                                                                         *)
(* Whatever text is typed, the palette and the search may list any of      *)
(* their entries; the choice is left open.                                 *)
(***************************************************************************)
EXTENDS Integers, FiniteSets

CONSTANT MaxOpen    \* bound: overlays open at a time

ShellAssumption == MaxOpen \in Nat

Primary  == {"workspace", "history", "documents", "chat", "pipelines", "benchmarks", "settings"}
DevTools == {"artifacts", "retrieval", "infrastructure"}
View     == Primary \cup DevTools \cup {"upload"}
Overlay  == {"menu", "drawer", "search", "palette"}

VARIABLES
  view,       \* activeView
  devMode,    \* and its copy in localStorage: always written together
  devTools,   \* devToolsOpen
  collapsed,  \* sidebarCollapsed, with its copy
  panel,      \* devPanelOpen, with its copy
  mobile,     \* the window is narrow
  open,       \* sidebarOpen, drawerOpen, searchOpen, commandPaletteOpen
  summoned    \* history: the view was chosen in the palette

vars == <<view, devMode, devTools, collapsed, panel, mobile, open, summoned>>

TypeOK ==
  /\ view \in View
  /\ devMode \in BOOLEAN /\ devTools \in BOOLEAN /\ collapsed \in BOOLEAN
  /\ panel \in BOOLEAN /\ mobile \in BOOLEAN /\ summoned \in BOOLEAN
  /\ open \subseteq Overlay /\ Cardinality(open) <= MaxOpen

Init ==
  /\ view = "workspace" /\ open = {} /\ devTools = FALSE /\ summoned = FALSE
  /\ devMode \in BOOLEAN /\ collapsed \in BOOLEAN /\ panel \in BOOLEAN /\ mobile \in BOOLEAN

----------------------------------------------------------------------------
(* What is on offer.                                                       *)

\* The sidebar: on a narrow window only once its menu is opened.
Sidebar == ~mobile \/ "menu" \in open

DeveloperSection == devMode /\ (devTools \/ collapsed)

SidebarViews ==
  IF ~Sidebar THEN {} ELSE Primary \cup (IF DeveloperSection THEN DevTools ELSE {})

\* commandPaletteActions: every view but "history", whatever the mode.
PaletteViews == View \ {"history"}

\* A document or pipeline found by the search; other hits lead nowhere.
FoundViews == {"documents", "pipelines"}

\* Opening, retrying, deleting or inspecting a document leads to these (pages).
PageViews == {"workspace", "chat", "pipelines"}

\* What the view area renders: nothing at all for "upload" (App.js:155).
Rendered == view \in Primary \cup DevTools

\* Buttons of the top bar and, on a narrow window, of the navbar above it.
TopBar == {"drawer", "search"}
Navbar == IF mobile THEN {"menu"} ELSE {}

----------------------------------------------------------------------------
handleNavigateToView(v, byPalette) ==
  view' = v /\ summoned' = byPalette

handlePrimaryNavigate(v) ==
  /\ v \in SidebarViews
  /\ handleNavigateToView(v, FALSE)
  /\ open' = IF mobile THEN open \ {"menu"} ELSE open
  /\ UNCHANGED <<devMode, devTools, collapsed, panel, mobile>>

PageNavigates(v) ==
  /\ v \in PageViews /\ Rendered
  /\ handleNavigateToView(v, FALSE)
  /\ UNCHANGED <<devMode, devTools, collapsed, panel, mobile, open>>

\* performed by a click or by Enter; the test run of the palette changes no view
Perform(v) ==
  /\ "palette" \in open /\ v \in PaletteViews
  /\ handleNavigateToView(v, TRUE)
  /\ open' = open \ {"palette"}
  /\ UNCHANGED <<devMode, devTools, collapsed, panel, mobile>>

OpenHit(v) ==
  /\ "search" \in open
  /\ open' = open \ {"search"}
  /\ IF v \in FoundViews THEN handleNavigateToView(v, FALSE) ELSE UNCHANGED <<view, summoned>>
  /\ UNCHANGED <<devMode, devTools, collapsed, panel, mobile>>

toggleDevMode ==
  /\ Sidebar
  /\ devMode' = ~devMode
  /\ IF ~devMode' /\ view \notin {"workspace", "settings"} THEN handleNavigateToView("workspace", FALSE)
     ELSE UNCHANGED <<view, summoned>>
  /\ UNCHANGED <<devTools, collapsed, panel, mobile, open>>

toggleDevTools ==
  /\ Sidebar /\ devMode /\ ~collapsed
  /\ devTools' = ~devTools
  /\ UNCHANGED <<view, devMode, collapsed, panel, mobile, open, summoned>>

toggleSidebarCollapse ==
  /\ Sidebar
  /\ collapsed' = ~collapsed
  /\ UNCHANGED <<view, devMode, devTools, panel, mobile, open, summoned>>

\* The top bar's button, and the strip of the panel itself in the workspace.
toggleDevPanel ==
  panel' = ~panel /\ UNCHANGED <<view, devMode, devTools, collapsed, mobile, open, summoned>>

\* Ctrl+K opens and closes the palette wherever the focus is.
Toggle(o) ==
  /\ o \in TopBar \cup Navbar \cup {"palette"} \cup open
  /\ open' = IF o \in open THEN open \ {o} ELSE open \cup {o}
  /\ Cardinality(open') <= MaxOpen
  /\ UNCHANGED <<view, devMode, devTools, collapsed, panel, mobile, summoned>>

Resize ==
  mobile' = ~mobile /\ UNCHANGED <<view, devMode, devTools, collapsed, panel, open, summoned>>

\* The page is loaded afresh: what localStorage keeps is kept.
Reload ==
  /\ view' = "workspace" /\ summoned' = FALSE /\ open' = {} /\ devTools' = FALSE
  /\ UNCHANGED <<devMode, collapsed, panel, mobile>>

Next ==
  \/ \E v \in View :
       handlePrimaryNavigate(v) \/ PageNavigates(v) \/ Perform(v) \/ OpenHit(v)
  \/ \E o \in Overlay : Toggle(o)
  \/ toggleDevMode \/ toggleDevTools \/ toggleSidebarCollapse \/ toggleDevPanel
  \/ Resize \/ Reload

Spec == Init /\ [][Next]_vars

----------------------------------------------------------------------------
\* Outside developer mode a developer view, or the blank one, is shown only if the
\* palette was asked for it: leaving the mode leaves its views, however the sidebar
\* was folded and whichever way the view was reached (toggleDevMode).
DevViewsFollowMode ==
  view \in DevTools \cup {"upload"} => summoned \/ (devMode /\ view \in DevTools)

=============================================================================
