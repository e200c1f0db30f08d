--------------------------- MODULE DocumentWorkspace ---------------------------
(***************************************************************************)
(* The workspace of the browser client: which document and pipeline are    *)
(* selected, which of the three workspaces (EMPTY, PROCESSING, READY) is   *)
(* shown for them, and the polls, uploads and deletions that race for both *)
(* (pages/WorkspaceHome.jsx, UploadWorkspace.jsx, IngestionHistory.jsx,    *)
(* DocumentsLibrary.jsx, services/pollingManager.js).                      *)
(*                                                                         *)
(* A document and its pipeline share one number and one status.  An effect *)
(* that a commit made due runs before the next answer and the next click.  *)
(* The replay mode, which suspends the details poll, is PipelineConsole's. *)
(***************************************************************************)
EXTENDS Integers, FiniteSets, FiniteSetsExt

CONSTANTS
  MaxDoc,       \* documents are numbered in the order of their uploads
  Existing,     \* those that are processed when the client is opened
  MaxWaiting,   \* bound: list requests, uploads and deletions in flight
  MaxLoads,     \* bound: details requests in flight, but for those of the effects
  MaxFaults,    \* bound: requests that fail, and tasks retried
  DetailsFail,  \* whether a details request may fail
  RecentRows    \* documents that the upload page lists (5)

ASSUME WorkspaceAssumption ==
  /\ MaxDoc \in Nat \ {0} /\ Existing \in 0 .. MaxDoc
  /\ MaxWaiting \in Nat \ {0} /\ MaxLoads \in Nat \ {0} /\ MaxFaults \in Nat /\ DetailsFail \in BOOLEAN
  /\ RecentRows \in Nat

VARIABLES
  server,    \* the status of every document
  files,     \* uploadedFiles, as last answered
  pipes,     \* pipelines, as last answered
  lists,     \* list answers in flight: which list, and what the server read
  view,      \* activeView
  sel,       \* selectedDocumentId
  selPipe,   \* selectedPipelineId
  saved,     \* localStorage: scaleflow_active_doc
  ws,        \* workspaceState
  dag,       \* activeDag: its status; it may be of a pipeline selected earlier
  polling,   \* the pipeline the details interval is set up for
  loads,     \* details requests in flight, and the status when they were sent
  due,       \* effects that a commit made due
  dialog,    \* deleteConfirmDocId
  detail,    \* selectedFileDetail of the library, if it was processed when it was copied
  deleting,  \* the DELETE in flight: has the server done it, is its page mounted
  uploads,   \* uploads in flight: the document, once there is one; whether the page
             \* and the form that started it are mounted
  faults

contexts == <<files, pipes, sel, selPipe>>
page     == <<view, ws, dag, polling, loads, due, dialog, detail>>
vars == <<server, lists, contexts, page, saved, deleting, uploads, faults>>

Doc  == 1 .. MaxDoc
None == 0
Listed   == {"running", "completed", "failed"}
Terminal == {"completed", "failed"}
Home     == {"workspace", "chat"}
View     == Home \cup {"library", "other"}
Effects  == {"restore", "derive", "details"}
NoDelete == [doc |-> None, served |-> FALSE, here |-> FALSE]

List == [Doc -> Listed \cup {"absent"}]

TypeOK ==
  /\ server \in [Doc -> Listed \cup {"new", "deleted"}]
  /\ files \in List /\ pipes \in List
  /\ lists \subseteq [of : {"files", "pipes"}, read : List]
  /\ view \in View
  /\ {sel, selPipe, saved, polling, dialog, detail} \subseteq Doc \cup {None}
  /\ ws \in {"EMPTY", "PROCESSING", "READY"}
  /\ dag \in Listed \cup {"none"}
  /\ loads \subseteq [of : Doc, was : Listed \cup {"new", "deleted"}]
  /\ due \subseteq Effects
  /\ deleting \in [doc : Doc \cup {None}, served : BOOLEAN, here : BOOLEAN]
  /\ uploads \subseteq [doc : Doc \cup {None}, here : BOOLEAN, form : BOOLEAN]
  /\ faults \in 0 .. MaxFaults

Init ==
  /\ server = [d \in Doc |-> IF d <= Existing THEN "completed" ELSE "new"]
  /\ files = [d \in Doc |-> "absent"] /\ pipes = files /\ lists = {}
  /\ view = "workspace" /\ sel = None /\ selPipe = None /\ saved = None
  /\ ws = "EMPTY" /\ dag = "none" /\ polling = None /\ loads = {}
  /\ due = Effects /\ dialog = None /\ detail = None /\ deleting = NoDelete /\ uploads = {}
  /\ faults = 0

----------------------------------------------------------------------------
(* Shared parts.                                                           *)

Fault == faults < MaxFaults /\ faults' = faults + 1

\* Effects have run and, a bound, few details requests are in flight: an effect may
\* add one to them.
Calm == due = {} /\ Cardinality(loads) <= MaxLoads

Waiting == Cardinality(lists) + Cardinality(uploads) + (IF deleting = NoDelete THEN 0 ELSE 1)
Patient == Waiting < MaxWaiting

\* pipelineStatusToWsState.
StateOf(status) == IF status = "completed" THEN "READY" ELSE "PROCESSING"

Known(d) == pipes[d] # "absent" \/ files[d] # "absent"

\* Faulty variant: the pipeline of a document is looked up in the pipelines only.
TargetOfPipelines(d) == IF pipes[d] # "absent" THEN d ELSE None

\* assoc ? assoc.id : doc.pipeline_id
Target(d) == IF Known(d) THEN d ELSE None
Aim(d) == IF Target(d) # None THEN Target(d) ELSE selPipe

EffectiveStatus(d) == IF pipes[d] # "absent" THEN pipes[d] ELSE files[d]

\* The upload page; its form gives way to a progress card while it uploads.
UploadOpen == view = "workspace" \/ (view = "chat" /\ ws = "EMPTY")
FormBusy   == \E u \in uploads : u.form
KeptForms(us) == {[u EXCEPT !.form = @ /\ UploadOpen'] : u \in us}

\* The page is left: its own state and the answers only it waits for are gone.
Leave ==
  /\ ws' = "EMPTY" /\ dag' = "none" /\ polling' = None /\ loads' = {} /\ dialog' = None /\ detail' = None
  /\ deleting' = IF deleting = NoDelete THEN NoDelete ELSE [deleting EXCEPT !.here = FALSE]

\* One handler's commit: view v, document d, pipeline p, workspace w if the page stays.
Go(v, d, p, w) ==
  /\ view' = v /\ sel' = d /\ selPipe' = p
  /\ IF v = view
       THEN /\ ws' = w /\ UNCHANGED <<dag, polling, loads, dialog, detail, deleting>>
            /\ due' = IF v \notin Home THEN {} ELSE
                        (IF d # sel THEN {"derive"} ELSE {}) \cup (IF p # selPipe THEN {"details"} ELSE {})
       ELSE Leave /\ due' = IF v \in Home THEN Effects ELSE {}

Orphans(us) == {[u EXCEPT !.here = FALSE, !.form = FALSE] : u \in us}
KeptUploads(v) == IF v = view THEN KeptForms(uploads) ELSE Orphans(uploads)

----------------------------------------------------------------------------
(* The effects of the page.                                                *)

Failing(d) == d # None /\ files[d] = "failed"

\* Faulty variant: a failed document stays selected.
AutoPickIfNone ==
  LET ready == {d \in Doc : files[d] = "completed"}
  IN IF view # "chat" \/ sel # None \/ ready = {} THEN None ELSE Max(ready)

\* Auto-select: entering the chat with no document, or with a failed one, selects the
\* first processed one of the list, which is sorted last upload first.
AutoPick ==
  LET ready == {d \in Doc : files[d] = "completed"}
      other == {d \in Doc : files[d] \notin {"absent", "failed"}}
  IN IF view # "chat" \/ ~(sel = None \/ Failing(sel)) THEN None
     ELSE IF ready # {} THEN Max(ready)
     ELSE IF other # {} THEN Max(other) ELSE None

\* The selection after the effects that set it: restored, then auto-selected.
Picked ==
  IF "derive" \in due /\ AutoPick # None THEN AutoPick
  ELSE IF "restore" \in due /\ saved # None THEN saved ELSE sel

\* Derive workspace state from selected document + pipeline.
Derive ==
  IF "derive" \in due
    THEN /\ saved'   = IF sel # None THEN sel ELSE saved
         /\ selPipe' = IF sel # None THEN Aim(sel) ELSE selPipe
         /\ ws'      = IF sel = None THEN "EMPTY" ELSE StateOf(EffectiveStatus(sel))
    ELSE UNCHANGED <<saved, selPipe, ws>>

Sent(p) == [of |-> p, was |-> server[p]]

\* Faulty variant: a terminal status skips the request, not only the interval.
PollDetailsUnlessTerminal ==
  IF selPipe = None \/ dag \in Terminal THEN polling' = None /\ UNCHANGED loads
  ELSE polling' = selPipe /\ loads' = loads \cup {Sent(selPipe)}

\* Poll pipeline details: once now, and every 3 s unless the status at hand, which
\* may be the one of another pipeline, is terminal.
PollDetails ==
  IF selPipe = None THEN polling' = None /\ UNCHANGED loads
  ELSE /\ polling' = IF dag \in Terminal THEN None ELSE selPipe
       /\ loads' = loads \cup {Sent(selPipe)}

RunEffects ==
  /\ due # {}
  /\ sel' = Picked
  /\ Derive
  /\ IF "details" \in due THEN PollDetails ELSE UNCHANGED <<polling, loads>>
  /\ due' = (IF sel' # sel THEN {"derive"} ELSE {}) \cup (IF selPipe' # selPipe THEN {"details"} ELSE {})
  /\ UNCHANGED <<server, lists, files, pipes, view, dag, dialog, detail, deleting, faults>>
  /\ uploads' = KeptForms(uploads)

----------------------------------------------------------------------------
(* The polls.                                                              *)

Read(kind) == [of |-> kind, read |-> [d \in Doc |-> IF server[d] \in Listed THEN server[d] ELSE "absent"]]

\* The library is polled by the pages that show it, the pipelines by every page.
\* Requests overlap and answers come in any order.
PollList(kind) ==
  /\ due = {}
  /\ lists' = lists \cup {Read(kind)} /\ lists' # lists /\ Patient
  /\ UNCHANGED <<server, contexts, page, saved, deleting, uploads, faults>>

\* An answer equal to the last one is no change.
ListAnswer(l) ==
  /\ l \in lists /\ Calm /\ lists' = lists \ {l}
  /\ IF l.of = "files" THEN files' = l.read /\ UNCHANGED pipes ELSE pipes' = l.read /\ UNCHANGED files
  /\ due' = IF view \in Home /\ <<files', pipes'>> # <<files, pipes>> THEN {"derive"} ELSE {}
  /\ UNCHANGED <<server, sel, selPipe, view, ws, dag, polling, loads, dialog, detail,
                 saved, deleting, uploads, faults>>

ListFails(l) ==
  /\ l \in lists /\ due = {} /\ Fault /\ lists' = lists \ {l}
  /\ UNCHANGED <<server, contexts, page, saved, deleting, uploads>>

DetailsTick ==
  /\ due = {} /\ polling # None
  /\ loads' = loads \cup {Sent(polling)} /\ loads' # loads /\ Cardinality(loads') <= MaxLoads
  /\ UNCHANGED <<server, lists, contexts, view, ws, dag, polling, due, dialog, detail,
                 saved, deleting, uploads, faults>>

\* An answer is taken for the selected pipeline's, whichever it is of.
DetailsAnswer(l) ==
  /\ l \in loads /\ due = {} /\ loads' = loads \ {l}
  /\ \E s \in {l.was, server[l.of]} \cap Listed :
       /\ dag' = s /\ ws' = StateOf(s)
       /\ due' = IF dag # s THEN {"details"} ELSE {}
  /\ UNCHANGED <<server, lists, contexts, view, polling, dialog, detail, saved, deleting, faults>>
  /\ uploads' = KeptForms(uploads)

\* A deleted pipeline is not found; any request may fail.
DetailsFails(l) ==
  /\ l \in loads /\ due = {} /\ loads' = loads \ {l}
  /\ \/ server[l.of] \notin Listed /\ UNCHANGED faults
     \/ DetailsFail /\ Fault
  /\ UNCHANGED <<server, lists, contexts, view, ws, dag, polling, due, dialog, detail, saved, deleting, uploads>>

----------------------------------------------------------------------------
(* Choosing a document.                                                    *)

Choose(v, d, p) ==
  /\ Calm /\ dialog = None
  /\ Go(v, d, p, ws) /\ uploads' = KeptUploads(v)
  /\ UNCHANGED <<server, lists, files, pipes, saved, faults>>

\* A document of a list: of the reader's processed ones, or of the history's.
Offered(d) ==
  \/ view = "chat" /\ ws = "READY" /\ files[d] = "completed"
  \/ view = "other" /\ files[d] # "absent"

\* handleSelectDocument, handleOpen: a failed document opens the pipeline monitor.
handleSelectDocument(d) ==
  /\ Offered(d)
  /\ Choose(IF Failing(d) THEN "other" ELSE "chat", d, IF view = "other" THEN Aim(d) ELSE selPipe)

\* The recent documents of the upload page: "Open Chat" once they are processed,
\* "Inspect Pipeline" always.
Recent == {d \in Doc : UploadOpen /\ files[d] # "absent"
                       /\ Cardinality({c \in d + 1 .. MaxDoc : files[c] # "absent"}) < RecentRows}
OpenChatEnabled(d) == d \in Recent /\ files[d] = "completed"
InspectEnabled(d)  == d \in Recent

handleOpenChat(d) == OpenChatEnabled(d) /\ Choose("chat", d, Aim(d))

handleInspectPipeline(d) == InspectEnabled(d) /\ Choose("other", d, Aim(d))

\* The library: a click on a row, or the end of an upload, copies the document into
\* the side panel, where only a document processed then can be opened.
ShowDetails(d) ==
  /\ due = {} /\ view = "library" /\ files[d] # "absent"
  /\ detail' = (IF files[d] = "completed" THEN d ELSE None) /\ detail' # detail
  /\ UNCHANGED <<server, lists, contexts, view, ws, dag, polling, loads, due, dialog,
                 saved, deleting, uploads, faults>>

\* "Open In Workspace": the copy, listed or not, knows its pipeline; failed documents
\* do not get here.
handleChatDocument == view = "library" /\ detail # None /\ Choose("chat", detail, detail)

\* The library's own upload: stored, then the library is fetched again.
LibraryUpload(d) ==
  /\ due = {} /\ view = "library" /\ Patient
  /\ server[d] = "new" /\ \A c \in 1 .. d - 1 : server[c] # "new"
  /\ Cardinality({u \in uploads : u.doc = None}) < Cardinality({c \in Doc : server[c] = "new"})
  /\ server' = [server EXCEPT ![d] = "running"]
  /\ lists' = lists \cup {[of |-> "files", read |-> [Read("files").read EXCEPT ![d] = "running"]]}
  /\ UNCHANGED <<contexts, page, saved, deleting, uploads, faults>>

\* The sidebar.
Navigate(v) ==
  /\ Calm /\ dialog = None /\ v # view
  /\ Go(v, sel, selPipe, ws) /\ uploads' = KeptUploads(v)
  /\ UNCHANGED <<server, lists, files, pipes, saved, faults>>

\* The page is loaded again: the local storage is all that is left.
Reload ==
  /\ due = {} /\ <<view, sel>> # <<"workspace", None>>
  /\ files' = [d \in Doc |-> "absent"] /\ pipes' = files' /\ lists' = {}
  /\ view' = "workspace" /\ sel' = None /\ selPipe' = None
  /\ ws' = "EMPTY" /\ dag' = "none" /\ polling' = None /\ loads' = {}
  /\ due' = Effects /\ dialog' = None /\ detail' = None /\ deleting' = NoDelete /\ uploads' = {}
  /\ UNCHANGED <<server, saved, faults>>

----------------------------------------------------------------------------
(* Uploading.                                                              *)

\* A file that the dropzone accepts, a PDF that is not too large; others start nothing.
handleUploadStart ==
  /\ due = {} /\ dialog = None /\ UploadOpen /\ ~FormBusy
  /\ Patient /\ Cardinality({u \in uploads : u.doc = None}) < Cardinality({d \in Doc : server[d] = "new"})
  /\ uploads' = uploads \cup {[doc |-> None, here |-> TRUE, form |-> TRUE]}
  /\ UNCHANGED <<server, lists, contexts, page, saved, deleting, faults>>

\* POST /files/upload creates the document and its pipeline.
UploadStored(u) ==
  /\ u \in uploads /\ u.doc = None
  /\ \E d \in Doc :
       /\ server[d] = "new" /\ \A c \in 1 .. d - 1 : server[c] # "new"
       /\ server' = [server EXCEPT ![d] = "running"]
       /\ uploads' = (uploads \ {u}) \cup {[u EXCEPT !.doc = d]}
  /\ UNCHANGED <<lists, contexts, page, saved, deleting, faults>>

\* The POST, or the GET of the record just created, fails: the form is free again.
UploadFails(u) ==
  /\ u \in uploads /\ Fault
  /\ uploads' = uploads \ {u}
  /\ UNCHANGED <<server, lists, contexts, page, saved, deleting>>

\* handleUploadComplete, by the page the upload was started on, mounted or not.
handleUploadComplete(u) ==
  /\ u \in uploads /\ u.doc # None /\ Calm
  /\ Go("chat", u.doc, selPipe, IF u.here THEN "PROCESSING" ELSE ws)
  /\ uploads' = IF view = "chat" THEN KeptForms(uploads \ {u}) ELSE Orphans(uploads \ {u})
  /\ UNCHANGED <<server, lists, files, pipes, saved, faults>>

\* "Re-upload": back to the upload page with nothing selected.
handleReupload ==
  /\ Calm /\ dialog = None /\ view = "chat" /\ ws \in {"PROCESSING", "READY"}
  /\ Go("workspace", None, None, "EMPTY") /\ uploads' = Orphans(uploads)
  /\ saved' = None
  /\ UNCHANGED <<server, lists, files, pipes, faults>>

----------------------------------------------------------------------------
(* Deleting.                                                               *)

onRequestDeleteDocument ==
  /\ due = {} /\ view = "chat" /\ ws \in {"PROCESSING", "READY"} /\ sel # None /\ dialog = None
  /\ dialog' = sel
  /\ UNCHANGED <<server, lists, contexts, view, ws, dag, polling, loads, due, detail,
                 saved, deleting, uploads, faults>>

\* Closing the dialog does not call the request back.
CancelDelete ==
  /\ due = {} /\ dialog # None /\ dialog' = None
  /\ UNCHANGED <<server, lists, contexts, view, ws, dag, polling, loads, due, detail,
                 saved, deleting, uploads, faults>>

handleConfirmWorkspaceDelete ==
  /\ due = {} /\ dialog # None /\ deleting = NoDelete /\ Patient
  /\ deleting' = [doc |-> dialog, served |-> FALSE, here |-> TRUE]
  /\ UNCHANGED <<server, lists, contexts, page, saved, uploads, faults>>

DeleteServed ==
  /\ deleting.doc # None /\ ~deleting.served /\ server[deleting.doc] \in Listed
  /\ server' = [server EXCEPT ![deleting.doc] = "deleted"]
  /\ deleting' = [deleting EXCEPT !.served = TRUE]
  /\ UNCHANGED <<lists, contexts, page, saved, uploads, faults>>

\* Faulty variant: the local storage still names the document.
DeleteAnsweredKeepingSaved ==
  /\ deleting.served /\ Calm /\ deleting' = NoDelete
  /\ sel' = None /\ selPipe' = None
  /\ IF deleting.here THEN dag' = "none" /\ ws' = "EMPTY" /\ dialog' = None ELSE UNCHANGED <<dag, ws, dialog>>
  /\ due' = IF view \notin Home THEN {} ELSE
       (IF sel # None THEN {"derive"} ELSE {}) \cup (IF selPipe # None \/ dag' # dag THEN {"details"} ELSE {})
  /\ lists' = lists \cup {Read("files")}
  /\ UNCHANGED <<server, files, pipes, view, polling, loads, detail, saved, faults>>
  /\ uploads' = KeptForms(uploads)

\* Nothing is selected any more, whatever was selected meanwhile; the library is
\* fetched again.
DeleteAnswered ==
  /\ deleting.served /\ Calm /\ deleting' = NoDelete
  /\ sel' = None /\ selPipe' = None /\ saved' = None
  /\ IF deleting.here THEN dag' = "none" /\ ws' = "EMPTY" /\ dialog' = None ELSE UNCHANGED <<dag, ws, dialog>>
  /\ due' = IF view \notin Home THEN {} ELSE
       (IF sel # None THEN {"derive"} ELSE {}) \cup (IF selPipe # None \/ dag' # dag THEN {"details"} ELSE {})
  /\ lists' = lists \cup {Read("files")}
  /\ UNCHANGED <<server, files, pipes, view, polling, loads, detail, faults>>
  /\ uploads' = KeptForms(uploads)

\* The dialog stays open.
DeleteFails ==
  /\ deleting.doc # None /\ due = {} /\ deleting' = NoDelete
  /\ \/ Fault
     \/ ~deleting.served /\ server[deleting.doc] \notin Listed /\ UNCHANGED faults
  /\ UNCHANGED <<server, lists, contexts, page, saved, uploads>>

\* The history page deletes a document and fetches the library again; the selection
\* is not its concern.
HistoryDelete(d) ==
  /\ view = "other" /\ files[d] # "absent" /\ server[d] \in Listed /\ Patient
  /\ server' = [server EXCEPT ![d] = "deleted"]
  /\ lists' = lists \cup {[of |-> "files", read |-> [Read("files").read EXCEPT ![d] = "absent"]]}
  /\ UNCHANGED <<contexts, page, saved, deleting, uploads, faults>>

----------------------------------------------------------------------------
\* onRetryTask, of a failed task of the selected pipeline: once it is accepted the
\* refresh trigger has the details polled anew.
RetryTask ==
  /\ Calm /\ dialog = None /\ selPipe # None /\ server[selPipe] = "failed" /\ Fault
  /\ view = "other" \/ (view = "chat" /\ ws = "PROCESSING")
  /\ server' = [server EXCEPT ![selPipe] = "running"]
  /\ due' = IF view \in Home THEN {"details"} ELSE {}
  /\ UNCHANGED <<lists, contexts, view, ws, dag, polling, loads, dialog, detail, saved, deleting, uploads>>

\* The pipeline of d ends.
Progress(d) ==
  /\ server[d] = "running" /\ \E s \in Terminal : server' = [server EXCEPT ![d] = s]
  /\ UNCHANGED <<lists, contexts, page, saved, deleting, uploads, faults>>

Poll ==
  \/ \E kind \in {"files", "pipes"} : PollList(kind)
  \/ \E l \in lists : ListAnswer(l) \/ ListFails(l)
  \/ DetailsTick \/ \E l \in loads : DetailsAnswer(l) \/ DetailsFails(l)
User ==
  \/ \E d \in Doc : handleSelectDocument(d) \/ handleOpenChat(d) \/ handleInspectPipeline(d) \/ HistoryDelete(d)
                     \/ ShowDetails(d) \/ LibraryUpload(d)
  \/ \E v \in View : Navigate(v)
  \/ handleChatDocument
  \/ Reload \/ RetryTask \/ handleUploadStart \/ handleReupload
  \/ onRequestDeleteDocument \/ CancelDelete \/ handleConfirmWorkspaceDelete
Upload == \E u \in uploads : UploadStored(u) \/ UploadFails(u) \/ handleUploadComplete(u)
Delete == DeleteServed \/ DeleteAnswered \/ DeleteFails

Next == RunEffects \/ Poll \/ User \/ Upload \/ Delete \/ \E d \in Doc : Progress(d)

Spec == Init /\ [][Next]_vars

\* Effects run, intervals fire, requests are answered.
Fairness ==
  /\ WF_vars(RunEffects) /\ WF_vars(DetailsTick)
  /\ WF_vars(\E l \in loads : DetailsAnswer(l) \/ DetailsFails(l))
  /\ SF_vars(PollList("pipes")) /\ SF_vars(\E l \in lists : ListAnswer(l))
  /\ SF_vars(Upload \/ Delete)

FairSpec == Spec /\ Fairness

----------------------------------------------------------------------------
(* Properties.                                                             *)

Mounted == view \in Home /\ due = {}

\* However answers, uploads and deletions interleave with the user (the effects of
\* WorkspaceHome), the pipeline selected is the one of the selected document, and only
\* a selected pipeline is polled for.
SelectionsAgree ==
  /\ TypeOK
  /\ Mounted => /\ sel # None /\ Known(sel) => selPipe = sel
                /\ polling \in {None, selPipe}
                /\ polling # None => dag \notin Terminal

\* A chat is never left on a failed document, or on none, while a processed one is
\* listed ("Auto-select latest PROCESSED document").
ChatIsUsable ==
  Mounted /\ view = "chat" /\ (\E d \in Doc : files[d] = "completed") => sel # None /\ ~Failing(sel)

\* A reload at any moment restores what is selected and nothing else: a document that
\* was removed here is not in the local storage ("Restore persisted selection").
ReloadRestores == Mounted => saved = sel

\* Once the pipeline of the selected document stays completed or failed, the workspace is
\* in the end READY or PROCESSING accordingly, and for good, whatever late answers of
\* other pipelines and of other moments come in before; provided no details request fails.
Settles ==
  \A d \in Doc : <>[](view = "chat" /\ sel = d /\ server[d] \in Terminal) => <>[](ws = StateOf(server[d]))
=============================================================================
