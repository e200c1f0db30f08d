------------------------ MODULE DocumentWorkspaceProofs ------------------------
(* Proofs about the selections of DocumentWorkspace: for any number of         *)
(* documents, polls, uploads and failures, the selected document, the selected *)
(* pipeline, the polled one and the saved one agree whenever no effect is due. *)
EXTENDS DocumentWorkspace, WellFoundedInduction, TLAPS

AtHome == view \in Home

\* Effects, interval and requests are of the page, and gone with it.
PageIsAtHome == ~AtHome => due = {} /\ loads = {} /\ polling = None

\* Unless the selection is yet to be derived from or restored, the local storage names it.
Stored ==
  AtHome => /\ "derive" \notin due => saved = sel
            /\ "restore" \notin due /\ sel = None => saved = None

Paired == AtHome /\ "derive" \notin due /\ sel # None /\ Known(sel) => selPipe = sel

Watched ==
  AtHome /\ "details" \notin due =>
    polling \in {None, selPipe} /\ (polling # None => dag \notin Terminal)

Usable ==
  view = "chat" /\ "derive" \notin due /\ (\E d \in Doc : files[d] = "completed") =>
    sel # None /\ ~Failing(sel)

IInv == TypeOK /\ PageIsAtHome /\ Stored /\ Paired /\ Watched /\ Usable

----------------------------------------------------------------------------
(* The latest of some documents.                                           *)

LEMMA DocIsNat == Doc \subseteq Nat /\ None \notin Doc
BY WorkspaceAssumption DEF WorkspaceAssumption, Doc, None

LEMMA MaxIsIn == ASSUME NEW S \in SUBSET Doc, S # {} PROVE Max(S) \in S
PROOF
<1> DEFINE T == {MaxDoc - d : d \in S}
           R == OpToRel(<, Nat)
<1>1. MaxDoc \in Nat /\ \A d \in S : d \in Nat /\ MaxDoc - d \in Nat
  BY WorkspaceAssumption DEF WorkspaceAssumption, Doc
<1>2. T \subseteq Nat /\ T # {}
  BY <1>1
<1>3. \A a, b \in Nat : a < b => <<a, b>> \in R
  BY DEF OpToRel
<1>4. IsWellFoundedOn(R, Nat)
  BY NatLessThanWellFounded
<1> HIDE DEF T, R
<1>5. PICK t \in T : \A u \in T : ~ (<<u, t>> \in R)
  BY <1>2, <1>4, WFMin
<1>6. PICK x \in S : t = MaxDoc - x
  BY <1>5 DEF T
<1>7. ASSUME NEW y \in S PROVE x >= y
  <2>1. MaxDoc - y \in T /\ MaxDoc - y \in Nat /\ t \in Nat
    BY <1>1, <1>6 DEF T
  <2>2. ~(MaxDoc - y < t)
    BY <1>3, <1>5, <2>1
  <2> QED
    BY <1>1, <1>6, <2>2
<1> QED
  BY <1>6, <1>7 DEF Max

\* What the chat's auto-select picks, and when it must.
LEMMA AutoPickIsListed ==
  ASSUME TypeOK
  PROVE  /\ AutoPick \in Doc \cup {None}
         /\ view = "chat" /\ (sel = None \/ Failing(sel)) /\ (\E d \in Doc : files[d] = "completed")
              => AutoPick \in Doc /\ files[AutoPick] = "completed"
PROOF
<1> DEFINE ready == {d \in Doc : files[d] = "completed"}
           other == {d \in Doc : files[d] \notin {"absent", "failed"}}
<1>1. ready # {} => Max(ready) \in ready
  BY MaxIsIn
<1>2. other # {} => Max(other) \in other
  BY MaxIsIn
<1> QED
  BY <1>1, <1>2, DocIsNat DEF AutoPick

----------------------------------------------------------------------------
(* The steps.                                                              *)

LEMMA InitHolds == ASSUME Init PROVE IInv
BY WorkspaceAssumption DEF WorkspaceAssumption, IInv, TypeOK, PageIsAtHome, Stored, Paired, Watched, Usable, Init,
     AtHome, Doc, None, Listed, Home, View, Effects, NoDelete, List

LEMMA ReadTyped == ASSUME TypeOK, NEW kind \in {"files", "pipes"}
  PROVE  Read(kind).read \in List /\ Read(kind) \in [of : {"files", "pipes"}, read : List]
BY DEF TypeOK, Read, List, Listed

LEMMA FaultTyped == ASSUME TypeOK, Fault PROVE faults' \in 0 .. MaxFaults
BY WorkspaceAssumption DEF WorkspaceAssumption, TypeOK, Fault

LEMMA KeptFormsTyped ==
  ASSUME NEW us, us \subseteq [doc : Doc \cup {None}, here : BOOLEAN, form : BOOLEAN]
  PROVE  /\ KeptForms(us) \subseteq [doc : Doc \cup {None}, here : BOOLEAN, form : BOOLEAN]
         /\ Orphans(us) \subseteq [doc : Doc \cup {None}, here : BOOLEAN, form : BOOLEAN]
PROOF
<1>1. (UploadOpen') \in BOOLEAN
  BY DEF UploadOpen
<1> QED
  BY <1>1 DEF KeptForms, Orphans

\* The step of the effects.
LEMMA EffectsKeep == ASSUME IInv, RunEffects PROVE IInv'
PROOF
<1>1. TypeOK
  BY DEF IInv
<1>2. /\ AutoPick \in Doc \cup {None}
      /\ view = "chat" /\ (sel = None \/ Failing(sel)) /\ (\E d \in Doc : files[d] = "completed")
           => AutoPick \in Doc /\ files[AutoPick] = "completed"
  BY <1>1, AutoPickIsListed
<1> DEFINE pick == AutoPick
<1>3. /\ sel' = IF "derive" \in due /\ pick # None THEN pick
                ELSE IF "restore" \in due /\ saved # None THEN saved ELSE sel
      /\ view # "chat" \/ ~(sel = None \/ Failing(sel)) => pick = None
  BY DEF RunEffects, Picked, AutoPick
<1> HIDE DEF pick
<1>4. /\ pick \in Doc \cup {None}
      /\ view = "chat" /\ (sel = None \/ Failing(sel)) /\ (\E d \in Doc : files[d] = "completed")
           => pick \in Doc /\ files[pick] = "completed"
  BY <1>2 DEF pick
<1>5. /\ due # {} /\ Derive
      /\ IF "details" \in due THEN PollDetails ELSE UNCHANGED <<polling, loads>>
      /\ due' = (IF sel' # sel THEN {"derive"} ELSE {}) \cup (IF selPipe' # selPipe THEN {"details"} ELSE {})
      /\ UNCHANGED <<server, lists, files, pipes, view, dag, dialog, detail, deleting, faults>>
      /\ uploads' = KeptForms(uploads)
  BY DEF RunEffects
<1>6. {sel, selPipe, saved, polling, dialog, detail} \subseteq Doc \cup {None} /\ due \subseteq Effects
  BY <1>1 DEF TypeOK
<1>7. AtHome /\ AtHome'
  BY <1>5 DEF IInv, PageIsAtHome, AtHome
<1>8. TypeOK'
  <2>1. {sel', selPipe', saved', polling'} \subseteq Doc \cup {None} /\ due' \subseteq Effects
    BY <1>3, <1>4, <1>5, <1>6 DEF Derive, Aim, Target, PollDetails, Effects
  <2>2. ws' \in {"EMPTY", "PROCESSING", "READY"}
    BY <1>1, <1>5 DEF TypeOK, Derive, StateOf
  <2>3. loads' \subseteq [of : Doc, was : Listed \cup {"new", "deleted"}]
    BY <1>1, <1>5 DEF TypeOK, PollDetails, Sent
  <2>4. uploads' \subseteq [doc : Doc \cup {None}, here : BOOLEAN, form : BOOLEAN]
    BY <1>1, <1>5, KeptFormsTyped DEF TypeOK
  <2> QED
    BY <1>1, <1>5, <2>1, <2>2, <2>3, <2>4 DEF TypeOK
<1>9. Stored'
  BY <1>3, <1>5, <1>6, <1>7 DEF IInv, Stored, Derive
<1>10. Paired'
  <2>1. sel' = sel => (Known(sel)' <=> Known(sel))
    BY <1>5 DEF Known
  <2> QED
    BY <1>3, <1>5, <1>7, <2>1 DEF IInv, Paired, Derive, Aim, Target
<1>11. Watched'
  BY <1>5, <1>7 DEF IInv, Watched, PollDetails
<1>12. Usable'
  <2>1. sel' = sel => (Failing(sel)' <=> Failing(sel))
    BY <1>5 DEF Failing
  <2>2. "derive" \notin due' => sel' = sel
    BY <1>5
  <2> QED
    BY <1>3, <1>4, <1>5, <2>1, <2>2, DocIsNat DEF IInv, Usable, Failing
<1> QED
  BY <1>5, <1>7, <1>8, <1>9, <1>10, <1>11, <1>12 DEF IInv, PageIsAtHome

UploadOf == [doc : Doc \cup {None}, here : BOOLEAN, form : BOOLEAN]

\* A handler that moves the selections and perhaps the view: it keeps the pipeline of a
\* document that stays selected, and clears the storage when it clears the selection.
LEMMA GoKeeps ==
  ASSUME IInv, due = {},
         NEW v \in View, NEW d \in Doc \cup {None}, NEW p \in Doc \cup {None},
         NEW w \in {"EMPTY", "PROCESSING", "READY"}, Go(v, d, p, w),
         UNCHANGED <<server, lists, files, pipes, faults>>, uploads' \subseteq UploadOf,
         saved' = saved \/ (saved' = None /\ d = None /\ v # view), v = view => d = sel \/ d # None,
         v = view /\ d = sel /\ d # None /\ Known(d) => p = d \/ p = selPipe
  PROVE  IInv'
PROOF
<1>1. TypeOK
  BY DEF IInv
<1>2. sel' = d /\ selPipe' = p /\ view' = v
  BY DEF Go
<1>3. saved' \in Doc \cup {None}
  BY <1>1 DEF TypeOK
<1>4. CASE v = view
  <2>1. /\ ws' = w /\ UNCHANGED <<dag, polling, loads, dialog, detail, deleting>>
        /\ due' = IF v \notin Home THEN {} ELSE
                    (IF d # sel THEN {"derive"} ELSE {}) \cup (IF p # selPipe THEN {"details"} ELSE {})
    BY <1>4 DEF Go
  <2>2. TypeOK'
    BY <1>1, <1>2, <1>3, <2>1 DEF TypeOK, Effects, UploadOf
  <2>3. Stored' /\ PageIsAtHome'
    BY <1>2, <1>4, <2>1 DEF IInv, Stored, PageIsAtHome, AtHome, Effects
  <2>4. Paired'
    <3>1. Known(sel)' <=> Known(d)
      BY <1>2 DEF Known
    <3> QED
      BY <1>2, <1>4, <2>1, <3>1 DEF IInv, Paired, AtHome
  <2>5. Watched'
    BY <1>2, <1>4, <2>1 DEF IInv, Watched, AtHome
  <2>6. Usable'
    BY <1>2, <1>4, <2>1 DEF IInv, Usable, Failing, Home
  <2> QED
    BY <2>2, <2>3, <2>4, <2>5, <2>6 DEF IInv
<1>5. CASE v # view
  <2>1. Leave /\ due' = IF v \in Home THEN Effects ELSE {}
    BY <1>5 DEF Go
  <2>2. TypeOK'
    BY <1>1, <1>2, <1>3, <2>1 DEF TypeOK, Leave, NoDelete, UploadOf
  <2>3. Stored' /\ PageIsAtHome' /\ Paired' /\ Watched' /\ Usable'
    BY <1>2, <2>1 DEF Stored, PageIsAtHome, Paired, Watched, Usable, AtHome, Effects, Home, Leave
  <2> QED
    BY <2>2, <2>3 DEF IInv
<1> QED
  BY <1>4, <1>5

LEMMA KeptUploadsTyped ==
  ASSUME TypeOK, NEW v PROVE KeptUploads(v) \subseteq UploadOf
BY KeptFormsTyped DEF KeptUploads, TypeOK, UploadOf

LEMMA ChooseKeeps ==
  ASSUME IInv, NEW v \in View, NEW d \in Doc \cup {None}, NEW p \in Doc \cup {None}, Choose(v, d, p),
         v = view => d = sel \/ d # None,
         v = view /\ d = sel /\ d # None /\ Known(d) => p = d \/ p = selPipe
  PROVE  IInv'
PROOF
<1>1. ws \in {"EMPTY", "PROCESSING", "READY"} /\ TypeOK
  BY DEF IInv, TypeOK
<1>2. /\ due = {} /\ Go(v, d, p, ws) /\ uploads' = KeptUploads(v)
      /\ UNCHANGED <<server, lists, files, pipes, saved, faults>>
  BY DEF Choose, Calm
<1>3. uploads' \subseteq UploadOf
  BY <1>1, <1>2, KeptUploadsTyped
<1> QED
  BY <1>1, <1>2, <1>3, GoKeeps

\* A step that leaves the selections, the storage, the view and the lists alone, and
\* with them the pipeline watched.
LEMMA AsideKeeps ==
  ASSUME IInv, TypeOK', UNCHANGED <<files, pipes, sel, selPipe, saved, view, dag, polling, due>>,
         loads' \subseteq loads \/ AtHome
  PROVE  IInv'
BY DEF IInv, PageIsAtHome, Stored, Paired, Watched, Usable, AtHome, Known, Failing

LEMMA ChoosingKeeps ==
  ASSUME IInv, NEW d \in Doc,
         handleSelectDocument(d) \/ handleOpenChat(d) \/ handleInspectPipeline(d) \/ handleChatDocument
  PROVE  IInv'
PROOF
<1>1. sel \in Doc \cup {None} /\ selPipe \in Doc \cup {None} /\ detail \in Doc \cup {None} /\ view \in View
  BY DEF IInv, TypeOK
<1>2. Aim(d) \in Doc \cup {None} /\ (Known(d) => Aim(d) = d)
  BY <1>1, DocIsNat DEF Aim, Target
<1>3. {"chat", "other", "library"} \subseteq View /\ d # None
  BY DocIsNat DEF View, Home
<1>4. CASE handleSelectDocument(d)
  BY <1>1, <1>2, <1>3, <1>4, ChooseKeeps DEF handleSelectDocument
<1>5. CASE handleOpenChat(d)
  BY <1>1, <1>2, <1>3, <1>5, ChooseKeeps DEF handleOpenChat
<1>6. CASE handleInspectPipeline(d)
  BY <1>1, <1>2, <1>3, <1>6, ChooseKeeps DEF handleInspectPipeline
<1>7. CASE handleChatDocument
  BY <1>1, <1>3, <1>7, ChooseKeeps DEF handleChatDocument
<1> QED
  BY <1>4, <1>5, <1>6, <1>7

LEMMA UserKeeps == ASSUME IInv, User PROVE IInv'
PROOF
<1>1. TypeOK /\ None \notin Doc
  BY DocIsNat DEF IInv
<1>2. CASE \E d \in Doc : handleSelectDocument(d) \/ handleOpenChat(d) \/ handleInspectPipeline(d)
  BY <1>2, ChoosingKeeps
<1>3. CASE \E d \in Doc : HistoryDelete(d) \/ LibraryUpload(d)
  <2>1. /\ server' \in [Doc -> Listed \cup {"new", "deleted"}]
        /\ lists' \subseteq [of : {"files", "pipes"}, read : List]
    <3>1. PICK d \in Doc : HistoryDelete(d) \/ LibraryUpload(d)
      BY <1>3
    <3>2. server' \in [Doc -> Listed \cup {"new", "deleted"}]
      BY <1>1, <3>1 DEF TypeOK, HistoryDelete, LibraryUpload, Listed
    <3>3. Read("files").read \in List
      BY <1>1, ReadTyped
    <3>4. \A s \in {"running", "absent"} :
            [of |-> "files", read |-> [Read("files").read EXCEPT ![d] = s]] \in [of : {"files", "pipes"}, read : List]
      BY <3>1, <3>3 DEF List, Listed
    <3> QED
      BY <1>1, <3>1, <3>2, <3>4 DEF TypeOK, HistoryDelete, LibraryUpload
  <2>2. UNCHANGED <<contexts, page, saved, deleting, uploads, faults>>
    BY <1>3 DEF HistoryDelete, LibraryUpload
  <2>3. TypeOK'
    BY <1>1, <2>1, <2>2 DEF TypeOK, contexts, page
  <2> QED
    BY <2>2, <2>3, AsideKeeps DEF contexts, page
<1>4. CASE \E d \in Doc : ShowDetails(d)
  <2>1. TypeOK'
    BY <1>1, <1>4 DEF TypeOK, ShowDetails, contexts
  <2> QED
    BY <1>4, <2>1, AsideKeeps DEF ShowDetails, contexts
<1>5. CASE \E v \in View : Navigate(v)
  <2>1. PICK v \in View : Navigate(v)
    BY <1>5
  <2>2. /\ due = {} /\ v # view /\ Go(v, sel, selPipe, ws) /\ uploads' = KeptUploads(v)
        /\ UNCHANGED <<server, lists, files, pipes, saved, faults>>
    BY <2>1 DEF Navigate, Calm
  <2>3. sel \in Doc \cup {None} /\ selPipe \in Doc \cup {None} /\ ws \in {"EMPTY", "PROCESSING", "READY"}
    BY <1>1 DEF TypeOK
  <2>4. uploads' \subseteq UploadOf
    BY <1>1, <2>2, KeptUploadsTyped
  <2> QED
    BY <2>2, <2>3, <2>4, GoKeeps
<1>6. CASE handleChatDocument
  BY <1>1, <1>6, ChoosingKeeps DEF handleChatDocument, TypeOK
<1>7. CASE Reload
  <2>1. TypeOK'
    BY <1>1, <1>7 DEF TypeOK, Reload, List, View, Home, NoDelete
  <2> QED
    BY <1>7, <2>1 DEF Reload, IInv, PageIsAtHome, Stored, Paired, Watched, Usable, AtHome, Home, Effects
<1>8. CASE RetryTask
  <2>1. TypeOK'
    <3>1. faults' \in 0 .. MaxFaults
      BY <1>1, <1>8, FaultTyped DEF RetryTask
    <3> QED
      BY <1>1, <1>8, <3>1 DEF TypeOK, RetryTask, contexts, Effects, Listed
  <2>2. Stored' /\ Paired' /\ Usable' /\ Watched' /\ PageIsAtHome'
    BY <1>8 DEF RetryTask, Calm, contexts, IInv, Stored, Paired, Usable, Watched, PageIsAtHome, AtHome, Known, Failing
  <2> QED
    BY <2>1, <2>2 DEF IInv
<1>9. CASE handleUploadStart
  <2>1. TypeOK'
    <3>1. uploads' \subseteq UploadOf
      <4>1. [doc |-> None, here |-> TRUE, form |-> TRUE] \in UploadOf
        BY DEF UploadOf
      <4>2. uploads \subseteq UploadOf
        BY <1>1 DEF TypeOK, UploadOf
      <4> QED
        BY <1>9, <4>1, <4>2 DEF handleUploadStart
    <3> QED
      BY <1>1, <1>9, <3>1 DEF TypeOK, handleUploadStart, contexts, page, UploadOf
  <2> QED
    BY <1>9, <2>1, AsideKeeps DEF handleUploadStart, contexts, page
<1>10. CASE handleReupload
  <2>1. /\ due = {} /\ "workspace" # view /\ Go("workspace", None, None, "EMPTY") /\ uploads' = Orphans(uploads)
        /\ saved' = None /\ UNCHANGED <<server, lists, files, pipes, faults>>
    BY <1>10 DEF handleReupload, Calm
  <2>2. uploads' \subseteq UploadOf
    BY <1>1, <2>1, KeptFormsTyped DEF TypeOK, UploadOf
  <2>3. "workspace" \in View
    BY DEF View, Home
  <2> QED
    BY <2>1, <2>2, <2>3, GoKeeps
<1>11. CASE onRequestDeleteDocument \/ CancelDelete
  <2>1. TypeOK'
    BY <1>1, <1>11 DEF TypeOK, onRequestDeleteDocument, CancelDelete, contexts
  <2> QED
    BY <1>11, <2>1, AsideKeeps DEF onRequestDeleteDocument, CancelDelete, contexts
<1>12. CASE handleConfirmWorkspaceDelete
  <2>1. TypeOK'
    BY <1>1, <1>12 DEF TypeOK, handleConfirmWorkspaceDelete, contexts, page
  <2> QED
    BY <1>12, <2>1, AsideKeeps DEF handleConfirmWorkspaceDelete, contexts, page
<1> QED
  BY <1>2, <1>3, <1>4, <1>5, <1>6, <1>7, <1>8, <1>9, <1>10, <1>11, <1>12 DEF User

LEMMA PollKeeps == ASSUME IInv, Poll PROVE IInv'
PROOF
<1>1. TypeOK
  BY DEF IInv
<1>2. CASE \E kind \in {"files", "pipes"} : PollList(kind)
  <2>1. TypeOK'
    BY <1>1, <1>2, ReadTyped DEF TypeOK, PollList, contexts, page
  <2> QED
    BY <1>2, <2>1, AsideKeeps DEF PollList, contexts, page
<1>3. CASE \E l \in lists : ListAnswer(l)
  <2>1. PICK l \in lists : ListAnswer(l)
    BY <1>3
  <2>2. l.read \in List /\ due = {}
    BY <1>1, <2>1 DEF TypeOK, ListAnswer, Calm
  <2>3. /\ lists' = lists \ {l}
        /\ files' \in {files, l.read} /\ pipes' \in {pipes, l.read}
        /\ due' = IF view \in Home /\ <<files', pipes'>> # <<files, pipes>> THEN {"derive"} ELSE {}
        /\ UNCHANGED <<server, sel, selPipe, view, ws, dag, polling, loads, dialog, detail, saved, deleting, uploads, faults>>
    BY <2>1 DEF ListAnswer
  <2>4. TypeOK'
    BY <1>1, <2>2, <2>3 DEF TypeOK, Effects
  <2>5. AtHome /\ "derive" \notin due' => files' = files /\ pipes' = pipes
    BY <2>3 DEF AtHome
  <2>6. Stored' /\ Watched' /\ PageIsAtHome'
    BY <2>2, <2>3 DEF IInv, Stored, Watched, PageIsAtHome, AtHome
  <2>7. Paired' /\ Usable'
    BY <2>2, <2>3, <2>5 DEF IInv, Paired, Usable, AtHome, Home, Known, Failing
  <2> QED
    BY <2>4, <2>6, <2>7 DEF IInv
<1>4. CASE \E l \in lists : ListFails(l)
  <2>1. TypeOK'
    <3>1. faults' \in 0 .. MaxFaults
      BY <1>1, <1>4, FaultTyped DEF ListFails
    <3> QED
      BY <1>1, <1>4, <3>1 DEF TypeOK, ListFails, contexts, page
  <2> QED
    BY <1>4, <2>1, AsideKeeps DEF ListFails, contexts, page
<1>5. CASE DetailsTick
  <2>1. polling \in Doc /\ server[polling] \in Listed \cup {"new", "deleted"}
    BY <1>1, <1>5 DEF TypeOK, DetailsTick
  <2>2. TypeOK'
    BY <1>1, <1>5, <2>1 DEF TypeOK, DetailsTick, Sent, contexts
  <2>3. AtHome
    BY <1>5 DEF DetailsTick, IInv, PageIsAtHome
  <2> QED
    BY <1>5, <2>2, <2>3, AsideKeeps DEF DetailsTick, contexts
<1>6. CASE \E l \in loads : DetailsAnswer(l)
  <2>1. PICK l \in loads, s \in Listed :
          /\ due = {} /\ loads' = loads \ {l} /\ dag' = s /\ ws' = StateOf(s)
          /\ due' = IF dag # s THEN {"details"} ELSE {}
          /\ UNCHANGED <<server, lists, contexts, view, polling, dialog, detail, saved, deleting, faults>>
          /\ uploads' = KeptForms(uploads)
    BY <1>6 DEF DetailsAnswer
  <2>2. ws' \in {"EMPTY", "PROCESSING", "READY"} /\ uploads' \subseteq UploadOf
    BY <1>1, <2>1, KeptFormsTyped DEF TypeOK, StateOf, UploadOf
  <2>3. TypeOK'
    BY <1>1, <2>1, <2>2 DEF TypeOK, contexts, Effects, UploadOf
  <2>5. Stored' /\ Paired' /\ Usable' /\ Watched'
    BY <2>1 DEF contexts, IInv, Stored, Paired, Usable, Watched, AtHome, Known, Failing
  <2> QED
    BY <2>1, <2>3, <2>5 DEF IInv, PageIsAtHome, AtHome
<1>7. CASE \E l \in loads : DetailsFails(l)
  <2>1. TypeOK'
    <3>1. faults' \in 0 .. MaxFaults
      BY <1>1, <1>7, FaultTyped DEF DetailsFails, TypeOK
    <3> QED
      BY <1>1, <1>7, <3>1 DEF TypeOK, DetailsFails, contexts
  <2> QED
    BY <1>7, <2>1, AsideKeeps DEF DetailsFails, contexts
<1> QED
  BY <1>2, <1>3, <1>4, <1>5, <1>6, <1>7 DEF Poll

LEMMA UploadKeeps == ASSUME IInv, NEW u \in uploads, UploadStored(u) \/ UploadFails(u) \/ handleUploadComplete(u) PROVE IInv'
PROOF
<1>1. TypeOK /\ None \notin Doc
  BY DocIsNat DEF IInv
<1>2. CASE UploadStored(u)
  <2>1. PICK d \in Doc :
          /\ server' = [server EXCEPT ![d] = "running"]
          /\ uploads' = (uploads \ {u}) \cup {[u EXCEPT !.doc = d]}
          /\ UNCHANGED <<lists, contexts, page, saved, deleting, faults>>
    BY <1>2 DEF UploadStored
  <2>2. uploads' \subseteq UploadOf
    BY <1>1, <2>1 DEF TypeOK, UploadOf
  <2>3. TypeOK'
    BY <1>1, <2>1, <2>2 DEF TypeOK, Listed, contexts, page, UploadOf
  <2> QED
    BY <2>1, <2>3, AsideKeeps DEF contexts, page
<1>3. CASE UploadFails(u)
  <2>1. faults' \in 0 .. MaxFaults
    BY <1>1, <1>3, FaultTyped DEF UploadFails
  <2>2. TypeOK'
    BY <1>1, <1>3, <2>1 DEF TypeOK, UploadFails, contexts, page
  <2> QED
    BY <1>3, <2>2, AsideKeeps DEF UploadFails, contexts, page
<1>4. CASE handleUploadComplete(u)
  <2> DEFINE w == IF u.here THEN "PROCESSING" ELSE ws
  <2>1. /\ u.doc # None /\ due = {} /\ Go("chat", u.doc, selPipe, w)
        /\ uploads' = IF view = "chat" THEN KeptForms(uploads \ {u}) ELSE Orphans(uploads \ {u})
        /\ UNCHANGED <<server, lists, files, pipes, saved, faults>>
    BY <1>4 DEF handleUploadComplete, Calm
  <2>2. /\ w \in {"EMPTY", "PROCESSING", "READY"} /\ selPipe \in Doc \cup {None} /\ u.doc \in Doc
        /\ "chat" \in View
    BY <1>1, <2>1 DEF TypeOK, View, Home
  <2>3. uploads' \subseteq UploadOf
    <3>1. uploads \ {u} \subseteq UploadOf
      BY <1>1 DEF TypeOK, UploadOf
    <3> QED
      BY <2>1, <3>1, KeptFormsTyped DEF UploadOf
  <2> HIDE DEF w
  <2> QED
    BY <2>1, <2>2, <2>3, GoKeeps
<1> QED
  BY <1>2, <1>3, <1>4

LEMMA DeleteKeeps == ASSUME IInv, Delete PROVE IInv'
PROOF
<1>1. TypeOK /\ None \notin Doc
  BY DocIsNat DEF IInv
<1>2. CASE DeleteServed
  <2>1. TypeOK'
    BY <1>1, <1>2 DEF TypeOK, DeleteServed, Listed, contexts, page
  <2> QED
    BY <1>2, <2>1, AsideKeeps DEF DeleteServed, contexts, page
<1>3. CASE DeleteAnswered
  <2>1. /\ due = {} /\ deleting' = NoDelete /\ sel' = None /\ selPipe' = None /\ saved' = None
        /\ IF deleting.here THEN dag' = "none" /\ ws' = "EMPTY" /\ dialog' = None ELSE UNCHANGED <<dag, ws, dialog>>
        /\ due' = IF view \notin Home THEN {} ELSE
             (IF sel # None THEN {"derive"} ELSE {}) \cup (IF selPipe # None \/ dag' # dag THEN {"details"} ELSE {})
        /\ lists' = lists \cup {Read("files")}
        /\ UNCHANGED <<server, files, pipes, view, polling, loads, detail, faults>>
        /\ uploads' = KeptForms(uploads)
    BY <1>3 DEF DeleteAnswered, Calm
  <2>2. uploads' \subseteq UploadOf /\ lists' \subseteq [of : {"files", "pipes"}, read : List]
    BY <1>1, <2>1, KeptFormsTyped, ReadTyped DEF TypeOK, UploadOf
  <2>3. TypeOK'
    BY <1>1, <2>1, <2>2 DEF TypeOK, NoDelete, Effects, UploadOf
  <2>4. Stored' /\ Paired' /\ Watched' /\ PageIsAtHome'
    BY <2>1 DEF IInv, Stored, Paired, Watched, PageIsAtHome, AtHome
  <2>5. Usable'
    BY <2>1 DEF IInv, Usable, Home
  <2> QED
    BY <2>3, <2>4, <2>5 DEF IInv
<1>4. CASE DeleteFails
  <2>1. faults' \in 0 .. MaxFaults
    BY <1>1, <1>4, FaultTyped DEF DeleteFails, TypeOK
  <2>2. TypeOK'
    BY <1>1, <1>4, <2>1 DEF TypeOK, DeleteFails, NoDelete, contexts, page
  <2> QED
    BY <1>4, <2>2, AsideKeeps DEF DeleteFails, contexts, page
<1> QED
  BY <1>2, <1>3, <1>4 DEF Delete

LEMMA IInvNext == ASSUME IInv, [Next]_vars PROVE IInv'
PROOF
<1>1. CASE RunEffects
  BY <1>1, EffectsKeep
<1>2. CASE Poll
  BY <1>2, PollKeeps
<1>3. CASE User
  BY <1>3, UserKeeps
<1>4. CASE Upload
  BY <1>4, UploadKeeps DEF Upload
<1>5. CASE Delete
  BY <1>5, DeleteKeeps
<1>6. CASE \E d \in Doc : Progress(d)
  <2>1. TypeOK'
    BY <1>6 DEF IInv, TypeOK, Progress, Terminal, Listed, contexts, page
  <2> QED
    BY <1>6, <2>1, AsideKeeps DEF Progress, contexts, page
<1>7. CASE UNCHANGED vars
  <2>1. TypeOK'
    BY <1>7 DEF IInv, TypeOK, vars, contexts, page
  <2> QED
    BY <1>7, <2>1, AsideKeeps DEF vars, contexts, page
<1> QED
  BY <1>1, <1>2, <1>3, <1>4, <1>5, <1>6, <1>7 DEF Next

----------------------------------------------------------------------------
THEOREM IInvAlways == Spec => []IInv
PROOF
<1>1. Init => IInv
  BY InitHolds
<1>2. IInv /\ [Next]_vars => IInv'
  BY IInvNext
<1> QED
  BY <1>1, <1>2, PTL DEF Spec

\* Whenever no effect of the mounted page is due, the pipeline selected is the one of the
\* selected document and the one polled, for any number of documents and requests.
THEOREM SelectionsAgreeAlways == Spec => []SelectionsAgree
PROOF
<1>1. IInv => SelectionsAgree
  BY DEF IInv, SelectionsAgree, Paired, Watched, Mounted, AtHome
<1> QED
  BY <1>1, IInvAlways, PTL

\* The chat is never left on a failed document, or on none, while a processed one is listed.
THEOREM ChatIsUsableAlways == Spec => []ChatIsUsable
PROOF
<1>1. IInv => ChatIsUsable
  BY DEF IInv, ChatIsUsable, Usable, Mounted
<1> QED
  BY <1>1, IInvAlways, PTL

\* What a reload would restore is what is selected, whatever was uploaded, deleted and
\* selected before.
THEOREM ReloadRestoresAlways == Spec => []ReloadRestores
PROOF
<1>1. IInv => ReloadRestores
  BY DEF IInv, ReloadRestores, Stored, Mounted, AtHome
<1> QED
  BY <1>1, IInvAlways, PTL
=============================================================================
