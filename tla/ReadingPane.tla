----------------------------- MODULE ReadingPane -----------------------------
(***************************************************************************)
(* The reader of a processed document: its preview on the left, the chat   *)
(* with its streamed answers on the right (pages/WorkspaceHome.jsx,        *)
(* components/workspace/chat/ReadyWorkspace.jsx).                          *)
(*                                                                         *)
(* Which document is open is decided in DocumentWorkspace; here it changes *)
(* at will.  Zoom, fit and the width of the split are layout and left out, *)
(* and of a document only its kind and its number of pages is kept.        *)
(***************************************************************************)
EXTENDS Integers, FiniteSets, Sequences, SequencesExt

CONSTANTS
  Doc,
  Kind,       \* what pdf.js makes of each document: "pdf", "text" or "blank"
  Pages,      \* the pages it has
  Recorded,   \* the pages its record or its metadata says it has, 0 where they say nothing
  MaxLoads,   \* bound: previews in flight
  MaxAsk,     \* bound: questions asked
  MaxFaults,  \* bound: requests that fail
  None

ASSUME ReadingAssumption ==
  /\ None \notin Doc
  /\ Kind \in [Doc -> {"pdf", "text", "blank"}]
  /\ Pages \in [Doc -> Nat \ {0}] /\ Recorded \in [Doc -> Nat]
  /\ MaxLoads \in Nat \ {0} /\ MaxAsk \in Nat /\ MaxFaults \in Nat

VARIABLES
  open,        \* selectedDocumentId, when the workspace is READY
  preview,     \* pdfDoc, pdfTextContent (whose they are), pdfError, pdfLoading
  page,        \* activePdfPage
  loads,       \* handleLoadPdf calls awaiting their first or second fetch
  thread,      \* the replies of chatThread, each with the number of its question
  stage,       \* currentQueryStage; vector, fusion and llm are "answering"
  posts,       \* questions whose POST is in flight
  streams,     \* questions whose event source is open
  ref,         \* eventSourceRef
  asked,       \* questions asked so far
  explaining,  \* questions whose answer details are being fetched
  details,     \* activeAnswerDetails: of which question
  faults

viewer == <<open, preview, page, loads>>
chat   == <<thread, stage, posts, streams, ref, asked>>
answer == <<explaining, details>>
vars   == <<viewer, chat, answer, faults>>

Ask     == 1 .. MaxAsk
Blank   == [pdf |-> None, text |-> None, error |-> FALSE, loading |-> FALSE]
Stages  == {"none", "intent", "embedding", "answering", "completed"}
Reply   == [ask : Ask, of : Doc, says : {"processing", "part", "error"},
            stopped : BOOLEAN, streaming : BOOLEAN]
Load    == [of : Doc, fetch : {1, 2}, n : 1 .. MaxLoads]

TypeOK ==
  /\ open \in Doc \cup {None}
  /\ preview \in [pdf : Doc \cup {None}, text : Doc \cup {None}, error : BOOLEAN, loading : BOOLEAN]
  /\ page \in Nat \ {0}
  /\ loads \subseteq Load
  /\ thread \in Seq(Reply)
  /\ stage \in Stages
  /\ posts \subseteq Ask /\ streams \subseteq Ask /\ ref \in Ask \cup {0}
  /\ asked \in 0 .. MaxAsk
  /\ explaining \subseteq Ask /\ details \in Ask \cup {0}
  /\ faults \in 0 .. MaxFaults

Init ==
  /\ open = None /\ preview = Blank /\ page = 1 /\ loads = {}
  /\ thread = <<>> /\ stage = "none" /\ posts = {} /\ streams = {} /\ ref = 0 /\ asked = 0
  /\ explaining = {} /\ details = 0
  /\ faults = 0

Fault == faults < MaxFaults /\ faults' = faults + 1

----------------------------------------------------------------------------
(* What is rendered.                                                       *)

\* The canvas area: the first of these that there is.
Canvas ==
  IF preview.pdf # None THEN "pdf"
  ELSE IF preview.text # None THEN "text"
  ELSE IF preview.loading THEN "loading"
  ELSE IF preview.error THEN "error" ELSE "none"

\* The page count of the reader, which is not told the one of the preview.
PageCount == IF Recorded[open] # 0 THEN Recorded[open] ELSE 1

\* Faulty variant: neither button is ever disabled.
PageButtonsAlways == {"prev", "next"}

\* The enabled ones of the two buttons below the canvas.
PageButtons == (IF page > 1 THEN {"prev"} ELSE {}) \cup (IF page < PageCount THEN {"next"} ELSE {})

Busy == stage \notin {"none", "completed"}

\* The input bar: a question is sent or the answer stopped.
InputBar == IF Busy THEN {"stop"} ELSE {"send"}

\* The suggested questions, as long as the thread has only its greeting.
Suggested == IF thread = <<>> /\ ~Busy THEN {"send"} ELSE {}

\* The replies with a citation chip in their text: they have got some of it.
Cited == {m \in Range(thread) : m.says = "part"}

\* The replies that can be copied: those that have ended.
Copyable == {m \in Range(thread) : ~m.streaming}

----------------------------------------------------------------------------
(* The preview.                                                            *)

\* handleLoadPdf, up to its first await: nothing is called back, and the document
\* shown is only removed when none is open.
LoadPdf(d) ==
  IF d = None THEN preview' = [Blank EXCEPT !.loading = preview.loading] /\ UNCHANGED loads
  ELSE /\ preview' = [preview EXCEPT !.text = None, !.error = FALSE, !.loading = TRUE]
       /\ \E n \in 1 .. MaxLoads :
            /\ ~\E l \in loads : l.n = n
            /\ loads' = loads \cup {[of |-> d, fetch |-> 1, n |-> n]}

\* Another document is selected, or the workspace becomes or ceases to be READY.
Open(d) ==
  /\ d # open /\ open' = d
  /\ LoadPdf(d)
  /\ UNCHANGED <<page, chat, answer, faults>>

\* "Retry Preview".
RetryPreview ==
  /\ open # None /\ Canvas = "error"
  /\ LoadPdf(open)
  /\ UNCHANGED <<open, page, chat, answer, faults>>

\* pdf.js has the document: it is shown, whichever one is open by now.
PdfLoaded(l) ==
  /\ l \in loads /\ l.fetch = 1 /\ Kind[l.of] = "pdf"
  /\ loads' = loads \ {l}
  /\ preview' = [preview EXCEPT !.pdf = l.of, !.loading = FALSE]
  /\ page' = 1
  /\ UNCHANGED <<open, chat, answer, faults>>

\* The fetch fails, or pdf.js finds no document: the content is fetched again, for a
\* preview as text.
PdfRejected(l) ==
  /\ l \in loads /\ l.fetch = 1
  /\ IF Kind[l.of] = "pdf" THEN Fault ELSE UNCHANGED faults
  /\ loads' = (loads \ {l}) \cup {[l EXCEPT !.fetch = 2]}
  /\ UNCHANGED <<open, preview, page, chat, answer>>

TextFetched(l) ==
  /\ l \in loads /\ l.fetch = 2
  /\ loads' = loads \ {l}
  /\ preview' = IF Kind[l.of] = "text" THEN [preview EXCEPT !.text = l.of, !.loading = FALSE]
                ELSE [preview EXCEPT !.error = TRUE, !.loading = FALSE]
  /\ UNCHANGED <<open, page, chat, answer, faults>>

TextFails(l) ==
  /\ l \in loads /\ l.fetch = 2 /\ Fault
  /\ loads' = loads \ {l}
  /\ preview' = [preview EXCEPT !.error = TRUE, !.loading = FALSE]
  /\ UNCHANGED <<open, page, chat, answer>>

TurnPage(button) ==
  /\ open # None /\ button \in PageButtons
  /\ page' = IF button = "prev" THEN page - 1 ELSE page + 1
  /\ UNCHANGED <<open, preview, loads, chat, answer, faults>>

\* handleCitationClick looks the chunk up in the details of the last explained
\* answer; a chunk it does not find is on page 1.
handleCitationClick(m) ==
  /\ open # None /\ m \in Cited
  /\ page' = IF details = m.ask THEN Pages[m.of] ELSE 1
  /\ UNCHANGED <<open, preview, loads, chat, answer, faults>>

----------------------------------------------------------------------------
(* The chat.                                                               *)

\* The replies to question i as changed has them, the others as they are.
Updated(i, changed) == [k \in DOMAIN thread |-> IF thread[k].ask = i THEN changed[k] ELSE thread[k]]

handleSendQuery ==
  /\ open # None /\ "send" \in InputBar \cup Suggested
  /\ asked < MaxAsk /\ asked' = asked + 1
  /\ thread' = Append(thread, [ask |-> asked', of |-> open, says |-> "processing",
                               stopped |-> FALSE, streaming |-> TRUE])
  /\ stage' = "intent" /\ posts' = posts \cup {asked'}
  /\ UNCHANGED <<viewer, streams, ref, answer, faults>>

\* The POST is answered: the answer's event source is opened, whatever has become of
\* the reply meanwhile.
PostAnswered(i) ==
  /\ i \in posts /\ posts' = posts \ {i}
  /\ stage' = "embedding" /\ streams' = streams \cup {i} /\ ref' = i
  /\ UNCHANGED <<viewer, thread, asked, answer, faults>>

\* The reply makes way for an error message at the end.
PostFails(i) ==
  /\ i \in posts /\ Fault /\ posts' = posts \ {i}
  /\ stage' = "completed"
  /\ \E k \in DOMAIN thread :
       /\ thread[k].ask = i
       /\ thread' = Append(RemoveAt(thread, k),
                           [thread[k] EXCEPT !.says = "error", !.stopped = FALSE, !.streaming = FALSE])
  /\ UNCHANGED <<viewer, streams, ref, asked, answer>>

StageEvent(i) ==
  /\ i \in streams /\ stage' = "answering"
  /\ UNCHANGED <<viewer, thread, posts, streams, ref, asked, answer, faults>>

\* The text so far replaces what the reply says, "[stopped]" too.
TokenEvent(i) ==
  /\ i \in streams
  /\ thread' = Updated(i, [k \in DOMAIN thread |-> [thread[k] EXCEPT !.says = "part", !.stopped = FALSE, !.streaming = TRUE]])
  /\ UNCHANGED <<viewer, stage, posts, streams, ref, asked, answer, faults>>

\* Faulty variant: the event source is forgotten but not closed.
CompletedUnclosed(i) ==
  /\ i \in streams /\ UNCHANGED streams
  /\ ref' = 0 /\ stage' = "completed"
  /\ thread' = Updated(i, [k \in DOMAIN thread |-> [thread[k] EXCEPT !.streaming = FALSE]])
  /\ explaining' = explaining \cup {i}
  /\ UNCHANGED <<viewer, posts, asked, details, faults>>

CompletedEvent(i) ==
  /\ i \in streams /\ streams' = streams \ {i}
  /\ ref' = 0 /\ stage' = "completed"
  /\ thread' = Updated(i, [k \in DOMAIN thread |-> [thread[k] EXCEPT !.streaming = FALSE]])
  /\ explaining' = explaining \cup {i}
  /\ UNCHANGED <<viewer, posts, asked, details, faults>>

\* The connection is lost, or the server reports an error.
ErrorEvent(i) ==
  /\ i \in streams /\ Fault /\ streams' = streams \ {i}
  /\ ref' = 0 /\ stage' = "completed"
  /\ thread' = Updated(i, [k \in DOMAIN thread |-> [thread[k] EXCEPT !.says = "error", !.stopped = FALSE, !.streaming = FALSE]])
  /\ UNCHANGED <<viewer, posts, asked, answer>>

\* Faulty variant: every stream is closed, but only the last question's reply ends.
handleStopLast ==
  /\ open # None /\ "stop" \in InputBar
  /\ streams' = {} /\ ref' = 0 /\ stage' = "completed"
  /\ thread' = Updated(asked, [k \in DOMAIN thread |->
                        IF thread[k].streaming THEN [thread[k] EXCEPT !.streaming = FALSE, !.stopped = TRUE] ELSE thread[k]])
  /\ UNCHANGED <<viewer, posts, asked, answer, faults>>

\* Only the stream that the ref names is closed; every reply is marked.
handleStopGeneration ==
  /\ open # None /\ "stop" \in InputBar
  /\ streams' = streams \ {ref} /\ ref' = 0 /\ stage' = "completed"
  /\ thread' = [k \in DOMAIN thread |-> IF thread[k].streaming
                  THEN [thread[k] EXCEPT !.streaming = FALSE, !.stopped = TRUE] ELSE thread[k]]
  /\ UNCHANGED <<viewer, posts, asked, answer, faults>>

\* fetchAnswerExplain: answers in any order, or an error that is only logged.
Explained(i) ==
  /\ i \in explaining /\ explaining' = explaining \ {i}
  /\ \/ details' = i /\ UNCHANGED faults
     \/ Fault /\ UNCHANGED details
  /\ UNCHANGED <<viewer, chat>>

\* The page is left and entered again.  What was in flight goes on, streams
\* included, for a component that is no longer there.
Remount ==
  /\ open' = None /\ preview' = Blank /\ page' = 1 /\ loads' = {}
  /\ thread' = <<>> /\ stage' = "none" /\ posts' = {} /\ streams' = {} /\ ref' = 0
  /\ explaining' = {} /\ details' = 0
  /\ UNCHANGED <<asked, faults>>

Preview ==
  \/ \E d \in Doc \cup {None} : Open(d)
  \/ RetryPreview
  \/ \E l \in loads : PdfLoaded(l) \/ PdfRejected(l) \/ TextFetched(l) \/ TextFails(l)
  \/ \E b \in {"prev", "next"} : TurnPage(b)
  \/ \E m \in Cited : handleCitationClick(m)

Answer(i) == PostAnswered(i) \/ PostFails(i)
End(i)    == CompletedEvent(i) \/ ErrorEvent(i)

Chat ==
  \/ handleSendQuery \/ handleStopGeneration
  \/ \E i \in Ask : Answer(i) \/ End(i) \/ StageEvent(i) \/ TokenEvent(i) \/ Explained(i)

Next == Preview \/ Chat \/ Remount

Spec == Init /\ [][Next]_vars

\* Requests are answered and streams end.
FairSpec == Spec /\ \A i \in Ask : WF_vars(Answer(i)) /\ WF_vars(End(i))

----------------------------------------------------------------------------
(* Properties.                                                             *)

\* While a document is open the canvas area says something of it: a page, its text,
\* that it is loading or that it failed, in whatever order loads, retries and
\* selections end (handleLoadPdf); "No document preview available" is never the last word.
PreviewTells == open # None => Canvas # "none"

\* No reply is left streaming with nothing to end it: a POST in flight or an open event
\* source stands behind it, through stops, errors and overlapping questions (handleSendQuery).
StreamingHasSource == \A m \in Range(thread) : m.streaming => m.ask \in posts \cup streams

\* A reply that has ended, other than by the stop button, is never changed again, by a
\* late token, a stop or the error of another question (the listeners of handleSendQuery).
AnswersAreFinal ==
  [][\A m \in Copyable : ~m.stopped => m \in Range(thread') \/ thread' = <<>>]_vars

ChatRests == ~Busy /\ \A m \in Range(thread) : ~m.streaming

\* However questions overlap and fail, in the end the input takes a question again and
\* no reply is streaming.
ChatReturns == []<>ChatRests
=============================================================================
