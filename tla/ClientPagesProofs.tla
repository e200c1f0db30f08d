--------------------------- MODULE ClientPagesProofs ---------------------------
(* Proofs about MCClientPages, the client around a document and a pipeline, for *)
(* any documents, tabs, pipelines, notices and bounds: the variables keep their *)
(* types, what is shown exists, a session survives a reload, and no reply of    *)
(* the chat is left streaming or changed once it has ended.  Each part is       *)
(* proved about by its own Init and Next; a step of the whole is a step of one  *)
(* part that leaves the others alone.                                           *)
EXTENDS MCClientPages, SequenceTheorems, FiniteSetTheorems, TLAPS

AP == INSTANCE AuthSessionProofs WITH status <- form

----------------------------------------------------------------------------
(* The chat of ReadingPane.                                                *)

ChatTyped ==
  /\ open \in Doc \cup {None} /\ asked \in 0 .. MaxAsk
  /\ thread \in Seq(Reply) /\ posts \subseteq Ask /\ streams \subseteq Ask

\* The number of a question is used once: by one reply, and by one POST or event source.
Numbered ==
  /\ posts \subseteq 1 .. asked /\ streams \subseteq 1 .. asked /\ posts \cap streams = {}
  /\ \A k \in DOMAIN thread : thread[k].ask \in 1 .. asked
  /\ \A j, k \in DOMAIN thread : thread[j].ask = thread[k].ask => j = k

\* A reply that has ended by itself has no POST and no event source that could change it.
EndedIsQuiet ==
  \A k \in DOMAIN thread :
    ~thread[k].streaming /\ ~thread[k].stopped => thread[k].ask \notin posts \cup streams

Backed == \A k \in DOMAIN thread : thread[k].streaming => thread[k].ask \in posts \cup streams

IInv == ChatTyped /\ Numbered /\ EndedIsQuiet /\ Backed

----------------------------------------------------------------------------
LEMMA FunctionIsSequence ==
  ASSUME NEW C, NEW n \in Nat, NEW f \in [1 .. n -> C]
  PROVE  f \in Seq(C) /\ DOMAIN f = 1 .. n
BY SeqDef

\* r is s with its element k moved to the end and made e; from tells where each was.
Moved(s, k, e, r, n) ==
  /\ n = Len(s) /\ Len(r) = n /\ r[n] = e
  /\ \E from \in [1 .. n -> 1 .. n] :
       /\ \A j, l \in 1 .. n : from[j] = from[l] => j = l
       /\ from[n] = k
       /\ \A j \in 1 .. n : j # n => r[j] = s[from[j]]
  /\ \A h \in 1 .. n : h # k => \E j \in 1 .. n : j # n /\ r[j] = s[h]

LEMMA MovedToEnd ==
  ASSUME NEW C, NEW s \in Seq(C), NEW k \in DOMAIN s, NEW e \in C
  PROVE  LET r == Append(RemoveAt(s, k), e) IN r \in Seq(C) /\ Moved(s, k, e, r, Len(s))
PROOF
<1> DEFINE a == SubSeq(s, 1, k - 1)  b == SubSeq(s, k + 1, Len(s))
<1>1. a \in Seq(C) /\ Len(a) = k - 1 /\ \A j \in 1 .. k - 1 : a[j] = s[j]
  OBVIOUS
<1>2. b \in Seq(C) /\ Len(b) = Len(s) - k /\ \A j \in 1 .. Len(s) - k : b[j] = s[k + j]
  OBVIOUS
<1>3. RemoveAt(s, k) = a \o b
  BY DEF RemoveAt
<1> HIDE DEF a, b
<1> DEFINE c == a \o b
<1>4. /\ c \in Seq(C) /\ Len(c) = Len(a) + Len(b)
      /\ \A j \in 1 .. Len(a) + Len(b) : c[j] = IF j <= Len(a) THEN a[j] ELSE b[j - Len(a)]
  BY <1>1, <1>2, ConcatProperties
<1> HIDE DEF c
<1>5. Len(c) = Len(s) - 1
  BY <1>1, <1>2, <1>4
<1>6. ASSUME NEW j \in 1 .. Len(s) - 1 PROVE c[j] = IF j < k THEN s[j] ELSE s[j + 1]
  <2>1. CASE j < k
    BY <1>1, <1>2, <1>4, <2>1
  <2>2. CASE ~(j < k)
    <3>1. j - Len(a) \in 1 .. Len(s) - k /\ k + (j - Len(a)) = j + 1 /\ ~(j <= Len(a))
      BY <1>1, <2>2
    <3>2. j \in 1 .. Len(a) + Len(b)
      BY <1>1, <1>2
    <3>3. c[j] = b[j - Len(a)]
      BY <1>4, <3>1, <3>2
    <3> QED
      BY <1>2, <2>2, <3>1, <3>3
  <2> QED
    BY <2>1, <2>2
<1> DEFINE r == Append(RemoveAt(s, k), e)
           n == Len(s)
<1>7. r = Append(c, e) /\ n \in Nat /\ n = Len(s) /\ k \in 1 .. n
  BY <1>3 DEF c
<1> HIDE DEF r, n
<1>8. r \in Seq(C) /\ Len(r) = n /\ r[n] = e
  BY <1>4, <1>5, <1>7
<1>9. ASSUME NEW j \in 1 .. n, j # n PROVE r[j] = IF j < k THEN s[j] ELSE s[j + 1]
  BY <1>4, <1>5, <1>6, <1>7, <1>9
<1> DEFINE from == [j \in 1 .. n |-> IF j = n THEN k ELSE IF j < k THEN j ELSE j + 1]
<1>10. from \in [1 .. n -> 1 .. n] /\ from[n] = k
  BY <1>7
<1>11. \A j, l \in 1 .. n : from[j] = from[l] => j = l
  BY <1>7
<1>12. \A j \in 1 .. n : j # n => r[j] = s[from[j]]
  BY <1>7, <1>9
<1> HIDE DEF from
<1>13. ASSUME NEW h \in 1 .. n, h # k PROVE \E j \in 1 .. n : j # n /\ r[j] = s[h]
  <2>1. CASE h < k
    <3>1. h # n
      BY <1>7, <2>1
    <3>2. r[h] = s[h]
      BY <1>9, <2>1, <3>1
    <3> QED
      BY <3>1, <3>2
  <2>2. CASE ~(h < k)
    <3>1. h - 1 \in 1 .. n /\ h - 1 # n /\ ~(h - 1 < k) /\ (h - 1) + 1 = h
      BY <1>7, <1>13, <2>2
    <3> QED
      BY <1>9, <3>1
  <2> QED
    BY <2>1, <2>2
<1>14. Moved(s, k, e, r, n)
  BY <1>7, <1>8, <1>10, <1>11, <1>12, <1>13 DEF Moved
<1> QED
  BY <1>8, <1>14 DEF r, n

\* The steps of the preview and of the answer details leave the replies and what stands
\* behind them alone.
LEMMA ChatKept ==
  ASSUME IInv, open' \in Doc \cup {None}, UNCHANGED chat
  PROVE  IInv'
BY DEF IInv, ChatTyped, Numbered, EndedIsQuiet, Backed, chat

\* A step that changes replies in place: each keeps its number, is streaming only with
\* something behind it, and has nothing behind it once it has ended by itself.
LEMMA ChangedInPlace ==
  ASSUME IInv, open' = open, asked' = asked, thread' \in Seq(Reply), DOMAIN thread' = DOMAIN thread,
         \A k \in DOMAIN thread : thread'[k].ask = thread[k].ask,
         posts' \subseteq posts, streams' \subseteq posts \cup streams, posts' \cap streams' = {},
         \A k \in DOMAIN thread :
           /\ thread'[k].streaming => thread'[k].ask \in posts' \cup streams'
           /\ ~thread'[k].streaming /\ ~thread'[k].stopped => thread'[k].ask \notin posts' \cup streams'
  PROVE  IInv'
BY DEF IInv, ChatTyped, Numbered, EndedIsQuiet, Backed

LEMMA InitHolds == ASSUME Init PROVE IInv
PROOF
<1>1. ReadingAssumption
  BY ReadingAssumption
<1> QED
  BY <1>1 DEF IInv, ChatTyped, Numbered, EndedIsQuiet, Backed, Init, ReadingAssumption

LEMMA IInvNext == ASSUME IInv, [Next]_vars PROVE IInv'
PROOF
<1> USE DEF Ask
<1>0. /\ \A k \in DOMAIN thread : thread[k] \in Reply
      /\ DOMAIN thread = 1 .. Len(thread) /\ Len(thread) \in Nat
  BY DEF IInv, ChatTyped
<1>1. ASSUME Preview PROVE IInv'
  <2>1. open' \in Doc \cup {None} /\ UNCHANGED chat
    BY <1>1 DEF Preview, Open, RetryPreview, PdfLoaded, PdfRejected, TextFetched, TextFails, TurnPage,
                handleCitationClick, IInv, ChatTyped
  <2> QED
    BY <2>1, ChatKept
<1>2. ASSUME handleSendQuery PROVE IInv'
  <2> DEFINE m == [ask |-> asked', of |-> open, says |-> "processing", stopped |-> FALSE, streaming |-> TRUE]
  <2>1. /\ open' = open /\ open \in Doc /\ asked' = asked + 1 /\ asked' \in Ask /\ asked \in Nat
        /\ thread' = Append(thread, m) /\ posts' = posts \cup {asked'} /\ streams' = streams
    BY <1>2, ReadingAssumption DEF ReadingAssumption, handleSendQuery, viewer, IInv, ChatTyped
  <2>2. m \in Reply
    BY <2>1 DEF Reply
  <2>3. m.ask = asked' /\ m.streaming
    OBVIOUS
  <2> HIDE DEF m
  <2>4. /\ thread' \in Seq(Reply) /\ DOMAIN thread' = 1 .. Len(thread) + 1
        /\ \A k \in DOMAIN thread : thread'[k] = thread[k]
        /\ thread'[Len(thread) + 1] = m
    BY <1>0, <2>1, <2>2 DEF IInv, ChatTyped
  <2>5. \A k \in DOMAIN thread : thread[k].ask \in 1 .. asked
    BY DEF IInv, Numbered
  <2>6. ChatTyped'
    BY <2>1, <2>4 DEF IInv, ChatTyped
  <2>7. Numbered'
    BY <1>0, <2>1, <2>3, <2>4, <2>5 DEF IInv, Numbered
  <2>8. EndedIsQuiet'
    BY <1>0, <2>1, <2>3, <2>4, <2>5 DEF IInv, EndedIsQuiet
  <2>9. Backed'
    BY <1>0, <2>1, <2>3, <2>4 DEF IInv, Backed
  <2> QED
    BY <2>6, <2>7, <2>8, <2>9 DEF IInv
<1>3. ASSUME handleStopGeneration PROVE IInv'
  <2>1. /\ open' = open /\ asked' = asked /\ posts' = posts /\ streams' \subseteq streams
        /\ thread' = [k \in DOMAIN thread |-> IF thread[k].streaming
                        THEN [thread[k] EXCEPT !.streaming = FALSE, !.stopped = TRUE] ELSE thread[k]]
    BY <1>3 DEF handleStopGeneration, viewer
  <2>2. ASSUME NEW k \in DOMAIN thread
        PROVE  /\ thread'[k] \in Reply /\ thread'[k].ask = thread[k].ask /\ ~thread'[k].streaming
               /\ ~thread'[k].stopped => thread'[k].ask \notin posts' \cup streams'
    BY <1>0, <2>1 DEF Reply, IInv, EndedIsQuiet
  <2>3. thread' \in Seq(Reply) /\ DOMAIN thread' = DOMAIN thread
    <3>1. thread' \in [1 .. Len(thread) -> Reply]
      BY <1>0, <2>1, <2>2
    <3> QED
      BY <1>0, <3>1, FunctionIsSequence
  <2> QED
    BY <2>1, <2>2, <2>3, ChangedInPlace DEF IInv, Numbered
<1>4. ASSUME NEW i \in Ask, PostAnswered(i) PROVE IInv'
  <2>1. /\ open' = open /\ asked' = asked /\ thread' = thread
        /\ posts' = posts \ {i} /\ streams' = streams \cup {i} /\ i \in posts
    BY <1>4 DEF PostAnswered, viewer
  <2> QED
    BY <2>1, ChangedInPlace DEF IInv, ChatTyped, Numbered, EndedIsQuiet, Backed
<1>5. ASSUME NEW i \in Ask, PostFails(i) PROVE IInv'
  <2>1. PICK k \in DOMAIN thread :
          /\ thread[k].ask = i
          /\ thread' = Append(RemoveAt(thread, k),
                              [thread[k] EXCEPT !.says = "error", !.stopped = FALSE, !.streaming = FALSE])
    BY <1>5 DEF PostFails
  <2>2. /\ open' = open /\ asked' = asked /\ posts' = posts \ {i} /\ streams' = streams /\ i \in posts
    BY <1>5 DEF PostFails, viewer
  <2> DEFINE e == [thread[k] EXCEPT !.says = "error", !.stopped = FALSE, !.streaming = FALSE]
  <2>3. e \in Reply /\ e.ask = i /\ ~e.streaming
    BY <1>0, <2>1 DEF Reply
  <2> HIDE DEF e
  <2> DEFINE n == Len(thread)
  <2>4. thread' \in Seq(Reply) /\ Moved(thread, k, e, thread', n)
    <3>1. thread \in Seq(Reply) /\ thread' = Append(RemoveAt(thread, k), e)
      BY <2>1 DEF e, IInv, ChatTyped
    <3> QED
      BY <2>3, <3>1, MovedToEnd
  <2>5. PICK from \in [1 .. n -> 1 .. n] :
          /\ \A j, l \in 1 .. n : from[j] = from[l] => j = l
          /\ from[n] = k
          /\ \A j \in 1 .. n : j # n => thread'[j] = thread[from[j]]
    BY <2>4 DEF Moved
  <2>6. DOMAIN thread = 1 .. n /\ n \in 1 .. n
    BY <1>0, <2>1
  <2> HIDE DEF n
  <2>7. Len(thread') = n /\ thread'[n] = e
    BY <2>4 DEF Moved
  <2>8. /\ \A j \in 1 .. n : thread'[j].ask = thread[from[j]].ask
        /\ \A j \in 1 .. n : j # n => from[j] # k
    BY <2>1, <2>3, <2>7, <2>5, <2>6
  <2>9. DOMAIN thread' = 1 .. n
    <3>1. thread' \in Seq(Reply) /\ Len(thread') = n
      BY <2>4, <2>7
    <3> QED
      BY <3>1
  <2>10. i \notin streams /\ \A j \in 1 .. n : j # n => thread'[j].ask # i
    BY <2>1, <2>2, <2>5, <2>6, <2>8 DEF IInv, Numbered
  <2>11. ChatTyped'
    BY <2>2, <2>4 DEF IInv, ChatTyped
  <2>12. Numbered'
    <3>1. ASSUME NEW j \in DOMAIN thread', NEW l \in DOMAIN thread', thread'[j].ask = thread'[l].ask
          PROVE  j = l
      BY <2>5, <2>6, <2>8, <2>9, <3>1 DEF IInv, Numbered
    <3>2. \A j \in DOMAIN thread' : thread'[j].ask \in 1 .. asked
      BY <2>5, <2>6, <2>8, <2>9 DEF IInv, Numbered
    <3> QED
      BY <2>2, <3>1, <3>2 DEF IInv, Numbered
  <2>13. ASSUME NEW j \in DOMAIN thread'
         PROVE  /\ thread'[j].streaming => thread'[j].ask \in posts' \cup streams'
                /\ ~thread'[j].streaming /\ ~thread'[j].stopped => thread'[j].ask \notin posts' \cup streams'
    <3>1. CASE j = n
      BY <2>2, <2>3, <2>7, <2>10, <3>1
    <3>2. CASE j # n
      <4>1. from[j] \in DOMAIN thread /\ thread'[j] = thread[from[j]] /\ thread'[j].ask # i
        BY <2>5, <2>6, <2>9, <2>10, <3>2
      <4> QED
        BY <2>2, <4>1 DEF IInv, EndedIsQuiet, Backed
    <3> QED
      BY <3>1, <3>2
  <2> QED
    BY <2>11, <2>12, <2>13 DEF IInv, EndedIsQuiet, Backed
<1>6. ASSUME NEW i \in Ask, StageEvent(i) \/ Explained(i) PROVE IInv'
  <2>1. open' = open /\ UNCHANGED <<thread, posts, streams, asked>>
    BY <1>6 DEF StageEvent, Explained, viewer, chat
  <2> QED
    BY <2>1 DEF IInv, ChatTyped, Numbered, EndedIsQuiet, Backed
<1>7. ASSUME NEW i \in Ask, TokenEvent(i) PROVE IInv'
  <2>1. /\ open' = open /\ asked' = asked /\ posts' = posts /\ streams' = streams /\ i \in streams
        /\ thread' = [k \in DOMAIN thread |->
                        IF thread[k].ask = i
                        THEN [thread[k] EXCEPT !.says = "part", !.stopped = FALSE, !.streaming = TRUE] ELSE thread[k]]
    BY <1>7 DEF TokenEvent, Updated, viewer
  <2>2. ASSUME NEW k \in DOMAIN thread
        PROVE  /\ thread'[k] \in Reply /\ thread'[k].ask = thread[k].ask
               /\ thread'[k].streaming => thread'[k].ask \in posts' \cup streams'
               /\ ~thread'[k].streaming /\ ~thread'[k].stopped => thread'[k].ask \notin posts' \cup streams'
    BY <1>0, <2>1 DEF Reply, IInv, EndedIsQuiet, Backed
  <2>3. thread' \in Seq(Reply) /\ DOMAIN thread' = DOMAIN thread
    <3>1. thread' \in [1 .. Len(thread) -> Reply]
      BY <1>0, <2>1, <2>2
    <3> QED
      BY <1>0, <3>1, FunctionIsSequence
  <2> QED
    BY <2>1, <2>2, <2>3, ChangedInPlace DEF IInv, Numbered
<1>8. ASSUME NEW i \in Ask, CompletedEvent(i) \/ ErrorEvent(i) PROVE IInv'
  <2>1. /\ open' = open /\ asked' = asked /\ posts' = posts /\ streams' = streams \ {i} /\ i \in streams
        /\ \/ thread' = [k \in DOMAIN thread |->
                           IF thread[k].ask = i THEN [thread[k] EXCEPT !.streaming = FALSE] ELSE thread[k]]
           \/ thread' = [k \in DOMAIN thread |->
                           IF thread[k].ask = i
                           THEN [thread[k] EXCEPT !.says = "error", !.stopped = FALSE, !.streaming = FALSE]
                           ELSE thread[k]]
    BY <1>8 DEF CompletedEvent, ErrorEvent, Updated, viewer
  <2>2. ASSUME NEW k \in DOMAIN thread
        PROVE  /\ thread'[k] \in Reply /\ thread'[k].ask = thread[k].ask
               /\ thread'[k].streaming => thread'[k].ask \in posts' \cup streams'
               /\ ~thread'[k].streaming /\ ~thread'[k].stopped => thread'[k].ask \notin posts' \cup streams'
    <3>1. thread[k] \in Reply /\ i \notin posts
      BY <1>0, <2>1 DEF IInv, Numbered
    <3>2. CASE thread[k].ask = i
      <4>1. \/ thread'[k] = [thread[k] EXCEPT !.streaming = FALSE]
            \/ thread'[k] = [thread[k] EXCEPT !.says = "error", !.stopped = FALSE, !.streaming = FALSE]
        BY <2>1, <3>2
      <4>2. thread'[k] \in Reply /\ thread'[k].ask = i /\ ~thread'[k].streaming
        BY <3>1, <3>2, <4>1 DEF Reply
      <4> QED
        BY <2>1, <3>1, <3>2, <4>2
    <3>3. CASE thread[k].ask # i
      <4>1. thread'[k] = thread[k]
        BY <2>1, <3>3
      <4> QED
        BY <2>1, <3>1, <3>3, <4>1 DEF IInv, EndedIsQuiet, Backed
    <3> QED
      BY <3>2, <3>3
  <2>3. thread' \in Seq(Reply) /\ DOMAIN thread' = DOMAIN thread
    <3>1. thread' \in [1 .. Len(thread) -> Reply]
      BY <1>0, <2>1, <2>2
    <3> QED
      BY <1>0, <3>1, FunctionIsSequence
  <2> QED
    BY <2>1, <2>2, <2>3, ChangedInPlace DEF IInv, Numbered
<1>9. ASSUME Remount PROVE IInv'
  BY <1>9 DEF Remount, IInv, ChatTyped, Numbered, EndedIsQuiet, Backed
<1>10. ASSUME UNCHANGED vars PROVE IInv'
  BY <1>10, ChatKept DEF vars, viewer, IInv, ChatTyped
<1> QED
  BY <1>1, <1>2, <1>3, <1>4, <1>5, <1>6, <1>7, <1>8, <1>9, <1>10 DEF Next, Chat, Answer, End

\* A reply that has ended by itself is still there after every step but Remount.
LEMMA EndedIsKept ==
  ASSUME IInv, Next, NEW k \in DOMAIN thread, ~thread[k].streaming, ~thread[k].stopped
  PROVE  (\E j \in DOMAIN thread' : thread'[j] = thread[k]) \/ thread' = <<>>
PROOF
<1> USE DEF Ask
<1>0. /\ thread[k].ask \notin posts \cup streams /\ thread \in Seq(Reply)
      /\ DOMAIN thread = 1 .. Len(thread) /\ Len(thread) \in Nat
  BY DEF IInv, ChatTyped, EndedIsQuiet
<1>1. CASE UNCHANGED thread
  BY <1>1
<1>2. CASE Preview
  BY <1>2 DEF Preview, Open, RetryPreview, PdfLoaded, PdfRejected, TextFetched, TextFails, TurnPage,
              handleCitationClick, chat
<1>3. CASE handleSendQuery
  <2>1. PICK m \in Reply : thread' = Append(thread, m)
    <3>1. open \in Doc /\ asked' \in Ask
      BY <1>3, ReadingAssumption DEF ReadingAssumption, handleSendQuery, IInv, ChatTyped
    <3> QED
      BY <1>3, <3>1 DEF handleSendQuery, Reply
  <2>2. k \in DOMAIN thread' /\ thread'[k] = thread[k]
    BY <1>0, <2>1
  <2> QED
    BY <2>2
<1>4. CASE handleStopGeneration
  BY <1>4 DEF handleStopGeneration
<1>5. ASSUME NEW i \in Ask, PostFails(i)
      PROVE  \E j \in DOMAIN thread' : thread'[j] = thread[k]
  <2>1. PICK l \in DOMAIN thread :
          /\ thread[l].ask = i
          /\ thread' = Append(RemoveAt(thread, l),
                              [thread[l] EXCEPT !.says = "error", !.stopped = FALSE, !.streaming = FALSE])
    BY <1>5 DEF PostFails
  <2> DEFINE e == [thread[l] EXCEPT !.says = "error", !.stopped = FALSE, !.streaming = FALSE]
             n == Len(thread)
  <2>2. e \in Reply /\ k # l
    <3>1. thread[l] \in Reply /\ i \in posts
      BY <1>0, <1>5, <2>1 DEF PostFails
    <3> QED
      BY <1>0, <2>1, <3>1 DEF Reply
  <2> HIDE DEF e
  <2>3. thread' \in Seq(Reply) /\ Moved(thread, l, e, thread', n)
    <3>1. thread' = Append(RemoveAt(thread, l), e)
      BY <2>1 DEF e
    <3> QED
      BY <1>0, <2>2, <3>1, MovedToEnd
  <2>4. PICK j \in 1 .. n : thread'[j] = thread[k]
    BY <1>0, <2>2, <2>3 DEF Moved
  <2>5. DOMAIN thread' = 1 .. n
    BY <2>3 DEF Moved
  <2> QED
    BY <2>4, <2>5
<1>6. CASE \E i \in Ask : PostAnswered(i) \/ StageEvent(i) \/ Explained(i)
  BY <1>1, <1>6 DEF PostAnswered, StageEvent, Explained, chat
<1>7. ASSUME NEW i \in Ask, TokenEvent(i) \/ CompletedEvent(i) \/ ErrorEvent(i)
      PROVE  \E j \in DOMAIN thread' : thread'[j] = thread[k]
  <2>1. thread[k].ask # i
    BY <1>0, <1>7 DEF TokenEvent, CompletedEvent, ErrorEvent
  <2>2. k \in DOMAIN thread' /\ thread'[k] = thread[k]
    BY <1>7, <2>1 DEF TokenEvent, CompletedEvent, ErrorEvent, Updated
  <2> QED
    BY <2>2
<1>8. CASE Remount
  BY <1>8 DEF Remount
<1> QED
  BY <1>2, <1>3, <1>4, <1>5, <1>6, <1>7, <1>8 DEF Next, Chat, Answer, End

----------------------------------------------------------------------------
\* The conversation is kept in order by every step, for any documents and questions.
THEOREM IInvAlways == Spec => []IInv
PROOF
<1>1. Init => IInv
  BY InitHolds
<1>2. IInv /\ [Next]_vars => IInv'
  BY IInvNext
<1> QED
  BY <1>1, <1>2, PTL DEF Spec

\* No reply is left streaming with nothing to end it (handleSendQuery), for any number of
\* questions that overlap, fail and are stopped.
THEOREM StreamingHasSourceAlways == Spec => []StreamingHasSource
PROOF
<1>1. IInv => StreamingHasSource
  BY DEF IInv, Backed, StreamingHasSource, Range
<1> QED
  BY <1>1, IInvAlways, PTL

\* A reply that has ended by itself is never changed again (the listeners of
\* handleSendQuery), for any number of questions.
THEOREM AnswersAreFinalAlways == Spec => AnswersAreFinal
PROOF
<1>1. ASSUME IInv, Next
      PROVE  \A m \in Copyable : ~m.stopped => m \in Range(thread') \/ thread' = <<>>
  BY <1>1, EndedIsKept DEF Copyable, Range
<1>2. IInv /\ [Next]_vars
        => [\A m \in Copyable : ~m.stopped => m \in Range(thread') \/ thread' = <<>>]_vars
  BY <1>1
<1> QED
  BY <1>2, IInvAlways, PTL DEF Spec, AnswersAreFinal

----------------------------------------------------------------------------
(* The preview of ReadingPane, and the rest of its variables.              *)

PaneTyped ==
  /\ preview \in [pdf : Doc \cup {None}, text : Doc \cup {None}, error : BOOLEAN, loading : BOOLEAN]
  /\ page \in Nat \ {0} /\ loads \subseteq Load
  /\ stage \in Stages /\ ref \in Ask \cup {0} /\ explaining \subseteq Ask /\ details \in Ask \cup {0}
  /\ faults \in 0 .. MaxFaults

PaneInv == IInv /\ PaneTyped /\ PreviewTells

LEMMA PaneGives == ASSUME PaneInv PROVE TypeOK
BY DEF PaneInv, IInv, ChatTyped, PaneTyped, TypeOK

LEMMA PaneInit == ASSUME Init PROVE PaneInv
PROOF
<1>1. ReadingAssumption
  BY ReadingAssumption
<1>2. Blank \in [pdf : Doc \cup {None}, text : Doc \cup {None}, error : BOOLEAN, loading : BOOLEAN]
  BY DEF Blank
<1>3. PaneTyped
  BY <1>1, <1>2 DEF Init, PaneTyped, Stages, ReadingAssumption
<1> QED
  BY <1>3, InitHolds DEF PaneInv, PreviewTells, Init

LEMMA FaultKeeps == ASSUME faults \in 0 .. MaxFaults, Fault PROVE faults' \in 0 .. MaxFaults
BY ReadingAssumption DEF Fault, ReadingAssumption

\* A preview that begins to load says so; one that is taken away has no document open.
LEMMA LoadPdfKeeps ==
  ASSUME PaneTyped, NEW d \in Doc \cup {None}, LoadPdf(d)
  PROVE  /\ preview' \in [pdf : Doc \cup {None}, text : Doc \cup {None}, error : BOOLEAN, loading : BOOLEAN]
         /\ loads' \subseteq Load
         /\ d # None => preview'.loading
PROOF
<1>1. CASE d = None
  BY <1>1 DEF LoadPdf, PaneTyped, Blank
<1>2. CASE d # None
  <2>1. PICK n \in 1 .. MaxLoads : loads' = loads \cup {[of |-> d, fetch |-> 1, n |-> n]}
    BY <1>2 DEF LoadPdf
  <2>2. loads' \subseteq Load
    BY <1>2, <2>1 DEF Load, PaneTyped
  <2>3. preview' = [preview EXCEPT !.text = None, !.error = FALSE, !.loading = TRUE]
    BY <1>2 DEF LoadPdf
  <2> QED
    BY <2>2, <2>3 DEF PaneTyped
<1> QED
  BY <1>1, <1>2

LEMMA PreviewKeeps == ASSUME PaneInv, Preview PROVE PaneTyped' /\ PreviewTells'
PROOF
<1>1. PaneTyped /\ PreviewTells /\ open \in Doc \cup {None} /\ None \notin Doc
  BY ReadingAssumption DEF PaneInv, IInv, ChatTyped, ReadingAssumption
<1>2. ASSUME NEW d \in Doc \cup {None}, Open(d) PROVE PaneTyped' /\ PreviewTells'
  <2>1. /\ preview' \in [pdf : Doc \cup {None}, text : Doc \cup {None}, error : BOOLEAN, loading : BOOLEAN]
        /\ loads' \subseteq Load /\ open' = d /\ (d # None => preview'.loading)
    BY <1>1, <1>2, LoadPdfKeeps DEF Open
  <2> QED
    BY <1>1, <1>2, <2>1 DEF Open, PaneTyped, PreviewTells, Canvas, chat, answer
<1>3. ASSUME RetryPreview PROVE PaneTyped' /\ PreviewTells'
  <2>1. /\ preview' \in [pdf : Doc \cup {None}, text : Doc \cup {None}, error : BOOLEAN, loading : BOOLEAN]
        /\ loads' \subseteq Load /\ preview'.loading
    BY <1>1, <1>3, LoadPdfKeeps DEF RetryPreview
  <2> QED
    BY <1>1, <1>3, <2>1 DEF RetryPreview, PaneTyped, PreviewTells, Canvas, chat, answer
<1>4. ASSUME NEW l \in loads, PdfLoaded(l) \/ PdfRejected(l) \/ TextFetched(l) \/ TextFails(l)
      PROVE  PaneTyped' /\ PreviewTells'
  <2>1. l \in Load /\ l.of \in Doc
    BY <1>1 DEF PaneTyped, Load
  <2>2. [l EXCEPT !.fetch = 2] \in Load
    BY <2>1 DEF Load
  <2>3. loads' \subseteq Load
    BY <1>1, <1>4, <2>2 DEF PaneTyped, PdfLoaded, PdfRejected, TextFetched, TextFails
  <2>4. faults' \in 0 .. MaxFaults
    BY <1>1, <1>4, FaultKeeps DEF PaneTyped, PdfLoaded, PdfRejected, TextFetched, TextFails
  <2>5. /\ preview' \in [pdf : Doc \cup {None}, text : Doc \cup {None}, error : BOOLEAN, loading : BOOLEAN]
        /\ preview' = preview \/ preview'.pdf # None \/ preview'.text # None \/ preview'.error
    <3>1. CASE PdfLoaded(l)
      BY <1>1, <2>1, <3>1 DEF PaneTyped, PdfLoaded
    <3>2. CASE PdfRejected(l)
      BY <1>1, <3>2 DEF PaneTyped, PdfRejected
    <3>3. CASE TextFetched(l)
      <4>1. CASE Kind[l.of] = "text"
        BY <1>1, <2>1, <3>3, <4>1 DEF PaneTyped, TextFetched
      <4>2. CASE Kind[l.of] # "text"
        BY <1>1, <3>3, <4>2 DEF PaneTyped, TextFetched
      <4> QED
        BY <4>1, <4>2
    <3>4. CASE TextFails(l)
      BY <1>1, <3>4 DEF PaneTyped, TextFails
    <3> QED
      BY <1>4, <3>1, <3>2, <3>3, <3>4
  <2>6. open' = open /\ page' \in {page, 1} /\ UNCHANGED <<chat, answer>>
    BY <1>4 DEF PdfLoaded, PdfRejected, TextFetched, TextFails
  <2> QED
    BY <1>1, <2>3, <2>4, <2>5, <2>6 DEF PaneTyped, PreviewTells, Canvas, chat, answer
<1>5. ASSUME NEW b \in {"prev", "next"}, TurnPage(b) PROVE PaneTyped' /\ PreviewTells'
  <2>1. page' \in Nat \ {0}
    <3>1. CASE b = "prev"
      BY <1>1, <1>5, <3>1 DEF TurnPage, PageButtons, PaneTyped
    <3>2. CASE b = "next"
      BY <1>1, <1>5, <3>2 DEF TurnPage, PaneTyped
    <3> QED
      BY <3>1, <3>2
  <2> QED
    BY <1>1, <1>5, <2>1 DEF TurnPage, PaneTyped, PreviewTells, Canvas, chat, answer
<1>6. ASSUME NEW m \in Cited, handleCitationClick(m) PROVE PaneTyped' /\ PreviewTells'
  <2>1. m.of \in Doc
    <3>1. PICK k \in DOMAIN thread : m = thread[k]
      BY DEF Cited, Range
    <3>2. thread \in Seq(Reply)
      BY DEF PaneInv, IInv, ChatTyped
    <3>3. m \in Reply
      BY <3>1, <3>2
    <3> QED
      BY <3>3 DEF Reply
  <2>2. page' \in Nat \ {0}
    BY <1>6, <2>1, ReadingAssumption DEF handleCitationClick, ReadingAssumption
  <2> QED
    BY <1>1, <1>6, <2>2 DEF handleCitationClick, PaneTyped, PreviewTells, Canvas, chat, answer
<1> QED
  BY <1>2, <1>3, <1>4, <1>5, <1>6 DEF Preview

LEMMA PaneStep == ASSUME PaneInv, [Next]_vars PROVE PaneInv'
PROOF
<1>1. IInv'
  BY IInvNext DEF PaneInv
<1>2. CASE Preview
  BY <1>1, <1>2, PreviewKeeps DEF PaneInv
<1>3. ASSUME UNCHANGED viewer, UNCHANGED faults \/ Fault,
             stage' \in Stages, ref' \in Ask \cup {0}, explaining' \subseteq Ask, details' \in Ask \cup {0}
      PROVE  PaneInv'
  <2>1. faults' \in 0 .. MaxFaults
    BY <1>3, FaultKeeps DEF PaneInv, PaneTyped
  <2> QED
    BY <1>1, <1>3, <2>1 DEF PaneInv, PaneTyped, PreviewTells, Canvas, viewer
<1>4. stage \in Stages /\ ref \in Ask \cup {0} /\ explaining \subseteq Ask /\ details \in Ask \cup {0}
  BY DEF PaneInv, PaneTyped
<1>5. CASE handleSendQuery \/ handleStopGeneration
  BY <1>3, <1>4, <1>5 DEF handleSendQuery, handleStopGeneration, answer, Stages
<1>6. ASSUME NEW i \in Ask, Answer(i) \/ StageEvent(i) PROVE PaneInv'
  BY <1>3, <1>4, <1>6 DEF Answer, PostAnswered, PostFails, StageEvent, answer, Stages
<1>7. ASSUME NEW i \in Ask, End(i) PROVE PaneInv'
  BY <1>3, <1>4, <1>7 DEF End, CompletedEvent, ErrorEvent, answer, Stages
<1>8. ASSUME NEW i \in Ask, TokenEvent(i) \/ Explained(i) PROVE PaneInv'
  BY <1>3, <1>4, <1>8 DEF TokenEvent, Explained, answer, chat
<1>9. CASE Remount
  <2>1. Blank \in [pdf : Doc \cup {None}, text : Doc \cup {None}, error : BOOLEAN, loading : BOOLEAN]
    BY DEF Blank
  <2> QED
    BY <1>1, <1>9, <2>1 DEF Remount, PaneInv, PaneTyped, PreviewTells, Stages
<1>10. CASE UNCHANGED vars
  BY <1>3, <1>4, <1>10 DEF vars, chat, answer
<1> QED
  BY <1>2, <1>5, <1>6, <1>7, <1>8, <1>9, <1>10 DEF Next, Chat

----------------------------------------------------------------------------
(* The session: AuthSessionProofs speaks of the same module.               *)

LEMMA SessionInit == A!Init => AP!Init
BY DEF A!Init, A!NoToken, AP!Init, AP!NoToken

LEMMA SessionInvariant ==
  /\ AP!TypeOK <=> A!TypeOK
  /\ AP!KeptOnReload <=> A!KeptOnReload
BY DEF A!TypeOK, A!Token, A!NoToken, A!Page, A!Call, A!Op, A!KeptOnReload, A!Saved,
       AP!TypeOK, AP!Token, AP!NoToken, AP!Page, AP!Call, AP!Op, AP!KeptOnReload, AP!Saved

LEMMA SessionNext == [A!Next]_(A!vars) => [AP!Next]_(AP!vars)
BY DEF A!vars, A!Next, A!NoToken, A!Token, A!Page, A!Anyone, A!Saved, A!Guarded, A!Load, A!Visit, A!Show,
       A!Redirect, A!Verified, A!Offered, A!FormOpen, A!Begin, A!SubmitLogin, A!SubmitRegister, A!SubmitForgot,
       A!SubmitReset, A!SignInAsAdmin, A!Store, A!SignInOps, A!LoadAfter, A!SignInAccepted, A!SignInRefused,
       A!logout, A!Expire, A!Answered, A!register, A!forgotPassword, A!resetPassword, A!Cardinality,
       AP!vars, AP!Next, AP!NoToken, AP!Token, AP!Page, AP!Anyone, AP!Saved, AP!Guarded, AP!Load, AP!Visit, AP!Show,
       AP!Redirect, AP!Verified, AP!Offered, AP!FormOpen, AP!Begin, AP!SubmitLogin, AP!SubmitRegister, AP!SubmitForgot,
       AP!SubmitReset, AP!SignInAsAdmin, AP!Store, AP!SignInOps, AP!LoadAfter, AP!SignInAccepted, AP!SignInRefused,
       AP!logout, AP!Expire, AP!Answered, AP!register, AP!forgotPassword, AP!resetPassword, AP!Cardinality

LEMMA SessionAlways == A!Spec => [](A!TypeOK /\ A!KeptOnReload)
PROOF
<1>1. AP!SessionAssumption
  BY PartsAssumption DEF A!SessionAssumption, AP!SessionAssumption
<1>2. AP!Init => AP!IInv
  BY AP!InitHolds
<1>3. AP!IInv /\ [AP!Next]_(AP!vars) => AP!IInv'
  BY <1>1, AP!StepKeeps
<1>4. AP!IInv => AP!TypeOK /\ AP!KeptOnReload
  BY DEF AP!IInv
<1> QED
  BY <1>2, <1>3, <1>4, SessionInit, SessionNext, SessionInvariant, PTL DEF A!Spec

----------------------------------------------------------------------------
(* The shell of ClientShell.                                               *)

ShellInv == S!TypeOK /\ S!DevViewsFollowMode

LEMMA ShellCount == ASSUME NEW C PROVE S!Cardinality(C) = Cardinality(C)
BY DEF S!Cardinality, Cardinality

LEMMA ShellStarts == ASSUME S!Init PROVE ShellInv
PROOF
<1>1. Cardinality({}) = 0 /\ MaxOpen \in Nat
  BY FS_EmptySet, PartsAssumption DEF S!ShellAssumption
<1>2. S!Cardinality(overlays) <= MaxOpen
  BY <1>1, ShellCount DEF S!Init
<1>3. devTools \in BOOLEAN /\ summoned \in BOOLEAN
  BY Zenon DEF S!Init
<1>4. view \in S!View
  BY DEF S!Init, S!View, S!Primary
<1>5. S!DevViewsFollowMode
  BY DEF S!Init, S!DevViewsFollowMode, S!DevTools
<1> QED
  BY <1>2, <1>3, <1>4, <1>5 DEF S!Init, ShellInv, S!TypeOK

\* Overlays are closed, or one is opened within the bound.
LEMMA FewerOverlays ==
  ASSUME S!TypeOK, NEW C \in SUBSET overlays
  PROVE  C \subseteq S!Overlay /\ S!Cardinality(C) <= MaxOpen
PROOF
<1>1. IsFiniteSet(S!Overlay)
  <2>1. S!Overlay = ({"menu"} \cup {"drawer"}) \cup ({"search"} \cup {"palette"})
    BY DEF S!Overlay
  <2> QED
    BY <2>1, FS_Singleton, FS_Union
<1>2. IsFiniteSet(overlays)
  BY <1>1, FS_Subset DEF S!TypeOK
<1>3. Cardinality(C) <= Cardinality(overlays) /\ Cardinality(C) \in Nat /\ Cardinality(overlays) \in Nat
  BY <1>2, FS_Subset, FS_CardinalityType
<1>4. MaxOpen \in Nat
  BY PartsAssumption DEF S!ShellAssumption
<1> QED
  BY <1>3, <1>4, ShellCount DEF S!TypeOK

LEMMA ShellStep == ASSUME ShellInv, [S!Next]_(S!vars) PROVE ShellInv'
PROOF
<1> DEFINE flags == <<devMode, devTools, collapsed, panel, mobile>>
           Flagged == /\ devMode \in BOOLEAN /\ devTools \in BOOLEAN /\ collapsed \in BOOLEAN
                      /\ panel \in BOOLEAN /\ mobile \in BOOLEAN
<1> HIDE DEF flags, Flagged
<1>1. S!TypeOK /\ S!DevViewsFollowMode /\ Flagged
  BY DEF ShellInv, S!TypeOK, Flagged
\* A step that leaves the flags alone.
<1>2. ASSUME UNCHANGED flags, overlays' \subseteq S!Overlay, S!Cardinality(overlays') <= MaxOpen,
             \/ UNCHANGED <<view, summoned>>
             \/ view' \in S!Primary /\ summoned' = FALSE
             \/ view' \in S!DevTools /\ devMode /\ summoned' = FALSE
             \/ view' \in S!View /\ summoned' = TRUE
      PROVE  ShellInv'
  <2>1. Flagged'
    BY <1>1, <1>2 DEF flags, Flagged
  <2>2. summoned' \in BOOLEAN
    BY <1>1, <1>2, Zenon DEF S!TypeOK
  <2>3. view' \in S!View
    BY <1>1, <1>2 DEF S!TypeOK, S!View
  <2>4. S!DevViewsFollowMode'
    BY <1>1, <1>2 DEF flags, S!DevViewsFollowMode, S!Primary, S!DevTools
  <2> QED
    BY <1>2, <2>1, <2>2, <2>3, <2>4 DEF ShellInv, S!TypeOK, Flagged
<1>3. S!View = S!Primary \cup S!DevTools \cup {"upload"} /\ "workspace" \in S!Primary
  BY DEF S!View, S!Primary
<1>4. overlays \subseteq S!Overlay /\ S!Cardinality(overlays) <= MaxOpen
  BY DEF ShellInv, S!TypeOK
<1>5. ASSUME NEW v \in S!View, S!handlePrimaryNavigate(v) PROVE ShellInv'
  <2>1. overlays' \in SUBSET overlays
    BY <1>5 DEF S!handlePrimaryNavigate
  <2>2. view' \in S!Primary \/ (view' \in S!DevTools /\ devMode)
    BY <1>5 DEF S!handlePrimaryNavigate, S!handleNavigateToView, S!SidebarViews, S!DeveloperSection
  <2> QED
    BY <1>1, <1>2, <1>5, <2>1, <2>2, FewerOverlays DEF flags, S!handlePrimaryNavigate, S!handleNavigateToView
<1>6. ASSUME NEW v \in S!View, S!PageNavigates(v) PROVE ShellInv'
  BY <1>2, <1>4, <1>6 DEF flags, S!PageNavigates, S!handleNavigateToView, S!PageViews, S!Primary
<1>7. ASSUME NEW v \in S!View, S!Perform(v) PROVE ShellInv'
  <2>1. overlays' \in SUBSET overlays
    BY <1>7 DEF S!Perform
  <2> QED
    BY <1>1, <1>2, <1>7, <2>1, FewerOverlays DEF flags, S!Perform, S!handleNavigateToView
<1>8. ASSUME NEW v \in S!View, S!OpenHit(v) PROVE ShellInv'
  <2>1. overlays' \in SUBSET overlays
    BY <1>8 DEF S!OpenHit
  <2> QED
    BY <1>1, <1>2, <1>8, <2>1, FewerOverlays DEF flags, S!OpenHit, S!handleNavigateToView, S!FoundViews, S!Primary
<1>9. ASSUME NEW o \in S!Overlay, S!Toggle(o) PROVE ShellInv'
  BY <1>2, <1>4, <1>9 DEF flags, S!Toggle
<1>10. ASSUME S!toggleDevMode PROVE ShellInv'
  <2>1. UNCHANGED <<devTools, collapsed, panel, mobile, overlays>> /\ devMode' \in BOOLEAN
    BY <1>10, Zenon DEF S!toggleDevMode
  <2>2. view' \in S!View /\ summoned' \in BOOLEAN
    <3>1. CASE UNCHANGED <<view, summoned>>
      BY <1>1, <3>1 DEF S!TypeOK
    <3>2. CASE view' = "workspace" /\ summoned' = FALSE
      <4>1. summoned' \in BOOLEAN
        BY <3>2, Zenon
      <4> QED
        BY <1>3, <3>2, <4>1
    <3> QED
      BY <1>10, <3>1, <3>2 DEF S!toggleDevMode, S!handleNavigateToView
  <2>3. S!DevViewsFollowMode'
    <3>1. CASE devMode'
      <4>1. UNCHANGED <<view, summoned>> /\ ~devMode
        BY <1>10, <3>1 DEF S!toggleDevMode
      <4> QED
        BY <1>1, <4>1, <3>1 DEF S!DevViewsFollowMode
    <3>2. CASE ~devMode'
      <4>1. view' \in {"workspace", "settings"}
        BY <1>10, <3>2 DEF S!toggleDevMode, S!handleNavigateToView
      <4> QED
        BY <4>1 DEF S!DevViewsFollowMode, S!DevTools
    <3> QED
      BY <3>1, <3>2
  <2> QED
    BY <1>1, <1>4, <2>1, <2>2, <2>3 DEF ShellInv, S!TypeOK, Flagged
<1>11. ASSUME S!toggleDevTools \/ S!toggleSidebarCollapse \/ S!toggleDevPanel \/ S!Resize PROVE ShellInv'
  <2>1. UNCHANGED <<view, devMode, overlays, summoned>>
    BY <1>11 DEF S!toggleDevTools, S!toggleSidebarCollapse, S!toggleDevPanel, S!Resize
  <2>2. Flagged'
    BY <1>1, <1>11, Zenon DEF Flagged, S!toggleDevTools, S!toggleSidebarCollapse, S!toggleDevPanel, S!Resize
  <2>3. S!DevViewsFollowMode'
    BY <1>1, <2>1 DEF S!DevViewsFollowMode
  <2> QED
    BY <1>1, <1>4, <2>1, <2>2, <2>3 DEF ShellInv, S!TypeOK, Flagged
<1>12. ASSUME S!Reload PROVE ShellInv'
  <2>1. devTools' \in BOOLEAN /\ summoned' \in BOOLEAN
    BY <1>12, Zenon DEF S!Reload
  <2>2. overlays' \in SUBSET overlays
    BY <1>12 DEF S!Reload
  <2>3. overlays' \subseteq S!Overlay /\ S!Cardinality(overlays') <= MaxOpen
    BY <1>1, <2>2, FewerOverlays
  <2>4. S!DevViewsFollowMode'
    BY <1>12 DEF S!Reload, S!DevViewsFollowMode, S!DevTools
  <2> QED
    BY <1>1, <1>3, <1>12, <2>1, <2>3, <2>4 DEF S!Reload, ShellInv, S!TypeOK, Flagged
<1>13. ASSUME UNCHANGED S!vars PROVE ShellInv'
  BY <1>2, <1>4, <1>13 DEF S!vars, flags
<1> QED
  BY <1>5, <1>6, <1>7, <1>8, <1>9, <1>10, <1>11, <1>12, <1>13 DEF S!Next

----------------------------------------------------------------------------
(* The requests of ShellRequests.                                          *)

\* An answer taken off its queue leaves one fewer.
LEMMA TakenOut ==
  ASSUME NEW C, NEW s \in Seq(C), NEW i \in DOMAIN s
  PROVE  /\ SubSeq(s, 1, i - 1) \o SubSeq(s, i + 1, Len(s)) \in Seq(C)
         /\ Len(SubSeq(s, 1, i - 1) \o SubSeq(s, i + 1, Len(s))) = Len(s) - 1
PROOF
<1> DEFINE a == SubSeq(s, 1, i - 1)  b == SubSeq(s, i + 1, Len(s))
<1>1. a \in Seq(C) /\ Len(a) = i - 1
  OBVIOUS
<1>2. b \in Seq(C) /\ Len(b) = Len(s) - i
  OBVIOUS
<1>3. i \in Nat /\ Len(s) \in Nat
  OBVIOUS
<1> HIDE DEF a, b
<1>4. a \o b \in Seq(C) /\ Len(a \o b) = Len(a) + Len(b)
  BY <1>1, <1>2, ConcatProperties
<1>5. a \o b \in Seq(C) /\ Len(a \o b) = Len(s) - 1
  BY <1>1, <1>2, <1>3, <1>4
<1> QED
  BY <1>5 DEF a, b

LEMMA RequestsStart == ASSUME R!Init PROVE R!TypeOK
PROOF
<1>1. MaxAsks \in Nat /\ MaxRuns \in Nat
  BY PartsAssumption DEF R!RequestsAssumption
<1>2. testing \in BOOLEAN /\ shown \in BOOLEAN /\ ~testing
  BY Zenon DEF R!Init
<1> QED
  BY <1>1, <1>2 DEF R!Init, R!TypeOK, R!Status, R!Details

LEMMA RequestsStep == ASSUME R!TypeOK, [R!Next]_(R!vars) PROVE R!TypeOK'
PROOF
<1> DEFINE PanelOK  == /\ status \in [Pipeline -> R!Status] /\ selected \in Pipeline \cup {R!Null}
                       /\ known \in R!Details \cup {<<>>}
                       /\ polls \in Seq(R!Details) /\ Len(polls) <= MaxAsks
           SearchOK == /\ typed \in Query \cup {R!Null} /\ found \in Query \cup {R!Null}
                       /\ searches \in Seq(Query) /\ Len(searches) <= MaxAsks
           TestsOK  == /\ runs \in 0 .. MaxRuns /\ (testing => runs > 0)
                       /\ results \in {R!Null, "passed", "failed"}
           Flagged  == testing \in BOOLEAN /\ shown \in BOOLEAN
<1>1. PanelOK /\ SearchOK /\ TestsOK /\ Flagged
  BY DEF R!TypeOK
<1>2. PanelOK' /\ SearchOK' /\ TestsOK' /\ Flagged' => R!TypeOK'
  BY DEF R!TypeOK
<1>3. MaxAsks \in Nat /\ MaxRuns \in Nat
  BY PartsAssumption DEF R!RequestsAssumption
<1> HIDE DEF PanelOK, SearchOK, TestsOK, Flagged
<1>4. UNCHANGED R!panel => PanelOK'
  BY <1>1 DEF R!panel, PanelOK
<1>5. UNCHANGED R!search => SearchOK'
  BY <1>1 DEF R!search, SearchOK
<1>6. UNCHANGED R!tests => TestsOK' /\ Flagged'
  BY <1>1 DEF R!tests, TestsOK, Flagged
<1>7. ASSUME NEW p \in Pipeline, R!Poll(p) PROVE polls' \in Seq(R!Details) /\ Len(polls') <= MaxAsks
  <2>1. <<p, status[p]>> \in R!Details
    BY <1>1 DEF PanelOK, R!Details
  <2> QED
    BY <1>1, <1>3, <1>7, <2>1 DEF PanelOK, R!Poll
<1>8. ASSUME NEW p \in Pipeline, R!PipelineCompletes(p) PROVE R!TypeOK'
  <2>1. PanelOK'
    BY <1>1, <1>8 DEF PanelOK, R!PipelineCompletes, R!Status
  <2> QED
    BY <1>2, <1>5, <1>6, <1>8, <2>1 DEF R!PipelineCompletes
<1>9. ASSUME NEW p \in Pipeline \cup {R!Null}, R!setSelectedPipelineId(p) PROVE R!TypeOK'
  <2>1. PanelOK'
    <3>1. CASE p = R!Null
      BY <1>1, <1>9, <3>1 DEF PanelOK, R!setSelectedPipelineId
    <3>2. CASE p # R!Null
      BY <1>1, <1>7, <1>9, <3>2 DEF PanelOK, R!setSelectedPipelineId
    <3> QED
      BY <3>1, <3>2
  <2> QED
    BY <1>2, <1>5, <1>6, <1>9, <2>1 DEF R!setSelectedPipelineId
<1>10. ASSUME R!Interval PROVE R!TypeOK'
  <2>1. selected \in Pipeline
    BY <1>1, <1>10 DEF PanelOK, R!Interval
  <2>2. PanelOK'
    BY <1>1, <1>7, <1>10, <2>1 DEF PanelOK, R!Interval
  <2> QED
    BY <1>2, <1>5, <1>6, <1>10, <2>2 DEF R!Interval
<1>11. ASSUME NEW i \in 1 .. MaxAsks, R!loadDetails(i) PROVE R!TypeOK'
  <2>1. polls' \in Seq(R!Details) /\ Len(polls') = Len(polls) - 1 /\ polls[i] \in R!Details
    BY <1>1, <1>11, TakenOut DEF PanelOK, R!loadDetails, R!Without
  <2>2. PanelOK'
    BY <1>1, <1>3, <1>11, <2>1 DEF PanelOK, R!loadDetails
  <2> QED
    BY <1>2, <1>5, <1>6, <1>11, <2>2 DEF R!loadDetails
<1>12. ASSUME NEW i \in 1 .. MaxAsks, R!SearchAnswered(i) PROVE R!TypeOK'
  <2>1. searches' \in Seq(Query) /\ Len(searches') = Len(searches) - 1 /\ searches[i] \in Query
    <3>1. /\ searches \in Seq(Query) /\ i \in DOMAIN searches
          /\ searches' = SubSeq(searches, 1, i - 1) \o SubSeq(searches, i + 1, Len(searches))
      BY <1>1, <1>12 DEF SearchOK, R!SearchAnswered, R!Without
    <3>2. searches[i] \in Query
      BY <3>1
    <3> QED
      BY <3>1, <3>2, TakenOut
  <2>2. SearchOK'
    BY <1>1, <1>3, <1>12, <2>1 DEF SearchOK, R!SearchAnswered
  <2> QED
    BY <1>2, <1>4, <1>6, <1>12, <2>2 DEF R!SearchAnswered
<1>13. ASSUME NEW q \in Query \cup {R!Null}, R!handleSearchChange(q) PROVE R!TypeOK'
  <2>1. SearchOK'
    BY <1>1, <1>3, <1>13 DEF SearchOK, R!handleSearchChange
  <2> QED
    BY <1>2, <1>4, <1>6, <1>13, <2>1 DEF R!handleSearchChange
<1>14. ASSUME R!handleRunTests \/ R!TestsAnswered("passed") \/ R!TestsAnswered("failed") \/ R!CloseResults
       PROVE  R!TypeOK'
  <2>1. TestsOK'
    BY <1>1, <1>3, <1>14 DEF TestsOK, R!handleRunTests, R!TestsAnswered, R!CloseResults
  <2>2. Flagged'
    BY <1>1, <1>14, Zenon DEF Flagged, R!handleRunTests, R!TestsAnswered, R!CloseResults
  <2> QED
    BY <1>2, <1>4, <1>5, <1>14, <2>1, <2>2 DEF R!handleRunTests, R!TestsAnswered, R!CloseResults
<1>15. ASSUME UNCHANGED R!vars PROVE R!TypeOK'
  BY <1>2, <1>4, <1>5, <1>6, <1>15 DEF R!vars, R!panel, R!search, R!tests
<1> QED
  BY <1>8, <1>9, <1>10, <1>11, <1>12, <1>13, <1>14, <1>15 DEF R!Next

----------------------------------------------------------------------------
(* The polling store of TelemetryPolling.                                  *)

LEMMA IdleIsLoad == T!Idle \in T!Load
PROOF
<1>1. FALSE \in BOOLEAN
  OBVIOUS
<1> QED
  BY <1>1 DEF T!Idle, T!Load

LEMMA PollingStart == ASSUME T!Init PROVE T!TypeOK
PROOF
<1>1. changes \in 0 .. MaxChanges
  BY PartsAssumption DEF T!Init, T!TelemetryAssumption
<1>2. T!Idle \in T!Load
  BY IdleIsLoad
<1>3. stuck \in BOOLEAN
  BY Zenon DEF T!Init
<1>4. server \in [workers : {"standby", "busy"}, queue : {"empty", "full", "down"}, db : T!Service]
  BY DEF T!Init
<1>5. slots \in [T!Slot -> T!Load]
  BY <1>2 DEF T!Init
<1> QED
  BY <1>1, <1>3, <1>4, <1>5 DEF T!Init, T!TypeOK, T!Service

\* A load begins in a slot, or none does.
LEMMA AddKeeps ==
  ASSUME NEW ls \in [T!Slot -> T!Load], NEW kind
  PROVE  T!Add(ls, kind) \in [T!Slot -> T!Load]
PROOF
<1>1. T!First(kind) \in T!Load
  <2>1. (IF kind = "fast" THEN "workers" ELSE "db") \in {"idle", "workers", "queue", "db"}
    OBVIOUS
  <2> QED
    BY <2>1, IdleIsLoad DEF T!First, T!Load
<1> QED
  BY <1>1 DEF T!Add

LEMMA PollingStep == ASSUME T!TypeOK, [T!Next]_(T!vars) PROVE T!TypeOK'
PROOF
<1> DEFINE Servers == [workers : {"standby", "busy"}, queue : {"empty", "full", "down"}, db : T!Service]
           Stores  == [redis : {"checking"} \cup T!Service, db : {"checking"} \cup T!Service]
           Answers == {T!Unanswered, T!Failed, "standby", "busy", "empty", "full", "down"} \cup T!Service
<1>1. /\ server \in Servers /\ changes \in 0 .. MaxChanges /\ watching \in {"away", "hidden", "visible"}
      /\ timers \subseteq T!Speed /\ slots \in [T!Slot -> T!Load] /\ store \in Stores /\ stuck \in BOOLEAN
  BY DEF T!TypeOK
<1>2. MaxChanges \in Nat
  BY PartsAssumption DEF T!TelemetryAssumption
<1>3. ASSUME server' \in Servers, changes' \in 0 .. MaxChanges, watching' \in {"away", "hidden", "visible"},
             timers' \subseteq T!Speed, slots' \in [T!Slot -> T!Load], store' \in Stores, stuck' \in BOOLEAN
      PROVE  T!TypeOK'
  BY <1>3 DEF T!TypeOK
<1>4. T!Load = [step : {"idle", "workers", "queue", "db"}, standby : BOOLEAN, answer : Answers]
  BY DEF T!Load
<1>5. T!Service = {"online", "offline"}
  BY DEF T!Service
<1>6. ASSUME T!ServerChanges PROVE T!TypeOK'
  <2>1. server' \in Servers
    BY <1>1, <1>5, <1>6 DEF T!ServerChanges
  <2>2. changes' \in 0 .. MaxChanges
    BY <1>1, <1>2, <1>6 DEF T!ServerChanges
  <2> QED
    BY <1>1, <1>3, <1>6, <2>1, <2>2 DEF T!ServerChanges
<1>7. ASSUME T!start PROVE T!TypeOK'
  <2>1. slots' \in [T!Slot -> T!Load]
    BY <1>1, <1>7, AddKeeps DEF T!start
  <2>2. stuck' \in BOOLEAN
    BY <1>7, Zenon DEF T!start
  <2> QED
    BY <1>1, <1>3, <1>7, <2>1, <2>2 DEF T!start
<1>8. ASSUME T!stop PROVE T!TypeOK'
  <2>1. stuck' \in BOOLEAN
    BY <1>8, Zenon DEF T!stop
  <2> QED
    BY <1>1, <1>3, <1>8, <2>1 DEF T!stop
<1>9. ASSUME T!Hide PROVE T!TypeOK'
  BY <1>1, <1>3, <1>9 DEF T!Hide
<1>10. ASSUME NEW kind \in T!Speed, T!Tick(kind) PROVE T!TypeOK'
  BY <1>1, <1>3, <1>10, AddKeeps DEF T!Tick
<1>11. ASSUME NEW i \in T!Slot, T!Answer(i) PROVE T!TypeOK'
  <2>1. slots[i] \in T!Load
    BY <1>1
  <2>2. slots[i].step \in {"workers", "queue", "db"}
    BY <1>4, <1>11, <2>1 DEF T!Answer
  <2>3. server[slots[i].step] \in Answers
    BY <1>1, <1>5, <2>2
  <2>4. [slots[i] EXCEPT !.answer = server[slots[i].step]] \in T!Load
    BY <1>4, <2>1, <2>3
  <2>5. slots' = [slots EXCEPT ![i] = [slots[i] EXCEPT !.answer = server[slots[i].step]]]
    BY <1>1, <1>11 DEF T!Answer, T!Reading
  <2>6. slots' \in [T!Slot -> T!Load]
    BY <1>1, <2>4, <2>5
  <2> QED
    BY <1>1, <1>3, <1>11, <2>6 DEF T!Answer
<1>12. ASSUME NEW i \in T!Slot, T!RequestFails(i) PROVE T!TypeOK'
  <2>1. [slots[i] EXCEPT !.answer = T!Failed] \in T!Load
    BY <1>1, <1>4
  <2>2. slots' = [slots EXCEPT ![i] = [slots[i] EXCEPT !.answer = T!Failed]]
    BY <1>1, <1>12 DEF T!RequestFails
  <2>3. slots' \in [T!Slot -> T!Load]
    BY <1>1, <2>1, <2>2
  <2>4. changes' \in 0 .. MaxChanges
    BY <1>1, <1>2, <1>12 DEF T!RequestFails
  <2> QED
    BY <1>1, <1>3, <1>12, <2>3, <2>4 DEF T!RequestFails
<1>13. ASSUME NEW i \in T!Slot, T!Arrive(i) PROVE T!TypeOK'
  <2>1. ASSUME NEW load \in T!Load, T!Become(i, load) PROVE slots' \in [T!Slot -> T!Load]
    BY <1>1, <2>1 DEF T!Become
  <2>2. UNCHANGED <<server, changes, watching, timers>>
    BY <1>13 DEF T!Arrive
  <2>3. T!Idle \in T!Load
    BY IdleIsLoad
  <2>4. ASSUME T!FetchWorkers(i) PROVE slots' \in [T!Slot -> T!Load] /\ UNCHANGED <<store, stuck>>
    <3>1. (slots[i].answer = "standby") \in BOOLEAN
      BY Zenon
    <3>2. [step |-> "queue", answer |-> T!Unanswered, standby |-> slots[i].answer = "standby"] \in T!Load
      BY <3>1, Zenon DEF T!Load
    <3> QED
      BY <2>1, <2>4, <3>2 DEF T!FetchWorkers
  <2>5. ASSUME T!QueueStats(i) PROVE slots' \in [T!Slot -> T!Load] /\ store' \in Stores /\ stuck' \in BOOLEAN
    <3>1. stuck' \in BOOLEAN
      BY <1>1, <2>5, Zenon DEF T!QueueStats, T!SetStuck
    <3>2. (IF slots[i].answer \in {"empty", "full"} THEN "online" ELSE "offline") \in T!Service
      BY <1>5
    <3>3. store' \in Stores
      BY <1>1, <2>5, <3>2 DEF T!QueueStats
    <3> QED
      BY <2>1, <2>3, <2>5, <3>1, <3>3 DEF T!QueueStats
  <2>6. ASSUME T!DatabaseStatus(i) PROVE slots' \in [T!Slot -> T!Load] /\ store' \in Stores /\ UNCHANGED stuck
    <3>1. (IF slots[i].answer = "online" THEN "online" ELSE "offline") \in T!Service
      BY <1>5
    <3>2. store' \in Stores
      BY <1>1, <2>6, <3>1 DEF T!DatabaseStatus
    <3> QED
      BY <2>1, <2>3, <2>6, <3>2 DEF T!DatabaseStatus
  <2> QED
    BY <1>1, <1>3, <1>13, <2>2, <2>4, <2>5, <2>6 DEF T!Arrive
<1>14. ASSUME UNCHANGED T!vars PROVE T!TypeOK'
  BY <1>1, <1>3, <1>14 DEF T!vars
<1> QED
  BY <1>6, <1>7, <1>8, <1>9, <1>10, <1>11, <1>12, <1>13, <1>14 DEF T!Next

----------------------------------------------------------------------------
(* The notices of NotificationCenter.                                      *)

NoticesCounted == unread = N!Cardinality(list \ seen)

\* Of the notices a poll brings, those read are among those there are.
PollsFit == \A i \in N!Poll : fetched[i] \notin {N!Free, N!Sent} => fetched[i][2] \subseteq fetched[i][1]

NoticesInv == N!TypeOK /\ NoticesCounted /\ PollsFit

LEMMA NoticesCount == ASSUME NEW C PROVE N!Cardinality(C) = Cardinality(C)
BY DEF N!Cardinality, Cardinality

\* The count of unread notices is never more than there are notices.
LEMMA UnreadFits ==
  ASSUME NEW C \in SUBSET (Posted \cup Own), NEW D
  PROVE  /\ N!Cardinality(C \ D) \in 0 .. N!Cardinality(Posted \cup Own)
         /\ IsFiniteSet(C \ D)
PROOF
<1>1. IsFiniteSet(Posted) /\ IsFiniteSet(Own)
  BY PartsAssumption DEF N!NoticesAssumption, N!IsFiniteSet, IsFiniteSet
<1>2. IsFiniteSet(Posted \cup Own)
  BY <1>1, FS_Union
<1>3. C \ D \subseteq Posted \cup Own
  OBVIOUS
<1>4. /\ IsFiniteSet(C \ D) /\ Cardinality(C \ D) <= Cardinality(Posted \cup Own)
      /\ Cardinality(C \ D) \in Nat /\ Cardinality(Posted \cup Own) \in Nat
  BY <1>2, <1>3, FS_Subset, FS_CardinalityType
<1> QED
  BY <1>4, NoticesCount

LEMMA NoticesStart == ASSUME N!Init PROVE NoticesInv
PROOF
<1>1. NoticesCounted
  <2>1. list \ seen = {}
    BY DEF N!Init
  <2> QED
    BY <2>1, FS_EmptySet, NoticesCount DEF N!Init, NoticesCounted
<1>2. unread \in 0 .. N!Cardinality(Posted \cup Own)
  BY <1>1, UnreadFits DEF N!Init, NoticesCounted
<1>3. hidden \in BOOLEAN
  BY Zenon DEF N!Init
<1>4. PollsFit
  BY DEF N!Init, PollsFit
<1> QED
  BY <1>1, <1>2, <1>3, <1>4 DEF N!Init, NoticesInv, N!TypeOK

\* A poll is sent in a free slot, or none is.
LEMMA FetchedKeeps ==
  ASSUME N!TypeOK, PollsFit
  PROVE  /\ N!Fetched(fetched) \in [N!Poll -> {N!Free, N!Sent} \cup ((SUBSET Posted) \X (SUBSET Posted))]
         /\ \A i \in N!Poll : N!Fetched(fetched)[i] \notin {N!Free, N!Sent}
                                => N!Fetched(fetched)[i][2] \subseteq N!Fetched(fetched)[i][1]
PROOF
<1> DEFINE Polls == {N!Free, N!Sent} \cup ((SUBSET Posted) \X (SUBSET Posted))
           free == {i \in N!Poll : fetched[i] = N!Free}
           first == CHOOSE i \in free : \A j \in free : i <= j
<1>1. fetched \in [N!Poll -> Polls] /\ N!Sent \in Polls
  BY DEF N!TypeOK
<1>2. N!Fetched(fetched) = IF hidden \/ free = {} THEN fetched ELSE [fetched EXCEPT ![first] = N!Sent]
  BY DEF N!Fetched
<1> HIDE DEF Polls, free, first
<1>3. N!Fetched(fetched) \in [N!Poll -> Polls]
  BY <1>1, <1>2
<1>4. ASSUME NEW i \in N!Poll PROVE N!Fetched(fetched)[i] \in {fetched[i], N!Sent}
  BY <1>1, <1>2
<1> QED
  BY <1>3, <1>4 DEF Polls, PollsFit

LEMMA NoticesStep == ASSUME NoticesInv, [N!Next]_(N!vars) PROVE NoticesInv'
PROOF
<1> DEFINE All == Posted \cup Own
           Polls == {N!Free, N!Sent} \cup ((SUBSET Posted) \X (SUBSET Posted))
           ServerOK == notices \subseteq posted /\ posted \subseteq Posted /\ read \subseteq notices
           ShownOK  == list \subseteq All /\ seen \subseteq list /\ NoticesCounted
           PollsOK  == fetched \in [N!Poll -> Polls] /\ PollsFit
           RestOK   == /\ marks \subseteq All /\ clearing \in {"none", "sent", "served"}
                       /\ toasts \subseteq Own
<1>1. ServerOK /\ ShownOK /\ PollsOK /\ RestOK /\ hidden \in BOOLEAN
  BY DEF NoticesInv, N!TypeOK
<1>2. ASSUME ServerOK', ShownOK', PollsOK', RestOK', hidden' \in BOOLEAN PROVE NoticesInv'
  <2>1. unread' \in 0 .. N!Cardinality(All)
    BY <1>2, UnreadFits DEF NoticesCounted
  <2> QED
    BY <1>2, <2>1 DEF NoticesInv, N!TypeOK
<1>3. N!Free \in Polls /\ N!Sent \in Polls
  OBVIOUS
<1> HIDE DEF ServerOK, ShownOK, PollsOK, RestOK, Polls, All
<1>4. UNCHANGED N!remote => ServerOK'
  BY <1>1 DEF ServerOK, N!remote
<1>5. UNCHANGED N!shown => ShownOK'
  BY <1>1 DEF ShownOK, N!shown, NoticesCounted
<1>6. UNCHANGED fetched => PollsOK'
  BY <1>1 DEF PollsOK, PollsFit
<1>7. fetched' = N!Fetched(fetched) => PollsOK'
  <2>1. N!TypeOK /\ PollsFit
    BY DEF NoticesInv
  <2> QED
    BY <2>1, FetchedKeeps DEF PollsOK, PollsFit, Polls
<1>8. ASSUME NEW i \in N!Poll, NEW c \in Polls, fetched' = [fetched EXCEPT ![i] = c],
             c \notin {N!Free, N!Sent} => c[2] \subseteq c[1]
      PROVE  PollsOK'
  BY <1>1, <1>8 DEF PollsOK, PollsFit
<1>9. ASSUME NEW n \in Posted, N!Post(n) PROVE NoticesInv'
  <2>1. ServerOK'
    BY <1>1, <1>9 DEF ServerOK, N!Post
  <2> QED
    BY <1>1, <1>2, <1>5, <1>6, <1>9, <2>1 DEF N!Post, RestOK
<1>10. ASSUME NEW n \in All, N!addNotification(n) PROVE NoticesInv'
  <2>1. n \in Own /\ n \notin list /\ list' = list \cup {n} /\ seen' = seen /\ unread' = unread + 1
    BY <1>10 DEF N!addNotification
  <2>2. list' \ seen' = (list \ seen) \cup {n} /\ n \notin list \ seen
    BY <1>1, <2>1 DEF ShownOK
  <2>3. IsFiniteSet(list \ seen)
    BY <1>1, UnreadFits DEF ShownOK, All
  <2>4. NoticesCounted'
    BY <1>1, <2>1, <2>2, <2>3, FS_AddElement, NoticesCount DEF ShownOK, NoticesCounted
  <2>5. ShownOK'
    BY <1>1, <2>1, <2>4 DEF ShownOK, All
  <2>6. RestOK'
    BY <1>1, <1>10, <2>1 DEF RestOK, N!addNotification
  <2> QED
    BY <1>1, <1>2, <1>4, <1>6, <1>10, <2>5, <2>6 DEF N!addNotification
<1>11. ASSUME NEW n \in All, N!Dismiss(n) \/ N!markAsRead(n) PROVE NoticesInv'
  <2>1. RestOK'
    BY <1>1, <1>11 DEF RestOK, N!Dismiss, N!markAsRead
  <2> QED
    BY <1>1, <1>2, <1>4, <1>5, <1>6, <1>11, <2>1 DEF N!Dismiss, N!markAsRead
<1>12. ASSUME NEW n \in All, N!Marked(n) PROVE NoticesInv'
  <2>1. ServerOK'
    BY <1>1, <1>12 DEF ServerOK, N!Marked
  <2>2. PollsOK'
    BY <1>6, <1>7, <1>12 DEF N!Marked
  <2>3. RestOK'
    BY <1>1, <1>12 DEF RestOK, N!Marked
  <2> QED
    BY <1>1, <1>2, <1>5, <1>12, <2>1, <2>2, <2>3 DEF N!Marked
<1>13. ASSUME NEW i \in N!Poll, N!PollServed(i) PROVE NoticesInv'
  <2>1. <<notices, read>> \in Polls
    BY <1>1 DEF ServerOK, Polls
  <2>2. PollsOK'
    BY <1>1, <1>8, <1>13, <2>1 DEF ServerOK, N!PollServed
  <2> QED
    BY <1>1, <1>2, <1>4, <1>5, <1>13, <2>2 DEF N!PollServed, RestOK
<1>14. ASSUME NEW i \in N!Poll, N!PollArrives(i) PROVE NoticesInv'
  <2>1. fetched[i] \in (SUBSET Posted) \X (SUBSET Posted) /\ fetched[i][2] \subseteq fetched[i][1]
    BY <1>1, <1>14 DEF PollsOK, PollsFit, Polls, N!PollArrives
  <2>2. ShownOK'
    BY <1>14, <2>1 DEF ShownOK, NoticesCounted, All, N!PollArrives
  <2>3. PollsOK'
    BY <1>3, <1>8, <1>14 DEF N!PollArrives
  <2> QED
    BY <1>1, <1>2, <1>4, <1>14, <2>2, <2>3 DEF N!PollArrives, RestOK
<1>15. ASSUME NEW i \in N!Poll, N!PollFails(i) PROVE NoticesInv'
  <2>1. PollsOK'
    BY <1>3, <1>8, <1>15 DEF N!PollFails
  <2> QED
    BY <1>1, <1>2, <1>4, <1>5, <1>15, <2>1 DEF N!PollFails, RestOK
<1>16. ASSUME N!Interval PROVE NoticesInv'
  BY <1>1, <1>2, <1>4, <1>5, <1>7, <1>16 DEF N!Interval, RestOK
<1>17. ASSUME N!clearAll \/ N!ClearFails PROVE NoticesInv'
  <2>1. RestOK'
    BY <1>1, <1>17 DEF RestOK, N!clearAll, N!ClearFails
  <2> QED
    BY <1>1, <1>2, <1>4, <1>5, <1>6, <1>17, <2>1 DEF N!clearAll, N!ClearFails
<1>18. ASSUME N!ClearServed PROVE NoticesInv'
  <2>1. ServerOK' /\ RestOK'
    BY <1>1, <1>18 DEF ServerOK, RestOK, N!ClearServed
  <2> QED
    BY <1>1, <1>2, <1>5, <1>6, <1>18, <2>1 DEF N!ClearServed
<1>19. ASSUME N!Cleared PROVE NoticesInv'
  <2>1. list' \ seen' = {} /\ unread' = 0
    BY <1>19 DEF N!Cleared
  <2>2. ShownOK'
    BY <1>19, <2>1, FS_EmptySet, NoticesCount DEF ShownOK, NoticesCounted, N!Cleared
  <2>3. RestOK'
    BY <1>1, <1>19 DEF RestOK, N!Cleared
  <2> QED
    BY <1>1, <1>2, <1>4, <1>6, <1>19, <2>2, <2>3 DEF N!Cleared
<1>20. ASSUME N!Hide PROVE NoticesInv'
  <2>1. hidden' \in BOOLEAN
    BY <1>20, Zenon DEF N!Hide
  <2> QED
    BY <1>1, <1>2, <1>4, <1>5, <1>6, <1>20, <2>1 DEF N!Hide, RestOK
<1>21. ASSUME UNCHANGED N!vars PROVE NoticesInv'
  BY <1>1, <1>2, <1>4, <1>5, <1>6, <1>21 DEF N!vars, N!remote, N!shown, RestOK
<1> QED
  BY <1>9, <1>10, <1>11, <1>12, <1>13, <1>14, <1>15, <1>16, <1>17, <1>18, <1>19, <1>20, <1>21 DEF N!Next, All

----------------------------------------------------------------------------
(* The replay page of ReplayPage.                                          *)

\* The position is among the events shown, and events only come where a pipeline is selected.
PositionFits == events # P!Null /\ P!Count(events) > 0 => index \in -1 .. P!Count(events) - 1
SelectedKnown == events # P!Null \/ fetches # <<>> => replayed # P!Null

ReplayInv == P!TypeOK /\ PositionFits /\ SelectedKnown

\* What is recorded of a pipeline, and the positions in it.
LEMMA RecordedFacts ==
  /\ P!Null \notin DOMAIN Events /\ MaxFetched \in Nat
  /\ \A p \in DOMAIN Events :
       /\ Events[p] \in Seq(STRING \ {P!Null}) /\ P!Count(p) \in Nat /\ P!Count(p) = Len(Events[p])
       /\ \A i \in 0 .. P!Count(p) - 1 : i \in P!Position /\ <<p, i>> \in UNION {{q} \X (0 .. P!Count(q) - 1) : q \in DOMAIN Events}
  /\ \A i \in P!Position : i \in Nat
PROOF
<1>1. /\ P!Null \notin DOMAIN Events /\ MaxFetched \in Nat
      /\ \A p \in DOMAIN Events : Events[p] \in Seq(STRING \ {P!Null})
  BY PartsAssumption DEF P!ReplayAssumption
<1>2. \A p \in DOMAIN Events : P!Count(p) \in Nat /\ P!Count(p) = Len(Events[p])
  BY <1>1 DEF P!Count
<1>3. \A i \in P!Position : i \in Nat
  BY <1>2 DEF P!Position
<1>4. ASSUME NEW p \in DOMAIN Events, NEW i \in 0 .. P!Count(p) - 1
      PROVE  i \in P!Position /\ <<p, i>> \in UNION {{q} \X (0 .. P!Count(q) - 1) : q \in DOMAIN Events}
  BY DEF P!Position
<1> QED
  BY <1>1, <1>2, <1>3, <1>4

LEMMA ReplayStart == ASSUME P!Init PROVE ReplayInv
PROOF
<1>1. playing \in BOOLEAN /\ loading \in BOOLEAN /\ ~playing
  BY Zenon DEF P!Init
<1> QED
  BY <1>1, RecordedFacts DEF P!Init, ReplayInv, P!TypeOK, PositionFits, SelectedKnown

\* A state is asked for of the event shown then, and only of one that is recorded.
LEMMA ReconstructKeeps ==
  ASSUME ReplayInv, P!Reconstruct, events' \in DOMAIN Events \cup {P!Null}, index' \in P!Position \cup {-1},
         events' # P!Null => replayed' \in DOMAIN Events
  PROVE  rebuilt' \subseteq P!Rebuilt /\ asks' \subseteq P!Rebuilt
PROOF
<1> DEFINE ask == [of |-> replayed', at |-> <<events', index'>>]
<1>1. rebuilt \subseteq P!Rebuilt /\ asks \subseteq P!Rebuilt
  BY DEF ReplayInv, P!TypeOK
<1>2. \/ UNCHANGED <<rebuilt, asks>>
      \/ rebuilt' = {} /\ UNCHANGED asks
      \/ /\ ~(events' = P!Null \/ index' < 0)
         /\ asks' = (IF index' < P!Count(events)' THEN asks \cup {ask} ELSE asks)
         /\ UNCHANGED rebuilt
  BY DEF P!Reconstruct
<1>3. ASSUME ~(events' = P!Null \/ index' < 0), index' < P!Count(events)' PROVE ask \in P!Rebuilt
  <2>1. events' \in DOMAIN Events /\ P!Count(events)' = P!Count(events')
    BY <1>3 DEF P!Count
  <2>2. index' \in 0 .. P!Count(events') - 1
    BY <1>3, <2>1, RecordedFacts
  <2>3. <<events', index'>> \in UNION {{q} \X (0 .. P!Count(q) - 1) : q \in DOMAIN Events}
    BY <2>1, <2>2, RecordedFacts
  <2> QED
    BY <1>3, <2>3 DEF P!Rebuilt
<1> HIDE DEF ask
<1> QED
  BY <1>1, <1>2, <1>3

LEMMA ReplayStep == ASSUME ReplayInv, [P!Next]_(P!vars) PROVE ReplayInv'
PROOF
<1> DEFINE Pl == DOMAIN Events
           Picked == /\ pipelines \subseteq Pl /\ replayed \in Pl \cup {P!Null} /\ events \in Pl \cup {P!Null}
                     /\ fetches \in Seq(Pl) /\ Len(fetches) <= MaxFetched /\ SelectedKnown
           Placed == index \in P!Position \cup {-1} /\ PositionFits
           Asked  == rebuilt \subseteq P!Rebuilt /\ asks \subseteq P!Rebuilt
           Flags  == playing \in BOOLEAN /\ loading \in BOOLEAN
           Played == playing => events # P!Null
<1>1. Picked /\ Placed /\ Asked /\ Flags /\ Played
  BY DEF ReplayInv, P!TypeOK
<1>2. Picked' /\ Placed' /\ Asked' /\ Flags' /\ Played' => ReplayInv'
  BY DEF ReplayInv, P!TypeOK
<1>3. P!Null \notin Pl /\ MaxFetched \in Nat
  BY RecordedFacts
<1>4. events # P!Null => replayed \in Pl
  BY <1>1 DEF SelectedKnown
<1> HIDE DEF Picked, Placed, Asked, Flags, Played, Pl
<1>5. ASSUME NEW p \in Pl, replayed' = p, pipelines' \subseteq Pl, P!Load(p) PROVE ReplayInv'
  <2>1. fetches' \in Seq(Pl) /\ Len(fetches') <= MaxFetched
    BY <1>1, <1>3, <1>5 DEF Picked, P!Load
  <2>2. Picked'
    BY <1>1, <1>3, <1>5, <2>1 DEF Picked, SelectedKnown, P!Load
  <2>3. Flags' /\ ~playing'
    BY <1>5, Zenon DEF Flags, P!Load
  <2>4. Placed'
    <3>1. index' = -1 /\ events' = events
      BY <1>5 DEF P!Load
    <3>2. events # P!Null => P!Count(events) \in Nat
      BY <1>1, RecordedFacts DEF Picked, Pl
    <3> QED
      BY <3>1, <3>2 DEF Placed, PositionFits, P!Count
  <2>5. Asked'
    BY <1>1, <1>5 DEF Asked, P!Load
  <2> QED
    BY <1>2, <2>2, <2>3, <2>4, <2>5 DEF Played
<1>6. ASSUME P!loadPipelines PROVE ReplayInv'
  <2>1. CASE replayed = P!Null
    BY <1>5, <1>6, <2>1 DEF P!loadPipelines, Pl
  <2>2. CASE replayed # P!Null
    <3>1. /\ pipelines' \subseteq Pl
          /\ UNCHANGED <<replayed, events, index, playing, loading, fetches, rebuilt, asks>>
      BY <1>6, <2>2 DEF P!loadPipelines, Pl
    <3> QED
      BY <1>1, <1>2, <3>1 DEF Picked, SelectedKnown, Placed, PositionFits, Asked, Flags, Played, P!Count
  <2> QED
    BY <2>1, <2>2
<1>7. ASSUME NEW p \in DOMAIN Events, P!Select(p) PROVE ReplayInv'
  BY <1>1, <1>5, <1>7 DEF P!Select, Picked, Pl
<1>8. ASSUME P!Sync PROVE ReplayInv'
  BY <1>1, <1>5, <1>8 DEF P!Sync, Picked
\* An answer is taken off the loads under way.
<1>9. ASSUME NEW i \in DOMAIN fetches, fetches' = P!Without(fetches, i)
      PROVE  fetches' \in Seq(Pl) /\ Len(fetches') <= MaxFetched /\ fetches[i] \in Pl /\ fetches # <<>> /\ replayed \in Pl
  <2>1. fetches \in Seq(Pl) /\ Len(fetches) <= MaxFetched /\ Len(fetches) \in Nat
    BY <1>1 DEF Picked
  <2>2. fetches' = SubSeq(fetches, 1, i - 1) \o SubSeq(fetches, i + 1, Len(fetches))
    BY <1>9 DEF P!Without
  <2>3. fetches' \in Seq(Pl) /\ Len(fetches') = Len(fetches) - 1
    BY <2>1, <2>2, TakenOut
  <2>4. fetches[i] \in Pl /\ fetches # <<>>
    BY <2>1
  <2> QED
    BY <1>1, <1>3, <2>1, <2>3, <2>4 DEF Picked, SelectedKnown
<1>10. ASSUME NEW i \in 1 .. MaxFetched, P!DetailsArrive(i) PROVE ReplayInv'
  <2>1. /\ i \in DOMAIN fetches /\ fetches' = P!Without(fetches, i) /\ events' = fetches[i]
        /\ index' = (IF P!Count(fetches[i]) > 0 THEN P!Count(fetches[i]) - 1 ELSE index)
        /\ UNCHANGED <<pipelines, replayed, playing>> /\ P!Reconstruct /\ loading' = FALSE
    BY <1>10 DEF P!DetailsArrive
  <2>2. fetches' \in Seq(Pl) /\ Len(fetches') <= MaxFetched /\ fetches[i] \in Pl /\ replayed \in Pl
    BY <1>9, <2>1
  <2>3. Picked'
    BY <1>1, <1>3, <2>1, <2>2 DEF Picked, SelectedKnown
  <2>4. Placed'
    <3>1. P!Count(fetches[i]) \in Nat
      BY <2>2, RecordedFacts DEF Pl
    <3>2. CASE P!Count(fetches[i]) > 0
      <4>1. index' \in 0 .. P!Count(fetches[i]) - 1
        BY <2>1, <3>1, <3>2
      <4>2. index' \in P!Position
        BY <2>2, <4>1, RecordedFacts DEF Pl
      <4> QED
        BY <2>1, <3>1, <4>1, <4>2 DEF Placed, PositionFits, P!Count
    <3>3. CASE ~(P!Count(fetches[i]) > 0)
      BY <1>1, <2>1, <3>3 DEF Placed, PositionFits, P!Count
    <3> QED
      BY <3>2, <3>3
  <2>5. Asked'
    BY <1>3, <2>1, <2>2, <2>3, <2>4, ReconstructKeeps DEF Asked, Picked, Placed, Pl
  <2>6. Flags'
    BY <1>1, <2>1, Zenon DEF Flags
  <2>7. Played'
    BY <1>3, <2>1, <2>2 DEF Played
  <2> QED
    BY <1>2, <2>3, <2>4, <2>5, <2>6, <2>7
<1>11. ASSUME NEW i \in 1 .. MaxFetched, P!DetailsFail(i) PROVE ReplayInv'
  <2>1. /\ i \in DOMAIN fetches /\ fetches' = P!Without(fetches, i) /\ loading' = FALSE
        /\ UNCHANGED <<pipelines, replayed, events, index, playing, rebuilt, asks>>
    BY <1>11 DEF P!DetailsFail
  <2>2. Picked'
    BY <1>1, <1>3, <1>9, <2>1 DEF Picked, SelectedKnown
  <2>3. Flags'
    BY <1>1, <2>1, Zenon DEF Flags
  <2> QED
    BY <1>1, <1>2, <2>1, <2>2, <2>3 DEF Placed, PositionFits, Asked, Played, P!Count
<1>12. ASSUME NEW a \in asks, P!StateArrives(a) PROVE ReplayInv'
  <2>1. Asked'
    BY <1>1, <1>12 DEF Asked, P!StateArrives
  <2> QED
    BY <1>1, <1>2, <1>12, <2>1 DEF P!StateArrives, Picked, SelectedKnown, Placed, PositionFits, Flags, Played, P!Count
\* A move within the events shown, or none.
<1>13. ASSUME NEW i, P!MoveTo(i), playing' \in BOOLEAN, playing' => playing,
              i = index \/ (events # P!Null /\ i \in 0 .. P!Count(events) - 1)
       PROVE  ReplayInv'
  <2>1. index' = i /\ UNCHANGED <<pipelines, replayed, events, loading, fetches>> /\ P!Reconstruct
    BY <1>13 DEF P!MoveTo
  <2>2. Placed'
    <3>1. CASE i = index
      BY <1>1, <2>1, <3>1 DEF Placed, PositionFits, P!Count
    <3>2. CASE events # P!Null /\ i \in 0 .. P!Count(events) - 1
      <4>1. events \in Pl /\ P!Count(events) \in Nat
        BY <1>1, <3>2, RecordedFacts DEF Picked, Pl
      <4>2. i \in P!Position
        BY <3>2, <4>1, RecordedFacts DEF Pl
      <4> QED
        BY <2>1, <3>2, <4>1, <4>2 DEF Placed, PositionFits, P!Count
    <3> QED
      BY <1>13, <3>1, <3>2
  <2>3. Picked'
    BY <1>1, <2>1 DEF Picked, SelectedKnown
  <2>4. Asked'
    BY <1>4, <2>1, <2>2, <2>3, ReconstructKeeps DEF Asked, Picked, Placed, Pl
  <2>5. Flags' /\ Played'
    BY <1>1, <1>13, <2>1 DEF Flags, Played
  <2> QED
    BY <1>2, <2>2, <2>3, <2>4, <2>5
<1>14. P!Shown => events \in Pl /\ P!Count(events) \in Nat /\ index \in -1 .. P!Count(events) - 1 /\ P!Count(events) > 0
  BY <1>1, RecordedFacts DEF P!Shown, Picked, Placed, PositionFits, Pl
<1>15. ASSUME P!Tick PROVE ReplayInv'
  <2>1. events \in Pl /\ P!Count(events) \in Nat /\ events # P!Null
    BY <1>1, <1>3, <1>15, RecordedFacts DEF P!Tick, Played, Picked, Pl
  <2>2. CASE index >= P!Count(events) - 1
    <3>1. playing' = FALSE /\ P!MoveTo(index)
      BY <1>15, <2>2 DEF P!Tick
    <3>2. playing' \in BOOLEAN
      BY <3>1, Zenon
    <3> QED
      BY <1>13, <3>1, <3>2
  <2>3. CASE ~(index >= P!Count(events) - 1)
    <3>1. UNCHANGED playing /\ P!MoveTo(index + 1)
      BY <1>15, <2>3 DEF P!Tick
    <3>2. index \in Nat \cup {-1}
      BY <1>1, RecordedFacts DEF Placed
    <3>3. index + 1 \in 0 .. P!Count(events) - 1
      BY <2>1, <2>3, <3>2
    <3>4. playing' \in BOOLEAN
      BY <1>1, <3>1, Zenon DEF Flags
    <3> QED
      BY <1>13, <2>1, <3>1, <3>3, <3>4
  <2> QED
    BY <2>2, <2>3
<1>16. ASSUME P!handlePlayToggle PROVE ReplayInv'
  <2>1. Flags' /\ UNCHANGED <<pipelines, replayed, events, index, loading, fetches, rebuilt, asks>>
    BY <1>1, <1>16, Zenon DEF P!handlePlayToggle, Flags
  <2>2. Played'
    BY <1>16 DEF P!handlePlayToggle, P!Shown, Played
  <2> QED
    BY <1>1, <1>2, <2>1, <2>2 DEF Picked, SelectedKnown, Placed, PositionFits, Asked, P!Count
<1>17. ASSUME NEW i, P!Shown, i \in 0 .. P!Count(events) - 1, playing' = FALSE, P!MoveTo(i) PROVE ReplayInv'
  <2>1. playing' \in BOOLEAN
    BY <1>17, Zenon
  <2>2. events # P!Null
    BY <1>17 DEF P!Shown
  <2> QED
    BY <1>13, <1>17, <2>1, <2>2
<1>18. ASSUME P!handleStepForward \/ P!handleStepBackward \/ P!handleResetReplay PROVE ReplayInv'
  <2>1. CASE P!handleStepForward
    <3>1. index + 1 \in 0 .. P!Count(events) - 1
      BY <1>14, <2>1 DEF P!handleStepForward
    <3> QED
      BY <1>17, <2>1, <3>1 DEF P!handleStepForward
  <2>2. CASE P!handleStepBackward
    <3>1. index - 1 \in 0 .. P!Count(events) - 1
      BY <1>14, <2>2 DEF P!handleStepBackward
    <3> QED
      BY <1>17, <2>2, <3>1 DEF P!handleStepBackward
  <2>3. CASE P!handleResetReplay
    <3>1. 0 \in 0 .. P!Count(events) - 1
      BY <1>14, <2>3 DEF P!handleResetReplay
    <3> QED
      BY <1>17, <2>3, <3>1 DEF P!handleResetReplay
  <2> QED
    BY <1>18, <2>1, <2>2, <2>3
<1>19. ASSUME NEW i \in P!Position, P!Scrub(i) PROVE ReplayInv'
  BY <1>17, <1>19 DEF P!Scrub
<1>20. ASSUME UNCHANGED P!vars PROVE ReplayInv'
  BY <1>1, <1>2, <1>20 DEF P!vars, Picked, SelectedKnown, Placed, PositionFits, Asked, Flags, Played, P!Count
<1> QED
  BY <1>6, <1>7, <1>8, <1>10, <1>11, <1>12, <1>15, <1>16, <1>18, <1>19, <1>20 DEF P!Next

LEMMA PositionIsShown == ASSUME ReplayInv PROVE P!PositionExists
PROOF
<1> SUFFICES ASSUME P!Shown, index # -1 PROVE P!Active = {index} /\ P!Inspected # P!Null
  BY DEF P!PositionExists
<1>1. events \in DOMAIN Events /\ events # P!Null
  BY DEF P!Shown, ReplayInv, P!TypeOK
<1>2. /\ P!Count(events) \in Nat /\ P!Count(events) = Len(Events[events])
      /\ Events[events] \in Seq(STRING \ {P!Null})
  BY <1>1, RecordedFacts
<1>3. index \in 0 .. P!Count(events) - 1
  BY <1>1, <1>2 DEF P!Shown, ReplayInv, PositionFits
<1>4. index + 1 \in 1 .. Len(Events[events])
  BY <1>2, <1>3
<1>5. Events[events][index + 1] \in STRING \ {P!Null}
  BY <1>2, <1>4
<1>6. P!Inspected = Events[events][index + 1]
  BY <1>2, <1>3 DEF P!Inspected
<1> QED
  BY <1>3, <1>5, <1>6 DEF P!Active, P!Marks

\* The marks of a kind are as many as the events of it.
LEMMA MarksAreEvents ==
  ASSUME NEW C, NEW s \in Seq(C), NEW D
  PROVE  /\ IsFiniteSet({i \in DOMAIN s : s[i] \in D})
         /\ Cardinality({i \in 0 .. Len(s) - 1 : s[i + 1] \in D}) = Cardinality({i \in DOMAIN s : s[i] \in D})
PROOF
<1> DEFINE n == Len(s)
           marked == {i \in 0 .. n - 1 : s[i + 1] \in D}
           there == {i \in 1 .. n : s[i] \in D}
           next == [i \in marked |-> i + 1]
<1>1. n \in Nat /\ DOMAIN s = 1 .. n
  OBVIOUS
<1> HIDE DEF n
<1>2. IsFiniteSet(marked) /\ IsFiniteSet(there)
  <2>1. IsFiniteSet(0 .. n - 1) /\ IsFiniteSet(1 .. n)
    BY <1>1, FS_Interval
  <2> QED
    BY <2>1, FS_Subset
<1>3. next \in [marked -> there]
  BY <1>1
<1>4. \A i, j \in marked : next[i] = next[j] => i = j
  BY <1>1
<1>5. ASSUME NEW j \in there PROVE \E i \in marked : next[i] = j
  <2>1. j - 1 \in marked /\ (j - 1) + 1 = j
    BY <1>1
  <2>2. next[j - 1] = j
    BY <2>1
  <2> QED
    BY <2>1, <2>2
<1> HIDE DEF next, marked, there
<1>6. next \in Bijection(marked, there)
  BY <1>3, <1>4, <1>5 DEF Bijection, Injection, Surjection, IsInjective
<1>7. Cardinality(there) = Cardinality(marked)
  BY <1>2, <1>6, FS_Bijection DEF ExistsBijection
<1> QED
  BY <1>1, <1>2, <1>7 DEF n, marked, there

LEMMA ReplayCount == ASSUME NEW C PROVE P!Cardinality(C) = Cardinality(C)
BY DEF P!Cardinality, Cardinality

LEMMA StatsAreOfMarks == ASSUME ReplayInv PROVE P!StatsAgree
PROOF
<1> SUFFICES ASSUME P!Shown PROVE P!StatsAgree
  BY DEF P!StatsAgree
<1> DEFINE s == Events[events]
           Of(types) == {i \in DOMAIN s : s[i] \in types}
           marked(colours) == {i \in P!Marks : P!Category(s[i + 1]) \in colours}
           Amber == {"task_recovered", "task_retry", "lease_expired"}
<1>1. events \in DOMAIN Events /\ events # P!Null
  BY DEF P!Shown, ReplayInv, P!TypeOK
<1>2. s \in Seq(STRING \ {P!Null}) /\ P!Marks = 0 .. Len(s) - 1
  BY <1>1, RecordedFacts DEF P!Marks
<1> HIDE DEF s
<1>3. \A type \in STRING : /\ P!Category(type) = "amber" <=> type \in Amber
                           /\ P!Category(type) = "red" <=> type \in {"task_failed", "stale_worker_update_rejected"}
  BY DEF P!Category
<1>4. \A i \in P!Marks : s[i + 1] \in STRING /\ i + 1 \in DOMAIN s
  BY <1>2
<1>5. marked({"amber"}) = {i \in 0 .. Len(s) - 1 : s[i + 1] \in Amber}
  BY <1>2, <1>3, <1>4
<1>6. \A type : P!Number(type) = Cardinality(Of({type})) /\ IsFiniteSet(Of({type}))
  <2>1. ASSUME NEW type PROVE P!Number(type) = Cardinality(Of({type}))
    <3>1. {i \in DOMAIN s : s[i] = type} = Of({type})
      OBVIOUS
    <3> QED
      BY <3>1, ReplayCount DEF P!Number, s
  <2>2. ASSUME NEW type PROVE IsFiniteSet(Of({type}))
    BY <1>2, MarksAreEvents
  <2> QED
    BY <2>1, <2>2
<1> HIDE DEF Of
<1>7. Cardinality(Of(Amber)) = P!Number("lease_expired") + P!Number("task_recovered") + P!Number("task_retry")
  <2> DEFINE a == Of({"lease_expired"})  b == Of({"task_recovered"})  c == Of({"task_retry"})
  <2>1. Of(Amber) = (a \cup b) \cup c
    BY DEF Of
  <2>2. a \cap b = {} /\ (a \cup b) \cap c = {}
    BY DEF Of
  <2>3. IsFiniteSet(a) /\ IsFiniteSet(b) /\ IsFiniteSet(c)
    BY <1>6
  <2>4. P!Number("lease_expired") = Cardinality(a) /\ P!Number("task_recovered") = Cardinality(b) /\ P!Number("task_retry") = Cardinality(c)
    BY <1>6
  <2> HIDE DEF a, b, c
  <2>5. Cardinality({}) = 0
    BY FS_EmptySet
  <2>6. IsFiniteSet(a \cup b) /\ Cardinality(a \cup b) = Cardinality(a) + Cardinality(b) - Cardinality({})
    BY <2>2, <2>3, FS_Union
  <2>7. Cardinality((a \cup b) \cup c) = Cardinality(a \cup b) + Cardinality(c) - Cardinality({})
    BY <2>2, <2>3, <2>6, FS_Union
  <2>8. Cardinality(a) \in Nat /\ Cardinality(b) \in Nat /\ Cardinality(c) \in Nat
    BY <2>3, FS_CardinalityType
  <2>9. Cardinality((a \cup b) \cup c) = Cardinality(a) + Cardinality(b) + Cardinality(c)
    BY <2>5, <2>6, <2>7, <2>8
  <2> QED
    BY <2>1, <2>4, <2>9
<1>8. P!Cardinality(marked({"amber"})) = P!Stats.lost + P!Stats.recovered + P!Stats.retried
  <2>1. Cardinality({i \in 0 .. Len(s) - 1 : s[i + 1] \in Amber}) = Cardinality(Of(Amber))
    <3> HIDE DEF Amber
    <3> QED
      BY <1>2, MarksAreEvents DEF Of
  <2>2. P!Cardinality(marked({"amber"})) = Cardinality(Of(Amber))
    BY <1>5, <2>1, ReplayCount
  <2>3. P!Stats.lost = P!Number("lease_expired") /\ P!Stats.recovered = P!Number("task_recovered") /\ P!Stats.retried = P!Number("task_retry")
    BY DEF P!Stats
  <2> QED
    BY <1>7, <2>2, <2>3
<1>9. P!Stats.clean = (\A i \in marked({"amber", "red"}) :
        s[i + 1] \in {"task_retry", "task_recovered", "stale_worker_update_rejected"})
  <2>1. \A type : P!Number(type) = 0 <=> \A j \in DOMAIN s : s[j] # type
    <3>1. ASSUME NEW type PROVE Of({type}) = {} <=> \A j \in DOMAIN s : s[j] # type
      BY DEF Of
    <3>2. ASSUME NEW type PROVE Cardinality(Of({type})) = 0 <=> Of({type}) = {}
      BY <1>6, FS_EmptySet
    <3> QED
      BY <1>6, <3>1, <3>2
  <2>2. \A j \in DOMAIN s : j - 1 \in P!Marks /\ (j - 1) + 1 = j
    BY <1>2
  <2>3. \A i \in P!Marks : i \in marked({"amber", "red"})
          <=> s[i + 1] \in Amber \cup {"task_failed", "stale_worker_update_rejected"}
    BY <1>3, <1>4
  <2>4. P!Stats.clean = (P!Number("task_failed") = 0 /\ P!Number("lease_expired") = 0)
    BY DEF P!Stats
  <2>5. (\A i \in marked({"amber", "red"}) : s[i + 1] \in {"task_retry", "task_recovered", "stale_worker_update_rejected"})
          <=> \A i \in P!Marks : s[i + 1] # "task_failed" /\ s[i + 1] # "lease_expired"
    BY <2>3
  <2>6. (\A i \in P!Marks : s[i + 1] # "task_failed" /\ s[i + 1] # "lease_expired")
          <=> \A j \in DOMAIN s : s[j] # "task_failed" /\ s[j] # "lease_expired"
    BY <1>4, <2>2
  <2>7. (P!Number("task_failed") = 0 /\ P!Number("lease_expired") = 0)
          <=> \A i \in marked({"amber", "red"}) : s[i + 1] \in {"task_retry", "task_recovered", "stale_worker_update_rejected"}
    BY <2>1, <2>5, <2>6
  <2> QED
    BY <2>4, <2>7, Zenon
<1> QED
  BY <1>8, <1>9 DEF P!StatsAgree, s

----------------------------------------------------------------------------
(* The parts, each by itself.                                              *)

\* The reading pane: its types, and something is said of the open document through every
\* load, retry and selection (handleLoadPdf).
THEOREM PaneAlways == Spec => [](TypeOK /\ PreviewTells)
PROOF
<1>1. Init => PaneInv
  BY PaneInit
<1>2. PaneInv /\ [Next]_vars => PaneInv'
  BY PaneStep
<1>3. PaneInv => TypeOK /\ PreviewTells
  BY PaneGives DEF PaneInv
<1> QED
  BY <1>1, <1>2, <1>3, PTL DEF Spec

\* The shell: its types, and a developer view is only shown in developer mode or when the
\* palette was asked for it (toggleDevMode), for any number of overlays.
THEOREM ShellAlways == S!Spec => []ShellInv
PROOF
<1>1. S!Init => ShellInv
  BY ShellStarts
<1>2. ShellInv /\ [S!Next]_(S!vars) => ShellInv'
  BY ShellStep
<1> QED
  BY <1>1, <1>2, PTL DEF S!Spec

LEMMA RequestsAlways == R!Spec => []R!TypeOK
PROOF
<1>1. R!Init => R!TypeOK
  BY RequestsStart
<1>2. R!TypeOK /\ [R!Next]_(R!vars) => R!TypeOK'
  BY RequestsStep
<1> QED
  BY <1>1, <1>2, PTL DEF R!Spec

LEMMA PollingAlways == T!Spec => []T!TypeOK
PROOF
<1>1. T!Init => T!TypeOK
  BY PollingStart
<1>2. T!TypeOK /\ [T!Next]_(T!vars) => T!TypeOK'
  BY PollingStep
<1> QED
  BY <1>1, <1>2, PTL DEF T!Spec

\* The notices: their types, and the counter on the bell is the number of unread lines of
\* the drawer through polls, marks, clearings and the client's own notices
\* (NotificationContext.js), for any notices and any number of polls.
THEOREM NoticesAlways == N!Spec => []NoticesInv
PROOF
<1>1. N!Init => NoticesInv
  BY NoticesStart
<1>2. NoticesInv /\ [N!Next]_(N!vars) => NoticesInv'
  BY NoticesStep
<1> QED
  BY <1>1, <1>2, PTL DEF N!Spec

\* The replay page: its types, the position is one of the events shown, and the summary
\* counts the marks of the track, whatever is recorded and in whichever order loads end.
THEOREM ReplayAlways == P!Spec => [](P!TypeOK /\ P!PositionExists /\ P!StatsAgree)
PROOF
<1>1. P!Init => ReplayInv
  BY ReplayStart
<1>2. ReplayInv /\ [P!Next]_(P!vars) => ReplayInv'
  BY ReplayStep
<1>3. ReplayInv => P!TypeOK /\ P!PositionExists /\ P!StatsAgree
  BY PositionIsShown, StatsAreOfMarks DEF ReplayInv
<1> QED
  BY <1>1, <1>2, <1>3, PTL DEF P!Spec

----------------------------------------------------------------------------
(* The parts together.                                                     *)

\* Each part of the composition behaves as its own module says.
THEOREM PartsKeepTheirSpecs ==
  AllSpec => Spec /\ A!Spec /\ S!Spec /\ R!Spec /\ T!Spec /\ N!Spec /\ P!Spec
PROOF
<1>1. AllInit => Init /\ A!Init /\ S!Init /\ R!Init /\ T!Init /\ N!Init /\ P!Init
  BY DEF AllInit
<1>2. [AllNext]_allVars =>
        /\ [Next]_vars /\ [A!Next]_(A!vars) /\ [S!Next]_(S!vars) /\ [R!Next]_(R!vars)
        /\ [T!Next]_(T!vars) /\ [N!Next]_(N!vars) /\ [P!Next]_(P!vars)
  <2>1. /\ UNCHANGED sessionVars => UNCHANGED A!vars
        /\ UNCHANGED shellVars => UNCHANGED S!vars
        /\ UNCHANGED requestVars => UNCHANGED R!vars
        /\ UNCHANGED pollingVars => UNCHANGED T!vars
        /\ UNCHANGED noticeVars => UNCHANGED N!vars
        /\ UNCHANGED replayVars => UNCHANGED P!vars
    BY DEF sessionVars, shellVars, requestVars, pollingVars, noticeVars, replayVars,
           A!vars, S!vars, R!vars, T!vars, N!vars, P!vars
  <2> QED
    BY <2>1 DEF AllNext, Reading, Session, Shell, Requests, Polling, Notices, Replay, allVars
<1> QED
  BY <1>1, <1>2, PTL DEF AllSpec, Spec, A!Spec, S!Spec, R!Spec, T!Spec, N!Spec, P!Spec

\* Every variable of the client's parts keeps its type; in particular no two accounts are
\* registered under one name, and no counter or position leaves its range.
THEOREM AllTypeOKAlways == AllSpec => []AllTypeOK
PROOF
<1>1. ShellInv => S!TypeOK
  BY DEF ShellInv
<1>2. NoticesInv => N!TypeOK
  BY DEF NoticesInv
<1>3. TypeOK /\ A!TypeOK /\ S!TypeOK /\ R!TypeOK /\ T!TypeOK /\ N!TypeOK /\ P!TypeOK => AllTypeOK
  BY DEF AllTypeOK
<1> QED
  BY <1>1, <1>2, <1>3, PartsKeepTheirSpecs, PaneAlways, SessionAlways, ShellAlways, RequestsAlways,
     PollingAlways, NoticesAlways, ReplayAlways, PTL

\* What is on the screen is there and may be: something of the open document, an event of
\* the replay and a summary that counts its marks, a developer view only where it may be
\* shown; for any documents, recorded events and bounds.
THEOREM ShownExistsAlways == AllSpec => []ShownExists
PROOF
<1>1. ShellInv => S!DevViewsFollowMode
  BY DEF ShellInv
<1>2. PreviewTells /\ P!PositionExists /\ P!StatsAgree /\ S!DevViewsFollowMode => ShownExists
  BY DEF ShownExists
<1> QED
  BY <1>1, <1>2, PartsKeepTheirSpecs, PaneAlways, ShellAlways, ReplayAlways, PTL

\* A signed-in tab whose stored token no other tab replaced or removed finds its own
\* session again after a reload, with the other parts beside it.
THEOREM KeptOnReloadAlways == AllSpec => []KeptOnReload
PROOF
<1>1. A!KeptOnReload => KeptOnReload
  BY DEF KeptOnReload
<1> QED
  BY <1>1, PartsKeepTheirSpecs, SessionAlways, PTL

\* The chat, with the other parts beside it: no reply is left streaming with nothing to
\* end it, and none that has ended by itself is changed.
THEOREM ChatAlways == AllSpec => []StreamingHasSource /\ AnswersAreFinal
BY PartsKeepTheirSpecs, StreamingHasSourceAlways, AnswersAreFinalAlways, PTL
=============================================================================
