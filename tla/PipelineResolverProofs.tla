----------------------- MODULE PipelineResolverProofs -----------------------
(* For every DAG, every overlap of transactions and every number of user    *)
(* requests: no task is run before its parents, and a pipeline reported     *)
(* completed is.                                                            *)
EXTENDS PipelineResolver, FiniteSetTheorems, TLAPS

----------------------------------------------------------------------------
(* What the resolver's operators return.                                   *)

LEMMA MarkedLemma ==
  ASSUME NEW v \in View, NEW From
  PROVE  \A m \in Marked(v, From) : m \in Node /\ v.status[m] \in {"pending", "blocked"}
  BY DEF Marked

LEMMA MarkBlockedLemma ==
  ASSUME NEW v \in View, NEW S
  PROVE  /\ MarkBlocked(v, S) \in View
         /\ MarkBlocked(v, S).pipeline = v.pipeline
         /\ \A m \in Node :
              /\ m \in S => /\ MarkBlocked(v, S).status[m] = "blocked"
                            /\ MarkBlocked(v, S).reason[m] = "upstream"
              /\ m \notin S => /\ MarkBlocked(v, S).status[m] = v.status[m]
                               /\ MarkBlocked(v, S).reason[m] = v.reason[m]
  BY DEF MarkBlocked, View, TaskStatus, Reason

LEMMA PutLemma ==
  ASSUME NEW v \in View, NEW n \in Node, NEW s \in TaskStatus
  PROVE  /\ Put(v, n, s) \in View
         /\ Put(v, n, s).pipeline = v.pipeline
         /\ Put(v, n, s).reason = v.reason
         /\ \A m \in Node : Put(v, n, s).status[m] = IF m = n THEN s ELSE v.status[m]
  BY DEF Put, View

LEMMA RolledUpLemma ==
  ASSUME NEW w \in View, NEW raw
  PROVE  /\ RolledUp(w, raw) \in View
         /\ RolledUp(w, raw).status = w.status
         /\ RolledUp(w, raw).reason = w.reason
         /\ RolledUp(w, raw).pipeline = "completed" => \A m \in Node : w.status[m] = "completed"
  BY DEF RolledUp, RollUp, View, PipelineStatus

LEMMA ReadyLemma ==
  ASSUME NEW v \in View, NEW n \in Node
  PROVE  /\ Ready(v, n) \subseteq Children(v, n)
         /\ Children(v, n) \subseteq Node
         /\ \A m \in Children(v, n) : v.status[m] \in {"pending", "blocked"}
         /\ \A m \in Ready(v, n) : \A p \in Parents[m] : v.status[p] = "completed"
  BY DEF Ready, Children

LEMMA ReleaseLemma ==
  ASSUME NEW v \in View, NEW n \in Node, NEW D
  PROVE  /\ Release(v, n, D) \in View
         /\ Release(v, n, D).pipeline = v.pipeline
         /\ \A m \in Node \ Ready(v, n) :
              /\ Release(v, n, D).status[m] = v.status[m]
              /\ Release(v, n, D).reason[m] = v.reason[m]
         /\ \A m \in Ready(v, n) : Release(v, n, D).status[m] \in {"pending", "blocked"}
  <1>1. Ready(v, n) \subseteq Node
    BY ReadyLemma
  <1>2. /\ v.status \in [Node -> TaskStatus] /\ v.reason \in [Node -> Reason]
        /\ v.pipeline \in PipelineStatus
        /\ v = [status |-> v.status, reason |-> v.reason, pipeline |-> v.pipeline]
    BY DEF View
  <1> QED
    BY <1>1, <1>2 DEF Release, View, TaskStatus, Reason

\* What a handler changes on a task other than its own: it marks it blocked, or
\* it releases (or defers) it because its parents are completed.
Left(v, w, n, h, m) ==
  \/ w.status[m] = v.status[m] /\ w.reason[m] = v.reason[m]
  \/ w.status[m] = "blocked" /\ w.reason[m] = "upstream"
  \/ h = "complete" /\ \A p \in Parents[m] : p = n \/ v.status[p] = "completed"

LEMMA ResolveLemma ==
  ASSUME GraphAssumption, NEW v \in View, NEW n \in Node, NEW D, NEW H \in SUBSET Children(v, n),
         v.status[n] = "completed"
  PROVE  LET w == Resolve(v, n, D, H) IN
         /\ w \in View
         /\ \A m \in Node : w.status[m] = "completed" <=> v.status[m] = "completed"
         /\ \A m \in Node : Left(v, w, n, "complete", m)
  <1> DEFINE r == Release(v, n, D)
             S == H \cup Marked(r, H)
             w == MarkBlocked(r, S)
  <1>1. /\ r \in View
        /\ \A m \in Node \ Ready(v, n) : r.status[m] = v.status[m] /\ r.reason[m] = v.reason[m]
        /\ \A m \in Ready(v, n) : r.status[m] \in {"pending", "blocked"}
    BY ReleaseLemma
  <1>2. /\ \A m \in Children(v, n) : m \in Node /\ v.status[m] \in {"pending", "blocked"}
        /\ \A m \in Ready(v, n) : /\ m \in Children(v, n)
                                  /\ \A p \in Parents[m] : v.status[p] = "completed"
    BY ReadyLemma
  <1>3. \A m \in S : m \in Node /\ r.status[m] # "completed"
    BY <1>1, <1>2, MarkedLemma
  <1>4. w \in View /\ \A m \in Node :
           /\ m \in S => w.status[m] = "blocked" /\ w.reason[m] = "upstream"
           /\ m \notin S => w.status[m] = r.status[m] /\ w.reason[m] = r.reason[m]
    <2> HIDE DEF r, S
    <2> QED BY <1>1, MarkBlockedLemma
  <1>5. Resolve(v, n, D, H) = w
    BY DEF Resolve
  <1> HIDE DEF r, S, w
  <1>6. ASSUME NEW m \in Node
        PROVE  (w.status[m] = "completed" <=> v.status[m] = "completed") /\ Left(v, w, n, "complete", m)
    <2>1. CASE m \in S
      BY <2>1, <1>1, <1>2, <1>3, <1>4 DEF Left
    <2>2. CASE m \notin S
      BY <2>2, <1>1, <1>2, <1>4 DEF Left
    <2> QED BY <2>1, <2>2
  <1> QED BY <1>4, <1>5, <1>6

LEMMA CondemnLemma ==
  ASSUME NEW v \in View, NEW n \in Node, v.status[n] # "completed"
  PROVE  LET w == Condemn(v, n) IN
         /\ w \in View
         /\ \A m \in Node : w.status[m] = "completed" <=> v.status[m] = "completed"
         /\ \A m \in Node \ {n} : Left(v, w, n, "fail", m)
  <1> DEFINE u == Put(v, n, "failed")
             S == Marked(u, {n})
  <1>1. u \in View /\ u.reason = v.reason
        /\ \A m \in Node : u.status[m] = IF m = n THEN "failed" ELSE v.status[m]
    BY PutLemma DEF TaskStatus
  <1>2. \A m \in S : m \in Node /\ u.status[m] \in {"pending", "blocked"}
    <2> HIDE DEF u
    <2> QED BY <1>1, MarkedLemma
  <1>3. Condemn(v, n) = MarkBlocked(u, S)
    BY DEF Condemn
  <1> HIDE DEF u, S
  <1>4. MarkBlocked(u, S) \in View /\ \A m \in Node :
           /\ m \in S => /\ MarkBlocked(u, S).status[m] = "blocked"
                         /\ MarkBlocked(u, S).reason[m] = "upstream"
           /\ m \notin S => /\ MarkBlocked(u, S).status[m] = u.status[m]
                            /\ MarkBlocked(u, S).reason[m] = u.reason[m]
    BY <1>1, MarkBlockedLemma
  <1> QED BY <1>1, <1>2, <1>3, <1>4 DEF Left

\* Every outcome of a handler: completed stays completed, only the handler's own
\* task becomes completed, and the others are left as Left says.
LEMMA OutcomeLemma ==
  ASSUME GraphAssumption, NEW v \in View, NEW n \in Node, NEW h \in Handler,
         Applies(h, v.status[n], v.reason[n]), NEW w \in Outcomes(v, n, h)
  PROVE  /\ w \in View
         /\ \A m \in Node : v.status[m] = "completed" => w.status[m] = "completed"
         /\ h = "complete" => w.status[n] = "completed"
         /\ \A m \in Node \ {n} : Left(v, w, n, h, m)
         /\ \A m \in Node \ {n} : w.status[m] = "completed" => v.status[m] = "completed"
         /\ w.pipeline = "completed" => \A m \in Node : w.status[m] = "completed"
  <1>0. v.status[n] # "completed" /\ v.status \in [Node -> TaskStatus]
        /\ v.reason \in [Node -> Reason]
    BY DEF Applies, View
  <1>1. CASE h = "complete"
    <2> DEFINE u == Put(v, n, "completed")
    <2>1. u \in View /\ u.reason = v.reason
          /\ \A m \in Node : u.status[m] = IF m = n THEN "completed" ELSE v.status[m]
      BY PutLemma DEF TaskStatus
    <2>2. PICK c \in Choice(u, n) : w = RolledUp(Resolve(u, n, c.D, c.H), {})
      BY <1>1 DEF Outcomes
    <2> HIDE DEF u
    <2>3. c.H \in SUBSET Children(u, n)
      BY <2>2 DEF Choice
    <2> DEFINE x == Resolve(u, n, c.D, c.H)
    <2>4. /\ x \in View
          /\ \A m \in Node : x.status[m] = "completed" <=> u.status[m] = "completed"
          /\ \A m \in Node : Left(u, x, n, "complete", m)
      BY <2>1, <2>3, ResolveLemma
    <2> HIDE DEF x
    <2>5. w \in View /\ w.status = x.status /\ w.reason = x.reason
          /\ (w.pipeline = "completed" => \A m \in Node : w.status[m] = "completed")
      BY <2>2, <2>4, RolledUpLemma DEF x
    <2>6. \A m \in Node : \A p \in Parents[m] : p \in Node
      BY DEF GraphAssumption
    <2> QED BY <1>0, <1>1, <2>1, <2>4, <2>5, <2>6 DEF Left
  <1>2. CASE h \in {"fail", "fatal", "recover"} /\ Exhausted(n, h)
    <2>1. /\ Condemn(v, n) \in View
          /\ \A m \in Node : Condemn(v, n).status[m] = "completed" <=> v.status[m] = "completed"
          /\ \A m \in Node \ {n} : Left(v, Condemn(v, n), n, "fail", m)
      BY <1>0, CondemnLemma
    <2>2. w \in {RolledUp(Condemn(v, n), {}), RolledUp(Condemn(v, n), {n})}
      BY <1>2 DEF Outcomes
    <2>3. w \in View /\ w.status = Condemn(v, n).status /\ w.reason = Condemn(v, n).reason
          /\ (w.pipeline = "completed" => \A m \in Node : w.status[m] = "completed")
      BY <2>1, <2>2, RolledUpLemma
    <2> QED BY <1>2, <2>1, <2>3 DEF Left
  <1>3. CASE h \in {"fail", "recover", "unblock"} /\ ~Exhausted(n, h)
    <2> DEFINE S == {[v EXCEPT !.status[n] = "blocked", !.reason[n] = "backoff"],
                     Put(v, n, "pending"),
                     [v EXCEPT !.status[n] = "pending",
                               !.reason[n] = IF v.status[n] = "paused" THEN @ ELSE "none"]}
    <2>1. PICK x \in S : w = RolledUp(x, {n})
      BY <1>3 DEF Outcomes
    <2>2. x \in View /\ \A m \in Node \ {n} : x.status[m] = v.status[m] /\ x.reason[m] = v.reason[m]
      <3>1. CASE x = Put(v, n, "pending")
        BY <1>0, <3>1 DEF Put, View, TaskStatus
      <3>2. CASE x = [v EXCEPT !.status[n] = "blocked", !.reason[n] = "backoff"]
        BY <1>0, <3>2 DEF View, TaskStatus, Reason
      <3>3. CASE x = [v EXCEPT !.status[n] = "pending",
                               !.reason[n] = IF v.status[n] = "paused" THEN @ ELSE "none"]
        <4>1. CASE v.status[n] = "paused"
          <5>1. x = [v EXCEPT !.status[n] = "pending", !.reason[n] = @]
            BY <3>3, <4>1
          <5> QED BY <1>0, <5>1 DEF View, TaskStatus
        <4>2. CASE v.status[n] # "paused"
          <5>1. x = [v EXCEPT !.status[n] = "pending", !.reason[n] = "none"]
            BY <3>3, <4>2
          <5> QED BY <1>0, <5>1 DEF View, TaskStatus, Reason
        <4> QED BY <4>1, <4>2
      <3> QED BY <3>1, <3>2, <3>3
    <2>3. w \in View /\ w.status = x.status /\ w.reason = x.reason
          /\ (w.pipeline = "completed" => \A m \in Node : w.status[m] = "completed")
      BY <2>1, <2>2, RolledUpLemma
    <2> QED BY <1>0, <1>3, <2>2, <2>3 DEF Left
  <1> QED BY <1>1, <1>2, <1>3 DEF Handler, Exhausted
----------------------------------------------------------------------------
(* The invariant.                                                          *)

Inv == TypeOK /\ Provenance /\ CompletedPipelineIsDone

\* A step keeps Provenance if it undoes no completed task except a meddled one,
\* tells the open transactions of every row it writes, gives life only to tasks
\* whose parents are done, and calls a pipeline completed only when all are.
Undoes    == \A m \in Node : status[m] = "completed" => Done(m)'
Tells     == \A k \in Node : doing'[k] # "none" =>
               /\ doing'[k] = doing[k] /\ seen'[k] = seen[k]
               /\ \A m \in Node : m \notin touched'[k] =>
                    m \notin touched[k] /\ status'[m] = status[m] /\ reason'[m] = reason[m]
GivesLife == \A m \in Node \ meddled' :
               Live(m)' => Live(m) \/ \A p \in Parents[m] : Done(p)'
Honest    == pipeline' = "completed" => pipeline = "completed" \/ \A m \in Node : Done(m)'

LEMMA KeepLemma ==
  ASSUME GraphAssumption, Inv, meddled \subseteq meddled', Undoes, Tells, GivesLife, Honest
  PROVE  Provenance' /\ CompletedPipelineIsDone'
  <1>1. \A p \in Node : Done(p) => Done(p)'
    BY DEF Undoes, Done
  <1>2. LiveAfterParents'
    <2> SUFFICES ASSUME NEW m \in Node, m \notin meddled', Live(m)', NEW p \in Parents[m]
                 PROVE  Done(p)'
      BY DEF LiveAfterParents
    <2>1. p \in Node /\ m \notin meddled
      BY DEF GraphAssumption
    <2> QED BY <1>1, <2>1 DEF GivesLife, Inv, Provenance, LiveAfterParents
  <1>3. ViewsCurrent'
    <2> SUFFICES ASSUME NEW k \in Node, doing'[k] # "none"
                 PROVE  /\ Applies(doing'[k], seen'[k].status[k], seen'[k].reason[k])
                        /\ \A m \in Node :
                             /\ m \notin touched'[k] => /\ seen'[k].status[m] = status'[m]
                                                       /\ seen'[k].reason[m] = reason'[m]
                             /\ seen'[k].status[m] = "completed" => Done(m)'
      BY DEF ViewsCurrent, Open, Applies
    <2>1. k \in Open /\ doing'[k] = doing[k] /\ seen'[k] = seen[k]
      BY DEF Tells, Open
    <2> QED BY <1>1, <2>1 DEF Tells, Inv, Provenance, ViewsCurrent
  <1>4. CompletedPipelineIsDone'
    BY <1>1 DEF Honest, Inv, CompletedPipelineIsDone
  <1> QED BY <1>2, <1>3, <1>4 DEF Provenance

LEMMA TouchLemma ==
  ASSUME TypeOK, NEW T \in SUBSET Node, NEW R \in SUBSET Row
  PROVE  /\ Touch(T, R) \in [Node -> SUBSET Row]
         /\ \A m \in T : Touch(T, R)[m] = touched[m] \cup R
  BY DEF Touch, TypeOK

LEMMA SetRowLemma ==
  ASSUME TypeOK, NEW n \in Node, NEW s \in TaskStatus, SetRow(n, s)
  PROVE  /\ Tells
         /\ status' \in [Node -> TaskStatus] /\ touched' \in [Node -> SUBSET Row]
         /\ reason' = reason /\ pipeline' = pipeline /\ released' = released
         /\ doing' = doing /\ seen' = seen
         /\ status'[n] = s
         /\ \A m \in Node \ {n} : status'[m] = status[m]
  <1>1. Open \in SUBSET Node /\ {n} \in SUBSET Row
    BY DEF Open, Row
  <1>2. touched' \in [Node -> SUBSET Row] /\ \A m \in Open : touched'[m] = touched[m] \cup {n}
    BY <1>1, TouchLemma DEF SetRow
  <1>3. /\ doing' = doing /\ seen' = seen /\ reason' = reason
        /\ pipeline' = pipeline /\ released' = released
    BY DEF SetRow
  <1>4. /\ status' \in [Node -> TaskStatus] /\ status'[n] = s
        /\ \A m \in Node \ {n} : status'[m] = status[m]
    BY DEF SetRow, TypeOK
  <1>5. Tells
    BY <1>2, <1>3, <1>4 DEF Tells, Open
  <1> QED BY <1>2, <1>3, <1>4, <1>5

LEMMA InitInv == GraphAssumption /\ Init => Inv
  <1> SUFFICES ASSUME GraphAssumption, Init PROVE Inv
    OBVIOUS
  <1>1. TypeOK
    BY DEF Init, TypeOK, TaskStatus, Reason, PipelineStatus, View, Blank, Request
  <1>2. LiveAfterParents
    BY DEF Init, LiveAfterParents, Live, Started, Timed, Roots
  <1>3. ViewsCurrent
    BY DEF Init, ViewsCurrent, Open
  <1>4. CompletedPipelineIsDone
    BY DEF Init, CompletedPipelineIsDone
  <1> QED BY <1>1, <1>2, <1>3, <1>4 DEF Inv, Provenance

LEMMA RollUpLemma ==
  ASSUME NEW old \in PipelineStatus, NEW st, NEW raw
  PROVE  RollUp(old, st, raw) \in PipelineStatus
  BY DEF RollUp, PipelineStatus

----------------------------------------------------------------------------
(* Transactions.                                                           *)

LEMMA BeginInv ==
  ASSUME GraphAssumption, Inv, NEW n \in Node, NEW h \in Handler, Begin(n, h)
  PROVE  Inv'
  <1>1. TypeOK'
    BY DEF Inv, TypeOK, Begin, rows, View, Handler
  <1>2. LiveAfterParents'
    BY DEF Inv, Provenance, LiveAfterParents, Live, Done, Begin, rows
  <1>3. ViewsCurrent'
    <2> SUFFICES ASSUME NEW k \in Node, doing'[k] # "none"
                 PROVE  /\ Applies(doing'[k], seen'[k].status[k], seen'[k].reason[k])
                        /\ \A m \in Node :
                             /\ m \notin touched'[k] => /\ seen'[k].status[m] = status'[m]
                                                       /\ seen'[k].reason[m] = reason'[m]
                             /\ seen'[k].status[m] = "completed" => Done(m)'
      BY DEF ViewsCurrent, Open, Applies
    <2>1. UNCHANGED <<status, reason, touched, meddled>> /\ Applies(h, status[n], reason[n])
      BY DEF Begin, rows
    <2>2. CASE k = n
      <3>1. doing'[n] = h /\ seen'[n].status = status /\ seen'[n].reason = reason
        BY DEF Begin, Inv, TypeOK
      <3> QED BY <2>1, <2>2, <3>1 DEF Done
    <2>3. CASE k # n
      <3>1. doing'[k] = doing[k] /\ seen'[k] = seen[k] /\ k \in Open
        BY <2>3 DEF Begin, Inv, TypeOK, Open
      <3> QED BY <2>1, <3>1 DEF Done, Inv, Provenance, ViewsCurrent
    <2> QED BY <2>2, <2>3
  <1>4. CompletedPipelineIsDone'
    BY DEF Inv, CompletedPipelineIsDone, Done, Begin, rows
  <1> QED BY <1>1, <1>2, <1>3, <1>4 DEF Inv, Provenance

LEMMA EndLemma ==
  ASSUME TypeOK, NEW n \in Node, End(n)
  PROVE  /\ doing' \in [Node -> Handler \cup {"none"}] /\ seen' \in [Node -> View]
         /\ doing'[n] = "none"
         /\ \A k \in Node \ {n} : doing'[k] = doing[k] /\ seen'[k] = seen[k]
  <1>1. Blank \in View
    BY DEF Blank, View, TaskStatus, Reason, PipelineStatus
  <1> QED BY <1>1 DEF End, TypeOK, Handler

LEMMA RollbackInv ==
  ASSUME GraphAssumption, Inv, NEW n \in Node, Rollback(n)
  PROVE  Inv'
  <1>1. /\ End(n) /\ UNCHANGED <<status, reason, retry, pipeline, released, claimed, meddled, used>>
        /\ touched' = [touched EXCEPT ![n] = {}] /\ TypeOK
    BY DEF Rollback, Inv, rows
  <1>2. TypeOK'
    BY <1>1, EndLemma DEF TypeOK
  <1>3. Undoes /\ Tells /\ GivesLife /\ Honest
    BY <1>1, EndLemma DEF Undoes, Done, Tells, GivesLife, Live, Honest, TypeOK
  <1> QED BY <1>1, <1>2, <1>3, KeepLemma DEF Inv

LEMMA CommitInv ==
  ASSUME GraphAssumption, Inv, NEW n \in Node, Commit(n)
  PROVE  Inv'
  <1> DEFINE v == seen[n]
             h == doing[n]
  <1>1. /\ TypeOK /\ n \in Open /\ h \in Handler /\ v \in View
        /\ Applies(h, v.status[n], v.reason[n]) /\ End(n) /\ Counted(n)
        /\ UNCHANGED <<claimed, meddled, used>>
    BY DEF Commit, Inv, Provenance, ViewsCurrent, Open, TypeOK
  <1>2. PICK w \in Outcomes(v, n, h) : Write(n, w)
    BY DEF Commit
  <1>3. /\ w \in View
        /\ \A m \in Node : v.status[m] = "completed" => w.status[m] = "completed"
        /\ h = "complete" => w.status[n] = "completed"
        /\ \A m \in Node \ {n} : Left(v, w, n, h, m)
        /\ \A m \in Node \ {n} : w.status[m] = "completed" => v.status[m] = "completed"
        /\ w.pipeline = "completed" => \A m \in Node : w.status[m] = "completed"
    BY <1>1, OutcomeLemma
  <1> DEFINE R == Writes(v, w, n, h)
  <1>4. /\ R \in SUBSET Row /\ n \in R
        /\ R \cap touched[n] = {}
        /\ status' = [m \in Node |-> IF m \in R THEN w.status[m] ELSE status[m]]
        /\ reason' = [m \in Node |-> IF m \in R THEN w.reason[m] ELSE reason[m]]
        /\ pipeline' = IF PipelineRow \in R THEN w.pipeline ELSE pipeline
        /\ touched' = [Touch(Open \ {n}, R) EXCEPT ![n] = {}]
    BY <1>2 DEF Write, Writes, Changed, Row
  <1>5. released' \in SUBSET (Node \X Node)
    <2>1. Ready(Put(v, n, "completed"), n) \subseteq Node
      BY DEF Ready, Children
    <2> HIDE DEF v, h
    <2> QED BY <1>1, <1>2, <2>1 DEF Write, TypeOK, v, h
  <1>6. retry' \in [Node -> Nat]
    BY <1>1 DEF Counted, TypeOK, GraphAssumption
  <1>7. v.status \in [Node -> TaskStatus] /\ w.status \in [Node -> TaskStatus]
        /\ w.reason \in [Node -> Reason] /\ w.pipeline \in PipelineStatus
    BY <1>1, <1>3 DEF View
  <1> HIDE DEF R
  <1>8. /\ touched' \in [Node -> SUBSET Row]
        /\ \A k \in Open \ {n} : touched'[k] = touched[k] \cup R
    <2>1. /\ Touch(Open \ {n}, R) \in [Node -> SUBSET Row]
          /\ \A k \in Open \ {n} : Touch(Open \ {n}, R)[k] = touched[k] \cup R
      BY <1>1, <1>4, TouchLemma DEF Open
    <2> QED BY <1>4, <2>1 DEF Open
  <1>9. TypeOK'
    <2>1. status' \in [Node -> TaskStatus] /\ reason' \in [Node -> Reason]
          /\ pipeline' \in PipelineStatus
      BY <1>1, <1>4, <1>7 DEF TypeOK
    <2> QED BY <1>1, <1>5, <1>6, <1>8, <2>1, EndLemma DEF TypeOK
  <1>10. Tells
    <2> SUFFICES ASSUME NEW k \in Node, doing'[k] # "none"
                 PROVE  /\ doing'[k] = doing[k] /\ seen'[k] = seen[k]
                        /\ \A m \in Node : m \notin touched'[k] =>
                             m \notin touched[k] /\ status'[m] = status[m] /\ reason'[m] = reason[m]
      BY DEF Tells
    <2>1. k # n /\ doing'[k] = doing[k] /\ seen'[k] = seen[k]
      BY <1>1, EndLemma
    <2> QED BY <1>4, <1>8, <2>1 DEF Open
  <1>11. \A m \in Node \cap R : v.status[m] = status[m] /\ v.reason[m] = reason[m]
    BY <1>1, <1>4 DEF Inv, Provenance, ViewsCurrent
  <1>12. Undoes
    BY <1>3, <1>4, <1>11 DEF Undoes, Done
  <1>13. GivesLife
    <2> SUFFICES ASSUME NEW m \in Node, m \notin meddled', Live(m)', ~Live(m),
                        NEW p \in Parents[m]
                 PROVE  Done(p)'
      BY DEF GivesLife
    <2>1. p \in Node
      BY DEF GraphAssumption
    <2>2. m \in R
      BY <1>4 DEF Live
    <2>3. m # n
      BY <1>1, <1>11, <2>2 DEF Applies, Live, Started
    <2>4. Left(v, w, n, h, m)
      BY <1>3, <2>3
    <2>5. status'[m] = w.status[m] /\ reason'[m] = w.reason[m]
      BY <1>4, <2>2
    <2>6. h = "complete" /\ (p = n \/ v.status[p] = "completed")
      BY <1>11, <2>2, <2>4, <2>5 DEF Left, Live, Started, Timed
    <2>7. CASE p = n
      BY <1>3, <1>4, <2>1, <2>6, <2>7 DEF Done
    <2>8. CASE v.status[p] = "completed"
      <3>1. Done(p)
        BY <1>1, <2>1, <2>8 DEF Inv, Provenance, ViewsCurrent
      <3> QED BY <1>1, <1>12, <2>1, <3>1 DEF Undoes, Done
    <2> QED BY <2>6, <2>7, <2>8
  <1>14. Honest
    <2> SUFFICES ASSUME PipelineRow \in R, w.pipeline = "completed", NEW m \in Node
                 PROVE  Done(m)'
      BY <1>4 DEF Honest
    <2>1. CASE m = n
      BY <1>3, <1>4, <2>1 DEF Done
    <2>2. CASE m # n
      <3>1. Done(m)
        BY <1>1, <1>3, <2>2 DEF Inv, Provenance, ViewsCurrent
      <3> QED BY <1>1, <1>12, <3>1 DEF Undoes, Done
    <2> QED BY <2>1, <2>2
  <1> QED BY <1>1, <1>9, <1>10, <1>12, <1>13, <1>14, KeepLemma DEF Inv
----------------------------------------------------------------------------
(* The other handlers.                                                     *)

\* Those that write one row.
LEMMA RowStepInv ==
  ASSUME GraphAssumption, Inv, NEW n \in Node,
         Claim(n) \/ Pause(n) \/ StalePause(n) \/ Reap(n) \/ Cancel(n) \/ Retry(n)
  PROVE  Inv'
  <1>1. TypeOK /\ LiveAfterParents
    BY DEF Inv, Provenance
  <1>2. PICK s \in TaskStatus : SetRow(n, s)
    BY DEF Claim, Pause, StalePause, Reap, Cancel, Retry, TaskStatus
  <1>3. /\ Tells /\ status' \in [Node -> TaskStatus] /\ touched' \in [Node -> SUBSET Row]
        /\ UNCHANGED <<reason, pipeline, released, doing, seen>>
        /\ \A m \in Node \ {n} : status'[m] = status[m]
    BY <1>1, <1>2, SetRowLemma
  <1>4. /\ meddled \subseteq meddled' /\ meddled' \subseteq Node /\ claimed' \subseteq Node
        /\ retry' \in [Node -> Nat] /\ used' \in [Request -> Nat]
    BY <1>1 DEF TypeOK, Claim, Pause, StalePause, Reap, Cancel, Retry, Spend, Request
  <1>5. TypeOK'
    BY <1>1, <1>3, <1>4 DEF TypeOK
  \* either the row is meddled with, or it was running or pending and still lives or fails
  <1>6. \/ n \in meddled'
        \/ status[n] \in {"pending", "running"}
    BY <1>1 DEF TypeOK, Claim, Pause, StalePause, Reap, Cancel, Retry
  <1>7. Undoes
    BY <1>3, <1>4, <1>6 DEF Undoes, Done
  <1>8. GivesLife
    BY <1>3, <1>6 DEF GivesLife, Live, Started
  <1>9. Honest
    BY <1>3 DEF Honest
  <1> QED BY <1>3, <1>4, <1>5, <1>7, <1>8, <1>9, KeepLemma DEF Inv

LEMMA AdmitInv ==
  ASSUME GraphAssumption, Inv, NEW D \in SUBSET Roots, Admit(D)
  PROVE  Inv'
  <1>1. TypeOK /\ Open \in SUBSET Node /\ D \in SUBSET Node /\ D \cup {PipelineRow} \in SUBSET Row
    BY DEF Inv, Open, Roots, Row
  <1>2. touched' \in [Node -> SUBSET Row]
        /\ \A m \in Open : touched'[m] = touched[m] \cup (D \cup {PipelineRow})
    <2> DEFINE R == D \cup {PipelineRow}
    <2>1. touched' = Touch(Open, R) /\ R \in SUBSET Row
      BY <1>1 DEF Admit
    <2> HIDE DEF R
    <2>2. touched' \in [Node -> SUBSET Row] /\ \A m \in Open : touched'[m] = touched[m] \cup R
      BY <1>1, <2>1, TouchLemma
    <2> QED BY <2>2 DEF R
  <1>3. pipeline' \in PipelineStatus
    BY <1>1, RollUpLemma DEF Admit, TypeOK
  <1>4. TypeOK'
    BY <1>1, <1>2, <1>3 DEF Admit, TypeOK, TaskStatus, Reason
  <1>5. Tells
    <2>1. UNCHANGED <<doing, seen>> /\ \A m \in Node \ D : status'[m] = status[m] /\ reason'[m] = reason[m]
      BY <1>1 DEF Admit, TypeOK
    <2> QED BY <1>2, <2>1 DEF Tells, Open
  <1>6. Undoes
    BY <1>1 DEF Admit, Undoes, Done, TypeOK
  <1>7. GivesLife
    BY <1>1 DEF Admit, GivesLife, Live, Roots, TypeOK
  <1>8. Honest
    BY <1>1 DEF Admit, Honest, RollUp, Done, TypeOK, PipelineStatus
  <1> QED BY <1>4, <1>5, <1>6, <1>7, <1>8, KeepLemma DEF Admit, Inv

LEMMA CancelPipelineInv == ASSUME GraphAssumption, Inv, CancelPipeline PROVE Inv'
  <1>1. TypeOK /\ Open \in SUBSET Node /\ {PipelineRow} \in SUBSET Row
    BY DEF Inv, Open, Row
  <1>2. touched' \in [Node -> SUBSET Row]
        /\ \A m \in Open : touched'[m] = touched[m] \cup {PipelineRow}
    BY <1>1, TouchLemma DEF CancelPipeline
  <1>3. TypeOK'
    <2>1. used' \in [Request -> Nat] /\ pipeline' \in PipelineStatus
      <3>1. "cancelPipeline" \in Request
        BY DEF Request
      <3>2. used \in [Request -> Nat] /\ used' = [used EXCEPT !["cancelPipeline"] = @ + 1]
        BY <1>1 DEF CancelPipeline, TypeOK, Spend
      <3>3. pipeline' \in PipelineStatus
        BY DEF CancelPipeline, PipelineStatus
      <3> QED BY <3>1, <3>2, <3>3
    <2> QED BY <1>1, <1>2, <2>1 DEF CancelPipeline, TypeOK, rows
  <1>4. Undoes /\ Tells /\ GivesLife /\ Honest
    BY <1>1, <1>2 DEF CancelPipeline, Undoes, Done, Tells, Open, GivesLife, Live, Honest, rows
  <1> QED BY <1>3, <1>4, KeepLemma DEF CancelPipeline, Inv

LEMMA RetryPipelineInv == ASSUME GraphAssumption, Inv, RetryPipeline PROVE Inv'
  <1> DEFINE S == {n \in Roots : status[n] = "failed"}
  <1>1. TypeOK /\ Open \in SUBSET Node /\ S \in SUBSET Node /\ S \cup {PipelineRow} \in SUBSET Row
    BY DEF Inv, Open, Row, Roots
  <1>2. touched' \in [Node -> SUBSET Row]
        /\ \A m \in Open : touched'[m] = touched[m] \cup (S \cup {PipelineRow})
    <2> DEFINE R == S \cup {PipelineRow}
    <2>1. touched' = Touch(Open, R) /\ R \in SUBSET Row
      BY <1>1 DEF RetryPipeline
    <2> HIDE DEF R
    <2>2. touched' \in [Node -> SUBSET Row] /\ \A m \in Open : touched'[m] = touched[m] \cup R
      BY <1>1, <2>1, TouchLemma
    <2> QED BY <2>2 DEF R
  <1>3. TypeOK'
    <2>1. /\ status' \in [Node -> TaskStatus]
          /\ retry' \in [Node -> Nat]
      BY <1>1 DEF RetryPipeline, TypeOK, TaskStatus
    <2>2. pipeline' \in PipelineStatus
      BY DEF RetryPipeline, PipelineStatus
    <2>3. used' \in [Request -> Nat]
      <3>1. used \in [Request -> Nat] /\ used' = [used EXCEPT !["retryPipeline"] = @ + 1]
        BY <1>1 DEF RetryPipeline, TypeOK, Spend
      <3>2. "retryPipeline" \in Request
        BY DEF Request
      <3> QED BY <3>1, <3>2
    <2> QED BY <1>1, <1>2, <2>1, <2>2, <2>3 DEF RetryPipeline, TypeOK
  <1>4. Tells
    BY <1>1, <1>2 DEF RetryPipeline, Tells, Open, TypeOK
  <1>5. Undoes
    BY <1>1 DEF RetryPipeline, Undoes, Done, TypeOK
  <1>6. GivesLife
    BY <1>1 DEF RetryPipeline, GivesLife, Live, Started, Roots, TypeOK
  <1>7. Honest
    BY DEF RetryPipeline, Honest
  <1> QED BY <1>3, <1>4, <1>5, <1>6, <1>7, KeepLemma DEF RetryPipeline, Inv

----------------------------------------------------------------------------

LEMMA NextInv == ASSUME GraphAssumption, Inv, [Next]_vars PROVE Inv'
  <1>1. CASE UNCHANGED vars
    BY <1>1 DEF vars, rows, txs, Inv, TypeOK, Provenance, LiveAfterParents, Live, Done,
                ViewsCurrent, Open, CompletedPipelineIsDone
  <1>2. ASSUME NEW n \in Node, TaskStep(n) PROVE Inv'
    BY <1>2, BeginInv, CommitInv, RollbackInv, RowStepInv DEF TaskStep
  <1>3. ASSUME NEW D \in SUBSET Roots, Admit(D) PROVE Inv'
    BY <1>3, AdmitInv
  <1> QED BY <1>1, <1>2, <1>3, CancelPipelineInv, RetryPipelineInv DEF Next

\* Types; the two reasons why no task starts before its parents: whatever may
\* start has its parents done, and no open transaction is wrong about that; and
\* what update_pipeline_status makes of it.
THEOREM ProvenanceAlways == Spec => [](TypeOK /\ Provenance /\ CompletedPipelineIsDone)
  <1>1. Init => Inv
    BY InitInv, GraphAssumption
  <1>2. Inv /\ [Next]_vars => Inv'
    BY NextInv, GraphAssumption
  <1>3. Inv => TypeOK /\ Provenance /\ CompletedPipelineIsDone
    BY DEF Inv
  <1> QED BY <1>1, <1>2, <1>3, PTL DEF Spec

(* Statuses, reasons, retry counts and what open transactions have seen keep     *)
(* their types, for every DAG, overlap of transactions and user request.         *)
THEOREM TypeCorrect == Spec => []TypeOK
  BY ProvenanceAlways, PTL

\* No task of a pipeline is run before its parents have completed, for any DAG
\* and any overlap of the transactions that release, block, defer and recover.
THEOREM RunsAfterParentsAlways == Spec => []RunsAfterParents
  <1>1. Provenance => RunsAfterParents
    BY DEF Provenance, LiveAfterParents, Live, Done, RunsAfterParents
  <1> QED BY <1>1, ProvenanceAlways, PTL

\* update_pipeline_status never commits "completed" over a task that has not
\* completed, although it counts rows other transactions are changing.
THEOREM CompletedPipelineAlways == Spec => []CompletedPipelineIsDone
  BY ProvenanceAlways, PTL
=============================================================================
