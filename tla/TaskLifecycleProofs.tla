------------------------ MODULE TaskLifecycleProofs ------------------------
(* Proofs about TaskLifecycle, for any tasks, workers and limits. *)
EXTENDS TaskLifecycle, FiniteSetTheorems, TLAPS

LEMMA TransactionsAreSets == ASSUME NEW S \in Transactions PROVE S \in SUBSET Task
BY DEF Transactions

LEMMA TypeTaskStep ==
  ASSUME TypeOK, NEW t \in Task, TaskStep(t) PROVE TypeOK'
<1> USE ConstantsAssumption DEF TypeOK, rowVars, pushVars, wkVars, history,
        TaskStatus, TxKind, Event, SetStatus, Enqueue, Spend, SpendWithFault, Requested
<1>1. CASE Create(t)        BY <1>1 DEF Create
<1>2. CASE Admit(t)         BY <1>2 DEF Admit
<1>3. CASE Overload(t)      BY <1>3 DEF Overload
<1>4. CASE Release(t)       BY <1>4 DEF Release
<1>5. CASE Throttle(t)      BY <1>5 DEF Throttle
<1>6. CASE Unblock(t)       BY <1>6 DEF Unblock
<1>7. CASE UserRetry(t)     BY <1>7 DEF UserRetry
<1>8. CASE Reap(t)          BY <1>8 DEF Reap
<1>9. CASE ReapFail(t)      BY <1>9 DEF ReapFail
<1>10. CASE ForgetPush(t)   BY <1>10 DEF ForgetPush
<1>11. CASE Recover(t)      BY <1>11 DEF Recover
<1>12. CASE PushRecovered(t) BY <1>12 DEF PushRecovered
<1>13. CASE Heal(t)         BY <1>13 DEF Heal
<1>14. CASE Lapse(t)        BY <1>14 DEF Lapse
<1>15. CASE Cancel(t)       BY <1>15 DEF Cancel
<1> QED BY <1>1, <1>2, <1>3, <1>4, <1>5, <1>6, <1>7, <1>8, <1>9, <1>10, <1>11,
           <1>12, <1>13, <1>14, <1>15 DEF TaskStep

LEMMA TypeWorkerStep ==
  ASSUME TypeOK, NEW w \in Worker, WorkerStep(w) PROVE TypeOK'
<1> USE ConstantsAssumption DEF TypeOK, rowVars, pushVars, wkVars, history,
        TaskStatus, TxKind, Event, Report, Spend, Grant, Execute, GoIdle
<1>1. CASE \E t \in Task : Pop(w, t)        BY <1>1 DEF Pop
<1>2. CASE \E t \in Task : PollFromDb(w, t) BY <1>2 DEF PollFromDb
<1>3. CASE Claim(w)        BY <1>3 DEF Claim
<1>4. CASE ClaimLost(w)    BY <1>4 DEF ClaimLost
<1>5. CASE ClaimRefused(w) BY <1>5 DEF ClaimRefused
<1>6. CASE Renew(w)        BY <1>6 DEF Renew
<1>7. CASE RenewFails(w)   BY <1>7 DEF RenewFails
<1>8. CASE Progress(w)     BY <1>8 DEF Progress
<1>9. CASE \E k \in Kinds : Finish(w, k) BY <1>9 DEF Finish
<1>10. CASE Abort(w)       BY <1>10 DEF Abort
<1>11. CASE CrashWorker(w) BY <1>11 DEF CrashWorker
<1> QED BY <1>1, <1>2, <1>3, <1>4, <1>5, <1>6, <1>7, <1>8, <1>9, <1>10, <1>11
        DEF WorkerStep

LEMMA TypeReportStep ==
  ASSUME TypeOK, NEW m \in net, Answer(m) \/ Drop(m) PROVE TypeOK'
<1> USE ConstantsAssumption DEF TypeOK, rowVars, pushVars, wkVars, history,
        TaskStatus, Event, Report, Spend, SetStatus, Take
<1>1. CASE Complete(m)    BY <1>1 DEF Complete
<1>2. CASE Fail(m)        BY <1>2 DEF Fail
<1>3. CASE FailForGood(m) BY <1>3 DEF FailForGood
<1>4. CASE Pause(m)       BY <1>4 DEF Pause
<1>5. CASE RejectStale(m) BY <1>5 DEF RejectStale
<1>6. CASE Drop(m)        BY <1>6 DEF Drop
<1> QED BY <1>1, <1>2, <1>3, <1>4, <1>5, <1>6 DEF Answer

LEMMA TypeServerStep ==
  ASSUME TypeOK,
         \/ \E S \in Transactions : Commit(S) \/ Rollback(S)
         \/ RedisLoss
  PROVE  TypeOK'
<1> USE DEF TypeOK, rowVars, pushVars, wkVars, history, TaskStatus, TxKind,
        Event, Spend
<1>1. CASE \E S \in Transactions : Commit(S)   BY <1>1 DEF Commit
<1>2. CASE \E S \in Transactions : Rollback(S) BY <1>2 DEF Rollback
<1>3. CASE RedisLoss                            BY <1>3 DEF RedisLoss
<1> QED BY <1>1, <1>2, <1>3

(* Every variable keeps its type in every instance. *)
THEOREM TypeCorrect == Spec => []TypeOK
<1>1. Init => TypeOK
  BY ConstantsAssumption DEF Init, TypeOK, TaskStatus, TxKind, Event
<1>2. TypeOK /\ [Next]_vars => TypeOK'
  <2> SUFFICES ASSUME TypeOK, [Next]_vars PROVE TypeOK'
    OBVIOUS
  <2>1. CASE \E t \in Task : TaskStep(t)    BY <2>1, TypeTaskStep
  <2>2. CASE \E w \in Worker : WorkerStep(w) BY <2>2, TypeWorkerStep
  <2>3. CASE \E m \in net : Answer(m) \/ Drop(m) BY <2>3, TypeReportStep
  <2>4. CASE \/ \E S \in Transactions : Commit(S) \/ Rollback(S)
             \/ RedisLoss
    BY <2>4, TypeServerStep
  <2>5. CASE UNCHANGED vars
    BY <2>5 DEF vars, rowVars, pushVars, wkVars, history, TypeOK
  <2> QED BY <2>1, <2>2, <2>3, <2>4, <2>5 DEF Next
<1> QED BY <1>1, <1>2, PTL DEF Spec

----------------------------------------------------------------------------
(* Fenced is inductive together with TypeOK.                               *)

LEMMA FencedTaskStep ==
  ASSUME TypeOK, Fenced, NEW t \in Task, TaskStep(t) PROVE Fenced'
<1> USE DEF TypeOK, Fenced, TokensIssued, RunningIsClaimed, OneRunPerClaim,
        rowVars, pushVars, wkVars, history, SetStatus, Report
<1>1. CASE Create(t)        BY <1>1 DEF Create
<1>2. CASE Admit(t)         BY <1>2 DEF Admit
<1>3. CASE Overload(t)      BY <1>3 DEF Overload
<1>4. CASE Release(t)       BY <1>4 DEF Release
<1>5. CASE Throttle(t)      BY <1>5 DEF Throttle
<1>6. CASE Unblock(t)       BY <1>6 DEF Unblock
<1>7. CASE UserRetry(t)     BY <1>7 DEF UserRetry
<1>8. CASE Reap(t)          BY <1>8 DEF Reap
<1>9. CASE ReapFail(t)      BY <1>9 DEF ReapFail
<1>10. CASE ForgetPush(t)   BY <1>10 DEF ForgetPush
<1>11. CASE Recover(t)      BY <1>11 DEF Recover
<1>12. CASE PushRecovered(t) BY <1>12 DEF PushRecovered
<1>13. CASE Heal(t)         BY <1>13 DEF Heal
<1>14. CASE Lapse(t)        BY <1>14 DEF Lapse
<1>15. CASE Cancel(t)       BY <1>15 DEF Cancel
<1> QED BY <1>1, <1>2, <1>3, <1>4, <1>5, <1>6, <1>7, <1>8, <1>9, <1>10, <1>11,
           <1>12, <1>13, <1>14, <1>15 DEF TaskStep

LEMMA FencedWorkerStep ==
  ASSUME TypeOK, Fenced, NEW w \in Worker, WorkerStep(w) PROVE Fenced'
<1> USE DEF TypeOK, Fenced, TokensIssued, RunningIsClaimed, OneRunPerClaim,
        rowVars, pushVars, wkVars, history, Report, Grant, Execute, GoIdle
<1>1. CASE \E t \in Task : Pop(w, t)        BY <1>1 DEF Pop
<1>2. CASE \E t \in Task : PollFromDb(w, t) BY <1>2 DEF PollFromDb
<1>3. CASE Claim(w)        BY <1>3 DEF Claim
<1>4. CASE ClaimLost(w)    BY <1>4 DEF ClaimLost
<1>5. CASE ClaimRefused(w) BY <1>5 DEF ClaimRefused
<1>6. CASE Renew(w)        BY <1>6 DEF Renew
<1>7. CASE RenewFails(w)   BY <1>7 DEF RenewFails
<1>8. CASE Progress(w)     BY <1>8 DEF Progress
<1>9. CASE \E k \in Kinds : Finish(w, k) BY <1>9 DEF Finish
<1>10. CASE Abort(w)       BY <1>10 DEF Abort
<1>11. CASE CrashWorker(w) BY <1>11 DEF CrashWorker
<1> QED BY <1>1, <1>2, <1>3, <1>4, <1>5, <1>6, <1>7, <1>8, <1>9, <1>10, <1>11
        DEF WorkerStep

LEMMA FencedReportStep ==
  ASSUME TypeOK, Fenced, NEW m \in net, Answer(m) \/ Drop(m) PROVE Fenced'
<1> USE DEF TypeOK, Fenced, TokensIssued, RunningIsClaimed, OneRunPerClaim,
        rowVars, pushVars, wkVars, history, SetStatus, Report, Take
<1>1. CASE Complete(m)    BY <1>1 DEF Complete
<1>2. CASE Fail(m)        BY <1>2 DEF Fail
<1>3. CASE FailForGood(m) BY <1>3 DEF FailForGood
<1>4. CASE Pause(m)       BY <1>4 DEF Pause
<1>5. CASE RejectStale(m) BY <1>5 DEF RejectStale
<1>6. CASE Drop(m)        BY <1>6 DEF Drop
<1> QED BY <1>1, <1>2, <1>3, <1>4, <1>5, <1>6 DEF Answer

LEMMA FencedServerStep ==
  ASSUME TypeOK, Fenced,
         \/ \E S \in Transactions : Commit(S) \/ Rollback(S)
         \/ RedisLoss
  PROVE  Fenced'
<1> USE DEF TypeOK, Fenced, TokensIssued, RunningIsClaimed, OneRunPerClaim,
        rowVars, pushVars, wkVars, history
<1>1. CASE \E S \in Transactions : Commit(S)   BY <1>1 DEF Commit
<1>2. CASE \E S \in Transactions : Rollback(S) BY <1>2 DEF Rollback
<1>3. CASE RedisLoss                            BY <1>3 DEF RedisLoss
<1> QED BY <1>1, <1>2, <1>3

LEMMA FencedStep == TypeOK /\ Fenced /\ [Next]_vars => Fenced'
<1> SUFFICES ASSUME TypeOK, Fenced, [Next]_vars PROVE Fenced'
  OBVIOUS
<1>1. CASE \E t \in Task : TaskStep(t)    BY <1>1, FencedTaskStep
<1>2. CASE \E w \in Worker : WorkerStep(w) BY <1>2, FencedWorkerStep
<1>3. CASE \E m \in net : Answer(m) \/ Drop(m) BY <1>3, FencedReportStep
<1>4. CASE \/ \E S \in Transactions : Commit(S) \/ Rollback(S)
           \/ RedisLoss
  BY <1>4, FencedServerStep
<1>5. CASE UNCHANGED vars
  BY <1>5 DEF vars, rowVars, pushVars, wkVars, history, Fenced, TokensIssued,
              RunningIsClaimed, OneRunPerClaim
<1> QED BY <1>1, <1>2, <1>3, <1>4, <1>5 DEF Next

(* No worker, however late, acts under a lease that was never issued to it, and *)
(* a running task is always held by its latest claim.                          *)
THEOREM FencedAlways == Spec => []Fenced
<1>1. Init => Fenced
  BY DEF Init, Fenced, TokensIssued, RunningIsClaimed, OneRunPerClaim
<1> QED BY <1>1, FencedStep, TypeCorrect, PTL DEF Spec

----------------------------------------------------------------------------
(* Accounts is inductive together with TypeOK.                             *)

(* The number of applied completions is a natural number, and one more report  *)
(* adds at most one.                                                           *)
LEMMA CompletionCount ==
  ASSUME CompletionsPaid, NEW t \in Task
  PROVE  /\ Cardinality(accepted[t]) \in Nat
         /\ \A k : /\ IsFiniteSet(accepted[t] \cup {k})
                   /\ Cardinality(accepted[t] \cup {k}) <= Cardinality(accepted[t]) + 1
                   /\ Cardinality(accepted[t] \cup {k}) \in Nat
<1>1. IsFiniteSet(accepted[t])
  BY DEF CompletionsPaid
<1>2. ASSUME NEW k
      PROVE  /\ IsFiniteSet(accepted[t] \cup {k})
             /\ Cardinality(accepted[t] \cup {k}) <= Cardinality(accepted[t]) + 1
             /\ Cardinality(accepted[t] \cup {k}) \in Nat
  <2>1. /\ IsFiniteSet(accepted[t] \cup {k})
        /\ \/ Cardinality(accepted[t] \cup {k}) = Cardinality(accepted[t])
           \/ Cardinality(accepted[t] \cup {k}) = Cardinality(accepted[t]) + 1
    BY <1>1, FS_AddElement
  <2>2. Cardinality(accepted[t]) \in Nat
    BY <1>1, FS_CardinalityType
  <2> QED BY <2>1, <2>2
<1> QED BY <1>1, <1>2, FS_CardinalityType

LEMMA AccountsTaskStep ==
  ASSUME TypeOK, Accounts, NEW t \in Task, TaskStep(t) PROVE Accounts'
<1> USE ConstantsAssumption DEF TypeOK, Accounts, LockedRows, AttemptsPaid,
        CompletionsPaid, Once, Settled, TxKind, TaskStatus, rowVars, pushVars,
        wkVars, history, SetStatus
<1>0. \A u \in Task : Cardinality(accepted[u]) \in Nat
  BY CompletionCount DEF Accounts
<1> USE <1>0
<1>1. CASE Create(t) BY <1>1 DEF Create
<1>2. CASE Admit(t) BY <1>2 DEF Admit
<1>3. CASE Overload(t) BY <1>3 DEF Overload, Untouched
<1>4. CASE Release(t) BY <1>4 DEF Release
<1>5. CASE Throttle(t) BY <1>5 DEF Throttle
<1>6. CASE Unblock(t) BY <1>6 DEF Unblock
<1>7. CASE UserRetry(t) BY <1>7 DEF UserRetry
<1>8. CASE Reap(t) BY <1>8 DEF Reap
<1>9. CASE ReapFail(t) BY <1>9 DEF ReapFail
<1>10. CASE ForgetPush(t) BY <1>10 DEF ForgetPush
<1>11. CASE Recover(t)
  <2>1. /\ UNCHANGED <<tx, issued, extra, accepted>>
        /\ \A u \in Task \ {t} : status'[u] = status[u] /\ retry'[u] = retry[u]
    BY <1>11 DEF Recover
  <2>2. /\ status[t] = "running" /\ tx[t] = "none"
        /\ \/ retry[t] < MaxRetries /\ status'[t] = "pending" /\ retry'[t] = retry[t] + 1
           \/ retry[t] >= MaxRetries /\ status'[t] = "failed" /\ retry'[t] = retry[t]
    BY <1>11 DEF Recover
  <2>3. LockedRows'
    BY <2>1, <2>2
  <2>4. AttemptsPaid'
    BY <2>1, <2>2
  <2>5. CompletionsPaid'
    BY <2>1, <2>2
  <2> QED BY <2>3, <2>4, <2>5
<1>12. CASE PushRecovered(t) BY <1>12 DEF PushRecovered
<1>13. CASE Heal(t) BY <1>13 DEF Heal
<1>14. CASE Lapse(t) BY <1>14 DEF Lapse
<1>15. CASE Cancel(t) BY <1>15 DEF Cancel
<1> QED BY <1>1, <1>2, <1>3, <1>4, <1>5, <1>6, <1>7, <1>8, <1>9, <1>10, <1>11, <1>12, <1>13, <1>14, <1>15 DEF TaskStep

LEMMA AccountsWorkerStep ==
  ASSUME TypeOK, Accounts, NEW w \in Worker, WorkerStep(w) PROVE Accounts'
<1> USE ConstantsAssumption DEF TypeOK, Accounts, LockedRows, AttemptsPaid,
        CompletionsPaid, Once, Settled, TxKind, TaskStatus, rowVars, pushVars,
        wkVars, history, Grant, Execute, GoIdle
<1>1. CASE \E t \in Task : Pop(w, t) BY <1>1 DEF Pop
<1>2. CASE \E t \in Task : PollFromDb(w, t) BY <1>2 DEF PollFromDb, Claimable
<1>3. CASE Claim(w) BY <1>3 DEF Claim, Claimable
<1>4. CASE ClaimLost(w) BY <1>4 DEF ClaimLost, Claimable
<1>5. CASE ClaimRefused(w) BY <1>5 DEF ClaimRefused
<1>6. CASE Renew(w) BY <1>6 DEF Renew
<1>7. CASE RenewFails(w) BY <1>7 DEF RenewFails
<1>8. CASE Progress(w) BY <1>8 DEF Progress
<1>9. CASE \E k \in Kinds : Finish(w, k) BY <1>9 DEF Finish
<1>10. CASE Abort(w) BY <1>10 DEF Abort
<1>11. CASE CrashWorker(w) BY <1>11 DEF CrashWorker
<1> QED BY <1>1, <1>2, <1>3, <1>4, <1>5, <1>6, <1>7, <1>8, <1>9, <1>10, <1>11 DEF WorkerStep

LEMMA AccountsReportStep ==
  ASSUME TypeOK, Accounts, NEW m \in net, Answer(m) \/ Drop(m) PROVE Accounts'
<1> USE ConstantsAssumption DEF TypeOK, Accounts, LockedRows, AttemptsPaid,
        CompletionsPaid, Once, Settled, TxKind, TaskStatus, rowVars, pushVars,
        wkVars, history, SetStatus, Report, Take
<1>0. \A u \in Task : Cardinality(accepted[u]) \in Nat
  BY CompletionCount DEF Accounts
<1> USE <1>0
<1>1. CASE Complete(m)
  <2>1. \A u \in Task : /\ accepted'[u] = IF u = m.task THEN accepted[u] \cup {m.token}
                                                      ELSE accepted[u]
                       /\ extra'[u] = extra[u] /\ issued'[u] = issued[u]
                       /\ retry'[u] = retry[u] /\ tx'[u] = tx[u]
                       /\ status'[u] = IF u = m.task THEN "completed" ELSE status[u]
    BY <1>1 DEF Complete
  <2>2. status[m.task] \in {"running", "paused"} /\ tx[m.task] = "none" /\ m.task \in Task
    BY <1>1 DEF Complete, Current, Holds, Leased
  <2>3. LockedRows'
    BY <1>1 DEF Complete
  <2>4. AttemptsPaid'
    BY <1>1 DEF Complete, Current, Holds, Leased
  <2>5. ASSUME NEW u \in Task
        PROVE  /\ IsFiniteSet(accepted'[u])
               /\ Cardinality(accepted'[u]) <= extra'[u] + Once(u, Settled)'
    <3>1. CASE u = m.task
      <4>1. Cardinality(accepted[u]) <= extra[u]
        BY <3>1, <2>2
      <4>2. /\ IsFiniteSet(accepted[u] \cup {m.token})
            /\ Cardinality(accepted[u] \cup {m.token}) <= Cardinality(accepted[u]) + 1
            /\ Cardinality(accepted[u] \cup {m.token}) \in Nat
        BY CompletionCount
      <4>3. accepted'[u] = accepted[u] \cup {m.token} /\ extra'[u] = extra[u]
            /\ status'[u] = "completed"
        BY <3>1, <2>1
      <4> QED BY <4>1, <4>2, <4>3
    <3>2. CASE u # m.task
      BY <3>2, <2>1
    <3> QED BY <3>1, <3>2
  <2>6. CompletionsPaid'
    BY <2>5
  <2> QED BY <2>3, <2>4, <2>6
<1>2. CASE Fail(m) BY <1>2 DEF Fail, Current, Holds, Leased
<1>3. CASE FailForGood(m) BY <1>3 DEF FailForGood, Current, Holds, Leased
<1>4. CASE Pause(m) BY <1>4 DEF Pause
<1>5. CASE RejectStale(m) BY <1>5 DEF RejectStale
<1>6. CASE Drop(m) BY <1>6 DEF Drop
<1> QED BY <1>1, <1>2, <1>3, <1>4, <1>5, <1>6 DEF Answer

(* A transaction is a set of rows, each with its commit still to come. *)
LEMMA TransactionRows ==
  ASSUME TypeOK, NEW S \in Transactions PROVE \A t \in S : t \in Task /\ tx[t] \in TxKind
BY DEF Transactions, TypeOK, TxKind

LEMMA AccountsServerStep ==
  ASSUME TypeOK, Accounts,
         \/ \E S \in Transactions : Commit(S) \/ Rollback(S)
         \/ RedisLoss
  PROVE  Accounts'
<1> USE ConstantsAssumption DEF TypeOK, Accounts, LockedRows, AttemptsPaid,
        CompletionsPaid, Once, Settled, TxKind, TaskStatus, rowVars, pushVars,
        wkVars, history
<1>0. \A u \in Task : Cardinality(accepted[u]) \in Nat
  BY CompletionCount DEF Accounts
<1> USE <1>0
<1>1. ASSUME NEW S \in Transactions, Commit(S) PROVE Accounts'
  <2>1. /\ UNCHANGED <<issued, accepted>>
        /\ \A u \in Task :
             /\ status'[u] = IF u \in S THEN "pending" ELSE status[u]
             /\ tx'[u]     = IF u \in S THEN "none" ELSE tx[u]
             /\ retry'[u]  = IF u \in S /\ tx[u] = "reap" THEN retry[u] + 1 ELSE retry[u]
             /\ extra'[u]  = IF u \in S /\ tx[u] = "retry" THEN extra[u] + 1 ELSE extra[u]
    BY <1>1 DEF Commit
  <2>2. \A u \in S : tx[u] \in TxKind
    BY TransactionRows
  <2>3. LockedRows'
    BY <2>1
  <2>4. AttemptsPaid'
    BY <2>1, <2>2
  <2>5. CompletionsPaid'
    BY <2>1, <2>2
  <2> QED BY <2>3, <2>4, <2>5
<1>2. ASSUME NEW S \in Transactions, Rollback(S) PROVE Accounts'
  BY <1>2 DEF Rollback
<1>3. CASE RedisLoss
  BY <1>3 DEF RedisLoss
<1> QED BY <1>1, <1>2, <1>3

LEMMA AccountsStep == TypeOK /\ Accounts /\ [Next]_vars => Accounts'
<1> SUFFICES ASSUME TypeOK, Accounts, [Next]_vars PROVE Accounts'
  OBVIOUS
<1>1. CASE \E t \in Task : TaskStep(t)    BY <1>1, AccountsTaskStep
<1>2. CASE \E w \in Worker : WorkerStep(w) BY <1>2, AccountsWorkerStep
<1>3. CASE \E m \in net : Answer(m) \/ Drop(m) BY <1>3, AccountsReportStep
<1>4. CASE \/ \E S \in Transactions : Commit(S) \/ Rollback(S)
           \/ RedisLoss
  BY <1>4, AccountsServerStep
<1>5. CASE UNCHANGED vars
  BY <1>5 DEF vars, rowVars, pushVars, wkVars, history, Accounts, LockedRows,
              AttemptsPaid, CompletionsPaid, Once
<1> QED BY <1>1, <1>2, <1>3, <1>4, <1>5 DEF Next

(* Every claim and every completion of a task is paid for: the accounts that   *)
(* bound the attempts balance in every reachable state.                        *)
THEOREM AccountsAlways == Spec => []Accounts
<1>1. Init => Accounts
  BY FS_EmptySet, ConstantsAssumption
  DEF Init, Accounts, LockedRows, AttemptsPaid, CompletionsPaid, Once, Settled
<1> QED BY <1>1, AccountsStep, TypeCorrect, PTL DEF Spec

(* A task is claimed at most MaxRetries + 1 times, plus once for every user     *)
(* retry and every pause of it, in every instance.                             *)
THEOREM AttemptsBounded == Spec => []AttemptBudget
<1>1. TypeOK /\ Accounts => AttemptBudget
  BY ConstantsAssumption DEF TypeOK, Accounts, AttemptsPaid, Once, AttemptBudget
<1> QED BY <1>1, TypeCorrect, AccountsAlways, PTL

(* A task completes at most once, plus once for every user retry and pause.    *)
THEOREM CompletionsBounded == Spec => []CompletionBudget
<1>1. ASSUME TypeOK, Accounts, NEW t \in Task
      PROVE  Cardinality(accepted[t]) <= 1 + extra[t]
  <2>1. Cardinality(accepted[t]) \in Nat
    BY <1>1, CompletionCount DEF Accounts
  <2> QED BY <1>1, <2>1 DEF TypeOK, Accounts, CompletionsPaid, Once
<1>2. TypeOK /\ Accounts => CompletionBudget
  BY <1>1 DEF CompletionBudget
<1> QED BY <1>2, TypeCorrect, AccountsAlways, PTL

----------------------------------------------------------------------------
(* Who completes a task.                                                   *)

(* A completion comes from the claim that holds the row. *)
LEMMA WhoCompletes ==
  ASSUME TypeOK, Fenced, [Next]_vars, NEW t \in Task, accepted'[t] # accepted[t]
  PROVE  \E m \in net : m.task = t /\ m.token = issued[t] /\ Complete(m)
<1> USE DEF TypeOK, rowVars, pushVars, wkVars, history
<1>1. ~ \E u \in Task : TaskStep(u)
  BY DEF TaskStep, Create, Admit, Overload, Release, Throttle, Unblock, UserRetry,
         Reap, ReapFail, ForgetPush, Recover, PushRecovered, Heal, Lapse, Cancel
<1>2. ~ \E w \in Worker : WorkerStep(w)
  BY DEF WorkerStep, Pop, PollFromDb, Claim, ClaimLost, ClaimRefused, Renew,
         RenewFails, Progress, Finish, Abort, CrashWorker, Grant
<1>3. ~ ((\E S \in Transactions : Commit(S) \/ Rollback(S)) \/ RedisLoss)
  BY DEF Commit, Rollback, RedisLoss
<1>4. ~ UNCHANGED vars
  BY DEF vars
<1>5. PICK m \in net : Answer(m) \/ Drop(m)
  BY <1>1, <1>2, <1>3, <1>4 DEF Next
<1>6. Complete(m)
  BY <1>5 DEF Answer, Fail, FailForGood, Pause, RejectStale, Drop
<1>7. m.task = t
  BY <1>6 DEF Complete, Report
<1>8. m.token = issued[t]
  BY <1>6, <1>7 DEF Complete, Current, Holds, Fenced, TokensIssued, Report
<1> QED BY <1>6, <1>7, <1>8

(* However reports are delayed, repeated or overtaken by a recovery, only the    *)
(* latest claim of a task completes it, and only while it holds the lease.       *)
THEOREM LatestClaimCompletes == Spec => OnlyLatestClaimCompletes
<1>1. ASSUME TypeOK, Fenced, [Next]_vars, NEW t \in Task, accepted'[t] # accepted[t]
      PROVE  status[t] \in Leased /\ accepted'[t] = accepted[t] \cup {issued[t]}
  <2>1. PICK m \in net : m.task = t /\ m.token = issued[t] /\ Complete(m)
    BY <1>1, WhoCompletes
  <2> QED BY <1>1, <2>1 DEF Complete, Current, Holds, TypeOK
<1>2. TypeOK /\ Fenced /\ [Next]_vars
        => [\A t \in Task : accepted'[t] # accepted[t] =>
              status[t] \in Leased /\ accepted'[t] = accepted[t] \cup {issued[t]}]_vars
  BY <1>1
<1> QED BY <1>2, TypeCorrect, FencedAlways, PTL DEF Spec, OnlyLatestClaimCompletes

----------------------------------------------------------------------------
(* Without pauses the protocol implements FencedTask.                      *)

NoPause ==
  /\ \A t \in Task : status[t] # "paused"
  /\ \A m \in net : m.kind # "paused"

LEMMA NoPauseStep ==
  ASSUME "paused" \notin Kinds, TypeOK, NoPause, [Next]_vars PROVE NoPause'
<1> USE DEF TypeOK, NoPause, rowVars, pushVars, wkVars, history, SetStatus
<1>1. ASSUME NEW t \in Task, TaskStep(t) PROVE NoPause'
  BY <1>1 DEF TaskStep, Create, Admit, Overload, Release, Throttle, Unblock,
         UserRetry, Reap, ReapFail, ForgetPush, Recover, PushRecovered, Heal, Lapse,
         Cancel
<1>2. ASSUME NEW w \in Worker, WorkerStep(w) PROVE NoPause'
  BY <1>2 DEF WorkerStep, Pop, PollFromDb, Claim, ClaimLost, ClaimRefused, Renew,
         RenewFails, Progress, Finish, Abort, CrashWorker, Grant
<1>3. ASSUME NEW m \in net, Answer(m) \/ Drop(m) PROVE NoPause'
  BY <1>3 DEF Answer, Complete, Fail, FailForGood, Pause, RejectStale, Drop, Take
<1>4. CASE \/ \E S \in Transactions : Commit(S) \/ Rollback(S)
           \/ RedisLoss
  BY <1>4 DEF Commit, Rollback, RedisLoss
<1>5. CASE UNCHANGED vars
  BY <1>5 DEF vars
<1> QED BY <1>1, <1>2, <1>3, <1>4, <1>5 DEF Next

(* A step maps to a step of FencedTask, or to none. *)
AbsStep == Abs!Next \/ UNCHANGED Abs!vars

LEMMA RevokeStep == ASSUME NEW S \in SUBSET Task, Abs!Revoke(S) PROVE AbsStep
BY DEF Abs!Next, AbsStep

LEMMA AbsTaskStep ==
  ASSUME TypeOK, Fenced, NEW t \in Task, TaskStep(t) PROVE AbsStep
<1> USE DEF TypeOK, Fenced, RunningIsClaimed, TokensIssued, AbsStep, Abs!vars,
        rowVars, history, SetStatus
<1>1. CASE ReapFail(t) \/ Recover(t) \/ (Cancel(t) /\ status[t] = "running" /\ status' # status)
  <2>1. Abs!Revoke({t})
    BY <1>1 DEF ReapFail, Recover, Cancel, Abs!Revoke
  <2> QED BY <2>1 DEF Abs!Next
<1>2. CASE Cancel(t) /\ (status[t] # "running" \/ status' = status)
  BY <1>2 DEF Cancel
<1>3. CASE Create(t) \/ Admit(t) \/ Release(t) \/ Throttle(t) \/ Unblock(t)
             \/ UserRetry(t) \/ Reap(t) \/ ForgetPush(t)
  BY <1>3 DEF Create, Admit, Release, Throttle, Unblock, UserRetry, Reap, ForgetPush
<1>4. CASE Overload(t)
  BY <1>4 DEF Overload, Untouched
<1>5. CASE PushRecovered(t) \/ Heal(t) \/ Lapse(t)
  BY <1>5 DEF PushRecovered, Heal, Lapse
<1> QED BY <1>1, <1>2, <1>3, <1>4, <1>5 DEF TaskStep

LEMMA AbsWorkerStep ==
  ASSUME TypeOK, Fenced, NEW w \in Worker, WorkerStep(w) PROVE AbsStep
<1> USE DEF TypeOK, AbsStep, Abs!vars, rowVars, history
<1>1. ASSUME NEW t \in Task, Claimable(t), Grant(t, w) PROVE AbsStep
  <2>1. Abs!Grant(t)
    BY <1>1 DEF Grant, Claimable, Abs!Grant
  <2> QED BY <2>1 DEF Abs!Next
<1>2. CASE \/ \E t \in Task : PollFromDb(w, t)
           \/ Claim(w) \/ ClaimLost(w)
  BY <1>1, <1>2 DEF PollFromDb, Claim, ClaimLost
<1>3. CASE \/ \E t \in Task : Pop(w, t)
           \/ ClaimRefused(w) \/ Renew(w) \/ RenewFails(w) \/ Progress(w)
           \/ \E k \in Kinds : Finish(w, k)
           \/ Abort(w) \/ CrashWorker(w)
  BY <1>3 DEF Pop, ClaimRefused, Renew, RenewFails, Progress, Finish, Abort, CrashWorker
<1> QED BY <1>2, <1>3 DEF WorkerStep

LEMMA AbsReportStep ==
  ASSUME TypeOK, Fenced, NoPause, NEW m \in net, Answer(m) \/ Drop(m) PROVE AbsStep
<1> USE DEF TypeOK, Fenced, RunningIsClaimed, TokensIssued, NoPause, AbsStep, Abs!vars,
        rowVars, history, SetStatus, Report, Current, Holds, Leased
<1>1. CASE Complete(m)
  <2>1. /\ status[m.task] = "running" /\ token[m.task] = m.token
        /\ m.task \in Task /\ m.token # 0
    BY <1>1 DEF Complete
  <2>2. /\ status' = [status EXCEPT ![m.task] = "completed"]
        /\ accepted' = [accepted EXCEPT ![m.task] = @ \cup {m.token}]
        /\ token' = token /\ issued' = issued
    BY <1>1 DEF Complete
  <2>3. Abs!Win(m.task)
    BY <2>1, <2>2 DEF Abs!Win
  <2> QED BY <2>1, <2>3 DEF Abs!Next
<1>2. CASE Fail(m) \/ FailForGood(m)
  <2>1. Abs!Revoke({m.task})
    BY <1>2 DEF Fail, FailForGood, Abs!Revoke
  <2> QED BY <2>1 DEF Abs!Next
<1>3. CASE Pause(m)
  BY <1>3 DEF Pause
<1>4. CASE RejectStale(m) \/ Drop(m)
  BY <1>4 DEF RejectStale, Drop
<1> QED BY <1>1, <1>2, <1>3, <1>4 DEF Answer

\* The commit of a reaper's pass takes its running tasks away.
LEMMA AbsCommit ==
  ASSUME TypeOK, Fenced, NEW S \in Transactions, Commit(S), NEW R \in SUBSET Task,
         \A t \in Task : t \in R <=> t \in S /\ status[t] = "running"
  PROVE  Abs!Revoke(R)
<1>1. \A t \in R : status[t] = "running" /\ token[t] # 0
  BY DEF TypeOK, Fenced, RunningIsClaimed
<1>2. \A t \in Task : status'[t] = IF t \in S THEN "pending" ELSE status[t]
  BY DEF Commit
<1>3. token' = token /\ issued' = issued /\ accepted' = accepted
  BY DEF Commit
<1>4. \A t \in Task : (IF status'[t] = "running" THEN token[t] ELSE 0)
                       = IF t \in R THEN 0
                         ELSE IF status[t] = "running" THEN token[t] ELSE 0
  BY <1>2
<1> QED BY <1>1, <1>3, <1>4 DEF Abs!Revoke

LEMMA AbsServerStep ==
  ASSUME TypeOK, Fenced,
         \/ \E S \in Transactions : Commit(S) \/ Rollback(S)
         \/ RedisLoss
  PROVE  AbsStep
<1> USE DEF TypeOK, Fenced, RunningIsClaimed, AbsStep, Abs!vars, rowVars, history
<1>1. ASSUME NEW S \in Transactions, Commit(S) PROVE AbsStep
  <2>1. PICK R \in SUBSET Task : \A t \in Task : t \in R <=> t \in S /\ status[t] = "running"
    <3>1. {t \in Task : t \in S /\ status[t] = "running"} \in SUBSET Task
      OBVIOUS
    <3> QED BY <3>1
  <2>2. Abs!Revoke(R)
    BY <1>1, <2>1, AbsCommit
  <2> QED BY <2>2, RevokeStep
<1>2. ASSUME NEW S \in Transactions, Rollback(S) PROVE AbsStep
  BY <1>2 DEF Rollback
<1>3. CASE RedisLoss
  BY <1>3 DEF RedisLoss
<1> QED BY <1>1, <1>2, <1>3

LEMMA AbsNext ==
  ASSUME TypeOK, Fenced, NoPause, [Next]_vars PROVE AbsStep
<1>1. CASE \E t \in Task : TaskStep(t)    BY <1>1, AbsTaskStep
<1>2. CASE \E w \in Worker : WorkerStep(w) BY <1>2, AbsWorkerStep
<1>3. CASE \E m \in net : Answer(m) \/ Drop(m) BY <1>3, AbsReportStep
<1>4. CASE \/ \E S \in Transactions : Commit(S) \/ Rollback(S)
           \/ RedisLoss
  BY <1>4, AbsServerStep
<1>5. CASE UNCHANGED vars
  BY <1>5 DEF vars, rowVars, history, AbsStep, Abs!vars
<1> QED BY <1>1, <1>2, <1>3, <1>4, <1>5 DEF Next

(* Where no worker pauses tasks, the whole protocol of queue, claims, leases,   *)
(* recovery, reaper and reports is, for each task, a lock with numbered holders. *)
THEOREM FencedTaskImplemented ==
  ASSUME "paused" \notin Kinds PROVE Spec => ImplementsFencedTask
<1>1. Init => Abs!Init
  BY DEF Init, Abs!Init
<1>2. Init => NoPause
  BY DEF Init, NoPause
<1>3. TypeOK /\ NoPause /\ [Next]_vars => NoPause'
  BY NoPauseStep
<1>4. TypeOK /\ Fenced /\ NoPause /\ [Next]_vars => [Abs!Next]_(Abs!vars)
  BY AbsNext DEF AbsStep, Abs!vars
<1> QED BY <1>1, <1>2, <1>3, <1>4, TypeCorrect, FencedAlways, PTL
        DEF Spec, Abs!Spec, ImplementsFencedTask

----------------------------------------------------------------------------
(* Settled tasks, where nobody cancels, retries by hand or pauses.          *)

Unmeddled == Limit["cancel"] = 0 /\ Limit["retry"] = 0 /\ "paused" \notin Kinds

NoUserRetry == \A t \in Task : tx[t] # "retry"

LEMMA NoUserRetryStep ==
  ASSUME Unmeddled, TypeOK, NoUserRetry, [Next]_vars PROVE NoUserRetry'
<1> USE DEF Unmeddled, TypeOK, Event, NoUserRetry, rowVars, pushVars, wkVars, history, SetStatus
<1>1. ASSUME NEW t \in Task, TaskStep(t) PROVE NoUserRetry'
  BY <1>1 DEF TaskStep, Create, Admit, Overload, Release, Throttle, Unblock,
         UserRetry, Reap, ReapFail, ForgetPush, Recover, PushRecovered, Heal, Lapse,
         Cancel, Requested, Spend, SpendWithFault
<1>2. ASSUME NEW w \in Worker, WorkerStep(w) PROVE NoUserRetry'
  BY <1>2 DEF WorkerStep, Pop, PollFromDb, Claim, ClaimLost, ClaimRefused, Renew,
         RenewFails, Progress, Finish, Abort, CrashWorker, Grant
<1>3. ASSUME NEW m \in net, Answer(m) \/ Drop(m) PROVE NoUserRetry'
  BY <1>3 DEF Answer, Complete, Fail, FailForGood, Pause, RejectStale, Drop
<1>4. CASE \/ \E S \in Transactions : Commit(S) \/ Rollback(S)
           \/ RedisLoss
  BY <1>4 DEF Commit, Rollback, RedisLoss
<1>5. CASE UNCHANGED vars
  BY <1>5 DEF vars
<1> QED BY <1>1, <1>2, <1>3, <1>4, <1>5 DEF Next

\* No step moves a settled task: the rows of a transaction are not settled (Accounts),
\* and a settled row has no lease a report or a scanner could act on.
LEMMA SettledStays ==
  ASSUME Unmeddled, TypeOK, Accounts, NoPause, NoUserRetry, [Next]_vars,
         NEW t \in Task, status[t] \in Settled
  PROVE  status'[t] = status[t]
<1> USE DEF TypeOK, rowVars, pushVars, wkVars, history, SetStatus, Settled
<1>1. ASSUME NEW u \in Task, TaskStep(u) PROVE status'[t] = status[t]
  <2>1. ~Cancel(u)
    BY DEF Unmeddled, Cancel, Requested, Spend, SpendWithFault, Event
  <2> QED
    BY <1>1, <2>1 DEF TaskStep, Create, Admit, Overload, Untouched, Release, Throttle, Unblock,
         UserRetry, Reap, ReapFail, ForgetPush, Recover, PushRecovered, Heal, Lapse
<1>2. ASSUME NEW w \in Worker, WorkerStep(w) PROVE status'[t] = status[t]
  BY <1>2 DEF WorkerStep, Pop, PollFromDb, Claim, ClaimLost, ClaimRefused, Renew,
         RenewFails, Progress, Finish, Abort, CrashWorker, Grant, Claimable
<1>3. ASSUME NEW m \in net, Answer(m) \/ Drop(m) PROVE status'[t] = status[t]
  BY <1>3 DEF Answer, Complete, Fail, FailForGood, Pause, RejectStale, Drop, NoPause,
         Current, Holds, Leased
<1>4. ASSUME NEW S \in Transactions, Commit(S) \/ Rollback(S) PROVE status'[t] = status[t]
  <2>1. t \notin S
    BY TransactionRows DEF NoUserRetry, Accounts, LockedRows, TxKind
  <2> QED
    BY <1>4, <2>1 DEF Commit, Rollback
<1>5. CASE RedisLoss \/ UNCHANGED vars
  BY <1>5 DEF RedisLoss, vars
<1> QED BY <1>1, <1>2, <1>3, <1>4, <1>5 DEF Next

\* Every report in flight is of the kinds that workers send.
KnownKinds == \A m \in net : m.kind \in Kinds

LEMMA KnownKindsStep == ASSUME TypeOK, KnownKinds, [Next]_vars PROVE KnownKinds'
<1> USE DEF TypeOK, KnownKinds, rowVars, pushVars, wkVars, history
<1>1. ASSUME NEW t \in Task, TaskStep(t) PROVE KnownKinds'
  BY <1>1 DEF TaskStep, Create, Admit, Overload, Release, Throttle, Unblock,
         UserRetry, Reap, ReapFail, ForgetPush, Recover, PushRecovered, Heal, Lapse,
         Cancel
<1>2. ASSUME NEW w \in Worker, WorkerStep(w) PROVE KnownKinds'
  BY <1>2 DEF WorkerStep, Pop, PollFromDb, Claim, ClaimLost, ClaimRefused, Renew,
         RenewFails, Progress, Finish, Abort, CrashWorker
<1>3. ASSUME NEW m \in net, Answer(m) \/ Drop(m) PROVE KnownKinds'
  BY <1>3 DEF Answer, Complete, Fail, FailForGood, Pause, RejectStale, Drop, Take
<1>4. CASE \/ \E S \in Transactions : Commit(S) \/ Rollback(S)
           \/ RedisLoss
  BY <1>4 DEF Commit, Rollback, RedisLoss
<1>5. CASE UNCHANGED vars
  BY <1>5 DEF vars
<1> QED BY <1>1, <1>2, <1>3, <1>4, <1>5 DEF Next

\* Only a failure of the server's own list gives a task up, and leaves it failed.
LEMMA WhoGivesUp ==
  ASSUME "permanent" \notin Kinds, TypeOK, KnownKinds, [Next]_vars,
         NEW t \in Task, gaveUp'[t], ~gaveUp[t]
  PROVE  status'[t] = "failed"
<1> USE DEF TypeOK, KnownKinds, rowVars, pushVars, wkVars, history
<1>1. ~ \E u \in Task : TaskStep(u)
  BY DEF TaskStep, Create, Admit, Overload, Release, Throttle, Unblock, UserRetry,
         Reap, ReapFail, ForgetPush, Recover, PushRecovered, Heal, Lapse, Cancel
<1>2. ~ \E w \in Worker : WorkerStep(w)
  BY DEF WorkerStep, Pop, PollFromDb, Claim, ClaimLost, ClaimRefused, Renew,
         RenewFails, Progress, Finish, Abort, CrashWorker, Grant
<1>3. ~ ((\E S \in Transactions : Commit(S) \/ Rollback(S)) \/ RedisLoss)
  BY DEF Commit, Rollback, RedisLoss
<1>4. ~ UNCHANGED vars
  BY DEF vars
<1>5. PICK m \in net : Answer(m) \/ Drop(m)
  BY <1>1, <1>2, <1>3, <1>4 DEF Next
<1>6. m.kind # "permanent" /\ m.task \in Task
  BY DEF Report
<1>7. CASE Fail(m)
  <2>1. gaveUp' = [gaveUp EXCEPT ![m.task] = @ \/ FALSE]
    BY <1>6, <1>7 DEF Fail
  <2> QED BY <1>6, <2>1
<1>8. CASE FailForGood(m)
  BY <1>6, <1>8 DEF FailForGood, SetStatus
<1> QED
  BY <1>5, <1>7, <1>8 DEF Answer, Complete, Pause, RejectStale, Drop

(* No settled task is ever moved again, by whatever scanner, transaction or     *)
(* delayed report, where nobody cancels, retries by hand or pauses.             *)
THEOREM SettledStaysAlways == ASSUME Unmeddled PROVE Spec => SettledIsFinal
<1>1. Init => NoPause /\ NoUserRetry
  BY DEF Init, NoPause, NoUserRetry
<1>2. TypeOK /\ NoPause /\ [Next]_vars => NoPause'
  BY NoPauseStep DEF Unmeddled
<1>3. TypeOK /\ NoUserRetry /\ [Next]_vars => NoUserRetry'
  BY NoUserRetryStep
<1>4. TypeOK /\ Accounts /\ NoPause /\ NoUserRetry /\ [Next]_vars
        => [\A t \in Task : status[t] \in Settled => status'[t] = status[t]]_vars
  BY SettledStays
<1> QED BY <1>1, <1>2, <1>3, <1>4, TypeCorrect, AccountsAlways, PTL DEF Spec, SettledIsFinal

(* A failure of the server's list of permanent messages is not retried, not     *)
(* even by a scanner, for any number of tasks, workers and lost messages.       *)
THEOREM PermanentStays ==
  ASSUME Unmeddled, "permanent" \notin Kinds PROVE Spec => []PermanentIsFinal
<1>1. Init => PermanentIsFinal /\ NoPause /\ NoUserRetry /\ KnownKinds
  BY DEF Init, PermanentIsFinal, NoPause, NoUserRetry, KnownKinds
<1>2. TypeOK /\ NoPause /\ [Next]_vars => NoPause'
  BY NoPauseStep DEF Unmeddled
<1>3. TypeOK /\ NoUserRetry /\ [Next]_vars => NoUserRetry'
  BY NoUserRetryStep
<1>4. TypeOK /\ KnownKinds /\ [Next]_vars => KnownKinds'
  BY KnownKindsStep
<1>5. TypeOK /\ Accounts /\ NoPause /\ NoUserRetry /\ KnownKinds /\ PermanentIsFinal /\ [Next]_vars
        => PermanentIsFinal'
  <2> SUFFICES ASSUME TypeOK, Accounts, NoPause, NoUserRetry, KnownKinds, PermanentIsFinal,
                      [Next]_vars, NEW t \in Task, gaveUp'[t]
               PROVE  status'[t] = "failed"
    BY DEF PermanentIsFinal
  <2>1. CASE gaveUp[t]
    <3>1. status[t] = "failed"
      BY <2>1 DEF PermanentIsFinal
    <3> QED BY <3>1, SettledStays DEF Settled
  <2>2. CASE ~gaveUp[t]
    BY <2>2, WhoGivesUp
  <2> QED BY <2>1, <2>2
<1> QED BY <1>1, <1>2, <1>3, <1>4, <1>5, TypeCorrect, AccountsAlways, PTL DEF Spec

=============================================================================
