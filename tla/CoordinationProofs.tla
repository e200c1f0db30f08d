-------------------------- MODULE CoordinationProofs --------------------------
(***************************************************************************)
(* The coordination modules, proved about one by one and then together, as *)
(* MCCoordination composes them: for any processes, providers, documents,  *)
(* jobs and requests.                                                      *)
(***************************************************************************)
EXTENDS MCCoordination, Sequences, SequenceTheorems, FiniteSetTheorems, TLAPS

-----------------------------------------------------------------------------
(* The election: one leader at a time, for any durations that leave room   *)
(* for one whole beat and the next (Timely), as long as no beat has been   *)
(* missed (Unharmed).                                                      *)

Timely == TTL > Beat + Delay + Delay

\* Every step of the election keeps every variable in its type.
THEOREM TypeCorrect == Spec => []TypeOK
<1>1. Init => TypeOK
  BY ElectionAssumption DEF Init, TypeOK
<1>2. ASSUME TypeOK, [Next]_vars PROVE TypeOK'
  <2> USE <1>2, ElectionAssumption DEF TypeOK, Busy, Alive, Goto, Lead
  <2>1. ASSUME NEW i \in Instance, Start(i) \/ HeartbeatStep(i) PROVE TypeOK'
    <3>1. CASE Start(i) \/ Wake(i)
      BY <3>1 DEF Start, Wake, Begin
    <3>2. CASE Acquire(i) \/ Refused(i)
      BY <3>2 DEF Acquire, Refused, TakeKey
    <3>3. CASE Look(i) \/ Extend(i) \/ Save(i)
      BY <3>3 DEF Look, Extend, Save, Rest, Prolong
    <3> QED BY <2>1, <3>1, <3>2, <3>3 DEF HeartbeatStep
  <2>2. ASSUME NEW f \in Fault, Spend(f) PROVE used' \in [Fault -> Nat]
    BY <2>2 DEF Spend
  <2>3. ASSUME NEW i \in Instance, FaultStep(i) PROVE TypeOK'
    <3>1. used' \in [Fault -> Nat]
      BY <2>2, <2>3 DEF FaultStep, Retry, Preserve, Skip, Stall, Crash, Fault
    <3>2. CASE Retry(i)
      BY <3>1, <3>2 DEF Retry, TakeKey, Prolong
    <3>3. CASE Preserve(i) \/ Skip(i)
      BY <3>1, <3>3 DEF Preserve, Skip, Rest
    <3>4. CASE Stall(i)
      BY <3>1, <3>4 DEF Stall
    <3>5. CASE Crash(i)
      BY <3>1, <3>5 DEF Crash
    <3>6. QED
      BY <2>3, <3>2, <3>3, <3>4, <3>5 DEF FaultStep
  <2>4. CASE Wipe
    BY <2>2, <2>4 DEF Wipe, Fault
  <2>5. CASE Tick
    BY <2>5 DEF Tick, Expire
  <2>6. CASE UNCHANGED vars
    BY <2>6 DEF vars
  <2>7. QED
    BY <2>1, <2>3, <2>4, <2>5, <2>6 DEF Next
<1>3. QED
  BY <1>1, <1>2, PTL DEF Spec

\* A harmful fault leaves its mark.
LEMMA HarmShows ==
  ASSUME TypeOK, NEW f \in Fault \ {"lost", "crash"}, Spend(f)
  PROVE  ~Unharmed'
<1>1. used'[f] = used[f] + 1 /\ used[f] \in Nat
  BY DEF Spend, TypeOK
<1>2. used'[f] # 0
  BY <1>1
<1>3. QED
  BY <1>2 DEF Unharmed

\* No fault is forgotten.
LEMMA HarmStays ==
  ASSUME TypeOK, [Next]_vars, Unharmed' PROVE Unharmed
<1>1. ASSUME NEW f \in Fault, Spend(f), NEW g \in Fault, used'[g] = 0 PROVE used[g] = 0
  BY <1>1 DEF Spend, TypeOK
<1>2. ASSUME NEW g \in Fault, used'[g] = 0 PROVE used[g] = 0
  BY <1>1, <1>2 DEF Next, vars, Start, HeartbeatStep, FaultStep, Wake, Acquire, Refused, Look,
     Extend, Save, Retry, Preserve, Skip, Stall, Crash, Wipe, Tick, Fault
<1>3. QED
  BY <1>2 DEF Unharmed

\* The inductive step: a beat ends, and the next extends the key, before the
\* key can expire under its holder.
LEMMA HeldStep ==
  ASSUME Timely, TypeOK, KeyHeld, [Next]_vars, Unharmed'
  PROVE  KeyHeld'
<1> USE ElectionAssumption DEF TypeOK, KeyHeld, Timely, Goto, Lead, Busy, Alive,
        LeaderHolds, HolderLasts, ExtendsOwn, HoldersBegan, BeatsInTime, KeyIsTimed, Need
<1>1. ASSUME NEW i \in Instance, Start(i) PROVE KeyHeld'
  BY <1>1 DEF Start, Begin
<1>2. ASSUME NEW i \in Instance, Wake(i) PROVE KeyHeld'
  BY <1>2 DEF Wake, Begin
<1>3. ASSUME NEW i \in Instance, Acquire(i) PROVE KeyHeld'
  BY <1>3 DEF Acquire, TakeKey
<1>4. ASSUME NEW i \in Instance, Refused(i) PROVE KeyHeld'
  BY <1>4 DEF Refused
<1>5. ASSUME NEW i \in Instance, Look(i) PROVE KeyHeld'
  BY <1>5 DEF Look
<1>6. ASSUME NEW i \in Instance, Extend(i) PROVE KeyHeld'
  BY <1>6 DEF Extend, Prolong
<1>7. ASSUME NEW i \in Instance, Save(i) PROVE KeyHeld'
  BY <1>7 DEF Save, Rest
<1>8. ASSUME NEW i \in Instance, Retry(i) PROVE KeyHeld'
  <2>1. CASE pc[i] = "lock" /\ TakeKey(i)
    BY <1>8, <2>1 DEF Retry, TakeKey
  <2>2. CASE UNCHANGED <<holder, ttl>>
    BY <1>8, <2>2 DEF Retry
  <2>3. CASE pc[i] = "extend" /\ Prolong /\ UNCHANGED holder
    BY <1>8, <2>3 DEF Retry, Prolong
  <2>4. QED
    BY <1>8, <2>1, <2>2, <2>3 DEF Retry
<1>9. ASSUME NEW i \in Instance, Preserve(i) \/ Skip(i) \/ Stall(i) PROVE FALSE
  BY <1>9, HarmShows DEF Preserve, Skip, Stall, Fault
<1>10. ASSUME NEW i \in Instance, Crash(i) PROVE KeyHeld'
  BY <1>10 DEF Crash
<1>11. CASE Wipe
  BY <1>11, HarmShows DEF Wipe, Fault
<1>12. CASE Tick
  BY <1>12 DEF Tick, Expire
<1>13. CASE UNCHANGED vars
  BY <1>13 DEF vars
<1>14. QED
  BY <1>1, <1>2, <1>3, <1>4, <1>5, <1>6, <1>7, <1>8, <1>9, <1>10, <1>11, <1>12, <1>13
     DEF Next, HeartbeatStep, FaultStep

\* The flag is lost only in a beat that finds another's id under the key, and a
\* leader holds the key.
LEMMA StaysStep ==
  ASSUME TypeOK, KeyHeld, Next, NEW i \in Instance, flag[i]
  PROVE  flag'[i] \/ pc'[i] = "dead"
<1> USE DEF TypeOK, KeyHeld, LeaderHolds, Lead, Goto
<1>1. ASSUME NEW j \in Instance, HeartbeatStep(j) PROVE flag'[i]
  BY <1>1 DEF HeartbeatStep, Wake, Acquire, Refused, Look, Extend, Save, Begin, Rest
<1>2. ASSUME NEW j \in Instance, FaultStep(j) PROVE flag'[i] \/ pc'[i] = "dead"
  BY <1>2 DEF FaultStep, Retry, Preserve, Skip, Stall, Crash, Rest
<1>3. QED
  BY <1>1, <1>2 DEF Next, Start, Begin, Wipe, Tick

\* The leader of ha_coordinator_service.py holds the key and extends it in time,
\* whatever single requests are lost and whichever processes die.
THEOREM HeldAlways ==
  ASSUME Timely
  PROVE  Spec => []Held
<1>1. Init => Held
  BY ElectionAssumption DEF Init, Held, KeyHeld, Busy, Alive, LeaderHolds, HolderLasts,
     ExtendsOwn, HoldersBegan, BeatsInTime, KeyIsTimed
<1>2. TypeOK /\ Held /\ [Next]_vars => Held'
  BY HeldStep, HarmStays DEF Held
<1>3. QED
  BY <1>1, <1>2, TypeCorrect, PTL DEF Spec

\* The scanners that consult is_leader_instance run in one process at a time.
THEOREM OneLeaderAlways ==
  ASSUME Timely
  PROVE  Spec => []OneLeaderUnharmed
<1>1. Held => OneLeaderUnharmed
  BY DEF Held, KeyHeld, LeaderHolds, OneLeader, OneLeaderUnharmed
<1>2. QED
  BY <1>1, HeldAlways, PTL

\* A live leader is not deposed.
THEOREM LeaderStaysAlways ==
  ASSUME Timely
  PROVE  Spec => LeaderStays
<1>1. TypeOK /\ Held /\ [Next]_vars =>
        [Unharmed => \A i \in Instance : flag[i] => flag'[i] \/ pc'[i] = "dead"]_vars
  BY StaysStep DEF Held
<1>2. QED
  BY <1>1, TypeCorrect, HeldAlways, PTL DEF Spec, LeaderStays

-----------------------------------------------------------------------------
(* The breaker.                                                            *)

\* The counters of the breaker belong to its state, whatever reports of earlier calls come
\* late, for any threshold and number of calls (record_success, record_failure).
THEOREM BreakerAlways ==
  ASSUME B!BreakerAssumption
  PROVE  B!Spec => [](B!TypeOK /\ B!CountsFit)
<1> USE DEF B!BreakerAssumption, B!TypeOK, B!CountsFit, B!State
<1>1. ASSUME B!Init PROVE B!TypeOK /\ B!CountsFit
  <2> USE <1>1 DEF B!Init
  <2>1. elapsed \in BOOLEAN /\ up \in BOOLEAN
    OBVIOUS
  <2>2. /\ failures \in 0 .. Threshold /\ probes \in 0 .. Probes
        /\ spent \in [{"outage", "noise"} -> Nat]
    OBVIOUS
  <2> QED
    BY <2>1, <2>2
<1>2. ASSUME B!TypeOK, B!CountsFit, [B!Next]_B!vars PROVE (B!TypeOK /\ B!CountsFit)'
  <2> USE <1>2 DEF B!Current
  <2>1. CASE UNCHANGED B!vars
    BY <2>1 DEF B!vars
  <2>2. ASSUME NEW c \in Call, B!Ask(c) PROVE (B!TypeOK /\ B!CountsFit)'
    BY <2>2 DEF B!Ask
  <2>3. ASSUME NEW c \in Call, B!Succeed(c) PROVE (B!TypeOK /\ B!CountsFit)'
    BY <2>3 DEF B!Succeed, B!CountSuccess
  <2>4. ASSUME NEW c \in Call, B!Fail(c) PROVE (B!TypeOK /\ B!CountsFit)'
    <3> USE <2>4 DEF B!Fail, B!CountFailure
    <3>1. elapsed' \in BOOLEAN /\ up' \in BOOLEAN
      OBVIOUS
    <3>2. /\ failures' \in 0 .. Threshold /\ probes' \in 0 .. Probes /\ state' \in B!State
          /\ spent' \in [{"outage", "noise"} -> Nat] /\ out' \subseteq Call
      OBVIOUS
    <3>3. B!CountsFit'
      OBVIOUS
    <3> QED
      BY <3>1, <3>2, <3>3
  <2>5. ASSUME NEW c \in Call, B!Ignored(c) PROVE (B!TypeOK /\ B!CountsFit)'
    BY <2>5 DEF B!Ignored, B!Spend
  <2>6. CASE B!Elapse \/ B!Repair
    <3> USE <2>6 DEF B!Elapse, B!Repair
    <3>1. elapsed' \in BOOLEAN /\ up' \in BOOLEAN
      OBVIOUS
    <3> QED
      BY <3>1
  <2>7. CASE B!Outage
    <3> USE <2>7 DEF B!Outage, B!Spend
    <3>1. elapsed' \in BOOLEAN /\ up' \in BOOLEAN
      OBVIOUS
    <3>2. spent' \in [{"outage", "noise"} -> Nat]
      OBVIOUS
    <3> QED
      BY <3>1, <3>2
  <2> QED
    BY <2>1, <2>2, <2>3, <2>4, <2>5, <2>6, <2>7 DEF B!Next
<1> QED
  BY <1>1, <1>2, PTL DEF B!Spec

-----------------------------------------------------------------------------
(* The queue.                                                              *)

\* The index is that of a document, or the first.
IndexFits == index = 0 \/ index < Len(order)

\* The pops a document has waited for and those it has still to wait for, until the index
\* comes round to it, are fewer than the documents.
TurnComes ==
  \A k \in 1 .. Len(order) :
    wait[order[k]] + k <= IF k > index + 1 THEN Len(order) + index + 1 ELSE index + 1

\* A document without jobs does not wait.
IdleWaitNot == \A d \in Doc : pending[d] = 0 => wait[d] = 0

QueueInv == Q!TypeOK /\ Q!OrderIsQueued /\ IndexFits /\ TurnComes /\ IdleWaitNot

\* The position after the index.
LEMMA AheadIsNext ==
  ASSUME Q!TypeOK, IndexFits, order # <<>>
  PROVE  /\ Q!Ahead = IF index + 1 = Len(order) THEN 0 ELSE index + 1
         /\ Q!Ahead + 1 \in 1 .. Len(order)
         /\ Len(order) \in Nat \ {0}
<1>1. Len(order) \in Nat \ {0} /\ index \in 0 .. Len(order) - 1
  BY DEF Q!TypeOK, IndexFits
<1>2. ASSUME NEW n \in Nat \ {0}, NEW i \in 0 .. n - 1 PROVE (i + 1) % n = IF i + 1 = n THEN 0 ELSE i + 1
  OBVIOUS
<1> QED
  BY <1>1, <1>2 DEF Q!Ahead

\* What list.remove leaves of a list without repetitions.
LEMMA RemoveOne ==
  ASSUME NEW S, NEW s \in Seq(S), NEW i \in 1 .. Len(s),
         \A j, k \in 1 .. Len(s) : s[j] = s[k] => j = k,
         NEW r, r = Q!RemoveFirst(s, s[i])
  PROVE  /\ r \in Seq(S) /\ Len(r) = Len(s) - 1
         /\ \A k \in 1 .. Len(r) : r[k] = IF k < i THEN s[k] ELSE s[k + 1]
<1>1. {k \in 1 .. Len(s) : s[k] = s[i]} = {i}
  OBVIOUS
<1>2. Q!Min({i}) = i
  BY DEF Q!Min
<1>3. r = Q!RemoveAt(s, i)
  BY <1>1, <1>2 DEF Q!RemoveFirst, Q!SelectInSeq
<1>4. \A k \in 1 .. Len(s) : s[k] \in S
  OBVIOUS
<1> DEFINE front == SubSeq(s, 1, i - 1)
           rest  == SubSeq(s, i + 1, Len(s))
<1>5. front \in Seq(S) /\ Len(front) = i - 1 /\ \A k \in 1 .. i - 1 : front[k] = s[k]
  BY <1>4, SubSeqProperties
<1>6. rest \in Seq(S) /\ Len(rest) = Len(s) - i /\ \A k \in 1 .. Len(s) - i : rest[k] = s[k + i]
  BY <1>4, SubSeqProperties
<1>7. r = front \o rest
  BY <1>3 DEF Q!RemoveAt
<1> HIDE DEF front, rest
<1>8. /\ front \o rest \in Seq(S)
      /\ Len(front \o rest) = Len(front) + Len(rest)
      /\ \A k \in 1 .. Len(front) + Len(rest) :
           (front \o rest)[k] = IF k <= Len(front) THEN front[k] ELSE rest[k - Len(front)]
  BY <1>5, <1>6, ConcatProperties, ZenonT(20)
<1>9. Len(r) = Len(s) - 1 /\ r \in Seq(S)
  BY <1>5, <1>6, <1>7, <1>8
<1>10. \A k \in 1 .. Len(s) - 1 : r[k] = IF k <= i - 1 THEN front[k] ELSE rest[k - (i - 1)]
  BY <1>5, <1>6, <1>7, <1>8
<1>11. ASSUME NEW k \in 1 .. Len(s) - 1 PROVE r[k] = IF k < i THEN s[k] ELSE s[k + 1]
  <2>1. CASE k < i
    BY <1>5, <1>10, <2>1
  <2>2. CASE k >= i
    <3>1. k - (i - 1) \in 1 .. Len(s) - i /\ k - (i - 1) + i = k + 1
      BY <2>2
    <3>2. rest[k - (i - 1)] = s[k + 1]
      BY <1>6, <3>1
    <3> QED
      BY <1>10, <2>2, <3>2
  <2> QED
    BY <2>1, <2>2
<1> QED
  BY <1>9, <1>11

\* The invariant in terms of what the steps look at.
LEMMA QueueFacts ==
  ASSUME QueueInv
  PROVE  /\ Len(order) \in Nat /\ index \in Nat /\ (index = 0 \/ index < Len(order))
         /\ \A k \in 1 .. Len(order) : order[k] \in Doc /\ pending[order[k]] > 0
         /\ \A d \in Doc : pending[d] > 0 => \E k \in 1 .. Len(order) : order[k] = d
         /\ \A j, k \in 1 .. Len(order) : order[j] = order[k] => j = k
         /\ \A d \in Doc : pending[d] \in 0 .. MaxJobs /\ wait[d] \in Nat
         /\ \A k \in 1 .. Len(order) :
              wait[order[k]] + k <= IF k > index + 1 THEN Len(order) + index + 1 ELSE index + 1
<1>1. Len(order) \in Nat /\ index \in Nat /\ \A k \in 1 .. Len(order) : order[k] \in Doc
  BY DEF QueueInv, Q!TypeOK
<1>2. \A k \in 1 .. Len(order) : pending[order[k]] > 0
  BY <1>1 DEF QueueInv, Q!OrderIsQueued
<1>3. \A d \in Doc : pending[d] \in 0 .. MaxJobs /\ wait[d] \in Nat
  BY DEF QueueInv, Q!TypeOK
<1> QED
  BY <1>1, <1>2, <1>3 DEF QueueInv, Q!OrderIsQueued, IndexFits, TurnComes

LEMMA PushKeeps ==
  ASSUME Q!QueueAssumption, QueueInv, NEW d \in Doc, Q!push(d)
  PROVE  QueueInv'
<1>1. /\ pending[d] < MaxJobs /\ pending' = [pending EXCEPT ![d] = @ + 1]
      /\ index' = index /\ wait' = wait /\ MaxJobs \in Nat
  BY DEF Q!push, Q!QueueAssumption
<1>2. order \in Seq(Doc) /\ pending \in [Doc -> 0 .. MaxJobs] /\ wait \in [Doc -> Nat] /\ index \in Nat
  BY DEF QueueInv, Q!TypeOK
<1>3. \A e \in Doc : pending'[e] = IF e = d THEN pending[e] + 1 ELSE pending[e]
  BY <1>1, <1>2
<1>4. CASE pending[d] = 0
  <2>1. order' = Append(order, d)
    BY <1>4 DEF Q!push
  <2>2. /\ order' \in Seq(Doc) /\ Len(order') = Len(order) + 1
        /\ \A k \in 1 .. Len(order) : order'[k] = order[k]
        /\ order'[Len(order) + 1] = d
    BY <1>2, <2>1
  <2>3. Q!TypeOK'
    BY <1>1, <1>2, <2>2 DEF Q!TypeOK
  <2>4. IndexFits'
    BY <1>1, <2>2, QueueFacts DEF IndexFits
  <2>5. Q!OrderIsQueued'
    <3>1. ASSUME NEW e \in Doc, pending'[e] > 0 PROVE \E k \in 1 .. Len(order) + 1 : order'[k] = e
      <4>1. CASE e = d
        BY <2>2, <4>1, QueueFacts
      <4>2. CASE e # d
        <5>1. PICK k \in 1 .. Len(order) : order[k] = e
          BY <1>3, <3>1, <4>2, QueueFacts
        <5> QED
          BY <2>2, <5>1, QueueFacts
      <4> QED
        BY <4>1, <4>2
    <3>2. ASSUME NEW k \in 1 .. Len(order) + 1 PROVE order'[k] \in Doc /\ pending'[order'[k]] > 0
      <4>1. CASE k = Len(order) + 1
        BY <1>3, <1>4, <2>2, <4>1
      <4>2. CASE k # Len(order) + 1
        <5>1. k \in 1 .. Len(order)
          BY <4>2, QueueFacts
        <5>2. order'[k] = order[k] /\ order[k] \in Doc /\ pending[order[k]] > 0 /\ order[k] # d
          BY <1>4, <2>2, <5>1, QueueFacts
        <5> QED
          BY <1>3, <5>2
      <4> QED
        BY <4>1, <4>2
    <3>3. ASSUME NEW j \in 1 .. Len(order) + 1, NEW k \in 1 .. Len(order) + 1, order'[j] = order'[k]
          PROVE  j = k
      <4>1. \A i \in 1 .. Len(order) : order'[i] = order[i] /\ order[i] # d
        BY <1>4, <2>2, QueueFacts
      <4>2. \A i \in 1 .. Len(order) + 1 : i \in 1 .. Len(order) \/ i = Len(order) + 1
        BY QueueFacts
      <4>3. CASE j \in 1 .. Len(order) /\ k \in 1 .. Len(order)
        BY <3>3, <4>1, <4>3, QueueFacts
      <4> QED
        BY <2>2, <3>3, <4>1, <4>2, <4>3
    <3> QED
      BY <2>2, <3>1, <3>2, <3>3 DEF Q!OrderIsQueued
  <2>6. TurnComes'
    <3>1. wait[d] = 0
      BY <1>4 DEF QueueInv, IdleWaitNot
    <3>2. ASSUME NEW k \in 1 .. Len(order) + 1
          PROVE  wait[order'[k]] + k <= IF k > index + 1 THEN Len(order) + 1 + index + 1 ELSE index + 1
      <4>1. CASE k = Len(order) + 1
        BY <2>2, <3>1, <4>1, QueueFacts
      <4>2. CASE k # Len(order) + 1
        <5>1. k \in 1 .. Len(order)
          BY <4>2, QueueFacts
        <5>2. order'[k] = order[k] /\ wait[order[k]] \in Nat
          BY <2>2, <5>1, QueueFacts
        <5> QED
          BY <5>1, <5>2, QueueFacts
      <4> QED
        BY <4>1, <4>2
    <3> QED
      BY <1>1, <2>2, <3>2 DEF TurnComes
  <2>7. IdleWaitNot'
    BY <1>1, <1>3, QueueFacts DEF QueueInv, IdleWaitNot
  <2> QED
    BY <2>3, <2>4, <2>5, <2>6, <2>7 DEF QueueInv
<1>5. CASE pending[d] # 0
  <2>1. order' = order
    BY <1>5 DEF Q!push
  <2>2. \A e \in Doc : pending'[e] > 0 <=> pending[e] > 0
    BY <1>3, <1>5, QueueFacts
  <2>3. Q!TypeOK' /\ IndexFits'
    BY <1>1, <1>2, <2>1 DEF QueueInv, Q!TypeOK, IndexFits
  <2>4. Q!OrderIsQueued'
    BY <2>1, <2>2 DEF QueueInv, Q!OrderIsQueued
  <2>5. TurnComes' /\ IdleWaitNot'
    BY <1>1, <1>3, <1>5, <2>1, QueueFacts DEF QueueInv, TurnComes, IdleWaitNot
  <2> QED
    BY <2>3, <2>4, <2>5 DEF QueueInv
<1> QED
  BY <1>4, <1>5

LEMMA PopKeeps ==
  ASSUME Q!QueueAssumption, QueueInv, Q!pop
  PROVE  QueueInv'
<1> DEFINE n == Len(order)
           a == Q!Ahead + 1
           d == order[a]
<1>1. /\ n \in Nat \ {0} /\ index \in Nat /\ a \in 1 .. n
      /\ a = IF index + 1 = n THEN 1 ELSE index + 2
      /\ index < n
  <2>1. Q!TypeOK /\ IndexFits /\ order # <<>>
    BY DEF QueueInv, Q!pop
  <2> QED
    BY <2>1, AheadIsNext, QueueFacts
<1>2. order \in Seq(Doc) /\ pending \in [Doc -> 0 .. MaxJobs] /\ wait \in [Doc -> Nat] /\ MaxJobs \in Nat
  BY DEF QueueInv, Q!TypeOK, Q!QueueAssumption
<1>3. d \in Doc /\ pending[d] \in 1 .. MaxJobs
  BY <1>1, <1>2, QueueFacts
<1>4. pending' = [pending EXCEPT ![d] = @ - 1]
  BY DEF Q!pop
<1>5. pending[d] = 1 => Q!Drop(d) /\ wait' = [e \in Doc |-> 0]
  BY DEF Q!pop
<1>6. pending[d] # 1 => Q!Keep(d) /\ wait' = [e \in Doc |-> IF e = d \/ pending[e] = 0 THEN 0 ELSE wait[e] + 1]
  BY DEF Q!pop
<1>7. Q!Ahead = a - 1
  BY <1>1, QueueFacts, AheadIsNext DEF QueueInv, Q!pop
<1> HIDE DEF a, d
<1>8. \A e \in Doc : pending'[e] = IF e = d THEN pending[e] - 1 ELSE pending[e]
  BY <1>2, <1>3, <1>4
<1>9. pending' \in [Doc -> 0 .. MaxJobs]
  BY <1>2, <1>3, <1>4
<1>10. \A k \in 1 .. n : order[k] = d <=> k = a
  BY <1>1, QueueFacts DEF d
<1>11. CASE pending[d] = 1
  <2>1. /\ order' \in Seq(Doc) /\ Len(order') = n - 1
        /\ \A k \in 1 .. Len(order') : order'[k] = IF k < a THEN order[k] ELSE order[k + 1]
    <3>1. order' = Q!RemoveFirst(order, order[a])
      BY <1>5, <1>11 DEF Q!Drop, d
    <3>2. a \in 1 .. Len(order) /\ \A j, k \in 1 .. Len(order) : order[j] = order[k] => j = k
      BY <1>1, QueueFacts
    <3> QED
      <4>1. ASSUME NEW s \in Seq(Doc), NEW i \in 1 .. Len(s),
                   \A j, k \in 1 .. Len(s) : s[j] = s[k] => j = k
            PROVE  LET r == Q!RemoveFirst(s, s[i])
                   IN  /\ r \in Seq(Doc) /\ Len(r) = Len(s) - 1
                       /\ \A k \in 1 .. Len(r) : r[k] = IF k < i THEN s[k] ELSE s[k + 1]
        BY <4>1, RemoveOne
      <4> QED
        BY <1>2, <3>1, <3>2, <4>1
  <2>2. \A k \in 1 .. n - 1 : order'[k] = IF k < a THEN order[k] ELSE order[k + 1]
    BY <2>1
  <2>3. index' \in Nat /\ (index' = 0 \/ index' < n - 1)
    BY <1>1, <1>5, <1>7, <1>11 DEF Q!Drop
  <2>4. wait' \in [Doc -> Nat] /\ \A e \in Doc : wait'[e] = 0
    BY <1>5, <1>11
  <2>5. Q!TypeOK' /\ IndexFits' /\ IdleWaitNot'
    BY <1>9, <2>1, <2>3, <2>4 DEF Q!TypeOK, IndexFits, IdleWaitNot
  <2> HIDE DEF n
  <2>6. ASSUME NEW k \in 1 .. n - 1
        PROVE  \E j \in 1 .. n : j # a /\ order'[k] = order[j] /\ j = IF k < a THEN k ELSE k + 1
    <3>1. CASE k < a
      BY <1>1, <2>2, <3>1
    <3>2. CASE ~(k < a)
      <4>1. k + 1 \in 1 .. n /\ k + 1 # a
        BY <1>1, <3>2
      <4> QED
        BY <2>2, <3>2, <4>1
    <3> QED
      BY <3>1, <3>2
  <2>7. Q!OrderIsQueued'
    <3>1. ASSUME NEW e \in Doc, pending'[e] > 0 PROVE \E k \in 1 .. n - 1 : order'[k] = e
      <4>1. e # d /\ pending[e] > 0
        BY <1>8, <1>11, <3>1
      <4>2. PICK k \in 1 .. n : order[k] = e
        BY <4>1, QueueFacts DEF n
      <4>3. CASE k < a
        <5>1. k \in 1 .. n - 1
          BY <1>1, <4>3
        <5> QED
          BY <2>2, <4>2, <4>3, <5>1
      <4>4. CASE k > a
        <5>1. k - 1 \in 1 .. n - 1 /\ ~(k - 1 < a) /\ (k - 1) + 1 = k
          BY <1>1, <4>4
        <5> QED
          BY <2>2, <4>2, <5>1
      <4>5. k # a
        BY <1>10, <4>1, <4>2
      <4> QED
        BY <1>1, <4>3, <4>4, <4>5
    <3>2. ASSUME NEW k \in 1 .. n - 1 PROVE order'[k] \in Doc /\ pending'[order'[k]] > 0
      <4>1. PICK j \in 1 .. n : j # a /\ order'[k] = order[j]
        BY <2>6
      <4>2. order[j] \in Doc /\ pending[order[j]] > 0 /\ order[j] # d
        BY <1>10, <4>1, QueueFacts DEF n
      <4> QED
        BY <1>8, <4>1, <4>2
    <3>3. ASSUME NEW j \in 1 .. n - 1, NEW k \in 1 .. n - 1, order'[j] = order'[k] PROVE j = k
      <4>1. PICK x \in 1 .. n : order'[j] = order[x] /\ x # a /\ x = IF j < a THEN j ELSE j + 1
        BY <2>6
      <4>2. PICK y \in 1 .. n : order'[k] = order[y] /\ y # a /\ y = IF k < a THEN k ELSE k + 1
        BY <2>6
      <4>3. x = y
        BY <3>3, <4>1, <4>2, QueueFacts DEF n
      <4> QED
        BY <1>1, <4>1, <4>2, <4>3
    <3> QED
      BY <2>1, <3>1, <3>2, <3>3 DEF Q!OrderIsQueued
  <2>8. TurnComes'
    <3>1. ASSUME NEW k \in 1 .. n - 1
          PROVE  wait'[order'[k]] + k <= IF k > index' + 1 THEN n - 1 + index' + 1 ELSE index' + 1
      <4>1. PICK j \in 1 .. n : order'[k] = order[j]
        BY <2>6
      <4>2. wait'[order'[k]] = 0
        BY <2>4, <4>1, QueueFacts DEF n
      <4>3. n \in Nat \ {0} /\ index' \in Nat /\ k \in Nat /\ k <= n - 1
        BY <1>1, <2>3
      <4>4. ASSUME NEW i \in Nat, NEW q \in Nat, NEW m \in Nat, NEW w, w = 0, q <= m - 1
            PROVE  w + q <= IF q > i + 1 THEN m - 1 + i + 1 ELSE i + 1
        BY <4>4
      <4> QED
        BY <4>2, <4>3, <4>4
    <3> QED
      BY <2>1, <3>1 DEF TurnComes
  <2> QED
    BY <2>5, <2>7, <2>8 DEF QueueInv
<1>12. CASE pending[d] # 1
  <2>1. /\ order' = order /\ index' = a - 1
        /\ wait' = [e \in Doc |-> IF e = d \/ pending[e] = 0 THEN 0 ELSE wait[e] + 1]
    BY <1>6, <1>7, <1>12 DEF Q!Keep
  <2>2. \A e \in Doc : pending'[e] > 0 <=> pending[e] > 0
    <3> SUFFICES ASSUME NEW e \in Doc PROVE pending'[e] > 0 <=> pending[e] > 0
      OBVIOUS
    <3>1. CASE e = d
      <4>1. pending'[d] = pending[d] - 1
        BY <1>3, <1>8
      <4> QED
        BY <1>2, <1>3, <1>12, <3>1, <4>1
    <3>2. CASE e # d
      BY <1>8, <3>2
    <3> QED
      BY <3>1, <3>2
  <2>3. wait' \in [Doc -> Nat]
    BY <1>2, <2>1
  <2>4. Q!TypeOK' /\ IndexFits'
    BY <1>1, <1>2, <1>9, <2>1, <2>3 DEF Q!TypeOK, IndexFits
  <2>5. Q!OrderIsQueued'
    BY <2>1, <2>2 DEF QueueInv, Q!OrderIsQueued
  <2>6. IdleWaitNot'
    BY <1>2, <1>3, <1>8, <1>9, <1>12, <2>1 DEF IdleWaitNot
  <2>7. TurnComes'
    <3>1. ASSUME NEW k \in 1 .. n PROVE wait'[order[k]] + k <= IF k > a THEN n + a ELSE a
      <4>1. order[k] \in Doc /\ wait[order[k]] \in Nat
        BY QueueFacts
      <4>2. wait[order[k]] + k <= IF k > index + 1 THEN n + index + 1 ELSE index + 1
        BY QueueFacts
      <4>3. CASE k = a
        <5>1. wait'[order[k]] = 0
          BY <1>10, <2>1, <4>1, <4>3
        <5> QED
          BY <1>1, <4>3, <5>1
      <4>4. CASE k # a
        <5>1. wait'[order[k]] \in Nat /\ wait'[order[k]] <= wait[order[k]] + 1
          BY <2>1, <4>1
        <5> HIDE DEF n
        <5> QED
          BY <1>1, <4>1, <4>2, <4>4, <5>1
      <4> QED
        BY <4>3, <4>4
    <3> QED
      BY <1>1, <2>1, <3>1 DEF TurnComes
  <2> QED
    BY <2>4, <2>5, <2>6, <2>7 DEF QueueInv
<1> QED
  BY <1>11, <1>12

\* The queue loses no document, and none waits for more than one pop of every other, for any
\* documents and jobs (InterleavedFairQueue.push and pop).
THEOREM QueueAlways ==
  ASSUME Q!QueueAssumption
  PROVE  Q!Spec => [](Q!TypeOK /\ Q!OrderIsQueued /\ Q!RoundRobin)
<1>1. Q!Init => QueueInv
  BY DEF Q!QueueAssumption, Q!Init, QueueInv, Q!TypeOK, Q!OrderIsQueued, IndexFits, TurnComes, IdleWaitNot
<1>2. QueueInv /\ [Q!Next]_Q!vars => QueueInv'
  <2>1. QueueInv /\ UNCHANGED Q!vars => QueueInv'
    BY DEF Q!vars, QueueInv, Q!TypeOK, Q!OrderIsQueued, IndexFits, TurnComes, IdleWaitNot
  <2> QED
    BY <2>1, PushKeeps, PopKeeps DEF Q!Next
<1>3. QueueInv => Q!RoundRobin
  <2> SUFFICES ASSUME QueueInv, NEW d \in Doc, pending[d] > 0 PROVE wait[d] < Len(order)
    BY DEF Q!RoundRobin
  <2>1. PICK k \in 1 .. Len(order) : order[k] = d
    BY QueueFacts
  <2>2. wait[d] \in Nat /\ wait[d] + k <= IF k > index + 1 THEN Len(order) + index + 1 ELSE index + 1
    BY <2>1, QueueFacts
  <2> QED
    BY <2>1, <2>2, QueueFacts
<1>4. QueueInv => Q!TypeOK /\ Q!OrderIsQueued
  BY DEF QueueInv
<1> QED
  BY <1>1, <1>2, <1>3, <1>4, PTL DEF Q!Spec

-----------------------------------------------------------------------------
(* The laboratory.                                                         *)

\* The chaos actions under way.
ChaosSlots == {i \in L!Slot : requests[i] # L!Vacant /\ requests[i][1] = "chaos"}

\* The invariant: what is begun has been paid for with a use.
LabInv == L!TypeOK /\ L!LedgerTells /\ ledger.begun <= uses

\* The ledger counts as anybody does.
LEMMA SameCount == ASSUME NEW S PROVE L!Cardinality(S) = Cardinality(S)
  BY DEF L!Cardinality, Cardinality

\* What a slot may hold.
LEMMA RequestForm ==
  ASSUME L!TypeOK, NEW i \in L!Slot, requests[i] # L!Vacant
  PROVE  /\ requests[i] = <<requests[i][1], requests[i][2], requests[i][3]>>
         /\ requests[i][1] \in L!Kind
         /\ requests[i][2] \in L!Of(requests[i][1])
         /\ requests[i][3] \in L!Answer(requests[i][1])
<1>1. requests[i] \in L!Request
  BY DEF L!TypeOK
<1>2. PICK k \in L!Kind : requests[i] \in {k} \X L!Of(k) \X L!Answer(k)
  BY <1>1 DEF L!Request
<1> QED
  BY <1>2

LEMMA RequestMade ==
  ASSUME NEW k \in L!Kind, NEW o \in L!Of(k), NEW x \in L!Answer(k)
  PROVE  /\ <<k, o, x>> \in L!Request /\ <<k, o, x>> # L!Vacant
         /\ <<k, o, x>>[1] = k /\ <<k, o, x>>[2] = o /\ <<k, o, x>>[3] = x
<1>1. <<k, o, x>> \in {k} \X L!Of(k) \X L!Answer(k)
  OBVIOUS
<1>2. <<k, o, x>> \in L!Request
  BY <1>1 DEF L!Request
<1>3. <<k, o, x>> # <<>>
  OBVIOUS
<1> QED
  BY <1>2, <1>3 DEF L!Vacant

LEMMA SlotsFinite ==
  ASSUME L!LabAssumption, NEW S, S \subseteq L!Slot
  PROVE  IsFiniteSet(S) /\ Cardinality(S) \in Nat
<1>1. IsFiniteSet(L!Slot)
  BY FS_Interval DEF L!Slot, L!LabAssumption
<1> QED
  BY <1>1, FS_Subset, FS_CardinalityType

\* What a change of one slot does to the requests.
LEMMA SlotKept ==
  ASSUME L!TypeOK, NEW i \in L!Slot, requests[i] # L!Vacant, NEW r \in L!Request, r # L!Vacant,
         r[1] = "chaos" <=> requests[i][1] = "chaos", requests' = [requests EXCEPT ![i] = r]
  PROVE  requests' \in [L!Slot -> {L!Vacant} \cup L!Request] /\ ChaosSlots' = ChaosSlots
<1>1. requests \in [L!Slot -> {L!Vacant} \cup L!Request]
  BY DEF L!TypeOK
<1>2. requests' \in [L!Slot -> {L!Vacant} \cup L!Request]
  BY <1>1
<1>3. \A j \in L!Slot : requests'[j] = IF j = i THEN r ELSE requests[j]
  BY <1>1
<1> QED
  BY <1>2, <1>3 DEF ChaosSlots

LEMMA SlotTaken ==
  ASSUME L!TypeOK, NEW i \in L!Slot, requests[i] = L!Vacant, NEW r \in L!Request, r # L!Vacant,
         requests' = [requests EXCEPT ![i] = r]
  PROVE  /\ requests' \in [L!Slot -> {L!Vacant} \cup L!Request] /\ i \notin ChaosSlots
         /\ ChaosSlots' = IF r[1] = "chaos" THEN ChaosSlots \cup {i} ELSE ChaosSlots
<1>1. requests \in [L!Slot -> {L!Vacant} \cup L!Request]
  BY DEF L!TypeOK
<1>2. requests' \in [L!Slot -> {L!Vacant} \cup L!Request]
  BY <1>1
<1>3. \A j \in L!Slot : requests'[j] = IF j = i THEN r ELSE requests[j]
  BY <1>1
<1> QED
  BY <1>2, <1>3 DEF ChaosSlots

LEMMA SlotFreed ==
  ASSUME L!TypeOK, NEW i \in L!Slot, L!Done(i)
  PROVE  requests' \in [L!Slot -> {L!Vacant} \cup L!Request] /\ ChaosSlots' = ChaosSlots \ {i}
<1>1. requests \in [L!Slot -> {L!Vacant} \cup L!Request] /\ requests' = [requests EXCEPT ![i] = L!Vacant]
  BY DEF L!TypeOK, L!Done
<1>2. requests' \in [L!Slot -> {L!Vacant} \cup L!Request]
  BY <1>1
<1>3. \A j \in L!Slot : requests'[j] = IF j = i THEN L!Vacant ELSE requests[j]
  BY <1>1
<1> QED
  BY <1>2, <1>3 DEF ChaosSlots

\* A reply keeps the kind of the request.
LEMMA ReplyKeeps ==
  ASSUME L!TypeOK, NEW i \in L!Slot, requests[i] # L!Vacant,
         NEW x \in L!Answer(requests[i][1]), L!Reply(i, x)
  PROVE  requests' \in [L!Slot -> {L!Vacant} \cup L!Request] /\ ChaosSlots' = ChaosSlots
<1> DEFINE r == <<requests[i][1], requests[i][2], x>>
<1>1. r \in L!Request /\ r # L!Vacant /\ r[1] = requests[i][1]
  BY RequestForm, RequestMade
<1>2. requests' = [requests EXCEPT ![i] = r]
  BY DEF L!Reply
<1> QED
  BY <1>1, <1>2, SlotKept

\* A request is sent in a vacant slot.
LEMMA SendKeeps ==
  ASSUME L!LabAssumption, L!TypeOK, NEW k \in L!Kind, NEW o \in L!Of(k), L!Send(k, o)
  PROVE  /\ requests' \in [L!Slot -> {L!Vacant} \cup L!Request]
         /\ Cardinality(ChaosSlots') = Cardinality(ChaosSlots) + (IF k = "chaos" THEN 1 ELSE 0)
<1> DEFINE r == <<k, o, L!Unread>>
<1>1. PICK i \in L!Slot : requests[i] = L!Vacant /\ requests' = [requests EXCEPT ![i] = r]
  BY DEF L!Send
<1>2. r \in L!Request /\ r # L!Vacant /\ r[1] = k
  BY RequestMade DEF L!Answer
<1>3. /\ requests' \in [L!Slot -> {L!Vacant} \cup L!Request] /\ i \notin ChaosSlots
      /\ ChaosSlots' = IF k = "chaos" THEN ChaosSlots \cup {i} ELSE ChaosSlots
  BY <1>1, <1>2, SlotTaken
<1>4. IsFiniteSet(ChaosSlots) /\ Cardinality(ChaosSlots) \in Nat
  BY SlotsFinite DEF ChaosSlots
<1>5. CASE k = "chaos"
  BY <1>3, <1>4, <1>5, FS_AddElement
<1>6. CASE k # "chaos"
  BY <1>3, <1>4, <1>6
<1> QED
  BY <1>5, <1>6

\* The types of what is left.
LabRest ==
  /\ active \in [Test -> L!Status] /\ paused \subseteq Lane
  /\ selectedTest \in Test /\ testStatus \in L!Status /\ isRunningTest \in BOOLEAN
  /\ pausedQueues \subseteq Lane
  /\ confirmState \in {<<>>} \cup {"chaos"} \X ChaosAction \cup {"pause", "resume"} \X Lane
  /\ uses \in 0 .. MaxUses /\ mishaps \in 0 .. MaxMishaps

\* The ledger fits when it and the requests change together.
LEMMA LedgerFits ==
  ASSUME L!LabAssumption, LabRest', requests' \in [L!Slot -> {L!Vacant} \cup L!Request],
         ledger' \in [begun : Nat, ended : Nat], ledger'.begun <= uses',
         ledger'.begun - ledger'.ended = Cardinality(ChaosSlots')
  PROVE  LabInv'
<1>1. Cardinality(ChaosSlots') \in Nat
  BY SlotsFinite DEF ChaosSlots
<1>2. uses' \in 0 .. MaxUses /\ MaxUses \in Nat
  BY DEF LabRest, L!LabAssumption
<1>3. ledger'.begun \in 0 .. MaxUses /\ ledger'.ended \in 0 .. MaxUses
  BY <1>1, <1>2
<1>4. ledger' \in [begun : 0 .. MaxUses, ended : 0 .. MaxUses]
  BY <1>3
<1>5. L!TypeOK'
  BY <1>4 DEF LabRest, L!TypeOK
<1> QED
  BY <1>5, SameCount DEF LabInv, L!LedgerTells, ChaosSlots

LEMMA LabFacts ==
  ASSUME L!LabAssumption, LabInv
  PROVE  /\ LabRest /\ L!TypeOK /\ ledger \in [begun : Nat, ended : Nat]
         /\ ledger.begun \in Nat /\ ledger.ended \in Nat /\ uses \in Nat
         /\ ledger.begun <= uses /\ ledger.begun - ledger.ended = Cardinality(ChaosSlots)
<1>1. LabRest /\ L!TypeOK /\ ledger \in [begun : Nat, ended : Nat]
  BY DEF LabInv, L!TypeOK, LabRest
<1> QED
  BY <1>1, SameCount DEF LabInv, LabRest, L!LedgerTells, ChaosSlots

\* Requests are served or fail.
LEMMA LabServes ==
  ASSUME L!LabAssumption, LabInv, NEW i \in L!Slot, L!Served(i) \/ L!Fails(i)
  PROVE  LabInv'
<1> USE LabFacts
<1>1. /\ requests[i] # L!Vacant
      /\ requests[i][1] \in L!Kind /\ requests[i][2] \in L!Of(requests[i][1])
  BY RequestForm DEF L!Served, L!Fails
<1>2. L!Refused \in L!Answer(requests[i][1])
  BY DEF L!Answer
<1>3. requests[i][1] \in {"run", "pause", "resume", "chaos"} => L!Fine(0) \in L!Answer(requests[i][1])
  BY DEF L!Answer
<1>4. requests[i][1] = "poll" => L!Fine(active[requests[i][2]]) \in L!Answer(requests[i][1])
  BY <1>1 DEF L!Answer, L!Of, LabRest
<1>5. requests[i][1] = "queues" => L!Fine(paused) \in L!Answer(requests[i][1])
  BY <1>1 DEF L!Answer, L!Of, LabRest
<1>6. \E x \in L!Answer(requests[i][1]) : L!Reply(i, x)
  BY <1>2, <1>3, <1>4, <1>5 DEF L!Served, L!Fails, L!run_test_endpoint, L!get_test_status_endpoint,
     L!pause_queue_endpoint, L!resume_queue_endpoint, L!get_paused_queues_endpoint
<1>7. requests' \in [L!Slot -> {L!Vacant} \cup L!Request] /\ ChaosSlots' = ChaosSlots
  BY <1>1, <1>6, ReplyKeeps
<1>8. LabRest' /\ ledger' = ledger /\ uses' = uses
  <2>1. CASE L!Fails(i)
    BY <2>1 DEF L!Fails, LabRest, L!server, L!runner, L!LabAssumption
  <2>2. CASE L!Served(i)
    <3>1. active' \in [Test -> L!Status] /\ paused' \subseteq Lane
      BY <1>1, <2>2 DEF L!Served, L!run_test_endpoint, L!get_test_status_endpoint, L!pause_queue_endpoint,
         L!resume_queue_endpoint, L!get_paused_queues_endpoint, L!server, L!Of, L!Status, LabRest
    <3> QED
      BY <2>2, <3>1 DEF L!Served, LabRest, L!runner
  <2> QED
    BY <2>1, <2>2
<1> QED
  BY <1>7, <1>8, LedgerFits

\* The page and the suites.
LEMMA LabActs ==
  ASSUME L!LabAssumption, LabInv,
         \/ \E t \in Test : L!Ends(t) \/ L!onTestChange(t)
         \/ L!runTest \/ L!ResultsTab \/ L!pollTest \/ L!onCancel \/ L!onConfirm
         \/ \E a \in ChaosAction : L!executeChaosAction(a)
         \/ \E q \in Lane : L!toggleQueueState(q)
  PROVE  LabInv'
<1> USE LabFacts
<1>1. ASSUME UNCHANGED <<requests, ledger, uses>>, LabRest' PROVE LabInv'
  BY <1>1, LedgerFits DEF ChaosSlots, L!TypeOK
<1>2. ASSUME NEW t \in Test, L!Ends(t) PROVE LabInv'
  BY <1>1, <1>2 DEF L!Ends, LabRest, L!runner, L!Status
<1>3. ASSUME NEW t \in Test, L!onTestChange(t) PROVE LabInv'
  BY <1>1, <1>3 DEF L!onTestChange, LabRest, L!server
<1>4. CASE L!ResultsTab
  BY <1>1, <1>4 DEF L!ResultsTab, LabRest, L!server, L!LabAssumption
<1>5. ASSUME NEW a \in ChaosAction, L!executeChaosAction(a) PROVE LabInv'
  BY <1>1, <1>5 DEF L!executeChaosAction, LabRest, L!server, L!runner
<1>6. ASSUME NEW q \in Lane, L!toggleQueueState(q) PROVE LabInv'
  BY <1>1, <1>6 DEF L!toggleQueueState, L!Switch, LabRest, L!server, L!runner
<1>7. CASE L!onCancel
  BY <1>1, <1>7 DEF L!onCancel, LabRest, L!server, L!runner
<1>8. L!Counted => uses' \in 0 .. MaxUses /\ uses' = uses + 1
  BY DEF L!Counted, LabRest, L!LabAssumption
<1>9. CASE L!runTest
  <2>1. L!Send("run", selectedTest) /\ "run" \in L!Kind /\ selectedTest \in L!Of("run") /\ ledger' = ledger
    BY <1>9 DEF L!runTest, L!Kind, L!Of, LabRest
  <2>2. LabRest'
    BY <1>8, <1>9 DEF L!runTest, L!server, LabRest, L!Status
  <2>3. ledger.begun <= uses'
    BY <1>8, <1>9 DEF L!runTest
  <2>4. /\ requests' \in [L!Slot -> {L!Vacant} \cup L!Request]
        /\ Cardinality(ChaosSlots') = Cardinality(ChaosSlots)
    BY <2>1, SendKeeps, SlotsFinite DEF ChaosSlots
  <2> QED
    BY <2>1, <2>2, <2>3, <2>4, LedgerFits
<1>10. CASE L!pollTest
  <2>1. /\ L!Send("poll", selectedTest) /\ "poll" \in L!Kind /\ selectedTest \in L!Of("poll")
        /\ ledger' = ledger /\ uses' = uses
    BY <1>10 DEF L!pollTest, L!Kind, L!Of, LabRest
  <2>2. LabRest'
    BY <1>10 DEF L!pollTest, L!server, L!runner, LabRest
  <2> QED
    BY <2>1, <2>2, SendKeeps, LedgerFits, SlotsFinite DEF ChaosSlots
<1>11. CASE L!onConfirm
  <2> DEFINE k == confirmState[1]
             o == confirmState[2]
  <2>1. L!Send(k, o) /\ L!Counted /\ confirmState' = <<>>
        /\ ledger' = IF k = "chaos" THEN [ledger EXCEPT !.begun = @ + 1] ELSE ledger
    BY <1>11 DEF L!onConfirm
  <2>2. k \in L!Kind /\ o \in L!Of(k)
    BY <1>11 DEF L!onConfirm, LabRest, L!Kind, L!Of
  <2>3. LabRest'
    BY <1>8, <1>11, <2>1 DEF L!onConfirm, L!server, L!runner, LabRest
  <2> HIDE DEF k, o
  <2>4. /\ requests' \in [L!Slot -> {L!Vacant} \cup L!Request]
        /\ Cardinality(ChaosSlots') = Cardinality(ChaosSlots) + (IF k = "chaos" THEN 1 ELSE 0)
    BY <2>1, <2>2, SendKeeps
  <2>5. CASE k = "chaos"
    <3>1. ledger' \in [begun : Nat, ended : Nat] /\ ledger'.begun = ledger.begun + 1 /\ ledger'.ended = ledger.ended
      BY <2>1, <2>5
    <3> QED
      BY <1>8, <2>1, <2>3, <2>4, <2>5, <3>1, LedgerFits
  <2>6. CASE k # "chaos"
    <3>1. Cardinality(ChaosSlots) \in Nat
      BY SlotsFinite DEF ChaosSlots
    <3> QED
      BY <1>8, <2>1, <2>3, <2>4, <2>6, <3>1, LedgerFits
  <2> QED
    BY <2>5, <2>6
<1> QED
  BY <1>2, <1>3, <1>4, <1>5, <1>6, <1>7, <1>9, <1>10, <1>11

\* Answers.
LEMMA LabHears ==
  ASSUME L!LabAssumption, LabInv, NEW i \in L!Slot, L!Answered(i)
  PROVE  LabInv'
<1> USE LabFacts
<1> DEFINE kind == requests[i][1]
           answer == requests[i][3]
<1>1. requests[i] # L!Vacant /\ answer # L!Unread /\ kind \in L!Kind /\ answer \in L!Answer(kind)
  BY RequestForm DEF L!Answered
<1>2. UNCHANGED <<active, paused, confirmState, uses, mishaps>>
  BY DEF L!Answered, L!server
<1>3. IsFiniteSet(ChaosSlots) /\ Cardinality(ChaosSlots) \in Nat
  BY SlotsFinite DEF ChaosSlots
<1>4. ASSUME kind # "chaos", L!Done(i) PROVE
        requests' \in [L!Slot -> {L!Vacant} \cup L!Request] /\ ChaosSlots' = ChaosSlots
  <2>1. i \notin ChaosSlots
    BY <1>4 DEF ChaosSlots
  <2> QED
    BY <1>4, <2>1, SlotFreed
<1>5. CASE kind = "run" /\ L!RunAnswered(i, answer # L!Refused)
  <2>1. LabRest' /\ ledger' = ledger /\ L!Done(i)
    BY <1>2, <1>5 DEF L!RunAnswered, L!runner, LabRest, L!Status
  <2> QED
    BY <1>2, <1>4, <1>5, <2>1, LedgerFits
<1>6. CASE kind = "poll" /\ L!PollAnswered(i, answer)
  <2>1. ledger' = ledger /\ L!Done(i)
    BY <1>6 DEF L!PollAnswered
  <2>2. answer # L!Refused => answer[2] \in L!Status
    BY <1>1, <1>6 DEF L!Answer, L!Fine
  <2>3. isRunningTest' \in BOOLEAN
    BY <1>6 DEF L!PollAnswered
  <2>4. testStatus' \in L!Status
    BY <1>6, <2>2 DEF L!PollAnswered, LabRest
  <2>5. LabRest'
    BY <1>2, <1>6, <2>3, <2>4 DEF L!PollAnswered, LabRest
  <2> QED
    BY <1>2, <1>4, <1>6, <2>1, <2>5, LedgerFits
<1>7. CASE kind = "chaos" /\ L!ChaosAnswered(i)
  <2>1. LabRest' /\ ledger' = [ledger EXCEPT !.ended = @ + 1] /\ L!Done(i)
    BY <1>2, <1>7 DEF L!ChaosAnswered, L!runner, LabRest
  <2>2. i \in ChaosSlots
    BY <1>1, <1>7 DEF ChaosSlots
  <2>3. /\ requests' \in [L!Slot -> {L!Vacant} \cup L!Request]
        /\ Cardinality(ChaosSlots') = Cardinality(ChaosSlots) - 1
    BY <1>3, <2>1, <2>2, SlotFreed, FS_RemoveElement
  <2>4. ledger' \in [begun : Nat, ended : Nat] /\ ledger'.begun = ledger.begun /\ ledger'.ended = ledger.ended + 1
    BY <2>1
  <2>5. uses' = uses
    BY <1>2
  <2> HIDE DEF kind
  <2> QED
    BY <1>3, <2>1, <2>3, <2>4, <2>5, LedgerFits
<1>8. CASE kind \in {"pause", "resume"} /\ L!SwitchAnswered(i, answer # L!Refused)
  <2>1. LabRest' /\ ledger' = ledger
    BY <1>2, <1>8 DEF L!SwitchAnswered, L!runner, LabRest
  <2>2. CASE answer # L!Refused
    <3>1. requests' = [requests EXCEPT ![i] = <<"queues", "all", L!Unread>>]
      BY <1>8, <2>2 DEF L!SwitchAnswered
    <3>2. "queues" \in L!Kind /\ "all" \in L!Of("queues") /\ L!Unread \in L!Answer("queues")
      BY DEF L!Kind, L!Of, L!Answer
    <3>3. LET r == <<"queues", "all", L!Unread>> IN r \in L!Request /\ r # L!Vacant /\ r[1] = "queues"
      BY <3>2, RequestMade
    <3>4. requests' \in [L!Slot -> {L!Vacant} \cup L!Request] /\ ChaosSlots' = ChaosSlots
      BY <1>1, <1>8, <3>1, <3>3, SlotKept
    <3> QED
      BY <1>2, <2>1, <3>4, LedgerFits
  <2>3. CASE answer = L!Refused
    <3>1. L!Done(i)
      BY <1>8, <2>3 DEF L!SwitchAnswered
    <3> QED
      BY <1>2, <1>4, <1>8, <2>1, <3>1, LedgerFits
  <2> QED
    BY <2>2, <2>3
<1>9. CASE kind = "queues" /\ L!QueuesAnswered(i, answer)
  <2>1. ledger' = ledger /\ L!Done(i)
    BY <1>9 DEF L!QueuesAnswered
  <2>2. answer # L!Refused => answer[2] \subseteq Lane
    BY <1>1, <1>9 DEF L!Answer, L!Fine
  <2>3. LabRest'
    BY <1>2, <1>9, <2>2 DEF L!QueuesAnswered, L!runner, LabRest
  <2> QED
    BY <1>2, <1>4, <1>9, <2>1, <2>3, LedgerFits
<1> QED
  BY <1>5, <1>6, <1>7, <1>8, <1>9 DEF L!Answered

\* The ledger tells of every chaos action how it ended, for any number of requests, uses and
\* mishaps (executeChaosAction).
THEOREM LabAlways ==
  ASSUME L!LabAssumption
  PROVE  L!Spec => [](L!TypeOK /\ L!LedgerTells)
<1>1. L!Init => LabInv
  <2> SUFFICES ASSUME L!Init PROVE LabInv
    OBVIOUS
  <2>1. L!Unread \in L!Answer("queues") /\ "all" \in L!Of("queues") /\ "queues" \in L!Kind
    BY DEF L!Kind, L!Of, L!Answer
  <2>2. <<"queues", "all", L!Unread>> \in L!Request
    BY <2>1, RequestMade
  <2>3. requests \in [L!Slot -> {L!Vacant} \cup L!Request]
    BY <2>2 DEF L!Init
  <2>4. ChaosSlots = {}
    BY DEF L!Init, ChaosSlots
  <2>5. L!LedgerTells
    <3>1. L!Cardinality(ChaosSlots) = 0
      BY <2>4, SameCount, FS_EmptySet
    <3>2. ledger.begun - ledger.ended = 0
      BY DEF L!Init
    <3> QED
      BY <3>1, <3>2 DEF L!LedgerTells, ChaosSlots
  <2>6. isRunningTest \in BOOLEAN
    BY DEF L!Init
  <2>7. ledger \in [begun : 0 .. MaxUses, ended : 0 .. MaxUses] /\ ledger.begun <= uses
    BY DEF L!Init, L!LabAssumption
  <2>8. L!TypeOK
    BY <2>3, <2>6, <2>7 DEF L!Init, L!TypeOK, L!Status, L!LabAssumption
  <2> QED
    BY <2>5, <2>7, <2>8 DEF LabInv
<1>2. LabInv /\ UNCHANGED L!vars => LabInv'
  BY SameCount DEF L!vars, LabInv, L!TypeOK, L!LedgerTells
<1>3. LabInv /\ [L!Next]_L!vars => LabInv'
  BY <1>2, LabServes, LabActs, LabHears DEF L!Next
<1>4. LabInv => L!TypeOK /\ L!LedgerTells
  BY DEF LabInv
<1> QED
  BY <1>1, <1>3, <1>4, PTL DEF L!Spec

-----------------------------------------------------------------------------
(* The indexing jobs: the two tables agree and every attempt is accounted  *)
(* for; docs is the state of the documents.                                *)

\* What the next statement of the thread takes for granted.
WorkerKnows ==
  /\ worker.at = "locking" => /\ job[worker.of].status \in {"queued", "failed"}
                              /\ worker.read < MaxAttempts + stops
  /\ worker.at \notin J!Without \cup {"locking"} => job[worker.of].status \in J!Open
  /\ worker.at = "completing" => docs[worker.of] = "INDEXED"
  /\ worker.at \in {"checking", "retrying"} => docs[worker.of] = "FAILED"
  /\ worker.at = "retrying" => job[worker.of].attempts <= worker.read

\* An attempt is left over for whatever may still be tried: for a queued job, and until the
\* restart is through for a job that was running.
AttemptLeft ==
  \A d \in Document :
    job[d].status = "queued" \/ worker.at \in {"down", "start"} => job[d].attempts < MaxAttempts + stops

\* As AbandonedByError, while the thread works on another job too.
Attended ==
  \A d \in Document :
    job[d].status = "running" /\ ~J!Busy(d) /\ worker.at \notin {"down", "start"} => errors > 0

JobsInv == J!TypeOK /\ J!TablesAgree /\ J!AttemptsPaid /\ WorkerKnows /\ AttemptLeft /\ Attended

LEMMA JobsStart == ASSUME J!IndexingAssumption, J!Init PROVE JobsInv
  BY DEF J!IndexingAssumption, J!Init, JobsInv, J!TypeOK, J!TablesAgree, J!AttemptsPaid, WorkerKnows, AttemptLeft, Attended, J!At, J!Open, J!Step, J!Without, J!Busy

\* Requests.
LEMMA RequestKeeps ==
  ASSUME J!IndexingAssumption, JobsInv, NEW d \in Document, J!upload_document(d) \/ J!start_indexing(d) \/ J!enqueue(d)
  PROVE  JobsInv'
<1> USE DEF J!IndexingAssumption, JobsInv, J!TypeOK, J!Open, J!Step, J!Without
<1>1. CASE J!upload_document(d)
  BY <1>1 DEF J!upload_document, J!TablesAgree, J!AttemptsPaid, WorkerKnows, AttemptLeft, Attended, J!Busy
<1>2. CASE J!start_indexing(d)
  BY <1>2 DEF J!start_indexing, J!TablesAgree, J!AttemptsPaid, WorkerKnows, AttemptLeft, Attended, J!Busy
<1>3. CASE J!enqueue(d)
  BY <1>3 DEF J!enqueue, J!TablesAgree, J!AttemptsPaid, WorkerKnows, AttemptLeft, Attended, J!Busy
<1> QED
  BY <1>1, <1>2, <1>3

\* The thread, a statement at a time.
LEMMA WorkKeeps == ASSUME J!IndexingAssumption, JobsInv, J!Work PROVE JobsInv'
<1> USE DEF J!IndexingAssumption, JobsInv, J!TypeOK, J!Open, J!Step, J!Without, J!Quiet, J!Goto, J!At
<1>1. CASE J!recover_running_jobs_on_restart
  BY <1>1 DEF J!recover_running_jobs_on_restart, J!Recovered, J!TablesAgree, J!AttemptsPaid, WorkerKnows, AttemptLeft, Attended, J!Busy
<1>2. ASSUME NEW d \in Document, J!SelectJob(d) PROVE JobsInv'
  BY <1>2 DEF J!SelectJob, J!Claimable, J!TablesAgree, J!AttemptsPaid, WorkerKnows, AttemptLeft, Attended, J!Busy
<1>3. CASE J!LockJob
  BY <1>3 DEF J!LockJob, J!TablesAgree, J!AttemptsPaid, WorkerKnows, AttemptLeft, Attended, J!Busy
<1>4. CASE J!MarkIndexing
  BY <1>4 DEF J!MarkIndexing, J!Mark, J!TablesAgree, J!AttemptsPaid, WorkerKnows, AttemptLeft, Attended, J!Busy
<1>5. CASE J!RunIndexing
  BY <1>5 DEF J!RunIndexing, J!TablesAgree, J!AttemptsPaid, WorkerKnows, AttemptLeft, Attended, J!Busy
<1>6. CASE J!MarkIndexed
  BY <1>6 DEF J!MarkIndexed, J!Mark, J!TablesAgree, J!AttemptsPaid, WorkerKnows, AttemptLeft, Attended, J!Busy
<1>7. CASE J!complete
  BY <1>7 DEF J!complete, J!SetStatus, J!TablesAgree, J!AttemptsPaid, WorkerKnows, AttemptLeft, Attended, J!Busy
<1>8. CASE J!MarkFailed
  BY <1>8 DEF J!MarkFailed, J!Mark, J!TablesAgree, J!AttemptsPaid, WorkerKnows, AttemptLeft, Attended, J!Busy
<1>9. CASE J!CheckAttempts
  <2>1. /\ worker' = [at |-> "retrying", of |-> worker.of, read |-> job[worker.of].attempts]
        /\ worker.at = "checking" /\ worker.of \in Document
        /\ UNCHANGED <<docs, job, request, submits, stops, errors>>
    BY <1>9 DEF J!CheckAttempts
  <2> QED
    BY <2>1 DEF J!TablesAgree, J!AttemptsPaid, WorkerKnows, AttemptLeft, Attended, J!Busy
<1>10. CASE J!RetryOrFail
  BY <1>10 DEF J!RetryOrFail, J!SetStatus, J!AllTried, J!TablesAgree, J!AttemptsPaid, WorkerKnows, AttemptLeft, Attended, J!Busy
<1> QED
  BY <1>1, <1>2, <1>3, <1>4, <1>5, <1>6, <1>7, <1>8, <1>9, <1>10 DEF J!Work

\* Errors, and the end and the start of the process.
LEMMA MishapKeeps == ASSUME J!IndexingAssumption, JobsInv, J!Raises \/ J!Stop \/ J!Start PROVE JobsInv'
<1> USE DEF J!IndexingAssumption, JobsInv, J!TypeOK, J!Open, J!Step, J!Without, J!At
<1>1. CASE J!Raises
  BY <1>1 DEF J!Raises, J!TablesAgree, J!AttemptsPaid, WorkerKnows, AttemptLeft, Attended, J!Busy
<1>2. CASE J!Stop
  BY <1>2 DEF J!Stop, J!Up, J!TablesAgree, J!AttemptsPaid, WorkerKnows, AttemptLeft, Attended, J!Busy
<1>3. CASE J!Start
  BY <1>3 DEF J!Start, J!TablesAgree, J!AttemptsPaid, WorkerKnows, AttemptLeft, Attended, J!Busy
<1> QED
  BY <1>1, <1>2, <1>3

LEMMA JobsStep == ASSUME J!IndexingAssumption, JobsInv, [J!Next]_(J!vars) PROVE JobsInv'
<1>1. CASE UNCHANGED J!vars
  BY <1>1 DEF J!vars, JobsInv, J!TypeOK, J!TablesAgree, J!AttemptsPaid, WorkerKnows, AttemptLeft, Attended, J!Busy, J!Without
<1>2. CASE J!Next
  BY <1>1, <1>2, RequestKeeps, WorkKeeps, MishapKeeps DEF J!Next, J!Sleep
<1> QED
  BY <1>1, <1>2

LEMMA JobsGive == ASSUME JobsInv PROVE J!JobsAccounted
  BY DEF JobsInv, J!JobsAccounted, J!AbandonedByError, J!Abandoned, Attended

\* Documents and jobs agree between any two statements, every attempt is paid for and only
\* an error leaves a job behind, for any documents, submissions and ends of the process
\* (execute_indexing_job, recover_running_jobs_on_restart).
THEOREM JobsAlways ==
  ASSUME J!IndexingAssumption
  PROVE  J!Spec => [](J!TypeOK /\ J!JobsAccounted)
<1>1. J!Init => JobsInv
  BY JobsStart
<1>2. JobsInv /\ [J!Next]_(J!vars) => JobsInv'
  BY JobsStep
<1>3. JobsInv => J!TypeOK /\ J!JobsAccounted
  BY JobsGive DEF JobsInv
<1> QED
  BY <1>1, <1>2, <1>3, PTL DEF J!Spec

-----------------------------------------------------------------------------
(* The parts together.                                                     *)

\* Each part of the composition behaves as its own module says.
THEOREM PartsKeepTheirSpecs == AllSpec => Spec /\ B!Spec /\ Q!Spec /\ J!Spec /\ L!Spec
<1>1. AllInit => Init /\ B!Init /\ Q!Init /\ J!Init /\ L!Init
  BY DEF AllInit
<1>2. [AllNext]_allVars =>
        [Next]_vars /\ [B!Next]_B!vars /\ [Q!Next]_Q!vars /\ [J!Next]_J!vars /\ [L!Next]_L!vars
  BY DEF AllNext, Election, Breaker, Queue, Jobs, Lab, allVars, vars, breakerVars, queueVars, jobVars, labVars,
     B!vars, Q!vars, J!vars, L!vars
<1> QED
  BY <1>1, <1>2, PTL DEF AllSpec, Spec, B!Spec, Q!Spec, J!Spec, L!Spec

\* Every variable keeps its type, the counters of the breaker fit its state, the queue goes
\* round the documents with jobs and the ledger accounts for every action, in whichever part
\* a step is made.
THEOREM AllTypeOKAlways == AllSpec => []AllTypeOK
<1>1. B!BreakerAssumption /\ Q!QueueAssumption /\ J!IndexingAssumption /\ L!LabAssumption
  BY PartsAssumption
<1>2. /\ Spec => []TypeOK
      /\ B!Spec => [](B!TypeOK /\ B!CountsFit)
      /\ Q!Spec => [](Q!TypeOK /\ Q!OrderIsQueued /\ Q!RoundRobin)
      /\ J!Spec => [](J!TypeOK /\ J!JobsAccounted)
      /\ L!Spec => [](L!TypeOK /\ L!LedgerTells)
  BY <1>1, TypeCorrect, BreakerAlways, QueueAlways, JobsAlways, LabAlways
<1>3. /\ TypeOK /\ B!TypeOK /\ B!CountsFit /\ Q!TypeOK /\ Q!OrderIsQueued /\ J!TypeOK
      /\ L!TypeOK /\ L!LedgerTells
      => AllTypeOK
  BY DEF AllTypeOK
<1> QED
  BY <1>2, <1>3, PartsKeepTheirSpecs, PTL

\* Round robin, in the composition too (InterleavedFairQueue.pop).
THEOREM RoundRobinAlways == AllSpec => []RoundRobin
<1>1. Q!Spec => [](Q!TypeOK /\ Q!OrderIsQueued /\ Q!RoundRobin)
  BY PartsAssumption, QueueAlways
<1>2. Q!RoundRobin => RoundRobin
  BY DEF RoundRobin
<1> QED
  BY <1>1, <1>2, PartsKeepTheirSpecs, PTL

\* The jobs are accounted for, in the composition too (execute_indexing_job,
\* recover_running_jobs_on_restart).
THEOREM JobsAccountedAlways == AllSpec => []JobsAccounted
<1>1. J!Spec => [](J!TypeOK /\ J!JobsAccounted)
  BY PartsAssumption, JobsAlways
<1>2. J!JobsAccounted => JobsAccounted
  BY DEF JobsAccounted
<1> QED
  BY <1>1, <1>2, PartsKeepTheirSpecs, PTL

\* One leader at a time, and none deposed, whatever the other parts do
\* (ha_coordinator_service.py).
THEOREM ElectionUndisturbed ==
  ASSUME Timely
  PROVE  AllSpec => []OneLeaderUnharmed /\ LeaderStays
<1>1. Spec => []OneLeaderUnharmed /\ LeaderStays
  BY OneLeaderAlways, LeaderStaysAlways
<1> QED
  BY <1>1, PartsKeepTheirSpecs
=============================================================================
