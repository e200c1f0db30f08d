------------------------ MODULE PipelineConsoleProofs ------------------------
(* Proofs about the console of a pipeline, its timeline and its replay, for any *)
(* pipelines, logs and bounds.                                                  *)
EXTENDS PipelineConsole, FiniteSetTheorems, FunctionTheorems, SequenceTheorems,
        WellFoundedInduction, NaturalsInduction, TLAPS

----------------------------------------------------------------------------
(* Merging: what mergeEvents makes of the timeline and an answer.          *)

\* What the stable sort of mergeEvents leaves: every row has a place of its own, before the
\* rows of later times.
LEMMA RanksAreOnce ==
  ASSUME NEW rows, NEW Q \in SUBSET Nat, IsFiniteSet(Q), \A k \in Q : rows[k].time \in Nat
  PROVE  /\ IsFiniteSet(Q) /\ Cardinality(Q) \in Nat
         /\ \A k \in Q : Cardinality(Ahead(rows, Q, k)) \in 0 .. Cardinality(Q) - 1
         /\ \A j, k \in Q : j \in Ahead(rows, Q, k) => Cardinality(Ahead(rows, Q, j)) < Cardinality(Ahead(rows, Q, k))
         /\ \A i \in 1 .. Cardinality(Q) : \E k \in Q : Cardinality(Ahead(rows, Q, k)) = i - 1
PROOF
<1> DEFINE time(k) == rows[k].time
<1>a. \A j, k : j \in Ahead(rows, Q, k) <=> j \in Q /\ (time(j) < time(k) \/ (time(j) = time(k) /\ j < k))
  BY Zenon DEF Ahead
<1>b. \A k \in Q : k \in Nat /\ time(k) \in Nat
  BY Zenon
<1> HIDE DEF time
<1>1. IsFiniteSet(Q) /\ Cardinality(Q) \in Nat
  BY FS_CardinalityType
<1>2. ASSUME NEW k \in Q
      PROVE  /\ IsFiniteSet(Ahead(rows, Q, k)) /\ Cardinality(Ahead(rows, Q, k)) \in 0 .. Cardinality(Q) - 1
  <2>1. Ahead(rows, Q, k) \in SUBSET (Q \ {k})
    BY DEF Ahead
  <2>2. IsFiniteSet(Q \ {k}) /\ Cardinality(Q \ {k}) = Cardinality(Q) - 1
    BY <1>1, FS_RemoveElement
  <2>3. /\ IsFiniteSet(Ahead(rows, Q, k)) /\ Cardinality(Ahead(rows, Q, k)) \in Nat
        /\ Cardinality(Ahead(rows, Q, k)) <= Cardinality(Q) - 1
    BY <2>1, <2>2, FS_Subset, FS_CardinalityType
  <2> QED
    BY <1>1, <2>3
<1>3. ASSUME NEW j \in Q, NEW k \in Q, j \in Ahead(rows, Q, k)
      PROVE  Cardinality(Ahead(rows, Q, j)) < Cardinality(Ahead(rows, Q, k))
  <2>1. ASSUME NEW i \in Ahead(rows, Q, j) PROVE i \in Ahead(rows, Q, k) \ {j}
    <3>1. i \in Q /\ time(i) \in Nat /\ time(j) \in Nat /\ time(k) \in Nat /\ i \in Nat /\ j \in Nat /\ k \in Nat
      BY <1>a, <1>b, <2>1
    <3>2. /\ time(i) < time(j) \/ (time(i) = time(j) /\ i < j)
          /\ time(j) < time(k) \/ (time(j) = time(k) /\ j < k)
      BY <1>a, <1>3, <2>1
    <3>3. i # j /\ (time(i) < time(k) \/ (time(i) = time(k) /\ i < k))
      BY <3>1, <3>2
    <3> QED
      BY <1>a, <3>1, <3>3
  <2>2. /\ IsFiniteSet(Ahead(rows, Q, k) \ {j})
        /\ Cardinality(Ahead(rows, Q, k) \ {j}) = Cardinality(Ahead(rows, Q, k)) - 1
    BY <1>2, <1>3, FS_RemoveElement
  <2>3. Cardinality(Ahead(rows, Q, j)) <= Cardinality(Ahead(rows, Q, k)) - 1
    BY <2>1, <2>2, FS_Subset
  <2> QED
    BY <1>2, <2>3
<1>4. ASSUME NEW j \in Q, NEW k \in Q, j # k PROVE j \in Ahead(rows, Q, k) \/ k \in Ahead(rows, Q, j)
  BY <1>a, <1>b, <1>4
<1>5. ASSUME NEW i \in 1 .. Cardinality(Q) PROVE \E k \in Q : Cardinality(Ahead(rows, Q, k)) = i - 1
  <2> DEFINE f == [k \in Q |-> Cardinality(Ahead(rows, Q, k))]
             R == 0 .. Cardinality(Q) - 1
  <2>1. f \in [Q -> R]
    BY <1>2
  <2>2. \A j, k \in Q : j # k => f[j] # f[k]
    BY <1>2, <1>3, <1>4
  <2>3. f \in Injection(Q, R)
    BY <2>1, <2>2, Fun_IsInj
  <2>4. IsFiniteSet(R) /\ Cardinality(R) = Cardinality(Q)
    <3>1. Cardinality(Q) - 1 \in Int /\ 0 \in Int /\ Cardinality(Q) - 1 >= 0
      BY <1>1, <1>2
    <3>2. /\ IsFiniteSet(0 .. Cardinality(Q) - 1)
          /\ Cardinality(0 .. Cardinality(Q) - 1) = IF 0 > Cardinality(Q) - 1 THEN 0 ELSE Cardinality(Q) - 1 - 0 + 1
      BY <3>1, FS_Interval
    <3> QED
      BY <1>1, <3>1, <3>2
  <2>5. f \in Surjection(Q, R)
    BY <2>3, <2>4, FS_Injection
  <2>6. i - 1 \in R
    BY <1>1
  <2>7. \A t \in R : \E k \in Q : f[k] = t
    <3> HIDE DEF f, R
    <3> QED
      BY <2>5, Fun_SurjectionProperties
  <2> QED
    BY <2>6, <2>7
<1> QED
  BY <1>1, <1>2, <1>3, <1>5

\* The ways to take the rows of the sequence s, of c rows, from the positions Q, in order.
Arrangement(s, c, rows, Q) ==
  {at \in [1 .. c -> Q] :
     /\ \A i \in 1 .. c : s[i] = rows[at[i]]
     /\ \A i, j \in 1 .. c : i < j => at[i] # at[j] /\ rows[at[i]].time <= rows[at[j]].time}

LEMMA SortedIsOrdered ==
  ASSUME NEW rows, NEW Q \in SUBSET Nat, IsFiniteSet(Q), \A k \in Q : rows[k].time \in Nat,
         NEW s, s = Sorted(rows, Q), NEW c, c = Cardinality(Q)
  PROVE  /\ c \in Nat /\ s = [i \in 1 .. c |-> s[i]]
         /\ \A k \in Q : \E i \in 1 .. c : s[i] = rows[k]
         /\ Arrangement(s, c, rows, Q) # {}
PROOF
<1> DEFINE Rank(k) == Cardinality(Ahead(rows, Q, k))
           at(i)   == CHOOSE k \in Q : Rank(k) = i - 1
<1>1. /\ Cardinality(Q) \in Nat
      /\ \A k \in Q : Rank(k) \in 0 .. Cardinality(Q) - 1
      /\ \A j, k \in Q : j \in Ahead(rows, Q, k) => Rank(j) < Rank(k)
      /\ \A i \in 1 .. Cardinality(Q) : \E k \in Q : Rank(k) = i - 1
  BY RanksAreOnce
<1>2. DOMAIN s = 1 .. Cardinality(Q) /\ \A i \in 1 .. Cardinality(Q) : s[i] = rows[at(i)]
  BY DEF Sorted
<1>3. \A i \in 1 .. Cardinality(Q) : at(i) \in Q /\ Rank(at(i)) = i - 1
  BY <1>1
<1> DEFINE time(k) == rows[k].time
<1>a. \A j, k : j \in Ahead(rows, Q, k) <=> j \in Q /\ (time(j) < time(k) \/ (time(j) = time(k) /\ j < k))
  BY Zenon DEF Ahead
<1>b. \A k \in Q : k \in Nat /\ time(k) \in Nat
  BY Zenon
<1> HIDE DEF time
<1>4. \A j, k \in Q : j # k => j \in Ahead(rows, Q, k) \/ k \in Ahead(rows, Q, j)
  BY <1>a, <1>b
<1>5. \A j, k \in Q : j \in Ahead(rows, Q, k) => time(j) <= time(k) /\ j # k
  BY <1>a, <1>b
<1> HIDE DEF Rank, at
<1>6. ASSUME NEW k \in Q PROVE \E i \in 1 .. Cardinality(Q) : s[i] = rows[k]
  <2>1. Rank(k) + 1 \in 1 .. Cardinality(Q)
    BY <1>1
  <2>2. at(Rank(k) + 1) \in Q /\ Rank(at(Rank(k) + 1)) = Rank(k)
    BY <1>1, <1>3, <2>1
  <2>3. at(Rank(k) + 1) = k
    <3> DEFINE a == at(Rank(k) + 1)
    <3>1. a \in Q /\ Rank(a) = Rank(k)
      BY <2>2
    <3> HIDE DEF a
    <3>2. ~(a \in Ahead(rows, Q, k)) /\ ~(k \in Ahead(rows, Q, a))
      BY <1>1, <3>1
    <3>3. a = k
      BY <1>4, <3>1, <3>2
    <3> QED
      BY <3>3 DEF a
  <2> QED
    BY <1>2, <2>1, <2>3
<1>7. ASSUME NEW i \in 1 .. Cardinality(Q), NEW j \in 1 .. Cardinality(Q), i < j
      PROVE  at(i) # at(j) /\ time(at(i)) <= time(at(j))
  <2>1. Rank(at(i)) < Rank(at(j)) /\ at(i) \in Q /\ at(j) \in Q
    BY <1>1, <1>3, <1>7
  <2>2. ~(at(j) \in Ahead(rows, Q, at(i))) /\ at(i) # at(j)
    <3> DEFINE a == at(i)
               b == at(j)
    <3>1. a \in Q /\ b \in Q /\ Rank(a) < Rank(b)
      BY <2>1
    <3> HIDE DEF a, b
    <3>2. Rank(a) \in Nat /\ Rank(b) \in Nat
      BY <1>1, <3>1
    <3>3. ~(b \in Ahead(rows, Q, a)) /\ a # b
      BY <1>1, <3>1, <3>2
    <3> QED
      BY <3>3 DEF a, b
  <2> QED
    BY <1>4, <1>5, <2>1, <2>2
<1>8. s = [i \in 1 .. c |-> s[i]]
  BY DEF Sorted
<1>9. Arrangement(s, c, rows, Q) # {}
  <2> DEFINE f == [i \in 1 .. c |-> at(i)]
  <2>1. f \in [1 .. c -> Q] /\ \A i \in 1 .. c : f[i] = at(i)
    BY <1>3
  <2> HIDE DEF f
  <2>2. \A i \in 1 .. c : s[i] = rows[f[i]]
    BY <1>2, <2>1
  <2>3. ASSUME NEW i \in 1 .. c, NEW j \in 1 .. c, i < j
        PROVE  f[i] # f[j] /\ rows[f[i]].time <= rows[f[j]].time
    <3>1. at(i) # at(j) /\ time(at(i)) <= time(at(j)) /\ f[i] = at(i) /\ f[j] = at(j)
      BY <1>7, <2>1, <2>3
    <3> QED
      BY <3>1 DEF time
  <2>4. f \in Arrangement(s, c, rows, Q)
    BY <2>1, <2>2, <2>3 DEF Arrangement
  <2> QED
    BY <2>4
<1> QED
  BY <1>1, <1>6, <1>8, <1>9

LEMMA LastRowsAreLast ==
  ASSUME NEW S, NEW s \in Seq(S), NEW cap \in Nat \ {0}, NEW r, r = LastRows(s, cap)
  PROVE  /\ r \in Seq(S) /\ Len(r) = IF Len(s) > cap THEN cap ELSE Len(s)
         /\ \A i \in 1 .. Len(r) : r[i] = s[i + (Len(s) - Len(r))]
PROOF
<1>1. Len(s) \in Nat /\ \A k \in 1 .. Len(s) : s[k] \in S
  OBVIOUS
<1> DEFINE a == IF Len(s) > cap THEN Len(s) - cap + 1 ELSE 1
<1>2. r = SubSeq(s, a, Len(s)) /\ a \in 1 .. Len(s) + 1
  BY <1>1 DEF LastRows
<1>3. /\ SubSeq(s, a, Len(s)) \in Seq(S)
      /\ Len(SubSeq(s, a, Len(s))) = IF a <= Len(s) THEN Len(s) - a + 1 ELSE 0
      /\ \A i \in 1 .. Len(s) - a + 1 : SubSeq(s, a, Len(s))[i] = s[a + i - 1]
  <2> HIDE DEF a
  <2> QED
    BY <1>1, <1>2, SubSeqProperties
<1>4. Len(r) = IF Len(s) > cap THEN cap ELSE Len(s)
  <2>1. a \in Nat /\ a = IF Len(s) > cap THEN Len(s) - cap + 1 ELSE 1
    BY <1>1
  <2>2. Len(r) = IF a <= Len(s) THEN Len(s) - a + 1 ELSE 0
    BY <1>2, <1>3
  <2> HIDE DEF a
  <2>3. CASE Len(s) > cap
    BY <1>1, <2>1, <2>2, <2>3
  <2>4. CASE ~(Len(s) > cap)
    BY <1>1, <2>1, <2>2, <2>4
  <2> QED
    BY <2>3, <2>4
<1>5. \A i \in 1 .. Len(r) : i \in 1 .. Len(s) - a + 1 /\ a + i - 1 = i + (Len(s) - Len(r))
  BY <1>1, <1>4
<1> QED
  BY <1>2, <1>3, <1>4, <1>5

TimelineRow == [of : Pipeline, n : Nat, time : Nat]

\* In order of time, and no row twice.
InOrder(rows) ==
  \A j, k \in 1 .. Len(rows) : j < k => rows[j].time <= rows[k].time /\ Key(rows[j]) # Key(rows[k])

\* r has a row of rows or raw at each place, and is without one only if later ones fill it.
Merged(r, rows, raw) ==
  /\ \A i \in 1 .. Len(r) : \/ \E k \in 1 .. Len(rows) : r[i] = rows[k]
                            \/ \E k \in 1 .. Len(raw) : r[i] = raw[k]
  /\ \A k \in 1 .. Len(rows) : (\E i \in 1 .. Len(r) : r[i] = rows[k]) \/ Displaced(rows[k], r)
  /\ \A k \in 1 .. Len(raw) : (\E i \in 1 .. Len(r) : r[i] = raw[k]) \/ Displaced(raw[k], r)

\* Merging loses no row, old or new, but to later ones, and keeps the order.
LEMMA MergeIsMerge ==
  ASSUME NEW rows \in Seq(TimelineRow), InOrder(rows), Len(rows) <= Cap,
         NEW raw \in Seq(TimelineRow),
         \A j, k \in 1 .. Len(raw) : j # k => Key(raw[j]) # Key(raw[k]),
         \A j \in 1 .. Len(rows), k \in 1 .. Len(raw) : Key(rows[j]) = Key(raw[k]) => rows[j] = raw[k],
         NEW r, r = Merge(rows, raw, Cap)
  PROVE  r \in Seq(TimelineRow) /\ InOrder(r) /\ Len(r) <= Cap /\ Merged(r, rows, raw)
PROOF
<1> DEFINE n == Len(rows)
           all == rows \o raw
           Q == Taken(rows, raw)
<1>1. /\ n \in Nat /\ Len(raw) \in Nat /\ Cap \in Nat \ {0}
      /\ \A k \in 1 .. n : rows[k] \in TimelineRow
      /\ \A k \in 1 .. Len(raw) : raw[k] \in TimelineRow
  BY ConsoleAssumption DEF ConsoleAssumption
<1>2. /\ Q \in SUBSET (1 .. n + Len(raw))
      /\ \A k \in 1 .. n + Len(raw) :
           k \in Q <=> (k <= n \/ \A j \in 1 .. n : Key(raw[k - n]) # Key(rows[j]))
  BY DEF Taken
<1>3. /\ \A k \in 1 .. n : all[k] = rows[k]
      /\ \A k \in 1 .. Len(raw) : all[n + k] = raw[k]
      /\ \A k \in n + 1 .. n + Len(raw) : all[k] = raw[k - n] /\ k - n \in 1 .. Len(raw)
  <2>1. \A k \in 1 .. n + Len(raw) : all[k] = IF k <= n THEN rows[k] ELSE raw[k - n]
    BY ConcatProperties
  <2> HIDE DEF all
  <2> QED
    BY <1>1, <2>1
<1> HIDE DEF all, Q
<1>4. ASSUME NEW k \in 1 .. Len(raw)
      PROVE  \E j \in Q : all[j] = raw[k]
  <2>1. n + k \in 1 .. n + Len(raw) /\ n + k - n = k /\ all[n + k] = raw[k]
    BY <1>1, <1>3
  <2>2. CASE n + k \in Q
    BY <2>1, <2>2
  <2>3. CASE n + k \notin Q
    <3>1. PICK j \in 1 .. n : Key(raw[k]) = Key(rows[j])
      BY <1>2, <2>1, <2>3
    <3>2. rows[j] = raw[k] /\ j \in 1 .. n + Len(raw) /\ j <= n
      BY <1>1, <3>1
    <3>3. j \in Q /\ all[j] = raw[k]
      BY <1>2, <1>3, <3>2
    <3> QED
      BY <3>3
  <2> QED
    BY <2>2, <2>3
<1>5. ASSUME NEW k \in 1 .. n
      PROVE  k \in Q /\ all[k] = rows[k]
  BY <1>1, <1>2, <1>3
<1>6. ASSUME NEW k \in Q
      PROVE  /\ (k \in 1 .. n /\ all[k] = rows[k]) \/ (k - n \in 1 .. Len(raw) /\ all[k] = raw[k - n])
             /\ all[k] \in TimelineRow
  <2>1. k \in 1 .. n \/ k \in n + 1 .. n + Len(raw)
    BY <1>1, <1>2
  <2> QED
    BY <1>1, <1>3, <2>1
<1>7. ASSUME NEW j \in Q, NEW k \in Q, j # k
      PROVE  Key(all[j]) # Key(all[k])
  <2>1. /\ j \in 1 .. n \/ j \in n + 1 .. n + Len(raw)
        /\ k \in 1 .. n \/ k \in n + 1 .. n + Len(raw)
    BY <1>1, <1>2
  <2>2. CASE j \in 1 .. n /\ k \in 1 .. n
    <3>1. j < k \/ k < j
      BY <1>7, <2>2
    <3> QED
      BY <1>3, <2>2, <3>1 DEF InOrder
  <2>3. ASSUME NEW a \in 1 .. n, NEW b \in Q, b \in n + 1 .. n + Len(raw) PROVE Key(all[a]) # Key(all[b])
    <3>1. ~(b <= n) /\ b \in 1 .. n + Len(raw)
      BY <1>1, <2>3
    <3> QED
      BY <1>2, <1>3, <2>3, <3>1
  <2>4. CASE j \in n + 1 .. n + Len(raw) /\ k \in n + 1 .. n + Len(raw)
    <3>1. j - n # k - n /\ j - n \in 1 .. Len(raw) /\ k - n \in 1 .. Len(raw)
      BY <1>1, <1>7, <2>4
    <3> QED
      BY <1>3, <2>4, <3>1
  <2> QED
    BY <2>1, <2>2, <2>3, <2>4
<1>8. CASE Q = 1 .. n
  <2>1. r = rows
    BY <1>8 DEF Merge, Q
  <2>2. \A k \in 1 .. Len(raw) : \E i \in 1 .. Len(r) : r[i] = raw[k]
    BY <1>3, <1>4, <1>8, <2>1
  <2> QED
    BY <2>1, <2>2 DEF Merged
<1>9. CASE Q # 1 .. n
  <2> DEFINE s == Sorted(all, Q)
             c == Cardinality(Q)
  <2>1. r = LastRows(s, Cap)
    BY <1>9 DEF Merge, Q, all
  <2>2. /\ c \in Nat /\ s = [i \in 1 .. c |-> s[i]]
        /\ \A k \in Q : \E i \in 1 .. c : s[i] = all[k]
        /\ Arrangement(s, c, all, Q) # {}
    <3>1. IsFiniteSet(1 .. n + Len(raw))
      <4> DEFINE m == n + Len(raw)
      <4>1. 1 \in Int /\ m \in Int
        BY <1>1
      <4> HIDE DEF m
      <4>2. IsFiniteSet(1 .. m)
        BY <4>1, FS_Interval
      <4> QED
        BY <4>2 DEF m
    <3>2. \A k \in Q : all[k].time \in Nat
      BY <1>6 DEF TimelineRow
    <3>3. s = Sorted(all, Q)
      OBVIOUS
    <3>4. Q \in SUBSET Nat /\ IsFiniteSet(Q)
      <4>1. Q \in SUBSET (1 .. n + Len(raw)) /\ 1 .. n + Len(raw) \subseteq Nat
        BY <1>1, <1>2
      <4> QED
        BY <3>1, <4>1, FS_Subset
    <3>5. c = Cardinality(Q)
      OBVIOUS
    <3> HIDE DEF s, c
    <3> QED
      BY <3>2, <3>3, <3>4, <3>5, SortedIsOrdered
  <2> HIDE DEF s, c
  <2>a. PICK at \in [1 .. c -> Q] :
             /\ \A i \in 1 .. c : s[i] = all[at[i]]
             /\ \A i, j \in 1 .. c : i < j => at[i] # at[j] /\ all[at[i]].time <= all[at[j]].time
    BY <2>2 DEF Arrangement
  <2>b. \A i \in 1 .. c : at[i] \in Q
    BY <2>a, Zenon
  <2>3. s \in Seq(TimelineRow) /\ Len(s) = c
    <3>1. s = [i \in 1 .. c |-> s[i]]
      BY <2>2
    <3>2. \A i \in 1 .. c : s[i] \in TimelineRow
      BY <1>6, <2>a, <2>b
    <3>3. s \in [1 .. c -> TimelineRow]
      BY <3>1, <3>2
    <3>4. c \in Nat
      BY <2>2
    <3>5. s \in Seq(TimelineRow)
      BY <3>3, <3>4, SeqDef, Zenon
    <3>6. DOMAIN s = 1 .. c /\ DOMAIN s = 1 .. Len(s) /\ Len(s) \in Nat
      BY <3>3, <3>5, LenProperties
    <3> QED
      BY <3>4, <3>5, <3>6
  <2> DEFINE d == c - Len(r)
  <2>4. r \in Seq(TimelineRow) /\ Len(r) = IF c > Cap THEN Cap ELSE c
    BY <1>1, <2>1, <2>3, LastRowsAreLast
  <2>5. Len(r) \in Nat /\ Len(r) <= Cap /\ c \in Nat /\ d \in Nat /\ c = Len(r) + d /\ (d > 0 => Len(r) = Cap)
    <3>1. c \in Nat /\ Len(r) \in Nat
      BY <2>2, <2>4
    <3>2. CASE c > Cap
      BY <1>1, <2>4, <3>1, <3>2
    <3>3. CASE ~(c > Cap)
      BY <1>1, <2>4, <3>1, <3>3
    <3> QED
      BY <3>2, <3>3
  <2>6. \A i \in 1 .. Len(r) : r[i] = s[i + d]
    BY <1>1, <2>1, <2>3, LastRowsAreLast
  <2> HIDE DEF d
  <2>7. \A i \in 1 .. Len(r) : i + d \in 1 .. c
    BY <2>5
  <2>8. ASSUME NEW i \in 1 .. c, NEW j \in 1 .. c, i < j
        PROVE  s[i].time <= s[j].time /\ Key(s[i]) # Key(s[j])
    <3>1. at[i] # at[j] /\ all[at[i]].time <= all[at[j]].time /\ s[i] = all[at[i]] /\ s[j] = all[at[j]]
      BY <2>a, <2>8
    <3> QED
      BY <1>7, <2>b, <3>1
  <2>9. ASSUME NEW i \in 1 .. Len(r), NEW j \in 1 .. Len(r), i < j
        PROVE  r[i].time <= r[j].time /\ Key(r[i]) # Key(r[j])
    <3>1. i + d < j + d /\ i + d \in 1 .. c /\ j + d \in 1 .. c
      BY <2>5, <2>7, <2>9
    <3> QED
      BY <2>6, <2>8, <3>1
  <2>10. ASSUME NEW k \in Q PROVE (\E i \in 1 .. Len(r) : r[i] = all[k]) \/ Displaced(all[k], r)
    <3>1. PICK i \in 1 .. c : s[i] = all[k]
      BY <2>2
    <3>2. CASE i > d
      <4>1. i - d \in 1 .. Len(r) /\ i - d + d = i
        BY <2>5, <3>2
      <4> QED
        BY <2>6, <3>1, <4>1
    <3>3. CASE i <= d
      <4>1. Len(r) = Cap
        BY <2>5, <3>3
      <4>2. ASSUME NEW j \in 1 .. Len(r) PROVE r[j].time >= all[k].time
        <5>1. i < j + d /\ j + d \in 1 .. c /\ r[j] = s[j + d]
          BY <2>5, <2>6, <2>7, <3>3
        <5>2. all[k].time <= r[j].time
          BY <2>8, <3>1, <5>1
        <5>3. r[j] \in TimelineRow /\ all[k] \in TimelineRow
          BY <1>6, <2>4
        <5> QED
          BY <5>2, <5>3 DEF TimelineRow
      <4> QED
        BY <4>1, <4>2 DEF Displaced
    <3> QED
      BY <2>5, <3>2, <3>3
  <2>11. ASSUME NEW i \in 1 .. Len(r)
         PROVE  (\E k \in 1 .. Len(rows) : r[i] = rows[k]) \/ (\E k \in 1 .. Len(raw) : r[i] = raw[k])
    <3>1. PICK k \in Q : r[i] = all[k]
      BY <2>a, <2>b, <2>6, <2>7
    <3> QED
      BY <1>6, <3>1
  <2>12. InOrder(r)
    BY <2>9 DEF InOrder
  <2> QED
    BY <1>4, <1>5, <2>4, <2>5, <2>10, <2>11, <2>12 DEF Merged
<1> QED
  BY <1>8, <1>9

----------------------------------------------------------------------------
(* Positions, and the folds that go through them.  Induction is by the     *)
(* least counterexample: what is not so of all numbers is first not so of  *)
(* one.  A fold of the library is a recursive function on subsets.         *)

\* A set of numbers has a least one.
LEMMA LeastExists ==
  ASSUME NEW R \in SUBSET Nat, R # {}
  PROVE  \E n \in R : \A m \in R : n <= m
PROOF
<1>1. PICK n \in R : \A m \in R : ~(<<m, n>> \in OpToRel(<, Nat))
  BY NatLessThanWellFounded, WFMin
<1>2. \A m \in R : ~(m < n)
  BY <1>1 DEF OpToRel
<1>3. n \in Nat /\ \A m \in R : m \in Nat
  OBVIOUS
<1>4. ASSUME NEW m \in R PROVE n <= m
  <2>1. m \in Nat /\ n \in Nat /\ ~(m < n)
    BY <1>2, <1>3
  <2> QED
    BY <2>1
<1> QED
  BY <1>4

\* A set of positions has a first one.
LEMMA MinIsIn ==
  ASSUME NEW s \in SUBSET Nat, s # {}
  PROVE  Min(s) \in s /\ \A y \in s : Min(s) <= y
PROOF
<1>1. \E x \in s : \A y \in s : x <= y
  BY LeastExists
<1> QED
  BY <1>1 DEF Min

\* Induction, over a set of numbers: what it holds of 0 and is handed on, it holds of all.
LEMMA UpTo ==
  ASSUME NEW n \in Nat, NEW K, 0 \in K, \A i \in 0 .. n - 1 : i \in K => i + 1 \in K
  PROVE  \A i \in 0 .. n : i \in K
PROOF
<1> DEFINE R == {i \in 0 .. n : i \notin K}
<1>1. SUFFICES ASSUME R # {} PROVE FALSE
  OBVIOUS
<1>2. PICK i \in R : \A j \in R : i <= j
  <2>1. R \in SUBSET Nat
    OBVIOUS
  <2> QED
    BY <1>1, <2>1, LeastExists
<1>3. i \in 0 .. n /\ i # 0 /\ i \notin K
  BY <1>2
<1>4. i - 1 \in 0 .. n - 1 /\ (i - 1) + 1 = i /\ i - 1 \in 0 .. n /\ ~(i <= i - 1)
  BY <1>3
<1>5. i - 1 \in K
  BY <1>2, <1>4
<1> QED
  BY <1>3, <1>4, <1>5

\* One element of a fold's set taken by `pick`, the rest folded by h.
Folded(h, s, a, F, pick) == IF s = {} THEN a ELSE F[pick[s]][h[s \ {pick[s]}]]

HasFold(S, V, a, F, pick) ==
  \E h \in [SUBSET S -> V] : \A s \in SUBSET S : h[s] = Folded(h, s, a, F, pick)

\* A fold is defined: the recursion of MapThenFoldSet ends on a finite set.
LEMMA FoldExists ==
  ASSUME NEW S, IsFiniteSet(S), NEW V, NEW a \in V, NEW F \in [S -> [V -> V]], NEW pick,
         \A s \in SUBSET S : s # {} => pick[s] \in s
  PROVE  HasFold(S, V, a, F, pick)
PROOF
<1> DEFINE Below(h, m) == \A s \in SUBSET S : Cardinality(s) <= m => h[s] = Folded(h, s, a, F, pick)
           K == {m \in Nat : \E h \in [SUBSET S -> V] : Below(h, m)}
           n == Cardinality(S)
<1>1. n \in Nat /\ \A s \in SUBSET S : IsFiniteSet(s) /\ Cardinality(s) \in Nat /\ Cardinality(s) <= n
  BY FS_Subset, FS_CardinalityType
<1>2. 0 \in K
  <2>1. [s \in SUBSET S |-> a] \in [SUBSET S -> V]
    OBVIOUS
  <2>2. \A s \in SUBSET S : Cardinality(s) <= 0 => s = {}
    BY <1>1, FS_EmptySet
  <2> QED
    BY <2>1, <2>2 DEF Folded
<1>3. ASSUME NEW m \in Nat, m \in K PROVE m + 1 \in K
  <2>1. PICK g \in [SUBSET S -> V] : Below(g, m)
    BY <1>3
  <2> DEFINE h == [s \in SUBSET S |-> IF Cardinality(s) = m + 1 THEN Folded(g, s, a, F, pick) ELSE g[s]]
  <2>2. ASSUME NEW s \in SUBSET S, s # {}
        PROVE  s \ {pick[s]} \in SUBSET S /\ Cardinality(s \ {pick[s]}) = Cardinality(s) - 1 /\ pick[s] \in S
    BY <1>1, <2>2, FS_RemoveElement
  <2>3. \A s \in SUBSET S : Folded(g, s, a, F, pick) \in V
    BY <2>2 DEF Folded
  <2>4. h \in [SUBSET S -> V]
    BY <2>3
  <2>5. \A s \in SUBSET S : h[s] = IF Cardinality(s) = m + 1 THEN Folded(g, s, a, F, pick) ELSE g[s]
    OBVIOUS
  <2> HIDE DEF h
  <2>6. ASSUME NEW s \in SUBSET S, Cardinality(s) <= m + 1 PROVE h[s] = Folded(h, s, a, F, pick)
    <3>1. h[s] = Folded(g, s, a, F, pick)
      <4>1. CASE Cardinality(s) = m + 1
        BY <4>1, <2>5
      <4>2. CASE Cardinality(s) # m + 1
        <5>1. Cardinality(s) <= m
          BY <4>2, <2>6, <1>1
        <5> QED
          BY <5>1, <4>2, <2>1, <2>5
      <4> QED
        BY <4>1, <4>2
    <3>2. CASE s = {}
      BY <3>1, <3>2 DEF Folded
    <3>3. CASE s # {}
      <4>1. Cardinality(s \ {pick[s]}) # m + 1
        BY <2>2, <2>6, <3>3, <1>1
      <4>2. h[s \ {pick[s]}] = g[s \ {pick[s]}]
        BY <2>2, <2>5, <3>3, <4>1
      <4> QED
        BY <3>1, <3>3, <4>2 DEF Folded
    <3> QED
      BY <3>2, <3>3
  <2>7. Below(h, m + 1)
    BY <2>6
  <2> QED
    BY <2>4, <2>7
<1>4. n \in K
  <2> HIDE DEF K, n
  <2>1. \A i \in 0 .. n : i \in K
    BY <1>1, <1>2, <1>3, UpTo
  <2> QED
    BY <1>1, <2>1
<1>5. PICK h \in [SUBSET S -> V] : Below(h, n)
  BY <1>4
<1> QED
  BY <1>1, <1>5 DEF HasFold

\* A set of positions has a last one.
LEMMA MaxIsIn ==
  ASSUME NEW n \in Nat, NEW s \in SUBSET (1 .. n), s # {}
  PROVE  Max(s) \in s /\ \A y \in s : Max(s) >= y
PROOF
<1> DEFINE R == {n - k : k \in s}
<1>1. R \in SUBSET Nat /\ R # {}
  <2>1. \A k \in s : n - k \in Nat
    OBVIOUS
  <2> QED
    BY <2>1
<1>2. PICK r \in R : \A q \in R : r <= q
  BY <1>1, LeastExists
<1>3. PICK k \in s : r = n - k
  BY <1>2
<1>4. \A j \in s : k >= j
  <2> SUFFICES ASSUME NEW j \in s PROVE k >= j
    OBVIOUS
  <2>1. n - k <= n - j /\ j \in 1 .. n /\ k \in 1 .. n
    BY <1>2, <1>3
  <2> QED
    BY <2>1
<1>5. \E x \in s : \A y \in s : x >= y
  BY <1>4
<1> QED
  BY <1>5 DEF Max

\* The last of a set of positions taken by F, the rest by h.
HasChain(n, V, a, F) ==
  \E h \in [SUBSET (1 .. n) -> V] :
    \A s \in SUBSET (1 .. n) : h[s] = IF s = {} THEN a ELSE F[Max(s)][h[s \ {Max(s)}]]

\* What FoldLeft computes is defined.
LEMMA ChainExists ==
  ASSUME NEW n \in Nat, NEW V, NEW a \in V, NEW F \in [1 .. n -> [V -> V]]
  PROVE  HasChain(n, V, a, F)
PROOF
<1> DEFINE pick == [s \in SUBSET (1 .. n) |-> Max(s)]
<1>1. ASSUME NEW s \in SUBSET (1 .. n), s # {} PROVE Max(s) \in s
  BY <1>1, MaxIsIn
<1>2. \A s \in SUBSET (1 .. n) : s # {} => pick[s] \in s
  BY <1>1
<1>3. IsFiniteSet(1 .. n)
  BY FS_Interval
<1>4. PICK h \in [SUBSET (1 .. n) -> V] : \A s \in SUBSET (1 .. n) : h[s] = Folded(h, s, a, F, pick)
  <2> DEFINE S == 1 .. n
  <2>1. IsFiniteSet(S) /\ F \in [S -> [V -> V]] /\ \A s \in SUBSET S : s # {} => pick[s] \in s
    BY <1>2, <1>3
  <2> HIDE DEF pick, S
  <2>2. HasFold(S, V, a, F, pick)
    BY <2>1, FoldExists
  <2> QED
    BY <2>2 DEF S, HasFold
<1> QED
  <2> SUFFICES ASSUME NEW s \in SUBSET (1 .. n)
               PROVE  h[s] = IF s = {} THEN a ELSE F[Max(s)][h[s \ {Max(s)}]]
    BY DEF HasChain
  <2>1. pick[s] = Max(s)
    OBVIOUS
  <2> HIDE DEF pick
  <2> QED
    BY <1>4, <2>1 DEF Folded, HasChain

\* The first i + 1 positions are the (i + 1)-th and those before.
LEMMA PrefixFacts ==
  ASSUME NEW n \in Nat, NEW i \in 0 .. n - 1
  PROVE  /\ Max(1 .. i + 1) = i + 1 /\ (1 .. i + 1) \ {i + 1} = 1 .. i
         /\ i \in Nat /\ i \in 0 .. n /\ i + 1 \in 0 .. n /\ i + 1 \in 1 .. n
         /\ 1 .. i + 1 \in SUBSET (1 .. n) /\ 1 .. i + 1 # {}
PROOF
<1>1. i \in Nat /\ i + 1 <= n /\ i + 1 \in 1 .. i + 1
  OBVIOUS
<1>2. \A y \in 1 .. i + 1 : i + 1 >= y
  OBVIOUS
<1>3. \A x \in 1 .. i + 1 : (\A y \in 1 .. i + 1 : x >= y) => x = i + 1
  BY <1>1
<1>4. Max(1 .. i + 1) = i + 1
  BY <1>1, <1>2, <1>3 DEF Max
<1>5. (1 .. i + 1) \ {i + 1} = 1 .. i
  BY <1>1
<1>6. 1 .. i + 1 \in SUBSET (1 .. n)
  <2> SUFFICES ASSUME NEW j \in 1 .. i + 1 PROVE j \in 1 .. n
    OBVIOUS
  <2> QED
    BY <1>1
<1> QED
  BY <1>1, <1>4, <1>5, <1>6

----------------------------------------------------------------------------
(* Searching: the position handleJumpSubmit finds for a time.  Its loop is *)
(* a recursive function.                                                   *)

\* A turn of the loop, f being what the rest of it finds.
Narrowed(b, f, log, target) ==
  LET mid == (b.lo + b.hi) \div 2
  IN IF b.lo > b.hi THEN b.best
     ELSE IF log[mid + 1].time >= target THEN f[[lo |-> b.lo, hi |-> mid - 1, best |-> mid]]
     ELSE f[[lo |-> mid + 1, hi |-> b.hi, best |-> b.best]]

\* What its recursion defines the search to be.
LEMMA BisectIsChosen ==
  ASSUME NEW log, NEW target
  PROVE  Bisect(log, target) = CHOOSE f : f = [b \in Bounds(log) |-> Narrowed(b, f, log, target)]
BY DEF Bisect, Narrowed

\* How many events the loop has left to look at, plus one.
Left(b) == IF b.lo > b.hi THEN 0 ELSE b.hi - b.lo + 1

Lower(b) == [lo |-> b.lo, hi |-> ((b.lo + b.hi) \div 2) - 1, best |-> (b.lo + b.hi) \div 2]
Upper(b) == [lo |-> ((b.lo + b.hi) \div 2) + 1, hi |-> b.hi, best |-> b.best]

\* Each turn of the loop stays within the log and leaves less to look at.
LEMMA Narrower ==
  ASSUME NEW log, Len(log) \in Nat, NEW b \in Bounds(log)
  PROVE  /\ Left(b) \in Nat
         /\ b.best \in -1 .. Len(log) - 1
         /\ Left(b) = 0 <=> b.lo > b.hi
         /\ b.lo <= b.hi => /\ (b.lo + b.hi) \div 2 \in b.lo .. b.hi
                            /\ Lower(b) \in Bounds(log) /\ Left(Lower(b)) < Left(b)
                            /\ Upper(b) \in Bounds(log) /\ Left(Upper(b)) < Left(b)
PROOF
<1> DEFINE lo == b.lo
           hi == b.hi
           mid == (lo + hi) \div 2
<1>1. lo \in 0 .. Len(log) /\ hi \in -1 .. Len(log) - 1 /\ b.best \in -1 .. Len(log) - 1
  BY DEF Bounds
<1>2. b = [lo |-> lo, hi |-> hi, best |-> b.best]
  BY DEF Bounds
<1>3. ASSUME lo <= hi PROVE mid \in lo .. hi
  BY <1>1, <1>3
<1>4. Lower(b) = [lo |-> lo, hi |-> mid - 1, best |-> mid] /\ Upper(b) = [lo |-> mid + 1, hi |-> hi, best |-> b.best]
  BY DEF Lower, Upper
<1>5. mid \in Int
  BY <1>1
<1> HIDE DEF mid
<1>6. ASSUME lo <= hi PROVE Lower(b) \in Bounds(log) /\ Upper(b) \in Bounds(log)
  <2>1. /\ mid - 1 \in -1 .. Len(log) - 1
        /\ mid \in -1 .. Len(log) - 1
        /\ mid + 1 \in 0 .. Len(log)
    BY <1>1, <1>3, <1>5, <1>6
  <2> QED
    BY <2>1, <1>1, <1>4 DEF Bounds
<1>7. ASSUME lo <= hi PROVE Left(Lower(b)) < Left(b) /\ Left(Upper(b)) < Left(b)
  <2>1. /\ Left(b) = hi - lo + 1
        /\ Left(Lower(b)) = IF lo > mid - 1 THEN 0 ELSE mid - 1 - lo + 1
        /\ Left(Upper(b)) = IF mid + 1 > hi THEN 0 ELSE hi - (mid + 1) + 1
    BY <1>1, <1>4, <1>7 DEF Left
  <2> QED
    BY <2>1, <1>1, <1>3, <1>5, <1>7
<1>8. Left(b) \in Nat /\ (Left(b) = 0 <=> lo > hi)
  BY <1>1 DEF Left
<1> QED
  BY <1>1, <1>3, <1>6, <1>7, <1>8 DEF mid

\* A turn ends the loop or goes on below or above the middle.
LEMMA NarrowedTurns ==
  ASSUME NEW log, NEW target, NEW b, NEW f
  PROVE  Narrowed(b, f, log, target) =
           IF b.lo > b.hi THEN b.best
           ELSE IF log[((b.lo + b.hi) \div 2) + 1].time >= target THEN f[Lower(b)] ELSE f[Upper(b)]
BY DEF Narrowed, Lower, Upper

\* A function that is the search's result wherever fewer than n events are left.
KnownBelow(g, n, log, target) ==
  \A b \in Bounds(log) : Left(b) < n => g[b] = Narrowed(b, g, log, target)

\* If the search is defined up to n events, it is up to n + 1.
LEMMA OneMoreTurn ==
  ASSUME NEW log, NEW target, Len(log) \in Nat, NEW n \in Nat,
         NEW g \in [Bounds(log) -> -1 .. Len(log) - 1], KnownBelow(g, n, log, target)
  PROVE  \E h \in [Bounds(log) -> -1 .. Len(log) - 1] : KnownBelow(h, n + 1, log, target)
PROOF
<1> DEFINE h == [b \in Bounds(log) |-> IF Left(b) = n THEN Narrowed(b, g, log, target) ELSE g[b]]
<1>1. ASSUME NEW b \in Bounds(log) PROVE Narrowed(b, g, log, target) \in -1 .. Len(log) - 1
  <2>1. CASE b.lo > b.hi
    BY <2>1, Narrower, NarrowedTurns
  <2>2. CASE ~(b.lo > b.hi)
    <3>1. b.lo <= b.hi
      BY <2>2 DEF Bounds
    <3>2. Lower(b) \in Bounds(log) /\ Upper(b) \in Bounds(log)
      BY <3>1, Narrower
    <3> QED
      BY <2>2, <3>2, NarrowedTurns
  <2> QED
    BY <2>1, <2>2
<1>2. h \in [Bounds(log) -> -1 .. Len(log) - 1]
  BY <1>1
<1>3. \A b \in Bounds(log) : h[b] = IF Left(b) = n THEN Narrowed(b, g, log, target) ELSE g[b]
  OBVIOUS
<1> HIDE DEF h
<1>4. ASSUME NEW b \in Bounds(log), Left(b) < n + 1
      PROVE  h[b] = Narrowed(b, h, log, target)
  <2>1. h[b] = Narrowed(b, g, log, target)
    <3>1. CASE Left(b) = n
      BY <3>1, <1>3
    <3>2. CASE Left(b) # n
      <4>1. Left(b) < n
        BY <3>2, <1>4, Narrower
      <4> QED
        BY <4>1, <3>2, <1>3 DEF KnownBelow
    <3> QED
      BY <3>1, <3>2
  <2>2. CASE b.lo > b.hi
    BY <2>1, <2>2, NarrowedTurns
  <2>3. CASE ~(b.lo > b.hi)
    <3>1. b.lo <= b.hi
      BY <2>3 DEF Bounds
    <3>2. /\ Lower(b) \in Bounds(log) /\ Left(Lower(b)) < Left(b) /\ Left(Lower(b)) \in Nat
          /\ Upper(b) \in Bounds(log) /\ Left(Upper(b)) < Left(b) /\ Left(Upper(b)) \in Nat
          /\ Left(b) \in Nat
      BY <3>1, Narrower
    <3>3. Left(Lower(b)) # n /\ Left(Upper(b)) # n
      BY <3>2, <1>4
    <3>4. h[Lower(b)] = g[Lower(b)] /\ h[Upper(b)] = g[Upper(b)]
      BY <3>2, <3>3, <1>3
    <3> QED
      BY <2>1, <3>4, NarrowedTurns
  <2> QED
    BY <2>2, <2>3
<1> QED
  BY <1>2, <1>4 DEF KnownBelow

\* The search is defined: its recursion ends on every log.
LEMMA BisectTurns ==
  ASSUME NEW log, NEW target, Len(log) \in Nat
  PROVE  \A b \in Bounds(log) : Bisect(log, target)[b] = Narrowed(b, Bisect(log, target), log, target)
PROOF
<1> DEFINE Known(n) == \E g \in [Bounds(log) -> -1 .. Len(log) - 1] : KnownBelow(g, n, log, target)
           R == {n \in Nat : ~Known(n)}
<1>1. Known(0)
  <2>1. [b \in Bounds(log) |-> -1] \in [Bounds(log) -> -1 .. Len(log) - 1]
    OBVIOUS
  <2>2. \A b \in Bounds(log) : ~(Left(b) < 0)
    BY Narrower
  <2> QED
    BY <2>1, <2>2 DEF KnownBelow
<1>2. ASSUME NEW n \in Nat, Known(n) PROVE Known(n + 1)
  BY <1>2, OneMoreTurn
<1> HIDE DEF Known
<1>3. R = {}
  <2>1. SUFFICES ASSUME R # {} PROVE FALSE
    OBVIOUS
  <2>2. PICK n \in R : \A m \in R : n <= m
    BY <2>1, LeastExists
  <2>3. n # 0
    BY <1>1, <2>2
  <2>4. n - 1 \in Nat /\ n - 1 \notin R
    BY <2>2, <2>3
  <2>5. Known((n - 1) + 1)
    BY <2>4, <1>2
  <2>6. (n - 1) + 1 = n
    BY <2>2
  <2> QED
    BY <2>2, <2>5, <2>6
<1>4. Known(Len(log) + 1)
  BY <1>3
<1>5. PICK g \in [Bounds(log) -> -1 .. Len(log) - 1] : KnownBelow(g, Len(log) + 1, log, target)
  BY <1>4 DEF Known
<1>6. \A b \in Bounds(log) : Left(b) < Len(log) + 1
  BY DEF Bounds, Left
<1>7. g = [b \in Bounds(log) |-> Narrowed(b, g, log, target)]
  BY <1>5, <1>6 DEF KnownBelow
<1>8. Bisect(log, target) = [b \in Bounds(log) |-> Narrowed(b, Bisect(log, target), log, target)]
  BY <1>7, BisectIsChosen
<1> QED
  BY <1>8

\* What an ordered log promises of a search that has these bounds: what lies before them is
\* earlier than the target, and the best match is the first event after them.
Ordered(log) == \A j, k \in 1 .. Len(log) : j <= k => log[j].time <= log[k].time

Searching(b, log, target) ==
  /\ b.lo <= b.hi + 1
  /\ \A k \in 1 .. Len(log) : k <= b.lo => log[k].time < target
  /\ \/ b.best = -1 /\ b.hi = Len(log) - 1
     \/ b.best = b.hi + 1 /\ log[b.best + 1].time >= target

IsFirst(r, log, target) ==
  \/ r = -1 /\ \A k \in 1 .. Len(log) : log[k].time < target
  \/ /\ r \in 0 .. Len(log) - 1
     /\ log[r + 1].time >= target
     /\ \A k \in 1 .. Len(log) : k <= r => log[k].time < target

\* Where the loop ends its best match is the first, or there is none.
LEMMA SearchEnds ==
  ASSUME NEW log, Len(log) \in Nat, NEW target, NEW b \in Bounds(log),
         Searching(b, log, target), b.lo > b.hi
  PROVE  IsFirst(b.best, log, target)
PROOF
<1>1. b.lo \in Int /\ b.hi \in Int /\ b.best \in -1 .. Len(log) - 1
  BY DEF Bounds
<1>2. b.lo = b.hi + 1
  BY <1>1 DEF Searching
<1>3. CASE b.best = -1 /\ b.hi = Len(log) - 1
  BY <1>1, <1>2, <1>3 DEF Searching, IsFirst
<1>4. CASE b.best = b.hi + 1 /\ log[b.best + 1].time >= target /\ b.best # -1
  BY <1>1, <1>2, <1>4 DEF Searching, IsFirst
<1>5. CASE b.best = b.hi + 1 /\ b.best = -1
  BY <1>1, <1>2, <1>5 DEF Bounds
<1> QED
  BY <1>3, <1>4, <1>5 DEF Searching

\* A turn keeps the promise.
LEMMA SearchGoesOn ==
  ASSUME NEW log, Len(log) \in Nat, \A k \in 1 .. Len(log) : log[k].time \in Int, Ordered(log),
         NEW target \in Int, NEW b \in Bounds(log), Searching(b, log, target), b.lo <= b.hi
  PROVE  IF log[((b.lo + b.hi) \div 2) + 1].time >= target
           THEN Searching(Lower(b), log, target) ELSE Searching(Upper(b), log, target)
PROOF
<1> DEFINE mid == (b.lo + b.hi) \div 2
<1>1. /\ b.lo \in 0 .. Len(log) /\ b.hi \in -1 .. Len(log) - 1 /\ b.best \in -1 .. Len(log) - 1
      /\ mid \in b.lo .. b.hi
  BY Narrower DEF Bounds
<1>2. /\ Lower(b).lo = b.lo /\ Lower(b).hi = mid - 1 /\ Lower(b).best = mid
      /\ Upper(b).lo = mid + 1 /\ Upper(b).hi = b.hi /\ Upper(b).best = b.best
  BY DEF Lower, Upper, Bounds
<1>3. mid \in Int /\ mid + 1 \in 1 .. Len(log)
  BY <1>1
<1> HIDE DEF mid
<1>4. CASE log[mid + 1].time >= target
  <2>1. Lower(b).lo <= Lower(b).hi + 1
    BY <1>1, <1>2, <1>3
  <2>2. Lower(b).best = Lower(b).hi + 1 /\ log[Lower(b).best + 1].time >= target
    BY <1>2, <1>3, <1>4
  <2>3. Searching(Lower(b), log, target)
    BY <1>2, <2>1, <2>2 DEF Searching
  <2> QED
    BY <2>3, <1>4 DEF mid
<1>5. CASE ~(log[mid + 1].time >= target)
  <2>1. Upper(b).lo <= Upper(b).hi + 1
    BY <1>1, <1>2, <1>3
  <2>2. ASSUME NEW k \in 1 .. Len(log), k <= Upper(b).lo PROVE log[k].time < target
    <3>1. k <= mid + 1
      BY <1>2, <2>2
    <3>2. log[k].time <= log[mid + 1].time
      BY <3>1, <1>3 DEF Ordered
    <3>3. log[k].time \in Int /\ log[mid + 1].time \in Int
      BY <1>3
    <3> QED
      BY <3>2, <3>3, <1>5
  <2>3. Searching(Upper(b), log, target)
    BY <1>2, <2>1, <2>2 DEF Searching
  <2> QED
    BY <2>3, <1>5 DEF mid
<1> QED
  BY <1>4, <1>5

\* The result stays within the log, and on an ordered log it is the first event at or
\* after the target.
LEMMA BisectFinds ==
  ASSUME NEW log, Len(log) \in Nat, NEW target
  PROVE  /\ \A b \in Bounds(log) : Bisect(log, target)[b] \in -1 .. Len(log) - 1
         /\ (\A k \in 1 .. Len(log) : log[k].time \in Int) /\ Ordered(log) /\ target \in Int =>
              \A b \in Bounds(log) : Searching(b, log, target) => IsFirst(Bisect(log, target)[b], log, target)
PROOF
<1> DEFINE f == Bisect(log, target)
           Timed == (\A k \in 1 .. Len(log) : log[k].time \in Int) /\ Ordered(log) /\ target \in Int
           Good(b) == /\ f[b] \in -1 .. Len(log) - 1
                      /\ Timed /\ Searching(b, log, target) => IsFirst(f[b], log, target)
           R == {Left(b) : b \in {b \in Bounds(log) : ~Good(b)}}
<1>0. \A b \in Bounds(log) : f[b] = Narrowed(b, f, log, target)
  BY BisectTurns
<1> HIDE DEF f
<1>1. ASSUME NEW b \in Bounds(log),
             \A c \in Bounds(log) : Left(c) < Left(b) => Good(c)
      PROVE  Good(b)
  <2>1. CASE b.lo > b.hi
    <3>1. f[b] = b.best
      BY <1>0, <2>1, NarrowedTurns
    <3> QED
      BY <3>1, <2>1, Narrower, SearchEnds
  <2>2. CASE ~(b.lo > b.hi)
    <3>1. b.lo <= b.hi
      BY <2>2 DEF Bounds
    <3>2. Good(Lower(b)) /\ Good(Upper(b))
      BY <3>1, <1>1, Narrower
    <3>3. CASE log[((b.lo + b.hi) \div 2) + 1].time >= target
      <4>1. f[b] = f[Lower(b)]
        BY <1>0, <2>2, <3>3, NarrowedTurns
      <4>2. Timed /\ Searching(b, log, target) => Searching(Lower(b), log, target)
        BY <3>1, <3>3, SearchGoesOn
      <4> QED
        BY <4>1, <4>2, <3>2
    <3>4. CASE ~(log[((b.lo + b.hi) \div 2) + 1].time >= target)
      <4>1. f[b] = f[Upper(b)]
        BY <1>0, <2>2, <3>4, NarrowedTurns
      <4>2. Timed /\ Searching(b, log, target) => Searching(Upper(b), log, target)
        BY <3>1, <3>4, SearchGoesOn
      <4> QED
        BY <4>1, <4>2, <3>2
    <3> QED
      BY <3>3, <3>4
  <2> QED
    BY <2>1, <2>2
<1> HIDE DEF Good
<1>2. R = {}
  <2>1. SUFFICES ASSUME R # {} PROVE FALSE
    OBVIOUS
  <2>2. R \in SUBSET Nat
    BY Narrower
  <2>3. PICK n \in R : \A m \in R : n <= m
    BY <2>1, <2>2, LeastExists
  <2>4. PICK b \in Bounds(log) : ~Good(b) /\ n = Left(b)
    BY <2>3
  <2>5. ASSUME NEW c \in Bounds(log), Left(c) < Left(b) PROVE Good(c)
    <3>1. Left(c) \in Nat /\ Left(b) \in Nat
      BY Narrower
    <3>2. SUFFICES ASSUME ~Good(c) PROVE FALSE
      OBVIOUS
    <3>3. Left(c) \in R
      BY <3>2
    <3>4. Left(b) <= Left(c)
      BY <3>3, <2>3, <2>4
    <3> QED
      BY <3>1, <3>4, <2>5
  <2> QED
    BY <2>4, <2>5, <1>1
<1>3. \A b \in Bounds(log) : Good(b)
  BY <1>2
<1>4. \A b \in Bounds(log) : f[b] \in -1 .. Len(log) - 1
  BY <1>3 DEF Good
<1>5. Timed => \A b \in Bounds(log) : Searching(b, log, target) => IsFirst(f[b], log, target)
  BY <1>3 DEF Good
<1> QED
  BY <1>4, <1>5 DEF f

\* handleJumpSubmit lands on an event of the log, whatever the log's order.
LEMMA JumpLandsInside ==
  ASSUME NEW log, Len(log) \in Nat \ {0}, NEW target
  PROVE  Jump(log, target) \in 0 .. Len(log) - 1
PROOF
<1> DEFINE b == [lo |-> 0, hi |-> Len(log) - 1, best |-> -1]
           r == Bisect(log, target)[b]
<1>1. b \in Bounds(log)
  BY DEF Bounds
<1>2. r \in -1 .. Len(log) - 1
  BY <1>1, BisectFinds
<1>3. Jump(log, target) = IF r = -1 THEN Len(log) - 1 ELSE r
  BY DEF Jump
<1> HIDE DEF r
<1> QED
  BY <1>2, <1>3

\* On a log ordered by time it lands on the first event at or after the target, or on the
\* last event when there is none.
THEOREM JumpIsFirstAt ==
  ASSUME NEW log, Chronological(log), Len(log) # 0, NEW target \in Int
  PROVE  Jump(log, target) = FirstAt(log, target)
PROOF
<1> DEFINE b == [lo |-> 0, hi |-> Len(log) - 1, best |-> -1]
           r == Bisect(log, target)[b]
           after == {k \in 1 .. Len(log) : log[k].time >= target}
<1>0. /\ Len(log) \in Nat \ {0} /\ Ordered(log)
      /\ \A k \in 1 .. Len(log) : log[k].time \in Int
  BY DEF Chronological, Ordered
<1>1. b \in Bounds(log)
  BY <1>0 DEF Bounds
<1>2. Searching(b, log, target)
  BY <1>0 DEF Searching
<1>3. IsFirst(r, log, target)
  BY <1>0, <1>1, <1>2, BisectFinds
<1>4. Jump(log, target) = IF r = -1 THEN Len(log) - 1 ELSE r
  BY DEF Jump
<1>5. FirstAt(log, target) = IF after = {} THEN Len(log) - 1 ELSE (CHOOSE k \in after : \A j \in after : k <= j) - 1
  BY DEF FirstAt
<1> HIDE DEF r
<1>6. CASE r = -1 /\ \A k \in 1 .. Len(log) : log[k].time < target
  <2>1. after = {}
    BY <1>0, <1>6
  <2> QED
    BY <1>4, <1>5, <1>6, <2>1
<1>7. CASE /\ r \in 0 .. Len(log) - 1
           /\ log[r + 1].time >= target
           /\ \A k \in 1 .. Len(log) : k <= r => log[k].time < target
  <2>1. r + 1 \in after /\ r # -1 /\ r \in Int
    BY <1>0, <1>7
  <2>2. \A j \in after : r + 1 <= j
    BY <1>0, <1>7
  <2>3. \A k \in after : (\A j \in after : k <= j) => k = r + 1
    BY <2>1, <2>2
  <2>4. (CHOOSE k \in after : \A j \in after : k <= j) = r + 1
    BY <2>1, <2>2, <2>3
  <2>5. after # {} /\ (r + 1) - 1 = r
    BY <2>1
  <2> HIDE DEF after
  <2> QED
    BY <1>4, <1>5, <2>1, <2>4, <2>5
<1> QED
  BY <1>3, <1>6, <1>7 DEF IsFirst

----------------------------------------------------------------------------
(* The replay: what is replayed is of the selected pipeline and every      *)
(* position is of an event that was fetched.                               *)

\* The events fetched are the first of the log, and as chronological.
LEMMA FetchedIsChronological ==
  ASSUME NEW p \in Pipeline, NEW n \in 1 .. Len(Log[p])
  PROVE  Chronological(SubSeq(Log[p], 1, n)) /\ Len(SubSeq(Log[p], 1, n)) = n
PROOF
<1> DEFINE log == SubSeq(Log[p], 1, n)
<1>1. Chronological(Log[p]) /\ Len(Log[p]) \in Nat
  BY ConsoleAssumption DEF ConsoleAssumption, Chronological
<1>2. n \in Nat /\ n <= Len(Log[p])
  BY <1>1
<1>3. log = [k \in 1 .. n |-> Log[p][k]]
  BY <1>2
<1> HIDE DEF log
<1>4. Len(log) = n /\ \A k \in 1 .. n : log[k] = Log[p][k] /\ k \in 1 .. Len(Log[p])
  BY <1>1, <1>2, <1>3
<1>5. Chronological(log)
  BY <1>1, <1>2, <1>4 DEF Chronological
<1> QED
  BY <1>4, <1>5 DEF log

\* A jump to a time lands in the replay.
LEMMA JumpLands ==
  ASSUME NEW p \in Pipeline, NEW n \in 1 .. Len(Log[p]), NEW t
  PROVE  Jump(SubSeq(Log[p], 1, n), t) \in 0 .. n - 1
PROOF
<1>1. Len(Log[p]) \in Nat
  BY ConsoleAssumption DEF ConsoleAssumption, Chronological
<1>2. Len(SubSeq(Log[p], 1, n)) = n /\ n \in Nat \ {0}
  BY <1>1, FetchedIsChronological
<1> QED
  BY <1>2, JumpLandsInside

Replays == [mode : BOOLEAN, of : Pipeline \cup {None}, n : Nat, at : Nat \cup {-1},
            playing : BOOLEAN, a : Nat \cup {-1}, b : Nat \cup {-1}]

Typed ==
  /\ selected \in Pipeline \cup {None} /\ due \in BOOLEAN
  /\ recorded \in [Pipeline -> Nat] /\ \A p \in Pipeline : recorded[p] <= Len(Log[p])
  /\ replay \in Replays /\ fetch \in Request \cup {None}

\* A replay is not entered while one runs.
OneReplay == fetch # None => ~replay.mode

IInv == Typed /\ OneReplay /\ OfSelected /\ PositionsExist

LEMMA InitHolds == ASSUME Init PROVE IInv
PROOF
<1>1. recorded \in [Pipeline -> Nat] /\ \A p \in Pipeline : recorded[p] = 0 /\ Len(Log[p]) \in Nat
  BY ConsoleAssumption DEF ConsoleAssumption, Chronological, Init
<1>2. replay \in Replays /\ ~replay.mode
  BY DEF Init, NoReplay, Replays
<1>3. Typed
  <2>1. \A p \in Pipeline : recorded[p] <= Len(Log[p])
    BY <1>1
  <2>2. selected \in Pipeline \cup {None} /\ due \in BOOLEAN /\ fetch \in Request \cup {None}
    BY DEF Init
  <2> QED
    BY <1>1, <1>2, <2>1, <2>2 DEF Typed
<1>4. OneReplay /\ PositionsExist
  BY <1>2 DEF Init, OneReplay, PositionsExist
<1>5. OfSelected
  BY <1>2 DEF Init, OfSelected
<1> QED
  BY <1>3, <1>4, <1>5 DEF IInv

\* A step of a running replay to a position, and to compared snapshots, that exist.
LEMMA OperateKeeps ==
  ASSUME IInv, replay.mode, NEW r \in Replays, Operate(r),
         r.mode, r.of = replay.of, r.n = replay.n, r.at \in 0 .. replay.n - 1,
         r.a \in -1 .. replay.n - 1, r.b \in -1 .. replay.n - 1
  PROVE  IInv'
PROOF
<1>1. /\ replay' = r /\ UNCHANGED <<selected, due, recorded, fetch, polling>>
  BY DEF Operate, Move, pollVars
<1> HIDE DEF Operate
<1> QED
  BY <1>1 DEF IInv, Typed, OneReplay, OfSelected, PositionsExist

\* A step that leaves the replay, the requests for one, the selection and the polled
\* pipeline alone.
LEMMA AsideKeeps ==
  ASSUME IInv, UNCHANGED <<selected, due, recorded, replay, fetch, cache>>,
         polling' = polling \/ (polling' = selected /\ ~replay.mode)
  PROVE  IInv'
BY DEF IInv, Typed, OneReplay, OfSelected, PositionsExist

LEMMA PositionOperates ==
  ASSUME IInv, replay.mode, NEW k \in 0 .. replay.n - 1, NEW p \in BOOLEAN,
         Operate([replay EXCEPT !.playing = p, !.at = k])
  PROVE  IInv'
PROOF
<1> DEFINE r == [replay EXCEPT !.playing = p, !.at = k]
<1>1. replay \in Replays /\ replay.n \in Nat
  BY DEF IInv, Typed, Replays
<1>2. k \in Nat
  BY <1>1
<1>3. r \in Replays /\ r.mode /\ r.of = replay.of /\ r.n = replay.n /\ r.at = k /\ r.a = replay.a /\ r.b = replay.b
  BY <1>1, <1>2 DEF Replays
<1>4. replay.a \in -1 .. replay.n - 1 /\ replay.b \in -1 .. replay.n - 1
  BY DEF IInv, PositionsExist
<1> HIDE DEF r
<1>5. Operate(r)
  BY DEF r
<1> QED
  BY <1>3, <1>4, <1>5, OperateKeeps

LEMMA SeekKeeps ==
  ASSUME IInv, replay.mode, NEW k \in 0 .. replay.n - 1, Seek(k)
  PROVE  IInv'
BY PositionOperates DEF Seek

LEMMA CompareKeeps ==
  ASSUME IInv, replay.mode, NEW a \in -1 .. replay.n - 1, NEW b \in -1 .. replay.n - 1,
         NEW r, r \in {[replay EXCEPT !.a = a, !.b = b], [replay EXCEPT !.playing = FALSE, !.a = a],
                       [replay EXCEPT !.playing = FALSE, !.b = b]},
         Operate(r)
  PROVE  IInv'
PROOF
<1>1. replay \in Replays /\ replay.n \in Nat /\ replay.at \in 0 .. replay.n - 1
      /\ replay.a \in -1 .. replay.n - 1 /\ replay.b \in -1 .. replay.n - 1
  BY DEF IInv, Typed, Replays, PositionsExist
<1>2. a \in Nat \cup {-1} /\ b \in Nat \cup {-1}
  BY <1>1
<1>3. /\ r \in Replays /\ r.mode /\ r.of = replay.of /\ r.n = replay.n /\ r.at = replay.at
      /\ r.a \in {a, replay.a} /\ r.b \in {b, replay.b}
  BY <1>1, <1>2 DEF Replays
<1> QED
  BY <1>1, <1>3, OperateKeeps

LEMMA OfferedInReplay ==
  ASSUME NEW c \in {"restart", "prev", "next", "jump", "a", "b", "pause", "play", "swap", "clear", "exit"},
         c \in Offered
  PROVE  replay.mode
BY DEF Offered

LEMMA ListedFew ==
  ASSUME IInv, replay.mode, NEW level, NEW k \in Shown(level) PROVE k - 1 \in 0 .. replay.n - 1
PROOF
<1>1. replay.n \in Nat
  BY DEF IInv, Typed, Replays
<1>2. Listed(level) \subseteq 1 .. replay.n
  BY DEF Listed
<1>3. IsFiniteSet(1 .. replay.n) /\ Cardinality(1 .. replay.n) = replay.n
  BY <1>1, FS_Interval
<1>4. Cardinality(Listed(level)) <= replay.n /\ Cardinality(Listed(level)) \in Nat
  BY <1>2, <1>3, FS_Subset, FS_CardinalityType
<1> QED
  BY <1>1, <1>4 DEF Shown

LEMMA PlayKeeps ==
  ASSUME IInv, Play PROVE IInv'
PROOF
<1>1. replay.n \in Nat /\ replay.at \in Nat \cup {-1} /\ replay.playing \in BOOLEAN
  BY DEF IInv, Typed, Replays
<1>2. replay.mode => replay.n \in 1 .. recorded[replay.of] /\ replay.at \in 0 .. replay.n - 1
  BY DEF IInv, PositionsExist
<1>3. replay.mode
  <2>1. CASE Tick
    BY <2>1 DEF Tick, IInv, OfSelected, NoReplay
  <2> QED
    BY <2>1, OfferedInReplay DEF Play, startReplay, pauseReplay, stepForwardReplay, stepBackwardReplay, restartReplay, Use
<1>4. 0 \in 0 .. replay.n - 1 /\ replay.n - 1 \in 0 .. replay.n - 1
  BY <1>2, <1>3
<1>5. CASE startReplay
  <2>1. Operate([replay EXCEPT !.playing = TRUE, !.at = IF Final(replay) THEN 0 ELSE replay.at])
    BY <1>5 DEF startReplay
  <2> QED
    BY <1>2, <1>3, <1>4, <2>1, PositionOperates
<1>6. CASE pauseReplay
  <2>1. [replay EXCEPT !.playing = FALSE] = [replay EXCEPT !.playing = FALSE, !.at = replay.at]
    BY DEF IInv, Typed, Replays
  <2>2. Operate([replay EXCEPT !.playing = FALSE, !.at = replay.at])
    BY <1>6, <2>1 DEF pauseReplay
  <2> QED
    BY <1>2, <1>3, <2>2, PositionOperates
<1>7. CASE Tick
  <2>1. CASE Final(replay)
    <3>1. [replay EXCEPT !.playing = FALSE] = [replay EXCEPT !.playing = FALSE, !.at = replay.at]
      BY DEF IInv, Typed, Replays
    <3>2. Operate([replay EXCEPT !.playing = FALSE, !.at = replay.at])
      BY <1>7, <2>1, <3>1 DEF Tick
    <3> QED
      BY <1>2, <1>3, <3>2, PositionOperates
  <2>2. CASE ~Final(replay)
    <3>1. replay.at + 1 \in 0 .. replay.n - 1
      BY <1>1, <1>2, <1>3, <2>2 DEF Final
    <3>2. [replay EXCEPT !.at = @ + 1] = [replay EXCEPT !.playing = TRUE, !.at = replay.at + 1]
      BY <1>7 DEF Tick, IInv, Typed, Replays
    <3>3. Operate([replay EXCEPT !.playing = TRUE, !.at = replay.at + 1])
      BY <1>7, <2>2, <3>2 DEF Tick
    <3> QED
      BY <1>3, <3>1, <3>3, PositionOperates
  <2> QED
    BY <2>1, <2>2
<1>8. CASE stepForwardReplay
  BY <1>1, <1>2, <1>3, <1>4, <1>8, SeekKeeps DEF stepForwardReplay, Final
<1>9. CASE stepBackwardReplay
  BY <1>1, <1>2, <1>3, <1>4, <1>9, SeekKeeps DEF stepBackwardReplay
<1>10. CASE restartReplay
  BY <1>3, <1>4, <1>10, SeekKeeps DEF restartReplay
<1> QED
  BY <1>5, <1>6, <1>7, <1>8, <1>9, <1>10 DEF Play

LEMMA JumpKeeps ==
  ASSUME IInv, JumpTo \/ Compare \/ Click
  PROVE  IInv'
PROOF
<1>1. /\ replay.n \in Nat /\ replay \in Replays
      /\ \A p \in Pipeline : recorded[p] \in Nat /\ Len(Log[p]) \in Nat /\ recorded[p] <= Len(Log[p])
  BY ConsoleAssumption DEF ConsoleAssumption, Chronological, IInv, Typed, Replays
<1>2. replay.mode => /\ replay.of \in Pipeline /\ replay.n \in 1 .. recorded[replay.of]
                     /\ replay.a \in -1 .. replay.n - 1 /\ replay.b \in -1 .. replay.n - 1
  BY DEF IInv, PositionsExist
<1>3. CASE JumpTo
  <2>1. PICK k \in 1 .. replay.n : JumpToNumber(k) \/ JumpToTime(Log[replay.of][k].time + 1)
    BY <1>3 DEF JumpTo
  <2>2. replay.mode
    BY <2>1, OfferedInReplay DEF JumpToNumber, JumpToTime, Use
  <2>3. PICK i \in 0 .. replay.n - 1 : Seek(i)
    <3>1. CASE JumpToNumber(k)
      BY <1>1, <2>1, <3>1 DEF JumpToNumber
    <3>2. CASE JumpToTime(Log[replay.of][k].time + 1)
      <4>1. replay.n \in 1 .. Len(Log[replay.of])
        BY <1>1, <1>2, <2>2
      <4>2. Jump(SubSeq(Log[replay.of], 1, replay.n), Log[replay.of][k].time + 1) \in 0 .. replay.n - 1
        BY <1>2, <2>2, <4>1, JumpLands
      <4> QED
        BY <3>2, <4>2 DEF JumpToTime
    <3> QED
      BY <2>1, <3>1, <3>2
  <2> QED
    BY <2>2, <2>3, SeekKeeps
<1>4. CASE Compare
  <2>1. replay.mode
    BY <1>4, OfferedInReplay DEF Compare, selectSnapshotAIndex, selectSnapshotBIndex, swapSnapshots, clearComparison, Use
  <2>2. -1 \in -1 .. replay.n - 1 /\ \A k : Chosen(k) \in -1 .. replay.n - 1
    BY <1>1 DEF Chosen
  <2>3. ASSUME NEW k, selectSnapshotAIndex(k) \/ selectSnapshotBIndex(k) PROVE IInv'
    BY <2>1, <2>2, <2>3, CompareKeeps DEF selectSnapshotAIndex, selectSnapshotBIndex
  <2>4. ASSUME swapSnapshots \/ clearComparison PROVE IInv'
    BY <1>2, <2>1, <2>2, <2>4, CompareKeeps DEF swapSnapshots, clearComparison
  <2> QED
    BY <1>4, <2>3, <2>4 DEF Compare
<1>5. CASE Click
  <2>1. ASSUME NEW level, NEW k \in Shown(level), RowClick(level, k) PROVE IInv'
    <3>1. replay.mode /\ Seek(k - 1)
      BY <2>1 DEF RowClick
    <3>2. k - 1 \in 0 .. replay.n - 1
      BY <3>1, ListedFew
    <3> QED
      BY <3>1, <3>2, SeekKeeps
  <2>2. ASSUME NEW t, RetryClick(t) PROVE IInv'
    BY <2>2, AsideKeeps DEF RetryClick, pollVars, replayVars
  <2> QED
    BY <1>5, <2>1, <2>2 DEF Click
<1> QED
  BY <1>3, <1>4, <1>5

LEMMA EnterKeeps == ASSUME IInv, Enter PROVE IInv'
PROOF
<1>1. /\ replay.n \in Nat /\ replay \in Replays /\ \A p \in Pipeline : recorded[p] \in Nat
      /\ None \notin Pipeline
  BY ConsoleAssumption DEF ConsoleAssumption, Chronological, IInv, Typed, Replays
<1>2. CASE enterReplayMode
  <2>1. ~replay.mode /\ ~due /\ selected \in Pipeline /\ fetch' = [of |-> selected, n |-> recorded[selected]]
    BY <1>2 DEF enterReplayMode, Use, Offered, IInv, Typed
  <2>2. fetch' \in Request
    BY <1>1, <2>1 DEF Request
  <2>3. UNCHANGED <<selected, due, recorded, polling, replay, cache>>
    BY <1>2 DEF enterReplayMode, pollVars
  <2> QED
    BY <2>1, <2>2, <2>3 DEF IInv, Typed, OneReplay, OfSelected, PositionsExist
<1>3. CASE ReplayLoaded
  <2>1. PICK m \in fetch.n .. recorded[fetch.of] :
          m > 0 /\ Move([replay EXCEPT !.mode = TRUE, !.of = fetch.of, !.n = m, !.at = 0])
    BY <1>3 DEF ReplayLoaded
  <2>2. /\ fetch \in Request /\ ~replay.mode /\ replay = NoReplay /\ fetch' = None
        /\ ~due => fetch.of = selected /\ polling' = None
    BY <1>3 DEF ReplayLoaded, IInv, Typed, OneReplay, OfSelected, StopPolling
  <2>3. fetch.of \in Pipeline /\ fetch.n \in Nat /\ recorded[fetch.of] \in Nat
    BY <1>1, <2>2 DEF Request
  <2>4. m \in 1 .. recorded[fetch.of]
    BY <2>1, <2>3
  <2>5. replay' = [mode |-> TRUE, of |-> fetch.of, n |-> m, at |-> 0, playing |-> FALSE, a |-> -1, b |-> -1]
    BY <2>1, <2>2 DEF Move, NoReplay
  <2>6. UNCHANGED <<selected, due, recorded>>
    BY <2>1 DEF Move
  <2>7. replay' \in Replays
    BY <2>3, <2>4, <2>5 DEF Replays
  <2>8. PositionsExist'
    BY <2>3, <2>4, <2>5, <2>6 DEF PositionsExist
  <2> QED
    BY <2>2, <2>5, <2>6, <2>7, <2>8 DEF IInv, Typed, OneReplay, OfSelected
<1>4. CASE ReplayRefused
  <2>1. fetch' = None /\ UNCHANGED <<selected, due, recorded, pollVars, replay, cache>>
    BY <1>4 DEF ReplayRefused
  <2> QED
    BY <2>1 DEF pollVars, IInv, Typed, OneReplay, OfSelected, PositionsExist
<1>5. CASE exitReplayMode
  <2>1. /\ replay' = NoReplay /\ cache' = {} /\ polling' = selected /\ ~due /\ replay.mode
        /\ UNCHANGED <<selected, due, recorded, fetch>>
    BY <1>5, OfferedInReplay DEF exitReplayMode, StartPolling, Use
  <2>2. NoReplay \in Replays /\ ~NoReplay.mode
    BY DEF NoReplay, Replays
  <2> QED
    BY <2>1, <2>2 DEF IInv, Typed, OneReplay, OfSelected, PositionsExist
<1> QED
  BY <1>2, <1>3, <1>4, <1>5 DEF Enter

LEMMA IInvNext == ASSUME IInv, [Next]_vars PROVE IInv'
PROOF
<1>1. CASE \E p \in Pipeline \cup {None} : Select(p)
  BY <1>1 DEF Select, pollVars, replayVars, IInv, Typed, OneReplay, OfSelected, PositionsExist
<1>2. ASSUME NEW p \in Pipeline, Record(p) PROVE IInv'
  <2>1. /\ recorded[p] < Len(Log[p]) /\ recorded' = [recorded EXCEPT ![p] = @ + 1]
        /\ UNCHANGED <<selected, due, polling, replay, fetch, cache>>
    BY <1>2 DEF Record, pollVars, replayVars
  <2>2. \A q \in Pipeline : recorded[q] \in Nat /\ Len(Log[q]) \in Nat /\ recorded[q] <= Len(Log[q])
    BY ConsoleAssumption DEF ConsoleAssumption, Chronological, IInv, Typed
  <2>3. recorded' \in [Pipeline -> Nat] /\ \A q \in Pipeline : recorded'[q] <= Len(Log[q]) /\ recorded'[q] >= recorded[q]
    BY <2>1, <2>2 DEF IInv, Typed
  <2>4. PositionsExist'
    BY <2>1, <2>2, <2>3 DEF IInv, PositionsExist
  <2> QED
    BY <2>1, <2>3, <2>4 DEF IInv, Typed, OneReplay, OfSelected
<1>3. CASE RunEffects
  <2>1. /\ due' = FALSE /\ replay' = NoReplay /\ fetch' = None /\ cache' = {}
        /\ polling' \in {None, selected} /\ UNCHANGED <<selected, recorded>>
    BY <1>3 DEF RunEffects, CleanUp, StartPolling
  <2>2. NoReplay \in Replays /\ ~NoReplay.mode
    BY DEF NoReplay, Replays
  <2> QED
    BY <2>1, <2>2 DEF IInv, Typed, OneReplay, OfSelected, PositionsExist
<1>4. CASE Polls
  BY <1>4, AsideKeeps DEF Polls, PollTick, PollAnswer, PollFails, replayVars
<1>5. CASE Enter
  BY <1>5, EnterKeeps
<1>6. CASE Play
  BY <1>6, PlayKeeps
<1>7. CASE JumpTo \/ Compare \/ Click
  BY <1>7, JumpKeeps
<1>8. CASE RetryAnswer
  <2>1. UNCHANGED <<selected, due, recorded, replayVars>> /\ (polling' = polling \/ (polling' = selected /\ ~replay.mode))
    BY <1>8 DEF RetryAnswer, StartPolling, pollVars
  <2> QED
    BY <2>1, AsideKeeps DEF replayVars
<1>9. CASE UNCHANGED vars
  BY <1>9, AsideKeeps DEF vars, pollVars, replayVars
<1> QED
  BY <1>1, <1>2, <1>3, <1>4, <1>5, <1>6, <1>7, <1>8, <1>9 DEF Next

----------------------------------------------------------------------------
(* The live timeline, and the rest of the console's state.                 *)

LiveOK ==
  /\ loading \in BOOLEAN /\ timelineError \in BOOLEAN
  /\ polling \in Pipeline \cup {None} /\ polls \subseteq PollRequest

RestOK ==
  /\ replayLoading \in BOOLEAN /\ replayError \in {"none", "unavailable", "failed"}
  /\ retrying \in BOOLEAN /\ faults \in 0 .. MaxFaults

\* The differences computed are of the replay at hand, the one looked at among them.
CacheOK ==
  /\ cache \subseteq [a : Nat, b : Nat, of : Pipeline]
  /\ \A d \in cache : d.of = replay.of
  /\ Comparing(replay) => \E d \in cache : d.a = replay.a /\ d.b = replay.b

\* The timeline holds rows of the log, as they were logged.
Logged(rows) ==
  \A k \in 1 .. Len(rows) : /\ rows[k].n \in 1 .. recorded[rows[k].of]
                            /\ rows[k].time = Log[rows[k].of][rows[k].n].time

TimelineOK ==
  /\ timeline \in Seq(TimelineRow) /\ Len(timeline) <= Cap
  /\ InOrder(timeline) /\ Logged(timeline) /\ NoGaps

ConsoleInv == IInv /\ LiveOK /\ RestOK /\ CacheOK /\ TimelineOK

LEMMA ConsoleInvGives == ASSUME ConsoleInv PROVE TypeOK /\ NoGaps /\ ReplayIsOfSelected
BY DEF ConsoleInv, IInv, Typed, Replays, LiveOK, RestOK, CacheOK, TimelineOK, TimelineRow, InOrder, TypeOK, ReplayIsOfSelected

LEMMA ConsoleInit == ASSUME Init PROVE ConsoleInv
PROOF
<1>1. IInv
  BY InitHolds
<1>2. LiveOK
  <2>1. loading \in BOOLEAN /\ timelineError \in BOOLEAN
    BY Zenon DEF Init
  <2> QED
    BY <2>1 DEF Init, LiveOK
<1>3. RestOK
  <2>1. replayLoading \in BOOLEAN /\ retrying \in BOOLEAN
    BY Zenon DEF Init
  <2> QED
    BY <2>1, ConsoleAssumption DEF ConsoleAssumption, Chronological, Init, RestOK
<1>4. timeline = <<>> /\ Len(timeline) = 0 /\ Cap \in Nat
  BY ConsoleAssumption DEF ConsoleAssumption, Chronological, Init
<1>5. TimelineOK
  BY <1>4 DEF TimelineOK, InOrder, Logged, NoGaps
<1>6. CacheOK
  BY DEF Init, CacheOK, Comparing, NoReplay
<1> QED
  BY <1>1, <1>2, <1>3, <1>5, <1>6 DEF ConsoleInv

LEMMA CountedOnce == ASSUME NEW n \in Nat PROVE IsFiniteSet(1 .. n) /\ Cardinality(1 .. n) = n
PROOF
<1>1. 1 \in Int /\ n \in Int /\ (1 > n <=> n = 0)
  OBVIOUS
<1>2. IsFiniteSet(1 .. n) /\ Cardinality(1 .. n) = IF 1 > n THEN 0 ELSE n - 1 + 1
  BY <1>1, FS_Interval
<1> QED
  BY <1>1, <1>2

\* A full timeline stays full, of rows that are no earlier.
LEMMA FullStays ==
  ASSUME NEW rows \in Seq(TimelineRow), InOrder(rows), Len(rows) = Cap,
         NEW r \in Seq(TimelineRow), Len(r) <= Cap,
         \A k \in 1 .. Len(rows) : (\E i \in 1 .. Len(r) : r[i] = rows[k]) \/ Displaced(rows[k], r),
         NEW t \in Nat, \A k \in 1 .. Len(rows) : rows[k].time >= t
  PROVE  Len(r) = Cap /\ \A i \in 1 .. Len(r) : r[i].time >= t
PROOF
<1>1. /\ Cap \in Nat /\ Len(r) \in Nat
      /\ \A k \in 1 .. Cap : rows[k] \in TimelineRow /\ rows[k].time \in Nat
      /\ \A i \in 1 .. Len(r) : r[i] \in TimelineRow /\ r[i].time \in Nat
  <2>1. Cap \in Nat /\ Len(r) \in Nat
    BY ConsoleAssumption DEF ConsoleAssumption
  <2>2. /\ \A k \in 1 .. Len(rows) : rows[k] \in TimelineRow
        /\ \A i \in 1 .. Len(r) : r[i] \in TimelineRow
    OBVIOUS
  <2>3. \A row \in TimelineRow : row.time \in Nat
    BY DEF TimelineRow
  <2> QED
    BY <2>1, <2>2, <2>3
<1>2. ASSUME NEW k \in 1 .. Cap, Displaced(rows[k], r)
      PROVE  Len(r) = Cap /\ \A i \in 1 .. Len(r) : r[i].time >= t
  <2>1. rows[k].time >= t /\ rows[k].time \in Nat
    BY <1>1
  <2>2. ASSUME NEW i \in 1 .. Len(r) PROVE r[i].time >= t
    <3>1. r[i].time \in Nat /\ r[i].time >= rows[k].time
      BY <1>1, <1>2 DEF Displaced
    <3> QED
      BY <2>1, <3>1
  <2> QED
    BY <1>2, <2>2 DEF Displaced
<1>3. ASSUME \A k \in 1 .. Cap : \E i \in 1 .. Len(r) : r[i] = rows[k]
      PROVE  Len(r) = Cap /\ \A i \in 1 .. Len(r) : r[i].time >= t
  <2> DEFINE f == [k \in 1 .. Cap |-> CHOOSE i \in 1 .. Len(r) : r[i] = rows[k]]
  <2>1. f \in [1 .. Cap -> 1 .. Len(r)] /\ \A k \in 1 .. Cap : r[f[k]] = rows[k]
    BY <1>3
  <2> HIDE DEF f
  <2>2. ASSUME NEW j \in 1 .. Cap, NEW k \in 1 .. Cap, j # k PROVE f[j] # f[k]
    <3>1. j < k \/ k < j
      BY <1>1, <2>2
    <3>2. Key(rows[j]) # Key(rows[k])
      BY <3>1 DEF InOrder
    <3> QED
      BY <2>1, <3>2
  <2>3. f \in Injection(1 .. Cap, 1 .. Len(r))
    BY <2>1, <2>2, Fun_IsInj
  <2>4. /\ IsFiniteSet(1 .. Len(r)) /\ Cardinality(1 .. Len(r)) = Len(r)
        /\ Cardinality(1 .. Cap) = Cap
    BY <1>1, CountedOnce
  <2>5. /\ Cardinality(1 .. Cap) <= Cardinality(1 .. Len(r))
        /\ Cardinality(1 .. Cap) = Cardinality(1 .. Len(r)) => f \in Surjection(1 .. Cap, 1 .. Len(r))
    BY <2>3, <2>4, FS_Injection
  <2>6. Len(r) = Cap
    BY <1>1, <2>4, <2>5
  <2>7. \A i \in 1 .. Len(r) : \E k \in 1 .. Cap : f[k] = i
    <3>1. f \in Surjection(1 .. Cap, 1 .. Len(r))
      BY <2>4, <2>5, <2>6
    <3> QED
      BY <3>1, Zenon DEF Surjection
  <2>8. ASSUME NEW i \in 1 .. Len(r) PROVE r[i].time >= t
    <3>1. PICK k \in 1 .. Cap : f[k] = i
      BY <2>7
    <3> QED
      BY <2>1, <3>1
  <2> QED
    BY <2>6, <2>8
<1> QED
  BY <1>1, <1>2, <1>3

\* A good answer leaves the timeline in order and without a gap.
LEMMA AnswerKeeps ==
  ASSUME IInv, TimelineOK, NEW p \in Pipeline, NEW m \in 0 .. recorded[p],
         timeline' = Merge(timeline, Rows(p, m), Cap), UNCHANGED recorded
  PROVE  /\ TimelineOK'
         /\ \A k \in 1 .. Len(timeline) : \/ \E j \in 1 .. Len(timeline') : timeline'[j] = timeline[k]
                                          \/ Displaced(timeline[k], timeline')
PROOF
<1> DEFINE rows == timeline
           raw  == Rows(p, m)
           r    == timeline'
<1>1. /\ recorded[p] \in Nat /\ m \in Nat /\ m <= recorded[p] /\ Cap \in Nat \ {0}
      /\ \A q \in Pipeline : recorded[q] \in Nat /\ Len(Log[q]) \in Nat /\ recorded[q] <= Len(Log[q])
      /\ \A q \in Pipeline : \A n \in 1 .. Len(Log[q]) : Log[q][n].time \in Nat
  BY ConsoleAssumption DEF ConsoleAssumption, Chronological, IInv, Typed
<1>2. \A q \in Pipeline : \A n \in 1 .. recorded[q] : n \in Nat /\ n \in 1 .. Len(Log[q]) /\ Log[q][n].time \in Nat
  BY <1>1
<1>3. /\ raw \in Seq(TimelineRow) /\ Len(raw) = m
      /\ \A k \in 1 .. m : raw[k] = [of |-> p, n |-> k, time |-> Log[p][k].time]
  <2>1. \A k \in 1 .. m : raw[k] = [of |-> p, n |-> k, time |-> Log[p][k].time]
    BY DEF Rows
  <2>2. \A k \in 1 .. m : k \in 1 .. recorded[p]
    BY <1>1
  <2>3. ASSUME NEW k \in 1 .. m PROVE raw[k] \in TimelineRow
    <3>1. k \in Nat /\ Log[p][k].time \in Nat
      BY <1>2, <2>2
    <3>2. [of |-> p, n |-> k, time |-> Log[p][k].time] \in TimelineRow
      BY <3>1 DEF TimelineRow
    <3> QED
      BY <2>1, <3>2
  <2>4. raw = [k \in 1 .. m |-> raw[k]]
    BY DEF Rows
  <2> HIDE DEF raw
  <2>5. raw \in [1 .. m -> TimelineRow]
    BY <2>3, <2>4
  <2>6. raw \in Seq(TimelineRow)
    BY <1>1, <2>5, SeqDef, Zenon
  <2>7. Len(raw) = m
    BY <1>1, <2>5, <2>6, LenProperties
  <2> QED
    BY <2>1, <2>6, <2>7
<1>4. /\ rows \in Seq(TimelineRow) /\ InOrder(rows) /\ Len(rows) <= Cap /\ Len(rows) \in Nat
      /\ \A k \in 1 .. Len(rows) : rows[k] \in TimelineRow
  BY DEF TimelineOK
<1>5. \A k \in 1 .. Len(rows) : /\ rows[k].n \in 1 .. recorded[rows[k].of]
                                /\ rows[k].time = Log[rows[k].of][rows[k].n].time
  BY DEF TimelineOK, Logged
<1>6. r = Merge(rows, raw, Cap)
  OBVIOUS
<1> HIDE DEF rows, raw, r
<1>7. \A j, k \in 1 .. Len(raw) : j # k => Key(raw[j]) # Key(raw[k])
  BY <1>3 DEF Key
<1>8. ASSUME NEW j \in 1 .. Len(rows), NEW k \in 1 .. Len(raw), Key(rows[j]) = Key(raw[k]) PROVE rows[j] = raw[k]
  <2>1. rows[j].of = p /\ rows[j].n = k
    BY <1>3, <1>8 DEF Key
  <2>2. rows[j] = [of |-> rows[j].of, n |-> rows[j].n, time |-> rows[j].time]
    BY <1>4 DEF TimelineRow
  <2> QED
    BY <1>3, <1>5, <2>1, <2>2
<1>9. /\ r \in Seq(TimelineRow) /\ InOrder(r) /\ Len(r) <= Cap
      /\ \A i \in 1 .. Len(r) : \/ \E k \in 1 .. Len(rows) : r[i] = rows[k]
                                \/ \E k \in 1 .. Len(raw) : r[i] = raw[k]
      /\ \A k \in 1 .. Len(rows) : (\E i \in 1 .. Len(r) : r[i] = rows[k]) \/ Displaced(rows[k], r)
      /\ \A k \in 1 .. Len(raw) : (\E i \in 1 .. Len(r) : r[i] = raw[k]) \/ Displaced(raw[k], r)
  <2>1. raw \in Seq(TimelineRow)
    BY <1>3
  <2>2. \A j \in 1 .. Len(rows), k \in 1 .. Len(raw) : Key(rows[j]) = Key(raw[k]) => rows[j] = raw[k]
    BY <1>8
  <2>3. r \in Seq(TimelineRow) /\ InOrder(r) /\ Len(r) <= Cap /\ Merged(r, rows, raw)
    BY <1>4, <1>6, <1>7, <2>1, <2>2, MergeIsMerge
  <2> QED
    BY <2>3 DEF Merged
<1>10. \A row : row \in {rows[k] : k \in 1 .. Len(rows)} \cup {raw[k] : k \in 1 .. Len(raw)} =>
           row.of \in Pipeline /\ row.n \in 1 .. recorded[row.of] /\ row.time = Log[row.of][row.n].time
  <2>1. ASSUME NEW k \in 1 .. Len(rows)
        PROVE  rows[k].of \in Pipeline
    BY <1>4 DEF TimelineRow
  <2>2. ASSUME NEW k \in 1 .. Len(raw)
        PROVE  /\ raw[k].of \in Pipeline /\ raw[k].n \in 1 .. recorded[raw[k].of]
               /\ raw[k].time = Log[raw[k].of][raw[k].n].time
    BY <1>1, <1>3
  <2> QED
    BY <1>5, <2>1, <2>2
<1>11. \A i \in 1 .. Len(r) : r[i] \in {rows[k] : k \in 1 .. Len(rows)} \cup {raw[k] : k \in 1 .. Len(raw)}
  BY <1>9
<1>12. \A i \in 1 .. Len(r) : /\ r[i].of \in Pipeline /\ r[i].n \in 1 .. recorded[r[i].of]
                              /\ r[i].time = Log[r[i].of][r[i].n].time
  BY <1>10, <1>11
<1> DEFINE In(q, n) == \E i \in 1 .. Len(r) : Key(r[i]) = <<q, n>>
\* An event that is a row already, or one of the answer, is a row then or displaced.
<1>13. ASSUME NEW q \in Pipeline, NEW n \in 1 .. recorded[q],
              NEW row, Key(row) = <<q, n>>, row.time = Log[q][n].time,
              (\E i \in 1 .. Len(r) : r[i] = row) \/ Displaced(row, r)
       PROVE  In(q, n) \/ Displaced(Log[q][n], r)
  BY <1>13 DEF Displaced
<1>14. ASSUME NEW k \in 1 .. Len(r), NEW n \in 1 .. r[k].n - 1
       PROVE  In(r[k].of, n) \/ Displaced(Log[r[k].of][n], r)
  <2> DEFINE q == r[k].of
  <2>1. q \in Pipeline /\ r[k].n \in 1 .. recorded[q] /\ recorded[q] \in Nat
    BY <1>1, <1>12
  <2>2. n \in 1 .. recorded[q]
    BY <2>1
  <2>3. CASE \E j \in 1 .. Len(raw) : r[k] = raw[j]
    <3>1. PICK j \in 1 .. Len(raw) : r[k] = raw[j]
      BY <2>3
    <3>2. q = p /\ r[k].n = j /\ n \in 1 .. Len(raw)
      BY <1>1, <1>3, <3>1
    <3>3. Key(raw[n]) = <<q, n>> /\ raw[n].time = Log[q][n].time
      BY <1>3, <3>2 DEF Key
    <3> HIDE DEF q, In
    <3> QED
      BY <1>9, <1>13, <2>1, <2>2, <3>2, <3>3 DEF q
  <2>4. CASE \E j \in 1 .. Len(rows) : r[k] = rows[j]
    <3>1. PICK j \in 1 .. Len(rows) : r[k] = rows[j]
      BY <2>4
    <3>2. Has(q, n) \/ Displaced(Log[q][n], rows)
      BY <3>1 DEF TimelineOK, NoGaps, rows
    <3>3. CASE Has(q, n)
      <4>1. PICK i \in 1 .. Len(rows) : Key(rows[i]) = <<q, n>>
        BY <3>3 DEF Has, rows
      <4>2. rows[i].of = q /\ rows[i].n = n
        BY <4>1 DEF Key
      <4>3. rows[i].time = Log[q][n].time
        BY <1>5, <4>2
      <4> HIDE DEF q, In
      <4> QED
        BY <1>9, <1>13, <2>1, <2>2, <4>1, <4>3 DEF q
    <3>4. CASE Displaced(Log[q][n], rows)
      <4>1. /\ Len(rows) = Cap /\ Log[q][n].time \in Nat
            /\ \A i \in 1 .. Len(rows) : rows[i].time >= Log[q][n].time
        BY <1>2, <2>1, <2>2, <3>4 DEF Displaced
      <4>2. Len(r) = Cap /\ \A i \in 1 .. Len(r) : r[i].time >= Log[q][n].time
        BY <1>4, <1>9, <4>1, FullStays
      <4> QED
        BY <4>2 DEF Displaced
    <3> QED
      BY <3>2, <3>3, <3>4
  <2> QED
    BY <1>9, <2>3, <2>4
<1>15. NoGaps'
  BY <1>14 DEF NoGaps, Has, Displaced, r
<1>16. Logged(timeline)'
  BY <1>12 DEF Logged, r
<1> QED
  BY <1>9, <1>15, <1>16 DEF TimelineOK, InOrder, rows, r

\* What a step of a running replay leaves to the rest of the console.
Beside ==
  /\ replay'.of = replay.of /\ cache' = Remembered(replay')
  /\ UNCHANGED <<selected, recorded, pollVars, replayLoading, replayError, retrying, faults>>

LEMMA OperateIsBeside == ASSUME NEW r, Operate(r), r.of = replay.of PROVE Beside
BY DEF Operate, Move, Beside

LEMMA ReplayIsBeside ==
  ASSUME IInv, Play \/ JumpTo \/ Compare \/ (\E level : \E k \in Shown(level) : RowClick(level, k))
  PROVE  Beside
PROOF
<1>1. /\ \A p, k : [replay EXCEPT !.playing = p, !.at = k].of = replay.of
      /\ \A p, a : [replay EXCEPT !.playing = p, !.a = a].of = replay.of
      /\ \A p, b : [replay EXCEPT !.playing = p, !.b = b].of = replay.of
      /\ \A a, b : [replay EXCEPT !.a = a, !.b = b].of = replay.of
      /\ \A p : [replay EXCEPT !.playing = p].of = replay.of
      /\ \A k : [replay EXCEPT !.at = k].of = replay.of
  BY DEF IInv, Typed, Replays
<1>2. ASSUME NEW k, Seek(k) PROVE Beside
  BY <1>1, <1>2, OperateIsBeside DEF Seek
<1>3. CASE Play
  <2>1. CASE Tick
    <3>1. CASE Final(replay)
      BY <1>1, <2>1, <3>1, OperateIsBeside DEF Tick
    <3>2. CASE ~Final(replay)
      BY <1>1, <2>1, <3>2, OperateIsBeside DEF Tick
    <3> QED
      BY <3>1, <3>2
  <2>2. CASE startReplay
    BY <1>1, <2>2, OperateIsBeside DEF startReplay
  <2>3. CASE pauseReplay
    BY <1>1, <2>3, OperateIsBeside DEF pauseReplay
  <2> QED
    BY <1>2, <1>3, <2>1, <2>2, <2>3 DEF Play, stepForwardReplay, stepBackwardReplay, restartReplay
<1>4. CASE JumpTo
  BY <1>2, <1>4 DEF JumpTo, JumpToNumber, JumpToTime
<1>5. CASE Compare
  <2>1. ASSUME NEW k, selectSnapshotAIndex(k) PROVE Beside
    BY <1>1, <2>1, OperateIsBeside DEF selectSnapshotAIndex
  <2>2. ASSUME NEW k, selectSnapshotBIndex(k) PROVE Beside
    BY <1>1, <2>2, OperateIsBeside DEF selectSnapshotBIndex
  <2>3. ASSUME swapSnapshots \/ clearComparison PROVE Beside
    BY <1>1, <2>3, OperateIsBeside DEF swapSnapshots, clearComparison
  <2> QED
    BY <1>5, <2>1, <2>2, <2>3 DEF Compare
<1>6. ASSUME NEW level, NEW k, RowClick(level, k) PROVE Beside
  BY <1>2, <1>6 DEF RowClick
<1> QED
  BY <1>3, <1>4, <1>5, <1>6

\* The memo of the difference stays of the replay at hand.
LEMMA MemoKeeps ==
  ASSUME IInv', cache \subseteq [a : Nat, b : Nat, of : Pipeline], \A d \in cache : d.of = replay'.of,
         cache' = Remembered(replay')
  PROVE  CacheOK'
PROOF
<1> DEFINE r == replay'
<1>1. /\ r.a \in Nat \cup {-1} /\ r.b \in Nat \cup {-1} /\ r.n \in Nat
      /\ Comparing(r) => r.of \in Pipeline /\ r.a \in -1 .. r.n - 1 /\ r.b \in -1 .. r.n - 1
  <2>1. r \in Replays
    BY DEF IInv, Typed
  <2>2. r.mode \/ r = NoReplay
    BY DEF IInv, OfSelected
  <2>3. ~Comparing(NoReplay)
    BY DEF Comparing, NoReplay
  <2>4. r.mode => r.of \in Pipeline /\ r.a \in -1 .. r.n - 1 /\ r.b \in -1 .. r.n - 1
    BY DEF IInv, PositionsExist
  <2> QED
    BY <2>1, <2>2, <2>3, <2>4 DEF Replays
<1>2. cache' = Remembered(r)
  OBVIOUS
<1> HIDE DEF r
<1>3. CASE ~Comparing(r)
  BY <1>2, <1>3 DEF Remembered, CacheOK, r
<1>4. CASE Comparing(r) /\ \E d \in cache : d.a = r.a /\ d.b = r.b
  <2>1. cache' = cache
    BY <1>2, <1>4 DEF Remembered
  <2> QED
    BY <1>4, <2>1 DEF CacheOK, r
<1>5. CASE Comparing(r) /\ ~\E d \in cache : d.a = r.a /\ d.b = r.b
  <2> DEFINE d == [a |-> r.a, b |-> r.b, of |-> r.of]
  <2>1. r.a \in Nat /\ r.b \in Nat /\ r.a < r.n /\ r.b < r.n /\ r.of \in Pipeline
    BY <1>1, <1>5 DEF Comparing
  <2>2. cache' = cache \cup {d}
    BY <1>2, <1>5, <2>1 DEF Remembered
  <2>3. d \in [a : Nat, b : Nat, of : Pipeline] /\ d.a = r.a /\ d.b = r.b /\ d.of = r.of
    BY <2>1
  <2> HIDE DEF d
  <2>4. \A e \in cache' : e.of = r.of
    BY <2>2, <2>3 DEF r
  <2> QED
    BY <2>2, <2>3, <2>4 DEF CacheOK, r
<1> QED
  BY <1>3, <1>4, <1>5

\* A row stays, or no pipeline is selected, or later rows push it out.
RowsStay ==
  \A k \in 1 .. Len(timeline) :
    \/ \E j \in 1 .. Len(timeline') : timeline'[j] = timeline[k]
    \/ selected = None
    \/ Displaced(timeline[k], timeline')

\* The timeline stays while the log grows.
LEMMA TimelineStays ==
  ASSUME IInv, IInv', TimelineOK, UNCHANGED timeline, \A p \in Pipeline : recorded'[p] >= recorded[p]
  PROVE  TimelineOK' /\ RowsStay
PROOF
<1>1. \A k \in 1 .. Len(timeline) : timeline[k] \in TimelineRow
  BY DEF TimelineOK
<1>2. \A p \in Pipeline : recorded[p] \in Nat /\ recorded'[p] \in Nat
  BY DEF IInv, Typed
<1>3. ASSUME NEW k \in 1 .. Len(timeline) PROVE timeline[k].n \in 1 .. recorded'[timeline[k].of]
  <2>1. timeline[k].of \in Pipeline
    BY <1>1 DEF TimelineRow
  <2>2. timeline[k].n \in 1 .. recorded[timeline[k].of]
    BY DEF TimelineOK, Logged
  <2> QED
    BY <1>2, <2>1, <2>2
<1>4. Logged(timeline)'
  BY <1>3 DEF TimelineOK, Logged
<1>5. NoGaps'
  BY DEF TimelineOK, NoGaps, Has, Displaced
<1> QED
  BY <1>4, <1>5 DEF TimelineOK, InOrder, RowsStay

LEMMA TimelineEmptied == ASSUME selected = None, timeline' = <<>> PROVE TimelineOK' /\ RowsStay
PROOF
<1>1. Len(timeline') = 0 /\ Cap \in Nat
  BY ConsoleAssumption DEF ConsoleAssumption
<1> QED
  BY <1>1 DEF TimelineOK, InOrder, Logged, NoGaps, RowsStay

LEMMA PollingStarts == ASSUME IInv, LiveOK, NEW p \in Pipeline, StartPolling(p) PROVE LiveOK'
PROOF
<1>1. Poll(p) \in PollRequest
  <2>1. recorded[p] \in Nat
    BY DEF IInv, Typed
  <2> QED
    BY <2>1 DEF Poll, PollRequest
<1>2. loading' \in BOOLEAN /\ UNCHANGED timelineError
  BY Zenon DEF StartPolling
<1> QED
  BY <1>1, <1>2 DEF StartPolling, LiveOK, Aborted

LEMMA PollingStops ==
  ASSUME LiveOK, polling' = None, polls' = Aborted, loading' \in BOOLEAN, timelineError' \in BOOLEAN
  PROVE  LiveOK'
BY DEF LiveOK, Aborted

LEMMA PollsKeep ==
  ASSUME ConsoleInv, IInv', Polls
  PROVE  LiveOK' /\ RestOK' /\ CacheOK' /\ TimelineOK' /\ RowsStay
PROOF
<1>1. IInv /\ LiveOK /\ RestOK /\ CacheOK /\ TimelineOK
  BY DEF ConsoleInv
<1>2. \A p \in Pipeline : recorded[p] \in Nat
  BY <1>1 DEF IInv, Typed
<1>3. UNCHANGED <<replay, recorded, cache, replayLoading, replayError, retrying>>
  BY DEF Polls, PollTick, PollAnswer, PollFails, replayVars
<1>4. CacheOK'
  BY <1>1, <1>3 DEF CacheOK
<1>5. ASSUME faults' \in 0 .. MaxFaults PROVE RestOK'
  BY <1>1, <1>3, <1>5 DEF RestOK
<1>6. faults \in 0 .. MaxFaults /\ MaxFaults \in Nat
  BY <1>1, ConsoleAssumption DEF RestOK, ConsoleAssumption
<1>7. CASE PollTick
  <2>1. polling \in Pipeline /\ UNCHANGED <<timeline, loading, timelineError, polling, faults>>
    BY <1>1, <1>7 DEF PollTick, LiveOK
  <2>2. Poll(polling) \in PollRequest
    BY <1>2, <2>1 DEF Poll, PollRequest
  <2>3. {[q EXCEPT !.last = FALSE] : q \in polls} \subseteq PollRequest
    BY <1>1 DEF LiveOK, PollRequest
  <2>4. LiveOK'
    BY <1>1, <1>7, <2>1, <2>2, <2>3 DEF LiveOK, PollTick
  <2>5. TimelineOK' /\ RowsStay
    BY <1>1, <1>2, <1>3, <2>1, TimelineStays
  <2> QED
    BY <1>4, <1>5, <1>6, <2>1, <2>4, <2>5
<1>8. ASSUME NEW q \in polls, PollAnswer(q)
      PROVE  LiveOK' /\ RestOK' /\ CacheOK' /\ TimelineOK' /\ RowsStay
  <2>1. q.of \in Pipeline /\ q.n \in Nat
    BY <1>1 DEF LiveOK, PollRequest
  <2>2. PICK m \in q.n .. recorded[q.of] : timeline' = Merge(timeline, Rows(q.of, m), Cap)
    BY <1>8 DEF PollAnswer
  <2>3. m \in 0 .. recorded[q.of]
    BY <1>2, <2>1
  <2>4. TimelineOK' /\ RowsStay
    BY <1>1, <1>3, <2>1, <2>2, <2>3, AnswerKeeps DEF RowsStay
  <2>5. loading' \in BOOLEAN /\ timelineError' \in BOOLEAN
    BY <1>8, Zenon DEF PollAnswer
  <2>6. LiveOK'
    BY <1>1, <1>8, <2>5 DEF LiveOK, PollAnswer
  <2>7. UNCHANGED faults
    BY <1>8 DEF PollAnswer
  <2> QED
    BY <1>4, <1>5, <1>6, <2>4, <2>6, <2>7
<1>9. ASSUME NEW q \in polls, PollFails(q)
      PROVE  LiveOK' /\ RestOK' /\ CacheOK' /\ TimelineOK' /\ RowsStay
  <2>1. loading' \in BOOLEAN /\ timelineError' \in BOOLEAN
    BY <1>9, Zenon DEF PollFails
  <2>2. LiveOK'
    BY <1>1, <1>9, <2>1 DEF LiveOK, PollFails
  <2>3. faults' \in 0 .. MaxFaults /\ UNCHANGED timeline
    BY <1>6, <1>9 DEF PollFails, Fault
  <2>4. TimelineOK' /\ RowsStay
    BY <1>1, <1>2, <1>3, <2>3, TimelineStays
  <2> QED
    BY <1>4, <1>5, <2>2, <2>3, <2>4
<1> QED
  BY <1>7, <1>8, <1>9 DEF Polls

LEMMA EnterKeepsRest ==
  ASSUME ConsoleInv, IInv', Enter
  PROVE  LiveOK' /\ RestOK' /\ CacheOK' /\ TimelineOK' /\ RowsStay
PROOF
<1>1. IInv /\ LiveOK /\ RestOK /\ CacheOK /\ TimelineOK
  BY DEF ConsoleInv
<1>2. \A p \in Pipeline : recorded[p] \in Nat
  BY <1>1 DEF IInv, Typed
<1>3. UNCHANGED <<recorded, timeline, retrying>>
  BY DEF Enter, enterReplayMode, ReplayLoaded, ReplayRefused, exitReplayMode, Move, StopPolling, pollVars
<1>4. TimelineOK' /\ RowsStay
  BY <1>1, <1>2, <1>3, TimelineStays
<1>5. faults \in 0 .. MaxFaults /\ MaxFaults \in Nat
  BY <1>1, ConsoleAssumption DEF RestOK, ConsoleAssumption
<1>6. CASE enterReplayMode
  <2>1. replayLoading' \in BOOLEAN
    BY <1>6, Zenon DEF enterReplayMode
  <2> QED
    BY <1>1, <1>4, <1>6, <2>1 DEF enterReplayMode, pollVars, LiveOK, RestOK, CacheOK
<1>7. CASE ReplayLoaded
  <2>1. PICK m \in fetch.n .. recorded[fetch.of] :
          m > 0 /\ Move([replay EXCEPT !.mode = TRUE, !.of = fetch.of, !.n = m, !.at = 0])
    BY <1>7 DEF ReplayLoaded
  <2>2. ~replay.mode /\ cache = {}
    BY <1>1, <1>7 DEF ReplayLoaded, IInv, OneReplay, OfSelected
  <2>3. cache' = Remembered(replay') /\ UNCHANGED faults
    BY <2>1 DEF Move
  <2>4. CacheOK'
    BY <2>2, <2>3, MemoKeeps
  <2>5. replayLoading' \in BOOLEAN /\ UNCHANGED replayError
    BY <1>7, Zenon DEF ReplayLoaded
  <2>6. RestOK'
    BY <1>1, <1>3, <2>3, <2>5 DEF RestOK
  <2>7. LiveOK'
    <3>1. CASE due
      BY <1>1, <1>7, <3>1 DEF ReplayLoaded, pollVars, LiveOK
    <3>2. CASE ~due
      BY <1>1, <1>7, <3>2, PollingStops DEF ReplayLoaded, StopPolling, LiveOK
    <3> QED
      BY <3>1, <3>2
  <2> QED
    BY <1>4, <2>4, <2>6, <2>7
<1>8. CASE ReplayRefused
  <2>1. replayLoading' \in BOOLEAN
    BY <1>8, Zenon DEF ReplayRefused
  <2>2. faults' \in 0 .. MaxFaults /\ replayError' \in {"unavailable", "failed"}
    BY <1>5, <1>8 DEF ReplayRefused, Fault
  <2> QED
    BY <1>1, <1>3, <1>4, <1>8, <2>1, <2>2 DEF ReplayRefused, pollVars, LiveOK, RestOK, CacheOK
<1>9. CASE exitReplayMode
  <2>1. replay.mode /\ ~due /\ StartPolling(selected)
    BY <1>9, OfferedInReplay DEF exitReplayMode, Use
  <2>2. selected \in Pipeline
    BY <1>1, <2>1 DEF IInv, OfSelected, PositionsExist
  <2>3. LiveOK'
    BY <1>1, <2>1, <2>2, PollingStarts
  <2>4. RestOK'
    BY <1>1, <1>9 DEF exitReplayMode, RestOK
  <2>5. CacheOK'
    BY <1>9 DEF exitReplayMode, CacheOK, Comparing, NoReplay
  <2> QED
    BY <1>4, <2>3, <2>4, <2>5
<1> QED
  BY <1>6, <1>7, <1>8, <1>9 DEF Enter

\* Every step of the console keeps all of it.
LEMMA ConsoleNext == ASSUME ConsoleInv, [Next]_vars PROVE ConsoleInv' /\ RowsStay
PROOF
<1>1. IInv /\ LiveOK /\ RestOK /\ CacheOK /\ TimelineOK
  BY DEF ConsoleInv
<1>2. \A p \in Pipeline : recorded[p] \in Nat
  BY <1>1 DEF IInv, Typed
<1>3. IInv'
  BY <1>1, IInvNext
<1>4. SUFFICES LiveOK' /\ RestOK' /\ CacheOK' /\ TimelineOK' /\ RowsStay
  BY <1>3 DEF ConsoleInv
<1>5. faults \in 0 .. MaxFaults /\ MaxFaults \in Nat
  BY <1>1, ConsoleAssumption DEF RestOK, ConsoleAssumption
<1>6. ASSUME UNCHANGED <<timeline, recorded>> PROVE TimelineOK' /\ RowsStay
  BY <1>1, <1>2, <1>3, <1>6, TimelineStays
<1>7. ASSUME UNCHANGED <<replayLoading, replayError>>, retrying' \in BOOLEAN, faults' \in 0 .. MaxFaults
      PROVE  RestOK'
  BY <1>1, <1>7 DEF RestOK
<1>8. ASSUME UNCHANGED <<replay, cache>> PROVE CacheOK'
  BY <1>1, <1>8 DEF CacheOK
<1>9. ASSUME UNCHANGED pollVars PROVE LiveOK' /\ UNCHANGED timeline
  BY <1>1, <1>9 DEF LiveOK, pollVars
<1>10. retrying \in BOOLEAN
  BY <1>1 DEF RestOK
<1>11. ASSUME NEW p \in Pipeline \cup {None}, Select(p)
       PROVE  LiveOK' /\ RestOK' /\ CacheOK' /\ TimelineOK' /\ RowsStay
  <2>1. UNCHANGED <<recorded, pollVars, replayVars, retrying, faults>>
    BY <1>11 DEF Select
  <2> QED
    BY <1>5, <1>6, <1>7, <1>8, <1>9, <1>10, <2>1 DEF replayVars
<1>12. ASSUME NEW p \in Pipeline, Record(p)
       PROVE  LiveOK' /\ RestOK' /\ CacheOK' /\ TimelineOK' /\ RowsStay
  <2>1. recorded' = [recorded EXCEPT ![p] = @ + 1] /\ UNCHANGED <<pollVars, replayVars, retrying, faults>>
    BY <1>12 DEF Record
  <2>2. \A q \in Pipeline : recorded'[q] >= recorded[q]
    BY <1>1, <1>2, <2>1 DEF IInv, Typed
  <2>3. TimelineOK' /\ RowsStay
    BY <1>1, <1>3, <1>9, <2>1, <2>2, TimelineStays
  <2> QED
    BY <1>5, <1>7, <1>8, <1>9, <1>10, <2>1, <2>3 DEF replayVars
<1>13. CASE RunEffects
  <2>1. CacheOK'
    BY <1>13 DEF RunEffects, CleanUp, CacheOK, Comparing, NoReplay
  <2>2. RestOK'
    BY <1>1, <1>13 DEF RunEffects, CleanUp, RestOK
  <2>3. CASE selected = None
    <3>1. timeline' = <<>> /\ polling' = None /\ polls' = Aborted
      BY <1>13, <2>3 DEF RunEffects
    <3>2. loading' \in BOOLEAN /\ timelineError' \in BOOLEAN
      BY <1>13, <2>3, Zenon DEF RunEffects
    <3> QED
      BY <1>1, <2>1, <2>2, <2>3, <3>1, <3>2, PollingStops, TimelineEmptied
  <2>4. CASE selected # None
    <3>1. StartPolling(selected) /\ UNCHANGED <<timeline, recorded>>
      BY <1>13, <2>4 DEF RunEffects
    <3>2. selected \in Pipeline
      BY <1>1, <2>4 DEF IInv, Typed
    <3>3. LiveOK'
      BY <1>1, <3>1, <3>2, PollingStarts
    <3> QED
      BY <1>6, <2>1, <2>2, <3>1, <3>3
  <2> QED
    BY <2>3, <2>4
<1>14. CASE Play \/ JumpTo \/ Compare \/ (\E level : \E k \in Shown(level) : RowClick(level, k))
  <2>1. Beside
    BY <1>1, <1>14, ReplayIsBeside
  <2>2. CacheOK'
    <3>1. cache \subseteq [a : Nat, b : Nat, of : Pipeline] /\ \A d \in cache : d.of = replay'.of
      BY <1>1, <2>1 DEF CacheOK, Beside
    <3> QED
      BY <1>3, <2>1, <3>1, MemoKeeps DEF Beside
  <2> QED
    BY <1>5, <1>6, <1>7, <1>9, <1>10, <2>1, <2>2 DEF Beside
<1>15. ASSUME NEW t, RetryClick(t)
       PROVE  LiveOK' /\ RestOK' /\ CacheOK' /\ TimelineOK' /\ RowsStay
  <2>1. retrying' \in BOOLEAN
    BY <1>15, Zenon DEF RetryClick
  <2>2. UNCHANGED <<recorded, pollVars, replayVars, faults>>
    BY <1>15 DEF RetryClick
  <2> QED
    BY <1>5, <1>6, <1>7, <1>8, <1>9, <2>1, <2>2 DEF replayVars
<1>16. CASE Click
  BY <1>14, <1>15, <1>16 DEF Click
<1>17. CASE RetryAnswer
  <2>1. retrying' \in BOOLEAN
    BY <1>17, Zenon DEF RetryAnswer
  <2>2. UNCHANGED <<timeline, recorded, replayVars, selected>>
    BY <1>17 DEF RetryAnswer, pollVars
  <2>3. faults' \in 0 .. MaxFaults
    BY <1>5, <1>17 DEF RetryAnswer, Fault
  <2>4. LiveOK'
    <3>1. UNCHANGED pollVars \/ (selected # None /\ StartPolling(selected))
      BY <1>17 DEF RetryAnswer
    <3>2. selected # None => selected \in Pipeline
      BY <1>1 DEF IInv, Typed
    <3> QED
      BY <1>1, <1>9, <3>1, <3>2, PollingStarts
  <2> QED
    BY <1>6, <1>7, <1>8, <2>1, <2>2, <2>3, <2>4 DEF replayVars
<1>18. CASE Polls
  BY <1>3, <1>18, PollsKeep
<1>19. CASE Enter
  BY <1>3, <1>19, EnterKeepsRest
<1>20. CASE UNCHANGED vars
  BY <1>5, <1>6, <1>7, <1>8, <1>9, <1>10, <1>20 DEF vars, replayVars
<1> QED
  BY <1>11, <1>12, <1>13, <1>14, <1>16, <1>17, <1>18, <1>19, <1>20 DEF Next

LEMMA JumpFindsItself == ASSUME NEW log, Chronological(log) PROVE JumpAgrees(log)
PROOF
<1>1. SUFFICES ASSUME NEW k \in 1 .. Len(log), NEW d \in {-1, 0, 1}
               PROVE  Jump(log, log[k].time + d) = FirstAt(log, log[k].time + d)
  BY DEF JumpAgrees
<1>2. log[k].time + d \in Int /\ Len(log) # 0
  BY DEF Chronological
<1> QED
  BY <1>2, JumpIsFirstAt

\* A search for a time finds the first event at or after it, in every log there is.
LEMMA ConsoleInvJumps == ASSUME ConsoleInv PROVE JumpFinds
PROOF
<1>1. SUFFICES ASSUME replay.mode PROVE JumpLogsAgree /\ JumpAgrees(SubSeq(Log[replay.of], 1, replay.n))
  BY DEF JumpFinds
<1>2. JumpLogsAgree
  BY JumpFindsItself, ConsoleAssumption DEF JumpLogsAgree, ConsoleAssumption
<1>3. replay.of \in Pipeline /\ replay.n \in 1 .. recorded[replay.of] /\ recorded[replay.of] <= Len(Log[replay.of])
      /\ recorded[replay.of] \in Nat
  BY <1>1 DEF ConsoleInv, IInv, Typed, PositionsExist
<1>4. replay.n \in 1 .. Len(Log[replay.of])
  <2>1. Len(Log[replay.of]) \in Nat
    BY <1>3, ConsoleAssumption DEF ConsoleAssumption, Chronological
  <2> QED
    BY <1>3, <2>1
<1> QED
  BY <1>2, <1>3, <1>4, FetchedIsChronological, JumpFindsItself

\* What a snapshot is made of.
Word == STRING \cup {"pending", "blocked", "retrying", "idle", "busy", "offline", "valid", "expired"}
TaskRow   == [status : Word, worker : WorkerId \cup {None, System}, retries : Nat]
WorkerRow == [state : Word, task : TaskId \cup {None}, lease : Word]
Snapshot  == [tasks : [TaskId -> TaskRow], workers : [WorkerId -> WorkerRow], task : TaskId \cup {None}]

\* The snapshot before the next event, of those so far.
Latest(done) == IF done = <<>> THEN Blank ELSE Last(done)

LEMMA NormalizedTyped ==
  ASSUME NEW e \in Event
  PROVE  /\ Normalized(e).task \in TaskId \cup {None} /\ Normalized(e).task = e.task
         /\ Normalized(e).worker \in WorkerId \cup {System}
         /\ Normalized(e).type = e.type /\ Normalized(e).says = e.says
         /\ Normalized(e).after \in STRING \cup {None}
BY DEF Normalized, Event

LEMMA AdvanceTyped ==
  ASSUME NEW s \in Snapshot, NEW e \in Event
  PROVE  Advance(s, Normalized(e)) \in Snapshot
PROOF
<1> DEFINE m == Normalized(e)
<1>1. m.task \in TaskId \cup {None} /\ m.worker \in WorkerId \cup {System} /\ m.after \in STRING \cup {None}
  BY NormalizedTyped
<1> HIDE DEF m
<1>2. ASSUME NEW row \in TaskRow PROVE NextTask(row, m) \in TaskRow
  BY <1>1 DEF NextTask, TaskRow, Word
<1>3. ASSUME NEW row \in WorkerRow PROVE NextWorker(row, m) \in WorkerRow
  BY <1>1 DEF NextWorker, WorkerRow, Word
<1>4. s.tasks \in [TaskId -> TaskRow] /\ s.workers \in [WorkerId -> WorkerRow] /\ s.task \in TaskId \cup {None}
  BY DEF Snapshot
<1>5. [t \in TaskId |-> IF m.task = t THEN NextTask(s.tasks[t], m) ELSE s.tasks[t]] \in [TaskId -> TaskRow]
  BY <1>2, <1>4
<1>6. [w \in WorkerId |-> IF m.worker = w THEN NextWorker(s.workers[w], m) ELSE s.workers[w]] \in [WorkerId -> WorkerRow]
  BY <1>3, <1>4
<1>7. (IF m.task = None THEN s.task ELSE m.task) \in TaskId \cup {None}
  BY <1>1, <1>4
<1>8. Advance(s, m) \in Snapshot
  BY <1>5, <1>6, <1>7 DEF Advance, Snapshot
<1> QED
  BY <1>8 DEF m

LEMMA BlankTyped == Blank \in Snapshot
PROOF
<1>1. NewTask \in TaskRow /\ NewWorker \in WorkerRow
  BY DEF NewTask, NewWorker, TaskRow, WorkerRow, Word
<1> QED
  BY <1>1 DEF Blank, Snapshot

LEMMA LatestTyped ==
  ASSUME NEW done \in Seq(Snapshot)
  PROVE  Latest(done) \in Snapshot
BY BlankTyped DEF Latest, Last

\* computeReplaySnapshots goes from event to event, each snapshot from the one before.
LEMMA SnapshotsGoOn ==
  ASSUME NEW log \in Seq(Event)
  PROVE  /\ Snapshots(log) \in Seq(Snapshot) /\ Len(Snapshots(log)) = Len(log)
         /\ \A i \in 1 .. Len(log) :
              Snapshots(log)[i] = Advance(IF i = 1 THEN Blank ELSE Snapshots(log)[i - 1], Normalized(log[i]))
PROOF
<1> DEFINE n == Len(log)
           S == Seq(Snapshot)
           op(done, e) == Append(done, Advance(IF done = <<>> THEN Blank ELSE Last(done), Normalized(e)))
           F == [i \in 1 .. n |-> [done \in S |-> op(done, log[i])]]
           Turn(f) == [s \in SUBSET (DOMAIN log) |-> IF s = {} THEN <<>> ELSE op(f[s \ {Max(s)}], log[Max(s)])]
           iter == CHOOSE f : f = Turn(f)
<1>1. n \in Nat /\ DOMAIN log = 1 .. n /\ \A i \in 1 .. n : log[i] \in Event
  OBVIOUS
<1>2. ASSUME NEW done \in S, NEW i \in 1 .. n PROVE op(done, log[i]) \in S
  <2>1. Advance(Latest(done), Normalized(log[i])) \in Snapshot
    BY <1>1, LatestTyped, AdvanceTyped
  <2> QED
    BY <2>1 DEF Latest
<1>3. F \in [1 .. n -> [S -> S]] /\ <<>> \in S
  <2> HIDE DEF S, op
  <2>1. F \in [1 .. n -> [S -> S]]
    BY <1>2
  <2> QED
    BY <2>1 DEF S
<1>4. PICK h \in [SUBSET (1 .. n) -> S] :
        \A s \in SUBSET (1 .. n) : h[s] = IF s = {} THEN <<>> ELSE F[Max(s)][h[s \ {Max(s)}]]
  <2> HIDE DEF n, S, F
  <2>1. HasChain(n, S, <<>>, F)
    BY <1>1, <1>3, ChainExists
  <2> QED
    BY <2>1 DEF HasChain
<1>5. ASSUME NEW s \in SUBSET (1 .. n), s # {} PROVE Max(s) \in s
  BY <1>1, <1>5, MaxIsIn
<1>6. h = Turn(h)
  <2> SUFFICES ASSUME NEW s \in SUBSET (1 .. n)
               PROVE  h[s] = IF s = {} THEN <<>> ELSE op(h[s \ {Max(s)}], log[Max(s)])
    BY <1>1
  <2>1. s # {} => h[s \ {Max(s)}] \in S /\ Max(s) \in 1 .. n
    BY <1>5
  <2> HIDE DEF S, op
  <2> QED
    BY <1>4, <2>1
<1>7. iter = Turn(iter)
  <2> HIDE DEF Turn
  <2> QED
    BY <1>6
<1>8. Snapshots(log) = iter[1 .. n]
  <2>1. Snapshots(log) = iter[DOMAIN log]
    BY DEF Snapshots, FoldLeft, MapThenFoldSet
  <2> QED
    BY <1>1, <2>1
<1> HIDE DEF iter
<1> DEFINE r == [i \in 0 .. n |-> iter[1 .. i]]
<1>9. r[0] = <<>>
  <2>1. 1 .. 0 = {} /\ 0 \in 0 .. n
    BY <1>1
  <2>2. iter[{}] = <<>>
    BY <1>7
  <2> QED
    BY <2>1, <2>2
<1>10. ASSUME NEW i \in 0 .. n - 1 PROVE r[i + 1] = op(r[i], log[i + 1])
  <2>1. i \in Nat /\ 1 .. i + 1 \in SUBSET (1 .. n) /\ 1 .. i + 1 # {} /\ i \in 0 .. n /\ i + 1 \in 0 .. n
    <3> HIDE DEF n
    <3> QED
      BY <1>1, PrefixFacts
  <2>2. Max(1 .. i + 1) = i + 1 /\ (1 .. i + 1) \ {i + 1} = 1 .. i
    BY <1>1, PrefixFacts
  <2> HIDE DEF op
  <2>3. iter[1 .. i + 1] = op(iter[1 .. i], log[i + 1])
    BY <1>1, <1>7, <2>1, <2>2
  <2> QED
    BY <2>1, <2>3
<1> HIDE DEF r
<1> DEFINE Good(i) == /\ r[i] \in S /\ Len(r[i]) = i
                      /\ \A j \in 1 .. i : r[i][j] = Advance(IF j = 1 THEN Blank ELSE r[i][j - 1], Normalized(log[j]))
           K == {i \in 0 .. n : Good(i)}
<1>11. 0 \in K
  <2>1. 0 \in 0 .. n /\ <<>> \in S /\ Len(<<>>) = 0 /\ \A j \in 1 .. 0 : FALSE
    BY <1>1
  <2> HIDE DEF n, S
  <2> QED
    BY <1>9, <2>1
<1>12. ASSUME NEW i \in 0 .. n - 1, i \in K PROVE i + 1 \in K
  <2>1. r[i] \in S /\ Len(r[i]) = i /\ i \in Nat /\ i + 1 \in 1 .. n
    BY <1>1, <1>12
  <2> DEFINE x == Advance(Latest(r[i]), Normalized(log[i + 1]))
  <2>2. x \in Snapshot
    BY <1>1, <2>1, LatestTyped, AdvanceTyped
  <2>3. r[i + 1] = Append(r[i], x)
    BY <1>10 DEF Latest
  <2>4. x = Advance(IF i + 1 = 1 THEN Blank ELSE r[i][i], Normalized(log[i + 1]))
    <3>1. r[i] = <<>> <=> i = 0
      BY <2>1
    <3> QED
      BY <2>1, <3>1 DEF Latest, Last
  <2> HIDE DEF x
  <2>5. /\ r[i + 1] \in S /\ Len(r[i + 1]) = i + 1 /\ r[i + 1][i + 1] = x
        /\ \A j \in 1 .. i : r[i + 1][j] = r[i][j]
    BY <2>1, <2>2, <2>3
  <2>6. ASSUME NEW j \in 1 .. i + 1
        PROVE  r[i + 1][j] = Advance(IF j = 1 THEN Blank ELSE r[i + 1][j - 1], Normalized(log[j]))
    <3>1. CASE j = i + 1
      <4>1. j # 1 => j - 1 \in 1 .. i /\ j - 1 = i
        BY <2>1, <3>1
      <4> QED
        BY <3>1, <2>4, <2>5, <4>1
    <3>2. CASE j \in 1 .. i
      <4>1. j # 1 => j - 1 \in 1 .. i
        BY <2>1, <3>2
      <4>2. r[i][j] = Advance(IF j = 1 THEN Blank ELSE r[i][j - 1], Normalized(log[j]))
        BY <1>12, <3>2
      <4> QED
        BY <3>2, <2>5, <4>1, <4>2
    <3> QED
      BY <2>1, <3>1, <3>2
  <2>7. i + 1 \in 0 .. n
    BY <2>1
  <2> QED
    BY <2>5, <2>6, <2>7
<1>13. n \in K
  <2> HIDE DEF K, n
  <2>1. \A i \in 0 .. n : i \in K
    BY <1>1, <1>11, <1>12, UpTo
  <2> QED
    BY <1>1, <2>1
<1>14. r[n] = Snapshots(log)
  BY <1>1, <1>8 DEF r
<1> QED
  BY <1>13, <1>14

\* The events up to the i-th that count as a retry of a task of S.
Marks(log, i, S) == {j \in 1 .. i : log[j].task \in S /\ (Retries(log[j]) \/ log[j].says)}

LEMMA MarksAreFinite ==
  ASSUME NEW log, NEW i \in Nat, NEW S
  PROVE  IsFiniteSet(Marks(log, i, S)) /\ Cardinality(Marks(log, i, S)) \in Nat
PROOF
<1>1. IsFiniteSet(1 .. i) /\ Marks(log, i, S) \in SUBSET (1 .. i)
  BY FS_Interval DEF Marks
<1> QED
  BY <1>1, FS_Subset, FS_CardinalityType

LEMMA MarksGrow ==
  ASSUME NEW log, NEW i \in Nat, NEW S
  PROVE  Cardinality(Marks(log, i + 1, S)) =
           Cardinality(Marks(log, i, S))
           + IF log[i + 1].task \in S /\ (Retries(log[i + 1]) \/ log[i + 1].says) THEN 1 ELSE 0
PROOF
<1> DEFINE mark(j) == log[j].task \in S /\ (Retries(log[j]) \/ log[j].says)
<1>1. 1 .. i + 1 = (1 .. i) \cup {i + 1} /\ i + 1 \notin 1 .. i
  OBVIOUS
<1>2. \A n : Marks(log, n, S) = {j \in 1 .. n : mark(j)}
  BY DEF Marks
<1> HIDE DEF mark
<1>3. CASE mark(i + 1)
  <2>1. Marks(log, i + 1, S) = Marks(log, i, S) \cup {i + 1} /\ i + 1 \notin Marks(log, i, S)
    BY <1>1, <1>2, <1>3
  <2>2. Cardinality(Marks(log, i + 1, S)) = Cardinality(Marks(log, i, S)) + 1
    BY <2>1, MarksAreFinite, FS_AddElement
  <2> QED
    BY <1>3, <2>2 DEF mark
<1>4. CASE ~mark(i + 1)
  <2>1. Marks(log, i + 1, S) = Marks(log, i, S)
    BY <1>1, <1>2, <1>4
  <2>2. Cardinality(Marks(log, i, S)) \in Nat
    BY MarksAreFinite
  <2> QED
    BY <1>4, <2>1, <2>2 DEF mark
<1> QED
  BY <1>3, <1>4

\* The retries a snapshot tells of a task are those logged up to it.
LEMMA RetriesAreMarks ==
  ASSUME NEW log \in Seq(Event), NEW t \in TaskId, NEW k \in 1 .. Len(log)
  PROVE  Snapshots(log)[k].tasks[t].retries = Cardinality(Marks(log, k, {t}))
PROOF
<1> DEFINE n == Len(log)
           sofar(i) == IF i = 0 THEN 0 ELSE Snapshots(log)[i].tasks[t].retries
           K == {i \in 0 .. n : sofar(i) = Cardinality(Marks(log, i, {t}))}
<1>1. n \in Nat /\ \A i \in 1 .. n : log[i] \in Event
  OBVIOUS
<1>2. 0 \in K
  <2>1. Marks(log, 0, {t}) = {}
    BY DEF Marks
  <2>2. sofar(0) = 0 /\ 0 \in 0 .. n /\ Cardinality({}) = 0
    BY <1>1, FS_EmptySet
  <2> HIDE DEF sofar, n
  <2> QED
    BY <2>1, <2>2
<1>3. ASSUME NEW i \in 0 .. n - 1, i \in K PROVE i + 1 \in K
  <2>1. i \in Nat /\ i + 1 \in 1 .. n /\ i + 1 \in 0 .. n /\ i + 1 # 0 /\ (i + 1) - 1 = i /\ (i + 1 = 1 <=> i = 0)
    BY <1>1
  <2> DEFINE s == IF i + 1 = 1 THEN Blank ELSE Snapshots(log)[i]
             e == Normalized(log[i + 1])
  <2>2. Snapshots(log)[i + 1] = Advance(s, e)
    BY <2>1, SnapshotsGoOn
  <2>3. s.tasks[t].retries = sofar(i)
    BY <2>1 DEF Blank, NewTask
  <2>4. log[i + 1] \in Event /\ e.task = log[i + 1].task /\ e.type = log[i + 1].type /\ e.says = log[i + 1].says
    BY <1>1, <2>1, NormalizedTyped
  <2> HIDE DEF s, e, sofar
  <2>5. Advance(s, e).tasks[t].retries = sofar(i) + IF log[i + 1].task \in {t} /\ (Retries(log[i + 1]) \/ log[i + 1].says) THEN 1 ELSE 0
    <3>1. Advance(s, e).tasks[t] = IF e.task = t THEN NextTask(s.tasks[t], e) ELSE s.tasks[t]
      BY DEF Advance
    <3>2. NextTask(s.tasks[t], e).retries = sofar(i) + IF Retries(log[i + 1]) \/ log[i + 1].says THEN 1 ELSE 0
      BY <2>3, <2>4 DEF NextTask, Retries
    <3>3. sofar(i) \in Nat
      BY <1>3, <2>1, MarksAreFinite
    <3> QED
      BY <3>1, <3>2, <3>3, <2>3, <2>4
  <2>6. sofar(i + 1) = Cardinality(Marks(log, i + 1, {t}))
    BY <1>3, <2>1, <2>2, <2>5, MarksGrow DEF sofar
  <2> QED
    BY <2>1, <2>6
<1>4. \A i \in 0 .. n : i \in K
  <2> HIDE DEF K, n
  <2> QED
    BY <1>1, <1>2, <1>3, UpTo
<1>5. k \in 0 .. n /\ k # 0
  BY <1>1
<1>6. sofar(k) = Snapshots(log)[k].tasks[t].retries
  BY <1>5
<1> HIDE DEF sofar, n
<1> QED
  BY <1>4, <1>5, <1>6

LEMMA MarksSplit ==
  ASSUME NEW log, NEW i \in Nat, NEW S, NEW t \in S
  PROVE  Cardinality(Marks(log, i, S)) = Cardinality(Marks(log, i, S \ {t})) + Cardinality(Marks(log, i, {t}))
PROOF
<1>1. /\ Marks(log, i, S) = Marks(log, i, S \ {t}) \cup Marks(log, i, {t})
      /\ Marks(log, i, S \ {t}) \cap Marks(log, i, {t}) = {}
  BY DEF Marks
<1>2. Cardinality({}) = 0
  BY FS_EmptySet
<1> DEFINE a == Marks(log, i, S \ {t})
           b == Marks(log, i, {t})
<1>3. IsFiniteSet(a) /\ IsFiniteSet(b) /\ Cardinality(a) \in Nat /\ Cardinality(b) \in Nat
  BY MarksAreFinite
<1>4. Marks(log, i, S) = a \cup b /\ a \cap b = {}
  BY <1>1
<1> HIDE DEF a, b
<1>5. Cardinality(a \cup b) = Cardinality(a) + Cardinality(b) - Cardinality(a \cap b)
  BY <1>3, FS_Union
<1>6. Cardinality(a \cup b) = Cardinality(a) + Cardinality(b)
  <2>1. Cardinality(a \cup b) = Cardinality(a) + Cardinality(b) - 0
    BY <1>2, <1>4, <1>5
  <2>2. \A x, y \in Nat : x + y - 0 = x + y
    OBVIOUS
  <2> QED
    BY <1>3, <2>1, <2>2
<1> QED
  BY <1>4, <1>6 DEF a, b

\* The retries between two snapshots, task by task, are those logged between them.
LEMMA DeltaIsMarks ==
  ASSUME NEW log \in Seq(Event), NEW i \in 1 .. Len(log), NEW k \in 1 .. Len(log), IsFiniteSet(TaskId)
  PROVE  RetryDelta(Snapshots(log)[i], Snapshots(log)[k])
           = Cardinality(Marks(log, k, TaskId)) - Cardinality(Marks(log, i, TaskId))
PROOF
<1> DEFINE a == Snapshots(log)[i]
           b == Snapshots(log)[k]
           op(t, n) == n + b.tasks[t].retries - a.tasks[t].retries
           Turn(f) == [s \in SUBSET TaskId |->
                         IF s = {} THEN 0 ELSE op(CHOOSE x \in s : TRUE, f[s \ {CHOOSE x \in s : TRUE}])]
           iter == CHOOSE f : f = Turn(f)
           h == [s \in SUBSET TaskId |-> Cardinality(Marks(log, k, s)) - Cardinality(Marks(log, i, s))]
<1>1. i \in Nat /\ k \in Nat
  OBVIOUS
<1>2. h[{}] = 0
  <2>1. Marks(log, k, {}) = {} /\ Marks(log, i, {}) = {}
    BY DEF Marks
  <2>2. Cardinality({}) = 0 /\ 0 - 0 = 0
    BY FS_EmptySet
  <2>3. h[{}] = Cardinality(Marks(log, k, {})) - Cardinality(Marks(log, i, {}))
    OBVIOUS
  <2> HIDE DEF h
  <2> QED
    BY <2>1, <2>2, <2>3
<1>3. ASSUME NEW s \in SUBSET TaskId, NEW t \in s PROVE h[s] = op(t, h[s \ {t}])
  <2>1. a.tasks[t].retries = Cardinality(Marks(log, i, {t})) /\ b.tasks[t].retries = Cardinality(Marks(log, k, {t}))
    BY RetriesAreMarks
  <2>2. \A S : Cardinality(Marks(log, i, S)) \in Nat /\ Cardinality(Marks(log, k, S)) \in Nat
    BY <1>1, MarksAreFinite
  <2>3. /\ Cardinality(Marks(log, i, s)) = Cardinality(Marks(log, i, s \ {t})) + Cardinality(Marks(log, i, {t}))
        /\ Cardinality(Marks(log, k, s)) = Cardinality(Marks(log, k, s \ {t})) + Cardinality(Marks(log, k, {t}))
    BY <1>1, MarksSplit
  <2>4. h[s \ {t}] = Cardinality(Marks(log, k, s \ {t})) - Cardinality(Marks(log, i, s \ {t}))
    OBVIOUS
  <2>5. h[s] = Cardinality(Marks(log, k, s)) - Cardinality(Marks(log, i, s))
    OBVIOUS
  <2> HIDE DEF h, a, b
  <2> QED
    BY <2>1, <2>2, <2>3, <2>4, <2>5
<1>4. h = Turn(h)
  <2> HIDE DEF h, op
  <2> SUFFICES ASSUME NEW s \in SUBSET TaskId
               PROVE  h[s] = IF s = {} THEN 0 ELSE op(CHOOSE x \in s : TRUE, h[s \ {CHOOSE x \in s : TRUE}])
    BY DEF h
  <2>1. s # {} => (CHOOSE x \in s : TRUE) \in s
    OBVIOUS
  <2> QED
    BY <1>2, <1>3, <2>1
<1>5. iter = Turn(iter)
  <2> HIDE DEF Turn, h
  <2> QED
    BY <1>4
<1>6. RetryDelta(a, b) = iter[TaskId]
  BY DEF RetryDelta, FoldSet, MapThenFoldSet
<1> HIDE DEF iter, op, h, a, b
<1> DEFINE n == Cardinality(TaskId)
           K == {m \in 0 .. n : \A s \in SUBSET TaskId : Cardinality(s) <= m => iter[s] = h[s]}
<1>7. n \in Nat /\ \A s \in SUBSET TaskId : IsFiniteSet(s) /\ Cardinality(s) \in Nat
  BY FS_Subset, FS_CardinalityType
<1>8. 0 \in K
  <2>1. \A s \in SUBSET TaskId : Cardinality(s) <= 0 => s = {}
    BY <1>7, FS_EmptySet
  <2>2. iter[{}] = 0
    BY <1>5
  <2>3. 0 \in 0 .. n
    BY <1>7
  <2> HIDE DEF n
  <2> QED
    BY <1>2, <2>1, <2>2, <2>3
<1>9. ASSUME NEW m \in 0 .. n - 1, m \in K PROVE m + 1 \in K
  <2>1. ASSUME NEW s \in SUBSET TaskId, Cardinality(s) <= m + 1, s # {} PROVE iter[s] = h[s]
    <3> DEFINE x == CHOOSE x \in s : TRUE
    <3>1. x \in s
      BY <2>1
    <3>2. iter[s] = op(x, iter[s \ {x}])
      BY <1>5, <2>1
    <3> HIDE DEF x
    <3>3. s \ {x} \in SUBSET TaskId /\ Cardinality(s \ {x}) = Cardinality(s) - 1
      BY <1>7, <3>1, FS_RemoveElement
    <3>4. Cardinality(s \ {x}) <= m
      BY <1>7, <2>1, <3>3
    <3>5. iter[s \ {x}] = h[s \ {x}]
      BY <1>9, <3>3, <3>4
    <3> QED
      BY <1>3, <3>1, <3>2, <3>5
  <2>2. iter[{}] = h[{}]
    BY <1>2, <1>5
  <2>3. m + 1 \in 0 .. n
    BY <1>7
  <2> QED
    BY <2>1, <2>2, <2>3
<1>10. n \in K
  <2> HIDE DEF K, n
  <2>1. \A m \in 0 .. n : m \in K
    BY <1>7, <1>8, <1>9, UpTo
  <2> QED
    BY <1>7, <2>1
<1>11. iter[TaskId] = h[TaskId]
  BY <1>7, <1>10
<1>12. h[TaskId] = Cardinality(Marks(log, k, TaskId)) - Cardinality(Marks(log, i, TaskId))
  BY DEF h
<1> QED
  BY <1>6, <1>11, <1>12 DEF a, b

\* The difference that is shown is one of those computed for the replay at hand.
LEMMA ShownIsOfReplay ==
  ASSUME ConsoleInv, Comparing(replay)
  PROVE  /\ ShownDiff \in cache /\ ShownDiff.a = replay.a /\ ShownDiff.b = replay.b
         /\ ShownDiff.of = replay.of
PROOF
<1>1. \E d \in cache : d.a = replay.a /\ d.b = replay.b
  BY DEF ConsoleInv, CacheOK
<1>2. ShownDiff \in cache /\ ShownDiff.a = replay.a /\ ShownDiff.b = replay.b
  BY <1>1, Zenon DEF ShownDiff
<1> QED
  BY <1>2 DEF ConsoleInv, CacheOK

\* Of two snapshots of a replay, the retries told between them are those logged.
LEMMA ConsoleInvCompares == ASSUME ConsoleInv PROVE DiffIsTrue
PROOF
<1> SUFFICES ASSUME replay.mode, Comparing(replay)
             PROVE  LET log == Log[replay.of]
                        until(k) == Cardinality({j \in 1 .. k + 1 : log[j].task # None /\ (Retries(log[j]) \/ log[j].says)})
                        snaps == Snaps[replay.of]
                    IN /\ ShownDiff.of = replay.of
                       /\ Diff(snaps[replay.a + 1], snaps[replay.b + 1]).retries = until(replay.b) - until(replay.a)
  BY DEF DiffIsTrue
<1> DEFINE log == Log[replay.of]
           until(k) == Cardinality({j \in 1 .. k + 1 : log[j].task # None /\ (Retries(log[j]) \/ log[j].says)})
<1>1. /\ replay.of \in Pipeline /\ replay.n \in 1 .. recorded[replay.of]
      /\ recorded[replay.of] <= Len(log) /\ recorded[replay.of] \in Nat
      /\ replay.a \in -1 .. replay.n - 1 /\ replay.b \in -1 .. replay.n - 1 /\ replay.a # -1 /\ replay.b # -1
  BY DEF ConsoleInv, IInv, Typed, PositionsExist, Comparing
<1>2. log \in Seq(Event) /\ None \notin TaskId /\ IsFiniteSet(TaskId)
  BY <1>1, ConsoleAssumption DEF ConsoleAssumption
<1>3. replay.a + 1 \in 1 .. Len(log) /\ replay.b + 1 \in 1 .. Len(log)
  <2>1. Len(log) \in Nat
    BY <1>2
  <2> HIDE DEF log
  <2> QED
    BY <1>1, <2>1
<1>4. Snaps[replay.of] = Snapshots(log)
  BY <1>1 DEF Snaps
<1>5. ASSUME NEW k \in Int, k + 1 \in 1 .. Len(log) PROVE until(k) = Cardinality(Marks(log, k + 1, TaskId))
  <2>1. \A j \in 1 .. k + 1 : log[j] \in Event
    BY <1>2, <1>5
  <2>2. \A j \in 1 .. k + 1 : log[j].task # None <=> log[j].task \in TaskId
    BY <1>2, <2>1 DEF Event
  <2>3. {j \in 1 .. k + 1 : log[j].task # None /\ (Retries(log[j]) \/ log[j].says)} = Marks(log, k + 1, TaskId)
    BY <2>2 DEF Marks
  <2> QED
    BY <2>3
<1>6. /\ until(replay.a) = Cardinality(Marks(log, replay.a + 1, TaskId))
      /\ until(replay.b) = Cardinality(Marks(log, replay.b + 1, TaskId))
  <2>1. replay.a \in Int /\ replay.b \in Int
    BY <1>1
  <2> HIDE DEF until, log
  <2> QED
    BY <1>3, <1>5, <2>1
<1>7. RetryDelta(Snapshots(log)[replay.a + 1], Snapshots(log)[replay.b + 1])
        = Cardinality(Marks(log, replay.b + 1, TaskId)) - Cardinality(Marks(log, replay.a + 1, TaskId))
  <2> HIDE DEF log
  <2> QED
    BY <1>2, <1>3, DeltaIsMarks
<1>8. ShownDiff.of = replay.of
  BY ShownIsOfReplay
<1> HIDE DEF log, until
<1>9. Diff(Snaps[replay.of][replay.a + 1], Snaps[replay.of][replay.b + 1]).retries = until(replay.b) - until(replay.a)
  BY <1>4, <1>6, <1>7 DEF Diff
<1> QED
  BY <1>8, <1>9 DEF log, until

LEMMA ConsoleAlways == Spec => []ConsoleInv
PROOF
<1>1. Init => ConsoleInv
  BY ConsoleInit
<1>2. ConsoleInv /\ [Next]_vars => ConsoleInv'
  BY ConsoleNext
<1> QED
  BY <1>1, <1>2, PTL DEF Spec

\* The console's variables have their types, and its timeline is in order of time, within
\* its limit and holds no row twice, for any pipelines, logs and limit.
THEOREM ConsoleTypeCorrect == Spec => []TypeOK
PROOF
<1>1. ConsoleInv => TypeOK
  BY ConsoleInvGives
<1> QED
  BY <1>1, ConsoleAlways, PTL

\* Whatever answers come late and however the selection moves (Pipeline Switch Cleanup),
\* what is replayed is the selected pipeline, and its position and both compared snapshots
\* exist, for any logs: a jump to a time lands in the log by what its search finds.
THEOREM ReplayIsOfSelectedAlways == Spec => []ReplayIsOfSelected
PROOF
<1>1. ConsoleInv => ReplayIsOfSelected
  BY ConsoleInvGives
<1> QED
  BY <1>1, ConsoleAlways, PTL

\* However polls overlap and answers are reordered, the timeline has no gap
\* (mergeEvents), for any logs, number of polls and limit.
THEOREM NoGapsAlways == Spec => []NoGaps
PROOF
<1>1. ConsoleInv => NoGaps
  BY ConsoleInvGives
<1> QED
  BY <1>1, ConsoleAlways, PTL

\* A row leaves the timeline only when no pipeline is selected or later rows push it out.
THEOREM TimelineKeepsAlways == Spec => TimelineKeeps
PROOF
<1>1. ConsoleInv /\ [Next]_vars => [RowsStay]_vars
  BY ConsoleNext
<1>2. Spec => [][RowsStay]_vars
  BY <1>1, ConsoleAlways, PTL DEF Spec
<1> QED
  BY <1>2 DEF TimelineKeeps, RowsStay

\* handleJumpSubmit's binary search lands on the first event at or after the time, or on
\* the last one, in every replay of any log in order of time.
THEOREM JumpFindsAlways == Spec => []JumpFinds
PROOF
<1>1. ConsoleInv => JumpFinds
  BY ConsoleInvJumps
<1> QED
  BY <1>1, ConsoleAlways, PTL

\* The difference shown is of the replay at hand, though diffCacheRef is keyed by the two
\* positions alone and survives the steps of the replay.
THEOREM DifferenceIsOfReplay ==
  Spec => [](Comparing(replay) => /\ ShownDiff.of = replay.of
                                  /\ ShownDiff.a = replay.a /\ ShownDiff.b = replay.b)
PROOF
<1>1. ConsoleInv => (Comparing(replay) => /\ ShownDiff.of = replay.of
                                          /\ ShownDiff.a = replay.a /\ ShownDiff.b = replay.b)
  BY ShownIsOfReplay
<1> QED
  BY <1>1, ConsoleAlways, PTL

\* The difference shown of two moments of a replay counts the retries logged between them
\* (computeReplaySnapshots, the comparison), in any log.
THEOREM DifferenceIsTrueAlways == Spec => []DiffIsTrue
PROOF
<1>1. ConsoleInv => DiffIsTrue
  BY ConsoleInvCompares
<1> QED
  BY <1>1, ConsoleAlways, PTL
=============================================================================
