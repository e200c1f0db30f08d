------------------------- MODULE PipelinePagesProofs -------------------------
(* Proofs about the views of a pipeline beside its console, for any pipelines, *)
(* data and bounds, and then about the composition of them all.                *)
EXTENDS MCPipelinePages, PipelineConsoleProofs

----------------------------------------------------------------------------
(* The diagram (PipelineVisualizer.jsx).                                   *)

LEMMA DiagramStarts == ASSUME D!Init PROVE D!TypeOK
PROOF
<1>1. deps \subseteq {e \in D!Task \X D!Task : e[1] < e[2]}
  BY Zenon DEF D!Init
<1>2. drawn \in [D!Task -> D!Status]
  BY DEF D!Init, D!Status
<1> QED
  BY <1>1, <1>2 DEF D!Init, D!TypeOK

LEMMA DiagramStep == ASSUME D!TypeOK, [D!Next]_(D!vars) PROVE D!TypeOK'
PROOF
<1>1. /\ deps \subseteq {e \in D!Task \X D!Task : e[1] < e[2]}
      /\ drawn \in [D!Task -> D!Status] /\ hovered \in D!Task \cup {0}
      /\ picked \in {<<>>} \cup ({"stage"} \X D!Stage) \cup ({"task"} \X D!Task)
      /\ viewMode \in {"timeline", "graph"}
  BY DEF D!TypeOK
<1>2. {"pending", "running", "completed", "failed"} = D!Status
  BY DEF D!Status
<1>3. ASSUME NEW t \in D!Task, D!Refetched(t) \/ D!RetryTask(t) \/ D!Hover(t) PROVE D!TypeOK'
  <2>1. CASE D!Refetched(t)
    BY <1>1, <1>2, <2>1 DEF D!Refetched, D!TypeOK
  <2>2. CASE D!RetryTask(t)
    BY <1>1, <1>2, <2>2 DEF D!RetryTask, D!TypeOK
  <2>3. CASE D!Hover(t)
    BY <1>1, <2>3 DEF D!Hover, D!TypeOK
  <2> QED
    BY <1>3, <2>1, <2>2, <2>3
<1>4. ASSUME NEW item \in {<<>>} \cup ({"stage"} \X D!Stage) \cup ({"task"} \X D!Task), D!Pick(item)
      PROVE  D!TypeOK'
  BY <1>1, <1>4 DEF D!Pick, D!TypeOK
<1>5. ASSUME NEW m \in {"timeline", "graph"}, D!setViewMode(m) PROVE D!TypeOK'
  BY <1>1, <1>5 DEF D!setViewMode, D!TypeOK
<1>6. ASSUME UNCHANGED D!vars PROVE D!TypeOK'
  BY <1>1, <1>6 DEF D!vars, D!TypeOK
<1>7. /\ \A t \in D!Task : <<"task", t>> \in {"task"} \X D!Task
      /\ \A s \in D!Stage : <<"stage", s>> \in {"stage"} \X D!Stage
  OBVIOUS
<1> QED
  BY <1>3, <1>4, <1>5, <1>6, <1>7 DEF D!Next

LEMMA WordFacts == Len(Words) \in Nat /\ D!Task = 1 .. Len(Words) /\ IsFiniteSet(D!Task) /\ Cardinality(D!Task) = Len(Words)
PROOF
<1>1. Len(Words) \in Nat
  BY PartsAssumption DEF PartsAssumption, D!DiagramAssumption
<1> QED
  BY <1>1, CountedOnce DEF D!Task

\* A set has one number of elements in all modules.
LEMMA DiagramCount == ASSUME NEW C PROVE D!Cardinality(C) = Cardinality(C)
BY DEF D!Cardinality, Cardinality

\* Every task is of a stage, which is drawn.
LEMMA NodesAreTasks ==
  /\ DOMAIN D!STAGE_ORDER = 1 .. 8 /\ D!stagesData \in SUBSET (1 .. 8)
  /\ D!Nodes = D!Task
  /\ \A t \in D!Task : D!Place(t) \in D!stagesData /\ D!StageOf(t) = D!STAGE_ORDER[D!Place(t)]
PROOF
<1>1. DOMAIN D!STAGE_ORDER = 1 .. 8 /\ D!stagesData \in SUBSET (1 .. 8)
  BY DEF D!STAGE_ORDER, D!stagesData
<1>2. ASSUME NEW t \in D!Task PROVE \E i \in 1 .. 8 : D!STAGE_ORDER[i] = D!StageOf(t)
  <2> DEFINE found == {k \in DOMAIN D!StageWords : D!StageWords[k][1] \in Words[t]}
  <2>1. D!StageOf(t) = IF found = {} THEN "preprocessing" ELSE D!StageWords[Min(found)][2]
    BY DEF D!StageOf, D!Min, Min
  <2>2. DOMAIN D!StageWords = 1 .. 10
    BY DEF D!StageWords
  <2>3. CASE found = {}
    <3>1. D!STAGE_ORDER[1] = "preprocessing"
      BY DEF D!STAGE_ORDER
    <3> QED
      BY <2>1, <2>3, <3>1
  <2>4. CASE found # {}
    <3>1. Min(found) \in 1 .. 10
      <4>1. found \in SUBSET (1 .. 10) /\ found \in SUBSET Nat
        BY <2>2
      <4> HIDE DEF found
      <4> QED
        BY <2>4, <4>1, MinIsIn
    <3>2. \A k \in 1 .. 10 : D!StageWords[k][2] \in {"parsing", "persistence", "validation", "chunking", "embedding", "indexing", "summarization"}
      BY DEF D!StageWords
    <3>3. \A s \in {"parsing", "persistence", "validation", "chunking", "embedding", "indexing", "summarization"} :
            \E i \in 1 .. 8 : D!STAGE_ORDER[i] = s
      <4>1. /\ D!STAGE_ORDER[2] = "parsing" /\ D!STAGE_ORDER[3] = "persistence" /\ D!STAGE_ORDER[4] = "validation"
            /\ D!STAGE_ORDER[5] = "chunking" /\ D!STAGE_ORDER[6] = "embedding" /\ D!STAGE_ORDER[7] = "indexing"
            /\ D!STAGE_ORDER[8] = "summarization"
        BY DEF D!STAGE_ORDER
      <4> QED
        BY <4>1
    <3> HIDE DEF found
    <3> QED
      BY <2>1, <2>4, <3>1, <3>2, <3>3
  <2> QED
    BY <2>3, <2>4
<1>3. ASSUME NEW t \in D!Task PROVE \E i \in D!stagesData : t \in D!TasksOf(D!STAGE_ORDER[i])
  BY <1>1, <1>2 DEF D!stagesData, D!TasksOf
<1>4. ASSUME NEW t \in D!Task PROVE D!Place(t) \in D!stagesData /\ t \in D!TasksOf(D!STAGE_ORDER[D!Place(t)])
  <2>1. D!Place(t) \in 1 .. 8 /\ D!STAGE_ORDER[D!Place(t)] = D!StageOf(t)
    BY <1>1, <1>2 DEF D!Place
  <2> QED
    BY <1>1, <2>1 DEF D!stagesData, D!TasksOf
<1> QED
  BY <1>1, <1>3, <1>4 DEF D!Nodes, D!TasksOf

\* The nodes are the tasks, each once.
LEMMA NodesInOrder ==
  /\ DOMAIN D!initialNodes = 1 .. Len(Words)
  /\ \A k \in 1 .. Len(Words) : D!initialNodes[k] \in D!Task
  /\ \A t \in D!Task : \E k \in 1 .. Len(Words) : D!initialNodes[k] = t
PROOF
<1> DEFINE rows == [t \in D!Task |-> [time |-> D!Place(t)]]
           n == Len(Words)
<1>1. n \in Nat /\ D!Task = 1 .. n /\ IsFiniteSet(D!Task) /\ Cardinality(D!Task) = n /\ D!Nodes = D!Task
  BY WordFacts, NodesAreTasks
<1>2. ASSUME NEW t \in D!Task PROVE rows[t].time = D!Place(t) /\ D!Place(t) \in Nat
  <2>1. D!Place(t) \in 1 .. 8
    BY NodesAreTasks
  <2> QED
    BY <2>1
<1>3. D!Task \in SUBSET Nat
  BY <1>1
<1>4. ASSUME NEW t \in D!Task PROVE Ahead(rows, D!Task, t) = {u \in D!Nodes : D!Before(u, t)}
  <2> HIDE DEF rows
  <2> QED
    BY <1>1, <1>2 DEF Ahead, D!Before
<1> HIDE DEF rows, n
<1> DEFINE rank(t) == Cardinality(Ahead(rows, D!Task, t))
<1>5. /\ \A t \in D!Task : rank(t) \in 0 .. n - 1
      /\ \A t, u \in D!Task : u \in Ahead(rows, D!Task, t) => rank(u) < rank(t)
      /\ \A k \in 1 .. n : \E t \in D!Task : rank(t) = k - 1
  BY <1>1, <1>2, <1>3, RanksAreOnce
<1>6. ASSUME NEW t \in D!Task, NEW u \in D!Task, t # u PROVE rank(t) # rank(u)
  <2>1. t \in Ahead(rows, D!Task, u) \/ u \in Ahead(rows, D!Task, t)
    BY <1>2, <1>3, <1>6 DEF Ahead
  <2> HIDE DEF rank
  <2> QED
    BY <1>5, <2>1
<1>7. ASSUME NEW t \in D!Task PROVE D!Cardinality({u \in D!Nodes : D!Before(u, t)}) = rank(t)
  BY <1>4, DiagramCount
<1>8. DOMAIN D!initialNodes = 1 .. n /\ \A k \in 1 .. n : D!initialNodes[k] \in D!Task /\ rank(D!initialNodes[k]) = k - 1
  <2> DEFINE at(t) == D!Cardinality({u \in D!Nodes : D!Before(u, t)})
  <2>1. D!Cardinality(D!Nodes) = n
    BY <1>1, DiagramCount
  <2>2. D!initialNodes = [k \in 1 .. D!Cardinality(D!Nodes) |-> CHOOSE t \in D!Nodes : at(t) = k - 1]
    BY DEF D!initialNodes
  <2>3. \A t \in D!Task : at(t) = rank(t)
    BY <1>7
  <2> HIDE DEF at, rank
  <2>4. ASSUME NEW k \in 1 .. n PROVE \E t \in D!Nodes : at(t) = k - 1
    BY <1>1, <1>5, <2>3
  <2>5. ASSUME NEW k \in 1 .. n PROVE D!initialNodes[k] \in D!Nodes /\ at(D!initialNodes[k]) = k - 1
    BY <2>1, <2>2, <2>4
  <2>6. DOMAIN D!initialNodes = 1 .. n
    BY <2>1, <2>2
  <2> QED
    BY <1>1, <2>3, <2>5, <2>6
<1> HIDE DEF rank
<1>9. ASSUME NEW t \in D!Task PROVE \E k \in 1 .. n : D!initialNodes[k] = t
  <2>1. rank(t) + 1 \in 1 .. n /\ (rank(t) + 1) - 1 = rank(t)
    BY <1>1, <1>5
  <2>2. rank(D!initialNodes[rank(t) + 1]) = rank(t) /\ D!initialNodes[rank(t) + 1] \in D!Task
    BY <1>8, <2>1
  <2> QED
    BY <1>6, <2>1, <2>2
<1> QED
  BY <1>8, <1>9 DEF n

\* A rounded percentage is 100 of fewer than 200 only if nothing is missing.
LEMMA HundredIsAll ==
  ASSUME NEW c \in Nat, NEW n \in 1 .. 199, c <= n
  PROVE  (c * 200 + n) \div (2 * n) = 100 <=> c = n
PROOF
<1> DEFINE d == 2 * n
           q == (c * 200 + n) \div d
<1>1. d \in Nat \ {0} /\ c * 200 + n \in Nat
  OBVIOUS
<1>2. q \in Int /\ d * q <= c * 200 + n /\ c * 200 + n < d * (q + 1)
  <2> DEFINE x == c * 200 + n
  <2>1. x \in Nat /\ d \in Nat \ {0}
    BY <1>1
  <2> HIDE DEF x, d
  <2>2. x \div d \in Int /\ d * (x \div d) <= x /\ x < d * ((x \div d) + 1)
    BY <2>1
  <2> QED
    BY <2>2 DEF x
<1>3. ASSUME c = n PROVE q = 100
  <2> QED
    BY <1>1, <1>2, <1>3
<1>4. ASSUME q = 100 PROVE c = n
  <2>1. 2 * n * 100 <= c * 200 + n
    BY <1>2, <1>4
  <2> QED
    BY <2>1
<1> QED
  BY <1>3, <1>4

\* A stage is completed if and only if its tasks are, and it has some.
LEMMA StageIsCompleted ==
  ASSUME NEW s
  PROVE  D!StageStatus(s) = "completed"
           <=> D!TasksOf(s) # {} /\ \A t \in D!TasksOf(s) : drawn[t] = "completed"
PROOF
<1> DEFINE states == {drawn[t] : t \in D!TasksOf(s)}
<1>1. D!StageStatus(s) = CASE "failed" \in states -> "failed"
                           [] "failed" \notin states /\ "running" \in states -> "running"
                           [] states = {"completed"} -> "completed"
                           [] OTHER -> "queued"
  BY DEF D!StageStatus
<1>2. states = {"completed"} <=> D!TasksOf(s) # {} /\ \A t \in D!TasksOf(s) : drawn[t] = "completed"
  OBVIOUS
<1> HIDE DEF states
<1>3. "failed" # "completed" /\ "running" # "completed" /\ "queued" # "completed"
  OBVIOUS
<1>4. CASE states = {"completed"}
  <2>1. "failed" \notin states /\ "running" \notin states
    BY <1>4
  <2> QED
    BY <1>1, <1>2, <1>4, <2>1
<1>5. CASE states # {"completed"}
  <2>1. D!StageStatus(s) \in {"failed", "running", "queued"}
    BY <1>1, <1>5
  <2> QED
    BY <1>2, <1>5, <2>1
<1> QED
  BY <1>4, <1>5

\* All the tasks are completed, or the percentage is less than 100.
LEMMA ProgressIsOfAll ==
  ASSUME Len(Words) \in 1 .. 199
  PROVE  D!overallProgress = 100 <=> \A t \in D!Task : drawn[t] = "completed"
PROOF
<1> DEFINE done == {t \in D!Task : drawn[t] = "completed"}
           n == Len(Words)
<1>1. n \in Nat /\ n \in 1 .. 199 /\ IsFiniteSet(D!Task) /\ Cardinality(D!Task) = n
  BY WordFacts
<1>2. done \in SUBSET D!Task
  OBVIOUS
<1>3. Cardinality(done) \in Nat /\ Cardinality(done) <= n /\ (Cardinality(done) = n => done = D!Task)
  <2> HIDE DEF done
  <2> QED
    BY <1>1, <1>2, FS_Subset, FS_CardinalityType
<1>4. D!overallProgress = (Cardinality(done) * 200 + n) \div (2 * n)
  BY <1>1, DiagramCount DEF D!overallProgress
<1>5. D!overallProgress = 100 <=> Cardinality(done) = n
  <2> HIDE DEF done, n
  <2> QED
    BY <1>1, <1>3, <1>4, HundredIsAll
<1>6. D!overallProgress = 100 <=> done = D!Task
  <2> HIDE DEF done, n
  <2> QED
    BY <1>1, <1>3, <1>5
<1> QED
  BY <1>6

\* The bar, the stages and the graph say the same.
LEMMA ProgressIsTold == D!ProgressAgrees
PROOF
<1> SUFFICES ASSUME Len(Words) \in 1 .. 199
             PROVE  LET done == D!overallProgress = 100 IN
                      /\ done = (\A i \in D!stagesData : D!StageStatus(D!STAGE_ORDER[i]) = "completed")
                      /\ done = (\A t \in D!Range(D!initialNodes) : D!Border(t) = "green")
                      /\ done => D!StageStatus(D!activeStage) = "completed"
  BY DEF D!ProgressAgrees
<1> DEFINE all == \A t \in D!Task : drawn[t] = "completed"
           staged == \A i \in D!stagesData : D!StageStatus(D!STAGE_ORDER[i]) = "completed"
           green == \A t \in D!Range(D!initialNodes) : D!Border(t) = "green"
<1>1. D!overallProgress = 100 <=> all
  BY ProgressIsOfAll
<1>2. staged <=> all
  <2>1. ASSUME all, NEW i \in D!stagesData PROVE D!StageStatus(D!STAGE_ORDER[i]) = "completed"
    <3>1. D!TasksOf(D!STAGE_ORDER[i]) # {} /\ D!TasksOf(D!STAGE_ORDER[i]) \in SUBSET D!Task
      BY DEF D!stagesData, D!TasksOf
    <3> QED
      BY <2>1, <3>1, StageIsCompleted
  <2>2. ASSUME staged, NEW t \in D!Task PROVE drawn[t] = "completed"
    <3>1. t \in D!TasksOf(D!STAGE_ORDER[D!Place(t)]) /\ D!Place(t) \in D!stagesData
      BY NodesAreTasks DEF D!TasksOf
    <3> QED
      BY <2>2, <3>1, StageIsCompleted
  <2> QED
    BY <2>1, <2>2
<1>3. D!Range(D!initialNodes) = D!Task
  BY WordFacts, NodesInOrder DEF D!Range
<1>4. \A t : D!Border(t) = "green" <=> drawn[t] = "completed"
  BY DEF D!Border
<1>5. green <=> all
  BY <1>3, <1>4
<1>6. ASSUME staged PROVE D!StageStatus(D!activeStage) = "completed"
  <2>1. D!stagesData \in SUBSET (1 .. 8) /\ D!stagesData # {}
    <3>1. 1 \in D!Task
      BY WordFacts
    <3> QED
      BY <3>1, NodesAreTasks
  <2>2. {i \in D!stagesData : D!StageStatus(D!STAGE_ORDER[i]) = "running"} = {}
    BY <1>6
  <2>3. D!activeStage = D!STAGE_ORDER[Max(D!stagesData)]
    BY <2>2 DEF D!activeStage, D!Max, Max
  <2>4. Max(D!stagesData) \in D!stagesData
    BY <2>1, MaxIsIn
  <2> QED
    BY <1>6, <2>3, <2>4
<1> HIDE DEF all, staged, green
<1> QED
  BY <1>1, <1>2, <1>5, <1>6, Zenon DEF staged, green

Linked(edges, S) == \A e \in edges : e[1] \in S => e[2] \in S
Backed(edges, S) == \A e \in edges : e[2] \in S => e[1] \in S

\* What an edge adds to the tasks found.
Over(f, e) == [down |-> IF e[1] \in f.down THEN f.down \cup {e[2]} ELSE f.down,
               up   |-> IF e[2] \in f.up THEN f.up \cup {e[1]} ELSE f.up]

\* The graph's edges are between tasks, in a sequence that has each of them.
LEMMA EdgesListed ==
  ASSUME D!TypeOK
  PROVE  /\ D!initialEdges \in SUBSET (D!Task \X D!Task)
         /\ \E n \in Nat : \E list \in [1 .. n -> D!initialEdges] :
              /\ D!SetToSeq(D!initialEdges) = list
              /\ \A e \in D!initialEdges : \E i \in 1 .. n : list[i] = e
PROOF
<1> DEFINE edges == D!initialEdges
           n == Cardinality(edges)
           list == D!SetToSeq(edges)
<1>1. edges \in SUBSET (D!Task \X D!Task)
  <2>1. CASE deps # {}
    BY <2>1 DEF D!TypeOK, D!initialEdges
  <2>2. CASE deps = {}
    <3>1. Len(D!initialNodes) = Len(Words)
      BY WordFacts, NodesInOrder
    <3>2. edges = {<<D!initialNodes[i], D!initialNodes[i + 1]>> : i \in 1 .. Len(Words) - 1}
      BY <2>2, <3>1 DEF D!initialEdges
    <3>3. \A i \in 1 .. Len(Words) - 1 : i \in 1 .. Len(Words) /\ i + 1 \in 1 .. Len(Words)
      BY WordFacts
    <3> QED
      BY <3>2, <3>3, NodesInOrder
  <2> QED
    BY <2>1, <2>2
<1>2. IsFiniteSet(edges) /\ n \in Nat
  <2>1. IsFiniteSet(D!Task \X D!Task)
    BY WordFacts, FS_Product
  <2> QED
    BY <1>1, <2>1, FS_Subset, FS_CardinalityType
<1>3. PICK f \in [1 .. n -> edges] : \A i, j \in 1 .. n : f[i] = f[j] => i = j
  <2>1. ExistsBijection(1 .. n, edges)
    BY <1>2, FS_CardinalityType
  <2>2. PICK g : g \in Bijection(1 .. n, edges)
    BY <2>1, Fun_ExistsBij
  <2> HIDE DEF n, edges
  <2>3. g \in [1 .. n -> edges] /\ \A i, j \in 1 .. n : g[i] = g[j] => i = j
    BY <2>2, Fun_BijectionProperties
  <2> QED
    BY <2>3
<1>4. list \in [1 .. n -> edges] /\ \A i, j \in 1 .. n : list[i] = list[j] => i = j
  <2>1. list = CHOOSE g \in [1 .. n -> edges] : \A i, j \in DOMAIN g : g[i] = g[j] => i = j
    BY DiagramCount DEF D!SetToSeq, D!IsInjective
  <2> HIDE DEF n, edges, list
  <2>2. \A i, j \in DOMAIN f : f[i] = f[j] => i = j
    BY <1>3
  <2>3. list \in [1 .. n -> edges] /\ \A i, j \in DOMAIN list : list[i] = list[j] => i = j
    BY <2>1, <2>2
  <2> QED
    BY <2>3
<1>5. \A e \in edges : \E i \in 1 .. n : list[i] = e
  <2> HIDE DEF n, edges, list
  <2>1. IsFiniteSet(1 .. n) /\ Cardinality(1 .. n) = n
    BY <1>2, CountedOnce
  <2>2. list \in Injection(1 .. n, edges)
    BY <1>4, Fun_IsInj
  <2>3. list \in Surjection(1 .. n, edges)
    BY <1>2, <2>1, <2>2, FS_Injection DEF n
  <2> QED
    BY <2>3 DEF Surjection
<1> QED
  BY <1>1, <1>2, <1>4, <1>5

LEMMA OverIsFound ==
  ASSUME NEW f \in D!Found, NEW e \in D!Task \X D!Task
  PROVE  /\ Over(f, e) \in D!Found
         /\ Over(f, e) = [f EXCEPT !.down = IF e[1] \in f.down THEN @ \cup {e[2]} ELSE @,
                                   !.up   = IF e[2] \in f.up THEN @ \cup {e[1]} ELSE @]
PROOF
<1>1. /\ e[1] \in D!Task /\ e[2] \in D!Task
      /\ f.down \in SUBSET D!Task /\ f.up \in SUBSET D!Task /\ f = [down |-> f.down, up |-> f.up]
  BY DEF D!Found
<1>2. Over(f, e) \in D!Found
  <2>1. (IF e[1] \in f.down THEN f.down \cup {e[2]} ELSE f.down) \in SUBSET D!Task
    BY <1>1
  <2>2. (IF e[2] \in f.up THEN f.up \cup {e[1]} ELSE f.up) \in SUBSET D!Task
    BY <1>1
  <2> QED
    BY <2>1, <2>2 DEF D!Found, Over
<1>3. ASSUME NEW x \in SUBSET D!Task, NEW y \in SUBSET D!Task
      PROVE  [f EXCEPT !.down = x, !.up = y] = [down |-> x, up |-> y]
  <2> DEFINE g == [f EXCEPT !.down = x, !.up = y]
  <2>1. g \in D!Found /\ g.down = x /\ g.up = y
    BY DEF D!Found
  <2>2. \A q \in D!Found : q = [down |-> q.down, up |-> q.up]
    BY DEF D!Found
  <2> HIDE DEF g
  <2>3. g = [down |-> x, up |-> y]
    BY <2>1, <2>2
  <2> QED
    BY <2>3 DEF g
<1> DEFINE x == IF e[1] \in f.down THEN f.down \cup {e[2]} ELSE f.down
           y == IF e[2] \in f.up THEN f.up \cup {e[1]} ELSE f.up
<1>4. x \in SUBSET D!Task /\ y \in SUBSET D!Task
  BY <1>1
<1>5. Over(f, e) = [down |-> x, up |-> y]
  BY DEF Over
<1> HIDE DEF x, y
<1>6. [f EXCEPT !.down = x, !.up = y] = Over(f, e)
  BY <1>3, <1>4, <1>5
<1> QED
  BY <1>2, <1>6 DEF x, y

\* A pass goes from edge to edge.
GoesOver(found, n, list, r) ==
  /\ \A e \in D!initialEdges : \E i \in 1 .. n : list[i] = e
  /\ r[0] = found /\ r[n] = D!Pass(found)
  /\ \A i \in 0 .. n : r[i] \in D!Found
  /\ \A i \in 0 .. n - 1 : r[i + 1] = Over(r[i], list[i + 1])

LEMMA PassGoesOn ==
  ASSUME D!TypeOK, NEW found \in D!Found
  PROVE  \E n \in Nat : \E list \in [1 .. n -> D!initialEdges] : \E r : GoesOver(found, n, list, r)
PROOF
<1>1. PICK n \in Nat : \E list \in [1 .. n -> D!initialEdges] :
        /\ D!SetToSeq(D!initialEdges) = list
        /\ \A e \in D!initialEdges : \E i \in 1 .. n : list[i] = e
  BY EdgesListed
<1>2. PICK list \in [1 .. n -> D!initialEdges] :
        /\ D!SetToSeq(D!initialEdges) = list
        /\ \A e \in D!initialEdges : \E i \in 1 .. n : list[i] = e
  BY <1>1
<1>3. \A i \in 1 .. n : list[i] \in D!Task \X D!Task
  BY EdgesListed
<1> DEFINE op(f, e) == [f EXCEPT !.down = IF e[1] \in f.down THEN @ \cup {e[2]} ELSE @,
                                 !.up   = IF e[2] \in f.up THEN @ \cup {e[1]} ELSE @]
           F == [i \in 1 .. n |-> [f \in D!Found |-> op(f, list[i])]]
           Turn(g) == [s \in SUBSET (DOMAIN list) |->
                         IF s = {} THEN found ELSE op(g[s \ {D!Max(s)}], list[D!Max(s)])]
           iter == CHOOSE g : g = Turn(g)
<1>4. D!Pass(found) = iter[DOMAIN list]
  BY <1>2 DEF D!Pass, D!FoldLeft, D!MapThenFoldSet
<1>5. \A f \in D!Found : \A i \in 1 .. n : op(f, list[i]) = Over(f, list[i]) /\ op(f, list[i]) \in D!Found
  <2> SUFFICES ASSUME NEW f \in D!Found, NEW i \in 1 .. n
               PROVE  op(f, list[i]) = Over(f, list[i]) /\ op(f, list[i]) \in D!Found
    OBVIOUS
  <2> QED
    BY <1>3, OverIsFound
<1> HIDE DEF op
<1>6. PICK h \in [SUBSET (1 .. n) -> D!Found] :
        \A s \in SUBSET (1 .. n) : h[s] = IF s = {} THEN found ELSE F[Max(s)][h[s \ {Max(s)}]]
  <2>1. F \in [1 .. n -> [D!Found -> D!Found]]
    BY <1>5
  <2> HIDE DEF F
  <2>2. HasChain(n, D!Found, found, F)
    BY <2>1, ChainExists
  <2> QED
    BY <2>2 DEF HasChain
<1>7. ASSUME NEW s \in SUBSET (1 .. n), s # {} PROVE Max(s) \in s
  BY <1>7, MaxIsIn
<1>8. \A s : D!Max(s) = Max(s)
  BY DEF D!Max, Max
<1>9. h = Turn(h)
  <2> SUFFICES ASSUME NEW s \in SUBSET (1 .. n)
               PROVE  h[s] = IF s = {} THEN found ELSE op(h[s \ {D!Max(s)}], list[D!Max(s)])
    OBVIOUS
  <2>1. s # {} => h[s \ {Max(s)}] \in D!Found /\ Max(s) \in 1 .. n
    BY <1>7
  <2> QED
    BY <1>6, <1>8, <2>1
<1>10. iter = Turn(iter)
  <2> HIDE DEF Turn
  <2> QED
    BY <1>9
<1> HIDE DEF iter
<1> DEFINE r == [i \in 0 .. n |-> iter[1 .. i]]
<1>11. r[0] = found
  <2>1. 1 .. 0 = {} /\ 0 \in 0 .. n
    OBVIOUS
  <2>2. iter[{}] = found
    BY <1>10
  <2> QED
    BY <2>1, <2>2
<1>12. ASSUME NEW i \in 0 .. n - 1 PROVE r[i + 1] = op(r[i], list[i + 1])
  <2>1. i \in Nat /\ 1 .. i + 1 \in SUBSET (1 .. n) /\ 1 .. i + 1 # {} /\ i \in 0 .. n /\ i + 1 \in 0 .. n
    BY PrefixFacts
  <2>2. Max(1 .. i + 1) = i + 1 /\ (1 .. i + 1) \ {i + 1} = 1 .. i
    BY PrefixFacts
  <2>3. iter[1 .. i + 1] = op(iter[1 .. i], list[i + 1])
    BY <1>8, <1>10, <2>1, <2>2
  <2> QED
    BY <2>1, <2>3
<1>13. r[n] = D!Pass(found)
  BY <1>4
<1> HIDE DEF r
<1>14. \A i \in 0 .. n : r[i] \in D!Found
  <2> DEFINE K == {i \in 0 .. n : r[i] \in D!Found}
  <2>1. 0 \in K
    BY <1>11
  <2>2. ASSUME NEW i \in 0 .. n - 1, i \in K PROVE i + 1 \in K
    <3>1. r[i] \in D!Found /\ i + 1 \in 1 .. n /\ i + 1 \in 0 .. n
      BY <2>2
    <3> QED
      BY <3>1, <1>5, <1>12
  <2> HIDE DEF K
  <2>3. \A i \in 0 .. n : i \in K
    BY <2>1, <2>2, UpTo
  <2> QED
    BY <2>3 DEF K
<1>15. \A i \in 0 .. n - 1 : r[i + 1] = Over(r[i], list[i + 1])
  <2> SUFFICES ASSUME NEW i \in 0 .. n - 1 PROVE r[i + 1] = Over(r[i], list[i + 1])
    OBVIOUS
  <2>1. i \in 0 .. n /\ i + 1 \in 1 .. n
    OBVIOUS
  <2> QED
    BY <1>5, <1>12, <1>14, <2>1
<1> QED
  <2>1. GoesOver(found, n, list, r)
    BY <1>2, <1>11, <1>13, <1>14, <1>15 DEF GoesOver
  <2> QED
    BY <2>1

\* A pass finds the neighbours of what was found, and nothing outside of any set that has
\* the neighbours of its members.
LEMMA PassFacts ==
  ASSUME D!TypeOK, NEW found \in D!Found
  PROVE  /\ D!Pass(found) \in D!Found
         /\ found.down \subseteq D!Pass(found).down /\ found.up \subseteq D!Pass(found).up
         /\ \A e \in D!initialEdges : /\ e[1] \in found.down => e[2] \in D!Pass(found).down
                                      /\ e[2] \in found.up => e[1] \in D!Pass(found).up
         /\ \A S : found.down \subseteq S /\ Linked(D!initialEdges, S) => D!Pass(found).down \subseteq S
         /\ \A S : found.up \subseteq S /\ Backed(D!initialEdges, S) => D!Pass(found).up \subseteq S
PROOF
<1> DEFINE edges == D!initialEdges
<1>1a. PICK n \in Nat : \E list \in [1 .. n -> edges] : \E r : GoesOver(found, n, list, r)
  BY PassGoesOn
<1>1b. PICK list \in [1 .. n -> edges] : \E r : GoesOver(found, n, list, r)
  BY <1>1a
<1>1c. PICK r : GoesOver(found, n, list, r)
  BY <1>1b
<1>2. /\ \A e \in edges : \E i \in 1 .. n : list[i] = e
      /\ r[0] = found /\ r[n] = D!Pass(found)
      /\ \A i \in 0 .. n : r[i] \in D!Found
      /\ \A i \in 0 .. n - 1 : r[i + 1] = Over(r[i], list[i + 1])
  BY <1>1c DEF GoesOver
<1> HIDE DEF edges
<1> DEFINE Covers(i) == \A j \in 1 .. i : /\ list[j][1] \in found.down => list[j][2] \in r[i].down
                                          /\ list[j][2] \in found.up => list[j][1] \in r[i].up
           Grown(i) == found.down \subseteq r[i].down /\ found.up \subseteq r[i].up
           InsideDown(i) == \A S : found.down \subseteq S /\ Linked(edges, S) => r[i].down \subseteq S
           InsideUp(i) == \A S : found.up \subseteq S /\ Backed(edges, S) => r[i].up \subseteq S
           K == {i \in 0 .. n : Covers(i) /\ Grown(i) /\ InsideDown(i) /\ InsideUp(i)}
<1>3. 0 \in K
  <2>1. Covers(0) /\ Grown(0) /\ InsideDown(0) /\ InsideUp(0)
    BY <1>2
  <2> HIDE DEF Covers, Grown, InsideDown, InsideUp
  <2> QED
    BY <2>1
<1>4. ASSUME NEW i \in 0 .. n - 1, i \in K PROVE i + 1 \in K
  <2> DEFINE e == list[i + 1]
  <2>1. i \in Nat /\ i + 1 \in 1 .. n /\ i + 1 \in 0 .. n /\ i \in 0 .. n
    OBVIOUS
  <2>2. e \in edges
    BY <2>1
  <2>3. /\ r[i + 1].down = (IF e[1] \in r[i].down THEN r[i].down \cup {e[2]} ELSE r[i].down)
        /\ r[i + 1].up = (IF e[2] \in r[i].up THEN r[i].up \cup {e[1]} ELSE r[i].up)
    <3>1. r[i + 1] = Over(r[i], e)
      BY <1>2
    <3> HIDE DEF e
    <3> QED
      BY <3>1 DEF Over
  <2>4. Covers(i) /\ Grown(i) /\ InsideDown(i) /\ InsideUp(i)
    BY <1>4
  <2>5. Grown(i + 1)
    BY <2>3, <2>4
  <2>6. Covers(i + 1)
    <3> SUFFICES ASSUME NEW j \in 1 .. i + 1
                 PROVE  /\ list[j][1] \in found.down => list[j][2] \in r[i + 1].down
                        /\ list[j][2] \in found.up => list[j][1] \in r[i + 1].up
      OBVIOUS
    <3>1. CASE j = i + 1
      BY <2>3, <2>4, <3>1
    <3>2. CASE j \in 1 .. i
      BY <2>3, <2>4, <3>2
    <3> QED
      BY <2>1, <3>1, <3>2
  <2>7. InsideDown(i + 1)
    <3> SUFFICES ASSUME NEW S, found.down \subseteq S, Linked(edges, S) PROVE r[i + 1].down \subseteq S
      OBVIOUS
    <3>1. r[i].down \subseteq S
      BY <2>4
    <3>2. e[1] \in S => e[2] \in S
      BY <2>2 DEF Linked
    <3> HIDE DEF e
    <3> QED
      BY <2>3, <3>1, <3>2
  <2>8. InsideUp(i + 1)
    <3> SUFFICES ASSUME NEW S, found.up \subseteq S, Backed(edges, S) PROVE r[i + 1].up \subseteq S
      OBVIOUS
    <3>1. r[i].up \subseteq S
      BY <2>4
    <3>2. e[2] \in S => e[1] \in S
      BY <2>2 DEF Backed
    <3> HIDE DEF e
    <3> QED
      BY <2>3, <3>1, <3>2
  <2> HIDE DEF Covers, Grown, InsideDown, InsideUp
  <2> QED
    BY <2>1, <2>5, <2>6, <2>7, <2>8
<1>5. n \in K
  <2> HIDE DEF K
  <2>1. \A i \in 0 .. n : i \in K
    BY <1>3, <1>4, UpTo
  <2> QED
    BY <2>1
<1>6. Covers(n) /\ Grown(n) /\ InsideDown(n) /\ InsideUp(n) /\ r[n] \in D!Found
  BY <1>2, <1>5
<1> QED
  BY <1>2, <1>6 DEF edges

\* The smallest sets around what was found that have the neighbours of their members.
LeastDown(edges, D0) == {u \in D!Task : \A S \in SUBSET D!Task : D0 \subseteq S /\ Linked(edges, S) => u \in S}
LeastUp(edges, U0)   == {u \in D!Task : \A S \in SUBSET D!Task : U0 \subseteq S /\ Backed(edges, S) => u \in S}
Least(edges, found)  == [down |-> LeastDown(edges, found.down), up |-> LeastUp(edges, found.up)]

\* A pass leaves the smallest sets as they are, and ends at them.
LEMMA PassKeepsLeast ==
  ASSUME D!TypeOK, NEW found \in D!Found
  PROVE  /\ Least(D!initialEdges, found) \in D!Found
         /\ Least(D!initialEdges, D!Pass(found)) = Least(D!initialEdges, found)
         /\ D!Pass(found) = found => Least(D!initialEdges, found) = found
PROOF
<1> DEFINE edges == D!initialEdges
           next == D!Pass(found)
<1>1. /\ found.down \in SUBSET D!Task /\ found.up \in SUBSET D!Task
      /\ found = [down |-> found.down, up |-> found.up]
  BY DEF D!Found
<1>2. /\ found.down \subseteq next.down /\ found.up \subseteq next.up
      /\ \A S : found.down \subseteq S /\ Linked(edges, S) => next.down \subseteq S
      /\ \A S : found.up \subseteq S /\ Backed(edges, S) => next.up \subseteq S
  BY PassFacts
<1>2e. \A e \in edges : /\ e[1] \in found.down => e[2] \in next.down
                        /\ e[2] \in found.up => e[1] \in next.up
  BY PassFacts
<1> HIDE DEF edges, next
<1>3. Least(edges, found) \in D!Found
  BY DEF Least, LeastDown, LeastUp, D!Found
<1>4. LeastDown(edges, next.down) = LeastDown(edges, found.down)
  <2>1. \A S \in SUBSET D!Task : (next.down \subseteq S /\ Linked(edges, S)) <=> (found.down \subseteq S /\ Linked(edges, S))
    BY <1>2
  <2> QED
    BY <2>1 DEF LeastDown
<1>5. LeastUp(edges, next.up) = LeastUp(edges, found.up)
  <2>1. \A S \in SUBSET D!Task : (next.up \subseteq S /\ Backed(edges, S)) <=> (found.up \subseteq S /\ Backed(edges, S))
    BY <1>2
  <2> QED
    BY <2>1 DEF LeastUp
<1>6. ASSUME next = found PROVE LeastDown(edges, found.down) = found.down /\ LeastUp(edges, found.up) = found.up
  <2>1. Linked(edges, found.down) /\ Backed(edges, found.up)
    <3>1. next.down = found.down /\ next.up = found.up
      BY <1>6
    <3>2. ASSUME NEW e \in edges
          PROVE  (e[1] \in found.down => e[2] \in found.down) /\ (e[2] \in found.up => e[1] \in found.up)
      BY <1>2e, <3>1
    <3> QED
      BY <3>2 DEF Linked, Backed
  <2>2. LeastDown(edges, found.down) = found.down
    BY <1>1, <2>1 DEF LeastDown
  <2>3. LeastUp(edges, found.up) = found.up
    BY <1>1, <2>1 DEF LeastUp
  <2> QED
    BY <2>2, <2>3
<1>7. Least(edges, next) = Least(edges, found)
  BY <1>4, <1>5 DEF Least
<1>8. ASSUME next = found PROVE Least(edges, found) = found
  BY <1>1, <1>6, <1>8 DEF Least
<1> QED
  BY <1>3, <1>7, <1>8 DEF edges, next

\* How much has been found.
Much(found) == Cardinality(found.down) + Cardinality(found.up)

LEMMA PassFindsMore ==
  ASSUME D!TypeOK, NEW found \in D!Found
  PROVE  /\ Much(found) \in 0 .. 2 * Len(Words)
         /\ D!Pass(found) # found => Much(found) < Much(D!Pass(found))
PROOF
<1>1. ASSUME NEW f \in D!Found
      PROVE  /\ f = [down |-> f.down, up |-> f.up] /\ IsFiniteSet(f.down) /\ IsFiniteSet(f.up)
             /\ Cardinality(f.down) \in 0 .. Len(Words) /\ Cardinality(f.up) \in 0 .. Len(Words)
  <2>1. f = [down |-> f.down, up |-> f.up] /\ f.down \in SUBSET D!Task /\ f.up \in SUBSET D!Task
    BY DEF D!Found
  <2>2. \A s \in SUBSET D!Task : IsFiniteSet(s) /\ Cardinality(s) \in Nat /\ Cardinality(s) <= Len(Words)
    BY WordFacts, FS_Subset, FS_CardinalityType
  <2> QED
    BY <2>1, <2>2, WordFacts
<1>2. Much(found) \in 0 .. 2 * Len(Words)
  BY <1>1, WordFacts DEF Much
<1> DEFINE next == D!Pass(found)
<1>3. next \in D!Found /\ found.down \subseteq next.down /\ found.up \subseteq next.up
  BY PassFacts
<1> HIDE DEF next
<1>4. /\ Cardinality(found.down) <= Cardinality(next.down)
      /\ Cardinality(found.up) <= Cardinality(next.up)
      /\ Cardinality(found.down) = Cardinality(next.down) => found.down = next.down
      /\ Cardinality(found.up) = Cardinality(next.up) => found.up = next.up
  BY <1>1, <1>3, FS_Subset
<1>5. ASSUME next # found PROVE Much(found) < Much(next)
  <2>1. found.down # next.down \/ found.up # next.up
    BY <1>1, <1>3, <1>5
  <2>2. /\ Cardinality(found.down) \in Nat /\ Cardinality(next.down) \in Nat
        /\ Cardinality(found.up) \in Nat /\ Cardinality(next.up) \in Nat
    BY <1>1, <1>3, WordFacts
  <2> QED
    BY <1>4, <2>1, <2>2 DEF Much
<1> QED
  BY <1>2, <1>5 DEF next

\* The loop ends at the smallest sets.
LEMMA LoopIsLeast ==
  ASSUME D!TypeOK, NEW found \in D!Found
  PROVE  D!Loop[found] = Least(D!initialEdges, found)
PROOF
<1> DEFINE least == [f \in D!Found |-> Least(D!initialEdges, f)]
           Turn(g) == [f \in D!Found |-> IF D!Pass(f) = f THEN f ELSE g[D!Pass(f)]]
           loop == CHOOSE g : g = Turn(g)
           n == 2 * Len(Words)
<1>1. least = Turn(least)
  BY PassFacts, PassKeepsLeast
<1>2. loop = Turn(loop)
  <2> HIDE DEF least, Turn
  <2> QED
    BY <1>1
<1>3. D!Loop = loop
  BY DEF D!Loop
<1> HIDE DEF loop
<1>4. \A f \in D!Found : loop[f] = IF D!Pass(f) = f THEN f ELSE loop[D!Pass(f)]
  BY <1>2
<1>5. n \in Nat
  BY WordFacts
<1> HIDE DEF n
<1> DEFINE K == {i \in 0 .. n : \A f \in D!Found : Much(f) >= n - i => loop[f] = Least(D!initialEdges, f)}
<1>6. ASSUME NEW f \in D!Found, D!Pass(f) = f PROVE loop[f] = Least(D!initialEdges, f)
  BY <1>4, <1>6, PassKeepsLeast
<1>7. ASSUME NEW f \in D!Found, D!Pass(f) # f
      PROVE  /\ loop[f] = loop[D!Pass(f)] /\ Least(D!initialEdges, D!Pass(f)) = Least(D!initialEdges, f)
             /\ D!Pass(f) \in D!Found /\ Much(f) < Much(D!Pass(f)) /\ Much(f) \in 0 .. n /\ Much(D!Pass(f)) \in 0 .. n
  <2>1. D!Pass(f) \in D!Found
    BY PassFacts
  <2>2. Much(f) < Much(D!Pass(f)) /\ Much(f) \in 0 .. n /\ Much(D!Pass(f)) \in 0 .. n
    BY <1>7, <2>1, PassFindsMore DEF n
  <2> QED
    BY <1>4, <1>7, <2>1, <2>2, PassKeepsLeast
<1>8. 0 \in K
  <2>1. ASSUME NEW f \in D!Found, Much(f) >= n - 0 PROVE loop[f] = Least(D!initialEdges, f)
    BY <1>5, <1>6, <1>7, <2>1
  <2> QED
    BY <1>5, <2>1
<1>9. ASSUME NEW i \in 0 .. n - 1, i \in K PROVE i + 1 \in K
  <2>1. ASSUME NEW f \in D!Found, Much(f) >= n - (i + 1), D!Pass(f) # f PROVE loop[f] = Least(D!initialEdges, f)
    <3>1. Much(D!Pass(f)) >= n - i
      BY <1>5, <1>7, <2>1
    <3> QED
      BY <1>7, <1>9, <2>1, <3>1
  <2>2. i + 1 \in 0 .. n
    BY <1>5
  <2> QED
    BY <1>6, <2>1, <2>2
<1>10. n \in K
  <2> HIDE DEF K
  <2>1. \A i \in 0 .. n : i \in K
    BY <1>5, <1>8, <1>9, UpTo
  <2> QED
    BY <1>5, <2>1
<1>11. Much(found) >= n - n
  <2>1. Much(found) \in 0 .. n
    BY PassFindsMore DEF n
  <2> QED
    BY <1>5, <2>1
<1> QED
  BY <1>3, <1>10, <1>11

\* What stands out are the hovered task's relatives.
LEMMA HighlightIsTold == ASSUME D!TypeOK PROVE D!HighlightIsRelated
PROOF
<1> DEFINE edges == D!initialEdges
           back == {<<e[2], e[1]>> : e \in edges}
           start == [down |-> {hovered}, up |-> {hovered}]
<1> SUFFICES ASSUME hovered # 0
             PROVE  D!highlightedNodes = D!Reached(hovered, edges) \cup D!Reached(hovered, back)
  BY DEF D!HighlightIsRelated
<1>1. hovered \in D!Task
  BY DEF D!TypeOK
<1>2. start \in D!Found
  BY <1>1 DEF D!Found
<1>3. D!highlightedNodes = LeastDown(edges, {hovered}) \cup LeastUp(edges, {hovered})
  <2>1. D!highlightedNodes = D!Loop[start].down \cup D!Loop[start].up
    BY DEF D!highlightedNodes
  <2> HIDE DEF edges
  <2>2. D!Loop[start] = Least(D!initialEdges, start)
    BY <1>2, LoopIsLeast
  <2> QED
    BY <2>1, <2>2 DEF Least, edges
<1> HIDE DEF edges, start
<1>4. LeastDown(edges, {hovered}) = D!Reached(hovered, edges)
  BY DEF LeastDown, Linked, D!Reached, D!Closed
<1>5. LeastUp(edges, {hovered}) = D!Reached(hovered, back)
  <2>1. \A S : Backed(edges, S) <=> D!Closed(S, back)
    <3> SUFFICES ASSUME NEW S PROVE Backed(edges, S) <=> D!Closed(S, back)
      OBVIOUS
    <3>1. ASSUME Backed(edges, S), NEW x \in back, x[1] \in S PROVE x[2] \in S
      <4>1. PICK e \in edges : x = <<e[2], e[1]>>
        OBVIOUS
      <4>2. x[1] = e[2] /\ x[2] = e[1]
        BY <4>1
      <4> QED
        BY <3>1, <4>2 DEF Backed
    <3>2. ASSUME D!Closed(S, back), NEW e \in edges, e[2] \in S PROVE e[1] \in S
      <4>1. <<e[2], e[1]>> \in back /\ <<e[2], e[1]>>[1] = e[2] /\ <<e[2], e[1]>>[2] = e[1]
        OBVIOUS
      <4> HIDE DEF back
      <4> QED
        BY <3>2, <4>1 DEF D!Closed
    <3> HIDE DEF back
    <3> QED
      BY <3>1, <3>2 DEF Backed, D!Closed
  <2> HIDE DEF back
  <2> QED
    BY <2>1 DEF LeastUp, D!Reached
<1> QED
  BY <1>3, <1>4, <1>5

----------------------------------------------------------------------------
(* The monitor and the controls (PipelineDashboard.js).                    *)

\* What the monitor shows and fetches is of the selected pipeline, and as long as it has
\* not ended something will come.
Live == {r \in fetching : r.live}

MonitorInv ==
  /\ status \in [Pipeline -> M!Status] /\ moves \in 0 .. MaxMoves
  /\ opened \in Pipeline \cup {M!Null} /\ monitor \in BOOLEAN
  /\ data \in {<<>>} \cup (Pipeline \X M!Status) /\ measured \in Pipeline \cup {M!Null}
  /\ fetching \subseteq M!Request /\ timer \in BOOLEAN /\ spinning \in BOOLEAN
  /\ modal \in {M!Null, "cancel", "delete"}
  /\ timer => monitor /\ opened # M!Null /\ Live = {}
  /\ \A r, s \in Live : r = s
  /\ ~monitor => data = <<>> /\ fetching = {}
  /\ \A r \in Live : r.of = opened
  /\ opened # M!Null /\ data # <<>> =>
       /\ data[1] = opened /\ measured \in {opened, M!Null}
       /\ data[2] \notin {"completed", "failed"} => timer \/ Live # {}

LEMMA MonitorCount == ASSUME NEW C PROVE M!Cardinality(C) = Cardinality(C)
BY DEF M!Cardinality, Cardinality

LEMMA MonitorGives == ASSUME MonitorInv PROVE M!TypeOK /\ M!MonitorIsOfSelected
PROOF
<1>1. Cardinality(Live) <= 1 /\ (timer => Cardinality(Live) = 0) /\ Cardinality(Live) \in Nat
  <2>1. CASE Live = {}
    BY <2>1, FS_EmptySet
  <2>2. CASE Live # {}
    <3>1. PICK r \in Live : TRUE
      BY <2>2
    <3>2. Live = {r}
      BY <3>1 DEF MonitorInv
    <3>3. ~timer
      BY <2>2 DEF MonitorInv
    <3>4. Cardinality(Live) = 1
      BY <3>2, FS_Singleton
    <3>5. timer => Cardinality(Live) = 0
      BY <3>3
    <3> QED
      BY <3>4, <3>5
  <2> QED
    BY <2>1, <2>2
<1>2. M!Cardinality({r \in fetching : r.live}) + (IF timer THEN 1 ELSE 0) <= 1
  <2>1. M!Cardinality({r \in fetching : r.live}) = Cardinality(Live)
    BY MonitorCount DEF Live
  <2>2. CASE timer
    BY <1>1, <2>1, <2>2
  <2>3. CASE ~timer
    BY <1>1, <2>1, <2>3
  <2> QED
    BY <2>2, <2>3
<1>3. M!TypeOK
  BY <1>2 DEF MonitorInv, M!TypeOK
<1>4. M!MonitorIsOfSelected
  BY DEF M!MonitorIsOfSelected, M!Dashboard, MonitorInv, Live
<1> QED
  BY <1>3, <1>4

LEMMA MonitorStarts == ASSUME M!Init PROVE MonitorInv
PROOF
<1>1. monitor \in BOOLEAN /\ timer \in BOOLEAN /\ spinning \in BOOLEAN /\ ~timer
  BY Zenon DEF M!Init
<1>2. status \in [Pipeline -> M!Status]
  BY DEF M!Init, M!Status
<1>3. MaxMoves \in Nat
  BY PartsAssumption DEF PartsAssumption, M!DashboardAssumption
<1> QED
  BY <1>1, <1>2, <1>3 DEF M!Init, MonitorInv, Live

\* The requests of an effect that is cleaned up go on, but nothing hears of them.
LEMMA AbandonedAreNotLive ==
  ASSUME MonitorInv
  PROVE  M!Abandoned \subseteq M!Request /\ \A r \in M!Abandoned : ~r.live
BY DEF MonitorInv, M!Abandoned, M!Request

LEMMA AskIsLive ==
  ASSUME MonitorInv, NEW p \in Pipeline
  PROVE  M!Ask(p) \in M!Request /\ M!Ask(p).live /\ M!Ask(p).of = p
BY DEF MonitorInv, M!Ask, M!Request

LEMMA MonitorStep == ASSUME MonitorInv, [M!Next]_(M!vars) PROVE MonitorInv'
PROOF
<1> DEFINE Served == status \in [Pipeline -> M!Status] /\ moves \in 0 .. MaxMoves /\ modal \in {M!Null, "cancel", "delete"}
           Shows  == /\ opened \in Pipeline \cup {M!Null} /\ monitor \in BOOLEAN
                     /\ data \in {<<>>} \cup (Pipeline \X M!Status) /\ measured \in Pipeline \cup {M!Null}
                     /\ fetching \subseteq M!Request /\ timer \in BOOLEAN /\ spinning \in BOOLEAN
                     /\ timer => monitor /\ opened # M!Null /\ Live = {}
                     /\ \A r, s \in Live : r = s
                     /\ ~monitor => data = <<>> /\ fetching = {}
                     /\ \A r \in Live : r.of = opened
                     /\ opened # M!Null /\ data # <<>> =>
                          /\ data[1] = opened /\ measured \in {opened, M!Null}
                          /\ data[2] \notin {"completed", "failed"} => timer \/ Live # {}
<1>1. Served /\ Shows
  BY DEF MonitorInv
<1>2. ASSUME Served', Shows' PROVE MonitorInv'
  BY <1>2 DEF MonitorInv
<1>3. M!Null \notin Pipeline /\ MaxMoves \in Nat
  BY PartsAssumption DEF PartsAssumption, M!DashboardAssumption
<1>4. ASSUME UNCHANGED <<opened, monitor, M!monitorState>> PROVE Shows'
  BY <1>1, <1>4 DEF M!monitorState, Live
<1>5. ASSUME UNCHANGED <<status, moves, modal>> PROVE Served'
  BY <1>1, <1>5
<1> HIDE DEF Served
<1>6. ASSUME NEW p \in Pipeline \cup {M!Null}, M!setSelectedPipelineId(p) PROVE MonitorInv'
  <2>1. Served' /\ opened' = p /\ monitor' = monitor
    BY <1>5, <1>6 DEF M!setSelectedPipelineId
  <2>2. CASE ~monitor
    <3>1. UNCHANGED M!monitorState /\ fetching = {} /\ data = <<>> /\ ~timer
      BY <1>1, <1>6, <2>2 DEF M!setSelectedPipelineId
    <3>2. Shows'
      BY <1>1, <2>1, <2>2, <3>1 DEF M!monitorState, Live
    <3> QED
      BY <1>2, <2>1, <3>2
  <2>3. CASE monitor /\ p = M!Null
    <3>1. M!Follow(p)
      BY <1>6, <2>3 DEF M!setSelectedPipelineId
    <3>2. timer' = FALSE /\ fetching' = M!Abandoned /\ UNCHANGED <<data, measured, spinning>>
      BY <2>3, <3>1 DEF M!Follow
    <3>3. Live' = {} /\ fetching' \subseteq M!Request
      BY <3>2, AbandonedAreNotLive DEF Live
    <3>4. timer' \in BOOLEAN
      BY <3>2, Zenon
    <3>5. Shows'
      BY <1>1, <2>1, <2>3, <3>2, <3>3, <3>4
    <3> QED
      BY <1>2, <2>1, <3>5
  <2>4. CASE monitor /\ p # M!Null
    <3>1. M!Follow(p)
      BY <1>6, <2>4 DEF M!setSelectedPipelineId
    <3>2. /\ timer' = FALSE /\ fetching' = M!Abandoned \cup {M!Ask(p)} /\ data' = <<>> /\ measured' = M!Null
      BY <2>4, <3>1 DEF M!Follow
    <3>3. p \in Pipeline /\ M!Ask(p) \in M!Request /\ M!Ask(p).live /\ M!Ask(p).of = p
      BY <2>4, AskIsLive
    <3>4. Live' = {M!Ask(p)} /\ fetching' \subseteq M!Request
      BY <3>2, <3>3, AbandonedAreNotLive DEF Live
    <3>5. timer' \in BOOLEAN /\ spinning' \in BOOLEAN
      BY <2>4, <3>1, Zenon DEF M!Follow
    <3>6. Shows'
      BY <1>1, <2>1, <2>4, <3>2, <3>3, <3>4, <3>5
    <3> QED
      BY <1>2, <2>1, <3>6
  <2> QED
    BY <2>2, <2>3, <2>4
<1>7. CASE M!ShowMonitor
  <2>1. monitor' \in BOOLEAN /\ timer' \in BOOLEAN /\ spinning' \in BOOLEAN
    BY <1>7, Zenon DEF M!ShowMonitor
  <2>2. /\ monitor' /\ ~timer' /\ data' = <<>> /\ measured' = M!Null /\ UNCHANGED opened
        /\ fetching' = (IF opened = M!Null THEN {} ELSE {M!Ask(opened)})
    BY <1>7 DEF M!ShowMonitor
  <2>3. Served'
    BY <1>1, <1>7 DEF M!ShowMonitor, Served
  <2>4. CASE opened = M!Null
    BY <1>1, <1>2, <2>1, <2>2, <2>3, <2>4 DEF Live
  <2>5. CASE opened # M!Null
    <3>1. opened \in Pipeline /\ M!Ask(opened) \in M!Request /\ M!Ask(opened).live /\ M!Ask(opened).of = opened
      BY <1>1, <2>5, AskIsLive
    <3>2. Live' = {M!Ask(opened)} /\ fetching' \subseteq M!Request
      BY <2>2, <2>5, <3>1 DEF Live
    <3>3. Shows'
      BY <2>1, <2>2, <3>1, <3>2
    <3> QED
      BY <1>2, <2>3, <3>3
  <2> QED
    BY <2>4, <2>5
<1>8. CASE M!LeaveMonitor
  <2>1. monitor' \in BOOLEAN /\ timer' \in BOOLEAN /\ spinning' \in BOOLEAN
    BY <1>8, Zenon DEF M!LeaveMonitor
  <2>2. Shows'
    BY <1>1, <1>8, <2>1 DEF M!LeaveMonitor, Live
  <2> QED
    BY <1>2, <1>5, <1>8, <2>2 DEF M!LeaveMonitor
<1>9. ASSUME NEW r \in fetching, r.live PROVE Live = {r} /\ r.of = opened /\ opened \in Pipeline /\ monitor /\ ~timer
  <2>1. r \in Live /\ r.of \in Pipeline
    BY <1>1, <1>9 DEF Live, M!Request
  <2> QED
    BY <1>1, <2>1
<1>10. ASSUME NEW r \in fetching, M!DetailsArrive(r) PROVE MonitorInv'
  <2> DEFINE s == [r EXCEPT !.step = "metrics"]
  <2>1. fetching' = (fetching \ {r}) \cup {s} /\ UNCHANGED <<opened, monitor, data, measured, spinning, timer>>
    BY <1>10 DEF M!DetailsArrive
  <2>2. s \in M!Request /\ s.live = r.live /\ s.of = r.of
    BY <1>1 DEF M!Request
  <2>3. r.live \in BOOLEAN
    BY <1>1 DEF M!Request
  <2> HIDE DEF s
  <2>4. CASE r.live
    <3>1. Live = {r} /\ Live' = {s}
      BY <1>9, <2>1, <2>2, <2>4 DEF Live
    <3>2. Shows'
      BY <1>1, <1>9, <2>1, <2>2, <2>4, <3>1
    <3> QED
      BY <1>2, <1>5, <1>10, <3>2 DEF M!DetailsArrive
  <2>5. CASE ~r.live
    <3>1. Live' = Live
      BY <2>1, <2>2, <2>5 DEF Live
    <3>2. Shows'
      BY <1>1, <2>1, <2>2, <3>1
    <3> QED
      BY <1>2, <1>5, <1>10, <3>2 DEF M!DetailsArrive
  <2> QED
    BY <2>3, <2>4, <2>5
<1>11. ASSUME NEW r \in fetching, M!DetailsFail(r) PROVE MonitorInv'
  <2>1. fetching' = fetching \ {r} /\ timer' = (timer \/ r.live) /\ UNCHANGED <<opened, monitor, data, measured>>
    BY <1>11 DEF M!DetailsFail
  <2>2. timer' \in BOOLEAN /\ spinning' \in BOOLEAN /\ r.live \in BOOLEAN
    <3>1. r.live \in BOOLEAN /\ timer \in BOOLEAN
      BY <1>1 DEF M!Request
    <3>2. spinning' \in BOOLEAN
      BY <1>11, Zenon DEF M!DetailsFail
    <3> QED
      BY <2>1, <3>1, <3>2
  <2>3. CASE r.live
    <3>1. Live' = {} /\ timer'
      BY <1>9, <2>1, <2>3 DEF Live
    <3>2. Shows'
      BY <1>1, <1>3, <1>9, <2>1, <2>2, <2>3, <3>1
    <3> QED
      BY <1>2, <1>5, <1>11, <3>2 DEF M!DetailsFail
  <2>4. CASE ~r.live
    <3>1. Live' = Live /\ timer' = timer
      BY <1>1, <2>1, <2>4 DEF Live
    <3>2. Shows'
      BY <1>1, <2>1, <2>2, <3>1
    <3> QED
      BY <1>2, <1>5, <1>11, <3>2 DEF M!DetailsFail
  <2> QED
    BY <2>2, <2>3, <2>4
<1>12. ASSUME NEW r \in fetching, NEW found \in BOOLEAN, M!MetricsArrive(r, found) PROVE MonitorInv'
  <2>1. fetching' = fetching \ {r} /\ UNCHANGED <<opened, monitor>>
    BY <1>12 DEF M!MetricsArrive
  <2>2. r.live \in BOOLEAN /\ r.of \in Pipeline /\ r.status \in M!Status
    BY <1>1 DEF M!Request
  <2>3. CASE r.live
    <3>1. /\ data' = <<r.of, r.status>> /\ measured' \in {r.of, M!Null}
          /\ timer' = (r.status \notin {"completed", "failed"})
      BY <1>12, <2>3 DEF M!MetricsArrive
    <3>2. Live' = {}
      BY <1>9, <2>1, <2>3 DEF Live
    <3>3. /\ data' \in Pipeline \X M!Status /\ data' # <<>>
          /\ data'[1] = opened /\ data'[2] = r.status /\ measured' \in {opened, M!Null}
      BY <1>9, <2>2, <2>3, <3>1
    <3>4. timer' \in BOOLEAN /\ spinning' \in BOOLEAN
      BY <1>12, <2>3, Zenon DEF M!MetricsArrive
    <3>5. Shows'
      BY <1>1, <1>3, <1>9, <2>1, <2>3, <3>1, <3>2, <3>3, <3>4
    <3> QED
      BY <1>2, <1>5, <1>12, <3>5 DEF M!MetricsArrive
  <2>4. CASE ~r.live
    <3>1. Live' = Live /\ UNCHANGED <<data, measured, spinning, timer>>
      BY <1>12, <2>1, <2>4 DEF Live, M!MetricsArrive
    <3>2. Shows'
      BY <1>1, <2>1, <3>1
    <3> QED
      BY <1>2, <1>5, <1>12, <3>2 DEF M!MetricsArrive
  <2> QED
    BY <2>2, <2>3, <2>4
<1>13. CASE M!Timeout
  <2>1. timer' \in BOOLEAN /\ spinning' \in BOOLEAN /\ ~timer'
    BY <1>13, Zenon DEF M!Timeout
  <2>2. timer /\ fetching' = fetching \cup {M!Ask(opened)} /\ UNCHANGED <<opened, monitor, data, measured>>
    BY <1>13 DEF M!Timeout
  <2>3. opened \in Pipeline /\ monitor /\ Live = {}
    BY <1>1, <2>2
  <2>4. M!Ask(opened) \in M!Request /\ M!Ask(opened).live /\ M!Ask(opened).of = opened
    BY <2>3, AskIsLive
  <2>5. Live' = {M!Ask(opened)}
    BY <2>2, <2>3, <2>4 DEF Live
  <2>6. Shows'
    BY <1>1, <2>1, <2>2, <2>3, <2>4, <2>5
  <2> QED
    BY <1>2, <1>5, <1>13, <2>6 DEF M!Timeout
<1>14. ASSUME NEW type \in {"cancel", "delete"}, M!confirmModal(type) PROVE MonitorInv'
  <2>1. Shows'
    BY <1>4, <1>14 DEF M!confirmModal
  <2>2. Served'
    BY <1>1, <1>14 DEF M!confirmModal, Served
  <2> QED
    BY <1>2, <2>1, <2>2
<1>15. CASE M!closeModal
  <2>1. Shows'
    BY <1>4, <1>15 DEF M!closeModal
  <2>2. Served'
    BY <1>1, <1>15 DEF M!closeModal, Served
  <2> QED
    BY <1>2, <2>1, <2>2
<1>16. CASE M!handleConfirm
  <2>1. status' \in [Pipeline -> M!Status]
    <3>1. "cancelled" \in M!Status
      BY DEF M!Status, M!Ended
    <3> QED
      BY <1>1, <1>16, <3>1 DEF M!handleConfirm, Served
  <2> QED
    BY <1>1, <1>2, <1>4, <1>16, <2>1 DEF M!handleConfirm, Served
<1>17. CASE M!Retry
  <2>1. status' \in [Pipeline -> M!Status]
    <3>1. "running" \in M!Status
      BY DEF M!Status
    <3> QED
      BY <1>1, <1>17, <3>1 DEF M!Retry, Served
  <2> QED
    BY <1>1, <1>2, <1>4, <1>17, <2>1 DEF M!Retry, Served
<1>18. ASSUME NEW p \in Pipeline, M!Move(p) PROVE MonitorInv'
  <2>1. status' \in [Pipeline -> M!Status] /\ moves' \in 0 .. MaxMoves
    BY <1>1, <1>3, <1>18 DEF M!Move, Served
  <2>2. Shows'
    BY <1>4, <1>18 DEF M!Move
  <2>3. Served'
    BY <1>1, <1>18, <2>1 DEF M!Move, Served
  <2> QED
    BY <1>2, <2>1, <2>2, <2>3
<1>19. ASSUME UNCHANGED M!vars PROVE MonitorInv'
  <2>1. Shows'
    BY <1>4, <1>19 DEF M!vars, M!monitorState
  <2> QED
    BY <1>2, <1>5, <1>19, <2>1 DEF M!vars
<1> QED
  BY <1>6, <1>7, <1>8, <1>10, <1>11, <1>12, <1>13, <1>14, <1>15, <1>16, <1>17, <1>18, <1>19 DEF M!Next

----------------------------------------------------------------------------
(* The dialog of a task (TaskModal.js).                                    *)

DialogInv ==
  /\ T!TypeOK
  /\ details = <<>> /\ ~error => opening
  /\ taskId # T!Null /\ opening => fetches # <<>>

LEMMA DialogStarts == ASSUME T!Init PROVE DialogInv
PROOF
<1>1. opening \in BOOLEAN /\ error \in BOOLEAN /\ opening
  BY Zenon DEF T!Init
<1>2. task \in [TaskId -> T!Status]
  BY DEF T!Init, T!Status, T!Waiting, T!Ended
<1>3. MaxMoves \in Nat /\ MaxFetches \in Nat
  BY PartsAssumption DEF PartsAssumption, T!DialogAssumption
<1>4. fetches \in Seq(TaskId \X T!Status) /\ Len(fetches) <= MaxFetches
  BY <1>3 DEF T!Init
<1> QED
  BY <1>1, <1>2, <1>3, <1>4 DEF T!Init, DialogInv, T!TypeOK

\* A fetch that has ended is no longer under way.
LEMMA OneFetchLess ==
  ASSUME NEW S, NEW s \in Seq(S), NEW i \in DOMAIN s
  PROVE  T!Without(s, i) \in Seq(S) /\ Len(T!Without(s, i)) = Len(s) - 1
PROOF
<1>1. Len(s) \in Nat /\ i \in 1 .. Len(s) /\ i \in Nat
  OBVIOUS
<1>2. SubSeq(s, 1, i - 1) \in Seq(S) /\ Len(SubSeq(s, 1, i - 1)) = i - 1
  BY <1>1
<1>3. SubSeq(s, i + 1, Len(s)) \in Seq(S) /\ Len(SubSeq(s, i + 1, Len(s))) = Len(s) - i
  BY <1>1
<1> DEFINE a == SubSeq(s, 1, i - 1)
           b == SubSeq(s, i + 1, Len(s))
<1>4. T!Without(s, i) = a \o b
  BY DEF T!Without
<1> HIDE DEF a, b
<1>5. a \o b \in Seq(S) /\ Len(a \o b) = Len(a) + Len(b)
  BY <1>2, <1>3 DEF a, b
<1>6. Len(a) + Len(b) = Len(s) - 1
  BY <1>1, <1>2, <1>3 DEF a, b
<1> QED
  BY <1>4, <1>5, <1>6

LEMMA DialogStep == ASSUME DialogInv, [T!Next]_(T!vars) PROVE DialogInv'
PROOF
<1> DEFINE Served == task \in [TaskId -> T!Status] /\ taskMoves \in 0 .. MaxMoves
           Waits  == fetches \in Seq(TaskId \X T!Status) /\ Len(fetches) <= MaxFetches
           Sent   == posts \subseteq T!Post
           Draws  == /\ details \in (TaskId \X T!Status) \cup {<<>>}
                     /\ countdown \in {<<>>} \cup {<<n>> : n \in 0 .. MaxCountdown}
                     /\ (countdown # <<>>) = (details # <<>> /\ details[2] = "paused_rate_limit")
           Flags  == /\ opening \in BOOLEAN /\ error \in BOOLEAN /\ taskId \in TaskId \cup {T!Null}
                     /\ details = <<>> /\ ~error => opening
           Fetches == taskId # T!Null /\ opening => fetches # <<>>
<1>1. Served /\ Waits /\ Sent /\ Draws /\ Flags /\ Fetches
  BY DEF DialogInv, T!TypeOK
<1>2. ASSUME Served', Waits', Sent', Draws', Flags', Fetches' PROVE DialogInv'
  BY <1>2 DEF DialogInv, T!TypeOK
<1>3. /\ T!Null \notin TaskId /\ MaxMoves \in Nat /\ MaxFetches \in Nat /\ MaxCountdown \in Nat
  BY PartsAssumption DEF PartsAssumption, T!DialogAssumption
<1>4. ASSUME UNCHANGED <<details, countdown>> PROVE Draws'
  BY <1>1, <1>4
<1>5. ASSUME UNCHANGED <<task, taskMoves>> PROVE Served'
  BY <1>1, <1>5
<1>6. ASSUME UNCHANGED fetches PROVE Waits'
  BY <1>1, <1>6
<1>7. ASSUME UNCHANGED posts PROVE Sent'
  BY <1>1, <1>7
<1>8. ASSUME UNCHANGED <<opening, error, taskId, details>> PROVE Flags' /\ (UNCHANGED fetches => Fetches')
  BY <1>1, <1>8
<1>9. \A t \in TaskId : <<t, task[t]>> \in TaskId \X T!Status
  BY <1>1
<1> HIDE DEF Served, Waits, Sent, Draws, Flags, Fetches
<1>10. ASSUME NEW x \in TaskId \X T!Status, Len(fetches) < MaxFetches, fetches' = Append(fetches, x) PROVE Waits' /\ Fetches'
  <2>1. fetches' # <<>>
    BY <1>1, <1>10 DEF Waits
  <2> QED
    BY <1>1, <1>3, <1>10, <2>1 DEF Waits, Fetches
<1>11. ASSUME NEW i \in DOMAIN fetches, fetches' = T!Without(fetches, i)
       PROVE  Waits' /\ fetches[i] \in TaskId \X T!Status
  <2>1. fetches \in Seq(TaskId \X T!Status) /\ Len(fetches) <= MaxFetches /\ Len(fetches) \in Nat
    BY <1>1 DEF Waits
  <2>2. fetches' \in Seq(TaskId \X T!Status) /\ Len(fetches') = Len(fetches) - 1
    BY <1>11, <2>1, OneFetchLess
  <2> QED
    BY <1>3, <1>11, <2>1, <2>2 DEF Waits
<1>12. ASSUME NEW t \in TaskId, T!Open(t) PROVE DialogInv'
  <2>1. Waits' /\ Fetches'
    BY <1>9, <1>10, <1>12 DEF T!Open, T!Fetch
  <2>2. opening' \in BOOLEAN /\ opening' /\ error' = error /\ taskId' = t
    BY <1>12, Zenon DEF T!Open
  <2>3. Flags'
    BY <1>1, <2>2 DEF Flags
  <2> QED
    BY <1>2, <1>4, <1>5, <1>7, <1>12, <2>1, <2>3 DEF T!Open
<1>13. CASE T!Close
  <2>1. Flags' /\ Fetches'
    BY <1>1, <1>13 DEF T!Close, Flags, Fetches
  <2> QED
    BY <1>2, <1>4, <1>5, <1>6, <1>7, <1>13, <2>1 DEF T!Close
<1>14. ASSUME NEW i, T!FetchAnswered(i) PROVE DialogInv'
  <2>1. Waits' /\ fetches[i] \in TaskId \X T!Status
    BY <1>11, <1>14 DEF T!FetchAnswered
  <2>2. opening' \in BOOLEAN /\ ~opening' /\ error' \in BOOLEAN /\ UNCHANGED taskId
    BY <1>14, Zenon DEF T!FetchAnswered
  <2>3. details' = fetches[i] /\ details' # <<>>
    BY <1>14, <2>1 DEF T!FetchAnswered
  <2>4. Flags' /\ Fetches'
    BY <1>1, <2>2, <2>3 DEF Flags, Fetches
  <2>5. CASE fetches[i][2] = "paused_rate_limit"
    <3>1. PICK n \in 0 .. MaxCountdown : countdown' = <<n>>
      BY <1>14, <2>5 DEF T!FetchAnswered
    <3>2. countdown' # <<>> /\ countdown' \in {<<m>> : m \in 0 .. MaxCountdown}
      BY <3>1
    <3>3. Draws'
      BY <2>1, <2>3, <2>5, <3>2 DEF Draws
    <3> QED
      BY <1>2, <1>5, <1>7, <1>14, <2>1, <2>4, <3>3 DEF T!FetchAnswered
  <2>6. CASE fetches[i][2] # "paused_rate_limit"
    <3>1. countdown' = <<>>
      BY <1>14, <2>6 DEF T!FetchAnswered
    <3>2. Draws'
      BY <2>1, <2>3, <2>6, <3>1 DEF Draws
    <3> QED
      BY <1>2, <1>5, <1>7, <1>14, <2>1, <2>4, <3>2 DEF T!FetchAnswered
  <2> QED
    BY <2>5, <2>6
<1>15. ASSUME NEW i, T!FetchFails(i) PROVE DialogInv'
  <2>1. Waits'
    BY <1>11, <1>15 DEF T!FetchFails
  <2>2. opening' \in BOOLEAN /\ ~opening' /\ error' \in BOOLEAN /\ error' /\ UNCHANGED taskId
    BY <1>15, Zenon DEF T!FetchFails
  <2>3. Flags' /\ Fetches'
    BY <1>1, <2>2 DEF Flags, Fetches
  <2> QED
    BY <1>2, <1>4, <1>5, <1>7, <1>15, <2>1, <2>3 DEF T!FetchFails
<1>16. CASE T!Second
  <2>1. PICK n \in 0 .. MaxCountdown : countdown = <<n>> /\ n # 0
    BY <1>1, <1>16 DEF T!Second, Draws
  <2>2. countdown' = <<n - 1>> /\ n - 1 \in 0 .. MaxCountdown
    BY <1>3, <1>16, <2>1 DEF T!Second
  <2>3. countdown' # <<>> /\ countdown # <<>> /\ countdown' \in {<<m>> : m \in 0 .. MaxCountdown} /\ UNCHANGED details
    BY <1>16, <2>1, <2>2 DEF T!Second
  <2>4. Draws'
    BY <1>1, <2>3 DEF Draws
  <2> QED
    BY <1>2, <1>5, <1>6, <1>7, <1>8, <1>16, <2>4 DEF T!Second
<1>17. ASSUME NEW post \in T!Post, T!Send(post) PROVE DialogInv'
  <2>1. Sent'
    BY <1>1, <1>17 DEF T!Send, Sent
  <2> QED
    BY <1>2, <1>4, <1>5, <1>6, <1>8, <1>17, <2>1 DEF T!Send
<1>18. T!Offered # {} => taskId \in TaskId
  <2>1. ASSUME taskId = T!Null PROVE T!Offered = {}
    BY <2>1 DEF T!Offered, T!Fields, T!Body, T!Waiting, T!Null
  <2> QED
    BY <1>1, <2>1 DEF Flags
<1>19. ASSUME NEW exhausted \in BOOLEAN, T!handleRetry(exhausted) PROVE DialogInv'
  <2>1. [op |-> "retry", task |-> taskId, force |-> exhausted] \in T!Post
    BY <1>18, <1>19 DEF T!handleRetry, T!Post
  <2> QED
    BY <1>17, <1>19, <2>1 DEF T!handleRetry
<1>20. CASE T!handleCancel
  <2>1. [op |-> "cancel", task |-> taskId, force |-> FALSE] \in T!Post
    BY <1>18, <1>20 DEF T!handleCancel, T!Post
  <2> QED
    BY <1>17, <1>20, <2>1 DEF T!handleCancel
<1>21. ASSUME NEW post \in posts, T!PostAnswered(post) PROVE DialogInv'
  <2>1. post \in T!Post /\ post.task \in TaskId
    BY <1>1 DEF Sent, T!Post
  <2>2. Sent' /\ UNCHANGED taskMoves
    BY <1>1, <1>21 DEF T!PostAnswered, Sent
  <2>3. T!After(post.op) \in T!Status
    BY DEF T!After, T!Status, T!Waiting, T!Ended
  <2>4. task' = [task EXCEPT ![post.task] = IF @ = "completed" THEN @ ELSE T!After(post.op)]
    BY <1>21 DEF T!PostAnswered
  <2>5. Served'
    BY <1>1, <2>2, <2>3, <2>4 DEF Served
  <2>6. <<post.task, task'[post.task]>> \in TaskId \X T!Status
    BY <2>1, <2>5 DEF Served
  <2>7. Waits' /\ Fetches'
    BY <1>10, <1>21, <2>6 DEF T!PostAnswered
  <2>8. opening' \in BOOLEAN /\ opening' /\ UNCHANGED <<error, taskId, details, countdown>>
    BY <1>21, Zenon DEF T!PostAnswered
  <2>9. Flags'
    BY <1>1, <2>8 DEF Flags
  <2> QED
    BY <1>2, <1>4, <2>2, <2>5, <2>7, <2>8, <2>9
<1>22. ASSUME NEW post \in posts, T!PostFails(post) PROVE DialogInv'
  <2>1. error' \in BOOLEAN /\ error' /\ UNCHANGED <<opening, taskId, details>>
    BY <1>22, Zenon DEF T!PostFails
  <2>2. Flags' /\ Fetches'
    BY <1>1, <1>22, <2>1 DEF T!PostFails, Flags, Fetches
  <2>3. Sent'
    BY <1>1, <1>22 DEF T!PostFails, Sent
  <2> QED
    BY <1>2, <1>4, <1>5, <1>6, <1>22, <2>2, <2>3 DEF T!PostFails
<1>23. ASSUME NEW t \in TaskId, T!Move(t) PROVE DialogInv'
  <2>1. {"running", "paused_rate_limit", "failed", "completed"} \subseteq T!Status
    BY DEF T!Status, T!Waiting, T!Ended
  <2>2. Served'
    BY <1>1, <1>3, <1>23, <2>1 DEF T!Move, Served
  <2> QED
    BY <1>2, <1>4, <1>6, <1>7, <1>8, <1>23, <2>2 DEF T!Move
<1>24. ASSUME UNCHANGED T!vars PROVE DialogInv'
  BY <1>2, <1>4, <1>5, <1>6, <1>7, <1>8, <1>24 DEF T!vars
<1> QED
  BY <1>12, <1>13, <1>14, <1>15, <1>16, <1>19, <1>20, <1>21, <1>22, <1>23, <1>24 DEF T!Next

LEMMA DialogGives == ASSUME DialogInv PROVE T!TypeOK /\ T!DetailsAreThere /\ T!LoadingIsFetched
BY DEF DialogInv, T!DetailsAreThere, T!LoadingIsFetched, T!Body

----------------------------------------------------------------------------
(* The analyses (PipelineContext.js, DeveloperPanelTabs.jsx).              *)

\* The spans of an analysis of p.
Spans(p) == {A!Span(s) : s \in A!Range(A!Segments(p))}

PanelOK ==
  /\ chosen \in Pipeline \cup {None} /\ switched \in BOOLEAN
  /\ replaying \in BOOLEAN /\ position \in Nat \cup {-1}
  /\ tab \in Tab \cup {None}
  /\ replaying /\ ~switched => chosen \in Pipeline

\* An analysis on its way has its tab waiting and takes the place of none.
LoadsOK ==
  /\ model \in [A!Analysis -> Pipeline \cup {None}] /\ flight \in [A!Analysis -> Pipeline \cup {None}]
  /\ waiting \in [A!Analysis -> BOOLEAN] /\ refused \in [A!Analysis -> BOOLEAN]
  /\ \A k \in A!Analysis : flight[k] # None => waiting[k] /\ model[k] = None
  /\ ~switched => \A k \in A!Analysis : model[k] \in {None, chosen} /\ flight[k] \in {None, chosen}

SpanOK == span # None => span \in Spans(model["performance"])
PoolOK == pool \in Nat \ {0} /\ touched \in BOOLEAN

\* The slider that has not been moved is where the pool the tab speaks of is.
PoolTold == ~touched /\ A!PoolOf(tab, model) # None => pool = A!PoolOf(tab, model)

AnalysisInv == PanelOK /\ LoadsOK /\ SpanOK /\ PoolOK /\ PoolTold

Sought ==
  span' # span /\ span' # None =>
    /\ follows' = span'.task
    /\ replaying /\ (\E e \in A!Range(Data[chosen].events) : e.task = follows') =>
         Data[chosen].events[position' + 1].task = follows'

\* What the data of a pipeline are.
LEMMA DataFacts ==
  /\ None \notin Pipeline /\ "logs" \in Tab
  /\ \A p \in Pipeline :
       /\ DOMAIN Data[p].events = 1 .. Len(Data[p].events) /\ Data[p].base.workers \in Nat \ {0}
       /\ \A s \in A!Range(A!Segments(p)) :
            /\ s.task # None /\ s.attempt \in 0 .. 3
            /\ [task |-> s.task, attempt |-> 0] \in Spans(p)
  /\ A!Range(A!Segments(None)) = {}
PROOF
<1>1. A!AnalysisAssumption
  BY PartsAssumption DEF PartsAssumption
<1>2. ASSUME NEW p \in Pipeline, NEW s \in A!Range(A!Segments(p))
      PROVE  s.task # None /\ s.attempt \in 0 .. 3 /\ [task |-> s.task, attempt |-> 0] \in Spans(p)
  <2>1. A!Segments(p) = Data[p].segments
    BY <1>1 DEF A!AnalysisAssumption, A!Segments
  <2>2. PICK k \in DOMAIN Data[p].segments : s = Data[p].segments[k]
    BY <2>1 DEF A!Range
  <2>3. PICK j \in DOMAIN Data[p].segments :
          Data[p].segments[j].task = Data[p].segments[k].task /\ Data[p].segments[j].attempt = 0
    BY <1>1, <2>2 DEF A!AnalysisAssumption
  <2>4. Data[p].segments[j] \in A!Range(A!Segments(p))
    BY <2>1 DEF A!Range
  <2>5. A!Span(Data[p].segments[j]) = [task |-> s.task, attempt |-> 0]
    BY <2>2, <2>3 DEF A!Span
  <2>6. [task |-> s.task, attempt |-> 0] \in Spans(p)
    BY <2>4, <2>5 DEF Spans
  <2> QED
    BY <1>1, <2>2, <2>6 DEF A!AnalysisAssumption
<1>3. A!Range(A!Segments(None)) = {}
  BY DEF A!Range, A!Segments
<1> QED
  BY <1>1, <1>2, <1>3 DEF A!AnalysisAssumption

LEMMA AnalysisStarts == ASSUME A!Init PROVE AnalysisInv
PROOF
<1>1. PanelOK
  <2>1. switched \in BOOLEAN /\ replaying \in BOOLEAN /\ ~replaying
    BY Zenon DEF A!Init
  <2> QED
    BY <2>1 DEF A!Init, PanelOK
<1>2. LoadsOK
  <2>1. /\ waiting \in [A!Analysis -> BOOLEAN] /\ refused \in [A!Analysis -> BOOLEAN]
    BY DEF A!Init
  <2> QED
    BY <2>1 DEF A!Init, A!Nothing, LoadsOK
<1>3. PoolOK
  <2>1. touched \in BOOLEAN
    BY Zenon DEF A!Init
  <2> QED
    BY <2>1 DEF A!Init, PoolOK
<1>4. PoolTold
  BY DEF A!Init, A!Nothing, A!Analysis, A!PoolOf, PoolTold
<1> QED
  BY <1>1, <1>2, <1>3, <1>4 DEF A!Init, AnalysisInv, SpanOK

LEMMA AnalysisGives == ASSUME AnalysisInv PROVE A!TypeOK /\ A!AnalysesAreOfSelected
PROOF
<1>1. A!TypeOK
  BY DEF AnalysisInv, PanelOK, LoadsOK, PoolOK, A!TypeOK
<1>2. \A k \in A!Analysis : flight[k] # None => A!View(k) = "loading"
  BY DEF AnalysisInv, LoadsOK, A!View
<1>3. ASSUME span # None
      PROVE  span \in {A!Span(s) : s \in A!Range(A!Segments(model["performance"]))} /\ A!Marked # {}
  <2>1. span \in Spans(model["performance"]) /\ model["performance"] \in Pipeline \cup {None}
    BY <1>3 DEF AnalysisInv, SpanOK, LoadsOK, A!Analysis
  <2>2. PICK s \in A!Range(A!Segments(model["performance"])) : span = A!Span(s)
    BY <2>1 DEF Spans
  <2>3. s.attempt \in 0 .. 3
    BY <2>1, DataFacts
  <2>4. s \in A!Marked
    BY <1>3, <2>2, <2>3 DEF A!Marked, A!Span
  <2> QED
    BY <2>1, <2>4 DEF Spans
<1> QED
  BY <1>1, <1>2, <1>3 DEF AnalysisInv, LoadsOK, A!AnalysesAreOfSelected

\* The first event of a task is there when the task has any.
LEMMA FirstEvent ==
  ASSUME NEW t, chosen \in Pipeline, t \in {e.task : e \in A!Range(Data[chosen].events)}
  PROVE  /\ A!FirstOf(t) \in 1 .. Len(Data[chosen].events) /\ A!FirstOf(t) \in Nat
         /\ Data[chosen].events[A!FirstOf(t)].task = t
PROOF
<1> DEFINE events == Data[chosen].events
           has == {k \in DOMAIN events : events[k].task = t}
<1>1. DOMAIN events = 1 .. Len(events)
  BY DataFacts
<1>2. has \in SUBSET Nat /\ has # {}
  BY <1>1 DEF A!Range
<1>3. PICK n \in has : \A m \in has : n <= m
  BY <1>2, LeastExists
<1>4. n \in DOMAIN events /\ events[n].task = t /\ \A j \in 1 .. n - 1 : events[j].task # t
  <2>1. n \in Nat /\ n \in 1 .. Len(events)
    BY <1>1, <1>2, <1>3
  <2>2. ASSUME NEW j \in 1 .. n - 1, events[j].task = t PROVE FALSE
    <3>1. j \in Nat /\ j < n /\ j \in 1 .. Len(events)
      BY <2>1
    <3>2. j \in has
      BY <1>1, <2>2, <3>1
    <3> QED
      BY <1>3, <2>1, <3>1, <3>2
  <2> QED
    BY <1>3, <2>2
<1>5. A!FirstOf(t) \in DOMAIN events /\ events[A!FirstOf(t)].task = t
  BY <1>4 DEF A!FirstOf
<1> QED
  BY <1>1, <1>5

\* At an event of a task the replay has come across that task last.
LEMMA LastAtEvent ==
  ASSUME NEW n \in Nat \ {0}, Data[chosen].events[n].task # None
  PROVE  A!LastOf("task", n - 1) = Data[chosen].events[n].task
PROOF
<1> DEFINE known == {j \in 1 .. (n - 1) + 1 : Data[chosen].events[j]["task"] # None}
<1>1. n \in known /\ \A j \in known : j <= n /\ j \in Nat
  OBVIOUS
<1>2. \A j \in known : (\A i \in known : i <= j) => j = n
  BY <1>1
<1> HIDE DEF known
<1>3. (CHOOSE j \in known : \A i \in known : i <= j) = n
  BY <1>1, <1>2
<1>4. known # {}
  BY <1>1
<1>5. A!LastOf("task", n - 1) =
        IF known = {} THEN None ELSE Data[chosen].events[CHOOSE j \in known : \A i \in known : i <= j]["task"]
  BY DEF A!LastOf, known
<1> QED
  BY <1>3, <1>4, <1>5

\* A span chosen takes the replay to its task.
LEMMA SpanSeeks ==
  ASSUME PanelOK, ~switched, NEW s, s.task # None, A!SpanChosen(s)
  PROVE  /\ span' = s /\ position' \in Nat \cup {-1} /\ Sought
PROOF
<1> DEFINE there == s.task \in {e.task : e \in A!Range(Data[chosen].events)}
           f == A!FirstOf(s.task)
<1>1. span' = s
  BY DEF A!SpanChosen
<1>2. CASE replaying /\ there /\ position # f - 1
  <2>1. position' = f - 1 /\ follows' = A!LastOf("task", position')
    BY <1>2 DEF A!SpanChosen, A!Followed
  <2>2. f \in 1 .. Len(Data[chosen].events) /\ f \in Nat /\ Data[chosen].events[f].task = s.task
    BY <1>2, FirstEvent DEF PanelOK
  <2>3. f \in Nat \ {0} /\ position' \in Nat /\ position' + 1 = f
    BY <2>1, <2>2
  <2>4. follows' = s.task
    BY <2>1, <2>2, <2>3, LastAtEvent
  <2> HIDE DEF f, there
  <2> QED
    BY <1>1, <2>2, <2>3, <2>4 DEF Sought
<1>3. CASE ~(replaying /\ there /\ position # f - 1)
  <2>1. follows' = s.task /\ position' = position
    BY <1>3 DEF A!SpanChosen
  <2>2. ASSUME replaying, there PROVE Data[chosen].events[position' + 1].task = s.task
    <3>1. position = f - 1
      BY <1>3, <2>2
    <3>2. f \in 1 .. Len(Data[chosen].events) /\ f \in Nat /\ Data[chosen].events[f].task = s.task
      BY <2>2, FirstEvent DEF PanelOK
    <3>3. position' + 1 = f
      BY <2>1, <3>1, <3>2
    <3> QED
      BY <3>2, <3>3
  <2>3. (\E e \in A!Range(Data[chosen].events) : e.task = s.task) => there
    OBVIOUS
  <2> HIDE DEF f, there
  <2> QED
    BY <1>1, <2>1, <2>2, <2>3 DEF Sought, PanelOK
<1> QED
  BY <1>2, <1>3

\* The slider of the workers is set to a number of them.
LEMMA PoolKeeps == ASSUME PoolOK, PoolTold, LoadsOK', A!PoolSet PROVE PoolOK' /\ PoolTold'
PROOF
<1> DEFINE n == A!PoolOf(tab', model')
<1>1. n # None => n \in Nat \ {0}
  <2> DEFINE p == IF tab' = "optimization" THEN model'["optimization"]
                  ELSE IF tab' = "scheduling" THEN model'["performance"] ELSE None
  <2>1. p \in Pipeline \cup {None}
    BY DEF LoadsOK, A!Analysis
  <2>2. n = IF p = None THEN None ELSE Data[p].base.workers
    BY DEF A!PoolOf
  <2> HIDE DEF p, n
  <2> QED
    BY <2>1, <2>2, DataFacts
<1>2. \/ n # None /\ pool' = n /\ touched' = FALSE
      \/ pool' = 1 /\ touched' = FALSE
      \/ UNCHANGED <<pool, touched>>
  BY DEF A!PoolSet
<1>3. PoolTold'
  <2>1. \/ n # None /\ pool' = n
        \/ n = None
        \/ UNCHANGED <<pool, touched>> /\ tab' = tab /\ n = A!PoolOf(tab, model)
    BY DEF A!PoolSet
  <2>2. PoolTold' <=> (~touched' /\ n # None => pool' = n)
    BY DEF PoolTold
  <2> HIDE DEF n
  <2> QED
    BY <2>1, <2>2 DEF PoolTold
<1> HIDE DEF n
<1>4. touched' \in BOOLEAN
  BY <1>2, Zenon DEF PoolOK
<1> QED
  BY <1>1, <1>2, <1>3, <1>4 DEF PoolOK

LEMMA SpansOfNone == Spans(None) = {}
BY DataFacts DEF Spans

LEMMA AnalysisLoads ==
  ASSUME PanelOK, LoadsOK, SpanOK, A!Loads
  PROVE  PanelOK' /\ LoadsOK' /\ SpanOK' /\ Sought
PROOF
<1>1. PICK k \in A!Analysis : A!Load(k) \/ A!Loaded(k) \/ A!LoadFails(k) \/ A!Clear(k)
  BY DEF A!Loads
<1>2. /\ UNCHANGED <<chosen, switched, replaying, position, span, tab>>
  BY <1>1 DEF A!Load, A!Loaded, A!LoadFails, A!Clear
<1>3. PanelOK' /\ Sought
  BY <1>2 DEF PanelOK, Sought
<1>4. /\ model \in [A!Analysis -> Pipeline \cup {None}] /\ flight \in [A!Analysis -> Pipeline \cup {None}]
      /\ waiting \in [A!Analysis -> BOOLEAN] /\ refused \in [A!Analysis -> BOOLEAN]
  BY DEF LoadsOK
<1>5. ASSUME model'["performance"] = model["performance"] PROVE SpanOK'
  BY <1>2, <1>5 DEF SpanOK
<1>6. None \notin Pipeline /\ chosen \in Pipeline \cup {None}
  BY DataFacts DEF PanelOK
<1>7. CASE A!Load(k)
  <2>1. /\ ~switched /\ chosen # None /\ model[k] # chosen /\ model' = model
        /\ flight' = [flight EXCEPT ![k] = chosen]
        /\ waiting' = [waiting EXCEPT ![k] = TRUE] /\ refused' = [refused EXCEPT ![k] = FALSE]
    BY <1>7 DEF A!Load
  <2>2. model[k] = None
    BY <2>1 DEF LoadsOK
  <2>3. LoadsOK'
    BY <1>2, <1>4, <1>6, <2>1, <2>2 DEF LoadsOK
  <2> QED
    BY <1>3, <1>5, <2>1, <2>3
<1>8. CASE A!Loaded(k)
  <2>1. /\ flight[k] # None /\ model' = [model EXCEPT ![k] = flight[k]]
        /\ flight' = [flight EXCEPT ![k] = None] /\ waiting' = [waiting EXCEPT ![k] = FALSE] /\ refused' = refused
    BY <1>8 DEF A!Loaded
  <2>2. model[k] = None /\ flight[k] \in Pipeline
    BY <1>4, <2>1 DEF LoadsOK
  <2>3. LoadsOK'
    BY <1>2, <1>4, <2>1, <2>2 DEF LoadsOK
  <2>4. SpanOK'
    <3>1. CASE k = "performance"
      <4>1. span = None
        BY <2>2, <3>1, SpansOfNone DEF SpanOK
      <4> QED
        BY <1>2, <4>1 DEF SpanOK
    <3>2. CASE k # "performance"
      BY <1>4, <1>5, <2>1, <3>2 DEF A!Analysis
    <3> QED
      BY <3>1, <3>2
  <2> QED
    BY <1>3, <2>3, <2>4
<1>9. CASE A!LoadFails(k)
  <2>1. /\ flight' = [flight EXCEPT ![k] = None] /\ waiting' = [waiting EXCEPT ![k] = FALSE]
        /\ refused' = [refused EXCEPT ![k] = TRUE] /\ model' = model
    BY <1>9 DEF A!LoadFails
  <2>2. LoadsOK'
    BY <1>2, <1>4, <2>1 DEF LoadsOK
  <2> QED
    BY <1>3, <1>5, <2>1, <2>2
<1>10. CASE A!Clear(k)
  <2>1. /\ model' = [model EXCEPT ![k] = None] /\ flight' = [flight EXCEPT ![k] = None]
        /\ waiting' = [waiting EXCEPT ![k] = FALSE] /\ refused' = [refused EXCEPT ![k] = FALSE]
        /\ k # "performance"
    BY <1>10 DEF A!Clear
  <2>2. LoadsOK'
    BY <1>2, <1>4, <2>1 DEF LoadsOK
  <2>3. model'["performance"] = model["performance"]
    BY <1>4, <2>1 DEF A!Analysis
  <2> QED
    BY <1>3, <1>5, <2>2, <2>3
<1> QED
  BY <1>1, <1>7, <1>8, <1>9, <1>10

\* What drops the analyses drops all of them.
LEMMA AllDropped ==
  ASSUME LoadsOK, A!Dropped, waiting' = waiting \/ waiting' = [k \in A!Analysis |-> FALSE]
  PROVE  LoadsOK' /\ SpanOK' /\ Sought
PROOF
<1>1. /\ model' = [k \in A!Analysis |-> None] /\ flight' = [k \in A!Analysis |-> None]
      /\ refused' = [k \in A!Analysis |-> FALSE] /\ span' = None
  BY DEF A!Dropped, A!Nothing
<1>2. waiting' \in [A!Analysis -> BOOLEAN]
  BY DEF LoadsOK
<1> QED
  BY <1>1, <1>2 DEF LoadsOK, SpanOK, Sought

LEMMA AnalysisClicks ==
  ASSUME PanelOK, LoadsOK, SpanOK, A!Clicks
  PROVE  PanelOK' /\ LoadsOK' /\ SpanOK' /\ Sought
PROOF
<1>1. /\ ~switched /\ UNCHANGED <<chosen, switched, model, waiting, refused, flight, replaying, tab>>
  BY DEF A!Clicks, A!SpanClick, A!FlameClick, A!ForecastClick, A!TaskClick, A!selectRecommendation, A!WorkerClick
<1>2. LoadsOK'
  BY <1>1 DEF LoadsOK
<1>3. model["performance"] \in Pipeline \cup {None}
  BY DEF LoadsOK, A!Analysis
<1>4. ASSUME UNCHANGED <<span, position>> PROVE PanelOK' /\ SpanOK' /\ Sought
  BY <1>1, <1>4 DEF PanelOK, SpanOK, Sought
<1>5. ASSUME NEW s \in Spans(model["performance"]), A!SpanChosen(s) PROVE PanelOK' /\ SpanOK' /\ Sought
  <2>1. s.task # None
    <3>1. PICK r \in A!Range(A!Segments(model["performance"])) : s = A!Span(r)
      BY DEF Spans
    <3>2. r.task # None
      BY <1>3, DataFacts
    <3> QED
      BY <3>1, <3>2 DEF A!Span
  <2>2. span' = s /\ position' \in Nat \cup {-1} /\ Sought
    BY <1>1, <1>5, <2>1, SpanSeeks
  <2> QED
    BY <1>1, <2>2 DEF PanelOK, SpanOK
<1>6. ASSUME NEW s, A!SpanClick(s) PROVE PanelOK' /\ SpanOK' /\ Sought
  <2>1. A!Span(s) \in Spans(model["performance"]) /\ A!SpanChosen(A!Span(s))
    BY <1>6 DEF A!SpanClick, Spans
  <2> QED
    BY <1>5, <2>1
<1>7. ASSUME NEW s, A!FlameClick(s) PROVE PanelOK' /\ SpanOK' /\ Sought
  <2>1. s \in A!Range(A!Segments(model["performance"])) /\ A!SpanChosen([task |-> s.task, attempt |-> 0])
    BY <1>7 DEF A!FlameClick
  <2>2. [task |-> s.task, attempt |-> 0] \in Spans(model["performance"])
    BY <1>3, <2>1, DataFacts
  <2> QED
    BY <1>5, <2>1, <2>2
<1>8. ASSUME NEW s, A!ForecastClick(s) PROVE PanelOK' /\ SpanOK' /\ Sought
  <2>1. A!Span(s) \in Spans(model["performance"])
    BY <1>8 DEF A!ForecastClick, Spans
  <2>2. A!SpanChosen(A!Span(s)) \/ UNCHANGED <<span, position>>
    BY <1>8 DEF A!ForecastClick
  <2> QED
    BY <1>4, <1>5, <2>1, <2>2
<1>9. ASSUME (\E t : A!TaskClick(t)) \/ (\E r : A!selectRecommendation(r)) \/ (\E w : A!WorkerClick(w))
      PROVE  PanelOK' /\ SpanOK' /\ Sought
  BY <1>4, <1>9 DEF A!TaskClick, A!selectRecommendation, A!WorkerClick
<1> QED
  BY <1>2, <1>6, <1>7, <1>8, <1>9 DEF A!Clicks

\* Every step of the analyses keeps them of the selected pipeline and seeks the span chosen.
LEMMA AnalysisStep == ASSUME AnalysisInv, [A!Next]_(A!vars) PROVE AnalysisInv' /\ Sought
PROOF
<1> DEFINE Kept == PanelOK' /\ LoadsOK' /\ SpanOK' /\ Sought
           Tabs == \/ \E p \in Pipeline \cup {None} : A!Select(p)
                   \/ A!SwitchCleanup \/ A!Replay \/ A!Loads \/ A!Panel \/ A!Clicks
<1>1. PanelOK /\ LoadsOK /\ SpanOK /\ PoolOK /\ PoolTold
  BY DEF AnalysisInv
<1>2. ASSUME UNCHANGED <<model, waiting, refused, flight, chosen, switched>> PROVE LoadsOK'
  BY <1>1, <1>2 DEF LoadsOK
<1>3. ASSUME UNCHANGED <<model, span>> PROVE SpanOK' /\ Sought
  BY <1>1, <1>3 DEF SpanOK, Sought
<1>4. ASSUME NEW p \in Pipeline \cup {None}, A!Select(p) PROVE Kept
  <2>1. switched' \in BOOLEAN /\ switched'
    BY <1>4, Zenon DEF A!Select
  <2>2. PanelOK'
    BY <1>1, <1>4, <2>1 DEF A!Select, PanelOK
  <2>3. LoadsOK'
    BY <1>1, <1>4, <2>1 DEF A!Select, LoadsOK
  <2>4. UNCHANGED <<model, span>>
    BY <1>4 DEF A!Select
  <2>5. SpanOK' /\ Sought
    BY <2>4, <1>3
  <2> QED
    BY <2>2, <2>3, <2>5
<1>5. ASSUME A!SwitchCleanup PROVE Kept
  <2>1. switched' \in BOOLEAN /\ replaying' \in BOOLEAN /\ ~replaying'
    BY <1>5, Zenon DEF A!SwitchCleanup
  <2>2. PanelOK'
    BY <1>1, <1>5, <2>1 DEF A!SwitchCleanup, PanelOK
  <2>3. A!Dropped /\ waiting' = [k \in A!Analysis |-> FALSE]
    BY <1>5 DEF A!SwitchCleanup
  <2>4. LoadsOK' /\ SpanOK' /\ Sought
    BY <1>1, <2>3, AllDropped
  <2> QED
    BY <2>2, <2>4
<1>6. ASSUME A!ReplayLoaded PROVE Kept
  <2>1. replaying' \in BOOLEAN /\ position' = 0 /\ chosen # None /\ UNCHANGED <<chosen, switched, tab>>
    BY <1>6, Zenon DEF A!ReplayLoaded
  <2>2. PanelOK'
    BY <1>1, <2>1 DEF PanelOK
  <2>3. A!Dropped /\ waiting' = waiting
    BY <1>6 DEF A!ReplayLoaded
  <2>4. LoadsOK' /\ SpanOK' /\ Sought
    BY <1>1, <2>3, AllDropped
  <2> QED
    BY <2>2, <2>4
<1>7. ASSUME A!exitReplayMode PROVE Kept
  <2>1. replaying' \in BOOLEAN /\ ~replaying' /\ position' = -1 /\ UNCHANGED <<chosen, switched, tab>>
    BY <1>7, Zenon DEF A!exitReplayMode
  <2>2. PanelOK'
    BY <1>1, <2>1 DEF PanelOK
  <2>3. A!Dropped /\ waiting' = [k \in A!Analysis |-> FALSE]
    BY <1>7 DEF A!exitReplayMode
  <2>4. LoadsOK' /\ SpanOK' /\ Sought
    BY <1>1, <2>3, AllDropped
  <2> QED
    BY <2>2, <2>4
<1>8. ASSUME NEW k \in 0 .. Len(Data[chosen].events) - 1, A!Seek(k)
      PROVE  Kept
  <2>1. /\ position' = k /\ k \in Nat
        /\ UNCHANGED <<chosen, switched, replaying, tab, model, waiting, refused, flight, span>>
    BY <1>8 DEF A!Seek
  <2>2. PanelOK'
    BY <1>1, <2>1 DEF PanelOK
  <2>3. LoadsOK'
    BY <1>2, <2>1
  <2>4. SpanOK' /\ Sought
    BY <1>3, <2>1
  <2> QED
    BY <2>2, <2>3, <2>4
<1>9. ASSUME A!Replay PROVE Kept
  <2>1. A!ReplayLoaded \/ A!exitReplayMode \/ \E k \in 0 .. Len(Data[chosen].events) - 1 : A!Seek(k)
    BY <1>9 DEF A!Replay
  <2> HIDE DEF Kept
  <2> QED
    BY <1>6, <1>7, <1>8, <2>1
<1>10. ASSUME A!Loads PROVE Kept
  BY <1>1, <1>10, AnalysisLoads
<1>11. ASSUME A!Panel PROVE Kept
  <2>1. tab' \in Tab \cup {None} /\ UNCHANGED <<chosen, switched, model, waiting, refused, flight, replaying, position, span>>
    BY <1>11, DataFacts DEF A!Panel, A!TogglePanel, A!setActiveTab
  <2>2. PanelOK'
    BY <1>1, <2>1 DEF PanelOK
  <2>3. LoadsOK'
    BY <1>2, <2>1
  <2>4. SpanOK' /\ Sought
    BY <1>3, <2>1
  <2> QED
    BY <2>2, <2>3, <2>4
<1>12. ASSUME A!Clicks PROVE Kept
  BY <1>1, <1>12, AnalysisClicks
<1>13. ASSUME Tabs, A!PoolSet PROVE AnalysisInv' /\ Sought
  <2>1. Kept
    <3> HIDE DEF Kept
    <3> QED
      BY <1>4, <1>5, <1>9, <1>10, <1>11, <1>12, <1>13
  <2>2. PoolOK' /\ PoolTold'
    BY <1>1, <1>13, <2>1, PoolKeeps
  <2> QED
    BY <2>1, <2>2 DEF AnalysisInv
<1>14. ASSUME NEW n \in Positions, A!MovePool(n) PROVE AnalysisInv' /\ Sought
  <2>1. UNCHANGED <<chosen, switched, model, waiting, refused, flight, replaying, position, span, tab>>
    BY <1>14 DEF A!MovePool
  <2>2. PanelOK'
    BY <1>1, <2>1 DEF PanelOK
  <2>3. touched' \in BOOLEAN
    BY <1>14, Zenon DEF A!MovePool
  <2>4. pool' \in Nat \ {0}
    BY <1>14 DEF A!MovePool, A!Slider
  <2>5. LoadsOK'
    BY <1>2, <2>1
  <2>6. SpanOK' /\ Sought
    BY <1>3, <2>1
  <2>7. PoolTold'
    BY <1>14, Zenon DEF A!MovePool, PoolTold
  <2> QED
    BY <2>2, <2>3, <2>4, <2>5, <2>6, <2>7 DEF AnalysisInv, PoolOK
<1>15. ASSUME UNCHANGED A!vars PROVE AnalysisInv' /\ Sought
  <2>1. PanelOK' /\ PoolOK'
    BY <1>1, <1>15 DEF A!vars, PanelOK, PoolOK
  <2>2. UNCHANGED <<chosen, switched, model, waiting, refused, flight, span>>
    BY <1>15 DEF A!vars
  <2>3. LoadsOK'
    BY <1>2, <2>2
  <2>4. SpanOK' /\ Sought
    BY <1>3, <2>2
  <2>5. PoolTold'
    BY <1>1, <1>15 DEF A!vars, PoolTold
  <2> QED
    BY <2>1, <2>3, <2>4, <2>5 DEF AnalysisInv
<1>16. (Tabs /\ A!PoolSet) \/ (\E n \in Positions : A!MovePool(n)) \/ UNCHANGED A!vars
  BY DEF A!Next
<1> HIDE DEF Tabs
<1> QED
  BY <1>13, <1>14, <1>15, <1>16

\* What has been measured of a pipeline: times, and the ranks of its workers.
LEMMA BaseFacts ==
  ASSUME NEW p \in Pipeline
  PROVE  /\ Data[p].base.workers \in Nat \ {0} /\ Data[p].base.exec \in Nat /\ Data[p].base.retry \in Nat
         /\ Data[p].base.queue \in Nat /\ Data[p].base.path \in Nat /\ Data[p].base.whole \in Nat
         /\ Data[p].base.path <= Data[p].base.exec + Data[p].base.queue
         /\ A!Segments(p) = Data[p].segments /\ DOMAIN A!Segments(p) \in SUBSET Nat
         /\ \A w \in A!Workers(p) : Data[p].rank[w] \in Nat
PROOF
<1>1. A!AnalysisAssumption
  BY PartsAssumption DEF PartsAssumption
<1>2. /\ DOMAIN Data[p].segments \subseteq Nat /\ A!Segments(p) = Data[p].segments
      /\ Data[p].base \in [workers : Nat \ {0}, exec : Nat, retry : Nat, queue : Nat, path : Nat, whole : Nat]
      /\ Data[p].base.path <= Data[p].base.exec + Data[p].base.queue
  BY <1>1 DEF A!AnalysisAssumption, A!Segments
<1>3. ASSUME NEW w \in A!Workers(p) PROVE Data[p].rank[w] \in Nat
  <2>1. PICK k \in DOMAIN Data[p].segments : w = Data[p].segments[k].worker
    BY <1>2 DEF A!Workers, A!Range
  <2> QED
    BY <1>1, <2>1 DEF A!AnalysisAssumption
<1> QED
  BY <1>2, <1>3

\* Every task has a lane, if there is any.
LEMMA LanesAreDrawn ==
  ASSUME NEW p \in Pipeline, A!Workers(p) # {}, NEW t
  PROVE  A!WorkerOf(p, t) \in A!Workers(p)
PROOF
<1> DEFINE of == {k \in DOMAIN A!Segments(p) : A!Segments(p)[k].task = t}
           ranks == {Data[p].rank[w] : w \in A!Workers(p)}
<1>1. A!WorkerOf(p, t) = IF of # {} THEN A!Segments(p)[Min(of)].worker ELSE A!FirstLane(p)
  BY DEF A!WorkerOf, A!Min, Min
<1>2. CASE of # {}
  <2>1. of \in SUBSET Nat
    BY BaseFacts
  <2>2. Min(of) \in of
    BY <1>2, <2>1, MinIsIn
  <2>3. A!Segments(p)[Min(of)] \in A!Range(A!Segments(p))
    BY <2>2 DEF A!Range
  <2> HIDE DEF of
  <2> QED
    BY <1>1, <1>2, <2>3 DEF A!Workers
<1>3. CASE of = {}
  <2>1. ranks \in SUBSET Nat /\ ranks # {}
    BY BaseFacts
  <2>2. PICK n \in ranks : \A m \in ranks : n <= m
    BY <2>1, LeastExists
  <2>3. PICK w \in A!Workers(p) : n = Data[p].rank[w]
    BY <2>2
  <2>4. \A v \in A!Workers(p) : Data[p].rank[w] <= Data[p].rank[v]
    BY <2>2, <2>3
  <2>5. A!FirstLane(p) \in A!Workers(p)
    BY <2>4 DEF A!FirstLane
  <2> HIDE DEF of
  <2> QED
    BY <1>1, <1>3, <2>5
<1> QED
  BY <1>2, <1>3

\* A forecast draws what each task has run and is to run in one lane.
LEMMA ForecastIsWhole == ASSUME A!TypeOK PROVE A!DrawnOnce
PROOF
<1> DEFINE p == model["performance"]
<1> SUFFICES ASSUME A!Workers(p) # {}
             PROVE  /\ \A s \in A!Range(A!Segments(p)) : A!Cardinality({w \in A!Workers(p) : s \in A!Bars(p, w).done}) = 1
                    /\ \A t \in Data[p].future : A!Cardinality({w \in A!Workers(p) : t \in A!Bars(p, w).next}) = 1
  BY DEF A!DrawnOnce
<1>1. p \in Pipeline
  <2>1. p \in Pipeline \cup {None}
    BY DEF A!TypeOK, A!Analysis
  <2>2. A!Workers(None) = {}
    BY DataFacts DEF A!Workers
  <2> QED
    BY <2>1, <2>2
<1> HIDE DEF p
<1>2. ASSUME NEW v PROVE A!Cardinality({v}) = 1
  BY FS_Singleton DEF A!Cardinality, Cardinality
<1>3. ASSUME NEW s \in A!Range(A!Segments(p))
      PROVE  A!Cardinality({w \in A!Workers(p) : s \in A!Bars(p, w).done}) = 1
  <2>1. s.worker \in A!Workers(p)
    BY DEF A!Workers
  <2>2. {w \in A!Workers(p) : s \in A!Bars(p, w).done} = {s.worker}
    BY <2>1 DEF A!Bars
  <2> QED
    BY <1>2, <2>2
<1>4. ASSUME NEW t \in Data[p].future
      PROVE  A!Cardinality({w \in A!Workers(p) : t \in A!Bars(p, w).next}) = 1
  <2>1. A!WorkerOf(p, t) \in A!Workers(p)
    BY <1>1, LanesAreDrawn
  <2>2. {w \in A!Workers(p) : t \in A!Bars(p, w).next} = {A!WorkerOf(p, t)}
    BY <2>1 DEF A!Bars
  <2> QED
    BY <1>2, <2>2
<1> QED
  BY <1>3, <1>4

\* Products and quotients grow with what is multiplied and divided.
LEMMA ProductGrows ==
  ASSUME NEW x \in Int, NEW y \in Int, NEW z \in Nat, x <= y
  PROVE  x * z \in Int /\ y * z \in Int /\ x * z <= y * z
PROOF
<1>1. PICK k \in Nat : y = x + k
  <2>1. y - x \in Nat /\ y = x + (y - x)
    OBVIOUS
  <2> QED
    BY <2>1
<1>2. k * z \in Nat
  OBVIOUS
<1>3. (x + k) * z = x * z + k * z
  OBVIOUS
<1> QED
  BY <1>1, <1>2, <1>3

LEMMA QuotientBounds ==
  ASSUME NEW a \in Int, NEW d \in Nat \ {0}
  PROVE  a \div d \in Int /\ d * (a \div d) \in Int /\ d * (a \div d) <= a /\ a < d * (a \div d) + d
OBVIOUS

\* What fits in a number fits in its quotient.
LEMMA QuotientFits ==
  ASSUME NEW a \in Int, NEW d \in Nat \ {0}, NEW n \in Int, n * d <= a
  PROVE  n <= a \div d
PROOF
<1> DEFINE m == a \div d
<1>1. m \in Int /\ d * m \in Int /\ a < d * m + d
  BY QuotientBounds
<1> HIDE DEF m
<1> SUFFICES ASSUME m + 1 <= n PROVE FALSE
  BY <1>1 DEF m
<1>2. (m + 1) * d <= n * d
  BY <1>1, ProductGrows
<1>3. (m + 1) * d = d * m + d
  BY <1>1
<1>4. n * d \in Int
  OBVIOUS
<1> QED
  BY <1>1, <1>2, <1>3, <1>4

LEMMA QuotientGrows ==
  ASSUME NEW a \in Int, NEW b \in Int, NEW d \in Nat \ {0}, a <= b
  PROVE  a \div d \in Int /\ b \div d \in Int /\ a \div d <= b \div d
PROOF
<1>1. a \div d \in Int /\ b \div d \in Int /\ d * (a \div d) \in Int /\ d * (a \div d) <= a
  BY QuotientBounds
<1> DEFINE m == a \div d
<1>2. m \in Int /\ m * d <= b
  BY <1>1
<1> HIDE DEF m
<1>3. m <= b \div d
  BY <1>2, QuotientFits
<1> QED
  BY <1>1, <1>3 DEF m

\* ... and get smaller with what they are divided by.
LEMMA QuotientShrinks ==
  ASSUME NEW a \in Nat, NEW d \in Nat \ {0}, NEW e \in Nat \ {0}, d <= e
  PROVE  a \div e \in Nat /\ a \div d \in Nat /\ a \div e <= a \div d
PROOF
<1> DEFINE m == a \div e
<1>1. m \in Int /\ e * m \in Int /\ e * m <= a
  BY QuotientBounds
<1>2. 0 <= m /\ 0 <= a \div d /\ a \div d \in Int
  <2>1. 0 * e <= a /\ 0 * d <= a
    OBVIOUS
  <2> QED
    BY <2>1, QuotientFits, QuotientBounds
<1> HIDE DEF m
<1>3. m \in Nat
  BY <1>1, <1>2
<1>4. d * m <= e * m
  BY <1>3, ProductGrows
<1>5. m * d = d * m /\ d * m \in Int
  BY <1>1
<1>6. m * d <= a
  BY <1>1, <1>4, <1>5
<1>7. m <= a \div d
  BY <1>1, <1>6, QuotientFits
<1> QED
  BY <1>2, <1>3, <1>7 DEF m

\* A number multiplied and divided by the same stays what it is.
LEMMA QuotientCancels ==
  ASSUME NEW a \in Int, NEW d \in Nat \ {0}
  PROVE  (a * d) \div d = a
PROOF
<1> DEFINE m == (a * d) \div d
<1>1. a * d \in Int
  OBVIOUS
<1>2. m \in Int /\ d * m \in Int /\ d * m <= a * d
  BY <1>1, QuotientBounds
<1>3. a <= m
  BY <1>1, QuotientFits
<1> HIDE DEF m
<1> SUFFICES ASSUME a + 1 <= m PROVE FALSE
  BY <1>2, <1>3 DEF m
<1>4. (a + 1) * d <= m * d
  BY <1>2, ProductGrows
<1>5. (a + 1) * d = a * d + d /\ m * d = d * m
  BY <1>2
<1> QED
  BY <1>1, <1>2, <1>4, <1>5

\* A simulation answers no less than it is told to.
LEMMA AtLeastBounds ==
  ASSUME NEW m \in Int, NEW n \in Int
  PROVE  A!AtLeast(n, m) \in Int /\ n <= A!AtLeast(n, m) /\ m <= A!AtLeast(n, m) /\ A!AtLeast(n, m) \in {n, m}
BY DEF A!AtLeast

LEMMA AtLeastGrows ==
  ASSUME NEW m \in Int, NEW k \in Int, NEW n \in Int, k <= n
  PROVE  A!AtLeast(k, m) \in Int /\ A!AtLeast(n, m) \in Int /\ A!AtLeast(k, m) <= A!AtLeast(n, m)
BY DEF A!AtLeast

\* A pipeline that is simulated to take as long as it did or longer has not gained.
LEMMA NothingSaved ==
  ASSUME NEW p \in Pipeline, NEW n \in Int, Data[p].base.whole <= n
  PROVE  A!Saved(Data[p].base, n) = 0
PROOF
<1> DEFINE whole == Data[p].base.whole
<1>1. whole \in Int
  BY BaseFacts
<1> HIDE DEF whole
<1>2. whole - n \in Int /\ whole - n <= 0
  BY <1>1 DEF whole
<1>3. A!AtLeast(whole - n, 0) = 0
  BY <1>2 DEF A!AtLeast
<1> QED
  BY <1>3 DEF whole, A!Saved

\* The optimization's duration with the sliders as they are set.
LEMMA OptimizedAsItIs ==
  ASSUME NEW p \in Pipeline
  PROVE  A!Saved(Data[p].base, A!Optimized(Data[p].base, Data[p].base.workers, 2, 4, 4)) = 0
PROOF
<1> DEFINE b == Data[p].base
           n == Data[p].base.workers
           path == b.exec - b.retry + (4 * b.retry) \div 4 + (4 * n * b.queue) \div (2 * n * 2)
<1>1. /\ n \in Nat \ {0} /\ b.exec \in Nat /\ b.retry \in Nat /\ b.queue \in Nat /\ b.path \in Nat /\ b.whole \in Nat
      /\ b.path <= b.exec + b.queue
  BY BaseFacts
<1>2. A!Optimized(b, n, 2, 4, 4) = A!AtLeast(A!AtLeast(b.whole - (b.path - path), path), 10)
  <2>1. b.workers = n
    OBVIOUS
  <2> QED
    BY <2>1 DEF A!Optimized
<1> HIDE DEF b, n
<1>3. (4 * b.retry) \div 4 = b.retry
  BY <1>1
<1>4. (4 * n * b.queue) \div (2 * n * 2) = b.queue
  <2> DEFINE d == 2 * n * 2
             q == b.queue
  <2>1. d \in Nat \ {0} /\ q \in Int /\ 4 * n * b.queue = q * d
    BY <1>1
  <2> HIDE DEF d, q
  <2>2. (q * d) \div d = q
    BY <2>1, QuotientCancels
  <2> QED
    BY <2>1, <2>2 DEF d, q
<1>5. path = b.exec + b.queue /\ path \in Int
  BY <1>1, <1>3, <1>4
<1> HIDE DEF path
<1>6. b.whole - (b.path - path) \in Int /\ b.whole <= b.whole - (b.path - path)
  BY <1>1, <1>5
<1>7. A!Optimized(b, n, 2, 4, 4) \in Int /\ b.whole <= A!Optimized(b, n, 2, 4, 4)
  BY <1>1, <1>2, <1>5, <1>6 DEF A!AtLeast
<1> QED
  BY <1>7, NothingSaved DEF b, n

\* The advice's duration with the sliders as they are set.
LEMMA AdvisedAsItIs ==
  ASSUME NEW p \in Pipeline, NEW n \in Nat \ {0}
  PROVE  A!Saved(Data[p].base, A!Advised(Data[p].base, n, n, 10, 10, 20)) = 0
PROOF
<1> DEFINE b == Data[p].base
           spread == (b.path * (118 * n - 18 * n)) \div (100 * n)
           slowed == (spread * (1350 - 35 * 10)) \div 1000
           path   == A!AtLeast((slowed * (9150 + 85 * 10)) \div 10000, 100)
           queued == (b.queue * 20 * n) \div (2 * n * 10)
           wait   == A!AtLeast((queued * (122 * n - 22 * n)) \div (100 * n), 0)
<1>1. b.queue \in Nat /\ b.path \in Nat /\ b.whole \in Nat
  BY BaseFacts
<1>2. A!Advised(b, n, n, 10, 10, 20) = A!AtLeast(b.whole - (b.path - path) + (wait - b.queue) \div 2, 100)
  BY DEF A!Advised
<1> HIDE DEF b
<1>3. /\ 100 * n \in Nat \ {0} /\ 2 * n * 10 \in Nat \ {0}
      /\ 118 * n - 18 * n = 100 * n /\ 122 * n - 22 * n = 100 * n
      /\ 1350 - 35 * 10 = 1000 /\ 9150 + 85 * 10 = 10000
      /\ b.queue * 20 * n = b.queue * (2 * n * 10)
  BY <1>1
<1> DEFINE d == 100 * n
           e == 2 * n * 10
<1>0. ASSUME NEW m \in Nat PROVE (m * d) \div d = m /\ (m * e) \div e = m
  <2>1. d \in Nat \ {0} /\ e \in Nat \ {0} /\ m \in Int
    BY <1>3
  <2> HIDE DEF d, e
  <2> QED
    BY <2>1, QuotientCancels
<1>4. spread = b.path
  BY <1>0, <1>1, <1>3
<1> HIDE DEF spread
<1>5. slowed = b.path
  BY <1>1, <1>3, <1>4
<1> HIDE DEF slowed
<1>6. path \in Int /\ b.path <= path
  BY <1>1, <1>3, <1>5 DEF A!AtLeast
<1> HIDE DEF path
<1>7. queued = b.queue
  BY <1>0, <1>1, <1>3
<1> HIDE DEF queued
<1>8. (queued * (122 * n - 22 * n)) \div (100 * n) = b.queue
  BY <1>0, <1>1, <1>3, <1>7
<1>9. wait = b.queue
  BY <1>1, <1>8 DEF A!AtLeast
<1> HIDE DEF wait
<1>10. b.whole - (b.path - path) + (wait - b.queue) \div 2 = b.whole - (b.path - path)
  <2>1. wait - b.queue = 0 /\ 0 \div 2 = 0
    BY <1>1, <1>9
  <2> QED
    BY <1>1, <1>6, <2>1
<1>11. A!Advised(b, n, n, 10, 10, 20) \in Int /\ b.whole <= A!Advised(b, n, n, 10, 10, 20)
  BY <1>1, <1>2, <1>6, <1>10 DEF A!AtLeast
<1> QED
  BY <1>11, NothingSaved DEF b

\* With one worker more the optimization simulates no longer pipeline.
LEMMA OptimizedShrinks ==
  ASSUME NEW p \in Pipeline, NEW n \in Nat \ {0}, NEW c \in Nat \ {0}, NEW r \in Nat, NEW q \in Nat
  PROVE  A!Optimized(Data[p].base, n + 1, c, r, q) <= A!Optimized(Data[p].base, n, c, r, q)
PROOF
<1> DEFINE b == Data[p].base
           much == q * b.workers * b.queue
           rest == b.exec - b.retry + (r * b.retry) \div 4
           few  == rest + much \div (2 * n * c)
           many == rest + much \div (2 * (n + 1) * c)
           Whole(path) == A!AtLeast(b.whole - (b.path - path), path)
<1>1. b.workers \in Nat /\ b.queue \in Nat /\ b.exec \in Nat /\ b.retry \in Nat /\ b.path \in Nat /\ b.whole \in Nat
  BY BaseFacts
<1>2. /\ A!Optimized(b, n, c, r, q) = A!AtLeast(Whole(few), 10)
      /\ A!Optimized(b, n + 1, c, r, q) = A!AtLeast(Whole(many), 10)
  BY DEF A!Optimized
<1> HIDE DEF b
<1>3. rest \in Int
  <2>1. r * b.retry \in Int
    BY <1>1
  <2>2. (r * b.retry) \div 4 \in Int
    BY <2>1, QuotientBounds
  <2> QED
    BY <1>1, <2>2
<1> HIDE DEF rest
<1>4. much \in Nat
  <2>1. q * b.workers \in Nat
    BY <1>1
  <2> QED
    BY <1>1, <2>1
<1> HIDE DEF much
<1>5. much \div (2 * (n + 1) * c) \in Nat /\ much \div (2 * n * c) \in Nat /\ much \div (2 * (n + 1) * c) <= much \div (2 * n * c)
  <2> DEFINE d == 2 * n * c
             e == 2 * (n + 1) * c
  <2>1. d \in Nat \ {0} /\ e \in Nat \ {0} /\ d <= e
    <3>1. e = d + 2 * c /\ 2 * c \in Nat \ {0}
      OBVIOUS
    <3>2. n * c \in Nat \ {0}
      OBVIOUS
    <3>3. d = 2 * (n * c)
      OBVIOUS
    <3> HIDE DEF d, e
    <3>4. d \in Nat \ {0}
      BY <3>2, <3>3
    <3> QED
      BY <3>1, <3>4
  <2> HIDE DEF d, e
  <2>2. much \div e \in Nat /\ much \div d \in Nat /\ much \div e <= much \div d
    BY <1>4, <2>1, QuotientShrinks
  <2> QED
    BY <2>2 DEF d, e
<1>6. few \in Int /\ many \in Int /\ many <= few
  BY <1>3, <1>5
<1> HIDE DEF few, many
<1>7. Whole(few) \in Int /\ Whole(many) \in Int /\ Whole(many) <= Whole(few)
  BY <1>1, <1>6 DEF A!AtLeast
<1> HIDE DEF Whole
<1> QED
  BY <1>2, <1>7, AtLeastGrows DEF b

\* The critical path of the advice, f and g being what the other sliders make of it.
Slowed(path, n, w, f, g) == (((((path * (118 * n - 18 * w)) \div (100 * n)) * f) \div 1000) * g) \div 10000

\* It is no longer with one worker more.
LEMMA AdvisedPathShrinks ==
  ASSUME NEW path \in Nat, NEW n \in Nat \ {0}, NEW w \in Nat \ {0}, NEW f \in Nat, NEW g \in Nat
  PROVE  /\ Slowed(path, n, w, f, g) \in Int /\ Slowed(path, n, w + 1, f, g) \in Int
         /\ Slowed(path, n, w + 1, f, g) <= Slowed(path, n, w, f, g)
PROOF
<1> DEFINE x1 == 118 * n - 18 * (w + 1)
           x2 == 118 * n - 18 * w
           d == 100 * n
<1>1. x1 \in Int /\ x2 \in Int /\ x1 <= x2 /\ d \in Nat \ {0}
  OBVIOUS
<1>2. /\ Slowed(path, n, w + 1, f, g) = (((((path * x1) \div d) * f) \div 1000) * g) \div 10000
      /\ Slowed(path, n, w, f, g) = (((((path * x2) \div d) * f) \div 1000) * g) \div 10000
  BY DEF Slowed
<1> HIDE DEF x1, x2, d
<1> DEFINE y1 == path * x1
           y2 == path * x2
<1>3. y1 \in Int /\ y2 \in Int /\ y1 <= y2
  <2>1. x1 * path \in Int /\ x2 * path \in Int /\ x1 * path <= x2 * path
    BY <1>1, ProductGrows
  <2>2. y1 = x1 * path /\ y2 = x2 * path
    BY <1>1
  <2> QED
    BY <2>1, <2>2
<1> HIDE DEF y1, y2
<1> DEFINE s1 == y1 \div d
           s2 == y2 \div d
<1>4. s1 \in Int /\ s2 \in Int /\ s1 <= s2
  BY <1>1, <1>3, QuotientGrows
<1> HIDE DEF s1, s2
<1> DEFINE t1 == s1 * f
           t2 == s2 * f
<1>5. t1 \in Int /\ t2 \in Int /\ t1 <= t2
  BY <1>4, ProductGrows
<1> HIDE DEF t1, t2
<1> DEFINE u1 == t1 \div 1000
           u2 == t2 \div 1000
<1>6. u1 \in Int /\ u2 \in Int /\ u1 <= u2
  BY <1>5, QuotientGrows
<1> HIDE DEF u1, u2
<1> DEFINE v1 == u1 * g
           v2 == u2 * g
<1>7. v1 \in Int /\ v2 \in Int /\ v1 <= v2
  BY <1>6, ProductGrows
<1> HIDE DEF v1, v2
<1>8. v1 \div 10000 \in Int /\ v2 \div 10000 \in Int /\ v1 \div 10000 <= v2 \div 10000
  BY <1>7, QuotientGrows
<1>9. Slowed(path, n, w + 1, f, g) = v1 \div 10000 /\ Slowed(path, n, w, f, g) = v2 \div 10000
  BY <1>2 DEF v1, v2, u1, u2, t1, t2, s1, s2, y1, y2
<1> QED
  BY <1>8, <1>9

\* The waiting of the advice, h being what there is of it.
Waited(h, n, w, c) == ((h \div (2 * w * c)) * (122 * n - 22 * w)) \div (100 * n)

\* It is no longer with one worker more, and never less than none.
LEMMA AdvisedWaitShrinks ==
  ASSUME NEW h \in Nat, NEW n \in Nat \ {0}, NEW w \in Nat \ {0}, NEW c \in Nat \ {0}
  PROVE  /\ Waited(h, n, w, c) \in Int /\ Waited(h, n, w + 1, c) \in Int
         /\ A!AtLeast(Waited(h, n, w + 1, c), 0) <= A!AtLeast(Waited(h, n, w, c), 0)
PROOF
<1> DEFINE x1 == 122 * n - 22 * (w + 1)
           x2 == 122 * n - 22 * w
           d1 == 2 * (w + 1) * c
           d2 == 2 * w * c
           e == 100 * n
<1>1. x1 \in Int /\ x2 \in Int /\ x1 <= x2 /\ e \in Nat \ {0}
  OBVIOUS
<1>2. d2 \in Nat \ {0} /\ d1 \in Nat \ {0} /\ d2 <= d1
  <2>1. d1 = d2 + 2 * c /\ 2 * c \in Nat \ {0}
    OBVIOUS
  <2>2. w * c \in Nat \ {0} /\ d2 = 2 * (w * c)
    OBVIOUS
  <2> HIDE DEF d1, d2
  <2>3. d2 \in Nat \ {0}
    BY <2>2
  <2> QED
    BY <2>1, <2>3
<1>3. Waited(h, n, w + 1, c) = ((h \div d1) * x1) \div e /\ Waited(h, n, w, c) = ((h \div d2) * x2) \div e
  BY DEF Waited
<1> HIDE DEF x1, x2, d1, d2, e
<1> DEFINE u1 == h \div d1
           u2 == h \div d2
<1>4. u1 \in Nat /\ u2 \in Nat /\ u1 <= u2
  BY <1>2, QuotientShrinks
<1> HIDE DEF u1, u2
<1> DEFINE v1 == u1 * x1
           v2 == u2 * x2
<1>5. v1 \in Int /\ v2 \in Int
  BY <1>1, <1>4
<1>6. v1 \div e \in Int /\ v2 \div e \in Int
  BY <1>1, <1>5, QuotientBounds
<1>7. Waited(h, n, w + 1, c) = v1 \div e /\ Waited(h, n, w, c) = v2 \div e
  BY <1>3 DEF u1, u2, v1, v2
<1>8. CASE x1 >= 0
  <2>1. x1 \in Nat /\ x2 \in Nat
    BY <1>1, <1>8
  <2>2. u1 * x1 <= u2 * x1 /\ u2 * x1 \in Int
    BY <1>4, <2>1, ProductGrows
  <2>3. x1 * u2 <= x2 * u2 /\ x1 * u2 = u2 * x1 /\ x2 * u2 = u2 * x2
    BY <1>1, <1>4, ProductGrows
  <2>4. v1 <= v2
    BY <1>5, <2>2, <2>3
  <2> HIDE DEF v1, v2
  <2>5. v1 \div e <= v2 \div e
    BY <1>1, <1>5, <2>4, QuotientGrows
  <2> QED
    BY <1>6, <1>7, <2>5, AtLeastGrows
<1>9. CASE x1 < 0
  <2>1. v1 <= 0
    <3>1. x1 <= 0 /\ 0 \in Int
      BY <1>1, <1>9
    <3>2. x1 * u1 <= 0 * u1
      BY <1>1, <1>4, <3>1, ProductGrows
    <3>3. x1 * u1 = v1 /\ 0 * u1 = 0
      BY <1>1, <1>4
    <3> QED
      BY <3>2, <3>3
  <2> HIDE DEF v1, v2
  <2>2. v1 \div e <= 0
    <3>1. 0 \div e = 0
      BY <1>1
    <3> QED
      BY <1>1, <1>5, <2>1, <3>1, QuotientGrows
  <2>3. A!AtLeast(v1 \div e, 0) = 0
    BY <1>6, <2>2 DEF A!AtLeast
  <2>4. 0 <= A!AtLeast(v2 \div e, 0)
    BY <1>6, AtLeastBounds
  <2> QED
    BY <1>6, <1>7, <2>3, <2>4
<1> QED
  BY <1>1, <1>8, <1>9

\* With one worker more the advice simulates no longer pipeline.
LEMMA AdvisedShrinks ==
  ASSUME NEW p \in Pipeline, NEW n \in Nat \ {0}, NEW w \in Nat \ {0},
         NEW c \in 1 .. 38, NEW r \in Nat, NEW q \in Nat
  PROVE  A!Advised(Data[p].base, n, w + 1, c, r, q) <= A!Advised(Data[p].base, n, w, c, r, q)
PROOF
<1> DEFINE b == Data[p].base
           f == 1350 - 35 * c
           g == 9150 + 85 * r
           h == b.queue * q * n
           path1 == A!AtLeast(Slowed(b.path, n, w + 1, f, g), 100)
           path2 == A!AtLeast(Slowed(b.path, n, w, f, g), 100)
           wait1 == A!AtLeast(Waited(h, n, w + 1, c), 0)
           wait2 == A!AtLeast(Waited(h, n, w, c), 0)
<1>1. b.queue \in Nat /\ b.path \in Nat /\ b.whole \in Nat
  BY BaseFacts
<1>2. /\ A!Advised(b, n, w + 1, c, r, q) = A!AtLeast(b.whole - (b.path - path1) + (wait1 - b.queue) \div 2, 100)
      /\ A!Advised(b, n, w, c, r, q) = A!AtLeast(b.whole - (b.path - path2) + (wait2 - b.queue) \div 2, 100)
  BY DEF A!Advised, Slowed, Waited
<1> HIDE DEF b
<1>3. f \in Nat /\ g \in Nat /\ c \in Nat \ {0}
  OBVIOUS
<1>4. h \in Nat
  <2>1. b.queue * q \in Nat
    BY <1>1
  <2> QED
    BY <2>1
<1> HIDE DEF f, g, h
<1>5. path1 \in Int /\ path2 \in Int /\ path1 <= path2
  <2> DEFINE slow1 == Slowed(b.path, n, w + 1, f, g)
             slow2 == Slowed(b.path, n, w, f, g)
  <2>1. slow2 \in Int /\ slow1 \in Int /\ slow1 <= slow2
    BY <1>1, <1>3, AdvisedPathShrinks
  <2> HIDE DEF slow1, slow2
  <2>2. A!AtLeast(slow1, 100) \in Int /\ A!AtLeast(slow2, 100) \in Int /\ A!AtLeast(slow1, 100) <= A!AtLeast(slow2, 100)
    BY <2>1, AtLeastGrows
  <2> QED
    BY <2>2 DEF slow1, slow2
<1>6. wait1 \in Int /\ wait2 \in Int /\ wait1 <= wait2
  <2>1. Waited(h, n, w, c) \in Int /\ Waited(h, n, w + 1, c) \in Int /\ wait1 <= wait2
    BY <1>3, <1>4, AdvisedWaitShrinks
  <2> QED
    BY <2>1, AtLeastBounds
<1> HIDE DEF path1, path2, wait1, wait2
<1>7. /\ (wait1 - b.queue) \div 2 \in Int /\ (wait2 - b.queue) \div 2 \in Int
      /\ (wait1 - b.queue) \div 2 <= (wait2 - b.queue) \div 2
  <2> DEFINE gap1 == wait1 - b.queue
             gap2 == wait2 - b.queue
  <2>1. gap1 \in Int /\ gap2 \in Int /\ gap1 <= gap2 /\ 2 \in Nat \ {0}
    BY <1>1, <1>6
  <2> HIDE DEF gap1, gap2
  <2>2. gap1 \div 2 \in Int /\ gap2 \div 2 \in Int /\ gap1 \div 2 <= gap2 \div 2
    BY <2>1, QuotientGrows
  <2> QED
    BY <2>2 DEF gap1, gap2
<1> DEFINE long1 == b.whole - (b.path - path1) + (wait1 - b.queue) \div 2
           long2 == b.whole - (b.path - path2) + (wait2 - b.queue) \div 2
<1>8. long1 \in Int /\ long2 \in Int /\ long1 <= long2
  BY <1>1, <1>5, <1>7
<1>9. A!Advised(b, n, w + 1, c, r, q) = A!AtLeast(long1, 100) /\ A!Advised(b, n, w, c, r, q) = A!AtLeast(long2, 100)
  BY <1>2
<1> HIDE DEF long1, long2
<1> QED
  BY <1>8, <1>9, AtLeastGrows DEF b

\* A tab is shown with an analysis of a pipeline.
LEMMA ShownHasData ==
  ASSUME A!TypeOK, tab \in {"optimization", "scheduling"}, A!View(tab) = "shown"
  PROVE  model[tab] \in Pipeline /\ model["optimization"] \in Pipeline \cup {None} /\ model["performance"] \in Pipeline \cup {None}
         /\ pool \in Nat \ {0}
BY DEF A!TypeOK, A!Analysis, A!View

\* The advice takes the pool from the performance analysis, or else has one worker.
LEMMA BasePoolCounts ==
  ASSUME model["performance"] \in Pipeline \cup {None}
  PROVE  A!BasePool \in Nat \ {0}
PROOF
<1> DEFINE p == model["performance"]
<1>1. A!BasePool = IF p = None THEN 1 ELSE LET n == Data[p].base.workers IN IF n = None THEN 1 ELSE n
  BY DEF A!BasePool, A!PoolOf
<1>2. p \in Pipeline => Data[p].base.workers \in Nat \ {0}
  BY BaseFacts
<1> HIDE DEF p
<1> QED
  BY <1>1, <1>2 DEF p

LEMMA UntouchedIsAsItWas == ASSUME AnalysisInv PROVE A!UntouchedGainsNothing
PROOF
<1> SUFFICES ASSUME tab \in {"optimization", "scheduling"}, A!View(tab) = "shown", A!PoolOf(tab, model) # None, ~touched
             PROVE  A!Saved(Data[model[tab]].base, A!Simulated) = 0
  BY DEF A!UntouchedGainsNothing
<1>1. pool = A!PoolOf(tab, model)
  BY DEF AnalysisInv, PoolTold
<1>2. model[tab] \in Pipeline /\ model["performance"] \in Pipeline \cup {None} /\ pool \in Nat \ {0}
  BY AnalysisGives, ShownHasData
<1>3. CASE tab = "optimization"
  <2>1. pool = Data[model[tab]].base.workers
    BY <1>1, <1>2, <1>3 DEF A!PoolOf
  <2>2. A!Simulated = A!Optimized(Data[model[tab]].base, Data[model[tab]].base.workers, 2, 4, 4)
    BY <1>3, <2>1 DEF A!Simulated
  <2> QED
    BY <1>2, <2>2, OptimizedAsItIs
<1>4. CASE tab = "scheduling"
  <2>1. A!BasePool = pool
    BY <1>1, <1>4 DEF A!BasePool
  <2>2. A!Simulated = A!Advised(Data[model[tab]].base, pool, pool, 10, 10, 20)
    BY <1>4, <2>1 DEF A!Simulated
  <2> QED
    BY <1>2, <2>2, AdvisedAsItIs
<1> QED
  BY <1>3, <1>4

LEMMA MoreWorkersHelp == ASSUME A!TypeOK PROVE A!MoreWorkersNeverHurt
PROOF
<1> SUFFICES ASSUME tab \in {"optimization", "scheduling"}, A!View(tab) = "shown"
             PROVE  IF tab = "optimization"
                      THEN \A c \in {1, 2, 8} : \A r, q \in {0, 4, 8} :
                             A!Optimized(Data[model[tab]].base, pool + 1, c, r, q) <= A!Optimized(Data[model[tab]].base, pool, c, r, q)
                      ELSE \A c \in {5, 10, 30} : \A r, q \in {0, 10, 20} :
                             A!Advised(Data[model[tab]].base, A!BasePool, pool + 1, c, r, q)
                               <= A!Advised(Data[model[tab]].base, A!BasePool, pool, c, r, q)
  BY DEF A!MoreWorkersNeverHurt
<1>1. model[tab] \in Pipeline /\ model["performance"] \in Pipeline \cup {None} /\ pool \in Nat \ {0}
  BY ShownHasData
<1>2. A!BasePool \in Nat \ {0}
  BY <1>1, BasePoolCounts
<1>3. ASSUME NEW c \in {1, 2, 8}, NEW r \in {0, 4, 8}, NEW q \in {0, 4, 8}
      PROVE  A!Optimized(Data[model[tab]].base, pool + 1, c, r, q) <= A!Optimized(Data[model[tab]].base, pool, c, r, q)
  BY <1>1, OptimizedShrinks
<1>4. ASSUME NEW c \in {5, 10, 30}, NEW r \in {0, 10, 20}, NEW q \in {0, 10, 20}
      PROVE  A!Advised(Data[model[tab]].base, A!BasePool, pool + 1, c, r, q)
               <= A!Advised(Data[model[tab]].base, A!BasePool, pool, c, r, q)
  <2>1. c \in 1 .. 38 /\ r \in Nat /\ q \in Nat
    OBVIOUS
  <2> QED
    BY <1>1, <1>2, <2>1, AdvisedShrinks
<1> QED
  BY <1>3, <1>4

----------------------------------------------------------------------------
(* The lists of faults (ProcessingWorkspace.jsx, ErrorPanel.jsx).          *)

PageOK ==
  /\ server \in P!Rows /\ fetched \in P!Rows /\ ends \in 0 .. MaxEnds
  /\ moment \in 0 .. Len(Moments) /\ errorsTab \in BOOLEAN /\ focus \in P!Task \cup {0}

ListsOK ==
  /\ expanded \in [P!Panel -> P!Task \cup {0}] /\ busy \in [P!Panel -> P!Task \cup {0}]
  /\ told \in [P!Panel -> SUBSET P!Task] /\ calls \subseteq P!Call

\* A list hears of one retry at most, that of the task it waits for; it hears of that one
\* and tells no error of it.
WaitsOK ==
  /\ \A c \in calls : c.heard => busy[c.panel] = c.task
  /\ \A c, d \in calls : c.heard /\ d.heard /\ c.panel = d.panel => c = d
  /\ \A p \in P!Panel : busy[p] # 0 => \E c \in calls : c.heard /\ c.panel = p
  /\ \A p \in P!Panel : busy[p] \notin told[p]

FaultsInv == PageOK /\ ListsOK /\ WaitsOK /\ P!SelectedIsExpanded

LEMMA PageFacts ==
  /\ MaxEnds \in Nat /\ Moments \in Seq(P!Rows) /\ Len(Moments) \in Nat
  /\ \A m \in 1 .. Len(Moments) : Moments[m] \in P!Rows
  /\ \A t \in P!Task : t # 0
BY PartsAssumption DEF PartsAssumption, P!PageAssumption, P!Task

\* The stages of the page: seven.
LEMMA StepFacts ==
  /\ Len(StepOf) \in Nat /\ P!Task = 1 .. Len(StepOf) /\ \A t \in P!Task : StepOf[t] \in -1 .. 6
  /\ Len(P!STAGE_LABELS) = 7
PROOF
<1>1. Len(P!STAGE_LABELS) = 7
  BY DEF P!STAGE_LABELS
<1> QED
  BY <1>1, PartsAssumption DEF PartsAssumption, P!PageAssumption, P!Task

LEMMA StepInside ==
  ASSUME NEW t \in P!Task, NEW at \in 0 .. 7
  PROVE  P!Step(at, t) \in 0 .. 7
BY StepFacts DEF P!Step

\* resolveActiveStep goes from task to task.
LEMMA StepsGoOn ==
  \E r : /\ r[0] = 0 /\ \A i \in 0 .. Len(StepOf) - 1 : r[i + 1] = P!Step(r[i], i + 1)
         /\ \A i \in 0 .. Len(StepOf) : r[i] \in 0 .. 7
         /\ P!resolveActiveStep = IF r[Len(StepOf)] < 7 THEN r[Len(StepOf)] ELSE 6
PROOF
<1> DEFINE n == Len(StepOf)
           F == [t \in 1 .. n |-> [at \in 0 .. 7 |-> P!Step(at, t)]]
           tasks == [t \in P!Task |-> t]
           Turn(f) == [s \in SUBSET (DOMAIN tasks) |->
                         IF s = {} THEN 0 ELSE P!Step(f[s \ {P!Max(s)}], tasks[P!Max(s)])]
           iter == CHOOSE f : f = Turn(f)
<1>1. n \in Nat /\ F \in [1 .. n -> [0 .. 7 -> 0 .. 7]] /\ P!Task = 1 .. n
  BY StepFacts, StepInside
<1>2. \A s : P!Max(s) = Max(s)
  BY DEF P!Max, Max
<1>3. PICK h \in [SUBSET (1 .. n) -> 0 .. 7] :
        \A s \in SUBSET (1 .. n) : h[s] = IF s = {} THEN 0 ELSE F[Max(s)][h[s \ {Max(s)}]]
  <2> DEFINE A7 == 0 .. 7
  <2>1. n \in Nat /\ 0 \in A7 /\ F \in [1 .. n -> [A7 -> A7]]
    BY <1>1
  <2> HIDE DEF n, F, A7
  <2>2. HasChain(n, A7, 0, F)
    BY <2>1, ChainExists
  <2> QED
    BY <2>2 DEF HasChain, A7
<1>4. ASSUME NEW s \in SUBSET (1 .. n), s # {} PROVE Max(s) \in s
  BY <1>1, <1>4, MaxIsIn
<1>5. DOMAIN tasks = 1 .. n /\ \A t \in 1 .. n : tasks[t] = t
  BY <1>1
<1>6. iter = Turn(iter)
  <2> SUFFICES h = Turn(h)
    OBVIOUS
  <2> SUFFICES ASSUME NEW s \in SUBSET (1 .. n)
               PROVE  h[s] = IF s = {} THEN 0 ELSE P!Step(h[s \ {P!Max(s)}], tasks[P!Max(s)])
    BY <1>5
  <2>1. s # {} => h[s \ {Max(s)}] \in 0 .. 7 /\ Max(s) \in 1 .. n
    BY <1>4
  <2> HIDE DEF tasks
  <2> QED
    BY <1>2, <1>3, <1>5, <2>1
<1> DEFINE r == [i \in 0 .. n |-> iter[1 .. i]]
<1>7. P!resolveActiveStep = IF r[n] < 7 THEN r[n] ELSE 6
  <2>1. P!resolveActiveStep = IF iter[DOMAIN tasks] < 7 THEN iter[DOMAIN tasks] ELSE 7 - 1
    BY StepFacts DEF P!resolveActiveStep, P!FoldLeft, P!MapThenFoldSet
  <2> HIDE DEF iter
  <2> QED
    BY <1>1, <1>5, <2>1
<1>8. r[0] = 0
  <2>1. 1 .. 0 = {}
    OBVIOUS
  <2>2. iter[{}] = 0
    BY <1>5, <1>6
  <2> HIDE DEF iter
  <2> QED
    BY <1>1, <2>1, <2>2
<1>9. ASSUME NEW i \in 0 .. n - 1 PROVE r[i + 1] = P!Step(r[i], i + 1)
  <2>1. i \in Nat /\ 1 .. i + 1 \in SUBSET (1 .. n) /\ 1 .. i + 1 # {} /\ i \in 0 .. n /\ i + 1 \in 0 .. n
    BY <1>1
  <2>2. Max(1 .. i + 1) = i + 1 /\ (1 .. i + 1) \ {i + 1} = 1 .. i
    BY <1>1, PrefixFacts
  <2>3. iter[1 .. i + 1] = P!Step(iter[(1 .. i + 1) \ {P!Max(1 .. i + 1)}], P!Max(1 .. i + 1))
    <3> HIDE DEF iter, tasks
    <3> QED
      BY <1>4, <1>5, <1>6, <1>2, <2>1, <2>2
  <2> HIDE DEF iter
  <2> QED
    BY <1>2, <2>1, <2>2, <2>3
<1>10. \A i \in 0 .. n : r[i] \in 0 .. 7
  <2> DEFINE K == {i \in 0 .. n : r[i] \in 0 .. 7}
  <2>1. 0 \in K
    BY <1>1, <1>8
  <2>2. ASSUME NEW i \in 0 .. n - 1, i \in K PROVE i + 1 \in K
    <3>1. i + 1 \in P!Task /\ r[i] \in 0 .. 7 /\ i + 1 \in 0 .. n
      BY <1>1, <2>2
    <3> HIDE DEF r
    <3> QED
      BY <3>1, <1>9, StepInside
  <2> HIDE DEF K
  <2>3. \A i \in 0 .. n : i \in K
    BY <1>1, <2>1, <2>2, UpTo
  <2> QED
    BY <2>3 DEF K
<1> QED
  <2> HIDE DEF r
  <2> QED
    BY <1>7, <1>8, <1>9, <1>10

\* With one task after the other the stage named is the one that runs.
LEMMA StageIsTold == P!StageRuns
PROOF
<1> SUFFICES ASSUME NEW t \in P!Task, StepOf[t] # -1, P!Shown.status[t] = "running",
                    \A u \in P!Task : u # t => P!Shown.status[u] = (IF u < t THEN "completed" ELSE "pending")
             PROVE  P!resolveActiveStep = StepOf[t]
  BY DEF P!StageRuns
<1> DEFINE n == Len(StepOf)
<1>1. n \in Nat /\ P!Task = 1 .. n /\ StepOf[t] \in 0 .. 6 /\ t \in 1 .. n
  BY StepFacts
<1>2. PICK r : /\ r[0] = 0 /\ \A i \in 0 .. n - 1 : r[i + 1] = P!Step(r[i], i + 1)
               /\ \A i \in 0 .. n : r[i] \in 0 .. 7
               /\ P!resolveActiveStep = IF r[n] < 7 THEN r[n] ELSE 6
  BY StepsGoOn
<1>3. r[t] = StepOf[t]
  <2>1. t - 1 \in 0 .. n - 1 /\ (t - 1) + 1 = t
    BY <1>1
  <2>2. r[t] = P!Step(r[t - 1], t)
    BY <1>2, <2>1
  <2> QED
    BY <2>2 DEF P!Step
<1> DEFINE K == {i \in 0 .. n : i >= t => r[i] = StepOf[t]}
<1>4. 0 \in K
  BY <1>1
<1>5. ASSUME NEW i \in 0 .. n - 1, i \in K PROVE i + 1 \in K
  <2>1. i + 1 \in 0 .. n
    BY <1>1
  <2>2. CASE i + 1 < t
    BY <2>1, <2>2, <1>1
  <2>3. CASE i + 1 = t
    BY <2>1, <2>3, <1>3
  <2>4. CASE i + 1 > t
    <3>1. r[i] = StepOf[t] /\ i + 1 \in P!Task /\ i + 1 # t /\ ~(i + 1 < t)
      BY <1>1, <1>5, <2>4
    <3>2. P!Shown.status[i + 1] = "pending"
      BY <3>1
    <3>3. r[i + 1] = P!Step(r[i], i + 1)
      BY <1>2
    <3>4. r[i + 1] = r[i]
      BY <3>2, <3>3 DEF P!Step
    <3> QED
      BY <3>1, <3>4, <2>1
  <2> QED
    BY <1>1, <2>2, <2>3, <2>4
<1>6. \A i \in 0 .. n : i \in K
  <2> HIDE DEF K
  <2> QED
    BY <1>1, <1>4, <1>5, UpTo
<1>7. r[n] = StepOf[t]
  BY <1>1, <1>6
<1> QED
  BY <1>1, <1>2, <1>7

LEMMA CallTyped ==
  ASSUME NEW c
  PROVE  c \in P!Call <=> /\ c = [panel |-> c.panel, task |-> c.task, heard |-> c.heard, result |-> c.result]
                          /\ c.panel \in P!Panel /\ c.task \in P!Task /\ c.heard \in BOOLEAN
                          /\ c.result \in {"none", "accepted", "refused"}
BY DEF P!Call

\* What is shown, before a step and after it, is rows.
LEMMA ShownTyped == (PageOK => P!Shown \in P!Rows) /\ (PageOK' => P!Shown' \in P!Rows)
PROOF
<1>1. ASSUME NEW m \in 0 .. Len(Moments), NEW d \in P!Rows PROVE (IF m = 0 THEN d ELSE Moments[m]) \in P!Rows
  <2>1. m # 0 => m \in 1 .. Len(Moments)
    BY PageFacts
  <2> QED
    BY <2>1, PageFacts
<1> QED
  BY <1>1 DEF P!Shown, PageOK

\* A row of a list is a task, and a list that is there has a first one.
LEMMA RowsAreTasks ==
  ASSUME NEW r \in P!Rows
  PROVE  /\ P!Range(r.faults) \subseteq P!Task
         /\ r.faults # <<>> => Head(r.faults) \in P!Task
PROOF
<1> DEFINE s == r.faults
<1>1. s \in Seq(P!Task)
  BY DEF P!Rows
<1> HIDE DEF s
<1>2. P!Range(s) \subseteq P!Task
  BY <1>1 DEF P!Range
<1>3. s # <<>> => Head(s) \in P!Task
  BY <1>1
<1> QED
  BY <1>2, <1>3 DEF s

LEMMA UnfoldTyped ==
  ASSUME PageOK', ListsOK, NEW p \in P!Panel, P!Shown'.faults # <<>>
  PROVE  P!Unfold(p) \in P!Task \cup {0}
PROOF
<1>1. P!Shown' \in P!Rows
  BY ShownTyped
<1>2. /\ P!Range(P!Shown'.faults) \subseteq P!Task
      /\ Head(P!Shown'.faults) \in P!Task
  BY <1>1, RowsAreTasks
<1>3. expanded[p] \in P!Task \cup {0}
  BY DEF ListsOK
<1> QED
  BY <1>2, <1>3 DEF P!Unfold

\* A task is retried: what is left of the rows without it.
LEMMA WithoutTyped ==
  ASSUME NEW s \in Seq(P!Task), NEW t PROVE P!Without(s, t) \in Seq(P!Task)
PROOF
<1> DEFINE here == {i \in 1 .. Len(s) : s[i] = t}
<1>1. CASE here = {}
  BY <1>1 DEF P!Without, P!RemoveFirst
<1>2. CASE here # {}
  <2>1. here \in SUBSET Nat
    OBVIOUS
  <2>2. PICK n \in here : \A m \in here : n <= m
    BY <1>2, <2>1, LeastExists
  <2>3. P!SelectInSeq(s, LAMBDA v : v = t) \in here
    BY <1>2, <2>2 DEF P!SelectInSeq, P!Min
  <2> DEFINE i == P!SelectInSeq(s, LAMBDA v : v = t)
  <2>4. P!Without(s, t) = P!RemoveAt(s, i)
    BY <1>2 DEF P!Without, P!RemoveFirst
  <2>5. i \in 1 .. Len(s)
    BY <2>3
  <2> DEFINE front == SubSeq(s, 1, i - 1)
             rest  == SubSeq(s, i + 1, Len(s))
  <2>6. P!RemoveAt(s, i) = front \o rest
    BY DEF P!RemoveAt
  <2> HIDE DEF i, here
  <2>7. \A k \in 1 .. Len(s) : s[k] \in P!Task
    OBVIOUS
  <2>8. front \in Seq(P!Task)
    BY <2>5, <2>7, SubSeqProperties
  <2>9. rest \in Seq(P!Task)
    BY <2>5, <2>7, SubSeqProperties
  <2> HIDE DEF front, rest
  <2>10. front \o rest \in Seq(P!Task)
    BY <2>8, <2>9, ConcatProperties, ZenonT(20)
  <2> QED
    BY <2>4, <2>6, <2>10
<1> QED
  BY <1>1, <1>2

LEMMA FaultsStart == ASSUME P!Init PROVE FaultsInv
PROOF
<1>1. server \in P!Rows /\ fetched \in P!Rows
  <2>1. <<>> \in Seq(P!Task)
    OBVIOUS
  <2> QED
    BY <2>1 DEF P!Init, P!Rows, P!Status
<1>2. errorsTab \in BOOLEAN
  BY Zenon DEF P!Init
<1>3. PageOK
  BY <1>1, <1>2, PageFacts DEF P!Init, PageOK
<1>4. ListsOK /\ WaitsOK
  BY DEF P!Init, ListsOK, WaitsOK
<1>5. P!SelectedIsExpanded
  BY DEF P!Init, P!SelectedIsExpanded
<1> QED
  BY <1>3, <1>4, <1>5 DEF FaultsInv

LEMMA FaultsGive == ASSUME FaultsInv PROVE P!TypeOK /\ P!SelectedIsExpanded /\ P!WaitsForItsOwn
PROOF
<1>1. P!TypeOK /\ P!SelectedIsExpanded
  BY DEF FaultsInv, PageOK, ListsOK, P!TypeOK
<1>2. ASSUME NEW p \in P!Panel
      PROVE  LET heard == {c \in calls : c.panel = p /\ c.heard}
             IN /\ {c.task : c \in heard} = {busy[p]} \ {0} /\ P!Cardinality(heard) <= 1
                /\ busy[p] \notin told[p]
  <2> DEFINE heard == {c \in calls : c.panel = p /\ c.heard}
  <2>1. \A c \in heard : c.task = busy[p] /\ c.task \in P!Task /\ c.task # 0
    BY PageFacts, CallTyped DEF FaultsInv, WaitsOK, ListsOK
  <2>2. \A c, d \in heard : c = d
    BY DEF FaultsInv, WaitsOK
  <2>3. busy[p] # 0 => heard # {}
    BY DEF FaultsInv, WaitsOK
  <2>4. busy[p] \notin told[p]
    BY DEF FaultsInv, WaitsOK
  <2>5. P!Cardinality(heard) = Cardinality(heard)
    BY DEF P!Cardinality, Cardinality
  <2> HIDE DEF heard
  <2>6. Cardinality(heard) <= 1
    <3>1. CASE heard = {}
      <4>1. Cardinality({}) = 0
        BY FS_EmptySet
      <4> QED
        BY <3>1, <4>1
    <3>2. CASE heard # {}
      <4>1. PICK c \in heard : TRUE
        BY <3>2
      <4>2. heard = {c}
        BY <2>2, <4>1
      <4>3. Cardinality({c}) = 1
        BY FS_Singleton
      <4> QED
        BY <4>2, <4>3
    <3> QED
      BY <3>1, <3>2
  <2>7. {c.task : c \in heard} = {busy[p]} \ {0}
    BY <2>1, <2>3
  <2> QED
    BY <2>4, <2>5, <2>6, <2>7 DEF heard
<1> QED
  BY <1>1, <1>2 DEF P!WaitsForItsOwn

\* What is drawn anew keeps what a list waits for, unless the list is gone.
LEMMA CommitKeeps ==
  ASSUME PageOK', ListsOK, WaitsOK, NEW redrawn, P!Commit(redrawn)
  PROVE  ListsOK' /\ WaitsOK'
PROOF
<1> DEFINE there(p) == P!Mounted(p)'
           made(c) == [c EXCEPT !.heard = @ /\ there(c.panel)]
<1>1. /\ expanded' = [p \in P!Panel |-> IF ~there(p) THEN 0
                                        ELSE IF redrawn \/ ~P!Mounted(p) THEN P!Unfold(p) ELSE expanded[p]]
      /\ busy' = [p \in P!Panel |-> IF there(p) THEN busy[p] ELSE 0]
      /\ told' = [p \in P!Panel |-> IF there(p) THEN told[p] ELSE {}]
      /\ calls' = {made(c) : c \in calls}
  BY DEF P!Commit
<1>2. ASSUME NEW p \in P!Panel, there(p) PROVE P!Unfold(p) \in P!Task \cup {0}
  BY <1>2, UnfoldTyped DEF P!Mounted
<1>3. ASSUME NEW c \in calls
      PROVE  /\ made(c) \in P!Call /\ c.panel \in P!Panel
             /\ made(c).panel = c.panel /\ made(c).task = c.task
             /\ made(c).heard <=> c.heard /\ there(c.panel)
  <2>1. c \in P!Call
    BY DEF ListsOK
  <2> DEFINE still == c.heard /\ there(c.panel)
  <2>2. made(c) = [c EXCEPT !.heard = still]
    OBVIOUS
  <2>3. still \in BOOLEAN
    BY Zenon
  <2> HIDE DEF still, made
  <2>4. /\ made(c) \in P!Call /\ made(c).panel = c.panel /\ made(c).task = c.task /\ made(c).heard = still
        /\ c.panel \in P!Panel
    BY <2>1, <2>2, <2>3 DEF P!Call
  <2> QED
    BY <2>4 DEF still
<1> HIDE DEF there, made
<1>4. calls' \subseteq P!Call
  BY <1>1, <1>3
<1>5. expanded' \in [P!Panel -> P!Task \cup {0}]
  BY <1>1, <1>2 DEF ListsOK
<1>6. busy' \in [P!Panel -> P!Task \cup {0}] /\ told' \in [P!Panel -> SUBSET P!Task]
  BY <1>1 DEF ListsOK
<1>7. ASSUME NEW d \in calls', d.heard
      PROVE  \E c \in calls : /\ d = made(c) /\ c.heard /\ there(c.panel)
                              /\ d.panel = c.panel /\ d.task = c.task /\ c.panel \in P!Panel
  <2>1. PICK c \in calls : d = made(c)
    BY <1>1, <1>3
  <2>2. c.heard /\ there(c.panel)
    BY <1>3, <1>7, <2>1
  <2> QED
    BY <1>3, <2>1, <2>2
<1>8. \A d \in calls' : d.heard => busy'[d.panel] = d.task
  BY <1>1, <1>7 DEF WaitsOK
<1>9. \A c, d \in calls' : c.heard /\ d.heard /\ c.panel = d.panel => c = d
  <2> SUFFICES ASSUME NEW c \in calls', NEW d \in calls', c.heard, d.heard, c.panel = d.panel PROVE c = d
    OBVIOUS
  <2>1. PICK a \in calls : c = made(a) /\ a.heard /\ c.panel = a.panel
    BY <1>7
  <2>2. PICK b \in calls : d = made(b) /\ b.heard /\ d.panel = b.panel
    BY <1>7
  <2>3. a = b
    BY <2>1, <2>2 DEF WaitsOK
  <2> QED
    BY <2>1, <2>2, <2>3
<1>10. ASSUME NEW p \in P!Panel, busy'[p] # 0 PROVE \E d \in calls' : d.heard /\ d.panel = p
  <2>1. there(p) /\ busy[p] # 0
    BY <1>1, <1>10
  <2>2. PICK c \in calls : c.heard /\ c.panel = p
    BY <2>1 DEF WaitsOK
  <2>3. made(c) \in calls'
    BY <1>1, <1>3
  <2>4. made(c).heard /\ made(c).panel = p
    BY <1>3, <2>1, <2>2
  <2> QED
    BY <2>3, <2>4
<1>11. \A p \in P!Panel : busy'[p] \notin told'[p]
  BY <1>1 DEF WaitsOK
<1> QED
  BY <1>4, <1>5, <1>6, <1>8, <1>9, <1>10, <1>11 DEF ListsOK, WaitsOK

\* Where everything is drawn anew the selected task is unfolded.
LEMMA RedrawnUnfolds == ASSUME P!Commit(TRUE) PROVE P!SelectedIsExpanded'
PROOF
<1>1. ASSUME NEW p \in P!Panel, P!Mounted(p)', moment' = 0, focus' \in P!Range(P!Shown'.faults)
      PROVE  expanded'[p] = focus'
  <2>1. expanded'[p] = P!Unfold(p)
    BY <1>1 DEF P!Commit
  <2> QED
    BY <1>1, <2>1 DEF P!Unfold
<1> QED
  BY <1>1 DEF P!SelectedIsExpanded

\* A call that is answered at the server, or lost, is still heard of where it was.
LEMMA ServedKeeps ==
  ASSUME ListsOK, WaitsOK, NEW c \in calls, NEW r \in {"accepted", "refused"},
         calls' = (calls \ {c}) \cup {[c EXCEPT !.result = r]}, UNCHANGED <<expanded, busy, told>>
  PROVE  ListsOK' /\ WaitsOK'
PROOF
<1> DEFINE d == [c EXCEPT !.result = r]
<1>1. /\ d \in P!Call /\ d.panel = c.panel /\ d.task = c.task /\ d.heard = c.heard
      /\ c.panel \in P!Panel
  BY DEF ListsOK, P!Call
<1> HIDE DEF d
<1>2. calls' = (calls \ {c}) \cup {d}
  BY DEF d
<1>3. ListsOK'
  BY <1>1, <1>2 DEF ListsOK
<1>4. \A a \in calls' : a.heard => busy'[a.panel] = a.task
  BY <1>1, <1>2 DEF WaitsOK
<1>5. \A a, b \in calls' : a.heard /\ b.heard /\ a.panel = b.panel => a = b
  BY <1>1, <1>2 DEF WaitsOK
<1>6. ASSUME NEW p \in P!Panel, busy'[p] # 0 PROVE \E a \in calls' : a.heard /\ a.panel = p
  <2>1. PICK a \in calls : a.heard /\ a.panel = p
    BY <1>6 DEF WaitsOK
  <2>2. CASE a = c
    BY <1>1, <1>2, <2>1, <2>2
  <2>3. CASE a # c
    BY <1>2, <2>1, <2>3
  <2> QED
    BY <2>2, <2>3
<1> QED
  BY <1>3, <1>4, <1>5, <1>6 DEF WaitsOK

LEMMA RetriedTyped ==
  ASSUME server \in P!Rows, NEW t \in P!Task, P!Retried(t) PROVE server' \in P!Rows
PROOF
<1>1. server.status \in [P!Task -> P!Status] /\ server.faults \in Seq(P!Task)
  BY DEF P!Rows
<1>2. P!Without(server.faults, t) \in Seq(P!Task)
  BY <1>1, WithoutTyped
<1>3. [server.status EXCEPT ![t] = "pending"] \in [P!Task -> P!Status]
  BY <1>1 DEF P!Status
<1>4. server' = [status |-> [server.status EXCEPT ![t] = "pending"], faults |-> P!Without(server.faults, t)]
  BY DEF P!Retried
<1> QED
  BY <1>2, <1>3, <1>4 DEF P!Rows

\* What happens at the server alone is typed; no list hears of it.
LEMMA ServerSteps ==
  ASSUME FaultsInv, NEW t \in P!Task, P!Progress(t) \/ P!RetryElsewhere(t)
  PROVE  FaultsInv'
PROOF
<1>1. UNCHANGED <<fetched, moment, errorsTab, focus, expanded, busy, told, calls>>
  BY DEF P!Progress, P!RetryElsewhere, P!lists
<1>2. server.status \in [P!Task -> P!Status] /\ server.faults \in Seq(P!Task)
      /\ server = [status |-> server.status, faults |-> server.faults]
  BY DEF FaultsInv, PageOK, P!Rows
<1>3. server' \in P!Rows /\ ends' \in 0 .. MaxEnds
  <2>1. CASE P!RetryElsewhere(t)
    BY <2>1, RetriedTyped DEF P!RetryElsewhere, FaultsInv, PageOK
  <2>2. ASSUME NEW s \in P!Status, server' = [server EXCEPT !.status[t] = s] PROVE server' \in P!Rows
    <3>1. [server.status EXCEPT ![t] = s] \in [P!Task -> P!Status]
      BY <1>2
    <3>2. server' = [status |-> [server.status EXCEPT ![t] = s], faults |-> server.faults]
      BY <1>2, <2>2
    <3> QED
      BY <1>2, <3>1, <3>2 DEF P!Rows
  <2>3. ASSUME server' = [status |-> [server.status EXCEPT ![t] = "failed"], faults |-> <<t>> \o server.faults]
        PROVE  server' \in P!Rows
    <3>1. [server.status EXCEPT ![t] = "failed"] \in [P!Task -> P!Status]
      BY <1>2 DEF P!Status
    <3> DEFINE s == server.faults
    <3>2. s \in Seq(P!Task)
      BY <1>2
    <3> HIDE DEF s
    <3>3. <<t>> \o s \in Seq(P!Task)
      BY <3>2
    <3> QED
      BY <2>3, <3>1, <3>3 DEF P!Rows, s
  <2>4. CASE P!Progress(t)
    <3>1. "running" \in P!Status /\ "completed" \in P!Status
      BY DEF P!Status
    <3>2. ends' \in 0 .. MaxEnds
      BY <2>4, PageFacts DEF P!Progress, FaultsInv, PageOK
    <3>3. \/ server' = [server EXCEPT !.status[t] = "running"]
          \/ server' = [server EXCEPT !.status[t] = "completed"]
          \/ server' = [status |-> [server.status EXCEPT ![t] = "failed"], faults |-> <<t>> \o server.faults]
      BY <2>4 DEF P!Progress
    <3> QED
      BY <2>2, <2>3, <3>1, <3>2, <3>3
  <2> QED
    BY <2>1, <2>4
<1>4. PageOK'
  BY <1>1, <1>3 DEF FaultsInv, PageOK
<1>5. ListsOK' /\ WaitsOK'
  BY <1>1 DEF FaultsInv, ListsOK, WaitsOK
<1>6. P!SelectedIsExpanded'
  BY <1>1 DEF FaultsInv, P!SelectedIsExpanded, P!Mounted, P!Shown
<1> QED
  BY <1>4, <1>5, <1>6 DEF FaultsInv

LEMMA AnswersAtServer ==
  ASSUME FaultsInv, NEW c \in calls, P!RetryServed(c) \/ P!RetryLost(c)
  PROVE  FaultsInv'
PROOF
<1>1. /\ UNCHANGED <<fetched, moment, errorsTab, focus, expanded, busy, told>>
  BY DEF P!RetryServed, P!RetryLost, P!lists
<1>2. \E r \in {"accepted", "refused"} : calls' = (calls \ {c}) \cup {[c EXCEPT !.result = r]}
  BY DEF P!RetryServed, P!RetryLost
<1>3. c.task \in P!Task
  BY DEF FaultsInv, ListsOK, P!Call
<1>4. server' \in P!Rows /\ ends' \in 0 .. MaxEnds
  <2>1. ends' \in 0 .. MaxEnds
    BY PageFacts DEF P!RetryServed, P!RetryLost, FaultsInv, PageOK
  <2>2. server' = server \/ P!Retried(c.task)
    BY DEF P!RetryServed, P!RetryLost
  <2> QED
    BY <1>3, <2>1, <2>2, RetriedTyped DEF FaultsInv, PageOK
<1>5. PageOK'
  BY <1>1, <1>4 DEF FaultsInv, PageOK
<1>6. ListsOK' /\ WaitsOK'
  BY <1>1, <1>2, ServedKeeps DEF FaultsInv
<1>7. P!SelectedIsExpanded'
  BY <1>1 DEF FaultsInv, P!SelectedIsExpanded, P!Mounted, P!Shown
<1> QED
  BY <1>5, <1>6, <1>7 DEF FaultsInv

\* A poll, a step of a replay and a selection have everything drawn anew.
LEMMA RedrawingSteps ==
  ASSUME FaultsInv,
         \/ P!Fetch \/ \E m \in 0 .. Len(Moments) : P!Replay(m)
         \/ \E t \in P!Task \cup {0} : P!setSelectedTaskId(t)
  PROVE  FaultsInv'
PROOF
<1>1. P!Commit(TRUE)
  BY DEF P!Fetch, P!Replay, P!setSelectedTaskId
<1>2. PageOK'
  BY DEF P!Fetch, P!Replay, P!setSelectedTaskId, FaultsInv, PageOK
<1>3. ListsOK' /\ WaitsOK'
  BY <1>1, <1>2, CommitKeeps DEF FaultsInv
<1>4. P!SelectedIsExpanded'
  BY <1>1, RedrawnUnfolds
<1> QED
  BY <1>2, <1>3, <1>4 DEF FaultsInv

\* The developer panel opens or closes its list.
LEMMA TabStep == ASSUME FaultsInv, P!setActiveTab PROVE FaultsInv'
PROOF
<1>1. P!Commit(FALSE) /\ UNCHANGED <<server, ends, fetched, moment, focus>> /\ errorsTab' = ~errorsTab
  BY DEF P!setActiveTab
<1>2. errorsTab' \in BOOLEAN
  BY <1>1, Zenon
<1>3. PageOK'
  BY <1>1, <1>2 DEF FaultsInv, PageOK
<1>4. ListsOK' /\ WaitsOK'
  BY <1>1, <1>3, CommitKeeps DEF FaultsInv
<1>5. P!Shown' = P!Shown
  BY <1>1 DEF P!Shown
<1>6. ASSUME NEW p \in P!Panel, P!Mounted(p)', moment' = 0, focus' \in P!Range(P!Shown'.faults)
      PROVE  expanded'[p] = focus'
  <2>1. expanded'[p] = IF ~P!Mounted(p) THEN P!Unfold(p) ELSE expanded[p]
    BY <1>1, <1>6 DEF P!Commit
  <2>2. P!Unfold(p) = focus'
    BY <1>6 DEF P!Unfold
  <2>3. P!Mounted(p) => expanded[p] = focus
    BY <1>1, <1>5, <1>6 DEF FaultsInv, P!SelectedIsExpanded
  <2> QED
    BY <1>1, <2>1, <2>2, <2>3
<1> QED
  BY <1>3, <1>4, <1>6 DEF FaultsInv, P!SelectedIsExpanded

\* A click on a row leaves the selected task unfolded in both lists.
LEMMA HeaderStep ==
  ASSUME FaultsInv, NEW p \in P!Panel, NEW t \in P!Task, P!HeaderClick(p, t) PROVE FaultsInv'
PROOF
<1> DEFINE opens(q) == focus' # focus /\ P!Mounted(q) /\ (moment # 0 \/ focus' # 0)
<1>1. /\ UNCHANGED <<server, ends, fetched, moment, errorsTab, busy, told, calls>>
      /\ focus' = (IF expanded[p] = t THEN 0 ELSE t) /\ t \in P!Range(P!Shown.faults) /\ P!Mounted(p)
      /\ expanded' = [q \in P!Panel |-> IF opens(q) THEN P!Unfold(q)
                                        ELSE IF q = p THEN focus' ELSE expanded[q]]
  BY DEF P!HeaderClick
<1>2. PageOK'
  BY <1>1 DEF FaultsInv, PageOK
<1>3. P!Shown' = P!Shown /\ \A q : P!Mounted(q)' = P!Mounted(q)
  BY <1>1 DEF P!Shown, P!Mounted
<1>4. ASSUME NEW q \in P!Panel, opens(q) PROVE P!Unfold(q) \in P!Task \cup {0}
  BY <1>2, <1>3, <1>4, UnfoldTyped DEF FaultsInv, P!Mounted
<1> HIDE DEF opens
<1>5. expanded' \in [P!Panel -> P!Task \cup {0}]
  BY <1>1, <1>4 DEF FaultsInv, ListsOK
<1>6. ListsOK' /\ WaitsOK'
  BY <1>1, <1>5 DEF FaultsInv, ListsOK, WaitsOK
<1>7. ASSUME NEW q \in P!Panel, P!Mounted(q)', moment' = 0, focus' \in P!Range(P!Shown'.faults)
      PROVE  expanded'[q] = focus'
  <2>1. focus' # 0 /\ focus' = t
    <3>1. P!Range(P!Shown'.faults) \subseteq P!Task
      BY <1>2, ShownTyped, RowsAreTasks
    <3> QED
      BY <1>1, <1>7, <3>1, PageFacts
  <2>2. CASE focus' # focus
    <3>1. opens(q)
      BY <1>3, <1>7, <2>1, <2>2 DEF opens
    <3>2. P!Unfold(q) = focus'
      BY <1>7 DEF P!Unfold
    <3> QED
      BY <1>1, <3>1, <3>2
  <2>3. CASE focus' = focus
    <3>1. expanded[p] = focus
      BY <1>1, <1>3, <1>7, <2>3 DEF FaultsInv, P!SelectedIsExpanded
    <3> QED
      BY <1>1, <2>1, <2>3, <3>1
  <2> QED
    BY <2>2, <2>3
<1> QED
  BY <1>2, <1>6, <1>7 DEF FaultsInv, P!SelectedIsExpanded

\* A retry is asked for where none is waited for.
LEMMA RetryStep ==
  ASSUME FaultsInv, NEW p \in P!Panel, NEW t \in P!Task, P!handleTaskRetryClick(p, t) PROVE FaultsInv'
PROOF
<1> DEFINE new == [panel |-> p, task |-> t, heard |-> TRUE, result |-> "none"]
<1>1. /\ UNCHANGED <<server, ends, fetched, moment, errorsTab, focus, expanded>>
      /\ busy' = [busy EXCEPT ![p] = t] /\ told' = [told EXCEPT ![p] = @ \ {t}]
      /\ calls' = calls \cup {new} /\ busy[p] = 0
  BY DEF P!handleTaskRetryClick, P!Retriable
<1>2. new \in P!Call /\ new.heard /\ new.panel = p /\ new.task = t /\ t # 0
  BY PageFacts DEF P!Call
<1> HIDE DEF new
<1>3. PageOK'
  BY <1>1 DEF FaultsInv, PageOK
<1>4. ListsOK'
  BY <1>1, <1>2 DEF FaultsInv, ListsOK
<1>5. \A c \in calls : c.heard => c.panel # p /\ c.panel \in P!Panel
  BY <1>1, PageFacts DEF FaultsInv, WaitsOK, ListsOK, P!Call
<1>6. busy'[p] = t /\ \A q \in P!Panel : q # p => busy'[q] = busy[q] /\ told'[q] = told[q]
  BY <1>1 DEF FaultsInv, ListsOK
<1>7. \A c \in calls' : c.heard => busy'[c.panel] = c.task
  BY <1>1, <1>2, <1>5, <1>6 DEF FaultsInv, WaitsOK
<1>8. \A c, d \in calls' : c.heard /\ d.heard /\ c.panel = d.panel => c = d
  BY <1>1, <1>2, <1>5 DEF FaultsInv, WaitsOK
<1>9. ASSUME NEW q \in P!Panel, busy'[q] # 0 PROVE \E c \in calls' : c.heard /\ c.panel = q
  <2>1. CASE q = p
    BY <1>1, <1>2, <2>1
  <2>2. CASE q # p
    BY <1>1, <1>6, <1>9, <2>2 DEF FaultsInv, WaitsOK
  <2> QED
    BY <2>1, <2>2
<1>10. \A q \in P!Panel : busy'[q] \notin told'[q]
  <2>1. told'[p] = told[p] \ {t}
    BY <1>1 DEF FaultsInv, ListsOK
  <2> QED
    BY <1>6, <2>1 DEF FaultsInv, WaitsOK
<1>11. WaitsOK'
  BY <1>7, <1>8, <1>9, <1>10 DEF WaitsOK
<1>12. P!SelectedIsExpanded'
  BY <1>1 DEF FaultsInv, P!SelectedIsExpanded, P!Mounted, P!Shown
<1> QED
  BY <1>3, <1>4, <1>11, <1>12 DEF FaultsInv

\* The answer frees the list that has waited for it.
LEMMA AnswerStep == ASSUME FaultsInv, NEW c \in calls, P!RetryAnswered(c) PROVE FaultsInv'
PROOF
<1>1. /\ UNCHANGED <<server, ends, fetched, moment, errorsTab, focus>> /\ calls' = calls \ {c}
      /\ busy' = (IF c.heard THEN [busy EXCEPT ![c.panel] = 0] ELSE busy)
      /\ told' = (IF c.heard /\ c.result = "refused" THEN [told EXCEPT ![c.panel] = @ \cup {c.task}] ELSE told)
      /\ expanded' = [q \in P!Panel |-> IF P!Mounted(q) /\ c.result = "accepted" THEN P!Unfold(q) ELSE expanded[q]]
  BY DEF P!RetryAnswered
<1>2. c.panel \in P!Panel /\ c.task \in P!Task
  BY DEF FaultsInv, ListsOK, P!Call
<1>3. PageOK'
  BY <1>1 DEF FaultsInv, PageOK
<1>4. P!Shown' = P!Shown /\ \A q : P!Mounted(q)' = P!Mounted(q)
  BY <1>1 DEF P!Shown, P!Mounted
<1>5. ASSUME NEW q \in P!Panel, P!Mounted(q) PROVE P!Unfold(q) \in P!Task \cup {0}
  BY <1>3, <1>4, <1>5, UnfoldTyped DEF FaultsInv, P!Mounted
<1>6. expanded' \in [P!Panel -> P!Task \cup {0}]
  BY <1>1, <1>5 DEF FaultsInv, ListsOK
<1>7. busy' \in [P!Panel -> P!Task \cup {0}]
  BY <1>1 DEF FaultsInv, ListsOK
<1>8. told' \in [P!Panel -> SUBSET P!Task]
  BY <1>1, <1>2 DEF FaultsInv, ListsOK
<1>9. ListsOK'
  BY <1>1, <1>6, <1>7, <1>8 DEF FaultsInv, ListsOK
<1>10. /\ \A q \in P!Panel : ~(c.heard /\ q = c.panel) => busy'[q] = busy[q] /\ told'[q] = told[q]
       /\ c.heard => busy'[c.panel] = 0
  BY <1>1, <1>2 DEF FaultsInv, ListsOK
<1>11. \A d \in calls' : d.panel \in P!Panel /\ (d.heard => ~(c.heard /\ d.panel = c.panel))
  BY <1>1 DEF FaultsInv, WaitsOK, ListsOK, P!Call
<1>12. \A d \in calls' : d.heard => busy'[d.panel] = d.task
  BY <1>1, <1>10, <1>11 DEF FaultsInv, WaitsOK
<1>13. \A a, b \in calls' : a.heard /\ b.heard /\ a.panel = b.panel => a = b
  BY <1>1 DEF FaultsInv, WaitsOK
<1>14. ASSUME NEW q \in P!Panel, busy'[q] # 0 PROVE \E d \in calls' : d.heard /\ d.panel = q
  <2>1. ~(c.heard /\ q = c.panel) /\ busy[q] # 0
    BY <1>10, <1>14
  <2>2. PICK d \in calls : d.heard /\ d.panel = q
    BY <2>1 DEF FaultsInv, WaitsOK
  <2>3. d # c
    BY <2>1, <2>2
  <2> QED
    BY <1>1, <2>2, <2>3
<1>15. \A q \in P!Panel : busy'[q] \notin told'[q]
  <2>1. \A q \in P!Panel : told'[q] \subseteq P!Task
    BY <1>8
  <2> QED
    BY <1>10, <2>1, PageFacts DEF FaultsInv, WaitsOK
<1>16. WaitsOK'
  BY <1>12, <1>13, <1>14, <1>15 DEF WaitsOK
<1>17. ASSUME NEW q \in P!Panel, P!Mounted(q)', moment' = 0, focus' \in P!Range(P!Shown'.faults)
      PROVE  expanded'[q] = focus'
  <2>1. P!Unfold(q) = focus'
    BY <1>17 DEF P!Unfold
  <2>2. expanded[q] = focus
    BY <1>1, <1>4, <1>17 DEF FaultsInv, P!SelectedIsExpanded
  <2> QED
    BY <1>1, <2>1, <2>2
<1> QED
  BY <1>3, <1>9, <1>16, <1>17 DEF FaultsInv, P!SelectedIsExpanded

LEMMA FaultsStep == ASSUME FaultsInv, [P!Next]_(P!vars) PROVE FaultsInv'
PROOF
<1>1. ASSUME UNCHANGED P!vars PROVE FaultsInv'
  <2>1. UNCHANGED <<server, ends, fetched, moment, errorsTab, focus, expanded, busy, told, calls>>
    BY <1>1 DEF P!vars, P!lists
  <2>2. PageOK'
    BY <2>1 DEF FaultsInv, PageOK
  <2>3. ListsOK' /\ WaitsOK'
    BY <2>1 DEF FaultsInv, ListsOK, WaitsOK
  <2>4. P!SelectedIsExpanded'
    BY <2>1 DEF FaultsInv, P!SelectedIsExpanded, P!Mounted, P!Shown
  <2> QED
    BY <2>2, <2>3, <2>4 DEF FaultsInv
<1> QED
  BY <1>1, ServerSteps, AnswersAtServer, RedrawingSteps, TabStep, HeaderStep, RetryStep, AnswerStep DEF P!Next

----------------------------------------------------------------------------
(* The parts, each by itself.                                              *)

\* The diagram: its types, through filters, picks and updates, for any edges of the tasks
\* (PipelineVisualizer.jsx).
THEOREM DiagramTypeCorrect == D!Spec => []D!TypeOK
PROOF
<1>1. D!Init => D!TypeOK
  BY DiagramStarts
<1>2. D!TypeOK /\ [D!Next]_(D!vars) => D!TypeOK'
  BY DiagramStep
<1> QED
  BY <1>1, <1>2, PTL DEF D!Spec

\* The tasks that stand out are those that lead to the task hovered over or follow from it,
\* and the progress told is that of the stages drawn (PipelineVisualizer.jsx), for any
\* tasks and any edges between them.
THEOREM DiagramComputesTrue == D!Spec => [](D!HighlightIsRelated /\ D!ProgressAgrees)
PROOF
<1>1. D!TypeOK => D!HighlightIsRelated /\ D!ProgressAgrees
  BY HighlightIsTold, ProgressIsTold
<1> QED
  BY <1>1, DiagramTypeCorrect, PTL

\* The monitor shows the pipeline selected on it, whichever answers of abandoned requests
\* come late, and has one request or one timer at a time (PipelineDashboard.js), for any
\* pipelines.
THEOREM MonitorAlways == M!Spec => [](M!TypeOK /\ M!MonitorIsOfSelected)
PROOF
<1>1. M!Init => MonitorInv
  BY MonitorStarts
<1>2. MonitorInv /\ [M!Next]_(M!vars) => MonitorInv'
  BY MonitorStep
<1>3. MonitorInv => M!TypeOK /\ M!MonitorIsOfSelected
  BY MonitorGives
<1> QED
  BY <1>1, <1>2, <1>3, PTL DEF M!Spec

\* The dialog of a task has the details it draws, and a fetch under way while it says that
\* it loads, through fetches, retries and cancellations under way together (TaskModal.js).
THEOREM DialogAlways == T!Spec => [](T!TypeOK /\ T!DetailsAreThere /\ T!LoadingIsFetched)
PROOF
<1>1. T!Init => DialogInv
  BY DialogStarts
<1>2. DialogInv /\ [T!Next]_(T!vars) => DialogInv'
  BY DialogStep
<1>3. DialogInv => T!TypeOK /\ T!DetailsAreThere /\ T!LoadingIsFetched
  BY DialogGives
<1> QED
  BY <1>1, <1>2, <1>3, PTL DEF T!Spec

\* An analysis on a tab or on its way is of the selected pipeline, the span that stands out
\* is one of it, and in a replay a span chosen takes the replay to an event of its task,
\* for any data of the pipelines (PipelineContext.js, DeveloperPanelTabs.jsx).
THEOREM AnalysesAlways == A!Spec => [](A!TypeOK /\ A!AnalysesAreOfSelected) /\ A!SpanIsSought
PROOF
<1>1. A!Init => AnalysisInv
  BY AnalysisStarts
<1>2. AnalysisInv /\ [A!Next]_(A!vars) => AnalysisInv' /\ Sought
  BY AnalysisStep
<1>3. AnalysisInv => A!TypeOK /\ A!AnalysesAreOfSelected
  BY AnalysisGives
<1>4. Sought => (span' # span /\ span' # None =>
                   /\ follows' = span'.task
                   /\ replaying /\ (\E e \in A!Range(Data[chosen].events) : e.task = follows') =>
                        Data[chosen].events[position' + 1].task = follows')
  BY DEF Sought
<1> QED
  BY <1>1, <1>2, <1>3, <1>4, PTL DEF A!Spec, A!SpanIsSought

\* A forecast draws each task in one lane, an untouched simulation promises no gain, and one
\* more worker never makes a simulated pipeline longer (PerformanceTab.jsx,
\* OptimizationTab.jsx, SchedulingAdvisorTab.jsx), for any measurements.
THEOREM AnalysesComputeTrue ==
  A!Spec => [](A!DrawnOnce /\ A!UntouchedGainsNothing /\ A!MoreWorkersNeverHurt)
PROOF
<1>1. A!Init => AnalysisInv
  BY AnalysisStarts
<1>2. AnalysisInv /\ [A!Next]_(A!vars) => AnalysisInv'
  BY AnalysisStep
<1>3. AnalysisInv => A!DrawnOnce /\ A!UntouchedGainsNothing /\ A!MoreWorkersNeverHurt
  BY AnalysisGives, ForecastIsWhole, UntouchedIsAsItWas, MoreWorkersHelp
<1> QED
  BY <1>1, <1>2, <1>3, PTL DEF A!Spec

\* Each list of faults unfolds the task selected elsewhere as soon as that has failed, and
\* waits for the one retry it has sent and will hear of (ErrorPanel.jsx), for any number
\* of tasks, moments of a replay and retries on their way.
THEOREM FaultsAlways == P!Spec => [](P!TypeOK /\ P!SelectedIsExpanded /\ P!WaitsForItsOwn)
PROOF
<1>1. P!Init => FaultsInv
  BY FaultsStart
<1>2. FaultsInv /\ [P!Next]_(P!vars) => FaultsInv'
  BY FaultsStep
<1>3. FaultsInv => P!TypeOK /\ P!SelectedIsExpanded /\ P!WaitsForItsOwn
  BY FaultsGive
<1> QED
  BY <1>1, <1>2, <1>3, PTL DEF P!Spec

----------------------------------------------------------------------------
(* The parts together.                                                     *)

\* Each part of the composition behaves as its own module says.
THEOREM PartsKeepTheirSpecs ==
  AllSpec => Spec /\ D!Spec /\ M!Spec /\ T!Spec /\ A!Spec /\ P!Spec
PROOF
<1>1. AllInit => Init /\ D!Init /\ M!Init /\ T!Init /\ A!Init /\ P!Init
  BY DEF AllInit
<1>2. [AllNext]_allVars =>
        /\ [Next]_vars /\ [D!Next]_(D!vars) /\ [M!Next]_(M!vars)
        /\ [T!Next]_(T!vars) /\ [A!Next]_(A!vars) /\ [P!Next]_(P!vars)
  <2>1. /\ UNCHANGED diagramVars => UNCHANGED D!vars
        /\ UNCHANGED monitorVars => UNCHANGED M!vars
        /\ UNCHANGED dialogVars => UNCHANGED T!vars
        /\ UNCHANGED analysisVars => UNCHANGED A!vars
        /\ UNCHANGED faultVars => UNCHANGED P!vars
    BY DEF diagramVars, monitorVars, dialogVars, analysisVars, faultVars,
           D!vars, M!vars, T!vars, A!vars, P!vars, P!lists
  <2> QED
    BY <2>1 DEF AllNext, Console, Diagram, Monitor, Dialog, Analyses, Faults, allVars
<1> QED
  BY <1>1, <1>2, PTL DEF AllSpec, Spec, D!Spec, M!Spec, T!Spec, A!Spec, P!Spec

\* Every variable of the views of a pipeline keeps its type; in particular the timeline
\* stays within its limit and in order of time, and no position, countdown or slider
\* leaves its range.
THEOREM AllTypeOKAlways == AllSpec => []AllTypeOK
PROOF
<1>1. TypeOK /\ D!TypeOK /\ M!TypeOK /\ T!TypeOK /\ A!TypeOK /\ P!TypeOK => AllTypeOK
  BY DEF AllTypeOK
<1> QED
  BY <1>1, PartsKeepTheirSpecs, ConsoleTypeCorrect, DiagramTypeCorrect, MonitorAlways, DialogAlways,
     AnalysesAlways, FaultsAlways, PTL

\* What a page shows belongs to what is selected on it, however late answers come: the
\* monitor (PipelineDashboard.js), the analyses and their span (PipelineContext.js), the
\* fault that is unfolded and the retry that is waited for (ErrorPanel.jsx); for any
\* pipelines, tasks, data and bounds.
THEOREM ShownIsOfSelectedAlways == AllSpec => []ShownIsOfSelected
PROOF
<1>1. M!MonitorIsOfSelected /\ A!AnalysesAreOfSelected /\ P!SelectedIsExpanded /\ P!WaitsForItsOwn
        => ShownIsOfSelected
  BY DEF ShownIsOfSelected
<1> QED
  BY <1>1, PartsKeepTheirSpecs, MonitorAlways, AnalysesAlways, FaultsAlways, PTL

\* The dialog of a task always has something to draw: details it has got, an error, or a
\* fetch that is under way, though all of its fetches, retries and cancellations share one
\* loading flag and one error (TaskModal.js); for any tasks and bounds.
THEOREM DialogDrawsAlways == AllSpec => []DialogDraws
PROOF
<1>1. T!DetailsAreThere /\ T!LoadingIsFetched => DialogDraws
  BY DEF DialogDraws
<1> QED
  BY <1>1, PartsKeepTheirSpecs, DialogAlways, PTL

\* What the pages compute from a pipeline's data is what it says of the pipeline: the
\* comparison of two moments of a replay, the event a jump lands on, the tasks that stand
\* out around the one hovered, the progress, the lanes of a forecast, the durations
\* simulated and the stage that runs; for any pipelines, logs, tasks, edges and
\* measurements.
THEOREM ComputedIsTrueAlways == AllSpec => []ComputedIsTrue
PROOF
<1>1. DiffIsTrue /\ JumpFinds /\ D!HighlightIsRelated /\ D!ProgressAgrees /\ A!DrawnOnce
        /\ A!UntouchedGainsNothing /\ A!MoreWorkersNeverHurt => ComputedIsTrue
  BY StageIsTold DEF ComputedIsTrue
<1> QED
  BY <1>1, PartsKeepTheirSpecs, DifferenceIsTrueAlways, JumpFindsAlways, DiagramComputesTrue, AnalysesComputeTrue, PTL

\* No step loses or misplaces what the user has in view: a row of the timeline stays until
\* it is pushed out, a span chosen takes the replay to its task.
THEOREM StepsKeepPlaceAlways == AllSpec => StepsKeepPlace
BY PartsKeepTheirSpecs, TimelineKeepsAlways, AnalysesAlways, PTL DEF StepsKeepPlace
=============================================================================
