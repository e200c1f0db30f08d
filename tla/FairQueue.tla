------------------------------ MODULE FairQueue ------------------------------
(***************************************************************************)
(* InterleavedFairQueue, execution_engine/control_plane/scheduler.py: one  *)
(* deque of jobs per document and an index that goes round the documents.  *)
(* A job is counted; which one of its document's it is does not matter,    *)
(* a deque keeps their order.                                              *)
(***************************************************************************)
EXTENDS Integers, Sequences, SequencesExt

CONSTANTS
  Doc,      \* document ids
  MaxJobs   \* bound: jobs of one document waiting at a time

QueueAssumption == MaxJobs \in Nat \ {0}

VARIABLES
  order,    \* doc_order
  pending,  \* the lengths of doc_queues, 0 for a document without one
  index,    \* current_index
  wait      \* history: pops since a waiting document was served or pushed, or
            \* since any document left

vars == <<order, pending, index, wait>>

TypeOK ==
  /\ order   \in Seq(Doc)
  /\ pending \in [Doc -> 0 .. MaxJobs]
  /\ index   \in Nat
  /\ wait    \in [Doc -> Nat]

Init ==
  /\ order = <<>> /\ index = 0
  /\ pending = [d \in Doc |-> 0]
  /\ wait = [d \in Doc |-> 0]

push(d) ==
  /\ pending[d] < MaxJobs
  /\ order' = IF pending[d] = 0 THEN Append(order, d) ELSE order
  /\ pending' = [pending EXCEPT ![d] = @ + 1]
  /\ UNCHANGED <<index, wait>>

\* The position a pop goes to, counted from 0.
Ahead == (index + 1) % Len(order)

\* Faulty variant: a document whose deque is empty keeps its place.
DropNot(d) == order' = order /\ index' = Ahead

\* The document popped from was its deque's last: it loses its place, and the
\* index, which now points at the one after it, stays or wraps around.
Drop(d) ==
  /\ order' = RemoveFirst(order, d)
  /\ index' = IF Ahead >= Len(order) - 1 /\ Len(order) > 1 THEN 0 ELSE Ahead

\* Faulty variant: a document is popped from until it runs out.
KeepTurn(d) == order' = order /\ index' = index

Keep(d) == order' = order /\ index' = Ahead

pop ==
  /\ order # <<>>
  /\ LET d == order[Ahead + 1] IN
       /\ pending' = [pending EXCEPT ![d] = @ - 1]
       /\ IF pending[d] = 1
            THEN Drop(d) /\ wait' = [e \in Doc |-> 0]
            ELSE Keep(d) /\ wait' = [e \in Doc |-> IF e = d \/ pending[e] = 0 THEN 0 ELSE wait[e] + 1]

Next == pop \/ \E d \in Doc : push(d)

Spec == Init /\ [][Next]_vars

\* Whoever the queue serves comes back for more; nothing is assumed of who fills it.
FairSpec == Spec /\ WF_vars(pop)

----------------------------------------------------------------------------
(* Properties.                                                             *)

\* Every document with jobs has one place in the round, and no other has any: no
\* job is lost, none is reached twice, and a pop never looks in vain.
OrderIsQueued ==
  /\ \A d \in Doc : pending[d] > 0 <=> \E k \in 1 .. Len(order) : order[k] = d
  /\ \A j, k \in 1 .. Len(order) : order[j] = order[k] => j = k

\* "Round-robins processing tasks by document IDs": as long as no document runs
\* out of jobs, each waits for at most one pop of every other.
RoundRobin == \A d \in Doc : pending[d] > 0 => wait[d] < Len(order)

\* "Prevents queue starvation" (docs/Execution Engine/Scheduler.md:4): a document that
\* always has jobs is popped from again and again, also while others come and go.  The
\* code does not keep this: against a document that comes back with a single job each
\* time, Drop makes the index skip it for ever.
NobodyStarves ==
  \A d \in Doc : []<>(pending[d] = 0) \/ []<><<pop /\ order[Ahead + 1] = d>>_vars
=============================================================================
