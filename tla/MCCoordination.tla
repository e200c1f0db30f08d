--------------------------- MODULE MCCoordination ---------------------------
(* Instances of LeaderLock, CircuitBreaker, FairQueue and IndexingQueue for     *)
(* TLC, and of the laboratory from which the operators disturb and test the    *)
(* cluster. They share no state, so a behaviour is one of one of them. A tick of the         *)
(* election stands for five seconds: with the defaults of                      *)
(* ha_coordinator_service.py TTL is 6 ticks, Beat 3.                           *)
EXTENDS LeaderLock, TLC

CONSTANTS
  MaxLost, MaxCrash, MaxHard, MaxUnreachable,              \* the election
  Call, Threshold, Probes, MaxOutages, MaxNoise,           \* the breaker
  Doc, MaxJobs,                                            \* the queue
  Document, NoDocument, MaxAttempts, MaxSubmits, MaxStops, MaxErrors,   \* the indexing jobs
  Test, First, Lane, ChaosAction, MaxRequests, MaxUses, MaxMishaps   \* the laboratory

VARIABLES
  part,
  state, failures, probes, elapsed, out, up, spent,        \* CircuitBreaker's; spent is its used
  order, pending, index, wait,                             \* FairQueue's
  docs, job, worker, request, submits, stops, errors,      \* IndexingQueue's; docs is its state
  active, paused, selectedTest, testStatus, isRunningTest, pausedQueues,
  confirmState, requests, ledger, uses, mishaps            \* ValidationLab's

breakerVars == <<state, failures, probes, elapsed, out, up, spent>>
queueVars   == <<order, pending, index, wait>>
jobVars     == <<docs, job, worker, request, submits, stops, errors>>
labVars     == <<active, paused, selectedTest, testStatus, isRunningTest, pausedQueues, confirmState,
                 requests, ledger, uses, mishaps>>
allVars     == <<part, vars, breakerVars, queueVars, jobVars, labVars>>

MCLimit == [f \in Fault |-> CASE f = "lost"  -> MaxLost
                              [] f = "crash" -> MaxCrash
                              [] f = "unreachable" -> MaxUnreachable
                              [] OTHER -> MaxHard]
Outages == [l \in {"outage", "noise"} |-> IF l = "outage" THEN MaxOutages ELSE MaxNoise]

B == INSTANCE CircuitBreaker WITH Limit <- Outages, used <- spent
Q == INSTANCE FairQueue
J == INSTANCE IndexingQueue WITH state <- docs
L == INSTANCE ValidationLab WITH Queue <- Lane, Chaos <- ChaosAction

ASSUME PartsAssumption == B!BreakerAssumption /\ Q!QueueAssumption /\ J!IndexingAssumption /\ L!LabAssumption

Election == part = "election" /\ UNCHANGED <<part, breakerVars, queueVars, jobVars, labVars>>
Breaker  == part = "breaker" /\ UNCHANGED <<part, vars, queueVars, jobVars, labVars>>
Queue    == part = "queue" /\ UNCHANGED <<part, vars, breakerVars, jobVars, labVars>>
Jobs     == part = "jobs" /\ UNCHANGED <<part, vars, breakerVars, queueVars, labVars>>
Lab      == part = "lab" /\ UNCHANGED <<part, vars, breakerVars, queueVars, jobVars>>

\* Bound: in the laboratory a suite runs while no dialog is open, and starts while nothing
\* but a late poll is under way.
Apart ==
  isRunningTest' => /\ confirmState' = <<>>
                    /\ isRunningTest \/ \A i \in L!Slot : requests[i] = L!Vacant \/ requests[i][1] = "poll"

\* No queue is paused at first where the behaviour is not of the laboratory.
AllInit ==
  /\ part \in {"election", "breaker", "queue", "jobs", "lab"}
  /\ Init /\ B!Init /\ Q!Init /\ J!Init /\ L!Init
  /\ part # "lab" => paused = {}

AllNext ==
  \/ Election /\ Next
  \/ Breaker /\ B!Next
  \/ Queue /\ Q!Next
  \/ Jobs /\ J!Next
  \/ Lab /\ L!Next /\ Apart

\* The fairness of FairSpec in LeaderLock, CircuitBreaker, IndexingQueue and
\* ValidationLab.
AllSpec ==
  /\ AllInit /\ [][AllNext]_allVars
  /\ WF_allVars(Election /\ Tick)
  /\ \A i \in Instance : WF_allVars(Election /\ HeartbeatStep(i))
  /\ WF_allVars(Breaker /\ B!Elapse)
  /\ \A c \in Call : WF_allVars(Breaker /\ B!Ask(c)) /\ WF_allVars(Breaker /\ (B!Succeed(c) \/ B!Fail(c)))
  /\ WF_allVars(Jobs /\ J!Work) /\ WF_allVars(Jobs /\ J!Start)
  /\ \A i \in L!Slot : WF_allVars(Lab /\ (L!Served(i) \/ L!Answered(i)))
  /\ WF_allVars(Lab /\ \E t \in Test : L!Ends(t)) /\ SF_allVars(Lab /\ L!pollTest)

\* The variables have the types of their modules; the counters of the breaker never
\* outlive the state they belong to, and the index of the queue goes round documents
\* that have jobs, each once (InterleavedFairQueue.push and pop); the ledger of the
\* laboratory tells of every chaos action how it ended (LedgerTells in ValidationLab).
AllTypeOK ==
  /\ TypeOK /\ B!TypeOK /\ B!CountsFit /\ Q!TypeOK /\ Q!OrderIsQueued /\ J!TypeOK
  /\ L!TypeOK /\ L!LedgerTells

\* As in CircuitBreaker: once the provider stays up the breaker closes for good.  As in
\* ValidationLab: no suite locks the laboratory for ever.
Recovers == B!Recovers /\ L!RunsEnd

\* As in FairQueue: a document is served within a round.
RoundRobin == Q!RoundRobin

\* As in IndexingQueue: documents and jobs agree wherever the process ends, every attempt
\* is accounted for, and only an error leaves a job behind.
JobsAccounted == J!JobsAccounted

\* As in IndexingQueue: a job submitted ends, in spite of an end of the process.
JobsEnd == J!JobsEnd
=============================================================================
