------------------------------- MODULE DBWorkers -------------------------------
(***************************************************************************)
(* The database threads of the channel server (DBmanager.cpp): a queue and *)
(* a manual-reset event for each worker, the logic thread that submits     *)
(* jobs, and the thread that reports the server's state every three        *)
(* seconds.                                                                *)
(*                                                                         *)
(* What m_mutex guards is one step: taking a job, pushing one, pushing a   *)
(* result.  SetEvent and ResetEvent happen outside of it and are steps of  *)
(* their own.  The way of a result to the logic thread is module DBResults.*)
(***************************************************************************)
EXTENDS Naturals, Sequences

CONSTANTS
  NumWorkers,   \* ServerConfig::numberOfDBThread
  Logins,       \* GET_USER_INFO_BY_AUTH jobs
  Payments,     \* CALCULATE_MONEY and CLEAR_AUTH_TOKEN jobs
  Beat,         \* the SUBMIT_STATE job
  NoJob,        \* a DBJob that was Reset
  MaxRetries    \* bound: how often a login that failed is submitted again

Workers == 0 .. (NumWorkers - 1)
Jobs == Logins \cup Payments
Item == Jobs \cup {Beat}

ASSUME WorkersAssumption == NumWorkers \in Nat \ {0}
ASSUME JobsAssumption == Beat \notin Jobs /\ NoJob \notin Item
ASSUME RetriesAssumption == MaxRetries \in Nat

VARIABLES
  jobQ,       \* m_jobQ
  signalled,  \* hDBEvent
  worker,     \* where each DBThreadWorker is
  job,        \* m_jobPool: the job a worker has taken
  failed,     \* failed logins whose result the logic thread may still handle
  target,     \* the queue whose event the logic thread has to set, or NumWorkers
  beating,    \* SubmitState has pushed its job and not set the event
  dbCount,    \* SubmitState's next worker
  queueOf,    \* the queue each job was put into, or NumWorkers
  executed    \* how often each job's query ran

vars == <<jobQ, signalled, worker, job, failed, target, beating, dbCount, queueOf,
          executed>>

Init ==
  /\ jobQ = [w \in Workers |-> <<>>]
  /\ signalled = [w \in Workers |-> FALSE]
  /\ worker = [w \in Workers |-> "waiting"]
  /\ job = [w \in Workers |-> NoJob]
  /\ failed = {}
  /\ target = NumWorkers
  /\ beating = FALSE
  /\ dbCount = 0
  /\ queueOf = [j \in Jobs |-> NumWorkers]
  /\ executed = [j \in Jobs |-> 0]

-----------------------------------------------------------------------------
(* DBThreadWorker                                                          *)

\* WaitForSingleObject; the event stays set
Wake(w) ==
  /\ worker[w] = "waiting"
  /\ signalled[w]
  /\ worker' = [worker EXCEPT ![w] = "taking"]
  /\ UNCHANGED <<jobQ, signalled, job, failed, target, beating, dbCount, queueOf,
                 executed>>

Take(w) ==
  /\ worker[w] = "taking"
  /\ jobQ[w] # <<>>
  /\ job' = [job EXCEPT ![w] = Head(jobQ[w])]
  /\ jobQ' = [jobQ EXCEPT ![w] = Tail(@)]
  /\ worker' = [worker EXCEPT ![w] = "running"]
  /\ UNCHANGED <<signalled, failed, target, beating, dbCount, queueOf, executed>>

\* The queue was seen empty and the lock given up.
GiveUp(w) ==
  /\ worker[w] = "taking"
  /\ jobQ[w] = <<>>
  /\ worker' = [worker EXCEPT ![w] = "resetting"]
  /\ UNCHANGED <<jobQ, signalled, job, failed, target, beating, dbCount, queueOf,
                 executed>>

\* sqlexec, which may fail, and push_back of the result
Execute(w) ==
  /\ worker[w] = "running"
  /\ executed' = [j \in Jobs |-> IF j = job[w] THEN executed[j] + 1 ELSE executed[j]]
  /\ \E fails \in SUBSET ({job[w]} \cap Logins) : failed' = failed \cup fails
  /\ job' = [job EXCEPT ![w] = NoJob]
  /\ worker' = [worker EXCEPT ![w] = "taking"]
  /\ UNCHANGED <<jobQ, signalled, target, beating, dbCount, queueOf>>

\* ResetEvent
Reset(w) ==
  /\ worker[w] = "resetting"
  /\ signalled' = [signalled EXCEPT ![w] = FALSE]
  /\ worker' = [worker EXCEPT ![w] = "waiting"]
  /\ UNCHANGED <<jobQ, job, failed, target, beating, dbCount, queueOf, executed>>

WorkerStep(w) == Wake(w) \/ Take(w) \/ GiveUp(w) \/ Execute(w) \/ Reset(w)

-----------------------------------------------------------------------------
(* The logic thread                                                        *)

\* PushDBJob under the lock
Enqueued(w, item) == jobQ' = [jobQ EXCEPT ![w] = Append(@, item)]

\* LoginUser, SubmitUserEarnMoney, DeleteAuthToken: a login's session chooses its
\* queue, the user chooses that of the other jobs.
Submit(j, w) ==
  /\ target = NumWorkers
  /\ queueOf[j] = NumWorkers
  /\ queueOf' = [queueOf EXCEPT ![j] = w]
  /\ Enqueued(w, j)
  /\ target' = w
  /\ UNCHANGED <<signalled, worker, job, failed, beating, dbCount, executed>>

\* GetUserByAuthProcess submits a failed login again, with a query nobody wrote.
Retry(j) ==
  /\ target = NumWorkers
  /\ j \in failed
  /\ executed[j] <= MaxRetries
  /\ failed' = failed \ {j}
  /\ Enqueued(queueOf[j], j)
  /\ target' = queueOf[j]
  /\ UNCHANGED <<signalled, worker, job, beating, dbCount, queueOf, executed>>

\* PushDBJob's SetEvent
Signal ==
  /\ target # NumWorkers
  /\ signalled' = [signalled EXCEPT ![target] = TRUE]
  /\ target' = NumWorkers
  /\ UNCHANGED <<jobQ, worker, job, failed, beating, dbCount, queueOf, executed>>

-----------------------------------------------------------------------------
(* StateCheckAndSubmit and SubmitState                                     *)

ReportWaits(w) == \E i \in DOMAIN jobQ[w] : jobQ[w][i] = Beat

\* Bound: a report is merged with one that waits in the queue.
BeatPush ==
  /\ ~ beating
  /\ beating' = TRUE
  /\ \/ ReportWaits(dbCount) /\ UNCHANGED jobQ
     \/ ~ ReportWaits(dbCount) /\ Enqueued(dbCount, Beat)
  /\ UNCHANGED <<signalled, worker, job, failed, target, dbCount, queueOf, executed>>

\* Mutant: the reports always go to the same worker
SameWorker == dbCount

NextWorker == (dbCount + 1) % NumWorkers

BeatSignal ==
  /\ beating
  /\ beating' = FALSE
  /\ signalled' = [signalled EXCEPT ![dbCount] = TRUE]
  /\ dbCount' = NextWorker
  /\ UNCHANGED <<jobQ, worker, job, failed, target, queueOf, executed>>

-----------------------------------------------------------------------------
Next ==
  \/ \E w \in Workers : WorkerStep(w)
  \/ \E j \in Jobs, w \in Workers : Submit(j, w)
  \/ \E j \in Logins : Retry(j)
  \/ Signal \/ BeatPush \/ BeatSignal

\* The operating system runs every thread; nothing obliges the logic thread to
\* submit jobs.
Spec == /\ Init /\ [][Next]_vars
        /\ \A w \in Workers : WF_vars(WorkerStep(w))
        /\ WF_vars(Signal) /\ WF_vars(BeatPush) /\ WF_vars(BeatSignal)

-----------------------------------------------------------------------------
(* Properties                                                              *)

TypeOK ==
  /\ jobQ \in [Workers -> Seq(Item)]
  /\ signalled \in [Workers -> BOOLEAN]
  /\ worker \in [Workers -> {"waiting", "taking", "running", "resetting"}]
  /\ job \in [Workers -> Item \cup {NoJob}]
  /\ failed \subseteq Logins
  /\ target \in 0 .. NumWorkers
  /\ beating \in BOOLEAN
  /\ dbCount \in Workers
  /\ queueOf \in [Jobs -> 0 .. NumWorkers]
  /\ executed \in [Jobs -> Nat]

\* A job is pending until its query has run.
Pending(w) == IF worker[w] = "running" THEN <<job[w]>> \o jobQ[w] ELSE jobQ[w]

Service == INSTANCE JobService WITH pending <- [w \in Workers |-> Pending(w)],
                                    performed <- executed

\* The workers are a job service: each job submitted is performed, and in order.
\* A wake-up that is lost between the last look at the queue and ResetEvent
\* (DBmanager.cpp:118-119) is made good by a later report of the server's state.
ImplementsJobService == Service!Spec
=============================================================================
