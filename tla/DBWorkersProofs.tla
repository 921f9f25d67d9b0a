---------------------------- MODULE DBWorkersProofs ----------------------------
(***************************************************************************)
(* Proofs about DBWorkers: its type invariant, and that the workers never  *)
(* do anything a job service may not do, whatever the number of workers,   *)
(* jobs and retries.  (That every job is performed in the end is liveness  *)
(* and is left to the model checker.)                                      *)
(***************************************************************************)
EXTENDS DBWorkers, TLAPS

\* A job that is in a queue, taken, or has failed was given a queue.
Queued(j) == j \in Jobs => queueOf[j] \in Workers
JobsAreQueued ==
  /\ \A w \in Workers : Queued(job[w]) /\ \A i \in DOMAIN jobQ[w] : Queued(jobQ[w][i])
  /\ \A j \in failed : Queued(j)

IInv == TypeOK /\ JobsAreQueued

-----------------------------------------------------------------------------
(* Sequences: the job under way in front of those that wait                *)

\* A sequence that is not empty is its first element and the rest.
LEMMA HeadAndTail ==
  ASSUME NEW S, NEW q \in Seq(S), q # <<>>
  PROVE  Head(q) \in S /\ Tail(q) \in Seq(S) /\ <<Head(q)>> \o Tail(q) = q
         /\ \A i \in DOMAIN Tail(q) : i + 1 \in DOMAIN q /\ Tail(q)[i] = q[i + 1]
  OBVIOUS

\* An element put in front of a sequence is its head, the rest its tail.
LEMMA InFront ==
  ASSUME NEW S, NEW q \in Seq(S), NEW x \in S
  PROVE  /\ <<x>> \o q \in Seq(S) /\ <<x>> \o q # <<>>
         /\ Head(<<x>> \o q) = x /\ Tail(<<x>> \o q) = q
  OBVIOUS

\* Appending behind two sequences is appending to the second.
LEMMA AppendBehind ==
  ASSUME NEW S, NEW q \in Seq(S), NEW x \in S, NEW y \in S
  PROVE  <<x>> \o Append(q, y) = Append(<<x>> \o q, y)
  OBVIOUS

\* What a queue holds after an append is the new element or was there before.
LEMMA Appended ==
  ASSUME NEW S, NEW q \in Seq(S), NEW y \in S
  PROVE  /\ Append(q, y) \in Seq(S)
         /\ \A i \in DOMAIN Append(q, y) :
               Append(q, y)[i] = y \/ (i \in DOMAIN q /\ Append(q, y)[i] = q[i])
  OBVIOUS

-----------------------------------------------------------------------------
(* The inductive invariant                                                 *)

\* There is a first worker, and the value for no queue is not a worker.
LEMMA WorkersFacts ==
  /\ 0 \in Workers
  /\ NumWorkers \notin Workers
  /\ Workers \subseteq 0 .. NumWorkers
  /\ \A n \in 0 .. NumWorkers : n # NumWorkers => n \in Workers
  /\ \A w \in Workers : (w + 1) % NumWorkers \in Workers
  BY WorkersAssumption DEF Workers

\* The queues are empty when the threads start (DBmanager::Init).
LEMMA InitIInv == Init => IInv
<1> SUFFICES ASSUME Init PROVE IInv
  OBVIOUS
<1>1. TypeOK
  <2>1. <<>> \in Seq(Item)
    OBVIOUS
  <2>2. NumWorkers \in 0 .. NumWorkers
    BY WorkersAssumption
  <2>3. QED
    BY <2>1, <2>2, WorkersFacts DEF Init, TypeOK
<1>2. JobsAreQueued
  BY JobsAssumption DEF Init, JobsAreQueued, Queued, Item
<1>3. QED
  BY <1>1, <1>2 DEF IInv

\* A database thread (DBThreadWorker) keeps the invariant.
LEMMA WorkerInv ==
  ASSUME IInv, NEW w \in Workers, WorkerStep(w)
  PROVE  IInv'
<1> USE DEF IInv, TypeOK, JobsAreQueued, Queued
<1>1. CASE Wake(w)
  BY <1>1 DEF Wake
<1>2. CASE Take(w)
  <2>1. jobQ[w] \in Seq(Item) /\ jobQ[w] # <<>>
    BY <1>2 DEF Take
  <2>2. /\ Head(jobQ[w]) \in Item /\ Tail(jobQ[w]) \in Seq(Item)
        /\ \A i \in DOMAIN Tail(jobQ[w]) :
              i + 1 \in DOMAIN jobQ[w] /\ Tail(jobQ[w])[i] = jobQ[w][i + 1]
    BY <2>1, HeadAndTail
  <2>3. 1 \in DOMAIN jobQ[w] /\ Head(jobQ[w]) = jobQ[w][1]
    BY <2>1
  <2>4. TypeOK'
    BY <1>2, <2>2 DEF Take
  <2>5. \A v \in Workers : Queued(job[v])'
    BY <1>2, <2>3 DEF Take
  <2>6. \A v \in Workers : \A i \in DOMAIN jobQ'[v] : Queued(jobQ[v][i])'
    BY <1>2, <2>2 DEF Take
  <2>7. QED
    BY <1>2, <2>4, <2>5, <2>6 DEF Take
<1>3. CASE GiveUp(w)
  BY <1>3 DEF GiveUp
<1>4. CASE Execute(w)
  <2>1. PICK fails \in SUBSET ({job[w]} \cap Logins) : failed' = failed \cup fails
    BY <1>4 DEF Execute
  <2>2. NoJob \notin Jobs
    BY JobsAssumption DEF Item
  <2>3. TypeOK'
    BY <1>4, <2>1 DEF Execute
  <2>4. JobsAreQueued'
    BY <1>4, <2>1, <2>2 DEF Execute
  <2>5. QED
    BY <2>3, <2>4
<1>5. CASE Reset(w)
  BY <1>5 DEF Reset
<1>6. QED
  BY <1>1, <1>2, <1>3, <1>4, <1>5 DEF WorkerStep

\* A job is put behind the others of a queue.
LEMMA EnqueuedInv ==
  ASSUME IInv, NEW w \in Workers, NEW item \in Item, Enqueued(w, item),
         Queued(item)', \A j \in Jobs : queueOf[j] \in Workers => queueOf'[j] = queueOf[j]
  PROVE  /\ jobQ' \in [Workers -> Seq(Item)]
         /\ \A v \in Workers : \A i \in DOMAIN jobQ'[v] : Queued(jobQ[v][i])'
<1>1. jobQ[w] \in Seq(Item)
  BY DEF IInv, TypeOK
<1>2. /\ Append(jobQ[w], item) \in Seq(Item)
      /\ \A i \in DOMAIN Append(jobQ[w], item) :
            \/ Append(jobQ[w], item)[i] = item
            \/ i \in DOMAIN jobQ[w] /\ Append(jobQ[w], item)[i] = jobQ[w][i]
  BY <1>1, Appended
<1>3. jobQ' = [jobQ EXCEPT ![w] = Append(jobQ[w], item)]
  BY DEF Enqueued
<1>4. QED
  BY <1>2, <1>3 DEF IInv, TypeOK, JobsAreQueued, Queued

\* The logic thread keeps the invariant: it submits, submits again, signals.
LEMMA LogicInv ==
  ASSUME IInv, \/ \E j \in Jobs, w \in Workers : Submit(j, w)
               \/ \E j \in Logins : Retry(j)
               \/ Signal
  PROVE  IInv'
<1>1. ASSUME NEW j \in Jobs, NEW w \in Workers, Submit(j, w)
      PROVE  IInv'
  <2>1. j \in Item /\ Queued(j)'
    BY <1>1 DEF Submit, Queued, Item, IInv, TypeOK
  <2>2. \A k \in Jobs : queueOf[k] \in Workers => queueOf'[k] = queueOf[k]
    BY <1>1, WorkersFacts DEF Submit, IInv, TypeOK
  <2>3. /\ jobQ' \in [Workers -> Seq(Item)]
        /\ \A v \in Workers : \A i \in DOMAIN jobQ'[v] : Queued(jobQ[v][i])'
    BY <1>1, <2>1, <2>2, EnqueuedInv DEF Submit
  <2>4. TypeOK'
    BY <1>1, <2>3, WorkersFacts DEF Submit, IInv, TypeOK
  <2>5. JobsAreQueued'
    BY <1>1, <2>2, <2>3 DEF Submit, IInv, JobsAreQueued, Queued
  <2>6. QED
    BY <2>4, <2>5 DEF IInv
<1>2. ASSUME NEW j \in Logins, Retry(j)
      PROVE  IInv'
  <2>1. j \in Item /\ j \in Jobs /\ queueOf[j] \in Workers
    BY <1>2 DEF Retry, Queued, Item, IInv, JobsAreQueued, Jobs
  <2>2. /\ jobQ' \in [Workers -> Seq(Item)]
        /\ \A v \in Workers : \A i \in DOMAIN jobQ'[v] : Queued(jobQ[v][i])'
    BY <1>2, <2>1, EnqueuedInv DEF Retry, Queued
  <2>3. TypeOK'
    BY <1>2, <2>1, <2>2, WorkersFacts DEF Retry, IInv, TypeOK
  <2>4. JobsAreQueued'
    BY <1>2, <2>2 DEF Retry, IInv, JobsAreQueued, Queued
  <2>5. QED
    BY <2>3, <2>4 DEF IInv
<1>3. ASSUME Signal
      PROVE  IInv'
  <2>1. NumWorkers \in 0 .. NumWorkers
    BY WorkersAssumption
  <2>2. TypeOK'
    BY <1>3, <2>1 DEF Signal, IInv, TypeOK
  <2>3. JobsAreQueued'
    BY <1>3 DEF Signal, IInv, JobsAreQueued, Queued
  <2>4. QED
    BY <2>2, <2>3 DEF IInv
<1>4. QED
  BY <1>1, <1>2, <1>3

\* The report of the server's state (SubmitState) keeps the invariant.
LEMMA BeatInv ==
  ASSUME IInv, BeatPush \/ BeatSignal
  PROVE  IInv'
<1>1. CASE BeatPush /\ UNCHANGED jobQ
  BY <1>1 DEF BeatPush, IInv, TypeOK, JobsAreQueued, Queued
<1>2. CASE BeatPush /\ Enqueued(dbCount, Beat)
  <2>1. Beat \in Item /\ Queued(Beat)' /\ dbCount \in Workers
    BY JobsAssumption DEF Item, Queued, IInv, TypeOK
  <2>2. /\ jobQ' \in [Workers -> Seq(Item)]
        /\ \A v \in Workers : \A i \in DOMAIN jobQ'[v] : Queued(jobQ[v][i])'
    BY <1>2, <2>1, EnqueuedInv DEF BeatPush
  <2>3. QED
    BY <1>2, <2>2 DEF BeatPush, IInv, TypeOK, JobsAreQueued, Queued
<1>3. CASE BeatSignal
  BY <1>3, WorkersFacts DEF BeatSignal, NextWorker, IInv, TypeOK, JobsAreQueued, Queued
<1>4. QED
  BY <1>1, <1>2, <1>3 DEF BeatPush

\* Every step keeps the invariant.
LEMMA NextIInv == IInv /\ [Next]_vars => IInv'
<1> SUFFICES ASSUME IInv, [Next]_vars PROVE IInv'
  OBVIOUS
<1>1. CASE UNCHANGED vars
  BY <1>1 DEF vars, IInv, TypeOK, JobsAreQueued, Queued
<1>2. CASE Next
  BY <1>2, WorkerInv, LogicInv, BeatInv DEF Next
<1>3. QED
  BY <1>1, <1>2

\* The invariant the theorems below follow from.
LEMMA Invariant == Spec => []IInv
  BY InitIInv, NextIInv, PTL DEF Spec

\* The variables of the database threads always have their types.
THEOREM WorkersTypeCorrect == Spec => []TypeOK
<1>1. IInv => TypeOK
  BY DEF IInv
<1>2. QED
  BY <1>1, Invariant, PTL

-----------------------------------------------------------------------------
(* Every step is a step of the job service, or none                         *)

\* Nothing is submitted and nothing performed.
LEMMA Unnoticed ==
  ASSUME \A w \in Workers : Pending(w)' = Pending(w), executed' = executed
  PROVE  UNCHANGED Service!vars
  BY DEF Service!vars

\* A database thread performs the first job of its queue or does nothing.
LEMMA WorkerServes ==
  ASSUME IInv, NEW w \in Workers, WorkerStep(w)
  PROVE  [Service!Next]_(Service!vars)
<1> USE DEF IInv, TypeOK
<1>1. CASE Wake(w) \/ GiveUp(w) \/ Reset(w)
  <2>1. \A v \in Workers : Pending(v)' = Pending(v)
    BY <1>1 DEF Wake, GiveUp, Reset, Pending
  <2>2. QED
    BY <1>1, <2>1, Unnoticed DEF Wake, GiveUp, Reset
<1>2. CASE Take(w)
  <2>1. <<Head(jobQ[w])>> \o Tail(jobQ[w]) = jobQ[w]
    BY <1>2, HeadAndTail DEF Take
  <2>2. \A v \in Workers : Pending(v)' = Pending(v)
    BY <1>2, <2>1 DEF Take, Pending
  <2>3. QED
    BY <1>2, <2>2, Unnoticed DEF Take
<1>3. CASE Execute(w)
  <2>1. /\ <<job[w]>> \o jobQ[w] # <<>>
        /\ Head(<<job[w]>> \o jobQ[w]) = job[w]
        /\ Tail(<<job[w]>> \o jobQ[w]) = jobQ[w]
    <3>1. jobQ[w] \in Seq(Item \cup {NoJob}) /\ job[w] \in Item \cup {NoJob}
      OBVIOUS
    <3>2. QED
      BY <3>1, InFront
  <2>2. Pending(w) = <<job[w]>> \o jobQ[w] /\ Pending(w)' = jobQ[w]
    BY <1>3 DEF Execute, Pending
  <2>3. \A v \in Workers \ {w} : Pending(v)' = Pending(v)
    BY <1>3 DEF Execute, Pending
  <2>4. [v \in Workers |-> Pending(v)]'
          = [[v \in Workers |-> Pending(v)] EXCEPT ![w] = Tail(@)]
    BY <2>1, <2>2, <2>3
  <2>5. Service!Perform(w)
    BY <1>3, <2>1, <2>2, <2>4 DEF Service!Perform, Execute
  <2>6. QED
    BY <2>5 DEF Service!Next
<1>4. QED
  BY <1>1, <1>2, <1>3 DEF WorkerStep

\* A job put behind the others is behind the one that is under way.
LEMMA EnqueuedServes ==
  ASSUME IInv, NEW w \in Workers, NEW item \in Item, Enqueued(w, item),
         UNCHANGED <<worker, job, executed>>
  PROVE  Service!Submit(w, item)
<1> USE DEF IInv, TypeOK
<1>1. jobQ[w] \in Seq(Item \cup {NoJob}) /\ job[w] \in Item \cup {NoJob}
  OBVIOUS
<1>2. <<job[w]>> \o Append(jobQ[w], item) = Append(<<job[w]>> \o jobQ[w], item)
  BY <1>1, AppendBehind
<1>3. Pending(w)' = Append(Pending(w), item)
  BY <1>2 DEF Enqueued, Pending
<1>4. \A v \in Workers \ {w} : Pending(v)' = Pending(v)
  BY DEF Enqueued, Pending
<1>5. [v \in Workers |-> Pending(v)]'
        = [[v \in Workers |-> Pending(v)] EXCEPT ![w] = Append(@, item)]
  BY <1>3, <1>4
<1>6. QED
  BY <1>5 DEF Service!Submit

\* The other threads submit one job to one queue or do nothing.
LEMMA OthersServe ==
  ASSUME IInv, \/ \E j \in Jobs, w \in Workers : Submit(j, w)
               \/ \E j \in Logins : Retry(j)
               \/ Signal \/ BeatPush \/ BeatSignal
  PROVE  [Service!Next]_(Service!vars)
<1>1. ASSUME NEW w \in Workers, NEW item \in Item, Service!Submit(w, item)
      PROVE  Service!Next
  BY <1>1 DEF Service!Next, Item
<1>2. ASSUME NEW j \in Jobs, NEW w \in Workers, Submit(j, w)
      PROVE  Service!Next
  BY <1>1, <1>2, EnqueuedServes DEF Submit, Item
<1>3. ASSUME NEW j \in Logins, Retry(j)
      PROVE  Service!Next
  <2>1. j \in Item /\ queueOf[j] \in Workers
    BY <1>3 DEF Retry, Queued, Item, IInv, JobsAreQueued, Jobs
  <2>2. QED
    BY <1>1, <1>3, <2>1, EnqueuedServes DEF Retry
<1>4. CASE BeatPush /\ Enqueued(dbCount, Beat)
  <2>1. Beat \in Item /\ dbCount \in Workers
    BY DEF Item, IInv, TypeOK
  <2>2. QED
    BY <1>1, <1>4, <2>1, EnqueuedServes DEF BeatPush
<1>5. CASE Signal \/ (BeatPush /\ UNCHANGED jobQ) \/ BeatSignal
  <2>1. UNCHANGED <<jobQ, worker, job, executed>>
    BY <1>5 DEF Signal, BeatPush, BeatSignal
  <2>2. QED
    BY <2>1, Unnoticed DEF Pending
<1>6. QED
  BY <1>2, <1>3, <1>4, <1>5 DEF BeatPush

\* The database threads (DBThreadWorker with PushDBJob and SubmitState) perform
\* the jobs of a queue in the order they were put there, each of them once.
THEOREM WorkersServe == Spec => Service!Safety
<1>1. Init => Service!Init
  <2> SUFFICES ASSUME Init PROVE Service!Init
    OBVIOUS
  <2>1. \A w \in Workers : Pending(w) = <<>>
    BY DEF Init, Pending
  <2>2. QED
    BY <2>1 DEF Init, Service!Init
<1>2. IInv /\ [Next]_vars => [Service!Next]_(Service!vars)
  <2> SUFFICES ASSUME IInv, [Next]_vars PROVE [Service!Next]_(Service!vars)
    OBVIOUS
  <2>1. CASE UNCHANGED vars
    BY <2>1, Unnoticed DEF vars, Pending
  <2>2. CASE Next
    BY <2>2, WorkerServes, OthersServe DEF Next
  <2>3. QED
    BY <2>1, <2>2
<1>3. QED
  BY <1>1, <1>2, Invariant, PTL DEF Spec, Service!Safety
=============================================================================
