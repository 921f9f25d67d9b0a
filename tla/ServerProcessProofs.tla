-------------------------- MODULE ServerProcessProofs --------------------------
(***************************************************************************)
(* Theorems about the life of one game server process, for every number of *)
(* DB threads, every interval between announcements, every window and      *)
(* every delay of a job: a channel that is listed is served, or was until  *)
(* a moment ago, and one that is served by a database that answers is      *)
(* listed.  (That the key ends the process is liveness and is left to the  *)
(* model checker.)                                                         *)
(***************************************************************************)
EXTENDS ServerProcess, TLAPS

AppInit == {"config", "network", "probe", "workers", "flags", "spawn"}
Running == {"test", "drain"}
Ending == {"join", "joining", "ended"}

\* How far App::Init and App::Run are tells which threads there are, and which
\* jobs the announcing thread can have submitted.
BootOK ==
  /\ main = "exited" => logic = "config"
  /\ logic \in {"config", "network", "probe"} => events = 0
  /\ indexed <= threads /\ threads <= events
  /\ logic \notin {"config", "network", "probe", "workers"} => threads \in {0, Workers}
  /\ logic \in Running => net
  /\ logic \in AppInit <=> submitter = "none"
  /\ packets + traffic <= MaxTraffic

JobsOK ==
  /\ logic \in AppInit \cup {"serve"} => dbCount = 0
  /\ logic = "serve" /\ submitter = "asleep" => sleep = Interval
  /\ submitter = "asleep" /\ sleep < Interval => indexed = threads
  /\ \A q \in Queues : pending[q] # <<>> =>
        q <= 3 /\ threads = Workers /\ logic \in Running \cup Ending

\* The announcing thread runs for as long as both flags are set.
FlagsOK ==
  /\ logic \in {"spawn", "serve", "test", "drain", "join"} => dbRunning
  /\ logic \in {"joining", "ended"} => ~ dbRunning
  /\ logic \in {"serve", "test", "drain"} /\ ready =>
       submitter \in {"checking", "asleep"}

\* The last announcement is made within an interval of the last packet, and
\* every row was written within an interval of the time it tells.
DeadOK ==
  /\ threads = Workers /\ logic \in {"test", "drain", "join"} => deadFor = 0
  /\ threads = Workers /\ logic \in {"joining", "ended"} =>
       /\ deadFor <= Interval
       /\ submitter = "asleep" => deadFor + sleep <= Interval
  /\ Listed => deadFor <= rowAge + Interval
  /\ ~ dbUp => healthyFor = 0

\* The time since the announcing thread last submitted a job, when it has just
\* gone round n queues, and how often it has submitted one since the last for q.
Since == IF submitter = "asleep" THEN Interval - sleep ELSE 0
TurnsSince(n, q) == IF q < n THEN (n - 1) - q ELSE (n + 3) - q
AgeOf(q) == Since + TurnsSince(QueueOf(dbCount), q) * Interval

\* The row was written no longer than age ago, or the channel has not been
\* served with a database that answers for longer than that.
WrittenWithin(age) == rowAge <= age \/ healthyFor <= age

LastTurn(q) == IF pending[q] = <<>> THEN WrittenWithin(AgeOf(q))
                                    ELSE pending[q] = <<AgeOf(q)>>

\* Every one of the last four jobs has been executed, or is as old as the
\* announcing thread's round makes it.
Announcing ==
  logic \in Running /\ threads = Workers /\ submitter \in {"checking", "asleep"}
RoundOK ==
  Announcing => /\ WrittenWithin(Since + 4 * Interval)
                /\ \A q \in 0 .. 3 : LastTurn(q)

IInv == TypeOK /\ BootOK /\ JobsOK /\ FlagsOK /\ DeadOK

-----------------------------------------------------------------------------
(* Counters and jobs                                                       *)

\* The constants are numbers; time passes between two submissions.
LEMMA Numbers ==
  /\ Interval \in Nat /\ Interval >= 1 /\ Window \in Nat /\ Delay \in Nat
  /\ Workers \in Nat /\ Workers >= 4 /\ MaxTraffic \in Nat
  /\ Delay < 4 * Interval
  BY ProcessAssumption

\* What the counters of a second do.
LEMMA Counting ==
  /\ \A n \in Nat : Less(n) \in Nat /\ Less(n) <= n /\ (n > 0 => Less(n) = n - 1)
  /\ \A limit \in Nat : \A n \in 0 .. limit :
        /\ UpTo(limit, n) \in 0 .. limit /\ UpTo(limit, n) <= n + 1
        /\ n < limit => UpTo(limit, n) = n + 1
        /\ n = limit => UpTo(limit, n) = limit
  BY DEF Less, UpTo

\* A queue holds nothing or one job that waits no longer than Delay.
LEMMA OneJob ==
  /\ <<>> \in Ages
  /\ \A age \in 0 .. Delay : <<age>> \in Ages
  /\ \A x \in Ages : x # <<>> => x[1] \in 0 .. Delay /\ x = <<x[1]>>
  /\ \A a, b \in Int : <<a>> # <<>> /\ <<a>>[1] = a /\ (<<a>> = <<b>> => a = b)
  BY DEF Ages

\* What is left to sleep and the time without service add up to an interval.
LEMMA LaterAndLater ==
  ASSUME NEW dead \in Nat, NEW left \in Nat, left # 0, dead + left <= Interval,
         NEW later \in Nat, NEW less \in Nat, later <= dead + 1, less = left - 1
  PROVE  later + less <= Interval /\ later <= Interval
  BY Numbers

-----------------------------------------------------------------------------
(* The invariant at the start and after every step                         *)

\* A process that is gone leaves nothing but the row behind.
LEMMA AtTheStart ==
  ASSUME Init PROVE IInv /\ RoundOK
<1>1. pending \in [Queues -> Ages]
  BY OneJob DEF Init
<1>2. /\ rowAge \in 0 .. Window /\ deadFor \in 0 .. Interval + Window
      /\ healthyFor \in 0 .. Oldest /\ sleep \in 0 .. Interval
  BY Numbers DEF Init, Oldest
<1>3. /\ events \in 0 .. Workers /\ threads \in 0 .. Workers /\ indexed \in 0 .. Workers
      /\ packets \in 0 .. MaxTraffic /\ traffic \in 0 .. MaxTraffic
      /\ dbCount \in 0 .. 4 /\ results \in Nat
  BY Numbers DEF Init
<1>4. TypeOK
  <2>1. /\ ready \in BOOLEAN /\ dbRunning \in BOOLEAN /\ portFree \in BOOLEAN
        /\ bound \in BOOLEAN /\ net \in BOOLEAN /\ dbUp \in BOOLEAN
    BY DEF Init
  <2>2. QED
    BY <1>1, <1>2, <1>3, <2>1 DEF Init, TypeOK
<1>5. BootOK /\ JobsOK /\ FlagsOK /\ DeadOK /\ RoundOK
  BY Numbers DEF Init, BootOK, JobsOK, FlagsOK, DeadOK, RoundOK, AppInit, Running,
                  Ending, Listed, Announcing
<1>6. QED
  BY <1>4, <1>5 DEF IInv

\* The steps of the logic thread
LEMMA LogicKeepsIInv ==
  ASSUME IInv, LogicStep PROVE IInv'
<1> USE DEF LogicAt, bootVars, flagVars, submitVars, workVars, outside
<1>1. CASE InitConfig
  <2>1. TypeOK'
    BY <1>1, Numbers DEF IInv, InitConfig, TypeOK, BootOK
  <2>2. BootOK'
    BY <1>1, Numbers DEF IInv, InitConfig, TypeOK, BootOK, AppInit, Running
  <2>3. JobsOK'
    BY <1>1, Numbers DEF IInv, InitConfig, TypeOK, BootOK, JobsOK, AppInit, Running, Ending
  <2>4. FlagsOK'
    BY <1>1, Numbers DEF IInv, InitConfig, FlagsOK
  <2>5. DeadOK'
    BY <1>1, Numbers DEF IInv, InitConfig, TypeOK, BootOK, DeadOK, Listed, AppInit
  <2>6. QED
    BY <2>1, <2>2, <2>3, <2>4, <2>5 DEF IInv
<1>2. CASE InitServer
  <2>1. TypeOK'
    BY <1>2, Numbers DEF IInv, InitServer, TypeOK, BootOK
  <2>2. BootOK'
    BY <1>2, Numbers DEF IInv, InitServer, TypeOK, BootOK, AppInit, Running
  <2>3. JobsOK'
    BY <1>2, Numbers DEF IInv, InitServer, TypeOK, BootOK, JobsOK, AppInit, Running, Ending
  <2>4. FlagsOK'
    BY <1>2, Numbers DEF IInv, InitServer, FlagsOK
  <2>5. DeadOK'
    BY <1>2, Numbers DEF IInv, InitServer, TypeOK, BootOK, DeadOK, Listed, AppInit
  <2>6. QED
    BY <2>1, <2>2, <2>3, <2>4, <2>5 DEF IInv
<1>3. CASE ProbeDatabase
  <2>1. TypeOK'
    BY <1>3, Numbers DEF IInv, ProbeDatabase, TypeOK, BootOK
  <2>2. BootOK'
    BY <1>3, Numbers DEF IInv, ProbeDatabase, TypeOK, BootOK, AppInit, Running
  <2>3. JobsOK'
    BY <1>3, Numbers DEF IInv, ProbeDatabase, TypeOK, BootOK, JobsOK, AppInit, Running, Ending
  <2>4. FlagsOK'
    BY <1>3, Numbers DEF IInv, ProbeDatabase, FlagsOK
  <2>5. DeadOK'
    BY <1>3, Numbers DEF IInv, ProbeDatabase, TypeOK, BootOK, DeadOK, Listed, AppInit
  <2>6. QED
    BY <2>1, <2>2, <2>3, <2>4, <2>5 DEF IInv
<1>4. CASE CreateDBEvent
  <2>1. TypeOK'
    BY <1>4, Numbers DEF IInv, CreateDBEvent, TypeOK, BootOK
  <2>2. BootOK'
    BY <1>4, Numbers DEF IInv, CreateDBEvent, TypeOK, BootOK, AppInit, Running
  <2>3. JobsOK'
    BY <1>4, Numbers DEF IInv, CreateDBEvent, TypeOK, BootOK, JobsOK, AppInit, Running, Ending
  <2>4. FlagsOK'
    BY <1>4, Numbers DEF IInv, CreateDBEvent, FlagsOK
  <2>5. DeadOK'
    BY <1>4, Numbers DEF IInv, CreateDBEvent, TypeOK, BootOK, DeadOK, Listed, AppInit
  <2>6. QED
    BY <2>1, <2>2, <2>3, <2>4, <2>5 DEF IInv
<1>5. CASE StartDBThread
  <2>1. threads \in 0 .. Workers /\ events \in 0 .. Workers /\ threads < events
    BY <1>5 DEF IInv, StartDBThread, TypeOK
  <2>2. threads' = threads + 1 /\ threads + 1 \in 0 .. Workers
    BY <1>5, <2>1, Numbers DEF StartDBThread
  <2>3. logic' = IF threads + 1 = Workers THEN "flags" ELSE "workers"
    BY <1>5 DEF StartDBThread
  <2>4. TypeOK'
    BY <1>5, <2>2, <2>3 DEF IInv, StartDBThread, TypeOK
  <2>5. BootOK'
    BY <1>5, Numbers DEF IInv, StartDBThread, TypeOK, BootOK, AppInit, Running
  <2>6. JobsOK'
    BY <1>5, Numbers DEF IInv, StartDBThread, TypeOK, BootOK, JobsOK, AppInit, Running, Ending
  <2>7. FlagsOK'
    BY <1>5, Numbers DEF IInv, StartDBThread, FlagsOK
  <2>8. DeadOK'
    BY <1>5, Numbers DEF IInv, StartDBThread, TypeOK, BootOK, DeadOK, Listed, AppInit
  <2>9. QED
    BY <2>4, <2>5, <2>6, <2>7, <2>8 DEF IInv
<1>6. CASE SetReady
  <2>1. TypeOK'
    BY <1>6, Numbers DEF IInv, SetReady, TypeOK, BootOK
  <2>2. BootOK'
    BY <1>6, Numbers DEF IInv, SetReady, TypeOK, BootOK, AppInit, Running
  <2>3. JobsOK'
    BY <1>6, Numbers DEF IInv, SetReady, TypeOK, BootOK, JobsOK, AppInit, Running, Ending
  <2>4. FlagsOK'
    BY <1>6, Numbers DEF IInv, SetReady, FlagsOK
  <2>5. DeadOK'
    BY <1>6, Numbers DEF IInv, SetReady, TypeOK, BootOK, DeadOK, Listed, AppInit
  <2>6. QED
    BY <2>1, <2>2, <2>3, <2>4, <2>5 DEF IInv
<1>7. CASE SpawnSubmitter
  <2>1. TypeOK'
    BY <1>7, Numbers DEF IInv, SpawnSubmitter, TypeOK, BootOK
  <2>2. BootOK'
    BY <1>7, Numbers DEF IInv, SpawnSubmitter, TypeOK, BootOK, AppInit, Running
  <2>3. JobsOK'
    BY <1>7, Numbers DEF IInv, SpawnSubmitter, TypeOK, BootOK, JobsOK, AppInit, Running, Ending
  <2>4. FlagsOK'
    BY <1>7, Numbers DEF IInv, SpawnSubmitter, FlagsOK
  <2>5. DeadOK'
    BY <1>7, Numbers DEF IInv, SpawnSubmitter, TypeOK, BootOK, DeadOK, Listed, AppInit
  <2>6. QED
    BY <2>1, <2>2, <2>3, <2>4, <2>5 DEF IInv
<1>8. CASE StartServer
  <2>1. deadFor' = 0 \/ (deadFor' = deadFor /\ threads # Workers)
    BY <1>8 DEF StartServer
  <2>2. /\ deadFor' \in 0 .. Interval + Window /\ healthyFor' = 0
        /\ healthyFor' \in 0 .. Oldest
    BY <1>8, <2>1, Numbers DEF IInv, TypeOK, StartServer, Oldest
  <2>3. TypeOK'
    BY <1>8, <2>2 DEF IInv, StartServer, TypeOK
  <2>4. BootOK'
    BY <1>8, Numbers DEF IInv, StartServer, TypeOK, BootOK, AppInit, Running
  <2>5. JobsOK'
    BY <1>8, Numbers DEF IInv, StartServer, TypeOK, BootOK, JobsOK, AppInit, Running, Ending
  <2>6. FlagsOK'
    BY <1>8, Numbers DEF IInv, StartServer, FlagsOK
  <2>7. Listed' => deadFor' <= rowAge' + Interval
    <3>1. rowAge' = rowAge /\ rowAge \in Nat
      BY <1>8 DEF IInv, TypeOK, StartServer
    <3>2. Listed => deadFor <= rowAge + Interval
      BY DEF IInv, DeadOK
    <3>3. QED
      BY <2>1, <3>1, <3>2, Numbers DEF Listed
  <2>8. DeadOK'
    BY <1>8, <2>1, <2>2, <2>7 DEF DeadOK, StartServer
  <2>9. QED
    BY <2>3, <2>4, <2>5, <2>6, <2>8 DEF IInv
<1>9. CASE TestReady
  <2>1. TypeOK'
    BY <1>9, Numbers DEF IInv, TestReady, TypeOK, BootOK
  <2>2. BootOK'
    BY <1>9, Numbers DEF IInv, TestReady, TypeOK, BootOK, AppInit, Running
  <2>3. JobsOK'
    BY <1>9, Numbers DEF IInv, TestReady, TypeOK, BootOK, JobsOK, AppInit, Running, Ending
  <2>4. FlagsOK'
    BY <1>9, Numbers DEF IInv, TestReady, FlagsOK
  <2>5. DeadOK'
    BY <1>9, Numbers DEF IInv, TestReady, TypeOK, BootOK, DeadOK, Listed, AppInit
  <2>6. QED
    BY <2>1, <2>2, <2>3, <2>4, <2>5 DEF IInv
<1>10. CASE Drain
  <2>1. /\ packets' \in 0 .. MaxTraffic /\ packets' <= packets
        /\ results' \in Nat /\ logic' \in {"test", "drain"}
    BY <1>10, Numbers, Counting DEF IInv, TypeOK, Drain, ResultProcessed
  <2>2. TypeOK'
    BY <1>10, <2>1 DEF IInv, Drain, TypeOK
  <2>3. packets' + traffic' <= MaxTraffic
    BY <1>10, <2>1, Numbers DEF IInv, TypeOK, BootOK, Drain
  <2>4. BootOK'
    BY <1>10, <2>1, <2>3, Numbers DEF IInv, Drain, BootOK, AppInit, Running
  <2>5. JobsOK'
    BY <1>10, <2>1 DEF IInv, Drain, JobsOK, AppInit, Running, Ending
  <2>6. FlagsOK'
    BY <1>10, <2>1 DEF IInv, Drain, FlagsOK
  <2>7. DeadOK'
    BY <1>10, <2>1 DEF IInv, Drain, DeadOK, Listed
  <2>8. QED
    BY <2>2, <2>4, <2>5, <2>6, <2>7 DEF IInv
<1>11. CASE StopSubmitter
  <2>1. TypeOK'
    BY <1>11, Numbers DEF IInv, StopSubmitter, TypeOK, BootOK
  <2>2. BootOK'
    BY <1>11, Numbers DEF IInv, StopSubmitter, TypeOK, BootOK, AppInit, Running
  <2>3. JobsOK'
    BY <1>11, Numbers DEF IInv, StopSubmitter, TypeOK, BootOK, JobsOK, AppInit, Running, Ending
  <2>4. FlagsOK'
    BY <1>11, Numbers DEF IInv, StopSubmitter, FlagsOK
  <2>5. DeadOK'
    BY <1>11, Numbers DEF IInv, StopSubmitter, TypeOK, BootOK, DeadOK, Listed, AppInit
  <2>6. QED
    BY <2>1, <2>2, <2>3, <2>4, <2>5 DEF IInv
<1>12. CASE JoinSubmitter
  <2>1. TypeOK'
    BY <1>12, Numbers DEF IInv, JoinSubmitter, TypeOK, BootOK
  <2>2. BootOK'
    BY <1>12, Numbers DEF IInv, JoinSubmitter, TypeOK, BootOK, AppInit, Running
  <2>3. JobsOK'
    BY <1>12, Numbers DEF IInv, JoinSubmitter, TypeOK, BootOK, JobsOK, AppInit, Running, Ending
  <2>4. FlagsOK'
    BY <1>12, Numbers DEF IInv, JoinSubmitter, FlagsOK
  <2>5. DeadOK'
    BY <1>12, Numbers DEF IInv, JoinSubmitter, TypeOK, BootOK, DeadOK, Listed, AppInit
  <2>6. QED
    BY <2>1, <2>2, <2>3, <2>4, <2>5 DEF IInv
<1>13. QED
  BY <1>1, <1>2, <1>3, <1>4, <1>5, <1>6, <1>7, <1>8, <1>9, <1>10, <1>11, <1>12 DEF LogicStep
\* The threads that are not the logic thread: the announcing thread, the DB
\* threads, and main().
LEMMA OthersKeepIInv ==
  ASSUME IInv, \/ CheckFlags \/ SubmitState \/ GetThreadIndex
               \/ \E q \in Queues : Execute(q)
               \/ Boot \/ Stop \/ JoinLogic
  PROVE  IInv'
<1> USE DEF bootVars, flagVars, submitVars, workVars, outside
<1>1. CASE CheckFlags
  <2>1. TypeOK'
    BY <1>1, Numbers DEF IInv, CheckFlags, TypeOK
  <2>2. BootOK'
    BY <1>1, Numbers DEF IInv, CheckFlags, BootOK, AppInit, Running
  <2>3. JobsOK'
    BY <1>1, Numbers DEF IInv, CheckFlags, TypeOK, BootOK, JobsOK, AppInit
  <2>4. FlagsOK'
    BY <1>1 DEF IInv, CheckFlags, FlagsOK
  <2>5. DeadOK'
    BY <1>1, Numbers DEF IInv, CheckFlags, TypeOK, FlagsOK, DeadOK, Listed
  <2>6. QED
    BY <2>1, <2>2, <2>3, <2>4, <2>5 DEF IInv
<1>2. CASE SubmitState
  <2> DEFINE q == QueueOf(dbCount)
  <2>1. q \in 0 .. 3 /\ q \in Queues /\ dbCount' = q + 1 /\ submitter' = "checking"
    BY <1>2, Numbers DEF SubmitState, QueueOf, IInv, TypeOK, Queues
  <2>2. indexed = threads /\ logic \in Running \cup Ending
    BY <1>2, Numbers DEF SubmitState, IInv, TypeOK, BootOK, JobsOK, AppInit, Running, Ending
  <2>3. threads \in {0, Workers}
    BY <2>2 DEF IInv, BootOK, Running, Ending
  <2>4. \/ pending' = pending
        \/ pending' = [pending EXCEPT ![q] = <<0>>] /\ threads = Workers
    BY <1>2, <2>1, <2>2, <2>3, Numbers DEF SubmitState
  <2>5. pending' \in [Queues -> Ages]
    <3>1. pending \in [Queues -> Ages]
      BY DEF IInv, TypeOK
    <3>2. <<0>> \in Ages
      BY OneJob, Numbers
    <3> HIDE DEF q
    <3>3. QED
      BY <2>4, <3>1, <3>2
  <2>6. \A p \in Queues : pending'[p] # <<>> => pending[p] # <<>> \/ (p = q /\ threads = Workers)
    BY <2>1, <2>4 DEF IInv, TypeOK
  <2> HIDE DEF q
  <2>7. TypeOK'
    BY <1>2, <2>1, <2>5, Numbers DEF IInv, SubmitState, TypeOK
  <2>8. BootOK'
    BY <1>2, <2>1 DEF IInv, SubmitState, BootOK, AppInit, Running
  <2>9. JobsOK'
    BY <1>2, <2>1, <2>2, <2>6, Numbers DEF IInv, SubmitState, JobsOK, AppInit, Running, Ending
  <2>10. FlagsOK'
    BY <1>2, <2>1 DEF IInv, SubmitState, FlagsOK
  <2>11. DeadOK'
    BY <1>2, <2>1 DEF IInv, SubmitState, DeadOK, Listed
  <2>12. QED
    BY <2>7, <2>8, <2>9, <2>10, <2>11 DEF IInv
<1>3. CASE GetThreadIndex
  <2>1. TypeOK'
    BY <1>3, Numbers DEF IInv, GetThreadIndex, TypeOK, BootOK
  <2>2. BootOK'
    BY <1>3, Numbers DEF IInv, GetThreadIndex, TypeOK, BootOK
  <2>3. JobsOK'
    BY <1>3, Numbers DEF IInv, GetThreadIndex, TypeOK, JobsOK
  <2>4. FlagsOK' /\ DeadOK'
    BY <1>3 DEF IInv, GetThreadIndex, FlagsOK, DeadOK, Listed
  <2>5. QED
    BY <2>1, <2>2, <2>3, <2>4 DEF IInv
<1>4. ASSUME NEW q \in Queues, Execute(q) PROVE IInv'
  <2>1. /\ threads = Workers /\ logic \in Running \cup Ending
        /\ deadFor <= Interval
    BY <1>4, Numbers DEF Execute, IInv, TypeOK, JobsOK, DeadOK, Running, Ending
  <2>2. rowAge' = 0 \/ rowAge' = rowAge
    BY <1>4 DEF Execute, RowWritten
  <2>3. rowAge' \in 0 .. Window
    BY <2>2, Numbers DEF IInv, TypeOK
  <2>4. pending' \in [Queues -> Ages] /\ \A p \in Queues : pending'[p] # <<>> => pending[p] # <<>>
    BY <1>4, OneJob DEF Execute, IInv, TypeOK
  <2>5. TypeOK'
    BY <1>4, <2>3, <2>4, Numbers DEF IInv, Execute, TypeOK
  <2>6. BootOK'
    BY <1>4 DEF IInv, Execute, BootOK
  <2>7. JobsOK'
    BY <1>4, <2>4 DEF IInv, Execute, JobsOK
  <2>8. FlagsOK'
    BY <1>4 DEF IInv, Execute, FlagsOK
  <2>9. Listed' => deadFor' <= rowAge' + Interval
    BY <1>4, <2>1, <2>2, Numbers DEF IInv, TypeOK, Execute, DeadOK, Listed
  <2>10. DeadOK'
    BY <1>4, <2>9 DEF IInv, Execute, DeadOK
  <2>11. QED
    BY <2>5, <2>6, <2>7, <2>8, <2>10 DEF IInv
<1>5. CASE Boot \/ Stop \/ JoinLogic
  <2>1. TypeOK'
    <3>1. /\ main' \in {"prompt", "joining", "releasing"} /\ ready' \in BOOLEAN
          /\ UNCHANGED <<logic, dbRunning, bootVars, submitVars, workVars, outside>>
      BY <1>5 DEF IInv, Boot, Stop, JoinLogic, TypeOK
    <3>2. QED
      BY <3>1, SMTT(20) DEF IInv, TypeOK
  <2>2. BootOK'
    BY <1>5 DEF IInv, Boot, Stop, JoinLogic, BootOK
  <2>3. JobsOK' /\ FlagsOK' /\ DeadOK'
    BY <1>5 DEF IInv, Boot, Stop, JoinLogic, JobsOK, FlagsOK, DeadOK, Listed
  <2>4. QED
    BY <2>1, <2>2, <2>3 DEF IInv
<1>6. QED
  BY <1>1, <1>2, <1>3, <1>4, <1>5

\* The process ends, in good order or not.
LEMMA EndKeepsIInv ==
  ASSUME IInv, Release \/ Crash PROVE IInv'
<1> USE DEF outside
<1>1. pending' = [q \in Queues |-> <<>>] /\ pending' \in [Queues -> Ages]
  BY OneJob DEF Release, Crash, Fresh
<1>2. TypeOK'
  <2>1. /\ events' \in 0 .. Workers /\ threads' \in 0 .. Workers /\ indexed' \in 0 .. Workers
        /\ packets' \in 0 .. MaxTraffic /\ traffic' \in 0 .. MaxTraffic
        /\ dbCount' \in 0 .. 4 /\ results' \in Nat /\ sleep' \in 0 .. Interval
    BY Numbers DEF Release, Crash, Fresh
  <2>2. /\ ready' \in BOOLEAN /\ dbRunning' \in BOOLEAN /\ portFree' \in BOOLEAN
        /\ bound' \in BOOLEAN /\ net' \in BOOLEAN
    BY DEF Release, Crash, Fresh
  <2>3. QED
    BY <1>1, <2>1, <2>2 DEF IInv, TypeOK, Release, Crash, Fresh
<1>3. BootOK' /\ JobsOK' /\ FlagsOK'
  BY <1>1, Numbers DEF BootOK, JobsOK, FlagsOK, Release, Crash, Fresh, AppInit, Running, Ending
<1>4. DeadOK'
  BY DEF IInv, DeadOK, Release, Crash, Fresh, Listed
<1>5. QED
  BY <1>2, <1>3, <1>4 DEF IInv

\* The clients and the database
LEMMA WorldKeepsIInv ==
  ASSUME IInv, Arrive \/ Outage PROVE IInv'
<1> USE DEF bootVars, flagVars, submitVars, workVars, outside
<1>1. CASE Arrive
  <2>1. /\ packets' \in 0 .. MaxTraffic /\ traffic' \in 0 .. MaxTraffic
        /\ packets' + traffic' <= MaxTraffic
    BY <1>1, Numbers DEF IInv, TypeOK, BootOK, Arrive
  <2>2. TypeOK'
    BY <1>1, <2>1 DEF IInv, TypeOK, Arrive
  <2>3. BootOK'
    BY <1>1, <2>1 DEF IInv, BootOK, Arrive
  <2>4. JobsOK' /\ FlagsOK' /\ DeadOK'
    BY <1>1 DEF IInv, Arrive, JobsOK, FlagsOK, DeadOK, Listed
  <2>5. QED
    BY <2>2, <2>3, <2>4 DEF IInv
<1>2. CASE Outage
  <2>1. dbUp' \in BOOLEAN /\ healthyFor' = 0 /\ 0 \in 0 .. Oldest
    BY <1>2, Numbers DEF IInv, TypeOK, Outage, Oldest
  <2>2. TypeOK'
    BY <1>2, <2>1 DEF IInv, TypeOK, Outage
  <2>3. BootOK' /\ JobsOK' /\ FlagsOK'
    BY <1>2 DEF IInv, BootOK, JobsOK, FlagsOK, Outage
  <2>4. DeadOK'
    BY <1>2, <2>1 DEF IInv, DeadOK, Outage, Listed
  <2>5. QED
    BY <2>2, <2>3, <2>4 DEF IInv
<1>3. QED
  BY <1>1, <1>2

\* A second passes, when nobody has anything to do.
LEMMA TickKeepsIInv ==
  ASSUME IInv, Tick PROVE IInv'
<1> USE DEF bootVars, flagVars, submitVars, workVars, outside
<1>1. /\ sleep' \in 0 .. Interval /\ sleep' <= sleep /\ (sleep > 0 => sleep' = sleep - 1)
      /\ rowAge' \in 0 .. Window /\ rowAge' <= rowAge + 1
      /\ rowAge < Window => rowAge' = rowAge + 1
      /\ rowAge = Window => rowAge' = Window
  <2>1. sleep \in 0 .. Interval /\ sleep \in Nat /\ rowAge \in 0 .. Window
    BY Numbers DEF IInv, TypeOK
  <2>2. sleep' = Less(sleep) /\ rowAge' = UpTo(Window, rowAge)
    BY DEF Tick
  <2>3. sleep' \in Nat /\ sleep' <= sleep /\ (sleep > 0 => sleep' = sleep - 1)
    BY <2>1, <2>2, Counting
  <2>4. /\ rowAge' \in 0 .. Window /\ rowAge' <= rowAge + 1
        /\ rowAge < Window => rowAge' = rowAge + 1
        /\ rowAge = Window => rowAge' = Window
    BY <2>1, <2>2, Counting, Numbers
  <2>5. QED
    BY <2>1, <2>3, <2>4, Numbers
<1>2. /\ healthyFor' \in 0 .. Oldest /\ (~ dbUp => healthyFor' = 0)
      /\ healthyFor' <= healthyFor + 1
  <2>1. Oldest \in Nat /\ healthyFor \in 0 .. Oldest
    BY Numbers DEF IInv, TypeOK, Oldest
  <2>2. healthyFor' = 0 \/ (healthyFor' = UpTo(Oldest, healthyFor) /\ dbUp)
    BY DEF Tick
  <2>3. UpTo(Oldest, healthyFor) \in 0 .. Oldest /\ UpTo(Oldest, healthyFor) <= healthyFor + 1
    BY <2>1, Counting
  <2>4. QED
    BY <2>1, <2>2, <2>3
<1>3. /\ deadFor' \in 0 .. Interval + Window /\ deadFor' <= deadFor + 1
      /\ Serving => deadFor' = 0
  <2>1. Interval + Window \in Nat /\ deadFor \in 0 .. Interval + Window
    BY Numbers DEF IInv, TypeOK
  <2>2. deadFor' = 0 \/ deadFor' = UpTo(Interval + Window, deadFor)
    BY DEF Tick
  <2>3. /\ UpTo(Interval + Window, deadFor) \in 0 .. Interval + Window
        /\ UpTo(Interval + Window, deadFor) <= deadFor + 1
    BY <2>1, Counting
  <2>4. Serving => deadFor' = 0
    BY DEF Tick
  <2>5. QED
    BY <2>1, <2>2, <2>3, <2>4
<1>4. /\ pending' \in [Queues -> Ages]
      /\ \A q \in Queues : pending'[q] # <<>> => pending[q] # <<>>
  <2>1. ASSUME NEW q \in Queues
        PROVE  /\ pending'[q] \in Ages
               /\ pending'[q] # <<>> => pending[q] # <<>>
    <3>1. pending[q] \in Ages
      BY DEF IInv, TypeOK
    <3>2. CASE pending[q] = <<>>
      BY <3>2, OneJob DEF Tick
    <3>3. CASE pending[q] # <<>>
      <4>1. pending[q][1] \in 0 .. Delay /\ pending[q] = <<pending[q][1]>>
        BY <3>1, <3>3, OneJob
      <4>2. main # "exited"
        BY <3>3 DEF IInv, BootOK, JobsOK, Running, Ending
      <4>3. pending[q][1] # Delay
        BY <4>1, <4>2 DEF Tick, Due
      <4>4. pending[q][1] + 1 \in 0 .. Delay
        BY <4>1, <4>3, Numbers
      <4>5. QED
        BY <3>3, <4>4, OneJob DEF Tick
    <3>4. QED
      BY <3>2, <3>3
  <2>2. QED
    BY <2>1 DEF Tick
<1>5. TypeOK'
  <2>1. /\ UNCHANGED <<main, logic, flagVars, bootVars, submitter, dbCount>>
        /\ UNCHANGED <<workVars, dbUp>>
    BY DEF Tick
  <2>2. QED
    BY <1>1, <1>2, <1>3, <1>4, <2>1, SMTT(20) DEF IInv, TypeOK
<1>6. BootOK'
  BY DEF IInv, BootOK, Tick
<1>7. JobsOK'
  <2>1. logic # "serve"
    BY DEF IInv, BootOK, Tick, Due
  <2>2. submitter = "asleep" => indexed = threads
    BY Numbers DEF IInv, TypeOK, BootOK, Tick, Due, AppInit
  <2>3. QED
    BY <1>4, <2>1, <2>2 DEF IInv, JobsOK, Tick
<1>8. FlagsOK'
  BY DEF IInv, FlagsOK, Tick
<1>9. DeadOK'
  <2>1. Listed' => deadFor' <= rowAge' + Interval
    <3>1. rowAge \in 0 .. Window /\ deadFor \in Nat /\ deadFor' \in Nat /\ rowAge' \in Nat
      BY <1>1, <1>3, Numbers DEF IInv, TypeOK
    <3>2. rowAge < Window => deadFor <= rowAge + Interval
      BY DEF IInv, DeadOK, Listed
    <3>3. (rowAge < Window => rowAge' = rowAge + 1) /\ deadFor' <= deadFor + 1
      BY <1>1, <1>3
    <3>4. rowAge' < Window => rowAge < Window
      BY <1>1, <3>1, <3>3, Numbers
    <3>5. QED
      BY <3>1, <3>2, <3>3, <3>4, Numbers DEF Listed
  <2>2. threads = Workers /\ logic \in {"test", "drain", "join"} => deadFor' = 0
    BY <1>3 DEF IInv, BootOK, Tick, Due, Serving, Running
  <2>3. threads = Workers /\ logic \in {"joining", "ended"} =>
          submitter = "asleep" /\ deadFor' <= Interval /\ deadFor' + sleep' <= Interval
    <3> SUFFICES ASSUME threads = Workers, logic \in {"joining", "ended"}
                 PROVE  submitter = "asleep" /\ deadFor' + sleep' <= Interval /\ deadFor' <= Interval
      OBVIOUS
    <3>1. submitter = "asleep" /\ sleep # 0
      BY DEF IInv, TypeOK, BootOK, Tick, Due, AppInit
    <3>2. deadFor + sleep <= Interval
      BY <3>1 DEF IInv, DeadOK
    <3>3. /\ sleep \in Nat /\ deadFor \in Nat /\ sleep' \in Nat /\ deadFor' \in Nat
          /\ deadFor' <= deadFor + 1 /\ sleep' = sleep - 1
      BY <1>1, <1>3, <3>1, Numbers DEF IInv, TypeOK
    <3>4. deadFor' + sleep' <= Interval /\ deadFor' <= Interval
      BY <3>2, <3>3, <3>1, LaterAndLater
    <3>5. QED
      BY <3>1, <3>4
  <2>4. QED
    BY <1>2, <2>1, <2>2, <2>3 DEF DeadOK, Tick
<1>10. QED
  BY <1>5, <1>6, <1>7, <1>8, <1>9 DEF IInv

\* Every step keeps the invariant.
LEMMA NextKeepsIInv == IInv /\ [Next]_vars => IInv'
<1> SUFFICES ASSUME IInv, [Next]_vars PROVE IInv'
  OBVIOUS
<1>1. CASE UNCHANGED vars
  <2>1. TypeOK' /\ BootOK'
    BY <1>1 DEF IInv, TypeOK, BootOK, vars, bootVars, flagVars, submitVars, workVars, outside
  <2>2. JobsOK' /\ FlagsOK' /\ DeadOK'
    BY <1>1 DEF IInv, JobsOK, FlagsOK, DeadOK, Listed, vars, bootVars, flagVars,
                submitVars, workVars, outside
  <2>3. QED
    BY <2>1, <2>2 DEF IInv
<1>2. CASE Next
  BY <1>2, LogicKeepsIInv, OthersKeepIInv, EndKeepsIInv, WorldKeepsIInv, TickKeepsIInv
     DEF Next, SubmitterStep, MainStep
<1>3. QED
  BY <1>1, <1>2

LEMMA Invariant == Spec => []IInv
<1>1. Init => IInv
  BY AtTheStart
<1>2. QED
  BY <1>1, NextKeepsIInv, PTL DEF Spec

\* Every variable of the process, its threads and its row has its type.
THEOREM TypeCorrect == Spec => []TypeOK
<1>1. IInv => TypeOK
  BY DEF IInv
<1>2. QED
  BY <1>1, Invariant, PTL

\* A channel the login server offers is read by a process with all its threads,
\* or was less than an announcement and a window ago, whatever the process, its
\* database and the key have done meanwhile.
THEOREM OfferedChannelsAreServed == Spec => []ListedIsServed
<1>1. IInv => ListedIsServed
  BY Numbers DEF IInv, TypeOK, DeadOK, ListedIsServed, Listed
<1>2. QED
  BY <1>1, Invariant, PTL
-----------------------------------------------------------------------------
(* The rounds of the announcing thread                                     *)

\* Going back from the next queue one meets each of the four queues once.
LEMMA FourQueues ==
  ASSUME NEW n \in 0 .. 3
  PROVE  /\ \A q \in 0 .. 3 : TurnsSince(n, q) \in {0, 1, 2, 3}
         /\ \A k \in 0 .. 3 : \E q \in 0 .. 3 : TurnsSince(n, q) = k
<1>1. \A q \in 0 .. 3 : TurnsSince(n, q) \in {0, 1, 2, 3}
  BY DEF TurnsSince
<1>2. \A k \in 0 .. 3 : TurnsSince(n, k) \in 0 .. 3 /\ TurnsSince(n, TurnsSince(n, k)) = k
  BY DEF TurnsSince
<1>3. QED
  BY <1>1, <1>2

\* The multiples of the interval that are met there
LEMMA Intervals ==
  /\ 0 * Interval = 0 /\ 1 * Interval = Interval /\ 2 * Interval = Interval + Interval
  /\ 3 * Interval = Interval + Interval + Interval
  /\ 4 * Interval = Interval + Interval + Interval + Interval
  BY Numbers

\* Four of them after any time is no time before the start.
LEMMA FourIntervals == \A since \in Nat : 0 <= since + 4 * Interval
  BY Numbers

\* Ages are natural numbers, and the last submission was within an interval.
LEMMA Ageing ==
  ASSUME IInv
  PROVE  /\ Since \in 0 .. Interval /\ Since \in Nat
         /\ QueueOf(dbCount) \in 0 .. 3
         /\ \A q \in 0 .. 3 : AgeOf(q) \in Nat
<1>1. Since \in 0 .. Interval /\ Since \in Nat
  BY Numbers DEF Since, IInv, TypeOK
<1>2. QueueOf(dbCount) \in 0 .. 3
  BY DEF IInv, TypeOK, QueueOf
<1>3. ASSUME NEW q \in 0 .. 3 PROVE AgeOf(q) \in Nat
  <2>1. TurnsSince(QueueOf(dbCount), q) \in {0, 1, 2, 3}
    BY <1>2, FourQueues
  <2>2. TurnsSince(QueueOf(dbCount), q) * Interval \in Nat
    BY <2>1, Intervals, Numbers
  <2>3. QED
    BY <1>1, <2>2 DEF AgeOf
<1>4. QED
  BY <1>1, <1>2, <1>3

\* The row of a channel that has been served by a database that answers for
\* longer than an announcement and a job's wait: the youngest job that was
\* executed is not older than that, since none before it waited longer.
LEMMA YoungestJob ==
  ASSUME NEW since \in 0 .. Interval, NEW row \in Nat,
         \A k \in 0 .. 3 : \/ row <= since + k * Interval
                           \/ Oldest <= since + k * Interval
                           \/ since + k * Interval <= Delay,
         row <= since + 4 * Interval \/ Oldest <= since + 4 * Interval
  PROVE  row <= Interval + Delay
<1>1. since \in Nat /\ since <= Interval /\ Oldest = Interval + Delay + 1
  BY Numbers DEF Oldest
<1>2. row <= since \/ Oldest <= since \/ since <= Delay
  BY <1>1, Intervals, Numbers
<1>3. \/ row <= since + Interval \/ Oldest <= since + Interval
      \/ since + Interval <= Delay
  BY <1>1, Intervals, Numbers
<1>4. \/ row <= since + Interval + Interval \/ Oldest <= since + Interval + Interval
      \/ since + Interval + Interval <= Delay
  BY <1>1, Intervals, Numbers
<1>5. \/ row <= since + Interval + Interval + Interval
      \/ Oldest <= since + Interval + Interval + Interval
      \/ since + Interval + Interval + Interval <= Delay
  BY <1>1, Intervals, Numbers
<1>6. \/ row <= since + Interval + Interval + Interval + Interval
      \/ Oldest <= since + Interval + Interval + Interval + Interval
  BY <1>1, Intervals, Numbers
<1>7. QED
  BY <1>1, <1>2, <1>3, <1>4, <1>5, <1>6, Numbers

\* A step that leaves the announcing thread, its jobs and the row alone, and
\* does not begin to serve, leaves the round as it is.
LEMMA RoundUndisturbed ==
  ASSUME RoundOK, Announcing' => Announcing,
         UNCHANGED <<submitter, sleep, dbCount, pending, rowAge, healthyFor>>
  PROVE  RoundOK'
<1>1. Since' = Since /\ \A q \in 0 .. 3 : AgeOf(q)' = AgeOf(q)
  BY DEF Since, AgeOf
<1>2. \A q \in 0 .. 3 : LastTurn(q) => LastTurn(q)'
  BY <1>1 DEF LastTurn, WrittenWithin
<1>3. WrittenWithin(Since + 4 * Interval) => WrittenWithin(Since + 4 * Interval)'
  BY <1>1 DEF WrittenWithin
<1>4. QED
  BY <1>2, <1>3 DEF RoundOK

\* When the channel has only just been served, nothing is late.
LEMMA RoundOfAnother ==
  ASSUME IInv', RoundOK, healthyFor' = 0,
         \/ \A q \in Queues : pending'[q] = <<>>
         \/ UNCHANGED <<logic, threads, submitter, sleep, dbCount, pending>>
  PROVE  RoundOK'
<1> SUFFICES ASSUME Announcing' PROVE RoundOK'
  BY DEF RoundOK
<1>1. Since' \in Nat /\ \A q \in 0 .. 3 : AgeOf(q)' \in Nat
  <2>1. Since' \in 0 .. Interval /\ QueueOf(dbCount') \in 0 .. 3
    <3>1. sleep' \in 0 .. Interval /\ dbCount' \in 0 .. 4
      BY DEF IInv, TypeOK
    <3>2. Since' = 0 \/ Since' = Interval - sleep'
      BY DEF Since
    <3>3. QED
      BY <3>1, <3>2, Numbers DEF QueueOf
  <2>2. \A q \in 0 .. 3 : TurnsSince(QueueOf(dbCount'), q) * Interval \in Nat
    BY <2>1, FourQueues, Intervals, Numbers
  <2>3. QED
    BY <2>1, <2>2, Numbers DEF AgeOf
<1>2. WrittenWithin(Since + 4 * Interval)'
  <2>1. Since' \in Nat
    BY <1>1
  <2>2. 0 <= Since' + 4 * Interval
    BY <2>1, FourIntervals
  <2>3. QED
    BY <2>2 DEF WrittenWithin
<1>3. ASSUME NEW q \in 0 .. 3 PROVE LastTurn(q)'
  <2>1. q \in Queues
    BY Numbers DEF Queues
  <2>2. CASE pending'[q] = <<>>
    BY <1>1, <2>2 DEF LastTurn, WrittenWithin
  <2>3. CASE pending'[q] # <<>>
    <3>1. UNCHANGED <<logic, threads, submitter, sleep, dbCount, pending>>
      BY <2>1, <2>3
    <3>2. Announcing
      BY <3>1 DEF Announcing
    <3>3. pending[q] = <<AgeOf(q)>> /\ AgeOf(q)' = AgeOf(q)
      BY <2>3, <3>1, <3>2 DEF RoundOK, LastTurn, AgeOf, Since
    <3>4. QED
      BY <2>3, <3>1, <3>3 DEF LastTurn
  <2>4. QED
    BY <2>2, <2>3
<1>4. QED
  BY <1>2, <1>3 DEF RoundOK
\* A step of the logic thread
LEMMA LogicKeepsRound ==
  ASSUME IInv, IInv', RoundOK, LogicStep
  PROVE  RoundOK'
<1> USE DEF LogicAt, bootVars, flagVars, submitVars, workVars, outside
<1>1. CASE StartServer
  <2>1. \A q \in Queues : pending[q] = <<>>
    BY <1>1 DEF StartServer, IInv, JobsOK, Running, Ending
  <2>2. healthyFor' = 0 /\ pending' = pending
    BY <1>1 DEF StartServer
  <2>3. QED
    BY <2>1, <2>2, RoundOfAnother
<1>2. CASE SpawnSubmitter
  <2>1. ~ Announcing'
    BY <1>2 DEF SpawnSubmitter, Announcing, Running
  <2>2. QED
    BY <2>1 DEF RoundOK
<1>3. CASE \/ InitConfig \/ InitServer \/ ProbeDatabase \/ CreateDBEvent \/ StartDBThread
           \/ SetReady \/ TestReady \/ Drain \/ StopSubmitter \/ JoinSubmitter
  <2>1. UNCHANGED <<submitter, sleep, dbCount, pending, rowAge, healthyFor>>
    BY <1>3 DEF InitConfig, InitServer, ProbeDatabase, CreateDBEvent, StartDBThread,
                SetReady, TestReady, Drain, StopSubmitter, JoinSubmitter
  <2>2. Announcing' => Announcing
    BY <1>3 DEF InitConfig, InitServer, ProbeDatabase, CreateDBEvent, StartDBThread,
                SetReady, TestReady, Drain, StopSubmitter, JoinSubmitter, Announcing, Running
  <2>3. QED
    BY <2>1, <2>2, RoundUndisturbed
<1>4. QED
  BY <1>1, <1>2, <1>3 DEF LogicStep

\* The announcing thread submits the next job: its queue is empty, since a job
\* that was put there four rounds ago would have waited longer than Delay.
LEMMA SubmitKeepsRound ==
  ASSUME IInv, IInv', RoundOK, SubmitState
  PROVE  RoundOK'
<1> USE DEF bootVars, flagVars, submitVars, workVars, outside
<1> SUFFICES ASSUME Announcing' PROVE RoundOK'
  BY DEF RoundOK
<1> PICK n \in 0 .. 3 : n = QueueOf(dbCount)
  BY Ageing
<1>1. /\ n = QueueOf(dbCount) /\ n \in 0 .. 3 /\ n \in Queues /\ dbCount' = n + 1
      /\ submitter = "asleep" /\ sleep = 0 /\ submitter' = "checking"
      /\ UNCHANGED <<rowAge, healthyFor>>
  BY Ageing, Numbers DEF SubmitState, Queues
<1>2. Announcing /\ n < indexed
  <2>1. logic \in Running /\ threads = Workers
    BY DEF Announcing, SubmitState
  <2>2. indexed = threads
    BY <1>1, Numbers DEF IInv, JobsOK
  <2>3. QED
    BY <1>1, <2>1, <2>2, Numbers DEF Announcing
<1>3. Since = Interval /\ Since' = 0
  BY <1>1, Numbers DEF Since
<1>4. /\ TurnsSince(n, n) = 3 /\ TurnsSince(QueueOf(dbCount'), n) = 0
      /\ \A q \in 0 .. 3 : q # n =>
           \/ TurnsSince(n, q) = 0 /\ TurnsSince(QueueOf(dbCount'), q) = 1
           \/ TurnsSince(n, q) = 1 /\ TurnsSince(QueueOf(dbCount'), q) = 2
           \/ TurnsSince(n, q) = 2 /\ TurnsSince(QueueOf(dbCount'), q) = 3
  <2>1. n \in {0, 1, 2, 3}
    BY <1>1
  <2>2. QueueOf(dbCount') = IF n = 3 THEN 0 ELSE n + 1
    BY <1>1 DEF QueueOf
  <2>3. QED
    BY <2>1, <2>2 DEF TurnsSince
<1>5. /\ AgeOf(n) = 4 * Interval /\ AgeOf(n)' = 0
      /\ \A q \in 0 .. 3 : q # n => AgeOf(q)' = AgeOf(q)
  <2>1. AgeOf(n) = 4 * Interval
    BY <1>3, <1>4, Intervals, Numbers DEF AgeOf
  <2>2. AgeOf(n)' = 0
    BY <1>1, <1>3, <1>4, Intervals, Numbers DEF AgeOf
  <2>3. ASSUME NEW q \in 0 .. 3, q # n PROVE AgeOf(q)' = AgeOf(q)
    BY <1>1, <1>3, <1>4, <2>3, Intervals, Numbers DEF AgeOf
  <2>4. QED
    BY <2>1, <2>2, <2>3
<1>6. pending[n] = <<>>
  <2> SUFFICES ASSUME pending[n] # <<>> PROVE FALSE
    OBVIOUS
  <2>1. pending[n] = <<4 * Interval>>
    BY <1>1, <1>2, <1>5 DEF RoundOK, LastTurn
  <2>2. pending[n] \in Ages
    BY <1>1 DEF IInv, TypeOK
  <2>3. pending[n][1] \in 0 .. Delay
    BY <2>2, OneJob
  <2>4. pending[n][1] = 4 * Interval
    BY <2>1, OneJob, Numbers
  <2>5. QED
    BY <2>3, <2>4, Numbers
<1>7. pending' = [pending EXCEPT ![n] = <<0>>]
  BY <1>1, <1>2, <1>6 DEF SubmitState
<1>8. pending \in [Queues -> Ages]
  BY DEF IInv, TypeOK
<1>9. WrittenWithin(Since + 4 * Interval)'
  <2>1. WrittenWithin(4 * Interval)
    BY <1>1, <1>2, <1>5, <1>6 DEF RoundOK, LastTurn
  <2>2. Since' + 4 * Interval = 4 * Interval
    BY <1>3, Numbers
  <2>3. QED
    BY <1>1, <2>1, <2>2 DEF WrittenWithin
<1>10. ASSUME NEW q \in 0 .. 3 PROVE LastTurn(q)'
  <2>1. q \in Queues
    BY Numbers DEF Queues
  <2>2. CASE q = n
    BY <1>5, <1>7, <1>8, <2>1, <2>2, OneJob DEF LastTurn
  <2>3. CASE q # n
    <3>1. pending'[q] = pending[q] /\ AgeOf(q)' = AgeOf(q) /\ LastTurn(q)
      BY <1>2, <1>5, <1>7, <1>8, <2>1, <2>3 DEF RoundOK
    <3>2. QED
      BY <1>1, <3>1 DEF LastTurn, WrittenWithin
  <2>4. QED
    BY <2>2, <2>3
<1>11. QED
  BY <1>9, <1>10 DEF RoundOK

\* A DB thread executes a job: it renews the row, unless the database is away.
LEMMA ExecuteKeepsRound ==
  ASSUME IInv, IInv', RoundOK, NEW p \in Queues, Execute(p)
  PROVE  RoundOK'
<1> SUFFICES ASSUME Announcing' PROVE RoundOK'
  BY DEF RoundOK
<1>1. /\ UNCHANGED <<logic, threads, submitter, sleep, dbCount, healthyFor, dbUp>>
      /\ pending' = [pending EXCEPT ![p] = <<>>]
      /\ rowAge' = IF dbUp THEN 0 ELSE rowAge
  BY DEF Execute, RowWritten, Connects, bootVars, flagVars
<1>2. rowAge' = 0 \/ (healthyFor' = 0 /\ rowAge' = rowAge)
  BY <1>1 DEF IInv, DeadOK
<1>3. \A age \in Nat : WrittenWithin(age)'
  BY <1>2 DEF WrittenWithin
<1>4. /\ Announcing /\ Since' = Since
      /\ \A q \in 0 .. 3 : AgeOf(q)' = AgeOf(q)
  BY <1>1 DEF Announcing, Since, AgeOf
<1>5. WrittenWithin(Since + 4 * Interval)'
  <2>1. Since' + 4 * Interval \in Nat
    BY <1>4, Ageing, Numbers
  <2>2. QED
    BY <1>2, <2>1 DEF WrittenWithin
<1>6. ASSUME NEW q \in 0 .. 3 PROVE LastTurn(q)'
  <2>1. q \in Queues /\ pending \in [Queues -> Ages] /\ AgeOf(q) \in Nat
    <3>1. q \in Queues
      BY Numbers DEF Queues
    <3>2. QED
      BY <3>1, Ageing DEF IInv, TypeOK
  <2>2. CASE pending'[q] = <<>>
    BY <1>2, <1>4, <2>1, <2>2 DEF LastTurn, WrittenWithin
  <2>3. CASE pending'[q] # <<>>
    <3>1. pending'[q] = pending[q]
      BY <1>1, <2>1, <2>3
    <3>2. QED
      BY <1>4, <2>3, <3>1 DEF RoundOK, LastTurn
  <2>4. QED
    BY <2>2, <2>3
<1>7. QED
  BY <1>5, <1>6 DEF RoundOK
\* The flags are tested, and the announcing thread sleeps, or ends.
LEMMA CheckKeepsRound ==
  ASSUME IInv, RoundOK, CheckFlags
  PROVE  RoundOK'
<1> USE DEF bootVars, flagVars, workVars, outside
<1> SUFFICES ASSUME Announcing' PROVE RoundOK'
  BY DEF RoundOK
<1>1. /\ submitter = "checking" /\ submitter' = "asleep" /\ sleep' = Interval
      /\ UNCHANGED <<logic, threads, dbCount, pending, rowAge, healthyFor>>
  BY DEF CheckFlags, Announcing
<1>2. Announcing /\ Since = 0 /\ Since' = 0
  BY <1>1, Numbers DEF Announcing, Since
<1>3. \A q \in 0 .. 3 : AgeOf(q)' = AgeOf(q)
  BY <1>1, <1>2 DEF AgeOf
<1>4. \A q \in 0 .. 3 : LastTurn(q)'
  BY <1>1, <1>2, <1>3 DEF RoundOK, LastTurn, WrittenWithin
<1>5. WrittenWithin(Since + 4 * Interval)'
  BY <1>1, <1>2 DEF RoundOK, WrittenWithin
<1>6. QED
  BY <1>4, <1>5 DEF RoundOK

\* A second passes: everything is a second older.
LEMMA TickKeepsRound ==
  ASSUME IInv, IInv', RoundOK, Tick
  PROVE  RoundOK'
<1> USE DEF bootVars, flagVars, workVars, outside
<1> SUFFICES ASSUME Announcing' PROVE RoundOK'
  BY DEF RoundOK
<1>1. /\ Announcing /\ submitter = "asleep" /\ submitter' = "asleep" /\ sleep # 0
      /\ UNCHANGED <<logic, threads, dbCount>>
  <2>1. UNCHANGED <<logic, threads, dbCount, submitter>>
    BY DEF Tick
  <2>2. main # "exited"
    BY <2>1 DEF Announcing, Running, IInv, BootOK
  <2>3. QED
    BY <2>1, <2>2 DEF Announcing, Tick, Due
<1>2. Since \in Nat /\ Since' = Since + 1
  <2>1. sleep \in 0 .. Interval /\ sleep' = Less(sleep)
    BY DEF IInv, TypeOK, Tick
  <2>2. sleep \in Nat /\ sleep' = sleep - 1
    BY <1>1, <2>1, Numbers DEF Less
  <2>3. Since = Interval - sleep /\ Since' = Interval - sleep'
    BY <1>1 DEF Since
  <2>4. QED
    BY <2>1, <2>2, <2>3, Numbers
<1>3. ASSUME NEW q \in 0 .. 3 PROVE AgeOf(q) \in Nat /\ AgeOf(q)' = AgeOf(q) + 1
  <2>1. TurnsSince(QueueOf(dbCount), q) * Interval \in Nat
    BY Ageing, FourQueues, Intervals, Numbers
  <2>2. AgeOf(q)' = Since' + TurnsSince(QueueOf(dbCount), q) * Interval
    BY <1>1 DEF AgeOf
  <2>3. QED
    BY <1>2, <2>1, <2>2 DEF AgeOf
<1>4. /\ rowAge \in Nat /\ healthyFor \in Nat /\ rowAge' \in Nat /\ healthyFor' \in Nat
      /\ rowAge' <= rowAge + 1 /\ healthyFor' <= healthyFor + 1
  <2>1. Window \in Nat /\ Oldest \in Nat /\ rowAge \in 0 .. Window /\ healthyFor \in 0 .. Oldest
    BY Numbers DEF IInv, TypeOK, Oldest
  <2>2. rowAge' = UpTo(Window, rowAge)
    BY DEF Tick
  <2>3. healthyFor' = 0 \/ healthyFor' = UpTo(Oldest, healthyFor)
    BY DEF Tick
  <2>4. rowAge' \in 0 .. Window /\ rowAge' <= rowAge + 1
    BY <2>1, <2>2, Counting
  <2>5. UpTo(Oldest, healthyFor) \in 0 .. Oldest /\ UpTo(Oldest, healthyFor) <= healthyFor + 1
    BY <2>1, Counting
  <2>6. QED
    BY <2>1, <2>3, <2>4, <2>5
<1>5. ASSUME NEW age \in Nat, NEW older, older = age + 1, WrittenWithin(age)
      PROVE  rowAge' <= older \/ healthyFor' <= older
  BY <1>4, <1>5 DEF WrittenWithin
<1>6. WrittenWithin(Since + 4 * Interval)'
  <2>1. Since + 4 * Interval \in Nat /\ Since' + 4 * Interval = (Since + 4 * Interval) + 1
    BY <1>2, Intervals, Numbers
  <2>2. WrittenWithin(Since + 4 * Interval)
    BY <1>1 DEF RoundOK
  <2>3. QED
    BY <1>5, <2>1, <2>2 DEF WrittenWithin
<1>7. ASSUME NEW q \in 0 .. 3 PROVE LastTurn(q)'
  <2>1. q \in Queues
    BY Numbers DEF Queues
  <2>2. LastTurn(q)
    BY <1>1 DEF RoundOK
  <2>3. CASE pending[q] = <<>>
    <3>1. pending'[q] = <<>>
      BY <2>1, <2>3 DEF Tick
    <3>2. WrittenWithin(AgeOf(q))
      BY <2>2, <2>3 DEF LastTurn
    <3>3. QED
      BY <1>3, <1>5, <3>1, <3>2 DEF LastTurn, WrittenWithin
  <2>4. CASE pending[q] # <<>>
    <3>1. pending[q] = <<AgeOf(q)>> /\ pending'[q] = <<pending[q][1] + 1>>
      BY <2>1, <2>2, <2>4 DEF Tick, LastTurn
    <3>2. pending'[q] = <<AgeOf(q)'>> /\ pending'[q] # <<>>
      BY <1>3, <3>1, OneJob
    <3>3. QED
      BY <3>2 DEF LastTurn
  <2>5. QED
    BY <2>3, <2>4
<1>8. QED
  BY <1>6, <1>7 DEF RoundOK

\* Every step keeps the round.
LEMMA NextKeepsRound ==
  ASSUME IInv, IInv', RoundOK, [Next]_vars
  PROVE  RoundOK'
<1> USE DEF bootVars, flagVars, submitVars, workVars, outside
<1>1. CASE LogicStep
  BY <1>1, LogicKeepsRound
<1>2. CASE SubmitterStep
  BY <1>2, SubmitKeepsRound, CheckKeepsRound DEF SubmitterStep
<1>3. CASE \E q \in Queues : Execute(q)
  BY <1>3, ExecuteKeepsRound
<1>4. CASE Tick
  BY <1>4, TickKeepsRound
<1>5. CASE Release \/ Crash
  BY <1>5 DEF Release, Crash, Fresh, RoundOK, Announcing, Running
<1>6. CASE Outage
  BY <1>6, RoundOfAnother DEF Outage
<1>7. CASE UNCHANGED vars \/ GetThreadIndex \/ JoinLogic \/ Boot \/ Stop \/ Arrive
  <2>1. UNCHANGED <<logic, threads, submitter, sleep, dbCount, pending, rowAge, healthyFor>>
    BY <1>7 DEF vars, GetThreadIndex, JoinLogic, Boot, Stop, Arrive
  <2>2. QED
    BY <2>1, RoundUndisturbed DEF Announcing
<1>8. QED
  BY <1>1, <1>2, <1>3, <1>4, <1>5, <1>6, <1>7 DEF Next, MainStep

-----------------------------------------------------------------------------
(* A healthy server stays in the list                                      *)

\* While the announcing thread runs, the row of a channel that has been served
\* for long enough is young enough.
LEMMA AnnouncedInTime ==
  ASSUME Interval + Delay < Window, NEW since \in 0 .. Interval, NEW n \in 0 .. 3,
         NEW row \in Nat, NEW job \in [Queues -> Ages],
         \A q \in 0 .. 3 : LET age == since + TurnsSince(n, q) * Interval
                           IN  IF job[q] = <<>> THEN row <= age \/ Oldest <= age
                                                ELSE job[q] = <<age>>,
         row <= since + 4 * Interval \/ Oldest <= since + 4 * Interval
  PROVE  row < Window
<1>1. ASSUME NEW k \in 0 .. 3
      PROVE  \/ row <= since + k * Interval
             \/ Oldest <= since + k * Interval
             \/ since + k * Interval <= Delay
  <2>1. PICK q \in 0 .. 3 : TurnsSince(n, q) = k
    BY FourQueues
  <2>2. q \in Queues
    BY Numbers DEF Queues
  <2>3. since + k * Interval \in Int
    BY Intervals, Numbers
  <2>4. CASE job[q] = <<>>
    BY <2>1, <2>4
  <2>5. CASE job[q] # <<>>
    <3>1. job[q] = <<since + k * Interval>>
      BY <2>1, <2>5
    <3>2. job[q][1] \in 0 .. Delay
      BY <2>2, <2>5, OneJob
    <3>3. job[q][1] = since + k * Interval
      BY <2>3, <3>1, OneJob
    <3>4. QED
      BY <3>2, <3>3, Numbers
  <2>6. QED
    BY <2>4, <2>5
<1>2. row <= Interval + Delay
  BY <1>1, YoungestJob
<1>3. QED
  BY <1>2, Numbers

\* Nothing but time makes the row older or the channel served longer.
LEMMA OnlyTimePasses ==
  ASSUME IInv, [Next]_vars, ~ Tick
  PROVE  (healthyFor' = healthyFor /\ rowAge' \in {0, rowAge}) \/ healthyFor' = 0
<1> USE DEF bootVars, flagVars, submitVars, workVars, outside
<1>1. CASE LogicStep
  BY <1>1 DEF LogicStep, LogicAt, InitConfig, InitServer, ProbeDatabase, CreateDBEvent,
     StartDBThread, SetReady, SpawnSubmitter, StartServer, TestReady, Drain, StopSubmitter,
     JoinSubmitter
<1>2. CASE SubmitterStep \/ \E q \in Queues : Execute(q)
  BY <1>2 DEF SubmitterStep, CheckFlags, SubmitState, Execute, RowWritten
<1>3. CASE \/ GetThreadIndex \/ MainStep \/ Boot \/ Stop \/ Crash \/ Arrive \/ Outage
           \/ UNCHANGED vars
  BY <1>3 DEF GetThreadIndex, MainStep, JoinLogic, Release, Boot, Stop, Crash, Arrive,
     Outage, vars
<1>4. QED
  BY <1>1, <1>2, <1>3 DEF Next

\* A step leaves a server in the list that is served by a database that answers.
LEMMA StepKeepsListed ==
  ASSUME Interval + Delay < Window, IInv, IInv', RoundOK', StaysListed, [Next]_vars
  PROVE  StaysListed'
<1> SUFFICES ASSUME healthyFor' = Oldest PROVE rowAge' < Window
  BY DEF StaysListed, Listed, Oldest
<1>1. Oldest \in Nat /\ Oldest # 0
  BY Numbers DEF Oldest
<1>2. CASE ~ Tick
  BY <1>1, <1>2, OnlyTimePasses, Numbers DEF StaysListed, Listed
<1>3. CASE Tick
  <2>1. Serving /\ dbUp
    BY <1>1, <1>3 DEF Tick
  <2>2. /\ logic = "test" /\ ready /\ submitter = "asleep"
        /\ UNCHANGED <<logic, threads, submitter>>
    BY <1>3, <2>1 DEF Serving, Tick, Due, IInv, FlagsOK, bootVars
  <2>3. Announcing'
    BY <2>1, <2>2 DEF Serving, Announcing, Running
  <2>4. /\ WrittenWithin(Since + 4 * Interval)'
        /\ \A q \in 0 .. 3 : LastTurn(q)'
    BY <2>3 DEF RoundOK
  <2>5. PICK since \in 0 .. Interval : since = Since'
    <3>1. sleep' \in 0 .. Interval
      BY DEF IInv, TypeOK
    <3>2. Since' = 0 \/ Since' = Interval - sleep'
      BY DEF Since
    <3>3. QED
      BY <3>1, <3>2, Numbers
  <2>6. PICK n \in 0 .. 3 : n = QueueOf(dbCount')
    BY DEF IInv, TypeOK, QueueOf
  <2>7. PICK row \in Nat : row = rowAge'
    BY Numbers DEF IInv, TypeOK
  <2>8. PICK job \in [Queues -> Ages] : job = pending'
    BY DEF IInv, TypeOK
  <2>9. row <= since + 4 * Interval \/ Oldest <= since + 4 * Interval
    BY <2>4, <2>5, <2>7 DEF WrittenWithin
  <2>10. \A q \in 0 .. 3 : LET age == since + TurnsSince(n, q) * Interval
                           IN  IF job[q] = <<>> THEN row <= age \/ Oldest <= age
                                                ELSE job[q] = <<age>>
    BY <2>4, <2>5, <2>6, <2>7, <2>8 DEF LastTurn, WrittenWithin, AgeOf
  <2>11. QED
    BY <2>7, <2>9, <2>10, AnnouncedInTime
<1>4. QED
  BY <1>2, <1>3

\* Provided the sleep between two announcements and the wait of a job are
\* together less than the window (3 + Delay < 7 in App.cpp:99 and
\* MysqlLib.cs:117), a server whose threads have all run, with a database that
\* answers, for longer than that is in the list.
THEOREM HealthyServersAreListed ==
  ASSUME Interval + Delay < Window
  PROVE  Spec => []StaysListed
<1>1. Init => IInv /\ RoundOK /\ StaysListed
  <2>1. Oldest # 0
    BY Numbers DEF Oldest
  <2>2. Init => StaysListed
    BY <2>1 DEF Init, StaysListed
  <2>3. QED
    BY <2>2, AtTheStart
<1>2. IInv /\ RoundOK /\ StaysListed /\ [Next]_vars => (IInv /\ RoundOK /\ StaysListed)'
  BY NextKeepsIInv, NextKeepsRound, StepKeepsListed
<1>3. QED
  BY <1>1, <1>2, PTL DEF Spec
=============================================================================
