---------------------------- MODULE ServerProcess ----------------------------
(***************************************************************************)
(* The life of one game server process: main.cpp's two threads, App's       *)
(* initialisation, main loop and shutdown, the threads DBmanager and        *)
(* IOCPManager start and detach, the thread that announces the channel, and *)
(* the row of the table `channel` from which the login server tells the     *)
(* clients where they may play.  What a packet or a result does is the      *)
(* business of the other modules; here both are only counted.               *)
(*                                                                         *)
(* One Tick is one second, the unit of the column `timestamp`.  The         *)
(* process may crash anywhere and be started again; the database may go     *)
(* away and come back; the row outlives the process.                        *)
(***************************************************************************)
EXTENDS Integers

CONSTANTS
    Workers,      \* ServerConfig::numberOfDBThread
    Interval,     \* seconds the announcing thread sleeps (App.cpp:99)
    Window,       \* seconds a row is believed (MysqlLib.cs:117)
    Delay,        \* bound: seconds a job waits for a worker and its database
    MaxTraffic    \* bound: packets that arrive during one life of the process

\* SubmitState goes round the queues 0 to 3, whatever their number; a queue is
\* empty again before its next turn.
ASSUME ProcessAssumption ==
    /\ Workers \in Nat /\ Workers >= 4
    /\ Interval \in Nat /\ Window \in Nat /\ MaxTraffic \in Nat
    /\ Delay \in Nat /\ Delay < 4 * Interval

VARIABLES
    main,         \* where main() is; "exited" while there is no process
    logic,        \* where the logic thread is in App::Init and App::Run
    ready,        \* App::m_IsReady
    dbRunning,    \* App::m_dbisRunning
    portFree,     \* may the configured port be bound
    bound,        \* the server socket is bound to it
    net,          \* the listen, worker and send threads run
    events,       \* how many of hDBEvent DBmanager::Init has created
    threads,      \* how many DB threads it has started
    indexed,      \* g_nThreadSeq + 1: how many of them know their index
    submitter,    \* the thread that runs StateCheckAndSubmit
    sleep,        \* the seconds it has still to sleep
    dbCount,      \* the static of SubmitState: the queue of the next job
    pending,      \* per queue, the age of its SUBMIT_STATE job, if it has one
    packets,      \* packets waiting in m_pRecvPacketQue
    results,      \* results waiting in m_jobResultQ
    traffic,      \* packets that may still arrive
    dbUp,         \* the database answers
    rowAge,       \* seconds since the row was written; Window when not listed
    deadFor,      \* history: seconds since the channel was last served
    healthyFor    \* history: seconds it is served with a database that answers

bootVars == <<portFree, bound, net, events, threads, indexed>>
flagVars == <<ready, dbRunning>>
submitVars == <<submitter, sleep, dbCount, pending>>
workVars == <<packets, results, traffic>>
outside == <<dbUp, rowAge, deadFor, healthyFor>>
vars == <<main, logic, flagVars, bootVars, submitVars, workVars, outside>>

Queues == 0 .. Workers - 1
Oldest == Interval + Delay + 1

\* What a queue holds of the announcing thread: nothing, or one job's age.
Ages == {<<>>} \cup {<<age>> : age \in 0 .. Delay}

TypeOK ==
    /\ main \in {"prompt", "joining", "releasing", "exited"}
    /\ logic \in {"config", "network", "probe", "workers", "flags", "spawn",
                  "serve", "test", "drain", "join", "joining", "ended"}
    /\ ready \in BOOLEAN /\ dbRunning \in BOOLEAN
    /\ portFree \in BOOLEAN /\ bound \in BOOLEAN /\ net \in BOOLEAN
    /\ events \in 0 .. Workers /\ threads \in 0 .. Workers /\ indexed \in 0 .. Workers
    /\ submitter \in {"none", "checking", "asleep", "ended"}
    /\ sleep \in 0 .. Interval
    /\ dbCount \in 0 .. 4
    /\ pending \in [Queues -> Ages]
    /\ packets \in 0 .. MaxTraffic /\ results \in Nat
    /\ traffic \in 0 .. MaxTraffic
    /\ dbUp \in BOOLEAN
    /\ rowAge \in 0 .. Window
    /\ deadFor \in 0 .. Interval + Window /\ healthyFor \in 0 .. Oldest

(***************************************************************************)
(* The memory of a process: what App's members and the globals of           *)
(* DBmanager.cpp hold before main() runs, and lose when it ends.            *)
(***************************************************************************)
Fresh ==
    /\ logic' = "config" /\ ready' = FALSE /\ dbRunning' = FALSE
    /\ portFree' = TRUE /\ bound' = FALSE /\ net' = FALSE
    /\ events' = 0 /\ threads' = 0 /\ indexed' = 0
    /\ submitter' = "none" /\ sleep' = 0 /\ dbCount' = 0
    /\ pending' = [q \in Queues |-> <<>>]
    /\ packets' = 0 /\ results' = 0 /\ traffic' = MaxTraffic

Init ==
    /\ main = "exited"
    /\ logic = "config" /\ ready = FALSE /\ dbRunning = FALSE
    /\ portFree = TRUE /\ bound = FALSE /\ net = FALSE
    /\ events = 0 /\ threads = 0 /\ indexed = 0
    /\ submitter = "none" /\ sleep = 0 /\ dbCount = 0
    /\ pending = [q \in Queues |-> <<>>]
    /\ packets = 0 /\ results = 0 /\ traffic = MaxTraffic
    /\ dbUp \in BOOLEAN
    /\ rowAge = Window /\ deadFor = Interval + Window /\ healthyFor = 0

-----------------------------------------------------------------------------
(* The logic thread: App::Init.                                             *)

LogicAt(from, to) == main # "exited" /\ logic = from /\ logic' = to

\* The port is read from config.ini, or is the default every server shares.
InitConfig ==
    /\ LogicAt("config", "network")
    /\ portFree' \in BOOLEAN
    /\ UNCHANGED <<main, flagVars, bound, net, events, threads, indexed>>
    /\ UNCHANGED <<submitVars, workVars, outside>>

\* What WSAStartup, WSASocket and bind return is not looked at.
InitServer ==
    /\ LogicAt("network", "probe")
    /\ bound' = portFree
    /\ UNCHANGED <<main, flagVars, portFree, net, events, threads, indexed>>
    /\ UNCHANGED <<submitVars, workVars, outside>>

\* DBmanager::Init makes one query first; when it fails it starts no thread,
\* and App::Init does not look at what it returns.
ProbeDatabase ==
    /\ LogicAt("probe", IF dbUp THEN "workers" ELSE "flags")
    /\ UNCHANGED <<main, flagVars, bootVars, submitVars, workVars, outside>>

CreateDBEvent ==
    /\ LogicAt("workers", "workers")
    /\ events = threads /\ events < Workers
    /\ events' = events + 1
    /\ UNCHANGED <<main, flagVars, portFree, bound, net, threads, indexed>>
    /\ UNCHANGED <<submitVars, workVars, outside>>

StartDBThread ==
    /\ LogicAt("workers", IF threads + 1 = Workers THEN "flags" ELSE "workers")
    /\ threads < events
    /\ threads' = threads + 1
    /\ UNCHANGED <<main, flagVars, portFree, bound, net, events, indexed>>
    /\ UNCHANGED <<submitVars, workVars, outside>>

\* A DB thread takes the next index, and with it its event and its queue.
GetThreadIndex ==
    /\ main # "exited" /\ indexed < threads
    /\ indexed' = indexed + 1
    /\ UNCHANGED <<main, logic, flagVars, portFree, bound, net, events, threads>>
    /\ UNCHANGED <<submitVars, workVars, outside>>

\* The end of Init sets both flags, whatever they have become meanwhile.
SetReady ==
    /\ LogicAt("flags", "spawn")
    /\ ready' = TRUE /\ dbRunning' = TRUE
    /\ UNCHANGED <<main, bootVars, submitVars, workVars, outside>>

-----------------------------------------------------------------------------
(* The logic thread: App::Run.                                              *)

\* Mutant: the first announcement is made before the first sleep.
AnnouncesAtOnce ==
    /\ LogicAt("spawn", "serve")
    /\ submitter' = "asleep"
    /\ UNCHANGED <<main, flagVars, bootVars, sleep, dbCount, pending>>
    /\ UNCHANGED <<workVars, outside>>

SpawnSubmitter ==
    /\ LogicAt("spawn", "serve")
    /\ submitter' = "checking"
    /\ UNCHANGED <<main, flagVars, bootVars, sleep, dbCount, pending>>
    /\ UNCHANGED <<workVars, outside>>

StartServer ==
    /\ LogicAt("serve", "test")
    /\ net' = TRUE
    /\ deadFor' = IF threads = Workers THEN 0 ELSE deadFor
    /\ healthyFor' = 0
    /\ UNCHANGED <<main, flagVars, portFree, bound, events, threads, indexed>>
    /\ UNCHANGED <<submitVars, workVars, dbUp, rowAge>>

\* Mutant: it is the flag of the announcing thread that is tested.
TestRunning ==
    /\ LogicAt("test", IF dbRunning THEN "drain" ELSE "join")
    /\ UNCHANGED <<main, flagVars, bootVars, submitVars, workVars, outside>>

TestReady ==
    /\ LogicAt("test", IF ready THEN "drain" ELSE "join")
    /\ UNCHANGED <<main, flagVars, bootVars, submitVars, workVars, outside>>

\* One turn of the inner loop: a packet and a result, or the break.
Less(n) == IF n = 0 THEN 0 ELSE n - 1

\* DBProcess::Process: all that is done with the result of a report is to log it.
ResultProcessed == results' = Less(results)

Drain ==
    /\ LogicAt("drain", IF packets + results = 0 THEN "test" ELSE "drain")
    /\ packets' = Less(packets) /\ ResultProcessed
    /\ UNCHANGED <<main, flagVars, bootVars, submitVars, traffic, outside>>

StopSubmitter ==
    /\ LogicAt("join", "joining")
    /\ dbRunning' = FALSE
    /\ UNCHANGED <<main, ready, bootVars, submitVars, workVars, outside>>

JoinSubmitter ==
    /\ LogicAt("joining", "ended")
    /\ submitter = "ended"
    /\ UNCHANGED <<main, flagVars, bootVars, submitVars, workVars, outside>>

LogicStep ==
    \/ InitConfig \/ InitServer \/ ProbeDatabase \/ CreateDBEvent \/ StartDBThread
    \/ SetReady \/ SpawnSubmitter \/ StartServer
    \/ TestReady \/ Drain \/ StopSubmitter \/ JoinSubmitter

-----------------------------------------------------------------------------
(* The announcing thread, the DB threads and the row they write.            *)

\* The flags are tested before the sleep, the state is submitted after it.
CheckFlags ==
    /\ main # "exited" /\ submitter = "checking"
    /\ IF dbRunning /\ ready
       THEN submitter' = "asleep" /\ sleep' = Interval
       ELSE submitter' = "ended" /\ UNCHANGED sleep
    /\ UNCHANGED <<main, logic, flagVars, bootVars, dbCount, pending>>
    /\ UNCHANGED <<workVars, outside>>

\* Mutant: it goes round one queue more than there are.
QueueOfOneMore(count) == IF count > 4 THEN 0 ELSE count

\* The jobs go round the queues.
QueueOf(count) == IF count = 4 THEN 0 ELSE count

\* A job for a queue that nobody reads is left out: it stays there for good.
SubmitState ==
    /\ main # "exited" /\ submitter = "asleep" /\ sleep = 0
    /\ LET q == QueueOf(dbCount) IN
        /\ pending' = IF q < indexed /\ pending[q] = <<>>
                      THEN [pending EXCEPT ![q] = <<0>>] ELSE pending
        /\ dbCount' = q + 1
    /\ submitter' = "checking"
    /\ UNCHANGED <<main, logic, flagVars, bootVars, sleep, workVars, outside>>

\* sqlconn opens a connection for every job.
Connects == dbUp

\* submit_server_status inserts the row of this name, or renews it.
RowWritten == IF Connects THEN 0 ELSE rowAge

\* A worker executes the job of its queue: a new connection, the procedure, a
\* result for the logic thread whatever came of it.
Execute(q) ==
    /\ main # "exited" /\ q < indexed /\ pending[q] # <<>>
    /\ pending' = [pending EXCEPT ![q] = <<>>]
    /\ rowAge' = RowWritten
    /\ results' = results + 1
    /\ UNCHANGED <<main, logic, flagVars, bootVars, submitter, sleep, dbCount>>
    /\ UNCHANGED <<packets, traffic, dbUp, deadFor, healthyFor>>

\* What the login server answers a login with: the rows of the last seconds.
Listed == rowAge < Window

-----------------------------------------------------------------------------
(* main() and the end of the process.                                       *)

Boot ==
    /\ main = "exited" /\ main' = "prompt"
    /\ UNCHANGED <<logic, flagVars, bootVars, submitVars, workVars, outside>>

\* The key is pressed.
Stop ==
    /\ main = "prompt" /\ main' = "joining"
    /\ ready' = FALSE
    /\ UNCHANGED <<logic, dbRunning, bootVars, submitVars, workVars, outside>>

JoinLogic ==
    /\ main = "joining" /\ logic = "ended" /\ main' = "releasing"
    /\ UNCHANGED <<logic, flagVars, bootVars, submitVars, workVars, outside>>

\* ~App: the singletons, then the members; the detached threads run on until
\* the process is gone, and what they touch may end it on the way.
Release ==
    /\ main = "releasing" /\ main' = "exited"
    /\ Fresh /\ UNCHANGED outside

Crash ==
    /\ main # "exited" /\ main' = "exited"
    /\ Fresh /\ UNCHANGED outside

-----------------------------------------------------------------------------
(* The rest of the world.                                                   *)

\* A client sends; nobody can when the port could not be bound.
Arrive ==
    /\ main # "exited" /\ net /\ bound /\ traffic > 0
    /\ traffic' = traffic - 1 /\ packets' = packets + 1
    /\ UNCHANGED <<main, logic, flagVars, bootVars, submitVars, results, outside>>

Outage ==
    /\ dbUp' = ~dbUp
    /\ healthyFor' = 0
    /\ UNCHANGED <<main, logic, flagVars, bootVars, submitVars, workVars>>
    /\ UNCHANGED <<rowAge, deadFor>>

\* The threads of a channel all run (whether its port is bound is not known
\* to anybody).
Serving ==
    /\ main # "exited" /\ net /\ threads = Workers
    /\ logic \in {"test", "drain"}

\* Threads that have something to do do it within the second; only the
\* connection App::Init makes may hang, and a job waits up to Delay.
Due ==
    /\ main # "exited"
    /\ \/ logic \notin {"probe", "test", "joining", "ended"}
       \/ logic = "test" /\ (~ready \/ packets + results > 0)
       \/ indexed < threads
       \/ submitter = "checking"
       \/ submitter = "asleep" /\ sleep = 0
       \/ \E q \in Queues : pending[q] = <<Delay>>
       \/ logic = "joining" /\ submitter = "ended"
       \/ logic = "ended"

UpTo(limit, n) == IF n < limit THEN n + 1 ELSE limit

Tick ==
    /\ ~Due
    /\ sleep' = Less(sleep)
    /\ pending' = [q \in Queues |-> IF pending[q] = <<>> THEN <<>>
                                    ELSE <<pending[q][1] + 1>>]
    /\ rowAge' = UpTo(Window, rowAge)
    /\ deadFor' = IF Serving THEN 0 ELSE UpTo(Interval + Window, deadFor)
    /\ healthyFor' = IF Serving /\ dbUp THEN UpTo(Oldest, healthyFor) ELSE 0
    /\ UNCHANGED <<main, logic, flagVars, bootVars, submitter, dbCount>>
    /\ UNCHANGED <<workVars, dbUp>>

SubmitterStep == CheckFlags \/ SubmitState
MainStep == JoinLogic \/ Release

Next ==
    \/ LogicStep \/ SubmitterStep \/ GetThreadIndex
    \/ \E q \in Queues : Execute(q)
    \/ MainStep \/ Boot \/ Stop \/ Crash
    \/ Arrive \/ Outage \/ Tick

\* The system runs every thread that can run, and time goes on.  Nobody need
\* press the key, start the server again, send, or repair the database.
Fairness ==
    /\ WF_vars(LogicStep) /\ WF_vars(SubmitterStep) /\ WF_vars(GetThreadIndex)
    /\ \A q \in Queues : WF_vars(Execute(q))
    /\ WF_vars(MainStep) /\ WF_vars(Tick)

Spec == Init /\ [][Next]_vars /\ Fairness

-----------------------------------------------------------------------------
(***************************************************************************)
(* Properties.                                                              *)
(***************************************************************************)

\* A channel that the login server lists is run by a process that reads its
\* packets and its DB jobs, or was until a moment ago.  One whose database
\* failed during App::Init, and has no DB threads, is never offered; after a
\* crash the row is believed no longer than the window; and a stopped server,
\* which announces itself once more after its last packet, no longer than that
\* sleep and the window (DBmanager.cpp:28, App.cpp:97-105, MysqlLib.cs:117).
ListedIsServed == Listed => deadFor < Interval + Window

\* A server that runs with a database that answers stays in the list: the
\* three seconds between two announcements and the wait of the job are less
\* than the seven a row is believed (App.cpp:99, DBmanager.cpp:172-179,
\* MysqlLib.cs:117).
StaysListed == healthyFor = Oldest => Listed

\* The key ends the process, unless App::Init was still running when it was
\* pressed and has made the server ready again (App.cpp:34, main.cpp:20).
StopEnds ==
    main = "joining" ~> main = "exited" \/ (ready /\ logic \in {"test", "drain"})
=============================================================================
