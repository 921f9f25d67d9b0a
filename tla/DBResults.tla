------------------------------- MODULE DBResults -------------------------------
(***************************************************************************)
(* DBmanager::m_jobResultQ, the deque of results: the database threads     *)
(* push under m_mutex, the logic thread looks at the front and pops        *)
(* without it (m_mutex_result guards only the test for emptiness).         *)
(*                                                                         *)
(* The deque is modelled by the reads and writes of its size and offset    *)
(* that the build performs; elements stay in memory after they are popped. *)
(***************************************************************************)
EXTENDS Naturals

CONSTANTS
  NumResults,   \* bound: how many results are pushed
  Slots         \* bound: elements the deque's map has room for without growing

Results == 1 .. NumResults
SlotIndex == 0 .. (Slots - 1)
Nothing == 0      \* a slot nobody has written
DBResult == Results \cup {Nothing}

ASSUME BoundsAssumption == NumResults \in Nat /\ Slots \in Nat \ {0}

VARIABLES
  slot,       \* the elements
  offset,     \* index of the first one
  size,       \* number of elements
  pushed,     \* how many results were pushed, the one under way included
  pushSize,   \* the size push_back has read, or Slots when no push is under way
  logic,      \* where the logic thread is
  popSize,    \* the size pop_front has read
  handled,    \* auxiliary: how often each result was handled, at most twice
  overlapped  \* auxiliary: a push and a pop were once under way together

vars == <<slot, offset, size, pushed, pushSize, logic, popSize, handled, overlapped>>

Init ==
  /\ slot = [i \in SlotIndex |-> Nothing]
  /\ offset = 0
  /\ size = 0
  /\ pushed = 0
  /\ pushSize = Slots
  /\ logic = "reading"
  /\ popSize = 0
  /\ handled = [r \in DBResult |-> 0]
  /\ overlapped = FALSE

-----------------------------------------------------------------------------
(* DBThreadWorker, holding m_mutex: one push at a time                     *)

Pushing == pushSize # Slots
Popping == logic = "discounting"

\* push_back puts the element behind the last one ...
StartPush ==
  /\ ~ Pushing
  /\ pushed < NumResults
  /\ size < Slots
  /\ pushed' = pushed + 1
  /\ slot' = [slot EXCEPT ![(offset + size) % Slots] = pushed + 1]
  /\ pushSize' = size
  /\ UNCHANGED <<offset, size, logic, popSize, handled, overlapped>>

\* ... and adds one to the size it has read.
EndPush ==
  /\ Pushing
  /\ size' = pushSize + 1
  /\ pushSize' = Slots
  /\ overlapped' = (overlapped \/ Popping)
  /\ UNCHANGED <<slot, offset, pushed, logic, popSize, handled>>

-----------------------------------------------------------------------------
(* App::Run on the logic thread                                            *)

Twice(n) == IF n < 2 THEN n + 1 ELSE 2

\* FrontDBResult's and PopDBResult's test
NotEmpty == size # 0

\* FrontDBResult and DBProcess::Process
Handle ==
  /\ logic = "reading"
  /\ NotEmpty
  /\ handled' = [handled EXCEPT ![slot[offset]] = Twice(@)]
  /\ logic' = "popping"
  /\ UNCHANGED <<slot, offset, size, pushed, pushSize, popSize, overlapped>>

\* PopDBResult: pop_front reads the size ...
StartPop ==
  /\ logic = "popping"
  /\ NotEmpty
  /\ popSize' = size
  /\ logic' = "discounting"
  /\ UNCHANGED <<slot, offset, size, pushed, pushSize, handled, overlapped>>

\* Mutant: the offset stays behind when an element goes
OffsetKept == offset

\* The deque starts at its beginning again when the last element goes.
OffsetAfterPop == IF popSize = 1 THEN 0 ELSE (offset + 1) % Slots

\* ... and takes one from the size it has read.
EndPop ==
  /\ Popping
  /\ size' = popSize - 1
  /\ offset' = OffsetAfterPop
  /\ logic' = "reading"
  /\ overlapped' = (overlapped \/ Pushing)
  /\ UNCHANGED <<slot, pushed, pushSize, popSize, handled>>

-----------------------------------------------------------------------------
Next == StartPush \/ EndPush \/ Handle \/ StartPop \/ EndPop

Spec == Init /\ [][Next]_vars

-----------------------------------------------------------------------------
(* Properties                                                              *)

TypeOK ==
  /\ slot \in [SlotIndex -> DBResult]
  /\ offset \in SlotIndex
  /\ size \in 0 .. Slots
  /\ pushed \in 0 .. NumResults
  /\ pushSize \in 0 .. Slots
  /\ logic \in {"reading", "popping", "discounting"}
  /\ popSize \in 0 .. Slots
  /\ handled \in [DBResult -> 0 .. 2]
  /\ overlapped \in BOOLEAN

Settled == ~ Pushing /\ size = 0 /\ logic = "reading"

\* "The rest is done in DBProcess once the DB work is complete"
\* (PacketProcess.cpp:55): once nothing is under way every result that was pushed
\* has been handled, and only once.
ResultsHandledOnce == Settled => \A r \in 1 .. pushed : handled[r] = 1

\* What the lock would have to cover is push_back and pop_front alone: a result
\* read while another is pushed, or pushed while one is being handled, is never
\* lost, repeated or read before it is written.
OnlyOverlapLoses ==
  ~ overlapped => ResultsHandledOnce /\ handled[Nothing] = 0
=============================================================================
