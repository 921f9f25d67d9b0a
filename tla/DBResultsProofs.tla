--------------------------- MODULE DBResultsProofs ----------------------------
(***************************************************************************)
(* The deque of results loses nothing unless push_back and pop_front       *)
(* overlap: proved for any number of results and of slots.                 *)
(***************************************************************************)
EXTENDS DBResults, Integers, TLAPS

\* Where the element number k is, counted from the front.
At(k) == (offset + k) % Slots

\* How many pushes are complete, and how many of their results were popped.
Completed == IF Pushing THEN pushed - 1 ELSE pushed
Gone == Completed - size

\* The result being handled counts as handled before it is popped.
Done == IF logic = "reading" THEN Gone ELSE Gone + 1

\* While nothing overlapped: the results that are left lie one behind the other,
\* the one being pushed included; what a push or a pop has read is still true;
\* the results that are done were handled once, the others not yet.
InOrder ==
  /\ size <= Completed
  /\ \A k \in 0 .. (pushed - Gone - 1) : slot[At(k)] = Gone + k + 1
  /\ Pushing => pushSize = size
  /\ Popping => popSize = size
  /\ logic # "reading" => size > 0
  /\ \A r \in DBResult : handled[r] = IF r \in 1 .. Done THEN 1 ELSE 0

Inv ==
  /\ TypeOK
  /\ Pushing => pushed > 0
  /\ Popping => popSize > 0
  /\ ~ overlapped => InOrder

-----------------------------------------------------------------------------
(* The ring of slots                                                       *)

\* Going on from a slot by less than a round.
LEMMA Around ==
  ASSUME NEW o \in Nat, NEW k \in Nat, o + k < 2 * Slots
  PROVE  (o + k) % Slots = IF o + k < Slots THEN o + k ELSE o + k - Slots
<1>1. Slots \in Nat \ {0}
  BY BoundsAssumption
<1>2. CASE o + k < Slots
  BY <1>1, <1>2
<1>3. CASE o + k >= Slots
  BY <1>1, <1>3
<1>4. QED
  BY <1>1, <1>2, <1>3

\* Two elements of one round have slots of their own.
LEMMA Apart ==
  ASSUME NEW o \in SlotIndex, NEW k \in SlotIndex, NEW l \in SlotIndex, k # l
  PROVE  /\ (o + k) % Slots \in SlotIndex
         /\ (o + k) % Slots # (o + l) % Slots
<1>1. Slots \in Nat \ {0}
  BY BoundsAssumption
<1>2. o \in Nat /\ k \in Nat /\ l \in Nat /\ o + k < 2 * Slots /\ o + l < 2 * Slots
  BY <1>1 DEF SlotIndex
<1>3. /\ (o + k) % Slots = IF o + k < Slots THEN o + k ELSE o + k - Slots
      /\ (o + l) % Slots = IF o + l < Slots THEN o + l ELSE o + l - Slots
  BY <1>2, Around
<1>4. QED
  BY <1>1, <1>3 DEF SlotIndex

\* The next slot, and what is k further on from there.
LEMMA NextSlot ==
  ASSUME NEW o \in SlotIndex
  PROVE  /\ (o + 1) % Slots \in SlotIndex
         /\ o % Slots = o
         /\ \A k \in 0 .. Slots - 2 : (((o + 1) % Slots) + k) % Slots = (o + (k + 1)) % Slots
<1>1. Slots \in Nat \ {0}
  BY BoundsAssumption
<1>2. o \in Nat /\ o + 1 < 2 * Slots
  BY <1>1 DEF SlotIndex
<1>3. /\ (o + 1) % Slots = IF o + 1 < Slots THEN o + 1 ELSE o + 1 - Slots
      /\ o % Slots = o
  <2>1. (o + 1) % Slots = IF o + 1 < Slots THEN o + 1 ELSE o + 1 - Slots
    BY <1>2, Around
  <2>2. o % Slots = o
    BY <1>1 DEF SlotIndex
  <2>3. QED
    BY <2>1, <2>2
<1>4. (o + 1) % Slots \in SlotIndex
  BY <1>1, <1>3 DEF SlotIndex
<1>5. ASSUME NEW k \in 0 .. Slots - 2
      PROVE  (((o + 1) % Slots) + k) % Slots = (o + (k + 1)) % Slots
  <2>1. /\ (o + 1) % Slots \in Nat /\ ((o + 1) % Slots) + k < 2 * Slots
        /\ o \in Nat /\ k \in Nat /\ k + 1 \in Nat /\ o + (k + 1) < 2 * Slots
    BY <1>1, <1>4 DEF SlotIndex
  <2>2. /\ (((o + 1) % Slots) + k) % Slots = IF ((o + 1) % Slots) + k < Slots
                                            THEN ((o + 1) % Slots) + k
                                            ELSE ((o + 1) % Slots) + k - Slots
        /\ (o + (k + 1)) % Slots = IF o + (k + 1) < Slots THEN o + (k + 1) ELSE o + (k + 1) - Slots
    BY <2>1, Around
  <2>3. QED
    BY <1>1, <1>3, <2>2 DEF SlotIndex
<1>6. QED
  BY <1>3, <1>4, <1>5

-----------------------------------------------------------------------------
(* The steps                                                               *)

LEMMA InitInv == Init => Inv
<1> SUFFICES ASSUME Init PROVE Inv
  OBVIOUS
<1>1. Slots \in Nat \ {0} /\ NumResults \in Nat
  BY BoundsAssumption
<1>2. ~ Pushing /\ ~ Popping
  BY DEF Init, Pushing, Popping
<1>3. TypeOK
  <2>1. 0 \in SlotIndex /\ Nothing \in DBResult /\ 0 \in 0 .. NumResults
    BY <1>1 DEF SlotIndex, DBResult
  <2>2. slot \in [SlotIndex -> DBResult] /\ handled \in [DBResult -> 0 .. 2]
    BY <2>1 DEF Init
  <2>3. /\ offset \in SlotIndex /\ size \in 0 .. Slots /\ pushSize \in 0 .. Slots
        /\ popSize \in 0 .. Slots /\ pushed \in 0 .. NumResults
    BY <1>1, <2>1 DEF Init
  <2>4. logic \in {"reading", "popping", "discounting"} /\ overlapped \in BOOLEAN
    BY DEF Init
  <2>5. QED
    BY <2>2, <2>3, <2>4 DEF TypeOK
<1>4. InOrder
  BY <1>1, <1>2 DEF Init, InOrder, Completed, Gone, Done, DBResult, Results, Nothing
<1>5. QED
  BY <1>2, <1>3, <1>4 DEF Inv

\* push_back writes behind the last element, where nothing is that is left.
LEMMA StartPushStep ==
  ASSUME Inv, StartPush
  PROVE  Inv'
<1>1. Slots \in Nat \ {0} /\ NumResults \in Nat /\ TypeOK
  BY BoundsAssumption DEF Inv
<1>2. size \in SlotIndex /\ offset \in SlotIndex /\ pushSize' = size /\ Pushing' /\ ~ Pushing
  BY <1>1 DEF StartPush, TypeOK, SlotIndex, Pushing
<1>3. At(size) \in SlotIndex
  <2>1. offset \in Nat /\ size \in Nat /\ offset + size < 2 * Slots
    BY <1>1, <1>2 DEF SlotIndex
  <2>2. QED
    BY <1>1, <1>2, <2>1, Around DEF SlotIndex, At
<1>4. TypeOK'
  BY <1>1, <1>2, <1>3 DEF StartPush, TypeOK, At, DBResult, Results, Nothing
<1>5. ASSUME InOrder PROVE InOrder'
  <2>1. Completed' = Completed /\ Gone' = Gone /\ Done' = Done /\ pushed' = pushed + 1
        /\ pushed = Gone + size /\ Gone \in Int
    BY <1>1, <1>2 DEF StartPush, Completed, Gone, Done, TypeOK
  <2>2. ASSUME NEW k \in 0 .. (pushed' - Gone' - 1) PROVE slot'[At(k)'] = Gone' + k + 1
    <3>1. k \in 0 .. size /\ k \in SlotIndex
      BY <1>1, <1>2, <2>1 DEF SlotIndex, TypeOK
    <3>2. At(k)' = At(k)
      BY DEF StartPush, At
    <3>3. CASE k = size
      BY <1>1, <1>3, <2>1, <3>2, <3>3 DEF StartPush, At, TypeOK
    <3>4. CASE k # size
      <4>1. At(k) \in SlotIndex /\ At(k) # At(size)
        BY <1>2, <3>1, <3>4, Apart DEF At
      <4>2. slot'[At(k)] = slot[At(k)]
        BY <1>1, <4>1 DEF StartPush, TypeOK, At
      <4>3. k \in 0 .. (pushed - Gone - 1)
        BY <1>1, <2>1, <3>1, <3>4 DEF TypeOK
      <4>4. QED
        BY <1>5, <2>1, <3>2, <4>2, <4>3 DEF InOrder
    <3>5. QED
      BY <3>3, <3>4
  <2>3. QED
    BY <1>2, <1>5, <2>1, <2>2 DEF InOrder, StartPush, Popping
<1>6. (Pushing => pushed > 0)' /\ (Popping => popSize > 0)'
  BY <1>1 DEF StartPush, Inv, Popping, TypeOK
<1>7. QED
  BY <1>4, <1>5, <1>6 DEF Inv, StartPush

LEMMA EndPushStep ==
  ASSUME Inv, EndPush
  PROVE  Inv'
<1>1. Slots \in Nat \ {0} /\ NumResults \in Nat /\ TypeOK /\ pushed > 0
  BY BoundsAssumption DEF Inv, EndPush
<1>2. pushSize \in SlotIndex /\ ~ Pushing'
  BY <1>1 DEF EndPush, Pushing, TypeOK, SlotIndex
<1>3. TypeOK'
  BY <1>1, <1>2 DEF EndPush, TypeOK, SlotIndex
<1>4. ASSUME InOrder, ~ overlapped' PROVE InOrder'
  <2>1. ~ Popping /\ ~ Popping' /\ size = pushSize /\ size' = size + 1
    BY <1>4 DEF EndPush, InOrder, Popping
  <2>2. Completed' = Completed + 1 /\ Gone' = Gone /\ Done' = Done /\ pushed' = pushed
    BY <1>1, <1>2, <2>1 DEF EndPush, Completed, Gone, Done, TypeOK
  <2>3. \A k : At(k)' = At(k)
    BY DEF EndPush, At
  <2>4. QED
    BY <1>1, <1>2, <1>4, <2>1, <2>2, <2>3 DEF InOrder, EndPush, TypeOK, Completed
<1>5. QED
  BY <1>2, <1>3, <1>4 DEF Inv, EndPush, Popping

\* The front is the oldest result that is not done.
LEMMA HandleStep ==
  ASSUME Inv, Handle
  PROVE  Inv'
<1>1. Slots \in Nat \ {0} /\ NumResults \in Nat /\ TypeOK /\ offset \in SlotIndex
  BY BoundsAssumption DEF Inv, TypeOK
<1>2. TypeOK'
  BY <1>1 DEF Handle, TypeOK, Twice
<1>3. UNCHANGED <<pushed, pushSize, size, offset, slot, popSize, overlapped>> /\ ~ Popping'
      /\ logic = "reading" /\ logic' = "popping" /\ size > 0
  BY <1>1 DEF Handle, Popping, NotEmpty, TypeOK
<1>4. Pushing' = Pushing /\ Completed' = Completed /\ Gone' = Gone /\ \A k : At(k)' = At(k)
  BY <1>3 DEF Pushing, Completed, Gone, At
<1>5. ASSUME InOrder PROVE InOrder'
  <2>1. Done = Gone /\ Done' = Gone + 1 /\ Gone \in Nat /\ pushed - Gone - 1 \in Nat
    BY <1>1, <1>3, <1>4, <1>5 DEF Done, InOrder, Gone, Completed, TypeOK
  <2>2. slot[offset] = Gone + 1
    <3>1. At(0) = offset
      BY <1>1, NextSlot DEF At, SlotIndex
    <3>2. 0 \in 0 .. (pushed - Gone - 1)
      BY <2>1
    <3>3. QED
      BY <1>5, <2>1, <3>1, <3>2 DEF InOrder
  <2>3. handled[Gone + 1] = 0 /\ Gone + 1 \in DBResult
    BY <1>1, <1>5, <2>1, <2>2 DEF InOrder, TypeOK
  <2>4. handled' = [handled EXCEPT ![Gone + 1] = 1]
    BY <2>2, <2>3 DEF Handle, Twice
  <2>5. \A r \in DBResult : handled'[r] = IF r \in 1 .. Done' THEN 1 ELSE 0
    <3>1. \A r \in DBResult : r \in Nat
      BY <1>1 DEF DBResult, Results, Nothing
    <3>2. QED
      BY <1>1, <1>5, <2>1, <2>3, <2>4, <3>1 DEF InOrder, TypeOK
  <2>6. QED
    BY <1>3, <1>4, <1>5, <2>5 DEF InOrder
<1>6. QED
  BY <1>2, <1>3, <1>4, <1>5 DEF Inv

LEMMA StartPopStep ==
  ASSUME Inv, StartPop
  PROVE  Inv'
<1>1. TypeOK /\ Slots \in Nat \ {0}
  BY BoundsAssumption DEF Inv
<1>2. /\ UNCHANGED <<pushed, pushSize, size, offset, slot, handled, overlapped>>
      /\ logic = "popping" /\ logic' = "discounting" /\ popSize' = size /\ size > 0
  BY <1>1 DEF StartPop, NotEmpty, TypeOK
<1>3. Pushing' = Pushing /\ Completed' = Completed /\ Gone' = Gone /\ Done' = Done
      /\ \A k : At(k)' = At(k)
  BY <1>2 DEF Pushing, Completed, Gone, Done, At
<1>4. TypeOK'
  BY <1>1, <1>2 DEF TypeOK
<1>5. InOrder => InOrder'
  BY <1>2, <1>3 DEF InOrder
<1>6. QED
  BY <1>2, <1>3, <1>4, <1>5 DEF Inv

\* The element behind the front is the new front; without one it does not matter
\* where the deque starts again.
LEMMA EndPopStep ==
  ASSUME Inv, EndPop
  PROVE  Inv'
<1>1. Slots \in Nat \ {0} /\ NumResults \in Nat /\ TypeOK /\ offset \in SlotIndex
  BY BoundsAssumption DEF Inv, TypeOK
<1>2. /\ UNCHANGED <<slot, pushed, pushSize, popSize, handled>> /\ popSize > 0 /\ Popping
      /\ size' = popSize - 1 /\ offset' = OffsetAfterPop /\ logic' = "reading"
      /\ overlapped' = (overlapped \/ Pushing)
  BY DEF EndPop, Inv
<1>3. Pushing' = Pushing /\ ~ Popping' /\ logic = "discounting"
  BY <1>2 DEF Pushing, Popping
<1>4. offset' \in SlotIndex
  <2>1. 0 \in SlotIndex /\ (offset + 1) % Slots \in SlotIndex
    BY <1>1, NextSlot DEF SlotIndex
  <2>2. QED
    BY <1>2, <2>1 DEF OffsetAfterPop
<1>5. TypeOK'
  BY <1>1, <1>2, <1>3, <1>4 DEF TypeOK
<1>6. ASSUME InOrder, ~ Pushing PROVE InOrder'
  <2>1. popSize = size /\ size > 0 /\ size <= pushed
    BY <1>2, <1>6 DEF InOrder, Completed
  <2>2. /\ Completed = pushed /\ Completed' = pushed
        /\ Gone = pushed - size /\ Gone' = Gone + 1 /\ Done = Gone + 1 /\ Done' = Gone'
    BY <1>1, <1>2, <1>3, <1>6, <2>1 DEF Completed, Gone, Done, TypeOK
  <2>3. ASSUME NEW k \in 0 .. (pushed' - Gone' - 1) PROVE slot'[At(k)'] = Gone' + k + 1
    <3>1. k \in 0 .. size - 2 /\ popSize # 1 /\ k + 1 \in 0 .. (pushed - Gone - 1)
      BY <1>1, <1>2, <2>1, <2>2 DEF TypeOK
    <3>2. offset' = (offset + 1) % Slots
      BY <1>2, <3>1 DEF OffsetAfterPop
    <3>3. k \in 0 .. Slots - 2
      BY <1>1, <3>1 DEF TypeOK
    <3>4. At(k)' = At(k + 1)
      BY <1>1, <3>2, <3>3, NextSlot DEF At
    <3>5. slot[At(k + 1)] = Gone + (k + 1) + 1
      BY <1>6, <3>1 DEF InOrder
    <3>6. QED
      BY <1>1, <1>2, <2>2, <3>1, <3>4, <3>5 DEF TypeOK
  <2>4. \A r \in DBResult : handled'[r] = IF r \in 1 .. Done' THEN 1 ELSE 0
    BY <1>2, <1>6, <2>2 DEF InOrder
  <2>5. size' <= Completed'
    BY <1>1, <1>2, <2>1, <2>2 DEF TypeOK
  <2>6. QED
    BY <1>2, <1>3, <1>6, <2>3, <2>4, <2>5 DEF InOrder
<1>7. QED
  BY <1>2, <1>3, <1>5, <1>6 DEF Inv

-----------------------------------------------------------------------------
(* The theorems                                                            *)

LEMMA Invariant == Spec => []Inv
<1>1. ASSUME Inv, UNCHANGED vars PROVE Inv'
  <2>1. TypeOK'
    BY <1>1 DEF Inv, TypeOK, vars
  <2>2. Pushing' = Pushing /\ Popping' = Popping /\ InOrder' = InOrder
    BY <1>1 DEF vars, Pushing, Popping, InOrder, Completed, Gone, Done, At
  <2>3. QED
    BY <1>1, <2>1, <2>2 DEF Inv, vars
<1>2. Inv /\ [Next]_vars => Inv'
  BY <1>1, StartPushStep, EndPushStep, HandleStep, StartPopStep, EndPopStep DEF Next
<1>3. QED
  BY InitInv, <1>2, PTL DEF Spec

\* The deque never holds more than its slots, and what a push or a pop has read
\* is a size it can have, even when the two overlap.
THEOREM DequeTypeCorrect == Spec => []TypeOK
<1>1. Inv => TypeOK
  BY DEF Inv
<1>2. QED
  BY Invariant, <1>1, PTL

\* While no push and pop overlapped, every result is handled, once, and none is
\* read before it was written (DBmanager::FrontDBResult, PopDBResult, and the push
\* of DBThreadWorker).
THEOREM LosesOnlyByOverlap == Spec => []OnlyOverlapLoses
<1>1. Inv => OnlyOverlapLoses
  <2> SUFFICES ASSUME Inv, ~ overlapped PROVE ResultsHandledOnce /\ handled[Nothing] = 0
    BY DEF OnlyOverlapLoses
  <2>1. InOrder /\ TypeOK /\ NumResults \in Nat
    BY BoundsAssumption DEF Inv
  <2>2. handled[Nothing] = 0
    BY <2>1 DEF InOrder, DBResult, Nothing
  <2>3. ASSUME Settled, NEW r \in 1 .. pushed PROVE handled[r] = 1
    <3>1. Done = pushed
      BY <2>1, <2>3 DEF Settled, Done, Gone, Completed, TypeOK
    <3>2. r \in DBResult
      BY <2>1 DEF DBResult, Results, TypeOK
    <3>3. QED
      BY <2>1, <3>1, <3>2 DEF InOrder
  <2>4. QED
    BY <2>2, <2>3 DEF ResultsHandledOnce
<1>2. QED
  BY Invariant, <1>1, PTL
=============================================================================
