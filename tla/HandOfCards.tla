------------------------------ MODULE HandOfCards ------------------------------
(***************************************************************************)
(* A hand of cards (COMMON::HandInfo, Packet.h) as far as the control of   *)
(* the game depends on it: its state, how many cards User::m_curCardNum    *)
(* says were written into it, and whether its first slot is filled         *)
(* (GetScore stops at the first empty slot, so a hand without a first card *)
(* scores 0).  What a card does to the score is a set of possible          *)
(* outcomes; module Blackjack shows, card by card, that they cover the     *)
(* code.                                                                   *)
(***************************************************************************)
EXTENDS Integers

CONSTANT HandSlots    \* length of HandInfo::_cardList

ASSUME SlotsAssumption == HandSlots \in Nat /\ HandSlots >= 2

HandStates == {"CURRENT", "BURST", "STAND", "BLACKJACK"}
DealerStates == {"BURST", "STAND", "SEVENCARD"}

Hand == [state : HandStates, num : 0 .. HandSlots,
         first : BOOLEAN, doubledown : BOOLEAN]

EmptyHand == [state |-> "CURRENT", num |-> 0, first |-> FALSE, doubledown |-> FALSE]

\* Mutant: the card is counted twice
WithCardTwice(h) == [h EXCEPT !.num = @ + 2, !.first = @ \/ h.num = 0]

\* User::SetHand: the card goes to the slot m_curCardNum names
WithCard(h) == [h EXCEPT !.num = @ + 1, !.first = @ \/ h.num = 0]

\* Dealer::Init gives two cards to hand 0 of every player; 21 is a blackjack.
DealtHand(h, blackjack) ==
  [WithCard(WithCard(h)) EXCEPT !.state = IF blackjack THEN "BLACKJACK" ELSE @]

\* States a hand may be in after one more card of unknown value.  A hand
\* whose first slot is empty scores 0; no two cards burst, nor do an ace, a ten
\* and a third card.
AfterHit(h) ==
  IF ~ WithCard(h).first THEN {h.state}
  ELSE IF h.state = "BURST" THEN {"BURST"}
  ELSE {h.state, "STAND"}
         \cup (IF h.num >= (IF h.state = "BLACKJACK" THEN 3 ELSE 2) THEN {"BURST"} ELSE {})

AfterDoubleDown(h) ==
  IF h.state = "BLACKJACK" \/ ~ h.first THEN {"STAND"} ELSE {"STAND", "BURST"}

\* Mutant: a hand nobody finished is settled like one that stands
FactorsOfUnfinished(d, h) ==
  CASE h.state = "BURST"     -> {0}
    [] h.state = "BLACKJACK" -> {3}
    [] OTHER                 -> {0, 1, 2}

\* CalculateResultByHand as a multiple of the bet, over every score
Factors(d, h) ==
  LET double == IF h.doubledown THEN 2 ELSE 1
  IN CASE h.state \in {"CURRENT", "BURST"}  -> {0}
       [] h.state = "BLACKJACK"             -> {3 * double}
       [] h.state = "STAND" /\ d = "SEVENCARD" -> {0}
       [] h.state = "STAND" /\ d = "BURST"     -> {2 * double}
       [] OTHER -> IF h.first THEN {0, double, 2 * double} ELSE {0}
=============================================================================
