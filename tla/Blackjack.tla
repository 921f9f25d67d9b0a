------------------------------- MODULE Blackjack -------------------------------
(***************************************************************************)
(* One round between one player and the dealer, card by card: what the     *)
(* cards do in Room::ApplyChoice, Room::EndOfGame and                      *)
(* Room::CalculateResultByHand.  The player has the money for every choice *)
(* and answers on its turn; what goes wrong otherwise is in GameRoom.      *)
(***************************************************************************)
EXTENDS HandOfCards, SequencesExt, FiniteSetsExt

CONSTANTS
  Numbers,    \* CardInfo::_number of the cards in play: 1 is an ace, 11 .. 13 court cards
  Shapes      \* how many shapes, hence cards of each number, the deck holds

ASSUME NumbersAssumption == Numbers \subseteq 1 .. 13 /\ Numbers # {}
ASSUME ShapesAssumption == Shapes \in Nat \ {0}

VARIABLES
  deck,       \* how many cards of each number are left in the shuffled deck
  cards,      \* _cardList of the player's two hands, up to the first empty slot
  state,      \* _handState of the two hands
  doubled,    \* _isDoubledown of the two hands
  curHand,    \* m_curHand
  isSplit,    \* m_isSplit
  dealer,     \* the dealer's cards
  stage       \* "playing", "dealing" (EndOfGame), "settled" or "overflow"

vars == <<deck, cards, state, doubled, curHand, isSplit, dealer, stage>>

Hands == 0 .. 1

\* A card: its shape tells nothing but that a slot is filled.
CardInfo == Numbers

-----------------------------------------------------------------------------
(* HandInfo                                                                *)

Value(number) == IF number > 10 THEN 10 ELSE number

Hard(hand) == FoldLeft(LAMBDA sum, number : sum + Value(number), 0, hand)

\* GetScore: every ace as one, and one ace as eleven
Soft(hand) == IF Contains(hand, 1) THEN Hard(hand) + 10 ELSE Hard(hand)

\* GetBetterScore, and Dealer::GetCardSum, which computes the same
BetterScore(hand) == IF Soft(hand) <= 21 THEN Soft(hand) ELSE Hard(hand)

-----------------------------------------------------------------------------
(* Dealing and choices                                                     *)

FullDeck == [number \in Numbers |-> Shapes]

\* The deck without the numbers that were drawn from it
Without(pile, drawn) ==
  [number \in Numbers |->
     pile[number] - Cardinality({i \in DOMAIN drawn : drawn[i] = number})]

\* Dealer::Init: a card for the player, one for the dealer, one for the player
Init ==
  \E first, shown, second \in Numbers :
    /\ deck = Without(FullDeck, <<first, shown, second>>)
    /\ \A number \in Numbers : deck[number] >= 0
    /\ cards = [h \in Hands |-> IF h = 0 THEN <<first, second>> ELSE <<>>]
    /\ dealer = <<shown>>
    /\ state = [h \in Hands |-> IF h = 0 /\ Soft(<<first, second>>) = 21
                                THEN "BLACKJACK" ELSE "CURRENT"]
    /\ doubled = [h \in Hands |-> FALSE]
    /\ curHand = 0
    /\ isSplit = FALSE
    /\ stage = IF state[0] = "BLACKJACK" THEN "dealing" ELSE "playing"

\* ApplyChoice, HIT: the state of a hand that has taken a card
HitState(hand, old) ==
  IF Hard(hand) > 21 THEN "BURST" ELSE IF 21 \in {Hard(hand), Soft(hand)} THEN "STAND" ELSE old

\* SwitchHandIfSplitExist once the current hand is finished
NextHand(new) ==
  IF new = "CURRENT" THEN UNCHANGED <<curHand, stage>>
  ELSE IF isSplit /\ curHand = 0 THEN curHand' = 1 /\ UNCHANGED stage
  ELSE stage' = "dealing" /\ UNCHANGED curHand

Playing == stage = "playing"

Stand ==
  /\ Playing
  /\ state' = [state EXCEPT ![curHand] = "STAND"]
  /\ NextHand("STAND")
  /\ UNCHANGED <<deck, cards, doubled, isSplit, dealer>>

\* A card drawn for the current hand, which is in state new after it
Draws(number, new) ==
  /\ deck[number] > 0
  /\ deck' = [deck EXCEPT ![number] = @ - 1]
  /\ cards' = [cards EXCEPT ![curHand] = Append(@, number)]
  /\ state' = [state EXCEPT ![curHand] = new]
  /\ NextHand(new)
  /\ UNCHANGED <<isSplit, dealer>>

\* User::SetHand has no slot for the card.
Overflow == stage' = "overflow" /\ UNCHANGED <<deck, cards, state, doubled, curHand, isSplit, dealer>>

Hit ==
  /\ Playing
  /\ \/ Len(cards[curHand]) = HandSlots /\ Overflow
     \/ /\ Len(cards[curHand]) < HandSlots
        /\ UNCHANGED doubled
        /\ \E number \in Numbers :
             Draws(number, HitState(Append(cards[curHand], number), state[curHand]))

DoubleDown ==
  /\ Playing
  /\ Len(cards[curHand]) = 2
  /\ doubled' = [doubled EXCEPT ![curHand] = TRUE]
  /\ \E number \in Numbers :
       Draws(number, IF Hard(Append(cards[curHand], number)) > 21 THEN "BURST" ELSE "STAND")

\* Mutant: the second card stays in the first hand too
SplitKeepsCard == [h \in Hands |-> IF h = 0 THEN cards[0] ELSE <<cards[0][2]>>]

\* User::Split: the second card of hand 0 becomes the first one of hand 1.
SplitCards == [h \in Hands |-> <<cards[0][h + 1]>>]

\* The client offers a split of two cards with the same number.
Split ==
  /\ Playing
  /\ ~ isSplit /\ Len(cards[0]) = 2 /\ cards[0][1] = cards[0][2]
  /\ isSplit' = TRUE
  /\ cards' = SplitCards
  /\ UNCHANGED <<deck, state, doubled, curHand, dealer, stage>>

-----------------------------------------------------------------------------
(* Room::EndOfGame                                                         *)

DealerScore == BetterScore(dealer)

\* Dealer::SetHand
SetHand(number) == dealer' = Append(dealer, number)

\* One turn of the loop; nothing else runs in between.
DealerDraws ==
  /\ stage = "dealing"
  /\ DealerScore < 17
  /\ UNCHANGED <<cards, state, doubled, curHand, isSplit>>
  /\ \/ Len(dealer) = HandSlots /\ stage' = "overflow" /\ UNCHANGED <<deck, dealer>>
     \/ /\ Len(dealer) < HandSlots
        /\ \E number \in Numbers :
             /\ deck[number] > 0
             /\ deck' = [deck EXCEPT ![number] = @ - 1]
             /\ SetHand(number)
        /\ UNCHANGED stage

DealerState ==
  IF Len(dealer) = HandSlots THEN "SEVENCARD"
  ELSE IF DealerScore > 21 THEN "BURST" ELSE "STAND"

Settle ==
  /\ stage = "dealing"
  /\ DealerScore >= 17
  /\ stage' = "settled"
  /\ UNCHANGED <<deck, cards, state, doubled, curHand, isSplit, dealer>>

\* Mutant: seven cards do not beat a hand that stands
RankSevenLow(handState) ==
  IF handState \in {"CURRENT", "SEVENCARD"} THEN 0
  ELSE IF handState = "BURST" THEN 1 ELSE IF handState = "STAND" THEN 2 ELSE 4

\* HandInfo::HandState as the number it is compared by
Rank(handState) ==
  CASE handState = "CURRENT"   -> 0
    [] handState = "BURST"     -> 1
    [] handState = "STAND"     -> 2
    [] handState = "SEVENCARD" -> 3
    [] handState = "BLACKJACK" -> 4

\* Mutant: a blackjack pays like any other hand that wins
ResultWithoutBonus(h) ==
  LET double == IF doubled[h] THEN 2 ELSE 1
  IN CASE state[h] \in {"CURRENT", "BURST"} -> 0
       [] Rank(DealerState) > Rank(state[h]) -> 0
       [] Rank(DealerState) < Rank(state[h]) -> 2 * double
       [] OTHER -> double

\* CalculateResultByHand as a multiple of the bet
Result(h) ==
  LET double == IF doubled[h] THEN 2 ELSE 1
      mine   == BetterScore(cards[h])
  IN CASE state[h] \in {"CURRENT", "BURST"} -> 0
       [] Rank(DealerState) > Rank(state[h]) -> 0
       [] Rank(DealerState) < Rank(state[h]) ->
            double * (IF state[h] = "BLACKJACK" THEN 3 ELSE 2)
       [] OTHER -> CASE state[h] # "STAND" -> double
                     [] mine > BetterScore(dealer) -> 2 * double
                     [] mine < BetterScore(dealer) -> 0
                     [] OTHER -> double

Next == Stand \/ Hit \/ DoubleDown \/ Split \/ DealerDraws \/ Settle

Spec == Init /\ [][Next]_vars

-----------------------------------------------------------------------------
(* What a client shows beside a hand (Hand.cpp of the client)              *)

\* Hand::popCard leaves the number of the card it takes away in its slot, until
\* another card is put there.
LeftBehind(h) == IF h = 0 /\ isSplit /\ Len(cards[0]) = 1 THEN <<cards[1][1]>> ELSE <<>>

\* Mutant: the slot is not marked as empty either
ValueOfAllSlots(hand, left) == <<Hard(hand \o left), Soft(hand \o left)>>

\* Hand::getHandValue adds up to the first empty slot, and looks for an ace in
\* all of them.
HandValue(hand, left) ==
  LET soft   == IF Contains(hand \o left, 1) THEN Hard(hand) + 10 ELSE Hard(hand)
      second == IF soft > 21 THEN Hard(hand) ELSE soft
  IN IF 21 \in {second, Hard(hand)} THEN <<21, 21>> ELSE <<Hard(hand), second>>

\* Player::setValueLabel: one total, or both
Label(h) == LET value == HandValue(cards[h], LeftBehind(h)) IN {value[1], value[2]}

\* Hand::Die
Darkened(h) == HandValue(cards[h], LeftBehind(h))[1] > 21

\* Dealer::pushCard
DealerLabel == HandValue(dealer, <<>>)[2]

-----------------------------------------------------------------------------
(* Properties                                                              *)

TypeOK ==
  /\ deck \in [Numbers -> 0 .. Shapes]
  /\ \A h \in Hands : cards[h] \in Seq(CardInfo) /\ Len(cards[h]) <= HandSlots
  /\ state \in [Hands -> HandStates]
  /\ doubled \in [Hands -> BOOLEAN]
  /\ curHand \in Hands
  /\ isSplit \in BOOLEAN
  /\ dealer \in Seq(CardInfo) /\ Len(dealer) <= HandSlots
  /\ stage \in {"playing", "dealing", "settled", "overflow"}

\* What module HandOfCards knows of a hand
Abstract(h) == [state |-> state[h], num |-> Len(cards[h]),
                first |-> cards[h] # <<>>, doubledown |-> doubled[h]]

AbstractStep(a, b) ==
  IF isSplit' # isSplit THEN b = [a EXCEPT !.num = 1, !.first = TRUE]
  ELSE \/ b = a
       \/ b = [a EXCEPT !.state = "STAND"]
       \/ b.state \in AfterHit(a) /\ b = [WithCard(a) EXCEPT !.state = b.state]
       \/ /\ a.num = 2
          /\ b.state \in AfterDoubleDown(a)
          /\ b = [WithCard(a) EXCEPT !.state = b.state, !.doubledown = TRUE]

\* The outcomes GameRoom allows a card to have (AfterHit, AfterDoubleDown, the
\* count of cards after a split) cover what the cards do in Room::ApplyChoice.
HandsAreAbstracted == [][\A h \in Hands : AbstractStep(Abstract(h), Abstract(h)')]_vars

\* The payments GameRoom allows a hand (Factors) cover CalculateResultByHand.
ResultsAreAbstracted ==
  stage = "settled" => \A h \in 0 .. curHand : Result(h) \in Factors(DealerState, Abstract(h))

\* The best total of a hand under the rules of the game: each ace one or eleven
Aces(hand) == Cardinality({i \in DOMAIN hand : hand[i] = 1})
Totals(hand) == {Hard(hand) + 10 * n : n \in 0 .. Aces(hand)}
Best(hand) == IF Hard(hand) > 21 THEN Hard(hand) ELSE Max({t \in Totals(hand) : t <= 21})

\* What the rules of the game pay, as a multiple of the bet
Owed(h) ==
  LET double == IF doubled[h] THEN 2 ELSE 1
  IN CASE Best(cards[h]) > 21 -> 0
       [] Best(cards[h]) = 21 /\ Len(cards[h]) = 2 /\ ~ isSplit -> 3
       [] Best(dealer) > 21 \/ Best(cards[h]) > Best(dealer) -> 2 * double
       [] Best(cards[h]) = Best(dealer) -> double
       [] OTHER -> 0

\* Every hand is paid by the rules, aces counted the best way, as long as the
\* dealer does not hold seven cards.
PaidByTheRules ==
  stage = "settled" /\ DealerState # "SEVENCARD" =>
     \A h \in 0 .. curHand : Result(h) = Owed(h)

\* The client computes on its own what it shows, from cards it moves itself
\* (Hand.cpp:51-95): the best total is always on the label, also of the hand a
\* split has taken an ace from; the dealer's label is the total the room
\* compares; and a hand is dark when, and only when, the room counts it as burst.
ValueShown ==
  stage # "overflow" =>
    /\ \A h \in 0 .. (IF isSplit THEN 1 ELSE 0) :
         /\ Best(cards[h]) = Max(Label(h))
         /\ Darkened(h) <=> state[h] = "BURST"
    /\ DealerLabel = DealerScore

=============================================================================
