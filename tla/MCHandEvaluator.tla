-------------------------- MODULE MCHandEvaluator --------------------------
(***************************************************************************)
(* The evaluator against a reference that reads a hand off all its cards   *)
(* at once, without looking at five-card subsets.  Each initial state is   *)
(* one deal of a board and two hands from a small deck; both hands are     *)
(* evaluated in one step, as conduct_showdown does.                        *)
(***************************************************************************)
EXTENDS HandEvaluator

\* Small decks in which every rank of hand occurs, and close comparisons:
\* aces and kings, wheels, flushes with gaps, and unpaired hands.
Deck(spades, hearts, diamonds, clubs) ==
  {c \in Cards : c[1] \in CASE c[2] = "spades" -> spades [] c[2] = "hearts" -> hearts
                            [] c[2] = "diamonds" -> diamonds [] c[2] = "clubs" -> clubs}

Decks ==
  { Deck({14, 13, 12, 11, 10}, {14, 13}, {14, 13}, {14}),
    Deck({14, 6, 5, 4, 3, 2}, {14, 5, 4}, {3}, {}),
    Deck({12, 10, 8, 6, 4, 2}, {8, 4, 2}, {2}, {}),
    Deck({12, 10, 8}, {11, 6, 4}, {14, 2}, {10, 9}) }

VARIABLES board, hole, hand

vars == <<board, hole, hand>>

Players == {1, 2}
NoHand  == [rank |-> 0, kickers |-> <<>>]

Init ==
  \E deck \in Decks :
    /\ board \in kSubset(5, deck)
    /\ \E one \in kSubset(2, deck \ board) :
         \E two \in kSubset(2, deck \ (board \cup one)) : hole = <<one, two>>
    /\ hand = [p \in Players |-> NoHand]

EvaluateBoth ==
  /\ hand = [p \in Players |-> NoHand]
  /\ hand' = [p \in Players |-> EvaluateHand(hole[p] \cup board)]
  /\ UNCHANGED <<board, hole>>

Spec == Init /\ [][EvaluateBoth]_vars

Evaluated(p) == hand[p] # NoHand

-----------------------------------------------------------------------------
(* The reference *)

Top(n, S) == SubSeq(Descending(S), 1, n)

\* The highest cards of the straights in a set of ranks
StraightTops(ranks) ==
  {t \in 5 .. ACE : \A r \in t - 4 .. t : (IF r = 1 THEN ACE ELSE r) \in ranks}

OfSuit(cards, s) == {c[1] : c \in {x \in cards : x[2] = s}}

Best(cards) ==
  LET ranks  == Ranks(cards)
      least(n) == {r \in ranks : Cardinality({c \in cards : c[1] = r}) >= n}
      suited == UNION {StraightTops(OfSuit(cards, s)) : s \in Suits(cards)}
      flush  == UNION {R \in {OfSuit(cards, s) : s \in Suits(cards)} : Cardinality(R) >= 5}
      group  == IF least(2) = {} THEN 0
                ELSE Max({r \in ranks : \A n \in 2 .. 4 : least(n) # {} => r \in least(n)})
      pairs  == least(2) \ {group}
  IN  IF ACE \in suited THEN <<RoyalFlush, <<ACE>>>>
      ELSE IF suited # {} THEN <<StraightFlush, <<Max(suited)>>>>
      ELSE IF least(4) # {} THEN <<FourOfAKind, <<group>> \o Top(1, ranks \ {group})>>
      ELSE IF least(3) # {} /\ pairs # {} THEN <<FullHouse, <<group, Max(pairs)>>>>
      ELSE IF flush # {} THEN <<Flush, Top(5, flush)>>
      ELSE IF StraightTops(ranks) # {} THEN <<Straight, <<Max(StraightTops(ranks))>>>>
      ELSE IF least(3) # {} THEN <<ThreeOfAKind, <<group>> \o Top(2, ranks \ {group})>>
      ELSE IF pairs # {}
           THEN <<TwoPair, <<group, Max(pairs)>> \o Top(1, ranks \ {group, Max(pairs)})>>
      ELSE IF least(2) # {} THEN <<OnePair, <<group>> \o Top(3, ranks \ {group})>>
      ELSE <<HighCard, Top(5, ranks)>>

IsBest(p) == <<hand[p].rank, hand[p].kickers>> = Best(hole[p] \cup board)

SuitedWheel(p) ==
  \E s \in Suits(hole[p] \cup board) : Wheel \subseteq OfSuit(hole[p] \cup board, s)

\* The result of evaluate_hand is the best hand in the seven cards, with the
\* kickers that decide between equal ranks, unless they hold a suited wheel:
\* evaluator.py:125 takes its ace for the top of an A-K-Q-J-10.
BestHandIsFound ==
  \A p \in Players : Evaluated(p) /\ ~SuitedWheel(p) => IsBest(p)

\* The three comparisons of the code, compare_hands, HandResult's own and the
\* one conduct_showdown makes, order the two hands alike: kickers that are cut
\* by zip in one and not in another never make a difference.
ComparisonsAgree ==
  Evaluated(1) /\ Evaluated(2) =>
    LET h == hand[1]
        g == hand[2]
    IN  /\ (CompareHands(h, g) = 1) <=> Lt(g, h)
        /\ (CompareHands(h, g) = -1) <=> Lt(h, g)
        /\ (CompareHands(h, g) = 0) <=> Eq(h, g)
        /\ Beats(h, g) <=> Lt(g, h)
=============================================================================
