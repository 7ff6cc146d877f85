--------------------------- MODULE HandEvaluator ---------------------------
(***************************************************************************)
(* The hand evaluator of poker/evaluator.py, with the comparison that      *)
(* conduct_showdown makes for itself in poker/game.py.  A card is a pair   *)
(* <<rank, suit>>, a result the pair of rank and kickers that comparisons  *)
(* look at.  At a showdown the board is full (FullBoardAtShowdown of       *)
(* GameLoop), so fewer than five cards are never evaluated.                *)
(***************************************************************************)
EXTENDS Integers, Sequences, FiniteSets, FiniteSetsExt

\* Suit, and the cards of Deck.reset
SuitNames == {"hearts", "diamonds", "clubs", "spades"}
Cards     == (2 .. 14) \X SuitNames

ACE   == 14
Wheel == {ACE, 5, 4, 3, 2}

HandRanks == 1 .. 10

RoyalFlush    == 10
StraightFlush == 9
FourOfAKind   == 8
FullHouse     == 7
Flush         == 6
Straight      == 5
ThreeOfAKind  == 4
TwoPair       == 3
OnePair       == 2
HighCard      == 1

-----------------------------------------------------------------------------
(* _evaluate_five_cards *)

Ranks(cards) == {c[1] : c \in cards}
Suits(cards) == {c[2] : c \in cards}

\* rank_counts: the ranks that n of the cards have
WithCount(cards, n) ==
  {r \in Ranks(cards) : Cardinality({c \in cards : c[1] = r}) = n}

Descending(S) ==
  [i \in 1 .. Cardinality(S) |->
     CHOOSE x \in S : Cardinality({y \in S : y > x}) = i - 1]

\* Mutant: the wheel is forgotten.
IsStraight_NoWheel(ranks) ==
  Cardinality(ranks) = 5 /\ Max(ranks) - Min(ranks) = 4

IsStraight(ranks) ==
  /\ Cardinality(ranks) = 5
  /\ Max(ranks) - Min(ranks) = 4 \/ ranks = Wheel

\* The tests of the code.  They are made from the strongest rank to the
\* weakest and the first that holds decides.
Qualifies(cards, v) ==
  LET flush    == Cardinality(Suits(cards)) = 1
      straight == IsStraight(Ranks(cards))
      has(n)   == WithCount(cards, n) # {}
  IN  CASE v = RoyalFlush    -> flush /\ straight /\ Max(Ranks(cards)) = ACE
        [] v = StraightFlush -> flush /\ straight
        [] v = FourOfAKind   -> has(4)
        [] v = FullHouse     -> has(3) /\ has(2)
        [] v = Flush         -> flush
        [] v = Straight      -> straight
        [] v = ThreeOfAKind  -> has(3)
        [] v = TwoPair       -> Cardinality(WithCount(cards, 2)) = 2
        [] v = OnePair       -> has(2)
        [] v = HighCard      -> TRUE

\* The ace of a wheel counts as a one; a royal flush has the kicker 14.
StraightHigh(ranks) == IF ranks = Wheel THEN 5 ELSE Max(ranks)

\* The larger groups of equal ranks come first.
ByCount(cards) ==
  Descending(WithCount(cards, 4)) \o Descending(WithCount(cards, 3)) \o
  Descending(WithCount(cards, 2)) \o Descending(WithCount(cards, 1))

Kickers(cards, v) ==
  CASE v = RoyalFlush -> <<ACE>>
    [] v \in {StraightFlush, Straight} -> <<StraightHigh(Ranks(cards))>>
    [] OTHER -> ByCount(cards)

EvaluateFive(cards) ==
  LET v == Max({w \in HandRanks : Qualifies(cards, w)})
  IN  [rank |-> v, kickers |-> Kickers(cards, v)]

-----------------------------------------------------------------------------
(* Comparisons *)

\* The first place where two lists differ, as far as the shorter goes: zip.
FirstLess(s, t) ==
  \E i \in DOMAIN s \cap DOMAIN t :
    s[i] < t[i] /\ \A j \in 1 .. i - 1 : s[j] = t[j]

\* HandResult.__lt__ and __eq__
Lt(h, g) == h.rank < g.rank \/ (h.rank = g.rank /\ FirstLess(h.kickers, g.kickers))
Eq(h, g) == h.rank = g.rank /\ h.kickers = g.kickers

\* Mutant: only the first kicker is looked at.
CompareHands_OneKicker(h, g) ==
  IF h.rank # g.rank THEN (IF h.rank > g.rank THEN 1 ELSE -1)
  ELSE IF g.kickers[1] < h.kickers[1] THEN 1
  ELSE IF h.kickers[1] < g.kickers[1] THEN -1 ELSE 0

CompareHands(h, g) ==
  IF h.rank # g.rank THEN (IF h.rank > g.rank THEN 1 ELSE -1)
  ELSE IF FirstLess(g.kickers, h.kickers) THEN 1
  ELSE IF FirstLess(h.kickers, g.kickers) THEN -1 ELSE 0

\* The order of Python's lists, in which a longer list follows its prefixes.
ListLess(s, t) ==
  \/ FirstLess(s, t)
  \/ Len(s) < Len(t) /\ \A i \in DOMAIN s : s[i] = t[i]

\* determine_winner_ids of conduct_showdown
Beats(h, g) == h.rank > g.rank \/ (h.rank = g.rank /\ ListLess(g.kickers, h.kickers))

\* evaluate_hand: the best of all five-card hands
EvaluateHand(cards) ==
  LET results == {EvaluateFive(five) : five \in kSubset(5, cards)}
  IN  CHOOSE h \in results : \A g \in results : ~Lt(h, g)
=============================================================================
