------------------------------ MODULE SidePots ------------------------------
(***************************************************************************)
(* The distribution of the pot in PokerGame.conduct_showdown: the pot is   *)
(* cut into layers at every distinct contribution, each layer goes to the  *)
(* best hands among its contributors that reached the showdown, and the    *)
(* chips that do not divide evenly go to the lowest seats.                 *)
(*                                                                         *)
(*   contrib   total_bet_this_hand of every seat                           *)
(*   showdown  the seats that neither folded nor are out of the game       *)
(*   strength  the rank of every hand: a larger number is a better hand    *)
(*             and equal numbers split, as the pair (rank, kickers) does   *)
(***************************************************************************)
EXTENDS Integers, FiniteSets, Sums

\* sorted(set(contrib_map.values())) without the zero contributions
Levels(contrib) == {contrib[p] : p \in DOMAIN contrib} \ {0}

\* Mutant: prev is never advanced.
PrevLevel_Stuck(contrib, level) == 0

\* prev when the loop of build_pot_layers reaches this level
PrevLevel(contrib, level) ==
  Greatest({0} \cup {l \in Levels(contrib) : l < level})

Contributors(contrib, level) == {p \in DOMAIN contrib : contrib[p] >= level}

LayerAmount(contrib, level) ==
  (level - PrevLevel(contrib, level)) * Cardinality(Contributors(contrib, level))

\* Mutant: a layer is open to everybody at the showdown.
Eligible_Anybody(contrib, showdown, level) == showdown

Eligible(contrib, showdown, level) == Contributors(contrib, level) \cap showdown

DetermineWinners(eligible, strength) ==
  {p \in eligible : \A q \in eligible : strength[q] <= strength[p]}

\* Mutants: the remainder is dropped, or paid to every winner.
Share_NoRemainder(amount, winners, p) == amount \div Cardinality(winners)
Share_RoundedUp(amount, winners, p) ==
  (amount + Cardinality(winners) - 1) \div Cardinality(winners)

\* base_share, and one more chip for the first `remainder' winners by seat
Share(amount, winners, p) ==
  (amount \div Cardinality(winners))
    + (IF Cardinality({q \in winners : q < p}) < amount % Cardinality(winners)
       THEN 1 ELSE 0)

\* What one layer pays to p; a layer nobody may claim is skipped.
LayerShare(contrib, showdown, strength, level, p) ==
  LET winners == DetermineWinners(Eligible(contrib, showdown, level), strength)
  IN  IF level \in Levels(contrib) /\ p \in winners
      THEN Share(LayerAmount(contrib, level), winners, p)
      ELSE 0

MaxLevel(contrib) == Greatest({0} \cup Levels(contrib))

\* winnings_map: the loop over the layers, in ascending order
Winnings(contrib, showdown, strength) ==
  [p \in DOMAIN contrib |->
     Sum([i \in 0 .. MaxLevel(contrib) - 1 |->
            LayerShare(contrib, showdown, strength, i + 1, p)],
         MaxLevel(contrib))]
=============================================================================
