----------------------------- MODULE MCSidePots -----------------------------
(***************************************************************************)
(* The distribution of SidePots against reference definitions that do not  *)
(* speak of layers, over every showdown of N seats with contributions of   *)
(* at most MAX_BET: each initial state is one showdown, paid in one step.  *)
(***************************************************************************)
EXTENDS SidePots

CONSTANTS N, MAX_BET,
          UNIT         \* parts of a chip that the reference counts in

ASSUME BoundAssumption == N \in Nat \ {0} /\ MAX_BET \in Nat

\* A chip can be split exactly, whatever the number of winners.
ASSUME UnitAssumption ==
  UNIT \in Nat \ {0} /\ \A winners \in 1 .. N : UNIT % winners = 0

VARIABLES contrib, showdown, strength, won

vars == <<contrib, showdown, strength, won>>

Seats == 0 .. N - 1

\* Two players or more reach a showdown, each with chips in the pot.
Init ==
  /\ contrib \in [Seats -> 0 .. MAX_BET]
  /\ showdown \in {S \in SUBSET Seats : Cardinality(S) >= 2}
  /\ \A p \in showdown : contrib[p] > 0
  /\ strength \in [Seats -> 1 .. N]
  /\ won = [p \in Seats |-> 0]

Pay ==
  /\ won' = Winnings(contrib, showdown, strength)
  /\ UNCHANGED <<contrib, showdown, strength>>

Spec == Init /\ [][Pay]_vars

Paid == won = Winnings(contrib, showdown, strength)
Lesser(a, b) == IF a < b THEN a ELSE b

-----------------------------------------------------------------------------
\* Every chip is paid out that somebody at the showdown has matched: what a
\* folded player bet above the largest stake at the showdown stays unpaid.
PaysEveryMatchedChip ==
  Paid => LET top == Greatest({contrib[p] : p \in showdown})
          IN  Sum(won, N) = Sum([q \in Seats |-> Lesser(contrib[q], top)], N)

\* Nobody is paid what others are entitled to: a folded hand wins nothing, nor
\* does one beaten by a hand with at least the same stake, and nobody takes
\* from another player more than its own stake.
NobodyIsOverpaid ==
  Paid => \A q \in Seats :
    \/ won[q] = 0
    \/ /\ q \in showdown
       /\ \A p \in showdown : contrib[p] >= contrib[q] => strength[p] <= strength[q]
       /\ won[q] <= Sum([p \in Seats |-> Lesser(contrib[p], contrib[q])], N)

\* The reference: every chip level is a pot of its own, split exactly (each
\* chip into UNIT parts) by the best hands that reached the level.
ChipValue(level, p) ==
  LET best == DetermineWinners({q \in showdown : contrib[q] >= level}, strength)
  IN  IF p \in best
      THEN (UNIT * Cardinality({q \in Seats : contrib[q] >= level}))
             \div Cardinality(best)
      ELSE 0
ExactShare(p) == Sum([i \in 0 .. MAX_BET - 1 |-> ChipValue(i + 1, p)], MAX_BET)

\* The layers pay everybody its exact share up to less than one chip per
\* layer, the chip that could not be divided.
FairToTheChip ==
  Paid => \A p \in Seats :
    LET layers == Cardinality(Levels(contrib))
        diff   == UNIT * won[p] - ExactShare(p)
    IN  -(UNIT * layers) < diff /\ diff < UNIT * layers
=============================================================================
