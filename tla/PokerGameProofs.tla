--------------------------- MODULE PokerGameProofs --------------------------
(***************************************************************************)
(* The operations of the engine, for a table of any size: each of them     *)
(* preserves the type of the engine's state, and the seat scans find the   *)
(* seat they look for.  What each operation does to the stacks, the bets,  *)
(* the pot, the highest bet and the turn is stated here once for all the   *)
(* loops that call it.                                                     *)
(***************************************************************************)
EXTENDS PokerGame, SidePotsProofs

USE TableAssumption DEF Seats

\* The number of seats from one player to another is a natural number.
LEMMA DistanceType ==
  ASSUME NEW i \in Seats, NEW j \in Seats
  PROVE  Distance(i, j) \in Nat
BY DEF Distance

\* The scan for the next seat of a non-empty set finds the nearest seat of the
\* set, and comes back to its start only when the set has no other seat.
LEMMA NextInFindsSeat ==
  ASSUME NEW i \in Seats, NEW S \in SUBSET Seats, S # {}
  PROVE  /\ NextIn(i, S) \in S
         /\ \A k \in S : Distance(i, NextIn(i, S)) <= Distance(i, k)
         /\ \A k \in S : k # i => NextIn(i, S) # i
<1>. DEFINE T == {Distance(i, k) : k \in S}
<1>1. T \in SUBSET Nat /\ T # {}
  <2>1. \A k \in S : Distance(i, k) \in Nat
    BY DistanceType
  <2>2. PICK k \in S : TRUE
    OBVIOUS
  <2>3. Distance(i, k) \in T
    OBVIOUS
  <2>. QED  BY <2>1, <2>3
<1>2. PICK m \in T : \A k \in T : m <= k
  BY <1>1, NatSetHasMin
<1>3. PICK j \in S : m = Distance(i, j)
  OBVIOUS
<1>4. \A k \in S : Distance(i, j) <= Distance(i, k)
  BY <1>2, <1>3
<1>5. /\ NextIn(i, S) \in S
      /\ \A k \in S : Distance(i, NextIn(i, S)) <= Distance(i, k)
  BY <1>4 DEF NextIn
<1>6. ASSUME NEW k \in S, k # i, NextIn(i, S) = i PROVE FALSE
  <2>1. Distance(i, i) <= Distance(i, k)
    BY <1>5, <1>6
  <2>. QED  BY <1>6, <2>1 DEF Distance
<1>. QED  BY <1>5, <1>6

\* The players that can act, and those still in the hand, are at the table.
LEMMA ActiveSeats == Active \in SUBSET Seats /\ Remaining \in SUBSET Seats
BY DEF Active, Remaining

\* The scan of _get_first_actor_for_phase: some player of A is to act, so
\* the scan from any seat, or its fallback, ends at a seat.
FirstInScan(A, from) ==
  LET next == IF A \ {from} = {} THEN NoSeat ELSE NextIn(from, A \ {from})
  IN  IF from # NoSeat /\ next # NoSeat THEN next
      ELSE IF A = {} THEN NoSeat ELSE Least(A)

\* That scan ends at a seat.
LEMMA FirstInScanIsSeat ==
  ASSUME NEW A \in SUBSET Seats, A # {}, NEW from \in Seats \cup {NoSeat}
  PROVE  FirstInScan(A, from) \in Seats
<1>1. Least(A) \in Seats
  <2>1. A \in SUBSET Nat
    OBVIOUS
  <2>. QED  BY <2>1, LeastIsLeast
<1>2. from \in Seats /\ A \ {from} # {} => NextIn(from, A \ {from}) \in Seats
  <2>1. A \ {from} \in SUBSET Seats
    OBVIOUS
  <2>. QED  BY <2>1, NextInFindsSeat
<1>. QED  BY <1>1, <1>2 DEF FirstInScan

-----------------------------------------------------------------------------
(* setup_*_game *)

\* A table that has just been set up is well typed.
LEMMA InitType ==
  ASSUME GameInit
  PROVE  GameTypeOK
<1>1. /\ chips \in [Seats -> Nat] /\ player_bet \in [Seats -> Nat]
      /\ total_bet \in [Seats -> Nat] /\ status \in [Seats -> Statuses]
  BY DEF GameInit, Statuses
<1>2. round_complete \in BOOLEAN /\ has_bet \in BOOLEAN
  BY Zenon DEF GameInit
<1>3. /\ phase \in Phases /\ community_cards \in {0, 3, 4, 5} /\ pot \in Nat
      /\ current_bet \in Nat /\ hand_number \in Nat
      /\ current_player \in Seats /\ dealer \in Seats
      /\ big_blind_seat \in Seats \cup {NoSeat}
      /\ last_raiser \in Seats \cup {NoSeat}
  BY DEF GameInit, Phases
<1>. QED  BY <1>1, <1>2, <1>3 DEF GameTypeOK

-----------------------------------------------------------------------------
(* start_new_hand *)

\* With two players left in the game the dealer and the blinds are three
\* searches that succeed, and the blinds are different players.
LEMMA BlindSeats ==
  ASSUME GameTypeOK, Cardinality(Playing) >= 2
  PROVE  /\ MoveDealerButton \in Playing
         /\ \A d \in Playing :
              /\ SmallBlindSeat(d) \in Playing
              /\ BigBlindSeat(d) \in Playing
              /\ SmallBlindSeat(d) # BigBlindSeat(d)
              /\ FirstActorPreflop(d) \in Playing
<1>1. Playing \in SUBSET Seats
  BY DEF Playing
<1>2. Playing # {}
  <2>1. Cardinality({}) = 0
    BY FS_EmptySet
  <2>. QED  BY <2>1
<1>3. MoveDealerButton \in Playing
  <2>1. Playing \in SUBSET Nat
    BY <1>1
  <2>2. Least(Playing) \in Playing
    BY <1>2, <2>1, LeastIsLeast
  <2>3. NextIn(dealer, Playing) \in Playing
    BY <1>1, <1>2, NextInFindsSeat DEF GameTypeOK
  <2>. QED  BY <2>2, <2>3 DEF MoveDealerButton
<1>4. ASSUME NEW i \in Playing
      PROVE  NextIn(i, Playing) \in Playing /\ NextIn(i, Playing) # i
  <2>1. Cardinality({i}) = 1
    BY FS_Singleton
  <2>2. Playing # {i}
    BY <2>1
  <2>3. PICK k \in Playing : k # i
    BY <2>2
  <2>. QED  BY <1>1, <2>3, NextInFindsSeat
<1>5. ASSUME NEW d \in Playing
      PROVE  /\ SmallBlindSeat(d) \in Playing
             /\ BigBlindSeat(d) \in Playing
             /\ SmallBlindSeat(d) # BigBlindSeat(d)
             /\ FirstActorPreflop(d) \in Playing
  <2>1. SmallBlindSeat(d) \in Playing
    BY <1>4 DEF SmallBlindSeat
  <2>2. BigBlindSeat(d) \in Playing /\ SmallBlindSeat(d) # BigBlindSeat(d)
    BY <1>4, <2>1 DEF BigBlindSeat
  <2>3. FirstActorPreflop(d) \in Playing
    BY <1>4, <2>2 DEF FirstActorPreflop
  <2>. QED  BY <2>1, <2>2, <2>3
<1>. QED  BY <1>3, <1>5

\* A blind never takes more than the stack.
LEMMA BlindPaidType ==
  ASSUME GameTypeOK, NEW d, NEW p \in Seats
  PROVE  BlindPaid(d, p) \in Nat /\ BlindPaid(d, p) <= chips[p]
BY DEF BlindPaid, GameTypeOK

\* start_new_hand, with the button, the blinds and the first actor, keeps the
\* state of the engine well typed: no blind takes a stack below zero.
LEMMA StartNewHandType ==
  ASSUME GameTypeOK, StartNewHand
  PROVE  GameTypeOK'
<1>1. /\ hand_number' \in Nat /\ community_cards' \in {0, 3, 4, 5}
      /\ round_complete' \in BOOLEAN /\ has_bet' \in BOOLEAN
  <2>1. hand_number' \in Nat /\ community_cards' \in {0, 3, 4, 5}
    BY DEF StartNewHand, GameTypeOK
  <2>2. round_complete' \in BOOLEAN /\ has_bet' \in BOOLEAN
    BY Zenon DEF StartNewHand
  <2>. QED  BY <2>1, <2>2
<1>. DEFINE d == MoveDealerButton
            paid == [p \in Seats |-> BlindPaid(d, p)]
<1>2. Playing \in SUBSET Seats
  BY DEF Playing
<1>3. /\ d \in Seats /\ SmallBlindSeat(d) \in Seats /\ BigBlindSeat(d) \in Seats
      /\ FirstActorPreflop(d) \in Seats
  BY <1>2, BlindSeats DEF StartNewHand, DealHand
<1>4. \A p \in Seats : paid[p] \in Nat /\ paid[p] <= chips[p]
  BY BlindPaidType
<1>5. paid \in [Seats -> Nat]
  BY <1>4
<1>. HIDE DEF paid, d
<1>6. /\ phase' = "preflop" /\ dealer' = d /\ big_blind_seat' = BigBlindSeat(d)
      /\ chips' = [p \in Seats |-> chips[p] - paid[p]]
      /\ player_bet' = paid /\ total_bet' = paid
      /\ pot' = paid[SmallBlindSeat(d)] + paid[BigBlindSeat(d)]
      /\ current_bet' = paid[BigBlindSeat(d)]
      /\ last_raiser' = BigBlindSeat(d)
      /\ current_player' = FirstActorPreflop(d)
  BY DEF StartNewHand, DealHand, paid, d
<1>7. status' \in [Seats -> Statuses]
  BY DEF StartNewHand, DealHand, Statuses
<1>8. chips' \in [Seats -> Nat]
  BY <1>4, <1>6 DEF GameTypeOK
<1>9. pot' \in Nat /\ current_bet' \in Nat
  BY <1>3, <1>5, <1>6
<1>. QED  BY <1>1, <1>3, <1>5, <1>6, <1>7, <1>8, <1>9 DEF GameTypeOK, Phases

-----------------------------------------------------------------------------
(* process_player_action *)

\* The turn stays at the table.
LEMMA TurnType ==
  ASSUME current_player \in Seats, MoveToNextPlayer
  PROVE  current_player' \in Seats
<1>1. CASE Active' = {}
  BY <1>1 DEF MoveToNextPlayer
<1>2. CASE Active' # {}
  <2>1. Active' \in SUBSET Seats
    BY DEF Active
  <2>2. NextIn(current_player, Active') \in Active'
    BY <1>2, <2>1, NextInFindsSeat
  <2>. QED  BY <1>2, <2>1, <2>2 DEF MoveToNextPlayer
<1>. QED  BY <1>1, <1>2

\* _advance_to_next_player keeps the state of the engine well typed.
LEMMA AdvanceToNextPlayerType ==
  ASSUME GameTypeOK, AdvanceToNextPlayer
  PROVE  GameTypeOK'
<1>1. current_player' \in Seats
  BY TurnType DEF AdvanceToNextPlayer, GameTypeOK
<1>2. round_complete' \in BOOLEAN
  BY Zenon DEF AdvanceToNextPlayer
<1>3. UNCHANGED <<players_vars, round_vars, hand_vars, pot>>
  BY DEF AdvanceToNextPlayer
<1>. QED  BY <1>1, <1>2, <1>3 DEF GameTypeOK, players_vars, round_vars, hand_vars

\* The part of the state that a bet touches.
AccountsOK ==
  /\ chips \in [Seats -> Nat] /\ player_bet \in [Seats -> Nat]
  /\ total_bet \in [Seats -> Nat] /\ status \in [Seats -> Statuses] /\ pot \in Nat

\* A bet never takes more than the stack, and nothing for an amount that is
\* not positive.
LEMMA BetAmountType ==
  ASSUME chips \in [Seats -> Nat], NEW p \in Seats, NEW amount \in Int
  PROVE  BetAmount(p, amount) \in Nat /\ BetAmount(p, amount) <= chips[p]
BY DEF BetAmount

\* Player.bet keeps the accounts natural numbers, whatever amount is asked for.
LEMMA BetType ==
  ASSUME AccountsOK, NEW p \in Seats, NEW amount \in Int, Bet(p, amount)
  PROVE  AccountsOK'
<1>. DEFINE actual == BetAmount(p, amount)
<1>1. actual \in Nat /\ actual <= chips[p]
  BY BetAmountType DEF AccountsOK
<1>. HIDE DEF actual
<1>2. /\ chips' = [chips EXCEPT ![p] = @ - actual]
      /\ player_bet' = [player_bet EXCEPT ![p] = @ + actual]
      /\ total_bet' = [total_bet EXCEPT ![p] = @ + actual]
      /\ pot' = pot + actual
      /\ \/ status' = [status EXCEPT ![p] = "all_in"]
         \/ status' = status
  BY DEF Bet, actual
<1>3. chips' \in [Seats -> Nat]
  <2>1. chips \in [Seats -> Nat] /\ chips[p] \in Nat
    BY DEF AccountsOK
  <2>2. chips[p] - actual \in Nat
    BY <1>1, <2>1
  <2>. QED  BY <1>2, <2>1, <2>2
<1>4. player_bet' \in [Seats -> Nat] /\ total_bet' \in [Seats -> Nat] /\ pot' \in Nat
  BY <1>1, <1>2 DEF AccountsOK
<1>5. status' \in [Seats -> Statuses]
  BY <1>2 DEF AccountsOK, Statuses
<1>. QED  BY <1>3, <1>4, <1>5 DEF AccountsOK

\* So does every branch of process_player_action, before the turn moves on.
LEMMA ApplyActionType ==
  ASSUME GameTypeOK, NEW p \in Seats, NEW action, NEW amount \in Int,
         ApplyAction(p, action, amount)
  PROVE  /\ AccountsOK'
         /\ current_bet' \in Nat /\ last_raiser' \in Seats \cup {NoSeat}
         /\ has_bet' \in BOOLEAN
<1>1. /\ AccountsOK /\ player_bet[p] \in Nat /\ chips[p] \in Nat
      /\ current_bet \in Nat /\ last_raiser \in Seats \cup {NoSeat}
      /\ has_bet \in BOOLEAN /\ Owed(p) \in Int
  <2>1. AccountsOK /\ current_bet \in Nat /\ has_bet \in BOOLEAN
    BY DEF GameTypeOK, AccountsOK
  <2>2. player_bet[p] \in Nat /\ chips[p] \in Nat
    BY <2>1 DEF AccountsOK
  <2>3. Owed(p) \in Int
    BY <2>1, <2>2 DEF Owed
  <2>4. last_raiser \in Seats \cup {NoSeat}
    BY DEF GameTypeOK
  <2>. QED  BY <2>1, <2>2, <2>3, <2>4
<1>2. CASE Fold(p)
  <2>1. AccountsOK'
    BY <1>1, <1>2 DEF Fold, AccountsOK, Statuses
  <2>. QED  BY <1>1, <1>2, <2>1 DEF Fold, round_vars
<1>3. CASE Check(p)
  <2>1. AccountsOK'
    BY <1>1, <1>3 DEF Check, AccountsOK, players_vars
  <2>. QED  BY <1>1, <1>3, <2>1 DEF Check, round_vars
<1>4. CASE Call(p)
  <2>1. AccountsOK'
    BY <1>1, <1>4, BetType DEF Call
  <2>. QED  BY <1>1, <1>4, <2>1 DEF Call, round_vars
<1>5. CASE Raise(p, amount)
  <2>1. Owed(p) + amount \in Int
    BY <1>1
  <2>2. AccountsOK'
    BY <1>1, <1>5, <2>1, BetType DEF Raise
  <2>3. BetAmount(p, Owed(p) + amount) \in Nat
    BY <1>1, <2>1, BetAmountType DEF AccountsOK
  <2>4. current_bet' \in Nat
    BY <1>1, <1>5, <2>3 DEF Raise, RaiseTo
  <2>. QED  BY <1>5, <2>2, <2>4, Zenon DEF Raise, RaiseTo
<1>6. CASE AllIn(p)
  <2>1. AccountsOK'
    BY <1>1, <1>6, BetType DEF AllIn
  <2>2. CASE player_bet[p] + chips[p] > current_bet
    <3>1. current_bet' \in Nat
      BY <1>1, <1>6, <2>2 DEF AllIn, RaiseTo
    <3>. QED  BY <1>6, <2>1, <2>2, <3>1, Zenon DEF AllIn, RaiseTo
  <2>3. CASE ~(player_bet[p] + chips[p] > current_bet)
    BY <1>1, <1>6, <2>1, <2>3 DEF AllIn, round_vars
  <2>. QED  BY <2>2, <2>3
<1>. QED  BY <1>2, <1>3, <1>4, <1>5, <1>6 DEF ApplyAction

\* process_player_action keeps the state of the engine well typed.
LEMMA ProcessPlayerActionType ==
  ASSUME GameTypeOK, NEW p \in Seats, NEW action, NEW amount \in Int,
         ProcessPlayerAction(p, action, amount)
  PROVE  GameTypeOK'
<1>1. /\ AccountsOK'
      /\ current_bet' \in Nat /\ last_raiser' \in Seats \cup {NoSeat}
      /\ has_bet' \in BOOLEAN
  BY ApplyActionType DEF ProcessPlayerAction
<1>2. current_player' \in Seats
  BY TurnType DEF ProcessPlayerAction, EndTurn, GameTypeOK
<1>3. round_complete' \in BOOLEAN
  BY Zenon DEF ProcessPlayerAction, EndTurn
<1>4. UNCHANGED hand_vars
  BY DEF ProcessPlayerAction, ApplyAction
<1>. QED  BY <1>1, <1>2, <1>3, <1>4 DEF GameTypeOK, AccountsOK, hand_vars

\* What a player names is a whole number, whether it comes out of
\* _parse_llm_response or of RandomPlayer.make_decision.
LEMMA DecisionAmountType ==
  ASSUME GameTypeOK, NEW p \in Seats, NEW amounts \in SUBSET Int,
         NEW d \in Decisions(p, amounts)
  PROVE  d.amount \in Int
<1>1. /\ MinRaiseTotal \in Int /\ ToCall(p) \in Int /\ chips[p] \in Int
  <2>1. current_bet \in Nat /\ player_bet[p] \in Nat /\ chips[p] \in Nat
    BY DEF GameTypeOK
  <2>. QED  BY <2>1 DEF MinRaiseTotal, ToCall, Owed
<1>2. ASSUME NEW m \in Int PROVE ParsedRaise(p, m) \in Int
  <2>1. \A k \in Offered(p, "raise") : k = MinRaiseTotal
    BY DEF AvailableActions, Offered
  <2>. QED  BY <1>1, <2>1 DEF ParsedRaise
<1>3. ASSUME NEW m \in Int PROVE ParsedCall(p, m) \in Int
  <2>1. \A k \in Offered(p, "call") : k = ToCall(p)
    BY DEF AvailableActions, Offered
  <2>. QED  BY <1>1, <2>1 DEF ParsedCall
<1>4. CASE d \in ParsedDecisions(p, amounts)
  BY <1>1, <1>2, <1>3, <1>4 DEF ParsedDecisions
<1>5. CASE d \in RandomDecisions(p)
  <2>1. CASE d \in AvailableActions(p)
    BY <1>1, <2>1 DEF AvailableActions
  <2>2. ASSUME NEW times \in 1 .. 3, NEW m \in Offered(p, "raise")
        PROVE  RandomRaise(p, times, m) \in Int
    <3>1. m = MinRaiseTotal
      BY <2>2 DEF AvailableActions, Offered
    <3>2. m \in Int
      BY <1>1, <3>1
    <3>3. times \in {1, 2, 3}
      BY <2>2
    <3>4. times * m \in Int
      BY <3>2, <3>3
    <3>. QED  BY <1>1, <3>4 DEF RandomRaise
  <2>. QED  BY <1>5, <2>1, <2>2 DEF RandomDecisions
<1>. QED  BY <1>4, <1>5 DEF Decisions

-----------------------------------------------------------------------------
(* advance_to_next_phase and conduct_showdown *)

\* advance_to_next_phase keeps the state of the engine well typed.
LEMMA AdvanceToNextPhaseType ==
  ASSUME GameTypeOK, AdvanceToNextPhase
  PROVE  GameTypeOK'
<1>1. /\ UNCHANGED <<chips, total_bet, status, pot, big_blind_seat, dealer, hand_number>>
      /\ phase \in BettingPhases
  BY DEF AdvanceToNextPhase, CanAdvancePhase
<1>2. CASE phase' = "showdown" /\ UNCHANGED <<player_bet, community_cards, round_vars, turn_vars>>
  BY <1>1, <1>2 DEF GameTypeOK, Phases, round_vars, turn_vars
<1>3. CASE /\ phase # "river"
           /\ phase' = NextPhaseOf(phase)
           /\ community_cards' = DealtBy(phase')
           /\ StartNewBettingRound
  <2>1. phase' \in {"flop", "turn", "river"} /\ community_cards' \in {3, 4, 5}
    BY <1>1, <1>3 DEF BettingPhases, NextPhaseOf, DealtBy
  <2>2. current_player' \in Seats
    <3>1. CASE Active = {}
      BY <1>3, <3>1 DEF StartNewBettingRound, GameTypeOK
    <3>2. CASE Active # {}
      <4>1. Active' # {} /\ dealer' \in Seats /\ big_blind_seat' \in Seats \cup {NoSeat}
        BY <1>1, <3>2 DEF Active, GameTypeOK
      <4>2. /\ Active' \in SUBSET Seats
            /\ FirstActorForPhase' = FirstInScan(Active', dealer')
        BY <2>1 DEF Active, FirstActorForPhase, NextActiveFrom, FirstOf, FirstInScan
      <4>3. FirstInScan(Active', dealer') \in Seats
        BY <4>1, <4>2, FirstInScanIsSeat
      <4>. QED  BY <1>3, <3>2, <4>2, <4>3 DEF StartNewBettingRound
    <3>. QED  BY <3>1, <3>2
  <2>3. round_complete' \in BOOLEAN
    BY <1>3, Zenon DEF StartNewBettingRound
  <2>4. /\ player_bet' \in [Seats -> Nat] /\ current_bet' \in Nat
        /\ last_raiser' \in Seats \cup {NoSeat} /\ has_bet' = has_bet
    BY <1>3 DEF StartNewBettingRound
  <2>. QED  BY <1>1, <2>1, <2>2, <2>3, <2>4 DEF GameTypeOK, Phases
<1>. QED  BY <1>2, <1>3 DEF AdvanceToNextPhase

\* Every seat is paid a natural number of chips at the showdown.
LEMMA PayoutType ==
  ASSUME GameTypeOK, NEW strength
  PROVE  Payout(strength) \in [Seats -> Nat]
<1>1. Winnings(total_bet, Remaining, strength) \in [Seats -> Nat]
  BY WinningsType DEF GameTypeOK
<1>. QED  BY <1>1 DEF Payout, GameTypeOK

\* conduct_showdown keeps the state of the engine well typed: the pot never
\* becomes negative, whatever the order of the hands.
LEMMA ConductShowdownType ==
  ASSUME GameTypeOK, NEW strength, ConductShowdown(strength)
  PROVE  GameTypeOK'
<1>1. UNCHANGED <<player_bet, total_bet, status, round_vars, turn_vars, hand_vars>>
  BY DEF ConductShowdown
<1>2. chips' \in [Seats -> Nat] /\ pot' \in Nat
  <2>1. CASE UNCHANGED <<chips, pot>>
    BY <2>1 DEF GameTypeOK
  <2>2. CASE /\ chips' = [p \in Seats |-> chips[p] + Payout(strength)[p]]
             /\ pot' = LET rest == pot - Sum(Payout(strength), N)
                       IN  IF Cardinality(Remaining) = 1 THEN pot
                           ELSE IF rest > 0 THEN rest ELSE 0
    <3>. DEFINE paid == Payout(strength)
    <3>1. paid \in [Seats -> Nat]
      BY PayoutType
    <3>2. Sum(paid, N) \in Nat
      BY <3>1, SumType
    <3>. HIDE DEF paid
    <3>3. chips' = [p \in Seats |-> chips[p] + paid[p]]
      BY <2>2 DEF paid
    <3>4. pot' = pot \/ pot' = 0 \/ (pot' = pot - Sum(paid, N) /\ pot - Sum(paid, N) > 0)
      BY <2>2 DEF paid
    <3>5. chips' \in [Seats -> Nat]
      BY <3>1, <3>3, SMTT(30) DEF GameTypeOK
    <3>6. pot' \in Nat
      BY <3>2, <3>4 DEF GameTypeOK
    <3>. QED  BY <3>5, <3>6
  <2>. QED  BY <2>1, <2>2 DEF ConductShowdown
<1>. QED  BY <1>1, <1>2 DEF GameTypeOK, round_vars, turn_vars, hand_vars
-----------------------------------------------------------------------------
(* Where the chips are *)

\* The blinds move from the stacks to the bets and to the pot, chip by chip.
LEMMA BlindsAreAccounted ==
  ASSUME GameTypeOK, StartNewHand
  PROVE  /\ \A p \in Seats : chips'[p] + total_bet'[p] = chips[p]
         /\ pot' = Sum(total_bet', N)
<1>. DEFINE d == MoveDealerButton
            paid == [p \in Seats |-> BlindPaid(d, p)]
            sb == SmallBlindSeat(d)
            bb == BigBlindSeat(d)
<1>1. Playing \in SUBSET Seats
  BY DEF Playing
<1>2. sb \in Seats /\ bb \in Seats /\ sb # bb
  BY <1>1, BlindSeats DEF StartNewHand, DealHand
<1>3. \A p \in Seats : paid[p] \in Nat /\ chips[p] \in Nat
  BY BlindPaidType DEF GameTypeOK
<1>4. \A p \in Seats : p # sb /\ p # bb => paid[p] = 0
  BY DEF BlindPaid, GameTypeOK
<1>5. /\ chips' = [p \in Seats |-> chips[p] - paid[p]]
      /\ total_bet' = paid /\ pot' = paid[sb] + paid[bb]
  BY DEF StartNewHand, DealHand
<1>. HIDE DEF paid, sb, bb, d
<1>6. Sum(paid, N) = paid[sb] + paid[bb]
  <2>1. N \in Nat /\ sb \in 0 .. N - 1 /\ bb \in 0 .. N - 1
    BY <1>2
  <2>2. /\ paid[sb] \in Int /\ paid[bb] \in Int
        /\ \A k \in 0 .. N - 1 : k # sb /\ k # bb => paid[k] = 0
    BY <1>2, <1>3, <1>4
  <2>. QED  BY <1>2, <2>1, <2>2, SumOfTwo
<1>7. \A p \in Seats : chips'[p] + total_bet'[p] = chips[p]
  BY <1>3, <1>5
<1>. QED  BY <1>5, <1>6, <1>7

\* Player.bet moves chips from one stack to the pot and books them as bet.
LEMMA BetIsAccounted ==
  ASSUME AccountsOK, NEW p \in Seats, NEW amount \in Int, Bet(p, amount)
  PROVE  /\ \A q \in Seats : chips'[q] + total_bet'[q] = chips[q] + total_bet[q]
         /\ pot' - Sum(total_bet', N) = pot - Sum(total_bet, N)
<1>. DEFINE actual == BetAmount(p, amount)
<1>1. actual \in Nat
  BY BetAmountType DEF AccountsOK
<1>. HIDE DEF actual
<1>2. /\ chips' = [chips EXCEPT ![p] = @ - actual]
      /\ total_bet' = [total_bet EXCEPT ![p] = @ + actual]
      /\ pot' = pot + actual
  BY DEF Bet, actual
<1>3. \A q \in Seats : chips[q] \in Nat /\ total_bet[q] \in Nat
  BY DEF AccountsOK
<1>4. \A q \in Seats : chips'[q] + total_bet'[q] = chips[q] + total_bet[q]
  BY <1>1, <1>2, <1>3 DEF AccountsOK
<1>5. /\ \A q \in Seats : total_bet'[q] \in Int
      /\ \A q \in Seats : q # p => total_bet'[q] = total_bet[q]
      /\ total_bet'[p] = total_bet[p] + actual
  BY <1>1, <1>2, <1>3 DEF AccountsOK
<1>6. /\ Sum(total_bet, N) \in Int
      /\ Sum(total_bet', N) = Sum(total_bet, N) + (total_bet'[p] - total_bet[p])
  <2>1. N \in Nat /\ p \in 0 .. N - 1
    OBVIOUS
  <2>2. \A k \in 0 .. N - 1 : total_bet[k] \in Int /\ total_bet'[k] \in Int
    BY <1>3, <1>5
  <2>. QED  BY <1>5, <2>1, <2>2, SumUpdate, ZenonT(40)
<1>7. pot \in Nat /\ total_bet[p] \in Nat
  BY <1>3 DEF AccountsOK
<1>. QED  BY <1>1, <1>2, <1>4, <1>5, <1>6, <1>7

\* So does every action a player can take; a fold and a check move nothing.
LEMMA ActionIsAccounted ==
  ASSUME GameTypeOK, NEW p \in Seats, NEW action, NEW amount \in Int,
         ApplyAction(p, action, amount)
  PROVE  /\ \A q \in Seats : chips'[q] + total_bet'[q] = chips[q] + total_bet[q]
         /\ pot' - Sum(total_bet', N) = pot - Sum(total_bet, N)
<1>1. AccountsOK /\ current_bet \in Nat /\ chips[p] \in Nat /\ player_bet[p] \in Nat
  BY DEF GameTypeOK, AccountsOK
<1>2. Owed(p) \in Int
  BY <1>1 DEF Owed
<1>3. CASE Fold(p)
  BY <1>3 DEF Fold
<1>4. CASE Check(p)
  BY <1>4 DEF Check, players_vars
<1>5. CASE Call(p)
  BY <1>1, <1>2, <1>5, BetIsAccounted DEF Call
<1>6. CASE Raise(p, amount)
  <2>1. Owed(p) + amount \in Int
    BY <1>2
  <2>. QED  BY <1>1, <1>6, <2>1, BetIsAccounted DEF Raise
<1>7. CASE AllIn(p)
  BY <1>1, <1>7, BetIsAccounted DEF AllIn
<1>. QED  BY <1>3, <1>4, <1>5, <1>6, <1>7 DEF ApplyAction

-----------------------------------------------------------------------------
(* Who is still in the hand *)

\* An action touches one player only: it folds it, puts it all-in, or leaves
\* its status alone, and books no bet of anybody else.
LEMMA ActionIsOfOnePlayer ==
  ASSUME GameTypeOK, NEW p \in Seats, NEW action, NEW amount \in Int,
         ApplyAction(p, action, amount)
  PROVE  /\ p = current_player /\ status[p] = "active"
         /\ \/ status' = status
            \/ status' = [status EXCEPT ![p] = "all_in"]
            \/ status' = [status EXCEPT ![p] = "folded"]
         /\ \A q \in Seats : q # p => /\ total_bet'[q] = total_bet[q]
                                     /\ player_bet'[q] = player_bet[q]
                                     /\ chips'[q] = chips[q]
<1>1. p = current_player /\ status[p] = "active"
  BY DEF ApplyAction
<1>2. ASSUME NEW m \in Int, Bet(p, m)
      PROVE  /\ status' = status \/ status' = [status EXCEPT ![p] = "all_in"]
             /\ \A q \in Seats : q # p => /\ total_bet'[q] = total_bet[q]
                                         /\ player_bet'[q] = player_bet[q]
                                         /\ chips'[q] = chips[q]
  BY <1>2 DEF Bet, GameTypeOK
<1>3. current_bet \in Nat /\ player_bet[p] \in Nat /\ chips[p] \in Nat
  BY DEF GameTypeOK
<1>4. Owed(p) \in Int /\ Owed(p) + amount \in Int
  BY <1>3 DEF Owed
<1>5. CASE Fold(p)
  BY <1>1, <1>5 DEF Fold
<1>6. CASE Check(p)
  BY <1>1, <1>6 DEF Check, players_vars
<1>7. CASE Call(p)
  BY <1>1, <1>2, <1>4, <1>7 DEF Call
<1>8. CASE Raise(p, amount)
  BY <1>1, <1>2, <1>4, <1>8 DEF Raise
<1>9. CASE AllIn(p)
  BY <1>1, <1>2, <1>3, <1>9 DEF AllIn
<1>. QED  BY <1>5, <1>6, <1>7, <1>8, <1>9 DEF ApplyAction

\* An action takes nobody but the player itself out of the hand.
LEMMA ActionKeepsOthersIn ==
  ASSUME GameTypeOK, NEW p \in Seats, NEW action, NEW amount \in Int,
         ApplyAction(p, action, amount)
  PROVE  /\ p \in Remaining /\ Remaining \ {p} \in SUBSET Remaining'
         /\ Remaining' \in SUBSET Remaining
         /\ \A q \in Seats : status'[q] = "busted" => status[q] = "busted" /\ q # p
<1>1. /\ status[p] = "active"
      /\ \/ status' = status
         \/ status' = [status EXCEPT ![p] = "all_in"]
         \/ status' = [status EXCEPT ![p] = "folded"]
  BY ActionIsOfOnePlayer
<1>2. status \in [Seats -> Statuses]
  BY DEF GameTypeOK
<1>. QED  BY <1>1, <1>2 DEF Remaining

\* start_new_hand deals everybody in that has chips, which are two at least,
\* and the others have no bet.
LEMMA DealtIn ==
  ASSUME GameTypeOK, StartNewHand
  PROVE  /\ Remaining' = Playing /\ Cardinality(Playing) >= 2
         /\ \A p \in Seats : status'[p] = "busted" => total_bet'[p] = 0
<1>1. /\ Cardinality(Playing) >= 2
      /\ status' = [p \in Seats |->
                      IF chips[p] = 0 THEN "busted"
                      ELSE IF BlindPaid(MoveDealerButton, p) = chips[p] THEN "all_in"
                      ELSE "active"]
      /\ total_bet' = [p \in Seats |-> BlindPaid(MoveDealerButton, p)]
  BY DEF StartNewHand, DealHand
<1>2. \A p \in Seats : chips[p] \in Nat
  BY DEF GameTypeOK
<1>3. Remaining' = Playing
  BY <1>1, <1>2 DEF Remaining, Playing
<1>4. \A p \in Seats : BlindPaid(MoveDealerButton, p) \in 0 .. chips[p]
  BY BlindPaidType
<1>. QED  BY <1>1, <1>2, <1>3, <1>4

\* conduct_showdown pays out no more than the pot, and less only when somebody
\* who is not at the showdown has bet more than everybody who is.
LEMMA PayoutIsBacked ==
  ASSUME GameTypeOK, Remaining # {}, pot = Sum(total_bet, N),
         NEW strength \in [Seats -> Nat]
  PROVE  /\ Payout(strength) \in [Seats -> Nat]
         /\ Sum(Payout(strength), N) \in Nat /\ Sum(Payout(strength), N) <= pot
         /\ Sum(Payout(strength), N) # pot =>
              \E p \in Seats \ Remaining : \A q \in Remaining : total_bet[q] < total_bet[p]
<1>1. /\ Remaining \in SUBSET (0 .. N - 1) /\ N \in Nat /\ pot \in Nat
      /\ total_bet \in [0 .. N - 1 -> Nat] /\ strength \in [0 .. N - 1 -> Nat]
  BY ActiveSeats DEF GameTypeOK
<1>2. Payout(strength) \in [Seats -> Nat]
  BY PayoutType
<1>3. Sum(Payout(strength), N) \in Nat
  BY <1>2, SumType
<1>4. CASE Cardinality(Remaining) = 1
  <2>. DEFINE f == Payout(strength)
  <2>1. \A p \in 0 .. N - 1 : f[p] = IF p \in Remaining THEN pot ELSE 0
    BY <1>4 DEF Payout
  <2>. HIDE DEF f
  <2>2. Sum(f, N) = pot * Cardinality(Remaining)
    BY <1>1, <2>1, SumOverSet
  <2>3. Sum(f, N) = pot
    BY <1>1, <1>4, <2>2
  <2>. QED  BY <1>1, <1>2, <2>3 DEF f
<1>5. CASE Cardinality(Remaining) # 1
  <2>. DEFINE top == Greatest({total_bet[p] : p \in Remaining})
              capped == Capped(total_bet, top)
  <2>1. Sum(Payout(strength), N) = Sum(capped, N)
    <3>1. Payout(strength) = Winnings(total_bet, Remaining, strength)
      BY <1>5 DEF Payout
    <3>2. Sum(Winnings(total_bet, Remaining, strength), N) = Sum(Capped(total_bet, top), N)
      BY <1>1, WinningsAddUp
    <3>. QED  BY <3>1, <3>2
  <2>2. /\ top \in Nat
        /\ \A p \in Remaining : total_bet[p] <= top
    <3>1. /\ top \in {0} \cup Levels(total_bet)
          /\ \A p \in Remaining : total_bet[p] <= top
      BY <1>1, TopStake
    <3>2. Levels(total_bet) \in SUBSET (Nat \ {0})
      BY <1>1, LevelsAreBounded
    <3>. HIDE DEF top
    <3>. QED  BY <3>1, <3>2
  <2>. HIDE DEF top
  <2>3. \A p \in 0 .. N - 1 :
          /\ capped[p] \in Nat /\ total_bet[p] \in Nat /\ capped[p] <= total_bet[p]
          /\ capped[p] # total_bet[p] => total_bet[p] > top
    BY <1>1, <2>2 DEF Capped
  <2>. HIDE DEF capped
  <2>4. Sum(capped, N) <= pot
    BY <1>1, <2>3, SumMonotone
  <2>5. ASSUME Sum(capped, N) # pot
        PROVE  \E p \in Seats \ Remaining : \A q \in Remaining : total_bet[q] < total_bet[p]
    <3>1. PICK p \in 0 .. N - 1 : capped[p] # total_bet[p]
      BY <1>1, <2>5, SumExtensional
    <3>2. total_bet[p] \in Nat /\ total_bet[p] > top
      BY <2>3, <3>1
    <3>3. \A q \in Remaining : total_bet[q] \in Nat /\ total_bet[q] < total_bet[p]
      BY <1>1, <2>2, <3>2
    <3>4. p \notin Remaining
      BY <3>2, <3>3
    <3>. QED  BY <3>3, <3>4
  <2>. QED  BY <1>2, <1>3, <2>1, <2>4, <2>5
<1>. QED  BY <1>4, <1>5

\* No action takes a bet back.
LEMMA ActionOnlyAdds ==
  ASSUME GameTypeOK, NEW p \in Seats, NEW action, NEW amount \in Int,
         ApplyAction(p, action, amount)
  PROVE  total_bet'[p] >= total_bet[p]
<1>1. /\ current_bet \in Nat /\ player_bet[p] \in Nat /\ chips[p] \in Nat
      /\ total_bet[p] \in Nat /\ total_bet \in [Seats -> Nat] /\ chips \in [Seats -> Nat]
  BY DEF GameTypeOK
<1>2. ASSUME NEW m \in Int, Bet(p, m) PROVE total_bet'[p] >= total_bet[p]
  <2>1. BetAmount(p, m) \in Nat
    BY <1>1, BetAmountType
  <2>2. total_bet'[p] = total_bet[p] + BetAmount(p, m)
    BY <1>1, <1>2 DEF Bet
  <2>. QED  BY <1>1, <2>1, <2>2
<1>3. Owed(p) \in Int /\ Owed(p) + amount \in Int /\ chips[p] \in Int
  BY <1>1 DEF Owed
<1>4. CASE Fold(p) \/ Check(p)
  BY <1>1, <1>4 DEF Fold, Check, players_vars
<1>5. CASE Call(p) \/ Raise(p, amount) \/ AllIn(p)
  BY <1>2, <1>3, <1>5 DEF Call, Raise, AllIn
<1>. QED  BY <1>4, <1>5 DEF ApplyAction

-----------------------------------------------------------------------------
(* The bet to match *)

\* No raise names less than the least amount a language model may name: an
\* offered raise is lifted to its minimum, and a random one starts there.
LEMMA RaiseIsNamed ==
  ASSUME GameTypeOK, NEW p \in Seats, NEW amounts \in SUBSET Int, NEW b \in 0 .. 1,
         \A m \in amounts : m >= b,
         NEW d \in Decisions(p, amounts), d.action = "raise"
  PROVE  d.amount >= b
<1>1. /\ MinRaiseTotal \in Nat /\ MinRaiseTotal >= 1 /\ chips[p] \in Nat
  <2>1. current_bet \in Nat /\ chips[p] \in Nat
    BY DEF GameTypeOK
  <2>. QED  BY <2>1 DEF MinRaiseTotal
<1>2. \A k \in Offered(p, "raise") : k = MinRaiseTotal /\ chips[p] >= MinRaiseTotal
  BY DEF AvailableActions, Offered
<1>3. ASSUME NEW m \in amounts PROVE ParsedRaise(p, m) >= b
  <2>1. m \in Int /\ m >= b
    BY <1>3
  <2>. QED  BY <1>1, <1>2, <2>1 DEF ParsedRaise
<1>4. CASE d \in ParsedDecisions(p, amounts)
  BY <1>3, <1>4 DEF ParsedDecisions
<1>5. CASE d \in RandomDecisions(p)
  <2>1. ASSUME NEW times \in 1 .. 3, NEW m \in Offered(p, "raise")
        PROVE  RandomRaise(p, times, m) >= b
    <3>1. m \in Nat /\ m >= 1 /\ chips[p] >= m /\ times \in {1, 2, 3}
      BY <1>1, <1>2, <2>1
    <3>2. times * m >= b
      BY <3>1
    <3>. QED  BY <1>1, <3>1, <3>2 DEF RandomRaise
  <2>. QED  BY <1>5, <2>1 DEF RandomDecisions
<1>. QED  BY <1>4, <1>5 DEF Decisions

\* What a bet of an affordable amount leaves in front of the player.
LEMMA BetIsShown ==
  ASSUME GameTypeOK, NEW p \in Seats, NEW m \in Int, 0 <= m, m <= chips[p], Bet(p, m)
  PROVE  BetAmount(p, m) = m /\ player_bet'[p] = player_bet[p] + m
<1>1. chips[p] \in Nat /\ player_bet \in [Seats -> Nat]
  BY DEF GameTypeOK
<1>2. BetAmount(p, m) = m
  BY <1>1 DEF BetAmount
<1>3. player_bet'[p] = player_bet[p] + BetAmount(p, m)
  BY <1>1 DEF Bet
<1>. QED  BY <1>2, <1>3

\* current_bet is the highest bet in front of a player.
Highest ==
  /\ \A p \in Seats : player_bet[p] <= current_bet
  /\ \E p \in Seats : player_bet[p] = current_bet

\* An action leaves current_bet the highest bet, and lifts it exactly when it
\* makes the player the last raiser; a raise of nothing is the exception.
LEMMA ActionKeepsHighest ==
  ASSUME GameTypeOK, Highest, NEW p \in Seats, NEW action, NEW amount \in Int,
         action = "raise" => amount >= 0,
         ApplyAction(p, action, amount)
  PROVE  /\ Highest'
         /\ \/ /\ UNCHANGED round_vars
               /\ player_bet'[p] >= player_bet[p]
               /\ action = "fold" => status'[p] = "folded"
               /\ action # "fold" => player_bet'[p] = current_bet \/ status'[p] = "all_in"
               /\ current_bet = 0 => status'[p] \in {"active", "folded"}
            \/ /\ last_raiser' = p /\ has_bet'
               /\ current_bet' >= current_bet /\ player_bet'[p] = current_bet'
               /\ action = "raise" => current_bet' = current_bet + amount
               /\ action # "raise" => current_bet' > current_bet
<1>1. /\ current_bet \in Nat /\ chips[p] \in Nat /\ player_bet[p] \in Nat
      /\ player_bet[p] <= current_bet /\ player_bet \in [Seats -> Nat]
      /\ status \in [Seats -> Statuses]
  BY DEF GameTypeOK, Highest
<1>2. \A q \in Seats : q # p => player_bet'[q] = player_bet[q]
  BY ActionIsOfOnePlayer
<1>3. PICK top \in Seats : player_bet[top] = current_bet
  BY DEF Highest
<1>4. ASSUME current_bet' \in Int, current_bet' >= current_bet, player_bet'[p] = current_bet'
      PROVE  Highest'
  <2>1. \A q \in Seats : player_bet[q] \in Int /\ player_bet[q] <= current_bet
    BY <1>1 DEF Highest
  <2>2. \A q \in Seats : player_bet'[q] <= current_bet'
    BY <1>1, <1>2, <1>4, <2>1
  <2>. QED  BY <1>4, <2>2 DEF Highest
<1>5. Owed(p) \in Nat /\ player_bet[p] + Owed(p) = current_bet
  BY <1>1 DEF Owed
<1>6. CASE action = "fold" /\ Fold(p)
  <2>1. UNCHANGED round_vars /\ UNCHANGED player_bet /\ status'[p] = "folded"
    BY <1>1, <1>6 DEF Fold
  <2>. QED  BY <1>1, <1>6, <2>1 DEF Highest, round_vars
<1>7. CASE action = "check" /\ Check(p)
  <2>1. /\ UNCHANGED round_vars /\ UNCHANGED player_bet /\ current_bet <= player_bet[p]
        /\ status'[p] = "active"
    BY <1>7 DEF Check, CanCheck, players_vars, ApplyAction
  <2>. QED  BY <1>1, <1>7, <2>1 DEF Highest, round_vars
<1>8. CASE action = "call" /\ Call(p)
  <2>1. Owed(p) <= chips[p] /\ Bet(p, Owed(p)) /\ UNCHANGED round_vars
    BY <1>8 DEF Call, CanCall
  <2>2. player_bet'[p] = player_bet[p] + Owed(p)
    BY <1>5, <2>1, BetIsShown
  <2>3. UNCHANGED current_bet
    BY <2>1 DEF round_vars
  <2>4. player_bet'[p] = current_bet'
    BY <1>5, <2>2, <2>3
  <2>5. Highest'
    BY <1>1, <1>4, <2>3, <2>4
  <2>6. current_bet = 0 => status'[p] = "active"
    <3>1. current_bet = 0 => Owed(p) = 0
      BY <1>1, <1>5
    <3>. QED  BY <2>1, <3>1 DEF Bet, ApplyAction
  <2>. QED  BY <1>1, <1>8, <2>1, <2>3, <2>4, <2>5, <2>6
<1>9. CASE action = "raise" /\ Raise(p, amount)
  <2>. DEFINE m == Owed(p) + amount
  <2>1. m \in Int /\ 0 <= m /\ m <= chips[p] /\ Bet(p, m)
    BY <1>5, <1>9 DEF Raise, CanRaise
  <2>2. current_bet' = player_bet[p] + BetAmount(p, m) /\ last_raiser' = p /\ has_bet'
    BY <1>9 DEF Raise, RaiseTo
  <2>3. BetAmount(p, m) = m /\ player_bet'[p] = player_bet[p] + m
    BY <2>1, BetIsShown
  <2>4. current_bet' = current_bet + amount /\ player_bet'[p] = current_bet'
    <3>1. current_bet' = player_bet[p] + m /\ player_bet'[p] = current_bet'
      BY <2>2, <2>3
    <3>2. player_bet[p] + (Owed(p) + amount) = current_bet + amount
      <4>1. player_bet[p] \in Int /\ current_bet \in Int
        BY <1>1
      <4>. QED  BY <4>1 DEF Owed
    <3>. QED  BY <3>1, <3>2
  <2>5. current_bet' \in Int /\ current_bet' >= current_bet
    BY <1>1, <1>9, <2>4
  <2>. QED  BY <1>4, <1>9, <2>2, <2>4, <2>5
<1>10. CASE action = "all_in" /\ AllIn(p)
  <2>1. chips[p] > 0 /\ Bet(p, chips[p])
    BY <1>10 DEF AllIn, CanAllIn
  <2>2. player_bet'[p] = player_bet[p] + chips[p] /\ BetAmount(p, chips[p]) = chips[p]
    BY <1>1, <2>1, BetIsShown
  <2>3. CASE player_bet[p] + chips[p] > current_bet
    <3>1. current_bet' = player_bet[p] + chips[p] /\ last_raiser' = p /\ has_bet'
      BY <1>10, <2>3 DEF AllIn, RaiseTo
    <3>2. /\ current_bet' \in Int /\ current_bet' > current_bet
          /\ current_bet' >= current_bet /\ player_bet'[p] = current_bet'
      BY <1>1, <2>2, <2>3, <3>1
    <3>. QED  BY <1>4, <1>10, <3>1, <3>2
  <2>4. CASE ~(player_bet[p] + chips[p] > current_bet)
    <3>1. UNCHANGED round_vars
      BY <1>10, <2>4 DEF AllIn
    <3>2. status'[p] = "all_in"
      BY <1>1, <2>1, <2>2 DEF Bet
    <3>3. top # p
      BY <1>1, <1>3, <2>1, <2>4
    <3>4. /\ UNCHANGED current_bet
          /\ player_bet'[p] <= current_bet' /\ player_bet'[p] >= player_bet[p]
      BY <1>1, <2>2, <2>4, <3>1 DEF round_vars
    <3>5. Highest'
      BY <1>2, <1>3, <3>3, <3>4 DEF Highest
    <3>6. current_bet # 0
      BY <1>1, <2>1, <2>4
    <3>. QED  BY <1>10, <3>1, <3>2, <3>4, <3>5, <3>6
  <2>. QED  BY <2>3, <2>4
<1>. QED  BY <1>6, <1>7, <1>8, <1>9, <1>10 DEF ApplyAction

\* The blinds: unless the big blind is all-in for less than the small blind,
\* what it posts is the highest bet.
LEMMA BlindsAreHighest ==
  ASSUME GameTypeOK, StartNewHand, SMALL_BLIND <= BIG_BLIND,
         chips[big_blind_seat'] >= SMALL_BLIND
  PROVE  Highest'
<1>. DEFINE d == MoveDealerButton
            sb == SmallBlindSeat(d)
            bb == BigBlindSeat(d)
<1>1. /\ Cardinality(Playing) >= 2 /\ big_blind_seat' = bb
      /\ player_bet' = [p \in Seats |-> BlindPaid(d, p)]
      /\ current_bet' = [p \in Seats |-> BlindPaid(d, p)][bb]
  BY DEF StartNewHand, DealHand
<1>2. sb \in Seats /\ bb \in Seats /\ sb # bb
  BY <1>1, BlindSeats DEF Playing
<1>3. current_bet' = BlindPaid(d, bb) /\ player_bet'[bb] = BlindPaid(d, bb)
  BY <1>1, <1>2
<1>4. \A p \in Seats : chips[p] \in Nat
  BY DEF GameTypeOK
<1>5. BlindPaid(d, bb) >= SMALL_BLIND /\ BlindPaid(d, bb) \in Nat
  BY <1>1, <1>2, <1>4 DEF BlindPaid
<1>6. \A p \in Seats : p # bb => BlindPaid(d, p) \in Nat /\ BlindPaid(d, p) <= SMALL_BLIND
  BY <1>2, <1>4 DEF BlindPaid
<1>7. \A p \in Seats : BlindPaid(d, p) <= BlindPaid(d, bb)
  BY <1>5, <1>6
<1>. QED  BY <1>1, <1>2, <1>3, <1>7 DEF Highest

-----------------------------------------------------------------------------
(* The turn goes round the table *)

\* Seen from any seat, the seats lie 1 to N steps away, each at its own
\* distance, and the seat itself is the farthest.
LEMMA DistanceIsOrder ==
  ASSUME NEW o \in Seats, NEW p \in Seats, NEW q \in Seats
  PROVE  /\ Distance(o, p) \in 1 .. N
         /\ Distance(o, p) = Distance(o, q) => p = q
         /\ Distance(o, o) = N
         /\ Distance(o, p) = N => p = o
BY DEF Distance

\* If n is met no later than q when the seats after p are scanned, then seen
\* from o either nothing of q lies between p and n, or the scan has passed o.
LEMMA ScanOrder ==
  ASSUME NEW o \in Seats, NEW p \in Seats, NEW n \in Seats, NEW q \in Seats,
         Distance(p, n) <= Distance(p, q)
  PROVE  /\ Distance(o, p) < Distance(o, n) =>
              Distance(o, q) <= Distance(o, p) \/ Distance(o, n) <= Distance(o, q)
         /\ Distance(o, n) <= Distance(o, p) =>
              Distance(o, q) <= Distance(o, p) /\ Distance(o, n) <= Distance(o, q)
BY DEF Distance

\* The seat of S that is scanned next after p: seen from o it is the next
\* beyond p, or every seat of S has been passed and it is the first again.
LEMMA NextInOrder ==
  ASSUME NEW o \in Seats, NEW p \in Seats, NEW S \in SUBSET Seats, S # {}
  PROVE  /\ NextIn(p, S) \in S
         /\ \A q \in S : Distance(p, NextIn(p, S)) <= Distance(p, q)
         /\ \/ /\ Distance(o, p) < Distance(o, NextIn(p, S))
               /\ \A q \in S : \/ Distance(o, q) <= Distance(o, p)
                               \/ Distance(o, NextIn(p, S)) <= Distance(o, q)
            \/ \A q \in S : /\ Distance(o, q) <= Distance(o, p)
                            /\ Distance(o, NextIn(p, S)) <= Distance(o, q)
<1>. DEFINE n == NextIn(p, S)
<1>1. n \in S /\ \A q \in S : Distance(p, n) <= Distance(p, q)
  BY NextInFindsSeat
<1>. HIDE DEF n
<1>2. n \in Seats /\ Distance(o, p) \in Int /\ Distance(o, n) \in Int
  BY <1>1, DistanceIsOrder
<1>3. CASE Distance(o, p) < Distance(o, n)
  BY <1>1, <1>2, <1>3, ScanOrder DEF n
<1>4. CASE Distance(o, n) <= Distance(o, p)
  BY <1>1, <1>2, <1>4, ScanOrder DEF n
<1>. QED  BY <1>2, <1>3, <1>4

\* _get_next_active_player_from finds the seat that is nearest after o.
LEMMA NearestIsNext ==
  ASSUME NEW o \in Seats, NEW S \in SUBSET Seats, NEW n \in S, S \ {o} # {},
         \A q \in S : Distance(o, n) <= Distance(o, q)
  PROVE  n # o /\ NextIn(o, S \ {o}) = n
<1>1. PICK k \in S \ {o} : TRUE
  OBVIOUS
<1>2. n # o
  <2>1. /\ Distance(o, k) \in 1 .. N /\ Distance(o, k) # N /\ Distance(o, o) = N
    BY <1>1, DistanceIsOrder
  <2>2. Distance(o, n) <= Distance(o, k)
    BY <1>1
  <2>. QED  BY <2>1, <2>2
<1>. DEFINE m == NextIn(o, S \ {o})
<1>3. m \in S \ {o} /\ \A q \in S \ {o} : Distance(o, m) <= Distance(o, q)
  <2>1. S \ {o} \in SUBSET Seats
    OBVIOUS
  <2>. QED  BY <2>1, NextInFindsSeat
<1>. HIDE DEF m
<1>4. /\ Distance(o, m) <= Distance(o, n) /\ Distance(o, n) <= Distance(o, m)
      /\ Distance(o, m) \in Int /\ Distance(o, n) \in Int
  BY <1>2, <1>3, DistanceIsOrder
<1>5. Distance(o, m) = Distance(o, n)
  BY <1>4
<1>6. m = n
  BY <1>3, <1>5, DistanceIsOrder
<1>. QED  BY <1>2, <1>6 DEF m

\* The turn passes from p to the next seat of B: the seats of B before that
\* one are those before p and p itself, or all of B lie up to p and the turn
\* has come round to the first of them.
LEMMA TurnPasses ==
  ASSUME NEW o \in Seats, NEW p \in Seats, NEW B \in SUBSET Seats, B # {}
  PROVE  /\ NextIn(p, B) \in B
         /\ \/ /\ Distance(o, p) < Distance(o, NextIn(p, B))
               /\ \A q \in B : Distance(o, q) < Distance(o, NextIn(p, B)) <=>
                                 Distance(o, q) < Distance(o, p) \/ q = p
            \/ \A q \in B : /\ Distance(o, q) < Distance(o, p) \/ q = p
                            /\ Distance(o, NextIn(p, B)) <= Distance(o, q)
<1>. DEFINE n == NextIn(p, B)
<1>1. /\ n \in B
      /\ \/ /\ Distance(o, p) < Distance(o, n)
            /\ \A q \in B : \/ Distance(o, q) <= Distance(o, p)
                            \/ Distance(o, n) <= Distance(o, q)
         \/ \A q \in B : /\ Distance(o, q) <= Distance(o, p)
                         /\ Distance(o, n) <= Distance(o, q)
  BY NextInOrder
<1>. HIDE DEF n
<1>2. \A q \in B : /\ Distance(o, q) \in Int /\ Distance(o, p) \in Int
                   /\ Distance(o, n) \in Int
                   /\ q # p => Distance(o, q) # Distance(o, p)
  BY <1>1, DistanceIsOrder
<1>3. CASE /\ Distance(o, p) < Distance(o, n)
           /\ \A q \in B : \/ Distance(o, q) <= Distance(o, p)
                           \/ Distance(o, n) <= Distance(o, q)
  BY <1>1, <1>2, <1>3 DEF n
<1>4. CASE \A q \in B : /\ Distance(o, q) <= Distance(o, p)
                        /\ Distance(o, n) <= Distance(o, q)
  BY <1>1, <1>2, <1>4 DEF n
<1>. QED  BY <1>1, <1>3, <1>4

\* The first actor after the flop is the active player nearest to the dealer.
LEMMA FirstInScanIsNearest ==
  ASSUME NEW A \in SUBSET Seats, A # {}, NEW from \in Seats
  PROVE  /\ FirstInScan(A, from) \in A
         /\ \A q \in A : Distance(from, FirstInScan(A, from)) <= Distance(from, q)
<1>1. from # NoSeat /\ A \ {from} \in SUBSET Seats
  BY DEF NoSeat
<1>2. CASE A \ {from} = {}
  <2>1. A = {from} /\ A \in SUBSET Nat
    <3>1. A = {from}
      BY <1>2
    <3>2. A \in SUBSET Nat
      OBVIOUS
    <3>. QED  BY <3>1, <3>2
  <2>2. Least(A) \in A
    BY <2>1, LeastIsLeast
  <2>3. FirstInScan(A, from) = from
    BY <1>2, <2>1, <2>2 DEF FirstInScan
  <2>4. Distance(from, from) <= Distance(from, from)
    BY DistanceIsOrder
  <2>. QED  BY <2>1, <2>3, <2>4
<1>3. CASE A \ {from} # {}
  <2>. DEFINE n == NextIn(from, A \ {from})
  <2>1. n \in A \ {from} /\ \A q \in A \ {from} : Distance(from, n) <= Distance(from, q)
    BY <1>1, <1>3, NextInFindsSeat
  <2>2. FirstInScan(A, from) = n
    <3>1. n # NoSeat /\ from # NoSeat
      BY <2>1 DEF NoSeat
    <3>. QED  BY <1>3, <3>1 DEF FirstInScan
  <2>. HIDE DEF n
  <2>3. Distance(from, n) <= Distance(from, from)
    <3>1. Distance(from, n) \in 1 .. N /\ Distance(from, from) = N
      BY <2>1, DistanceIsOrder
    <3>. QED  BY <3>1
  <2>. QED  BY <2>1, <2>2, <2>3
<1>. QED  BY <1>2, <1>3

\* The first actor before the flop is the player nearest to the big blind.
LEMMA FirstActorIsNearest ==
  ASSUME GameTypeOK, Cardinality(Playing) >= 2, NEW d \in Playing
  PROVE  \A q \in Playing : Distance(BigBlindSeat(d), FirstActorPreflop(d))
                              <= Distance(BigBlindSeat(d), q)
<1>. DEFINE bb == BigBlindSeat(d)
<1>1. bb \in Playing /\ Playing \in SUBSET Seats /\ SmallBlindSeat(d) # bb
  BY BlindSeats DEF Playing
<1>2. CASE Cardinality(Playing) = 2
  <2>1. FirstActorPreflop(d) = d /\ d # bb
    BY <1>1, <1>2 DEF FirstActorPreflop, SmallBlindSeat
  <2>2. ASSUME NEW q \in Playing PROVE q = d \/ q = bb
    <3>1. IsFiniteSet(Playing)
      BY <1>1, SeatSetCardinality
    <3>2. CASE q # d /\ q # bb
      <4>1. Cardinality(Playing \ {d}) = 1 /\ IsFiniteSet(Playing \ {d})
        BY <1>2, <3>1, FS_RemoveElement
      <4>2. PICK x : Playing \ {d} = {x}
        BY <4>1, FS_Singleton
      <4>. QED  BY <1>1, <2>1, <2>2, <3>2, <4>2
    <3>. QED  BY <3>2
  <2>. HIDE DEF bb
  <2>3. /\ Distance(bb, d) \in 1 .. N /\ Distance(bb, bb) = N
    BY <1>1, DistanceIsOrder
  <2>4. Distance(bb, d) <= Distance(bb, bb) /\ Distance(bb, d) <= Distance(bb, d)
    BY <2>3
  <2>. QED  BY <2>1, <2>2, <2>4 DEF bb
<1>3. CASE Cardinality(Playing) # 2
  <2>1. FirstActorPreflop(d) = NextIn(bb, Playing)
    BY <1>3 DEF FirstActorPreflop
  <2>. QED  BY <1>1, <2>1, NextInFindsSeat
<1>. QED  BY <1>2, <1>3
=============================================================================
