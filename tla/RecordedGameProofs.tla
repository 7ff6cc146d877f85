------------------------- MODULE RecordedGameProofs -------------------------
(***************************************************************************)
(* What the command-line table and its history database keep true for      *)
(* every number of players, every blind structure, every stack and every   *)
(* number of hands.                                                        *)
(*                                                                         *)
(* The table comes first.  TypeOK is inductive as it stands.  The two      *)
(* accounting rules follow from it and from what each operation does to    *)
(* the stacks, the bets and the pot.  The full board needs BoardInv, which *)
(* ties the number of cards to the phase while a hand is being played.     *)
(* That chips are lost only to folded bets, and the refinement of          *)
(* ChipLedger, need StandingInv and what SidePotsProofs proves of the      *)
(* payout.  Who is asked in a betting round, and that nobody is asked      *)
(* twice, need OrderInv: it follows the turn round the table.              *)
(*                                                                         *)
(* The database only adds to the steps of the table (RecordedIsLoop), so   *)
(* all of that holds of the recorded game.  RowsInv says that every row    *)
(* belongs to a hand its player was dealt in; TableInv that the rows of    *)
(* the hand in play name the players in it and those that have folded.     *)
(* The rest follows hand by hand: a hand that is over keeps its rows       *)
(* (PastIsKept), the one in play is followed to its showdown.              *)
(***************************************************************************)
EXTENDS RecordedGame, PokerGameProofs


USE TableAssumption, LoopAssumption DEF Seats

\* Both ways a player's turn ends are one action of the engine.
LEMMA TurnIsAnAction ==
  ASSUME TypeOK, PlayerTurn \/ ForcedFold
  PROVE  \E action : \E amount \in Int :
           ProcessPlayerAction(current_player, action, amount)
<1>1. current_player \in Seats /\ GameTypeOK
  BY DEF TypeOK, GameTypeOK
<1>2. CASE PlayerTurn
  <2>1. PICK d \in Decisions(current_player, RAISE_AMOUNTS) :
          ProcessPlayerAction(current_player, d.action, d.amount)
    BY <1>2 DEF PlayerTurn, Turn
  <2>2. RAISE_AMOUNTS \in SUBSET Int
    BY DEF LoopAssumption
  <2>3. d.amount \in Int
    BY <1>1, <2>2, DecisionAmountType
  <2>. QED  BY <2>1, <2>3
<1>3. CASE ForcedFold
  BY <1>3 DEF ForcedFold, Turn
<1>. QED  BY <1>2, <1>3

\* A step of the loop preserves the type of the engine's and the loop's state.
LEMMA TypeStep ==
  ASSUME TypeOK, [Next]_vars
  PROVE  TypeOK'
<1>1. GameTypeOK /\ pc \in {"between", "hand", "showdown", "over"}
      /\ stack \in [Seats -> Nat] /\ acted \in SUBSET Seats
      /\ chips \in [Seats -> Nat] /\ current_player \in Seats
  BY DEF TypeOK, LoopTypeOK, GameTypeOK
<1>2. CASE NextHand
  <2>1. GameTypeOK'
    BY <1>1, <1>2, StartNewHandType DEF NextHand
  <2>. QED  BY <1>1, <1>2, <2>1 DEF NextHand, TypeOK, LoopTypeOK
<1>3. CASE SkipInactive
  <2>1. GameTypeOK'
    BY <1>1, <1>3, AdvanceToNextPlayerType DEF SkipInactive
  <2>. QED  BY <1>1, <1>3, <2>1 DEF SkipInactive, TypeOK, LoopTypeOK, history_vars
<1>4. CASE PlayerTurn \/ ForcedFold
  <2>1. PICK action : \E amount \in Int :
          ProcessPlayerAction(current_player, action, amount)
    BY <1>4, TurnIsAnAction
  <2>2. PICK amount \in Int : ProcessPlayerAction(current_player, action, amount)
    BY <2>1
  <2>3. GameTypeOK'
    BY <1>1, <2>2, ProcessPlayerActionType
  <2>4. UNCHANGED <<pc, stack>> /\ Acted(current_player)
    BY <1>4 DEF PlayerTurn, ForcedFold, Turn
  <2>5. acted' \in SUBSET Seats
    BY <1>1, <2>4 DEF Acted
  <2>. QED  BY <1>1, <2>3, <2>4, <2>5 DEF TypeOK, LoopTypeOK
<1>5. CASE NextPhase
  <2>1. GameTypeOK'
    BY <1>1, <1>5, AdvanceToNextPhaseType DEF NextPhase
  <2>. QED  BY <1>1, <1>5, <2>1 DEF NextPhase, TypeOK, LoopTypeOK
<1>6. CASE Showdown
  <2>1. PICK strength \in Strengths : ConductShowdown(strength)
    BY <1>6 DEF Showdown, ShowdownOf
  <2>2. GameTypeOK'
    BY <1>1, <2>1, ConductShowdownType
  <2>. QED  BY <1>1, <1>6, <2>2 DEF Showdown, ShowdownOf, TypeOK, LoopTypeOK, history_vars
<1>7. CASE Quit
  <2>1. UNCHANGED game_vars
    BY <1>7 DEF Quit
  <2>2. GameTypeOK'
    BY <1>1, <2>1
       DEF GameTypeOK, game_vars, players_vars, round_vars, turn_vars, hand_vars
  <2>. QED  BY <1>1, <1>7, <2>2 DEF Quit, TypeOK, LoopTypeOK, history_vars
<1>8. CASE UNCHANGED vars
  <2>1. UNCHANGED game_vars
    BY <1>8 DEF vars
  <2>2. GameTypeOK'
    BY <1>1, <2>1
       DEF GameTypeOK, game_vars, players_vars, round_vars, turn_vars, hand_vars
  <2>. QED  BY <1>1, <1>8, <2>2 DEF vars, TypeOK, LoopTypeOK, history_vars
<1>. QED
  BY <1>2, <1>3, <1>4, <1>5, <1>6, <1>7, <1>8 DEF Next, HandStep, Over

\* Types: no sequence of hands leaves a stack, a bet or the pot negative, puts
\* the turn, the button or a blind beside the table, or loses the phase.
THEOREM TypeCorrect == Spec => []TypeOK
<1>1. Init => TypeOK
  <2>1. Init => GameTypeOK
    BY InitType DEF Init
  <2>2. Init => LoopTypeOK
    BY DEF Init, GameInit, LoopTypeOK
  <2>. QED  BY <2>1, <2>2 DEF TypeOK
<1>2. TypeOK /\ [Next]_vars => TypeOK'
  BY TypeStep
<1>. QED  BY <1>1, <1>2, PTL DEF Spec

-----------------------------------------------------------------------------
(* Where the chips are *)

\* A step of the loop preserves both accounting rules.
LEMMA AccountingStep ==
  ASSUME TypeOK, StackAccounting, PotIsSumOfBets, [Next]_vars
  PROVE  StackAccounting' /\ PotIsSumOfBets'
<1>1. GameTypeOK /\ current_player \in Seats
  BY DEF TypeOK, GameTypeOK
<1>2. CASE NextHand
  <2>1. stack' = chips
    BY <1>2 DEF NextHand
  <2>2. /\ \A p \in Seats : chips'[p] + total_bet'[p] = chips[p]
        /\ pot' = Sum(total_bet', N)
    BY <1>1, <1>2, BlindsAreAccounted DEF NextHand
  <2>. QED  BY <2>1, <2>2 DEF StackAccounting, PotIsSumOfBets
<1>3. CASE PlayerTurn \/ ForcedFold
  <2>1. PICK action : \E amount \in Int :
          ProcessPlayerAction(current_player, action, amount)
    BY <1>3, TurnIsAnAction
  <2>2. PICK amount \in Int : ProcessPlayerAction(current_player, action, amount)
    BY <2>1
  <2>3. /\ \A q \in Seats : chips'[q] + total_bet'[q] = chips[q] + total_bet[q]
        /\ pot' - Sum(total_bet', N) = pot - Sum(total_bet, N)
    BY <1>1, <2>2, ActionIsAccounted DEF ProcessPlayerAction
  <2>4. InHand /\ UNCHANGED <<pc, stack>>
    BY <1>3 DEF PlayerTurn, ForcedFold, Turn, InHand
  <2>5. StackAccounting'
    BY <2>3, <2>4 DEF StackAccounting
  <2>6. GameTypeOK'
    BY <1>1, <2>2, ProcessPlayerActionType
  <2>7. pot \in Nat /\ pot' \in Nat /\ pot = Sum(total_bet, N)
    BY <1>1, <2>4, <2>6 DEF GameTypeOK, PotIsSumOfBets
  <2>8. Sum(total_bet', N) \in Nat
    <3>1. \A k \in 0 .. N - 1 : total_bet'[k] \in Nat
      BY <2>6 DEF GameTypeOK
    <3>. QED  BY <3>1, SumType
  <2>9. pot' = Sum(total_bet', N)
    BY <2>3, <2>7, <2>8
  <2>. QED  BY <2>5, <2>9 DEF PotIsSumOfBets
<1>4. CASE InHand /\ UNCHANGED <<chips, total_bet, pot, stack>>
  BY <1>4 DEF StackAccounting, PotIsSumOfBets
<1>5. CASE ~InHand'
  BY <1>5 DEF StackAccounting, PotIsSumOfBets
<1>6. CASE SkipInactive
  BY <1>4, <1>6 DEF SkipInactive, AdvanceToNextPlayer, players_vars, history_vars, InHand
<1>7. CASE NextPhase
  BY <1>4, <1>7 DEF NextPhase, AdvanceToNextPhase, InHand
<1>8. CASE Showdown \/ Quit \/ Over
  BY <1>5, <1>8 DEF Showdown, ShowdownOf, Quit, Over, InHand, vars
<1>9. CASE UNCHANGED vars
  BY <1>4, <1>5, <1>9 DEF vars, game_vars, players_vars, history_vars, InHand
<1>. QED
  BY <1>2, <1>3, <1>6, <1>7, <1>8, <1>9 DEF Next, HandStep

\* Both accounting rules of docs/game_state_format.md, from the same steps.
LEMMA Accounting == Spec => [](StackAccounting /\ PotIsSumOfBets)
<1>1. Init => StackAccounting /\ PotIsSumOfBets
  BY DEF Init, StackAccounting, PotIsSumOfBets, InHand
<1>2. /\ TypeOK /\ StackAccounting /\ PotIsSumOfBets /\ [Next]_vars
      => StackAccounting' /\ PotIsSumOfBets'
  BY AccountingStep
<1>. QED  BY <1>1, <1>2, TypeCorrect, PTL DEF Spec

\* While a hand is played no chip of a player is created or lost: its stack
\* and its bets of the hand add up to what it had when the hand began.
THEOREM StacksAreAccounted == Spec => []StackAccounting
BY Accounting, PTL

\* While a hand is played the pot that process_player_action grows step by
\* step is the sum of the bets that Player.bet books.
THEOREM PotIsAccounted == Spec => []PotIsSumOfBets
BY Accounting, PTL

-----------------------------------------------------------------------------
(* The board *)

\* What is on the board in each betting phase, and that a hand reaches the
\* showdown early only when it is decided.
BoardInv ==
  /\ pc = "hand" =>
       /\ phase \in BettingPhases
       /\ phase = "river" => community_cards = 5
  /\ pc = "showdown" => HandIsDecided \/ community_cards = 5

\* A step of the loop preserves the tie between the phase and the board.
LEMMA BoardStep ==
  ASSUME TypeOK, BoardInv, [Next]_vars
  PROVE  BoardInv'
<1>1. CASE NextHand
  BY <1>1 DEF NextHand, StartNewHand, DealHand, BoardInv, BettingPhases
<1>2. CASE SkipInactive
  BY <1>2 DEF SkipInactive, AdvanceToNextPlayer, hand_vars, BoardInv
<1>3. CASE PlayerTurn \/ ForcedFold
  <2>1. pc = "hand" /\ pc' = pc /\ UNCHANGED hand_vars
    BY <1>3 DEF PlayerTurn, ForcedFold, Turn, ProcessPlayerAction, ApplyAction
  <2>. QED  BY <2>1 DEF hand_vars, BoardInv
<1>4. CASE NextPhase
  <2>1. phase \in BettingPhases /\ pc = "hand" /\ status' = status
    BY <1>4 DEF NextPhase, AdvanceToNextPhase, CanAdvancePhase
  <2>2. CASE /\ HandIsDecided \/ phase = "river"
             /\ phase' = "showdown"
             /\ UNCHANGED community_cards
    <3>1. pc' = "showdown"
      BY <1>4, <2>2 DEF NextPhase
    <3>2. HandIsDecided' = HandIsDecided
      BY <2>1 DEF HandIsDecided, Remaining
    <3>3. phase = "river" => community_cards = 5
      BY <2>1 DEF BoardInv
    <3>. QED  BY <2>2, <3>1, <3>2, <3>3 DEF BoardInv
  <2>3. CASE /\ phase # "river"
             /\ phase' = NextPhaseOf(phase)
             /\ community_cards' = DealtBy(phase')
    <3>1. phase' \in {"flop", "turn", "river"}
      BY <2>1, <2>3 DEF NextPhaseOf, BettingPhases
    <3>2. pc' = "hand"
      BY <1>4, <3>1 DEF NextPhase
    <3>3. phase' = "river" => community_cards' = 5
      BY <2>3 DEF DealtBy
    <3>. QED  BY <3>1, <3>2, <3>3 DEF BoardInv, BettingPhases
  <2>. QED  BY <1>4, <2>2, <2>3 DEF NextPhase, AdvanceToNextPhase
<1>5. CASE Showdown \/ Quit \/ Over
  BY <1>5 DEF Showdown, ShowdownOf, Quit, Over, BoardInv, vars
<1>6. CASE UNCHANGED vars
  <2>1. UNCHANGED <<pc, phase, community_cards, status>>
    BY <1>6 DEF vars, game_vars, players_vars, hand_vars
  <2>. QED  BY <2>1 DEF BoardInv, HandIsDecided, Remaining
<1>. QED
  BY <1>1, <1>2, <1>3, <1>4, <1>5, <1>6 DEF Next, HandStep

\* Two hands are only ever compared on a board of five cards, whatever rounds
\* were skipped because the players were all-in.
THEOREM BoardIsFull == Spec => []FullBoardAtShowdown
<1>1. Init => BoardInv
  BY DEF Init, BoardInv
<1>2. TypeOK /\ BoardInv /\ [Next]_vars => BoardInv'
  BY BoardStep
<1>3. BoardInv => FullBoardAtShowdown
  <2>1. Cardinality(Remaining) \in Nat
    BY ActiveSeats, SeatSetCardinality
  <2>. QED  BY <2>1 DEF BoardInv, FullBoardAtShowdown, HandIsDecided
<1>. QED  BY <1>1, <1>2, <1>3, TypeCorrect, PTL DEF Spec

-----------------------------------------------------------------------------
(* The ledger *)

\* A hand is never without a player, is not open to bets with one alone, and
\* nobody has a bet in a hand it was not dealt into.
StandingInv ==
  /\ InHand => /\ Remaining # {}
               /\ \A p \in Seats : status[p] = "busted" => total_bet[p] = 0
  /\ pc = "hand" /\ ~round_complete => Cardinality(Remaining) > 1

\* A step of the loop leaves somebody to win the hand.
LEMMA StandingStep ==
  ASSUME TypeOK, StandingInv, [Next]_vars
  PROVE  StandingInv'
<1>1. GameTypeOK /\ current_player \in Seats /\ status \in [Seats -> Statuses]
  BY DEF TypeOK, GameTypeOK
<1>2. CASE NextHand
  <2>1. /\ Remaining' = Playing /\ Cardinality(Playing) >= 2
        /\ \A p \in Seats : status'[p] = "busted" => total_bet'[p] = 0
    BY <1>1, <1>2, DealtIn DEF NextHand
  <2>2. Cardinality(Playing) \in Nat /\ Playing # {}
    <3>1. Playing \in SUBSET (0 .. N - 1) /\ N \in Nat
      BY DEF Playing
    <3>2. Cardinality(Playing) \in Nat /\ (Playing # {} <=> Cardinality(Playing) > 0)
      BY <3>1, SeatSetCardinality
    <3>. QED  BY <2>1, <3>2
  <2>. QED  BY <1>2, <2>1, <2>2 DEF NextHand, StandingInv
<1>3. CASE PlayerTurn \/ ForcedFold
  <2>1. PICK action : \E amount \in Int :
          ProcessPlayerAction(current_player, action, amount)
    BY <1>3, TurnIsAnAction
  <2>2. PICK amount \in Int : ProcessPlayerAction(current_player, action, amount)
    BY <2>1
  <2>3. ApplyAction(current_player, action, amount) /\ EndTurn
    BY <2>2 DEF ProcessPlayerAction
  <2>4. pc = "hand" /\ pc' = "hand" /\ InHand /\ ~round_complete
    BY <1>3 DEF PlayerTurn, ForcedFold, Turn, InHand
  <2>5. /\ Remaining \ {current_player} \in SUBSET Remaining'
        /\ \A q \in Seats : status'[q] = "busted" =>
             status[q] = "busted" /\ q # current_player
    BY <1>1, <2>3, ActionKeepsOthersIn
  <2>6. Remaining' # {}
    <3>1. Remaining \in SUBSET (0 .. N - 1) /\ N \in Nat
      BY ActiveSeats
    <3>2. IsFiniteSet(Remaining) /\ Cardinality(Remaining) > 1
      BY <2>4, <3>1, SeatSetCardinality DEF StandingInv
    <3>3. ~(Remaining \in SUBSET {current_player})
      <4>1. ASSUME Remaining \in SUBSET {current_player} PROVE FALSE
        <5>1. Remaining = {} \/ Remaining = {current_player}
          BY <4>1
        <5>2. Cardinality({}) = 0 /\ Cardinality({current_player}) = 1
          BY FS_EmptySet, FS_Singleton
        <5>. QED  BY <3>2, <5>1, <5>2
      <4>. QED  BY <4>1
    <3>. QED  BY <2>5, <3>3
  <2>7. \A q \in Seats : status'[q] = "busted" => total_bet'[q] = 0
    <3>1. \A q \in Seats : q # current_player => total_bet'[q] = total_bet[q]
      BY <1>1, <2>3, ActionIsOfOnePlayer
    <3>. QED  BY <2>4, <2>5, <3>1 DEF StandingInv
  <2>8. ~round_complete' => Cardinality(Remaining') > 1
    <3>1. Remaining' \in SUBSET (0 .. N - 1) /\ N \in Nat
      BY DEF Remaining
    <3>2. Cardinality(Remaining') \in Nat
      BY <3>1, SeatSetCardinality
    <3>3. Cardinality(Remaining') <= 1 => round_complete'
      BY <2>3 DEF EndTurn, RoundIsOver
    <3>. QED  BY <3>2, <3>3
  <2>. QED  BY <2>4, <2>6, <2>7, <2>8 DEF StandingInv
<1>4. CASE SkipInactive
  <2>1. UNCHANGED <<status, total_bet, pc>> /\ pc = "hand" /\ ~round_complete
    BY <1>4 DEF SkipInactive, AdvanceToNextPlayer, players_vars
  <2>2. Remaining' = Remaining /\ InHand' = InHand
    BY <2>1 DEF Remaining, InHand
  <2>. QED  BY <2>1, <2>2 DEF StandingInv
<1>5. CASE NextPhase
  <2>1. UNCHANGED <<status, total_bet>> /\ pc = "hand" /\ InHand
    BY <1>5 DEF NextPhase, AdvanceToNextPhase, InHand
  <2>2. Remaining' = Remaining
    BY <2>1 DEF Remaining
  <2>3. Cardinality(Remaining) \in Nat
    BY ActiveSeats, SeatSetCardinality
  <2>4. pc' = "hand" => Cardinality(Remaining) > 1
    BY <1>5, <2>3 DEF NextPhase, AdvanceToNextPhase, HandIsDecided
  <2>. QED  BY <2>1, <2>2, <2>4 DEF StandingInv
<1>6. CASE Showdown \/ Quit \/ Over
  BY <1>6 DEF Showdown, ShowdownOf, Quit, Over, StandingInv, InHand, vars
<1>7. CASE UNCHANGED vars
  <2>1. UNCHANGED <<pc, status, total_bet, round_complete>>
    BY <1>7 DEF vars, game_vars, players_vars, turn_vars
  <2>. QED  BY <2>1 DEF StandingInv, InHand, Remaining
<1>. QED
  BY <1>2, <1>3, <1>4, <1>5, <1>6, <1>7 DEF Next, HandStep

\* In every hand somebody is left to win it.
LEMMA Standing == Spec => []StandingInv
<1>1. Init => StandingInv
  BY DEF Init, StandingInv, InHand
<1>2. TypeOK /\ StandingInv /\ [Next]_vars => StandingInv'
  BY StandingStep
<1>. QED  BY <1>1, <1>2, TypeCorrect, PTL DEF Spec

\* What a showdown does to the stacks: nobody loses, and all together are paid
\* no more than the pot, which is what is missing from the stacks.
LEMMA ShowdownPays ==
  ASSUME TypeOK, StackAccounting, PotIsSumOfBets, StandingInv,
         pc = "showdown", NEW strength \in Strengths, ConductShowdown(strength)
  PROVE  /\ \A p \in Seats : chips[p] \in Nat /\ chips'[p] \in Nat /\ chips[p] <= chips'[p]
         /\ pot \in Nat /\ Sum(chips, N) \in Nat /\ Sum(chips', N) \in Nat
         /\ Sum(stack, N) = Sum(chips, N) + pot
         /\ Sum(chips', N) <= Sum(stack, N)
         /\ Sum(chips', N) # Sum(stack, N) =>
              \E p \in Seats \ Remaining : \A q \in Remaining : total_bet[q] < total_bet[p]
<1>. DEFINE paid == Payout(strength)
<1>1. /\ GameTypeOK /\ InHand /\ Remaining # {} /\ pot = Sum(total_bet, N)
      /\ strength \in [Seats -> Nat]
  BY DEF TypeOK, InHand, StandingInv, PotIsSumOfBets, Strengths
<1>2. /\ chips \in [Seats -> Nat] /\ total_bet \in [Seats -> Nat] /\ pot \in Nat
      /\ stack \in [Seats -> Nat]
  BY DEF TypeOK, GameTypeOK, LoopTypeOK
<1>3. /\ paid \in [Seats -> Nat]
      /\ Sum(paid, N) \in Nat /\ Sum(paid, N) <= pot
      /\ Sum(paid, N) # pot =>
           \E p \in Seats \ Remaining : \A q \in Remaining : total_bet[q] < total_bet[p]
  BY <1>1, PayoutIsBacked
<1>4. chips' = [p \in Seats |-> chips[p] + paid[p]]
  BY <1>1 DEF ConductShowdown
<1>. HIDE DEF paid
<1>5. \A k \in 0 .. N - 1 :
        /\ chips[k] \in Int /\ paid[k] \in Int /\ chips'[k] = chips[k] + paid[k]
        /\ chips[k] \in Nat /\ chips'[k] \in Nat /\ chips[k] <= chips'[k]
  <2>1. \A k \in 0 .. N - 1 :
          chips[k] \in Nat /\ paid[k] \in Nat /\ chips'[k] = chips[k] + paid[k]
    BY <1>2, <1>3, <1>4
  <2>. QED  BY <2>1
<1>6. N \in Nat /\ Sum(chips, N) \in Nat /\ Sum(chips', N) \in Nat
  BY <1>5, SumType
<1>7. Sum(chips', N) = Sum(chips, N) + Sum(paid, N)
  BY <1>5, <1>6, SumAdd
<1>8. Sum(stack, N) = Sum(chips, N) + Sum(total_bet, N)
  <2>1. \A k \in 0 .. N - 1 :
          chips[k] \in Int /\ total_bet[k] \in Int /\ stack[k] = chips[k] + total_bet[k]
    BY <1>1, <1>2 DEF StackAccounting
  <2>. QED  BY <1>6, <2>1, SumAdd
<1>9. Sum(stack, N) = Sum(chips, N) + pot
  BY <1>1, <1>8
<1>. QED  BY <1>2, <1>3, <1>5, <1>6, <1>7, <1>9, SMTT(30)

\* Between hands no chip has appeared, and chips are missing only when a
\* player that folded had bet more than everybody at the showdown.
THEOREM LostChipsAreExplained == Spec => []LostChipsWereFolded
<1>1. Init => LostChipsWereFolded
  BY DEF Init, GameInit, LostChipsWereFolded
<1>2. /\ TypeOK /\ StackAccounting /\ PotIsSumOfBets /\ StandingInv
      /\ LostChipsWereFolded /\ [Next]_vars
      => LostChipsWereFolded'
  <2>. SUFFICES ASSUME TypeOK, StackAccounting, PotIsSumOfBets, StandingInv,
                       LostChipsWereFolded, [Next]_vars
                PROVE  LostChipsWereFolded'
    OBVIOUS
  <2>1. CASE Showdown
    <3>1. PICK strength \in Strengths : ShowdownOf(strength)
      BY <2>1 DEF Showdown
    <3>2. /\ pc = "showdown" /\ ConductShowdown(strength)
          /\ UNCHANGED <<stack, status, total_bet>>
      BY <3>1 DEF ShowdownOf, ConductShowdown, history_vars
    <3>3. /\ Sum(chips', N) \in Nat /\ Sum(chips, N) \in Nat /\ pot \in Nat
          /\ Sum(stack, N) = Sum(chips, N) + pot
          /\ Sum(chips', N) <= Sum(stack, N)
          /\ Sum(chips', N) # Sum(stack, N) =>
               \E p \in Seats \ Remaining : \A q \in Remaining : total_bet[q] < total_bet[p]
      BY <3>2, ShowdownPays
    <3>4. ASSUME Sum(chips', N) # Sum(stack', N)
          PROVE  /\ Sum(chips', N) < Sum(stack', N)
                 /\ \E p \in Seats :
                      /\ status'[p] = "folded"
                      /\ \A q \in Remaining' : total_bet'[q] < total_bet'[p]
      <4>1. Remaining' = Remaining /\ stack' = stack
        BY <3>2 DEF Remaining
      <4>2. PICK p \in Seats \ Remaining : \A q \in Remaining : total_bet[q] < total_bet[p]
        BY <3>3, <3>4, <4>1
      <4>3. status[p] = "folded"
        <5>1. /\ total_bet \in [Seats -> Nat] /\ status[p] \in Statuses
              /\ Remaining # {} /\ Remaining \in SUBSET Seats
              /\ status[p] = "busted" => total_bet[p] = 0
          BY <3>2, ActiveSeats DEF TypeOK, GameTypeOK, StandingInv, InHand
        <5>2. PICK q \in Remaining : total_bet[q] < total_bet[p]
          BY <4>2, <5>1
        <5>3. total_bet[p] # 0
          BY <5>1, <5>2
        <5>. QED  BY <5>1, <5>3 DEF Remaining, Statuses
      <4>4. Sum(chips', N) < Sum(stack', N)
        BY <3>3, <3>4, <4>1
      <4>. QED  BY <3>2, <4>1, <4>2, <4>3, <4>4
    <3>. QED  BY <3>4 DEF LostChipsWereFolded
  <2>2. CASE NextHand \/ HandStep \/ Quit \/ Over
    BY <2>2 DEF NextHand, HandStep, SkipInactive, PlayerTurn, ForcedFold, Turn, NextPhase,
                Quit, Over, vars, LostChipsWereFolded
  <2>3. CASE UNCHANGED vars
    <3>1. UNCHANGED <<pc, hand_number, chips, stack, status, total_bet>>
      BY <2>3 DEF vars, game_vars, players_vars, hand_vars, history_vars
    <3>. QED  BY <3>1 DEF LostChipsWereFolded, Remaining
  <2>. QED  BY <2>1, <2>2, <2>3 DEF Next
<1>. QED  BY <1>1, <1>2, TypeCorrect, Accounting, Standing, PTL DEF Spec

\* The ledger adds up chips as the engine does.
LEMMA LedgerSum ==
  ASSUME NEW f, NEW n
  PROVE  Ledger!Sum(f, n) = Sum(f, n)
BY DEF Ledger!Sum, Sum

\* One step of the loop is one step of the ledger, or none: a hand opens with
\* the blinds, a turn wagers, a showdown settles, the rest moves no chip.
LEMMA LedgerStep ==
  ASSUME TypeOK, TypeOK', StackAccounting, StackAccounting', PotIsSumOfBets,
         PotIsSumOfBets', StandingInv, [Next]_vars
  PROVE  [Ledger!LedgerNext]_(Ledger!ledger_vars)
<1>1. /\ GameTypeOK /\ GameTypeOK' /\ current_player \in Seats
      /\ chips \in [Seats -> Nat] /\ chips' \in [Seats -> Nat]
      /\ total_bet \in [Seats -> Nat] /\ total_bet' \in [Seats -> Nat]
      /\ pot \in Nat /\ pot' \in Nat /\ stack \in [Seats -> Nat]
  BY DEF TypeOK, GameTypeOK, LoopTypeOK
<1>2. CASE NextHand
  <2>1. ~InHand /\ InHand' /\ stack' = chips
    BY <1>2 DEF NextHand, InHand
  <2>2. \A p \in Seats : chips'[p] + total_bet'[p] = chips[p]
    BY <2>1 DEF StackAccounting
  <2>3. \A p \in Seats : chips'[p] \in 0 .. chips[p]
    <3>1. \A p \in Seats : chips'[p] \in Nat /\ total_bet'[p] \in Nat /\ chips[p] \in Nat
      BY <1>1
    <3>. QED  BY <2>2, <3>1
  <2>4. pot' = Sum(chips, N) - Sum(chips', N)
    <3>1. \A k \in 0 .. N - 1 :
            chips'[k] \in Int /\ total_bet'[k] \in Int /\ chips[k] = chips'[k] + total_bet'[k]
      BY <1>1, <2>2
    <3>2. /\ Sum(chips', N) \in Int /\ Sum(total_bet', N) \in Int
          /\ Sum(chips, N) = Sum(chips', N) + Sum(total_bet', N)
      BY <3>1, SumAdd
    <3>. QED  BY <2>1, <3>2 DEF PotIsSumOfBets
  <2>. QED  BY <2>1, <2>3, <2>4, LedgerSum DEF Ledger!LedgerNext, Ledger!Open, Ledger!Stacks
<1>3. CASE PlayerTurn \/ ForcedFold
  <2>0. PICK p : p = current_player
    OBVIOUS
  <2>8. p \in Seats
    BY <1>1, <2>0
  <2>1. PICK action : \E amount \in Int : ProcessPlayerAction(p, action, amount)
    BY <1>3, <2>0, TurnIsAnAction
  <2>2. PICK amount \in Int : ProcessPlayerAction(p, action, amount)
    BY <2>1
  <2>3. ApplyAction(p, action, amount)
    BY <2>2 DEF ProcessPlayerAction
  <2>4. InHand /\ InHand' /\ UNCHANGED stack
    BY <1>3 DEF PlayerTurn, ForcedFold, Turn, InHand
  <2>5. \A q \in Seats : q # p => chips'[q] = chips[q] /\ total_bet'[q] = total_bet[q]
    BY <1>1, <2>3, <2>8, ActionIsOfOnePlayer
  <2>6. /\ chips'[p] + total_bet'[p] = chips[p] + total_bet[p]
        /\ pot' - Sum(total_bet', N) = pot - Sum(total_bet, N)
    BY <1>1, <2>3, <2>8, ActionIsAccounted
  <2>7. total_bet'[p] >= total_bet[p]
    BY <1>1, <2>3, <2>8, ActionOnlyAdds
  <2>9. chips'[p] \in 0 .. chips[p]
    <3>1. /\ chips'[p] \in Nat /\ chips[p] \in Nat
          /\ total_bet'[p] \in Nat /\ total_bet[p] \in Nat
      BY <1>1, <2>8
    <3>. QED  BY <2>6, <2>7, <3>1
  <2>10. chips' = [chips EXCEPT ![p] = chips'[p]]
    BY <1>1, <2>5, <2>8
  <2>11. pot' = pot + (chips[p] - chips'[p])
    <3>1. /\ Sum(total_bet, N) \in Int
          /\ Sum(total_bet', N) = Sum(total_bet, N) + (total_bet'[p] - total_bet[p])
      <4>1. p \in 0 .. N - 1 /\ \A k \in 0 .. N - 1 :
              total_bet[k] \in Int /\ total_bet'[k] \in Int
        BY <1>1, <2>8
      <4>2. \A k \in 0 .. N - 1 : k # p => total_bet'[k] = total_bet[k]
        BY <2>5
      <4>. QED  BY <4>1, <4>2, SumUpdate
    <3>2. /\ chips'[p] \in Nat /\ chips[p] \in Nat
          /\ total_bet'[p] \in Nat /\ total_bet[p] \in Nat
      BY <1>1, <2>8
    <3>3. pot = Sum(total_bet, N) /\ pot' = Sum(total_bet', N)
      BY <2>4 DEF PotIsSumOfBets
    <3>. QED  BY <2>6, <3>1, <3>2, <3>3
  <2>. QED  BY <2>4, <2>8, <2>9, <2>10, <2>11
            DEF Ledger!LedgerNext, Ledger!Wager, Ledger!Stacks
<1>4. CASE Showdown
  <2>1. PICK strength \in Strengths : ShowdownOf(strength)
    BY <1>4 DEF Showdown
  <2>2. /\ pc = "showdown" /\ ConductShowdown(strength)
        /\ InHand /\ ~InHand'
    BY <2>1 DEF ShowdownOf, InHand
  <2>3. /\ \A p \in Seats : chips[p] \in Nat /\ chips'[p] \in Nat /\ chips[p] <= chips'[p]
        /\ pot \in Nat /\ Sum(chips, N) \in Nat /\ Sum(chips', N) \in Nat
        /\ Sum(stack, N) = Sum(chips, N) + pot
        /\ Sum(chips', N) <= Sum(stack, N)
    BY <2>2, ShowdownPays
  <2>4. \A p \in Seats : chips'[p] >= chips[p]
    BY <2>3
  <2>5. Sum(chips', N) - Sum(chips, N) <= pot
    BY <2>3
  <2>6. /\ (IF InHand THEN pot ELSE 0) = pot
        /\ (IF InHand THEN pot ELSE 0)' = 0
    BY <2>2
  <2>7. Ledger!Settle
    BY <2>2, <2>4, <2>5, <2>6, LedgerSum DEF Ledger!Settle, Ledger!Stacks
  <2>. QED  BY <2>7 DEF Ledger!LedgerNext
<1>5. CASE SkipInactive \/ NextPhase
  <2>1. UNCHANGED <<chips, pot>> /\ InHand /\ InHand'
    BY <1>5 DEF SkipInactive, AdvanceToNextPlayer, NextPhase, AdvanceToNextPhase,
                players_vars, InHand
  <2>. QED  BY <2>1 DEF Ledger!ledger_vars
<1>6. CASE Quit \/ Over \/ UNCHANGED vars
  <2>1. UNCHANGED <<chips, pot>> /\ InHand' = InHand
    BY <1>6 DEF Quit, Over, vars, game_vars, players_vars, InHand
  <2>. QED  BY <2>1 DEF Ledger!ledger_vars
<1>. QED
  BY <1>2, <1>3, <1>4, <1>5, <1>6 DEF Next, HandStep

\* The table implements the chip ledger: whatever is played, chips move only
\* as stakes, wagers and settlements, and none is ever created.
THEOREM LoopImplementsLedger == Spec => ImplementsLedger
<1>1. Init => Ledger!LedgerInit
  BY DEF Init, GameInit, InHand, Ledger!LedgerInit, Ledger!Stacks
<1>2. /\ TypeOK /\ TypeOK' /\ StackAccounting /\ StackAccounting' /\ PotIsSumOfBets
      /\ PotIsSumOfBets' /\ StandingInv /\ [Next]_vars
      => [Ledger!LedgerNext]_(Ledger!ledger_vars)
  BY LedgerStep
<1>. QED
  BY <1>1, <1>2, TypeCorrect, Accounting, Standing, PTL
     DEF Spec, ImplementsLedger, Ledger!LedgerSpec

\* Whatever the state of the hand, the engine accepts every action other than
\* a raise that it offers the player whose turn it is.
THEOREM OffersAreHonoured == Spec => []OfferedIsAccepted
<1>1. TypeOK => OfferedIsAccepted
  <2>. SUFFICES ASSUME TypeOK, NEW o \in AvailableActions(current_player),
                       o.action # "raise"
                PROVE  Accepts(current_player, o.action, o.amount)
    BY DEF OfferedIsAccepted
  <2>. DEFINE p == current_player
  <2>1. /\ chips[p] \in Nat /\ player_bet[p] \in Nat /\ current_bet \in Nat
    BY DEF TypeOK, GameTypeOK
  <2>2. status[p] = "active"
    BY DEF AvailableActions
  <2>3. \/ o.action = "fold"
        \/ o.action = "check" /\ ToCall(p) = 0
        \/ o.action = "call" /\ chips[p] >= ToCall(p)
        \/ o.action = "all_in" /\ chips[p] > 0
    BY <2>2 DEF AvailableActions
  <2>4. ToCall(p) = 0 => CanCheck(p)
    BY <2>1 DEF ToCall, Owed, CanCheck
  <2>5. chips[p] >= ToCall(p) => CanCall(p)
    BY <2>1 DEF ToCall, Owed, CanCall
  <2>. QED  BY <2>2, <2>3, <2>4, <2>5 DEF Accepts, CanAllIn
<1>. QED  BY <1>1, TypeCorrect, PTL

\* A betting round only closes when every player that could still bet has at
\* least matched the bet, or when a single player is left in the hand; it
\* stays so until the next round begins.
THEOREM RoundsCloseSettled == Spec => []ClosedRoundIsSettled
<1>1. Init => ClosedRoundIsSettled
  BY DEF Init, ClosedRoundIsSettled
<1>2. TypeOK /\ TypeOK' /\ ClosedRoundIsSettled /\ [Next]_vars => ClosedRoundIsSettled'
  <2>. SUFFICES ASSUME TypeOK, TypeOK', ClosedRoundIsSettled, [Next]_vars
                PROVE  ClosedRoundIsSettled'
    OBVIOUS
  <2>1. CASE PlayerTurn \/ ForcedFold
    <3>1. ~round_complete /\ EndTurn
      BY <2>1 DEF PlayerTurn, ForcedFold, Turn, ProcessPlayerAction
    <3>2. round_complete' => Active' = {} \/ RoundIsOver'
      BY <3>1 DEF EndTurn
    <3>3. \A q \in Active' : player_bet'[q] \in Nat /\ current_bet' \in Nat
      BY DEF TypeOK, GameTypeOK, Active
    <3>4. Cardinality(Remaining') > 1 => ~(Cardinality(Remaining') <= 1)
      <4>1. Remaining' \in SUBSET (0 .. N - 1)
        BY DEF Remaining
      <4>2. Cardinality(Remaining') \in Nat
        BY <4>1, SeatSetCardinality
      <4>. QED  BY <4>2
    <3>. QED  BY <3>2, <3>3, <3>4 DEF RoundIsOver, SingleActiveDone, ClosedRoundIsSettled
  <2>2. CASE SkipInactive
    BY <2>2 DEF SkipInactive, AdvanceToNextPlayer, ClosedRoundIsSettled, players_vars
  <2>3. CASE NextPhase
    <3>1. pc' = "hand" => phase' # "showdown"
      BY <2>3 DEF NextPhase
    <3>2. pc' = "hand" => round_complete' = (Active = {}) /\ UNCHANGED status
      BY <2>3, <3>1 DEF NextPhase, AdvanceToNextPhase, StartNewBettingRound
    <3>. QED  BY <3>2 DEF ClosedRoundIsSettled, Active
  <2>4. CASE NextHand
    BY <2>4 DEF NextHand, StartNewHand, ClosedRoundIsSettled
  <2>5. CASE Showdown \/ Quit \/ Over
    BY <2>5 DEF Showdown, ShowdownOf, Quit, Over, ClosedRoundIsSettled, vars
  <2>6. CASE UNCHANGED vars
    <3>1. UNCHANGED <<pc, status, player_bet, current_bet, round_complete>>
      BY <2>6 DEF vars, game_vars, players_vars, round_vars, turn_vars
    <3>. QED  BY <3>1 DEF ClosedRoundIsSettled, Active, Remaining
  <2>. QED  BY <2>1, <2>2, <2>3, <2>4, <2>5, <2>6 DEF Next, HandStep
<1>. QED  BY <1>1, <1>2, TypeCorrect, PTL DEF Spec

-----------------------------------------------------------------------------
(* The bet to match.  _parse_llm_response passes the amount of a raise that  *)
(* was not offered on as it is, and the engine takes it: a negative amount   *)
(* lowers current_bet below a bet already made.  The theorem is for players  *)
(* that never name one, at a table whose big blind is not the smaller one.   *)

\* A turn is an action of the engine whose raise, if it is one, is at least
\* the least amount a player may name.
LEMMA TurnIsNamed ==
  ASSUME TypeOK, NEW b \in 0 .. 1, \A m \in RAISE_AMOUNTS : m >= b,
         PlayerTurn \/ ForcedFold
  PROVE  \E action : \E amount \in Int :
           /\ action = "raise" => amount >= b
           /\ ProcessPlayerAction(current_player, action, amount)
<1>1. current_player \in Seats /\ GameTypeOK
  BY DEF TypeOK, GameTypeOK
<1>2. CASE PlayerTurn
  <2>1. PICK d \in Decisions(current_player, RAISE_AMOUNTS) :
          ProcessPlayerAction(current_player, d.action, d.amount)
    BY <1>2 DEF PlayerTurn, Turn
  <2>2. RAISE_AMOUNTS \in SUBSET Int
    BY DEF LoopAssumption
  <2>3. d.amount \in Int /\ (d.action = "raise" => d.amount >= b)
    BY <1>1, <2>2, DecisionAmountType, RaiseIsNamed
  <2>. QED  BY <2>1, <2>3
<1>3. CASE ForcedFold
  BY <1>3 DEF ForcedFold, Turn
<1>. QED  BY <1>2, <1>3

\* One step of the loop leaves current_bet the highest bet of the round.
LEMMA HighestStep ==
  ASSUME SMALL_BLIND <= BIG_BLIND, \A m \in RAISE_AMOUNTS : m >= 0,
         TypeOK, TypeOK', CurrentBetIsHighest, [Next]_vars
  PROVE  CurrentBetIsHighest'
<1>. DEFINE Short == phase = "preflop" /\ stack[big_blind_seat] < SMALL_BLIND
<1>1. /\ pc = "hand" => Short \/ Highest
      /\ GameTypeOK /\ current_player \in Seats
  BY DEF CurrentBetIsHighest, Highest, TypeOK, GameTypeOK
<1>2. SUFFICES pc' = "hand" => Short' \/ Highest'
  BY DEF CurrentBetIsHighest, Highest
<1>3. CASE NextHand
  <2>1. StartNewHand /\ stack' = chips /\ phase' = "preflop"
    BY <1>3 DEF NextHand, StartNewHand, DealHand
  <2>2. chips[big_blind_seat'] < SMALL_BLIND => Short'
    BY <2>1
  <2>3. chips[big_blind_seat'] >= SMALL_BLIND => Highest'
    BY <1>1, <2>1, BlindsAreHighest
  <2>4. chips[big_blind_seat'] \in Nat
    <3>1. Cardinality(Playing) >= 2 /\ big_blind_seat' = BigBlindSeat(MoveDealerButton)
      BY <2>1 DEF StartNewHand, DealHand
    <3>2. big_blind_seat' \in Seats
      BY <1>1, <3>1, BlindSeats DEF Playing
    <3>. QED  BY <1>1, <3>2 DEF GameTypeOK
  <2>. QED  BY <2>2, <2>3, <2>4
<1>4. CASE PlayerTurn \/ ForcedFold
  <2>1. PICK action : \E amount \in Int :
          /\ action = "raise" => amount >= 0
          /\ ProcessPlayerAction(current_player, action, amount)
    BY <1>4, TurnIsNamed
  <2>2. PICK amount \in Int :
          /\ action = "raise" => amount >= 0
          /\ ProcessPlayerAction(current_player, action, amount)
    BY <2>1
  <2>3. ApplyAction(current_player, action, amount)
    BY <2>2 DEF ProcessPlayerAction
  <2>4. pc = "hand" /\ UNCHANGED <<stack, big_blind_seat, phase>>
    BY <1>4, <2>3 DEF PlayerTurn, ForcedFold, Turn, ApplyAction, hand_vars
  <2>5. Highest => Highest'
    BY <1>1, <2>2, <2>3, ActionKeepsHighest
  <2>. QED  BY <1>1, <2>4, <2>5
<1>5. CASE SkipInactive
  <2>1. pc = "hand" /\ UNCHANGED <<stack, big_blind_seat, phase, player_bet, current_bet>>
    BY <1>5 DEF SkipInactive, AdvanceToNextPlayer, hand_vars, history_vars,
                players_vars, round_vars
  <2>. QED  BY <1>1, <2>1 DEF Highest
<1>6. CASE NextPhase
  <2>1. pc' = "hand" => player_bet' = [p \in Seats |-> 0] /\ current_bet' = 0
    BY <1>6 DEF NextPhase, AdvanceToNextPhase, StartNewBettingRound
  <2>. QED  BY <1>1, <2>1 DEF Highest
<1>7. CASE Showdown \/ Quit \/ Over
  BY <1>7 DEF Showdown, ShowdownOf, Quit, Over, vars
<1>8. CASE UNCHANGED vars
  <2>1. UNCHANGED <<pc, stack, big_blind_seat, phase, player_bet, current_bet>>
    BY <1>8 DEF vars, game_vars, players_vars, round_vars, hand_vars, history_vars
  <2>. QED  BY <1>1, <2>1 DEF Highest
<1>. QED  BY <1>3, <1>4, <1>5, <1>6, <1>7, <1>8 DEF Next, HandStep

\* Rule 3 of the state format: what a player is told to call is computed from
\* the highest bet, in every round of every hand.
THEOREM BetToMatchIsHighest ==
  ASSUME SMALL_BLIND <= BIG_BLIND, \A m \in RAISE_AMOUNTS : m >= 0
  PROVE  Spec => []CurrentBetIsHighest
<1>1. Init => CurrentBetIsHighest
  BY DEF Init, CurrentBetIsHighest
<1>2. TypeOK /\ TypeOK' /\ CurrentBetIsHighest /\ [Next]_vars => CurrentBetIsHighest'
  BY HighestStep
<1>. QED  BY <1>1, <1>2, TypeCorrect, PTL DEF Spec

-----------------------------------------------------------------------------
(* Whose turn it is.  The inductive invariant follows the turn round the     *)
(* table: seen from the last player that really raised (from the big blind   *)
(* or the dealer when nobody has), the players before the current one have   *)
(* acted and matched, those beyond it are still to act.  A raise of nothing  *)
(* makes its player last_raiser but leaves this origin where it was.         *)

\* The big blind is all-in for less than the small blind.
Short == phase = "preflop" /\ stack[big_blind_seat] < SMALL_BLIND

\* Somebody has bet or raised in this round; the blinds do not count.
Raised == last_raiser # NoSeat /\ (phase = "preflop" => has_bet)

\* The seat a round that is not raised is counted from.
Origin == IF last_raiser = NoSeat THEN dealer ELSE last_raiser

RoundInv ==
  /\ phase = "preflop" => /\ big_blind_seat # NoSeat /\ last_raiser # NoSeat
                          /\ has_bet \/ last_raiser = big_blind_seat
  /\ phase # "preflop" => /\ last_raiser # NoSeat => has_bet
                          /\ last_raiser = NoSeat => current_bet = 0

Opened ==
  /\ current_bet >= OpeningBet
  /\ ~Raised => current_bet = OpeningBet

Matched == \A q \in Active : q \in acted => player_bet[q] = current_bet

Behind ==
  /\ Raised /\ ~RaisedByNothing => \A q \in Active : q \notin acted => player_bet[q] < current_bet
  /\ phase = "preflop" /\ stack[big_blind_seat] > SMALL_BLIND =>
       \A q \in Active : q \notin acted /\ q # big_blind_seat => player_bet[q] < current_bet

\* Counted from o; a player of E need not act again.
OrderFrom(o, E) ==
  /\ \A q \in Active : q \in acted <=>
       Distance(o, q) < Distance(o, current_player) \/ q \in E
  /\ current_player \in Active => current_player \notin acted
  /\ current_player \notin Active =>
       \A q \in Active : /\ q \notin acted
                         /\ Distance(o, current_player) < Distance(o, q)

InOrder ==
  \E o \in Seats : \E E \in SUBSET {o} :
    /\ ~Raised => o = Origin /\ E = {}
    /\ OrderFrom(o, E)

OrderInv ==
  pc = "hand" =>
    /\ RoundInv
    /\ ~Short => /\ Opened /\ Matched /\ Behind
                 /\ ~round_complete => InOrder

\* What a turn does to the round: it raises the bet, or it leaves the bet as it
\* is, even when it is a raise.
LEMMA TurnEffect ==
  ASSUME TypeOK, Highest, \A m \in RAISE_AMOUNTS : m >= 0,
         PlayerTurn \/ ForcedFold, NEW p, p = current_player
  PROVE  /\ p \in Active /\ Active' \subseteq Active /\ Active \subseteq Active' \cup {p}
         /\ \A q \in Seats : q # p => player_bet'[q] = player_bet[q]
         /\ \/ /\ last_raiser' = p /\ has_bet' /\ acted' = {p}
               /\ current_bet' > current_bet /\ player_bet'[p] = current_bet'
            \/ /\ current_bet' = current_bet /\ acted' = acted \cup {p}
               /\ \/ last_raiser' = p /\ has_bet'
                  \/ UNCHANGED <<last_raiser, has_bet>>
               /\ p \in Active' => player_bet'[p] = current_bet
               /\ UNCHANGED last_raiser /\ p \notin Active' /\ current_bet = 0 =>
                    last_raiser = p \/ status'[p] = "folded"
<1>1. GameTypeOK /\ p \in Seats /\ status \in [Seats -> Statuses] /\ current_bet \in Nat
  BY DEF TypeOK, GameTypeOK
<1>2. PICK action : \E amount \in Int :
        /\ action = "raise" => amount >= 0
        /\ ProcessPlayerAction(current_player, action, amount)
  BY TurnIsNamed
<1>3. PICK amount \in Int :
        /\ action = "raise" => amount >= 0
        /\ ProcessPlayerAction(current_player, action, amount)
  BY <1>2
<1>4. ApplyAction(p, action, amount) /\ Acted(p)
  BY <1>3 DEF ProcessPlayerAction, PlayerTurn, ForcedFold, Turn
<1>5. /\ status[p] = "active"
      /\ \/ status' = status
         \/ status' = [status EXCEPT ![p] = "all_in"]
         \/ status' = [status EXCEPT ![p] = "folded"]
      /\ \A q \in Seats : q # p => player_bet'[q] = player_bet[q]
  BY <1>1, <1>4, ActionIsOfOnePlayer
<1>6. p \in Active /\ Active' \subseteq Active /\ Active \subseteq Active' \cup {p}
  BY <1>1, <1>5 DEF Active
<1>7. \/ /\ UNCHANGED round_vars
         /\ action = "fold" => status'[p] = "folded"
         /\ action # "fold" => player_bet'[p] = current_bet \/ status'[p] = "all_in"
         /\ current_bet = 0 => status'[p] \in {"active", "folded"}
      \/ /\ last_raiser' = p /\ has_bet'
         /\ player_bet'[p] = current_bet'
         /\ action = "raise" => current_bet' = current_bet + amount
         /\ action # "raise" => current_bet' > current_bet
  BY <1>1, <1>3, <1>4, ActionKeepsHighest
<1>8. CASE /\ UNCHANGED round_vars
           /\ action = "fold" => status'[p] = "folded"
           /\ action # "fold" => player_bet'[p] = current_bet \/ status'[p] = "all_in"
           /\ current_bet = 0 => status'[p] \in {"active", "folded"}
  <2>1. UNCHANGED <<current_bet, last_raiser, has_bet>> /\ acted' = acted \cup {p}
    BY <1>1, <1>4, <1>8 DEF round_vars, Acted
  <2>2. p \in Active' => player_bet'[p] = current_bet
    BY <1>1, <1>8 DEF Active
  <2>3. p \notin Active' /\ current_bet = 0 => status'[p] = "folded"
    BY <1>1, <1>8 DEF Active
  <2>. QED  BY <1>5, <1>6, <2>1, <2>2, <2>3
<1>9. CASE /\ last_raiser' = p /\ has_bet'
           /\ player_bet'[p] = current_bet'
           /\ action = "raise" => current_bet' = current_bet + amount
           /\ action # "raise" => current_bet' > current_bet
  <2>1. current_bet' > current_bet \/ current_bet' = current_bet
    BY <1>1, <1>3, <1>9
  <2>2. CASE current_bet' > current_bet
    <3>1. acted' = {p}
      BY <1>4, <2>2 DEF Acted
    <3>. QED  BY <1>5, <1>6, <1>9, <2>2, <3>1
  <2>3. CASE current_bet' = current_bet
    <3>1. acted' = acted \cup {p}
      BY <1>1, <1>4, <2>3 DEF Acted
    <3>2. UNCHANGED last_raiser => last_raiser = p
      BY <1>9
    <3>3. player_bet'[p] = current_bet
      BY <1>9, <2>3
    <3>. QED  BY <1>5, <1>6, <1>9, <2>3, <3>1, <3>2, <3>3
  <2>. QED  BY <2>1, <2>2, <2>3
<1>. QED  BY <1>7, <1>8, <1>9

\* What a turn leaves alone, and how it ends.
LEMMA TurnEnds ==
  ASSUME TypeOK, PlayerTurn \/ ForcedFold, NEW p, p = current_player
  PROVE  /\ pc = "hand" /\ pc' = "hand" /\ ~round_complete
         /\ UNCHANGED <<stack, big_blind_seat, phase, dealer>>
         /\ Active' # {} => current_player' = NextIn(p, Active')
         /\ round_complete' => Active' = {} \/ RoundIsOver'
         /\ Active' = {} \/ RoundIsOver' => round_complete'
<1>1. PICK action : \E amount \in Int : ProcessPlayerAction(p, action, amount)
  BY TurnIsAnAction
<1>2. EndTurn /\ UNCHANGED hand_vars
  BY <1>1 DEF ProcessPlayerAction, ApplyAction
<1>3. pc = "hand" /\ pc' = "hand" /\ ~round_complete /\ UNCHANGED stack
  BY DEF PlayerTurn, ForcedFold, Turn
<1>. QED  BY <1>2, <1>3 DEF EndTurn, MoveToNextPlayer, hand_vars

\* More than one player can act: without any one of them there is another.
LEMMA AnotherOne ==
  ASSUME NEW S \in SUBSET Seats, NEW x, Cardinality(S) > 1
  PROVE  S \ {x} # {}
<1>1. SUFFICES ASSUME S \ {x} = {} PROVE FALSE
  OBVIOUS
<1>2. S = {} \/ S = {x}
  BY <1>1
<1>3. Cardinality({}) = 0 /\ Cardinality({x}) = 1
  BY FS_EmptySet, FS_Singleton
<1>4. CASE S = {}
  BY <1>3, <1>4
<1>5. CASE S = {x}
  BY <1>3, <1>5
<1>. QED  BY <1>2, <1>4, <1>5

\* When all that can act have acted and matched, and the turn is back at the
\* first of them or somebody has raised, the betting round is over.
LEMMA AllActedCloses ==
  ASSUME TypeOK', RoundInv', Matched', Active' # {}, Active' \subseteq acted',
         \/ Raised'
         \/ /\ current_player' \in Active'
            /\ \A q \in Active' :
                 Distance(Origin', current_player') <= Distance(Origin', q)
  PROVE  RoundIsOver'
<1>1. /\ Active' \in SUBSET Seats /\ dealer' \in Seats /\ current_bet' \in Nat
      /\ last_raiser' \in Seats \cup {NoSeat} /\ Origin' \in Seats
      /\ has_bet' \in BOOLEAN
  BY DEF TypeOK, GameTypeOK, Active, Origin
<1>2. \A q \in Active' : player_bet'[q] = current_bet'
  BY DEF Matched
<1>3. Cardinality(Active') \in Nat /\ Cardinality(Active') > 0
  BY <1>1, SeatSetCardinality
<1>4. CASE Cardinality(Active') = 1
  BY <1>1, <1>2, <1>4 DEF RoundIsOver, SingleActiveDone
<1>5. CASE Cardinality(Active') > 1
  <2>1. Active' \ {Origin'} # {}
    BY <1>1, <1>5, AnotherOne
  <2>2. CASE Raised'
    <3>1. last_raiser' # NoSeat /\ has_bet'
      BY <2>2 DEF Raised, RoundInv
    <3>. QED  BY <1>2, <1>5, <3>1 DEF RoundIsOver, ActionIsClosed
  <2>3. CASE ~Raised'
    <3>1. /\ current_player' \in Active'
          /\ NextIn(Origin', Active' \ {Origin'}) = current_player'
      BY <1>1, <2>1, <2>3, NearestIsNext
    <3>2. CASE last_raiser' = NoSeat
      <4>1. Origin' = dealer' /\ phase' # "preflop" /\ dealer' # NoSeat
        BY <1>1, <3>2 DEF Origin, RoundInv, NoSeat
      <4>2. current_player' # NoSeat
        BY <1>1, <3>1 DEF NoSeat
      <4>3. FirstActorForPhase' = current_player'
        BY <2>1, <3>1, <4>1, <4>2 DEF FirstActorForPhase, NextActiveFrom
      <4>. QED  BY <1>2, <1>5, <3>2, <4>3 DEF RoundIsOver, ActionIsClosed
    <3>3. CASE last_raiser' # NoSeat
      <4>1. Origin' = last_raiser'
        BY <3>3 DEF Origin
      <4>2. current_player' = NextActiveFrom(last_raiser)'
        BY <2>1, <3>1, <4>1 DEF NextActiveFrom
      <4>. QED  BY <1>2, <1>5, <3>3, <4>2 DEF RoundIsOver, ActionIsClosed
    <3>. QED  BY <3>2, <3>3
  <2>. QED  BY <2>2, <2>3
<1>. QED  BY <1>3, <1>4, <1>5

\* A round that closes while two or more players can act has their bets equal
\* and the action closed.
LEMMA OverIsMatched ==
  ASSUME TypeOK', TypeOK, PlayerTurn \/ ForcedFold, round_complete',
         Cardinality(Active') > 1
  PROVE  /\ \A q \in Active' : player_bet'[q] = current_bet'
         /\ ActionIsClosed'
<1>1. Active' # {} /\ Cardinality(Active') # 1
  BY FS_EmptySet
<1>2. ~(Cardinality(Remaining') <= 1)
  <2>1. Active' \subseteq Remaining' /\ Remaining' \in SUBSET Seats
    BY DEF Active, Remaining
  <2>2. Cardinality(Active') <= Cardinality(Remaining')
    BY <2>1, SeatSetCardinality, FS_Subset
  <2>3. Cardinality(Active') \in Nat /\ Cardinality(Remaining') \in Nat
    BY <2>1, SeatSetCardinality
  <2>. QED  BY <2>2, <2>3
<1>3. RoundIsOver'
  BY <1>1, TurnEnds
<1>. QED  BY <1>1, <1>2, <1>3 DEF RoundIsOver, SingleActiveDone

\* A turn keeps what the flags of the round say about it.
LEMMA RoundTurn ==
  ASSUME TypeOK, RoundInv, PlayerTurn \/ ForcedFold
  PROVE  RoundInv'
<1>1. PICK action : \E amount \in Int : ProcessPlayerAction(current_player, action, amount)
  BY TurnIsAnAction
<1>2. PICK amount \in Int : ApplyAction(current_player, action, amount)
  BY <1>1 DEF ProcessPlayerAction
<1>3. UNCHANGED <<big_blind_seat, phase>> /\ current_player \in Seats
  BY <1>2 DEF ApplyAction, hand_vars, TypeOK, GameTypeOK
<1>4. \/ UNCHANGED round_vars
      \/ last_raiser' = current_player /\ has_bet'
  BY <1>2 DEF ApplyAction, Fold, Check, Call, Raise, AllIn, RaiseTo
<1>5. current_player # NoSeat
  BY <1>3 DEF NoSeat
<1>. QED  BY <1>3, <1>4, <1>5 DEF RoundInv, round_vars

\* The bet a round opens with is a number of chips.
LEMMA OpeningType ==
  ASSUME TypeOK, RoundInv
  PROVE  OpeningBet \in Nat
<1>1. phase = "preflop" => big_blind_seat \in Seats /\ stack[big_blind_seat] \in Nat
  BY DEF RoundInv, TypeOK, GameTypeOK, LoopTypeOK
<1>. QED  BY <1>1, TableAssumption DEF OpeningBet

\* A turn that raises opens the round anew: everybody else is to act.
LEMMA RaiseTurn ==
  ASSUME TypeOK, TypeOK', Highest, RoundInv', NEW p, p = current_player,
         PlayerTurn \/ ForcedFold,
         Active' \subseteq Active, p \in Active,
         \A q \in Seats : q # p => player_bet'[q] = player_bet[q],
         last_raiser' = p, has_bet', acted' = {p},
         Opened, RoundInv,
         current_bet' > current_bet, player_bet'[p] = current_bet'
  PROVE  /\ Opened' /\ Matched' /\ Behind'
         /\ ~round_complete' => InOrder'
         /\ NobodyIsSkipped'
<1>1. /\ p \in Seats /\ Active' \in SUBSET Seats /\ current_bet \in Nat /\ current_bet' \in Nat
      /\ \A q \in Seats : player_bet[q] \in Nat /\ player_bet'[q] \in Nat
  BY DEF TypeOK, GameTypeOK, Active
<1>2. p # NoSeat /\ Raised'
  BY <1>1 DEF Raised, NoSeat
<1>3. /\ UNCHANGED <<stack, big_blind_seat, phase>>
      /\ Active' # {} => current_player' = NextIn(p, Active')
      /\ round_complete' => Active' = {} \/ RoundIsOver'
      /\ Active' = {} \/ RoundIsOver' => round_complete'
  BY TurnEnds
<1>4. Matched'
  BY DEF Matched
<1>5. \A q \in Active' : q \notin acted' => player_bet'[q] < current_bet'
  <2>1. \A q \in Seats : player_bet[q] <= current_bet
    BY DEF Highest
  <2>. QED  BY <1>1, <2>1
<1>6. Behind'
  BY <1>5 DEF Behind
<1>7. ASSUME ~round_complete' PROVE InOrder'
  <2>1. Active' # {} /\ current_player' = NextIn(p, Active')
    BY <1>3, <1>7
  <2>2. /\ current_player' \in Active'
        /\ \A q \in Active' : Distance(p, current_player') <= Distance(p, q)
    BY <1>1, <2>1, NextInFindsSeat
  <2>3. \A q \in Active' : ~(Distance(p, q) < Distance(p, current_player'))
    <3>1. \A q \in Active' : Distance(p, q) \in Int /\ Distance(p, current_player') \in Int
      BY <1>1, <2>2, DistanceIsOrder
    <3>. QED  BY <2>2, <3>1
  <2>4. current_player' # p
    <3>1. SUFFICES ASSUME current_player' = p PROVE FALSE
      OBVIOUS
    <3>2. Active' \subseteq acted'
      BY <1>1, <2>1, <3>1, NextInFindsSeat
    <3>3. RoundIsOver'
      BY <1>2, <1>4, <2>1, <3>2, AllActedCloses
    <3>. QED  BY <1>3, <1>7, <3>3
  <2>5. OrderFrom(p, {p})'
    BY <2>2, <2>3, <2>4 DEF OrderFrom
  <2>6. {p} \in SUBSET {p}
    OBVIOUS
  <2>. QED  BY <1>1, <1>2, <2>5, <2>6 DEF InOrder
<1>8. NobodyIsSkipped'
  <2>1. SUFFICES ASSUME round_complete', Cardinality(Active') > 1
                 PROVE  Active' \subseteq acted'
    BY DEF NobodyIsSkipped
  <2>2. \A q \in Active' : player_bet'[q] = current_bet'
    BY <2>1, OverIsMatched
  <2>. QED  BY <1>1, <1>5, <2>2
<1>9. Opened'
  <2>1. OpeningBet \in Nat /\ OpeningBet' = OpeningBet
    BY <1>3, OpeningType DEF OpeningBet
  <2>. QED  BY <1>1, <1>2, <2>1 DEF Opened
<1>. QED  BY <1>4, <1>6, <1>7, <1>8, <1>9

\* A turn that does not raise the bet passes on in order; when it comes round,
\* the round is closed, and it is closed no earlier except by a first actor's
\* fold or after a raise of nothing.
LEMMA KeepTurn ==
  ASSUME TypeOK, TypeOK', RoundInv, RoundInv', Opened, Matched, Behind, InOrder,
         NEW p, p = current_player, PlayerTurn \/ ForcedFold,
         p \in Active, Active' \subseteq Active, Active \subseteq Active' \cup {p},
         \A q \in Seats : q # p => player_bet'[q] = player_bet[q],
         current_bet' = current_bet, acted' = acted \cup {p},
         \/ last_raiser' = p /\ has_bet'
         \/ UNCHANGED <<last_raiser, has_bet>>,
         p \in Active' => player_bet'[p] = current_bet,
         UNCHANGED last_raiser /\ p \notin Active' /\ current_bet = 0 =>
           last_raiser = p \/ status'[p] = "folded"
  PROVE  /\ Opened' /\ Matched' /\ Behind'
         /\ ~round_complete' => InOrder'
         /\ NobodyIsSkipped'
<1>1. /\ p \in Seats /\ Active \in SUBSET Seats /\ Active' \in SUBSET Active
      /\ dealer \in Seats /\ last_raiser \in Seats \cup {NoSeat} /\ Origin \in Seats
      /\ current_bet \in Nat /\ \A q \in Seats : player_bet'[q] \in Nat
  BY DEF TypeOK, GameTypeOK, Active, Origin
<1>2. /\ UNCHANGED <<stack, big_blind_seat, phase, dealer>>
      /\ Active' # {} => current_player' = NextIn(p, Active')
      /\ round_complete' => Active' = {} \/ RoundIsOver'
      /\ Active' = {} \/ RoundIsOver' => round_complete'
  BY TurnEnds
<1>3. /\ Raised => Raised'
      /\ last_raiser' = p /\ has_bet' => Raised'
      /\ ~Raised' => UNCHANGED <<last_raiser, has_bet>> /\ Origin' = Origin
      /\ OpeningBet' = OpeningBet
      /\ Raised' /\ ~RaisedByNothing' => Raised /\ ~RaisedByNothing
  <2>1. p # NoSeat
    BY <1>1 DEF NoSeat
  <2>2. OpeningBet' = OpeningBet
    BY <1>2 DEF OpeningBet
  <2>3. /\ Raised => Raised'
        /\ last_raiser' = p /\ has_bet' => Raised'
    BY <1>2, <2>1 DEF Raised
  <2>4. ~Raised' => UNCHANGED <<last_raiser, has_bet>> /\ Origin' = Origin
    BY <1>2, <2>3 DEF Origin
  <2>5. Raised' => last_raiser' # NoSeat /\ has_bet'
    BY <1>2 DEF Raised, RoundInv
  <2>6. Raised' /\ ~RaisedByNothing' => Raised /\ ~RaisedByNothing
    BY <2>2, <2>5 DEF RaisedByNothing, Opened
  <2>. QED  BY <2>2, <2>3, <2>4, <2>6
<1>4. Matched' /\ Opened'
  BY <1>1, <1>3 DEF Matched, Opened
<1>5. Behind'
  <2>1. \A q \in Active' : q \notin acted' =>
          q \in Active /\ q \notin acted /\ player_bet'[q] = player_bet[q]
    BY <1>1
  <2>. QED  BY <1>2, <1>3, <2>1 DEF Behind
<1>6. CASE Active' = {}
  <2>1. round_complete' /\ ~(Cardinality(Active') > 1)
    BY <1>2, <1>6, FS_EmptySet
  <2>. QED  BY <1>4, <1>5, <2>1 DEF NobodyIsSkipped
<1>7. CASE Active' # {}
  <2>0. PICK o \in Seats : \E E \in SUBSET {o} :
          /\ ~Raised => o = Origin /\ E = {}
          /\ OrderFrom(o, E)
    BY DEF InOrder
  <2>9. PICK Exempt \in SUBSET {o} :
          /\ ~Raised => o = Origin /\ Exempt = {}
          /\ OrderFrom(o, Exempt)
    BY <2>0
  <2>. DEFINE n == NextIn(p, Active')
              D(q) == Distance(o, q)
  <2>1. current_player' = n
    BY <1>2, <1>7
  <2>2. /\ n \in Active'
        /\ \/ /\ D(p) < D(n)
              /\ \A q \in Active' : q \in acted \cup {p} <=> D(q) < D(n) \/ q \in Exempt
           \/ /\ Active' \subseteq acted \cup {p}
              /\ \A q \in Active' : D(n) <= D(q)
    <3>1. /\ p \notin acted
          /\ \A q \in Active : q \in acted <=> D(q) < D(p) \/ q \in Exempt
      BY <2>9 DEF OrderFrom
    <3>2. /\ n \in Active'
          /\ \/ /\ D(p) < D(n)
                /\ \A q \in Active' : D(q) < D(n) <=> D(q) < D(p) \/ q = p
             \/ \A q \in Active' : (D(q) < D(p) \/ q = p) /\ D(n) <= D(q)
      BY <1>1, <1>7, TurnPasses
    <3>. QED  BY <1>1, <3>1, <3>2
  <2>. HIDE DEF n
  <2>3. CASE /\ Active' \subseteq acted \cup {p}
             /\ \A q \in Active' : D(n) <= D(q)
    <3>1. RoundIsOver'
      <4>1. ~Raised' => \A q \in Active' :
              Distance(Origin', current_player') <= Distance(Origin', q)
        BY <1>3, <2>1, <2>3, <2>9
      <4>. QED  BY <1>4, <1>7, <2>1, <2>2, <2>3, <4>1, AllActedCloses
    <3>. QED  BY <1>2, <1>4, <1>5, <2>3, <3>1 DEF NobodyIsSkipped
  <2>4. CASE /\ D(p) < D(n)
             /\ \A q \in Active' : q \in acted \cup {p} <=> D(q) < D(n) \/ q \in Exempt
    <3>1. D(n) \in 1 .. N /\ D(p) \in 1 .. N
      BY <1>1, <2>2, DistanceIsOrder
    <3>2. n \in acted' => n \in Exempt
      BY <2>2, <2>4, <3>1
    <3>3. ASSUME ~round_complete' PROVE InOrder'
      <4>1. n \notin acted'
        <5>1. SUFFICES ASSUME n \in Exempt PROVE FALSE
          BY <3>2
        <5>2. Raised /\ Raised' /\ o = n
          BY <1>3, <2>9, <5>1
        <5>3. \A q \in Active' : q # n => D(q) < D(n)
          <6>1. \A q \in Active' : /\ D(q) \in 1 .. N /\ D(n) = N
                                   /\ D(q) = D(n) => q = n
            BY <1>1, <2>2, <5>2, DistanceIsOrder
          <6>. QED  BY <6>1
        <5>4. Active' \subseteq acted'
          BY <2>4, <5>1, <5>3
        <5>5. RoundIsOver'
          BY <1>3, <1>4, <1>7, <5>2, <5>4, AllActedCloses
        <5>. QED  BY <1>2, <3>3, <5>5
      <4>2. OrderFrom(o, Exempt)'
        BY <2>1, <2>2, <2>4, <4>1 DEF OrderFrom
      <4>. QED  BY <1>3, <2>9, <4>2 DEF InOrder
    <3>4. NobodyIsSkipped'
      <4>1. SUFFICES ASSUME round_complete', Cardinality(Active') > 1,
                            ~(phase = "preflop" /\ stack[big_blind_seat] <= SMALL_BLIND),
                            ~RaisedByNothing'
                     PROVE  \/ Active' \subseteq acted'
                            \/ /\ phase # "preflop" /\ current_bet = 0
                               /\ p \in acted' /\ status'[p] = "folded" /\ p \in Seats
        BY <1>2 DEF NobodyIsSkipped
      <4>2. /\ \A q \in Active' : player_bet'[q] = current_bet
            /\ ActionIsClosed'
        BY <4>1, OverIsMatched
      <4>3. \A x : Active' \ {x} # {}
        BY <1>1, <4>1, AnotherOne
      <4>4. CASE Raised'
        BY <1>1, <1>5, <4>1, <4>2, <4>4 DEF Behind
      <4>7. ~Raised' => /\ ~Raised /\ UNCHANGED <<last_raiser, has_bet>>
                        /\ o = Origin /\ Exempt = {}
        BY <1>3, <2>9
      <4>5. CASE ~Raised' /\ phase # "preflop"
        <5>1. /\ last_raiser = NoSeat /\ Origin = dealer /\ current_bet = 0
              /\ o = dealer /\ last_raiser # p /\ UNCHANGED last_raiser
          BY <1>1, <4>5, <4>7 DEF Raised, Origin, RoundInv, NoSeat
        <5>2. n = FirstActorForPhase'
          BY <2>1, <4>2, <5>1 DEF ActionIsClosed
        <5>3. FirstActorForPhase' = FirstInScan(Active', dealer)
          BY <1>2, <4>5 DEF FirstActorForPhase, FirstInScan, NextActiveFrom, FirstOf
        <5>4. \A q \in Active' : D(n) <= D(q)
          BY <1>1, <1>7, <5>1, <5>2, <5>3, FirstInScanIsNearest
        <5>5. p \notin Active'
          BY <2>4, <3>1, <5>4
        <5>. QED  BY <1>1, <4>5, <5>1, <5>5
      <4>6. CASE ~Raised' /\ phase = "preflop"
        <5>1. /\ last_raiser = big_blind_seat /\ last_raiser # NoSeat /\ ~has_bet
              /\ UNCHANGED <<last_raiser, has_bet>> /\ Exempt = {}
          BY <4>6, <4>7 DEF Raised, RoundInv
        <5>2. stack[big_blind_seat] > SMALL_BLIND
          <6>1. stack[big_blind_seat] \in Nat
            BY <1>1, <5>1 DEF TypeOK, LoopTypeOK
          <6>. QED  BY <4>1, <4>6, <6>1
        <5>3. \A q \in Active' : q # big_blind_seat => q \in acted'
          BY <1>1, <1>2, <1>5, <4>2, <4>6, <5>2 DEF Behind
        <5>4. big_blind_seat \notin Active'
          <6>1. SUFFICES ASSUME big_blind_seat \in Active' PROVE FALSE
            OBVIOUS
          <6>2. n = NextActiveFrom(last_raiser)'
            BY <2>1, <4>2, <5>1, <6>1 DEF ActionIsClosed
          <6>3. n = NextIn(last_raiser, Active' \ {last_raiser})
            BY <4>3, <5>1, <6>2 DEF NextActiveFrom
          <6>4. n # last_raiser
            <7>1. Active' \ {last_raiser} \in SUBSET Seats
              BY <1>1
            <7>. QED  BY <1>1, <4>3, <5>1, <6>3, <7>1, NextInFindsSeat
          <6>. QED  BY <2>2, <3>2, <5>1, <5>3, <6>4
        <5>. QED  BY <5>3, <5>4
      <4>. QED  BY <4>4, <4>5, <4>6
    <3>. QED  BY <1>4, <1>5, <3>3, <3>4
  <2>. QED  BY <2>2, <2>3, <2>4
<1>. QED  BY <1>6, <1>7

\* The blinds open a round in which nobody has acted and the first actor is
\* the next to do so.
LEMMA OrderOpens ==
  ASSUME SMALL_BLIND < BIG_BLIND, TypeOK, TypeOK', NextHand
  PROVE  RoundInv' /\ Opened' /\ Matched' /\ Behind' /\ InOrder' /\ NobodyIsSkipped'
<1>. DEFINE d == MoveDealerButton
            bb == BigBlindSeat(d)
            A == Active'
<1>1. /\ Cardinality(Playing) >= 2 /\ stack' = chips /\ acted' = {} /\ phase' = "preflop"
      /\ has_bet' = FALSE /\ round_complete' = FALSE
      /\ big_blind_seat' = bb /\ last_raiser' = bb /\ current_player' = FirstActorPreflop(d)
      /\ player_bet' = [p \in Seats |-> BlindPaid(d, p)]
      /\ current_bet' = [p \in Seats |-> BlindPaid(d, p)][bb]
      /\ status' = [p \in Seats |-> IF chips[p] = 0 THEN "busted"
                                    ELSE IF [q \in Seats |-> BlindPaid(d, q)][p] = chips[p]
                                         THEN "all_in"
                                    ELSE "active"]
  BY DEF NextHand, StartNewHand, DealHand
<1>2. GameTypeOK /\ \A p \in Seats : chips[p] \in Nat
  BY DEF TypeOK, GameTypeOK
<1>3. /\ d \in Playing /\ bb \in Seats /\ SmallBlindSeat(d) # bb
      /\ FirstActorPreflop(d) \in Seats
  BY <1>1, <1>2, BlindSeats DEF Playing
<1>4. A \subseteq Playing /\ A \in SUBSET Seats
  BY <1>1, <1>2 DEF Active, Playing
<1>5. \A q \in A : Distance(bb, current_player') <= Distance(bb, q)
  BY <1>1, <1>2, <1>3, <1>4, FirstActorIsNearest
<1>6. stack'[big_blind_seat'] > SMALL_BLIND =>
        \A q \in Seats : q # bb => player_bet'[q] < current_bet'
  <2>1. SUFFICES ASSUME chips[bb] > SMALL_BLIND, NEW q \in Seats, q # bb
                 PROVE  BlindPaid(d, q) < BlindPaid(d, bb)
    BY <1>1, <1>3
  <2>2. BlindPaid(d, q) \in Nat /\ BlindPaid(d, q) <= SMALL_BLIND
    BY <1>2, <2>1 DEF BlindPaid
  <2>3. BlindPaid(d, bb) \in Nat /\ BlindPaid(d, bb) > SMALL_BLIND
    BY <1>2, <1>3, <2>1 DEF BlindPaid
  <2>. QED  BY <2>2, <2>3
<1>11. current_bet' = OpeningBet' /\ current_bet' \in Nat
  <2>1. current_bet' = BlindPaid(d, bb) /\ BlindPaid(d, bb) \in Nat
    BY <1>1, <1>2, <1>3, BlindPaidType
  <2>2. BlindPaid(d, bb) = IF BIG_BLIND <= chips[bb] THEN BIG_BLIND ELSE chips[bb]
    BY <1>3 DEF BlindPaid
  <2>3. OpeningBet' = IF chips[bb] <= BIG_BLIND THEN chips[bb] ELSE BIG_BLIND
    BY <1>1 DEF OpeningBet
  <2>. QED  BY <1>2, <1>3, <2>1, <2>2, <2>3, TableAssumption
<1>. HIDE DEF bb, d
<1>7. bb # NoSeat /\ ~Raised' /\ Origin' = bb
  BY <1>1, <1>3 DEF Raised, Origin, NoSeat
<1>8. RoundInv' /\ Opened' /\ Matched' /\ NobodyIsSkipped'
  BY <1>1, <1>7, <1>11 DEF RoundInv, Opened, Matched, NobodyIsSkipped
<1>9. Behind'
  BY <1>1, <1>4, <1>6, <1>7 DEF Behind
<1>10. InOrder'
  <2>1. current_player' \in Seats /\ acted' = {}
    BY <1>1, <1>3
  <2>2. \A q \in A : /\ Distance(bb, q) \in Int /\ Distance(bb, current_player') \in Int
                     /\ q # current_player' => Distance(bb, q) # Distance(bb, current_player')
    BY <1>3, <1>4, <2>1, DistanceIsOrder
  <2>3. \A q \in A : /\ ~(Distance(bb, q) < Distance(bb, current_player'))
                     /\ q # current_player' =>
                          Distance(bb, current_player') < Distance(bb, q)
    BY <1>5, <2>2
  <2>4. PICK o : o = bb
    OBVIOUS
  <2>5. OrderFrom(o, {})'
    BY <2>1, <2>3, <2>4 DEF OrderFrom
  <2>6. o \in Seats /\ {} \in SUBSET {o}
    BY <1>3, <2>4
  <2>. QED  BY <1>7, <2>4, <2>5, <2>6 DEF InOrder
<1>. QED  BY <1>8, <1>9, <1>10

\* After the flop a round opens with nobody having acted and the active player
\* after the dealer to act.
LEMMA OrderReopens ==
  ASSUME TypeOK, TypeOK', NextPhase, pc' = "hand"
  PROVE  /\ RoundInv' /\ Opened' /\ Matched' /\ Behind' /\ NobodyIsSkipped'
         /\ ~round_complete' => InOrder'
<1>1. /\ phase \in BettingPhases /\ phase # "river" /\ phase' = NextPhaseOf(phase)
      /\ UNCHANGED <<status, dealer>> /\ StartNewBettingRound /\ acted' = {}
  BY DEF NextPhase, AdvanceToNextPhase, CanAdvancePhase
<1>2. /\ phase' # "preflop" /\ last_raiser' = NoSeat /\ current_bet' = 0
      /\ round_complete' = (Active = {}) /\ Active' = Active
      /\ Active # {} => current_player' = FirstActorForPhase'
  BY <1>1 DEF NextPhaseOf, BettingPhases, StartNewBettingRound, Active
<1>3. ~Raised' /\ Origin' = dealer
  BY <1>1, <1>2 DEF Raised, Origin
<1>4. RoundInv' /\ Opened' /\ Matched' /\ Behind'
  BY <1>1, <1>2, <1>3 DEF RoundInv, Opened, OpeningBet, Matched, Behind
<1>5. NobodyIsSkipped'
  <2>1. round_complete' => Active' = {}
    BY <1>2
  <2>2. ~(Cardinality({}) > 1)
    BY FS_EmptySet
  <2>. QED  BY <2>1, <2>2 DEF NobodyIsSkipped
<1>6. ASSUME ~round_complete' PROVE InOrder'
  <2>1. Active # {} /\ Active \in SUBSET Seats /\ dealer \in Seats
    BY <1>2, <1>6, ActiveSeats DEF TypeOK, GameTypeOK
  <2>2. current_player' = FirstInScan(Active, dealer)
    BY <1>1, <1>2, <2>1 DEF FirstActorForPhase, FirstInScan, NextActiveFrom, FirstOf
  <2>3. /\ current_player' \in Active
        /\ \A q \in Active : Distance(dealer, current_player') <= Distance(dealer, q)
    BY <2>1, <2>2, FirstInScanIsNearest
  <2>4. \A q \in Active : ~(Distance(dealer, q) < Distance(dealer, current_player'))
    <3>1. \A q \in Active : /\ Distance(dealer, q) \in Int
                            /\ Distance(dealer, current_player') \in Int
      BY <2>1, <2>3, DistanceIsOrder
    <3>. QED  BY <2>3, <3>1
  <2>5. PICK o : o = dealer
    OBVIOUS
  <2>6. OrderFrom(o, {})'
    BY <1>1, <1>2, <2>3, <2>4, <2>5 DEF OrderFrom
  <2>7. o \in Seats /\ {} \in SUBSET {o}
    BY <2>1, <2>5
  <2>. QED  BY <1>3, <2>5, <2>6, <2>7 DEF InOrder
<1>. QED  BY <1>4, <1>5, <1>6

\* A seat that cannot act is passed over: nobody has acted before it.
LEMMA OrderSkips ==
  ASSUME TypeOK, TypeOK', InOrder, Opened, Matched, Behind, SkipInactive
  PROVE  /\ Opened' /\ Matched' /\ Behind' /\ NobodyIsSkipped'
         /\ ~round_complete' => InOrder'
<1>1. /\ UNCHANGED <<players_vars, round_vars, hand_vars, pc, stack, acted>>
      /\ current_player \notin Active /\ ~round_complete
      /\ MoveToNextPlayer /\ round_complete' = (round_complete \/ Active' = {})
  BY DEF SkipInactive, AdvanceToNextPlayer, history_vars, Active
<1>2. /\ Active' = Active /\ Raised' = Raised /\ Origin' = Origin
      /\ UNCHANGED <<player_bet, current_bet, big_blind_seat, phase, stack, acted>>
      /\ OpeningBet' = OpeningBet /\ RaisedByNothing' = RaisedByNothing
  BY <1>1 DEF Active, Raised, Origin, OpeningBet, RaisedByNothing, players_vars, round_vars,
              hand_vars
<1>3. Opened' /\ Matched' /\ Behind'
  BY <1>2 DEF Opened, Matched, Behind
<1>4. NobodyIsSkipped'
  <2>1. round_complete' => Active' = {}
    BY <1>1
  <2>2. ~(Cardinality({}) > 1)
    BY FS_EmptySet
  <2>. QED  BY <2>1, <2>2 DEF NobodyIsSkipped
<1>5. ASSUME ~round_complete' PROVE InOrder'
  <2>0. PICK o \in Seats : \E E \in SUBSET {o} :
          /\ ~Raised => o = Origin /\ E = {}
          /\ OrderFrom(o, E)
    BY DEF InOrder
  <2>9. PICK Exempt \in SUBSET {o} :
          /\ ~Raised => o = Origin /\ Exempt = {}
          /\ OrderFrom(o, Exempt)
    BY <2>0
  <2>. DEFINE c == current_player
              n == NextIn(c, Active)
  <2>1. Active # {} /\ Active \in SUBSET Seats /\ c \in Seats
    BY <1>1, <1>2, <1>5, ActiveSeats DEF TypeOK, GameTypeOK
  <2>2. current_player' = n
    BY <1>1, <1>2, <2>1 DEF MoveToNextPlayer
  <2>3. \A q \in Active : /\ q \notin acted /\ Distance(o, c) < Distance(o, q)
                          /\ q \in acted <=> Distance(o, q) < Distance(o, c) \/ q \in Exempt
    BY <1>1, <2>9 DEF OrderFrom
  <2>4. /\ n \in Active
        /\ \/ /\ Distance(o, c) < Distance(o, n)
              /\ \A q \in Active : Distance(o, q) < Distance(o, n) <=>
                                     Distance(o, q) < Distance(o, c) \/ q = c
           \/ \A q \in Active : Distance(o, q) < Distance(o, c) \/ q = c
    BY <2>1, TurnPasses
  <2>. HIDE DEF n, c
  <2>5. \A q \in Active : Distance(o, q) \in Int /\ Distance(o, c) \in Int
    BY <2>1, DistanceIsOrder
  <2>6. \A q \in Active : q # c /\ ~(Distance(o, q) < Distance(o, c))
    BY <1>1, <2>3, <2>5 DEF c
  <2>7. \A q \in Active : ~(Distance(o, q) < Distance(o, n))
    BY <2>4, <2>6
  <2>8. n \notin acted
    BY <2>3, <2>4
  <2>10. OrderFrom(o, Exempt)'
    BY <1>2, <2>2, <2>3, <2>4, <2>6, <2>7, <2>8 DEF OrderFrom
  <2>. QED  BY <1>2, <2>9, <2>10 DEF InOrder
<1>. QED  BY <1>3, <1>4, <1>5

\* One step of the loop keeps the turn in order and skips nobody.
LEMMA OrderStep ==
  ASSUME SMALL_BLIND < BIG_BLIND, \A m \in RAISE_AMOUNTS : m >= 0,
         TypeOK, TypeOK', CurrentBetIsHighest, OrderInv, NobodyIsSkipped, [Next]_vars
  PROVE  OrderInv' /\ NobodyIsSkipped'
<1>1. CASE NextHand
  BY <1>1, OrderOpens DEF OrderInv
<1>2. CASE PlayerTurn \/ ForcedFold
  <2>1. PICK p : p = current_player
    OBVIOUS
  <2>2. /\ pc = "hand" /\ pc' = "hand" /\ ~round_complete
        /\ UNCHANGED <<stack, big_blind_seat, phase, dealer>>
    BY <1>2, <2>1, TurnEnds
  <2>3. RoundInv /\ RoundInv' /\ Short' = Short
    BY <1>2, <2>2, RoundTurn DEF OrderInv, Short
  <2>4. CASE Short
    <3>1. phase' = "preflop" /\ stack'[big_blind_seat'] < SMALL_BLIND
      BY <2>2, <2>4 DEF Short
    <3>2. stack'[big_blind_seat'] <= SMALL_BLIND
      <4>1. big_blind_seat' \in Seats /\ stack' \in [Seats -> Nat]
        BY <2>3, <3>1 DEF RoundInv, TypeOK, GameTypeOK, LoopTypeOK
      <4>2. stack'[big_blind_seat'] \in Nat
        BY <4>1
      <4>. QED  BY <3>1, <4>2
    <3>. QED  BY <2>3, <2>4, <3>1, <3>2 DEF OrderInv, NobodyIsSkipped
  <2>5. CASE ~Short
    <3>1. Highest /\ Opened /\ Matched /\ Behind /\ InOrder
      BY <2>2, <2>5 DEF OrderInv, CurrentBetIsHighest, Highest, Short
    <3>2. /\ p \in Active /\ Active' \subseteq Active /\ Active \subseteq Active' \cup {p}
          /\ \A q \in Seats : q # p => player_bet'[q] = player_bet[q]
      BY <1>2, <2>1, <3>1, TurnEffect
    <3>3. /\ Opened' /\ Matched' /\ Behind' /\ NobodyIsSkipped'
          /\ ~round_complete' => InOrder'
      <4>1. CASE /\ last_raiser' = p /\ has_bet' /\ acted' = {p}
                 /\ current_bet' > current_bet /\ player_bet'[p] = current_bet'
        BY <1>2, <2>1, <2>3, <3>1, <3>2, <4>1, RaiseTurn
      <4>2. CASE /\ current_bet' = current_bet /\ acted' = acted \cup {p}
                 /\ \/ last_raiser' = p /\ has_bet'
                    \/ UNCHANGED <<last_raiser, has_bet>>
                 /\ p \in Active' => player_bet'[p] = current_bet
                 /\ UNCHANGED last_raiser /\ p \notin Active' /\ current_bet = 0 =>
                      last_raiser = p \/ status'[p] = "folded"
        BY <1>2, <2>1, <2>3, <3>1, <3>2, <4>2, KeepTurn
      <4>. QED  BY <1>2, <2>1, <3>1, <4>1, <4>2, TurnEffect
    <3>. QED  BY <2>3, <3>3 DEF OrderInv
  <2>. QED  BY <2>4, <2>5
<1>3. CASE SkipInactive
  <2>1. /\ pc = "hand" /\ ~round_complete
        /\ UNCHANGED <<stack, big_blind_seat, phase, last_raiser, has_bet, current_bet>>
        /\ round_complete' => Active' = {}
    BY <1>3 DEF SkipInactive, AdvanceToNextPlayer, history_vars, hand_vars, round_vars
  <2>2. RoundInv' /\ Short' = Short
    BY <2>1 DEF OrderInv, RoundInv, Short
  <2>3. CASE Short
    <3>1. NobodyIsSkipped'
      <4>1. ~(Cardinality({}) > 1)
        BY FS_EmptySet
      <4>. QED  BY <2>1, <4>1 DEF NobodyIsSkipped
    <3>. QED  BY <2>2, <2>3, <3>1 DEF OrderInv
  <2>4. CASE ~Short
    <3>1. Opened /\ Matched /\ Behind /\ InOrder
      BY <2>1, <2>4 DEF OrderInv
    <3>2. /\ Opened' /\ Matched' /\ Behind' /\ NobodyIsSkipped'
          /\ ~round_complete' => InOrder'
      BY <1>3, <3>1, OrderSkips
    <3>. QED  BY <2>2, <3>2 DEF OrderInv
  <2>. QED  BY <2>3, <2>4
<1>4. CASE NextPhase
  <2>1. CASE pc' = "hand"
    BY <1>4, <2>1, OrderReopens DEF OrderInv
  <2>2. CASE pc' # "hand"
    BY <2>2 DEF OrderInv, NobodyIsSkipped
  <2>. QED  BY <2>1, <2>2
<1>5. CASE Showdown \/ Quit \/ Over
  BY <1>5 DEF Showdown, ShowdownOf, Quit, Over, OrderInv, NobodyIsSkipped, vars
<1>6. CASE UNCHANGED vars
  <2>1. UNCHANGED <<pc, status, player_bet, current_bet, last_raiser, has_bet, stack, acted,
                    current_player, round_complete, big_blind_seat, phase, dealer>>
    BY <1>6 DEF vars, game_vars, players_vars, round_vars, turn_vars, hand_vars, history_vars
  <2>2. /\ Active' = Active /\ Raised' = Raised /\ Origin' = Origin
        /\ OpeningBet' = OpeningBet /\ RaisedByNothing' = RaisedByNothing
    BY <2>1 DEF Active, Raised, Origin, OpeningBet, RaisedByNothing
  <2>3. /\ RoundInv' = RoundInv /\ Short' = Short /\ Matched' = Matched /\ Behind' = Behind
        /\ Opened' = Opened
    BY <2>1, <2>2 DEF RoundInv, Short, Matched, Behind, Opened
  <2>4. InOrder => InOrder'
    BY <2>1, <2>2 DEF InOrder, OrderFrom
  <2>5. NobodyIsSkipped'
    BY <2>1, <2>2 DEF NobodyIsSkipped
  <2>. QED  BY <2>1, <2>3, <2>4, <2>5 DEF OrderInv
<1>. QED  BY <1>1, <1>2, <1>3, <1>4, <1>5, <1>6 DEF Next, HandStep

\* The turn stays in order, for tables with a proper big blind and players
\* that name no negative amount.
LEMMA Order ==
  ASSUME SMALL_BLIND < BIG_BLIND, \A m \in RAISE_AMOUNTS : m >= 0
  PROVE  Spec => [](OrderInv /\ NobodyIsSkipped)
<1>1. Init => OrderInv /\ NobodyIsSkipped
  BY DEF Init, OrderInv, NobodyIsSkipped
<1>2. /\ TypeOK /\ TypeOK' /\ CurrentBetIsHighest /\ OrderInv /\ NobodyIsSkipped /\ [Next]_vars
      => OrderInv' /\ NobodyIsSkipped'
  BY OrderStep
<1>3. Spec => []CurrentBetIsHighest
  <2>1. SMALL_BLIND <= BIG_BLIND
    BY TableAssumption
  <2>. QED  BY <2>1, BetToMatchIsHighest
<1>. QED  BY <1>1, <1>2, <1>3, TypeCorrect, PTL DEF Spec

\* No betting round closes over the head of a player that has not acted since
\* the last raise, but for the three cases NobodyIsSkipped names; a raise of
\* nothing, the default amount, is among the amounts.
THEOREM EveryoneIsAsked ==
  ASSUME SMALL_BLIND < BIG_BLIND, \A m \in RAISE_AMOUNTS : m >= 0
  PROVE  Spec => []NobodyIsSkipped
BY Order, PTL

\* Nobody is asked again before somebody raises: the turn has not come round
\* to a player that has acted, because the round was closed when it did.
THEOREM NobodyIsAskedAgain ==
  ASSUME SMALL_BLIND < BIG_BLIND, \A m \in RAISE_AMOUNTS : m >= 0
  PROVE  Spec => []NobodyIsAskedTwice
<1>1. TypeOK /\ OrderInv => NobodyIsAskedTwice
  BY DEF TypeOK, GameTypeOK, OrderInv, InOrder, OrderFrom, Short, NobodyIsAskedTwice, Active
<1>. QED  BY <1>1, Order, TypeCorrect, PTL

-----------------------------------------------------------------------------
(* The recorded game *)

\* A step that is recorded is a step of the loop.
LEMMA RecordedStep ==
  ASSUME [RecordedNext]_recorded_vars
  PROVE  [Next]_vars
<1>1. CASE RecordedNextHand \/ RecordedSkip \/ RecordedNextPhase \/ RecordedQuit
  BY <1>1 DEF RecordedNextHand, RecordedSkip, RecordedNextPhase, RecordedQuit, Next, HandStep
<1>2. CASE RecordedPlayerTurn \/ RecordedForcedFold
  BY <1>2 DEF RecordedPlayerTurn, RecordedForcedFold, RecordedTurn, PlayerTurn, ForcedFold,
              Next, HandStep
<1>3. CASE RecordedShowdown
  BY <1>3 DEF RecordedShowdown, Showdown, Next
<1>4. CASE RecordShowdown \/ RecordHandEnd \/ UNCHANGED recorded_vars
  BY <1>4 DEF RecordShowdown, RecordHandEnd, recorded_vars
<1>. QED  BY <1>1, <1>2, <1>3, <1>4 DEF RecordedNext

\* The database does not disturb the table: what holds of the loop holds of
\* the recorded one.
LEMMA RecordedIsLoop == RecordedSpec => Spec
<1>1. RecordedInit => Init
  BY DEF RecordedInit
<1>2. [RecordedNext]_recorded_vars => [Next]_vars
  BY RecordedStep
<1>. QED  BY <1>1, <1>2, PTL DEF RecordedSpec, Spec

\* What the loop keeps true, in one formula.
LoopInv == TypeOK /\ StackAccounting /\ PotIsSumOfBets /\ StandingInv

LEMMA RecordedLoop == RecordedSpec => []LoopInv
<1>1. Spec => []LoopInv
  BY TypeCorrect, Accounting, Standing, PTL DEF LoopInv
<1>. QED  BY <1>1, RecordedIsLoop, PTL

-----------------------------------------------------------------------------
(* The tables *)

\* What INSERT leaves of a table: the old rows, and the new ones after them.
LEMMA RowsAdded ==
  ASSUME NEW S, NEW s \in Seq(S), NEW t \in Seq(S)
  PROVE  /\ s \o t \in Seq(S) /\ Len(s) \in Nat /\ Len(t) \in Nat
         /\ DOMAIN s = 1 .. Len(s)
         /\ Len(s \o t) = Len(s) + Len(t)
         /\ DOMAIN (s \o t) = 1 .. Len(s) + Len(t)
         /\ \A i \in 1 .. Len(s) : (s \o t)[i] = s[i]
         /\ \A j \in 1 .. Len(t) : (s \o t)[Len(s) + j] = t[j]
OBVIOUS

\* The rows of the two tables that only grow.
HandRows == [player_ids : SUBSET Seats, ended : BOOLEAN]
ActionRows == [hand : Nat, phase : Phases, player : Seats, type : Actions \cup Blinds,
               amount : Int, pot_after : Nat]

\* What conduct_showdown has still to write is about players at the showdown,
\* and it writes before the next hand begins.
PendingInv ==
  /\ end_pending \in BOOLEAN
  /\ end_pending => pc = "between" /\ current_hand_id # NoHand /\ Cardinality(Remaining) > 1
  /\ ~end_pending => DOMAIN unrecorded = {}
  /\ DOMAIN unrecorded \subseteq Remaining
  /\ \A p \in DOMAIN unrecorded : unrecorded[p] \in Nat

\* Every row belongs to a hand its player was dealt in.
RowsInv ==
  /\ PendingInv
  /\ hands \in Seq(HandRows) /\ actions \in Seq(ActionRows)
  /\ current_hand_id = Len(hands) /\ (InHand => current_hand_id # NoHand)
  /\ \A i \in DOMAIN actions :
       /\ actions[i].hand \in DOMAIN hands
       /\ actions[i].player \in hands[actions[i].hand].player_ids
  /\ \A k \in DOMAIN showdown_results :
       /\ k \in (DOMAIN hands) \X Seats
       /\ k[2] \in hands[k[1]].player_ids
       /\ showdown_results[k] \in Nat

\* The table of the hand in play, read off its rows: who is in it and who has
\* folded; a player that is out has no chips to come back with.
TableInv ==
  /\ current_hand_id # NoHand =>
       /\ hands[current_hand_id].player_ids = {p \in Seats : status[p] # "busted"}
       /\ FoldedIn(current_hand_id) = {p \in Seats : status[p] = "folded"}
  /\ current_hand_id = NoHand => \A p \in Seats : status[p] # "busted"
  /\ \A p \in Seats : status[p] = "busted" => chips[p] = 0

OnBoard(hand, ph) == <<hand, ph>> \in DOMAIN board /\ board[<<hand, ph>>] = DealtBy(ph)

\* The cards of the phases a hand has reached are on record.
CardsInv ==
  /\ pc = "hand" =>
       /\ phase \in {"flop", "turn", "river"} => OnBoard(current_hand_id, "flop")
       /\ phase \in {"turn", "river"} => OnBoard(current_hand_id, "turn")
       /\ phase = "river" => OnBoard(current_hand_id, "river")
  /\ pc = "showdown" => HandIsDecided \/ HasItsBoard(current_hand_id)
  /\ end_pending => HasItsBoard(current_hand_id)

USE DEF NoHand

\* A row is a row of the table, whatever its number.
LEMMA RowsTyped ==
  ASSUME RowsInv
  PROVE  /\ Len(hands) \in Nat /\ DOMAIN hands = 1 .. Len(hands)
         /\ Len(actions) \in Nat /\ DOMAIN actions = 1 .. Len(actions)
         /\ current_hand_id \in Nat
         /\ \A h \in DOMAIN hands : /\ hands[h] \in HandRows
                                    /\ hands[h].player_ids \in SUBSET Seats
                                    /\ hands[h].ended \in BOOLEAN
         /\ \A i \in DOMAIN actions : /\ actions[i] \in ActionRows
                                      /\ actions[i].hand \in Nat /\ actions[i].pot_after \in Nat
                                      /\ actions[i].player \in Seats
<1>1. /\ hands \in Seq(HandRows) /\ actions \in Seq(ActionRows) /\ current_hand_id = Len(hands)
  BY DEF RowsInv
<1>2. /\ Len(hands) \in Nat /\ DOMAIN hands = 1 .. Len(hands)
      /\ Len(actions) \in Nat /\ DOMAIN actions = 1 .. Len(actions)
      /\ \A h \in DOMAIN hands : hands[h] \in HandRows
      /\ \A i \in DOMAIN actions : actions[i] \in ActionRows
  BY <1>1
<1>. QED  BY <1>1, <1>2 DEF HandRows, ActionRows

\* The actions of a hand have a last one.
LEMMA LastRow ==
  ASSUME RowsInv, NEW h, Played(h) # {}
  PROVE  /\ Greatest(Played(h)) \in Played(h)
         /\ \A i \in Played(h) : i <= Greatest(Played(h))
<1>1. /\ Len(actions) \in Nat /\ DOMAIN actions = 1 .. Len(actions)
  BY RowsTyped
<1>2. Played(h) \in SUBSET Nat /\ \A i \in Played(h) : i <= Len(actions)
  BY <1>1 DEF Played, HandActions
<1>. QED  BY <1>1, <1>2, GreatestIsGreatest

\* An upper bound in the set is its greatest element.
LEMMA GreatestIsUpper ==
  ASSUME NEW S \in SUBSET Nat, NEW b \in S, \A k \in S : k <= b
  PROVE  Greatest(S) = b
<1>1. b \in Nat /\ Greatest(S) \in S /\ b <= Greatest(S)
  BY GreatestIsGreatest
<1>2. Greatest(S) \in Nat /\ Greatest(S) <= b
  BY <1>1
<1>. QED  BY <1>1, <1>2

\* A hand whose rows stay as they are reads the same.
LEMMA HandReadsTheSame ==
  ASSUME RowsInv, NEW h, Played(h)' = Played(h),
         \A i \in DOMAIN actions : actions'[i] = actions[i]
  PROVE  /\ FoldedIn(h)' = FoldedIn(h)
         /\ Played(h) # {} => LastPot(h)' = LastPot(h)
<1>1. Played(h) \in SUBSET DOMAIN actions
  BY DEF Played, HandActions
<1>2. FoldedIn(h)' = FoldedIn(h)
  BY <1>1 DEF FoldedIn
<1>3. Played(h) # {} => LastPot(h)' = LastPot(h)
  BY <1>1, LastRow DEF LastPot
<1>. QED  BY <1>2, <1>3

\* start_new_hand inserts the hand; the blinds it posts first go under the
\* hand before, and are no actions of a player.
LEMMA HandInserted ==
  ASSUME LoopInv, RowsInv, TableInv, RecordedNextHand
  PROVE  /\ actions' \in Seq(ActionRows)
         /\ hands' = Append(hands, [player_ids |-> {p \in Seats : status'[p] # "busted"},
                                    ended |-> FALSE])
         /\ current_hand_id' = Len(hands')
         /\ \A i \in DOMAIN actions : i \in DOMAIN actions' /\ actions'[i] = actions[i]
         /\ \A i \in DOMAIN actions' : i \notin DOMAIN actions =>
              /\ actions'[i].type \in Blinds /\ actions'[i].hand = current_hand_id
              /\ current_hand_id # NoHand
              /\ actions'[i].player \in Playing
         /\ UNCHANGED <<board, showdown_results>>
<1>1. /\ NextHand /\ RecordBlinds /\ current_hand_id' = Len(hands')
      /\ hands' = Append(hands, [player_ids |-> {p \in Seats : status'[p] # "busted"},
                                 ended |-> FALSE])
      /\ UNCHANGED <<board, showdown_results>>
  BY DEF RecordedNextHand, DbStartNewHand
<1>2. actions \in Seq(ActionRows) /\ current_hand_id \in Nat
  BY RowsTyped DEF RowsInv
<1>3. CASE current_hand_id = NoHand
  BY <1>1, <1>2, <1>3 DEF RecordBlinds
<1>4. CASE current_hand_id # NoHand
  <2>. DEFINE sb == SmallBlindSeat(dealer')
              bb == BigBlindSeat(dealer')
              r1 == ActionRow(current_hand_id, "preflop", sb, "small_blind",
                              player_bet'[sb], player_bet'[sb])
              r2 == ActionRow(current_hand_id, "preflop", bb, "big_blind", player_bet'[bb], pot')
  <2>1. actions' = actions \o <<r1, r2>>
    BY <1>1, <1>4 DEF RecordBlinds, DbRecordActions
  <2>2. sb \in Playing /\ bb \in Playing
    <3>1. GameTypeOK /\ Cardinality(Playing) >= 2 /\ dealer' = MoveDealerButton
      BY <1>1 DEF LoopInv, TypeOK, NextHand, StartNewHand, DealHand
    <3>. QED  BY <3>1, BlindSeats
  <2>3. Playing \in SUBSET Seats
    BY DEF Playing
  <2>4. player_bet' \in [Seats -> Nat] /\ pot' \in Nat
    <3>1. GameTypeOK'
      BY <1>1, StartNewHandType DEF LoopInv, TypeOK, NextHand
    <3>. QED  BY <3>1 DEF GameTypeOK
  <2>. HIDE DEF sb, bb
  <2>5. /\ r1 \in ActionRows /\ r1.type \in Blinds /\ r1.hand = current_hand_id /\ r1.player = sb
        /\ r2 \in ActionRows /\ r2.type \in Blinds /\ r2.hand = current_hand_id /\ r2.player = bb
    BY <1>2, <2>2, <2>3, <2>4 DEF ActionRow, ActionRows, Blinds, Phases
  <2>. HIDE DEF r1, r2
  <2>6. /\ <<r1, r2>> \in Seq(ActionRows) /\ Len(<<r1, r2>>) = 2
        /\ <<r1, r2>>[1] = r1 /\ <<r1, r2>>[2] = r2
    BY <2>5
  <2>7. /\ actions' \in Seq(ActionRows) /\ Len(actions) \in Nat
        /\ DOMAIN actions = 1 .. Len(actions) /\ DOMAIN actions' = 1 .. Len(actions) + 2
        /\ \A i \in 1 .. Len(actions) : actions'[i] = actions[i]
        /\ actions'[Len(actions) + 1] = r1 /\ actions'[Len(actions) + 2] = r2
    BY <1>2, <2>1, <2>6, RowsAdded
  <2>8. \A i \in DOMAIN actions' : i \notin DOMAIN actions =>
          i = Len(actions) + 1 \/ i = Len(actions) + 2
    BY <2>7
  <2>. QED  BY <1>1, <1>4, <2>2, <2>5, <2>7, <2>8
<1>. QED  BY <1>3, <1>4

\* process_player_action inserts one row: who acted, how, and the pot it left.
LEMMA TurnInserted ==
  ASSUME LoopInv, TypeOK', RowsInv, RecordedPlayerTurn \/ RecordedForcedFold
  PROVE  \E row \in ActionRows :
           /\ actions' \in Seq(ActionRows)
           /\ DOMAIN actions' = 1 .. Len(actions) + 1
           /\ \A i \in DOMAIN actions : actions'[i] = actions[i]
           /\ actions'[Len(actions) + 1] = row
           /\ row.hand = current_hand_id /\ row.player = current_player
           /\ row.type \notin Blinds /\ row.pot_after = pot' /\ pot <= pot'
           /\ status[current_player] = "active" /\ pc = "hand" /\ pc' = "hand"
           /\ \A p \in Seats : /\ status'[p] = "busted" <=> status[p] = "busted"
                               /\ status[p] = "busted" => chips'[p] = chips[p]
                               /\ status'[p] = "folded" <=>
                                    \/ status[p] = "folded"
                                    \/ p = current_player /\ row.type = "fold"
           /\ phase' = phase
           /\ UNCHANGED <<hands, board, showdown_results, current_hand_id>>
<1>1. PICK action : \E amount \in Int : RecordedTurn(action, amount)
  <2>1. CASE RecordedPlayerTurn
    <3>1. PICK d \in Decisions(current_player, RAISE_AMOUNTS) : RecordedTurn(d.action, d.amount)
      BY <2>1 DEF RecordedPlayerTurn
    <3>2. d.amount \in Int
      <4>1. GameTypeOK /\ current_player \in Seats /\ RAISE_AMOUNTS \in SUBSET Int
        BY DEF LoopInv, TypeOK, GameTypeOK, LoopAssumption
      <4>. QED  BY <4>1, DecisionAmountType
    <3>. QED  BY <3>1, <3>2
  <2>2. CASE RecordedForcedFold
    BY <2>2 DEF RecordedForcedFold
  <2>. QED  BY <2>1, <2>2
<1>2. PICK amount \in Int : RecordedTurn(action, amount)
  BY <1>1
<1>. DEFINE p == current_player
            row == ActionRow(current_hand_id, phase, p, action,
                             RecordedAmount(p, action, amount), pot')
<1>3. /\ pc = "hand" /\ ApplyAction(p, action, amount) /\ UNCHANGED pc
      /\ actions' = actions \o <<row>>
      /\ UNCHANGED <<hands, board, showdown_results, current_hand_id>>
  BY <1>2 DEF RecordedTurn, Turn, ProcessPlayerAction, RecordTurn, DbRecordActions
<1>4. /\ GameTypeOK /\ p \in Seats /\ phase \in Phases
      /\ player_bet' \in [Seats -> Nat] /\ current_bet' \in Nat /\ pot' \in Nat /\ pot \in Nat
      /\ status \in [Seats -> Statuses]
  BY DEF LoopInv, TypeOK, GameTypeOK
<1>5. action \in Actions /\ status[p] = "active" /\ phase' = phase
  BY <1>3 DEF ApplyAction, Actions, hand_vars
<1>6. RecordedAmount(p, action, amount) \in Int
  BY <1>4, <1>5 DEF RecordedAmount, Actions
<1>7. /\ row \in ActionRows
      /\ row.hand = current_hand_id /\ row.player = p /\ row.type = action
      /\ row.pot_after = pot'
  <2>1. current_hand_id \in Nat
    BY RowsTyped
  <2>. HIDE DEF p
  <2>. QED  BY <1>4, <1>5, <1>6, <2>1 DEF ActionRow, ActionRows
<1>8. action \notin Blinds
  BY <1>5 DEF Actions, Blinds
<1>9. /\ pot <= pot'
      /\ \A q \in Seats : /\ status'[q] = "busted" <=> status[q] = "busted"
                          /\ status[q] = "busted" => chips'[q] = chips[q]
                          /\ status'[q] = "folded" <=>
                               status[q] = "folded" \/ (q = p /\ action = "fold")
  <2>1. /\ \/ status' = status
           \/ status' = [status EXCEPT ![p] = "all_in"]
           \/ status' = [status EXCEPT ![p] = "folded"]
        /\ \A q \in Seats : q # p => chips'[q] = chips[q]
    BY <1>3, <1>4, ActionIsOfOnePlayer
  <2>2. ASSUME NEW m \in Int, Bet(p, m)
        PROVE  pot <= pot' /\ (status' = status \/ status' = [status EXCEPT ![p] = "all_in"])
    <3>1. BetAmount(p, m) \in Nat
      BY <1>4, <2>2, BetAmountType DEF GameTypeOK
    <3>. QED  BY <1>4, <2>2, <3>1 DEF Bet
  <2>3. /\ Owed(p) \in Int /\ Owed(p) + amount \in Int /\ chips[p] \in Int
    <3>1. current_bet \in Nat /\ player_bet[p] \in Nat /\ chips[p] \in Nat
      BY <1>4 DEF GameTypeOK
    <3>. QED  BY <3>1 DEF Owed
  <2>4. CASE action = "fold"
    <3>1. Fold(p)
      BY <1>3, <2>4 DEF ApplyAction
    <3>2. status' = [status EXCEPT ![p] = "folded"] /\ pot' = pot
      BY <3>1 DEF Fold
    <3>. QED  BY <1>4, <1>5, <2>1, <2>4, <3>2
  <2>5. CASE action # "fold"
    <3>1. /\ pot <= pot'
          /\ status' = status \/ status' = [status EXCEPT ![p] = "all_in"]
      <4>1. Check(p) \/ Call(p) \/ Raise(p, amount) \/ AllIn(p)
        BY <1>3, <2>5 DEF ApplyAction
      <4>2. CASE Check(p)
        BY <1>4, <4>2 DEF Check, players_vars
      <4>3. CASE Call(p) \/ Raise(p, amount) \/ AllIn(p)
        BY <2>2, <2>3, <4>3 DEF Call, Raise, AllIn
      <4>. QED  BY <4>1, <4>2, <4>3
    <3>2. ASSUME NEW q \in Seats
          PROVE  /\ status'[q] = "busted" <=> status[q] = "busted"
                 /\ status[q] = "busted" => chips'[q] = chips[q]
                 /\ status'[q] = "folded" <=>
                      status[q] = "folded" \/ (q = p /\ action = "fold")
      <4>1. CASE q = p
        <5>1. status'[q] \in {"active", "all_in"} /\ status[q] = "active"
          BY <1>4, <1>5, <3>1, <4>1
        <5>. QED  BY <2>5, <5>1
      <4>2. CASE q # p
        <5>1. status'[q] = status[q] /\ chips'[q] = chips[q]
          BY <1>4, <2>1, <3>1, <4>2
        <5>. QED  BY <2>5, <5>1
      <4>. QED  BY <4>1, <4>2
    <3>. QED  BY <3>1, <3>2
  <2>. QED  BY <2>4, <2>5
<1>10. /\ actions' \in Seq(ActionRows)
       /\ DOMAIN actions' = 1 .. Len(actions) + 1
       /\ \A i \in DOMAIN actions : actions'[i] = actions[i]
       /\ actions'[Len(actions) + 1] = row
  <2>. HIDE DEF row
  <2>1. actions \in Seq(ActionRows) /\ <<row>> \in Seq(ActionRows) /\ Len(<<row>>) = 1
        /\ <<row>>[1] = row
    BY <1>7 DEF RowsInv
  <2>. QED  BY <1>3, <2>1, RowsAdded
<1>. HIDE DEF row
<1>11. \A q \in Seats : /\ status'[q] = "busted" <=> status[q] = "busted"
                        /\ status[q] = "busted" => chips'[q] = chips[q]
                        /\ status'[q] = "folded" <=>
                             \/ status[q] = "folded"
                             \/ q = current_player /\ row.type = "fold"
  BY <1>7, <1>9
<1>12. /\ row.hand = current_hand_id /\ row.player = current_player
       /\ row.type \notin Blinds /\ row.pot_after = pot' /\ pot <= pot'
       /\ status[current_player] = "active" /\ pc = "hand" /\ pc' = "hand" /\ phase' = phase
  BY <1>3, <1>5, <1>7, <1>8, <1>9
<1>. HIDE DEF p
<1>. WITNESS row \in ActionRows
<1>. QED  BY <1>3, <1>10, <1>11, <1>12

\* _deal_flop, _deal_turn and _deal_river write down the cards they leave.
LEMMA PhaseInserted ==
  ASSUME LoopInv, RecordedNextPhase
  PROVE  /\ pc = "hand" /\ pc' = IF phase' = "showdown" THEN "showdown" ELSE "hand"
         /\ UNCHANGED <<hands, actions, showdown_results, current_hand_id, status, chips, pot>>
         /\ phase \in BettingPhases
         /\ phase' = "showdown" => board' = board /\ (HandIsDecided \/ phase = "river")
         /\ phase' # "showdown" =>
              /\ phase' = NextPhaseOf(phase) /\ phase # "river"
              /\ DOMAIN board' = DOMAIN board \cup {<<current_hand_id, phase'>>}
              /\ board'[<<current_hand_id, phase'>>] = DealtBy(phase')
              /\ \A k \in DOMAIN board :
                   k # <<current_hand_id, phase'>> => board'[k] = board[k]
<1>1. /\ NextPhase /\ RecordPhase
      /\ UNCHANGED <<hands, actions, showdown_results, current_hand_id>>
  BY DEF RecordedNextPhase
<1>2. /\ pc = "hand" /\ pc' = IF phase' = "showdown" THEN "showdown" ELSE "hand"
      /\ UNCHANGED <<status, chips, pot>> /\ phase \in BettingPhases
      /\ \/ phase' = "showdown" /\ (HandIsDecided \/ phase = "river")
         \/ phase' = NextPhaseOf(phase) /\ community_cards' = DealtBy(phase') /\ phase # "river"
  BY <1>1 DEF NextPhase, AdvanceToNextPhase, CanAdvancePhase
<1>3. phase # "river" => NextPhaseOf(phase) # "showdown"
  BY <1>2 DEF NextPhaseOf, BettingPhases
<1>4. phase' = "showdown" => board' = board /\ (HandIsDecided \/ phase = "river")
  BY <1>1, <1>2, <1>3 DEF RecordPhase
<1>5. ASSUME phase' # "showdown"
      PROVE  /\ DOMAIN board' = DOMAIN board \cup {<<current_hand_id, phase'>>}
             /\ board'[<<current_hand_id, phase'>>] = DealtBy(phase')
             /\ \A k \in DOMAIN board :
                  k # <<current_hand_id, phase'>> => board'[k] = board[k]
  <2>. DEFINE key == <<current_hand_id, phase'>>
              dealt == DealtBy(phase')
  <2>1. board' = Upsert(board, [k \in {key} |-> dealt])
    BY <1>1, <1>2, <1>5 DEF RecordPhase, DbRecordCommunityCards
  <2>. HIDE DEF key, dealt
  <2>2. /\ DOMAIN board' = DOMAIN board \cup {key} /\ board'[key] = dealt
        /\ \A k \in DOMAIN board : k # key => board'[k] = board[k]
    BY <2>1 DEF Upsert
  <2>. QED  BY <2>2 DEF key, dealt
<1>. QED  BY <1>1, <1>2, <1>4, <1>5

\* conduct_showdown pays nobody that is not at the showdown.
LEMMA PaidAtShowdown ==
  ASSUME GameTypeOK, NEW strength \in [Seats -> Nat], NEW p \in Seats, p \notin Remaining
  PROVE  Payout(strength)[p] = 0
<1>1. CASE Cardinality(Remaining) = 1
  BY <1>1 DEF Payout
<1>2. CASE Cardinality(Remaining) # 1
  <2>. DEFINE max == MaxLevel(total_bet)
              f == [i \in 0 .. max - 1 |->
                      LayerShare(total_bet, Remaining, strength, i + 1, p)]
  <2>1. total_bet \in [0 .. N - 1 -> Nat] /\ DOMAIN total_bet = Seats /\ N \in Nat
    BY DEF GameTypeOK
  <2>2. Payout(strength)[p] = Sum(f, max)
    BY <1>2, <2>1 DEF Payout, Winnings
  <2>3. max \in Nat
    BY <2>1, MaxLevelType
  <2>4. \A i \in 0 .. max - 1 : f[i] = 0
    BY <2>1, PaidByLayer
  <2>. HIDE DEF max, f
  <2>. QED  BY <2>2, <2>3, <2>4, SumZero
<1>. QED  BY <1>1, <1>2

\* conduct_showdown pays the players, and keeps what it paid to whom to write
\* it down, unless one player is left.
LEMMA ShowdownInserted ==
  ASSUME LoopInv, RecordedShowdown
  PROVE  \E paid \in [Seats -> Nat] :
           /\ pc = "showdown" /\ pc' = "between"
           /\ UNCHANGED <<hands, actions, board, showdown_results, current_hand_id, status>>
           /\ \A p \in Seats : p \notin Remaining => paid[p] = 0
           /\ chips' = [p \in Seats |-> chips[p] + paid[p]]
           /\ Sum(paid, N) <= pot
           /\ (\A p \in Seats : status[p] # "folded") => Sum(paid, N) = pot
           /\ Cardinality(Remaining) <= 1 => ~end_pending' /\ DOMAIN unrecorded' = {}
           /\ Cardinality(Remaining) > 1 =>
                end_pending' /\ unrecorded' = [p \in Remaining |-> paid[p]]
<1>1. PICK strength \in Strengths :
        ShowdownOf(strength) /\ unrecorded' = ShowdownRows(strength)
  BY DEF RecordedShowdown
<1>. DEFINE paid == Payout(strength)
<1>2. /\ pc = "showdown" /\ pc' = "between" /\ ConductShowdown(strength)
      /\ UNCHANGED <<hands, actions, board, showdown_results, current_hand_id>>
      /\ end_pending' = (Cardinality(Remaining) > 1)
  BY <1>1 DEF ShowdownOf, RecordedShowdown, db_vars
<1>3. /\ GameTypeOK /\ strength \in [Seats -> Nat] /\ Remaining # {}
      /\ pot = Sum(total_bet, N) /\ pot \in Nat
      /\ \A p \in Seats : status[p] = "busted" => total_bet[p] = 0
      /\ status \in [Seats -> Statuses] /\ total_bet \in [Seats -> Nat]
  <2>1. /\ GameTypeOK /\ strength \in [Seats -> Nat] /\ pot \in Nat
        /\ status \in [Seats -> Statuses] /\ total_bet \in [Seats -> Nat]
    <3>1. strength \in [Seats -> Nat]
      BY <1>1 DEF Strengths
    <3>. QED  BY <3>1 DEF LoopInv, TypeOK, GameTypeOK
  <2>2. InHand /\ StandingInv /\ PotIsSumOfBets
    BY <1>2 DEF LoopInv, InHand
  <2>. QED  BY <2>1, <2>2 DEF StandingInv, PotIsSumOfBets
<1>4. /\ paid \in [Seats -> Nat] /\ Sum(paid, N) \in Nat /\ Sum(paid, N) <= pot
      /\ Sum(paid, N) # pot =>
           \E p \in Seats \ Remaining : \A q \in Remaining : total_bet[q] < total_bet[p]
  BY <1>3, PayoutIsBacked
<1>5. \A p \in Seats : p \notin Remaining => paid[p] = 0
  BY <1>3, PaidAtShowdown
<1>6. /\ chips' = [p \in Seats |-> chips[p] + paid[p]] /\ UNCHANGED status
  BY <1>2, <1>3 DEF ConductShowdown
<1>7. (\A p \in Seats : status[p] # "folded") => Sum(paid, N) = pot
  <2>. SUFFICES ASSUME \A p \in Seats : status[p] # "folded", Sum(paid, N) # pot
                PROVE  FALSE
    OBVIOUS
  <2>1. PICK p \in Seats \ Remaining : \A q \in Remaining : total_bet[q] < total_bet[p]
    BY <1>4
  <2>2. status[p] = "busted"
    BY <1>3 DEF Statuses, Remaining
  <2>3. PICK q \in Remaining : TRUE
    BY <1>3
  <2>4. q \in Seats
    BY DEF Remaining
  <2>. QED  BY <1>3, <2>1, <2>2, <2>4
<1>8. Cardinality(Remaining) \in Nat
  BY ActiveSeats, SeatSetCardinality
<1>9. /\ Cardinality(Remaining) <= 1 => ~end_pending' /\ DOMAIN unrecorded' = {}
      /\ Cardinality(Remaining) > 1 =>
           end_pending' /\ unrecorded' = [p \in Remaining |-> paid[p]]
  <2>. DEFINE R == [p \in Remaining |-> paid[p]]
              c == Cardinality(Remaining)
  <2>1. unrecorded' = (IF c <= 1 THEN NoRows ELSE R) /\ end_pending' = (c > 1) /\ c \in Nat
    BY <1>1, <1>2, <1>8 DEF ShowdownRows
  <2>2. DOMAIN NoRows = {}
    BY DEF NoRows
  <2>. HIDE DEF R, c
  <2>3. (c > 1) = ~(c <= 1) /\ (c <= 1) \in BOOLEAN
    BY <2>1
  <2>4. /\ c <= 1 => ~end_pending' /\ DOMAIN unrecorded' = {}
        /\ c > 1 => end_pending' /\ unrecorded' = R
    BY <2>1, <2>2, <2>3, Zenon
  <2>. QED  BY <2>4 DEF R, c
<1>. HIDE DEF paid
<1>. USE <1>4
<1>. WITNESS paid \in [Seats -> Nat]
<1>. QED  BY <1>2, <1>4, <1>5, <1>6, <1>7, <1>9

\* record_showdown inserts the row of one player.
LEMMA RowInserted ==
  ASSUME LoopInv, RowsInv, RecordShowdown
  PROVE  \E p \in DOMAIN unrecorded :
           /\ UNCHANGED <<pc, status, chips, pot, phase>>
           /\ UNCHANGED <<hands, actions, board, current_hand_id, end_pending>>
           /\ end_pending /\ p \in Remaining /\ p \in Seats
           /\ DOMAIN unrecorded' = DOMAIN unrecorded \ {p}
           /\ \A q \in DOMAIN unrecorded' : unrecorded'[q] = unrecorded[q]
           /\ DOMAIN showdown_results' =
                DOMAIN showdown_results \cup {<<current_hand_id, p>>}
           /\ showdown_results'[<<current_hand_id, p>>] = unrecorded[p]
           /\ \A k \in DOMAIN showdown_results :
                k # <<current_hand_id, p>> => showdown_results'[k] = showdown_results[k]
<1>. DEFINE p == Least(DOMAIN unrecorded)
            key == <<current_hand_id, p>>
            won == unrecorded[p]
<1>1. /\ DOMAIN unrecorded # {} /\ showdown_results' = Upsert(showdown_results, [k \in {key} |-> won])
      /\ unrecorded' = [q \in DOMAIN unrecorded \ {p} |-> unrecorded[q]]
      /\ UNCHANGED <<vars, hands, actions, board, current_hand_id, end_pending>>
  BY DEF RecordShowdown, DbRecordShowdown
<1>2. /\ DOMAIN unrecorded \in SUBSET Remaining /\ Remaining \in SUBSET Seats /\ end_pending
  BY <1>1, ActiveSeats DEF RowsInv, PendingInv
<1>3. p \in DOMAIN unrecorded
  <2>1. N \in Nat /\ Seats \in SUBSET Nat
    OBVIOUS
  <2>2. DOMAIN unrecorded \in SUBSET Nat
    BY <1>2, <2>1
  <2>. QED  BY <1>1, <2>2, LeastIsLeast
<1>4. UNCHANGED <<pc, status, chips, pot, phase>>
  BY <1>1 DEF vars, game_vars, players_vars, hand_vars
<1>. HIDE DEF key, won, p
<1>5. /\ DOMAIN showdown_results' = DOMAIN showdown_results \cup {key}
      /\ showdown_results'[key] = won
      /\ \A k \in DOMAIN showdown_results : k # key => showdown_results'[k] = showdown_results[k]
  BY <1>1 DEF Upsert
<1>6. /\ DOMAIN unrecorded' = DOMAIN unrecorded \ {p}
      /\ \A q \in DOMAIN unrecorded' : unrecorded'[q] = unrecorded[q]
  BY <1>1
<1>7. p \in Remaining /\ p \in Seats
  BY <1>2, <1>3
<1>. USE <1>3
<1>. WITNESS p \in DOMAIN unrecorded
<1>. QED  BY <1>1, <1>2, <1>4, <1>5, <1>6, <1>7 DEF key, won

\* end_hand comes last.
LEMMA EndInserted ==
  ASSUME LoopInv, RowsInv, RecordHandEnd
  PROVE  /\ UNCHANGED <<pc, status, chips, pot, phase>>
         /\ UNCHANGED <<actions, board, showdown_results, current_hand_id, unrecorded>>
         /\ end_pending /\ ~end_pending' /\ DOMAIN unrecorded = {}
         /\ current_hand_id \in DOMAIN hands
         /\ hands' \in Seq(HandRows) /\ DOMAIN hands' = DOMAIN hands /\ Len(hands') = Len(hands)
         /\ hands'[current_hand_id].player_ids = hands[current_hand_id].player_ids
         /\ hands'[current_hand_id].ended
         /\ \A h \in DOMAIN hands : /\ h # current_hand_id => hands'[h] = hands[h]
                                    /\ hands'[h].player_ids = hands[h].player_ids
<1>1. /\ end_pending /\ DOMAIN unrecorded = {} /\ ~end_pending'
      /\ UNCHANGED <<vars, actions, board, showdown_results, current_hand_id, unrecorded>>
      /\ hands' = [hands EXCEPT ![current_hand_id].ended = TRUE]
  BY DEF RecordHandEnd, DbEndHand
<1>2. UNCHANGED <<pc, status, chips, pot, phase>>
  BY <1>1 DEF vars, game_vars, players_vars, hand_vars
<1>3. /\ current_hand_id # NoHand /\ current_hand_id = Len(hands) /\ Len(hands) \in Nat
      /\ DOMAIN hands = 1 .. Len(hands) /\ hands \in Seq(HandRows)
      /\ \A h \in DOMAIN hands : hands[h] \in HandRows
  BY <1>1, RowsTyped DEF RowsInv, PendingInv
<1>4. current_hand_id \in DOMAIN hands
  BY <1>3
<1>. DEFINE r == [hands[current_hand_id] EXCEPT !.ended = TRUE]
<1>5. r \in HandRows /\ r.ended /\ r.player_ids = hands[current_hand_id].player_ids
  BY <1>3, <1>4 DEF HandRows
<1>. HIDE DEF r
<1>6. hands' = [hands EXCEPT ![current_hand_id] = r]
  BY <1>1 DEF r
<1>7. /\ hands' \in Seq(HandRows) /\ DOMAIN hands' = DOMAIN hands /\ Len(hands') = Len(hands)
      /\ hands'[current_hand_id] = r
      /\ \A h \in DOMAIN hands : h # current_hand_id => hands'[h] = hands[h]
  BY <1>3, <1>4, <1>5, <1>6
<1>. QED  BY <1>1, <1>2, <1>4, <1>5, <1>7

\* The other steps write nothing.
LEMMA NothingInserted ==
  ASSUME RecordedSkip \/ RecordedQuit \/ UNCHANGED recorded_vars
  PROVE  /\ UNCHANGED <<hands, actions, board, showdown_results, current_hand_id,
                        status, chips, pot, phase, unrecorded, end_pending>>
         /\ pc' = pc \/ (pc = "between" /\ pc' = "over")
<1>1. CASE RecordedSkip
  BY <1>1 DEF RecordedSkip, SkipInactive, AdvanceToNextPlayer, db_vars, showdown_vars,
              players_vars, hand_vars
<1>2. CASE RecordedQuit
  BY <1>2 DEF RecordedQuit, Quit, Over, db_vars, showdown_vars, vars, game_vars,
              players_vars, hand_vars
<1>3. CASE UNCHANGED recorded_vars
  BY <1>3 DEF recorded_vars, db_vars, showdown_vars, vars, game_vars, players_vars,
              hand_vars
<1>. QED  BY <1>1, <1>2, <1>3

\* What a step does to the rows of a hand that no player acts in.
LEMMA RowsOfOthers ==
  ASSUME LoopInv, TypeOK', RowsInv, TableInv, NEW h,
         \/ RecordedNextHand \/ RecordedSkip \/ RecordedNextPhase
         \/ RecordedShowdown \/ RecordShowdown \/ RecordHandEnd
         \/ RecordedQuit \/ UNCHANGED recorded_vars
         \/ (RecordedPlayerTurn \/ RecordedForcedFold) /\ h # current_hand_id
  PROVE  /\ Played(h)' = Played(h)
         /\ \A i \in DOMAIN actions : actions'[i] = actions[i]
<1>1. CASE RecordedNextHand
  <2>1. /\ \A i \in DOMAIN actions : i \in DOMAIN actions' /\ actions'[i] = actions[i]
        /\ \A i \in DOMAIN actions' : i \notin DOMAIN actions => actions'[i].type \in Blinds
    BY <1>1, HandInserted
  <2>. QED  BY <2>1 DEF Played, HandActions
<1>2. CASE (RecordedPlayerTurn \/ RecordedForcedFold) /\ h # current_hand_id
  <2>1. PICK row \in ActionRows :
           /\ DOMAIN actions' = 1 .. Len(actions) + 1
           /\ \A i \in DOMAIN actions : actions'[i] = actions[i]
           /\ actions'[Len(actions) + 1] = row
           /\ row.hand = current_hand_id
    BY <1>2, TurnInserted
  <2>2. Len(actions) \in Nat /\ DOMAIN actions = 1 .. Len(actions)
    BY RowsTyped
  <2>3. DOMAIN actions' = DOMAIN actions \cup {Len(actions) + 1}
    BY <2>1, <2>2
  <2>. QED  BY <1>2, <2>1, <2>3 DEF Played, HandActions
<1>3. CASE actions' = actions
  BY <1>3 DEF Played, HandActions
<1>. QED
  BY <1>1, <1>2, <1>3, NothingInserted, PhaseInserted
     DEF RecordedShowdown, RecordShowdown, RecordHandEnd, db_vars

\* What is still to be written stays about the players at the showdown.
LEMMA PendingStep ==
  ASSUME LoopInv, TypeOK', RowsInv, [RecordedNext]_recorded_vars
  PROVE  PendingInv'
<1>1. PendingInv
  BY DEF RowsInv
<1>2. CASE RecordedNextHand \/ RecordedPlayerTurn \/ RecordedForcedFold \/ RecordedNextPhase
  <2>1. ~end_pending /\ UNCHANGED <<unrecorded, end_pending>>
    BY <1>1, <1>2 DEF PendingInv, RecordedNextHand, RecordedPlayerTurn, RecordedForcedFold,
              RecordedTurn, Turn, RecordedNextPhase, NextPhase, showdown_vars
  <2>. QED  BY <1>1, <2>1 DEF PendingInv
<1>3. CASE RecordedShowdown
  <2>1. PICK paid \in [Seats -> Nat] :
           /\ pc = "showdown" /\ pc' = "between" /\ UNCHANGED <<current_hand_id, status>>
           /\ Cardinality(Remaining) <= 1 => ~end_pending' /\ DOMAIN unrecorded' = {}
           /\ Cardinality(Remaining) > 1 =>
                end_pending' /\ unrecorded' = [p \in Remaining |-> paid[p]]
    BY <1>3, ShowdownInserted
  <2>2. current_hand_id # NoHand /\ Remaining' = Remaining
    BY <2>1 DEF RowsInv, InHand, Remaining
  <2>3. Cardinality(Remaining) \in Nat /\ Remaining \in SUBSET Seats
    BY ActiveSeats, SeatSetCardinality
  <2>4. end_pending' = (Cardinality(Remaining) > 1)
    BY <1>3 DEF RecordedShowdown
  <2>5. CASE Cardinality(Remaining) <= 1
    BY <2>1, <2>3, <2>4, <2>5 DEF PendingInv
  <2>6. CASE Cardinality(Remaining) > 1
    <3>1. DOMAIN unrecorded' = Remaining /\ \A p \in Remaining : unrecorded'[p] \in Nat
      BY <2>1, <2>3, <2>6
    <3>. QED  BY <2>1, <2>2, <2>4, <2>6, <3>1 DEF PendingInv
  <2>. QED  BY <2>3, <2>5, <2>6
<1>4. CASE RecordShowdown
  <2>1. PICK p \in DOMAIN unrecorded :
           /\ UNCHANGED <<pc, status, current_hand_id, end_pending>> /\ end_pending
           /\ DOMAIN unrecorded' = DOMAIN unrecorded \ {p}
           /\ \A q \in DOMAIN unrecorded' : unrecorded'[q] = unrecorded[q]
    BY <1>4, RowInserted
  <2>2. Remaining' = Remaining
    BY <2>1 DEF Remaining
  <2>. QED  BY <1>1, <2>1, <2>2 DEF PendingInv
<1>5. CASE RecordHandEnd
  <2>1. /\ end_pending' = FALSE /\ DOMAIN unrecorded = {} /\ UNCHANGED unrecorded
    BY <1>5 DEF RecordHandEnd
  <2>. QED  BY <2>1 DEF PendingInv
<1>6. CASE RecordedSkip \/ RecordedQuit \/ UNCHANGED recorded_vars
  <2>1. /\ UNCHANGED <<status, current_hand_id, unrecorded, end_pending>>
        /\ pc' = pc \/ (pc = "between" /\ pc' = "over")
    BY <1>6, NothingInserted
  <2>2. RecordedQuit => ~end_pending
    BY DEF RecordedQuit
  <2>3. RecordedSkip \/ UNCHANGED recorded_vars => pc' = pc
    BY DEF RecordedSkip, SkipInactive, recorded_vars, vars
  <2>4. Remaining' = Remaining
    BY <2>1 DEF Remaining
  <2>. QED  BY <1>1, <1>6, <2>1, <2>2, <2>3, <2>4 DEF PendingInv
<1>. QED  BY <1>2, <1>3, <1>4, <1>5, <1>6 DEF RecordedNext

\* A step leaves every row with a hand its player was dealt in.
LEMMA RowsStep ==
  ASSUME LoopInv, TypeOK', RowsInv, TableInv, [RecordedNext]_recorded_vars
  PROVE  RowsInv'
<1>0. PendingInv'
  BY PendingStep
<1>1. /\ Len(hands) \in Nat /\ DOMAIN hands = 1 .. Len(hands)
      /\ Len(actions) \in Nat /\ DOMAIN actions = 1 .. Len(actions)
      /\ \A h \in DOMAIN hands : /\ hands[h] \in HandRows
                                 /\ hands[h].player_ids \in SUBSET Seats
                                 /\ hands[h].ended \in BOOLEAN
  BY RowsTyped
<1>2. /\ hands \in Seq(HandRows) /\ actions \in Seq(ActionRows)
      /\ current_hand_id = Len(hands) /\ (InHand => current_hand_id # NoHand)
      /\ \A i \in DOMAIN actions : /\ actions[i].hand \in DOMAIN hands
                                   /\ actions[i].player \in hands[actions[i].hand].player_ids
      /\ \A k \in DOMAIN showdown_results : /\ k \in (DOMAIN hands) \X Seats
                                            /\ k[2] \in hands[k[1]].player_ids
                                            /\ showdown_results[k] \in Nat
  BY DEF RowsInv
<1>3. current_hand_id # NoHand =>
        /\ current_hand_id \in DOMAIN hands
        /\ hands[current_hand_id].player_ids = {p \in Seats : status[p] # "busted"}
  BY <1>1, <1>2 DEF TableInv
<1>4. CASE RecordedNextHand
  <2>. DEFINE r == [player_ids |-> {p \in Seats : status'[p] # "busted"}, ended |-> FALSE]
  <2>1. /\ actions' \in Seq(ActionRows) /\ hands' = Append(hands, r)
        /\ current_hand_id' = Len(hands') /\ UNCHANGED showdown_results
        /\ \A i \in DOMAIN actions : i \in DOMAIN actions' /\ actions'[i] = actions[i]
        /\ \A i \in DOMAIN actions' : i \notin DOMAIN actions =>
             /\ actions'[i].hand = current_hand_id /\ current_hand_id # NoHand
             /\ actions'[i].player \in Playing
    BY <1>4, HandInserted
  <2>2. r \in HandRows
    BY DEF HandRows
  <2>. HIDE DEF r
  <2>3. /\ hands' \in Seq(HandRows) /\ Len(hands') = Len(hands) + 1
        /\ DOMAIN hands' = 1 .. Len(hands) + 1
        /\ \A h \in DOMAIN hands : hands'[h] = hands[h]
    BY <1>1, <1>2, <2>1, <2>2
  <2>4. DOMAIN hands \in SUBSET DOMAIN hands' /\ current_hand_id' # NoHand
    BY <1>1, <2>1, <2>3
  <2>5. ASSUME current_hand_id # NoHand
        PROVE  Playing \in SUBSET hands[current_hand_id].player_ids
    <3>1. \A p \in Seats : status[p] = "busted" => chips[p] = 0
      BY DEF TableInv
    <3>2. \A p \in Playing : p \in Seats /\ chips[p] # 0
      BY DEF Playing
    <3>. QED  BY <1>3, <2>5, <3>1, <3>2
  <2>6. ASSUME NEW i \in DOMAIN actions'
        PROVE  /\ actions'[i].hand \in DOMAIN hands'
               /\ actions'[i].player \in hands'[actions'[i].hand].player_ids
    <3>1. CASE i \in DOMAIN actions
      BY <1>2, <2>1, <2>3, <2>4, <3>1
    <3>2. CASE i \notin DOMAIN actions
      BY <1>3, <2>1, <2>3, <2>4, <2>5, <2>6, <3>2
    <3>. QED  BY <3>1, <3>2
  <2>7. ASSUME NEW k \in DOMAIN showdown_results
        PROVE  /\ k \in (DOMAIN hands') \X Seats /\ k[2] \in hands'[k[1]].player_ids
               /\ showdown_results[k] \in Nat
    <3>1. k \in (DOMAIN hands) \X Seats
      BY <1>2
    <3>2. k[1] \in DOMAIN hands
      BY <3>1
    <3>. QED  BY <1>2, <2>3, <2>4, <3>1, <3>2
  <2>. QED  BY <1>0, <2>1, <2>3, <2>4, <2>6, <2>7 DEF RowsInv
<1>5. CASE RecordedPlayerTurn \/ RecordedForcedFold
  <2>1. PICK row \in ActionRows :
           /\ actions' \in Seq(ActionRows)
           /\ DOMAIN actions' = 1 .. Len(actions) + 1
           /\ \A i \in DOMAIN actions : actions'[i] = actions[i]
           /\ actions'[Len(actions) + 1] = row
           /\ row.hand = current_hand_id /\ row.player = current_player
           /\ status[current_player] = "active" /\ pc = "hand" /\ pc' = "hand"
           /\ UNCHANGED <<hands, board, showdown_results, current_hand_id>>
    BY <1>5, TurnInserted
  <2>2. current_player \in Seats
    BY DEF LoopInv, TypeOK, GameTypeOK
  <2>3. current_hand_id # NoHand /\ InHand
    BY <1>2, <2>1 DEF InHand
  <2>4. row.hand \in DOMAIN hands /\ row.player \in hands[row.hand].player_ids
    BY <1>3, <2>1, <2>2, <2>3
  <2>5. \A i \in DOMAIN actions' : i \in DOMAIN actions \/ i = Len(actions) + 1
    BY <1>1, <2>1
  <2>. QED  BY <1>0, <1>2, <2>1, <2>3, <2>4, <2>5 DEF RowsInv
<1>6. CASE RecordedShowdown
  <2>1. /\ pc' = "between"
        /\ UNCHANGED <<hands, actions, showdown_results, current_hand_id>>
    BY <1>6, ShowdownInserted
  <2>. QED  BY <1>0, <1>2, <2>1 DEF RowsInv, InHand
<1>9. CASE RecordShowdown
  <2>1. PICK p \in DOMAIN unrecorded :
           /\ UNCHANGED <<pc, hands, actions, current_hand_id>>
           /\ end_pending /\ p \in Remaining /\ p \in Seats
           /\ DOMAIN showdown_results' =
                DOMAIN showdown_results \cup {<<current_hand_id, p>>}
           /\ showdown_results'[<<current_hand_id, p>>] = unrecorded[p]
           /\ \A k \in DOMAIN showdown_results :
                k # <<current_hand_id, p>> => showdown_results'[k] = showdown_results[k]
    BY <1>9, RowInserted
  <2>2. unrecorded[p] \in Nat /\ current_hand_id # NoHand
    BY <2>1 DEF RowsInv, PendingInv
  <2>3. p \in hands[current_hand_id].player_ids
    BY <1>3, <2>1, <2>2 DEF Remaining
  <2>4. ASSUME NEW k \in DOMAIN showdown_results'
        PROVE  /\ k \in (DOMAIN hands) \X Seats /\ k[2] \in hands[k[1]].player_ids
               /\ showdown_results'[k] \in Nat
    <3>1. CASE k = <<current_hand_id, p>>
      BY <1>3, <2>1, <2>2, <2>3, <3>1
    <3>2. CASE k # <<current_hand_id, p>>
      BY <1>2, <2>1, <2>4, <3>2
    <3>. QED  BY <3>1, <3>2
  <2>. QED  BY <1>0, <1>2, <2>1, <2>4 DEF RowsInv, InHand
<1>10. CASE RecordHandEnd
  <2>1. /\ UNCHANGED <<pc, actions, showdown_results, current_hand_id>>
        /\ hands' \in Seq(HandRows) /\ DOMAIN hands' = DOMAIN hands /\ Len(hands') = Len(hands)
        /\ \A h \in DOMAIN hands : hands'[h].player_ids = hands[h].player_ids
    BY <1>10, EndInserted
  <2>2. \A i \in DOMAIN actions : /\ actions[i].hand \in DOMAIN hands'
                                  /\ actions[i].player \in hands'[actions[i].hand].player_ids
    BY <1>2, <2>1
  <2>3. ASSUME NEW k \in DOMAIN showdown_results
        PROVE  k \in (DOMAIN hands') \X Seats /\ k[2] \in hands'[k[1]].player_ids
    <3>1. k \in (DOMAIN hands) \X Seats /\ k[1] \in DOMAIN hands
      BY <1>2
    <3>. QED  BY <1>2, <2>1, <3>1
  <2>. QED  BY <1>0, <1>2, <2>1, <2>2, <2>3 DEF RowsInv, InHand
<1>7. CASE RecordedNextPhase
  <2>1. /\ UNCHANGED <<hands, actions, showdown_results, current_hand_id>> /\ pc = "hand"
    BY <1>7, PhaseInserted
  <2>. QED  BY <1>0, <1>2, <2>1 DEF RowsInv, InHand
<1>8. CASE RecordedSkip \/ RecordedQuit \/ UNCHANGED recorded_vars
  <2>1. /\ UNCHANGED <<hands, actions, showdown_results, current_hand_id>>
        /\ pc' = pc \/ (pc = "between" /\ pc' = "over")
    BY <1>8, NothingInserted
  <2>. QED  BY <1>0, <1>2, <2>1 DEF RowsInv, InHand
<1>. QED  BY <1>4, <1>5, <1>6, <1>7, <1>8, <1>9, <1>10 DEF RecordedNext

\* A new hand has no rows: no action, no showdown.
LEMMA NewHandIsEmpty ==
  ASSUME LoopInv, TypeOK', RowsInv, TableInv, RecordedNextHand
  PROVE  /\ current_hand_id' = current_hand_id + 1
         /\ DOMAIN hands' = DOMAIN hands \cup {current_hand_id'}
         /\ current_hand_id' \notin DOMAIN hands
         /\ hands'[current_hand_id'] =
              [player_ids |-> {p \in Seats : status'[p] # "busted"}, ended |-> FALSE]
         /\ \A h \in DOMAIN hands : hands'[h] = hands[h]
         /\ \A i \in DOMAIN actions' : actions'[i].hand # current_hand_id'
         /\ \A k \in DOMAIN showdown_results' : k[1] # current_hand_id'
<1>. DEFINE r == [player_ids |-> {p \in Seats : status'[p] # "busted"}, ended |-> FALSE]
<1>1. /\ hands' = Append(hands, r) /\ current_hand_id' = Len(hands')
      /\ UNCHANGED showdown_results
      /\ \A i \in DOMAIN actions : i \in DOMAIN actions' /\ actions'[i] = actions[i]
      /\ \A i \in DOMAIN actions' : i \notin DOMAIN actions => actions'[i].hand = current_hand_id
  BY HandInserted
<1>. HIDE DEF r
<1>2. /\ Len(hands) \in Nat /\ DOMAIN hands = 1 .. Len(hands) /\ hands \in Seq(HandRows)
      /\ current_hand_id = Len(hands)
      /\ \A i \in DOMAIN actions : actions[i].hand \in DOMAIN hands
      /\ \A k \in DOMAIN showdown_results : k \in (DOMAIN hands) \X Seats
  BY RowsTyped DEF RowsInv
<1>3. /\ Len(hands') = Len(hands) + 1 /\ DOMAIN hands' = 1 .. Len(hands) + 1
      /\ hands'[Len(hands) + 1] = r
      /\ \A h \in DOMAIN hands : hands'[h] = hands[h]
  BY <1>1, <1>2
<1>4. /\ current_hand_id' = Len(hands) + 1 /\ Len(hands) + 1 \notin DOMAIN hands
      /\ DOMAIN hands' = DOMAIN hands \cup {Len(hands) + 1}
  BY <1>1, <1>2, <1>3
<1>5. \A i \in DOMAIN actions' : actions'[i].hand # current_hand_id'
  BY <1>1, <1>2, <1>4
<1>6. \A k \in DOMAIN showdown_results' : k[1] # current_hand_id'
  <2>1. \A k \in DOMAIN showdown_results : k[1] \in DOMAIN hands
    BY <1>2
  <2>. QED  BY <1>1, <1>4, <2>1
<1>. QED  BY <1>2, <1>3, <1>4, <1>5, <1>6 DEF r

\* The rows say who is in the hand and who has folded.
LEMMA TableStep ==
  ASSUME LoopInv, TypeOK', RowsInv, TableInv, [RecordedNext]_recorded_vars
  PROVE  TableInv'
<1>1. /\ current_hand_id # NoHand =>
           /\ hands[current_hand_id].player_ids = {p \in Seats : status[p] # "busted"}
           /\ FoldedIn(current_hand_id) = {p \in Seats : status[p] = "folded"}
      /\ current_hand_id = NoHand => \A p \in Seats : status[p] # "busted"
      /\ \A p \in Seats : status[p] = "busted" => chips[p] = 0
  BY DEF TableInv
<1>2. /\ current_hand_id \in Nat /\ current_hand_id = Len(hands)
      /\ DOMAIN hands = 1 .. Len(hands)
  BY RowsTyped DEF RowsInv
<1>3. CASE RecordedNextHand
  <2>1. /\ current_hand_id' = current_hand_id + 1
        /\ hands'[current_hand_id'].player_ids = {p \in Seats : status'[p] # "busted"}
        /\ \A i \in DOMAIN actions' : actions'[i].hand # current_hand_id'
    BY <1>3, NewHandIsEmpty
  <2>2. FoldedIn(current_hand_id)' = {}
    BY <2>1 DEF FoldedIn, Played, HandActions
  <2>3. \A p \in Seats : status'[p] # "folded" /\ (status'[p] = "busted" => chips'[p] = 0)
    <3>1. /\ status' = [p \in Seats |->
                          IF chips[p] = 0 THEN "busted"
                          ELSE IF BlindPaid(MoveDealerButton, p) = chips[p] THEN "all_in"
                          ELSE "active"]
          /\ chips' = [p \in Seats |-> chips[p] - BlindPaid(MoveDealerButton, p)]
      BY <1>3 DEF RecordedNextHand, NextHand, StartNewHand, DealHand
    <3>2. \A p \in Seats : /\ chips[p] \in Nat /\ BlindPaid(MoveDealerButton, p) \in Nat
                           /\ BlindPaid(MoveDealerButton, p) <= chips[p]
      BY BlindPaidType DEF LoopInv, TypeOK, GameTypeOK
    <3>. QED  BY <3>1, <3>2
  <2>. QED  BY <1>2, <2>1, <2>2, <2>3 DEF TableInv
<1>4. CASE RecordedPlayerTurn \/ RecordedForcedFold
  <2>1. PICK row \in ActionRows :
           /\ DOMAIN actions' = 1 .. Len(actions) + 1
           /\ \A i \in DOMAIN actions : actions'[i] = actions[i]
           /\ actions'[Len(actions) + 1] = row
           /\ row.hand = current_hand_id /\ row.player = current_player
           /\ row.type \notin Blinds /\ pc = "hand"
           /\ \A p \in Seats : /\ status'[p] = "busted" <=> status[p] = "busted"
                               /\ status[p] = "busted" => chips'[p] = chips[p]
                               /\ status'[p] = "folded" <=>
                                    \/ status[p] = "folded"
                                    \/ p = current_player /\ row.type = "fold"
           /\ UNCHANGED <<hands, current_hand_id>>
    BY <1>4, TurnInserted
  <2>2. Len(actions) \in Nat /\ DOMAIN actions = 1 .. Len(actions) /\ current_player \in Seats
    BY RowsTyped DEF LoopInv, TypeOK, GameTypeOK
  <2>3. current_hand_id # NoHand
    BY <2>1 DEF RowsInv, InHand
  <2>4. DOMAIN actions' = DOMAIN actions \cup {Len(actions) + 1}
    BY <2>1, <2>2
  <2>. DEFINE folded(h) == {j \in Played(h) : actions[j].type = "fold"}
  <2>5. Played(current_hand_id)' = Played(current_hand_id) \cup {Len(actions) + 1}
    BY <2>1, <2>4 DEF Played, HandActions
  <2>6. Played(current_hand_id) \in SUBSET DOMAIN actions
    BY DEF Played, HandActions
  <2>7. \A p : p \in FoldedIn(current_hand_id)' <=>
                 \/ p \in FoldedIn(current_hand_id)
                 \/ p = current_player /\ row.type = "fold"
    BY <2>1, <2>5, <2>6 DEF FoldedIn
  <2>8. FoldedIn(current_hand_id)' = {p \in Seats : status'[p] = "folded"}
    BY <1>1, <2>1, <2>2, <2>3, <2>7
  <2>9. \A p \in Seats : status'[p] = "busted" => chips'[p] = 0
    BY <1>1, <2>1
  <2>10. hands'[current_hand_id'].player_ids = {p \in Seats : status'[p] # "busted"}
    BY <1>1, <2>1, <2>3
  <2>. QED  BY <2>1, <2>3, <2>8, <2>9, <2>10 DEF TableInv
<1>5. CASE RecordedShowdown
  <2>1. PICK paid \in [Seats -> Nat] :
           /\ pc = "showdown" /\ UNCHANGED <<hands, actions, current_hand_id, status>>
           /\ \A p \in Seats : p \notin Remaining => paid[p] = 0
           /\ chips' = [p \in Seats |-> chips[p] + paid[p]]
    BY <1>5, ShowdownInserted
  <2>2. FoldedIn(current_hand_id)' = FoldedIn(current_hand_id)
    BY <2>1 DEF FoldedIn, Played, HandActions
  <2>3. \A p \in Seats : status'[p] = "busted" => chips'[p] = 0
    BY <1>1, <2>1 DEF Remaining
  <2>. QED  BY <1>1, <2>1, <2>2, <2>3 DEF TableInv
<1>7. CASE RecordHandEnd
  <2>1. /\ UNCHANGED <<actions, current_hand_id, status, chips>>
        /\ hands'[current_hand_id].player_ids = hands[current_hand_id].player_ids
    BY <1>7, EndInserted
  <2>. QED  BY <1>1, <2>1 DEF TableInv, FoldedIn, Played, HandActions
<1>8. CASE RecordShowdown
  <2>1. UNCHANGED <<hands, actions, current_hand_id, status, chips>>
    BY <1>8, RowInserted
  <2>. QED  BY <1>1, <2>1 DEF TableInv, FoldedIn, Played, HandActions
<1>6. CASE RecordedNextPhase \/ RecordedSkip \/ RecordedQuit \/ UNCHANGED recorded_vars
  <2>1. UNCHANGED <<hands, actions, current_hand_id, status, chips>>
    BY <1>6, PhaseInserted, NothingInserted
  <2>. QED  BY <1>1, <2>1 DEF TableInv, FoldedIn, Played, HandActions
<1>. QED  BY <1>3, <1>4, <1>5, <1>6, <1>7, <1>8 DEF RecordedNext

\* The database agrees with the table.
LEMMA Recording == RecordedSpec => [](LoopInv /\ RowsInv /\ TableInv)
<1>1. RecordedInit => RowsInv /\ TableInv
  <2>. SUFFICES ASSUME RecordedInit PROVE RowsInv /\ TableInv
    OBVIOUS
  <2>1. /\ hands = <<>> /\ actions = <<>> /\ showdown_results = <<>> /\ current_hand_id = 0
        /\ pc = "between" /\ status = [p \in Seats |-> "active"]
        /\ end_pending = FALSE /\ DOMAIN unrecorded = {}
    BY DEF RecordedInit, HistoryInit, Init, GameInit, NoRows
  <2>2. DOMAIN actions = {} /\ DOMAIN showdown_results = {} /\ Len(hands) = 0
    BY <2>1
  <2>3. hands \in Seq(HandRows) /\ actions \in Seq(ActionRows)
    BY <2>1
  <2>. QED  BY <2>1, <2>2, <2>3 DEF RowsInv, PendingInv, TableInv, InHand
<1>2. LoopInv /\ LoopInv' /\ RowsInv /\ TableInv /\ [RecordedNext]_recorded_vars
      => RowsInv' /\ TableInv'
  BY RowsStep, TableStep DEF LoopInv
<1>. QED  BY <1>1, <1>2, RecordedLoop, PTL DEF RecordedSpec

\* A hand that is over is not written to any more: whatever the step, its
\* rows read as they did.
LEMMA PastIsKept ==
  ASSUME LoopInv, TypeOK', RowsInv, TableInv, [RecordedNext]_recorded_vars,
         NEW h \in DOMAIN hands, h # current_hand_id \/ ~Open
  PROVE  /\ h \in DOMAIN hands' /\ hands'[h] = hands[h]
         /\ Played(h)' = Played(h)
         /\ \A i \in Played(h) : actions'[i] = actions[i]
         /\ FoldedIn(h)' = FoldedIn(h)
         /\ Played(h) # {} => LastPot(h)' = LastPot(h)
         /\ Revealed(h)' = Revealed(h)
         /\ \A p \in Revealed(h) : showdown_results'[<<h, p>>] = showdown_results[<<h, p>>]
         /\ HasItsBoard(h) => HasItsBoard(h)'
<1>1. /\ Played(h)' = Played(h)
      /\ \A i \in DOMAIN actions : actions'[i] = actions[i]
  <2>1. (RecordedPlayerTurn \/ RecordedForcedFold) => h # current_hand_id
    <3>1. (RecordedPlayerTurn \/ RecordedForcedFold) => pc = "hand"
      BY DEF RecordedPlayerTurn, RecordedForcedFold, RecordedTurn, Turn
    <3>. QED  BY <3>1 DEF Open, InHand
  <2>. QED  BY <2>1, RowsOfOthers DEF RecordedNext
<1>2. /\ \A i \in Played(h) : actions'[i] = actions[i]
      /\ FoldedIn(h)' = FoldedIn(h)
      /\ Played(h) # {} => LastPot(h)' = LastPot(h)
  <2>1. Played(h) \in SUBSET DOMAIN actions
    BY DEF Played, HandActions
  <2>. QED  BY <1>1, <2>1, HandReadsTheSame
<1>3. CASE RecordedNextHand
  <2>1. UNCHANGED <<board, showdown_results>> /\ h \in DOMAIN hands' /\ hands'[h] = hands[h]
    BY <1>3, HandInserted, NewHandIsEmpty
  <2>. QED  BY <1>1, <1>2, <2>1 DEF Revealed, HasItsBoard
<1>4. CASE RecordedPlayerTurn \/ RecordedForcedFold
  <2>1. UNCHANGED <<hands, board, showdown_results>>
    BY <1>4 DEF RecordedPlayerTurn, RecordedForcedFold, RecordedTurn
  <2>. QED  BY <1>1, <1>2, <2>1 DEF Revealed, HasItsBoard
<1>5. CASE RecordedShowdown
  <2>1. UNCHANGED <<hands, board, showdown_results>>
    BY <1>5, ShowdownInserted
  <2>. QED  BY <1>1, <1>2, <2>1 DEF Revealed, HasItsBoard
<1>8. CASE RecordShowdown
  <2>1. PICK p \in DOMAIN unrecorded :
           /\ UNCHANGED <<hands, board>> /\ end_pending
           /\ DOMAIN showdown_results' =
                DOMAIN showdown_results \cup {<<current_hand_id, p>>}
           /\ \A k \in DOMAIN showdown_results :
                k # <<current_hand_id, p>> => showdown_results'[k] = showdown_results[k]
    BY <1>8, RowInserted
  <2>2. h # current_hand_id
    BY <2>1 DEF Open
  <2>3. Revealed(h)' = Revealed(h)
    BY <2>1, <2>2 DEF Revealed
  <2>4. ASSUME NEW q \in Revealed(h)
        PROVE  showdown_results'[<<h, q>>] = showdown_results[<<h, q>>]
    <3>1. PICK k \in DOMAIN showdown_results : k[1] = h /\ k[2] = q
      BY <2>4 DEF Revealed
    <3>2. k \in (DOMAIN hands) \X Seats
      BY DEF RowsInv
    <3>3. k = <<h, q>> /\ k # <<current_hand_id, p>>
      BY <2>2, <3>1, <3>2
    <3>. QED  BY <2>1, <3>1, <3>3
  <2>. QED  BY <1>1, <1>2, <2>1, <2>3, <2>4 DEF HasItsBoard
<1>9. CASE RecordHandEnd
  <2>1. /\ UNCHANGED <<board, showdown_results>> /\ end_pending
        /\ DOMAIN hands' = DOMAIN hands
        /\ h # current_hand_id => hands'[h] = hands[h]
    BY <1>9, EndInserted
  <2>2. h # current_hand_id
    BY <2>1 DEF Open
  <2>. QED  BY <1>1, <1>2, <2>1, <2>2 DEF Revealed, HasItsBoard
<1>6. CASE RecordedNextPhase
  <2>1. /\ pc = "hand" /\ UNCHANGED <<hands, showdown_results>>
        /\ phase' = "showdown" => board' = board
        /\ phase' # "showdown" =>
             /\ DOMAIN board' = DOMAIN board \cup {<<current_hand_id, phase'>>}
             /\ \A k \in DOMAIN board :
                  k # <<current_hand_id, phase'>> => board'[k] = board[k]
    BY <1>6, PhaseInserted
  <2>2. h # current_hand_id
    BY <2>1 DEF Open, InHand
  <2>3. \A ph : <<h, ph>> # <<current_hand_id, phase'>>
    BY <2>2
  <2>4. HasItsBoard(h) => HasItsBoard(h)'
    BY <2>1, <2>3 DEF HasItsBoard
  <2>. QED  BY <1>1, <1>2, <2>1, <2>4 DEF Revealed
<1>7. CASE RecordedSkip \/ RecordedQuit \/ UNCHANGED recorded_vars
  <2>1. UNCHANGED <<hands, board, showdown_results>>
    BY <1>7, NothingInserted
  <2>. QED  BY <1>1, <1>2, <2>1 DEF Revealed, HasItsBoard
<1>. QED  BY <1>3, <1>4, <1>5, <1>6, <1>7, <1>8, <1>9 DEF RecordedNext

\* The hand in play stays the same hand until it is on record, and a new hand
\* is the only one that is added.
LEMMA HandInPlay ==
  ASSUME LoopInv, TypeOK', RowsInv, TableInv, [RecordedNext]_recorded_vars
  PROVE  /\ RecordedNextHand => ~Open /\ InHand' /\ ~end_pending'
         /\ ~RecordedNextHand =>
              /\ DOMAIN hands' = DOMAIN hands /\ current_hand_id' = current_hand_id
              /\ Open' => Open
              /\ Open => current_hand_id \in DOMAIN hands
              /\ InHand' => InHand
              /\ InHand /\ ~InHand' => RecordedShowdown
              /\ Open /\ ~Open' => RecordedShowdown \/ RecordHandEnd
<1>1. RecordedNextHand => ~Open /\ InHand' /\ ~end_pending'
  BY DEF RecordedNextHand, NextHand, Open, InHand, showdown_vars
<1>2. /\ Open => current_hand_id \in DOMAIN hands
      /\ InHand => ~end_pending
      /\ ~(InHand /\ end_pending)
  <2>1. /\ Len(hands) \in Nat /\ DOMAIN hands = 1 .. Len(hands) /\ current_hand_id = Len(hands)
        /\ Open => current_hand_id # NoHand
        /\ ~(InHand /\ end_pending)
    BY RowsTyped DEF RowsInv, PendingInv, Open, InHand
  <2>. QED  BY <2>1
<1>3. CASE RecordedPlayerTurn \/ RecordedForcedFold
  <2>1. UNCHANGED <<hands, current_hand_id, pc, end_pending>>
    BY <1>3 DEF RecordedPlayerTurn, RecordedForcedFold, RecordedTurn, Turn, showdown_vars
  <2>. QED  BY <1>1, <1>2, <2>1 DEF Open, InHand
<1>4. CASE RecordedShowdown
  <2>1. pc = "showdown" /\ pc' = "between" /\ UNCHANGED <<hands, current_hand_id>>
    BY <1>4, ShowdownInserted
  <2>. QED  BY <1>1, <1>2, <1>4, <2>1 DEF Open, InHand
<1>5. CASE RecordedNextPhase
  <2>1. /\ pc = "hand" /\ pc' \in {"hand", "showdown"} /\ UNCHANGED <<hands, current_hand_id>>
        /\ UNCHANGED end_pending
    BY <1>5, PhaseInserted DEF RecordedNextPhase, showdown_vars
  <2>. QED  BY <1>1, <1>2, <2>1 DEF Open, InHand
<1>6. CASE RecordShowdown
  <2>1. UNCHANGED <<pc, hands, current_hand_id, end_pending>>
    BY <1>6, RowInserted
  <2>. QED  BY <1>1, <1>2, <2>1 DEF Open, InHand
<1>7. CASE RecordHandEnd
  <2>1. UNCHANGED <<pc, current_hand_id>> /\ DOMAIN hands' = DOMAIN hands /\ end_pending
    BY <1>7, EndInserted
  <2>. QED  BY <1>1, <1>2, <1>7, <2>1 DEF Open, InHand
<1>8. CASE RecordedSkip \/ RecordedQuit \/ UNCHANGED recorded_vars
  <2>1. /\ UNCHANGED <<hands, current_hand_id, end_pending>>
        /\ pc' = pc \/ (pc = "between" /\ pc' = "over")
    BY <1>8, NothingInserted
  <2>. QED  BY <1>1, <1>2, <2>1 DEF Open, InHand
<1>. QED  BY <1>1, <1>3, <1>4, <1>5, <1>6, <1>7, <1>8 DEF RecordedNext

-----------------------------------------------------------------------------
(* The pot in the record *)

\* A step keeps the trail of the pot.
LEMMA PotTrailStep ==
  ASSUME LoopInv, TypeOK', RowsInv, TableInv, PotTrail, [RecordedNext]_recorded_vars
  PROVE  PotTrail'
<1>. DEFINE Rising(h) == \A i, j \in Played(h) :
                           i < j => actions[i].pot_after <= actions[j].pot_after
<1>1. /\ \A h \in DOMAIN hands : Rising(h)
      /\ InHand /\ Played(current_hand_id) # {} => LastPot(current_hand_id) = pot
  BY DEF PotTrail
<1>2. ASSUME NEW h \in DOMAIN hands, h # current_hand_id \/ ~Open
      PROVE  Rising(h)'
  <2>1. Played(h)' = Played(h) /\ \A i \in Played(h) : actions'[i] = actions[i]
    BY <1>2, PastIsKept
  <2>. QED  BY <1>1, <2>1
<1>3. CASE RecordedNextHand
  <2>1. /\ ~Open /\ DOMAIN hands' = DOMAIN hands \cup {current_hand_id'}
        /\ \A i \in DOMAIN actions' : actions'[i].hand # current_hand_id'
    BY <1>3, HandInPlay, NewHandIsEmpty
  <2>2. Played(current_hand_id)' = {}
    BY <2>1 DEF Played, HandActions
  <2>3. \A h \in DOMAIN hands' : Rising(h)'
    <3>1. Rising(current_hand_id)'
      BY <2>2
    <3>. HIDE DEF Rising
    <3>. QED  BY <1>2, <2>1, <3>1
  <2>. QED  BY <2>2, <2>3 DEF PotTrail
<1>4. CASE RecordedPlayerTurn \/ RecordedForcedFold
  <2>. DEFINE n == Len(actions) + 1
  <2>1. PICK row \in ActionRows :
           /\ DOMAIN actions' = 1 .. Len(actions) + 1
           /\ \A i \in DOMAIN actions : actions'[i] = actions[i]
           /\ actions'[n] = row
           /\ row.hand = current_hand_id /\ row.type \notin Blinds
           /\ row.pot_after = pot' /\ pot <= pot' /\ pc = "hand" /\ pc' = "hand"
           /\ UNCHANGED <<hands, current_hand_id>>
    BY <1>4, TurnInserted
  <2>2. /\ Len(actions) \in Nat /\ DOMAIN actions = 1 .. Len(actions)
        /\ \A i \in DOMAIN actions : actions[i].pot_after \in Nat
        /\ pot \in Nat /\ pot' \in Nat
    BY RowsTyped DEF LoopInv, TypeOK, GameTypeOK
  <2>3. /\ DOMAIN actions' = DOMAIN actions \cup {n} /\ n \in Nat
        /\ \A i \in DOMAIN actions : i \in Nat /\ i < n
    BY <2>1, <2>2
  <2>. HIDE DEF n
  <2>4. Played(current_hand_id)' = Played(current_hand_id) \cup {n}
    BY <2>1, <2>3 DEF Played, HandActions
  <2>5. Played(current_hand_id) \in SUBSET DOMAIN actions
    BY DEF Played, HandActions
  <2>6. InHand /\ InHand' /\ current_hand_id \in DOMAIN hands
    <3>1. InHand /\ InHand' /\ Open
      BY <2>1 DEF InHand, Open
    <3>2. ~RecordedNextHand
      BY <3>1, HandInPlay
    <3>. QED  BY <3>1, <3>2, HandInPlay
  <2>7. \A i \in Played(current_hand_id) : actions[i].pot_after <= pot
    <3>. SUFFICES ASSUME NEW i \in Played(current_hand_id)
                  PROVE  actions[i].pot_after <= pot
      OBVIOUS
    <3>. DEFINE g == Greatest(Played(current_hand_id))
    <3>1. g \in Played(current_hand_id) /\ i <= g
      BY LastRow
    <3>2. actions[g].pot_after = pot
      BY <1>1, <2>6 DEF LastPot
    <3>. HIDE DEF g
    <3>3. i = g \/ i < g
      BY <2>3, <2>5, <3>1
    <3>4. i < g => actions[i].pot_after <= actions[g].pot_after
      BY <1>1, <2>6, <3>1
    <3>. QED  BY <2>2, <3>2, <3>3, <3>4
  <2>8. Rising(current_hand_id)'
    <3>. SUFFICES ASSUME NEW i \in Played(current_hand_id)', NEW j \in Played(current_hand_id)',
                         i < j
                  PROVE  actions'[i].pot_after <= actions'[j].pot_after
      BY <2>1
    <3>1. i \in Played(current_hand_id)
      BY <2>3, <2>4, <2>5
    <3>2. CASE j = n
      <4>1. actions'[i] = actions[i] /\ actions[i].pot_after <= pot /\ actions[i].pot_after \in Nat
        BY <2>1, <2>2, <2>5, <2>7, <3>1
      <4>. QED  BY <2>1, <2>2, <3>2, <4>1
    <3>3. CASE j \in Played(current_hand_id)
      <4>1. actions'[i] = actions[i] /\ actions'[j] = actions[j]
        BY <2>1, <2>5, <3>1, <3>3
      <4>2. actions[i].pot_after <= actions[j].pot_after
        BY <1>1, <2>6, <3>1, <3>3
      <4>. QED  BY <4>1, <4>2
    <3>. QED  BY <2>4, <3>2, <3>3
  <2>9. LastPot(current_hand_id)' = pot'
    <3>1. RowsInv'
      BY <1>4, RowsStep
    <3>2. Greatest(Played(current_hand_id)') = n
      <4>. DEFINE P == Played(current_hand_id)'
      <4>1. n \in P /\ P \in SUBSET Nat /\ \A k \in P : k <= n
        BY <2>3, <2>4, <2>5
      <4>. HIDE DEF P
      <4>2. Greatest(P) = n
        BY <2>3, <4>1, GreatestIsUpper
      <4>. QED  BY <4>2 DEF P
    <3>. QED  BY <2>1, <3>2 DEF LastPot
  <2>10. \A h \in DOMAIN hands' : Rising(h)'
    <3>. HIDE DEF Rising
    <3>. QED  BY <1>2, <2>1, <2>8
  <2>. QED  BY <2>1, <2>9, <2>10 DEF PotTrail
<1>5. CASE ~RecordedNextHand /\ ~(RecordedPlayerTurn \/ RecordedForcedFold)
  <2>1. /\ DOMAIN hands' = DOMAIN hands /\ current_hand_id' = current_hand_id
        /\ InHand' => InHand
    BY <1>5, HandInPlay
  <2>2. /\ UNCHANGED actions
        /\ InHand' => UNCHANGED pot
    <3>1. CASE RecordedShowdown
      BY <3>1, ShowdownInserted DEF InHand
    <3>2. CASE RecordShowdown \/ RecordHandEnd
      BY <3>2, RowInserted, EndInserted
    <3>. QED  BY <1>5, <3>1, <3>2, PhaseInserted, NothingInserted DEF RecordedNext
  <2>. QED  BY <1>1, <2>1, <2>2 DEF PotTrail, Played, HandActions, LastPot
<1>. QED  BY <1>3, <1>4, <1>5

\* The pot can be followed through the record of every hand: the pot_after of
\* its actions never falls, and the last one is the pot on the table.
THEOREM PotCanBeFollowed == RecordedSpec => []PotTrail
<1>1. RecordedInit => PotTrail
  BY DEF RecordedInit, HistoryInit, Init, InHand, PotTrail
<1>2. /\ LoopInv /\ LoopInv' /\ RowsInv /\ TableInv /\ PotTrail
      /\ [RecordedNext]_recorded_vars
      => PotTrail'
  BY PotTrailStep DEF LoopInv
<1>. QED  BY <1>1, <1>2, Recording, PTL DEF RecordedSpec

-----------------------------------------------------------------------------
(* What is revealed *)

\* The players that the record leaves in the hand are those at the table.
LEMMA RemainingOnRecord ==
  ASSUME LoopInv, TableInv, current_hand_id # NoHand
  PROVE  hands[current_hand_id].player_ids \ FoldedIn(current_hand_id) = Remaining
<1>1. status \in [Seats -> Statuses]
  BY DEF LoopInv, TypeOK, GameTypeOK
<1>. QED  BY <1>1 DEF TableInv, Remaining, Statuses

\* While the hand is open its record is only changed by its showdown.
LEMMA OpenHandIsKept ==
  ASSUME LoopInv, TypeOK', RowsInv, TableInv, [RecordedNext]_recorded_vars, Open,
         ~RecordedShowdown, ~RecordShowdown, ~RecordHandEnd
  PROVE  /\ UNCHANGED <<hands, showdown_results, current_hand_id, unrecorded, end_pending>>
         /\ end_pending => UNCHANGED <<actions, board, status>>
<1>1. ~RecordedNextHand
  BY HandInPlay
<1>2. CASE RecordedPlayerTurn \/ RecordedForcedFold
  <2>1. /\ UNCHANGED <<hands, showdown_results, current_hand_id, unrecorded, end_pending>>
        /\ pc = "hand"
    BY <1>2 DEF RecordedPlayerTurn, RecordedForcedFold, RecordedTurn, Turn, showdown_vars
  <2>. QED  BY <2>1 DEF RowsInv, PendingInv
<1>3. CASE RecordedNextPhase
  <2>1. /\ UNCHANGED <<hands, showdown_results, current_hand_id, unrecorded, end_pending>>
        /\ pc = "hand"
    BY <1>3 DEF RecordedNextPhase, NextPhase, showdown_vars
  <2>. QED  BY <2>1 DEF RowsInv, PendingInv
<1>. QED  BY <1>1, <1>2, <1>3, NothingInserted DEF RecordedNext

\* The open hand has not ended on record; nothing of it is revealed while it
\* is played, and at its showdown what has been written is.
OpenInv ==
  /\ Open => ~hands[current_hand_id].ended
  /\ InHand => Revealed(current_hand_id) = {}
  /\ end_pending => Revealed(current_hand_id) = Remaining \ DOMAIN unrecorded

LEMMA OpenStep ==
  ASSUME LoopInv, TypeOK', RowsInv, RowsInv', TableInv, OpenInv, [RecordedNext]_recorded_vars
  PROVE  OpenInv'
<1>1. CASE RecordedNextHand
  <2>1. /\ InHand' /\ ~end_pending' /\ hands'[current_hand_id'].ended = FALSE
        /\ \A k \in DOMAIN showdown_results' : k[1] # current_hand_id'
    BY <1>1, HandInPlay, NewHandIsEmpty
  <2>2. Revealed(current_hand_id)' = {}
    BY <2>1 DEF Revealed
  <2>. QED  BY <2>1, <2>2 DEF OpenInv
<1>2. ASSUME ~RecordedNextHand
      PROVE  /\ Open' => Open /\ current_hand_id' = current_hand_id
             /\ InHand' => InHand
  BY <1>2, HandInPlay
<1>3. CASE RecordedShowdown
  <2>1. PICK paid \in [Seats -> Nat] :
           /\ pc = "showdown" /\ pc' = "between"
           /\ UNCHANGED <<hands, actions, board, showdown_results, current_hand_id, status>>
           /\ Cardinality(Remaining) <= 1 => ~end_pending' /\ DOMAIN unrecorded' = {}
           /\ Cardinality(Remaining) > 1 =>
                end_pending' /\ unrecorded' = [p \in Remaining |-> paid[p]]
    BY <1>3, ShowdownInserted
  <2>2. Cardinality(Remaining) \in Nat
    BY ActiveSeats, SeatSetCardinality
  <2>3. InHand /\ ~InHand' /\ Open /\ Remaining' = Remaining
    BY <2>1 DEF InHand, Open, Remaining
  <2>4. Revealed(current_hand_id)' = {}
    BY <2>1, <2>3 DEF OpenInv, Revealed
  <2>5. ~hands'[current_hand_id'].ended
    BY <2>1, <2>3 DEF OpenInv
  <2>6. end_pending' => DOMAIN unrecorded' = Remaining
    BY <2>1, <2>2
  <2>. QED  BY <2>3, <2>4, <2>5, <2>6 DEF OpenInv
<1>4. CASE RecordShowdown
  <2>1. PICK p \in DOMAIN unrecorded :
           /\ UNCHANGED <<pc, status, hands, current_hand_id, end_pending>>
           /\ end_pending /\ p \in Remaining
           /\ DOMAIN unrecorded' = DOMAIN unrecorded \ {p}
           /\ DOMAIN showdown_results' = DOMAIN showdown_results \cup {<<current_hand_id, p>>}
    BY <1>4, RowInserted
  <2>2. Revealed(current_hand_id)' = Revealed(current_hand_id) \cup {p}
    <3>. DEFINE key == <<current_hand_id, p>>
    <3>1. key[1] = current_hand_id /\ key[2] = p
      OBVIOUS
    <3>. HIDE DEF key
    <3>2. DOMAIN showdown_results' = DOMAIN showdown_results \cup {key}
      BY <2>1 DEF key
    <3>. QED  BY <2>1, <3>1, <3>2 DEF Revealed
  <2>3. Remaining' = Remaining /\ InHand' = InHand /\ ~InHand
    BY <2>1 DEF Remaining, InHand, RowsInv, PendingInv
  <2>. QED  BY <2>1, <2>2, <2>3 DEF OpenInv, Open
<1>5. CASE RecordHandEnd
  <2>1. UNCHANGED pc /\ end_pending /\ ~end_pending'
    BY <1>5, EndInserted
  <2>2. ~InHand'
    BY <2>1 DEF InHand, RowsInv, PendingInv
  <2>. QED  BY <2>1, <2>2 DEF OpenInv, Open
<1>6. CASE /\ ~RecordedNextHand
           /\ ~RecordedShowdown /\ ~RecordShowdown /\ ~RecordHandEnd
  <2>. SUFFICES ASSUME Open'
                PROVE  OpenInv'
    BY DEF OpenInv, Open
  <2>1. /\ Open /\ (InHand' => InHand)
        /\ UNCHANGED <<hands, showdown_results, current_hand_id, unrecorded, end_pending>>
        /\ end_pending => UNCHANGED status
    BY <1>2, <1>6, OpenHandIsKept
  <2>. QED  BY <2>1 DEF OpenInv, Revealed, Remaining
<1>. QED  BY <1>1, <1>3, <1>4, <1>5, <1>6

\* How an open hand comes to be over: it is won by default, or the last of
\* its showdown is on record.
LEMMA HandCloses ==
  ASSUME LoopInv, TypeOK', RowsInv, TableInv, OpenInv, [RecordedNext]_recorded_vars,
         NEW h, h = current_hand_id, Open, ~Open'
  PROVE  /\ UNCHANGED <<actions, board, showdown_results, status>>
         /\ h \in DOMAIN hands /\ current_hand_id' = h /\ Revealed(h)' = Revealed(h)
         /\ hands[h].player_ids \ FoldedIn(h) = Remaining
         /\ hands'[h].player_ids = hands[h].player_ids /\ FoldedIn(h)' = FoldedIn(h)
         /\ \/ hands'[h] = hands[h] /\ Cardinality(Remaining) <= 1 /\ Revealed(h) = {}
            \/ end_pending /\ hands'[h].ended /\ Revealed(h) = Remaining
<1>1. /\ RecordedShowdown \/ RecordHandEnd
      /\ h \in DOMAIN hands /\ current_hand_id' = h
  BY HandInPlay
<1>2. hands[h].player_ids \ FoldedIn(h) = Remaining
  <2>1. h # NoHand
    BY <1>1, RowsTyped
  <2>. QED  BY <2>1, RemainingOnRecord
<1>3. CASE RecordedShowdown
  <2>1. /\ UNCHANGED <<hands, actions, board, showdown_results, status>> /\ pc = "showdown"
        /\ Cardinality(Remaining) > 1 => end_pending'
    BY <1>3, ShowdownInserted
  <2>2. Cardinality(Remaining) \in Nat
    BY ActiveSeats, SeatSetCardinality
  <2>3. Cardinality(Remaining) <= 1 /\ Revealed(h) = {}
    BY <2>1, <2>2 DEF Open, OpenInv, InHand
  <2>4. FoldedIn(h)' = FoldedIn(h) /\ Revealed(h)' = Revealed(h)
    BY <2>1 DEF FoldedIn, Played, HandActions, Revealed
  <2>. QED  BY <1>1, <1>2, <2>1, <2>3, <2>4
<1>4. CASE RecordHandEnd
  <2>1. /\ UNCHANGED <<actions, board, showdown_results, status>> /\ end_pending
        /\ DOMAIN unrecorded = {} /\ hands'[h].ended
        /\ hands'[h].player_ids = hands[h].player_ids
    BY <1>4, EndInserted
  <2>2. Revealed(h) = Remaining
    BY <2>1 DEF OpenInv
  <2>3. FoldedIn(h)' = FoldedIn(h) /\ Revealed(h)' = Revealed(h)
    BY <2>1 DEF FoldedIn, Played, HandActions, Revealed
  <2>. QED  BY <1>1, <1>2, <2>1, <2>2, <2>3
<1>. QED  BY <1>1, <1>3, <1>4

\* A step reveals the hands of those at the showdown and no others.
LEMMA HiddenStep ==
  ASSUME LoopInv, LoopInv', RowsInv, RowsInv', TableInv, TableInv', OpenInv, OpenInv',
         FoldedCardsStayHidden, [RecordedNext]_recorded_vars
  PROVE  FoldedCardsStayHidden'
<1>. DEFINE Hidden(h) ==
              /\ Revealed(h) \subseteq hands[h].player_ids \ FoldedIn(h)
              /\ Revealed(h) # {} => h < current_hand_id \/ ~InHand
              /\ hands[h].ended => Revealed(h) = hands[h].player_ids \ FoldedIn(h)
<1>1. TypeOK' /\ \A h \in DOMAIN hands : Hidden(h)
  BY DEF FoldedCardsStayHidden, LoopInv
<1>2. /\ Len(hands) \in Nat /\ DOMAIN hands = 1 .. Len(hands) /\ current_hand_id = Len(hands)
  BY RowsTyped DEF RowsInv
<1>3. /\ RecordedNextHand => /\ ~Open /\ DOMAIN hands' = DOMAIN hands \cup {current_hand_id'}
                             /\ current_hand_id' = current_hand_id + 1
                             /\ hands'[current_hand_id'].ended = FALSE
                             /\ \A k \in DOMAIN showdown_results' : k[1] # current_hand_id'
      /\ ~RecordedNextHand => /\ DOMAIN hands' = DOMAIN hands
                              /\ current_hand_id' = current_hand_id
                              /\ InHand' => InHand
  BY <1>1, HandInPlay, NewHandIsEmpty
<1>4. ASSUME NEW h \in DOMAIN hands, h # current_hand_id \/ ~Open
      PROVE  Hidden(h)'
  <2>1. /\ hands'[h] = hands[h] /\ FoldedIn(h)' = FoldedIn(h) /\ Revealed(h)' = Revealed(h)
    BY <1>1, <1>4, PastIsKept
  <2>2. h < current_hand_id' \/ ~InHand'
    BY <1>2, <1>3, <1>4 DEF Open
  <2>. QED  BY <1>1, <2>1, <2>2
<1>5. RecordedNextHand => Hidden(current_hand_id)'
  <2>1. RecordedNextHand => Revealed(current_hand_id)' = {}
    BY <1>3 DEF Revealed
  <2>. QED  BY <1>3, <2>1
<1>6. ASSUME NEW h \in DOMAIN hands', h = current_hand_id, Open, ~RecordedNextHand
      PROVE  Hidden(h)'
  <2>1. CASE ~Open'
    <3>1. /\ current_hand_id' = h /\ Revealed(h)' = Revealed(h)
          /\ hands[h].player_ids \ FoldedIn(h) = Remaining
          /\ hands'[h].player_ids = hands[h].player_ids /\ FoldedIn(h)' = FoldedIn(h)
          /\ \/ hands'[h] = hands[h] /\ Revealed(h) = {}
             \/ Revealed(h) = Remaining
          /\ ~hands[h].ended
      BY <1>1, <1>6, <2>1, HandCloses DEF OpenInv
    <3>. QED  BY <2>1, <3>1 DEF Open
  <2>2. CASE Open'
    <3>1. current_hand_id' = h /\ h # NoHand
      BY <1>2, <1>3, <1>6
    <3>2. (hands[current_hand_id].player_ids \ FoldedIn(current_hand_id) = Remaining)'
      <4>1. status' \in [Seats -> Statuses]
        BY DEF LoopInv, TypeOK, GameTypeOK
      <4>. QED  BY <3>1, <4>1 DEF TableInv, Remaining, Statuses
    <3>3. /\ ~hands'[h].ended
          /\ InHand' => Revealed(h)' = {}
          /\ ~InHand' => Revealed(h)' \subseteq Remaining'
      BY <2>2, <3>1 DEF OpenInv, Open
    <3>. QED  BY <3>1, <3>2, <3>3
  <2>. QED  BY <2>1, <2>2
<1>7. \A h \in DOMAIN hands' : Hidden(h)'
  <2>. HIDE DEF Hidden
  <2>. QED  BY <1>3, <1>4, <1>5, <1>6
<1>. QED  BY <1>7 DEF FoldedCardsStayHidden

LEMMA Hiding == RecordedSpec => [](OpenInv /\ FoldedCardsStayHidden)
<1>1. RecordedInit => OpenInv /\ FoldedCardsStayHidden
  BY DEF RecordedInit, HistoryInit, Init, InHand, Open, OpenInv, FoldedCardsStayHidden
<1>2. /\ LoopInv /\ LoopInv' /\ RowsInv /\ RowsInv' /\ TableInv /\ TableInv'
      /\ OpenInv /\ FoldedCardsStayHidden /\ [RecordedNext]_recorded_vars
      => OpenInv' /\ FoldedCardsStayHidden'
  BY OpenStep, HiddenStep DEF LoopInv
<1>. QED  BY <1>1, <1>2, Recording, PTL DEF RecordedSpec

\* docs/IMPLEMENTATION_SUMMARY.md:66 holds of the record in every game and
\* between any two of its transactions: the cards it shows are those of
\* players at the showdown, never those of a folded hand or of a hand that is
\* still played, and a hand marked as ended shows all of them.
THEOREM FoldedCardsAreHidden == RecordedSpec => []FoldedCardsStayHidden
BY Hiding, PTL

-----------------------------------------------------------------------------
(* What is on record of a hand that is over *)

\* A step leaves the cards of the phases reached on record.
LEMMA CardsStep ==
  ASSUME LoopInv, TypeOK', RowsInv, TableInv, CardsInv, [RecordedNext]_recorded_vars
  PROVE  CardsInv'
<1>. USE DEF OnBoard
<1>0. pc' \in {"hand", "showdown"} => ~end_pending'
  <2>1. PendingInv'
    BY PendingStep
  <2>. QED  BY <2>1 DEF PendingInv
<1>1. CASE RecordedNextHand
  <2>1. pc' = "hand" /\ phase' = "preflop" /\ ~end_pending'
    BY <1>1, HandInPlay DEF RecordedNextHand, NextHand, StartNewHand, DealHand
  <2>. QED  BY <2>1 DEF CardsInv
<1>2. CASE RecordedPlayerTurn \/ RecordedForcedFold
  <2>1. pc = "hand" /\ pc' = "hand" /\ UNCHANGED <<board, current_hand_id, phase>>
    BY <1>2, TurnInserted
  <2>. QED  BY <1>0, <2>1 DEF CardsInv
<1>3. CASE RecordedShowdown
  <2>1. /\ pc = "showdown" /\ pc' = "between" /\ UNCHANGED <<board, current_hand_id>>
        /\ Cardinality(Remaining) <= 1 => ~end_pending'
    BY <1>3, ShowdownInserted
  <2>2. Cardinality(Remaining) \in Nat
    BY ActiveSeats, SeatSetCardinality
  <2>3. end_pending' => HasItsBoard(current_hand_id)
    BY <2>1, <2>2 DEF CardsInv, HandIsDecided
  <2>. QED  BY <2>1, <2>3 DEF CardsInv, HasItsBoard
<1>6. CASE RecordShowdown \/ RecordHandEnd
  <2>1. /\ UNCHANGED <<pc, board, current_hand_id>> /\ pc = "between" /\ end_pending
    BY <1>6, RowInserted, EndInserted DEF RowsInv, PendingInv
  <2>. QED  BY <2>1 DEF CardsInv, HasItsBoard
<1>4. CASE RecordedNextPhase
  <2>1. /\ pc = "hand" /\ pc' = IF phase' = "showdown" THEN "showdown" ELSE "hand"
        /\ UNCHANGED <<current_hand_id, status>> /\ phase \in BettingPhases
        /\ phase' = "showdown" => board' = board /\ (HandIsDecided \/ phase = "river")
        /\ phase' # "showdown" =>
             /\ phase' = NextPhaseOf(phase) /\ phase # "river"
             /\ DOMAIN board' = DOMAIN board \cup {<<current_hand_id, phase'>>}
             /\ board'[<<current_hand_id, phase'>>] = DealtBy(phase')
             /\ \A k \in DOMAIN board :
                  k # <<current_hand_id, phase'>> => board'[k] = board[k]
    BY <1>4, PhaseInserted
  <2>2. /\ phase \in {"flop", "turn", "river"} => OnBoard(current_hand_id, "flop")
        /\ phase \in {"turn", "river"} => OnBoard(current_hand_id, "turn")
        /\ phase = "river" => OnBoard(current_hand_id, "river")
    BY <2>1 DEF CardsInv
  <2>3. CASE phase' = "showdown"
    <3>1. HandIsDecided' <=> HandIsDecided
      BY <2>1 DEF HandIsDecided, Remaining
    <3>2. pc' = "showdown" /\ board' = board
      BY <2>1, <2>3
    <3>3. phase = "river" => HasItsBoard(current_hand_id)
      BY <2>2 DEF HasItsBoard
    <3>. QED  BY <2>1, <2>3, <3>1, <3>2, <3>3, <1>0 DEF CardsInv, HasItsBoard
  <2>4. CASE phase' # "showdown"
    <3>1. /\ pc' = "hand"
          /\ \/ phase = "preflop" /\ phase' = "flop"
             \/ phase = "flop" /\ phase' = "turn"
             \/ phase = "turn" /\ phase' = "river"
      BY <2>1, <2>4 DEF BettingPhases, NextPhaseOf
    <3>2. OnBoard(current_hand_id, phase)' /\ current_hand_id' = current_hand_id
      BY <2>1, <2>4
    <3>3. ASSUME NEW ph, ph # phase', OnBoard(current_hand_id, ph)
          PROVE  OnBoard(current_hand_id, ph)'
      <4>1. <<current_hand_id, ph>> # <<current_hand_id, phase'>>
        BY <3>3
      <4>. QED  BY <2>1, <2>4, <3>3, <4>1
    <3>. HIDE DEF OnBoard
    <3>4. CASE phase = "preflop" /\ phase' = "flop"
      BY <3>1, <3>2, <3>4, <1>0 DEF CardsInv
    <3>5. CASE phase = "flop" /\ phase' = "turn"
      BY <2>2, <3>1, <3>2, <3>3, <3>5, <1>0 DEF CardsInv
    <3>6. CASE phase = "turn" /\ phase' = "river"
      BY <2>2, <3>1, <3>2, <3>3, <3>6, <1>0 DEF CardsInv
    <3>. QED  BY <3>1, <3>4, <3>5, <3>6
  <2>. QED  BY <2>3, <2>4
<1>5. CASE RecordedSkip \/ RecordedQuit \/ UNCHANGED recorded_vars
  <2>1. /\ UNCHANGED <<board, current_hand_id, status, phase>>
        /\ UNCHANGED end_pending
        /\ pc' = pc \/ (pc = "between" /\ pc' = "over")
    BY <1>5, NothingInserted
  <2>. QED  BY <2>1 DEF CardsInv, HasItsBoard, HandIsDecided, Remaining
<1>. QED  BY <1>1, <1>2, <1>3, <1>4, <1>5, <1>6 DEF RecordedNext

\* A step leaves every hand that is over as its record says.
LEMMA PastStep ==
  ASSUME LoopInv, TypeOK', RowsInv, TableInv, CardsInv, OpenInv, OpenInv',
         PastHandsAreOnRecord, [RecordedNext]_recorded_vars
  PROVE  PastHandsAreOnRecord'
<1>. DEFINE OnRecord(h) ==
              /\ Finished(h) /\ Contested(h) => hands[h].ended /\ HasItsBoard(h)
              /\ hands[h].ended => Finished(h)
<1>1. \A h \in DOMAIN hands : OnRecord(h)
  BY DEF PastHandsAreOnRecord
<1>2. /\ Len(hands) \in Nat /\ DOMAIN hands = 1 .. Len(hands) /\ current_hand_id = Len(hands)
  BY RowsTyped DEF RowsInv
<1>3. /\ RecordedNextHand => /\ ~Open /\ DOMAIN hands' = DOMAIN hands \cup {current_hand_id'}
                             /\ current_hand_id' = current_hand_id + 1
                             /\ hands'[current_hand_id'].ended = FALSE /\ Open'
      /\ ~RecordedNextHand => /\ DOMAIN hands' = DOMAIN hands
                              /\ current_hand_id' = current_hand_id
                              /\ Open' => Open
  BY HandInPlay, NewHandIsEmpty DEF Open
<1>4. ASSUME NEW h \in DOMAIN hands, h # current_hand_id \/ ~Open
      PROVE  OnRecord(h)'
  <2>1. Finished(h) /\ Finished(h)'
    BY <1>2, <1>3, <1>4 DEF Finished
  <2>2. /\ hands'[h] = hands[h] /\ FoldedIn(h)' = FoldedIn(h)
        /\ HasItsBoard(h) => HasItsBoard(h)'
    BY <1>4, PastIsKept
  <2>3. Contested(h)' <=> Contested(h)
    BY <2>2 DEF Contested
  <2>. QED  BY <1>1, <2>1, <2>2, <2>3
<1>5. RecordedNextHand => OnRecord(current_hand_id)'
  <2>1. RecordedNextHand => ~Finished(current_hand_id)'
    BY <1>2, <1>3 DEF Finished
  <2>. QED  BY <1>3, <2>1
<1>6. ASSUME NEW h \in DOMAIN hands', h = current_hand_id, Open, ~RecordedNextHand
      PROVE  OnRecord(h)'
  <2>1. current_hand_id' = h /\ h \in Nat /\ (Finished(h)' <=> ~Open')
    BY <1>2, <1>3, <1>6 DEF Finished
  <2>2. CASE Open'
    BY <2>1, <2>2 DEF OpenInv
  <2>3. CASE ~Open'
    <3>1. /\ UNCHANGED board
          /\ hands[h].player_ids \ FoldedIn(h) = Remaining
          /\ hands'[h].player_ids = hands[h].player_ids /\ FoldedIn(h)' = FoldedIn(h)
          /\ \/ Cardinality(Remaining) <= 1
             \/ end_pending /\ hands'[h].ended
      BY <1>6, <2>3, HandCloses
    <3>2. Cardinality(Remaining) \in Nat
      BY ActiveSeats, SeatSetCardinality
    <3>3. Contested(h)' <=> Cardinality(Remaining) > 1
      BY <3>1 DEF Contested
    <3>4. end_pending => HasItsBoard(h)'
      BY <1>6, <3>1 DEF CardsInv, HasItsBoard
    <3>. QED  BY <2>1, <2>3, <3>1, <3>2, <3>3, <3>4
  <2>. QED  BY <2>2, <2>3
<1>7. \A h \in DOMAIN hands' : OnRecord(h)'
  <2>. HIDE DEF OnRecord
  <2>. QED  BY <1>3, <1>4, <1>5, <1>6
<1>. QED  BY <1>7 DEF PastHandsAreOnRecord

\* Whatever is asked of the database after a hand that came to a showdown, it
\* has the hand complete: ended, with all its cards; and it calls no hand
\* ended that is not over.
THEOREM PastIsOnRecord == RecordedSpec => []PastHandsAreOnRecord
<1>1. RecordedInit => CardsInv /\ PastHandsAreOnRecord
  BY DEF RecordedInit, HistoryInit, Init, CardsInv, PastHandsAreOnRecord
<1>2. /\ LoopInv /\ LoopInv' /\ RowsInv /\ TableInv /\ CardsInv /\ OpenInv /\ OpenInv'
      /\ PastHandsAreOnRecord /\ [RecordedNext]_recorded_vars
      => CardsInv' /\ PastHandsAreOnRecord'
  BY CardsStep, PastStep DEF LoopInv
<1>. QED  BY <1>1, <1>2, Recording, Hiding, PTL DEF RecordedSpec

-----------------------------------------------------------------------------
(* What is won *)

\* What the record shows the players of a hand to have won.
Won(hand) ==
  Sum([p \in Seats |-> IF p \in Revealed(hand) THEN showdown_results[<<hand, p>>] ELSE 0], N)

\* While a showdown is written down, the rows there are and those to come make
\* up what was paid, and that was the pot.
PaidInv ==
  end_pending => \E paid \in [Seats -> Nat] :
    /\ \A p \in Seats : p \notin Remaining => paid[p] = 0
    /\ \A p \in DOMAIN unrecorded : unrecorded[p] = paid[p]
    /\ \A p \in Revealed(current_hand_id) : showdown_results[<<current_hand_id, p>>] = paid[p]
    /\ Played(current_hand_id) # {} =>
         /\ Sum(paid, N) <= LastPot(current_hand_id)
         /\ FoldedIn(current_hand_id) = {} => Sum(paid, N) = LastPot(current_hand_id)

\* A hand reads the same while no action is inserted.
LEMMA SameActions ==
  ASSUME UNCHANGED actions, NEW h
  PROVE  Played(h)' = Played(h) /\ FoldedIn(h)' = FoldedIn(h) /\ LastPot(h)' = LastPot(h)
BY DEF Played, HandActions, LastPot, FoldedIn

LEMMA PaidStep ==
  ASSUME LoopInv, TypeOK', RowsInv, TableInv, OpenInv, PotTrail, PaidInv,
         [RecordedNext]_recorded_vars
  PROVE  PaidInv'
<1>. SUFFICES ASSUME end_pending'
              PROVE  PaidInv'
  BY DEF PaidInv
<1>1. ~RecordedNextHand
  BY HandInPlay
<1>2. /\ Open /\ current_hand_id' = current_hand_id /\ current_hand_id \in DOMAIN hands
  BY <1>1, HandInPlay DEF Open
<1>3. PICK c : c = current_hand_id
  OBVIOUS
<1>. DEFINE Fits(q) == Played(c) # {} => /\ Sum(q, N) <= LastPot(c)
                                         /\ FoldedIn(c) = {} => Sum(q, N) = LastPot(c)
<1>4. CASE RecordedShowdown
  <2>1. PICK paid \in [Seats -> Nat] :
           /\ pc = "showdown"
           /\ UNCHANGED <<hands, actions, board, showdown_results, current_hand_id, status>>
           /\ \A p \in Seats : p \notin Remaining => paid[p] = 0
           /\ Sum(paid, N) <= pot
           /\ (\A p \in Seats : status[p] # "folded") => Sum(paid, N) = pot
           /\ Cardinality(Remaining) <= 1 => ~end_pending'
           /\ Cardinality(Remaining) > 1 => unrecorded' = [p \in Remaining |-> paid[p]]
    BY <1>4, ShowdownInserted
  <2>2. Cardinality(Remaining) \in Nat
    BY ActiveSeats, SeatSetCardinality
  <2>3. \A p \in DOMAIN unrecorded' : unrecorded'[p] = paid[p]
    BY <2>1, <2>2
  <2>4. InHand /\ Remaining' = Remaining
    BY <2>1 DEF InHand, Remaining
  <2>5. Revealed(current_hand_id)' = {}
    BY <1>2, <2>1, <2>4 DEF OpenInv, Revealed
  <2>6. Played(c) # {} => LastPot(c) = pot
    BY <1>3, <2>4 DEF PotTrail
  <2>7. FoldedIn(c) = {} => \A p \in Seats : status[p] # "folded"
    BY <1>2, <1>3, RowsTyped DEF TableInv
  <2>8. Fits(paid)
    BY <2>1, <2>6, <2>7
  <2>9. Fits(paid)'
    BY <2>1, <2>8, SameActions
  <2>. QED  BY <1>2, <1>3, <2>1, <2>3, <2>4, <2>5, <2>9 DEF PaidInv
<1>5. ASSUME end_pending
      PROVE  \E paid \in [Seats -> Nat] :
               /\ \A p \in Seats : p \notin Remaining => paid[p] = 0
               /\ \A p \in DOMAIN unrecorded : unrecorded[p] = paid[p]
               /\ \A p \in Revealed(c) : showdown_results[<<c, p>>] = paid[p]
               /\ Fits(paid)
  BY <1>3, <1>5 DEF PaidInv
<1>6. CASE RecordShowdown
  <2>1. PICK p \in DOMAIN unrecorded :
           /\ UNCHANGED <<status, hands, actions, current_hand_id, end_pending>> /\ end_pending
           /\ DOMAIN unrecorded' = DOMAIN unrecorded \ {p}
           /\ \A q \in DOMAIN unrecorded' : unrecorded'[q] = unrecorded[q]
           /\ DOMAIN showdown_results' = DOMAIN showdown_results \cup {<<current_hand_id, p>>}
           /\ showdown_results'[<<current_hand_id, p>>] = unrecorded[p]
           /\ \A k \in DOMAIN showdown_results :
                k # <<current_hand_id, p>> => showdown_results'[k] = showdown_results[k]
    BY <1>6, RowInserted
  <2>2. PICK paid \in [Seats -> Nat] :
               /\ \A q \in Seats : q \notin Remaining => paid[q] = 0
               /\ \A q \in DOMAIN unrecorded : unrecorded[q] = paid[q]
               /\ \A q \in Revealed(c) : showdown_results[<<c, q>>] = paid[q]
               /\ Fits(paid)
    BY <1>5, <2>1
  <2>3. ASSUME NEW q \in Revealed(c)'
        PROVE  showdown_results'[<<c, q>>] = paid[q]
    <3>1. PICK k \in DOMAIN showdown_results' : k[1] = c /\ k[2] = q
      BY <2>3 DEF Revealed
    <3>2. CASE k = <<c, p>>
      BY <1>3, <2>1, <2>2, <3>1, <3>2
    <3>3. CASE k # <<c, p>>
      <4>1. k \in DOMAIN showdown_results
        BY <1>3, <2>1, <3>1, <3>3
      <4>2. k \in (DOMAIN hands) \X Seats
        BY <4>1 DEF RowsInv
      <4>3. k = <<c, q>> /\ q \in Revealed(c)
        BY <3>1, <4>1, <4>2 DEF Revealed
      <4>. QED  BY <1>3, <2>1, <2>2, <3>3, <4>1, <4>3
    <3>. QED  BY <3>2, <3>3
  <2>4. Fits(paid)' /\ Remaining' = Remaining
    <3>1. Fits(paid)'
      BY <2>1, <2>2, SameActions
    <3>. QED  BY <2>1, <3>1 DEF Remaining
  <2>5. \A q \in DOMAIN unrecorded' : unrecorded'[q] = paid[q]
    BY <2>1, <2>2
  <2>. QED  BY <1>2, <1>3, <2>2, <2>3, <2>4, <2>5 DEF PaidInv
<1>7. CASE ~RecordedShowdown /\ ~RecordShowdown
  <2>1. ~RecordHandEnd
    BY EndInserted
  <2>2. /\ UNCHANGED <<hands, showdown_results, current_hand_id, unrecorded, end_pending>>
        /\ end_pending => UNCHANGED <<actions, board, status>>
    BY <1>2, <1>7, <2>1, OpenHandIsKept
  <2>3. PICK paid \in [Seats -> Nat] :
               /\ \A q \in Seats : q \notin Remaining => paid[q] = 0
               /\ \A q \in DOMAIN unrecorded : unrecorded[q] = paid[q]
               /\ \A q \in Revealed(c) : showdown_results[<<c, q>>] = paid[q]
               /\ Fits(paid)
    BY <1>5, <2>2
  <2>4. Fits(paid)' /\ Remaining' = Remaining /\ Revealed(c)' = Revealed(c)
    <3>1. Fits(paid)'
      BY <2>2, <2>3, SameActions
    <3>. QED  BY <2>2, <3>1 DEF Remaining, Revealed
  <2>. QED  BY <1>3, <2>2, <2>3, <2>4 DEF PaidInv
<1>. QED  BY <1>4, <1>6, <1>7

\* A step leaves the winnings of every hand within its pot.
LEMMA WinningsStep ==
  ASSUME LoopInv, TypeOK', RowsInv, TableInv, OpenInv, OpenInv', PaidInv,
         WinningsMatchPot, [RecordedNext]_recorded_vars
  PROVE  WinningsMatchPot'
<1>. DEFINE Backed(h) == hands[h].ended /\ Played(h) # {} =>
              Won(h) <= LastPot(h) /\ (FoldedIn(h) = {} => Won(h) = LastPot(h))
<1>1. \A h \in DOMAIN hands : Backed(h)
  BY DEF WinningsMatchPot, Won
<1>2. ASSUME NEW h \in DOMAIN hands, h # current_hand_id \/ ~Open
      PROVE  Backed(h)'
  <2>1. /\ hands'[h] = hands[h] /\ Played(h)' = Played(h) /\ FoldedIn(h)' = FoldedIn(h)
        /\ Played(h) # {} => LastPot(h)' = LastPot(h)
        /\ Revealed(h)' = Revealed(h)
        /\ \A p \in Revealed(h) : showdown_results'[<<h, p>>] = showdown_results[<<h, p>>]
    BY <1>2, PastIsKept
  <2>2. Won(h)' = Won(h)
    <3>1. [p \in Seats |-> IF p \in Revealed(h)' THEN showdown_results'[<<h, p>>] ELSE 0]
            = [p \in Seats |-> IF p \in Revealed(h) THEN showdown_results[<<h, p>>] ELSE 0]
      BY <2>1
    <3>. QED  BY <3>1 DEF Won
  <2>. QED  BY <1>1, <2>1, <2>2
<1>3. CASE RecordedNextHand
  <2>1. /\ ~Open /\ DOMAIN hands' = DOMAIN hands \cup {current_hand_id'}
        /\ hands'[current_hand_id'].ended = FALSE
    BY <1>3, HandInPlay, NewHandIsEmpty
  <2>2. Backed(current_hand_id)'
    BY <2>1
  <2>. HIDE DEF Backed
  <2>3. \A h \in DOMAIN hands' : Backed(h)'
    BY <1>2, <2>1, <2>2
  <2>. QED  BY <2>3 DEF WinningsMatchPot, Backed, Won
<1>4. CASE ~RecordedNextHand
  <2>1. DOMAIN hands' = DOMAIN hands /\ current_hand_id' = current_hand_id
    BY <1>4, HandInPlay
  <2>2. ASSUME NEW h \in DOMAIN hands', h = current_hand_id, Open, hands'[h].ended, Played(h)' # {}
        PROVE  Won(h)' <= LastPot(h)' /\ (FoldedIn(h)' = {} => Won(h)' = LastPot(h)')
    <3>1. ~hands[h].ended /\ ~Open'
      BY <2>1, <2>2 DEF OpenInv
    <3>2. /\ UNCHANGED <<actions, showdown_results, status>>
          /\ Revealed(h)' = Revealed(h) /\ FoldedIn(h)' = FoldedIn(h)
          /\ end_pending /\ Revealed(h) = Remaining
      BY <2>2, <3>1, HandCloses
    <3>3. Played(h)' = Played(h) /\ LastPot(h)' = LastPot(h)
      BY <3>2 DEF LastPot, Played, HandActions
    <3>4. PICK paid \in [Seats -> Nat] :
            /\ \A p \in Seats : p \notin Remaining => paid[p] = 0
            /\ \A p \in Revealed(h) : showdown_results[<<h, p>>] = paid[p]
            /\ Sum(paid, N) <= LastPot(h)
            /\ FoldedIn(h) = {} => Sum(paid, N) = LastPot(h)
      BY <2>2, <3>2, <3>3 DEF PaidInv
    <3>5. Won(h)' = Sum(paid, N)
      <4>1. [p \in Seats |-> IF p \in Revealed(h)' THEN showdown_results'[<<h, p>>] ELSE 0]
              = paid
        BY <3>2, <3>4
      <4>. QED  BY <4>1 DEF Won
    <3>. QED  BY <3>2, <3>3, <3>4, <3>5
  <2>3. ASSUME NEW h \in DOMAIN hands', h = current_hand_id, Open
        PROVE  Backed(h)'
    BY <2>2, <2>3
  <2>. HIDE DEF Backed
  <2>4. \A h \in DOMAIN hands' : Backed(h)'
    BY <1>2, <2>1, <2>3
  <2>. QED  BY <2>4 DEF WinningsMatchPot, Backed, Won
<1>. QED  BY <1>3, <1>4

\* The winnings on record of a hand that has ended never exceed the pot on
\* record, and are the whole pot when nobody folded, whatever the side pots
\* and the odd chips.
THEOREM WinningsAreBacked == RecordedSpec => []WinningsMatchPot
<1>1. RecordedInit => PaidInv /\ WinningsMatchPot
  BY DEF RecordedInit, HistoryInit, PaidInv, WinningsMatchPot
<1>2. /\ LoopInv /\ LoopInv' /\ RowsInv /\ TableInv /\ OpenInv /\ OpenInv' /\ PotTrail
      /\ PaidInv /\ WinningsMatchPot /\ [RecordedNext]_recorded_vars
      => PaidInv' /\ WinningsMatchPot'
  BY PaidStep, WinningsStep DEF LoopInv
<1>. QED  BY <1>1, <1>2, Recording, Hiding, PotCanBeFollowed, PTL DEF RecordedSpec

\* No statistic that an agent is shown exceeds the number of hands the player
\* was dealt in, although the blinds are counted under the hand before.
THEOREM StatsAreInOrder == RecordedSpec => []StatsNeverOvercount
<1>1. RowsInv => StatsNeverOvercount
  <2>. SUFFICES ASSUME RowsInv, NEW p \in Seats
                PROVE  LET dealt == Cardinality({h \in DOMAIN hands : p \in hands[h].player_ids})
                       IN  /\ HandsPlayed(p) <= dealt
                           /\ Cardinality(Showdowns(p)) <= dealt
    BY DEF StatsNeverOvercount
  <2>. DEFINE D == {h \in DOMAIN hands : p \in hands[h].player_ids}
  <2>1. IsFiniteSet(D)
    <3>1. Len(hands) \in Nat /\ DOMAIN hands = 1 .. Len(hands)
      BY RowsTyped
    <3>2. IsFiniteSet(DOMAIN hands)
      BY <3>1, FS_Interval
    <3>. QED  BY <3>2, FS_Subset
  <2>2. HandsPlayed(p) <= Cardinality(D)
    <3>. DEFINE H == {actions[i].hand : i \in {j \in DOMAIN actions : actions[j].player = p}}
    <3>1. H \in SUBSET D
      BY DEF RowsInv
    <3>2. Cardinality(H) <= Cardinality(D)
      BY <2>1, <3>1, FS_Subset
    <3>. QED  BY <3>2 DEF HandsPlayed
  <2>. DEFINE f == [k \in Showdowns(p) |-> k[1]]
  <2>3. /\ \A k \in Showdowns(p) : k[1] \in D
        /\ \A k, l \in Showdowns(p) : k[1] = l[1] => k = l
    <3>1. \A k \in Showdowns(p) : /\ k \in (DOMAIN hands) \X Seats /\ k[2] = p
                                  /\ k[2] \in hands[k[1]].player_ids
      BY DEF Showdowns, RowsInv
    <3>2. \A k \in Showdowns(p) : k[1] \in DOMAIN hands /\ k = <<k[1], p>>
      BY <3>1
    <3>. QED  BY <3>1, <3>2
  <2>4. f \in Injection(Showdowns(p), D)
    <3>1. f \in [Showdowns(p) -> D] /\ \A k, l \in Showdowns(p) : f[k] = f[l] => k = l
      BY <2>3
    <3>. HIDE DEF f, D
    <3>. QED  BY <3>1 DEF Injection, IsInjective
  <2>5. IsFiniteSet(Showdowns(p)) /\ Cardinality(Showdowns(p)) <= Cardinality(D)
    <3>. HIDE DEF f, D
    <3>. QED  BY <2>1, <2>4, FS_Injection
  <2>. QED  BY <2>2, <2>5
<1>. QED  BY <1>1, Recording, PTL
=============================================================================
