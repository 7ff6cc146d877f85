--------------------------- MODULE FletGameProofs ---------------------------
(***************************************************************************)
(* What the desktop game keeps true for every number of players and every  *)
(* interleaving of its loop with the click handlers.                       *)
(*                                                                         *)
(* The loop and the handlers call the same engine, so every step either    *)
(* is one of the engine's operations or leaves the engine alone; what      *)
(* PokerGameProofs proves of the operations carries over, whoever calls    *)
(* them and whenever.  That the human always has a button to click needs   *)
(* an invariant of the interface, RowInv; that the loop asks the player to *)
(* act, heads-up, one of the turn, TurnInv.                                *)
(***************************************************************************)
EXTENDS FletGame, PokerGameProofs

USE TableAssumption, FletAssumption DEF Seats

\* What every step but a deal and a payout does to the chips: nothing is
\* gained or lost between a player's stack and its bets, nor in the pot.
ChipsBalance ==
  /\ \A q \in Seats : chips'[q] + total_bet'[q] = chips[q] + total_bet[q]
  /\ pot' - Sum(total_bet', N) = pot - Sum(total_bet, N)

\* A step that moves no chip.
LEMMA StillBalance ==
  ASSUME UNCHANGED <<chips, total_bet, pot>>
  PROVE  ChipsBalance
BY DEF ChipsBalance

\* A decision or a click is an action of the engine or is refused by it.
LEMMA ActionBalances ==
  ASSUME GameTypeOK, NEW p \in Seats, NEW action, NEW amount \in Int,
         ApplyAction(p, action, amount)
  PROVE  ChipsBalance
BY ActionIsAccounted DEF ChipsBalance

\* Nothing of the engine changes.
LEMMA EngineRests ==
  ASSUME GameTypeOK, UNCHANGED game_vars
  PROVE  GameTypeOK' /\ ChipsBalance
<1>1. UNCHANGED <<chips, total_bet, pot>>
  BY DEF game_vars, players_vars
<1>. QED
  BY <1>1, StillBalance
     DEF GameTypeOK, game_vars, players_vars, round_vars, turn_vars, hand_vars

\* Only the turn or the end of the round changes.
LEMMA EngineTurns ==
  ASSUME GameTypeOK, UNCHANGED <<players_vars, round_vars, hand_vars, pot>>,
         current_player' \in Seats, round_complete' \in BOOLEAN
  PROVE  GameTypeOK' /\ ChipsBalance
<1>1. UNCHANGED <<chips, total_bet, pot>>
  BY DEF players_vars
<1>. QED
  BY <1>1, StillBalance DEF GameTypeOK, players_vars, round_vars, hand_vars

\* The loop's steps on the engine.
LEMMA LoopStep ==
  ASSUME TypeOK, Loop
  PROVE  /\ GameTypeOK'
         /\ \/ ChipsBalance
            \/ LoopNewHand /\ StartNewHand
            \/ LoopPayout
<1>1. GameTypeOK /\ turn \in Seats /\ current_player \in Seats
  BY DEF TypeOK, GameTypeOK
<1>2. ASSUME NEW action, NEW amount \in Int, ProcessPlayerAction(turn, action, amount)
      PROVE  GameTypeOK' /\ ChipsBalance
  BY <1>1, <1>2, ProcessPlayerActionType, ActionBalances DEF ProcessPlayerAction
<1>3. ASSUME FoldIfAccepted(turn) PROVE GameTypeOK' /\ ChipsBalance
  BY <1>1, <1>2, <1>3, EngineRests DEF FoldIfAccepted
<1>4. ASSUME AdvanceToNextPlayer PROVE GameTypeOK' /\ ChipsBalance
  <2>1. GameTypeOK'
    BY <1>1, <1>4, AdvanceToNextPlayerType
  <2>2. UNCHANGED <<chips, total_bet, pot>>
    BY <1>4 DEF AdvanceToNextPlayer, players_vars
  <2>. QED  BY <2>1, <2>2, StillBalance
<1>5. CASE LoopNewHand
  <2>1. UNCHANGED game_vars \/ StartNewHand
    BY <1>5 DEF LoopNewHand
  <2>. QED  BY <1>1, <1>5, <2>1, EngineRests, StartNewHandType
<1>6. CASE LoopRedraw \/ LoopEndRound \/ LoopShow \/ LoopLeaveWait \/ LoopClosed
           \/ LoopConfirmed \/ LoopAbandon \/ LoopResult \/ LoopAsk
  <2>1. UNCHANGED game_vars
    BY <1>6 DEF LoopRedraw, LoopEndRound, LoopShow, LoopLeaveWait, LoopClosed,
                LoopConfirmed, LoopAbandon, LoopResult, LoopAsk
  <2>. QED  BY <1>1, <2>1, EngineRests
<1>7. CASE LoopTakeTurn
  <2>1. AdvanceToNextPlayer \/ UNCHANGED game_vars
    BY <1>7 DEF LoopTakeTurn
  <2>. QED  BY <1>1, <1>4, <2>1, EngineRests
<1>8. CASE LoopRefresh
  <2>1. AdvanceToNextPlayer \/ UNCHANGED game_vars
    BY <1>8 DEF LoopRefresh
  <2>. QED  BY <1>1, <1>4, <2>1, EngineRests
<1>9. CASE LoopDecide
  <2>1. \/ \E d \in Decisions(turn, RAISE_AMOUNTS) :
             ProcessPlayerAction(turn, d.action, d.amount)
        \/ UNCHANGED game_vars
        \/ FoldIfAccepted(turn)
    BY <1>9 DEF LoopDecide
  <2>2. ASSUME NEW d \in Decisions(turn, RAISE_AMOUNTS),
               ProcessPlayerAction(turn, d.action, d.amount)
        PROVE  GameTypeOK' /\ ChipsBalance
    <3>1. RAISE_AMOUNTS \in SUBSET Int
      BY DEF FletAssumption
    <3>2. d.amount \in Int
      BY <1>1, <3>1, DecisionAmountType
    <3>. QED  BY <1>2, <2>2, <3>2
  <2>. QED  BY <1>1, <1>3, <2>1, <2>2, EngineRests
<1>10. CASE LoopForceFold
  BY <1>3, <1>10 DEF LoopForceFold
<1>11. CASE LoopPhase
  <2>1. AdvanceToNextPhase
    BY <1>11 DEF LoopPhase
  <2>2. UNCHANGED <<chips, total_bet, pot>>
    BY <2>1 DEF AdvanceToNextPhase
  <2>. QED  BY <1>1, <2>1, <2>2, StillBalance, AdvanceToNextPhaseType
<1>12. CASE LoopPayout
  <2>1. PICK strength \in [Seats -> 1 .. N] : ConductShowdown(strength)
    BY <1>12 DEF LoopPayout
  <2>. QED  BY <1>1, <1>12, <2>1, ConductShowdownType
<1>. QED
  BY <1>5, <1>6, <1>7, <1>8, <1>9, <1>10, <1>11, <1>12 DEF Loop

\* The handlers' steps on the engine, a click that comes too late included.
LEMMA ClickStep ==
  ASSUME TypeOK, Handler \/ Clicks
  PROVE  GameTypeOK' /\ ChipsBalance
<1>1. /\ GameTypeOK /\ current_player \in Seats /\ HUMAN \in Seats
      /\ round_complete \in BOOLEAN
  BY DEF TypeOK, GameTypeOK, FletAssumption
<1>2. ASSUME NEW action, NEW amount \in Int, HandleAction(action, amount)
      PROVE  GameTypeOK' /\ ChipsBalance
  <2>1. UNCHANGED turn_vars
    BY <1>2 DEF HandleAction
  <2>2. CASE ApplyAction(HUMAN, action, amount)
    <3>1. /\ AccountsOK'
          /\ current_bet' \in Nat /\ last_raiser' \in Seats \cup {NoSeat}
          /\ has_bet' \in BOOLEAN
      BY <1>1, <1>2, <2>2, ApplyActionType
    <3>2. UNCHANGED hand_vars
      BY <2>2 DEF ApplyAction
    <3>3. GameTypeOK'
      BY <1>1, <2>1, <3>1, <3>2 DEF GameTypeOK, AccountsOK, hand_vars, turn_vars
    <3>. QED  BY <1>1, <1>2, <2>2, <3>3, ActionBalances
  <2>3. CASE UNCHANGED <<players_vars, round_vars, hand_vars, pot>>
    BY <1>1, <2>1, <2>3, EngineTurns DEF turn_vars
  <2>. QED  BY <1>2, <2>2, <2>3 DEF HandleAction
<1>3. CASE HandlerMove
  <2>1. current_player' \in Seats
    BY <1>1, <1>3, TurnType DEF HandlerMove
  <2>2. round_complete' \in BOOLEAN
    BY <1>3, Zenon DEF HandlerMove
  <2>. QED  BY <1>1, <1>3, <2>1, <2>2, EngineTurns DEF HandlerMove
<1>4. CASE HandlerCheck
  <2>1. round_complete' \in BOOLEAN
    BY <1>4, Zenon DEF HandlerCheck
  <2>. QED  BY <1>1, <1>4, <2>1, EngineTurns DEF HandlerCheck
<1>5. CASE HandlerRefresh \/ ClickRaise \/ CancelRaise \/ ClickNextPhase \/ LateClick
           \/ ClickNextHand
  <2>1. UNCHANGED game_vars
    BY <1>5 DEF HandlerRefresh, ClickRaise, CancelRaise, ClickNextPhase, LateClick,
                ClickNextHand, PhaseConfirmed
  <2>. QED  BY <1>1, <2>1, EngineRests
<1>6. CASE ClickAction
  <2>1. PICK a \in Actions : HandleAction(a, 0)
    BY <1>6 DEF ClickAction
  <2>. QED  BY <1>2, <2>1
<1>7. CASE ConfirmRaise
  <2>1. PICK m \in RAISE_AMOUNTS : HandleAction("raise", m)
    BY <1>7 DEF ConfirmRaise
  <2>2. m \in Int
    BY DEF FletAssumption
  <2>. QED  BY <1>2, <2>1, <2>2
<1>. QED  BY <1>3, <1>4, <1>5, <1>6, <1>7 DEF Handler, Clicks

\* The controls of the row are buttons the interface knows.
LEMMA ChoicesType ==
  /\ Choices \subseteq Actions \cup {"next_phase"}
  /\ Choices' \subseteq Actions \cup {"next_phase"}
BY DEF Choices, AvailableActions, Actions

\* A step of the loop keeps the interface's own state well typed.
LEMMA LoopTypes ==
  ASSUME TypeOK, GameTypeOK', Loop
  PROVE  TypeOK'
<1>1. /\ turn \in Seats /\ old_index \in Seats /\ current_player \in Seats
      /\ action_counter \in 0 .. ACTION_LIMIT /\ 0 \in 0 .. ACTION_LIMIT
      /\ buttons \subseteq Actions \cup {"next_phase"}
      /\ stack \in [Seats -> Nat] /\ chips \in [Seats -> Nat]
      /\ ui \in {"idle", "move", "check", "refresh"}
  <2>1. /\ turn \in Seats /\ old_index \in Seats /\ action_counter \in 0 .. ACTION_LIMIT
        /\ buttons \subseteq Actions \cup {"next_phase"} /\ stack \in [Seats -> Nat]
        /\ ui \in {"idle", "move", "check", "refresh"}
    BY DEF TypeOK
  <2>2. current_player \in Seats /\ chips \in [Seats -> Nat]
    BY DEF TypeOK, GameTypeOK
  <2>3. 0 \in 0 .. ACTION_LIMIT
    BY FletAssumption
  <2>. QED  BY <2>1, <2>2, <2>3
<1>2. lpc' \in {"new_hand", "redraw", "turn", "show", "wait", "decide", "refused",
                "refresh", "closed", "confirm", "phase", "payout", "result", "ask", "end"}
  BY DEF TypeOK, Loop, LoopNewHand, LoopRedraw, LoopEndRound, LoopTakeTurn, LoopShow,
     LoopLeaveWait, LoopDecide, LoopForceFold, LoopRefresh, LoopClosed, LoopConfirmed,
     LoopPhase, LoopAbandon, LoopPayout, LoopResult, LoopAsk
<1>3. turn' \in Seats /\ old_index' \in Seats /\ stack' \in [Seats -> Nat]
  BY <1>1 DEF Loop, LoopNewHand, LoopRedraw, LoopEndRound, LoopTakeTurn, LoopShow,
     LoopLeaveWait, LoopDecide, LoopForceFold, LoopRefresh, LoopClosed, LoopConfirmed,
     LoopPhase, LoopAbandon, LoopPayout, LoopResult, LoopAsk
<1>4. action_counter' \in 0 .. ACTION_LIMIT
  <2>1. \/ action_counter' \in {0, action_counter}
        \/ action_counter < ACTION_LIMIT /\ action_counter' = action_counter + 1
    BY DEF Loop, LoopNewHand, LoopRedraw, LoopEndRound, LoopTakeTurn, LoopShow,
       LoopLeaveWait, LoopDecide, LoopForceFold, LoopRefresh, LoopClosed, LoopConfirmed,
       LoopPhase, LoopAbandon, LoopPayout, LoopResult, LoopAsk
  <2>. QED  BY <1>1, <2>1 DEF FletAssumption
<1>5. buttons' \subseteq Actions \cup {"next_phase"}
  <2>1. buttons' \in {buttons, Choices, Choices', {"next_phase"}}
    BY DEF Loop, LoopNewHand, LoopRedraw, LoopEndRound, LoopTakeTurn, LoopShow,
       LoopLeaveWait, LoopDecide, LoopForceFold, LoopRefresh, LoopClosed, LoopConfirmed,
       LoopPhase, LoopAbandon, LoopPayout, LoopResult, LoopAsk, UpdateActionButtons
  <2>. QED  BY <1>1, <2>1, ChoicesType
<1>6. UNCHANGED click_vars
  BY DEF Loop, LoopNewHand, LoopRedraw, LoopEndRound, LoopTakeTurn, LoopShow,
     LoopLeaveWait, LoopDecide, LoopForceFold, LoopRefresh, LoopClosed, LoopConfirmed,
     LoopPhase, LoopAbandon, LoopPayout, LoopResult, LoopAsk
<1>7. {raise_dialog, waiting, phase_confirmed, showdown_confirmed, late_click}' \subseteq BOOLEAN
  <2>1. /\ raise_dialog \in BOOLEAN /\ waiting \in BOOLEAN /\ phase_confirmed \in BOOLEAN
        /\ showdown_confirmed \in BOOLEAN /\ late_click \in BOOLEAN
    BY Zenon DEF TypeOK
  <2>2. /\ UNCHANGED raise_dialog /\ UNCHANGED late_click
        /\ waiting' = TRUE \/ UNCHANGED waiting
        /\ phase_confirmed' = FALSE \/ UNCHANGED phase_confirmed
        /\ showdown_confirmed' = FALSE \/ UNCHANGED showdown_confirmed
    BY <1>6 DEF Loop, LoopNewHand, LoopRedraw, LoopEndRound, LoopTakeTurn, LoopShow,
       LoopLeaveWait, LoopDecide, LoopForceFold, LoopRefresh, LoopClosed, LoopConfirmed,
       LoopPhase, LoopAbandon, LoopPayout, LoopResult, LoopAsk, flag_vars, click_vars
  <2>. QED  BY <2>1, <2>2, Zenon
<1>. QED  BY <1>1, <1>2, <1>3, <1>4, <1>5, <1>6, <1>7 DEF TypeOK, click_vars

\* So does a click, and what its handler does after it.
LEMMA ClickTypes ==
  ASSUME TypeOK, GameTypeOK', Handler \/ Clicks
  PROVE  TypeOK'
<1>1. UNCHANGED <<loop_vars, stack>>
  BY DEF Handler, HandlerMove, HandlerCheck, HandlerRefresh, Clicks, ClickAction,
     ClickRaise, CancelRaise, ConfirmRaise, HandleAction, ClickNextPhase, LateClick,
     ClickNextHand, PhaseConfirmed
<1>2. ui' \in {"idle", "move", "check", "refresh"}
  BY DEF TypeOK, Handler, HandlerMove, HandlerCheck, HandlerRefresh, Clicks, ClickAction,
     ClickRaise, CancelRaise, ConfirmRaise, HandleAction, ClickNextPhase, LateClick,
     ClickNextHand, PhaseConfirmed, click_vars
<1>3. buttons' \subseteq Actions \cup {"next_phase"}
  <2>1. buttons' \in {buttons, Choices, {}}
    BY DEF Handler, HandlerMove, HandlerCheck, HandlerRefresh, Clicks, ClickAction,
       ClickRaise, CancelRaise, ConfirmRaise, HandleAction, ClickNextPhase, LateClick,
       ClickNextHand, PhaseConfirmed, UpdateActionButtons
  <2>. QED  BY <2>1, ChoicesType DEF TypeOK
<1>4. {raise_dialog, waiting, phase_confirmed, showdown_confirmed, late_click}' \subseteq BOOLEAN
  <2>1. /\ raise_dialog \in BOOLEAN /\ waiting \in BOOLEAN /\ phase_confirmed \in BOOLEAN
        /\ showdown_confirmed \in BOOLEAN /\ late_click \in BOOLEAN /\ DOUBLE_CLICKS \in BOOLEAN
    BY Zenon DEF TypeOK, FletAssumption
  <2>2. /\ raise_dialog' \in {raise_dialog, TRUE, FALSE}
        /\ waiting' \in {waiting, FALSE}
        /\ phase_confirmed' \in {phase_confirmed, TRUE}
        /\ showdown_confirmed' \in {showdown_confirmed, TRUE}
        /\ late_click' \in {late_click, FALSE, late_click \/ DOUBLE_CLICKS}
    BY DEF Handler, HandlerMove, HandlerCheck, HandlerRefresh, Clicks, ClickAction,
       ClickRaise, CancelRaise, ConfirmRaise, HandleAction, ClickNextPhase, LateClick,
       ClickNextHand, PhaseConfirmed, flag_vars, click_vars
  <2>. QED  BY <2>1, <2>2, Zenon
<1>. QED  BY <1>1, <1>2, <1>3, <1>4 DEF TypeOK, loop_vars

\* A step of the desktop game keeps all of its state well typed.
LEMMA FletTypeStep ==
  ASSUME TypeOK, [Next]_vars
  PROVE  TypeOK'
<1>1. CASE Loop
  BY <1>1, LoopStep, LoopTypes
<1>2. CASE Handler \/ Clicks
  BY <1>2, ClickStep, ClickTypes
<1>3. CASE Finished \/ UNCHANGED vars
  <2>1. UNCHANGED vars
    BY <1>3 DEF Finished
  <2>2. GameTypeOK'
    BY <2>1, EngineRests DEF vars, TypeOK
  <2>. QED  BY <2>1, <2>2 DEF vars, loop_vars, flag_vars, click_vars, TypeOK
<1>. QED  BY <1>1, <1>2, <1>3 DEF Next

\* Types: no interleaving of the loop and the clicks leaves a stack, a bet or
\* the pot negative, a turn beside the table or an unknown button in the row.
THEOREM FletTypeCorrect == Spec => []TypeOK
<1>1. Init => TypeOK
  <2>1. Init => GameTypeOK
    BY InitType DEF Init
  <2>2. Init => {raise_dialog, waiting, phase_confirmed, showdown_confirmed, late_click} \subseteq BOOLEAN
    BY Zenon DEF Init
  <2>. QED  BY <2>1, <2>2 DEF Init, GameInit, TypeOK, FletAssumption
<1>2. TypeOK /\ [Next]_vars => TypeOK'
  BY FletTypeStep
<1>. QED  BY <1>1, <1>2, PTL DEF Spec

\* A step keeps the accounts of the hand, whichever thread takes it.
LEMMA FletAccountingStep ==
  ASSUME TypeOK, TypeOK', ChipsSurviveClicks, [Next]_vars
  PROVE  ChipsSurviveClicks'
<1>1. GameTypeOK /\ GameTypeOK'
  BY DEF TypeOK
<1>2. ASSUME InHand, ChipsBalance, UNCHANGED stack PROVE ChipsSurviveClicks'
  <2>1. \A q \in Seats : chips'[q] + total_bet'[q] = stack'[q]
    BY <1>2 DEF ChipsBalance, ChipsSurviveClicks
  <2>2. pot \in Nat /\ pot' \in Nat /\ pot = Sum(total_bet, N)
    BY <1>1, <1>2 DEF GameTypeOK, ChipsSurviveClicks
  <2>3. Sum(total_bet', N) \in Nat
    <3>1. \A k \in 0 .. N - 1 : total_bet'[k] \in Nat
      BY <1>1 DEF GameTypeOK
    <3>. QED  BY <3>1, SumType
  <2>4. pot' = Sum(total_bet', N)
    BY <1>2, <2>2, <2>3 DEF ChipsBalance
  <2>. QED  BY <2>1, <2>4 DEF ChipsSurviveClicks
<1>3. CASE Loop
  <2>1. CASE LoopNewHand /\ StartNewHand
    <3>1. stack' = chips \/ ~InHand'
      BY <2>1 DEF LoopNewHand, InHand
    <3>2. /\ \A p \in Seats : chips'[p] + total_bet'[p] = chips[p]
          /\ pot' = Sum(total_bet', N)
      BY <1>1, <2>1, BlindsAreAccounted
    <3>. QED  BY <3>1, <3>2 DEF ChipsSurviveClicks
  <2>2. CASE LoopPayout
    BY <2>2 DEF LoopPayout, InHand, ChipsSurviveClicks
  <2>3. CASE ChipsBalance /\ ~(LoopNewHand /\ StartNewHand)
    <3>1. UNCHANGED stack /\ (InHand \/ ~InHand')
      BY <1>3, <2>3 DEF InHand, Loop, LoopNewHand, LoopRedraw, LoopEndRound, LoopTakeTurn,
         LoopShow, LoopLeaveWait, LoopDecide, LoopForceFold, LoopRefresh, LoopClosed,
         LoopConfirmed, LoopPhase, LoopAbandon, LoopPayout, LoopResult, LoopAsk
    <3>. QED  BY <1>2, <2>3, <3>1 DEF ChipsSurviveClicks
  <2>. QED  BY <1>3, <2>1, <2>2, <2>3, LoopStep
<1>4. CASE Handler \/ Clicks
  <2>1. UNCHANGED <<lpc, stack>>
    BY <1>4 DEF Handler, HandlerMove, HandlerCheck, HandlerRefresh, Clicks, ClickAction,
       ClickRaise, CancelRaise, ConfirmRaise, HandleAction, ClickNextPhase, LateClick,
       ClickNextHand, PhaseConfirmed, loop_vars
  <2>2. ChipsBalance
    BY <1>4, ClickStep
  <2>. QED  BY <1>2, <2>1, <2>2 DEF ChipsSurviveClicks, InHand
<1>5. CASE Finished \/ UNCHANGED vars
  <2>1. UNCHANGED <<lpc, stack, chips, total_bet, pot>>
    BY <1>5 DEF Finished, vars, loop_vars, game_vars, players_vars
  <2>. QED  BY <2>1 DEF ChipsSurviveClicks, InHand
<1>. QED  BY <1>3, <1>4, <1>5 DEF Next

\* Whatever the order of clicks and loop steps, late and double clicks
\* included, no chip is lost or counted twice while a hand runs.
THEOREM ClicksLoseNoChips == Spec => []ChipsSurviveClicks
<1>1. Init => ChipsSurviveClicks
  BY DEF Init, InHand, ChipsSurviveClicks
<1>2. TypeOK /\ TypeOK' /\ ChipsSurviveClicks /\ [Next]_vars => ChipsSurviveClicks'
  BY FletAccountingStep
<1>. QED  BY <1>1, <1>2, FletTypeCorrect, PTL DEF Spec

-----------------------------------------------------------------------------
(* The human can act.  A row of buttons is drawn for the state at the time   *)
(* and left alone while a confirmation is pending; nothing that happens      *)
(* while the loop waits may leave it empty.                                  *)

\* The loop is between the deal and the showdown.
IsBetting == lpc \in {"redraw", "turn", "show", "wait", "decide", "refused", "refresh",
                      "closed", "confirm", "phase"}

\* A pending confirmation has its button; betting is in a betting phase; and
\* when the loop asks somebody, the turn is with a player that can act, unless
\* the round is closed or a handler is about to move the turn.
RowInv ==
  /\ waiting => buttons = {"next_phase"}
  /\ IsBetting => phase \in BettingPhases
  /\ lpc \in {"show", "wait"} /\ ~round_complete /\ ui # "move"
       => status[current_player] = "active"

\* update_action_buttons offers a player that can act a button, a fold at least.
LEMMA ActiveHumanHasChoice ==
  ASSUME phase \in BettingPhases, current_player = HUMAN, status[HUMAN] = "active"
  PROVE  Choices # {}
<1>1. [action |-> "fold", amount |-> 0] \in AvailableActions(HUMAN)
  BY DEF AvailableActions
<1>2. "fold" \in {o.action : o \in AvailableActions(HUMAN)}
  BY <1>1
<1>. QED  BY <1>2 DEF Choices

\* Redrawing keeps the button of a pending confirmation.
LEMMA RowIsKept ==
  ASSUME RowInv, UNCHANGED waiting,
         UNCHANGED buttons \/ UpdateActionButtons
                           \/ buttons' = IF waiting THEN buttons ELSE Choices'
  PROVE  waiting' => buttons' = {"next_phase"}
BY DEF RowInv, UpdateActionButtons

\* The next player is an active one as long as there is any.
LEMMA TurnGoesToActive ==
  ASSUME current_player \in Seats, MoveToNextPlayer, Active' # {}
  PROVE  status'[current_player'] = "active"
<1>1. Active' \in SUBSET Seats
  BY DEF Active
<1>2. NextIn(current_player, Active') \in Active'
  BY <1>1, NextInFindsSeat
<1>. QED  BY <1>2 DEF MoveToNextPlayer, Active

\* A step of the loop keeps the row and the turn in order.
LEMMA LoopRow ==
  ASSUME TypeOK, RowInv, Loop
  PROVE  RowInv'
<1>1. waiting' => buttons' = {"next_phase"}
  <2>1. CASE LoopClosed
    BY <2>1 DEF LoopClosed, RowInv
  <2>2. CASE ~LoopClosed
    <3>1. UNCHANGED waiting
      BY <2>2 DEF Loop, LoopNewHand, LoopRedraw, LoopEndRound, LoopTakeTurn, LoopShow,
         LoopLeaveWait, LoopDecide, LoopForceFold, LoopRefresh, LoopConfirmed,
         LoopPhase, LoopAbandon, LoopPayout, LoopResult, LoopAsk, flag_vars
    <3>2. UNCHANGED buttons \/ UpdateActionButtons
                            \/ buttons' = IF waiting THEN buttons ELSE Choices'
      BY <2>2 DEF Loop, LoopNewHand, LoopRedraw, LoopEndRound, LoopTakeTurn, LoopShow,
         LoopLeaveWait, LoopDecide, LoopForceFold, LoopRefresh, LoopConfirmed,
         LoopPhase, LoopAbandon, LoopPayout, LoopResult, LoopAsk
    <3>. QED  BY <3>1, <3>2, RowIsKept
  <2>. QED  BY <2>1, <2>2
<1>2. IsBetting' => phase' \in BettingPhases
  <2>1. CASE LoopNewHand
    BY <2>1 DEF LoopNewHand, StartNewHand, DealHand, IsBetting, BettingPhases
  <2>2. CASE LoopPhase
    <3>1. phase' \in BettingPhases \cup {"showdown"}
      BY <2>2 DEF LoopPhase, AdvanceToNextPhase, CanAdvancePhase, NextPhaseOf, BettingPhases
    <3>. QED  BY <2>2, <3>1 DEF LoopPhase, IsBetting
  <2>3. CASE LoopRedraw \/ LoopEndRound \/ LoopTakeTurn \/ LoopShow \/ LoopLeaveWait
             \/ LoopDecide \/ LoopForceFold \/ LoopRefresh \/ LoopClosed \/ LoopConfirmed
    <3>1. IsBetting
      BY <2>3 DEF IsBetting, LoopRedraw, LoopEndRound, LoopTakeTurn, LoopShow,
         LoopLeaveWait, LoopDecide, LoopForceFold, LoopRefresh, LoopClosed, LoopConfirmed
    <3>2. UNCHANGED phase
      BY <2>3 DEF LoopRedraw, LoopEndRound, LoopTakeTurn, LoopShow, LoopLeaveWait,
         LoopDecide, LoopForceFold, LoopRefresh, LoopClosed, LoopConfirmed,
         FoldIfAccepted, ProcessPlayerAction, ApplyAction, AdvanceToNextPlayer,
         game_vars, hand_vars
    <3>. QED  BY <3>1, <3>2 DEF RowInv
  <2>4. CASE LoopAbandon \/ LoopPayout \/ LoopResult \/ LoopAsk
    BY <2>4 DEF LoopAbandon, LoopPayout, LoopResult, LoopAsk, IsBetting
  <2>. QED  BY <2>1, <2>2, <2>3, <2>4 DEF Loop
<1>3. lpc' \in {"show", "wait"} /\ ~round_complete' /\ ui' # "move"
        => status'[current_player'] = "active"
  <2>1. CASE LoopTakeTurn
    <3>1. lpc' \in {"show", "wait"} => status[current_player] = "active" /\ UNCHANGED game_vars
      BY <2>1 DEF LoopTakeTurn
    <3>. QED  BY <3>1 DEF game_vars, players_vars, turn_vars
  <2>2. CASE LoopShow
    <3>1. lpc = "show" /\ UNCHANGED <<ui, round_complete, current_player, status>>
      BY <2>2 DEF LoopShow, game_vars, players_vars, turn_vars, click_vars
    <3>. QED  BY <3>1 DEF RowInv
  <2>3. CASE ~LoopTakeTurn /\ ~LoopShow
    <3>1. lpc' \notin {"show", "wait"}
      BY <2>3 DEF Loop, LoopNewHand, LoopRedraw, LoopEndRound, LoopLeaveWait, LoopDecide,
         LoopForceFold, LoopRefresh, LoopClosed, LoopConfirmed, LoopPhase, LoopAbandon,
         LoopPayout, LoopResult, LoopAsk
    <3>. QED  BY <3>1
  <2>. QED  BY <2>1, <2>2, <2>3
<1>. QED  BY <1>1, <1>2, <1>3 DEF RowInv

\* So does a click at any moment, and what its handler does after it.
LEMMA ClickRow ==
  ASSUME TypeOK, RowInv, Handler \/ Clicks
  PROVE  RowInv'
<1>1. UNCHANGED lpc
  BY DEF Handler, HandlerMove, HandlerCheck, HandlerRefresh, Clicks, ClickAction,
     ClickRaise, CancelRaise, ConfirmRaise, HandleAction, ClickNextPhase, LateClick,
     ClickNextHand, PhaseConfirmed, loop_vars
<1>2. UNCHANGED phase
  BY DEF Handler, HandlerMove, HandlerCheck, HandlerRefresh, Clicks, ClickAction,
     ClickRaise, CancelRaise, ConfirmRaise, HandleAction, ApplyAction, ClickNextPhase,
     LateClick, ClickNextHand, PhaseConfirmed, game_vars, hand_vars
<1>3. waiting' => buttons' = {"next_phase"}
  <2>1. CASE ClickNextPhase \/ LateClick
    BY <2>1 DEF ClickNextPhase, LateClick, PhaseConfirmed
  <2>2. CASE ~(ClickNextPhase \/ LateClick)
    <3>1. UNCHANGED waiting /\ (UNCHANGED buttons \/ UpdateActionButtons)
      BY <2>2 DEF Handler, HandlerMove, HandlerCheck, HandlerRefresh, Clicks, ClickAction,
         ClickRaise, CancelRaise, ConfirmRaise, HandleAction, ClickNextHand, flag_vars
    <3>. QED  BY <3>1, RowIsKept
  <2>. QED  BY <2>1, <2>2
<1>4. lpc' \in {"show", "wait"} /\ ~round_complete' /\ ui' # "move"
        => status'[current_player'] = "active"
  <2>1. CASE HandlerMove
    <3>1. current_player \in Seats
      BY DEF TypeOK, GameTypeOK
    <3>2. Active' = Active
      BY <2>1 DEF HandlerMove, players_vars, Active
    <3>3. ~round_complete' => Active' # {}
      BY <2>1, <3>2 DEF HandlerMove
    <3>. QED  BY <2>1, <3>1, <3>3, TurnGoesToActive DEF HandlerMove
  <2>2. CASE HandlerCheck
    <3>1. /\ UNCHANGED <<current_player, status>> /\ ui = "check"
          /\ ~round_complete' => ~round_complete
      BY <2>2 DEF HandlerCheck, players_vars
    <3>. QED  BY <1>1, <3>1 DEF RowInv
  <2>3. CASE ui' = "move"
    BY <2>3
  <2>4. CASE ~HandlerMove /\ ~HandlerCheck /\ ui' # "move"
    <3>1. UNCHANGED <<current_player, round_complete, status>> /\ ui # "move"
      BY <2>4 DEF Handler, HandlerRefresh, Clicks, ClickAction, ClickRaise, CancelRaise,
         ConfirmRaise, HandleAction, ClickNextPhase, LateClick, ClickNextHand,
         PhaseConfirmed, game_vars, players_vars, turn_vars, click_vars
    <3>. QED  BY <1>1, <3>1 DEF RowInv
  <2>. QED  BY <2>1, <2>2, <2>3, <2>4
<1>. QED  BY <1>1, <1>2, <1>3, <1>4 DEF RowInv, IsBetting

\* Drawing the row for a human that can act leaves a button in it.
LEMMA DrawnRow ==
  ASSUME RowInv, UpdateActionButtons, lpc \in {"show", "wait"}, ui # "move",
         current_player = HUMAN, ~round_complete
  PROVE  buttons' # {}
<1>1. phase \in BettingPhases /\ status[HUMAN] = "active"
  BY DEF RowInv, IsBetting
<1>. QED  BY <1>1, ActiveHumanHasChoice DEF RowInv, UpdateActionButtons

\* No step leaves a human that is waited for without a button.
LEMMA HumanCanActStep ==
  ASSUME TypeOK, RowInv, HumanCanAct, [Next]_vars
  PROVE  HumanCanAct'
<1>. SUFFICES ASSUME lpc' = "wait", ui' = "idle", ~phase_confirmed',
                     current_player' = HUMAN, ~round_complete'
              PROVE  buttons' # {}
  BY DEF HumanCanAct
<1>1. CASE LoopShow
  <2>1. /\ lpc = "show" /\ UNCHANGED <<ui, current_player, round_complete>>
        /\ UpdateActionButtons
    BY <1>1 DEF LoopShow, game_vars, turn_vars, click_vars
  <2>. QED  BY <2>1, DrawnRow
<1>2. CASE Loop /\ ~LoopShow
  <2>1. lpc' # "wait"
    BY <1>2 DEF Loop, LoopNewHand, LoopRedraw, LoopEndRound, LoopTakeTurn, LoopLeaveWait,
       LoopDecide, LoopForceFold, LoopRefresh, LoopClosed, LoopConfirmed, LoopPhase,
       LoopAbandon, LoopPayout, LoopResult, LoopAsk, TypeOK
  <2>. QED  BY <2>1
<1>3. CASE HandlerRefresh
  <2>1. /\ ui = "refresh" /\ UNCHANGED <<lpc, current_player, round_complete>>
        /\ UpdateActionButtons
    BY <1>3 DEF HandlerRefresh, game_vars, turn_vars, loop_vars
  <2>. QED  BY <2>1, DrawnRow
<1>4. CASE HandlerMove \/ HandlerCheck \/ ClickAction \/ ConfirmRaise
  BY <1>4 DEF HandlerMove, HandlerCheck, ClickAction, ConfirmRaise, HandleAction
<1>5. CASE ClickNextPhase \/ LateClick
  BY <1>5 DEF ClickNextPhase, LateClick, PhaseConfirmed
<1>6. CASE ClickRaise \/ CancelRaise \/ ClickNextHand \/ Finished \/ UNCHANGED vars
  <2>1. UNCHANGED <<lpc, ui, phase_confirmed, current_player, round_complete, buttons>>
    BY <1>6 DEF ClickRaise, CancelRaise, ClickNextHand, Finished, vars, game_vars,
       turn_vars, loop_vars, flag_vars, click_vars
  <2>. QED  BY <2>1 DEF HumanCanAct
<1>. QED  BY <1>1, <1>2, <1>3, <1>4, <1>5, <1>6 DEF Next, Handler, Clicks

\* Whenever the loop waits for the human's turn there is a button to click,
\* however clicks, double clicks and the loop's redraws fall together and
\* whoever else is at the table.  Only a late second click on "next phase"
\* empties the row, until the loop asks again.
THEOREM HumanIsNeverStuck == Spec => []HumanCanAct
<1>1. Init => RowInv /\ HumanCanAct
  BY DEF Init, RowInv, IsBetting, HumanCanAct
<1>2. TypeOK /\ RowInv /\ HumanCanAct /\ [Next]_vars => RowInv' /\ HumanCanAct'
  <2>. SUFFICES ASSUME TypeOK, RowInv, HumanCanAct, [Next]_vars
                PROVE  RowInv' /\ HumanCanAct'
    OBVIOUS
  <2>1. HumanCanAct'
    BY HumanCanActStep
  <2>2. CASE Finished \/ UNCHANGED vars
    <3>1. UNCHANGED <<waiting, buttons, lpc, phase, round_complete, ui, status, current_player>>
      BY <2>2 DEF Finished, vars, game_vars, players_vars, turn_vars, hand_vars, loop_vars,
         flag_vars, click_vars
    <3>. QED  BY <2>1, <3>1 DEF RowInv, IsBetting
  <2>. QED  BY <2>1, <2>2, LoopRow, ClickRow DEF Next
<1>. QED  BY <1>1, <1>2, FletTypeCorrect, PTL DEF Spec

-----------------------------------------------------------------------------
(* Who decides, heads-up.  A handler that has applied the human's action but *)
(* not yet moved the turn is the danger: the loop may move the turn before   *)
(* it does.  It can only do so because the human is out of the betting, and  *)
(* then, of two players, the other one is where the turn stays.              *)

TurnInv ==
  /\ lpc \in {"turn", "show", "wait"} /\ ui = "move" /\ current_player # HUMAN
       => status[HUMAN] # "active"
  /\ lpc \in {"show", "decide"} /\ turn # HUMAN
       => current_player = turn /\ status[turn] = "active"
  /\ lpc = "decide" => turn # HUMAN /\ LockFree

\* A step of the loop keeps the turn with the player it lets decide.
LEMMA LoopTurn ==
  ASSUME TypeOK, TurnInv, Loop
  PROVE  TurnInv'
<1>1. UNCHANGED ui
  BY DEF Loop, LoopNewHand, LoopRedraw, LoopEndRound, LoopTakeTurn, LoopShow, LoopLeaveWait,
     LoopDecide, LoopForceFold, LoopRefresh, LoopClosed, LoopConfirmed, LoopPhase,
     LoopAbandon, LoopPayout, LoopResult, LoopAsk, click_vars
<1>2. CASE LoopTakeTurn
  <2>1. CASE status[current_player] # "active" /\ AdvanceToNextPlayer /\ UNCHANGED lpc
    <3>1. lpc = "turn" /\ lpc' = "turn" /\ UNCHANGED status
      BY <1>2, <2>1 DEF LoopTakeTurn, AdvanceToNextPlayer, players_vars
    <3>2. ui = "move" => status[HUMAN] # "active"
      BY <2>1, <3>1 DEF TurnInv
    <3>. QED  BY <1>1, <3>1, <3>2 DEF TurnInv
  <2>2. CASE status[current_player] = "active" /\ UNCHANGED game_vars
    <3>1. /\ lpc = "turn" /\ lpc' = "show" /\ turn' = current_player
          /\ UNCHANGED <<current_player, status>>
      BY <1>2, <2>2 DEF LoopTakeTurn, game_vars, players_vars, turn_vars
    <3>. QED  BY <1>1, <2>2, <3>1 DEF TurnInv
  <2>. QED  BY <1>2, <2>1, <2>2 DEF LoopTakeTurn
<1>3. CASE LoopShow
  <2>1. /\ lpc = "show" /\ ui \in {"idle", "refresh"}
        /\ lpc' = IF turn = HUMAN THEN "wait" ELSE "decide"
        /\ UNCHANGED <<turn, current_player, status>>
    BY <1>3 DEF LoopShow, LockFree, game_vars, players_vars, turn_vars
  <2>. QED  BY <1>1, <2>1 DEF TurnInv, LockFree
<1>4. CASE LoopLeaveWait
  <2>1. lpc = "wait" /\ lpc' = "turn" /\ UNCHANGED <<current_player, status>>
    BY <1>4 DEF LoopLeaveWait, game_vars, players_vars, turn_vars
  <2>. QED  BY <1>1, <2>1 DEF TurnInv
<1>5. CASE LoopRedraw \/ LoopDecide \/ LoopForceFold \/ LoopRefresh
  <2>1. ui # "move" /\ lpc' \notin {"show", "decide"}
    BY <1>5 DEF LoopRedraw, LoopDecide, LoopForceFold, LoopRefresh, TurnInv, LockFree
  <2>. QED  BY <1>1, <2>1 DEF TurnInv
<1>6. CASE LoopNewHand \/ LoopEndRound \/ LoopClosed \/ LoopConfirmed \/ LoopPhase
           \/ LoopAbandon \/ LoopPayout \/ LoopResult \/ LoopAsk
  <2>1. lpc' \notin {"turn", "show", "wait", "decide"}
    BY <1>6 DEF LoopNewHand, LoopEndRound, LoopClosed, LoopConfirmed, LoopPhase,
       LoopAbandon, LoopPayout, LoopResult, LoopAsk
  <2>. QED  BY <2>1 DEF TurnInv
<1>. QED  BY <1>2, <1>3, <1>4, <1>5, <1>6 DEF Loop

\* So does a click, and what its handler does after it: of two players only
\* one is left to act when the handler moves a turn that was moved before.
LEMMA ClickTurn ==
  ASSUME N = 2, TypeOK, TurnInv, Handler \/ Clicks
  PROVE  TurnInv'
<1>1. UNCHANGED <<lpc, turn>>
  BY DEF Handler, HandlerMove, HandlerCheck, HandlerRefresh, Clicks, ClickAction,
     ClickRaise, CancelRaise, ConfirmRaise, HandleAction, ClickNextPhase, LateClick,
     ClickNextHand, PhaseConfirmed, loop_vars
<1>2. CASE HandlerMove
  <2>1. ui = "move" /\ ui' = "check" /\ UNCHANGED status /\ MoveToNextPlayer
    BY <1>2 DEF HandlerMove, players_vars
  <2>2. ASSUME lpc \in {"show", "decide"}, turn # HUMAN
        PROVE  current_player' = turn /\ status'[turn] = "active"
    <3>1. lpc = "show" /\ current_player = turn /\ status[turn] = "active"
      BY <2>1, <2>2 DEF TurnInv, LockFree
    <3>2. status[HUMAN] # "active"
      BY <2>1, <2>2, <3>1 DEF TurnInv
    <3>3. turn \in Seats /\ HUMAN \in Seats /\ Seats = {0, 1}
      BY DEF TypeOK, FletAssumption
    <3>4. Active' = {turn}
      BY <2>1, <2>2, <3>1, <3>2, <3>3 DEF Active
    <3>5. NextIn(current_player, {turn}) = turn
      BY DEF NextIn
    <3>. QED  BY <2>1, <3>1, <3>4, <3>5 DEF MoveToNextPlayer
  <2>3. lpc # "decide"
    BY <2>1 DEF TurnInv, LockFree
  <2>. QED  BY <1>1, <2>1, <2>2, <2>3 DEF TurnInv
<1>3. CASE HandlerCheck \/ HandlerRefresh \/ ClickRaise \/ CancelRaise \/ ClickNextPhase
           \/ LateClick \/ ClickNextHand
  <2>1. /\ UNCHANGED <<current_player, status>>
        /\ ui' = ui \/ ui' \in {"idle", "refresh"}
    BY <1>3 DEF HandlerCheck, HandlerRefresh, ClickRaise, CancelRaise, ClickNextPhase,
       LateClick, ClickNextHand, PhaseConfirmed, game_vars, players_vars, turn_vars, click_vars
  <2>. QED  BY <1>1, <2>1 DEF TurnInv, LockFree
<1>4. CASE ClickAction \/ ConfirmRaise
  <2>1. PICK action, amount : HandleAction(action, amount)
    BY <1>4 DEF ClickAction, ConfirmRaise
  <2>2. UNCHANGED current_player
    BY <2>1 DEF HandleAction, turn_vars
  <2>3. CASE ApplyAction(HUMAN, action, amount)
    <3>1. current_player = HUMAN
      BY <2>3 DEF ApplyAction
    <3>. QED  BY <1>1, <2>2, <3>1 DEF TurnInv
  <2>4. CASE ~ApplyAction(HUMAN, action, amount)
    <3>1. ui' = "refresh" /\ UNCHANGED status
      BY <2>1, <2>4 DEF HandleAction, players_vars
    <3>. QED  BY <1>1, <2>2, <3>1 DEF TurnInv, LockFree
  <2>. QED  BY <2>3, <2>4
<1>. QED  BY <1>2, <1>3, <1>4 DEF Handler, Clicks

\* Heads-up, the player the loop lets decide is the one the engine will
\* accept, although it reads the turn before it redraws and the handlers move
\* the turn in a step of their own.
THEOREM LoopAsksTheActor ==
  ASSUME N = 2
  PROVE  Spec => []LoopKnowsWhoActs
<1>1. Init => TurnInv
  BY DEF Init, TurnInv
<1>2. TypeOK /\ TurnInv /\ [Next]_vars => TurnInv'
  <2>. SUFFICES ASSUME TypeOK, TurnInv, [Next]_vars PROVE TurnInv'
    OBVIOUS
  <2>1. CASE Finished \/ UNCHANGED vars
    <3>1. UNCHANGED <<lpc, turn, ui, status, current_player>>
      BY <2>1 DEF Finished, vars, game_vars, players_vars, turn_vars, loop_vars, click_vars
    <3>. QED  BY <3>1 DEF TurnInv, LockFree
  <2>. QED  BY <2>1, LoopTurn, ClickTurn DEF Next
<1>3. TurnInv => LoopKnowsWhoActs
  BY DEF TurnInv, LoopKnowsWhoActs
<1>. QED  BY <1>1, <1>2, <1>3, FletTypeCorrect, PTL DEF Spec
=============================================================================
