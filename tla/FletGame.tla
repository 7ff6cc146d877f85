------------------------------ MODULE FletGame ------------------------------
(***************************************************************************)
(* The desktop application: the thread of PokerFletUI.game_loop            *)
(* (poker/flet_ui.py) and the click handlers of GameUI (poker/game_ui.py)  *)
(* work on one PokerGame.  The handlers hold UI_UPDATE_LOCK while they run *)
(* the engine; the loop runs the engine without it and takes it only to    *)
(* redraw.  One player, HUMAN, clicks; the others decide in the loop.      *)
(*                                                                         *)
(* The loop reads betting_round_complete and current_player_index before   *)
(* it redraws and acts on them afterwards, and a click moves the turn      *)
(* before it closes the round, so the steps of process_player_action are   *)
(* separate steps of the click handler here.                               *)
(***************************************************************************)
EXTENDS PokerGame

CONSTANTS
  HUMAN,           \* current_player_id of the user interface
  RAISE_AMOUNTS,   \* the amounts typed or decided with a raise
  ACTION_LIMIT,    \* the loop gives up a betting round after so many turns
  MAX_HANDS,       \* bound of the model
  DOUBLE_CLICKS    \* whether a second click on "next phase" may be in flight

ASSUME FletAssumption ==
  /\ HUMAN \in 0 .. N - 1
  /\ RAISE_AMOUNTS \subseteq Int
  /\ ACTION_LIMIT \in Nat /\ MAX_HANDS \in Nat
  /\ DOUBLE_CLICKS \in BOOLEAN

VARIABLES
  lpc,                  \* where the game loop stands
  turn,                 \* local current_player of the loop
  old_index,            \* local old_player_index of the loop
  action_counter,       \* local of the loop
  ui,                   \* where the click handler stands
  buttons,              \* the controls of action_buttons_row
  raise_dialog,         \* raise_dialog.open
  waiting,              \* is_waiting_phase_confirmation
  phase_confirmed,      \* phase_transition_confirmed
  showdown_confirmed,   \* showdown_continue_confirmed
  late_click,           \* a second click on "next phase" is in flight
  stack                 \* history: chips of every player when the hand began

loop_vars  == <<lpc, turn, old_index, action_counter>>
flag_vars  == <<waiting, phase_confirmed, showdown_confirmed, late_click>>
click_vars == <<ui, raise_dialog>>
vars == <<game_vars, loop_vars, flag_vars, click_vars, buttons, stack>>

\* The user interface and the engine are well typed in every interleaving.
TypeOK ==
  /\ GameTypeOK
  /\ lpc \in {"new_hand", "redraw", "turn", "show", "wait", "decide", "refused",
              "refresh", "closed", "confirm", "phase", "payout", "result", "ask", "end"}
  /\ turn \in Seats /\ old_index \in Seats
  /\ action_counter \in 0 .. ACTION_LIMIT
  /\ ui \in {"idle", "move", "check", "refresh"}
  /\ buttons \subseteq Actions \cup {"next_phase"}
  /\ {raise_dialog, waiting, phase_confirmed, showdown_confirmed, late_click} \subseteq BOOLEAN
  /\ stack \in [Seats -> Nat]

Init ==
  /\ GameInit
  /\ lpc = "new_hand" /\ turn = 0 /\ old_index = 0 /\ action_counter = 0
  /\ ui = "idle" /\ buttons = {} /\ raise_dialog = FALSE
  /\ waiting = FALSE /\ phase_confirmed = FALSE
  /\ showdown_confirmed = FALSE /\ late_click = FALSE
  /\ stack = chips

\* No click handler is inside the engine.
LockFree == ui \in {"idle", "refresh"}

\* update_action_buttons: it does not ask whether the round is still open.
Choices ==
  IF phase \in BettingPhases /\ current_player = HUMAN
  THEN {o.action : o \in AvailableActions(HUMAN)}
  ELSE {}

\* While a confirmation is pending the buttons are left alone.
UpdateActionButtons == buttons' = IF waiting THEN buttons ELSE Choices

-----------------------------------------------------------------------------
(* The thread of game_loop *)

LoopNewHand ==
  /\ lpc = "new_hand"
  /\ hand_number < MAX_HANDS
  /\ \/ /\ IsGameOver
        /\ lpc' = "end"
        /\ UNCHANGED <<game_vars, stack, action_counter>>
     \/ /\ ~IsGameOver
        /\ StartNewHand
        /\ stack' = chips
        /\ action_counter' = 0
        /\ lpc' = "redraw"
  /\ UNCHANGED <<turn, old_index, flag_vars, click_vars, buttons>>

\* update_display after a new hand or a new phase: it waits for the lock.
LoopRedraw ==
  /\ lpc = "redraw" /\ LockFree
  /\ lpc' = "turn"
  /\ UNCHANGED <<game_vars, turn, old_index, action_counter, flag_vars, click_vars,
                 buttons, stack>>

\* The head of the inner loop: the round is over, or has gone on too long.
LoopEndRound ==
  /\ lpc = "turn"
  /\ round_complete \/ action_counter = ACTION_LIMIT
  /\ lpc' = "closed"
  /\ UNCHANGED <<game_vars, turn, old_index, action_counter, flag_vars, click_vars, buttons, stack>>

\* Mutant: the seat is asked whether it can act or not.
LoopTakeTurn_NoSkip ==
  /\ lpc = "turn"
  /\ ~round_complete /\ action_counter < ACTION_LIMIT
  /\ action_counter' = action_counter + 1
  /\ turn' = current_player
  /\ lpc' = "show"
  /\ UNCHANGED <<game_vars, old_index, flag_vars, click_vars, buttons, stack>>

LoopTakeTurn ==
  /\ lpc = "turn"
  /\ ~round_complete /\ action_counter < ACTION_LIMIT
  /\ action_counter' = action_counter + 1
  /\ \/ /\ status[current_player] # "active"
        /\ AdvanceToNextPlayer
        /\ UNCHANGED <<lpc, turn>>
     \/ /\ status[current_player] = "active"
        /\ turn' = current_player
        /\ lpc' = "show"
        /\ UNCHANGED game_vars
  /\ UNCHANGED <<old_index, flag_vars, click_vars, buttons, stack>>

LoopShow ==
  /\ lpc = "show" /\ LockFree
  /\ UpdateActionButtons
  /\ old_index' = current_player
  /\ lpc' = IF turn = HUMAN THEN "wait" ELSE "decide"
  /\ UNCHANGED <<game_vars, turn, action_counter, flag_vars, click_vars, stack>>

\* The turn moved or the round was closed; or ten seconds went by without a
\* click, and the loop asks the same player again.
LoopLeaveWait ==
  /\ lpc = "wait"
  /\ lpc' = "turn"
  /\ UNCHANGED <<game_vars, turn, old_index, action_counter, flag_vars, click_vars, buttons, stack>>

FoldIfAccepted(p) ==
  \/ ProcessPlayerAction(p, "fold", 0)
  \/ ~Accepts(p, "fold", 0) /\ UNCHANGED game_vars

\* An exception on the way to the decision folds without a redraw.
LoopDecide ==
  /\ lpc = "decide"
  /\ \/ \E d \in Decisions(turn, RAISE_AMOUNTS) :
          \/ ProcessPlayerAction(turn, d.action, d.amount) /\ lpc' = "refresh"
          \/ /\ ~Accepts(turn, d.action, d.amount)
             /\ lpc' = "refused"
             /\ UNCHANGED game_vars
     \/ FoldIfAccepted(turn) /\ lpc' = "turn"
  /\ UNCHANGED <<turn, old_index, action_counter, flag_vars, click_vars, buttons, stack>>

\* The engine refused the decision: the loop redraws and tries a fold.
LoopForceFold ==
  /\ lpc = "refused" /\ LockFree
  /\ UpdateActionButtons
  /\ FoldIfAccepted(turn)
  /\ lpc' = "refresh"
  /\ UNCHANGED <<turn, old_index, action_counter, flag_vars, click_vars, stack>>

\* The redraw after an AI's action, before the loop sleeps for a second; a
\* turn that has not moved is moved by hand.
LoopRefresh ==
  /\ lpc = "refresh" /\ LockFree
  /\ \/ /\ current_player = old_index /\ ~round_complete
        /\ AdvanceToNextPlayer
     \/ /\ current_player # old_index \/ round_complete
        /\ UNCHANGED game_vars
  /\ buttons' = IF waiting THEN buttons ELSE Choices'
  /\ lpc' = "turn"
  /\ UNCHANGED <<turn, old_index, action_counter, flag_vars, click_vars, stack>>

\* show_phase_transition_confirmation, when the human is still active
LoopClosed ==
  /\ lpc = "closed"
  /\ \/ /\ status[HUMAN] = "active" /\ LockFree
        /\ waiting' = TRUE
        /\ buttons' = {"next_phase"}
        /\ lpc' = "confirm"
     \/ /\ status[HUMAN] # "active"
        /\ lpc' = "phase"
        /\ UNCHANGED <<waiting, buttons>>
  /\ UNCHANGED <<game_vars, turn, old_index, action_counter, phase_confirmed,
                 showdown_confirmed, late_click, click_vars, stack>>

LoopConfirmed ==
  /\ lpc = "confirm" /\ phase_confirmed
  /\ phase_confirmed' = FALSE
  /\ lpc' = "phase"
  /\ UNCHANGED <<game_vars, turn, old_index, action_counter, waiting, showdown_confirmed,
                 late_click, click_vars, buttons, stack>>

LoopPhase ==
  /\ lpc = "phase"
  /\ AdvanceToNextPhase
  /\ lpc' = IF phase' = "showdown" THEN "payout" ELSE "redraw"
  /\ action_counter' = 0
  /\ UNCHANGED <<turn, old_index, flag_vars, click_vars, buttons, stack>>

\* advance_to_next_phase refuses: the round was given up, and so is the hand.
LoopAbandon ==
  /\ lpc = "phase" /\ ~round_complete
  /\ lpc' = "ask"
  /\ UNCHANGED <<game_vars, turn, old_index, action_counter, flag_vars, click_vars, buttons, stack>>

LoopPayout ==
  /\ lpc = "payout"
  /\ \E strength \in [Seats -> 1 .. N] : ConductShowdown(strength)
  /\ lpc' = "result"
  /\ UNCHANGED <<turn, old_index, action_counter, flag_vars, click_vars, buttons, stack>>

LoopResult ==
  /\ lpc = "result" /\ showdown_confirmed
  /\ showdown_confirmed' = FALSE
  /\ lpc' = IF IsGameOver THEN "end" ELSE "new_hand"
  /\ UNCHANGED <<game_vars, turn, old_index, action_counter, waiting, phase_confirmed,
                 late_click, click_vars, buttons, stack>>

\* ask_continue_game: yes or no, after a redraw that waits for the lock
LoopAsk ==
  /\ lpc = "ask" /\ LockFree
  /\ lpc' \in {"new_hand", "end"}
  /\ UNCHANGED <<game_vars, turn, old_index, action_counter, flag_vars, click_vars, buttons, stack>>

Loop ==
  \/ LoopNewHand \/ LoopRedraw \/ LoopEndRound \/ LoopTakeTurn \/ LoopShow \/ LoopLeaveWait
  \/ LoopDecide \/ LoopForceFold \/ LoopRefresh \/ LoopClosed \/ LoopConfirmed \/ LoopPhase
  \/ LoopAbandon \/ LoopPayout \/ LoopResult \/ LoopAsk

-----------------------------------------------------------------------------
(* The click handlers *)

\* handle_action up to the move of the turn; a refused action only redraws.
HandleAction(action, amount) ==
  /\ \/ ApplyAction(HUMAN, action, amount) /\ ui' = "move"
     \/ ~Accepts(HUMAN, action, amount) /\ UNCHANGED <<players_vars, round_vars, hand_vars, pot>>
        /\ ui' = "refresh"
  /\ UNCHANGED <<turn_vars, loop_vars, flag_vars, buttons, stack>>

ClickAction ==
  /\ ui = "idle" /\ ~raise_dialog
  /\ \E a \in (buttons \cap Actions) \ {"raise"} : HandleAction(a, 0)
  /\ UNCHANGED raise_dialog

\* The raise button opens a modal dialog, which stays open while the game
\* goes on behind it.
ClickRaise ==
  /\ ui = "idle" /\ ~raise_dialog
  /\ "raise" \in buttons
  /\ raise_dialog' = TRUE
  /\ UNCHANGED <<game_vars, loop_vars, flag_vars, ui, buttons, stack>>

CancelRaise ==
  /\ ui = "idle" /\ raise_dialog
  /\ raise_dialog' = FALSE
  /\ UNCHANGED <<game_vars, loop_vars, flag_vars, ui, buttons, stack>>

ConfirmRaise ==
  /\ ui = "idle" /\ raise_dialog
  /\ raise_dialog' = FALSE
  /\ \E m \in RAISE_AMOUNTS : HandleAction("raise", m)

HandlerMove ==
  /\ ui = "move"
  /\ UNCHANGED <<players_vars, round_vars, hand_vars, pot>>
  /\ MoveToNextPlayer
  /\ round_complete' = (round_complete \/ Active = {})
  /\ ui' = "check"
  /\ UNCHANGED <<loop_vars, flag_vars, raise_dialog, buttons, stack>>

HandlerCheck ==
  /\ ui = "check"
  /\ round_complete' = (round_complete \/ RoundIsOver)
  /\ ui' = "refresh"
  /\ UNCHANGED <<players_vars, round_vars, hand_vars, pot, current_player,
                 loop_vars, flag_vars, raise_dialog, buttons, stack>>

HandlerRefresh ==
  /\ ui = "refresh"
  /\ UpdateActionButtons
  /\ ui' = "idle"
  /\ UNCHANGED <<game_vars, loop_vars, flag_vars, raise_dialog, stack>>

\* Mutants: the handler forgets to end the wait, or to tell the loop.
PhaseConfirmed_KeepsWaiting ==
  /\ phase_confirmed' = TRUE
  /\ buttons' = {}
  /\ UNCHANGED <<game_vars, loop_vars, waiting, showdown_confirmed, click_vars, stack>>
PhaseConfirmed_NotTold ==
  /\ waiting' = FALSE
  /\ buttons' = {}
  /\ UNCHANGED <<game_vars, loop_vars, phase_confirmed, showdown_confirmed, click_vars, stack>>

\* _on_phase_transition_confirmed
PhaseConfirmed ==
  /\ phase_confirmed' = TRUE
  /\ waiting' = FALSE
  /\ buttons' = {}
  /\ UNCHANGED <<game_vars, loop_vars, showdown_confirmed, click_vars, stack>>

ClickNextPhase ==
  /\ ui = "idle" /\ ~raise_dialog
  /\ "next_phase" \in buttons
  /\ late_click' \in {late_click, late_click \/ DOUBLE_CLICKS}
  /\ PhaseConfirmed

LateClick ==
  /\ ui = "idle" /\ late_click
  /\ late_click' = FALSE
  /\ PhaseConfirmed

\* _on_showdown_continue_confirmed; the button is there while the result is.
ClickNextHand ==
  /\ lpc = "result" /\ ui = "idle" /\ ~raise_dialog
  /\ showdown_confirmed' = TRUE
  /\ UNCHANGED <<game_vars, loop_vars, waiting, phase_confirmed, late_click,
                 click_vars, buttons, stack>>

Handler == HandlerMove \/ HandlerCheck \/ HandlerRefresh

Clicks ==
  \/ ClickAction \/ ClickRaise \/ CancelRaise \/ ConfirmRaise
  \/ ClickNextPhase \/ LateClick \/ ClickNextHand

Finished ==
  /\ lpc = "end" \/ (lpc = "new_hand" /\ hand_number = MAX_HANDS)
  /\ UNCHANGED vars

Next == Loop \/ Handler \/ Clicks \/ Finished

Spec == Init /\ [][Next]_vars

\* The loop thread and a handler that has started run on, and no human
\* clicks so fast that the loop never gets the lock; the human answers a
\* prompt and closes a dialog sooner or later, but need not act in a hand.
FairSpec ==
  /\ Spec
  /\ SF_vars(Loop) /\ WF_vars(Handler)
  /\ WF_vars(ClickNextPhase) /\ WF_vars(ClickNextHand) /\ WF_vars(CancelRaise)

-----------------------------------------------------------------------------
(* Properties *)

InHand == lpc \notin {"new_hand", "result", "end"}

\* Whatever the order of clicks and loop steps, no chip is lost or counted
\* twice while the hand runs.
ChipsSurviveClicks ==
  InHand => /\ pot = Sum(total_bet, N)
            /\ \A p \in Seats : chips[p] + total_bet[p] = stack[p]

\* Heads-up, the player the loop lets decide is the one the engine accepts,
\* however the clicks fall between the loop's reads.  (With more players the
\* loop and the click handler can each move the turn on, and they differ.)
LoopKnowsWhoActs == lpc = "decide" => current_player = turn /\ status[turn] = "active"

\* When the loop waits for the human, there is a button to click: those of
\* the actions, or the "next phase" button a late second click has left
\* behind, which gives way to them.  Only that late click itself, which leaves
\* its mark in phase_confirmed, clears the row until the loop asks again.
HumanCanAct ==
  lpc = "wait" /\ ui = "idle" /\ ~phase_confirmed
               /\ current_player = HUMAN /\ ~round_complete
    => buttons # {}

\* The loop and the handlers never block each other for good: every hand is
\* finished or given up.
EveryHandIsLeft == (lpc = "turn") ~> (lpc \in {"result", "ask"})
=============================================================================
