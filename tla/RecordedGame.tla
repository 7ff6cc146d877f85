---------------------------- MODULE RecordedGame ----------------------------
(***************************************************************************)
(* The table of GameLoop together with the history database it writes:     *)
(* every step of the engine is taken with the statements that              *)
(* poker/game.py issues in it, in their order.  current_hand_id is None    *)
(* (0 here) until start_new_hand has inserted the first hand, which it     *)
(* does after the blinds have been posted.                                 *)
(*                                                                         *)
(* conduct_showdown pays the players and then issues one statement per     *)
(* player and one for the hand, each its own transaction and its own step  *)
(* here: whoever reads the database, or opens it after a crash, may find   *)
(* it between any two of them.                                             *)
(***************************************************************************)
EXTENDS GameLoop, GameHistory

VARIABLES
  current_hand_id,
  unrecorded,        \* player -> winnings: what record_showdown is still called for
  end_pending        \* end_hand is still to be called

showdown_vars == <<unrecorded, end_pending>>
recorded_vars == <<vars, db_vars, current_hand_id, showdown_vars>>

NoHand == 0

Blinds == {"small_blind", "big_blind"}

\* The engine, the loop and the database are well typed.
RecordedTypeOK ==
  /\ TypeOK
  /\ HistoryTypeOK
  /\ current_hand_id \in 0 .. MAX_HANDS
  /\ DOMAIN unrecorded \subseteq Seats /\ end_pending \in BOOLEAN

NoRows == [p \in {} |-> 0]

RecordedInit ==
  /\ Init /\ HistoryInit
  /\ current_hand_id = NoHand
  /\ unrecorded = NoRows /\ end_pending = FALSE

\* _post_blinds, before the new hand has its id
RecordBlinds ==
  LET sb == SmallBlindSeat(dealer')
      bb == BigBlindSeat(dealer')
  IN  IF current_hand_id = NoHand THEN UNCHANGED actions
      ELSE DbRecordActions(
        << ActionRow(current_hand_id, "preflop", sb, "small_blind",
                     player_bet'[sb], player_bet'[sb]),
           ActionRow(current_hand_id, "preflop", bb, "big_blind", player_bet'[bb], pot') >>)

RecordedNextHand ==
  /\ ~end_pending
  /\ NextHand
  /\ RecordBlinds
  /\ DbStartNewHand({p \in Seats : status'[p] # "busted"})
  /\ current_hand_id' = Len(hands')
  /\ UNCHANGED <<board, showdown_results, showdown_vars>>

RecordedSkip == SkipInactive /\ UNCHANGED <<db_vars, current_hand_id, showdown_vars>>

\* What process_player_action writes down as the amount of an action: a raise
\* by what was named, not by what it came to.
RecordedAmount(p, action, amount) ==
  CASE action \in {"raise", "all_in"} -> amount
    [] action = "call" -> current_bet' - (player_bet'[p] - amount)
    [] OTHER -> 0

\* Mutant: the pot is read before the action.
RecordTurn_StalePot(p, action, amount) ==
  DbRecordActions(<< ActionRow(current_hand_id, phase, p, action,
                               RecordedAmount(p, action, amount), pot) >>)

RecordTurn(p, action, amount) ==
  DbRecordActions(<< ActionRow(current_hand_id, phase, p, action,
                               RecordedAmount(p, action, amount), pot') >>)

RecordedTurn(action, amount) ==
  /\ Turn(action, amount)
  /\ RecordTurn(current_player, action, amount)
  /\ UNCHANGED <<hands, board, showdown_results, current_hand_id, showdown_vars>>

RecordedPlayerTurn ==
  \E d \in Decisions(current_player, RAISE_AMOUNTS) : RecordedTurn(d.action, d.amount)

RecordedForcedFold == SomeDecisionIsRefused /\ RecordedTurn("fold", 0)

\* Mutant: the cards are recorded under the phase that has just ended.
RecordPhase_Previous ==
  IF phase' = "showdown" THEN UNCHANGED board
  ELSE DbRecordCommunityCards(current_hand_id, phase, community_cards')

\* _deal_flop, _deal_turn and _deal_river; no cards are dealt for a showdown.
RecordPhase ==
  IF phase' = "showdown" THEN UNCHANGED board
  ELSE DbRecordCommunityCards(current_hand_id, phase', community_cards')

RecordedNextPhase ==
  /\ NextPhase
  /\ RecordPhase
  /\ UNCHANGED <<hands, actions, showdown_results, current_hand_id, showdown_vars>>

\* Mutant: the winnings are the new stacks.
ShowdownRows_Stacks(strength) ==
  IF Cardinality(Remaining) <= 1 THEN NoRows ELSE [p \in Remaining |-> chips'[p]]

\* What conduct_showdown has to write down once the players are paid: nothing
\* of a hand that nobody contests, for which it has returned before.
ShowdownRows(strength) ==
  IF Cardinality(Remaining) <= 1 THEN NoRows ELSE [p \in Remaining |-> Payout(strength)[p]]

RecordedShowdown ==
  /\ \E strength \in Strengths :
       ShowdownOf(strength) /\ unrecorded' = ShowdownRows(strength)
  /\ end_pending' = (Cardinality(Remaining) > 1)
  /\ UNCHANGED <<db_vars, current_hand_id>>

\* record_showdown of the next player in the order of the seats
RecordShowdown ==
  LET p == Least(DOMAIN unrecorded)
  IN  /\ DOMAIN unrecorded # {}
      /\ DbRecordShowdown(current_hand_id, p, unrecorded[p])
      /\ unrecorded' = [q \in DOMAIN unrecorded \ {p} |-> unrecorded[q]]
      /\ UNCHANGED <<vars, hands, actions, board, current_hand_id, end_pending>>

\* Mutant: the hand is ended before its cards are on record.
RecordHandEnd_First ==
  /\ end_pending
  /\ DbEndHand(current_hand_id)
  /\ end_pending' = FALSE
  /\ UNCHANGED <<vars, actions, board, showdown_results, current_hand_id, unrecorded>>

\* end_hand, when every player of the showdown is on record
RecordHandEnd ==
  /\ end_pending /\ DOMAIN unrecorded = {}
  /\ DbEndHand(current_hand_id)
  /\ end_pending' = FALSE
  /\ UNCHANGED <<vars, actions, board, showdown_results, current_hand_id, unrecorded>>

RecordedQuit ==
  /\ ~end_pending
  /\ Quit \/ Over
  /\ UNCHANGED <<db_vars, current_hand_id, showdown_vars>>

RecordedNext ==
  \/ RecordedNextHand \/ RecordedSkip \/ RecordedPlayerTurn \/ RecordedForcedFold
  \/ RecordedNextPhase \/ RecordedShowdown \/ RecordShowdown \/ RecordHandEnd
  \/ RecordedQuit

RecordedSpec == RecordedInit /\ [][RecordedNext]_recorded_vars

-----------------------------------------------------------------------------
(* Properties *)

\* What the players did in a hand; the blinds of a hand are recorded under the
\* hand before it (see RecordBlinds).
Played(hand) == {i \in HandActions(hand) : actions[i].type \notin Blinds}

FoldedIn(hand) == {actions[i].player : i \in {j \in Played(hand) : actions[j].type = "fold"}}

LastPot(hand) == actions[Greatest(Played(hand))].pot_after

\* The current hand is played, or its showdown is being written down.
Open == InHand \/ end_pending

Finished(hand) == hand < current_hand_id \/ ~Open

\* The pot can be followed through the actions of a hand: it never shrinks,
\* and while the hand is played the last action shows the pot on the table.
PotTrail ==
  /\ \A h \in DOMAIN hands : \A i, j \in Played(h) :
       i < j => actions[i].pot_after <= actions[j].pot_after
  /\ InHand /\ Played(current_hand_id) # {} => LastPot(current_hand_id) = pot

HasItsBoard(hand) ==
  \A ph \in {"flop", "turn", "river"} :
    <<hand, ph>> \in DOMAIN board /\ board[<<hand, ph>>] = DealtBy(ph)

Contested(hand) == Cardinality(hands[hand].player_ids \ FoldedIn(hand)) > 1

\* A hand that came to a showdown, as its recorded actions show it, is on
\* record as ended with its flop, its turn and its river once it is over, and
\* no hand is ended before that.  (What is on record of a hand that was won by
\* default is the question of EveryHandIsEnded.)
PastHandsAreOnRecord ==
  \A h \in DOMAIN hands :
    /\ Finished(h) /\ Contested(h) => hands[h].ended /\ HasItsBoard(h)
    /\ hands[h].ended => Finished(h)

\* docs/IMPLEMENTATION_SUMMARY.md:66: between any two transactions the cards on
\* record are those of players that did not fold, of a hand whose betting is
\* over; and when the hand is marked as ended all of them are there.
FoldedCardsStayHidden ==
  \A h \in DOMAIN hands :
    /\ Revealed(h) \subseteq hands[h].player_ids \ FoldedIn(h)
    /\ Revealed(h) # {} => h < current_hand_id \/ ~InHand
    /\ hands[h].ended => Revealed(h) = hands[h].player_ids \ FoldedIn(h)

\* The recorded winnings never exceed the recorded pot, and make it up to the
\* chip when nobody folded.
WinningsMatchPot ==
  \A h \in DOMAIN hands : hands[h].ended /\ Played(h) # {} =>
    LET won == Sum([p \in Seats |-> IF p \in Revealed(h) THEN showdown_results[<<h, p>>] ELSE 0], N)
    IN  won <= LastPot(h) /\ (FoldedIn(h) = {} => won = LastPot(h))

\* The statistics an agent reads never credit a player with a hand or a
\* showdown it was not dealt in, although the blinds are counted under the
\* wrong hand.
StatsNeverOvercount ==
  \A p \in Seats :
    LET dealt == Cardinality({h \in DOMAIN hands : p \in hands[h].player_ids})
    IN  HandsPlayed(p) <= dealt /\ Cardinality(Showdowns(p)) <= dealt

-----------------------------------------------------------------------------
(* What the documentation says and the code does not do *)

\* docs/requirements.md:103 has a hand end when all players but one folded, and
\* docs/database_schema.md:40 records the time every hand ended: a hand that is
\* over is on record as ended.
EveryHandIsEnded == \A h \in DOMAIN hands : Finished(h) => hands[h].ended
=============================================================================
