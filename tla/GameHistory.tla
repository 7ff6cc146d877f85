---------------------------- MODULE GameHistory ----------------------------
(***************************************************************************)
(* The history database of poker/game_history.py (class GameHistoryDB):    *)
(* its four tables and the statements on them.  Every statement is one     *)
(* committed transaction.  A hand id is AUTOINCREMENT, so it is the place  *)
(* of the hand in the table; time stamps, blinds and card names carry no   *)
(* information the properties use.                                         *)
(***************************************************************************)
EXTENDS Integers, Sequences, FiniteSets

VARIABLES
  hands,             \* the rows of hands: who takes part, and is ended_at set
  actions,           \* the rows of actions in the order of action_id
  board,             \* community_cards: (hand id, phase) -> number of cards
  showdown_results   \* (hand id, player) -> winnings

db_vars == <<hands, actions, board, showdown_results>>

HistoryInit ==
  /\ hands = <<>>
  /\ actions = <<>>
  /\ board = <<>>
  /\ showdown_results = <<>>

HistoryTypeOK ==
  /\ \A h \in DOMAIN hands : hands[h].ended \in BOOLEAN /\ IsFiniteSet(hands[h].player_ids)
  /\ \A i \in DOMAIN actions : actions[i].amount \in Int /\ actions[i].pot_after \in Nat
  /\ \A k \in DOMAIN board : board[k] \in {3, 4, 5}
  /\ \A k \in DOMAIN showdown_results : showdown_results[k] \in Nat

-----------------------------------------------------------------------------
(* Statements *)

\* start_new_hand returns lastrowid, which is Len(hands)'.
DbStartNewHand(players) ==
  hands' = Append(hands, [player_ids |-> players, ended |-> FALSE])

ActionRow(hand, ph, player, type, amount, pot_after) ==
  [hand |-> hand, phase |-> ph, player |-> player, type |-> type,
   amount |-> amount, pot_after |-> pot_after]

DbRecordActions(rows) == actions' = actions \o rows

\* INSERT OR REPLACE: a new row takes the place of the row with its key.
Upsert(table, rows) ==
  [k \in DOMAIN table \cup DOMAIN rows |->
     IF k \in DOMAIN rows THEN rows[k] ELSE table[k]]

\* The key is (hand_id, phase).
DbRecordCommunityCards(hand, ph, cards) ==
  board' = Upsert(board, [k \in {<<hand, ph>>} |-> cards])

\* The key is (hand_id, player_id).
DbRecordShowdown(hand, player, winnings) ==
  showdown_results' = Upsert(showdown_results, [k \in {<<hand, player>>} |-> winnings])

DbEndHand(hand) == hands' = [hands EXCEPT ![hand].ended = TRUE]

-----------------------------------------------------------------------------
(* Queries *)

\* get_hand_history: the ids of the actions of one hand, which order them
HandActions(hand) == {i \in DOMAIN actions : actions[i].hand = hand}

Revealed(hand) == {k[2] : k \in {x \in DOMAIN showdown_results : x[1] = hand}}

\* Mutant: COUNT(hand_id), without the DISTINCT.
HandsPlayed_Rows(player) == Cardinality({i \in DOMAIN actions : actions[i].player = player})

\* get_player_action_stats: COUNT(DISTINCT hand_id), and the showdowns
HandsPlayed(player) ==
  Cardinality({actions[i].hand : i \in {j \in DOMAIN actions : actions[j].player = player}})

Showdowns(player) == {k \in DOMAIN showdown_results : k[2] = player}
=============================================================================
