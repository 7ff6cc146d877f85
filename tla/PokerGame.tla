----------------------------- MODULE PokerGame -----------------------------
(***************************************************************************)
(* The game engine of poker/game.py (class PokerGame) with the part of     *)
(* poker/player_models.py (class Player) that it mutates.  A seat is the   *)
(* index of a player, which is also its id.  The module gives the engine's *)
(* state and its operations; the loops that call them are GameLoop (the    *)
(* command line) and its siblings.                                         *)
(*                                                                         *)
(* Cards are abstracted: community_cards is their number, and the order of *)
(* the hands is an argument of ConductShowdown.                            *)
(***************************************************************************)
EXTENDS Integers, FiniteSets, SidePots

CONSTANTS
  N,              \* number of players at the table
  SMALL_BLIND,    \* self.small_blind
  BIG_BLIND,      \* self.big_blind
  INITIAL_CHIPS   \* self.initial_chips, the same for every player

ASSUME TableAssumption ==
  /\ N \in Nat /\ N >= 2
  /\ SMALL_BLIND \in Nat \ {0}
  /\ BIG_BLIND \in Nat \ {0}
  /\ INITIAL_CHIPS \in Nat \ {0}

VARIABLES
  chips,            \* player.chips
  player_bet,       \* player.current_bet: the bet of this betting round
  total_bet,        \* player.total_bet_this_hand
  status,           \* player.status
  big_blind_seat,   \* the seat with is_big_blind set, or NoSeat
  phase,            \* current_phase
  community_cards,  \* len(community_cards)
  pot,
  current_bet,
  current_player,   \* current_player_index
  dealer,           \* dealer_button
  round_complete,   \* betting_round_complete
  last_raiser,      \* last_raiser_index, or NoSeat for None
  has_bet,          \* has_bet_or_raise_this_round
  hand_number

players_vars == <<chips, player_bet, total_bet, status>>
round_vars   == <<current_bet, last_raiser, has_bet>>
turn_vars    == <<current_player, round_complete>>
hand_vars    == <<big_blind_seat, phase, community_cards, dealer, hand_number>>
game_vars    == <<players_vars, round_vars, turn_vars, hand_vars, pot>>

Seats  == 0 .. N - 1
NoSeat == -1

Statuses == {"active", "folded", "all_in", "busted"}
Phases   == {"preflop", "flop", "turn", "river", "showdown", "finished"}
Actions  == {"fold", "check", "call", "raise", "all_in"}

GameTypeOK ==
  /\ chips \in [Seats -> Nat]
  /\ player_bet \in [Seats -> Nat]
  /\ total_bet \in [Seats -> Nat]
  /\ status \in [Seats -> Statuses]
  /\ big_blind_seat \in Seats \cup {NoSeat}
  /\ phase \in Phases
  /\ community_cards \in {0, 3, 4, 5}
  /\ pot \in Nat
  /\ current_bet \in Nat
  /\ current_player \in Seats
  /\ dealer \in Seats
  /\ round_complete \in BOOLEAN
  /\ last_raiser \in Seats \cup {NoSeat}
  /\ has_bet \in BOOLEAN
  /\ hand_number \in Nat

-----------------------------------------------------------------------------
(* Seats in playing order *)

\* How many seats clockwise from i to j; a full turn when i = j.
Distance(i, j) == IF j > i THEN j - i ELSE j - i + N

\* The first seat of S met when the seats after i are scanned in order.
NextIn(i, S) == CHOOSE j \in S : \A k \in S : Distance(i, j) <= Distance(i, k)

Active    == {p \in Seats : status[p] = "active"}
Remaining == {p \in Seats : status[p] \in {"active", "all_in"}}

\* _get_next_active_player_from: range(1, n) never returns to its start.
NextActiveFrom(i) ==
  IF Active \ {i} = {} THEN NoSeat ELSE NextIn(i, Active \ {i})

FirstOf(S) == IF S = {} THEN NoSeat ELSE Least(S)

\* _get_first_actor_for_phase, its fallback to the lowest seat included
FirstActorForPhase ==
  LET from == IF phase = "preflop" THEN big_blind_seat ELSE dealer
  IN  IF from # NoSeat /\ NextActiveFrom(from) # NoSeat
      THEN NextActiveFrom(from)
      ELSE FirstOf(Active)

-----------------------------------------------------------------------------
(* start_new_hand *)

\* The players that reset_for_new_hand leaves in the game.
Playing == {p \in Seats : chips[p] > 0}

MoveDealerButton ==
  IF dealer \in Playing THEN NextIn(dealer, Playing) ELSE Least(Playing)

\* _post_blinds: heads-up the dealer posts the small blind.
SmallBlindSeat(d) ==
  IF Cardinality(Playing) = 2 THEN d ELSE NextIn(d, Playing)
BigBlindSeat(d) == NextIn(SmallBlindSeat(d), Playing)

\* _set_first_actor_preflop: heads-up the dealer, else the seat after the
\* big blind, all-in players counted (only the driver skips them).
FirstActorPreflop(d) ==
  IF Cardinality(Playing) = 2 THEN d ELSE NextIn(BigBlindSeat(d), Playing)

\* Mutant: a blind is not cut to the stack.
BlindPaid_Uncut(d, p) ==
  IF p = SmallBlindSeat(d) THEN SMALL_BLIND
  ELSE IF p = BigBlindSeat(d) THEN BIG_BLIND ELSE 0

\* Player.bet on a fresh hand: a blind larger than the stack is cut to it.
BlindPaid(d, p) ==
  LET due == IF p = SmallBlindSeat(d) THEN SMALL_BLIND
             ELSE IF p = BigBlindSeat(d) THEN BIG_BLIND ELSE 0
  IN  IF due <= chips[p] THEN due ELSE chips[p]

DealHand ==
  LET d == MoveDealerButton
      paid == [p \in Seats |-> BlindPaid(d, p)]
  IN  /\ Cardinality(Playing) >= 2
      /\ phase' = "preflop"
      /\ dealer' = d
      /\ big_blind_seat' = BigBlindSeat(d)
      /\ chips' = [p \in Seats |-> chips[p] - paid[p]]
      /\ player_bet' = paid
      /\ total_bet' = paid
      /\ status' = [p \in Seats |-> IF chips[p] = 0 THEN "busted"
                                    ELSE IF paid[p] = chips[p] THEN "all_in"
                                    ELSE "active"]
      /\ pot' = paid[SmallBlindSeat(d)] + paid[BigBlindSeat(d)]
      /\ current_bet' = paid[BigBlindSeat(d)]
      /\ last_raiser' = BigBlindSeat(d)
      /\ current_player' = FirstActorPreflop(d)

\* Every driver tests is_game_over before it calls start_new_hand, so the
\* early return for fewer than two players with chips is never taken.
StartNewHand ==
  /\ hand_number' = hand_number + 1
  /\ community_cards' = 0
  /\ round_complete' = FALSE
  /\ has_bet' = FALSE
  /\ DealHand

-----------------------------------------------------------------------------
(* _get_available_actions: what a player is offered *)

Owed(p)   == current_bet - player_bet[p]
ToCall(p) == IF Owed(p) > 0 THEN Owed(p) ELSE 0

MinRaiseTotal ==
  IF current_bet = 0 THEN BIG_BLIND ELSE current_bet + BIG_BLIND

BigBlindOption(p) ==
  /\ phase = "preflop" /\ ~has_bet
  /\ ToCall(p) = 0 /\ current_bet = BIG_BLIND
  /\ p = big_blind_seat

MayRaise(p) == current_bet = 0 \/ ToCall(p) > 0 \/ BigBlindOption(p)

\* The offered actions with the amount shown to the player; the last
\* alternative of the all-in test of the code is implied by ToCall(p) > 0.
AvailableActions(p) ==
  IF status[p] # "active" THEN {} ELSE
       {[action |-> "fold", amount |-> 0]}
  \cup (IF ToCall(p) = 0 THEN {[action |-> "check", amount |-> 0]} ELSE {})
  \cup (IF ToCall(p) > 0 /\ chips[p] >= ToCall(p)
        THEN {[action |-> "call", amount |-> ToCall(p)]} ELSE {})
  \cup (IF MayRaise(p) /\ chips[p] >= MinRaiseTotal /\ ToCall(p) < chips[p]
        THEN {[action |-> "raise", amount |-> MinRaiseTotal]} ELSE {})
  \cup (IF chips[p] > 0 /\ MayRaise(p)
        THEN {[action |-> "all_in", amount |-> chips[p]]} ELSE {})

\* _parse_llm_response lifts a raise to the minimum it was offered and sets
\* a call to the amount it was offered; what was not offered keeps its amount.
Offered(p, action) == {o.amount : o \in {x \in AvailableActions(p) : x.action = action}}

ParsedRaise(p, amount) ==
  IF \E m \in Offered(p, "raise") : amount < m
  THEN CHOOSE m \in Offered(p, "raise") : TRUE
  ELSE amount

ParsedCall(p, amount) ==
  IF Offered(p, "call") = {} THEN amount ELSE CHOOSE m \in Offered(p, "call") : TRUE

\* A language model names any action, known to the engine or not.
ParsedDecisions(p, amounts) ==
     {[action |-> a, amount |-> 0] : a \in {"fold", "check", "unknown"}}
  \cup {[action |-> "call", amount |-> ParsedCall(p, m)] : m \in amounts}
  \cup {[action |-> "raise", amount |-> ParsedRaise(p, m)] : m \in amounts}
  \cup {[action |-> "all_in", amount |-> chips[p]]}

\* RandomPlayer picks an offered action, and raises to one, two or three times
\* the minimum, cut to its stack.
RandomRaise(p, times, least) ==
  IF times * least <= chips[p] THEN times * least ELSE chips[p]

RandomDecisions(p) ==
     {o \in AvailableActions(p) : o.action # "raise"}
  \cup {[action |-> "raise", amount |-> RandomRaise(p, times, least)] :
          times \in 1 .. 3, least \in Offered(p, "raise")}

\* LLMPlayer falls back to a random decision when it gets no answer.
Decisions(p, amounts) == ParsedDecisions(p, amounts) \cup RandomDecisions(p)

-----------------------------------------------------------------------------
(* process_player_action *)

\* Player.bet: nothing for an amount that is not positive, never more than
\* the stack, and a stack that reaches zero is all-in.
BetAmount(p, amount) ==
  IF amount <= 0 THEN 0 ELSE IF amount <= chips[p] THEN amount ELSE chips[p]

\* Mutant: the total of the hand is not kept up to date.
Bet_NoTotal(p, amount) ==
  LET actual == BetAmount(p, amount)
  IN  /\ chips' = [chips EXCEPT ![p] = @ - actual]
      /\ player_bet' = [player_bet EXCEPT ![p] = @ + actual]
      /\ pot' = pot + actual
      /\ status' = IF amount > 0 /\ actual = chips[p]
                   THEN [status EXCEPT ![p] = "all_in"] ELSE status
      /\ UNCHANGED total_bet

\* Mutant: the pot grows by the amount asked for, not by the amount bet.
Bet_NominalPot(p, amount) ==
  LET actual == BetAmount(p, amount)
  IN  /\ chips' = [chips EXCEPT ![p] = @ - actual]
      /\ player_bet' = [player_bet EXCEPT ![p] = @ + actual]
      /\ total_bet' = [total_bet EXCEPT ![p] = @ + actual]
      /\ pot' = pot + amount
      /\ status' = IF amount > 0 /\ actual = chips[p]
                   THEN [status EXCEPT ![p] = "all_in"] ELSE status

Bet(p, amount) ==
  LET actual == BetAmount(p, amount)
  IN  /\ chips' = [chips EXCEPT ![p] = @ - actual]
      /\ player_bet' = [player_bet EXCEPT ![p] = @ + actual]
      /\ total_bet' = [total_bet EXCEPT ![p] = @ + actual]
      /\ pot' = pot + actual
      /\ status' = IF amount > 0 /\ actual = chips[p]
                   THEN [status EXCEPT ![p] = "all_in"] ELSE status

RaiseTo(p, bet) ==
  /\ current_bet' = bet
  /\ last_raiser' = p
  /\ has_bet' = TRUE

Fold(p) ==
  /\ status' = [status EXCEPT ![p] = "folded"]
  /\ UNCHANGED <<chips, player_bet, total_bet, pot, round_vars>>

CanCheck(p) == current_bet <= player_bet[p]

Check(p) ==
  /\ CanCheck(p)
  /\ UNCHANGED <<players_vars, pot, round_vars>>

\* Mutant: a call for the whole stack is refused.
CanCall_Strict(p) == Owed(p) < chips[p]

\* A call with nothing owed is a check: Bet puts nothing in.
CanCall(p) == Owed(p) <= chips[p]

Call(p) ==
  /\ CanCall(p)
  /\ Bet(p, Owed(p))
  /\ UNCHANGED round_vars

\* The amount comes on top of the call.
CanRaise(p, amount) == Owed(p) + amount <= chips[p]

Raise(p, amount) ==
  /\ CanRaise(p, amount)
  /\ Bet(p, Owed(p) + amount)
  /\ RaiseTo(p, player_bet[p] + BetAmount(p, Owed(p) + amount))

CanAllIn(p) == chips[p] > 0

\* Mutant: an all-in above the current bet does not count as a raise.
AllIn_NeverRaises(p) ==
  /\ CanAllIn(p)
  /\ Bet(p, chips[p])
  /\ UNCHANGED round_vars

AllIn(p) ==
  /\ CanAllIn(p)
  /\ Bet(p, chips[p])
  /\ IF player_bet[p] + chips[p] > current_bet
     THEN RaiseTo(p, player_bet[p] + chips[p])
     ELSE UNCHANGED round_vars

\* Mutants: any matched round is closed; a round without a bet never is;
\* the last raiser is asked again.
ActionIsClosed_WhenMatched == TRUE
ActionIsClosed_NeverUnbet == last_raiser # NoSeat
ActionIsClosed_RaiserAgain ==
  \/ last_raiser = NoSeat /\ current_player = FirstActorForPhase
  \/ /\ last_raiser # NoSeat
     /\ \/ last_raiser \notin Active
        \/ current_player = NextActiveFrom(last_raiser)

\* The bets are equal: somebody bet or raised, or the turn has come back to
\* the first actor, or to the player after the last raiser (the big blind).
ActionIsClosed ==
  \/ last_raiser # NoSeat /\ has_bet
  \/ last_raiser = NoSeat /\ current_player = FirstActorForPhase
  \/ /\ last_raiser # NoSeat
     /\ \/ last_raiser \notin Active
        \/ current_player = NextActiveFrom(last_raiser)

\* Mutant: a single active player ends the round, matched or not.
SingleActiveDone_Always == Cardinality(Active) = 1

SingleActiveDone ==
  /\ Cardinality(Active) = 1
  /\ \A p \in Active : player_bet[p] >= current_bet

\* _check_betting_round_complete; called with the state after the action.
RoundIsOver ==
  \/ Cardinality(Remaining) <= 1
  \/ Active = {}
  \/ SingleActiveDone
  \/ /\ Cardinality(Active) > 1
     /\ \A p \in Active : player_bet[p] = current_bet
     /\ ActionIsClosed

\* _advance_to_next_player: without an active player the round is over.
MoveToNextPlayer ==
  current_player' = IF Active' = {} THEN current_player
                    ELSE NextIn(current_player, Active')

AdvanceToNextPlayer ==
  /\ UNCHANGED <<players_vars, round_vars, hand_vars, pot>>
  /\ MoveToNextPlayer
  /\ round_complete' = (round_complete \/ Active' = {})

EndTurn ==
  /\ MoveToNextPlayer
  /\ round_complete' = (round_complete \/ Active' = {} \/ RoundIsOver')

\* The tests that make process_player_action return True.
Accepts(p, action, amount) ==
  /\ p = current_player
  /\ status[p] = "active"
  /\ \/ action = "fold"
     \/ action = "check" /\ CanCheck(p)
     \/ action = "call" /\ CanCall(p)
     \/ action = "raise" /\ CanRaise(p, amount)
     \/ action = "all_in" /\ CanAllIn(p)

\* Everything process_player_action does before it moves the turn.
ApplyAction(p, action, amount) ==
  /\ p = current_player
  /\ status[p] = "active"
  /\ \/ action = "fold" /\ Fold(p)
     \/ action = "check" /\ Check(p)
     \/ action = "call" /\ Call(p)
     \/ action = "raise" /\ Raise(p, amount)
     \/ action = "all_in" /\ AllIn(p)
  /\ UNCHANGED hand_vars

ProcessPlayerAction(p, action, amount) ==
  ApplyAction(p, action, amount) /\ EndTurn

-----------------------------------------------------------------------------
(* advance_to_next_phase and conduct_showdown *)

BettingPhases == {"preflop", "flop", "turn", "river"}

NextPhaseOf(ph) == CASE ph = "preflop" -> "flop"
                     [] ph = "flop" -> "turn"
                     [] ph = "turn" -> "river"
                     [] ph = "river" -> "showdown"

\* What _deal_flop, _deal_turn and _deal_river leave on the board.
DealtBy(ph) == CASE ph = "flop" -> 3 [] ph = "turn" -> 4 [] ph = "river" -> 5

\* The flag has_bet keeps its value from the round before.
StartNewBettingRound ==
  /\ player_bet' = [p \in Seats |-> 0]
  /\ current_bet' = 0
  /\ last_raiser' = NoSeat
  /\ round_complete' = (Active = {})
  /\ current_player' = IF Active = {} THEN current_player ELSE FirstActorForPhase'
  /\ UNCHANGED has_bet

\* Mutant: all-in players are taken for folded ones.
HandIsDecided_ByActive == Cardinality(Active) <= 1

HandIsDecided == Cardinality(Remaining) <= 1

\* The callers test the phase before each call, so the operation is only
\* reached in a betting phase.
CanAdvancePhase == round_complete /\ phase \in BettingPhases

AdvanceToNextPhase ==
  /\ CanAdvancePhase
  /\ UNCHANGED <<chips, total_bet, status, pot, big_blind_seat, dealer, hand_number>>
  /\ \/ /\ HandIsDecided \/ phase = "river"
        /\ phase' = "showdown"
        /\ UNCHANGED <<player_bet, community_cards, round_vars, turn_vars>>
     \/ /\ ~HandIsDecided /\ phase # "river"
        /\ phase' = NextPhaseOf(phase)
        /\ community_cards' = DealtBy(phase')
        /\ StartNewBettingRound

\* The player left alone takes the pot, which keeps its value; two or more
\* share the layers and the pot keeps what no layer could pay.
Payout(strength) ==
  IF Cardinality(Remaining) = 1
  THEN [p \in Seats |-> IF p \in Remaining THEN pot ELSE 0]
  ELSE Winnings(total_bet, Remaining, strength)

ConductShowdown(strength) ==
  /\ \/ /\ Remaining = {}
        /\ UNCHANGED <<chips, pot>>
     \/ /\ Remaining # {}
        /\ chips' = [p \in Seats |-> chips[p] + Payout(strength)[p]]
        /\ pot' = LET rest == pot - Sum(Payout(strength), N)
                  IN  IF Cardinality(Remaining) = 1 THEN pot
                      ELSE IF rest > 0 THEN rest ELSE 0
  /\ UNCHANGED <<player_bet, total_bet, status, round_vars, turn_vars, hand_vars>>

IsGameOver == Cardinality(Playing) <= 1

-----------------------------------------------------------------------------
(* setup_*_game: equal stacks, a random dealer, no hand yet *)

GameInit ==
  /\ chips = [p \in Seats |-> INITIAL_CHIPS]
  /\ player_bet = [p \in Seats |-> 0]
  /\ total_bet = [p \in Seats |-> 0]
  /\ status = [p \in Seats |-> "active"]
  /\ big_blind_seat = NoSeat
  /\ phase = "preflop"
  /\ community_cards = 0
  /\ pot = 0
  /\ current_bet = 0
  /\ current_player = 0
  /\ dealer \in Seats
  /\ round_complete = FALSE
  /\ last_raiser = NoSeat
  /\ has_bet = FALSE
  /\ hand_number = 0
=============================================================================
