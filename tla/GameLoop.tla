------------------------------ MODULE GameLoop ------------------------------
(***************************************************************************)
(* The command-line driver of the engine: the hand loop that cli_ui.py     *)
(* repeats in run_game, run_agent_only_mode and run_cpu_only_game, with    *)
(* players whose decisions come from _parse_llm_response.                  *)
(*                                                                         *)
(*   between --NextHand--> hand --NextPhase--> showdown --Showdown-->      *)
(*   between ... --Quit--> over                                            *)
(*                                                                         *)
(* stack and acted are history variables: what each player owned when the  *)
(* hand began, and who has acted since the last raise of this round.       *)
(***************************************************************************)
EXTENDS PokerGame

CONSTANTS
  RAISE_AMOUNTS,   \* the amounts a player may name with a raise
  MAX_HANDS        \* max_hands of run_agent_only_mode

ASSUME LoopAssumption == RAISE_AMOUNTS \subseteq Int /\ MAX_HANDS \in Nat

VARIABLES
  pc,      \* where the loop stands
  stack,   \* history: chips of every player when the hand began
  acted    \* history: the players that acted since the last raise

history_vars == <<stack, acted>>
vars == <<game_vars, pc, history_vars>>

Strengths == [Seats -> 1 .. N]

LoopTypeOK ==
  /\ pc \in {"between", "hand", "showdown", "over"}
  /\ stack \in [Seats -> Nat]
  /\ acted \subseteq Seats

\* The state of the engine and of the loop is well typed.
TypeOK == GameTypeOK /\ LoopTypeOK

Init ==
  /\ GameInit
  /\ pc = "between"
  /\ stack = chips
  /\ acted = {}

-----------------------------------------------------------------------------
(* The steps of the loop *)

NextHand ==
  /\ pc = "between"
  /\ ~IsGameOver /\ hand_number < MAX_HANDS
  /\ StartNewHand
  /\ pc' = "hand"
  /\ stack' = chips
  /\ acted' = {}

\* The seat whose turn it is cannot act: the loop moves on by itself.
SkipInactive ==
  /\ pc = "hand" /\ ~round_complete
  /\ status[current_player] # "active"
  /\ AdvanceToNextPlayer
  /\ UNCHANGED <<pc, history_vars>>

Acted(p) == acted' = IF current_bet' > current_bet THEN {p} ELSE acted \cup {p}

Turn(action, amount) ==
  /\ pc = "hand" /\ ~round_complete
  /\ status[current_player] = "active"
  /\ ProcessPlayerAction(current_player, action, amount)
  /\ Acted(current_player)
  /\ UNCHANGED <<pc, stack>>

PlayerTurn ==
  \E d \in Decisions(current_player, RAISE_AMOUNTS) : Turn(d.action, d.amount)

\* The engine refuses a decision and the loop folds for the player.
SomeDecisionIsRefused ==
  \E d \in Decisions(current_player, RAISE_AMOUNTS) :
    ~Accepts(current_player, d.action, d.amount)

ForcedFold == SomeDecisionIsRefused /\ Turn("fold", 0)

NextPhase ==
  /\ pc = "hand"
  /\ AdvanceToNextPhase
  /\ pc' = IF phase' = "showdown" THEN "showdown" ELSE "hand"
  /\ acted' = {}
  /\ UNCHANGED stack

ShowdownOf(strength) ==
  /\ pc = "showdown"
  /\ ConductShowdown(strength)
  /\ pc' = "between"
  /\ UNCHANGED history_vars

Showdown == \E strength \in Strengths : ShowdownOf(strength)

Quit ==
  /\ pc = "between"
  /\ IsGameOver \/ hand_number = MAX_HANDS
  /\ pc' = "over"
  /\ UNCHANGED <<game_vars, history_vars>>

Over == pc = "over" /\ UNCHANGED vars

HandStep == SkipInactive \/ PlayerTurn \/ ForcedFold \/ NextPhase

Next == NextHand \/ HandStep \/ Showdown \/ Quit \/ Over

Spec == Init /\ [][Next]_vars

\* Within a hand the loop is a single thread of control that never waits: a
\* decision always comes back, by a time-out if need be.
FairSpec == Spec /\ WF_vars(HandStep)

-----------------------------------------------------------------------------
(* Safety *)

InHand == pc \in {"hand", "showdown"}

\* docs/game_state_format.md, rule 1: until the pot is paid out, what a
\* player owns and what it has bet in this hand is what it began with.
StackAccounting ==
  InHand => \A p \in Seats : chips[p] + total_bet[p] = stack[p]

\* Rule 2: the pot is the sum of what the players have bet in this hand.
PotIsSumOfBets == InHand => pot = Sum(total_bet, N)

\* Rule 3: to_call is computed from the highest bet, so current_bet has to
\* be it.  A big blind that cannot even cover the small blind is the
\* exception (see HandEnds).
CurrentBetIsHighest ==
  pc = "hand" =>
    \/ phase = "preflop" /\ stack[big_blind_seat] < SMALL_BLIND
    \/ /\ \A p \in Seats : player_bet[p] <= current_bet
       /\ \E p \in Seats : player_bet[p] = current_bet

\* A round that is over leaves nobody with a bet to match, unless the hand
\* is over with it.
ClosedRoundIsSettled ==
  pc = "hand" /\ round_complete /\ Cardinality(Remaining) > 1
    => \A p \in Active : player_bet[p] >= current_bet

\* What current_bet is when a round opens.
OpeningBet ==
  IF phase # "preflop" THEN 0
  ELSE IF stack[big_blind_seat] <= BIG_BLIND THEN stack[big_blind_seat] ELSE BIG_BLIND

\* The round counts as raised and current_bet is what the round opened with:
\* all its raises named the amount 0, which PlayerAction and
\* process_player_action have for a default.
RaisedByNothing == last_raiser # NoSeat /\ has_bet /\ current_bet = OpeningBet

\* While two players can still bet against each other, no round closes over
\* the head of one that has not acted since the last raise.  Three exceptions
\* remain: after the flop the first actor's fold closes a round nobody has bet
\* in (see EveryoneActs), a big blind all-in for no more than the small blind
\* is a last raiser that is not active, and a raise of nothing closes the round
\* as soon as the bets are equal, the big blind's option included.
NobodyIsSkipped ==
  pc = "hand" /\ round_complete /\ Cardinality(Active) > 1 =>
    \/ Active \subseteq acted
    \/ phase # "preflop" /\ current_bet = 0 /\ \E p \in acted : status[p] = "folded"
    \/ phase = "preflop" /\ stack[big_blind_seat] <= SMALL_BLIND
    \/ RaisedByNothing

\* Hands are only compared on a full board.
FullBoardAtShowdown ==
  pc = "showdown" /\ Cardinality(Remaining) > 1 => community_cards = 5

\* The engine takes every action it offers except the raise.
OfferedIsAccepted ==
  pc = "hand" /\ ~round_complete =>
    \A o \in AvailableActions(current_player) :
      o.action # "raise" => Accepts(current_player, o.action, o.amount)

\* Nobody is asked again while it has acted since the last raise and owes
\* nothing; after a big blind shorter than the small blind the loop does.
NobodyIsAskedTwice ==
  pc = "hand" /\ ~round_complete /\ status[current_player] = "active" =>
    \/ current_player \notin acted
    \/ Owed(current_player) > 0
    \/ phase = "preflop" /\ stack[big_blind_seat] < SMALL_BLIND

\* Chips leave the game only through a pot layer whose every contributor has
\* folded: a player that bet more than all who reached the showdown.
LostChipsWereFolded ==
  pc = "between" /\ hand_number > 0 /\ Sum(chips, N) # Sum(stack, N) =>
    /\ Sum(chips, N) < Sum(stack, N)
    /\ \E p \in Seats : /\ status[p] = "folded"
                      /\ \A q \in Remaining : total_bet[q] < total_bet[p]

\* The loop implements the chip ledger; between hands the engine may keep a
\* pot it has already paid out, which the ledger does not count.
Ledger == INSTANCE ChipLedger WITH bank <- chips,
                                   pot <- IF InHand THEN pot ELSE 0,
                                   open <- InHand
ImplementsLedger == Ledger!LedgerSpec

-----------------------------------------------------------------------------
(* What the documentation says and the code does not do *)

\* test_turn_phase_bug.py:82 expects one action of every active player before
\* a round after the flop closes.
EveryoneActs ==
  pc = "hand" /\ round_complete /\ phase # "preflop" /\ Cardinality(Active) > 1
    => Active \subseteq acted

\* poker/game.py:1240 takes the pot for fully distributed after a showdown.
PotIsPaidOut ==
  pc = "between" /\ hand_number > 0 => Sum(chips, N) = Sum(stack, N)

\* poker/game.py:462 offers the raise by its minimum total, which the player
\* has the chips for; the engine takes the amount as what comes on top.
OfferedRaiseIsAccepted ==
  pc = "hand" /\ ~round_complete =>
    \A o \in AvailableActions(current_player) :
      o.action = "raise" => Accepts(current_player, o.action, o.amount)

-----------------------------------------------------------------------------
(* Liveness *)

\* A hand that has been dealt is played to its showdown.  The exception is a
\* big blind shorter than the small blind: two bets above current_bet never
\* equal it, and their owners can check to each other for ever.
HandEnds ==
  (pc = "hand" /\ ~(phase = "preflop" /\ stack[big_blind_seat] < SMALL_BLIND))
    ~> (pc = "showdown")
=============================================================================
