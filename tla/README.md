# ADK Poker: TLA+ models and proofs

This directory holds a verification project for the poker application in the
repository: a Texas hold'em engine (`poker/game.py`), its command-line and
desktop front ends, its hand evaluator, its history database, its setup
screen, the players that ask agents over HTTP, the viewer for spectators and the
log viewer. Each module translates code; `PROJECT.json` names the source lines of
every definition, the TLC runs, one mutant per property, and the theorems.

    tlc -workers 2 -config GameLoop.cfg GameLoop      # one run
    tlapm RecordedGameProofs.tla                      # one module of proofs

## 1. The system

| Component | Source | State | Operations |
|---|---|---|---|
| Game engine | `poker/game.py`, `poker/game_models.py` | stacks, bets of the round and of the hand, statuses, board, pot, current bet, turn, button, last raiser, two flags | `start_new_hand`, `process_player_action`, `_advance_to_next_player`, `advance_to_next_phase`, `conduct_showdown`, `is_game_over`, `_get_available_actions` |
| Players | `poker/player_models.py` | the accounts above | `bet`, `fold`, the resets; `make_decision` of human, random, LLM and API players; `_parse_llm_response` |
| Command-line loops | `poker/cli_ui.py` | hand counter | `run_game`, `run_agent_only_mode`, `run_cpu_only_game` |
| Desktop game | `poker/flet_ui.py`, `poker/game_ui.py` | loop locals, buttons, dialog, confirmation flags, one lock | `game_loop` (a thread), click handlers, `update_display`, `update_action_buttons` |
| Hand evaluator | `poker/evaluator.py` | none | `evaluate_hand`, `_evaluate_five_cards`, `compare_hands`, `__lt__`, `__eq__` |
| History database | `poker/game_history.py` | four tables | `start_new_hand`, `record_*`, `end_hand`, queries |
| Setup screen, agent manager | `poker/setup_ui.py`, `poker/agent_manager.py` | agent list, cards, test results, form | refresh, connection tests, changes of the form, start |
| API player | `poker/player_models.py` | request thread, last reason | `make_decision` with a session, polling and two time-outs |
| State server, viewer | `poker/state_server.py`, `poker/shared_state.py`, `poker/viewer_ui.py` | a reference to the live game, the page | JSON snapshot over HTTP, polling, drawing |
| Log viewer | `log_viewer.py` | events, file position, panel, switch, redraw flag | load a file, refresh, toggle, redraw by a timer |
| Agents, `main.py` | `agents/`, `tutorial_agents/`, `main.py` | - | prompts, tool functions, argument parsing |

Interaction. A front end owns one `PokerGame` and drives it: it asks the player
whose turn it is for a decision, passes it to `process_player_action`, and moves
to the next phase or to the showdown when `betting_round_complete` is set. The
engine calls the evaluator at a showdown and the database in most operations.
On the desktop the human's decision does not come from the loop: the click
handler calls the engine itself, in a thread of its own, and the loop watches
`current_player_index` and `betting_round_complete` to see that it happened. The
state server reads the live game from yet another thread, without a lock, and
the viewer, a process of its own, polls it. The log viewer knows the game only by
the file it writes.

What is hard about it:

* *When a betting round is over.* The code decides it from the last raiser, a
  flag that is not reset between rounds, and the seat whose turn it is
  (`_check_betting_round_complete`), with players all-in for less than a blind
  and players folding in any order.
* *Chips.* Bets cut to the stack, three sums that have to agree (stacks, bets,
  pot) and a distribution in layers with odd chips.
* *Threads.* The loop and the click handlers share the engine; the lock covers
  redrawing and the handlers, not the loop's own calls. Handlers of the setup
  screen overlap while requests are under way.
* *Time.* An agent may answer late or never; a loop that has given up on it
  still waits for the request thread.
* *Readers.* The state server and the log viewer read what others are changing;
  the threads of the log viewer share one parser and a file position.
* *Order of records.* The database is written in the middle of engine
  operations, before the hand has its id, and not on every path.

The properties that make each part correct are in section 3, the hazards, line by
line, in `PROJECT.json`.

## 2. Modules

| Module | Models | Builds on |
|---|---|---|
| `Sums` | finite sums, least and greatest element | |
| `SidePots` | the layers of `conduct_showdown` | `Sums` |
| `PokerGame` | the engine: state and operations, no `Next` | `SidePots` |
| `GameLoop` | the command-line loops over the engine | `PokerGame`, `ChipLedger` |
| `ChipLedger` | abstract specification: where chips may go | `Sums` |
| `FletGame` | loop thread and click handlers over the engine | `PokerGame` |
| `GameHistory` | the tables and statements of the database | |
| `RecordedGame` | composition of `GameLoop` and `GameHistory` | both |
| `HandEvaluator` | the evaluator and the comparisons of hands | |
| `SetupScreen` | `SetupUI` and `AgentManager` with their handler threads | |
| `ApiPlayer` | `LLMApiPlayer.make_decision` with its request thread | |
| `Spectator` | desktop games one after the other or side by side, state server and viewer | `ApiPlayer` |
| `LogViewer` | the parser of the log viewer and its threads | |
| `MCSidePots`, `MCHandEvaluator`, `MCLogViewer` | reference definitions and bounded inputs | |
| `SidePotsProofs`, `PokerGameProofs` | lemmas about sums, the distribution and the operations of the engine | the second extends the first |
| `RecordedGameProofs` | theorems about `GameLoop`, then about `RecordedGame` | `PokerGameProofs` |
| `MCSidePotsProofs`, `FletGameProofs`, `SpectatorProofs`, `LogViewerProofs`, `SetupScreenProofs` | theorems about the module of that name | the lemmas they need |

**PokerGame.** A seat is the index of a player, which is also its id. Variables
are the attributes of `PokerGame` and `Player` under their own names
(`player_bet` is `Player.current_bet`, `total_bet` is `total_bet_this_hand`,
`round_complete` is `betting_round_complete`, `has_bet` is
`has_bet_or_raise_this_round`). `community_cards` is the number of cards on the
board. The order of the hands at a showdown is a parameter of
`ConductShowdown`: the engine only asks which hands are the best, and
`HandEvaluator` is where the order is checked. `StartNewHand` contains the
button, the blinds, the deal and the first actor; `ProcessPlayerAction` contains
the action, the move of the turn and the test whether the round is over;
`AdvanceToNextPhase` contains the deal and `_start_new_betting_round`. Searches
"the next seat from i" are `NextIn`, a minimum over seat distances. Decisions are
everything `_parse_llm_response` can return, unknown actions and raises of any
amount in `RAISE_AMOUNTS` included, and everything `RandomPlayer` can choose, which
is also what a model that cannot be reached falls back to; a refused decision is folded by the driver
(`ForcedFold`).

**GameLoop.** One action per step of the loop; `stack` and `acted` are history
variables that no action reads. The three loops of `cli_ui.py` differ in output,
in the source of decisions and in when they stop; the module is their common
control, with `max_hands` as `MAX_HANDS`.

**FletGame.** `lpc` is the position of `game_loop`, split wherever it waits,
takes the lock or could be overtaken between a read and its use. `ui` is the
position of a click handler: `process_player_action` is one step up to the move
of the turn, then `HandlerMove`, `HandlerCheck` and `HandlerRefresh`, because the
loop can run between them. `update_action_buttons` keeps its behaviour of not
touching the row while a confirmation is pending. A second click on the
next-phase button may arrive at any later moment (`late_click`).

**GameHistory, RecordedGame.** A hand id is AUTOINCREMENT and so the position of
the hand. Every action of `GameLoop` is taken together with the statements that
`game.py` issues in it; `current_hand_id` is set at the end of `NextHand`, after
the blinds have been recorded under its old value. `INSERT OR REPLACE`
is `Upsert`, and a query is the set of the ids of the rows it selects. Every call of
the database commits. The showdown is modelled commit by commit: it pays the
players, then writes the row of one player after the other (`RecordShowdown`), then the end of
the hand (`RecordHandEnd`), so a reader finds any part of it, and a program that stops
between two commits leaves what is there: every state is also a state in which
the program may have crashed, and nothing repairs the record afterwards. The commits
of a turn, of a phase and of a new hand (two blinds, then the hand itself) are one step
with the operation: at most the blinds are on record without their hand, and they stand under the
hand before it anyway.

**HandEvaluator.** `_evaluate_five_cards` tests the ranks from the strongest to the
weakest; the model takes the greatest rank a hand qualifies for. `evaluate_hand`
for fewer than five cards is left out: the engine evaluates at a showdown only,
on a full board, which `BoardIsFull` proves.

**SetupScreen.** Event handlers run in threads of their own and nothing is locked. A
refresh is the answer of the server, the new cards, and then row after row; the
`except` clause of `refresh_agents` (`RefreshFails`) empties the list and leaves the
dropdowns alone. A change of a type is a thread that reads the type, shows or hides the
dropdown, and fills it. Both kinds of threads fill a dropdown in three steps (`ReadAgents`,
`WriteOptions`, `WriteValue`), or are ended by a test result that is added while
they read (`ReadRaises`). `disturbed` is a history variable: the rows a race or a failure has left
with an old agent, until the next undisturbed write. A connection test is
a lookup with a POST, then a GET. Old cards stay in `agent_cards`, as in the code. A start
changes nothing of this screen; what it hands over is `PlayerConfigs`. The agent server
is external: it answers with any list, or fails.

**ApiPlayer.** `call` is `make_decision` of each loop thread (session, polling,
leaving the executor, decided), `requests` the request threads. Time passes in
ticks; since the loop polls every 0.2 seconds, what is due is done before the
next tick. An answer is known by what the code makes of it: an action, an action
whose amount is no number, a text without an action, a status other than 200, or
anything that raises. The agent server is external and may answer any of them, or
nothing. `reasoning` is `last_decision_reasoning`, known by the number of the
decision it was written for.

**Spectator.** Composes `ApiPlayer` with the loop threads of the games started from
the setup screen and with the viewer. A game has five fields that stand for the rest:
the cards of the players, the latest action and the reason of its agent, the
number of the hand and the showdown results, each known by the hand or the
decision it belongs to. `start_new_hand` is four steps, `_build_viewer_state` one
step per field in the order of the code. All loops work on `game`, as
`game_loop` reads `self.game` anew at every step. A start is two steps, the new
`self.game` and the rest of `start_game` with the thread, and may happen at any time: a second
click, or a second tab on the one `PokerFletUI`, starts a game beside the one on the
table, as nothing in `on_game_start` asks. `crowded` is a history variable, the first
game that may have more loops than its own. The overlay with the final
results is never cleared, as in the code.

**LogViewer.** A log file is a sequence of records; positions are byte offsets, and
a prompt, many lines of JSON, is longer than the rest, so that the offset of one
file may lie inside a record of another. `events` counts how often each record
is in `parser.events`; `panel` names for each field of `game_state` the hand it was
taken from. Loading is the new list, the reading, one step per record, and what
follows `parse_file`; a refresh is `seek`/`readlines`, `tell`, one step per record, and the flag;
the timer redraws and then lowers the flag. `start_auto_refresh` is two steps, the check for
a living thread and the start, and handlers may stand between them together: then there are
two refresh threads, `refresh`, which the application knows, and `forgotten`, which it does not.
(Of threads started still later the model keeps one at a time.) `known` is which players are in
the dictionary of the panel. A thread that goes through it (`Iterates`) while another puts a player into
it (`Inserts`) ends with the error: the refresh loop breaks (`RefreshCollides`), a load stops
where it is (`LoadCollides`). Seven history variables and `measured` record the races that
the properties name as exceptions; nothing but the properties reads them.
`LogAssumption` says that the log that is there at the start begins with a hand, as
the game writes it, and that no player is called like one of the other fields of
the panel: in the code the cards of a player are in a dictionary of their own.

## 3. Runs

Deadlock is checked in `table`, `side_pots`, `desktop`, `history` and `setup`. The
evaluator ends after one step; in `log_viewer` nobody has to click or to play;
in `spectator` the bounds on hands and decisions stop the loops. Every state
machine states the values of its variables as a type invariant; `table` checks the
one of the engine, which is also proved, as is `FletGame!TypeOK`. The others
(`RecordedTypeOK`, `SetupScreen!TypeOK`, `LogViewer!TypeOK`, `Spectator!TypeOK`) hold in
the states of their runs and can be added to the configurations.

| Run | Bounds | Checks |
|---|---|---|
| `table` | 3 seats, blinds 2/3, stacks of 5, raises by 0, 1 and 2, 2 hands | accounting, betting rounds, board, offers, liveness, refinement |
| `side_pots` | 3 seats, contributions up to 5, all orders of hands | the distribution against two references |
| `desktop` | 2 seats, blinds 1/2, stacks of 3, limit of 4 turns a round, 2 hands | every interleaving of loop and clicks |
| `history` | 3 seats, blinds 1/2, stacks of 2, 2 hands | what is on record |
| `evaluator` | 4 decks of 10 cards, every board and two hands | the evaluator against a reference |
| `setup` | 2 agents, 1 row, 1 refresh, 1 handler at a time, 1 test | the form and the tests against a changing server |
| `spectator` | 2 games, the first with an agent, 2 decisions, 2 hands in all, limits of 1 and 2 ticks | decisions, loops and pages against late answers and failing polls |
| `log_viewer` | 2 files of at most 2 records, 2 loads, 2 handlers at the start of the refresh | what is listed, drawn and watched |

* `table`. Stacks of 5 against blinds of 2 and 3 make every special case happen
  in two hands: blinds cut to the stack (in the second hand), all-ins below and above the current
  bet, side pots, busted players, heads-up play, and rounds on every street.
  `StackAccounting`, `PotIsSumOfBets` and `CurrentBetIsHighest` are the rules of
  `docs/game_state_format.md`. `ClosedRoundIsSettled`, `NobodyIsSkipped` and
  `NobodyIsAskedTwice` say when a round may and must end; the raise by zero, which is
  the default of an action without an amount, is among the decisions. `LostChipsWereFolded`
  pins down the only way chips leave the game. `HandEnds` is liveness;
  `ImplementsLedger` shows that the table implements `ChipLedger`.
* `side_pots`. 15525 showdowns. `FairToTheChip` compares with a reference that
  treats every single chip level as a pot, exact to fractions of a chip.
  Contributions up to 5 allow three different levels with odd remainders.
* `desktop`. Double clicks, a human who never acts, folds after the round has
  closed and hands given up at the turn limit all occur. Heads-up is where the
  code's own reads stay consistent. Between the two halves of a click handler the loop may move the
  turn, and the handler then moves it again (`flet_ui.py:185`, `game.py:603`): with two players
  the turn comes back, with three it may be given to somebody else, and
  `LoopKnowsWhoActs` does not hold there.
* `history`. With stacks of 2 every street is dealt, but nobody has chips to bet
  after the flop; larger stacks are beyond reach because the records grow with
  every action. What this run adds is the order of statements, every state between two
  commits of a showdown, and the second hand.
* `evaluator`. The decks contain all ten ranks of hand, wheels and six-card
  straights, several triples and pairs, flushes with gaps and split pots.
* `setup`. One refresh, one handler and one test reach every race at a row: a handler that
  is overtaken by a new list, a result that is added under a reader, a refresh that fails after
  its answer, a dropdown that is hidden late, a choice on an old screen, and tests of agents
  that vanish from the list. Several refreshes, handlers and rows are the theorem's.
* `spectator`. `RequestsDoNotOverlap` is about a request that outlives
  its decision; limits of 1 and 2 ticks leave room for an answer in time,
  one between the limits and none. `PageReadsForward` and `AgentIsExplained` say which
  mixtures of moments an unlocked snapshot can show: two hands let a reader be
  overtaken, two decisions leave an old reason to be shown.
  `OneLoopUnlessCrowded` says from which game on two loops may play one; the run starts the
  second game after the first and beside it, and the third game, which the overlay of the first
  allows, is the theorem's. Where two loops play one game, the deal may find players who have
  their cards, and the exception ends the loop thread. `EveryDecisionComes` and `ViewerCatchesUp` are liveness.
* `log_viewer`. Two loads are the start and one click, of the same or of the other
  file, while refresh and timer run; two records are enough for a new hand to
  follow another, for a record to be cut in two, for two threads to meet at the
  dictionary and for a second refresh to find
  something. `NoLineListedThrice` and `NothingIsMissed` are about the list,
  `PanelIsOfOneHand` about the panel, `HiddenOnlyByRace` about the flag, and
  `WatchedUnlessRaced` and `EveryLineIsListed` about the refresh thread. Each names
  the races that do break it and shows that nothing else does. The records are hands, prompts and
  actions; a change of the phase, an event like a hand that writes a field of the panel, is covered by
  the theorems. The constraint `Followed` of `MCLogViewer` cuts behaviours short after a race
  that excuses the properties: once two handlers were about to start the thread
  (`doubled`) no property claims anything, and once the dictionary has changed under a thread
  (`collided`) only `NoLineListedThrice` does, which the run then follows with one record in the live
  file and the theorem for any number. The histories never become false again, so nothing else that a
  property claims is cut away, `EveryLineIsListed` included. What the constraint leaves
  lets every action of two refresh threads happen.

Fairness. `GameLoop!FairSpec` assumes weak fairness of the loop's steps within a
hand: it is one thread, and every decision comes back, if need be by a time-out
or an exception handler. `FletGame!FairSpec` assumes that the loop thread runs
(strong fairness, because it competes for the lock with clicks, and no human
clicks fast enough to starve it for ever), that a handler which has started
finishes, and that the human sooner or later answers a confirmation and closes
a dialog; the human need not act in a hand, since the loop's wait has a limit.
`SetupScreen!Spec` assumes that a test goes on, because both its requests have a
time-out of five seconds. A refresh needs no fairness.
`Spectator!Spec` assumes that a thread inside `make_decision` runs, that clocks
tick, that requests time out, and that the viewer polls; strong fairness of
`DrawPage` says that not every answer of the server is late. The agent and the
human owe nothing. `LogViewer!Spec` assumes that the loading threads and the refresh thread
run; the timer, the user and the game owe nothing, and neither does a second refresh thread.

### Disagreements between the code and what it says of itself

Each is a run that TLC must find violated, and a finding in `PROJECT.json`.

| Run | What the code does |
|---|---|
| `skipped` | After the flop, a fold of the first actor closes a round in which others have not acted. |
| `unclaimed` | Chips of a layer whose contributors all folded are paid to nobody and vanish. |
| `raise` | The offered minimum raise is a total, the processed amount an increment: the offered raise may be refused. |
| `won_by_default` | A hand that is won because everybody else folded is over and never gets its `ended_at`: `conduct_showdown` returns before `end_hand`. |

Passing properties carry the exception of the first three (`NobodyIsSkipped`,
`LostChipsWereFolded`, `OfferedIsAccepted`), so that nothing else goes wrong besides.
More deviations are in the models as
they are in the code, without a run of their own:

* A suited A-2-3-4-5 counts as a royal flush (`evaluator.py:125`); the exception of
  `BestHandIsFound`.
* If the big blind has fewer chips than the small blind, two players can check to
  each other for ever (`game.py:693`); the exception of `HandEnds`.
* A raise without an amount, named when no raise is offered, is a raise by zero
  (`player_models.py:183`): `game.py:557` makes its player the last raiser and leaves the
  bet where it was, so that the round closes as soon as the bets are equal, over players that
  have not acted, although `docs/requirements.md:79` has a raise raise the bet. It is the third exception of
  `NobodyIsSkipped` (`RaisedByNothing`).
* The cards of a showdown are on record, player by player, before the hand is marked as ended
  (`RecordShowdown`); a program that stops in between leaves a part of them under an open hand.
  `FoldedCardsStayHidden` says what can be relied on nevertheless.
* The blinds of a hand are recorded under the hand before it, and those of the
  first hand not at all (`RecordBlinds`).
* After everybody else has folded, the human may still fold, and the pot goes to
  nobody (`LoopPayout` with nobody remaining).
* After a refresh a connection test updates a card that is no longer on screen
  (`CardOf`).
* A refresh of the agents that fails after its answer empties the list and leaves the dropdowns as
  they are, so a game can be started with an agent that is not listed (`RefreshFails`). A
  thread that fills a dropdown may be overtaken by a new list and write back the old one. These are
  the rows that `OnlyListedAgentsPlay` excepts as `disturbed`.
* A second click on the start button, or a second tab, starts a second loop, and both play the game
  that was started last (`StartGame`). The final results of a game stay up in the next one, and
  their button lets a third game start while the loop of the second runs (`BackToSetup`). Both
  are in `OneLoopUnlessCrowded`.
* A decision that fails leaves the reason of an earlier one to be shown beside it
  (`PollAnswer`, `AgentIsExplained`). The comments on twenty seconds
  (`player_models.py:597`) are out of date: the wait is forty, and up to
  forty-four when the request is not over.
* The first refresh after a load lists the whole file again, although
  `parse_new_lines` is documented as parsing new lines only: `parse_file` does not set
  the position (`NoLineListedThrice`). The position of one file is also used in
  the next (`NewLines`, `RefreshBreaks`).
* A load and the switch can both start a refresh thread (`StartAutoRefresh`, `StartThread`); each
  lists the file from the beginning, and only the later one is known to the application. `doubled`
  excepts what follows.
* A load and a refresh share the dictionary of the players: one that goes through it while the other
  puts a player in ends with an error, and the refresh stays off although the switch is on
  (`RefreshCollides`, `LoadCollides`; the exception `collided`).
* The log viewer looks for actions like "Player 0 (You) calls 20"; the game writes
  "Player 0 called 20", so no action is ever an event (`IsEvent`).

## 4. Proofs

TLAPS proves what follows for every value of the constants that the named
assumptions of the modules allow: any number of seats from two, any positive
blinds and stacks, any numbers of hands, games, files, records and clicks.
Hypotheses beyond those assumptions are written in the theorem and named here.

### The distribution of the pot (`MCSidePotsProofs`)

* `EveryMatchedChipIsPaid`: the layers pay out every chip that a hand of the
  showdown has matched (`PaysEveryMatchedChip`).
* `NobodyTakesTooMuch`: nobody is paid more than its own stake from each player
  (`NobodyIsOverpaid`).
* `LayersPayFairly`: compared with a pot for every single chip, split exactly, nobody
  gains or loses a whole chip per layer (`FairToTheChip`). The reference counts in
  `UNIT` parts of a chip; `UnitAssumption` asks that every number of winners up to `N`
  divides it, as `N!` does.

`SidePotsProofs` begins with sums: it proves that the recursive function behind `Sum` exists, is unique
and behaves like a sum, that sums are monotone and that two summations may be
exchanged, all by least counterexample, since induction over a formula is out of
the provers' reach. It then goes in three steps. A layer is the sum
over the seats of what their contributions have between two levels, so the layers up to a level add
up to the contributions capped at it. Within a layer the shares and the odd chips add
up to the layer, for an odd chip goes to a different winner each. Exchanging the
sums over layers and over seats gives what all winners get together, and what a
single one gets. For fairness, the chips of a layer are all split by the same players
(`ChipsOfALayer`), so a layer of amount A with w winners is compared with A/w: the
quotient and at most one odd chip are less than a chip away (`ShareIsFair`), and the
differences add up from the lowest layer (`LayersAreFair`).

### The command-line table (`RecordedGameProofs`, first part)

* `TypeCorrect`: `Spec => []TypeOK`. TypeOK is inductive. It is more than a list
  of types: stacks, bets and pot are naturals, so every step needs that a bet is
  cut to the stack and that the pot covers what is paid out, and the turn is a
  seat only because the scans find one.
* `StacksAreAccounted`, `PotIsAccounted`: `StackAccounting` and `PotIsSumOfBets`,
  which are inductive together with TypeOK. The argument is per operation:
  `BlindsAreAccounted`, `BetIsAccounted` and `ActionIsAccounted` say what each one
  does to stacks, bets and pot; the sum over the seats moves with a single seat.
* `BoardIsFull`: `FullBoardAtShowdown`. The invariant is not inductive: `BoardInv`
  adds that the river has five cards, and that a showdown is reached with five
  cards or with at most one player left.
* `LostChipsAreExplained`: `LostChipsWereFolded`. `StandingInv` says that somebody is
  still in the hand; the rest is accounting and the lemmas about the distribution.
* `LoopImplementsLedger`: the table implements `ChipLedger`, initial states to
  initial states and every step to a step of the ledger or a stutter. The pay-out
  is the step that needs the distribution: it must not create chips.
* `OffersAreHonoured`: `OfferedIsAccepted`, state by state.
* `RoundsCloseSettled`: `ClosedRoundIsSettled`.
* `BetToMatchIsHighest`: `CurrentBetIsHighest`, if the small blind is at most the big
  one and no raise is negative. Both hypotheses are needed: the engine takes
  `_parse_llm_response` at its word, and a raise of a negative amount lowers
  `current_bet` below bets already made.
* `EveryoneIsAsked`, `NobodyIsAskedAgain`: `NobodyIsSkipped` and `NobodyIsAskedTwice`, if
  the small blind is less than the big one and no raise is negative; raises by zero are
  included. Equal blinds break the order: equal bets then no longer
  show that a player has acted. Both need `OrderInv`, the invariant behind
  `_check_betting_round_complete`. Counted from the last raiser, or from the dealer
  while nobody has bet after the flop, the players before the current one have
  acted and matched, those from the current one on have not acted; a move of the
  turn keeps this or comes back to the seat the count began at, and then the round
  closes. It holds while the exceptions that `NobodyIsSkipped` names have not occurred.

### The history database (`RecordedGameProofs`, second part)

* `PotCanBeFollowed`: `PotTrail`.
* `FoldedCardsAreHidden`: `FoldedCardsStayHidden`.
* `PastIsOnRecord`: `PastHandsAreOnRecord`.
* `WinningsAreBacked`: `WinningsMatchPot`.
* `StatsAreInOrder`: `StatsNeverOvercount`.

The recorded game is the game (`RecordedIsLoop`): every step of `RecordedSpec` is a step
of the table or leaves it alone, so the theorems above carry over. The rest relates the tables to the
state of the game by invariants. `PendingInv`: what a showdown has still to write is about players that
took part in it, and is written before the next hand begins.
`RowsInv`: every row belongs to a hand its player was dealt in. `TableInv`: who was dealt
into the last hand and who has folded in it can be read off its rows. `CardsInv`: the
cards of the phases the hand has reached are on record. `OpenInv`: a hand that is played or being written
down has not ended on record, and what is revealed of it is exactly what has been written.
`PaidInv`: the rows that are there and those to come make up what was paid.
With them no step changes what is on record of a past hand (the blinds of the next hand, which are
written under it, are not among the actions that the properties read), and `HandCloses` shows that
a hand is marked as ended when all its rows are there. `WinningsMatchPot` then rests on
the theorems about the distribution.

### The desktop game (`FletGameProofs`)

* `FletTypeCorrect`: `TypeOK` of the engine and of both threads.
* `ClicksLoseNoChips`: `ChipsSurviveClicks`.
* `HumanIsNeverStuck`: `HumanCanAct`.
* `LoopAsksTheActor`: `LoopKnowsWhoActs`, if there are two seats.

All hold in every interleaving, the first three for any number of seats. For the first two: whatever the
race, a step of a thread is a part of an operation of the engine or does not touch the chips, and the
lemmas of `PokerGameProofs` do not ask who calls or when. A click that comes at the
wrong moment may be refused or move the turn twice, but it cannot lose a chip. The third
needs `RowInv`: a pending confirmation has its button, and when the loop has picked somebody to
ask, the turn is with a player that can act, unless the round is closed or a handler is
about to move the turn. A fold is offered to everybody that can act, so every redraw
then leaves a button. The fourth has the hypothesis of two seats because it
is false for three (section 3, `desktop`). The danger is a handler that has applied the human's
action and not yet moved the turn, while the loop moves it (`TurnInv`). The loop only does so because
the human is out of the betting, and of two players the other is then where the turn
stays.

### Setup screen (`SetupScreenProofs`)

* `StartedFromTheList`: `OnlyListedAgentsPlay`, for every set of agents, every number of rows and any
  overlap of refreshes and handlers, failing ones included. `ThreadInv` says where each thread
  is; `CleanInv` that a thread which no new list has overtaken has found agents of the
  current list, and has written them when it has written its options; `RowInv` that a row which nothing
  has disturbed and nobody is about to write offers and names agents of the list. A write over
  options that an overtaken thread has spoilt is why such a thread passes its mark on to the others at its row.
  `SetupAssumption` says that `"not_found"`, the value of a dropdown without agents, and `None`, that of
  one never filled, are the ids of no agent.

### Agents, games and viewer (`SpectatorProofs`)

* `OneRequestPerLoop`: `RequestsDoNotOverlap`, for all time limits. A request belongs to
  the decision its loop is in, and the loop does not leave the executor before the request is over
  (`RequestInv`).
* `OneLoopUntilCrowded`: `OneLoopUnlessCrowded`, from `SessionInv`: before a crowded game
  the loops of earlier games have ended, since the setup is shown again in the first game only
  when its loop is through. The next two theorems use it: they are about pages of such games.
* `PagesReadForward`: `PageReadsForward`. `TableInv` orders the writes of the loop,
  `PageInv` says of a page half read that it is not ahead of the table.
* `AgentsAreExplained`: `AgentIsExplained`. Decision numbers grow (`AskInv`); the reason
  on display is no older than the action on the table or the decision under way
  (`ReasonInv`), nor than an action a page has already read (`ReadInv`).

### Log viewer (`LogViewerProofs`)

* `ListedTwiceAtMost`: `NoLineListedThrice`. `CountInv` bounds the count of a record
  by two: once by the load, once by the refresh thread, also while either is under
  way. It rests on `PositionInv`, that `last_file_position` is the end of a record of the file it
  was measured in, and on `CrowdInv`, that without two overlapping loads there
  is one at most, of the file on view. Between `readlines` and `tell` the position is the
  one that the thread is about to set (`Told`, `Measured`).
* `NoRecordIsLost`: `NothingIsMissed`, from `CareInv`: an event before the position is
  in the list, or a thread is still to parse it. A load that replaces the list while a
  refresh runs is why the second case is needed, and why a thread that the dictionary ends half-way is an
  exception.
* `PanelShowsOneHand`: `PanelIsOfOneHand`. A refresh may resume in an earlier hand than the
  panel shows, since the load does not set the position; then the record that begins the
  panel's hand is still among those to be parsed (`PanelInv`), because between records
  of two hands lies a record that begins the second (`LogInv`).
* `ScreenFollowsList`: `HiddenOnlyByRace`, from `ScreenInv`: what is not on the screen is
  still being parsed, or the flag is up, or a thread was ended by the dictionary.
* `WatchIsKept`: `WatchedUnlessRaced`, from `WatchInv`: a refresh thread that has ended
  with the switch on met a foreign offset, the error of the dictionary, or a start on its way out;
  and where none runs, a handler or a load will start one.

`ViewerInv` is the conjunction. The invariant is `doubled \/ ViewerInv`: until two handlers stand before
the start together there is one refresh thread at most (`StartInv`), and the history `doubled`, once true, stays true.
A thread that the dictionary ends is a case of every lemma; `CollisionIsCounted` and `CollisionOverlaps` say that
it has listed its record at most once, and that two threads were parsing.

### Only model-checked

* All liveness (`HandEnds`, `EveryHandIsLeft`, `ButtonComesBack`, `EveryDecisionComes`,
  `ViewerCatchesUp`, `EveryLineIsListed`), since TLAPS does not reason about fairness.
* `BestHandIsFound` and `ComparisonsAgree`: the evaluator is data, and its decks are finite in
  the code too; a proof would be a case distinction over hands.
* The four properties of the runs that expect a violation: they are false.

Every other invariant that a run checks is also a theorem.

## 5. Not modelled

* The reading side of the history tool in the agents' process.
* The terminal dialogue of the human player (`cli_ui.py`): a loop that asks until
  the answer parses. What it returns is among the decisions of `PokerGame`.
* A response that trickles in: the time-out of `requests` is per read, so a server
  that sends a byte now and then could hold a request beyond `REQUEST_TIMEOUT`.
* In the log viewer: deletion and rotation of files, a record of which the game
  has written one part, two redraws at the same time, and chips, bets and the pot
  on the panel.
* In the viewer: the drawing of seats, cards and badges.
* `save_game_state`, logging, layout, `main.py`, the agents' prompts and tools
  (among them evaluators of their own that the game never calls): input and
  output without state of the game.

## 6. Plan

The order followed so far: engine and command-line loop with ledger and first
proofs; side pots; desktop; history; evaluator; setup screen; API player, viewer and
restart of the desktop game; log viewer; then the proofs of the distribution, the ledger,
the turn order, the desktop's chips, the viewer and the log viewer; last those of the history
database, the setup screen, the turn of the heads-up desktop game and the fairness of the
layers.

What remains would be proofs about the evaluator: that two results of equal rank have
equally many kickers, from which `ComparisonsAgree` follows for all hands and not only for
those of the four decks, and that the best of the five-card hands is the one read off
the seven cards, a case distinction over the ranks of hands.
