----------------------------- MODULE Spectator -----------------------------
(***************************************************************************)
(* A desktop session and its spectator: games are started from the setup   *)
(* screen (poker/flet_ui.py), each with a loop thread that plays hand      *)
(* after hand and asks an agent for its decisions (ApiPlayer); the state   *)
(* server (poker/state_server.py, poker/shared_state.py) reads the game    *)
(* field by field without a lock; the viewer (poker/viewer_ui.py) polls it *)
(* and draws what it gets.                                                 *)
(*                                                                         *)
(* Every field of a game is known by the number of the hand or of the      *)
(* decision that it belongs to, and 0 stands for a field that is empty.    *)
(* A game has one agent or none; its bets are those of the module FletGame *)
(* and left out here.  All loops work on the game that was started last,   *)
(* since game_loop reads self.game at every step.                          *)
(***************************************************************************)
EXTENDS ApiPlayer, Sequences, FiniteSetsExt, TLC

CONSTANTS
  AGENT_GAMES,  \* the games with an agent at the table
  MAX_HANDS     \* bound: hands of all games together

ASSUME SpectatorAssumption ==
  LOOPS = 1 .. Cardinality(LOOPS) /\ AGENT_GAMES \subseteq LOOPS /\ MAX_HANDS \in Nat

VARIABLES
  game,      \* self.game, 0 before the first
  shared,    \* the game in shared_state
  table,     \* the games
  loop,      \* where the loop thread of every game stands
  screen,    \* the setup screen or the table
  overlay,   \* final_results_overlay_container is visible
  serving,   \* the state server has its port
  crowded,   \* history: the first game that may have more loops than its own
  poll       \* the latest poll of the viewer, and the page it brought

session_vars == <<game, shared, table, loop, screen, overlay, serving, crowded>>
vars == <<session_vars, poll, api_vars>>

Hands == 0 .. MAX_HANDS
NewTable == [cards |-> 0, action |-> 0, hand |-> 0, results |-> 0, over |-> FALSE]
BlankPage == [game |-> 0, cards |-> 0, action |-> 0, reason |-> 0, hand |-> 0, results |-> 0]

\* Mutant: the reason is read before the action.
Order_ReasonFirst == <<"cards", "reason", "action", "hand", "results">>

\* Mutant: the number of the hand is read before the cards.
Order_HandFirst == <<"hand", "cards", "action", "reason", "results">>

\* The order in which _build_viewer_state reads the fields.
Order == <<"cards", "action", "reason", "hand", "results">>

\* A poll begins, reads the fields, has its answer, and is drawn.
Unasked == 0
Complete == Len(Order) + 1
Drawn == Len(Order) + 2
NoPoll == [at |-> Unasked, page |-> BlankPage]

\* The session, the decisions and the viewer are well typed.
TypeOK ==
  /\ ApiTypeOK
  /\ {game, shared} \subseteq LOOPS \cup {0}
  /\ table \in [LOOPS -> [cards : Hands, action : 0 .. MAX_DECISIONS, hand : Hands,
                          results : Hands, over : BOOLEAN]]
  /\ loop \in [LOOPS -> {"none", "new", "top", "clear", "reset", "deal", "turn", "decide", "result",
                         "ask", "final", "ended"}]
  /\ screen \in {"setup", "table"}
  /\ {overlay, serving} \subseteq BOOLEAN
  /\ crowded \in 2 .. 3
  /\ poll \in [at : 0 .. Len(Order) + 2,
               page : [game : LOOPS \cup {0}, cards : Hands, action : 0 .. MAX_DECISIONS,
                       reason : 0 .. MAX_DECISIONS, hand : Hands, results : Hands]]

Init ==
  /\ ApiInit
  /\ game = 0 /\ shared = 0 /\ table = [g \in LOOPS |-> NewTable]
  /\ loop = [t \in LOOPS |-> "none"]
  /\ screen = "setup" /\ overlay = FALSE /\ serving = FALSE /\ crowded = 3
  /\ poll = NoPoll

-----------------------------------------------------------------------------
(* The session *)

\* on_game_start, and start_game until the game is made.  Neither asks what
\* is being played: a second click, or another tab that still shows the
\* setup, starts a game beside the one on the table.
StartGame ==
  /\ game + 1 \in LOOPS
  /\ game' = game + 1
  /\ screen' = "table"
  /\ loop' = [loop EXCEPT ![game + 1] = "new"]
  /\ crowded' = IF screen = "setup" \/ crowded <= game THEN crowded ELSE game + 1
  /\ UNCHANGED <<shared, table, overlay, serving, poll, api_vars>>

\* The button of the final results.  Nothing calls clear_final_results, so
\* the overlay of one game stays up in the next.
BackToSetup ==
  /\ screen = "table" /\ overlay
  /\ screen' = "setup"
  /\ UNCHANGED <<game, shared, table, loop, overlay, serving, crowded, poll, api_vars>>

-----------------------------------------------------------------------------
(* start_game and game_loop of thread t; start_new_hand is four steps *)

Advance(t, next) == loop' = [loop EXCEPT ![t] = next]

Idle == UNCHANGED <<game, shared, screen, overlay, serving, crowded, poll>>

\* The rest of start_game, for the game that is current by then.
\* ensure_state_server fails when the port is taken, and is tried again with
\* the next game.
StartLoop(t) ==
  /\ loop[t] = "new"
  /\ shared' = game
  /\ serving' \in {serving, TRUE}
  /\ Advance(t, "top")
  /\ UNCHANGED <<game, table, screen, overlay, crowded, poll, api_vars>>

\* What MAX_HANDS bounds.
HandsBegun == MapThenSumSet(LAMBDA g : table[g].hand, LOOPS)

LoopTop(t) ==
  /\ loop[t] = "top"
  /\ \/ /\ table[game].over
        /\ Advance(t, "final")
        /\ UNCHANGED table
     \/ /\ ~table[game].over /\ HandsBegun < MAX_HANDS
        /\ table' = [table EXCEPT ![game].hand = @ + 1]
        /\ Advance(t, "clear")
  /\ Idle /\ UNCHANGED api_vars

LoopClear(t) ==
  /\ loop[t] = "clear"
  /\ table' = [table EXCEPT ![game].results = 0]
  /\ Advance(t, "reset")
  /\ Idle /\ UNCHANGED api_vars

\* reset_for_new_hand of the players; action_history is not cleared.
LoopReset(t) ==
  /\ loop[t] = "reset"
  /\ table' = [table EXCEPT ![game].cards = 0]
  /\ reasoning' = [reasoning EXCEPT ![game] = 0]
  /\ Advance(t, "deal")
  /\ Idle /\ UNCHANGED <<decisions, call, requests, explained>>

\* add_hole_card raises when a player has two cards, and ends the thread.
LoopDeal(t) ==
  /\ loop[t] = "deal"
  /\ \/ /\ table[game].cards = 0
        /\ table' = [table EXCEPT ![game].cards = table[game].hand]
        /\ Advance(t, "turn")
     \/ /\ table[game].cards # 0
        /\ Advance(t, "ended")
        /\ UNCHANGED table
  /\ Idle /\ UNCHANGED api_vars

\* It is the agent's turn; the turns of the others change no field here.
LoopAskAgent(t) ==
  /\ loop[t] = "turn" /\ game \in AGENT_GAMES
  /\ BeginDecision(t, game)
  /\ Advance(t, "decide")
  /\ Idle /\ UNCHANGED table

\* process_player_action writes the decision, or the fold it was turned into,
\* to action_history.
LoopAct(t) ==
  /\ loop[t] = "decide" /\ call[t].at = "decided"
  /\ table' = [table EXCEPT ![game].action = call[t].id]
  /\ call' = [call EXCEPT ![t] = NoCall]
  /\ Advance(t, "turn")
  /\ Idle /\ UNCHANGED <<decisions, requests, reasoning, explained>>

\* Mutant: the final results are shown with the showdown that ends the game.
LoopShowdown_Final(t) ==
  /\ loop[t] = "turn"
  /\ \E over \in BOOLEAN :
       /\ table' = [table EXCEPT ![game].results = table[game].hand, ![game].over = over]
       /\ overlay' = (overlay \/ over)
  /\ Advance(t, "result")
  /\ UNCHANGED <<game, shared, screen, serving, crowded, poll, api_vars>>

\* conduct_showdown, which also ends the hands that are won by default.
LoopShowdown(t) ==
  /\ loop[t] = "turn"
  /\ \E over \in BOOLEAN :
       table' = [table EXCEPT ![game].results = table[game].hand, ![game].over = over]
  /\ Advance(t, "result")
  /\ Idle /\ UNCHANGED api_vars

\* The human clicks on; a hand given up after too many turns ends with a
\* question instead, to which "no" ends the loop.
LoopLeaveHand(t) ==
  /\ \/ /\ loop[t] = "result"
        /\ Advance(t, IF table[game].over THEN "final" ELSE "top")
     \/ loop[t] = "turn" /\ Advance(t, "ask")
     \/ loop[t] = "ask" /\ \E next \in {"top", "ended"} : Advance(t, next)
  /\ Idle /\ UNCHANGED <<table, api_vars>>

LoopFinal(t) ==
  /\ loop[t] = "final"
  /\ overlay' = TRUE
  /\ Advance(t, "ended")
  /\ UNCHANGED <<game, shared, table, screen, serving, crowded, poll, api_vars>>

\* While it decides, the loop is inside make_decision.
Deciding == UNCHANGED <<session_vars, poll>>

LoopStep(t) ==
  \/ StartLoop(t) \/ LoopTop(t) \/ LoopClear(t) \/ LoopReset(t) \/ LoopDeal(t) \/ LoopAskAgent(t)
  \/ LoopAct(t) \/ LoopShowdown(t) \/ LoopLeaveHand(t) \/ LoopFinal(t)

-----------------------------------------------------------------------------
(* The state server and the viewer *)

Field(g, x) == IF x = "reason" THEN reasoning[g] ELSE table[g][x]

\* Mutant: the server keeps to the game it was started with.
PollBegins_FirstGame ==
  /\ poll.at \in {Unasked, Drawn} /\ serving
  /\ poll' = [at |-> 1, page |-> [BlankPage EXCEPT !.game = 1]]
  /\ UNCHANGED <<session_vars, api_vars>>

\* _poll_loop asks; do_GET takes the current game.
PollBegins ==
  /\ poll.at \in {Unasked, Drawn} /\ serving
  /\ poll' = [at |-> 1, page |-> [BlankPage EXCEPT !.game = shared]]
  /\ UNCHANGED <<session_vars, api_vars>>

ReadField ==
  /\ poll.at \in DOMAIN Order
  /\ LET x == Order[poll.at]
     IN  poll' = [at |-> poll.at + 1, page |-> [poll.page EXCEPT ![x] = Field(poll.page.game, x)]]
  /\ UNCHANGED <<session_vars, api_vars>>

\* update_display: the table, the showdown results and the agents are drawn
\* from the answer.
DrawPage ==
  /\ poll.at = Complete
  /\ poll' = [poll EXCEPT !.at = Drawn]
  /\ UNCHANGED <<session_vars, api_vars>>

\* No answer within a second, or one other than 200: the text says that the
\* game is awaited.
PollFails ==
  /\ poll.at = Complete
  /\ poll' = NoPoll
  /\ UNCHANGED <<session_vars, api_vars>>

-----------------------------------------------------------------------------

Next ==
  \/ StartGame \/ BackToSetup
  \/ \E t \in LOOPS : LoopStep(t) \/ (DecideStep(t) /\ Deciding)
  \/ (Tick \/ TimeoutStep \/ AgentStep) /\ Deciding
  \/ PollBegins \/ ReadField \/ DrawPage \/ PollFails

\* The threads inside make_decision run on, clocks tick and requests time
\* out; the viewer polls, and not every answer of the server is late.  The
\* agent and the human owe nothing.
Spec ==
  /\ Init /\ [][Next]_vars
  /\ \A t \in LOOPS : WF_vars(DecideStep(t) /\ Deciding)
  /\ WF_vars(Tick /\ Deciding) /\ WF_vars(TimeoutStep /\ Deciding)
  /\ WF_vars(PollBegins) /\ WF_vars(ReadField) /\ SF_vars(DrawPage)

-----------------------------------------------------------------------------
(* Properties *)

Runs(t) == loop[t] \notin {"none", "ended"}

\* A game is played by one loop, since the way back to the setup leads over
\* the final results of a game whose loop has ended.  From the third game on
\* it is not, for the overlay of the first may be clicked during the second;
\* nor from the first game on that was started while another was on the
\* table.
OneLoopUnlessCrowded ==
  (\E t, u \in LOOPS : t # u /\ Runs(t) /\ Runs(u)) => game >= crowded

\* Read without a lock, the fields of a page may belong to different hands,
\* but never in the wrong order: the cards are of no later hand than the one
\* the page names, the results of no earlier one than the hand before it.
\* Two loops, which a crowded game may have, do not keep to it.
PageReadsForward ==
  (poll.at = Drawn /\ poll.page.game < crowded) =>
    /\ poll.page.cards <= poll.page.hand
    /\ poll.page.results # 0 => poll.page.results + 1 >= poll.page.hand

\* The viewer shows no reason older than the action it stands beside, if
\* the decision for that action gave a reason at all: make_decision writes the
\* reason before the loop writes the action, the server reads them in the
\* opposite order.  Again this takes one loop.
AgentIsExplained ==
  (poll.at = Drawn /\ poll.page.game < crowded /\ poll.page.action \in explained) =>
    poll.page.reason = 0 \/ poll.page.reason >= poll.page.action

\* Whether the agent answers or not, no loop is held in make_decision for
\* good: again and again all decisions that were begun are made.
EveryDecisionComes == []<>(\A t \in LOOPS : call[t].at \in {"idle", "decided"})

\* The table stands still: every loop waits for a click or has ended.
Quiet == \A t \in LOOPS : loop[t] \in {"none", "turn", "result", "ask", "ended"}

ShowsTheTable ==
  /\ poll.at = Drawn /\ poll.page.game = game
  /\ \A i \in DOMAIN Order : poll.page[Order[i]] = Field(game, Order[i])

\* While the table stands still the viewer comes to show it as it is, all
\* fields of one moment, even if some of its polls fail.
ViewerCatchesUp == (Quiet /\ serving) ~> (~Quiet \/ ShowsTheTable)
=============================================================================
