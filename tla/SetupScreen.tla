---------------------------- MODULE SetupScreen ----------------------------
(***************************************************************************)
(* The setup screen of the desktop game: poker/setup_ui.py (SetupUI) and   *)
(* poker/agent_manager.py (AgentManager).  Event handlers run in threads   *)
(* of their own, so the user may click on while a request to the agent     *)
(* server is under way: a connection test is one step for each request.    *)
(* Nothing is locked: a thread that brings an agent dropdown up to date    *)
(* reads the list, then writes the options and then the value, and the     *)
(* others may run in between.                                              *)
(*                                                                         *)
(* The agent server is external: a request may fail, and each answer may   *)
(* name other agents.                                                      *)
(***************************************************************************)
EXTENDS Integers, Sequences, FiniteSets, SequencesExt

CONSTANTS
  AGENTS,          \* the ids of the agents a server may have
  CPUS,            \* rows of the form for computer players; 9 in the code
  MAX_REFRESHES,   \* bound: clicks on the refresh button
  MAX_HANDLERS,    \* bound: type changes being handled at the same time
  MAX_TESTS        \* bound: clicks on a test button

\* What an agent dropdown without agents has as its option and its value, and
\* None, the value of one that was never filled; no agent has such a name.
NotFound == "not_found"
NoChoice == "None"

ASSUME SetupAssumption ==
  /\ IsFiniteSet(AGENTS) /\ NotFound \notin AGENTS /\ NoChoice \notin AGENTS
  /\ CPUS \in 1 .. 9 /\ MAX_REFRESHES \in Nat /\ MAX_TESTS \in Nat /\ MAX_HANDLERS \in Nat

VARIABLES
  dynamic_agents,  \* the agents of the last answer
  agent_cards,     \* every card made since the screen was built
  shown,           \* the cards in agent_cards_column, by their index
  test_results,    \* "untested" stands for no entry
  refresh,         \* the thread of every click on the refresh button
  tests,           \* the thread of every click on a test button
  total_players,
  type,            \* cpu_type_dropdowns
  visible,         \* of the agent dropdowns
  dropdown,        \* agent_dropdowns: options and value
  update,          \* the threads at a dropdown: what they do, at which row, and
                   \*   what they found; overtaken and grown are history: the list
                   \*   was replaced, or a result was added, since they began to read
  disturbed        \* history: rows that were left with an old or no agent

agent_vars  == <<dynamic_agents, agent_cards, shown, refresh>>
test_vars   == <<test_results, tests>>
row_vars    == <<visible, dropdown, update, disturbed>>
form_vars   == <<total_players, type, row_vars>>
vars == <<agent_vars, test_vars, form_vars>>

Rows == 1 .. CPUS

\* A refresh is a thread with its own number, a handler comes after them.
Handlers == MAX_REFRESHES + 1 .. MAX_REFRESHES + MAX_HANDLERS
Updaters == 1 .. MAX_REFRESHES + MAX_HANDLERS

NoUpdate == [stage |-> "idle", row |-> 1, found |-> {}, overtaken |-> FALSE, grown |-> FALSE]

\* Between the first read and the last write of _update_agent_options.
Unlocked == {"reading", "found", "options"}

Ready == [stage |-> "ready"]
Verdicts == {"untested", "success", "error"}

NewCard(a) == [agent |-> a, enabled |-> TRUE]

-----------------------------------------------------------------------------
(* The list of agents *)

\* An answer of /list-apps: a list or a dictionary of items, of which some
\* are neither strings nor dictionaries, or something else altogether.
Responses == [form : {"list", "dict", "other"}, good : SUBSET AGENTS, odd : SUBSET AGENTS]

\* _parse_agents_response: a list skips the odd items, a dictionary keeps them.
Parsed(r) == CASE r.form = "list" -> r.good
               [] r.form = "dict" -> r.good \cup r.odd
               [] OTHER -> {}

\* fetch_agents_from_server: an error leaves an empty list.
Fetched == {Parsed(r) : r \in Responses} \cup {{}}

\* _populate_agent_cards: the column is cleared, the list of cards is not.
PopulateAgentCards ==
  LET new == SetToSeq(dynamic_agents)
  IN  /\ agent_cards' = agent_cards \o [i \in DOMAIN new |-> NewCard(new[i])]
      /\ shown' = Len(agent_cards) + 1 .. Len(agent_cards) + Len(new)

HasCard(a) == \E k \in DOMAIN agent_cards : agent_cards[k].agent = a

-----------------------------------------------------------------------------
(* The form *)

Offered ==
  LET successful == {a \in dynamic_agents : test_results[a] = "success"}
  IN  IF successful # {} THEN successful ELSE dynamic_agents

\* on_change of a type dropdown starts _on_player_type_changed in a thread.
ChangeType(i, t) ==
  /\ type[i] # t
  /\ type' = [type EXCEPT ![i] = t]
  /\ \E h \in Handlers :
       /\ update[h] = NoUpdate /\ \A g \in Handlers : g < h => update[g] # NoUpdate
       /\ update' = [update EXCEPT ![h] = [@ EXCEPT !.stage = "begun", !.row = i]]
  /\ disturbed' = disturbed \ {i}
  /\ UNCHANGED <<agent_vars, test_vars, total_players, visible, dropdown>>

\* The user chooses what the browser shows, which may be an older list: every
\* agent that was ever listed has a card.
ChooseAgent(i, a) ==
  /\ visible[i] /\ HasCard(a)
  /\ dropdown' = [dropdown EXCEPT ![i].value = a]
  /\ disturbed' = IF a \in dropdown[i].options THEN disturbed ELSE disturbed \cup {i}
  /\ UNCHANGED <<agent_vars, test_vars, total_players, type, visible, update>>

ChangePlayers(n) ==
  /\ total_players' = n
  /\ UNCHANGED <<agent_vars, test_vars, type, row_vars>>

Config(i) ==
  IF type[i] = "llm_api" /\ dropdown[i].value # NotFound
  THEN [type |-> "llm_api", agent_id |-> dropdown[i].value]
  ELSE [type |-> "random"]

\* _start_game_with_settings: what a game started now is given; seat 0 is
\* human.  The start changes nothing of this screen, and nothing keeps the
\* threads below from running when the game has begun.
PlayerConfigs == [i \in 1 .. total_players - 1 |-> Config(i)]

-----------------------------------------------------------------------------
(* _update_agent_options, called by both kinds of threads without a lock *)

\* A thread that is about to read the results and the list.
Reading(u) == [update EXCEPT ![u] = [NoUpdate EXCEPT !.stage = "reading", !.row = update[u].row]]

\* The thread has written its row: a handler returns, a refresh
\* goes on with the next row.
RowIsWritten(u) ==
  [update EXCEPT ![u] = IF u \in Handlers THEN NoUpdate
                        ELSE [NoUpdate EXCEPT !.stage = "check", !.row = update[u].row + 1]]

ReadAgents(u) ==
  /\ update[u].stage = "reading"
  /\ update' = [update EXCEPT ![u] = [@ EXCEPT !.stage = "found", !.found = Offered]]
  /\ UNCHANGED <<agent_vars, test_vars, total_players, type, visible, dropdown, disturbed>>

\* The dictionary of results grew under the loop that reads it.  A handler
\* dies of the exception, _refresh_agent_dropdowns catches it and returns.
ReadRaises(u) ==
  /\ update[u].stage = "reading" /\ update[u].grown
  /\ update' = [update EXCEPT ![u] = NoUpdate]
  /\ IF u \in Handlers
     THEN /\ disturbed' = disturbed \cup {update[u].row}
          /\ UNCHANGED refresh
     ELSE /\ disturbed' = disturbed \cup update[u].row .. CPUS
          /\ refresh' = [refresh EXCEPT ![u] = "done"]
  /\ UNCHANGED <<dynamic_agents, agent_cards, shown, test_vars, total_players, type, visible,
                 dropdown>>

\* An old list that is written over the options of a row is what the other
\* threads at that row will find there.
WriteOptions(u) ==
  LET row == update[u].row
  IN  /\ update[u].stage = "found"
      /\ dropdown' = [dropdown EXCEPT ![row].options =
                        IF update[u].found = {} THEN {NotFound} ELSE update[u].found]
      /\ update' = [w \in Updaters |->
           IF w = u THEN [update[u] EXCEPT !.stage = "options"]
           ELSE IF update[u].overtaken /\ update[w].row = row /\ update[w].stage \in Unlocked
           THEN [update[w] EXCEPT !.overtaken = TRUE] ELSE update[w]]
      /\ UNCHANGED <<agent_vars, test_vars, total_players, type, visible, disturbed>>

\* Which agent is first depends on the order of the answers and of the tests.
WriteValue(u) ==
  LET row == update[u].row
  IN  /\ update[u].stage = "options"
      /\ \E first \in IF update[u].found = {} THEN {NotFound} ELSE dropdown[row].options :
           dropdown' = [dropdown EXCEPT ![row].value = first]
      /\ disturbed' = IF update[u].overtaken THEN disturbed \cup {row} ELSE disturbed \ {row}
      /\ update' = RowIsWritten(u)
      /\ UNCHANGED <<agent_vars, test_vars, total_players, type, visible>>

UpdateStep(u) == ReadAgents(u) \/ ReadRaises(u) \/ WriteOptions(u) \/ WriteValue(u)

-----------------------------------------------------------------------------
(* _on_player_type_changed *)

\* selected_type is read from the control when the handler runs.
HandlerReadsType(h) ==
  /\ update[h].stage = "begun"
  /\ update' = [update EXCEPT ![h].stage =
                  IF type[update[h].row] = "llm_api" THEN "show" ELSE "hide"]
  /\ UNCHANGED <<agent_vars, test_vars, total_players, type, visible, dropdown, disturbed>>

HandlerShows(h) ==
  /\ update[h].stage = "show"
  /\ visible' = [visible EXCEPT ![update[h].row] = TRUE]
  /\ update' = Reading(h)
  /\ UNCHANGED <<agent_vars, test_vars, total_players, type, dropdown, disturbed>>

HandlerHides(h) ==
  /\ update[h].stage = "hide"
  /\ visible' = [visible EXCEPT ![update[h].row] = FALSE]
  /\ update' = RowIsWritten(h)
  /\ UNCHANGED <<agent_vars, test_vars, total_players, type, dropdown, disturbed>>

HandlerStep(h) ==
  HandlerReadsType(h) \/ HandlerShows(h) \/ HandlerHides(h) \/ UpdateStep(h)

-----------------------------------------------------------------------------
(* refresh_agents, a thread for every click *)

\* A new list overtakes the threads that have begun to read the old one.
Overtaken == [u \in Updaters |-> IF update[u].stage \in Unlocked
                                 THEN [update[u] EXCEPT !.overtaken = TRUE] ELSE update[u]]

\* The answer to a click; nothing changes while the request is under way.
FetchAgents(r) ==
  /\ refresh[r] = "ready" /\ \A q \in 1 .. r - 1 : refresh[q] # "ready"
  /\ dynamic_agents' \in Fetched
  /\ update' = Overtaken
  /\ refresh' = [refresh EXCEPT ![r] = "fetched"]
  /\ UNCHANGED <<agent_cards, shown, test_vars, total_players, type, visible, dropdown, disturbed>>

\* The cards are made, and _refresh_agent_dropdowns begins with the first row.
RebuildCards(r) ==
  /\ refresh[r] = "fetched"
  /\ PopulateAgentCards
  /\ refresh' = [refresh EXCEPT ![r] = "rows"]
  /\ update' = [update EXCEPT ![r] = [NoUpdate EXCEPT !.stage = "check"]]
  /\ UNCHANGED <<dynamic_agents, test_vars, total_players, type, visible, dropdown, disturbed>>

\* The except clause, for what the cards or page.update raise before the first
\* row: the list is emptied, the cards are cleared, and the dropdowns stay as
\* they are.
RefreshFails(r) ==
  /\ refresh[r] = "fetched" \/ (update[r].stage = "check" /\ update[r].row = 1)
  /\ dynamic_agents' = {} /\ shown' = {}
  /\ update' = [Overtaken EXCEPT ![r] = NoUpdate]
  /\ disturbed' = Rows
  /\ refresh' = [refresh EXCEPT ![r] = "done"]
  /\ UNCHANGED <<agent_cards, test_vars, total_players, type, visible, dropdown>>

\* Mutant: a dropdown that has a choice keeps it.
CheckRow_KeepsChoice(r) ==
  LET row == update[r].row
  IN  /\ update[r].stage = "check" /\ row \in Rows
      /\ IF type[row] = "llm_api" /\ visible[row] /\ dropdown[row].value = NotFound
         THEN update' = Reading(r) ELSE update' = RowIsWritten(r)
      /\ UNCHANGED <<agent_vars, test_vars, total_players, type, visible, dropdown,
                     disturbed>>

\* A handler that was overtaken by a later one may have hidden a dropdown
\* that is in use.
CheckRow(r) ==
  LET row == update[r].row
  IN  /\ update[r].stage = "check" /\ row \in Rows
      /\ IF type[row] = "llm_api" /\ visible[row]
         THEN update' = Reading(r) /\ UNCHANGED disturbed
         ELSE /\ update' = RowIsWritten(r)
              /\ disturbed' = IF type[row] = "llm_api" THEN disturbed \cup {row} ELSE disturbed
      /\ UNCHANGED <<agent_vars, test_vars, total_players, type, visible, dropdown>>

EndRows(r) ==
  /\ update[r].stage = "check" /\ update[r].row \notin Rows
  /\ update' = [update EXCEPT ![r] = NoUpdate]
  /\ refresh' = [refresh EXCEPT ![r] = "done"]
  /\ UNCHANGED <<dynamic_agents, agent_cards, shown, test_vars, total_players, type, visible,
                 dropdown, disturbed>>

RefreshStep(r) ==
  \/ FetchAgents(r) \/ RebuildCards(r) \/ RefreshFails(r)
  \/ CheckRow(r) \/ UpdateStep(r) \/ EndRows(r)

-----------------------------------------------------------------------------
(* test_agent_connection and test_all_agents *)

\* The first card of an agent, on screen or not.
CardOf(a) == CHOOSE k \in DOMAIN agent_cards :
               /\ agent_cards[k].agent = a
               /\ \A j \in 1 .. k - 1 : agent_cards[j].agent # a

\* rest is what test_all_agents has still to test when this one is done.
BeginTest(t, a, rest) ==
  /\ agent_cards' = [agent_cards EXCEPT ![CardOf(a)].enabled = FALSE]
  /\ tests' = [tests EXCEPT ![t] = [stage |-> "begun", agent |-> a, rest |-> rest]]

NextClick(t) == tests[t] = Ready /\ \A q \in 1 .. t - 1 : tests[q] # Ready

ClickTest(t, k) ==
  /\ NextClick(t) /\ k \in shown /\ agent_cards[k].enabled
  /\ BeginTest(t, agent_cards[k].agent, {})
  /\ UNCHANGED <<dynamic_agents, shown, refresh, test_results, form_vars>>

\* test_all_agents takes the list of this moment.
ClickTestAll(t) ==
  /\ NextClick(t) /\ dynamic_agents # {}
  /\ tests' = [tests EXCEPT ![t] = [stage |-> "next", rest |-> dynamic_agents]]
  /\ UNCHANGED <<agent_vars, test_results, form_vars>>

\* The agent is looked up in the list of this moment, then POST answers.
CreateSession(t) ==
  /\ tests[t].stage = "begun"
  /\ tests[t].agent \in dynamic_agents
  /\ tests' = [tests EXCEPT ![t].stage = "created"]
  /\ UNCHANGED <<agent_vars, test_results, form_vars>>

\* The first result of an agent adds a key to the dictionary.
NewResult(a, verdict) ==
  /\ test_results' = [test_results EXCEPT ![a] = verdict]
  /\ update' = [u \in Updaters |->
       IF test_results[a] = "untested" /\ update[u].stage = "reading"
       THEN [update[u] EXCEPT !.grown = TRUE] ELSE update[u]]

\* test_all_agents goes on with what is left of its list.
AfterTest(t, rest) ==
  [tests EXCEPT ![t] = IF rest = {} THEN [stage |-> "done"]
                       ELSE [stage |-> "next", rest |-> rest]]

\* Mutant: without the finally clause a failed test leaves its button disabled.
FinishTest_NoFinally(t, verdict) ==
  /\ agent_cards' = [agent_cards EXCEPT ![CardOf(tests[t].agent)].enabled = (verdict = "success")]
  /\ NewResult(tests[t].agent, verdict)
  /\ tests' = AfterTest(t, tests[t].rest)

FinishTest(t, verdict) ==
  /\ agent_cards' = [agent_cards EXCEPT ![CardOf(tests[t].agent)].enabled = TRUE]
  /\ NewResult(tests[t].agent, verdict)
  /\ tests' = AfterTest(t, tests[t].rest)

\* GET confirms the session.
ConfirmSession(t) ==
  /\ tests[t].stage = "created"
  /\ FinishTest(t, "success")
  /\ UNCHANGED <<dynamic_agents, shown, refresh, total_players, type, visible, dropdown,
                 disturbed>>

\* The agent is not in the list, or a request fails or times out.
FailTest(t) ==
  /\ tests[t].stage \in {"begun", "created"}
  /\ FinishTest(t, "error")
  /\ UNCHANGED <<dynamic_agents, shown, refresh, total_players, type, visible, dropdown,
                 disturbed>>

\* An agent that has no card yet is passed over.
NextTest(t) ==
  /\ tests[t].stage = "next"
  /\ \E a \in tests[t].rest :
       \/ HasCard(a) /\ BeginTest(t, a, tests[t].rest \ {a})
       \/ ~HasCard(a) /\ tests' = AfterTest(t, tests[t].rest \ {a}) /\ UNCHANGED agent_cards
  /\ UNCHANGED <<dynamic_agents, shown, refresh, test_results, form_vars>>

TestStep(t) == CreateSession(t) \/ ConfirmSession(t) \/ FailTest(t) \/ NextTest(t)

-----------------------------------------------------------------------------

Init ==
  /\ dynamic_agents \in Fetched
  /\ LET first == SetToSeq(dynamic_agents)
     IN  /\ agent_cards = [i \in DOMAIN first |-> NewCard(first[i])]
         /\ shown = DOMAIN first
  /\ test_results = [a \in AGENTS |-> "untested"]
  /\ refresh = [r \in 1 .. MAX_REFRESHES |-> "ready"]
  /\ tests = [t \in 1 .. MAX_TESTS |-> Ready]
  /\ total_players = IF CPUS >= 3 THEN 4 ELSE CPUS + 1
  /\ type = [i \in Rows |-> "random"]
  /\ visible = [i \in Rows |-> FALSE]
  /\ dropdown = [i \in Rows |-> [options |-> {}, value |-> NoChoice]]
  /\ update = [u \in Updaters |-> NoUpdate]
  /\ disturbed = {}

Next ==
  \/ \E i \in Rows, t \in {"random", "llm_api"} : ChangeType(i, t)
  \/ \E i \in Rows, a \in AGENTS : ChooseAgent(i, a)
  \/ \E n \in 2 .. CPUS + 1 : ChangePlayers(n)
  \/ \E r \in 1 .. MAX_REFRESHES : RefreshStep(r)
  \/ \E h \in Handlers : HandlerStep(h)
  \/ \E t \in 1 .. MAX_TESTS : ClickTestAll(t) \/ TestStep(t)
  \/ \E t \in 1 .. MAX_TESTS, k \in shown : ClickTest(t, k)

\* Every request of a test has a time-out, and nothing else stops its thread.
Spec == Init /\ [][Next]_vars /\ \A t \in 1 .. MAX_TESTS : WF_vars(TestStep(t))

-----------------------------------------------------------------------------
(* Properties *)

\* The screen is well typed.
TypeOK ==
  /\ dynamic_agents \subseteq AGENTS
  /\ shown \subseteq DOMAIN agent_cards
  /\ \A k \in DOMAIN agent_cards : agent_cards[k].agent \in AGENTS
  /\ test_results \in [AGENTS -> Verdicts]
  /\ total_players \in 2 .. 10
  /\ \A i \in Rows : dropdown[i].options \subseteq AGENTS \cup {NotFound}
  /\ \A u \in Updaters : update[u].found \subseteq AGENTS /\ update[u].row \in 1 .. CPUS + 1

\* A handler of the row, or a refresh that has its list, will write the row.
Pending(i) ==
  \/ \E h \in Handlers : update[h].row = i /\ update[h].stage \in {"begun", "show"} \cup Unlocked
  \/ \E r \in DOMAIN refresh :
       \/ refresh[r] = "fetched"
       \/ refresh[r] = "rows" /\ update[r].row <= i

\* When nobody is about to write a row, a game that is started now seats an
\* agent of the current list in it, and falls back to a random player only
\* when the list is empty.  What leaves an old agent in the form is a refresh
\* that failed after its answer, a thread that was overtaken by a new list or
\* interrupted by a new test result, a dropdown hidden by a late handler, or a
\* choice made on an old screen; the next undisturbed write makes up for it.
OnlyListedAgentsPlay ==
  \A i \in DOMAIN PlayerConfigs : type[i] = "llm_api" /\ i \notin disturbed /\ ~Pending(i) =>
    IF dynamic_agents = {} THEN PlayerConfigs[i].type = "random"
    ELSE PlayerConfigs[i].type = "llm_api" /\ PlayerConfigs[i].agent_id \in dynamic_agents

Disabled(a) == HasCard(a) /\ ~agent_cards[CardOf(a)].enabled

\* The button of a card that is being tested can be clicked again later,
\* whatever the server does.
ButtonComesBack ==
  \A a \in AGENTS : Disabled(a) ~> ~Disabled(a)
=============================================================================
