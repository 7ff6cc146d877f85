----------------------------- MODULE LogViewer -----------------------------
(***************************************************************************)
(* The log viewer, log_viewer.py: threads that share one LogParser without *)
(* a lock.  A click on a file name parses the whole file in a thread of    *)
(* the click; _refresh_loop parses what was added to the file since its    *)
(* last look; timer_loop redraws when _needs_ui_update is set.  A thread   *)
(* that goes through the dictionary of the players while another puts one  *)
(* into it ends with a RuntimeError.                                       *)
(*                                                                         *)
(* A log file is a sequence of records.  The game process, which writes it *)
(* through the logging module (external), appends whole records to one of  *)
(* the files.  Positions are byte offsets: the prompt of an agent, many    *)
(* lines of JSON, is longer than the other records.                        *)
(***************************************************************************)
EXTENDS Integers, Sequences, FiniteSets

CONSTANTS
  FILES,        \* the log files
  LIVE,         \* the one the game process is writing
  AGENTS,       \* the players that are sent prompts
  WRITTEN,      \* the kinds of records the game process writes
  OLD_LOG,      \* the kinds of the records of the other files, one hand
  MAX_RECORDS,  \* bound: records in the live file
  MAX_LOADS,    \* bound: files loaded, at the start and by clicks
  MAX_STARTS    \* bound: handlers about to start the refresh thread

NoFile == "none"

\* The other messages, on the pot and on decisions, are like "phase" events
\* or like "action" lines to the parser.
Kinds == {"hand", "phase", "prompt", "action"}

\* A log begins with its first hand.  A player's cards are a field of the
\* panel under the player's name, apart from the other three fields.
ASSUME LogAssumption ==
  /\ LIVE \in FILES /\ NoFile \notin FILES
  /\ AGENTS # {} /\ AGENTS \cap {"hand", "phase", "community"} = {}
  /\ WRITTEN \subseteq Kinds
  /\ OLD_LOG \in Seq(Kinds) /\ (OLD_LOG # <<>> => OLD_LOG[1] = "hand")
  /\ Len(OLD_LOG) <= MAX_RECORDS
  /\ {MAX_RECORDS, MAX_LOADS, MAX_STARTS} \subseteq Nat

VARIABLES
  log,           \* the files
  events,        \* parser.events: how often each record is in the list
  linked,        \* app.events is the list that the parser appends to
  position,      \* parser.last_file_position
  panel,         \* parser.game_state: the hand that each field was taken from
  known,         \* the files whose players are in game_state.players
  current_file,
  load,          \* the threads of load_log_file
  refresh,       \* the thread of _refresh_loop that self.refresh_thread names
  forgotten,     \* one that is alive and no longer named
  starting,      \* handlers that have found no refresh thread alive
  timer,         \* where timer_loop stands
  auto_refresh,
  needs_update,  \* _needs_ui_update
  up_to_date,    \* the screen shows the events of app.events
  measured,      \* history: the file in which position was measured
  carried,       \* history: an offset of one file was used in another
  overlapped,    \* history: two threads have parsed at the same time
  crowded,       \* history: two of them were loads
  overtaken,     \* history: the flag was raised during the last redraw
  missed_start,  \* history: a start found the old thread on its way out
  doubled,       \* history: two handlers were about to start the thread
  collided       \* history: the dictionary has changed under a thread

parser_vars  == <<events, position, panel, known>>
start_vars   == <<starting, missed_start, doubled>>
screen_vars  == <<needs_update, up_to_date, timer, overtaken>>
history_vars == <<measured, carried, overlapped, crowded, collided>>
vars == <<log, parser_vars, linked, current_file, load, refresh, forgotten, start_vars,
          auto_refresh, screen_vars, history_vars>>

Lines == 1 .. MAX_RECORDS
NoEvents == [f \in FILES |-> [i \in Lines |-> 0]]
NoHand == <<NoFile, 0>>
Loads == 1 .. MAX_LOADS

-----------------------------------------------------------------------------
(* Records and what the parser makes of them *)

Records == [kind : Kinds, hand : Nat, player : AGENTS]

\* _parse_message and _parse_action: what the game writes of an action,
\* "Player 0 called 20", has none of the forms the parser looks for.
IsEvent(record) == record.kind # "action"

\* current_hand, current_phase and community_cards of GameState, and the
\* cards of every player.  Chips, bets and the pot are not cleared by a new
\* hand and left out.
Fields == {"hand", "phase", "community"} \cup AGENTS

\* _update_game_state, and for a prompt _extract_cards_from_json_message.
Writes(record) ==
  CASE record.kind = "hand"   -> {"hand", "phase"}
    [] record.kind = "phase"  -> {"phase"}
    [] record.kind = "prompt" -> {record.player, "community"}
    [] record.kind = "action" -> {}

\* Mutant: a new hand leaves the cards of the last one on the panel.
Clears_Keeps(record) == IF record.kind = "hand" THEN {"community"} ELSE {}

\* A new hand clears every card.
Clears(record) == IF record.kind = "hand" THEN AGENTS \cup {"community"} ELSE {}

\* One turn of the loops of parse_file and parse_new_lines: the event is
\* appended to whatever list parser.events is by then.
ParseRecord(f, i) ==
  LET record == log[f][i]
  IN  /\ up_to_date' = (up_to_date /\ ~(linked /\ IsEvent(record)))
      /\ events' = IF IsEvent(record) THEN [events EXCEPT ![f][i] = @ + 1] ELSE events
      /\ panel' = [x \in Fields |-> CASE x \in Writes(record) -> <<f, record.hand>>
                                      [] x \in Clears(record) -> NoHand
                                      [] OTHER -> panel[x]]
      \* A prompt lists everyone at the table.
      /\ known' = IF record.kind = "prompt" THEN known \cup {f} ELSE known

\* The offset at which record i ends: a prompt counts two, the others one.
Offset(f, i) == i + Cardinality({j \in 1 .. i : log[f][j].kind = "prompt"})

Size(f) == Offset(f, Len(log[f]))

\* The first record that begins at the offset or behind it.
FirstFrom(f, offset) ==
  CHOOSE i \in 1 .. Len(log[f]) + 1 :
    /\ Offset(f, i - 1) >= offset \/ i = Len(log[f]) + 1
    /\ \A j \in 1 .. i - 1 : Offset(f, j - 1) < offset

\* The offset is inside a record.
IsTorn(f, offset) ==
  offset < Size(f) /\ \A i \in 0 .. Len(log[f]) : Offset(f, i) # offset

-----------------------------------------------------------------------------
(* The state *)

IdleLoad == [at |-> "ready", file |-> NoFile, next |-> 1, last |-> 0]
IdleRefresh == [at |-> "dead", file |-> NoFile, next |-> 1, last |-> 0, end |-> 0,
                found |-> FALSE]

\* The parser, its threads and the screen are well typed.
TypeOK ==
  /\ log \in [FILES -> Seq(Records)]
  /\ events \in [FILES -> [Lines -> Nat]]
  /\ position \in Nat
  /\ panel \in [Fields -> (FILES \cup {NoFile}) \X Nat]
  /\ {current_file, measured} \subseteq FILES \cup {NoFile}
  /\ load \in [Loads -> [at : {"ready", "reset", "read", "parse", "done"}, file : FILES \cup {NoFile},
                        next : 1 .. MAX_RECORDS + 1, last : 0 .. MAX_RECORDS]]
  /\ {refresh, forgotten} \subseteq
       [at : {"dead", "look", "tell", "parse", "leaving"}, file : FILES \cup {NoFile},
        next : 1 .. MAX_RECORDS + 1, last : 0 .. MAX_RECORDS, end : Nat, found : BOOLEAN]
  /\ known \subseteq FILES /\ starting \in 0 .. MAX_STARTS
  /\ timer \in {"off", "idle", "drawn"}
  /\ {linked, auto_refresh, needs_update, up_to_date, carried, overlapped, crowded, overtaken,
      missed_start, doubled, collided} \subseteq BOOLEAN

OldRecord(i) == [kind |-> OLD_LOG[i], hand |-> 1, player |-> CHOOSE a \in AGENTS : TRUE]

Init ==
  /\ log = [f \in FILES |-> IF f = LIVE THEN <<>>
                         ELSE [i \in DOMAIN OLD_LOG |-> OldRecord(i)]]
  /\ events = NoEvents /\ linked = FALSE /\ up_to_date = TRUE
  /\ position = 0 /\ panel = [x \in Fields |-> NoHand]
  /\ current_file = NoFile /\ measured = NoFile
  /\ known = {} /\ load = [c \in Loads |-> IdleLoad]
  /\ refresh = IdleRefresh /\ forgotten = IdleRefresh /\ starting = 0
  /\ timer = "off" /\ auto_refresh = TRUE /\ needs_update = FALSE
  /\ carried = FALSE /\ overlapped = FALSE /\ crowded = FALSE
  /\ overtaken = FALSE /\ missed_start = FALSE /\ doubled = FALSE /\ collided = FALSE

IsLoading(c) == load[c].at \notin {"ready", "done"}
IsParsing(r) == r.at \in {"tell", "parse"}

-----------------------------------------------------------------------------
(* The game process *)

\* A game opens its log with a hand; the rest comes in any order.
WriteRecord(kind, player) ==
  /\ Len(log[LIVE]) < MAX_RECORDS
  /\ log[LIVE] = <<>> => kind = "hand"
  /\ LET hands == Cardinality({i \in DOMAIN log[LIVE] : log[LIVE][i].kind = "hand"})
         hand  == IF kind = "hand" THEN hands + 1 ELSE hands
     IN  log' = [log EXCEPT ![LIVE] = Append(@, [kind |-> kind, hand |-> hand, player |-> player])]
  /\ UNCHANGED <<parser_vars, linked, current_file, load, refresh, forgotten, start_vars,
                 auto_refresh, screen_vars, history_vars>>

-----------------------------------------------------------------------------
(* The dictionary of the players *)

\* The thread, of a load or of a refresh, is about to parse a record.
Parses(r) == r.at = "parse" /\ r.next <= r.last

\* It will go through game_state.players, or put players into it.
Iterates(r) == Parses(r) /\ log[r.file][r.next].kind \in {"hand", "prompt"}
Inserts(r)  == Parses(r) /\ log[r.file][r.next].kind = "prompt" /\ r.file \notin known

\* One of the others puts in its players while a thread is going through.
PlayersChange(others) ==
  /\ collided' = TRUE
  /\ \E r \in others : Inserts(r) /\ known' = known \cup {r.file}

\* The error ends the parsing.  HAND_START is in the list by then, and some of
\* the cards are cleared; the prompt has not been looked at.
ParseCollides(r, others) ==
  /\ Iterates(r) /\ PlayersChange(others)
  /\ LET f      == r.file
         record == log[f][r.next]
     IN  IF record.kind = "hand"
         THEN /\ up_to_date' = (up_to_date /\ ~linked)
              /\ events' = [events EXCEPT ![f][r.next] = @ + 1]
              /\ \E kept \in SUBSET AGENTS :
                   panel' = [x \in Fields |-> CASE x \in Writes(record) -> <<f, record.hand>>
                                                [] x \in kept -> panel[x]
                                                [] OTHER -> NoHand]
         ELSE UNCHANGED <<up_to_date, events, panel>>

-----------------------------------------------------------------------------
(* The real-time switch *)

\* The first half of start_auto_refresh: a thread that is alive is taken to be
\* at work.
StartAutoRefresh ==
  /\ starting < MAX_STARTS
  /\ \/ /\ refresh.at = "dead"
        /\ starting' = starting + 1
        /\ doubled' = (doubled \/ starting > 0)
        /\ missed_start' = FALSE
     \/ /\ refresh.at # "dead"
        /\ missed_start' = (missed_start \/ refresh.at = "leaving")
        /\ UNCHANGED <<starting, doubled>>

\* The second half.  Of two handlers either both start a thread, and the
\* first one is forgotten, at most one at a time in the model; or they meet
\* between the two statements: both start the thread of the later one, and
\* the second start raises, for a load before its page.update.
StartThread ==
  /\ starting > 0 /\ (refresh.at = "dead" \/ forgotten.at = "dead")
  /\ refresh' = [IdleRefresh EXCEPT !.at = "look"]
  /\ forgotten' = IF refresh.at = "dead" THEN forgotten ELSE refresh
  /\ \/ starting' = starting - 1 /\ UNCHANGED up_to_date
     \/ starting > 1 /\ starting' = starting - 2 /\ up_to_date' \in {up_to_date, FALSE}
  /\ UNCHANGED <<log, parser_vars, linked, current_file, load, missed_start, doubled,
                 auto_refresh, needs_update, timer, overtaken, history_vars>>

\* Mutant: switching on only sets the flag.
ToggleAutoRefresh_NoStart ==
  /\ auto_refresh' = (~auto_refresh /\ current_file # NoFile)
  /\ UNCHANGED <<log, parser_vars, linked, current_file, load, refresh, forgotten, start_vars,
                 screen_vars, history_vars>>

\* toggle_auto_refresh: before a file is chosen it cannot be switched on.
\* Closing the window, on_window_event, is the same as switching off.
ToggleAutoRefresh ==
  /\ auto_refresh' = (~auto_refresh /\ current_file # NoFile)
  /\ IF ~auto_refresh /\ current_file # NoFile
     THEN StartAutoRefresh
     ELSE UNCHANGED start_vars
  /\ UNCHANGED <<log, parser_vars, linked, current_file, load, refresh, forgotten, screen_vars,
                 history_vars>>

-----------------------------------------------------------------------------
(* apply_filters, update_event_list, create_event_control and              *)
(* update_game_status: an empty list leaves the screen as it is.           *)

Redraw ==
  /\ up_to_date' = (linked' => events' # NoEvents)
  /\ overtaken' = FALSE

-----------------------------------------------------------------------------
(* load_log_file: the first load is the one main makes itself *)

ClickFile(c, f) ==
  /\ load[c].at = "ready" /\ \A d \in 1 .. c - 1 : load[d].at # "ready"
  /\ current_file' = f
  /\ load' = [load EXCEPT ![c] = [@ EXCEPT !.at = "reset", !.file = f]]
  /\ crowded' = (crowded \/ \E d \in Loads : IsLoading(d))
  /\ overlapped' = (overlapped \/ IsParsing(refresh) \/ IsParsing(forgotten)
                               \/ \E d \in Loads : IsLoading(d))
  /\ UNCHANGED <<log, parser_vars, linked, refresh, forgotten, start_vars, auto_refresh,
                 screen_vars, measured, carried, collided>>

\* parse_file begins a new list; the position and game_state stay.
LoadReset(c) ==
  /\ load[c].at = "reset"
  /\ load' = [load EXCEPT ![c].at = "read"]
  /\ events' = NoEvents
  /\ linked' = FALSE
  /\ UNCHANGED <<log, position, panel, known, current_file, refresh, forgotten, start_vars,
                 auto_refresh, screen_vars, history_vars>>

LoadRead(c) ==
  /\ load[c].at = "read"
  /\ load' = [load EXCEPT ![c] = [@ EXCEPT !.at = "parse", !.next = 1,
                                          !.last = Len(log[load[c].file])]]
  /\ UNCHANGED <<log, parser_vars, linked, current_file, refresh, forgotten, start_vars,
                 auto_refresh, screen_vars, history_vars>>

LoadParse(c) ==
  /\ Parses(load[c])
  /\ ParseRecord(load[c].file, load[c].next)
  /\ load' = [load EXCEPT ![c].next = @ + 1]
  /\ UNCHANGED <<log, position, linked, current_file, refresh, forgotten, start_vars, auto_refresh,
                 needs_update, timer, overtaken, history_vars>>

LoadEnds(c) == load' = [load EXCEPT ![c] = [IdleLoad EXCEPT !.at = "done"]]

\* Mutant: the position is set to the end of the file when all is parsed.
LoadDone_Tells(c) ==
  /\ load[c].at = "parse" /\ load[c].next > load[c].last
  /\ LoadEnds(c)
  /\ linked' = TRUE
  /\ position' = Size(load[c].file) /\ measured' = load[c].file
  /\ UNCHANGED <<events, panel, known>>
  /\ Redraw
  /\ IF auto_refresh THEN StartAutoRefresh ELSE UNCHANGED start_vars
  /\ timer' = IF c = 1 THEN "idle" ELSE timer
  /\ UNCHANGED <<log, current_file, refresh, forgotten, auto_refresh, needs_update, carried,
                 overlapped, crowded, collided>>

\* What follows parse_file; main starts the timer after its own load.
LoadDone(c) ==
  /\ load[c].at = "parse" /\ load[c].next > load[c].last
  /\ LoadEnds(c)
  /\ linked' = TRUE
  /\ UNCHANGED parser_vars
  /\ Redraw
  /\ IF auto_refresh THEN StartAutoRefresh ELSE UNCHANGED start_vars
  /\ timer' = IF c = 1 THEN "idle" ELSE timer
  /\ UNCHANGED <<log, current_file, refresh, forgotten, auto_refresh, needs_update, history_vars>>

\* An error that nobody catches, while parsing or in update_game_status, ends
\* the load; main ends with it and starts no timer.
LoadCollides(c) ==
  LET others == {load[d] : d \in Loads \ {c}} \cup {refresh, forgotten}
  IN  /\ \/ ParseCollides(load[c], others) /\ UNCHANGED linked
         \/ /\ load[c].at = "parse" /\ load[c].next > load[c].last
            /\ PlayersChange(others)
            /\ linked' = TRUE /\ up_to_date' = FALSE
            /\ UNCHANGED <<events, panel>>
      /\ LoadEnds(c)
      /\ UNCHANGED <<log, position, current_file, refresh, forgotten, start_vars, auto_refresh,
                     needs_update, timer, overtaken, measured, carried, overlapped, crowded>>

LoadStep(c) == LoadReset(c) \/ LoadRead(c) \/ LoadParse(c) \/ LoadDone(c) \/ LoadCollides(c)

-----------------------------------------------------------------------------
(* _refresh_loop, for a thread that is at r before the step and at next    *)
(* after it                                                                *)

\* What readlines returns; a record that the position cuts in two is skipped.
NewLines ==
  LET first == FirstFrom(current_file, position)
      last  == Len(log[current_file])
  IN  [at |-> "tell", file |-> current_file, next |-> first, last |-> last,
       end |-> IF position > Size(current_file) THEN position ELSE Size(current_file),
       found |-> \E i \in first .. last : IsEvent(log[current_file][i])]

\* Mutant: one byte that was added is not taken for a new line.
RefreshLook_Lags(r, next) ==
  /\ r.at = "look" /\ auto_refresh
  /\ Size(current_file) > position + 1
  /\ next = NewLines
  /\ carried' = (carried \/ (position > 0 /\ measured # current_file))
  /\ overlapped' = (overlapped \/ \E c \in Loads : IsLoading(c))
  /\ UNCHANGED <<log, parser_vars, linked, current_file, load, start_vars, auto_refresh,
                 screen_vars, measured, crowded, collided>>

\* parse_new_lines: seek and readlines.
RefreshLook(r, next) ==
  /\ r.at = "look" /\ auto_refresh
  /\ next = NewLines
  /\ carried' = (carried \/ (position > 0 /\ measured # current_file))
  /\ overlapped' = (overlapped \/ \E c \in Loads : IsLoading(c))
  /\ UNCHANGED <<log, parser_vars, linked, current_file, load, start_vars, auto_refresh,
                 screen_vars, measured, crowded, collided>>

\* Mutant: the position is left where it was.
RefreshTell_Not(r, next) ==
  /\ r.at = "tell"
  /\ next = [r EXCEPT !.at = "parse", !.end = 0]
  /\ UNCHANGED <<log, parser_vars, linked, current_file, load, start_vars, auto_refresh,
                 screen_vars, history_vars>>

\* tell: where readlines stopped.
RefreshTell(r, next) ==
  /\ r.at = "tell"
  /\ next = [r EXCEPT !.at = "parse", !.end = 0]
  /\ position' = r.end /\ measured' = r.file
  /\ UNCHANGED <<log, events, panel, known, linked, current_file, load, start_vars, auto_refresh,
                 screen_vars, carried, overlapped, crowded, collided>>

\* The position cuts a character in two: the decoder's error is not an
\* IOError and ends the loop.
RefreshBreaks(r, next) ==
  /\ r.at = "look" /\ auto_refresh
  /\ IsTorn(current_file, position)
  /\ next = [IdleRefresh EXCEPT !.at = "leaving"]
  /\ carried' = (carried \/ measured # current_file)
  /\ UNCHANGED <<log, parser_vars, linked, current_file, load, start_vars, auto_refresh,
                 screen_vars, measured, overlapped, crowded, collided>>

RefreshParse(r, next) ==
  /\ Parses(r)
  /\ ParseRecord(r.file, r.next)
  /\ next = [r EXCEPT !.next = @ + 1]
  /\ UNCHANGED <<log, position, linked, current_file, load, start_vars, auto_refresh,
                 needs_update, timer, overtaken, history_vars>>

\* The error of the dictionary ends the loop too, and the flag is not raised.
RefreshCollides(r, next, other) ==
  /\ ParseCollides(r, {load[c] : c \in Loads} \cup {other})
  /\ next = [IdleRefresh EXCEPT !.at = "leaving"]
  /\ UNCHANGED <<log, position, linked, current_file, load, start_vars, auto_refresh,
                 needs_update, timer, overtaken, measured, carried, overlapped, crowded>>

\* Mutant: the flag is not raised.
RefreshFlag_Unset(r, next) ==
  /\ r.at = "parse" /\ r.next > r.last
  /\ next = [IdleRefresh EXCEPT !.at = "look"]
  /\ UNCHANGED <<log, parser_vars, linked, current_file, load, start_vars, auto_refresh,
                 screen_vars, history_vars>>

\* The flag is raised for the timer; then the thread sleeps and looks again.
RefreshFlag(r, next) ==
  /\ r.at = "parse" /\ r.next > r.last
  /\ next = [IdleRefresh EXCEPT !.at = "look"]
  /\ needs_update' = (needs_update \/ r.found)
  /\ overtaken' = (overtaken \/ (r.found /\ timer = "drawn"))
  /\ UNCHANGED <<log, parser_vars, linked, current_file, load, start_vars, auto_refresh,
                 up_to_date, timer, history_vars>>

\* The loop ends when the switch is off, and a little later the thread.
RefreshLeave(r, next) ==
  /\ \/ r.at = "look" /\ ~auto_refresh /\ next = [r EXCEPT !.at = "leaving"]
     \/ r.at = "leaving" /\ next = [r EXCEPT !.at = "dead"]
  /\ UNCHANGED <<log, parser_vars, linked, current_file, load, start_vars, auto_refresh,
                 screen_vars, history_vars>>

RefreshStep(r, next, other) ==
  \/ RefreshLook(r, next) \/ RefreshTell(r, next) \/ RefreshBreaks(r, next)
  \/ RefreshParse(r, next) \/ RefreshCollides(r, next, other)
  \/ RefreshFlag(r, next) \/ RefreshLeave(r, next)

NamedStep == RefreshStep(refresh, refresh', forgotten) /\ UNCHANGED forgotten
ForgottenStep == RefreshStep(forgotten, forgotten', refresh) /\ UNCHANGED refresh

-----------------------------------------------------------------------------
(* timer_loop and check_ui_updates *)

TimerDraw ==
  /\ timer = "idle" /\ needs_update
  /\ timer' = "drawn"
  /\ UNCHANGED <<parser_vars, linked>>
  /\ Redraw
  /\ UNCHANGED <<log, current_file, load, refresh, forgotten, start_vars, auto_refresh,
                 needs_update, history_vars>>

\* The flag is lowered after the redraw; an error leaves it up.
TimerClear ==
  /\ timer = "drawn"
  /\ timer' = "idle"
  /\ needs_update' \in {FALSE, TRUE}
  /\ UNCHANGED <<log, parser_vars, linked, current_file, load, refresh, forgotten, start_vars,
                 auto_refresh, up_to_date, overtaken, history_vars>>

-----------------------------------------------------------------------------

GameStep == \E kind \in WRITTEN, a \in AGENTS : WriteRecord(kind, a)

UserStep == ToggleAutoRefresh \/ \E c \in Loads, f \in FILES : ClickFile(c, f)

Next ==
  \/ GameStep \/ UserStep
  \/ \E c \in Loads : LoadStep(c)
  \/ StartThread \/ NamedStep \/ ForgottenStep
  \/ TimerDraw \/ TimerClear

\* The threads that parse are scheduled; nobody has to click or to play, and
\* nothing claimed here needs the timer.
Spec == /\ Init /\ [][Next]_vars
        /\ WF_vars(NamedStep) /\ \A c \in Loads : WF_vars(LoadStep(c))

-----------------------------------------------------------------------------
(* Properties *)

\* Nothing is being parsed, drawn or started.
AtRest ==
  /\ \A c \in Loads : ~IsLoading(c)
  /\ ~IsParsing(refresh) /\ ~IsParsing(forgotten) /\ starting = 0
  /\ timer # "drawn"

Count(f, i) == events[f][i]

\* However a file is loaded, refreshed and loaded again, an event is listed
\* twice at most, unless the threads of two loads worked at the same time or
\* two refresh threads were started.  It is listed twice, although
\* parse_new_lines is for the new lines only: parse_file leaves
\* last_file_position at zero, so the first refresh lists the whole file again.
NoLineListedThrice ==
  crowded \/ doubled \/ \A f \in FILES, i \in Lines : Count(f, i) <= 2

\* A record that parse_new_lines has passed over is in the list, also when a
\* load replaced the list meanwhile: parse_file begins the list before it
\* reads the file.  It fails when offsets were carried to another file, and
\* when the dictionary has ended a thread in the middle of its lines.
NothingIsMissed ==
  (/\ AtRest /\ measured = current_file /\ current_file # NoFile
   /\ ~carried /\ ~crowded /\ ~doubled /\ ~collided) =>
    \A i \in DOMAIN log[current_file] :
      (IsEvent(log[current_file][i]) /\ Offset(current_file, i) <= position)
        => Count(current_file, i) > 0

\* The panel shows no card and no phase of another hand than the one it
\* names: HAND_START clears the cards of every player before the prompts of
\* the hand bring new ones.
PanelIsOfOneHand ==
  (AtRest /\ ~overlapped /\ ~carried /\ ~doubled) =>
    \A x \in Fields : panel[x] \in {panel["hand"], NoHand}

\* The screen lags behind the list with no redraw pending only if the flag
\* was raised between the timer's redraw and its lowering of the flag, or if
\* the list is empty, or if a thread has ended before it could redraw or
\* raise the flag.
HiddenOnlyByRace ==
  (AtRest /\ ~needs_update /\ events # NoEvents /\ ~up_to_date)
    => overtaken \/ collided \/ doubled

\* With the switch on and a file loaded, the refresh thread runs, unless an
\* offset was carried to another file, a start met a thread about to end, the
\* dictionary has changed under a thread, or there were two refresh threads.
WatchedUnlessRaced ==
  (AtRest /\ auto_refresh /\ current_file # NoFile /\ refresh.at = "dead")
    => carried \/ missed_start \/ collided \/ doubled

\* Whatever the game writes to the file on view is listed in the end, as long
\* as one refresh thread runs, offsets are not carried over, loads do not
\* overlap and no thread is ended by the dictionary.
EveryLineIsListed ==
  \A i \in Lines :
    (current_file = LIVE /\ i \in DOMAIN log[LIVE] /\ IsEvent(log[LIVE][i])) ~>
      \/ Count(LIVE, i) > 0 \/ current_file # LIVE
      \/ carried \/ crowded \/ doubled \/ collided \/ refresh.at \in {"leaving", "dead"}

=============================================================================
