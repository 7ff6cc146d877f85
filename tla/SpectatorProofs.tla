-------------------------- MODULE SpectatorProofs --------------------------
(***************************************************************************)
(* What holds of a desktop session and its viewer for every number of      *)
(* games, agents, hands and decisions and for all time limits.             *)
(*                                                                         *)
(* As long as the game on the table is none of the crowded ones, one loop  *)
(* works on it, so that its writes to the table have an order; the order   *)
(* of the reads then bounds how far the fields of a page can lie apart.    *)
(***************************************************************************)
EXTENDS Spectator, FiniteSetTheorems, TLAPS

-----------------------------------------------------------------------------
(* Types.  The bounds of the model on hands play no part in the proofs, so  *)
(* the hands of a table are natural numbers here.                          *)

Calls == [at : {"idle", "session", "poll", "leave", "decided"},
          id : Nat, player : LOOPS \cup {0},
          answer : Answers \cup {"none"}]

Requests == [id : Nat, loop : LOOPS, elapsed : Nat]

Tables == [cards : Nat, action : Nat, hand : Nat, results : Nat, over : BOOLEAN]

Pages == [game : LOOPS \cup {0}, cards : Nat, action : Nat, reason : Nat, hand : Nat,
          results : Nat]

LoopStates == {"none", "new", "top", "clear", "reset", "deal", "turn", "decide", "result",
               "ask", "final", "ended"}

Typed ==
  /\ decisions \in Nat /\ call \in [LOOPS -> Calls] /\ requests \subseteq Requests
  /\ reasoning \in [LOOPS -> Nat] /\ explained \subseteq Nat
  /\ game \in LOOPS \cup {0} /\ table \in [LOOPS -> Tables] /\ loop \in [LOOPS -> LoopStates]
  /\ poll \in [at : Nat, page : Pages]
  /\ shared \in LOOPS \cup {0} /\ crowded \in 2 .. 3

-----------------------------------------------------------------------------
(* Requests *)

\* A request belongs to the decision that its loop is waiting for; no loop
\* has two.  While a loop polls without an answer it may have one.
RequestInv ==
  /\ RequestsDoNotOverlap
  /\ \A r \in requests :
       /\ call[r.loop].id = r.id
       /\ call[r.loop].at \in {"poll", "leave"}
       /\ call[r.loop].at = "poll" => call[r.loop].answer = "none"
  /\ \A t \in LOOPS : call[t].at = "session" => call[t].answer = "none"

\* A step inside make_decision of loop t touches the call of t alone, and of
\* that neither the number nor the agent.
LEMMA CallStep ==
  ASSUME Typed, NEW t \in LOOPS, DecideStep(t)
  PROVE  /\ call' \in [LOOPS -> Calls]
         /\ \A u \in LOOPS : u # t => call'[u] = call[u]
         /\ call'[t].id = call[t].id /\ call'[t].player = call[t].player
         /\ call'[t].answer \in {call[t].answer, "none"}
         /\ call[t].at # "idle" /\ call'[t].at # "idle"
         /\ CreateSession(t) => call[t].at = "session" /\ call'[t].at = "poll"
         /\ PollAnswer(t) => /\ call[t].at = "poll" /\ call[t].answer # "none"
                             /\ call'[t].at = "decided"
         /\ GiveUp(t) => call[t].at = "poll" /\ call'[t].at = "leave"
         /\ LeaveExecutor(t) => call[t].at = "leave" /\ call'[t].at = "decided"
<1>1. call \in [LOOPS -> Calls] /\ call[t] \in Calls
  BY DEF Typed
<1>2. CASE CreateSession(t)
  BY <1>1, <1>2 DEF CreateSession, PollAnswer, Answered, GiveUp, GiveUpIsDue, LeaveExecutor, Calls
<1>3. CASE PollAnswer(t)
  <2>1. Answered(t) /\ call' = [call EXCEPT ![t] = [@ EXCEPT !.at = "decided", !.answer = "none"]]
    BY <1>3 DEF PollAnswer, Decided
  <2>. QED  BY <1>1, <2>1 DEF Answered, CreateSession, GiveUp, GiveUpIsDue, LeaveExecutor, Calls
<1>4. CASE GiveUp(t)
  BY <1>1, <1>4 DEF CreateSession, PollAnswer, Answered, GiveUp, GiveUpIsDue, LeaveExecutor, Calls
<1>5. CASE LeaveExecutor(t)
  BY <1>1, <1>5 DEF CreateSession, PollAnswer, Answered, GiveUp, GiveUpIsDue, LeaveExecutor, Calls
<1>. QED  BY <1>2, <1>3, <1>4, <1>5 DEF DecideStep

LEMMA RequestStarts ==
  ASSUME Typed, RequestInv, NEW t \in LOOPS, CreateSession(t)
  PROVE  RequestInv'
<1>1. DecideStep(t)
  BY DEF DecideStep
<1>2. requests' = requests \cup {[id |-> call[t].id, loop |-> t, elapsed |-> 0]}
  BY DEF CreateSession
<1>3. \A r \in requests : r.loop \in LOOPS /\ r.loop # t
  BY <1>1, CallStep DEF RequestInv, Typed, Requests
<1>4. RequestsDoNotOverlap'
  BY <1>2, <1>3 DEF RequestInv, RequestsDoNotOverlap
<1>5. ASSUME NEW r \in requests'
      PROVE  /\ call'[r.loop].id = r.id
             /\ call'[r.loop].at \in {"poll", "leave"}
             /\ call'[r.loop].at = "poll" => call'[r.loop].answer = "none"
  <2>1. CASE r \in requests
    BY <2>1, <1>1, <1>3, CallStep DEF RequestInv
  <2>2. CASE r = [id |-> call[t].id, loop |-> t, elapsed |-> 0]
    BY <2>2, <1>1, CallStep DEF RequestInv
  <2>. QED  BY <2>1, <2>2, <1>2
<1>6. \A u \in LOOPS : call'[u].at = "session" => call'[u].answer = "none"
  BY <1>1, CallStep DEF RequestInv
<1>. QED  BY <1>4, <1>5, <1>6 DEF RequestInv

\* The answer, or the time-out, takes the one request of its loop away.
LEMMA RequestEnds ==
  ASSUME Typed, RequestInv, NEW r \in requests, NEW a \in Answers, EndRequest(r, a)
  PROVE  RequestInv' /\ call' \in [LOOPS -> Calls]
<1>1. /\ call \in [LOOPS -> Calls] /\ r.loop \in LOOPS /\ call[r.loop] \in Calls
      /\ \A q \in requests : q.loop \in LOOPS
  BY DEF Typed, Requests
<1>2. requests' = requests \ {r}
  BY DEF EndRequest
<1>3. /\ call' \in [LOOPS -> Calls]
      /\ \A u \in LOOPS : /\ u # r.loop => call'[u] = call[u]
                          /\ call'[u].at = call[u].at /\ call'[u].id = call[u].id
                          /\ call[u].at # "poll" => call'[u].answer = call[u].answer
  BY <1>1 DEF EndRequest, Calls
<1>4. \A q \in requests' : q \in requests /\ q.loop # r.loop
  BY <1>2 DEF RequestInv, RequestsDoNotOverlap
<1>5. RequestsDoNotOverlap'
  BY <1>4 DEF RequestInv, RequestsDoNotOverlap
<1>6. \A q \in requests' : /\ call'[q.loop].id = q.id
                           /\ call'[q.loop].at \in {"poll", "leave"}
                           /\ call'[q.loop].at = "poll" => call'[q.loop].answer = "none"
  BY <1>1, <1>3, <1>4 DEF RequestInv
<1>7. \A u \in LOOPS : call'[u].at = "session" => call'[u].answer = "none"
  BY <1>3 DEF RequestInv
<1>. QED  BY <1>3, <1>5, <1>6, <1>7 DEF RequestInv

\* Time passes for all requests alike.
LEMMA RequestTicks ==
  ASSUME Typed, RequestInv, Tick
  PROVE  RequestInv' /\ requests' \subseteq Requests
<1>1. requests' = {[r EXCEPT !.elapsed = @ + 1] : r \in requests} /\ call' = call
  BY DEF Tick
<1>2. \A q \in requests' : \E r \in requests : q = [r EXCEPT !.elapsed = @ + 1]
  BY <1>1
<1>3. \A r \in requests : r \in Requests
  BY DEF Typed
<1>4. requests' \subseteq Requests
  BY <1>2, <1>3 DEF Requests
<1>5. \A q \in requests' : \E r \in requests :
         q = [r EXCEPT !.elapsed = @ + 1] /\ q.id = r.id /\ q.loop = r.loop
  BY <1>2, <1>3 DEF Requests
<1>6. RequestsDoNotOverlap'
  BY <1>5 DEF RequestInv, RequestsDoNotOverlap
<1>7. \A q \in requests' : /\ call'[q.loop].id = q.id
                           /\ call'[q.loop].at \in {"poll", "leave"}
                           /\ call'[q.loop].at = "poll" => call'[q.loop].answer = "none"
  BY <1>1, <1>5 DEF RequestInv
<1>. QED  BY <1>1, <1>4, <1>6, <1>7 DEF RequestInv

\* The loop that has its answer has no request left, and the one that leaves
\* the executor waits until it has none.
LEMMA RequestIsLeft ==
  ASSUME Typed, RequestInv, NEW t \in LOOPS, PollAnswer(t) \/ GiveUp(t) \/ LeaveExecutor(t)
  PROVE  RequestInv'
<1>1. DecideStep(t) /\ requests' = requests
  BY DEF DecideStep, PollAnswer, GiveUp, LeaveExecutor
<1>2. \A r \in requests : r.loop \in LOOPS /\ (r.loop = t => r.id = call[t].id)
  BY DEF Typed, Requests, RequestInv
<1>3. PollAnswer(t) \/ LeaveExecutor(t) => \A r \in requests : r.loop # t
  BY <1>1, <1>2, CallStep DEF RequestInv, LeaveExecutor
<1>4. \A r \in requests : /\ call'[r.loop].id = r.id
                          /\ call'[r.loop].at \in {"poll", "leave"}
                          /\ call'[r.loop].at = "poll" => call'[r.loop].answer = "none"
  BY <1>1, <1>2, <1>3, CallStep DEF RequestInv
<1>5. \A u \in LOOPS : call'[u].at = "session" => call'[u].answer = "none"
  BY <1>1, CallStep DEF RequestInv
<1>. QED  BY <1>1, <1>4, <1>5 DEF RequestInv, RequestsDoNotOverlap

-----------------------------------------------------------------------------
(* Steps inside make_decision, of the agent server and of the clock *)

Outside == Tick \/ TimeoutStep \/ AgentStep

\* A loop that has asked and has not yet acted on the answer.
Asking(t) == call[t].at # "idle"

\* The reason of the decision of loop t is written down.
Explains(t) ==
  /\ Asking(t)
  /\ reasoning' = [reasoning EXCEPT ![call[t].player] = call[t].id]
  /\ explained' = explained \cup {call[t].id}

LEMMA ReasonIsOfTheCall ==
  ASSUME Typed, NEW t \in LOOPS, DecideStep(t)
  PROVE  UNCHANGED <<reasoning, explained>> \/ Explains(t)
<1>1. Asking(t)
  BY CallStep DEF Asking
<1>2. CASE CreateSession(t) \/ LeaveExecutor(t)
  BY <1>2 DEF CreateSession, LeaveExecutor
<1>3. CASE PollAnswer(t)
  <2>1. Decided(t, call[t].answer \in {"action", "untyped", "unparsed"})
    BY <1>3 DEF PollAnswer
  <2>. QED  BY <1>1, <2>1 DEF Decided, Explains
<1>4. CASE GiveUp(t)
  BY <1>1, <1>4 DEF GiveUp, Explains
<1>. QED  BY <1>2, <1>3, <1>4 DEF DecideStep

\* Calls keep their number and their agent; a call neither begins nor ends.
LEMMA DecidingStep ==
  ASSUME Typed, RequestInv, Outside \/ \E t \in LOOPS : DecideStep(t)
  PROVE  /\ RequestInv'
         /\ decisions' = decisions /\ call' \in [LOOPS -> Calls] /\ requests' \subseteq Requests
         /\ \A u \in LOOPS : /\ call'[u].id = call[u].id /\ call'[u].player = call[u].player
                             /\ Asking(u)' <=> Asking(u)
         /\ UNCHANGED <<reasoning, explained>> \/ \E t \in LOOPS : Explains(t)
<1>1. call \in [LOOPS -> Calls] /\ requests \subseteq Requests
  BY DEF Typed
<1>2. CASE \E t \in LOOPS : DecideStep(t)
  <2>1. PICK t \in LOOPS : DecideStep(t)
    BY <1>2
  <2>2. /\ call' \in [LOOPS -> Calls]
        /\ \A u \in LOOPS : /\ call'[u].id = call[u].id /\ call'[u].player = call[u].player
                            /\ Asking(u)' <=> Asking(u)
    BY <2>1, CallStep DEF Asking
  <2>3. RequestInv'
    BY <2>1, RequestStarts, RequestIsLeft DEF DecideStep
  <2>4. decisions' = decisions /\ requests' \subseteq Requests
    <3>1. CASE CreateSession(t)
      BY <1>1, <3>1 DEF CreateSession, Requests, Calls
    <3>2. CASE PollAnswer(t) \/ GiveUp(t) \/ LeaveExecutor(t)
      BY <1>1, <3>2 DEF PollAnswer, GiveUp, LeaveExecutor
    <3>. QED  BY <2>1, <3>1, <3>2 DEF DecideStep
  <2>. QED  BY <2>1, <2>2, <2>3, <2>4, ReasonIsOfTheCall
<1>3. CASE Tick
  BY <1>1, <1>3, RequestTicks DEF Tick, Asking
<1>4. CASE TimeoutStep \/ AgentStep
  <2>1. PICK r \in requests, a \in Answers : EndRequest(r, a)
    BY <1>4 DEF TimeoutStep, RequestTimesOut, AgentStep, Answer, Answers
  <2>2. r.loop \in LOOPS
    BY <1>1 DEF Requests
  <2>3. \A u \in LOOPS : /\ call'[u].id = call[u].id /\ call'[u].player = call[u].player
                         /\ call'[u].at = call[u].at
    BY <1>1, <2>1, <2>2 DEF EndRequest, Calls
  <2>4. UNCHANGED <<decisions, reasoning, explained>> /\ requests' \subseteq Requests
    BY <1>1, <2>1 DEF EndRequest
  <2>. QED  BY <2>1, <2>3, <2>4, RequestEnds DEF Asking
<1>. QED  BY <1>2, <1>3, <1>4 DEF Outside

-----------------------------------------------------------------------------
(* The three kinds of steps *)

SessionStep == StartGame \/ BackToSetup \/ \E t \in LOOPS : LoopStep(t)
CallsStep == (Outside \/ \E t \in LOOPS : DecideStep(t)) /\ Deciding
ViewerStep == PollBegins \/ ReadField \/ DrawPage \/ PollFails

LEMMA StepKinds == Next => SessionStep \/ CallsStep \/ ViewerStep
BY DEF Next, SessionStep, CallsStep, ViewerStep, Outside

\* Loops leave requests and the poll alone, and end or begin their own call.
LEMMA LoopFrame ==
  ASSUME Typed, SessionStep
  PROVE  UNCHANGED <<requests, explained, poll>>
BY DEF SessionStep, StartGame, StartLoop, BackToSetup, LoopStep, LoopTop, LoopClear, LoopReset,
   LoopDeal, LoopAskAgent, LoopAct, LoopShowdown, LoopLeaveHand, LoopFinal, Idle, api_vars,
   BeginDecision

-----------------------------------------------------------------------------
(* Games and their loops *)

\* Games are numbered in the order they are started, and so are their loops.
LEMMA LoopsAreNumbers ==
  /\ LOOPS \subseteq Nat /\ 0 \notin LOOPS
  /\ \A g \in LOOPS, h \in Nat \ {0} : h <= g => h \in LOOPS
<1>1. Cardinality(LOOPS) \in Nat
  BY ApiAssumption, FS_CardinalityType
<1>2. LOOPS = 1 .. Cardinality(LOOPS)
  BY SpectatorAssumption
<1>. QED  BY <1>1, <1>2

\* Before a crowded game the loops of earlier games have ended.  The setup is
\* shown again in the first game only when its loop has ended.
SessionInv ==
  /\ \A t \in LOOPS : t > game => loop[t] = "none"
  /\ game < crowded => \A t \in LOOPS : t < game => loop[t] = "ended"
  /\ game = 0 => screen = "setup" /\ overlay = FALSE /\ serving = FALSE
  /\ shared <= game /\ (serving => shared # 0)
  /\ game = 1 /\ overlay = TRUE => loop[1] = "ended"
  /\ game = 1 /\ screen = "setup" => overlay = TRUE

\* A loop that takes a step is the only one that does.
LEMMA LoopMoves ==
  ASSUME Typed, NEW t \in LOOPS, LoopStep(t)
  PROVE  /\ Runs(t) /\ UNCHANGED <<game, screen, crowded>>
         /\ UNCHANGED <<shared, serving>> \/ shared' = game
         /\ \E next \in LoopStates \ {"none"} :
              /\ loop' = [loop EXCEPT ![t] = next]
              /\ overlay' = overlay \/ (overlay' = TRUE /\ next = "ended")
<1>1. /\ Runs(t) /\ UNCHANGED <<game, screen, crowded>>
      /\ UNCHANGED <<shared, serving>> \/ shared' = game
  BY DEF LoopStep, StartLoop, LoopTop, LoopClear, LoopReset, LoopDeal, LoopAskAgent, LoopAct,
     LoopShowdown, LoopLeaveHand, LoopFinal, Idle, Runs
<1>2. \/ overlay' = overlay /\ \E next \in LoopStates \ {"none"} : Advance(t, next)
      \/ overlay' = TRUE /\ Advance(t, "ended")
  BY DEF LoopStep, StartLoop, LoopTop, LoopClear, LoopReset, LoopDeal, LoopAskAgent, LoopAct,
     LoopShowdown, LoopLeaveHand, LoopFinal, Idle, LoopStates
<1>. QED  BY <1>1, <1>2 DEF Advance, LoopStates

\* While the game on the table is not crowded, the loop that runs is its own.
LEMMA OneLoopRuns ==
  ASSUME Typed, SessionInv, NEW t \in LOOPS, Runs(t), game < crowded
  PROVE  t = game /\ game # 0
BY LoopsAreNumbers DEF Typed, SessionInv, Runs

LEMMA SessionStarts ==
  ASSUME Typed, SessionInv, StartGame
  PROVE  SessionInv'
<1>1. /\ game + 1 \in LOOPS /\ game' = game + 1 /\ screen' = "table"
      /\ crowded' = IF screen = "setup" \/ crowded <= game THEN crowded ELSE game + 1
      /\ UNCHANGED <<overlay, shared, serving>> /\ loop' = [loop EXCEPT ![game + 1] = "new"]
  BY DEF StartGame
<1>2. game \in Nat /\ loop \in [LOOPS -> LoopStates] /\ LOOPS \subseteq Nat /\ 0 \notin LOOPS
  BY LoopsAreNumbers DEF Typed
<1>3. game < 2 /\ screen = "setup" => \A t \in LOOPS : t <= game => loop[t] = "ended"
  BY <1>1, <1>2 DEF SessionInv, Typed
<1>4. \A t \in LOOPS : t # game + 1 => loop'[t] = loop[t]
  BY <1>1, <1>2
<1>5. \A t \in LOOPS : t > game' => loop'[t] = "none"
  BY <1>1, <1>2, <1>4 DEF SessionInv
<1>6. game' < crowded' => \A t \in LOOPS : t < game' => loop'[t] = "ended"
  <2>1. game' < crowded' => game < 2 /\ screen = "setup"
    BY <1>1, <1>2 DEF Typed
  <2>. QED  BY <1>1, <1>2, <1>3, <1>4, <2>1
<1>7. shared' <= game' /\ (serving' => shared' # 0)
  BY <1>1, <1>2, LoopsAreNumbers DEF SessionInv, Typed
<1>. QED  BY <1>1, <1>2, <1>5, <1>6, <1>7 DEF SessionInv

\* The games with one loop each only grow fewer.
LEMMA CrowdsGrow ==
  ASSUME Typed, SessionStep
  PROVE  /\ crowded \in Nat /\ crowded' \in Nat /\ crowded' <= crowded
         /\ crowded' # crowded => crowded' = game + 1
<1>1. CASE StartGame
  BY <1>1, LoopsAreNumbers DEF StartGame, Typed
<1>2. CASE BackToSetup \/ \E t \in LOOPS : LoopStep(t)
  <2>1. crowded' = crowded
    BY <1>2, LoopMoves DEF BackToSetup
  <2>. QED  BY <2>1 DEF Typed
<1>. QED  BY <1>1, <1>2 DEF SessionStep

LEMMA SessionGoesOn ==
  ASSUME Typed, SessionInv, NEW t \in LOOPS, LoopStep(t)
  PROVE  SessionInv'
<1>1. PICK next \in LoopStates \ {"none"} :
        /\ loop' = [loop EXCEPT ![t] = next]
        /\ overlay' = overlay \/ (overlay' = TRUE /\ next = "ended")
  BY LoopMoves
<1>2. Runs(t) /\ UNCHANGED <<game, screen, crowded>> /\ (UNCHANGED <<shared, serving>> \/ shared' = game)
  BY LoopMoves
<1>3. game \in Nat /\ loop \in [LOOPS -> LoopStates] /\ LOOPS \subseteq Nat /\ 0 \notin LOOPS
  BY LoopsAreNumbers DEF Typed
<1>4. t <= game /\ (game < crowded => t = game)
  BY <1>2, <1>3, OneLoopRuns DEF SessionInv, Runs
<1>. QED  BY <1>1, <1>2, <1>3, <1>4 DEF SessionInv, Runs

LEMMA SessionKept ==
  ASSUME Typed, SessionInv, [Next]_vars
  PROVE  SessionInv'
<1>1. CASE StartGame
  BY <1>1, SessionStarts
<1>2. CASE BackToSetup
  BY <1>2 DEF BackToSetup, SessionInv
<1>3. CASE \E t \in LOOPS : LoopStep(t)
  BY <1>3, SessionGoesOn
<1>4. CASE CallsStep \/ ViewerStep \/ UNCHANGED vars
  <2>1. UNCHANGED session_vars
    BY <1>4 DEF CallsStep, Deciding, ViewerStep, PollBegins, ReadField, DrawPage, PollFails, vars
  <2>. QED  BY <2>1 DEF SessionInv, session_vars
<1>. QED  BY <1>1, <1>2, <1>3, <1>4, StepKinds DEF SessionStep

-----------------------------------------------------------------------------
(* The table *)

\* What a step of a loop may do to the table of the current game.
TableMoves(t) ==
  LET old == table[game]
      new == table'[game]
  IN  \/ new = old /\ (loop[t] = "clear" => loop'[t] = "clear")
      \/ /\ loop[t] = "top" /\ loop'[t] = "clear"
         /\ new.hand = old.hand + 1 /\ new.cards = old.cards
         /\ new.results = old.results /\ new.action = old.action
      \/ /\ new.hand = old.hand /\ new.cards \in {old.cards, 0, old.hand}
         /\ \/ new.results \in {0, old.hand}
            \/ loop[t] # "clear" /\ new.results = old.results
         /\ loop'[t] # "clear"
         /\ new.action = old.action \/ (LoopAct(t) /\ new.action = call[t].id)

LEMMA TableStep ==
  ASSUME Typed, SessionInv, NEW t \in LOOPS, LoopStep(t)
  PROVE  /\ game \in LOOPS /\ table' \in [LOOPS -> Tables]
         /\ \A g \in LOOPS : g # game => table'[g] = table[g]
         /\ TableMoves(t)
<1>1. game \in LOOPS
  <2>1. Runs(t)
    BY LoopMoves
  <2>2. ~ t > game
    BY <2>1 DEF SessionInv, Runs
  <2>. QED  BY <2>2, LoopsAreNumbers DEF Typed
<1>2. /\ table \in [LOOPS -> Tables] /\ table[game] \in Tables
      /\ loop \in [LOOPS -> LoopStates] /\ call \in [LOOPS -> Calls] /\ call[t] \in Calls
  BY <1>1 DEF Typed
<1>3. CASE LoopTop(t)
  BY <1>1, <1>2, <1>3 DEF LoopTop, Advance, TableMoves, Tables
<1>4. CASE LoopClear(t)
  BY <1>1, <1>2, <1>4 DEF LoopClear, Advance, TableMoves, Tables
<1>5. CASE LoopReset(t)
  BY <1>1, <1>2, <1>5 DEF LoopReset, Advance, TableMoves, Tables
<1>6. CASE LoopDeal(t)
  BY <1>1, <1>2, <1>6 DEF LoopDeal, Advance, TableMoves, Tables
<1>7. CASE StartLoop(t) \/ LoopAskAgent(t) \/ LoopLeaveHand(t) \/ LoopFinal(t)
  <2>1. table' = table /\ loop[t] # "clear"
    BY <1>7 DEF StartLoop, LoopAskAgent, LoopLeaveHand, LoopFinal
  <2>. QED  BY <1>1, <1>2, <2>1 DEF TableMoves
<1>8. CASE LoopAct(t)
  BY <1>1, <1>2, <1>8 DEF LoopAct, Advance, TableMoves, Tables, Calls
<1>9. CASE LoopShowdown(t)
  <2>1. PICK over \in BOOLEAN :
          table' = [table EXCEPT ![game].results = table[game].hand, ![game].over = over]
    BY <1>9 DEF LoopShowdown
  <2>2. loop' = [loop EXCEPT ![t] = "result"]
    BY <1>9 DEF LoopShowdown, Advance
  <2>. QED  BY <1>1, <1>2, <2>1, <2>2 DEF TableMoves, Tables
<1>. QED  BY <1>3, <1>4, <1>5, <1>6, <1>7, <1>8, <1>9 DEF LoopStep

\* Cards are of no later hand than the one begun last.  Before
\* a crowded game the results are of that hand or of the one before, and of
\* the one before only until they are cleared.
TableInv ==
  /\ \A g \in LOOPS : table[g].cards <= table[g].hand
  /\ \A g \in LOOPS : g < crowded => table[g].results = 0 \/ table[g].results + 1 >= table[g].hand
  /\ \A g \in LOOPS : g = game /\ g < crowded /\ loop[g] # "clear"
                        => table[g].results \in {0, table[g].hand}
  /\ \A g \in LOOPS : g > game => table[g] = NewTable

LEMMA TableKept ==
  ASSUME Typed, SessionInv, TableInv, [Next]_vars
  PROVE  TableInv'
<1>1. game \in Nat /\ table \in [LOOPS -> Tables] /\ LOOPS \subseteq Nat
  BY LoopsAreNumbers DEF Typed
<1>2. CASE StartGame
  <2>1. game' = game + 1 /\ table' = table /\ crowded' <= crowded
    BY <1>1, <1>2, CrowdsGrow DEF StartGame, SessionStep
  <2>2. table[game'].results = 0 \/ game' \notin LOOPS
    BY <1>1, <2>1 DEF TableInv, NewTable
  <2>3. crowded \in Nat /\ crowded' \in Nat
    BY <1>2, CrowdsGrow DEF SessionStep
  <2>. QED  BY <1>1, <2>1, <2>2, <2>3 DEF TableInv
<1>3. CASE \E t \in LOOPS : LoopStep(t)
  <2>1. PICK t \in LOOPS : LoopStep(t)
    BY <1>3
  <2>2. /\ game \in LOOPS /\ table' \in [LOOPS -> Tables] /\ UNCHANGED <<game, crowded>>
        /\ \A g \in LOOPS : g # game => table'[g] = table[g]
        /\ TableMoves(t)
        /\ game < crowded => t = game
    BY <2>1, TableStep, LoopMoves, OneLoopRuns
  <2>3. table[game] \in Tables /\ table'[game] \in Tables
    BY <1>1, <2>2
  <2>4. table'[game].cards <= table'[game].hand
    BY <2>2, <2>3 DEF TableInv, TableMoves, Tables
  <2>5. game < crowded => table'[game].results = 0 \/ table'[game].results + 1 >= table'[game].hand
    BY <2>2, <2>3 DEF TableInv, TableMoves, Tables
  <2>6. game < crowded /\ loop'[game] # "clear" => table'[game].results \in {0, table'[game].hand}
    BY <2>2, <2>3 DEF TableInv, TableMoves, Tables
  <2>7. \A g \in LOOPS : g > game => table'[g] = NewTable
    BY <1>1, <2>2 DEF TableInv
  <2>8. \A g \in LOOPS : table'[g].cards <= table'[g].hand
    BY <2>2, <2>4 DEF TableInv
  <2>9. \A g \in LOOPS : g < crowded => table'[g].results = 0 \/ table'[g].results + 1 >= table'[g].hand
    BY <2>2, <2>5 DEF TableInv
  <2>. QED  BY <2>2, <2>6, <2>7, <2>8, <2>9 DEF TableInv
<1>4. CASE BackToSetup \/ CallsStep \/ ViewerStep \/ UNCHANGED vars
  <2>1. UNCHANGED <<game, table, loop, crowded>>
    BY <1>4 DEF BackToSetup, CallsStep, Deciding, ViewerStep, PollBegins, ReadField, DrawPage,
       PollFails, vars, session_vars
  <2>. QED  BY <2>1 DEF TableInv
<1>. QED  BY <1>2, <1>3, <1>4, StepKinds DEF SessionStep

-----------------------------------------------------------------------------
(* The page *)

LEMMA PollType ==
  ASSUME Typed
  PROVE  /\ poll.at \in Nat /\ poll.page.game \in Nat /\ poll.page.cards \in Nat
         /\ poll.page.action \in Nat /\ poll.page.reason \in Nat
         /\ poll.page.hand \in Nat /\ poll.page.results \in Nat
<1>1. poll.at \in Nat /\ poll.page \in Pages
  BY DEF Typed
<1>2. poll.page.game \in LOOPS \cup {0}
  BY <1>1 DEF Pages
<1>3. /\ poll.page.cards \in Nat /\ poll.page.action \in Nat /\ poll.page.reason \in Nat
      /\ poll.page.hand \in Nat /\ poll.page.results \in Nat
  BY <1>1 DEF Pages
<1>4. poll.page.game \in Nat
  <2>1. \A g \in LOOPS \cup {0} : g \in Nat
    BY LoopsAreNumbers
  <2>. QED  BY <1>2, <2>1
<1>. QED  BY <1>1, <1>3, <1>4

\* The five reads of _build_viewer_state, one after the other.
LEMMA ReadSteps ==
  ASSUME Typed, ReadField, poll.page.game \in LOOPS
  PROVE  LET g == poll.page.game
         IN  \/ poll.at = 1 /\ poll' = [at |-> 2, page |-> [poll.page EXCEPT !.cards = table[g].cards]]
             \/ poll.at = 2 /\ poll' = [at |-> 3, page |-> [poll.page EXCEPT !.action = table[g].action]]
             \/ poll.at = 3 /\ poll' = [at |-> 4, page |-> [poll.page EXCEPT !.reason = reasoning[g]]]
             \/ poll.at = 4 /\ poll' = [at |-> 5, page |-> [poll.page EXCEPT !.hand = table[g].hand]]
             \/ poll.at = 5 /\ poll' = [at |-> 6, page |-> [poll.page EXCEPT !.results = table[g].results]]
<1>1. poll.at \in 1 .. 5
  BY DEF ReadField, Order
<1>2. CASE poll.at = 1
  BY <1>2 DEF ReadField, Order, Field
<1>3. CASE poll.at = 2
  BY <1>3 DEF ReadField, Order, Field
<1>4. CASE poll.at = 3
  BY <1>4 DEF ReadField, Order, Field
<1>5. CASE poll.at = 4
  BY <1>5 DEF ReadField, Order, Field
<1>6. CASE poll.at = 5
  BY <1>6 DEF ReadField, Order, Field
<1>. QED  BY <1>1, <1>2, <1>3, <1>4, <1>5, <1>6

\* What has been read of a page is not ahead of the table.
PageInv ==
  /\ poll.at \in 0 .. 7
  /\ poll.page.game <= game
  /\ poll.at # 0 => poll.page.game \in LOOPS
  /\ poll.at >= 2 => poll.page.cards <= table[poll.page.game].hand
  /\ poll.at >= 5 => /\ poll.page.cards <= poll.page.hand
                     /\ poll.page.hand <= table[poll.page.game].hand
  /\ poll.at >= 6 /\ poll.page.game < crowded =>
       poll.page.results = 0 \/ poll.page.results + 1 >= poll.page.hand

LEMMA PageKept ==
  ASSUME Typed, SessionInv, TableInv, PageInv, [Next]_vars
  PROVE  PageInv'
<1>1. game \in Nat /\ table \in [LOOPS -> Tables] /\ LOOPS \subseteq Nat /\ 0 \notin LOOPS
  BY LoopsAreNumbers DEF Typed
<1>2. poll \in [at : Nat, page : Pages] /\ poll.page \in Pages
  BY DEF Typed
<1>3. Complete = 6 /\ Drawn = 7 /\ Unasked = 0
  BY DEF Complete, Drawn, Unasked, Order
<1>4. CASE PollBegins
  <2>1. poll' = [at |-> 1, page |-> [BlankPage EXCEPT !.game = shared]] /\ serving /\ game' = game
    BY <1>4 DEF PollBegins, session_vars
  <2>2. shared \in LOOPS /\ shared <= game
    BY <2>1 DEF SessionInv, Typed
  <2>. QED  BY <1>1, <2>1, <2>2 DEF PageInv, BlankPage
<1>5. CASE ReadField
  <2>1. poll.page.game \in LOOPS
    BY <1>5, <1>2 DEF ReadField, Order, PageInv
  <2>2. table[poll.page.game] \in Tables /\ table' = table /\ UNCHANGED <<game, crowded>>
    BY <1>5, <1>1, <2>1 DEF ReadField, session_vars
  <2>. QED  BY <1>1, <1>2, <1>5, <2>1, <2>2, ReadSteps DEF PageInv, Pages, Tables, TableInv
<1>6. CASE DrawPage \/ PollFails
  <2>1. /\ poll.at = 6 /\ UNCHANGED <<game, table, crowded>>
        /\ poll' = NoPoll \/ poll' = [poll EXCEPT !.at = 7]
    BY <1>3, <1>6 DEF DrawPage, PollFails, session_vars
  <2>. QED  BY <1>1, <1>2, <1>3, <2>1 DEF PageInv, NoPoll, BlankPage
<1>7. CASE SessionStep
  <2>1. UNCHANGED poll /\ game' >= game /\ game' \in Nat
    <3>1. UNCHANGED poll
      BY <1>7, LoopFrame
    <3>2. game' = game \/ game' = game + 1
      BY <1>7, LoopMoves DEF SessionStep, StartGame, BackToSetup
    <3>. QED  BY <1>1, <3>1, <3>2
  <2>2. \A g \in LOOPS : table[g].hand \in Nat /\ table'[g].hand \in Nat /\ table[g].hand <= table'[g].hand
    <3>1. \A g \in LOOPS : table[g] \in Tables
      BY <1>1
    <3>2. CASE StartGame \/ BackToSetup
      <4>1. table' = table
        BY <3>2 DEF StartGame, BackToSetup
      <4>. QED  BY <3>1, <4>1 DEF Tables
    <3>3. ASSUME NEW t \in LOOPS, LoopStep(t)
          PROVE  \A g \in LOOPS : /\ table[g].hand \in Nat /\ table'[g].hand \in Nat
                                  /\ table[g].hand <= table'[g].hand
      <4>1. /\ game \in LOOPS /\ table' \in [LOOPS -> Tables] /\ TableMoves(t)
            /\ \A g \in LOOPS : g # game => table'[g] = table[g]
        BY <3>3, TableStep
      <4>2. table'[game] \in Tables /\ table[game] \in Tables
        BY <3>1, <4>1
      <4>3. table[game].hand <= table'[game].hand
        BY <4>1, <4>2 DEF TableMoves, Tables
      <4>. QED  BY <3>1, <4>1, <4>2, <4>3 DEF Tables
    <3>. QED  BY <1>7, <3>2, <3>3 DEF SessionStep
  <2>3. /\ poll.page.game \in Nat /\ poll.page.cards \in Nat /\ poll.page.hand \in Nat
        /\ poll.at \in Nat
    BY <1>1, PollType
  <2>4. poll.page.game <= game'
    BY <1>1, <2>1, <2>3 DEF PageInv
  <2>5. poll.at >= 2 => poll.page.cards <= table'[poll.page.game].hand
    BY <2>2, <2>3 DEF PageInv
  <2>6. poll.at >= 5 => poll.page.hand <= table'[poll.page.game].hand
    BY <2>2, <2>3 DEF PageInv
  <2>7. poll.page.game < crowded' => poll.page.game < crowded
    BY <1>7, <2>3, CrowdsGrow
  <2>. QED  BY <2>1, <2>4, <2>5, <2>6, <2>7 DEF PageInv
<1>8. CASE CallsStep \/ UNCHANGED vars
  <2>1. UNCHANGED <<poll, game, table, crowded>>
    BY <1>8 DEF CallsStep, Deciding, vars, session_vars
  <2>. QED  BY <2>1 DEF PageInv
<1>. QED  BY <1>4, <1>5, <1>6, <1>7, <1>8, StepKinds DEF ViewerStep

-----------------------------------------------------------------------------
(* Decisions and their reasons *)

\* The record that a decision begins with.
LEMMA FreshCall ==
  ASSUME NEW n \in Nat, NEW g \in LOOPS
  PROVE  LET c == [NoCall EXCEPT !.at = "session", !.id = n, !.player = g]
         IN  c \in Calls /\ c.at = "session" /\ c.id = n /\ c.player = g
<1>1. NoCall \in Calls
  BY DEF NoCall, Calls
<1>. QED  BY <1>1 DEF Calls

\* What a step of a loop does to its call, to the actions and to the reasons.
LEMMA CallOfLoop ==
  ASSUME Typed, SessionInv, NEW t \in LOOPS, LoopStep(t)
  PROVE  /\ game \in LOOPS
         /\ call' \in [LOOPS -> Calls] /\ decisions' \in Nat /\ reasoning' \in [LOOPS -> Nat]
         /\ \A u \in LOOPS : u # t => call'[u] = call[u] /\ loop'[u] = loop[u]
         /\ \A g \in LOOPS : g # game => reasoning'[g] = reasoning[g] /\ table'[g] = table[g]
         /\ \/ /\ loop[t] = "turn" /\ loop'[t] = "decide" /\ ~Asking(t) /\ Asking(t)'
               /\ decisions' = decisions + 1
               /\ call'[t].id = decisions + 1 /\ call'[t].player = game
               /\ UNCHANGED <<table, reasoning>>
            \/ /\ loop[t] = "decide" /\ Asking(t) /\ ~Asking(t)' /\ decisions' = decisions
               /\ table'[game].action = call[t].id /\ reasoning' = reasoning
            \/ /\ loop[t] # "decide" /\ UNCHANGED <<decisions, call>>
               /\ table'[game].action = table[game].action
               /\ reasoning'[game] \in {0, reasoning[game]}
<1>1. /\ call \in [LOOPS -> Calls] /\ decisions \in Nat /\ reasoning \in [LOOPS -> Nat]
      /\ loop \in [LOOPS -> LoopStates] /\ table \in [LOOPS -> Tables]
  BY DEF Typed
<1>2. /\ game \in LOOPS /\ \A g \in LOOPS : g # game => table'[g] = table[g]
      /\ TableMoves(t)
  BY TableStep
<1>3. \A u \in LOOPS : u # t => loop'[u] = loop[u]
  BY <1>1, LoopMoves
<1>4. table[game] \in Tables /\ reasoning[game] \in Nat
  BY <1>1, <1>2
<1>5. CASE LoopAskAgent(t)
  <2>1. call' = [call EXCEPT ![t] = [NoCall EXCEPT !.at = "session", !.id = decisions + 1,
                                                   !.player = game]]
    BY <1>5 DEF LoopAskAgent, BeginDecision
  <2>2. /\ loop[t] = "turn" /\ loop'[t] = "decide" /\ decisions' = decisions + 1
        /\ ~Asking(t) /\ UNCHANGED <<table, reasoning>>
    BY <1>1, <1>5 DEF LoopAskAgent, BeginDecision, Advance, Asking
  <2>. DEFINE c == [NoCall EXCEPT !.at = "session", !.id = decisions + 1, !.player = game]
  <2>4. c \in Calls /\ c.at = "session" /\ c.id = decisions + 1 /\ c.player = game
    <3>1. decisions + 1 \in Nat
      BY <1>1
    <3>. QED  BY <3>1, <1>2, FreshCall
  <2>5. call' \in [LOOPS -> Calls] /\ call'[t] = c
    BY <1>1, <2>1, <2>4
  <2>6. Asking(t)' /\ call'[t].id = decisions + 1 /\ call'[t].player = game
    BY <2>4, <2>5 DEF Asking
  <2>. QED  BY <1>1, <1>2, <1>3, <2>1, <2>2, <2>5, <2>6
<1>6. CASE LoopAct(t)
  <2>1. call' = [call EXCEPT ![t] = NoCall] /\ loop[t] = "decide" /\ Asking(t)
    BY <1>6 DEF LoopAct, Asking
  <2>2. table'[game].action = call[t].id /\ UNCHANGED <<decisions, reasoning>>
    BY <1>1, <1>2, <1>6 DEF LoopAct, Tables
  <2>3. NoCall \in Calls /\ NoCall.at = "idle"
    BY DEF NoCall, Calls
  <2>4. call' \in [LOOPS -> Calls] /\ ~Asking(t)'
    BY <1>1, <2>1, <2>3 DEF Asking
  <2>. QED  BY <1>1, <1>2, <1>3, <2>1, <2>2, <2>4
<1>7. CASE ~LoopAskAgent(t) /\ ~LoopAct(t)
  <2>1. /\ loop[t] # "decide" /\ UNCHANGED <<decisions, call>>
        /\ reasoning' = reasoning \/ reasoning' = [reasoning EXCEPT ![game] = 0]
    BY <1>7 DEF LoopStep, StartLoop, LoopTop, LoopClear, LoopReset, LoopDeal, LoopShowdown,
       LoopLeaveHand, LoopFinal, api_vars
  <2>2. table'[game].action = table[game].action
    BY <1>2, <1>7 DEF TableMoves
  <2>. QED  BY <1>1, <1>2, <1>3, <1>4, <2>1, <2>2
<1>. QED  BY <1>5, <1>6, <1>7

\* Decisions under way have numbers of their own, later than that of any
\* action on the table.  Before a crowded game the agent that is asked is that
\* of the game on the table, and only the loop of a game asks its agent.
AskInv ==
  /\ \A t \in LOOPS : Asking(t) =>
       /\ loop[t] = "decide" /\ call[t].player \in LOOPS /\ call[t].id <= decisions
       /\ game < crowded => call[t].player = game
       /\ call[t].player < crowded => call[t].player = t
       /\ call[t].player < crowded => table[call[t].player].action < call[t].id
       /\ \A g \in LOOPS : table[g].action # call[t].id
  /\ \A t, u \in LOOPS : Asking(t) /\ Asking(u) /\ call[t].id = call[u].id => t = u
  /\ \A g \in LOOPS : table[g].action <= decisions
  /\ \A e \in explained : e <= decisions

LEMMA AskStarts ==
  ASSUME Typed, SessionInv, AskInv, StartGame, SessionInv'
  PROVE  AskInv'
<1>1. /\ game + 1 \in LOOPS /\ game' = game + 1 /\ loop' = [loop EXCEPT ![game + 1] = "new"]
      /\ UNCHANGED <<table, call, decisions, explained>>
      /\ crowded \in Nat /\ crowded' \in Nat /\ crowded' <= crowded
  BY CrowdsGrow DEF StartGame, api_vars, SessionStep
<1>2. game \in Nat /\ loop \in [LOOPS -> LoopStates] /\ LOOPS \subseteq Nat
  BY LoopsAreNumbers DEF Typed
<1>3. \A t \in LOOPS : Asking(t) => t # game + 1
  BY <1>2 DEF AskInv, SessionInv
<1>4. \A t \in LOOPS : Asking(t) => loop'[t] = "decide"
  BY <1>1, <1>2, <1>3 DEF AskInv
<1>5. \A t \in LOOPS : Asking(t) => ~ game' < crowded'
  BY <1>1, <1>2, <1>3, <1>4 DEF SessionInv
<1>6. \A g \in LOOPS : g < crowded' => g < crowded
  BY <1>1, <1>2
<1>7. \A t \in LOOPS : Asking(t) /\ call[t].player < crowded' => call[t].player < crowded
  BY <1>6 DEF AskInv
<1>. QED  BY <1>1, <1>4, <1>5, <1>7 DEF AskInv, Asking

LEMMA AskLoops ==
  ASSUME Typed, SessionInv, AskInv, NEW t \in LOOPS, LoopStep(t)
  PROVE  AskInv'
<1>1. UNCHANGED <<game, crowded, explained>> /\ Runs(t)
  BY LoopMoves, LoopFrame DEF SessionStep
<1>2. /\ game \in LOOPS /\ LOOPS \subseteq Nat
      /\ \A u \in LOOPS : u # t => call'[u] = call[u] /\ loop'[u] = loop[u]
      /\ \A g \in LOOPS : g # game => table'[g] = table[g]
      /\ game < crowded => t = game
  BY <1>1, CallOfLoop, LoopsAreNumbers, OneLoopRuns
<1>3. /\ decisions \in Nat /\ \A e \in explained : e \in Nat
      /\ \A u \in LOOPS : call[u].id \in Nat
      /\ \A g \in LOOPS : table[g].action \in Nat
  BY DEF Typed, Calls, Tables
<1>4. \A u \in LOOPS : u # t => (Asking(u)' <=> Asking(u))
  BY <1>2 DEF Asking
<1>5. CASE /\ loop'[t] = "decide" /\ ~Asking(t) /\ decisions' = decisions + 1
           /\ call'[t].id = decisions + 1 /\ call'[t].player = game
           /\ UNCHANGED <<table, reasoning>>
  BY <1>1, <1>2, <1>3, <1>4, <1>5 DEF AskInv
<1>6. CASE /\ Asking(t) /\ ~Asking(t)' /\ decisions' = decisions
           /\ table'[game].action = call[t].id
  <2>1. \A u \in LOOPS : Asking(u)' => u # t /\ Asking(u) /\ call[u].id # call[t].id
    BY <1>4, <1>6 DEF AskInv
  <2>2. \A u \in LOOPS : Asking(u)' /\ call[u].player < crowded => call[u].player # game
    BY <1>2, <2>1 DEF AskInv
  <2>3. \A g \in LOOPS : table'[g].action \in {table[g].action, call[t].id}
    BY <1>2, <1>6
  <2>4. \A u \in LOOPS : Asking(u)' =>
           /\ loop'[u] = "decide" /\ call'[u].player \in LOOPS /\ call'[u].id <= decisions'
           /\ game' < crowded' => call'[u].player = game'
           /\ call'[u].player < crowded' => call'[u].player = u
    BY <1>1, <1>2, <1>6, <2>1 DEF AskInv
  <2>5. ASSUME NEW u \in LOOPS, Asking(u)'
        PROVE  /\ call'[u].player < crowded' => table'[call'[u].player].action < call'[u].id
               /\ \A g \in LOOPS : table'[g].action # call'[u].id
    <3>1. call'[u] = call[u] /\ Asking(u) /\ call[u].id # call[t].id
      BY <1>2, <2>1, <2>5
    <3>2. call[u].player < crowded => table'[call[u].player] = table[call[u].player]
      BY <1>2, <2>2, <2>5, <3>1 DEF AskInv
    <3>3. call[u].player < crowded => table'[call[u].player].action < call[u].id
      BY <3>1, <3>2 DEF AskInv
    <3>4. \A g \in LOOPS : table[g].action # call[u].id
      BY <3>1 DEF AskInv
    <3>. QED  BY <1>1, <2>3, <3>1, <3>3, <3>4
  <2>6. \A u, v \in LOOPS : Asking(u)' /\ Asking(v)' /\ call'[u].id = call'[v].id => u = v
    BY <1>2, <2>1 DEF AskInv
  <2>7. \A g \in LOOPS : table'[g].action <= decisions'
    BY <1>6, <2>3 DEF AskInv
  <2>. QED  BY <1>1, <1>6, <2>4, <2>5, <2>6, <2>7 DEF AskInv
<1>7. CASE /\ loop[t] # "decide" /\ UNCHANGED <<decisions, call>>
           /\ table'[game].action = table[game].action
  <2>1. \A g \in LOOPS : table'[g].action = table[g].action
    BY <1>2, <1>7
  <2>2. \A u \in LOOPS : Asking(u)' => u # t /\ Asking(u)
    BY <1>7 DEF AskInv, Asking
  <2>. QED  BY <1>1, <1>2, <1>7, <2>1, <2>2 DEF AskInv
<1>. QED  BY <1>5, <1>6, <1>7, CallOfLoop

LEMMA AskKept ==
  ASSUME Typed, RequestInv, SessionInv, SessionInv', AskInv, [Next]_vars
  PROVE  AskInv'
<1>1. CASE CallsStep
  <2>1. UNCHANGED <<game, table, loop, crowded>>
    BY <1>1 DEF CallsStep, Deciding, session_vars
  <2>2. /\ decisions' = decisions
        /\ \A u \in LOOPS : /\ call'[u].id = call[u].id /\ call'[u].player = call[u].player
                            /\ Asking(u)' <=> Asking(u)
        /\ UNCHANGED <<reasoning, explained>> \/ \E t \in LOOPS : Explains(t)
    BY <1>1, DecidingStep DEF CallsStep
  <2>3. \A e \in explained' : e <= decisions
    BY <2>2 DEF AskInv, Explains
  <2>. QED  BY <2>1, <2>2, <2>3 DEF AskInv
<1>2. CASE BackToSetup \/ ViewerStep \/ UNCHANGED vars
  <2>1. UNCHANGED <<game, table, loop, crowded, decisions, call, explained>>
    BY <1>2 DEF BackToSetup, ViewerStep, PollBegins, ReadField, DrawPage, PollFails, vars,
       session_vars, api_vars
  <2>. QED  BY <2>1 DEF AskInv, Asking
<1>. QED  BY <1>1, <1>2, AskStarts, AskLoops, StepKinds DEF SessionStep

\* Before a crowded game, if the decision behind the action on the table, or
\* the decision under way, has given a reason, that reason or a later one is
\* on display, or none.
ReasonInv ==
  /\ \A g \in LOOPS : g < crowded /\ table[g].action \in explained =>
       reasoning[g] = 0 \/ reasoning[g] >= table[g].action
  /\ \A t \in LOOPS : Asking(t) /\ call[t].player < crowded /\ call[t].id \in explained =>
       reasoning[call[t].player] = 0 \/ reasoning[call[t].player] >= call[t].id

\* The same of an action that the server has read: it may be older than the
\* one on the table, and its decision is over.
ReadInv ==
  poll.at >= 3 =>
    /\ poll.page.action <= decisions
    /\ \A t \in LOOPS : Asking(t) => poll.page.action # call[t].id
    /\ poll.page.game < crowded => poll.page.action <= table[poll.page.game].action
    /\ poll.page.game < crowded /\ poll.page.action \in explained =>
         LET reason == IF poll.at = 3 THEN reasoning[poll.page.game] ELSE poll.page.reason
         IN  reason = 0 \/ reason >= poll.page.action

\* A reason that is written down is that of the decision under way.
LEMMA ReasonWritten ==
  ASSUME Typed, RequestInv, AskInv, ReasonInv, CallsStep
  PROVE  ReasonInv'
<1>1. UNCHANGED <<table, crowded>> /\ LOOPS \subseteq Nat
  BY LoopsAreNumbers DEF CallsStep, Deciding, session_vars
<1>2. /\ \A u \in LOOPS : /\ call'[u].id = call[u].id /\ call'[u].player = call[u].player
                          /\ Asking(u)' <=> Asking(u)
      /\ UNCHANGED <<reasoning, explained>> \/ \E t \in LOOPS : Explains(t)
  BY DecidingStep DEF CallsStep
<1>3. CASE UNCHANGED <<reasoning, explained>>
  BY <1>1, <1>2, <1>3 DEF ReasonInv
<1>4. ASSUME NEW t \in LOOPS, Explains(t)
      PROVE  ReasonInv'
  <2>1. /\ Asking(t) /\ explained' = explained \cup {call[t].id}
        /\ reasoning' = [reasoning EXCEPT ![call[t].player] = call[t].id]
        /\ reasoning \in [LOOPS -> Nat] /\ call[t].player \in LOOPS
    BY <1>4 DEF Explains, Typed, AskInv
  <2>2. /\ \A g \in LOOPS : table[g].action \in Nat /\ table[g].action # call[t].id
        /\ \A u \in LOOPS : call[u].id \in Nat
    BY <2>1 DEF Typed, Calls, Tables, AskInv
  <2>3. \A g \in LOOPS : reasoning'[g] = IF g = call[t].player THEN call[t].id ELSE reasoning[g]
    BY <2>1
  <2>4. ASSUME NEW g \in LOOPS, g < crowded, table[g].action \in explained'
        PROVE  reasoning'[g] = 0 \/ reasoning'[g] >= table[g].action
    <3>1. table[g].action \in explained
      BY <2>1, <2>2, <2>4
    <3>2. CASE g = call[t].player
      BY <2>1, <2>2, <2>3, <2>4, <3>2 DEF AskInv
    <3>3. CASE g # call[t].player
      BY <2>3, <2>4, <3>1, <3>3 DEF ReasonInv
    <3>. QED  BY <3>2, <3>3
  <2>5. ASSUME NEW u \in LOOPS, Asking(u), call[u].player < crowded, call[u].id \in explained'
        PROVE  reasoning'[call[u].player] = 0 \/ reasoning'[call[u].player] >= call[u].id
    <3>1. call[u].player = u
      BY <2>5 DEF AskInv
    <3>2. CASE u = t
      BY <2>1, <2>2, <2>3, <3>2
    <3>3. CASE u # t
      <4>1. call[u].id \in explained
        BY <2>1, <2>5, <3>3 DEF AskInv
      <4>2. call[t].player # u
        BY <1>1, <2>1, <2>5, <3>1, <3>3 DEF AskInv
      <4>. QED  BY <2>3, <2>5, <3>1, <4>1, <4>2 DEF ReasonInv
    <3>. QED  BY <3>2, <3>3
  <2>. QED  BY <1>1, <1>2, <2>4, <2>5 DEF ReasonInv
<1>. QED  BY <1>2, <1>3, <1>4

LEMMA ReasonLoops ==
  ASSUME Typed, SessionInv, AskInv, ReasonInv, NEW t \in LOOPS, LoopStep(t)
  PROVE  ReasonInv'
<1>1. UNCHANGED <<explained, crowded>> /\ Runs(t)
  BY LoopMoves, LoopFrame DEF SessionStep
<1>2. /\ game \in LOOPS /\ LOOPS \subseteq Nat
      /\ \A u \in LOOPS : u # t => call'[u] = call[u]
      /\ \A g \in LOOPS : g # game => reasoning'[g] = reasoning[g] /\ table'[g] = table[g]
      /\ game < crowded => t = game
  BY <1>1, CallOfLoop, LoopsAreNumbers, OneLoopRuns
<1>3. \A u \in LOOPS : u # t => (Asking(u)' <=> Asking(u))
  BY <1>2 DEF Asking
<1>4. decisions \in Nat /\ explained \subseteq Nat
  BY DEF Typed
<1>5. CASE /\ ~Asking(t) /\ call'[t].id = decisions + 1 /\ UNCHANGED <<table, reasoning>>
  <2>1. decisions + 1 \notin explained
    BY <1>4 DEF AskInv
  <2>. QED  BY <1>1, <1>2, <1>3, <1>5, <2>1 DEF ReasonInv
<1>6. CASE /\ Asking(t) /\ ~Asking(t)' /\ reasoning' = reasoning
           /\ table'[game].action = call[t].id
  <2>1. \A u \in LOOPS : Asking(u)' => u # t /\ Asking(u) /\ call'[u] = call[u]
    BY <1>2, <1>3, <1>6
  <2>2. game < crowded => call[t].player = game
    BY <1>6 DEF AskInv
  <2>. QED  BY <1>1, <1>2, <1>6, <2>1, <2>2 DEF ReasonInv
<1>7. CASE /\ call' = call
           /\ table'[game].action = table[game].action
           /\ reasoning'[game] \in {0, reasoning[game]}
  <2>1. \A g \in LOOPS : /\ table'[g].action = table[g].action
                         /\ reasoning'[g] \in {0, reasoning[g]}
    BY <1>2, <1>7
  <2>2. \A u \in LOOPS : (Asking(u)' <=> Asking(u)) /\ (Asking(u) => call[u].player \in LOOPS)
    BY <1>7 DEF Asking, AskInv
  <2>. QED  BY <1>1, <1>7, <2>1, <2>2 DEF ReasonInv
<1>. QED  BY <1>5, <1>6, <1>7, CallOfLoop

LEMMA ReasonKept ==
  ASSUME Typed, RequestInv, SessionInv, AskInv, ReasonInv, [Next]_vars
  PROVE  ReasonInv'
<1>1. CASE StartGame
  <2>1. /\ UNCHANGED <<table, call, explained, reasoning>> /\ LOOPS \subseteq Nat
        /\ crowded \in Nat /\ crowded' \in Nat /\ crowded' <= crowded
    BY <1>1, CrowdsGrow, LoopsAreNumbers DEF StartGame, api_vars, SessionStep
  <2>2. \A g \in LOOPS : g < crowded' => g < crowded
    BY <2>1
  <2>3. \A t \in LOOPS : Asking(t) => call[t].player \in LOOPS
    BY DEF AskInv
  <2>. QED  BY <2>1, <2>2, <2>3 DEF ReasonInv, Asking
<1>2. CASE BackToSetup \/ ViewerStep \/ UNCHANGED vars
  <2>1. UNCHANGED <<table, crowded, call, explained, reasoning>>
    BY <1>2 DEF BackToSetup, ViewerStep, PollBegins, ReadField, DrawPage, PollFails,
       vars, session_vars, api_vars
  <2>. QED  BY <2>1 DEF ReasonInv, Asking
<1>. QED  BY <1>1, <1>2, ReasonWritten, ReasonLoops, StepKinds DEF SessionStep

\* The server reads the action before the reason.
LEMMA ReadViews ==
  ASSUME Typed, PageInv, AskInv, ReasonInv, ReadInv, ViewerStep
  PROVE  ReadInv'
<1>1. UNCHANGED <<table, crowded, call, decisions, explained, reasoning>>
  BY DEF ViewerStep, PollBegins, ReadField, DrawPage, PollFails, session_vars, api_vars
<1>2. poll \in [at : Nat, page : Pages] /\ poll.page \in Pages
  BY DEF Typed
<1>3. Complete = 6 /\ Drawn = 7
  BY DEF Complete, Drawn, Order
<1>4. CASE PollBegins \/ PollFails
  <2>1. poll'.at \in {0, 1}
    BY <1>4 DEF PollBegins, PollFails, NoPoll, Unasked
  <2>. QED  BY <2>1 DEF ReadInv
<1>5. CASE DrawPage
  <2>1. poll.at = 6 /\ poll' = [poll EXCEPT !.at = 7]
    BY <1>3, <1>5 DEF DrawPage
  <2>2. poll'.at = 7 /\ poll'.page = poll.page
    BY <1>2, <2>1
  <2>. QED  BY <1>1, <2>1, <2>2 DEF ReadInv, Asking
<1>6. CASE ReadField
  <2>. DEFINE g == poll.page.game
  <2>1. g \in LOOPS
    BY <1>6, <1>2 DEF ReadField, Order, PageInv
  <2>2. CASE poll.at = 1
    <3>1. poll'.at = 2
      BY <1>6, <2>1, <2>2, ReadSteps
    <3>. QED  BY <3>1 DEF ReadInv
  <2>3. CASE poll.at = 2
    <3>1. poll' = [at |-> 3, page |-> [poll.page EXCEPT !.action = table[g].action]]
      BY <1>6, <2>1, <2>3, ReadSteps
    <3>2. poll'.at = 3 /\ poll'.page.game = g /\ poll'.page.action = table[g].action
      BY <1>2, <3>1 DEF Pages
    <3>3. table[g].action \in Nat /\ LOOPS \subseteq Nat
      BY <2>1, LoopsAreNumbers DEF Typed, Tables
    <3>4. table[g].action <= decisions /\ \A t \in LOOPS : Asking(t) => table[g].action # call[t].id
      BY <2>1 DEF AskInv
    <3>5. g < crowded /\ table[g].action \in explained =>
            reasoning[g] = 0 \/ reasoning[g] >= table[g].action
      BY <2>1 DEF ReasonInv
    <3>. QED  BY <1>1, <3>2, <3>3, <3>4, <3>5 DEF ReadInv, Asking
  <2>4. CASE poll.at = 3
    <3>1. poll' = [at |-> 4, page |-> [poll.page EXCEPT !.reason = reasoning[g]]]
      BY <1>6, <2>1, <2>4, ReadSteps
    <3>2. /\ poll'.at = 4 /\ poll'.page.game = g /\ poll'.page.action = poll.page.action
          /\ poll'.page.reason = reasoning[g]
      BY <1>2, <3>1 DEF Pages
    <3>. QED  BY <1>1, <2>1, <2>4, <3>2 DEF ReadInv, Asking
  <2>5. CASE poll.at \in {4, 5}
    <3>1. /\ poll'.at \in {5, 6} /\ poll'.page.game = g /\ poll'.page.action = poll.page.action
          /\ poll'.page.reason = poll.page.reason
      BY <1>2, <1>6, <2>1, <2>5, ReadSteps DEF Pages
    <3>. QED  BY <1>1, <2>1, <2>5, <3>1 DEF ReadInv, Asking
  <2>. QED  BY <1>6, <2>1, <2>2, <2>3, <2>4, <2>5, ReadSteps
<1>. QED  BY <1>4, <1>5, <1>6 DEF ViewerStep

LEMMA ReadWritten ==
  ASSUME Typed, RequestInv, PageInv, AskInv, ReadInv, CallsStep
  PROVE  ReadInv'
<1>1. UNCHANGED <<table, crowded, poll>> /\ LOOPS \subseteq Nat
  BY LoopsAreNumbers DEF CallsStep, Deciding, session_vars
<1>2. /\ decisions' = decisions
      /\ \A u \in LOOPS : call'[u].id = call[u].id /\ (Asking(u)' <=> Asking(u))
      /\ UNCHANGED <<reasoning, explained>> \/ \E t \in LOOPS : Explains(t)
  BY DecidingStep DEF CallsStep
<1>3. CASE UNCHANGED <<reasoning, explained>>
  BY <1>1, <1>2, <1>3 DEF ReadInv
<1>4. ASSUME NEW t \in LOOPS, Explains(t), poll.at >= 3
      PROVE  ReadInv'
  <2>1. /\ Asking(t) /\ explained' = explained \cup {call[t].id}
        /\ reasoning' = [reasoning EXCEPT ![call[t].player] = call[t].id]
        /\ reasoning \in [LOOPS -> Nat] /\ call[t].player \in LOOPS
    BY <1>4 DEF Explains, Typed, AskInv
  <2>2. poll.page.game \in LOOPS /\ poll.at \in Nat /\ poll.page.action \in Nat
    BY <1>4, PollType DEF PageInv
  <2>3. poll.page.action \in explained' => poll.page.action \in explained
    BY <1>4, <2>1, <2>2 DEF ReadInv
  <2>4. call[t].id \in Nat /\ table[poll.page.game].action \in Nat
    BY <2>2 DEF Typed, Calls, Tables
  <2>5. CASE poll.page.game = call[t].player /\ poll.page.game < crowded
    <3>1. poll.page.action <= table[poll.page.game].action
      BY <1>4, <2>5 DEF ReadInv
    <3>2. table[poll.page.game].action < call[t].id
      BY <2>1, <2>5 DEF AskInv
    <3>3. reasoning'[poll.page.game] >= poll.page.action
      BY <2>1, <2>2, <2>4, <2>5, <3>1, <3>2
    <3>. QED  BY <1>1, <1>2, <1>4, <2>3, <3>3 DEF ReadInv
  <2>6. CASE poll.page.game # call[t].player
    <3>1. reasoning'[poll.page.game] = reasoning[poll.page.game]
      BY <2>1, <2>2, <2>6
    <3>. QED  BY <1>1, <1>2, <1>4, <2>3, <3>1 DEF ReadInv
  <2>7. CASE ~ poll.page.game < crowded
    BY <1>1, <1>2, <1>4, <2>7 DEF ReadInv
  <2>. QED  BY <2>5, <2>6, <2>7
<1>5. CASE ~ poll.at >= 3
  BY <1>1, <1>5 DEF ReadInv
<1>. QED  BY <1>2, <1>3, <1>4, <1>5

LEMMA ReadLoops ==
  ASSUME Typed, SessionInv, PageInv, AskInv, ReadInv, NEW t \in LOOPS, LoopStep(t)
  PROVE  ReadInv'
<1>1. UNCHANGED <<explained, crowded, poll>> /\ Runs(t)
  BY LoopMoves, LoopFrame DEF SessionStep
<1>2. SUFFICES ASSUME poll.at >= 3 PROVE ReadInv'
  BY <1>1 DEF ReadInv
<1>3. /\ game \in LOOPS /\ LOOPS \subseteq Nat
      /\ \A u \in LOOPS : u # t => call'[u] = call[u]
      /\ \A g \in LOOPS : g # game => reasoning'[g] = reasoning[g] /\ table'[g] = table[g]
  BY CallOfLoop, LoopsAreNumbers
<1>4. \A u \in LOOPS : u # t => (Asking(u)' <=> Asking(u))
  BY <1>3 DEF Asking
<1>5. poll.page.game \in LOOPS /\ poll.at \in Nat /\ poll.page.action \in Nat
  BY <1>2, PollType DEF PageInv
<1>6. /\ decisions \in Nat /\ call[t].id \in Nat /\ table[poll.page.game].action \in Nat
  BY <1>5 DEF Typed, Calls, Tables
<1>7. CASE /\ call'[t].id = decisions + 1 /\ decisions' = decisions + 1
           /\ UNCHANGED <<table, reasoning>>
  BY <1>1, <1>2, <1>3, <1>4, <1>5, <1>6, <1>7 DEF ReadInv
<1>8. CASE /\ Asking(t) /\ ~Asking(t)' /\ reasoning' = reasoning /\ decisions' = decisions
           /\ table'[game].action = call[t].id
  <2>1. poll.page.game < crowded => poll.page.action <= table'[poll.page.game].action
    <3>1. CASE poll.page.game = game /\ poll.page.game < crowded
      <4>1. call[t].player = game /\ table[game].action < call[t].id
        BY <1>8, <3>1 DEF AskInv
      <4>2. poll.page.action <= table[poll.page.game].action
        BY <1>2, <3>1 DEF ReadInv
      <4>. QED  BY <1>5, <1>6, <1>8, <3>1, <4>1, <4>2
    <3>2. CASE poll.page.game # game
      BY <1>2, <1>3, <1>5, <3>2 DEF ReadInv
    <3>. QED  BY <3>1, <3>2
  <2>2. \A u \in LOOPS : Asking(u)' => poll.page.action # call'[u].id
    BY <1>2, <1>3, <1>4, <1>8 DEF ReadInv
  <2>. QED  BY <1>1, <1>2, <1>8, <2>1, <2>2 DEF ReadInv
<1>9. CASE /\ UNCHANGED <<decisions, call>>
           /\ table'[game].action = table[game].action
           /\ reasoning'[game] \in {0, reasoning[game]}
  <2>1. /\ table'[poll.page.game].action = table[poll.page.game].action
        /\ reasoning'[poll.page.game] \in {0, reasoning[poll.page.game]}
    BY <1>3, <1>5, <1>9
  <2>. QED  BY <1>1, <1>2, <1>9, <2>1 DEF ReadInv, Asking
<1>. QED  BY <1>7, <1>8, <1>9, CallOfLoop

LEMMA ReadKept ==
  ASSUME Typed, RequestInv, SessionInv, PageInv, AskInv, ReasonInv, ReadInv, [Next]_vars
  PROVE  ReadInv'
<1>1. CASE StartGame \/ BackToSetup \/ UNCHANGED vars
  <2>1. UNCHANGED <<table, call, decisions, explained, reasoning, poll>>
    BY <1>1 DEF StartGame, BackToSetup, vars, session_vars, api_vars
  <2>2. poll.page.game < crowded' => poll.page.game < crowded
    <3>1. CASE StartGame \/ BackToSetup
      BY <3>1, CrowdsGrow, PollType DEF SessionStep
    <3>2. CASE UNCHANGED vars
      BY <3>2 DEF vars, session_vars
    <3>. QED  BY <1>1, <3>1, <3>2
  <2>. QED  BY <2>1, <2>2 DEF ReadInv, Asking
<1>. QED  BY <1>1, ReadViews, ReadWritten, ReadLoops, StepKinds DEF SessionStep

-----------------------------------------------------------------------------
(* Types *)

LEMMA TypedPoll ==
  ASSUME Typed, PageInv, ViewerStep
  PROVE  Typed'
<1>1. UNCHANGED <<session_vars, api_vars>>
  BY DEF ViewerStep, PollBegins, ReadField, DrawPage, PollFails
<1>2. poll \in [at : Nat, page : Pages] /\ poll.page \in Pages /\ shared \in LOOPS \cup {0}
  BY DEF Typed
<1>3. BlankPage \in Pages
  BY DEF BlankPage, Pages
<1>4. CASE PollBegins
  <2>1. [BlankPage EXCEPT !.game = shared] \in Pages
    BY <1>2, <1>3 DEF Pages
  <2>2. poll' \in [at : Nat, page : Pages]
    BY <1>4, <2>1 DEF PollBegins
  <2>. QED  BY <1>1, <2>2 DEF Typed, session_vars, api_vars
<1>5. CASE ReadField
  <2>. DEFINE g == poll.page.game
  <2>1. g \in LOOPS
    BY <1>5, <1>2 DEF ReadField, Order, PageInv
  <2>2. /\ table[g].cards \in Nat /\ table[g].action \in Nat /\ reasoning[g] \in Nat
        /\ table[g].hand \in Nat /\ table[g].results \in Nat
    BY <2>1 DEF Typed, Tables
  <2>3. poll' \in [at : Nat, page : Pages]
    BY <1>2, <1>5, <2>1, <2>2, ReadSteps DEF Pages
  <2>. QED  BY <1>1, <2>3 DEF Typed, session_vars, api_vars
<1>6. CASE DrawPage \/ PollFails
  <2>1. Drawn \in Nat /\ Unasked \in Nat
    BY DEF Drawn, Order, Unasked
  <2>2. poll' \in [at : Nat, page : Pages]
    BY <1>2, <1>3, <1>6, <2>1 DEF DrawPage, PollFails, NoPoll
  <2>. QED  BY <1>1, <2>2 DEF Typed, session_vars, api_vars
<1>. QED  BY <1>4, <1>5, <1>6 DEF ViewerStep

LEMMA TypedSession ==
  ASSUME Typed, SessionInv, SessionStep
  PROVE  Typed'
<1>1. UNCHANGED <<requests, explained, poll>>
  BY LoopFrame
<1>2. CASE StartGame \/ BackToSetup
  <2>1. UNCHANGED <<table, decisions, call, reasoning>>
    BY <1>2 DEF StartGame, BackToSetup, api_vars
  <2>2. game' \in LOOPS \cup {0} /\ loop' \in [LOOPS -> LoopStates] /\ shared' = shared
    BY <1>2 DEF StartGame, BackToSetup, Typed, LoopStates
  <2>3. crowded' \in 2 .. 3
    <3>1. game # 0 \/ screen = "setup"
      BY DEF SessionInv
    <3>. QED  BY <1>2, <3>1, LoopsAreNumbers DEF StartGame, BackToSetup, Typed
  <2>. QED  BY <1>1, <2>1, <2>2, <2>3 DEF Typed
<1>3. ASSUME NEW t \in LOOPS, LoopStep(t)
      PROVE  Typed'
  <2>1. /\ UNCHANGED <<game, crowded>> /\ loop' \in [LOOPS -> LoopStates]
        /\ shared' = shared \/ shared' = game
    <3>1. PICK next \in LoopStates : loop' = [loop EXCEPT ![t] = next]
      BY <1>3, LoopMoves
    <3>2. loop \in [LOOPS -> LoopStates]
      BY DEF Typed
    <3>. QED  BY <1>3, <3>1, <3>2, LoopMoves
  <2>. QED  BY <1>1, <1>3, <2>1, TableStep, CallOfLoop DEF Typed
<1>. QED  BY <1>2, <1>3 DEF SessionStep

LEMMA TypedCalls ==
  ASSUME Typed, RequestInv, AskInv, CallsStep
  PROVE  Typed'
<1>1. UNCHANGED <<session_vars, poll>>
  BY DEF CallsStep, Deciding
<1>2. /\ decisions' = decisions /\ call' \in [LOOPS -> Calls] /\ requests' \subseteq Requests
      /\ UNCHANGED <<reasoning, explained>> \/ \E t \in LOOPS : Explains(t)
  BY DecidingStep DEF CallsStep
<1>3. reasoning' \in [LOOPS -> Nat] /\ explained' \subseteq Nat
  <2>1. \A t \in LOOPS : call[t].id \in Nat
    BY DEF Typed, Calls
  <2>. QED  BY <1>2, <2>1 DEF Explains, Typed
<1>. QED  BY <1>1, <1>2, <1>3 DEF Typed, session_vars

\* The requests are not touched by the loops but for the call they end.
LEMMA RequestKept ==
  ASSUME Typed, SessionInv, RequestInv, [Next]_vars
  PROVE  RequestInv'
<1>1. CASE CallsStep
  BY <1>1, DecidingStep DEF CallsStep
<1>2. ASSUME NEW t \in LOOPS, LoopStep(t)
      PROVE  RequestInv'
  <2>1. requests' = requests /\ call \in [LOOPS -> Calls]
        /\ \A r \in requests : r.loop \in LOOPS
    BY <1>2, LoopFrame DEF SessionStep, Typed, Requests
  <2>2. CASE LoopAskAgent(t)
    <3>1. call[t].at = "idle" /\ \A u \in LOOPS : u # t => call'[u] = call[u]
      BY <1>2, <2>2, CallOfLoop DEF LoopAskAgent, BeginDecision
    <3>2. \A r \in requests : r.loop # t
      BY <3>1 DEF RequestInv
    <3>3. call'[t].answer = "none"
      BY <2>1, <2>2 DEF LoopAskAgent, BeginDecision, NoCall
    <3>. QED  BY <2>1, <3>1, <3>2, <3>3 DEF RequestInv, RequestsDoNotOverlap
  <2>3. CASE LoopAct(t)
    <3>1. call[t].at = "decided" /\ call' = [call EXCEPT ![t] = NoCall]
      BY <2>3 DEF LoopAct
    <3>2. call'[t].at = "idle" /\ \A u \in LOOPS : u # t => call'[u] = call[u]
      BY <2>1, <3>1 DEF NoCall
    <3>3. \A r \in requests : r.loop # t
      BY <3>1 DEF RequestInv
    <3>. QED  BY <2>1, <3>2, <3>3 DEF RequestInv, RequestsDoNotOverlap
  <2>4. CASE ~LoopAskAgent(t) /\ ~LoopAct(t)
    <3>1. call' = call
      BY <1>2, <2>4 DEF LoopStep, StartLoop, LoopTop, LoopClear, LoopReset, LoopDeal, LoopShowdown,
         LoopLeaveHand, LoopFinal, api_vars
    <3>. QED  BY <2>1, <3>1 DEF RequestInv, RequestsDoNotOverlap
  <2>. QED  BY <2>2, <2>3, <2>4
<1>3. CASE StartGame \/ BackToSetup \/ ViewerStep \/ UNCHANGED vars
  <2>1. UNCHANGED <<call, requests>>
    BY <1>3 DEF StartGame, BackToSetup, ViewerStep, PollBegins, ReadField, DrawPage, PollFails,
       vars, api_vars
  <2>. QED  BY <2>1 DEF RequestInv, RequestsDoNotOverlap
<1>. QED  BY <1>1, <1>2, <1>3, StepKinds DEF SessionStep

-----------------------------------------------------------------------------
(* The inductive invariant and what follows from it *)

SpectatorInv ==
  /\ Typed /\ RequestInv /\ SessionInv /\ TableInv
  /\ PageInv /\ AskInv /\ ReasonInv /\ ReadInv

LEMMA SpectatorInit == Init => SpectatorInv
<1>. SUFFICES ASSUME Init PROVE SpectatorInv
  OBVIOUS
<1>1. /\ decisions = 0 /\ call = [t \in LOOPS |-> NoCall] /\ requests = {}
      /\ reasoning = [g \in LOOPS |-> 0] /\ explained = {}
      /\ game = 0 /\ table = [g \in LOOPS |-> NewTable] /\ loop = [t \in LOOPS |-> "none"]
      /\ screen = "setup" /\ overlay = FALSE /\ serving = FALSE /\ poll = NoPoll
      /\ shared = 0 /\ crowded = 3
  BY DEF Init, ApiInit
<1>2. NoCall \in Calls /\ NoCall.at = "idle" /\ NewTable \in Tables /\ BlankPage \in Pages
  BY DEF NoCall, Calls, NewTable, Tables, BlankPage, Pages
<1>3. NoPoll \in [at : Nat, page : Pages] /\ NoPoll.at = 0 /\ NoPoll.page.game = 0
  BY <1>2 DEF NoPoll, Unasked, BlankPage
<1>4. Typed
  BY <1>1, <1>2, <1>3 DEF Typed, LoopStates
<1>5. \A t \in LOOPS : call[t].at = "idle" /\ ~Asking(t) /\ loop[t] = "none" /\ table[t] = NewTable
  BY <1>1, <1>2 DEF Asking
<1>6. NewTable.cards = 0 /\ NewTable.hand = 0 /\ NewTable.results = 0 /\ NewTable.action = 0
  BY DEF NewTable
<1>7. RequestInv /\ SessionInv /\ TableInv
  BY <1>1, <1>5, <1>6, LoopsAreNumbers DEF RequestInv, RequestsDoNotOverlap, SessionInv, TableInv
<1>8. PageInv /\ ReadInv
  BY <1>1, <1>3 DEF PageInv, ReadInv
<1>9. AskInv /\ ReasonInv
  BY <1>1, <1>5, <1>6 DEF AskInv, ReasonInv
<1>. QED  BY <1>4, <1>7, <1>8, <1>9 DEF SpectatorInv

LEMMA SpectatorStep == SpectatorInv /\ [Next]_vars => SpectatorInv'
<1>. SUFFICES ASSUME SpectatorInv, [Next]_vars PROVE SpectatorInv'
  OBVIOUS
<1>. USE DEF SpectatorInv
<1>1. Typed'
  <2>1. CASE UNCHANGED vars
    BY <2>1 DEF vars, session_vars, api_vars, Typed
  <2>. QED  BY <2>1, StepKinds, TypedPoll, TypedSession, TypedCalls
<1>2. RequestInv'
  BY RequestKept
<1>3. SessionInv'
  BY SessionKept
<1>4. TableInv'
  BY TableKept
<1>5. PageInv'
  BY PageKept
<1>6. AskInv'
  BY <1>3, AskKept
<1>7. ReasonInv'
  BY ReasonKept
<1>8. ReadInv'
  BY ReadKept
<1>. QED  BY <1>1, <1>2, <1>3, <1>4, <1>5, <1>6, <1>7, <1>8

LEMMA SpectatorInvariant == Spec => []SpectatorInv
BY SpectatorInit, SpectatorStep, PTL DEF Spec

\* make_decision: however late an agent answers and whenever the loop gives
\* up, no loop ever has two requests to the agent server under way.
THEOREM OneRequestPerLoop == Spec => []RequestsDoNotOverlap
<1>1. SpectatorInv => RequestsDoNotOverlap
  BY DEF SpectatorInv, RequestInv
<1>. QED  BY <1>1, SpectatorInvariant, PTL

\* start_game and the final results: two loop threads are alive only after a
\* third game was started, or one while another was on the table, however
\* the session is clicked through.
THEOREM OneLoopUntilCrowded == Spec => []OneLoopUnlessCrowded
<1>1. SpectatorInv => OneLoopUnlessCrowded
  <2>1. SUFFICES ASSUME SpectatorInv, NEW t \in LOOPS, NEW u \in LOOPS, t # u, Runs(t), Runs(u)
                 PROVE  game >= crowded
    BY DEF OneLoopUnlessCrowded
  <2>2. ~ game < crowded
    BY <2>1, OneLoopRuns DEF SpectatorInv
  <2>3. game \in Nat /\ crowded \in Nat
    BY <2>1, LoopsAreNumbers DEF SpectatorInv, Typed
  <2>. QED  BY <2>2, <2>3
<1>. QED  BY <1>1, SpectatorInvariant, PTL

\* _build_viewer_state reads the table without a lock, and yet a page of a
\* game with one loop never shows the cards of a later hand than it names, nor
\* results that are more than one hand old.
THEOREM PagesReadForward == Spec => []PageReadsForward
<1>1. SpectatorInv => PageReadsForward
  <2>1. Drawn = 7
    BY DEF Drawn, Order
  <2>. QED  BY <2>1 DEF SpectatorInv, PageInv, PageReadsForward
<1>. QED  BY <1>1, SpectatorInvariant, PTL

\* The reason beside the action of an agent is never that of an earlier
\* decision, if the decision for that action gave one.
THEOREM AgentsAreExplained == Spec => []AgentIsExplained
<1>1. SpectatorInv => AgentIsExplained
  <2>1. Drawn = 7
    BY DEF Drawn, Order
  <2>. QED  BY <2>1 DEF SpectatorInv, ReadInv, AgentIsExplained
<1>. QED  BY <1>1, SpectatorInvariant, PTL
=============================================================================
