----------------------------- MODULE ApiPlayer -----------------------------
(***************************************************************************)
(* LLMApiPlayer.make_decision (poker/player_models.py): a game loop asks   *)
(* an agent over HTTP.  The request runs in a thread of its own while the  *)
(* loop polls it; after WAIT_LIMIT the loop folds, but the executor's      *)
(* with-block holds it until the request is over, at REQUEST_TIMEOUT at    *)
(* the latest.                                                             *)
(*                                                                         *)
(* Time passes in ticks.  Decisions are numbered; what the agent gave as   *)
(* its reason is known by the number of the decision it belongs to.  The   *)
(* agent server is external: it may answer anything or nothing.            *)
(***************************************************************************)
EXTENDS Integers, FiniteSets

CONSTANTS
  LOOPS,            \* the threads that ask, one for each game started
  WAIT_LIMIT,       \* 40 seconds
  REQUEST_TIMEOUT,  \* 44 seconds
  MAX_DECISIONS     \* bound of the model

ASSUME ApiAssumption ==
  /\ IsFiniteSet(LOOPS)
  /\ {WAIT_LIMIT, REQUEST_TIMEOUT, MAX_DECISIONS} \subseteq Nat
  /\ 0 < WAIT_LIMIT /\ WAIT_LIMIT < REQUEST_TIMEOUT

VARIABLES
  decisions,   \* decisions begun so far
  call,        \* make_decision of every loop
  requests,    \* the request threads that are alive
  reasoning,   \* last_decision_reasoning of the agent of every game, 0 if empty
  explained    \* history: decisions that wrote down a reason of their own

api_vars == <<decisions, call, requests, reasoning, explained>>

\* What may come back: an action; one whose amount is no number; text without
\* an action; a status other than 200; JSON of another shape, or an error.
Answers == {"action", "untyped", "unparsed", "refused", "malformed"}

NoCall == [at |-> "idle", id |-> 0, player |-> 0, answer |-> "none"]

ApiTypeOK ==
  /\ decisions \in 0 .. MAX_DECISIONS
  /\ call \in [LOOPS -> [at : {"idle", "session", "poll", "leave", "decided"},
                         id : 0 .. MAX_DECISIONS, player : LOOPS \cup {0},
                         answer : Answers \cup {"none"}]]
  /\ requests \subseteq [id : 1 .. MAX_DECISIONS, loop : LOOPS, elapsed : 0 .. REQUEST_TIMEOUT]
  /\ reasoning \in [LOOPS -> 0 .. MAX_DECISIONS]
  /\ explained \subseteq 1 .. MAX_DECISIONS

ApiInit ==
  /\ decisions = 0
  /\ call = [t \in LOOPS |-> NoCall]
  /\ requests = {}
  /\ reasoning = [g \in LOOPS |-> 0]
  /\ explained = {}

\* The prompt is logged and the decision begins.
BeginDecision(t, player) ==
  /\ call[t].at = "idle" /\ decisions < MAX_DECISIONS
  /\ decisions' = decisions + 1
  /\ call' = [call EXCEPT ![t] = [NoCall EXCEPT !.at = "session", !.id = decisions + 1,
                                                !.player = player]]
  /\ UNCHANGED <<requests, reasoning, explained>>

\* Whatever comes of the request for a session, the run request is sent.
CreateSession(t) ==
  /\ call[t].at = "session"
  /\ call' = [call EXCEPT ![t].at = "poll"]
  /\ requests' = requests \cup {[id |-> call[t].id, loop |-> t, elapsed |-> 0]}
  /\ UNCHANGED <<decisions, reasoning, explained>>

\* The request that a loop waits for has an answer, or ends without one.
EndRequest(r, answer) ==
  /\ requests' = requests \ {r}
  /\ call' = IF call[r.loop].id = r.id /\ call[r.loop].at = "poll"
             THEN [call EXCEPT ![r.loop].answer = answer]
             ELSE call
  /\ UNCHANGED <<decisions, reasoning, explained>>

Answer(r, answer) == r \in requests /\ EndRequest(r, answer)

\* Mutant: the request waits for the server as long as it takes.
RequestTimesOut_Never(r) == FALSE /\ EndRequest(r, "malformed")

RequestTimesOut(r) ==
  /\ r \in requests /\ r.elapsed = REQUEST_TIMEOUT
  /\ EndRequest(r, "malformed")

\* An answer is there to be polled.
Answered(t) == call[t].at = "poll" /\ call[t].answer # "none"

GiveUpIsDue(t) ==
  /\ call[t].at = "poll" /\ call[t].answer = "none"
  /\ \E r \in requests : r.id = call[t].id /\ r.elapsed >= WAIT_LIMIT

\* The loop polls every 0.2 seconds, so it does what is due before a tick.
Tick ==
  /\ requests # {}
  /\ \A t \in LOOPS : ~Answered(t) /\ ~GiveUpIsDue(t)
  /\ \A r \in requests : r.elapsed < REQUEST_TIMEOUT
  /\ requests' = {[r EXCEPT !.elapsed = @ + 1] : r \in requests}
  /\ UNCHANGED <<decisions, call, reasoning, explained>>

\* Which action the loop is given plays no part here.
Decided(t, explains) ==
  /\ call' = [call EXCEPT ![t] = [@ EXCEPT !.at = "decided", !.answer = "none"]]
  /\ reasoning' = IF explains THEN [reasoning EXCEPT ![call[t].player] = call[t].id] ELSE reasoning
  /\ explained' = IF explains THEN explained \cup {call[t].id} ELSE explained

\* What make_decision and _parse_llm_response make of the answer: the action,
\* a random one for an amount that is no number, a fold for mere text.  After
\* a refusal (a fold) or an error (a random action) the reason of an earlier
\* decision stays in place.
PollAnswer(t) ==
  /\ Answered(t)
  /\ Decided(t, call[t].answer \in {"action", "untyped", "unparsed"})
  /\ UNCHANGED <<decisions, requests>>

GiveUp(t) ==
  /\ GiveUpIsDue(t)
  /\ call' = [call EXCEPT ![t] = [@ EXCEPT !.at = "leave"]]
  /\ reasoning' = [reasoning EXCEPT ![call[t].player] = call[t].id]
  /\ explained' = explained \cup {call[t].id}
  /\ UNCHANGED <<decisions, requests>>

\* Mutant: the loop goes on while the request is still under way.
LeaveExecutor_AtOnce(t) ==
  /\ call[t].at = "leave"
  /\ call' = [call EXCEPT ![t].at = "decided"]
  /\ UNCHANGED <<decisions, requests, reasoning, explained>>

\* The end of the with-block waits for the request thread.
LeaveExecutor(t) ==
  /\ call[t].at = "leave"
  /\ \A r \in requests : r.id # call[t].id
  /\ call' = [call EXCEPT ![t].at = "decided"]
  /\ UNCHANGED <<decisions, requests, reasoning, explained>>

\* Steps of the loop inside make_decision, and of the world outside.
DecideStep(t) == CreateSession(t) \/ PollAnswer(t) \/ GiveUp(t) \/ LeaveExecutor(t)
TimeoutStep == \E r \in requests : RequestTimesOut(r)
AgentStep == \E r \in requests, a \in Answers : Answer(r, a)

-----------------------------------------------------------------------------

\* A loop has one request under way at most, also after it has folded for an
\* agent that did not answer in time.
RequestsDoNotOverlap == \A q, r \in requests : q.loop = r.loop => q = r
=============================================================================
