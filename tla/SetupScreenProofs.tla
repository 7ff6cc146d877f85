------------------------- MODULE SetupScreenProofs -------------------------
(***************************************************************************)
(* Who a game is started with, for every number of agents, rows, refreshes,*)
(* type changes and connection tests, and every order in which their       *)
(* threads and the answers come.                                           *)
(*                                                                         *)
(* A thread that no new list has overtaken found agents of the current     *)
(* list, and since an overtaken one marks the others at its row, what it   *)
(* reads back from the options is of that list too (CleanInv).  So a row   *)
(* that was last written by such a thread is of the list, and stays so     *)
(* until the next refresh has its answer, which makes the row pending      *)
(* again (RowInv).                                                         *)
(***************************************************************************)
EXTENDS SetupScreen, TLAPS

USE SetupAssumption

Stages == {"idle", "begun", "show", "hide", "check"} \cup Unlocked

\* The part of the state that the form and its threads use.
FormTyped ==
  /\ dynamic_agents \in SUBSET AGENTS
  /\ refresh \in [1 .. MAX_REFRESHES -> {"ready", "fetched", "rows", "done"}]
  /\ total_players \in 2 .. CPUS + 1
  /\ type \in [Rows -> {"random", "llm_api"}]
  /\ dropdown \in [Rows -> [options : SUBSET (AGENTS \cup {NotFound}),
                            value : AGENTS \cup {NotFound, NoChoice}]]
  /\ update \in [Updaters -> [stage : Stages, row : 1 .. CPUS + 1, found : SUBSET AGENTS,
                              overtaken : BOOLEAN, grown : BOOLEAN]]
  /\ disturbed \in SUBSET Rows

\* A handler is at a row of the form, a refresh at its rows exactly while it
\* goes through them.
ThreadInv ==
  /\ \A h \in Handlers : update[h].row \in Rows /\ update[h].stage # "check"
  /\ \A r \in 1 .. MAX_REFRESHES :
       /\ update[r].stage \in {"idle", "check"} \cup Unlocked
       /\ refresh[r] = "rows" <=> update[r].stage # "idle"
       /\ update[r].stage \in Unlocked => update[r].row \in Rows

OptionsListed(d) ==
  IF dynamic_agents = {} THEN d.options \subseteq {NotFound} ELSE d.options \subseteq dynamic_agents

\* What a thread that was not overtaken found, and what it wrote.
CleanInv ==
  \A u \in Updaters : ~update[u].overtaken =>
    /\ update[u].stage \in {"found", "options"} =>
         /\ update[u].found \subseteq dynamic_agents
         /\ update[u].found = {} <=> dynamic_agents = {}
    /\ update[u].stage = "options" => OptionsListed(dropdown[update[u].row])

\* A dropdown offers agents of the list and has one of them as its value, or
\* says that there is none.
InList(d) ==
  /\ OptionsListed(d)
  /\ IF dynamic_agents = {} THEN d.value = NotFound ELSE d.value \in dynamic_agents

\* A row that nothing disturbed and nobody is about to write.
RowInv ==
  \A i \in Rows : type[i] = "llm_api" /\ i \notin disturbed /\ ~Pending(i) => InList(dropdown[i])

FormInv == ThreadInv /\ CleanInv /\ RowInv

\* _parse_agents_response names agents of the server only.
LEMMA FetchedType == Fetched \subseteq SUBSET AGENTS
<1>1. ASSUME NEW r \in Responses PROVE Parsed(r) \in SUBSET AGENTS
  <2>1. r.good \in SUBSET AGENTS /\ r.odd \in SUBSET AGENTS
    BY DEF Responses
  <2>2. r.form \in {"list", "dict", "other"}
    BY DEF Responses
  <2>3. CASE r.form = "list"
    BY <2>1, <2>3 DEF Parsed
  <2>4. CASE r.form = "dict"
    BY <2>1, <2>4 DEF Parsed
  <2>5. CASE r.form = "other"
    BY <2>5 DEF Parsed
  <2>. QED  BY <2>2, <2>3, <2>4, <2>5
<1>. QED  BY <1>1 DEF Fetched

\* The threads of the refreshes and of the handlers are different ones.
LEMMA Threads ==
  /\ \A r \in 1 .. MAX_REFRESHES : r \in Updaters /\ r \notin Handlers
  /\ Handlers \subseteq Updaters
  /\ \A u \in Updaters : u \in Handlers \/ u \in 1 .. MAX_REFRESHES
BY DEF Updaters, Handlers

\* The agents that a thread is offered.
LEMMA OfferedListed == Offered \subseteq dynamic_agents /\ (Offered = {} <=> dynamic_agents = {})
BY DEF Offered

\* A step that changes nothing of the threads but which of them were grown
\* over by a result, and nothing of the form.
LEMMA FormRests ==
  ASSUME FormTyped, FormInv,
         UNCHANGED <<dynamic_agents, refresh, type, dropdown, disturbed>>,
         total_players' \in 2 .. CPUS + 1,
         update' \in [Updaters -> [stage : Stages, row : 1 .. CPUS + 1, found : SUBSET AGENTS,
                                   overtaken : BOOLEAN, grown : BOOLEAN]],
         \A u \in Updaters : /\ update'[u].stage = update[u].stage
                             /\ update'[u].row = update[u].row
                             /\ update'[u].found = update[u].found
                             /\ update'[u].overtaken = update[u].overtaken
  PROVE  FormTyped' /\ FormInv'
<1>1. FormTyped'
  BY DEF FormTyped
<1>2. ThreadInv'
  BY Threads DEF FormInv, ThreadInv
<1>3. CleanInv'
  BY DEF FormInv, CleanInv, OptionsListed
<1>4. \A i \in Rows : Pending(i)' <=> Pending(i)
  BY Threads DEF Pending, FormTyped
<1>5. RowInv'
  BY <1>4 DEF FormInv, RowInv, InList, OptionsListed
<1>. QED  BY <1>1, <1>2, <1>3, <1>5 DEF FormInv

-----------------------------------------------------------------------------
(* The form *)

\* A type is changed: whatever the row holds, its handler will look at it.
LEMMA ChangeTypeStep ==
  ASSUME FormTyped, FormInv, NEW i \in Rows, NEW t \in {"random", "llm_api"}, ChangeType(i, t)
  PROVE  FormTyped' /\ FormInv'
<1>1. /\ type' = [type EXCEPT ![i] = t]
      /\ disturbed' = disturbed \ {i}
      /\ UNCHANGED <<dynamic_agents, refresh, total_players, dropdown>>
  BY DEF ChangeType, agent_vars
<1>2. PICK h \in Handlers : /\ update[h] = NoUpdate
                            /\ update' = [update EXCEPT ![h] = [@ EXCEPT !.stage = "begun", !.row = i]]
  BY DEF ChangeType
<1>3. /\ h \in Updaters
      /\ update'[h].stage = "begun" /\ update'[h].row = i
      /\ \A u \in Updaters : u # h => update'[u] = update[u]
      /\ i \in 1 .. CPUS + 1
  BY <1>2, Threads DEF FormTyped, Rows
<1>4. FormTyped'
  <2>1. update'[h] \in [stage : Stages, row : 1 .. CPUS + 1, found : SUBSET AGENTS,
                        overtaken : BOOLEAN, grown : BOOLEAN]
    BY <1>2, <1>3 DEF FormTyped, Stages
  <2>2. update' \in [Updaters -> [stage : Stages, row : 1 .. CPUS + 1, found : SUBSET AGENTS,
                                  overtaken : BOOLEAN, grown : BOOLEAN]]
    BY <1>2, <1>3, <2>1 DEF FormTyped
  <2>. QED  BY <1>1, <2>2 DEF FormTyped
<1>5. ThreadInv'
  BY <1>1, <1>3, Threads DEF FormInv, ThreadInv
<1>6. CleanInv'
  BY <1>1, <1>3 DEF FormInv, CleanInv, OptionsListed
<1>7. Pending(i)'
  BY <1>3 DEF Pending
<1>8. ASSUME NEW j \in Rows, j # i, Pending(j) PROVE Pending(j)'
  <2>1. update[h].stage = "idle" /\ h \notin 1 .. MAX_REFRESHES
    BY <1>2, Threads DEF NoUpdate
  <2>2. CASE \E g \in Handlers : /\ update[g].row = j
                                 /\ update[g].stage \in {"begun", "show"} \cup Unlocked
    <3>1. PICK g \in Handlers : /\ update[g].row = j
                                /\ update[g].stage \in {"begun", "show"} \cup Unlocked
      BY <2>2
    <3>2. g # h
      BY <2>1, <3>1 DEF Unlocked
    <3>. QED  BY <1>3, <3>1, <3>2, Threads DEF Pending
  <2>3. CASE \E r \in DOMAIN refresh : \/ refresh[r] = "fetched"
                                       \/ refresh[r] = "rows" /\ update[r].row <= j
    <3>1. \A r \in DOMAIN refresh : update'[r] = update[r] /\ r \in DOMAIN refresh'
      BY <1>1, <1>3, <2>1, Threads DEF FormTyped
    <3>. QED  BY <1>1, <2>3, <3>1 DEF Pending
  <2>. QED  BY <1>8, <2>2, <2>3 DEF Pending
<1>9. ASSUME NEW j \in Rows, type'[j] = "llm_api", j \notin disturbed', ~Pending(j)'
      PROVE  InList(dropdown[j])
  <2>1. j # i
    BY <1>7, <1>9
  <2>. QED  BY <2>1, <1>1, <1>8, <1>9 DEF FormInv, RowInv, FormTyped
<1>10. RowInv'
  BY <1>1, <1>9 DEF RowInv, InList, OptionsListed
<1>. QED  BY <1>4, <1>5, <1>6, <1>10 DEF FormInv

\* A choice is one of the options, or the row is marked.
LEMMA ChooseAgentStep ==
  ASSUME FormTyped, FormInv, NEW i \in Rows, NEW a \in AGENTS, ChooseAgent(i, a)
  PROVE  FormTyped' /\ FormInv'
<1>1. /\ dropdown' = [dropdown EXCEPT ![i].value = a]
      /\ disturbed' = IF a \in dropdown[i].options THEN disturbed ELSE disturbed \cup {i}
      /\ UNCHANGED <<dynamic_agents, refresh, total_players, type, update>>
  BY DEF ChooseAgent, agent_vars
<1>2. /\ \A j \in Rows : j # i => dropdown'[j] = dropdown[j]
      /\ dropdown'[i].options = dropdown[i].options /\ dropdown'[i].value = a
  BY <1>1 DEF FormTyped
<1>3. FormTyped'
  BY <1>1 DEF FormTyped
<1>4. ThreadInv'
  BY <1>1 DEF FormInv, ThreadInv
<1>5. CleanInv'
  <2>1. \A u \in Updaters : update[u].stage = "options" => update[u].row \in Rows
    BY Threads DEF FormInv, ThreadInv, Unlocked
  <2>2. \A j \in Rows : dropdown'[j].options = dropdown[j].options
    BY <1>2
  <2>. QED  BY <1>1, <2>1, <2>2 DEF FormInv, CleanInv, OptionsListed
<1>6. ASSUME NEW j \in Rows, type[j] = "llm_api", j \notin disturbed', ~Pending(j)
      PROVE  InList(dropdown'[j])
  <2>1. InList(dropdown[j])
    BY <1>1, <1>6 DEF FormInv, RowInv
  <2>2. NotFound \notin AGENTS
    OBVIOUS
  <2>. QED  BY <1>1, <1>2, <1>6, <2>1, <2>2 DEF InList, OptionsListed
<1>7. RowInv'
  BY <1>1, <1>6 DEF RowInv, InList, OptionsListed, Pending
<1>. QED  BY <1>3, <1>4, <1>5, <1>7 DEF FormInv

-----------------------------------------------------------------------------
(* _update_agent_options *)

\* A thread reads what it will write.
LEMMA ReadAgentsStep ==
  ASSUME FormTyped, FormInv, NEW u \in Updaters, ReadAgents(u)
  PROVE  FormTyped' /\ FormInv'
<1>1. /\ update[u].stage = "reading"
      /\ update' = [update EXCEPT ![u] = [@ EXCEPT !.stage = "found", !.found = Offered]]
      /\ UNCHANGED <<dynamic_agents, refresh, total_players, type, dropdown, disturbed>>
  BY DEF ReadAgents, agent_vars
<1>2. /\ update'[u].stage = "found" /\ update'[u].found = Offered
      /\ update'[u].row = update[u].row
      /\ \A w \in Updaters : w # u => update'[w] = update[w]
  BY <1>1 DEF FormTyped
<1>3. FormTyped'
  BY <1>1, OfferedListed DEF FormTyped, Stages, Unlocked
<1>4. ThreadInv'
  BY <1>1, <1>2, Threads DEF FormInv, ThreadInv, Unlocked
<1>5. CleanInv'
  BY <1>1, <1>2, OfferedListed DEF FormInv, CleanInv, OptionsListed
<1>6. \A i \in Rows : Pending(i) => Pending(i)'
  BY <1>1, <1>2, Threads DEF Pending, FormTyped, Unlocked
<1>7. RowInv'
  BY <1>1, <1>6 DEF FormInv, RowInv, InList, OptionsListed
<1>. QED  BY <1>3, <1>4, <1>5, <1>7 DEF FormInv

\* The two fields of a dropdown are written one at a time.
LEMMA DropdownFields ==
  ASSUME NEW S, NEW T, NEW d \in [options : S, value : T]
  PROVE  /\ \A o \in S : [d EXCEPT !.options = o] \in [options : S, value : T]
         /\ \A v \in T : [d EXCEPT !.value = v] \in [options : S, value : T]
OBVIOUS

\* What a thread is about to write.
Awaited(u, j) ==
  \/ u \in Handlers /\ update[u].row = j /\ update[u].stage \in {"begun", "show"} \cup Unlocked
  \/ u \in 1 .. MAX_REFRESHES /\ refresh[u] = "fetched"
  \/ u \in 1 .. MAX_REFRESHES /\ refresh[u] = "rows" /\ update[u].row <= j

LEMMA PendingIsAwaited ==
  ASSUME FormTyped, NEW j
  PROVE  Pending(j) <=> \E u \in Updaters : Awaited(u, j)
BY Threads DEF FormTyped, Pending, Awaited

\* The type of the threads, which the steps below establish again.
ThreadType == [stage : Stages, row : 1 .. CPUS + 1, found : SUBSET AGENTS,
               overtaken : BOOLEAN, grown : BOOLEAN]

\* A row that somebody waits for stays so while that thread does not move.
LEMMA AwaitedElsewhere ==
  ASSUME FormTyped, FormTyped', NEW u \in Updaters, NEW j \in Rows, Pending(j), ~Awaited(u, j),
         \A w \in Updaters : w # u => update'[w] = update[w],
         \A r \in 1 .. MAX_REFRESHES : r # u => refresh'[r] = refresh[r]
  PROVE  Pending(j)'
<1>1. PICK w \in Updaters : Awaited(w, j)
  BY PendingIsAwaited
<1>2. w # u
  BY <1>1
<1>3. CASE w \in Handlers
  BY <1>1, <1>2, <1>3, Threads DEF Awaited, Pending, FormTyped
<1>4. CASE w \in 1 .. MAX_REFRESHES
  BY <1>1, <1>2, <1>4, Threads DEF Awaited, Pending, FormTyped
<1>. QED  BY <1>3, <1>4, Threads

\* An exception leaves the rows that the thread would have written marked.
LEMMA ReadRaisesStep ==
  ASSUME FormTyped, FormInv, NEW u \in Updaters, ReadRaises(u)
  PROVE  FormTyped' /\ FormInv'
<1>1. /\ update[u].stage = "reading"
      /\ update' = [update EXCEPT ![u] = NoUpdate]
      /\ UNCHANGED <<dynamic_agents, total_players, type, dropdown>>
  BY DEF ReadRaises
<1>2. /\ update'[u] = NoUpdate
      /\ \A w \in Updaters : w # u => update'[w] = update[w]
  BY <1>1 DEF FormTyped
<1>3. NoUpdate \in ThreadType
  BY DEF NoUpdate, ThreadType, Stages
<1>4. /\ u \in Handlers => /\ disturbed' = disturbed \cup {update[u].row}
                           /\ UNCHANGED refresh
      /\ u \notin Handlers => /\ disturbed' = disturbed \cup (update[u].row .. CPUS)
                              /\ refresh' = [refresh EXCEPT ![u] = "done"]
  BY DEF ReadRaises
<1>5. update[u].row \in Rows
  BY <1>1, Threads DEF FormInv, ThreadInv, Unlocked
<1>6. FormTyped'
  <2>1. update' \in [Updaters -> ThreadType]
    BY <1>1, <1>3 DEF FormTyped, ThreadType
  <2>2. disturbed' \in SUBSET Rows
    <3>1. ASSUME NEW n \in Rows PROVE n .. CPUS \subseteq Rows
      BY DEF Rows
    <3>2. disturbed \subseteq Rows
      BY DEF FormTyped
    <3>. QED  BY <1>4, <1>5, <3>1, <3>2
  <2>3. refresh' \in [1 .. MAX_REFRESHES -> {"ready", "fetched", "rows", "done"}]
    BY <1>4, Threads DEF FormTyped
  <2>. QED  BY <1>1, <2>1, <2>2, <2>3 DEF FormTyped, ThreadType
<1>7. ThreadInv'
  BY <1>1, <1>2, <1>4, Threads DEF FormInv, ThreadInv, NoUpdate, Unlocked, FormTyped, Rows
<1>8. CleanInv'
  BY <1>1, <1>2 DEF FormInv, CleanInv, OptionsListed, NoUpdate
<1>9. ASSUME NEW j \in Rows, Awaited(u, j) PROVE j \in disturbed'
  BY <1>1, <1>4, <1>9, <1>5, Threads DEF Awaited, FormInv, ThreadInv, Unlocked, Rows
<1>10. ASSUME NEW j \in Rows, type[j] = "llm_api", j \notin disturbed', ~Pending(j)'
       PROVE  InList(dropdown[j])
  <2>1. \A r \in 1 .. MAX_REFRESHES : r # u => refresh'[r] = refresh[r]
    BY <1>4 DEF FormTyped
  <2>2. ~Pending(j)
    BY <1>2, <1>6, <1>9, <1>10, <2>1, AwaitedElsewhere
  <2>. QED  BY <1>4, <1>10, <2>2 DEF FormInv, RowInv
<1>11. RowInv'
  BY <1>1, <1>10 DEF RowInv, InList, OptionsListed
<1>. QED  BY <1>6, <1>7, <1>8, <1>11 DEF FormInv

\* The options are written; an overtaken thread marks the others at its row.
LEMMA WriteOptionsStep ==
  ASSUME FormTyped, FormInv, NEW u \in Updaters, WriteOptions(u)
  PROVE  FormTyped' /\ FormInv'
<1>. DEFINE row == update[u].row
            options == IF update[u].found = {} THEN {NotFound} ELSE update[u].found
            Marked(w) == update[u].overtaken /\ update[w].row = row /\ update[w].stage \in Unlocked
<1>1. /\ update[u].stage = "found"
      /\ dropdown' = [dropdown EXCEPT ![row].options = options]
      /\ update' = [w \in Updaters |->
                      IF w = u THEN [update[u] EXCEPT !.stage = "options"]
                      ELSE IF Marked(w) THEN [update[w] EXCEPT !.overtaken = TRUE] ELSE update[w]]
      /\ UNCHANGED <<dynamic_agents, refresh, total_players, type, disturbed>>
  BY DEF WriteOptions, agent_vars
<1>2. row \in Rows
  BY <1>1, Threads DEF FormInv, ThreadInv, Unlocked
<1>3. /\ \A j \in Rows : j # row => dropdown'[j] = dropdown[j]
      /\ dropdown'[row].options = options
  BY <1>1, <1>2 DEF FormTyped
<1>4. \A w \in Updaters :
        /\ w # u => update'[w].stage = update[w].stage
        /\ update'[w].row = update[w].row /\ update'[w].found = update[w].found
        /\ ~update'[w].overtaken => ~update[w].overtaken /\ ~(w # u /\ Marked(w))
  BY <1>1 DEF FormTyped
<1>5. update'[u].stage = "options" /\ update'[u].overtaken = update[u].overtaken
  BY <1>1 DEF FormTyped
<1>6. FormTyped'
  <2>1. options \in SUBSET (AGENTS \cup {NotFound})
    BY DEF FormTyped
  <2>2. ASSUME NEW w \in Updaters PROVE update'[w] \in ThreadType
    <3>1. update[w] \in ThreadType /\ update[u] \in ThreadType
      BY DEF FormTyped, ThreadType
    <3>2. "options" \in Stages
      BY DEF Stages, Unlocked
    <3>3. CASE w = u
      BY <1>1, <3>1, <3>2, <3>3 DEF ThreadType
    <3>4. CASE w # u
      <4>1. update'[w] = [update[w] EXCEPT !.overtaken = TRUE] \/ update'[w] = update[w]
        BY <1>1, <3>4
      <4>. QED  BY <3>1, <4>1 DEF ThreadType
    <3>. QED  BY <3>3, <3>4
  <2>3. update' \in [Updaters -> ThreadType]
    BY <1>1, <2>2
  <2>4. dropdown' \in [Rows -> [options : SUBSET (AGENTS \cup {NotFound}),
                                value : AGENTS \cup {NotFound, NoChoice}]]
    <3>. HIDE DEF row, options
    <3>0. dropdown[row] \in
             [options : SUBSET (AGENTS \cup {NotFound}), value : AGENTS \cup {NotFound, NoChoice}]
      BY <1>2 DEF FormTyped
    <3>1. [dropdown[row] EXCEPT !.options = options] \in
             [options : SUBSET (AGENTS \cup {NotFound}), value : AGENTS \cup {NotFound, NoChoice}]
      BY <2>1, <3>0, DropdownFields
    <3>. QED  BY <1>1, <1>2, <3>1 DEF FormTyped
  <2>. QED  BY <1>1, <2>3, <2>4 DEF FormTyped, ThreadType
<1>7. ThreadInv'
  BY <1>1, <1>4, <1>5, <1>2, Threads DEF FormInv, ThreadInv, Unlocked
<1>8. ASSUME ~update[u].overtaken PROVE OptionsListed(dropdown'[row])
  <2>1. /\ update[u].found \subseteq dynamic_agents
        /\ update[u].found = {} <=> dynamic_agents = {}
    BY <1>1, <1>8 DEF FormInv, CleanInv
  <2>. QED  BY <1>3, <2>1 DEF OptionsListed
<1>9. CleanInv'
  <2>1. ASSUME NEW w \in Updaters, ~update'[w].overtaken,
               update'[w].stage \in {"found", "options"}
        PROVE  /\ update'[w].found \subseteq dynamic_agents
               /\ update'[w].found = {} <=> dynamic_agents = {}
    <3>1. ~update[w].overtaken /\ update[w].stage \in {"found", "options"}
      BY <1>1, <1>4, <2>1
    <3>. QED  BY <1>4, <3>1 DEF FormInv, CleanInv
  <2>2. ASSUME NEW w \in Updaters, ~update'[w].overtaken, update'[w].stage = "options"
        PROVE  OptionsListed(dropdown'[update'[w].row])
    <3>1. CASE w = u
      BY <1>4, <1>5, <1>8, <2>2, <3>1
    <3>2. CASE w # u
      <4>1. update[w].stage = "options" /\ ~update[w].overtaken /\ ~Marked(w)
        BY <1>4, <2>2, <3>2
      <4>2. CASE update[w].row = row
        BY <1>4, <1>8, <4>1, <4>2 DEF Unlocked
      <4>3. CASE update[w].row # row
        <5>1. update[w].row \in Rows
          BY <4>1, Threads DEF FormInv, ThreadInv, Unlocked
        <5>2. dropdown'[update'[w].row] = dropdown[update[w].row]
          BY <1>3, <1>4, <4>3, <5>1
        <5>. QED  BY <4>1, <5>2 DEF FormInv, CleanInv
      <4>. QED  BY <4>2, <4>3
    <3>. QED  BY <3>1, <3>2
  <2>. QED  BY <1>1, <2>1, <2>2 DEF CleanInv, OptionsListed
<1>10. Awaited(u, row)
  BY <1>1, <1>2, Threads DEF Awaited, FormInv, ThreadInv, Unlocked, Rows
<1>11. \A j \in Rows : Pending(j) => Pending(j)'
  BY <1>1, <1>4, <1>5, Threads DEF Pending, FormTyped, Unlocked
<1>12. ASSUME NEW j \in Rows, type[j] = "llm_api", j \notin disturbed, ~Pending(j)'
       PROVE  InList(dropdown'[j])
  <2>1. ~Pending(j)
    BY <1>11, <1>12
  <2>2. j # row
    BY <1>10, <2>1, PendingIsAwaited
  <2>. QED  BY <1>3, <1>12, <2>1, <2>2 DEF FormInv, RowInv
<1>13. RowInv'
  BY <1>1, <1>12 DEF RowInv, InList, OptionsListed
<1>. QED  BY <1>6, <1>7, <1>9, <1>13 DEF FormInv

\* The thread has written its row and moves on.
LEMMA WrittenRow ==
  ASSUME FormTyped, FormInv, NEW u \in Updaters, update[u].row \in Rows,
         update[u].stage \in {"hide", "check"} \cup Unlocked
  PROVE  /\ RowIsWritten(u) \in [Updaters -> ThreadType]
         /\ \A w \in Updaters : w # u => RowIsWritten(u)[w] = update[w]
         /\ u \in Handlers => RowIsWritten(u)[u] = NoUpdate
         /\ u \notin Handlers => /\ RowIsWritten(u)[u].stage = "check"
                                 /\ RowIsWritten(u)[u].row = update[u].row + 1
                                 /\ refresh[u] = "rows"
<1>1. NoUpdate \in ThreadType
  BY DEF NoUpdate, ThreadType, Stages
<1>2. update[u].row + 1 \in 1 .. CPUS + 1
  BY DEF Rows
<1>3. [NoUpdate EXCEPT !.stage = "check", !.row = update[u].row + 1] \in ThreadType
  BY <1>1, <1>2 DEF ThreadType, Stages
<1>4. u \notin Handlers => refresh[u] = "rows"
  BY Threads DEF FormInv, ThreadInv, Unlocked
<1>5. update \in [Updaters -> ThreadType]
  BY DEF FormTyped, ThreadType
<1>. QED  BY <1>1, <1>3, <1>4, <1>5 DEF RowIsWritten, NoUpdate

\* The value is one of the options; the row is of the list, or marked.
LEMMA WriteValueStep ==
  ASSUME FormTyped, FormInv, NEW u \in Updaters, WriteValue(u)
  PROVE  FormTyped' /\ FormInv'
<1>. DEFINE row == update[u].row
<1>1. /\ update[u].stage = "options"
      /\ disturbed' = IF update[u].overtaken THEN disturbed \cup {row} ELSE disturbed \ {row}
      /\ update' = RowIsWritten(u)
      /\ UNCHANGED <<dynamic_agents, refresh, total_players, type>>
  BY DEF WriteValue, agent_vars
<1>2. PICK first \in IF update[u].found = {} THEN {NotFound} ELSE dropdown[row].options :
        dropdown' = [dropdown EXCEPT ![row].value = first]
  BY DEF WriteValue
<1>3. row \in Rows
  BY <1>1, Threads DEF FormInv, ThreadInv, Unlocked
<1>4. /\ \A j \in Rows : j # row => dropdown'[j] = dropdown[j]
      /\ dropdown'[row].options = dropdown[row].options /\ dropdown'[row].value = first
      /\ first \in AGENTS \cup {NotFound, NoChoice}
  BY <1>2, <1>3 DEF FormTyped
<1>5. /\ update' \in [Updaters -> ThreadType]
      /\ \A w \in Updaters : w # u => update'[w] = update[w]
      /\ u \in Handlers => update'[u] = NoUpdate
      /\ u \notin Handlers => /\ update'[u].stage = "check" /\ update'[u].row = row + 1
                              /\ refresh[u] = "rows"
  BY <1>1, <1>3, WrittenRow DEF Unlocked
<1>6. FormTyped'
  <2>1. disturbed' \in SUBSET Rows
    BY <1>1, <1>3 DEF FormTyped
  <2>2. dropdown' \in [Rows -> [options : SUBSET (AGENTS \cup {NotFound}),
                                value : AGENTS \cup {NotFound, NoChoice}]]
    <3>. HIDE DEF row
    <3>1. [dropdown[row] EXCEPT !.value = first] \in
             [options : SUBSET (AGENTS \cup {NotFound}), value : AGENTS \cup {NotFound, NoChoice}]
      BY <1>3, <1>4, DropdownFields DEF FormTyped
    <3>. QED  BY <1>2, <1>3, <3>1 DEF FormTyped
  <2>. QED  BY <1>1, <1>5, <2>1, <2>2 DEF FormTyped, ThreadType
<1>7. ThreadInv'
  BY <1>1, <1>3, <1>5, Threads DEF FormInv, ThreadInv, NoUpdate, Unlocked, Rows
<1>8. CleanInv'
  <2>1. \A w \in Updaters : update'[w].stage \in {"found", "options"} => w # u
    BY <1>5 DEF NoUpdate
  <2>2. \A w \in Updaters : update[w].stage = "options" => update[w].row \in Rows
    BY Threads DEF FormInv, ThreadInv, Unlocked
  <2>3. \A j \in Rows : dropdown'[j].options = dropdown[j].options
    BY <1>4
  <2>. QED  BY <1>1, <1>5, <2>1, <2>2, <2>3 DEF FormInv, CleanInv, OptionsListed
<1>9. ASSUME ~update[u].overtaken PROVE InList(dropdown'[row])
  <2>1. /\ update[u].found = {} <=> dynamic_agents = {}
        /\ OptionsListed(dropdown[row])
    BY <1>1, <1>9 DEF FormInv, CleanInv
  <2>. QED  BY <1>2, <1>4, <2>1 DEF InList, OptionsListed
<1>10. ASSUME NEW j \in Rows, j # row, Pending(j) PROVE Pending(j)'
  <2>1. CASE Awaited(u, j)
    <3>1. u \notin Handlers /\ row <= j
      BY <1>5, <1>10, <2>1, Threads DEF Awaited, ThreadInv, FormInv
    <3>2. row + 1 <= j
      BY <1>3, <1>10, <3>1 DEF Rows
    <3>. QED  BY <1>1, <1>5, <3>1, <3>2, Threads DEF Pending, FormTyped
  <2>2. CASE ~Awaited(u, j)
    BY <1>1, <1>5, <1>6, <1>10, <2>2, AwaitedElsewhere
  <2>. QED  BY <2>1, <2>2
<1>11. ASSUME NEW j \in Rows, type[j] = "llm_api", j \notin disturbed', ~Pending(j)'
       PROVE  InList(dropdown'[j])
  <2>1. CASE j = row
    BY <1>1, <1>9, <1>11, <2>1
  <2>2. CASE j # row
    BY <1>1, <1>4, <1>10, <1>11, <2>2 DEF FormInv, RowInv
  <2>. QED  BY <2>1, <2>2
<1>12. RowInv'
  BY <1>1, <1>11 DEF RowInv, InList, OptionsListed
<1>. QED  BY <1>6, <1>7, <1>8, <1>12 DEF FormInv

\* The four steps of _update_agent_options.
LEMMA UpdateIsClean ==
  ASSUME FormTyped, FormInv, NEW u \in Updaters, UpdateStep(u)
  PROVE  FormTyped' /\ FormInv'
BY ReadAgentsStep, ReadRaisesStep, WriteOptionsStep, WriteValueStep DEF UpdateStep

-----------------------------------------------------------------------------
(* _on_player_type_changed *)

\* The steps of a handler outside _update_agent_options.  One that hides the
\* dropdown has read that the type is another.
LEMMA HandlerIsClean ==
  ASSUME FormTyped, FormInv, NEW h \in Handlers,
         HandlerReadsType(h) \/ HandlerShows(h) \/ HandlerHides(h)
  PROVE  FormTyped' /\ FormInv'
<1>1. UNCHANGED <<dynamic_agents, refresh, total_players, type, dropdown, disturbed>>
  BY DEF HandlerReadsType, HandlerShows, HandlerHides, agent_vars
<1>2. h \in Updaters /\ h \notin 1 .. MAX_REFRESHES /\ update[h].row \in Rows
  BY Threads DEF FormInv, ThreadInv
<1>3. /\ update' \in [Updaters -> ThreadType]
      /\ \A w \in Updaters : w # h => update'[w] = update[w]
      /\ update'[h].row \in Rows
      /\ update'[h].stage \in {"idle", "show", "hide", "reading"}
      /\ \/ /\ update'[h].row = update[h].row
            /\ update'[h].stage \in {"show", "reading"}
         \/ update[h].stage = "begun" /\ type[update[h].row] # "llm_api"
         \/ update[h].stage = "hide"
  <2>1. CASE HandlerReadsType(h)
    <3>1. PICK s \in {"show", "hide"} :
            /\ update[h].stage = "begun"
            /\ update' = [update EXCEPT ![h].stage = s]
            /\ s = "hide" => type[update[h].row] # "llm_api"
      BY <2>1 DEF HandlerReadsType
    <3>2. update'[h] = [update[h] EXCEPT !.stage = s]
      BY <1>2, <3>1 DEF FormTyped
    <3>3. s \in Stages
      BY DEF Stages
    <3>4. update'[h] \in ThreadType /\ update'[h].stage = s /\ update'[h].row = update[h].row
      BY <1>2, <3>2, <3>3 DEF FormTyped, ThreadType
    <3>. QED  BY <1>2, <3>1, <3>4 DEF FormTyped, ThreadType
  <2>2. CASE HandlerShows(h)
    <3>1. update' = [update EXCEPT ![h] = [NoUpdate EXCEPT !.stage = "reading",
                                                         !.row = update[h].row]]
      BY <2>2 DEF HandlerShows, Reading
    <3>2. /\ [NoUpdate EXCEPT !.stage = "reading", !.row = update[h].row] \in ThreadType
          /\ [NoUpdate EXCEPT !.stage = "reading", !.row = update[h].row].stage = "reading"
          /\ [NoUpdate EXCEPT !.stage = "reading", !.row = update[h].row].row = update[h].row
      BY <1>2 DEF NoUpdate, ThreadType, Stages, Unlocked, FormTyped
    <3>. QED  BY <1>2, <3>1, <3>2 DEF FormTyped, ThreadType
  <2>3. CASE HandlerHides(h)
    <3>1. update[h].stage = "hide" /\ update' = RowIsWritten(h)
      BY <2>3 DEF HandlerHides
    <3>2. 1 \in Rows
      BY DEF Rows
    <3>. QED  BY <1>2, <3>1, <3>2, WrittenRow DEF NoUpdate
  <2>. QED  BY <2>1, <2>2, <2>3
<1>4. FormTyped'
  BY <1>1, <1>3 DEF FormTyped, ThreadType
<1>5. ThreadInv'
  BY <1>1, <1>2, <1>3, Threads DEF FormInv, ThreadInv
<1>6. CleanInv'
  BY <1>1, <1>3 DEF FormInv, CleanInv, OptionsListed
<1>7. ASSUME NEW j \in Rows, type[j] = "llm_api", Pending(j) PROVE Pending(j)'
  <2>1. CASE Awaited(h, j)
    <3>1. update'[h].row = j /\ update'[h].stage \in {"show", "reading"}
      BY <1>2, <1>3, <1>7, <2>1 DEF Awaited, Unlocked
    <3>. QED  BY <3>1 DEF Pending, Unlocked
  <2>2. CASE ~Awaited(h, j)
    BY <1>1, <1>2, <1>3, <1>4, <1>7, <2>2, AwaitedElsewhere
  <2>. QED  BY <2>1, <2>2
<1>8. RowInv'
  BY <1>1, <1>7 DEF FormInv, RowInv, InList, OptionsListed
<1>. QED  BY <1>4, <1>5, <1>6, <1>8 DEF FormInv

-----------------------------------------------------------------------------
(* refresh_agents *)

\* A new list overtakes the threads that are reading or writing, and leaves
\* the others where they are.
LEMMA OvertakenThreads ==
  ASSUME FormTyped
  PROVE  /\ Overtaken \in [Updaters -> ThreadType]
         /\ \A u \in Updaters :
              /\ Overtaken[u].stage = update[u].stage /\ Overtaken[u].row = update[u].row
              /\ Overtaken[u].stage \in Unlocked => Overtaken[u].overtaken
<1>1. ASSUME NEW u \in Updaters
      PROVE  /\ Overtaken[u] \in ThreadType
             /\ Overtaken[u].stage = update[u].stage /\ Overtaken[u].row = update[u].row
             /\ Overtaken[u].stage \in Unlocked => Overtaken[u].overtaken
  <2>1. update[u] \in ThreadType
    BY DEF FormTyped, ThreadType
  <2>2. CASE update[u].stage \in Unlocked
    <3>1. Overtaken[u] = [update[u] EXCEPT !.overtaken = TRUE]
      BY <2>2 DEF Overtaken
    <3>. QED  BY <2>1, <3>1 DEF ThreadType
  <2>3. CASE update[u].stage \notin Unlocked
    <3>1. Overtaken[u] = update[u]
      BY <2>3 DEF Overtaken
    <3>. QED  BY <2>1, <2>3, <3>1
  <2>. QED  BY <2>2, <2>3
<1>. QED  BY <1>1 DEF Overtaken

\* The answer makes every row pending.
LEMMA FetchAgentsStep ==
  ASSUME FormTyped, FormInv, NEW r \in 1 .. MAX_REFRESHES, FetchAgents(r)
  PROVE  FormTyped' /\ FormInv'
<1>1. /\ refresh[r] = "ready"
      /\ dynamic_agents' \in SUBSET AGENTS
      /\ update' = Overtaken
      /\ refresh' = [refresh EXCEPT ![r] = "fetched"]
      /\ UNCHANGED <<total_players, type, dropdown, disturbed>>
  BY FetchedType DEF FetchAgents
<1>2. FormTyped'
  BY <1>1, OvertakenThreads DEF FormTyped, ThreadType
<1>3. ThreadInv'
  BY <1>1, OvertakenThreads, Threads DEF FormTyped, FormInv, ThreadInv
<1>4. CleanInv'
  BY <1>1, OvertakenThreads DEF CleanInv, Unlocked
<1>5. RowInv'
  BY <1>1 DEF RowInv, Pending, FormTyped
<1>. QED  BY <1>2, <1>3, <1>4, <1>5 DEF FormInv

\* The refresh begins with its first row.
LEMMA RebuildCardsStep ==
  ASSUME FormTyped, FormInv, NEW r \in 1 .. MAX_REFRESHES, RebuildCards(r)
  PROVE  FormTyped' /\ FormInv'
<1>1. /\ refresh' = [refresh EXCEPT ![r] = "rows"]
      /\ update' = [update EXCEPT ![r] = [NoUpdate EXCEPT !.stage = "check"]]
      /\ UNCHANGED <<dynamic_agents, total_players, type, dropdown, disturbed>>
  BY DEF RebuildCards
<1>2. /\ [NoUpdate EXCEPT !.stage = "check"] \in ThreadType
      /\ [NoUpdate EXCEPT !.stage = "check"].stage = "check"
      /\ [NoUpdate EXCEPT !.stage = "check"].row = 1
  <2>1. "check" \in Stages /\ "idle" \in Stages /\ 1 \in 1 .. CPUS + 1
    BY DEF Stages
  <2>. QED  BY <2>1 DEF NoUpdate, ThreadType
<1>3. /\ r \in Updaters
      /\ update' \in [Updaters -> ThreadType]
      /\ update'[r].stage = "check" /\ update'[r].row = 1
      /\ \A w \in Updaters : w # r => update'[w] = update[w]
  BY <1>1, <1>2, Threads DEF FormTyped, ThreadType
<1>4. FormTyped'
  BY <1>1, <1>3 DEF FormTyped, ThreadType
<1>5. ThreadInv'
  BY <1>1, <1>3, Threads DEF FormTyped, FormInv, ThreadInv, Unlocked
<1>6. CleanInv'
  BY <1>1, <1>3 DEF FormInv, CleanInv, OptionsListed
<1>7. \A j \in Rows : Pending(j)'
  BY <1>1, <1>3 DEF Pending, FormTyped, Rows
<1>. QED  BY <1>4, <1>5, <1>6, <1>7 DEF FormInv, RowInv

\* The except clause marks every row.
LEMMA RefreshFailsStep ==
  ASSUME FormTyped, FormInv, NEW r \in 1 .. MAX_REFRESHES, RefreshFails(r)
  PROVE  FormTyped' /\ FormInv'
<1>1. /\ dynamic_agents' = {} /\ disturbed' = Rows
      /\ update' = [Overtaken EXCEPT ![r] = NoUpdate]
      /\ refresh' = [refresh EXCEPT ![r] = "done"]
      /\ UNCHANGED <<total_players, type, dropdown>>
  BY DEF RefreshFails
<1>2. NoUpdate \in ThreadType /\ NoUpdate.stage = "idle" /\ NoUpdate.row = 1
  BY DEF NoUpdate, ThreadType, Stages
<1>3. /\ r \in Updaters
      /\ update' \in [Updaters -> ThreadType]
      /\ update'[r] = NoUpdate
      /\ \A w \in Updaters : w # r => update'[w] = Overtaken[w]
  BY <1>1, <1>2, Threads, OvertakenThreads
<1>4. FormTyped'
  BY <1>1, <1>3 DEF FormTyped, ThreadType
<1>5. ThreadInv'
  BY <1>1, <1>2, <1>3, Threads, OvertakenThreads DEF FormTyped, FormInv, ThreadInv, Unlocked
<1>6. CleanInv'
  BY <1>2, <1>3, OvertakenThreads DEF CleanInv, Unlocked
<1>7. RowInv'
  BY <1>1 DEF RowInv
<1>. QED  BY <1>4, <1>5, <1>6, <1>7 DEF FormInv

\* A row is left alone when it is not in use, or it is marked.
LEMMA CheckRowStep ==
  ASSUME FormTyped, FormInv, NEW r \in 1 .. MAX_REFRESHES, CheckRow(r)
  PROVE  FormTyped' /\ FormInv'
<1>. DEFINE row == update[r].row
<1>1. /\ update[r].stage = "check" /\ row \in Rows
      /\ UNCHANGED <<dynamic_agents, refresh, total_players, type, dropdown>>
  BY DEF CheckRow, agent_vars
<1>2. r \in Updaters /\ r \notin Handlers /\ refresh[r] = "rows"
  BY <1>1, Threads DEF FormInv, ThreadInv
<1>3. CASE update' = Reading(r) /\ UNCHANGED disturbed
  <2>1. update' = [update EXCEPT ![r] = [NoUpdate EXCEPT !.stage = "reading", !.row = row]]
    BY <1>3 DEF Reading
  <2>2. /\ [NoUpdate EXCEPT !.stage = "reading", !.row = row] \in ThreadType
        /\ [NoUpdate EXCEPT !.stage = "reading", !.row = row].stage = "reading"
        /\ [NoUpdate EXCEPT !.stage = "reading", !.row = row].row = row
    <3>1. "reading" \in Stages /\ "idle" \in Stages /\ row \in 1 .. CPUS + 1
      BY <1>1 DEF Stages, Unlocked, Rows
    <3>. QED  BY <3>1 DEF NoUpdate, ThreadType
  <2>3. /\ update' \in [Updaters -> ThreadType]
        /\ update'[r].stage = "reading" /\ update'[r].row = row
        /\ \A w \in Updaters : w # r => update'[w] = update[w]
    BY <1>2, <2>1, <2>2 DEF FormTyped, ThreadType
  <2>4. FormTyped'
    BY <1>1, <1>3, <2>3 DEF FormTyped, ThreadType
  <2>5. ThreadInv'
    BY <1>1, <1>2, <2>3, Threads DEF FormInv, ThreadInv, Unlocked
  <2>6. CleanInv'
    BY <1>1, <2>3 DEF FormInv, CleanInv, OptionsListed
  <2>7. \A j \in Rows : Pending(j) => Pending(j)'
    BY <1>1, <1>2, <2>3, Threads DEF Pending, FormTyped
  <2>8. RowInv'
    BY <1>1, <1>3, <2>7 DEF FormInv, RowInv, InList, OptionsListed
  <2>. QED  BY <2>4, <2>5, <2>6, <2>8 DEF FormInv
<1>4. CASE /\ update' = RowIsWritten(r)
           /\ disturbed' = IF type[row] = "llm_api" THEN disturbed \cup {row} ELSE disturbed
  <2>1. /\ update' \in [Updaters -> ThreadType]
        /\ update'[r].stage = "check" /\ update'[r].row = row + 1
        /\ \A w \in Updaters : w # r => update'[w] = update[w]
    BY <1>1, <1>2, <1>4, WrittenRow
  <2>2. FormTyped'
    <3>1. disturbed' \in SUBSET Rows
      BY <1>1, <1>4 DEF FormTyped
    <3>. QED  BY <1>1, <2>1, <3>1 DEF FormTyped, ThreadType
  <2>3. ThreadInv'
    BY <1>1, <1>2, <2>1, Threads DEF FormInv, ThreadInv, Unlocked
  <2>4. CleanInv'
    BY <1>1, <2>1 DEF FormInv, CleanInv, OptionsListed
  <2>5. ASSUME NEW j \in Rows, j # row, Pending(j) PROVE Pending(j)'
    <3>1. CASE Awaited(r, j)
      <4>1. row <= j
        BY <1>2, <3>1 DEF Awaited
      <4>2. row + 1 <= j
        BY <1>1, <2>5, <4>1 DEF Rows
      <4>. QED  BY <1>1, <1>2, <2>1, <4>2 DEF Pending, FormTyped
    <3>2. CASE ~Awaited(r, j)
      BY <1>1, <1>2, <2>1, <2>2, <2>5, <3>2, AwaitedElsewhere
    <3>. QED  BY <3>1, <3>2
  <2>6. ASSUME NEW j \in Rows, type[j] = "llm_api", j \notin disturbed', ~Pending(j)'
        PROVE  InList(dropdown[j])
    <3>1. j # row
      BY <1>4, <2>6
    <3>. QED  BY <1>4, <2>5, <2>6, <3>1 DEF FormInv, RowInv
  <2>7. RowInv'
    BY <1>1, <2>6 DEF RowInv, InList, OptionsListed
  <2>. QED  BY <2>2, <2>3, <2>4, <2>7 DEF FormInv
<1>. QED  BY <1>3, <1>4 DEF CheckRow

\* Behind the last row nothing is pending on the refresh.
LEMMA EndRowsStep ==
  ASSUME FormTyped, FormInv, NEW r \in 1 .. MAX_REFRESHES, EndRows(r)
  PROVE  FormTyped' /\ FormInv'
<1>1. /\ update[r].stage = "check" /\ update[r].row \notin Rows
      /\ update' = [update EXCEPT ![r] = NoUpdate]
      /\ refresh' = [refresh EXCEPT ![r] = "done"]
      /\ UNCHANGED <<dynamic_agents, total_players, type, dropdown, disturbed>>
  BY DEF EndRows
<1>2. NoUpdate \in ThreadType /\ NoUpdate.stage = "idle"
  BY DEF NoUpdate, ThreadType, Stages
<1>3. /\ r \in Updaters /\ r \notin Handlers /\ refresh[r] = "rows"
      /\ update' \in [Updaters -> ThreadType]
      /\ update'[r] = NoUpdate
      /\ \A w \in Updaters : w # r => update'[w] = update[w]
      /\ \A q \in 1 .. MAX_REFRESHES : q # r => refresh'[q] = refresh[q]
  BY <1>1, <1>2, Threads DEF FormTyped, ThreadType, FormInv, ThreadInv
<1>4. FormTyped'
  BY <1>1, <1>3 DEF FormTyped, ThreadType
<1>5. ThreadInv'
  BY <1>1, <1>2, <1>3, Threads DEF FormTyped, FormInv, ThreadInv, Unlocked
<1>6. CleanInv'
  BY <1>1, <1>2, <1>3 DEF FormInv, CleanInv, OptionsListed
<1>7. ASSUME NEW j \in Rows, Pending(j) PROVE Pending(j)'
  <2>1. update[r].row \in 1 .. CPUS + 1
    BY <1>3 DEF FormTyped
  <2>2. ~(update[r].row <= j)
    BY <1>1, <2>1 DEF Rows
  <2>3. ~Awaited(r, j)
    BY <1>3, <2>2 DEF Awaited
  <2>. QED  BY <1>3, <1>4, <1>7, <2>3, AwaitedElsewhere
<1>8. RowInv'
  BY <1>1, <1>7 DEF FormInv, RowInv, InList, OptionsListed
<1>. QED  BY <1>4, <1>5, <1>6, <1>8 DEF FormInv

-----------------------------------------------------------------------------
(* The screen *)

\* A test touches neither the list nor the form; its result may only be seen
\* by the threads that are reading.
LEMMA TestsRest ==
  ASSUME FormTyped, FormInv, NEW t \in 1 .. MAX_TESTS,
         ClickTestAll(t) \/ TestStep(t) \/ \E k \in shown : ClickTest(t, k)
  PROVE  FormTyped' /\ FormInv'
<1>. USE DEF agent_vars, form_vars, row_vars
<1>1. CASE \/ ClickTestAll(t) \/ CreateSession(t) \/ NextTest(t)
           \/ \E k \in shown : ClickTest(t, k)
  <2>1. UNCHANGED <<dynamic_agents, refresh, total_players, type, dropdown, update, disturbed>>
    BY <1>1 DEF ClickTestAll, CreateSession, NextTest, ClickTest
  <2>2. total_players' \in 2 .. CPUS + 1 /\ update' \in [Updaters -> ThreadType]
    BY <2>1 DEF FormTyped, ThreadType
  <2>. QED  BY <2>1, <2>2, FormRests DEF ThreadType
<1>2. CASE ConfirmSession(t) \/ FailTest(t)
  <2>1. UNCHANGED <<dynamic_agents, refresh, total_players, type, dropdown, disturbed>>
    BY <1>2 DEF ConfirmSession, FailTest
  <2>2. PICK verdict : NewResult(tests[t].agent, verdict)
    BY <1>2 DEF ConfirmSession, FailTest, FinishTest
  <2>3. ASSUME NEW u \in Updaters
        PROVE  /\ update'[u] \in ThreadType
               /\ update'[u].stage = update[u].stage /\ update'[u].row = update[u].row
               /\ update'[u].found = update[u].found
               /\ update'[u].overtaken = update[u].overtaken
    <3>1. update'[u] = update[u] \/ update'[u] = [update[u] EXCEPT !.grown = TRUE]
      BY <2>2 DEF NewResult
    <3>2. update[u] \in ThreadType
      BY DEF FormTyped, ThreadType
    <3>. QED  BY <3>1, <3>2 DEF ThreadType
  <2>4. update' \in [Updaters -> ThreadType]
    BY <2>2, <2>3 DEF NewResult
  <2>5. total_players' \in 2 .. CPUS + 1
    BY <2>1 DEF FormTyped
  <2>. QED  BY <2>1, <2>3, <2>4, <2>5, FormRests DEF ThreadType
<1>. QED  BY <1>1, <1>2 DEF TestStep

\* One step of the screen, whoever takes it.
LEMMA FormStep ==
  ASSUME FormTyped, FormInv, [Next]_vars
  PROVE  FormTyped' /\ FormInv'
<1>1. ASSUME NEW r \in 1 .. MAX_REFRESHES, RefreshStep(r)
      PROVE  FormTyped' /\ FormInv'
  BY <1>1, Threads, FetchAgentsStep, RebuildCardsStep, RefreshFailsStep, CheckRowStep,
     UpdateIsClean, EndRowsStep DEF RefreshStep
<1>2. ASSUME NEW h \in Handlers, HandlerStep(h)
      PROVE  FormTyped' /\ FormInv'
  BY <1>2, Threads, HandlerIsClean, UpdateIsClean DEF HandlerStep
<1>3. CASE (\E n \in 2 .. CPUS + 1 : ChangePlayers(n)) \/ UNCHANGED vars
  <2>1. /\ UNCHANGED <<dynamic_agents, refresh, type, dropdown, update, disturbed>>
        /\ total_players' \in 2 .. CPUS + 1
    BY <1>3 DEF ChangePlayers, vars, agent_vars, form_vars, row_vars, FormTyped
  <2>2. update' \in [Updaters -> ThreadType]
    BY <2>1 DEF FormTyped, ThreadType
  <2>. QED  BY <2>1, <2>2, FormRests DEF ThreadType
<1>. QED  BY <1>1, <1>2, <1>3, ChangeTypeStep, ChooseAgentStep, TestsRest DEF Next

\* A game seats agents of the current list, and random players in their place
\* only when the list is empty, in every row that nobody is about to write and
\* that no failure, no overtaken thread and no late choice has left behind.
THEOREM StartedFromTheList == Spec => []OnlyListedAgentsPlay
<1>1. Init => FormTyped /\ FormInv
  <2>. SUFFICES ASSUME Init PROVE FormTyped /\ FormInv
    OBVIOUS
  <2>1. NoUpdate \in ThreadType /\ NoUpdate.stage = "idle" /\ NoUpdate.row = 1 /\ 1 \in Rows
    BY DEF NoUpdate, ThreadType, Stages, Rows
  <2>2. \A u \in Updaters : update[u] = NoUpdate
    BY DEF Init
  <2>3. FormTyped
    <3>1. update \in [Updaters -> ThreadType]
      BY <2>1 DEF Init
    <3>2. total_players \in 2 .. CPUS + 1
      BY DEF Init
    <3>. QED  BY <3>1, <3>2, FetchedType DEF Init, FormTyped, ThreadType
  <2>4. ThreadInv
    BY <2>1, <2>2, Threads DEF Init, ThreadInv, Unlocked
  <2>5. CleanInv
    BY <2>1, <2>2 DEF CleanInv
  <2>6. RowInv
    BY DEF Init, RowInv
  <2>. QED  BY <2>3, <2>4, <2>5, <2>6 DEF FormInv
<1>2. FormTyped /\ FormInv /\ [Next]_vars => FormTyped' /\ FormInv'
  BY FormStep
<1>3. FormTyped /\ FormInv => OnlyListedAgentsPlay
  <2>. SUFFICES ASSUME FormTyped, FormInv, NEW i \in DOMAIN PlayerConfigs,
                       type[i] = "llm_api", i \notin disturbed, ~Pending(i)
                PROVE  IF dynamic_agents = {} THEN PlayerConfigs[i].type = "random"
                       ELSE /\ PlayerConfigs[i].type = "llm_api"
                            /\ PlayerConfigs[i].agent_id \in dynamic_agents
    BY DEF OnlyListedAgentsPlay
  <2>1. i \in Rows /\ PlayerConfigs[i] = Config(i)
    BY DEF PlayerConfigs, Rows, FormTyped
  <2>2. InList(dropdown[i]) /\ dynamic_agents \subseteq AGENTS
    BY <2>1 DEF FormInv, RowInv, FormTyped
  <2>. QED  BY <2>1, <2>2 DEF InList, Config
<1>. QED  BY <1>1, <1>2, <1>3, PTL DEF Spec
=============================================================================
