-------------------------- MODULE LogViewerProofs --------------------------
(***************************************************************************)
(* What holds of the log viewer for every number of files, agents, records *)
(* and clicks, in every interleaving of its threads with the game that     *)
(* writes the log.                                                         *)
(*                                                                         *)
(* The invariant is a conjunction whose parts build on one another: where  *)
(* the threads are, what the position means, who redraws and who watches;  *)
(* then how often a record has been listed, which records some thread is   *)
(* still to list, and which hand the panel is of, half-way through a load  *)
(* or a refresh too.                                                       *)
(***************************************************************************)
EXTENDS LogViewer, FiniteSetTheorems, WellFoundedInduction, TLAPS

-----------------------------------------------------------------------------
(* Offsets *)

\* The prompts among the first i records of a file.
Prompts(f, i) == {j \in 1 .. i : log[f][j].kind = "prompt"}

LEMMA PromptsAreFinite ==
  ASSUME NEW f, NEW i \in Nat
  PROVE  IsFiniteSet(Prompts(f, i)) /\ Cardinality(Prompts(f, i)) \in Nat
<1>1. IsFiniteSet(1 .. i)
  BY FS_Interval
<1>2. Prompts(f, i) \subseteq 1 .. i
  BY DEF Prompts
<1>3. IsFiniteSet(Prompts(f, i))
  BY <1>1, <1>2, FS_Subset
<1>. QED  BY <1>3, FS_CardinalityType

LEMMA OffsetType ==
  ASSUME NEW f, NEW i \in Nat
  PROVE  Offset(f, i) \in Nat
BY PromptsAreFinite DEF Offset, Prompts

\* The same for the records of any file, now or after a step.
OffsetIn(l, i) == i + Cardinality({k \in 1 .. i : l[k].kind = "prompt"})

LEMMA OffsetInGrows ==
  ASSUME NEW l, NEW i \in Nat, NEW j \in Nat, i < j
  PROVE  OffsetIn(l, i) < OffsetIn(l, j) /\ OffsetIn(l, i) \in Nat /\ OffsetIn(l, j) \in Nat
<1>. DEFINE P(n) == {k \in 1 .. n : l[k].kind = "prompt"}
<1>1. P(i) \subseteq P(j) /\ P(j) \subseteq 1 .. j
  OBVIOUS
<1>2. IsFiniteSet(1 .. j)
  BY FS_Interval
<1>3. IsFiniteSet(P(j))
  BY <1>1, <1>2, FS_Subset
<1>4. IsFiniteSet(P(i)) /\ Cardinality(P(i)) <= Cardinality(P(j))
  BY <1>1, <1>3, FS_Subset
<1>5. Cardinality(P(i)) \in Nat /\ Cardinality(P(j)) \in Nat
  BY <1>3, <1>4, FS_CardinalityType
<1>6. OffsetIn(l, i) = i + Cardinality(P(i)) /\ OffsetIn(l, j) = j + Cardinality(P(j))
  BY DEF OffsetIn
<1>. QED  BY <1>4, <1>5, <1>6

\* A later record ends further on in the file.
LEMMA OffsetGrows ==
  ASSUME NEW f, NEW i \in Nat, NEW j \in Nat, i < j
  PROVE  /\ Offset(f, i) < Offset(f, j)
         /\ Offset(f, i)' < Offset(f, j)' /\ Offset(f, i)' \in Nat /\ Offset(f, j)' \in Nat
<1>1. \A n : Offset(f, n) = OffsetIn(log[f], n) /\ Offset(f, n)' = OffsetIn(log'[f], n)
  BY DEF Offset, OffsetIn
<1>. QED  BY <1>1, OffsetInGrows

LEMMA OffsetOrder ==
  ASSUME NEW f, NEW i \in Nat, NEW j \in Nat
  PROVE  Offset(f, i) <= Offset(f, j) <=> i <= j
<1>1. Offset(f, i) \in Nat /\ Offset(f, j) \in Nat
  BY OffsetType
<1>2. CASE i < j
  BY <1>1, <1>2, OffsetGrows
<1>3. CASE j < i
  BY <1>1, <1>3, OffsetGrows
<1>. QED  BY <1>1, <1>2, <1>3

LEMMA OffsetZero ==
  ASSUME NEW f
  PROVE  Offset(f, 0) = 0
<1>1. Prompts(f, 0) = {}
  BY DEF Prompts
<1>2. Cardinality(Prompts(f, 0)) = 0
  BY <1>1, FS_EmptySet
<1>. QED  BY <1>2 DEF Offset, Prompts

\* Among record numbers there is a least one.
LEMMA LineSetHasMin ==
  ASSUME NEW S \in SUBSET Nat, S # {}
  PROVE  \E m \in S : \A k \in S : m <= k
<1>1. \E x \in S : \A y \in S : ~(<<y, x>> \in OpToRel(<, Nat))
  BY NatLessThanWellFounded, WFMin
<1>2. PICK x \in S : \A y \in S : ~(<<y, x>> \in OpToRel(<, Nat))
  BY <1>1
<1>3. \A y \in S : x <= y
  <2>1. TAKE y \in S
  <2>2. x \in Nat /\ y \in Nat
    OBVIOUS
  <2>3. ~(y < x)
    BY <1>2, <2>2 DEF OpToRel
  <2>. QED  BY <2>2, <2>3
<1>. QED  BY <1>3

\* What readlines returns begins with the first record behind the offset.
LEMMA FirstIsFirst ==
  ASSUME NEW f, Len(log[f]) \in Nat, NEW p \in Nat
  PROVE  LET n == FirstFrom(f, p)
         IN  /\ n \in 1 .. Len(log[f]) + 1
             /\ Offset(f, n - 1) >= p \/ n = Len(log[f]) + 1
             /\ \A j \in 1 .. n - 1 : Offset(f, j - 1) < p
<1>. DEFINE L == Len(log[f])
            S == {i \in 1 .. L + 1 : Offset(f, i - 1) >= p \/ i = L + 1}
<1>1. S \in SUBSET Nat /\ L + 1 \in S
  OBVIOUS
<1>2. PICK m \in S : \A k \in S : m <= k
  BY <1>1, LineSetHasMin
<1>3. m \in 1 .. L + 1 /\ (Offset(f, m - 1) >= p \/ m = L + 1)
  OBVIOUS
<1>4. \A j \in 1 .. m - 1 : Offset(f, j - 1) < p
  <2>1. TAKE j \in 1 .. m - 1
  <2>2. j \in 1 .. L + 1 /\ j # L + 1 /\ ~(m <= j) /\ j - 1 \in Nat
    BY <1>3
  <2>3. ~(Offset(f, j - 1) >= p)
    BY <1>2, <2>2
  <2>4. Offset(f, j - 1) \in Nat
    BY <2>2, OffsetType
  <2>. QED  BY <2>3, <2>4
<1>5. \E i \in 1 .. Len(log[f]) + 1 :
        /\ Offset(f, i - 1) >= p \/ i = Len(log[f]) + 1
        /\ \A j \in 1 .. i - 1 : Offset(f, j - 1) < p
  BY <1>3, <1>4
<1>. HIDE DEF L, S
<1>. QED  BY <1>5 DEF FirstFrom

\* Behind the end of record k that is record k + 1.
LEMMA FirstBehind ==
  ASSUME NEW f, Len(log[f]) \in Nat, NEW k \in 0 .. Len(log[f])
  PROVE  FirstFrom(f, Offset(f, k)) = k + 1
<1>. DEFINE n == FirstFrom(f, Offset(f, k))
<1>1. Offset(f, k) \in Nat
  BY OffsetType
<1>2. /\ n \in 1 .. Len(log[f]) + 1
      /\ Offset(f, n - 1) >= Offset(f, k) \/ n = Len(log[f]) + 1
      /\ \A j \in 1 .. n - 1 : Offset(f, j - 1) < Offset(f, k)
  BY <1>1, FirstIsFirst
<1>. HIDE DEF n
<1>3. n - 1 >= k
  <2>1. n - 1 \in Nat /\ k \in Nat
    BY <1>2
  <2>. QED  BY <1>2, <2>1, OffsetOrder
<1>4. CASE n - 1 > k
  <2>1. k + 1 \in 1 .. n - 1
    BY <1>2, <1>4
  <2>2. Offset(f, (k + 1) - 1) < Offset(f, k)
    BY <1>2, <2>1
  <2>3. (k + 1) - 1 = k
    OBVIOUS
  <2>. QED  BY <1>1, <2>2, <2>3
<1>. QED  BY <1>2, <1>3, <1>4 DEF n

-----------------------------------------------------------------------------
(* Types, and how far the threads are *)

AnyFile == FILES \cup {NoFile}

LoadStates == [at : {"ready", "reset", "read", "parse", "done"}, file : AnyFile,
               next : Nat, last : Nat]

RefreshStates == [at : {"dead", "look", "tell", "parse", "leaving"}, file : AnyFile,
                  next : Nat, last : Nat, end : Nat, found : BOOLEAN]

\* The steps of the refresh thread.
Look == RefreshLook(refresh, refresh')
Tell == RefreshTell(refresh, refresh')
Breaks == RefreshBreaks(refresh, refresh')
Pass == RefreshParse(refresh, refresh')
Collides == RefreshCollides(refresh, refresh', forgotten)
Flag == RefreshFlag(refresh, refresh')
Leave == RefreshLeave(refresh, refresh')

\* It has read lines and not yet parsed all of them.  The position it read
\* up to, and the file, count from the moment of the reading.
Passing == IsParsing(refresh)
Told == IF refresh.at = "tell" THEN refresh.end ELSE position
Measured == IF refresh.at = "tell" THEN refresh.file ELSE measured

Typed ==
  /\ log \in [FILES -> Seq(Records)] /\ \A f \in FILES : Len(log[f]) <= MAX_RECORDS
  /\ events \in [FILES -> [Lines -> Nat]]
  /\ position \in Nat
  /\ current_file \in AnyFile /\ measured \in AnyFile
  /\ load \in [Loads -> LoadStates]
  /\ refresh \in RefreshStates

\* Files only grow.
Grown ==
  /\ log' \in [FILES -> Seq(Records)]
  /\ \A f \in FILES : /\ Len(log[f]) <= Len(log'[f]) /\ Len(log'[f]) <= MAX_RECORDS
                      /\ \A i \in 1 .. Len(log[f]) : log'[f][i] = log[f][i]

LEMMA LogType ==
  ASSUME Typed, NEW f \in FILES
  PROVE  /\ log[f] \in Seq(Records) /\ Len(log[f]) \in Nat /\ DOMAIN log[f] = 1 .. Len(log[f])
         /\ \A i \in 1 .. Len(log[f]) : log[f][i] \in Records /\ i \in Lines
         /\ MAX_RECORDS \in Nat
<1>1. log[f] \in Seq(Records) /\ Len(log[f]) <= MAX_RECORDS
  BY DEF Typed
<1>2. MAX_RECORDS \in Nat
  BY LogAssumption
<1>. QED  BY <1>1, <1>2 DEF Lines

LEMMA WriteGrows ==
  ASSUME Typed, NEW kind \in WRITTEN, NEW a \in AGENTS, WriteRecord(kind, a)
  PROVE  /\ Grown
         /\ \A f \in FILES : f # LIVE => log'[f] = log[f]
         /\ Len(log'[LIVE]) = Len(log[LIVE]) + 1
         /\ log'[LIVE][Len(log[LIVE]) + 1].kind = kind
         /\ log'[LIVE][Len(log[LIVE]) + 1].hand =
              Cardinality({i \in 1 .. Len(log[LIVE]) : log[LIVE][i].kind = "hand"})
                + (IF kind = "hand" THEN 1 ELSE 0)
<1>1. LIVE \in FILES /\ kind \in Kinds
  BY LogAssumption
<1>2. /\ log \in [FILES -> Seq(Records)] /\ log[LIVE] \in Seq(Records) /\ Len(log[LIVE]) \in Nat
      /\ DOMAIN log[LIVE] = 1 .. Len(log[LIVE]) /\ MAX_RECORDS \in Nat
      /\ \A f \in FILES : Len(log[f]) <= MAX_RECORDS
  BY <1>1, LogType DEF Typed
<1>. DEFINE hands == Cardinality({i \in 1 .. Len(log[LIVE]) : log[LIVE][i].kind = "hand"})
            hand  == IF kind = "hand" THEN hands + 1 ELSE hands
            rec   == [kind |-> kind, hand |-> hand, player |-> a]
<1>3. hands \in Nat
  <2>1. {i \in 1 .. Len(log[LIVE]) : log[LIVE][i].kind = "hand"} \subseteq 1 .. Len(log[LIVE])
    OBVIOUS
  <2>2. IsFiniteSet(1 .. Len(log[LIVE]))
    BY <1>2, FS_Interval
  <2>. QED  BY <2>1, <2>2, FS_Subset, FS_CardinalityType
<1>4. Len(log[LIVE]) < MAX_RECORDS /\ log' = [log EXCEPT ![LIVE] = Append(@, rec)]
  BY <1>2 DEF WriteRecord
<1>. HIDE DEF hands
<1>5. hand \in Nat /\ rec \in Records /\ rec.kind = kind /\ rec.hand = hand
  BY <1>1, <1>3 DEF Records
<1>. HIDE DEF rec
<1>6. log'[LIVE] = Append(log[LIVE], rec) /\ \A f \in FILES : f # LIVE => log'[f] = log[f]
  BY <1>1, <1>2, <1>4
<1>7. /\ Append(log[LIVE], rec) \in Seq(Records)
      /\ Len(Append(log[LIVE], rec)) = Len(log[LIVE]) + 1
      /\ Append(log[LIVE], rec)[Len(log[LIVE]) + 1] = rec
      /\ \A i \in 1 .. Len(log[LIVE]) : Append(log[LIVE], rec)[i] = log[LIVE][i]
  BY <1>2, <1>5
<1>8. log' \in [FILES -> Seq(Records)]
  BY <1>1, <1>2, <1>4, <1>7
<1>9. Grown
  BY <1>2, <1>4, <1>6, <1>7, <1>8 DEF Grown
<1>10. hand = hands + (IF kind = "hand" THEN 1 ELSE 0)
  BY <1>3
<1>. QED  BY <1>5, <1>6, <1>7, <1>9, <1>10 DEF hands

\* Offsets in a file stay what they were.
LEMMA OffsetKept ==
  ASSUME Typed, Grown, NEW f \in FILES, NEW i \in 0 .. Len(log[f])
  PROVE  Offset(f, i)' = Offset(f, i)
<1>1. Len(log[f]) \in Nat
  BY LogType
<1>2. \A j \in 1 .. i : log'[f][j] = log[f][j]
  BY <1>1 DEF Grown
<1>3. {j \in 1 .. i : log'[f][j].kind = "prompt"} = {j \in 1 .. i : log[f][j].kind = "prompt"}
  BY <1>2
<1>. QED  BY <1>3 DEF Offset

LEMMA SameLogGrows ==
  ASSUME Typed, log' = log
  PROVE  Grown
BY LogType DEF Typed, Grown

\* The threads are where their files allow: the loads,
LoadsInv ==
  /\ \A c \in Loads : load[c].at # "ready" => current_file \in FILES
  /\ \A c \in Loads : IsLoading(c) => load[c].file \in FILES
  /\ \A c \in Loads : load[c].at = "parse" =>
       /\ load[c].next \in 1 .. load[c].last + 1
       /\ load[c].last <= Len(log[load[c].file])

\* and the refresh thread, which has told its position before it parses.
PassInv ==
  /\ refresh.at # "dead" => current_file \in FILES
  /\ Passing =>
       /\ refresh.file \in FILES
       /\ refresh.next \in 1 .. refresh.last + 1
       /\ refresh.last <= Len(log[refresh.file])
       /\ Offset(refresh.file, refresh.last) <= Told
       /\ \A i \in refresh.next .. refresh.last :
            IsEvent(log[refresh.file][i]) => refresh.found = TRUE

ThreadInv == LoadsInv /\ PassInv

\* Until two handlers are about to start a thread, there is one at most, and
\* a handler that starts one has found a file on view and no thread alive.
StartInv ==
  /\ forgotten.at = "dead" /\ starting \in {0, 1}
  /\ starting = 1 => refresh.at = "dead" /\ current_file \in FILES

\* The thread is started.
Starts ==
  /\ starting = 1 /\ refresh.at = "dead" /\ current_file \in FILES
  /\ starting' = 0 /\ refresh' \in RefreshStates /\ refresh'.at = "look"
  /\ UNCHANGED <<log, parser_vars, linked, current_file, load, forgotten, missed_start, doubled,
                 auto_refresh, screen_vars, history_vars>>

LEMMA IdleType ==
  /\ IdleRefresh \in RefreshStates /\ IdleRefresh.at = "dead"
  /\ \A a \in {"look", "leaving"} : /\ [IdleRefresh EXCEPT !.at = a] \in RefreshStates
                                    /\ [IdleRefresh EXCEPT !.at = a].at = a
<1>1. IdleRefresh \in RefreshStates /\ IdleRefresh.at = "dead"
  BY DEF IdleRefresh, RefreshStates, AnyFile
<1>. QED  BY <1>1 DEF RefreshStates

\* So there are these steps to look at.
LEMMA NamedKinds ==
  ASSUME NamedStep
  PROVE  Look \/ Tell \/ Breaks \/ Pass \/ Collides \/ Flag \/ Leave
BY DEF NamedStep, RefreshStep, Look, Tell, Breaks, Pass, Collides, Flag, Leave

LEMMA StartStarts ==
  ASSUME StartInv, StartThread
  PROVE  Starts
<1>1. starting = 1 /\ refresh.at = "dead" /\ current_file \in FILES
  BY DEF StartThread, StartInv
<1>2. starting' = 0 /\ UNCHANGED <<up_to_date, forgotten>>
  BY <1>1 DEF StartThread
<1>3. refresh' = [IdleRefresh EXCEPT !.at = "look"]
  BY DEF StartThread
<1>. QED  BY <1>1, <1>2, <1>3, IdleType DEF Starts, StartThread, screen_vars

LEMMA StepKinds ==
  ASSUME StartInv, [Next]_vars
  PROVE  \/ GameStep \/ ToggleAutoRefresh
         \/ \E c \in Loads, f \in FILES : ClickFile(c, f)
         \/ \E c \in Loads : LoadStep(c)
         \/ Starts \/ NamedStep \/ TimerDraw \/ TimerClear \/ UNCHANGED vars
<1>1. ~ForgottenStep
  <2>1. forgotten.at = "dead"
    BY DEF StartInv
  <2>. QED  BY <2>1 DEF ForgottenStep, RefreshStep, RefreshLook, RefreshTell, RefreshBreaks,
            RefreshParse, RefreshCollides, ParseCollides, Iterates, Parses, RefreshFlag, RefreshLeave
<1>. QED  BY <1>1, StartStarts DEF Next, UserStep

\* The other loads stand still while one moves.
OneLoadMoves(c) == load' \in [Loads -> LoadStates] /\ \A d \in Loads : d # c => load'[d] = load[d]

LEMMA ClickMoves ==
  ASSUME Typed, NEW c \in Loads, NEW f \in FILES, ClickFile(c, f)
  PROVE  /\ OneLoadMoves(c) /\ load[c].at = "ready"
         /\ load'[c].at = "reset" /\ load'[c].file = f
BY DEF Typed, OneLoadMoves, ClickFile, LoadStates, AnyFile

LEMMA ResetMoves ==
  ASSUME Typed, NEW c \in Loads, LoadReset(c)
  PROVE  /\ OneLoadMoves(c) /\ load[c].at = "reset"
         /\ load'[c].at = "read" /\ load'[c].file = load[c].file
BY DEF Typed, OneLoadMoves, LoadReset, LoadStates

LEMMA ReadMoves ==
  ASSUME Typed, ThreadInv, NEW c \in Loads, LoadRead(c)
  PROVE  /\ OneLoadMoves(c) /\ load[c].at = "read" /\ load[c].file \in FILES
         /\ load'[c].at = "parse" /\ load'[c].file = load[c].file
         /\ load'[c].next = 1 /\ load'[c].last = Len(log[load[c].file])
<1>1. load[c].file \in FILES
  BY DEF ThreadInv, LoadsInv, PassInv, IsLoading, LoadRead
<1>2. Len(log[load[c].file]) \in Nat
  BY <1>1, LogType
<1>. QED  BY <1>1, <1>2 DEF Typed, OneLoadMoves, LoadRead, LoadStates

LEMMA ParseMoves ==
  ASSUME Typed, NEW c \in Loads, LoadParse(c)
  PROVE  /\ OneLoadMoves(c) /\ load[c].at = "parse" /\ load[c].next <= load[c].last
         /\ load'[c].at = "parse" /\ load'[c].file = load[c].file
         /\ load'[c].next = load[c].next + 1 /\ load'[c].last = load[c].last
<1>1. load \in [Loads -> LoadStates] /\ load[c] \in LoadStates
  BY DEF Typed
<1>2. load' = [load EXCEPT ![c].next = @ + 1] /\ load[c].at = "parse" /\ load[c].next <= load[c].last
  BY DEF LoadParse, Parses
<1>3. load[c].next \in Nat
  BY <1>1 DEF LoadStates
<1>4. load' \in [Loads -> LoadStates]
  BY <1>1, <1>2, <1>3 DEF LoadStates
<1>5. load'[c] = [load[c] EXCEPT !.next = @ + 1] /\ \A d \in Loads : d # c => load'[d] = load[d]
  BY <1>1, <1>2
<1>. QED  BY <1>1, <1>2, <1>4, <1>5 DEF OneLoadMoves, LoadStates

LEMMA EndMoves ==
  ASSUME Typed, NEW c \in Loads, LoadEnds(c)
  PROVE  OneLoadMoves(c) /\ load'[c].at = "done"
<1>1. IdleLoad \in LoadStates
  BY DEF IdleLoad, LoadStates, AnyFile
<1>2. [IdleLoad EXCEPT !.at = "done"] \in LoadStates /\ [IdleLoad EXCEPT !.at = "done"].at = "done"
  BY <1>1 DEF LoadStates
<1>. QED  BY <1>2 DEF Typed, OneLoadMoves, LoadEnds

LEMMA DoneMoves ==
  ASSUME Typed, NEW c \in Loads, LoadDone(c)
  PROVE  /\ OneLoadMoves(c) /\ load[c].at = "parse" /\ load[c].next > load[c].last
         /\ load'[c].at = "done"
BY EndMoves DEF LoadDone

\* The thread of a load that meets the error is over.
LEMMA CollisionMoves ==
  ASSUME Typed, NEW c \in Loads, LoadCollides(c)
  PROVE  /\ OneLoadMoves(c) /\ load[c].at = "parse" /\ load'[c].at = "done"
         /\ collided' = TRUE
         /\ UNCHANGED <<log, position, current_file, refresh, forgotten, start_vars, auto_refresh,
                        needs_update, timer, overtaken, measured, carried, overlapped, crowded>>
BY EndMoves DEF LoadCollides, ParseCollides, PlayersChange, Iterates, Parses

\* parse_new_lines takes up the records behind the position.
LEMMA LookMoves ==
  ASSUME Typed, ThreadInv, Look
  PROVE  LET f == current_file
         IN  /\ refresh.at = "look" /\ ~Passing /\ Passing' /\ refresh' \in RefreshStates
             /\ Told = position /\ Measured = measured /\ Measured' = f
             /\ f \in FILES /\ refresh'.file = f
             /\ refresh'.next = FirstFrom(f, Told) /\ refresh'.last = Len(log[f])
             /\ refresh'.next \in 1 .. refresh'.last + 1
             /\ Told' \in Nat /\ Told' >= Told /\ Told' >= Size(f)
             /\ Told' \in {Told, Size(f)}
             /\ \A i \in refresh'.next .. refresh'.last :
                  IsEvent(log[f][i]) => refresh'.found = TRUE
<1>. DEFINE f == current_file
            first == FirstFrom(f, position)
            last  == Len(log[f])
            end   == IF position > Size(f) THEN position ELSE Size(f)
            found == \E i \in first .. last : IsEvent(log[f][i])
<1>1. refresh.at = "look" /\ f \in FILES /\ last \in Nat /\ position \in Nat
  BY LogType DEF Look, RefreshLook, ThreadInv, LoadsInv, PassInv, Typed
<1>2. first \in 1 .. last + 1
  BY <1>1, FirstIsFirst
<1>3. Size(f) \in Nat
  BY <1>1, OffsetType DEF Size
<1>4. refresh' = [at |-> "tell", file |-> f, next |-> first, last |-> last, end |-> end,
                  found |-> found]
  BY DEF Look, RefreshLook, NewLines
<1>5. found \in BOOLEAN
  OBVIOUS
<1>6. \A i \in first .. last : IsEvent(log[f][i]) => found = TRUE
  OBVIOUS
<1>7. /\ end \in Nat /\ end >= position /\ end >= Size(f)
      /\ end \in {position, Size(f)}
  BY <1>1, <1>3
<1>. HIDE DEF first, last, found, end
<1>8. /\ refresh' \in RefreshStates /\ refresh'.at = "tell" /\ refresh'.file = f /\ refresh'.end = end
      /\ refresh'.next = first /\ refresh'.last = last /\ refresh'.found = found
  BY <1>1, <1>2, <1>4, <1>5, <1>7 DEF RefreshStates, AnyFile
<1>9. ~Passing /\ Passing' /\ Told = position /\ Measured = measured
  BY <1>1, <1>8 DEF Passing, IsParsing, Told, Measured
<1>10. Told' = end /\ Measured' = f
  BY <1>8 DEF Told, Measured
<1>. QED  BY <1>1, <1>2, <1>6, <1>7, <1>8, <1>9, <1>10 DEF first, last

LEMMA TellMoves ==
  ASSUME Typed, Tell
  PROVE  /\ refresh' \in RefreshStates /\ refresh.at = "tell" /\ Passing /\ Passing'
         /\ refresh'.next = refresh.next /\ refresh'.last = refresh.last
         /\ refresh'.file = refresh.file /\ refresh'.found = refresh.found
         /\ Told' = Told /\ Measured' = Measured
         /\ position' \in Nat /\ measured' \in AnyFile
<1>1. refresh \in RefreshStates /\ refresh.at = "tell"
      /\ refresh' = [refresh EXCEPT !.at = "parse", !.end = 0]
      /\ position' = refresh.end /\ measured' = refresh.file
  BY DEF Tell, RefreshTell, Typed
<1>2. /\ refresh' \in RefreshStates /\ refresh'.at = "parse"
      /\ refresh'.next = refresh.next /\ refresh'.last = refresh.last
      /\ refresh'.file = refresh.file /\ refresh'.found = refresh.found
      /\ refresh.end \in Nat /\ refresh.file \in AnyFile
  BY <1>1 DEF RefreshStates
<1>. QED  BY <1>1, <1>2 DEF Passing, IsParsing, Told, Measured

LEMMA PassMoves ==
  ASSUME Typed, Pass
  PROVE  /\ refresh' \in RefreshStates /\ refresh.at = "parse" /\ Passing /\ Passing'
         /\ refresh.next <= refresh.last /\ refresh'.next = refresh.next + 1
         /\ refresh'.last = refresh.last /\ refresh'.file = refresh.file
         /\ refresh'.found = refresh.found
         /\ Told' = Told /\ Measured' = Measured
<1>1. /\ refresh \in RefreshStates /\ refresh.at = "parse" /\ refresh.next <= refresh.last
      /\ refresh' = [refresh EXCEPT !.next = @ + 1]
      /\ position' = position /\ measured' = measured
  BY DEF Typed, Pass, RefreshParse, Parses, history_vars
<1>2. /\ refresh' \in RefreshStates /\ refresh'.at = "parse" /\ refresh'.next = refresh.next + 1
      /\ refresh'.last = refresh.last /\ refresh'.file = refresh.file
      /\ refresh'.found = refresh.found
  BY <1>1 DEF RefreshStates
<1>. QED  BY <1>1, <1>2 DEF Passing, IsParsing, Told, Measured

\* The other steps of the refresh thread list no line that it has read, but
\* for the one at which the error ends it.
LEMMA RestMoves ==
  ASSUME Typed, Breaks \/ Collides \/ Flag \/ Leave
  PROVE  /\ refresh' \in RefreshStates /\ refresh.at # "dead" /\ ~Passing'
         /\ Told' = Told /\ Measured' = Measured
         /\ Breaks \/ Leave => ~Passing
         /\ Collides \/ Flag => refresh.at = "parse" /\ Passing
<1>1. refresh.at \notin {"dead", "tell"}
  BY DEF Breaks, RefreshBreaks, Collides, RefreshCollides, ParseCollides, Iterates, Parses,
     Flag, RefreshFlag, Leave, RefreshLeave
<1>2. position' = position /\ measured' = measured
  BY DEF Breaks, RefreshBreaks, Collides, RefreshCollides, Flag, RefreshFlag, Leave, RefreshLeave,
     parser_vars, history_vars
<1>3. refresh' \in RefreshStates /\ refresh'.at \notin {"tell", "parse"}
  <2>1. CASE Breaks
    BY <2>1, IdleType DEF Breaks, RefreshBreaks
  <2>2. CASE Flag
    BY <2>2, IdleType DEF Flag, RefreshFlag
  <2>3. CASE Leave
    BY <2>3 DEF Leave, RefreshLeave, Typed, RefreshStates
  <2>4. CASE Collides
    BY <2>4, IdleType DEF Collides, RefreshCollides
  <2>. QED  BY <2>1, <2>2, <2>3, <2>4
<1>4. /\ Breaks \/ Leave => refresh.at # "parse"
      /\ Collides \/ Flag => refresh.at = "parse"
  BY DEF Breaks, RefreshBreaks, Leave, RefreshLeave, Collides, RefreshCollides, ParseCollides,
     Iterates, Parses, Flag, RefreshFlag
<1>. QED  BY <1>1, <1>2, <1>3, <1>4 DEF Passing, IsParsing, Told, Measured

\* A thread that is started, or none at all.
LEMMA StartsMoves ==
  ASSUME Starts
  PROVE  ~Passing /\ ~Passing' /\ Told' = Told /\ Measured' = Measured
BY DEF Starts, parser_vars, history_vars, Passing, IsParsing, Told, Measured

LEMMA StandingMoves ==
  ASSUME refresh' = refresh, position' = position, measured' = measured
  PROVE  (Passing <=> Passing') /\ Told' = Told /\ Measured' = Measured
BY DEF Passing, IsParsing, Told, Measured

\* A step that parses no record: the list stays, or is begun anew.
LEMMA NoEventsType == NoEvents \in [FILES -> [Lines -> Nat]]
BY DEF NoEvents

\* A record may have been added to the list, once.
Counted(f, i) ==
  /\ events' \in [FILES -> [Lines -> Nat]]
  /\ \A g \in FILES, j \in Lines : g # f \/ j # i => events'[g][j] = events[g][j]
  /\ events'[f][i] \in {events[f][i], events[f][i] + 1}

LEMMA EventIsCounted ==
  ASSUME Typed, NEW f \in FILES, NEW i \in 1 .. Len(log[f]), ParseRecord(f, i)
  PROVE  /\ Counted(f, i) /\ events'[f][i] \in Nat
         /\ events'[f][i] = events[f][i] + (IF IsEvent(log[f][i]) THEN 1 ELSE 0)
<1>1. i \in Lines /\ events \in [FILES -> [Lines -> Nat]]
  BY LogType DEF Typed
<1>2. CASE IsEvent(log[f][i])
  <2>1. events' = [events EXCEPT ![f][i] = @ + 1]
    BY <1>2 DEF ParseRecord
  <2>. QED  BY <1>1, <1>2, <2>1 DEF Counted
<1>3. CASE ~IsEvent(log[f][i])
  <2>1. events' = events
    BY <1>3 DEF ParseRecord
  <2>. QED  BY <1>1, <1>3, <2>1 DEF Counted
<1>. QED  BY <1>2, <1>3

\* The record at which the error of the dictionary meets a thread.
LEMMA CollisionIsCounted ==
  ASSUME Typed, NEW r, NEW others, ParseCollides(r, others),
         r.file \in FILES, r.next \in 1 .. Len(log[r.file])
  PROVE  Counted(r.file, r.next) /\ collided' = TRUE
<1>1. r.next \in Lines /\ events \in [FILES -> [Lines -> Nat]]
  BY LogType DEF Typed
<1>2. PICK f \in FILES, i \in Lines : f = r.file /\ i = r.next
  BY <1>1
<1>3. events' = [events EXCEPT ![f][i] = @ + 1] \/ events' = events
  BY <1>2 DEF ParseCollides
<1>4. collided' = TRUE
  BY DEF ParseCollides, PlayersChange
<1>5. Counted(f, i)
  <2>1. CASE events' = events
    BY <1>1, <2>1 DEF Counted
  <2>2. CASE events' = [events EXCEPT ![f][i] = @ + 1]
    BY <1>1, <2>2 DEF Counted
  <2>. QED  BY <1>3, <2>1, <2>2
<1>. QED  BY <1>2, <1>4, <1>5

\* The record that a thread parses is a record of its file.
LEMMA ParsedIsThere ==
  ASSUME Typed, ThreadInv
  PROVE  /\ \A c \in Loads : Parses(load[c]) =>
              load[c].file \in FILES /\ load[c].next \in 1 .. Len(log[load[c].file])
         /\ Parses(refresh) =>
              refresh.file \in FILES /\ refresh.next \in 1 .. Len(log[refresh.file])
<1>1. \A f \in FILES : Len(log[f]) \in Nat
  BY LogType
<1>2. ASSUME NEW c \in Loads, Parses(load[c])
      PROVE  load[c].file \in FILES /\ load[c].next \in 1 .. Len(log[load[c].file])
  <2>1. load[c].at = "parse" /\ load[c].next <= load[c].last /\ load[c].last \in Nat
    BY <1>2 DEF Parses, Typed, LoadStates
  <2>. QED  BY <1>1, <2>1 DEF ThreadInv, LoadsInv, PassInv, IsLoading
<1>3. ASSUME Parses(refresh)
      PROVE  refresh.file \in FILES /\ refresh.next \in 1 .. Len(log[refresh.file])
  <2>1. refresh.at = "parse" /\ refresh.next <= refresh.last /\ refresh.last \in Nat
    BY <1>3 DEF Parses, Typed, RefreshStates
  <2>2. Passing
    BY <2>1 DEF Passing, IsParsing
  <2>. QED  BY <1>1, <2>1, <2>2 DEF ThreadInv, LoadsInv, PassInv
<1>. QED  BY <1>2, <1>3

\* What a load, and the refresh thread, leave in the list when the error meets
\* them.
LEMMA LoadCollisionCounts ==
  ASSUME Typed, ThreadInv, NEW c \in Loads, LoadCollides(c)
  PROVE  \/ events' = events
         \/ /\ Parses(load[c]) /\ Counted(load[c].file, load[c].next)
            /\ load[c].file \in FILES /\ load[c].next \in 1 .. Len(log[load[c].file])
<1>. DEFINE others == {load[d] : d \in Loads \ {c}} \cup {refresh, forgotten}
<1>1. CASE ParseCollides(load[c], others)
  <2>1. Parses(load[c])
    BY <1>1 DEF ParseCollides, Iterates
  <2>. HIDE DEF others
  <2>. QED  BY <1>1, <2>1, ParsedIsThere, CollisionIsCounted
<1>2. CASE ~ParseCollides(load[c], others)
  BY <1>2 DEF LoadCollides
<1>. QED  BY <1>1, <1>2

LEMMA PassCollisionCounts ==
  ASSUME Typed, ThreadInv, Collides
  PROVE  /\ Parses(refresh) /\ Counted(refresh.file, refresh.next) /\ collided' = TRUE
         /\ refresh.file \in FILES /\ refresh.next \in 1 .. Len(log[refresh.file])
         /\ UNCHANGED <<log, position, linked, current_file, load, start_vars, auto_refresh,
                        needs_update, timer, overtaken, measured, carried, overlapped, crowded>>
<1>. DEFINE others == {load[c] : c \in Loads} \cup {forgotten}
<1>1. ParseCollides(refresh, others)
  BY DEF Collides, RefreshCollides
<1>2. Parses(refresh)
  BY <1>1 DEF ParseCollides, Iterates
<1>3. UNCHANGED <<log, position, linked, current_file, load, start_vars, auto_refresh,
                  needs_update, timer, overtaken, measured, carried, overlapped, crowded>>
  BY DEF Collides, RefreshCollides
<1>. HIDE DEF others
<1>. QED  BY <1>1, <1>2, <1>3, ParsedIsThere, CollisionIsCounted

LEMMA TypedKept ==
  ASSUME Typed, ThreadInv, StartInv, [Next]_vars
  PROVE  Typed'
<1>1. CASE \E kind \in WRITTEN, a \in AGENTS : WriteRecord(kind, a)
  <2>1. PICK kind \in WRITTEN, a \in AGENTS : WriteRecord(kind, a)
    BY <1>1
  <2>2. UNCHANGED <<events, position, current_file, measured, load, refresh>>
    BY <2>1 DEF WriteRecord, parser_vars, history_vars
  <2>3. Grown
    BY <2>1, WriteGrows
  <2>. QED  BY <2>2, <2>3 DEF Typed, Grown
<1>2. CASE ToggleAutoRefresh
  <2>1. UNCHANGED <<log, events, position, current_file, measured, load, refresh>>
    BY <1>2 DEF ToggleAutoRefresh, parser_vars, history_vars
  <2>. QED  BY <2>1 DEF Typed
<1>3. ASSUME NEW c \in Loads, NEW f \in FILES, ClickFile(c, f)
      PROVE  Typed'
  <2>1. UNCHANGED <<log, events, position, measured, refresh>> /\ current_file' = f
    BY <1>3 DEF ClickFile, parser_vars
  <2>. QED  BY <1>3, <2>1, ClickMoves DEF Typed, OneLoadMoves, AnyFile
<1>4. ASSUME NEW c \in Loads, LoadReset(c)
      PROVE  Typed'
  <2>1. UNCHANGED <<log, position, current_file, measured, refresh>> /\ events' = NoEvents
    BY <1>4 DEF LoadReset, history_vars
  <2>. QED  BY <1>4, <2>1, ResetMoves, NoEventsType DEF Typed, OneLoadMoves
<1>5. ASSUME NEW c \in Loads, LoadRead(c)
      PROVE  Typed'
  <2>1. UNCHANGED <<log, events, position, current_file, measured, refresh>>
    BY <1>5 DEF LoadRead, history_vars, parser_vars
  <2>. QED  BY <1>5, <2>1, ReadMoves DEF Typed, OneLoadMoves
<1>6. ASSUME NEW c \in Loads, LoadParse(c)
      PROVE  Typed'
  <2>1. UNCHANGED <<log, position, current_file, measured, refresh>>
        /\ Parses(load[c]) /\ ParseRecord(load[c].file, load[c].next)
    BY <1>6 DEF LoadParse, history_vars
  <2>2. events' \in [FILES -> [Lines -> Nat]]
    BY <1>6, <2>1, ParsedIsThere, EventIsCounted DEF Counted
  <2>. QED  BY <1>6, <2>1, <2>2, ParseMoves DEF Typed, OneLoadMoves
<1>7. ASSUME NEW c \in Loads, LoadDone(c)
      PROVE  Typed'
  <2>1. UNCHANGED <<log, events, position, current_file, measured, refresh>>
    BY <1>7 DEF LoadDone, history_vars, parser_vars
  <2>. QED  BY <1>7, <2>1, DoneMoves DEF Typed, OneLoadMoves
<1>8. ASSUME NEW c \in Loads, LoadCollides(c)
      PROVE  Typed'
  <2>1. events' \in [FILES -> [Lines -> Nat]]
    BY <1>8, LoadCollisionCounts DEF Counted, Typed
  <2>. QED  BY <1>8, <2>1, CollisionMoves DEF Typed, OneLoadMoves
<1>9. CASE Starts
  BY <1>9 DEF Starts, parser_vars, history_vars, Typed
<1>10. CASE Look
  <2>1. UNCHANGED <<log, events, current_file, load, position, measured>>
    BY <1>10 DEF Look, RefreshLook, parser_vars
  <2>. QED  BY <1>10, <2>1, LookMoves DEF Typed
<1>11. CASE Tell
  <2>1. UNCHANGED <<log, events, current_file, load>>
    BY <1>11 DEF Tell, RefreshTell
  <2>. QED  BY <1>11, <2>1, TellMoves DEF Typed
<1>12. CASE Pass
  <2>1. UNCHANGED <<log, position, current_file, measured, load>>
        /\ Parses(refresh) /\ ParseRecord(refresh.file, refresh.next)
    BY <1>12 DEF Pass, RefreshParse, history_vars
  <2>2. events' \in [FILES -> [Lines -> Nat]]
    BY <1>12, <2>1, ParsedIsThere, EventIsCounted DEF Counted
  <2>. QED  BY <1>12, <2>1, <2>2, PassMoves DEF Typed
<1>13. CASE Collides
  BY <1>13, RestMoves, PassCollisionCounts DEF Typed, Counted
<1>14. CASE Breaks \/ Flag \/ Leave
  <2>1. UNCHANGED <<log, events, position, current_file, measured, load>>
    BY <1>14 DEF Breaks, RefreshBreaks, Flag, RefreshFlag, Leave, RefreshLeave, history_vars, parser_vars
  <2>. QED  BY <1>14, <2>1, RestMoves DEF Typed
<1>15. CASE TimerDraw \/ TimerClear \/ UNCHANGED vars
  <2>1. UNCHANGED <<log, events, position, current_file, measured, load, refresh>>
    BY <1>15 DEF TimerDraw, TimerClear, vars, history_vars, parser_vars
  <2>. QED  BY <2>1 DEF Typed
<1>. QED  BY <1>1, <1>2, <1>3, <1>4, <1>5, <1>6, <1>7, <1>8, <1>9, <1>10, <1>11, <1>12, <1>13,
             <1>14, <1>15, StepKinds, NamedKinds DEF GameStep, LoadStep

\* The loads and the refresh thread are looked at one at a time: what a step
\* of the one leaves of the state of the other.
LEMMA LoadsStand ==
  ASSUME Typed, ThreadInv, Grown, load' = load, current_file' = current_file
  PROVE  LoadsInv'
<1>1. \A f \in FILES : Len(log[f]) \in Nat /\ Len(log'[f]) \in Nat /\ Len(log[f]) <= Len(log'[f])
  BY LogType DEF Grown
<1>2. \A c \in Loads : load[c].last \in Nat
  BY DEF Typed, LoadStates
<1>. QED  BY <1>1, <1>2 DEF ThreadInv, LoadsInv, PassInv, IsLoading

LEMMA PassStands ==
  ASSUME Typed, ThreadInv, Grown, refresh' = refresh, position' = position, measured' = measured,
         current_file' \in FILES \/ current_file' = current_file
  PROVE  PassInv'
<1>0. (Passing <=> Passing') /\ Told' = Told
  BY StandingMoves
<1>1. \A f \in FILES : /\ Len(log[f]) \in Nat /\ Len(log'[f]) \in Nat /\ Len(log[f]) <= Len(log'[f])
                       /\ \A i \in 1 .. Len(log[f]) : log'[f][i] = log[f][i]
  BY LogType DEF Grown
<1>2. refresh.last \in Nat
  BY DEF Typed, RefreshStates
<1>3. CASE Passing
  <2>1. Offset(refresh.file, refresh.last)' = Offset(refresh.file, refresh.last)
    <3>1. refresh.file \in FILES /\ refresh.last \in 0 .. Len(log[refresh.file])
      BY <1>1, <1>2, <1>3 DEF ThreadInv, LoadsInv, PassInv
    <3>2. PICK f \in FILES : f = refresh.file
      BY <3>1
    <3>3. PICK i \in 0 .. Len(log[f]) : i = refresh.last
      BY <3>1, <3>2
    <3>4. Offset(f, i)' = Offset(f, i)
      BY OffsetKept
    <3>. QED  BY <3>2, <3>3, <3>4 DEF Offset
  <2>2. \A i \in refresh.next .. refresh.last : log'[refresh.file][i] = log[refresh.file][i]
    BY <1>1, <1>2, <1>3, SMTT(30) DEF ThreadInv, LoadsInv, PassInv
  <2>. QED  BY <1>0, <1>1, <1>2, <1>3, <2>1, <2>2 DEF ThreadInv, LoadsInv, PassInv
<1>4. CASE ~Passing
  BY <1>0, <1>4 DEF ThreadInv, LoadsInv, PassInv
<1>. QED  BY <1>3, <1>4

LEMMA ThreadLoads ==
  ASSUME Typed, ThreadInv, NEW c \in Loads, LoadStep(c) \/ \E f \in FILES : ClickFile(c, f)
  PROVE  ThreadInv'
<1>1. UNCHANGED <<log, position, measured, refresh>>
  BY CollisionMoves
     DEF LoadStep, LoadReset, LoadRead, LoadParse, LoadDone, ClickFile, parser_vars, history_vars
<1>2. Grown
  BY <1>1, SameLogGrows
<1>3. ASSUME NEW f \in FILES, ClickFile(c, f) PROVE ThreadInv'
  <2>1. current_file' = f
    BY <1>3 DEF ClickFile
  <2>2. LoadsInv'
    BY <1>1, <1>3, <2>1, ClickMoves DEF ThreadInv, LoadsInv, PassInv, OneLoadMoves, IsLoading
  <2>. QED  BY <1>1, <1>2, <2>1, <2>2, PassStands DEF ThreadInv
<1>4. CASE LoadReset(c)
  <2>1. UNCHANGED current_file
    BY <1>4 DEF LoadReset
  <2>2. /\ load[c].at = "reset" /\ load'[c].at = "read" /\ load'[c].file = load[c].file
        /\ \A d \in Loads : d # c => load'[d] = load[d]
    BY <1>4, ResetMoves DEF OneLoadMoves
  <2>3. load[c].file \in FILES /\ current_file \in FILES
    BY <2>2 DEF ThreadInv, LoadsInv, IsLoading
  <2>4. \A d \in Loads : (IsLoading(d))' => load'[d].file \in FILES
    BY <2>2, <2>3 DEF ThreadInv, LoadsInv, IsLoading
  <2>5. LoadsInv'
    BY <1>1, <2>1, <2>2, <2>3, <2>4 DEF ThreadInv, LoadsInv
  <2>. QED  BY <1>1, <1>2, <2>1, <2>5, PassStands DEF ThreadInv
<1>5. CASE LoadRead(c)
  <2>1. UNCHANGED current_file
    BY <1>5 DEF LoadRead
  <2>2. /\ load[c].at = "read" /\ load'[c].at = "parse" /\ load'[c].file = load[c].file
        /\ load'[c].next = 1 /\ load'[c].last = Len(log[load[c].file])
        /\ load[c].file \in FILES
        /\ \A d \in Loads : d # c => load'[d] = load[d]
    BY <1>5, ReadMoves DEF OneLoadMoves
  <2>3. current_file \in FILES /\ Len(log[load[c].file]) \in Nat
    BY <2>2, LogType DEF ThreadInv, LoadsInv
  <2>4. \A d \in Loads : (IsLoading(d))' => load'[d].file \in FILES
    BY <2>2 DEF ThreadInv, LoadsInv, IsLoading
  <2>5. LoadsInv'
    BY <1>1, <2>1, <2>2, <2>3, <2>4 DEF ThreadInv, LoadsInv
  <2>. QED  BY <1>1, <1>2, <2>1, <2>5, PassStands DEF ThreadInv
<1>6. CASE LoadParse(c)
  <2>1. UNCHANGED current_file
    BY <1>6 DEF LoadParse
  <2>2. load[c].next \in Nat /\ load[c].last \in Nat
    BY DEF Typed, LoadStates
  <2>3. LoadsInv'
    BY <1>1, <1>6, <2>1, <2>2, ParseMoves DEF ThreadInv, LoadsInv, PassInv, OneLoadMoves, IsLoading
  <2>. QED  BY <1>1, <1>2, <2>1, <2>3, PassStands DEF ThreadInv
<1>7. CASE LoadDone(c) \/ LoadCollides(c)
  <2>1. UNCHANGED current_file
    BY <1>7, CollisionMoves DEF LoadDone
  <2>2. LoadsInv'
    BY <1>1, <1>7, <2>1, DoneMoves, CollisionMoves
       DEF ThreadInv, LoadsInv, PassInv, OneLoadMoves, IsLoading
  <2>. QED  BY <1>1, <1>2, <2>1, <2>2, PassStands DEF ThreadInv
<1>. QED  BY <1>3, <1>4, <1>5, <1>6, <1>7 DEF LoadStep

LEMMA ThreadPasses ==
  ASSUME Typed, ThreadInv, NamedStep
  PROVE  ThreadInv'
<1>1. UNCHANGED <<log, load, current_file>>
  BY DEF NamedStep, RefreshStep, RefreshLook, RefreshTell, RefreshBreaks, RefreshParse,
     RefreshCollides, RefreshFlag, RefreshLeave
<1>2. LoadsInv'
  BY <1>1, SameLogGrows, LoadsStand
<1>3. CASE Look
  <2>1. Offset(current_file, Len(log[current_file])) <= Told'
    <3>1. /\ Told' \in Nat /\ Told' >= Size(current_file)
          /\ Len(log[current_file]) \in Nat
      BY <1>3, LookMoves, LogType
    <3>2. Size(current_file) \in Nat
      BY <3>1, OffsetType DEF Size
    <3>. QED  BY <3>1, <3>2 DEF Size
  <2>2. PassInv'
    <3>1. /\ refresh'.file = current_file /\ current_file \in FILES
          /\ refresh'.last = Len(log[current_file]) /\ refresh'.next \in 1 .. refresh'.last + 1
          /\ \A i \in refresh'.next .. refresh'.last :
               IsEvent(log[current_file][i]) => refresh'.found = TRUE
          /\ Len(log[current_file]) \in Nat
      BY <1>3, LookMoves, LogType
    <3>2. Offset(refresh.file, refresh.last)' = Offset(current_file, Len(log[current_file]))
      BY <1>1, <3>1 DEF Offset
    <3>. QED  BY <1>1, <2>1, <3>1, <3>2 DEF PassInv
  <2>. QED  BY <1>2, <2>2 DEF ThreadInv
<1>4. CASE Pass \/ Tell
  <2>1. refresh.next \in Nat /\ refresh.last \in Nat
    BY DEF Typed, RefreshStates
  <2>2. /\ Passing /\ Told' = Told
        /\ \/ refresh.next <= refresh.last /\ refresh'.next = refresh.next + 1
           \/ refresh'.next = refresh.next
        /\ refresh'.last = refresh.last /\ refresh'.file = refresh.file
        /\ refresh'.found = refresh.found
    BY <1>4, PassMoves, TellMoves
  <2>3. Offset(refresh.file, refresh.last)' = Offset(refresh.file, refresh.last)
    BY <1>1, <2>2 DEF Offset
  <2>4. current_file \in FILES
    BY <2>2 DEF ThreadInv, PassInv, Passing, IsParsing
  <2>5. PassInv'
    BY <1>1, <2>1, <2>2, <2>3, <2>4 DEF ThreadInv, LoadsInv, PassInv
  <2>. QED  BY <1>2, <2>5 DEF ThreadInv
<1>5. CASE Breaks \/ Collides \/ Flag \/ Leave
  <2>1. PassInv'
    BY <1>1, <1>5, RestMoves DEF ThreadInv, LoadsInv, PassInv
  <2>. QED  BY <1>2, <2>1 DEF ThreadInv
<1>. QED  BY <1>3, <1>4, <1>5, NamedKinds

LEMMA ThreadKept ==
  ASSUME Typed, ThreadInv, StartInv, [Next]_vars
  PROVE  ThreadInv'
<1>1. ASSUME NEW kind \in WRITTEN, NEW a \in AGENTS, WriteRecord(kind, a)
      PROVE  ThreadInv'
  <2>1. UNCHANGED <<load, refresh, position, measured, current_file>> /\ Grown
    BY <1>1, WriteGrows DEF WriteRecord, parser_vars, history_vars
  <2>. QED  BY <2>1, LoadsStand, PassStands DEF ThreadInv
<1>2. CASE Starts
  <2>1. UNCHANGED <<log, load, current_file>> /\ current_file \in FILES
    BY <1>2 DEF Starts
  <2>2. PassInv'
    BY <1>2, <2>1, StartsMoves DEF PassInv
  <2>. QED  BY <2>1, <2>2, SameLogGrows, LoadsStand DEF ThreadInv
<1>3. CASE ToggleAutoRefresh \/ TimerDraw \/ TimerClear \/ UNCHANGED vars
  <2>1. UNCHANGED <<log, load, refresh, position, measured, current_file>>
    BY <1>3 DEF ToggleAutoRefresh, TimerDraw, TimerClear, vars, parser_vars, history_vars
  <2>. QED  BY <2>1, SameLogGrows, LoadsStand, PassStands DEF ThreadInv
<1>. QED  BY <1>1, <1>2, <1>3, ThreadLoads, ThreadPasses, StepKinds DEF GameStep

\* A second handler that finds no thread alive would raise doubled.
LEMMA StartKept ==
  ASSUME Typed, ThreadInv, StartInv, [Next]_vars, ~doubled'
  PROVE  StartInv'
<1>1. CASE GameStep \/ TimerDraw \/ TimerClear \/ UNCHANGED vars
  <2>1. UNCHANGED <<forgotten, starting, refresh, current_file>>
    BY <1>1 DEF GameStep, WriteRecord, TimerDraw, TimerClear, vars, start_vars
  <2>. QED  BY <2>1 DEF StartInv
<1>2. ASSUME StartAutoRefresh \/ UNCHANGED start_vars, current_file \in FILES,
             UNCHANGED <<forgotten, refresh, current_file>>
      PROVE  StartInv'
  <2>1. CASE UNCHANGED start_vars
    BY <1>2, <2>1 DEF StartInv, start_vars
  <2>2. CASE StartAutoRefresh /\ refresh.at # "dead"
    BY <1>2, <2>2 DEF StartAutoRefresh, StartInv
  <2>3. CASE StartAutoRefresh /\ refresh.at = "dead"
    <3>1. starting' = starting + 1 /\ ~(starting > 0)
      BY <2>3 DEF StartAutoRefresh
    <3>2. starting = 0
      BY <3>1 DEF StartInv
    <3>. QED  BY <1>2, <2>3, <3>1, <3>2 DEF StartInv
  <2>. QED  BY <1>2, <2>1, <2>2, <2>3
<1>3. CASE ToggleAutoRefresh
  <2>1. UNCHANGED <<forgotten, refresh, current_file>>
    BY <1>3 DEF ToggleAutoRefresh
  <2>2. CASE current_file \in FILES
    BY <1>2, <1>3, <2>1, <2>2 DEF ToggleAutoRefresh
  <2>3. CASE current_file \notin FILES
    <3>1. current_file = NoFile
      BY <2>3 DEF Typed, AnyFile
    <3>2. UNCHANGED starting
      BY <1>3, <3>1 DEF ToggleAutoRefresh, start_vars
    <3>. QED  BY <2>1, <3>2 DEF StartInv
  <2>. QED  BY <2>2, <2>3
<1>4. ASSUME NEW c \in Loads, LoadDone(c) PROVE StartInv'
  <2>1. current_file \in FILES
    BY <1>4, DoneMoves DEF ThreadInv, LoadsInv
  <2>. QED  BY <1>2, <1>4, <2>1 DEF LoadDone
<1>5. ASSUME NEW c \in Loads,
             \/ LoadReset(c) \/ LoadRead(c) \/ LoadParse(c) \/ LoadCollides(c)
             \/ \E f \in FILES : ClickFile(c, f)
      PROVE  StartInv'
  <2>1. UNCHANGED <<forgotten, starting, refresh>> /\ (current_file' = current_file \/ current_file' \in FILES)
    BY <1>5, CollisionMoves DEF LoadReset, LoadRead, LoadParse, ClickFile, start_vars
  <2>. QED  BY <2>1 DEF StartInv
<1>6. CASE Starts
  BY <1>6 DEF Starts, StartInv
<1>7. CASE NamedStep
  <2>1. UNCHANGED <<forgotten, starting>>
    BY <1>7 DEF NamedStep, RefreshStep, RefreshLook, RefreshTell, RefreshBreaks, RefreshParse,
       RefreshCollides, RefreshFlag, RefreshLeave, start_vars
  <2>2. refresh.at # "dead"
    BY <1>7, NamedKinds, LookMoves, TellMoves, PassMoves, RestMoves
  <2>. QED  BY <2>1, <2>2 DEF StartInv
<1>. QED  BY <1>1, <1>3, <1>4, <1>5, <1>6, <1>7, StepKinds DEF LoadStep

LEMMA ViewerBegins ==
  ASSUME Init
  PROVE  Typed /\ ThreadInv /\ StartInv
<1>1. OLD_LOG \in Seq(Kinds) /\ MAX_RECORDS \in Nat /\ Len(OLD_LOG) <= MAX_RECORDS
  BY LogAssumption
<1>. DEFINE old == [i \in DOMAIN OLD_LOG |-> OldRecord(i)]
<1>2. old \in Seq(Records) /\ Len(old) = Len(OLD_LOG)
  <2>1. (CHOOSE a \in AGENTS : TRUE) \in AGENTS
    BY LogAssumption
  <2>2. \A i \in 1 .. Len(OLD_LOG) : OldRecord(i) \in Records
    BY <1>1, <2>1 DEF OldRecord, Records
  <2>3. DOMAIN OLD_LOG = 1 .. Len(OLD_LOG) /\ Len(OLD_LOG) \in Nat
    BY <1>1
  <2>. QED  BY <2>2, <2>3
<1>3. log = [f \in FILES |-> IF f = LIVE THEN <<>> ELSE old]
  BY Zenon DEF Init
<1>. HIDE DEF old
<1>4. log \in [FILES -> Seq(Records)]
  <2>1. <<>> \in Seq(Records)
    OBVIOUS
  <2>. QED  BY <1>2, <1>3, <2>1
<1>5. \A f \in FILES : Len(log[f]) <= MAX_RECORDS
  BY <1>1, <1>2, <1>3
<1>6. load \in [Loads -> LoadStates] /\ \A c \in Loads : load[c].at = "ready"
  BY DEF Init, IdleLoad, LoadStates, AnyFile
<1>7. refresh \in RefreshStates /\ refresh.at = "dead"
  BY DEF Init, IdleRefresh, RefreshStates, AnyFile
<1>8. Typed
  BY <1>4, <1>5, <1>6, <1>7, NoEventsType DEF Init, Typed, AnyFile
<1>9. ThreadInv
  BY <1>6, <1>7 DEF ThreadInv, LoadsInv, PassInv, IsLoading, Passing, IsParsing
<1>10. StartInv
  BY DEF Init, StartInv, IdleRefresh
<1>. QED  BY <1>8, <1>9, <1>10

-----------------------------------------------------------------------------
(* What the steps of the other parts leave alone *)

\* A switch, a redraw, a start of the refresh thread.
Aside == ToggleAutoRefresh \/ TimerDraw \/ TimerClear \/ UNCHANGED vars \/ Starts

LEMMA AsideFrame ==
  ASSUME Aside
  PROVE  /\ UNCHANGED <<log, events, panel, load, current_file, carried, overlapped, crowded, collided>>
         /\ Told' = Told /\ Measured' = Measured /\ (Passing <=> Passing')
         /\ refresh' = refresh \/ (~Passing /\ ~Passing')
<1>1. UNCHANGED <<log, events, panel, load, current_file, carried, overlapped, crowded, collided,
                  position, measured>>
  BY DEF Aside, ToggleAutoRefresh, TimerDraw, TimerClear, vars, Starts, parser_vars, history_vars
<1>2. CASE Starts
  BY <1>1, <1>2, StartsMoves
<1>3. CASE ~Starts
  <2>1. refresh' = refresh
    BY <1>3 DEF Aside, ToggleAutoRefresh, TimerDraw, TimerClear, vars
  <2>. QED  BY <1>1, <2>1, StandingMoves
<1>. QED  BY <1>2, <1>3

LEMMA WriteFrame ==
  ASSUME NEW kind, NEW a, WriteRecord(kind, a)
  PROVE  /\ UNCHANGED <<events, panel, load, refresh, current_file, carried, overlapped, crowded,
                        collided>>
         /\ Told' = Told /\ Measured' = Measured /\ (Passing <=> Passing')
<1>1. UNCHANGED <<events, panel, load, refresh, current_file, carried, overlapped, crowded,
                  collided, position, measured>>
  BY DEF WriteRecord, parser_vars, history_vars
<1>. QED  BY <1>1, StandingMoves

LEMMA LoadFrame ==
  ASSUME Typed, NEW c \in Loads, LoadStep(c) \/ \E f \in FILES : ClickFile(c, f)
  PROVE  /\ UNCHANGED <<log, refresh, carried>> /\ (collided' \/ ~collided)
         /\ Told' = Told /\ Measured' = Measured /\ (Passing <=> Passing')
<1>1. UNCHANGED <<log, position, measured, refresh, carried>>
  BY CollisionMoves
     DEF LoadStep, LoadReset, LoadRead, LoadParse, LoadDone, ClickFile, parser_vars, history_vars
<1>2. collided' = collided \/ collided' = TRUE
  BY CollisionMoves DEF LoadStep, LoadReset, LoadRead, LoadParse, LoadDone, ClickFile, history_vars
<1>3. collided' \/ ~collided
  BY <1>2, Zenon
<1>. QED  BY <1>1, <1>3, StandingMoves

LEMMA NamedFrame ==
  ASSUME Typed, NamedStep
  PROVE  /\ UNCHANGED <<log, load, current_file, crowded, auto_refresh, missed_start>>
         /\ carried' \/ ~carried
         /\ collided' \/ ~collided
         /\ ~Look => Told' = Told /\ Measured' = Measured
<1>1. UNCHANGED <<log, load, current_file, crowded, auto_refresh, missed_start>>
  BY DEF NamedStep, RefreshStep, RefreshLook, RefreshTell, RefreshBreaks, RefreshParse,
     RefreshCollides, RefreshFlag, RefreshLeave, history_vars, start_vars
<1>2. carried' \/ ~carried
  <2>1. CASE Look \/ Breaks
    BY <2>1, Zenon DEF Look, RefreshLook, Breaks, RefreshBreaks
  <2>2. CASE Tell \/ Pass \/ Collides \/ Flag \/ Leave
    <3>1. carried' = carried
      BY <2>2 DEF Tell, RefreshTell, Pass, RefreshParse, Collides, RefreshCollides,
         Flag, RefreshFlag, Leave, RefreshLeave, history_vars
    <3>. QED  BY <3>1, Zenon
  <2>. QED  BY <2>1, <2>2, NamedKinds
<1>3. collided' \/ ~collided
  <2>1. collided' = collided \/ collided' = TRUE
    BY DEF NamedStep, RefreshStep, RefreshLook, RefreshTell, RefreshBreaks, RefreshParse,
       RefreshCollides, ParseCollides, PlayersChange, RefreshFlag, RefreshLeave, history_vars
  <2>. QED  BY <2>1, Zenon
<1>. QED  BY <1>1, <1>2, <1>3, NamedKinds, TellMoves, PassMoves, RestMoves

LEMMA StepCases ==
  ASSUME StartInv, [Next]_vars
  PROVE  \/ \E kind \in WRITTEN, a \in AGENTS : WriteRecord(kind, a)
         \/ \E c \in Loads, f \in FILES : ClickFile(c, f)
         \/ \E c \in Loads : LoadStep(c)
         \/ NamedStep \/ Aside
BY StepKinds DEF GameStep, Aside

-----------------------------------------------------------------------------
(* The position *)

\* As long as no offset was carried to another file, last_file_position is
\* the end of a record of the file in which it was measured.
PositionInv ==
  carried \/ \/ Measured = NoFile /\ Told = 0
             \/ /\ Measured \in FILES
                /\ \E k \in 0 .. Len(log[Measured]) : Offset(Measured, k) = Told

LEMMA PositionStands ==
  ASSUME Typed, PositionInv, Grown, UNCHANGED <<Measured, Told>>, carried' \/ ~carried
  PROVE  PositionInv'
<1>1. CASE carried
  BY <1>1 DEF PositionInv
<1>2. CASE ~carried /\ Measured = NoFile /\ Told = 0
  BY <1>2 DEF PositionInv
<1>3. CASE /\ ~carried /\ Measured \in FILES
           /\ \E k \in 0 .. Len(log[Measured]) : Offset(Measured, k) = Told
  <2>1. PICK k \in 0 .. Len(log[Measured]) : Offset(Measured, k) = Told
    BY <1>3
  <2>2. PICK f \in FILES : f = Measured
    BY <1>3
  <2>3. k \in 0 .. Len(log[f]) /\ Len(log[f]) \in Nat /\ Len(log'[f]) \in Nat
        /\ Len(log[f]) <= Len(log'[f])
    BY <2>2, LogType DEF Grown
  <2>4. Offset(f, k)' = Offset(f, k)
    BY <2>3, OffsetKept
  <2>5. Offset(Measured, k)' = Told'
    BY <2>1, <2>2, <2>4 DEF Offset
  <2>6. k \in 0 .. Len(log'[Measured'])
    BY <2>2, <2>3
  <2>. QED  BY <1>3, <2>5, <2>6 DEF PositionInv
<1>. QED  BY <1>1, <1>2, <1>3 DEF PositionInv

LEMMA PositionKept ==
  ASSUME Typed, ThreadInv, StartInv, PositionInv, [Next]_vars
  PROVE  PositionInv'
<1>1. ASSUME NEW kind \in WRITTEN, NEW a \in AGENTS, WriteRecord(kind, a)
      PROVE  PositionInv'
  <2>1. UNCHANGED <<Measured, Told, carried>> /\ Grown
    BY <1>1, WriteGrows, WriteFrame
  <2>. QED  BY <2>1, PositionStands
<1>2. CASE Look
  <2>0. PICK f \in FILES : f = current_file
    BY <1>2, LookMoves
  <2>1. Told \in Nat /\ Told' \in {Told, Size(f)} /\ Told' >= Size(f)
    BY <1>2, <2>0, LookMoves DEF Typed
  <2>2. PICK L \in Nat : L = Len(log[f])
    BY LogType
  <2>3. Size(f) = Offset(f, L) /\ Size(f) \in Nat
    BY <2>2, OffsetType DEF Size
  <2>4. CASE carried'
    BY <2>4 DEF PositionInv
  <2>5. CASE ~carried'
    <3>1. /\ carried' = (carried \/ (Told > 0 /\ Measured # f))
          /\ Measured' = f /\ log' = log
      BY <1>2, <2>0, LookMoves DEF Look, RefreshLook
    <3>2. ~carried /\ (Told = 0 \/ Measured = f)
      <4>1. ~carried /\ ~(Told > 0 /\ Measured # f)
        BY <2>5, <3>1, Zenon
      <4>. QED  BY <2>1, <4>1
    <3>3. Told <= Size(f)
      <4>1. CASE Told = 0
        BY <2>3, <4>1
      <4>2. CASE Told # 0
        <5>1. PICK k \in 0 .. L : Offset(f, k) = Told
          BY <2>2, <3>2, <4>2 DEF PositionInv
        <5>2. k \in Nat /\ k <= L
          BY <2>2
        <5>. QED  BY <2>3, <5>1, <5>2, OffsetOrder
      <4>. QED  BY <4>1, <4>2
    <3>4. Told' = Offset(f, L)
      BY <2>1, <2>3, <3>3
    <3>5. Offset(Measured, L)' = Told' /\ L \in 0 .. Len(log'[Measured'])
      BY <2>2, <3>1, <3>4 DEF Offset
    <3>. QED  BY <3>1, <3>5 DEF PositionInv
  <2>. QED  BY <2>4, <2>5
<1>3. ASSUME NEW c \in Loads, LoadStep(c) \/ \E f \in FILES : ClickFile(c, f)
      PROVE  PositionInv'
  BY <1>3, LoadFrame, SameLogGrows, PositionStands
<1>4. CASE Aside
  BY <1>4, AsideFrame, SameLogGrows, PositionStands
<1>5. CASE NamedStep /\ ~Look
  BY <1>5, NamedFrame, SameLogGrows, PositionStands
<1>. QED  BY <1>1, <1>2, <1>3, <1>4, <1>5, StepCases

\* So a look at the file finds the position inside a record only if it was
\* measured in another file.
LEMMA TornIsCarried ==
  ASSUME Typed, ThreadInv, PositionInv, Breaks
  PROVE  carried'
<1>1. current_file \in FILES /\ IsTorn(current_file, Told)
      /\ carried' = (carried \/ Measured # current_file)
  BY DEF Breaks, RefreshBreaks, ThreadInv, PassInv, Told, Measured
<1>2. CASE carried \/ Measured # current_file
  BY <1>1, <1>2
<1>3. CASE ~carried /\ Measured = current_file
  <2>1. Measured # NoFile
    BY <1>1, <1>3, LogAssumption
  <2>2. PICK k \in 0 .. Len(log[current_file]) : Offset(current_file, k) = Told
    BY <1>3, <2>1 DEF PositionInv
  <2>. QED  BY <1>1, <2>2 DEF IsTorn
<1>. QED  BY <1>2, <1>3

-----------------------------------------------------------------------------
(* The refresh thread runs while the switch is on *)

\* A thread that ends while the switch is on has met a foreign offset or the
\* error of the dictionary, or a start has met it on its way out; and when
\* none runs, a handler or a load that is under way will start one.
WatchInv ==
  /\ (auto_refresh /\ refresh.at = "leaving") => carried \/ missed_start \/ collided
  /\ (auto_refresh /\ refresh.at = "dead" /\ current_file # NoFile) =>
       carried \/ missed_start \/ collided \/ starting > 0 \/ \E c \in Loads : IsLoading(c)

\* After start_auto_refresh has looked at the thread it runs, or is about to.
LEMMA WatchBegins ==
  ASSUME StartAutoRefresh, StartInv, refresh' = refresh
  PROVE  WatchInv'
<1>1. CASE refresh.at = "dead"
  BY <1>1 DEF StartAutoRefresh, StartInv, WatchInv
<1>2. CASE refresh.at # "dead"
  <2>1. missed_start' = (missed_start \/ refresh.at = "leaving")
    BY <1>2 DEF StartAutoRefresh
  <2>. QED  BY <1>2, <2>1 DEF WatchInv
<1>. QED  BY <1>1, <1>2

LEMMA WatchKept ==
  ASSUME Typed, ThreadInv, StartInv, PositionInv, WatchInv, [Next]_vars
  PROVE  WatchInv'
<1>1. CASE GameStep \/ TimerDraw \/ TimerClear \/ UNCHANGED vars
  <2>1. UNCHANGED <<auto_refresh, refresh, current_file, carried, missed_start, collided, starting, load>>
    BY <1>1 DEF GameStep, WriteRecord, TimerDraw, TimerClear, vars, history_vars, start_vars
  <2>. QED  BY <2>1 DEF WatchInv, IsLoading
<1>2. CASE ToggleAutoRefresh
  <2>1. CASE auto_refresh'
    BY <1>2, <2>1, WatchBegins DEF ToggleAutoRefresh
  <2>2. CASE ~auto_refresh'
    BY <2>2 DEF WatchInv
  <2>. QED  BY <2>1, <2>2
<1>3. ASSUME NEW c \in Loads, NEW f \in FILES, ClickFile(c, f)
      PROVE  WatchInv'
  <2>1. UNCHANGED <<auto_refresh, refresh, carried, missed_start, collided>> /\ load'[c].at = "reset"
    BY <1>3, ClickMoves DEF ClickFile, start_vars
  <2>. QED  BY <2>1 DEF WatchInv, IsLoading
<1>4. ASSUME NEW c \in Loads, LoadReset(c) \/ LoadRead(c) \/ LoadParse(c)
      PROVE  WatchInv'
  <2>1. UNCHANGED <<auto_refresh, refresh, carried, missed_start, collided>>
    BY <1>4 DEF LoadReset, LoadRead, LoadParse, history_vars, start_vars
  <2>2. load'[c].at \in {"read", "parse"}
    BY <1>4, ResetMoves, ReadMoves, ParseMoves
  <2>. QED  BY <2>1, <2>2 DEF WatchInv, IsLoading
<1>5. ASSUME NEW c \in Loads, LoadDone(c)
      PROVE  WatchInv'
  <2>1. CASE auto_refresh'
    BY <1>5, <2>1, WatchBegins DEF LoadDone
  <2>2. CASE ~auto_refresh'
    BY <2>2 DEF WatchInv
  <2>. QED  BY <2>1, <2>2
<1>6. CASE Collides \/ \E c \in Loads : LoadCollides(c)
  BY <1>6, CollisionMoves, PassCollisionCounts DEF WatchInv
<1>7. CASE Look \/ Tell \/ Pass \/ Flag
  <2>1. refresh'.at \in {"look", "tell", "parse"}
    BY <1>7, LookMoves, TellMoves, PassMoves, IdleType DEF Passing, IsParsing, Flag, RefreshFlag
  <2>. QED  BY <2>1 DEF WatchInv
<1>8. CASE Breaks
  BY <1>8, TornIsCarried DEF WatchInv
<1>9. CASE Leave
  <2>1. UNCHANGED <<auto_refresh, carried, missed_start, collided>>
    BY <1>9 DEF Leave, RefreshLeave, history_vars, start_vars
  <2>2. \/ ~auto_refresh
        \/ refresh.at = "leaving"
    BY <1>9 DEF Leave, RefreshLeave
  <2>. QED  BY <2>1, <2>2 DEF WatchInv
<1>10. CASE Starts
  BY <1>10 DEF Starts, WatchInv
<1>. QED  BY <1>1, <1>2, <1>3, <1>4, <1>5, <1>6, <1>7, <1>8, <1>9, <1>10, StepKinds, NamedKinds
     DEF LoadStep

-----------------------------------------------------------------------------
(* The screen follows the list *)

\* Events that the screen does not show are still being parsed, or a flag is
\* up for a timer that has not drawn yet.
ScreenInv ==
  (~up_to_date /\ events # NoEvents) =>
    \/ overtaken \/ collided
    \/ \E c \in Loads : IsLoading(c)
    \/ Passing /\ refresh.found = TRUE
    \/ needs_update = TRUE /\ timer # "drawn"

LEMMA ScreenKept ==
  ASSUME Typed, ThreadInv, StartInv, ScreenInv, [Next]_vars
  PROVE  ScreenInv'
<1>1. CASE GameStep \/ ToggleAutoRefresh \/ Starts \/ UNCHANGED vars
  <2>1. UNCHANGED <<up_to_date, events, overtaken, collided, load, needs_update, timer>>
    BY <1>1 DEF GameStep, WriteRecord, ToggleAutoRefresh, Starts, vars, parser_vars, screen_vars,
       history_vars
  <2>2. refresh' = refresh \/ ~Passing
    BY <1>1, StartsMoves DEF GameStep, WriteRecord, ToggleAutoRefresh, vars
  <2>. QED  BY <2>1, <2>2 DEF ScreenInv, IsLoading, NoEvents, Lines, Passing
<1>2. ASSUME NEW c \in Loads, (\E f \in FILES : ClickFile(c, f)) \/ LoadReset(c) \/ LoadRead(c) \/ LoadParse(c)
      PROVE  ScreenInv'
  <2>1. load'[c].at \in {"reset", "read", "parse"}
    BY <1>2, ClickMoves, ResetMoves, ReadMoves, ParseMoves
  <2>. QED  BY <2>1 DEF ScreenInv, IsLoading
<1>3. CASE TimerDraw \/ \E c \in Loads : LoadDone(c)
  <2>1. Redraw /\ NoEvents' = NoEvents
    BY <1>3 DEF TimerDraw, LoadDone, NoEvents, Lines
  <2>. QED  BY <2>1 DEF ScreenInv, Redraw
<1>4. CASE TimerClear
  <2>1. UNCHANGED <<up_to_date, events, overtaken, collided, load, refresh>> /\ timer = "drawn"
    BY <1>4 DEF TimerClear, parser_vars, history_vars
  <2>. QED  BY <2>1 DEF ScreenInv, IsLoading, NoEvents, Lines, Passing
<1>5. CASE Look \/ Breaks \/ Leave
  <2>1. UNCHANGED <<up_to_date, events, overtaken, collided, load, needs_update, timer>>
    BY <1>5 DEF Look, RefreshLook, Breaks, RefreshBreaks, Leave, RefreshLeave, parser_vars, screen_vars,
       history_vars
  <2>2. ~Passing
    BY <1>5, LookMoves, RestMoves
  <2>. QED  BY <2>1, <2>2 DEF ScreenInv, IsLoading, NoEvents, Lines
<1>6. CASE Tell
  <2>1. UNCHANGED <<up_to_date, events, overtaken, collided, load, needs_update, timer>>
    BY <1>6 DEF Tell, RefreshTell, screen_vars
  <2>. QED  BY <1>6, <2>1, TellMoves DEF ScreenInv, IsLoading, NoEvents, Lines
<1>7. CASE Pass
  <2>1. UNCHANGED <<overtaken, collided, load, needs_update, timer>> /\ ParseRecord(refresh.file, refresh.next)
    BY <1>7 DEF Pass, RefreshParse, history_vars
  <2>2. Passing /\ Passing' /\ refresh'.found = refresh.found
        /\ refresh.next \in refresh.next .. refresh.last
    BY <1>7, PassMoves DEF Typed, RefreshStates
  <2>3. CASE IsEvent(log[refresh.file][refresh.next])
    <3>1. refresh'.found = TRUE
      BY <2>2, <2>3 DEF ThreadInv, PassInv
    <3>. QED  BY <2>2, <3>1 DEF ScreenInv
  <2>4. CASE ~IsEvent(log[refresh.file][refresh.next])
    <3>1. events' = events /\ (up_to_date' <=> up_to_date)
      BY <2>1, <2>4 DEF ParseRecord
    <3>. QED  BY <2>1, <2>2, <3>1 DEF ScreenInv, IsLoading, NoEvents, Lines
  <2>. QED  BY <2>3, <2>4
<1>8. CASE Flag
  <2>1. UNCHANGED <<up_to_date, events, collided, load, timer>>
    BY <1>8 DEF Flag, RefreshFlag, parser_vars, history_vars
  <2>2. CASE refresh.found = TRUE
    <3>1. needs_update' = TRUE /\ (timer = "drawn" => overtaken')
      BY <1>8, <2>2 DEF Flag, RefreshFlag
    <3>. QED  BY <2>1, <3>1 DEF ScreenInv
  <2>3. CASE refresh.found = FALSE
    <3>1. (needs_update = TRUE => needs_update' = TRUE) /\ (overtaken => overtaken')
      BY <1>8, <2>3 DEF Flag, RefreshFlag
    <3>. QED  BY <2>1, <2>3, <3>1 DEF ScreenInv, IsLoading, NoEvents, Lines
  <2>. QED  BY <2>2, <2>3 DEF Typed, RefreshStates
<1>9. CASE Collides \/ \E c \in Loads : LoadCollides(c)
  BY <1>9, CollisionMoves, PassCollisionCounts DEF ScreenInv
<1>. QED  BY <1>1, <1>2, <1>3, <1>4, <1>5, <1>6, <1>7, <1>8, <1>9, StepKinds, NamedKinds
     DEF LoadStep

-----------------------------------------------------------------------------
(* How often a record is listed *)

\* Unless two loads have met, one load is under way at most, of the file on
\* view.
CrowdInv ==
  crowded \/ \A c \in Loads : IsLoading(c) =>
               load[c].file = current_file /\ \A d \in Loads : IsLoading(d) => d = c

LEMMA CrowdKept ==
  ASSUME Typed, ThreadInv, StartInv, CrowdInv, [Next]_vars
  PROVE  CrowdInv'
<1>1. CASE NamedStep \/ Aside \/ \E kind \in WRITTEN, a \in AGENTS : WriteRecord(kind, a)
  <2>1. UNCHANGED <<crowded, load, current_file>>
    BY <1>1, NamedFrame, AsideFrame, WriteFrame
  <2>. QED  BY <2>1 DEF CrowdInv, IsLoading
<1>2. ASSUME NEW c \in Loads, NEW f \in FILES, ClickFile(c, f)
      PROVE  CrowdInv'
  <2>1. CASE crowded'
    BY <2>1 DEF CrowdInv
  <2>2. CASE ~crowded'
    <3>1. \A d \in Loads : ~IsLoading(d)
      BY <1>2, <2>2 DEF ClickFile
    <3>2. load'[c].file = f /\ current_file' = f /\ \A d \in Loads : d # c => load'[d] = load[d]
      BY <1>2, ClickMoves DEF ClickFile, OneLoadMoves
    <3>. QED  BY <3>1, <3>2 DEF CrowdInv, IsLoading
  <2>. QED  BY <2>1, <2>2
<1>3. ASSUME NEW c \in Loads, LoadReset(c) \/ LoadRead(c) \/ LoadParse(c)
      PROVE  CrowdInv'
  <2>1. UNCHANGED <<crowded, current_file>>
    BY <1>3 DEF LoadReset, LoadRead, LoadParse, history_vars
  <2>2. /\ IsLoading(c) /\ load'[c].file = load[c].file
        /\ \A d \in Loads : d # c => load'[d] = load[d]
    BY <1>3, ResetMoves, ReadMoves, ParseMoves DEF OneLoadMoves, IsLoading
  <2>3. \A d \in Loads : IsLoading(d)' => IsLoading(d) /\ load'[d].file = load[d].file
    BY <2>2 DEF IsLoading
  <2>. QED  BY <2>1, <2>3 DEF CrowdInv
<1>4. ASSUME NEW c \in Loads, LoadDone(c) \/ LoadCollides(c)
      PROVE  CrowdInv'
  <2>1. UNCHANGED <<crowded, current_file>>
    BY <1>4, CollisionMoves DEF LoadDone, history_vars
  <2>2. load'[c].at = "done" /\ \A d \in Loads : d # c => load'[d] = load[d]
    BY <1>4, DoneMoves, CollisionMoves DEF OneLoadMoves
  <2>3. \A d \in Loads : IsLoading(d)' => IsLoading(d) /\ load'[d].file = load[d].file
    BY <2>2 DEF IsLoading
  <2>. QED  BY <2>1, <2>3 DEF CrowdInv
<1>. QED  BY <1>1, <1>2, <1>3, <1>4, StepCases DEF LoadStep

\* parse_new_lines has passed over the record, before this list was begun or
\* since.  The position never goes back, so it does so once.
HasPassed(f, i) ==
  /\ Offset(f, i - 1) < Told
  /\ ~(Passing /\ refresh.file = f /\ i \in refresh.next .. refresh.last)

\* The load that began this list has parsed the record, or is over.
HasLoaded(f, i) ==
  \A c \in Loads : /\ load[c].at # "read"
                   /\ load[c].at = "parse" => load[c].file = f /\ i < load[c].next

Once(P) == IF P THEN 1 ELSE 0

\* A record is listed once for each, and a record not yet written not at all.
CountBound(f, i) ==
  IF i > Len(log[f]) THEN events[f][i] = 0
  ELSE crowded \/ events[f][i] <= Once(HasPassed(f, i)) + Once(HasLoaded(f, i))

CountInv == \A f \in FILES : \A i \in Lines : CountBound(f, i)

LEMMA CountOfNone ==
  ASSUME NEW f \in FILES, NEW i \in Lines, events'[f][i] = 0
  PROVE  CountBound(f, i)'
BY DEF CountBound, Once

LEMMA CountStands ==
  ASSUME Typed, Grown, NEW f \in FILES, NEW i \in Lines, CountBound(f, i),
         events'[f][i] = events[f][i], crowded' \/ ~crowded,
         i <= Len(log[f]) => (HasPassed(f, i) => HasPassed(f, i)') /\ (HasLoaded(f, i) => HasLoaded(f, i)')
  PROVE  CountBound(f, i)'
<1>1. /\ Len(log[f]) \in Nat /\ Len(log'[f]) \in Nat /\ Len(log[f]) <= Len(log'[f])
      /\ i \in Nat /\ events[f][i] \in Nat
  BY LogType DEF Grown, Lines, Typed
<1>2. CASE i > Len(log[f])
  BY <1>2, CountOfNone DEF CountBound
<1>3. CASE i <= Len(log[f])
  BY <1>1, <1>3 DEF CountBound, Once
<1>. QED  BY <1>1, <1>2, <1>3

\* The position does not go back, and a thread that parses gets on.
LEMMA PassedStays ==
  ASSUME Typed, Grown, NEW f \in FILES, NEW i \in Lines, i <= Len(log[f]), HasPassed(f, i),
         Told' = Told, refresh' = refresh \/ ~Passing'
  PROVE  HasPassed(f, i)'
<1>1. i - 1 \in 0 .. Len(log[f])
  BY LogType DEF Lines
<1>2. Offset(f, i - 1)' = Offset(f, i - 1)
  BY <1>1, OffsetKept
<1>. QED  BY <1>2 DEF HasPassed, Passing

LEMMA LoadedStays ==
  ASSUME NEW f, NEW i, HasLoaded(f, i), load' = load
  PROVE  HasLoaded(f, i)'
BY DEF HasLoaded

\* A record that a thread parses is counted once more.
LEMMA CountGrows ==
  ASSUME Typed, NEW f \in FILES, NEW i \in 1 .. Len(log[f]), Counted(f, i), log' = log,
         CountBound(f, i), crowded' = crowded,
         crowded \/ \/ ~HasPassed(f, i) /\ HasPassed(f, i)' /\ (HasLoaded(f, i) => HasLoaded(f, i)')
                    \/ ~HasLoaded(f, i) /\ HasLoaded(f, i)' /\ (HasPassed(f, i) => HasPassed(f, i)')
  PROVE  CountBound(f, i)'
<1>1. /\ Len(log[f]) \in Nat /\ i \in Nat /\ i <= Len(log[f]) /\ i \in Lines
  BY LogType
<1>2. events[f][i] \in Nat /\ events'[f][i] <= events[f][i] + 1
  BY <1>1 DEF Typed, Counted
<1>3. events'[f][i] \in Nat
  BY <1>1 DEF Counted
<1>4. CASE crowded
  BY <1>1, <1>4 DEF CountBound
<1>5. CASE ~crowded
  <2>1. events[f][i] <= Once(HasPassed(f, i)) + Once(HasLoaded(f, i))
    BY <1>1, <1>5 DEF CountBound
  <2>2. events'[f][i] <= Once(HasPassed(f, i)') + Once(HasLoaded(f, i)')
    BY <1>2, <1>3, <1>5, <2>1 DEF Once
  <2>. QED  BY <1>1, <2>2 DEF CountBound
<1>. QED  BY <1>4, <1>5

LEMMA ToldType ==
  ASSUME Typed
  PROVE  Told \in Nat
BY DEF Told, Typed, RefreshStates

LEMMA OffsetSame ==
  ASSUME log' = log, NEW f, NEW i
  PROVE  Offset(f, i)' = Offset(f, i)
BY DEF Offset

\* A load that parses its next record, and goes on or is ended by the error.
LEMMA CountRecord ==
  ASSUME Typed, ThreadInv, CrowdInv, CountInv, NEW c \in Loads, Parses(load[c]),
         Counted(load[c].file, load[c].next), UNCHANGED <<log, refresh, crowded>>, Told' = Told,
         \/ load'[c].at = "done"
         \/ /\ load'[c].at = "parse" /\ load'[c].file = load[c].file
            /\ load'[c].next = load[c].next + 1,
         \A d \in Loads : d # c => load'[d] = load[d],
         NEW f \in FILES, NEW i \in Lines
  PROVE  CountBound(f, i)'
<1>0. CountBound(f, i) /\ Grown
  BY SameLogGrows DEF CountInv
<1>1. /\ load[c].at = "parse"
      /\ load[c].file \in FILES /\ load[c].next \in 1 .. Len(log[load[c].file])
      /\ Len(log[f]) \in Nat /\ i \in Nat /\ load[c].next \in Nat
  BY ParsedIsThere, LogType DEF Lines, Parses
<1>2. CASE f = load[c].file /\ i = load[c].next
  <2>1. i \in 1 .. Len(log[f]) /\ Counted(f, i)
    BY <1>1, <1>2
  <2>2. HasPassed(f, i) => HasPassed(f, i)'
    BY <1>0, <2>1, PassedStays
  <2>3. ~HasLoaded(f, i)
    BY <1>1, <1>2 DEF HasLoaded
  <2>4. ASSUME ~crowded PROVE HasLoaded(f, i)'
    <3>1. \A d \in Loads : IsLoading(d) => d = c
      BY <1>1, <2>4 DEF CrowdInv, IsLoading
    <3>2. \A d \in Loads : d # c => load'[d].at # "read" /\ load'[d].at # "parse"
      BY <3>1 DEF IsLoading
    <3>. QED  BY <1>1, <1>2, <3>2 DEF HasLoaded
  <2>. QED  BY <1>0, <2>1, <2>2, <2>3, <2>4, CountGrows
<1>3. CASE ~(f = load[c].file /\ i = load[c].next)
  <2>1. events'[f][i] = events[f][i]
    BY <1>1, <1>3 DEF Counted
  <2>2. HasLoaded(f, i) => HasLoaded(f, i)'
    BY <1>1 DEF HasLoaded
  <2>. QED  BY <1>0, <2>1, <2>2, PassedStays, CountStands
<1>. QED  BY <1>2, <1>3

LEMMA CountLoads ==
  ASSUME Typed, ThreadInv, CrowdInv, CountInv, NEW c \in Loads,
         LoadStep(c) \/ \E f \in FILES : ClickFile(c, f)
  PROVE  CountInv'
<1>. SUFFICES ASSUME NEW f \in FILES, NEW i \in Lines
              PROVE  CountBound(f, i)'
  BY DEF CountInv, Lines
<1>0. CountBound(f, i)
  BY DEF CountInv
<1>1. UNCHANGED <<log, refresh>> /\ Told' = Told
  BY LoadFrame
<1>2. Grown
  BY <1>1, SameLogGrows
<1>3. CASE \E g \in FILES : ClickFile(c, g)
  <2>1. events' = events /\ (crowded' \/ ~crowded)
    BY <1>3 DEF ClickFile, parser_vars
  <2>2. HasLoaded(f, i) => HasLoaded(f, i)'
    <3>1. load'[c].at = "reset" /\ \A d \in Loads : d # c => load'[d] = load[d]
      BY <1>3, ClickMoves DEF OneLoadMoves
    <3>. QED  BY <3>1 DEF HasLoaded
  <2>. QED  BY <1>0, <1>1, <1>2, <2>1, <2>2, PassedStays, CountStands
<1>4. CASE LoadReset(c)
  <2>1. events'[f][i] = 0
    BY <1>4 DEF LoadReset, NoEvents
  <2>. QED  BY <2>1, CountOfNone
<1>5. CASE LoadRead(c)
  <2>1. events' = events /\ crowded' = crowded
    BY <1>5 DEF LoadRead, parser_vars, history_vars
  <2>2. ~HasLoaded(f, i)
    BY <1>5 DEF HasLoaded, LoadRead
  <2>. QED  BY <1>0, <1>1, <1>2, <2>1, <2>2, PassedStays, CountStands
<1>6. CASE LoadParse(c)
  <2>1. /\ crowded' = crowded /\ Parses(load[c]) /\ ParseRecord(load[c].file, load[c].next)
    BY <1>6 DEF LoadParse, history_vars
  <2>2. /\ load'[c].at = "parse" /\ load'[c].file = load[c].file
        /\ load'[c].next = load[c].next + 1 /\ \A d \in Loads : d # c => load'[d] = load[d]
    BY <1>6, ParseMoves DEF OneLoadMoves
  <2>3. Counted(load[c].file, load[c].next)
    BY <2>1, ParsedIsThere, EventIsCounted
  <2>. QED  BY <1>1, <2>1, <2>2, <2>3, CountRecord
<1>7. ASSUME events' = events, crowded' = crowded, OneLoadMoves(c), load'[c].at = "done"
      PROVE  CountBound(f, i)'
  <2>1. HasLoaded(f, i) => HasLoaded(f, i)'
    BY <1>7 DEF HasLoaded, OneLoadMoves
  <2>. QED  BY <1>0, <1>1, <1>2, <1>7, <2>1, PassedStays, CountStands
<1>8. CASE LoadDone(c)
  <2>1. events' = events /\ crowded' = crowded
    BY <1>8 DEF LoadDone, parser_vars, history_vars
  <2>. QED  BY <1>7, <1>8, <2>1, DoneMoves
<1>9. CASE LoadCollides(c)
  <2>1. crowded' = crowded /\ OneLoadMoves(c) /\ load'[c].at = "done"
    BY <1>9, CollisionMoves
  <2>2. CASE events' = events
    BY <1>7, <2>1, <2>2
  <2>3. CASE Parses(load[c]) /\ Counted(load[c].file, load[c].next)
    BY <1>1, <2>1, <2>3, CountRecord DEF OneLoadMoves
  <2>. QED  BY <1>9, <2>2, <2>3, LoadCollisionCounts
<1>. QED  BY <1>3, <1>4, <1>5, <1>6, <1>8, <1>9 DEF LoadStep

\* The refresh thread parses its next record, and goes on or is ended.
LEMMA CountNext ==
  ASSUME Typed, ThreadInv, CountInv, Parses(refresh), Counted(refresh.file, refresh.next),
         UNCHANGED <<log, load, crowded>>, Told' = Told,
         \/ ~Passing'
         \/ /\ refresh'.file = refresh.file
            /\ refresh'.next = refresh.next + 1 /\ refresh'.last = refresh.last,
         NEW f \in FILES, NEW i \in Lines
  PROVE  CountBound(f, i)'
<1>0. CountBound(f, i) /\ Grown /\ Passing
  BY SameLogGrows DEF CountInv, Parses, Passing, IsParsing
<1>1. HasLoaded(f, i) => HasLoaded(f, i)'
  BY LoadedStays
<1>2. /\ i \in Nat /\ i - 1 \in Nat /\ Len(log[f]) \in Nat /\ Offset(f, i - 1) \in Nat
      /\ Offset(f, i - 1)' = Offset(f, i - 1)
  <2>1. i \in Nat /\ i - 1 \in Nat /\ Len(log[f]) \in Nat
    BY LogType DEF Lines
  <2>. QED  BY <2>1, OffsetType, OffsetSame
<1>3. /\ refresh.file \in FILES /\ refresh.next \in 1 .. Len(log[refresh.file])
      /\ refresh.next \in Nat /\ refresh.last \in Nat /\ refresh.next <= refresh.last
  BY ParsedIsThere DEF Typed, RefreshStates, Parses
<1>4. Told \in Nat
  BY ToldType
<1>5. CASE f = refresh.file /\ i = refresh.next
  <2>1. i \in 1 .. Len(log[f]) /\ Counted(f, i)
    BY <1>3, <1>5
  <2>2. ~HasPassed(f, i)
    BY <1>0, <1>3, <1>5 DEF HasPassed
  <2>3. Offset(f, refresh.last) <= Told
    BY <1>0, <1>5 DEF ThreadInv, PassInv
  <2>4. Offset(f, i - 1) < Offset(f, refresh.last) /\ Offset(f, refresh.last) \in Nat
    BY <1>2, <1>3, <1>5, OffsetGrows, OffsetType
  <2>5. HasPassed(f, i)'
    BY <1>2, <1>3, <1>4, <1>5, <2>3, <2>4 DEF HasPassed
  <2>. QED  BY <1>0, <1>1, <2>1, <2>2, <2>5, CountGrows
<1>6. CASE ~(f = refresh.file /\ i = refresh.next)
  <2>1. events'[f][i] = events[f][i]
    BY <1>3, <1>6 DEF Counted
  <2>2. HasPassed(f, i) => HasPassed(f, i)'
    BY <1>0, <1>2, <1>3 DEF HasPassed
  <2>. QED  BY <1>0, <1>1, <2>1, <2>2, CountStands
<1>. QED  BY <1>5, <1>6

LEMMA CountPasses ==
  ASSUME Typed, ThreadInv, CountInv, NamedStep
  PROVE  CountInv'
<1>. SUFFICES ASSUME NEW f \in FILES, NEW i \in Lines
              PROVE  CountBound(f, i)'
  BY DEF CountInv, Lines
<1>0. CountBound(f, i)
  BY DEF CountInv
<1>1. log' = log /\ load' = load /\ crowded' = crowded
  BY NamedFrame
<1>2. Grown
  BY <1>1, SameLogGrows
<1>3. HasLoaded(f, i) => HasLoaded(f, i)'
  BY <1>1, LoadedStays
<1>4. i \in Nat /\ i - 1 \in Nat /\ Len(log[f]) \in Nat /\ Offset(f, i - 1) \in Nat
      /\ Offset(f, i - 1)' = Offset(f, i - 1) /\ Told \in Nat
  <2>1. i \in Nat /\ i - 1 \in Nat /\ Len(log[f]) \in Nat
    BY LogType DEF Lines
  <2>. QED  BY <1>1, <2>1, OffsetType, OffsetSame, ToldType
<1>5. CASE Look
  <2>1. events' = events
    BY <1>5 DEF Look, RefreshLook, parser_vars
  <2>2. /\ current_file \in FILES /\ refresh'.file = current_file
        /\ refresh'.next = FirstFrom(current_file, Told)
        /\ refresh'.last = Len(log[current_file])
        /\ Told' \in Nat /\ Told' >= Told
    BY <1>5, LookMoves
  <2>3. ASSUME HasPassed(f, i) PROVE HasPassed(f, i)'
    <3>1. Offset(f, i - 1) < Told
      BY <2>3 DEF HasPassed
    <3>2. ASSUME f = current_file, i \in refresh'.next .. refresh'.last PROVE FALSE
      <4>. DEFINE n == FirstFrom(f, Told)
      <4>1. /\ n \in 1 .. Len(log[f]) + 1
            /\ Offset(f, n - 1) >= Told \/ n = Len(log[f]) + 1
        BY <1>4, FirstIsFirst
      <4>2. n <= i /\ i <= Len(log[f])
        BY <1>4, <2>2, <3>2, <4>1
      <4>. HIDE DEF n
      <4>3. n - 1 \in Nat /\ n - 1 <= i - 1 /\ Offset(f, n - 1) >= Told
        BY <1>4, <4>1, <4>2
      <4>4. Offset(f, n - 1) <= Offset(f, i - 1) /\ Offset(f, n - 1) \in Nat
        BY <1>4, <4>3, OffsetOrder, OffsetType
      <4>. QED  BY <1>4, <3>1, <4>3, <4>4
    <3>3. Offset(f, i - 1) < Told'
      BY <1>4, <2>2, <3>1
    <3>. QED  BY <1>4, <2>2, <3>2, <3>3 DEF HasPassed
  <2>. QED  BY <1>0, <1>1, <1>2, <1>3, <2>1, <2>3, CountStands
<1>6. CASE Pass
  <2>1. Parses(refresh) /\ ParseRecord(refresh.file, refresh.next)
    BY <1>6 DEF Pass, RefreshParse
  <2>2. Counted(refresh.file, refresh.next)
    BY <2>1, ParsedIsThere, EventIsCounted
  <2>. QED  BY <1>1, <1>6, <2>1, <2>2, PassMoves, CountNext
<1>7. CASE Collides
  BY <1>1, <1>7, RestMoves, PassCollisionCounts, CountNext
<1>8. CASE Tell
  <2>1. events' = events
    BY <1>8 DEF Tell, RefreshTell
  <2>2. HasPassed(f, i) => HasPassed(f, i)'
    BY <1>4, <1>8, TellMoves DEF HasPassed
  <2>. QED  BY <1>0, <1>1, <1>2, <1>3, <2>1, <2>2, CountStands
<1>9. CASE Breaks \/ Flag \/ Leave
  <2>1. events' = events
    BY <1>9 DEF Breaks, RefreshBreaks, Flag, RefreshFlag, Leave, RefreshLeave, parser_vars
  <2>2. ~Passing' /\ Told' = Told
    BY <1>9, RestMoves
  <2>. QED  BY <1>0, <1>1, <1>2, <1>3, <2>1, <2>2, PassedStays, CountStands
<1>. QED  BY <1>5, <1>6, <1>7, <1>8, <1>9, NamedKinds

LEMMA CountKept ==
  ASSUME Typed, ThreadInv, StartInv, CrowdInv, CountInv, [Next]_vars
  PROVE  CountInv'
<1>1. CASE Aside \/ \E kind \in WRITTEN, a \in AGENTS : WriteRecord(kind, a)
  <2>1. UNCHANGED <<events, load, crowded>> /\ Told' = Told
    BY <1>1, AsideFrame, WriteFrame
  <2>2. Grown
    BY <1>1, WriteGrows, SameLogGrows, AsideFrame
  <2>3. refresh' = refresh \/ ~Passing'
    BY <1>1, AsideFrame, WriteFrame
  <2>4. ASSUME NEW f \in FILES, NEW i \in Lines PROVE CountBound(f, i)'
    BY <2>1, <2>2, <2>3, PassedStays, LoadedStays, CountStands DEF CountInv
  <2>. QED  BY <2>4 DEF CountInv, Lines
<1>. QED  BY <1>1, CountLoads, CountPasses, StepCases

-----------------------------------------------------------------------------
(* No record is lost *)

\* A thread has yet to parse the record.
InPass(f, i) ==
  Passing /\ refresh.file = f /\ i \in refresh.next .. refresh.last

InLoad(f, i) ==
  \E c \in Loads : /\ load[c].file = f
                   /\ \/ load[c].at \in {"reset", "read"}
                      \/ load[c].at = "parse" /\ i \in load[c].next .. load[c].last

IsCared(f, i) ==
  (IsEvent(log[f][i]) /\ Offset(f, i) <= Told) =>
    events[f][i] > 0 \/ InPass(f, i) \/ InLoad(f, i)

\* A record before the position is in the list, or a thread is about to put
\* it there.
CareInv ==
  carried \/ crowded \/ collided \/
    \A f \in FILES : (Measured = f /\ current_file = f) => \A i \in 1 .. Len(log[f]) : IsCared(f, i)

LEMMA CareStands ==
  ASSUME Typed, Grown, NEW f \in FILES, NEW i \in 1 .. Len(log[f]), IsCared(f, i),
         Told' = Told, events[f][i] > 0 => events'[f][i] > 0,
         InPass(f, i) => InPass(f, i)' \/ (IsEvent(log[f][i]) => events'[f][i] > 0),
         InLoad(f, i) => InLoad(f, i)' \/ (IsEvent(log[f][i]) => events'[f][i] > 0)
  PROVE  IsCared(f, i)'
<1>1. i \in 0 .. Len(log[f])
  BY LogType
<1>2. Offset(f, i)' = Offset(f, i) /\ log'[f][i] = log[f][i]
  BY <1>1, OffsetKept DEF Grown
<1>. QED  BY <1>2 DEF IsCared, IsEvent

\* What is needed of a step that moves neither the position nor the file.
LEMMA CareByRecord ==
  ASSUME Typed, CareInv, log' = log, UNCHANGED <<Measured, current_file>>,
         carried' \/ ~carried, crowded' \/ ~crowded, collided' \/ ~collided,
         \A f \in FILES : (Measured = f /\ current_file = f) =>
           \A i \in 1 .. Len(log[f]) : IsCared(f, i) => IsCared(f, i)'
  PROVE  CareInv'
BY DEF CareInv

LEMMA CareLoads ==
  ASSUME Typed, ThreadInv, CrowdInv, CareInv, NEW c \in Loads,
         LoadStep(c) \/ \E f \in FILES : ClickFile(c, f)
  PROVE  CareInv'
<1>1. /\ log' = log /\ Told' = Told /\ Measured' = Measured /\ carried' = carried
      /\ refresh' = refresh /\ (Passing <=> Passing') /\ (collided' \/ ~collided)
  BY LoadFrame
<1>2. Grown
  BY <1>1, SameLogGrows
<1>3. ASSUME NEW g \in FILES, ClickFile(c, g) PROVE CareInv'
  <2>1. current_file' = g /\ load'[c].at = "reset" /\ load'[c].file = g
    BY <1>3, ClickMoves DEF ClickFile
  <2>2. \A i : InLoad(g, i)'
    BY <2>1 DEF InLoad
  <2>3. \A i : IsCared(g, i)'
    BY <2>2 DEF IsCared
  <2>. QED  BY <2>1, <2>3 DEF CareInv
<1>4. CASE LoadReset(c) \/ LoadRead(c)
  <2>1. current_file' = current_file /\ crowded' = crowded
    BY <1>4 DEF LoadReset, LoadRead, history_vars
  <2>2. CASE crowded
    BY <2>1, <2>2 DEF CareInv
  <2>3. CASE ~crowded
    <3>1. load[c].file = current_file /\ current_file \in FILES
      BY <1>4, <2>3, ResetMoves, ReadMoves DEF CrowdInv, IsLoading, ThreadInv, LoadsInv
    <3>2. PICK f \in FILES : f = current_file
      BY <3>1
    <3>3. /\ load'[c].file = f
          /\ \/ load'[c].at = "read"
             \/ load'[c].at = "parse" /\ load'[c].next = 1 /\ load'[c].last = Len(log[f])
      BY <1>4, <3>1, <3>2, ResetMoves, ReadMoves
    <3>4. \A i \in 1 .. Len(log[f]) : InLoad(f, i)'
      BY <3>3 DEF InLoad
    <3>5. \A i \in 1 .. Len(log'[f]) : IsCared(f, i)'
      BY <1>1, <3>4 DEF IsCared
    <3>. QED  BY <2>1, <3>2, <3>5 DEF CareInv
  <2>. QED  BY <2>2, <2>3
<1>5. CASE LoadParse(c)
  <2>1. /\ current_file' = current_file /\ crowded' = crowded
        /\ Parses(load[c]) /\ ParseRecord(load[c].file, load[c].next)
    BY <1>5 DEF LoadParse, history_vars
  <2>2. /\ load[c].at = "parse" /\ load'[c].at = "parse" /\ load'[c].file = load[c].file
        /\ load'[c].next = load[c].next + 1 /\ load'[c].last = load[c].last
        /\ \A d \in Loads : d # c => load'[d] = load[d]
    BY <1>5, ParseMoves DEF OneLoadMoves
  <2>3. /\ load[c].file \in FILES /\ load[c].next \in 1 .. Len(log[load[c].file])
        /\ load[c].next \in Nat /\ load[c].last \in Nat
    BY <2>1, ParsedIsThere DEF Typed, LoadStates
  <2>4. ASSUME NEW f \in FILES, NEW i \in 1 .. Len(log[f]), IsCared(f, i)
        PROVE  IsCared(f, i)'
    <3>1. i \in Nat /\ i \in Lines /\ events[f][i] \in Nat
      BY LogType DEF Typed
    <3>2. events[f][i] > 0 => events'[f][i] > 0
      BY <2>1, <2>3, <3>1, EventIsCounted DEF Counted
    <3>3. InPass(f, i) => InPass(f, i)'
      BY <1>1 DEF InPass
    <3>4. CASE f = load[c].file /\ i = load[c].next
      <4>1. IsEvent(log[f][i]) => events'[f][i] > 0
        BY <2>1, <3>1, <3>4, EventIsCounted
      <4>. QED  BY <1>1, <1>2, <2>4, <3>2, <3>3, <4>1, CareStands
    <3>5. CASE ~(f = load[c].file /\ i = load[c].next)
      <4>1. InLoad(f, i) => InLoad(f, i)'
        <5>1. ASSUME NEW d \in Loads, load[d].file = f,
                     \/ load[d].at \in {"reset", "read"}
                     \/ load[d].at = "parse" /\ i \in load[d].next .. load[d].last
              PROVE  InLoad(f, i)'
          <6>1. CASE d = c
            BY <2>2, <2>3, <3>1, <3>5, <5>1, <6>1 DEF InLoad
          <6>2. CASE d # c
            BY <2>2, <5>1, <6>2 DEF InLoad
          <6>. QED  BY <6>1, <6>2
        <5>. QED  BY <5>1 DEF InLoad
      <4>. QED  BY <1>1, <1>2, <2>4, <3>2, <3>3, <4>1, CareStands
    <3>. QED  BY <3>4, <3>5
  <2>. QED  BY <1>1, <2>1, <2>4, CareByRecord
<1>6. CASE LoadDone(c)
  <2>1. current_file' = current_file /\ crowded' = crowded /\ events' = events
    BY <1>6 DEF LoadDone, history_vars, parser_vars
  <2>3. /\ load[c].at = "parse" /\ load[c].next > load[c].last
        /\ \A d \in Loads : d # c => load'[d] = load[d]
        /\ load[c].next \in Nat /\ load[c].last \in Nat
    BY <1>6, DoneMoves DEF OneLoadMoves, Typed, LoadStates
  <2>4. ASSUME NEW f \in FILES, NEW i \in 1 .. Len(log[f]), IsCared(f, i)
        PROVE  IsCared(f, i)'
    <3>1. InPass(f, i) => InPass(f, i)'
      BY <1>1 DEF InPass
    <3>2. InLoad(f, i) => InLoad(f, i)'
      <4>1. ~(load[c].at \in {"reset", "read"}) /\ ~(i \in load[c].next .. load[c].last)
        BY <2>3
      <4>. QED  BY <2>3, <4>1 DEF InLoad
    <3>. QED  BY <1>1, <1>2, <2>1, <2>4, <3>1, <3>2, CareStands
  <2>. QED  BY <1>1, <2>1, <2>4, CareByRecord
<1>7. CASE LoadCollides(c)
  BY <1>7, CollisionMoves DEF CareInv
<1>. QED  BY <1>3, <1>4, <1>5, <1>6, <1>7 DEF LoadStep

\* A look resumes behind record k, where the last one ended, or begins with
\* the first record; it ends with the last one.
LEMMA LookResumes ==
  ASSUME Typed, ThreadInv, PositionInv, Look, ~carried', NEW f \in FILES, f = current_file
  PROVE  \E k \in 0 .. Len(log[f]) :
           /\ Offset(f, k) = Told /\ (k > 0 => Measured = f) /\ ~carried
           /\ refresh'.next = k + 1 /\ refresh'.last = Len(log[f])
           /\ Told' = Offset(f, Len(log[f]))
<1>1. carried' = (carried \/ (Told > 0 /\ Measured # f))
  BY LookMoves DEF Look, RefreshLook
<1>2. /\ refresh'.next = FirstFrom(f, Told) /\ refresh'.last = Len(log[f])
      /\ Told' \in {Told, Size(f)} /\ Told' >= Size(f)
  BY LookMoves
<1>3. Len(log[f]) \in Nat /\ Told \in Nat
  BY LogType, ToldType
<1>4. ~carried /\ ~(Told > 0 /\ Measured # f)
  BY <1>1, Zenon
<1>5. PICK k \in 0 .. Len(log[f]) : Offset(f, k) = Told /\ (k > 0 => Measured = f)
  <2>1. CASE Told = 0
    BY <1>3, <2>1, OffsetZero
  <2>2. CASE Told # 0
    <3>1. Measured = f
      BY <1>3, <1>4, <2>2
    <3>. QED  BY <1>4, <2>2, <3>1 DEF PositionInv
  <2>. QED  BY <2>1, <2>2
<1>6. refresh'.next = k + 1
  BY <1>2, <1>3, <1>5, FirstBehind
<1>7. Size(f) \in Nat /\ Told <= Size(f)
  <2>1. k \in Nat /\ k <= Len(log[f])
    BY <1>3
  <2>. QED  BY <1>3, <1>5, <2>1, OffsetOrder, OffsetType DEF Size
<1>8. Told' = Offset(f, Len(log[f]))
  BY <1>2, <1>3, <1>7 DEF Size
<1>. QED  BY <1>2, <1>4, <1>5, <1>6, <1>8

\* A look takes up every record behind the position, the end of a record.
LEMMA CareLook ==
  ASSUME Typed, ThreadInv, PositionInv, CareInv, Look
  PROVE  CareInv'
<1>0. PICK f \in FILES : f = current_file
  BY LookMoves
<1>1. /\ log' = log /\ events' = events /\ load' = load /\ crowded' = crowded
      /\ Measured' = f /\ current_file' = f /\ collided' = collided
  BY <1>0, LookMoves DEF Look, RefreshLook, parser_vars
<1>2. ~Passing /\ Passing' /\ refresh'.file = f
  BY <1>0, LookMoves
<1>3. Len(log[f]) \in Nat
  BY LogType
<1>4. CASE carried' \/ crowded' \/ collided'
  BY <1>4 DEF CareInv
<1>5. CASE ~carried' /\ ~crowded' /\ ~collided'
  <2>1. PICK k \in 0 .. Len(log[f]) :
          /\ Offset(f, k) = Told /\ (k > 0 => Measured = f) /\ ~carried
          /\ refresh'.next = k + 1 /\ refresh'.last = Len(log[f])
    BY <1>0, <1>5, LookResumes
  <2>2. ASSUME NEW i \in 1 .. Len(log[f]) PROVE IsCared(f, i)'
    <3>1. CASE i > k
      <4>1. InPass(f, i)'
        BY <1>2, <1>3, <2>1, <3>1 DEF InPass
      <4>. QED  BY <4>1 DEF IsCared
    <3>2. CASE i <= k
      <4>1. i \in Nat /\ k \in Nat /\ Measured = f
        BY <1>3, <2>1, <3>2
      <4>2. Offset(f, i) <= Told
        BY <2>1, <3>2, <4>1, OffsetOrder
      <4>3. IsCared(f, i)
        BY <1>0, <1>1, <1>5, <2>1, <4>1 DEF CareInv
      <4>4. IsEvent(log[f][i]) => events[f][i] > 0 \/ InLoad(f, i)
        BY <1>2, <4>2, <4>3 DEF IsCared, InPass
      <4>5. InLoad(f, i) => InLoad(f, i)'
        BY <1>1 DEF InLoad
      <4>. QED  BY <1>1, <4>4, <4>5 DEF IsCared
    <3>. QED  BY <1>3, <3>1, <3>2
  <2>. QED  BY <1>1, <2>2 DEF CareInv
<1>. QED  BY <1>4, <1>5

LEMMA CarePasses ==
  ASSUME Typed, ThreadInv, PositionInv, CareInv, NamedStep
  PROVE  CareInv'
<1>0. /\ log' = log /\ load' = load /\ current_file' = current_file /\ crowded' = crowded
      /\ carried' \/ ~carried
      /\ collided' \/ ~collided
  BY NamedFrame
<1>1. CASE Pass
  <2>1. Parses(refresh) /\ ParseRecord(refresh.file, refresh.next)
    BY <1>1 DEF Pass, RefreshParse
  <2>2. /\ Passing /\ Passing' /\ refresh'.file = refresh.file
        /\ refresh'.next = refresh.next + 1 /\ refresh'.last = refresh.last
        /\ Told' = Told /\ Measured' = Measured
    BY <1>1, PassMoves
  <2>3. /\ refresh.file \in FILES /\ refresh.next \in 1 .. Len(log[refresh.file])
        /\ refresh.next \in Nat /\ refresh.last \in Nat
    BY <2>1, ParsedIsThere DEF Typed, RefreshStates
  <2>4. ASSUME NEW f \in FILES, NEW i \in 1 .. Len(log[f]), IsCared(f, i)
        PROVE  IsCared(f, i)'
    <3>1. i \in Nat /\ i \in Lines /\ events[f][i] \in Nat
      BY LogType DEF Typed
    <3>2. events[f][i] > 0 => events'[f][i] > 0
      BY <2>1, <2>3, <3>1, EventIsCounted DEF Counted
    <3>3. InLoad(f, i) => InLoad(f, i)'
      BY <1>0 DEF InLoad
    <3>4. InPass(f, i) => InPass(f, i)' \/ (IsEvent(log[f][i]) => events'[f][i] > 0)
      <4>1. CASE f = refresh.file /\ i = refresh.next
        BY <2>1, <3>1, <4>1, EventIsCounted
      <4>2. CASE ~(f = refresh.file /\ i = refresh.next)
        BY <2>2, <2>3, <3>1, <4>2 DEF InPass
      <4>. QED  BY <4>1, <4>2
    <3>. QED  BY <1>0, <2>2, <2>4, <3>2, <3>3, <3>4, SameLogGrows, CareStands
  <2>. QED  BY <1>0, <2>2, <2>4, CareByRecord
<1>2. CASE Tell \/ Breaks \/ Flag \/ Leave
  <2>1. events' = events /\ Told' = Told /\ Measured' = Measured
    BY <1>2, TellMoves, RestMoves
       DEF Tell, RefreshTell, Breaks, RefreshBreaks, Flag, RefreshFlag, Leave, RefreshLeave, parser_vars
  <2>2. refresh.next \in Nat /\ refresh.last \in Nat
    BY DEF Typed, RefreshStates
  <2>3. ASSUME NEW f \in FILES, NEW i \in 1 .. Len(log[f]), IsCared(f, i)
        PROVE  IsCared(f, i)'
    <3>1. InPass(f, i) => InPass(f, i)'
      <4>1. CASE Tell
        BY <4>1, TellMoves DEF InPass
      <4>2. CASE ~Tell
        <5>1. ~Passing \/ refresh.next > refresh.last
          BY <1>2, <4>2, RestMoves DEF Flag, RefreshFlag
        <5>. QED  BY <2>2, <5>1 DEF InPass
      <4>. QED  BY <4>1, <4>2
    <3>2. InLoad(f, i) => InLoad(f, i)'
      BY <1>0 DEF InLoad
    <3>. QED  BY <1>0, <2>1, <2>3, <3>1, <3>2, SameLogGrows, CareStands
  <2>. QED  BY <1>0, <2>1, <2>3, CareByRecord
<1>3. CASE Collides
  BY <1>3, PassCollisionCounts DEF CareInv
<1>. QED  BY <1>1, <1>2, <1>3, CareLook, NamedKinds

LEMMA CareKept ==
  ASSUME Typed, ThreadInv, StartInv, PositionInv, CrowdInv, CareInv, [Next]_vars
  PROVE  CareInv'
<1>1. ASSUME NEW kind \in WRITTEN, NEW a \in AGENTS, WriteRecord(kind, a)
      PROVE  CareInv'
  <2>1. /\ UNCHANGED <<events, load, refresh, crowded, carried, collided, current_file>>
        /\ Told' = Told /\ Measured' = Measured /\ (Passing <=> Passing')
    BY <1>1, WriteFrame
  <2>2. /\ Grown /\ Len(log'[LIVE]) = Len(log[LIVE]) + 1
        /\ \A f \in FILES : f # LIVE => log'[f] = log[f]
    BY <1>1, WriteGrows
  <2>3. SUFFICES ASSUME ~carried, ~crowded, ~collided, NEW f \in FILES, Measured = f, current_file = f,
                        NEW i \in 1 .. Len(log'[f])
                 PROVE  IsCared(f, i)'
    BY <2>1 DEF CareInv
  <2>4. Len(log[f]) \in Nat /\ (f = LIVE => Len(log'[f]) = Len(log[f]) + 1)
    BY <2>2, LogType
  <2>5. CASE i <= Len(log[f])
    <3>1. i \in 1 .. Len(log[f])
      BY <2>2, <2>4, <2>5
    <3>2. IsCared(f, i)
      BY <2>3, <3>1 DEF CareInv
    <3>3. InPass(f, i) => InPass(f, i)'
      BY <2>1 DEF InPass
    <3>4. InLoad(f, i) => InLoad(f, i)'
      BY <2>1 DEF InLoad
    <3>. QED  BY <2>1, <2>2, <3>1, <3>2, <3>3, <3>4, CareStands
  <2>6. CASE i > Len(log[f])
    <3>1. f # NoFile
      BY LogAssumption
    <3>2. PICK k \in 0 .. Len(log[f]) : Offset(f, k) = Told
      BY <2>3, <3>1 DEF PositionInv
    <3>3. Offset(f, k)' = Told'
      BY <2>1, <2>2, <3>2, OffsetKept
    <3>4. k \in Nat /\ i \in Nat /\ k < i
      BY <2>2, <2>4, <2>6
    <3>5. Offset(f, k)' < Offset(f, i)' /\ Offset(f, k)' \in Nat /\ Offset(f, i)' \in Nat
      BY <3>4, OffsetGrows
    <3>. QED  BY <3>3, <3>4, <3>5 DEF IsCared
  <2>. QED  BY <2>4, <2>5, <2>6
<1>2. CASE Aside
  <2>1. /\ UNCHANGED <<log, events, load, crowded, carried, collided, current_file>>
        /\ Told' = Told /\ Measured' = Measured
    BY <1>2, AsideFrame
  <2>2. (refresh' = refresh /\ (Passing <=> Passing')) \/ ~Passing
    BY <1>2, AsideFrame
  <2>3. ASSUME NEW f \in FILES, NEW i \in 1 .. Len(log[f]), IsCared(f, i)
        PROVE  IsCared(f, i)'
    <3>1. InPass(f, i) => InPass(f, i)'
      BY <2>2 DEF InPass
    <3>2. InLoad(f, i) => InLoad(f, i)'
      BY <2>1 DEF InLoad
    <3>. QED  BY <2>1, <2>3, <3>1, <3>2, SameLogGrows, CareStands
  <2>. QED  BY <2>1, <2>3, CareByRecord
<1>. QED  BY <1>1, <1>2, CareLoads, CarePasses, StepCases

-----------------------------------------------------------------------------
(* The panel shows one hand *)

\* A hand record is among the records i .. j of the file.
HasHand(f, i, j) == \E h \in i .. j : log[f][h].kind = "hand"

HandsUpTo(l, n) == Cardinality({i \in 1 .. n : l[i].kind = "hand"})

\* Between records of two hands lies the record that begins the second.
LogInv ==
  /\ \A f \in FILES : Len(log[f]) > 0 => log[f][1].kind = "hand"
  /\ \A f \in FILES : \A i, j \in 1 .. Len(log[f]) :
       (i <= j /\ log[f][j].hand # log[f][i].hand) => HasHand(f, i + 1, j)
  /\ Len(log[LIVE]) > 0 =>
       log[LIVE][Len(log[LIVE])].hand = HandsUpTo(log[LIVE], Len(log[LIVE]))

\* Unless two threads have parsed at the same time, the refresh thread parses
\* the file on view and nothing is being loaded meanwhile.
OverlapInv ==
  overlapped \/ /\ ~crowded
                /\ Passing => /\ refresh.file = current_file
                                           /\ \A c \in Loads : ~IsLoading(c)

\* The panel is of one hand, that of record n of file f.
Agrees == \A x \in Fields : panel[x] \in {panel["hand"], NoHand}
ShowsHandOf(f, n) == Agrees /\ panel["hand"] = <<f, log[f][n].hand>>

\* While nothing is parsed, the panel is at least as far as the position.
QuietPanel(f) ==
  /\ Agrees
  /\ (f \in FILES /\ Measured = f /\ Told > 0) =>
       \E m \in 1 .. Len(log[f]) : Offset(f, m) >= Told /\ ShowsHandOf(f, m)

\* A load parses every record, and its file reaches behind the position.
LoadPanel(f, next, last) ==
  /\ next = 1 => Agrees
  /\ next > 1 => ShowsHandOf(f, next - 1)
  /\ Measured = f => Told <= Offset(f, last)

\* A refresh may begin behind what the panel shows, in an earlier hand; then
\* the record that begins the panel's hand is still to come.
PassPanel(f, next, last) ==
  /\ Told = Offset(f, last)
  /\ \/ next > 1 /\ ShowsHandOf(f, next - 1)
     \/ HasHand(f, next, last)
     \/ last = 0 /\ Agrees

PanelInv ==
  carried \/ overlapped \/
    /\ (~Passing /\ \A c \in Loads : ~IsLoading(c)) => QuietPanel(current_file)
    /\ \A c \in Loads : load[c].at \in {"reset", "read"} => Agrees
    /\ \A c \in Loads : load[c].at = "parse" =>
         LoadPanel(load[c].file, load[c].next, load[c].last)
    /\ Passing => PassPanel(refresh.file, refresh.next, refresh.last)

LEMMA HandsUpToType ==
  ASSUME NEW l, NEW n \in Nat
  PROVE  HandsUpTo(l, n) \in Nat /\ IsFiniteSet({i \in 1 .. n : l[i].kind = "hand"})
<1>1. IsFiniteSet(1 .. n)
  BY FS_Interval
<1>2. {i \in 1 .. n : l[i].kind = "hand"} \subseteq 1 .. n
  OBVIOUS
<1>3. IsFiniteSet({i \in 1 .. n : l[i].kind = "hand"})
  BY <1>1, <1>2, FS_Subset
<1>. QED  BY <1>3, FS_CardinalityType DEF HandsUpTo

\* One more record is one more hand, or none.
LEMMA HandsCountUp ==
  ASSUME NEW l, NEW k, NEW n \in Nat, \A i \in 1 .. n : k[i] = l[i]
  PROVE  HandsUpTo(k, n + 1) = HandsUpTo(l, n) + (IF k[n + 1].kind = "hand" THEN 1 ELSE 0)
<1>. DEFINE H == {i \in 1 .. n : l[i].kind = "hand"}
            K == {i \in 1 .. n + 1 : k[i].kind = "hand"}
<1>1. IsFiniteSet(H) /\ Cardinality(H) \in Nat /\ n + 1 \notin H
  BY HandsUpToType DEF HandsUpTo
<1>0. HandsUpTo(l, n) = Cardinality(H) /\ HandsUpTo(k, n + 1) = Cardinality(K)
  BY DEF HandsUpTo
<1>2. CASE k[n + 1].kind = "hand"
  <2>1. K = H \cup {n + 1}
    BY <1>2
  <2>2. Cardinality(H \cup {n + 1}) = Cardinality(H) + 1
    BY <1>1, FS_AddElement
  <2>. HIDE DEF H, K
  <2>. QED  BY <1>0, <1>2, <2>1, <2>2
<1>3. CASE k[n + 1].kind # "hand"
  <2>1. K = H
    BY <1>3
  <2>. HIDE DEF H, K
  <2>. QED  BY <1>0, <1>1, <1>3, <2>1
<1>. QED  BY <1>2, <1>3

LEMMA LogWritten ==
  ASSUME Typed, LogInv, NEW kind \in WRITTEN, NEW a \in AGENTS, WriteRecord(kind, a)
  PROVE  LogInv'
<1>. DEFINE L == Len(log[LIVE])
<1>1. /\ Grown /\ \A f \in FILES : f # LIVE => log'[f] = log[f]
      /\ Len(log'[LIVE]) = L + 1 /\ log'[LIVE][L + 1].kind = kind
      /\ log'[LIVE][L + 1].hand = HandsUpTo(log[LIVE], L) + (IF kind = "hand" THEN 1 ELSE 0)
  BY WriteGrows DEF HandsUpTo
<1>2. LIVE \in FILES /\ L \in Nat /\ \A i \in 1 .. L : log'[LIVE][i] = log[LIVE][i]
  BY <1>1, LogAssumption, LogType DEF Grown
<1>3. L = 0 => kind = "hand"
  <2>1. log[LIVE] \in Seq(Records) /\ (log[LIVE] = <<>> => kind = "hand")
    BY <1>2, LogType DEF WriteRecord
  <2>. QED  BY <2>1
<1>. HIDE DEF L
<1>4. HandsUpTo(log'[LIVE], L + 1) = HandsUpTo(log[LIVE], L) + (IF kind = "hand" THEN 1 ELSE 0)
  <2>1. HandsUpTo(log'[LIVE], L + 1)
          = HandsUpTo(log[LIVE], L) + (IF log'[LIVE][L + 1].kind = "hand" THEN 1 ELSE 0)
    BY <1>2, HandsCountUp
  <2>. QED  BY <1>1, <2>1
<1>5. ASSUME NEW f \in FILES, Len(log'[f]) > 0 PROVE log'[f][1].kind = "hand"
  <2>1. CASE f # LIVE
    BY <1>1, <1>5, <2>1 DEF LogInv
  <2>2. CASE f = LIVE /\ L = 0
    BY <1>1, <1>3, <2>2
  <2>3. CASE f = LIVE /\ L > 0
    BY <1>1, <1>2, <2>3 DEF LogInv, L
  <2>. QED  BY <1>2, <2>1, <2>2, <2>3
<1>6. ASSUME NEW f \in FILES, NEW i \in 1 .. Len(log'[f]), NEW j \in 1 .. Len(log'[f]),
             i <= j, log'[f][j].hand # log'[f][i].hand
      PROVE  HasHand(f, i + 1, j)'
  <2>1. CASE f # LIVE
    <3>1. log'[f] = log[f]
      BY <1>1, <2>1
    <3>2. HasHand(f, i + 1, j)
      BY <1>6, <3>1 DEF LogInv
    <3>. QED  BY <3>1, <3>2 DEF HasHand
  <2>2. CASE f = LIVE /\ j <= L
    <3>1. i \in 1 .. L /\ j \in 1 .. L
      BY <1>1, <1>2, <1>6, <2>2
    <3>2. HasHand(LIVE, i + 1, j)
      BY <1>2, <1>6, <2>2, <3>1 DEF LogInv, L
    <3>3. PICK h \in i + 1 .. j : log[LIVE][h].kind = "hand"
      BY <3>2 DEF HasHand
    <3>4. h \in 1 .. L
      BY <1>2, <3>1
    <3>. QED  BY <1>2, <2>2, <3>3, <3>4 DEF HasHand
  <2>3. CASE f = LIVE /\ j = L + 1 /\ kind = "hand"
    <3>1. i # j
      BY <1>6
    <3>2. j \in i + 1 .. j
      BY <1>1, <1>2, <1>6, <2>3, <3>1
    <3>. QED  BY <1>1, <2>3, <3>2 DEF HasHand
  <2>4. CASE f = LIVE /\ j = L + 1 /\ kind # "hand"
    <3>1. L > 0 /\ i # j /\ i \in 1 .. L /\ L \in 1 .. L
      BY <1>1, <1>2, <1>3, <1>6, <2>4
    <3>2. log'[LIVE][j].hand = log[LIVE][L].hand
      <4>1. HandsUpTo(log[LIVE], L) \in Nat
        BY <1>2, HandsUpToType
      <4>2. log[LIVE][L].hand = HandsUpTo(log[LIVE], L)
        BY <3>1 DEF LogInv, L
      <4>. QED  BY <1>1, <2>4, <4>1, <4>2
    <3>3. log[LIVE][L].hand # log[LIVE][i].hand
      BY <1>2, <1>6, <2>4, <3>1, <3>2
    <3>4. HasHand(LIVE, i + 1, L)
      BY <1>2, <3>1, <3>3 DEF LogInv, L
    <3>5. PICK h \in i + 1 .. L : log[LIVE][h].kind = "hand"
      BY <3>4 DEF HasHand
    <3>6. h \in 1 .. L /\ h \in i + 1 .. j
      BY <1>2, <2>4, <3>1
    <3>. QED  BY <1>2, <2>4, <3>5, <3>6 DEF HasHand
  <2>5. f = LIVE => j \in 1 .. L + 1
    BY <1>1
  <2>. QED  BY <1>2, <2>1, <2>2, <2>3, <2>4, <2>5
<1>. QED  BY <1>1, <1>4, <1>5, <1>6 DEF LogInv

LEMMA LogKept ==
  ASSUME Typed, StartInv, LogInv, [Next]_vars
  PROVE  LogInv'
<1>1. CASE NamedStep \/ Aside \/ \E c \in Loads : LoadStep(c) \/ \E f \in FILES : ClickFile(c, f)
  <2>1. log' = log
    BY <1>1, NamedFrame, AsideFrame, LoadFrame
  <2>. QED  BY <2>1 DEF LogInv, HasHand
<1>. QED  BY <1>1, LogWritten, StepCases

\* Two threads that parse at the same time have been seen to do so.
LEMMA CollisionOverlaps ==
  ASSUME Typed, ThreadInv, StartInv, CrowdInv, OverlapInv
  PROVE  /\ \A c \in Loads : LoadCollides(c) => overlapped
         /\ Collides => overlapped
<1>1. \A r : Inserts(r) => r.at = "parse"
  BY DEF Inserts, Parses
<1>2. ~Inserts(forgotten) /\ (Inserts(refresh) => Passing)
      /\ \A d \in Loads : Inserts(load[d]) => IsLoading(d)
  <2>1. ~Inserts(forgotten)
    BY DEF StartInv, Inserts, Parses
  <2>2. Inserts(refresh) => Passing
    BY DEF Inserts, Parses, Passing, IsParsing
  <2>3. \A d \in Loads : Inserts(load[d]) => IsLoading(d)
    BY DEF Inserts, Parses, IsLoading
  <2>. QED  BY <2>1, <2>2, <2>3
<1>3. ASSUME NEW c \in Loads, LoadCollides(c) PROVE overlapped
  <2>1. IsLoading(c)
    BY <1>3, CollisionMoves DEF IsLoading
  <2>2. PICK r \in {load[d] : d \in Loads \ {c}} \cup {refresh, forgotten} : Inserts(r)
    BY <1>3 DEF LoadCollides, ParseCollides, PlayersChange
  <2>3. CASE r = refresh
    BY <1>2, <2>1, <2>2, <2>3 DEF OverlapInv
  <2>4. CASE \E d \in Loads \ {c} : r = load[d]
    <3>1. PICK d \in Loads : d # c /\ r = load[d]
      BY <2>4
    <3>2. IsLoading(d)
      BY <1>2, <2>2, <3>1
    <3>. QED  BY <2>1, <3>1, <3>2 DEF CrowdInv, OverlapInv
  <2>. QED  BY <1>2, <2>2, <2>3, <2>4
<1>4. ASSUME Collides PROVE overlapped
  <2>1. Passing
    BY <1>4, RestMoves
  <2>2. PICK r \in {load[c] : c \in Loads} \cup {forgotten} : Inserts(r)
    BY <1>4 DEF Collides, RefreshCollides, ParseCollides, PlayersChange
  <2>3. PICK d \in Loads : r = load[d]
    BY <1>2, <2>2
  <2>. QED  BY <1>2, <2>1, <2>2, <2>3 DEF OverlapInv
<1>. QED  BY <1>3, <1>4

LEMMA OverlapKept ==
  ASSUME Typed, ThreadInv, StartInv, OverlapInv, [Next]_vars
  PROVE  OverlapInv'
<1>1. CASE Aside \/ \E kind \in WRITTEN, a \in AGENTS : WriteRecord(kind, a)
  <2>1. UNCHANGED <<overlapped, crowded, current_file, load>>
    BY <1>1, AsideFrame, WriteFrame
  <2>2. (Passing <=> Passing') /\ (refresh' = refresh \/ ~Passing')
    BY <1>1, AsideFrame, WriteFrame
  <2>. QED  BY <2>1, <2>2 DEF OverlapInv, IsLoading
<1>2. ASSUME NEW c \in Loads, NEW f \in FILES, ClickFile(c, f)
      PROVE  OverlapInv'
  <2>1. /\ overlapped' = (overlapped \/ IsParsing(refresh) \/ IsParsing(forgotten)
                                     \/ \E d \in Loads : IsLoading(d))
        /\ crowded' = (crowded \/ \E d \in Loads : IsLoading(d))
    BY <1>2 DEF ClickFile
  <2>2. CASE overlapped'
    BY <2>2 DEF OverlapInv
  <2>3. CASE ~overlapped'
    <3>1. ~overlapped /\ ~Passing /\ ~\E d \in Loads : IsLoading(d)
      BY <2>1, <2>3 DEF Passing
    <3>2. ~crowded' /\ ~Passing'
      BY <1>2, <2>1, <3>1, LoadFrame DEF OverlapInv
    <3>. QED  BY <3>2 DEF OverlapInv
  <2>. QED  BY <2>2, <2>3
<1>3. ASSUME NEW c \in Loads, LoadStep(c)
      PROVE  OverlapInv'
  <2>1. UNCHANGED <<overlapped, crowded>>
    BY <1>3, CollisionMoves DEF LoadStep, LoadReset, LoadRead, LoadParse, LoadDone, history_vars
  <2>2. IsLoading(c)
    BY <1>3, CollisionMoves
       DEF LoadStep, LoadReset, LoadRead, LoadParse, Parses, LoadDone, IsLoading
  <2>3. Passing <=> Passing'
    BY <1>3, LoadFrame
  <2>. QED  BY <2>1, <2>2, <2>3 DEF OverlapInv
<1>4. CASE Look
  <2>1. /\ overlapped' = (overlapped \/ \E c \in Loads : IsLoading(c))
        /\ crowded' = crowded /\ load' = load /\ current_file' = current_file
    BY <1>4 DEF Look, RefreshLook
  <2>2. refresh'.file = current_file
    BY <1>4, LookMoves
  <2>3. CASE overlapped'
    BY <2>3 DEF OverlapInv
  <2>4. CASE ~overlapped'
    <3>1. ~overlapped /\ ~\E c \in Loads : IsLoading(c)
      BY <2>1, <2>4
    <3>. QED  BY <2>1, <2>2, <3>1 DEF OverlapInv, IsLoading
  <2>. QED  BY <2>3, <2>4
<1>5. CASE Tell \/ Pass \/ Breaks \/ Collides \/ Flag \/ Leave
  <2>1. UNCHANGED <<overlapped, crowded, current_file, load>>
    BY <1>5, PassCollisionCounts
       DEF Tell, RefreshTell, Pass, RefreshParse, Breaks, RefreshBreaks, Flag, RefreshFlag,
           Leave, RefreshLeave, history_vars
  <2>2. \/ ~Passing'
        \/ Passing /\ refresh'.file = refresh.file
    BY <1>5, TellMoves, PassMoves, RestMoves
  <2>. QED  BY <2>1, <2>2 DEF OverlapInv, IsLoading
<1>. QED  BY <1>1, <1>2, <1>3, <1>4, <1>5, StepCases, NamedKinds

\* Parsing the next record of the hand on the panel, or any hand record.
LEMMA ParseShows ==
  ASSUME Typed, LogInv, NEW f \in FILES, NEW i \in 1 .. Len(log[f]), ParseRecord(f, i), log' = log,
         log[f][i].kind = "hand" \/ (i > 1 /\ ShowsHandOf(f, i - 1))
  PROVE  ShowsHandOf(f, i)'
<1>. DEFINE r == log[f][i]
            h == <<f, r.hand>>
<1>1. panel' = [x \in Fields |-> CASE x \in Writes(r) -> h
                                   [] x \in Clears(r) -> NoHand
                                   [] OTHER -> panel[x]]
  BY DEF ParseRecord
<1>2. "hand" \in Fields
  BY DEF Fields
<1>. HIDE DEF r, h
<1>3. CASE r.kind = "hand"
  <2>1. Writes(r) = {"hand", "phase"} /\ Clears(r) = AGENTS \cup {"community"}
    BY <1>3 DEF Writes, Clears
  <2>2. panel'["hand"] = h
    <3>1. "hand" \in Writes(r) /\ "hand" \notin Clears(r)
      BY <2>1, LogAssumption
    <3>. QED  BY <1>1, <1>2, <3>1
  <2>3. \A x \in Fields : x \in Writes(r) \/ x \in Clears(r)
    BY <2>1 DEF Fields
  <2>4. \A x \in Fields : panel'[x] \in {h, NoHand}
    BY <1>1, <2>3
  <2>5. NoHand' = NoHand /\ Fields' = Fields
    BY DEF NoHand, Fields
  <2>. QED  BY <2>2, <2>4, <2>5 DEF ShowsHandOf, Agrees, h, r
<1>4. CASE r.kind # "hand"
  <2>1. i > 1 /\ ShowsHandOf(f, i - 1)
    BY <1>4 DEF r
  <2>2. i - 1 \in 1 .. Len(log[f]) /\ i - 1 <= i /\ i \in Nat /\ (i - 1) + 1 = i
    BY <2>1, LogType
  <2>3. ~HasHand(f, (i - 1) + 1, i)
    BY <1>4, <2>2 DEF HasHand, r
  <2>4. log[f][i].hand = log[f][i - 1].hand
    BY <2>2, <2>3 DEF LogInv
  <2>5. panel["hand"] = h /\ \A x \in Fields : panel[x] \in {h, NoHand}
    BY <2>1, <2>4 DEF ShowsHandOf, Agrees, h, r
  <2>6. Clears(r) = {}
    BY <1>4 DEF Clears
  <2>7. \A x \in Fields : panel'[x] \in {h, panel[x]}
    BY <1>1, <2>6
  <2>8. panel'["hand"] = h /\ \A x \in Fields : panel'[x] \in {h, NoHand}
    BY <1>2, <2>5, <2>7
  <2>9. NoHand' = NoHand /\ Fields' = Fields
    BY DEF NoHand, Fields
  <2>. QED  BY <2>8, <2>9 DEF ShowsHandOf, Agrees, h, r
<1>. QED  BY <1>3, <1>4

LEMMA ShowsKept ==
  ASSUME Typed, Grown, panel' = panel, NEW f \in FILES, NEW n \in 1 .. Len(log[f]), ShowsHandOf(f, n)
  PROVE  ShowsHandOf(f, n)'
<1>1. log'[f][n] = log[f][n]
  BY DEF Grown
<1>. QED  BY <1>1 DEF ShowsHandOf, Agrees, Fields, NoHand

LEMMA AgreesKept ==
  ASSUME panel' = panel, Agrees
  PROVE  Agrees'
BY DEF Agrees, Fields, NoHand

LEMMA QuietStands ==
  ASSUME Typed, Grown, UNCHANGED <<panel, Told, Measured>>, NEW f, QuietPanel(f)
  PROVE  QuietPanel(f)'
<1>1. Agrees'
  BY AgreesKept DEF QuietPanel
<1>2. ASSUME f \in FILES, Measured = f, Told > 0
      PROVE  \E m \in 1 .. Len(log'[f]) : Offset(f, m)' >= Told /\ ShowsHandOf(f, m)'
  <2>1. PICK m \in 1 .. Len(log[f]) : Offset(f, m) >= Told /\ ShowsHandOf(f, m)
    BY <1>2 DEF QuietPanel
  <2>2. Len(log[f]) \in Nat /\ Len(log'[f]) \in Nat /\ Len(log[f]) <= Len(log'[f])
    BY <1>2, LogType DEF Grown
  <2>3. m \in 1 .. Len(log'[f]) /\ m \in 0 .. Len(log[f])
    BY <2>2
  <2>4. Offset(f, m)' = Offset(f, m) /\ ShowsHandOf(f, m)'
    BY <1>2, <2>1, <2>3, OffsetKept, ShowsKept
  <2>. QED  BY <2>1, <2>3, <2>4
<1>. QED  BY <1>1, <1>2 DEF QuietPanel

LEMMA LoadPanelStands ==
  ASSUME Typed, Grown, UNCHANGED <<panel, Told, Measured>>,
         NEW f \in FILES, NEW last \in 0 .. Len(log[f]), NEW next \in 1 .. last + 1,
         LoadPanel(f, next, last)
  PROVE  LoadPanel(f, next, last)'
<1>1. Len(log[f]) \in Nat /\ last \in Nat
  BY LogType
<1>2. Offset(f, last)' = Offset(f, last)
  BY OffsetKept
<1>3. next = 1 => Agrees'
  BY AgreesKept DEF LoadPanel
<1>4. ASSUME next > 1 PROVE ShowsHandOf(f, next - 1)'
  <2>1. next - 1 \in 1 .. Len(log[f]) /\ ShowsHandOf(f, next - 1)
    BY <1>1, <1>4 DEF LoadPanel
  <2>. QED  BY <2>1, ShowsKept
<1>. QED  BY <1>2, <1>3, <1>4 DEF LoadPanel

LEMMA PassPanelStands ==
  ASSUME Typed, Grown, UNCHANGED <<panel, Told>>,
         NEW f \in FILES, NEW last \in 0 .. Len(log[f]), NEW next \in 1 .. last + 1,
         PassPanel(f, next, last)
  PROVE  PassPanel(f, next, last)'
<1>1. Len(log[f]) \in Nat /\ last \in Nat
  BY LogType
<1>2. Offset(f, last)' = Offset(f, last)
  BY OffsetKept
<1>3. ASSUME next > 1, ShowsHandOf(f, next - 1) PROVE ShowsHandOf(f, next - 1)'
  <2>1. next - 1 \in 1 .. Len(log[f])
    BY <1>1, <1>3
  <2>. QED  BY <1>3, <2>1, ShowsKept
<1>4. ASSUME HasHand(f, next, last) PROVE HasHand(f, next, last)'
  <2>1. PICK h \in next .. last : log[f][h].kind = "hand"
    BY <1>4 DEF HasHand
  <2>2. h \in 1 .. Len(log[f])
    BY <1>1
  <2>3. log'[f][h] = log[f][h]
    BY <2>2 DEF Grown
  <2>. QED  BY <2>1, <2>3 DEF HasHand
<1>. QED  BY <1>2, <1>3, <1>4, AgreesKept DEF PassPanel

\* A step of another part of the program.
LEMMA PanelStands ==
  ASSUME Typed, ThreadInv, PanelInv, Grown, UNCHANGED <<panel, Told, Measured, load, current_file>>,
         overlapped' = overlapped, carried' \/ ~carried, Passing <=> Passing',
         \/ /\ refresh'.file = refresh.file
            /\ refresh'.next = refresh.next /\ refresh'.last = refresh.last
         \/ ~Passing
  PROVE  PanelInv'
<1>1. CASE carried \/ overlapped
  BY <1>1 DEF PanelInv
<1>2. CASE ~carried /\ ~overlapped
  <2>1. ASSUME ~Passing', \A c \in Loads : ~IsLoading(c)'
        PROVE  QuietPanel(current_file)'
    <3>1. PICK f : f = current_file
      OBVIOUS
    <3>2. QuietPanel(f)
      BY <1>2, <2>1, <3>1 DEF PanelInv, IsLoading
    <3>3. QuietPanel(f)'
      BY <3>2, QuietStands
    <3>. QED  BY <3>1, <3>3 DEF QuietPanel
  <2>2. ASSUME NEW c \in Loads, load'[c].at \in {"reset", "read"}
        PROVE  Agrees'
    BY <1>2, <2>2, AgreesKept DEF PanelInv
  <2>3. ASSUME NEW c \in Loads, load'[c].at = "parse"
        PROVE  LoadPanel(load[c].file, load[c].next, load[c].last)'
    <3>1. /\ load[c].file \in FILES /\ Len(log[load[c].file]) \in Nat
          /\ load[c].next \in 1 .. load[c].last + 1 /\ load[c].last \in Nat
          /\ load[c].last <= Len(log[load[c].file])
      BY <2>3, LogType DEF ThreadInv, LoadsInv, IsLoading, Typed, LoadStates
    <3>2. PICK f \in FILES : f = load[c].file
      BY <3>1
    <3>3. PICK last \in 0 .. Len(log[f]) : last = load[c].last
      BY <3>1, <3>2
    <3>4. PICK next \in 1 .. last + 1 : next = load[c].next
      BY <3>1, <3>3
    <3>5. LoadPanel(f, next, last)
      BY <1>2, <2>3, <3>2, <3>3, <3>4 DEF PanelInv
    <3>6. LoadPanel(f, next, last)'
      BY <3>5, LoadPanelStands
    <3>. QED  BY <3>2, <3>3, <3>4, <3>6 DEF LoadPanel, ShowsHandOf, Offset
  <2>4. ASSUME Passing'
        PROVE  PassPanel(refresh.file, refresh.next, refresh.last)'
    <3>0. /\ Passing /\ refresh'.file = refresh.file
          /\ refresh'.next = refresh.next /\ refresh'.last = refresh.last
      BY <2>4
    <3>1. /\ refresh.file \in FILES /\ Len(log[refresh.file]) \in Nat
          /\ refresh.next \in 1 .. refresh.last + 1 /\ refresh.last \in Nat
          /\ refresh.last <= Len(log[refresh.file])
      BY <2>4, <3>0, LogType DEF ThreadInv, PassInv, Typed, RefreshStates
    <3>2. PICK f \in FILES : f = refresh.file
      BY <3>1
    <3>3. PICK last \in 0 .. Len(log[f]) : last = refresh.last
      BY <3>1, <3>2
    <3>4. PICK next \in 1 .. last + 1 : next = refresh.next
      BY <3>1, <3>3
    <3>5. PassPanel(f, next, last)
      BY <1>2, <2>4, <3>0, <3>2, <3>3, <3>4 DEF PanelInv
    <3>6. PassPanel(f, next, last)'
      BY <3>5, PassPanelStands
    <3>. QED  BY <3>0, <3>2, <3>3, <3>4, <3>6 DEF PassPanel, ShowsHandOf, HasHand, Offset
  <2>. QED  BY <2>1, <2>2, <2>3, <2>4 DEF PanelInv
<1>. QED  BY <1>1, <1>2

\* A thread that works alone.
LEMMA LoadAlone ==
  ASSUME Typed, ThreadInv, CrowdInv, OverlapInv, ~overlapped, NEW c \in Loads, IsLoading(c)
  PROVE  /\ ~Passing /\ load[c].file = current_file /\ current_file \in FILES
         /\ \A d \in Loads : d # c => ~IsLoading(d)
BY DEF CrowdInv, OverlapInv, ThreadInv, LoadsInv

LEMMA PanelLoads ==
  ASSUME Typed, ThreadInv, StartInv, PositionInv, LogInv, CrowdInv, OverlapInv, PanelInv, NEW c \in Loads,
         LoadStep(c), ~carried, ~overlapped
  PROVE  PanelInv'
<1>1. UNCHANGED <<log, Told, Measured, current_file>>
  <2>1. UNCHANGED current_file
    BY CollisionMoves DEF LoadStep, LoadReset, LoadRead, LoadParse, LoadDone
  <2>. QED  BY <2>1, LoadFrame
<1>2. IsLoading(c)
  BY CollisionMoves DEF LoadStep, LoadReset, LoadRead, LoadParse, Parses, LoadDone, IsLoading
<1>10. ~Passing'
  BY <1>2, LoadFrame DEF OverlapInv
<1>3. /\ ~Passing /\ load[c].file = current_file /\ current_file \in FILES
      /\ \A d \in Loads : d # c => ~IsLoading(d)
  BY <1>2, LoadAlone
<1>4. PICK f \in FILES : f = load[c].file
  BY <1>3
<1>5. Len(log[f]) \in Nat /\ Grown
  BY <1>1, LogType, SameLogGrows
<1>6. CASE LoadReset(c)
  <2>1. panel' = panel
    BY <1>6 DEF LoadReset
  <2>2. load'[c].at = "read" /\ \A d \in Loads : d # c => load'[d] = load[d]
    BY <1>6, ResetMoves DEF OneLoadMoves
  <2>3. Agrees'
    BY <1>6, <2>1, AgreesKept DEF PanelInv, LoadReset
  <2>4. \A d \in Loads : load'[d].at # "parse"
    BY <1>3, <2>2 DEF IsLoading
  <2>5. IsLoading(c)'
    BY <2>2 DEF IsLoading
  <2>. QED  BY <1>10, <2>3, <2>4, <2>5 DEF PanelInv
<1>7. CASE LoadRead(c)
  <2>1. panel' = panel
    BY <1>7 DEF LoadRead, parser_vars
  <2>2. /\ load'[c].at = "parse" /\ load'[c].next = 1 /\ load'[c].last = Len(log[f])
        /\ load'[c].file = f /\ \A d \in Loads : d # c => load'[d] = load[d]
    BY <1>4, <1>7, ReadMoves DEF OneLoadMoves
  <2>3. Agrees'
    BY <1>7, <2>1, AgreesKept DEF PanelInv, LoadRead
  <2>4. Measured = f => Told <= Offset(f, Len(log[f]))
    <3>1. ASSUME Measured = f PROVE Told <= Offset(f, Len(log[f]))
      <4>1. f # NoFile
        BY LogAssumption
      <4>2. PICK k \in 0 .. Len(log[f]) : Offset(f, k) = Told
        BY <3>1, <4>1 DEF PositionInv
      <4>3. k \in Nat /\ k <= Len(log[f])
        BY <1>5
      <4>. QED  BY <1>5, <4>2, <4>3, OffsetOrder
    <3>. QED  BY <3>1
  <2>5. LoadPanel(load[c].file, load[c].next, load[c].last)'
    BY <1>1, <2>2, <2>3, <2>4 DEF LoadPanel, Offset
  <2>6. \A d \in Loads : d # c => load'[d].at \notin {"reset", "read", "parse"}
    BY <1>3, <2>2 DEF IsLoading
  <2>7. IsLoading(c)'
    BY <2>2 DEF IsLoading
  <2>. QED  BY <1>10, <2>2, <2>5, <2>6, <2>7 DEF PanelInv
<1>8. CASE LoadParse(c)
  <2>1. Parses(load[c]) /\ ParseRecord(load[c].file, load[c].next)
    BY <1>8 DEF LoadParse
  <2>2. /\ load[c].at = "parse" /\ load'[c].at = "parse" /\ load'[c].file = load[c].file
        /\ load'[c].next = load[c].next + 1 /\ load'[c].last = load[c].last
        /\ \A d \in Loads : d # c => load'[d] = load[d]
    BY <1>8, ParseMoves DEF OneLoadMoves
  <2>3. PICK n \in 1 .. Len(log[f]) : n = load[c].next
    BY <1>4, <2>1, ParsedIsThere
  <2>4. LoadPanel(f, n, load[c].last)
    BY <1>4, <2>2, <2>3 DEF PanelInv
  <2>5. log[f][n].kind = "hand" \/ (n > 1 /\ ShowsHandOf(f, n - 1))
    <3>1. CASE n = 1
      BY <1>5, <3>1 DEF LogInv
    <3>2. CASE n > 1
      BY <2>4, <3>2 DEF LoadPanel
    <3>. QED  BY <3>1, <3>2
  <2>6. ShowsHandOf(f, n)'
    BY <1>1, <1>4, <2>1, <2>3, <2>5, ParseShows
  <2>7. Measured = f => Told <= Offset(f, load[c].last)
    BY <2>4 DEF LoadPanel
  <2>8. LoadPanel(load[c].file, load[c].next, load[c].last)'
    <3>1. load'[c].file = f /\ load'[c].next = n + 1 /\ n + 1 > 1 /\ (n + 1) - 1 = n /\ n + 1 # 1
      BY <1>4, <2>2, <2>3
    <3>2. ShowsHandOf(load[c].file, load[c].next - 1)'
      BY <2>6, <3>1 DEF ShowsHandOf
    <3>. QED  BY <1>1, <2>2, <2>7, <3>1, <3>2 DEF LoadPanel, Offset
  <2>9. \A d \in Loads : d # c => load'[d].at \notin {"reset", "read", "parse"}
    BY <1>3, <2>2 DEF IsLoading
  <2>10. IsLoading(c)'
    BY <2>2 DEF IsLoading
  <2>. QED  BY <1>10, <2>2, <2>8, <2>9, <2>10 DEF PanelInv
<1>9. CASE LoadDone(c)
  <2>1. panel' = panel
    BY <1>9 DEF LoadDone, parser_vars
  <2>2. /\ load[c].at = "parse" /\ load[c].next > load[c].last /\ load'[c].at = "done"
        /\ \A d \in Loads : d # c => load'[d] = load[d]
    BY <1>9, DoneMoves DEF OneLoadMoves
  <2>3. /\ load[c].next \in 1 .. load[c].last + 1 /\ load[c].last \in Nat
        /\ load[c].last <= Len(log[f])
    BY <1>4, <2>2 DEF ThreadInv, LoadsInv, Typed, LoadStates
  <2>4. PICK l \in 0 .. Len(log[f]) : l = load[c].last /\ load[c].next = l + 1
    BY <1>5, <2>2, <2>3
  <2>5. LoadPanel(f, l + 1, l)
    BY <1>4, <2>2, <2>4 DEF PanelInv
  <2>6. QuietPanel(f)
    <3>1. CASE l = 0
      <4>1. Agrees /\ (Measured = f => Told <= Offset(f, 0))
        BY <2>5, <3>1 DEF LoadPanel
      <4>2. Told \in Nat /\ Offset(f, 0) = 0
        BY OffsetZero, ToldType
      <4>. QED  BY <4>1, <4>2 DEF QuietPanel
    <3>2. CASE l > 0
      <4>1. l + 1 > 1 /\ (l + 1) - 1 = l /\ l \in 1 .. Len(log[f])
        BY <1>5, <3>2
      <4>2. ShowsHandOf(f, l) /\ (Measured = f => Told <= Offset(f, l))
        BY <2>5, <4>1 DEF LoadPanel
      <4>3. Told \in Nat /\ Offset(f, l) \in Nat
        BY <4>1, OffsetType, ToldType
      <4>4. Measured = f => Offset(f, l) >= Told
        BY <4>2, <4>3
      <4>. QED  BY <4>1, <4>2, <4>4 DEF QuietPanel, ShowsHandOf
    <3>. QED  BY <3>1, <3>2
  <2>7. QuietPanel(f)'
    BY <1>1, <1>5, <2>1, <2>6, QuietStands
  <2>8. QuietPanel(current_file)'
    BY <1>1, <1>3, <1>4, <2>7 DEF QuietPanel
  <2>9. \A d \in Loads : load'[d].at \notin {"reset", "read", "parse"}
    BY <1>3, <2>2 DEF IsLoading
  <2>. QED  BY <1>10, <2>8, <2>9 DEF PanelInv
<1>11. ~LoadCollides(c)
  BY CollisionOverlaps
<1>. QED  BY <1>6, <1>7, <1>8, <1>9, <1>11 DEF LoadStep

\* A click begins a load while the panel is at rest.
LEMMA PanelClick ==
  ASSUME Typed, ThreadInv, OverlapInv, PanelInv, NEW c \in Loads, NEW f \in FILES, ClickFile(c, f)
  PROVE  PanelInv'
<1>1. /\ overlapped' = (overlapped \/ IsParsing(refresh) \/ IsParsing(forgotten)
                                   \/ \E d \in Loads : IsLoading(d))
      /\ carried' = carried /\ (Passing <=> Passing') /\ panel' = panel
  BY LoadFrame DEF ClickFile, parser_vars
<1>2. CASE carried' \/ overlapped'
  BY <1>2 DEF PanelInv
<1>3. CASE ~carried' /\ ~overlapped'
  <2>1. ~carried /\ ~overlapped /\ ~Passing /\ \A d \in Loads : ~IsLoading(d)
    BY <1>1, <1>3 DEF Passing
  <2>2. QuietPanel(current_file)
    BY <2>1 DEF PanelInv
  <2>3. Agrees'
    BY <1>1, <2>2, AgreesKept DEF QuietPanel
  <2>4. load'[c].at = "reset" /\ \A d \in Loads : d # c => load'[d] = load[d]
    BY ClickMoves DEF OneLoadMoves
  <2>5. IsLoading(c)' /\ \A d \in Loads : load'[d].at # "parse"
    BY <2>1, <2>4 DEF IsLoading
  <2>. QED  BY <1>1, <2>1, <2>3, <2>5 DEF PanelInv
<1>. QED  BY <1>2, <1>3

LEMMA PanelLook ==
  ASSUME Typed, ThreadInv, PositionInv, LogInv, OverlapInv, PanelInv, Look
  PROVE  PanelInv'
<1>0. PICK f \in FILES : f = current_file
  BY LookMoves
<1>1. /\ log' = log /\ load' = load /\ panel' = panel
      /\ overlapped' = (overlapped \/ \E c \in Loads : IsLoading(c))
  BY DEF Look, RefreshLook, parser_vars
<1>2. ~Passing /\ Passing' /\ refresh'.file = f
  BY <1>0, LookMoves
<1>3. PICK L \in Nat : L = Len(log[f])
  BY LogType
<1>4. CASE carried' \/ overlapped'
  BY <1>4 DEF PanelInv
<1>5. CASE ~carried' /\ ~overlapped'
  <2>1. PICK k \in 0 .. L :
          /\ Offset(f, k) = Told /\ (k > 0 => Measured = f) /\ ~carried
          /\ refresh'.next = k + 1 /\ refresh'.last = L /\ Told' = Offset(f, L)
    BY <1>0, <1>3, <1>5, LookResumes
  <2>2. ~overlapped /\ \A c \in Loads : ~IsLoading(c)
    BY <1>1, <1>5
  <2>3. QuietPanel(f)
    BY <1>0, <1>2, <2>1, <2>2 DEF PanelInv
  <2>4. \/ k > 0 /\ ShowsHandOf(f, k)
        \/ HasHand(f, k + 1, L)
        \/ L = 0 /\ Agrees
    <3>1. CASE k = 0 /\ L = 0
      BY <2>3, <3>1 DEF QuietPanel
    <3>2. CASE k = 0 /\ L > 0
      <4>1. log[f][1].kind = "hand" /\ 1 \in k + 1 .. L
        BY <1>3, <3>2 DEF LogInv
      <4>. QED  BY <4>1 DEF HasHand
    <3>3. CASE k > 0
      <4>1. k \in Nat /\ 0 \in Nat /\ 0 < k /\ k \in 1 .. L
        BY <1>3, <3>3
      <4>2. Told > 0
        BY <2>1, <4>1, OffsetGrows, OffsetZero
      <4>3. PICK m \in 1 .. L : Offset(f, m) >= Told /\ ShowsHandOf(f, m)
        BY <1>3, <2>1, <2>3, <3>3, <4>2 DEF QuietPanel
      <4>4. m \in Nat /\ Offset(f, k) \in Nat /\ Offset(f, m) \in Nat
        BY <4>1, OffsetType
      <4>5. k <= m
        BY <2>1, <4>1, <4>3, <4>4, OffsetOrder
      <4>6. CASE log[f][m].hand = log[f][k].hand
        BY <3>3, <4>3, <4>6 DEF ShowsHandOf
      <4>7. CASE log[f][m].hand # log[f][k].hand
        <5>1. HasHand(f, k + 1, m)
          BY <1>3, <4>1, <4>5, <4>7 DEF LogInv
        <5>2. PICK h \in k + 1 .. m : log[f][h].kind = "hand"
          BY <5>1 DEF HasHand
        <5>3. h \in k + 1 .. L
          BY <4>1
        <5>. QED  BY <5>2, <5>3 DEF HasHand
      <4>. QED  BY <4>6, <4>7
    <3>. QED  BY <1>3, <3>1, <3>2, <3>3
  <2>5. PassPanel(refresh.file, refresh.next, refresh.last)'
    <3>1. k \in Nat /\ (k + 1) - 1 = k /\ (k > 0 => k + 1 > 1)
      BY <1>3
    <3>2. Told' = Offset(refresh.file, refresh.last)'
      BY <1>1, <1>2, <2>1 DEF Offset
    <3>3. ASSUME k > 0, ShowsHandOf(f, k)
          PROVE  refresh'.next > 1 /\ ShowsHandOf(refresh.file, refresh.next - 1)'
      BY <1>1, <1>2, <2>1, <3>1, <3>3 DEF ShowsHandOf, Agrees, Fields, NoHand
    <3>4. ASSUME HasHand(f, k + 1, L) PROVE HasHand(refresh.file, refresh.next, refresh.last)'
      BY <1>1, <1>2, <2>1, <3>4 DEF HasHand
    <3>5. Agrees => Agrees'
      BY <1>1, AgreesKept
    <3>. QED  BY <2>1, <2>4, <3>2, <3>3, <3>4, <3>5 DEF PassPanel
  <2>6. \A c \in Loads : load'[c].at \notin {"reset", "read", "parse"}
    BY <1>1, <2>2 DEF IsLoading
  <2>. QED  BY <1>2, <2>5, <2>6 DEF PanelInv
<1>. QED  BY <1>4, <1>5

LEMMA PanelPass ==
  ASSUME Typed, ThreadInv, LogInv, OverlapInv, PanelInv, Pass, ~carried, ~overlapped
  PROVE  PanelInv'
<1>1. /\ UNCHANGED <<log, Told, load>>
      /\ Parses(refresh) /\ ParseRecord(refresh.file, refresh.next)
  BY PassMoves DEF Pass, RefreshParse
<1>2. /\ Passing /\ Passing' /\ refresh'.file = refresh.file
      /\ refresh'.next = refresh.next + 1 /\ refresh'.last = refresh.last
      /\ refresh.next <= refresh.last
  BY PassMoves
<1>3. PICK f \in FILES : f = refresh.file
  BY <1>1, ParsedIsThere
<1>4. PICK n \in 1 .. Len(log[f]) : n = refresh.next
  BY <1>1, <1>3, ParsedIsThere
<1>5. PICK l \in Nat : l = refresh.last
  BY DEF Typed, RefreshStates
<1>6. n \in Nat /\ n >= 1 /\ n <= l /\ (n + 1) - 1 = n /\ n + 1 > 1
  BY <1>2, <1>4, <1>5, LogType
<1>7. PassPanel(f, n, l)
  BY <1>2, <1>3, <1>4, <1>5 DEF PanelInv
<1>8. PassPanel(f, n + 1, l)'
  <2>1. Told' = Offset(f, l)'
    BY <1>1, <1>7 DEF PassPanel, Offset
  <2>2. CASE log[f][n].kind = "hand" \/ (n > 1 /\ ShowsHandOf(f, n - 1))
    <3>1. ShowsHandOf(f, n)'
      BY <1>1, <1>3, <1>4, <2>2, ParseShows
    <3>. QED  BY <1>6, <2>1, <3>1 DEF PassPanel
  <2>3. CASE log[f][n].kind # "hand" /\ ~(n > 1 /\ ShowsHandOf(f, n - 1))
    <3>1. l # 0
      BY <1>5, <1>6
    <3>2. HasHand(f, n, l)
      BY <1>7, <2>3, <3>1 DEF PassPanel
    <3>3. PICK h \in n .. l : log[f][h].kind = "hand"
      BY <3>2 DEF HasHand
    <3>4. h \in n + 1 .. l
      BY <1>5, <1>6, <2>3, <3>3
    <3>5. HasHand(f, n + 1, l)'
      BY <1>1, <3>3, <3>4 DEF HasHand
    <3>. QED  BY <2>1, <3>5 DEF PassPanel
  <2>. QED  BY <2>2, <2>3
<1>9. PassPanel(refresh.file, refresh.next, refresh.last)'
  BY <1>2, <1>3, <1>4, <1>5, <1>8 DEF PassPanel, ShowsHandOf, HasHand, Offset
<1>10. \A c \in Loads : load'[c].at \notin {"reset", "read", "parse"}
  BY <1>1, <1>2 DEF OverlapInv, IsLoading
<1>. QED  BY <1>2, <1>9, <1>10 DEF PanelInv

\* The pass is over: the panel shows the hand of its last record.
LEMMA PanelFlag ==
  ASSUME Typed, ThreadInv, LogInv, OverlapInv, PanelInv, Flag, ~carried, ~overlapped
  PROVE  PanelInv'
<1>1. UNCHANGED <<log, Told, Measured, panel, load, current_file>>
  BY RestMoves DEF Flag, RefreshFlag, parser_vars
<1>2. Passing /\ refresh.next > refresh.last /\ ~Passing'
  BY RestMoves DEF Flag, RefreshFlag
<1>3. PICK f \in FILES : f = refresh.file /\ f = current_file
  BY <1>2 DEF OverlapInv, ThreadInv, PassInv
<1>4. /\ refresh.next \in 1 .. refresh.last + 1 /\ refresh.last \in Nat /\ Len(log[f]) \in Nat
      /\ refresh.last <= Len(log[f])
  BY <1>2, <1>3, LogType DEF ThreadInv, PassInv, Typed, RefreshStates
<1>5. PICK l \in 0 .. Len(log[f]) : l = refresh.last /\ refresh.next = l + 1
  BY <1>2, <1>4
<1>6. PassPanel(f, l + 1, l)
  BY <1>2, <1>3, <1>5 DEF PanelInv
<1>7. ~HasHand(f, l + 1, l) /\ (l + 1) - 1 = l /\ l \in Nat
  BY <1>4 DEF HasHand
<1>8. QuietPanel(f)
  <2>1. CASE l + 1 > 1 /\ ShowsHandOf(f, l)
    <3>1. l \in 1 .. Len(log[f])
      BY <1>4, <2>1
    <3>2. Offset(f, l) >= Told
      BY <1>6, <1>7, OffsetType DEF PassPanel
    <3>. QED  BY <2>1, <3>1, <3>2 DEF QuietPanel, ShowsHandOf
  <2>2. CASE l = 0 /\ Agrees
    BY <1>6, <2>2, OffsetZero DEF PassPanel, QuietPanel
  <2>. QED  BY <1>6, <1>7, <2>1, <2>2 DEF PassPanel
<1>9. QuietPanel(f)'
  BY <1>1, <1>8, SameLogGrows, QuietStands
<1>10. QuietPanel(current_file)'
  BY <1>1, <1>3, <1>9 DEF QuietPanel
<1>11. \A c \in Loads : load'[c].at \notin {"reset", "read", "parse"}
  BY <1>1, <1>2 DEF OverlapInv, IsLoading
<1>. QED  BY <1>2, <1>10, <1>11 DEF PanelInv

LEMMA PanelKept ==
  ASSUME Typed, ThreadInv, StartInv, PositionInv, LogInv, CrowdInv, OverlapInv, PanelInv, [Next]_vars
  PROVE  PanelInv'
<1>1. CASE Aside \/ \E kind \in WRITTEN, a \in AGENTS : WriteRecord(kind, a)
  <2>1. /\ UNCHANGED <<panel, load, current_file, overlapped, carried>>
        /\ Told' = Told /\ Measured' = Measured /\ (Passing <=> Passing')
        /\ refresh' = refresh \/ ~Passing
    BY <1>1, AsideFrame, WriteFrame
  <2>2. Grown
    BY <1>1, WriteGrows, SameLogGrows, AsideFrame
  <2>. QED  BY <2>1, <2>2, PanelStands
<1>2. ASSUME NEW c \in Loads, LoadStep(c) PROVE PanelInv'
  <2>1. carried' = carried /\ overlapped' = overlapped
    BY <1>2, CollisionMoves DEF LoadStep, LoadReset, LoadRead, LoadParse, LoadDone, history_vars
  <2>2. CASE carried \/ overlapped
    BY <2>1, <2>2 DEF PanelInv
  <2>. QED  BY <1>2, <2>2, PanelLoads
<1>3. CASE Pass \/ Flag
  <2>1. carried' = carried /\ overlapped' = overlapped
    BY <1>3 DEF Pass, RefreshParse, Flag, RefreshFlag, history_vars
  <2>2. CASE carried \/ overlapped
    BY <2>1, <2>2 DEF PanelInv
  <2>. QED  BY <1>3, <2>2, PanelPass, PanelFlag
<1>4. CASE Breaks
  BY <1>4, TornIsCarried DEF PanelInv
<1>5. CASE Leave \/ Tell
  <2>1. UNCHANGED <<log, panel, load, current_file, overlapped, carried>>
    BY <1>5 DEF Leave, RefreshLeave, Tell, RefreshTell, parser_vars, history_vars
  <2>2. /\ Told' = Told /\ Measured' = Measured /\ (Passing <=> Passing')
        /\ \/ /\ refresh'.file = refresh.file
              /\ refresh'.next = refresh.next /\ refresh'.last = refresh.last
           \/ ~Passing
    BY <1>5, RestMoves, TellMoves
  <2>. QED  BY <2>1, <2>2, SameLogGrows, PanelStands
<1>6. CASE Collides
  BY <1>6, CollisionOverlaps, PassCollisionCounts DEF PanelInv
<1>. QED  BY <1>1, <1>2, <1>3, <1>4, <1>5, <1>6, PanelClick, PanelLook, StepCases, NamedKinds

-----------------------------------------------------------------------------
(* The properties *)

ViewerInv ==
  /\ Typed /\ ThreadInv /\ StartInv /\ PositionInv /\ WatchInv /\ ScreenInv
  /\ CrowdInv /\ CountInv /\ CareInv
  /\ LogInv /\ OverlapInv /\ PanelInv

LEMMA LogBegins ==
  ASSUME Init
  PROVE  LogInv
<1>1. \A f \in FILES : log[f] = <<>> \/ log[f] = [i \in DOMAIN OLD_LOG |-> OldRecord(i)]
  BY DEF Init
<1>2. LIVE \in FILES /\ log[LIVE] = <<>>
  BY LogAssumption DEF Init
<1>3. OLD_LOG \in Seq(Kinds) /\ (OLD_LOG # <<>> => OLD_LOG[1] = "hand")
  BY LogAssumption
<1>4. ASSUME NEW f \in FILES, log[f] # <<>>
      PROVE  /\ Len(log[f]) > 0 => log[f][1].kind = "hand"
             /\ \A i \in 1 .. Len(log[f]) : log[f][i].hand = 1
  <2>1. log[f] = [i \in 1 .. Len(OLD_LOG) |-> OldRecord(i)] /\ Len(OLD_LOG) \in Nat
    BY <1>1, <1>3, <1>4
  <2>2. Len(log[f]) = Len(OLD_LOG)
    BY <2>1
  <2>3. Len(OLD_LOG) > 0 => OLD_LOG[1] = "hand"
    BY <1>3
  <2>. QED  BY <2>1, <2>2, <2>3 DEF OldRecord
<1>5. \A f \in FILES : log[f] = <<>> => Len(log[f]) = 0
  OBVIOUS
<1>6. \A f \in FILES : \A i, j \in 1 .. Len(log[f]) : log[f][j].hand = log[f][i].hand
  BY <1>4, <1>5
<1>. QED  BY <1>2, <1>4, <1>5, <1>6 DEF LogInv

LEMMA ViewerInvInit ==
  ASSUME Init
  PROVE  ViewerInv
<1>1. Typed /\ ThreadInv /\ StartInv /\ LogInv
  BY ViewerBegins, LogBegins
<1>2. \A c \in Loads : load[c].at = "ready" /\ ~IsLoading(c)
  BY DEF Init, IdleLoad, IsLoading
<1>3. refresh.at = "dead" /\ ~Passing /\ Told = 0 /\ Measured = NoFile
  BY DEF Init, IdleRefresh, Passing, IsParsing, Told, Measured
<1>4. PositionInv
  BY <1>3 DEF PositionInv
<1>5. WatchInv /\ ScreenInv
  BY <1>3 DEF Init, WatchInv, ScreenInv
<1>6. CrowdInv /\ OverlapInv
  BY <1>2, <1>3 DEF Init, CrowdInv, OverlapInv
<1>7. CountInv
  <2>1. ASSUME NEW f \in FILES, NEW i \in Lines PROVE CountBound(f, i)
    <3>1. events[f][i] = 0
      BY DEF Init, NoEvents
    <3>. QED  BY <3>1 DEF CountBound, Once
  <2>. QED  BY <2>1 DEF CountInv
<1>8. CareInv
  BY <1>3, LogAssumption DEF CareInv
<1>9. PanelInv
  <2>1. Agrees
    BY DEF Init, Agrees, Fields
  <2>2. QuietPanel(current_file)
    BY <1>3, <2>1, LogAssumption DEF QuietPanel
  <2>. QED  BY <1>2, <1>3, <2>1, <2>2 DEF PanelInv
<1>. QED  BY <1>1, <1>4, <1>5, <1>6, <1>7, <1>8, <1>9 DEF ViewerInv

LEMMA ViewerInvNext ==
  ASSUME ViewerInv, [Next]_vars, ~doubled'
  PROVE  ViewerInv'
BY TypedKept, ThreadKept, StartKept, PositionKept, WatchKept, ScreenKept, CrowdKept, CountKept,
   CareKept, LogKept, OverlapKept, PanelKept DEF ViewerInv

\* Once two handlers were about to start the refresh thread, it stays so.
LEMMA DoubledStays ==
  ASSUME [Next]_vars, doubled
  PROVE  doubled'
<1>1. CASE ToggleAutoRefresh \/ \E c \in Loads : LoadDone(c)
  <2>1. StartAutoRefresh \/ UNCHANGED start_vars
    BY <1>1 DEF ToggleAutoRefresh, LoadDone
  <2>. QED  BY <2>1 DEF StartAutoRefresh, start_vars
<1>2. CASE \/ StartThread \/ NamedStep \/ ForgottenStep
  <2>1. doubled' = doubled
    BY <1>2 DEF StartThread, NamedStep, ForgottenStep, RefreshStep, RefreshLook, RefreshTell,
       RefreshBreaks, RefreshParse, RefreshCollides, RefreshFlag, RefreshLeave, start_vars
  <2>. QED  BY <2>1
<1>3. CASE \/ GameStep \/ (\E c \in Loads, f \in FILES : ClickFile(c, f)) \/ TimerDraw \/ TimerClear
           \/ UNCHANGED vars
           \/ \E c \in Loads : LoadReset(c) \/ LoadRead(c) \/ LoadParse(c) \/ LoadCollides(c)
  <2>1. doubled' = doubled
    BY <1>3 DEF GameStep, WriteRecord, ClickFile, TimerDraw, TimerClear, vars, LoadReset, LoadRead,
       LoadParse, LoadCollides, start_vars
  <2>. QED  BY <2>1
<1>. QED  BY <1>1, <1>2, <1>3 DEF Next, UserStep, LoadStep

\* Nothing is claimed of the threads after that.
LEMMA ViewerInvAlways == Spec => [](doubled \/ ViewerInv)
<1>1. Init => ViewerInv
  BY ViewerInvInit
<1>2. (doubled \/ ViewerInv) /\ [Next]_vars => (doubled \/ ViewerInv)'
  BY ViewerInvNext, DoubledStays
<1>. QED  BY <1>1, <1>2, PTL DEF Spec

\* However often a file is loaded and refreshed, whatever the game writes
\* meanwhile, no event is listed a third time, unless two loads ran at once or
\* two handlers were about to start the refresh thread at once.
THEOREM ListedTwiceAtMost == Spec => []NoLineListedThrice
<1>1. doubled \/ ViewerInv => NoLineListedThrice
  <2>1. SUFFICES ASSUME ViewerInv, ~crowded, NEW f \in FILES, NEW i \in Lines
                 PROVE  events[f][i] <= 2
    BY DEF NoLineListedThrice, Count
  <2>2. CountBound(f, i) /\ events[f][i] \in Nat
    BY <2>1 DEF ViewerInv, CountInv, Typed
  <2>. QED  BY <2>1, <2>2 DEF CountBound, Once
<1>. QED  BY <1>1, ViewerInvAlways, PTL

\* At rest the position is the one the refresh thread has told.
LEMMA RestIsTold ==
  ASSUME AtRest
  PROVE  /\ ~Passing /\ Told = position /\ Measured = measured /\ starting = 0
         /\ \A c \in Loads : ~IsLoading(c)
BY DEF AtRest, Passing, IsParsing, Told, Measured

\* What parse_new_lines has passed over is in the list when the threads rest,
\* as long as no offset was carried to another file, no loads overlapped, one
\* refresh thread was started at a time and the dictionary has ended none.
THEOREM NoRecordIsLost == Spec => []NothingIsMissed
<1>1. doubled \/ ViewerInv => NothingIsMissed
  <2>1. SUFFICES ASSUME ViewerInv, AtRest, ~carried, ~crowded, ~collided, measured = current_file,
                        current_file # NoFile, NEW i \in DOMAIN log[current_file],
                        IsEvent(log[current_file][i]), Offset(current_file, i) <= position
                 PROVE  events[current_file][i] > 0
    BY DEF NothingIsMissed, Count
  <2>2. PICK f \in FILES : f = current_file
    BY <2>1 DEF ViewerInv, Typed, AnyFile
  <2>3. i \in 1 .. Len(log[f])
    BY <2>1, <2>2, LogType DEF ViewerInv
  <2>4. ~Passing /\ Told = position /\ Measured = f /\ \A c \in Loads : ~IsLoading(c)
    BY <2>1, <2>2, RestIsTold
  <2>5. IsCared(f, i)
    BY <2>1, <2>2, <2>3, <2>4 DEF ViewerInv, CareInv
  <2>6. ~InPass(f, i) /\ ~InLoad(f, i)
    BY <2>4 DEF IsLoading, InPass, InLoad
  <2>. QED  BY <2>1, <2>2, <2>4, <2>5, <2>6 DEF IsCared
<1>. QED  BY <1>1, ViewerInvAlways, PTL

\* At rest the panel shows no card and no phase of another hand than the one
\* it names, as long as the threads did not overlap, no offset was carried and
\* one refresh thread was started at a time.
THEOREM PanelShowsOneHand == Spec => []PanelIsOfOneHand
<1>1. doubled \/ ViewerInv => PanelIsOfOneHand
  <2>1. SUFFICES ASSUME ViewerInv, AtRest, ~overlapped, ~carried
                 PROVE  \A x \in Fields : panel[x] \in {panel["hand"], NoHand}
    BY DEF PanelIsOfOneHand
  <2>2. QuietPanel(current_file)
    BY <2>1, RestIsTold DEF ViewerInv, PanelInv
  <2>. QED  BY <2>2 DEF QuietPanel, Agrees
<1>. QED  BY <1>1, ViewerInvAlways, PTL

\* Listed events stay off the screen at rest only when the flag was raised
\* between the timer's redraw and its lowering of the flag, when the error of
\* the dictionary ended a thread, or after two starts at once.
THEOREM ScreenFollowsList == Spec => []HiddenOnlyByRace
<1>1. doubled \/ ViewerInv => HiddenOnlyByRace
  <2>1. SUFFICES ASSUME ViewerInv, AtRest, ~needs_update, events # NoEvents, ~up_to_date
                 PROVE  overtaken \/ collided
    BY DEF HiddenOnlyByRace
  <2>. QED  BY <2>1, RestIsTold DEF ViewerInv, ScreenInv
<1>. QED  BY <1>1, ViewerInvAlways, PTL

\* While the switch is on and a file is loaded, the refresh thread runs,
\* unless it met a foreign offset or the error of the dictionary, a start met
\* it on its way out, or two starts met.
THEOREM WatchIsKept == Spec => []WatchedUnlessRaced
<1>1. doubled \/ ViewerInv => WatchedUnlessRaced
  <2>1. SUFFICES ASSUME ViewerInv, AtRest, auto_refresh, current_file # NoFile, refresh.at = "dead"
                 PROVE  carried \/ missed_start \/ collided
    BY DEF WatchedUnlessRaced
  <2>. QED  BY <2>1, RestIsTold DEF ViewerInv, WatchInv
<1>. QED  BY <1>1, ViewerInvAlways, PTL
=============================================================================
