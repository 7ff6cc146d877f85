-------------------------- MODULE MCSidePotsProofs --------------------------
(***************************************************************************)
(* The pay-out of a showdown is right for every number of seats, every     *)
(* stake and every order of the hands: the reference definitions of        *)
(* MCSidePots, which do not speak of layers, hold of the layers.  That the *)
(* split is fair is shown layer by layer, from the lowest: a layer is      *)
(* off by less than a chip.                                                *)
(***************************************************************************)
EXTENDS MCSidePots, SidePotsProofs

USE BoundAssumption DEF Seats

\* A showdown: what Init chooses and Pay leaves alone.
ShowdownInv ==
  /\ contrib \in [Seats -> Nat]
  /\ \A p \in Seats : contrib[p] <= MAX_BET
  /\ showdown \in SUBSET Seats /\ showdown # {}
  /\ \A p \in showdown : contrib[p] > 0
  /\ strength \in [Seats -> Nat]

\* The showdown that is being paid stays a showdown.
LEMMA ShowdownStays == Spec => []ShowdownInv
<1>1. Init => ShowdownInv
  <2>. SUFFICES ASSUME Init PROVE ShowdownInv
    OBVIOUS
  <2>1. showdown # {}
    <3>1. Cardinality(showdown) >= 2
      BY DEF Init
    <3>2. Cardinality({}) = 0
      BY FS_EmptySet
    <3>. QED  BY <3>1, <3>2
  <2>. QED  BY <2>1 DEF Init, ShowdownInv
<1>2. ShowdownInv /\ [Pay]_vars => ShowdownInv'
  BY DEF ShowdownInv, Pay, vars
<1>. QED  BY <1>1, <1>2, PTL DEF Spec

\* The reference and the proofs cap contributions in the same way.
LEMMA SameCap ==
  ASSUME ShowdownInv, NEW x \in Nat
  PROVE  Sum([q \in Seats |-> Lesser(contrib[q], x)], N) = Sum(Capped(contrib, x), N)
<1>. DEFINE f == [q \in Seats |-> Lesser(contrib[q], x)]
<1>1. \A q \in 0 .. N - 1 : f[q] = Capped(contrib, x)[q]
  BY DEF ShowdownInv, Lesser, Capped
<1>. HIDE DEF f
<1>2. Sum(f, N) = Sum(Capped(contrib, x), N)
  BY <1>1, SumExtensional
<1>. QED  BY <1>2 DEF f

\* conduct_showdown pays every chip that somebody at the showdown has matched,
\* the indivisible ones included, and no other.
THEOREM EveryMatchedChipIsPaid == Spec => []PaysEveryMatchedChip
<1>1. ShowdownInv => PaysEveryMatchedChip
  <2>. SUFFICES ASSUME ShowdownInv, Paid PROVE PaysEveryMatchedChip
    BY DEF PaysEveryMatchedChip
  <2>. DEFINE top == Greatest({contrib[p] : p \in showdown})
  <2>1. contrib \in [0 .. N - 1 -> Nat] /\ strength \in [0 .. N - 1 -> Nat]
        /\ showdown \in SUBSET (0 .. N - 1) /\ showdown # {}
    BY DEF ShowdownInv
  <2>2. Sum(Winnings(contrib, showdown, strength), N) = Sum(Capped(contrib, top), N)
    BY <2>1, WinningsAddUp, ZenonT(40)
  <2>3. top \in Nat
    <3>1. top \in {0} \cup Levels(contrib)
      BY <2>1, TopStake
    <3>2. Levels(contrib) \in SUBSET (Nat \ {0})
      BY <2>1, LevelsAreBounded
    <3>. HIDE DEF top
    <3>. QED  BY <3>1, <3>2
  <2>. HIDE DEF top
  <2>4. Sum([q \in Seats |-> Lesser(contrib[q], top)], N) = Sum(Capped(contrib, top), N)
    BY <2>3, SameCap
  <2>. QED  BY <2>2, <2>4 DEF PaysEveryMatchedChip, Paid, top
<1>. QED  BY <1>1, ShowdownStays, PTL

\* A folded hand and a beaten hand win nothing, and nobody takes from another
\* player more than its own stake, however many side pots there are.
THEOREM NobodyTakesTooMuch == Spec => []NobodyIsOverpaid
<1>1. ShowdownInv => NobodyIsOverpaid
  <2>. SUFFICES ASSUME ShowdownInv, Paid, NEW q \in Seats, won[q] # 0
                PROVE  /\ q \in showdown
                       /\ \A p \in showdown :
                            contrib[p] >= contrib[q] => strength[p] <= strength[q]
                       /\ won[q] <= Sum([p \in Seats |-> Lesser(contrib[p], contrib[q])], N)
    BY DEF NobodyIsOverpaid
  <2>1. contrib \in [0 .. N - 1 -> Nat] /\ strength \in [0 .. N - 1 -> Nat]
        /\ showdown \in SUBSET (0 .. N - 1) /\ contrib[q] \in Nat
    BY DEF ShowdownInv
  <2>2. won[q] = Winnings(contrib, showdown, strength)[q]
    BY DEF Paid
  <2>3. PICK level : LayerShare(contrib, showdown, strength, level, q) # 0
    BY <2>1, <2>2, WinnerIsPaidByLayer
  <2>4. /\ level \in Levels(contrib) /\ level <= contrib[q]
        /\ q \in showdown
        /\ \A p \in showdown : contrib[p] >= level => strength[p] <= strength[q]
    BY <2>1, <2>3, PaidByLayer
  <2>5. \A p \in showdown : contrib[p] >= contrib[q] => contrib[p] >= level
    <3>1. level \in Nat
      BY <2>1, <2>4, LevelsAreBounded
    <3>. QED  BY <2>1, <2>4, <3>1
  <2>6. won[q] <= Sum(Capped(contrib, contrib[q]), N)
    BY <2>1, <2>2, WinningsAreBounded
  <2>7. Sum([p \in Seats |-> Lesser(contrib[p], contrib[q])], N)
          = Sum(Capped(contrib, contrib[q]), N)
    BY <2>1, SameCap
  <2>. QED  BY <2>4, <2>5, <2>6, <2>7
<1>. QED  BY <1>1, ShowdownStays, PTL

-----------------------------------------------------------------------------
(* Fairness: the layers against one pot per chip *)

USE UnitAssumption

\* A layer is paid up to less than one chip: the share of a winner of an amount,
\* counted in parts of a chip, is its exact part up to UNIT - 1 parts.
LEMMA ShareIsFair ==
  ASSUME NEW A \in Nat, NEW winners \in SUBSET Seats, NEW p \in winners
  PROVE  /\ UNIT \div Cardinality(winners) \in Nat \ {0}
         /\ UNIT = (UNIT \div Cardinality(winners)) * Cardinality(winners)
         /\ UNIT * Share(A, winners, p) - (UNIT \div Cardinality(winners)) * A
              \in -(UNIT - 1) .. (UNIT - 1)
<1>. DEFINE w == Cardinality(winners)
            u == UNIT \div w
            quot == A \div w
            rest == A % w
            e == IF Rank(winners, p) < rest THEN 1 ELSE 0
<1>1. w \in Nat /\ w > 0 /\ w <= N
  <2>1. w \in Nat /\ w > 0
    BY SeatSetCardinality
  <2>2. Cardinality(Seats) = N /\ IsFiniteSet(Seats)
    BY FS_Interval
  <2>3. w <= Cardinality(Seats)
    BY <2>2, FS_Subset
  <2>. QED  BY <2>1, <2>2, <2>3
<1>2. u \in Nat /\ UNIT = u * w
  <2>1. UNIT % w = 0
    BY <1>1
  <2>2. u \in Nat /\ UNIT = u * w + (UNIT % w)
    BY <1>1, Division
  <2>. HIDE DEF u, w
  <2>3. u * w \in Nat
    BY <1>1, <2>2
  <2>. QED  BY <2>1, <2>2, <2>3
<1>3. u # 0
  BY <1>1, <1>2
<1>4. quot \in Nat /\ rest \in Nat /\ rest < w /\ A = quot * w + rest
  BY <1>1, Division
<1>5. Rank(winners, p) \in Nat
  BY RankStep
<1>6. Share(A, winners, p) = quot + e /\ e \in {0, 1} /\ (e = 1 => rest > 0)
  BY <1>4, <1>5 DEF Share, Rank
<1>. HIDE DEF w, u, quot, rest, e
<1>7. UNIT * Share(A, winners, p) - u * A = u * (w * e - rest)
  <2>1. UNIT * (quot + e) = (u * w) * quot + (u * w) * e
    BY <1>1, <1>2, <1>4, <1>6
  <2>2. u * A = u * (quot * w) + u * rest
    BY <1>1, <1>2, <1>4
  <2>3. (u * w) * quot = u * (quot * w) /\ (u * w) * e = u * (w * e)
    BY <1>1, <1>2, <1>4, <1>6
  <2>4. u * (w * e - rest) = u * (w * e) - u * rest
    BY <1>1, <1>2, <1>4, <1>6
  <2>5. u * (quot * w) \in Int /\ u * (w * e) \in Int /\ u * rest \in Int
    BY <1>1, <1>2, <1>4, <1>6
  <2>. QED  BY <1>6, <2>1, <2>2, <2>3, <2>4, <2>5
<1>8. w * e - rest \in -(w - 1) .. (w - 1)
  BY <1>1, <1>4, <1>6
<1>9. u * (w * e - rest) \in -(UNIT - 1) .. (UNIT - 1)
  <2>. DEFINE z == w * e - rest
  <2>1. z \in Int /\ -(w - 1) <= z /\ z <= w - 1
    BY <1>1, <1>8
  <2>. HIDE DEF z
  <2>2. u * z <= u * (w - 1) /\ u * (-(w - 1)) <= u * z
    BY <1>1, <1>2, <2>1
  <2>3. u * (w - 1) = UNIT - u /\ u * (-(w - 1)) = u - UNIT /\ u * z \in Int
    BY <1>1, <1>2, <2>1
  <2>4. u * z \in -(UNIT - 1) .. (UNIT - 1)
    BY <1>2, <1>3, <2>2, <2>3
  <2>. QED  BY <2>4 DEF z
<1>. QED  BY <1>2, <1>3, <1>7, <1>9 DEF w, u

\* The best hands among those that reached a level.
Best(level) == DetermineWinners({q \in showdown : contrib[q] >= level}, strength)

\* Every chip between a level and the level before it is split by the same
\* players, and above the highest level nobody has a chip.
LEMMA ChipsOfALayer ==
  ASSUME ShowdownInv, NEW p \in Seats
  PROVE  /\ \A level \in Levels(contrib) :
              \A i \in PrevLevel(contrib, level) .. level - 1 :
                 ChipValue(i + 1, p) = ChipValue(level, p)
         /\ \A i \in Nat : i >= MaxLevel(contrib) => ChipValue(i + 1, p) = 0
<1>0. contrib \in [0 .. N - 1 -> Nat]
  BY DEF ShowdownInv
<1>1. ASSUME NEW level \in Levels(contrib), NEW i \in PrevLevel(contrib, level) .. level - 1
      PROVE  ChipValue(i + 1, p) = ChipValue(level, p)
  <2>. DEFINE prev == PrevLevel(contrib, level)
  <2>1. level \in Nat /\ prev \in Nat /\ prev < level
    BY <1>0, LevelsAreBounded, PrevLevelIsBelow
  <2>2. \A q \in Seats : contrib[q] < level => contrib[q] <= prev
    <3>1. ASSUME NEW q \in Seats, contrib[q] < level, contrib[q] # 0
          PROVE  contrib[q] <= prev
      <4>1. contrib[q] \in Levels(contrib)
        BY <1>0, <3>1 DEF Levels
      <4>. QED  BY <1>0, <3>1, <4>1, PrevLevelIsLast
    <3>. QED  BY <1>0, <2>1, <3>1
  <2>3. i \in prev .. level - 1
    OBVIOUS
  <2>. HIDE DEF prev
  <2>4. \A q \in Seats : contrib[q] >= i + 1 <=> contrib[q] >= level
    BY <1>0, <2>1, <2>2, <2>3
  <2>5. /\ {q \in Seats : contrib[q] >= i + 1} = {q \in Seats : contrib[q] >= level}
        /\ {q \in showdown : contrib[q] >= i + 1} = {q \in showdown : contrib[q] >= level}
    <3>1. showdown \in SUBSET Seats
      BY DEF ShowdownInv
    <3>. QED  BY <2>4, <3>1, Zenon
  <2>. QED  BY <2>5 DEF ChipValue
<1>2. ASSUME NEW i \in Nat, i >= MaxLevel(contrib) PROVE ChipValue(i + 1, p) = 0
  <2>1. MaxLevel(contrib) \in Nat /\ \A l \in Levels(contrib) : l <= MaxLevel(contrib)
    BY <1>0, MaxLevelType
  <2>2. \A q \in showdown : ~(contrib[q] >= i + 1)
    <3>1. ASSUME NEW q \in showdown PROVE ~(contrib[q] >= i + 1)
      <4>1. q \in Seats /\ contrib[q] > 0 /\ contrib[q] \in Nat
        BY DEF ShowdownInv
      <4>2. contrib[q] \in Levels(contrib)
        BY <1>0, <4>1 DEF Levels
      <4>3. contrib[q] <= MaxLevel(contrib)
        BY <2>1, <4>2
      <4>. QED  BY <1>2, <2>1, <4>1, <4>3
    <3>. QED  BY <3>1
  <2>3. p \notin DetermineWinners({q \in showdown : contrib[q] >= i + 1}, strength)
    BY <2>2 DEF DetermineWinners
  <2>. QED  BY <2>3 DEF ChipValue
<1>. QED  BY <1>1, <1>2

\* What a layer pays a player is its exact part of the chips of the layer up
\* to UNIT - 1 parts.
LEMMA LayerIsFair ==
  ASSUME ShowdownInv, NEW p \in Seats, NEW level \in Levels(contrib)
  PROVE  /\ ChipValue(level, p) \in Nat
         /\ UNIT * LayerShare(contrib, showdown, strength, level, p)
              - (level - PrevLevel(contrib, level)) * ChipValue(level, p)
              \in -(UNIT - 1) .. (UNIT - 1)
<1>. DEFINE best == Best(level)
            C == Contributors(contrib, level)
            h == level - PrevLevel(contrib, level)
            m == Cardinality(C)
            w == Cardinality(best)
            u == UNIT \div w
<1>0. contrib \in [0 .. N - 1 -> Nat] /\ showdown \in SUBSET Seats
  BY DEF ShowdownInv
<1>1. /\ C = {q \in Seats : contrib[q] >= level}
      /\ best = DetermineWinners(Eligible(contrib, showdown, level), strength)
  <2>1. C = {q \in Seats : contrib[q] >= level}
    BY <1>0 DEF Contributors
  <2>2. {q \in showdown : contrib[q] >= level} = C \cap showdown
    BY <1>0, <2>1, Zenon
  <2>. QED  BY <2>1, <2>2 DEF Best, Eligible
<1>2. best \in SUBSET Seats /\ C \in SUBSET Seats /\ m \in Nat
  <2>1. best \in SUBSET Seats /\ C \in SUBSET Seats
    BY <1>0, <1>1 DEF Best, DetermineWinners
  <2>. QED  BY <2>1, SeatSetCardinality
<1>3. h \in Nat /\ LayerAmount(contrib, level) = h * m /\ h * m \in Nat
  <2>1. level \in Nat /\ PrevLevel(contrib, level) \in Nat /\ PrevLevel(contrib, level) < level
    BY <1>0, LevelsAreBounded, PrevLevelIsBelow
  <2>2. h \in Nat /\ LayerAmount(contrib, level) = h * m
    BY <2>1 DEF LayerAmount
  <2>. HIDE DEF h, m
  <2>. QED  BY <1>2, <2>2
<1>4. CASE p \in best
  <2>1. ChipValue(level, p) = (UNIT * m) \div w
    BY <1>1, <1>4 DEF ChipValue, Best
  <2>2. LayerShare(contrib, showdown, strength, level, p) = Share(h * m, best, p)
    BY <1>1, <1>3, <1>4 DEF LayerShare
  <2>3. /\ u \in Nat \ {0} /\ UNIT = u * w
        /\ UNIT * Share(h * m, best, p) - u * (h * m) \in -(UNIT - 1) .. (UNIT - 1)
    <3>. DEFINE A == h * m
    <3>1. A \in Nat
      BY <1>3
    <3>. HIDE DEF A, best
    <3>2. /\ UNIT \div Cardinality(best) \in Nat \ {0}
          /\ UNIT = (UNIT \div Cardinality(best)) * Cardinality(best)
          /\ UNIT * Share(A, best, p) - (UNIT \div Cardinality(best)) * A
               \in -(UNIT - 1) .. (UNIT - 1)
      BY <1>2, <1>4, <3>1, ShareIsFair
    <3>. QED  BY <3>2 DEF A
  <2>4. w \in Nat /\ w > 0
    BY <1>2, <1>4, SeatSetCardinality
  <2>. HIDE DEF best, C, h, m, w, u
  <2>5. (UNIT * m) \div w = u * m
    <3>1. UNIT * m = (u * m) * w
      BY <1>2, <2>3, <2>4
    <3>2. u * m \in Nat
      BY <1>2, <2>3
    <3>. DEFINE a == u * m
    <3>. HIDE DEF a
    <3>3. (a * w) \div w = a
      BY <2>4, <3>2 DEF a
    <3>. QED  BY <3>1, <3>3 DEF a
  <2>6. h * (u * m) = u * (h * m) /\ u * m \in Nat
    BY <1>2, <1>3, <2>3
  <2>7. ChipValue(level, p) = u * m
    BY <2>1, <2>5
  <2>8. h * ChipValue(level, p) = u * (h * m)
    BY <2>6, <2>7
  <2>. QED  BY <2>2, <2>3, <2>6, <2>7, <2>8 DEF h
<1>5. CASE p \notin best
  <2>1. ChipValue(level, p) = 0 /\ LayerShare(contrib, showdown, strength, level, p) = 0
    BY <1>1, <1>5 DEF ChipValue, LayerShare, Best
  <2>2. h * 0 = 0 /\ UNIT * 0 = 0
    BY <1>3
  <2>. HIDE DEF h
  <2>3. 0 \in -(UNIT - 1) .. (UNIT - 1)
    OBVIOUS
  <2>. QED  BY <2>1, <2>2, <2>3 DEF h
<1>. QED  BY <1>4, <1>5

\* The highest level is a contribution, or there is none, and within the bound.
LEMMA HighestStake ==
  ASSUME ShowdownInv
  PROVE  /\ MaxLevel(contrib) \in Nat /\ MaxLevel(contrib) <= MAX_BET
         /\ MaxLevel(contrib) \in {0} \cup Levels(contrib)
<1>. DEFINE S == {0} \cup Levels(contrib)
<1>1. S \in SUBSET Nat /\ S # {} /\ Sum(contrib, N) \in Nat
      /\ \A k \in S : k <= Sum(contrib, N)
  <2>1. contrib \in [0 .. N - 1 -> Nat]
    BY DEF ShowdownInv
  <2>. QED  BY <2>1, LevelsAreBounded
<1>2. Greatest(S) \in S
  BY <1>1, GreatestIsGreatest
<1>3. \A k \in S : k <= MAX_BET
  BY DEF Levels, ShowdownInv
<1>. HIDE DEF S
<1>4. Greatest(S) \in Nat /\ Greatest(S) <= MAX_BET
  BY <1>1, <1>2, <1>3
<1>. QED  BY <1>2, <1>4 DEF MaxLevel, S

\* The layers up to a level pay a player what one pot per chip would pay it up
\* to that level, up to UNIT - 1 parts of a chip for each layer.
LEMMA LayersAreFair ==
  ASSUME ShowdownInv, NEW p \in Seats,
         NEW V, \A i \in 0 .. MAX_BET - 1 : V[i] = ChipValue(i + 1, p),
         NEW W, \A i \in 0 .. MaxLevel(contrib) - 1 :
                   W[i] = LayerShare(contrib, showdown, strength, i + 1, p),
         NEW layers, layers = Cardinality(Levels(contrib))
  PROVE  /\ layers \in Nat
         /\ Sum(V, MaxLevel(contrib)) \in Int /\ Sum(W, MaxLevel(contrib)) \in Int
         /\ UNIT * Sum(W, MaxLevel(contrib)) - Sum(V, MaxLevel(contrib))
              \in -((UNIT - 1) * layers) .. ((UNIT - 1) * layers)
<1>. DEFINE max == MaxLevel(contrib)
            L == Levels(contrib)
            IsLast(x, k) == x <= k /\ \A l \in L : l <= k => l <= x
            Within(d, c) == d \in -((UNIT - 1) * c) .. ((UNIT - 1) * c)
            Good(k) == \A x \in {0} \cup L : IsLast(x, k) =>
                         /\ Sum(V, x) \in Int /\ Sum(W, k) \in Int
                         /\ Within(UNIT * Sum(W, k) - Sum(V, x), Rank(L, k + 1))
            Bad == {k \in Nat : k <= max /\ ~Good(k)}
<1>0. contrib \in [0 .. N - 1 -> Nat]
  BY DEF ShowdownInv
<1>1. L \in SUBSET (Nat \ {0}) /\ max \in Nat /\ \A l \in L : l <= max
  BY <1>0, LevelsAreBounded, MaxLevelType
<1>2. max \in {0} \cup L /\ max <= MAX_BET
  BY HighestStake
<1>3. /\ Rank(L, 1) = 0 /\ Rank(L, max + 1) = Cardinality(L)
      /\ \A k \in Nat : /\ Rank(L, k) \in Nat
                        /\ Rank(L, k + 1) = Rank(L, k) + (IF k \in L THEN 1 ELSE 0)
  <2>. HIDE DEF L, max
  <2>1. max + 1 \in Nat /\ L \in SUBSET (0 .. (max + 1) - 1) /\ 0 \notin L
    BY <1>1
  <2>2. /\ Rank(L, 0) = 0 /\ Rank(L, max + 1) = Cardinality(L)
        /\ \A k \in Nat : /\ Rank(L, k) \in Nat
                          /\ Rank(L, k + 1) = Rank(L, k) + (IF k \in L THEN 1 ELSE 0)
    BY <2>1, RankStep
  <2>3. Rank(L, 0 + 1) = Rank(L, 0) + (IF 0 \in L THEN 1 ELSE 0)
    BY <2>2
  <2>. QED  BY <2>1, <2>2, <2>3
<1>. HIDE DEF max, L
<1>4. Good(0)
  <2>. SUFFICES ASSUME NEW x \in {0} \cup L, IsLast(x, 0)
                PROVE  /\ Sum(V, x) \in Int /\ Sum(W, 0) \in Int
                       /\ Within(UNIT * Sum(W, 0) - Sum(V, x), Rank(L, 0 + 1))
    OBVIOUS
  <2>1. x = 0
    BY <1>1
  <2>2. Sum(V, x) = 0 /\ Sum(W, 0) = 0
    BY <2>1, SumEmpty
  <2>3. Rank(L, 0 + 1) = 0 /\ UNIT * 0 = 0 /\ (UNIT - 1) * 0 = 0
    BY <1>3
  <2>. QED  BY <2>2, <2>3
<1>5. ASSUME NEW k \in Nat, k < max, Good(k) PROVE Good(k + 1)
  <2>. SUFFICES ASSUME NEW x \in {0} \cup L, IsLast(x, k + 1)
                PROVE  /\ Sum(V, x) \in Int /\ Sum(W, k + 1) \in Int
                       /\ Within(UNIT * Sum(W, k + 1) - Sum(V, x), Rank(L, (k + 1) + 1))
    OBVIOUS
  <2>. DEFINE s == LayerShare(contrib, showdown, strength, k + 1, p)
  <2>1. Sum(W, k + 1) = Sum(W, k) + s
    <3>1. Sum(W, k + 1) = Sum(W, k) + W[k]
      BY SumStep
    <3>2. k \in 0 .. max - 1
      BY <1>1, <1>5
    <3>. QED  BY <3>1, <3>2 DEF max
  <2>2. Rank(L, (k + 1) + 1) = Rank(L, k + 1) + (IF k + 1 \in L THEN 1 ELSE 0)
        /\ Rank(L, k + 1) \in Nat
    BY <1>3
  <2>3. s \in Nat
    BY <1>0, LayerShareType
  <2>4. CASE k + 1 \in L
    <3>. DEFINE prev == PrevLevel(contrib, k + 1)
                v == ChipValue(k + 1, p)
                c == Rank(L, k + 1)
    <3>1. x = k + 1
      BY <1>1, <2>4
    <3>2. /\ prev \in {0} \cup L /\ prev \in Nat /\ prev < k + 1
          /\ \A l \in L : l < k + 1 => l <= prev
      BY <1>0, <2>4, PrevLevelIsBelow, PrevLevelIsLast DEF L
    <3>3. \A i \in prev .. (k + 1) - 1 : ChipValue(i + 1, p) = v
      BY <2>4, ChipsOfALayer DEF L
    <3>4. /\ v \in Nat
          /\ UNIT * s - ((k + 1) - prev) * v \in -(UNIT - 1) .. (UNIT - 1)
      BY <2>4, LayerIsFair DEF L
    <3>. HIDE DEF prev, v, s
    <3>5. IsLast(prev, k)
      <4>1. \A l \in L : l <= k => l < k + 1
        BY <1>1
      <4>. QED  BY <3>2, <4>1
    <3>6. /\ Sum(V, prev) \in Int /\ Sum(W, k) \in Int
          /\ Within(UNIT * Sum(W, k) - Sum(V, prev), c)
      BY <1>5, <3>2, <3>5
    <3>7. \A i \in prev .. (k + 1) - 1 : V[i] = v
      <4>1. \A i \in prev .. (k + 1) - 1 : i \in 0 .. MAX_BET - 1
        BY <1>1, <1>2, <1>5, <3>2
      <4>. QED  BY <3>3, <4>1
    <3>8. Sum(V, k + 1) = Sum(V, prev) + ((k + 1) - prev) * v
      <4>1. k + 1 \in Nat /\ prev <= k + 1
        BY <3>2
      <4>. QED  BY <3>2, <3>4, <3>6, <3>7, <4>1, SumOfEqual, SMTT(30)
    <3>. DEFINE g == ((k + 1) - prev) * v
    <3>9. g \in Int /\ UNIT * s - g \in -(UNIT - 1) .. (UNIT - 1)
      BY <3>2, <3>4
    <3>10. Sum(V, k + 1) = Sum(V, prev) + g
      BY <3>8
    <3>. HIDE DEF g
    <3>11. UNIT * (Sum(W, k) + s) = UNIT * Sum(W, k) + UNIT * s
           /\ UNIT * Sum(W, k) \in Int /\ UNIT * s \in Int
      BY <2>3, <3>6
    <3>12. (UNIT - 1) * (c + 1) = (UNIT - 1) * c + (UNIT - 1) /\ (UNIT - 1) * c \in Int
      BY <2>2
    <3>13. Rank(L, (k + 1) + 1) = c + 1
      BY <2>2, <2>4
    <3>. DEFINE P == (UNIT - 1) * c
                a == UNIT * Sum(W, k)
                t == UNIT * s
    <3>14. /\ P \in Int /\ a \in Int /\ t \in Int
           /\ a - Sum(V, prev) \in -P .. P /\ t - g \in -(UNIT - 1) .. (UNIT - 1)
           /\ UNIT * (Sum(W, k) + s) = a + t
           /\ (UNIT - 1) * (c + 1) = P + (UNIT - 1)
      BY <3>6, <3>9, <3>11, <3>12
    <3>. HIDE DEF P, a, t, c
    <3>15. (a + t) - (Sum(V, prev) + g) \in -(P + (UNIT - 1)) .. (P + (UNIT - 1))
      BY <3>6, <3>9, <3>14
    <3>16. Within(UNIT * Sum(W, k + 1) - Sum(V, x), c + 1)
      BY <2>1, <3>1, <3>10, <3>14, <3>15
    <3>. QED  BY <2>1, <2>3, <3>1, <3>6, <3>9, <3>10, <3>13, <3>16
  <2>5. CASE k + 1 \notin L
    <3>1. s = 0
      BY <2>5 DEF LayerShare, L
    <3>2. IsLast(x, k)
      <4>1. x # k + 1 /\ x \in Nat /\ x <= k + 1
        BY <1>1, <2>5
      <4>2. x <= k
        BY <4>1
      <4>3. \A l \in L : l <= k => l <= k + 1
        BY <1>1
      <4>. QED  BY <4>2, <4>3
    <3>3. /\ Sum(V, x) \in Int /\ Sum(W, k) \in Int
          /\ Within(UNIT * Sum(W, k) - Sum(V, x), Rank(L, k + 1))
      BY <1>5, <3>2
    <3>4. Sum(W, k + 1) = Sum(W, k) /\ Rank(L, (k + 1) + 1) = Rank(L, k + 1)
      BY <2>1, <2>2, <2>5, <3>1, <3>3
    <3>. HIDE DEF Within, s
    <3>. QED  BY <3>3, <3>4
  <2>. QED  BY <2>4, <2>5
<1>6. SUFFICES ASSUME Bad # {} PROVE FALSE
  <2>1. IsLast(max, max)
    BY <1>1
  <2>2. SUFFICES Good(max)
    <3>1. Sum(V, max) \in Int /\ Sum(W, max) \in Int
          /\ Within(UNIT * Sum(W, max) - Sum(V, max), Rank(L, max + 1))
      BY <1>2, <2>1, <2>2
    <3>2. Rank(L, max + 1) = layers /\ Rank(L, max + 1) \in Nat
      BY <1>1, <1>3 DEF L
    <3>. QED  BY <3>1, <3>2 DEF max
  <2>. HIDE DEF Good
  <2>. QED  BY <1>1, <1>6
<1>. HIDE DEF Good
<1>7. PICK k \in Bad : \A j \in Bad : k <= j
  BY <1>6, NatSetHasMin
<1>8. k # 0
  BY <1>4, <1>7
<1>9. k - 1 \in Nat /\ k - 1 < max /\ Good(k - 1) /\ (k - 1) + 1 = k
  BY <1>1, <1>7, <1>8
<1>10. Good((k - 1) + 1)
  BY <1>5, <1>9
<1>. QED  BY <1>7, <1>9, <1>10

\* conduct_showdown splits fairly: against a pot for every single chip, split
\* exactly among the best hands that reached it, nobody gains or loses a whole
\* chip per layer.  Holds for every number of seats, stakes and split pots.
THEOREM LayersPayFairly == Spec => []FairToTheChip
<1>1. ShowdownInv => FairToTheChip
  <2>. SUFFICES ASSUME ShowdownInv, Paid, NEW p \in Seats
                PROVE  LET layers == Cardinality(Levels(contrib))
                           diff   == UNIT * won[p] - ExactShare(p)
                       IN  -(UNIT * layers) < diff /\ diff < UNIT * layers
    BY DEF FairToTheChip
  <2>. DEFINE max == MaxLevel(contrib)
              layers == Cardinality(Levels(contrib))
              V == [i \in 0 .. MAX_BET - 1 |-> ChipValue(i + 1, p)]
              W == [i \in 0 .. max - 1 |->
                      LayerShare(contrib, showdown, strength, i + 1, p)]
  <2>0. contrib \in [0 .. N - 1 -> Nat]
    BY DEF ShowdownInv
  <2>1. won[p] = Sum(W, max) /\ ExactShare(p) = Sum(V, MAX_BET)
    BY <2>0 DEF Paid, Winnings, ExactShare
  <2>2. max \in Nat /\ max <= MAX_BET
    BY HighestStake
  <2>3. /\ \A i \in 0 .. MAX_BET - 1 : V[i] = ChipValue(i + 1, p)
        /\ \A i \in 0 .. max - 1 :
             W[i] = LayerShare(contrib, showdown, strength, i + 1, p)
        /\ \A i \in max .. MAX_BET - 1 : V[i] = 0
    <3>1. \A i \in max .. MAX_BET - 1 : i \in Nat /\ i >= max /\ i \in 0 .. MAX_BET - 1
      BY <2>2
    <3>2. \A i \in Nat : i >= max => ChipValue(i + 1, p) = 0
      BY ChipsOfALayer
    <3>. QED  BY <3>1, <3>2
  <2>. HIDE DEF V, W
  <2>4. /\ layers \in Nat
        /\ Sum(V, max) \in Int /\ Sum(W, max) \in Int
        /\ UNIT * Sum(W, max) - Sum(V, max)
             \in -((UNIT - 1) * layers) .. ((UNIT - 1) * layers)
    BY <2>3, LayersAreFair
  <2>5. Sum(V, MAX_BET) = Sum(V, max)
    <3>. HIDE DEF max
    <3>1. Sum(V, MAX_BET) = Sum(V, max) + (MAX_BET - max) * 0
      BY <2>2, <2>3, <2>4, SumOfEqual
    <3>2. (MAX_BET - max) * 0 = 0
      BY <2>2
    <3>. QED  BY <2>4, <3>1, <3>2
  <2>6. layers > 0
    <3>1. PICK q \in showdown : q \in Seats /\ contrib[q] > 0 /\ contrib[q] \in Nat
      BY DEF ShowdownInv
    <3>2. contrib[q] \in Levels(contrib)
      BY <2>0, <3>1 DEF Levels
    <3>3. max + 1 \in Nat /\ Levels(contrib) \in SUBSET (0 .. (max + 1) - 1)
      <4>1. Levels(contrib) \in SUBSET Nat
        BY <2>0, LevelsAreBounded
      <4>2. \A l \in Levels(contrib) : l <= max
        BY <2>0, MaxLevelType
      <4>. HIDE DEF max
      <4>. QED  BY <2>2, <4>1, <4>2
    <3>. HIDE DEF max
    <3>. QED  BY <3>2, <3>3, SeatSetCardinality
  <2>. HIDE DEF layers, max
  <2>7. (UNIT - 1) * layers = UNIT * layers - layers /\ UNIT * layers \in Int
    BY <2>4
  <2>. DEFINE diff == UNIT * won[p] - ExactShare(p)
  <2>8. diff = UNIT * Sum(W, max) - Sum(V, max) /\ diff \in Int
    BY <2>1, <2>4, <2>5
  <2>. HIDE DEF diff
  <2>9. -(UNIT * layers) < diff /\ diff < UNIT * layers
    BY <2>4, <2>6, <2>7, <2>8
  <2>. QED  BY <2>9 DEF layers, diff
<1>. QED  BY <1>1, ShowdownStays, PTL
=============================================================================
