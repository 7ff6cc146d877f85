--------------------------- MODULE SidePotsProofs ---------------------------
(***************************************************************************)
(* Facts about the distribution of the pot that hold for every number of   *)
(* players and every contribution.  A layer holds what each contribution   *)
(* has between two levels, so the layers up to a level add up to the       *)
(* contributions capped at it; the shares of a layer and its odd chips add *)
(* up to the layer.                                                        *)
(***************************************************************************)
EXTENDS SidePots, FiniteSetTheorems, WellFoundedInduction, TLAPS

-----------------------------------------------------------------------------
(* Sums and extremal elements, for every length and every set.  Induction is *)
(* carried by the least-element principle: a statement that fails somewhere  *)
(* fails at a least place.                                                   *)

\* Every non-empty set of naturals has a least element: what the seat scans
\* and the layer loop of poker/game.py search for exists.
LEMMA NatSetHasMin ==
  ASSUME NEW S \in SUBSET Nat, S # {}
  PROVE  \E m \in S : \A k \in S : m <= k
<1>1. \E x \in S : \A y \in S : ~(<<y, x>> \in OpToRel(<, Nat))
  BY NatLessThanWellFounded, WFMin
<1>2. PICK x \in S : \A y \in S : ~(<<y, x>> \in OpToRel(<, Nat))
  BY <1>1
<1>3. \A y \in S : x <= y
  <2>1. TAKE y \in S
  <2>2. x \in Nat /\ y \in Nat
    OBVIOUS
  <2>3. ~(y < x)
    BY <1>2, <2>2 DEF OpToRel
  <2>. QED  BY <2>2, <2>3
<1>. QED  BY <1>3

\* Least finds the least element of a non-empty set of naturals.
LEMMA LeastIsLeast ==
  ASSUME NEW S \in SUBSET Nat, S # {}
  PROVE  Least(S) \in S /\ \A k \in S : Least(S) <= k
BY NatSetHasMin DEF Least

\* Greatest finds the greatest element of a non-empty set with a bound.
LEMMA GreatestIsGreatest ==
  ASSUME NEW S \in SUBSET Nat, S # {},
         NEW b \in Nat, \A k \in S : k <= b
  PROVE  Greatest(S) \in S /\ \A k \in S : k <= Greatest(S)
<1>. DEFINE T == {b - k : k \in S}
<1>1. T \in SUBSET Nat /\ T # {}
  <2>1. \A k \in S : b - k \in Nat
    OBVIOUS
  <2>2. PICK k \in S : TRUE
    OBVIOUS
  <2>3. b - k \in T
    OBVIOUS
  <2>. QED  BY <2>1, <2>3
<1>2. PICK m \in T : \A k \in T : m <= k
  BY <1>1, NatSetHasMin
<1>3. PICK g \in S : m = b - g
  OBVIOUS
<1>4. \A k \in S : k <= g
  <2>1. TAKE k \in S
  <2>2. b - g <= b - k
    BY <1>2, <1>3
  <2>. QED  BY <2>2
<1>. QED  BY <1>4 DEF Greatest

-----------------------------------------------------------------------------
(* The recursive function behind Sum *)

\* s holds the partial sums f[0] + ... + f[k-1] for every k up to n.
PartialSums(f, n, s) ==
  s = [k \in 0 .. n |-> IF k = 0 THEN 0 ELSE s[k - 1] + f[k - 1]]

\* Every function has partial sums up to any length: the sums that the
\* accounts of the table are stated with are never sums of nothing.
LEMMA PartialSumsExist ==
  ASSUME NEW f, NEW n \in Nat
  PROVE  \E s : PartialSums(f, n, s)
<1>. DEFINE Bad == {k \in Nat : ~\E s : PartialSums(f, k, s)}
<1>1. SUFFICES ASSUME Bad # {} PROVE FALSE
  OBVIOUS
<1>2. PICK m \in Bad : \A k \in Bad : m <= k
  BY <1>1, NatSetHasMin
<1>3. CASE m = 0
  <2>. DEFINE s == [k \in 0 .. 0 |-> 0]
  <2>1. PartialSums(f, 0, s)
    BY DEF PartialSums
  <2>. QED  BY <1>2, <1>3, <2>1
<1>4. CASE m # 0
  <2>1. m - 1 \in Nat /\ m - 1 \notin Bad
    BY <1>2, <1>4
  <2>2. PICK s : PartialSums(f, m - 1, s)
    BY <2>1
  <2>. DEFINE t == [k \in 0 .. m |-> IF k = m THEN s[m - 1] + f[m - 1] ELSE s[k]]
  <2>3. \A k \in 0 .. m : t[k] = IF k = 0 THEN 0 ELSE t[k - 1] + f[k - 1]
    <3>1. TAKE k \in 0 .. m
    <3>2. CASE k = m
      BY <1>4, <3>2
    <3>3. CASE k # m
      <4>1. k \in 0 .. m - 1
        BY <3>3
      <4>2. s[k] = IF k = 0 THEN 0 ELSE s[k - 1] + f[k - 1]
        BY <2>2, <4>1 DEF PartialSums
      <4>3. t[k] = s[k]
        BY <3>3
      <4>4. k # 0 => t[k - 1] = s[k - 1]
        BY <4>1
      <4>. QED  BY <4>2, <4>3, <4>4
    <3>. QED  BY <3>2, <3>3
  <2>4. PartialSums(f, m, t)
    BY <2>3 DEF PartialSums
  <2>. QED  BY <1>2, <2>4
<1>. QED  BY <1>3, <1>4

\* Partial sums are unique: two of them agree as far as both go.
LEMMA PartialSumsAgree ==
  ASSUME NEW f, NEW m \in Nat, NEW n \in Nat, m <= n,
         NEW s, PartialSums(f, m, s), NEW t, PartialSums(f, n, t)
  PROVE  \A k \in 0 .. m : s[k] = t[k]
<1>. DEFINE Bad == {k \in 0 .. m : s[k] # t[k]}
<1>1. SUFFICES ASSUME Bad # {} PROVE FALSE
  OBVIOUS
<1>2. PICK i \in Bad : \A k \in Bad : i <= k
  <2>1. Bad \in SUBSET Nat
    OBVIOUS
  <2>. QED  BY <1>1, <2>1, NatSetHasMin
<1>3. s[i] = (IF i = 0 THEN 0 ELSE s[i - 1] + f[i - 1])
  BY DEF PartialSums
<1>4. t[i] = (IF i = 0 THEN 0 ELSE t[i - 1] + f[i - 1])
  BY DEF PartialSums
<1>5. i # 0 => s[i - 1] = t[i - 1]
  BY <1>2
<1>. QED  BY <1>3, <1>4, <1>5

\* Sum, the total of chips or bets over the seats, is a last partial sum.
LEMMA SumIsPartialSum ==
  ASSUME NEW f, NEW n \in Nat
  PROVE  \E s : PartialSums(f, n, s) /\ Sum(f, n) = s[n]
<1>. DEFINE r == CHOOSE s : PartialSums(f, n, s)
<1>1. PartialSums(f, n, r)
  BY PartialSumsExist
<1>2. Sum(f, n) = r[n]
  BY DEF Sum, PartialSums
<1>. QED  BY <1>1, <1>2

\* The empty sum is zero.
LEMMA SumEmpty ==
  ASSUME NEW f
  PROVE  Sum(f, 0) = 0
<1>1. PICK s : PartialSums(f, 0, s) /\ Sum(f, 0) = s[0]
  BY SumIsPartialSum
<1>. QED  BY <1>1 DEF PartialSums

\* A sum grows by its last element.
LEMMA SumStep ==
  ASSUME NEW f, NEW n \in Nat
  PROVE  Sum(f, n + 1) = Sum(f, n) + f[n]
<1>1. PICK s : PartialSums(f, n, s) /\ Sum(f, n) = s[n]
  BY SumIsPartialSum
<1>2. PICK t : PartialSums(f, n + 1, t) /\ Sum(f, n + 1) = t[n + 1]
  BY SumIsPartialSum
<1>3. t[n + 1] = t[n] + f[n]
  BY <1>2 DEF PartialSums
<1>4. s[n] = t[n]
  BY <1>1, <1>2, PartialSumsAgree
<1>. QED  BY <1>1, <1>2, <1>3, <1>4

-----------------------------------------------------------------------------
(* Laws of sums, each by induction on the length *)

\* A sum of naturals is a natural.
LEMMA SumType ==
  ASSUME NEW f, NEW n \in Nat, \A k \in 0 .. n - 1 : f[k] \in Nat
  PROVE  Sum(f, n) \in Nat
<1>. DEFINE Bad == {k \in Nat : k <= n /\ Sum(f, k) \notin Nat}
<1>1. SUFFICES ASSUME Bad # {} PROVE FALSE
  OBVIOUS
<1>2. PICK m \in Bad : \A k \in Bad : m <= k
  BY <1>1, NatSetHasMin
<1>3. m # 0
  BY SumEmpty
<1>4. m - 1 \in Nat /\ Sum(f, m - 1) \in Nat
  BY <1>2, <1>3
<1>5. Sum(f, (m - 1) + 1) = Sum(f, m - 1) + f[m - 1]
  BY <1>4, SumStep
<1>6. f[m - 1] \in Nat /\ (m - 1) + 1 = m
  BY <1>4
<1>. QED  BY <1>4, <1>5, <1>6

\* A sum depends on nothing but its elements.
LEMMA SumExtensional ==
  ASSUME NEW f, NEW g, NEW n \in Nat, \A k \in 0 .. n - 1 : f[k] = g[k]
  PROVE  Sum(f, n) = Sum(g, n)
<1>. DEFINE Bad == {k \in Nat : k <= n /\ Sum(f, k) # Sum(g, k)}
<1>1. SUFFICES ASSUME Bad # {} PROVE FALSE
  OBVIOUS
<1>2. PICK m \in Bad : \A k \in Bad : m <= k
  BY <1>1, NatSetHasMin
<1>3. m # 0
  BY SumEmpty
<1>4. m - 1 \in Nat /\ Sum(f, m - 1) = Sum(g, m - 1)
  BY <1>2, <1>3
<1>5. /\ Sum(f, (m - 1) + 1) = Sum(f, m - 1) + f[m - 1]
      /\ Sum(g, (m - 1) + 1) = Sum(g, m - 1) + g[m - 1]
  BY <1>4, SumStep
<1>6. f[m - 1] = g[m - 1] /\ (m - 1) + 1 = m
  BY <1>4
<1>. QED  BY <1>4, <1>5, <1>6

\* The sum of nothing but zeros is zero.
LEMMA SumZero ==
  ASSUME NEW f, NEW n \in Nat, \A k \in 0 .. n - 1 : f[k] = 0
  PROVE  Sum(f, n) = 0
<1>. DEFINE Bad == {k \in Nat : k <= n /\ Sum(f, k) # 0}
<1>1. SUFFICES ASSUME Bad # {} PROVE FALSE
  OBVIOUS
<1>2. PICK m \in Bad : \A k \in Bad : m <= k
  BY <1>1, NatSetHasMin
<1>3. m # 0
  BY SumEmpty
<1>4. m - 1 \in Nat /\ Sum(f, m - 1) = 0
  BY <1>2, <1>3
<1>5. Sum(f, (m - 1) + 1) = Sum(f, m - 1) + f[m - 1]
  BY <1>4, SumStep
<1>6. f[m - 1] = 0 /\ (m - 1) + 1 = m
  BY <1>4
<1>. QED  BY <1>4, <1>5, <1>6

\* The sum of a difference: f = g + h elementwise.
LEMMA SumAdd ==
  ASSUME NEW f, NEW g, NEW h, NEW n \in Nat,
         \A k \in 0 .. n - 1 : /\ g[k] \in Int /\ h[k] \in Int
                               /\ f[k] = g[k] + h[k]
  PROVE  /\ Sum(g, n) \in Int /\ Sum(h, n) \in Int
         /\ Sum(f, n) = Sum(g, n) + Sum(h, n)
<1>. DEFINE Good(k) == /\ Sum(g, k) \in Int /\ Sum(h, k) \in Int
                      /\ Sum(f, k) = Sum(g, k) + Sum(h, k)
<1>. DEFINE Bad == {k \in Nat : k <= n /\ ~Good(k)}
<1>1. SUFFICES ASSUME Bad # {} PROVE FALSE
  OBVIOUS
<1>2. PICK m \in Bad : \A k \in Bad : m <= k
  BY <1>1, NatSetHasMin
<1>3. m # 0
  BY SumEmpty
<1>4. m - 1 \in Nat /\ Good(m - 1)
  BY <1>2, <1>3
<1>5. /\ Sum(f, (m - 1) + 1) = Sum(f, m - 1) + f[m - 1]
      /\ Sum(g, (m - 1) + 1) = Sum(g, m - 1) + g[m - 1]
      /\ Sum(h, (m - 1) + 1) = Sum(h, m - 1) + h[m - 1]
  BY <1>4, SumStep
<1>6. /\ (m - 1) + 1 = m
      /\ g[m - 1] \in Int /\ h[m - 1] \in Int
      /\ f[m - 1] = g[m - 1] + h[m - 1]
  BY <1>4
<1>7. Good(m)
  BY <1>4, <1>5, <1>6
<1>. QED  BY <1>7

\* The elements outside one place i contribute the same to both sums.
LEMMA SumUpdate ==
  ASSUME NEW n \in Nat, NEW f, NEW g, NEW i \in 0 .. n - 1,
         \A k \in 0 .. n - 1 : f[k] \in Int /\ g[k] \in Int,
         \A k \in 0 .. n - 1 : k # i => g[k] = f[k]
  PROVE  Sum(f, n) \in Int /\ Sum(g, n) = Sum(f, n) + (g[i] - f[i])
<1>. DEFINE d(k) == IF k <= i THEN 0 ELSE g[i] - f[i]
<1>. DEFINE Good(k) == Sum(f, k) \in Int /\ Sum(g, k) = Sum(f, k) + d(k)
<1>. DEFINE Bad == {k \in Nat : k <= n /\ ~Good(k)}
<1>1. SUFFICES ASSUME Bad # {} PROVE FALSE
  <2>1. n \notin Bad
    BY <1>1
  <2>2. ~(n <= i)
    OBVIOUS
  <2>. QED  BY <2>1, <2>2
<1>2. PICK m \in Bad : \A k \in Bad : m <= k
  BY <1>1, NatSetHasMin
<1>3. m # 0
  BY SumEmpty
<1>4. m - 1 \in Nat /\ Good(m - 1)
  BY <1>2, <1>3
<1>5. /\ Sum(f, (m - 1) + 1) = Sum(f, m - 1) + f[m - 1]
      /\ Sum(g, (m - 1) + 1) = Sum(g, m - 1) + g[m - 1]
  BY <1>4, SumStep
<1>6. /\ (m - 1) + 1 = m
      /\ f[m - 1] \in Int /\ g[m - 1] \in Int
      /\ m - 1 # i => g[m - 1] = f[m - 1]
  BY <1>4
<1>7. Good(m)
  <2>. HIDE DEF Bad
  <2>1. CASE m - 1 < i
    BY <1>4, <1>5, <1>6, <2>1
  <2>2. CASE m - 1 = i
    BY <1>4, <1>5, <1>6, <2>2
  <2>3. CASE m - 1 > i
    BY <1>4, <1>5, <1>6, <2>3
  <2>. QED  BY <1>4, <2>1, <2>2, <2>3
<1>. QED  BY <1>7

\* A sum of naturals is at least each of its elements.
LEMMA SumBoundsElements ==
  ASSUME NEW n \in Nat, NEW f, NEW i \in 0 .. n - 1,
         \A k \in 0 .. n - 1 : f[k] \in Nat
  PROVE  f[i] <= Sum(f, n)
<1>. DEFINE g == [k \in 0 .. n - 1 |-> IF k = i THEN 0 ELSE f[k]]
<1>1. Sum(f, n) \in Nat /\ Sum(g, n) \in Nat
  BY SumType
<1>2. Sum(f, n) = Sum(g, n) + (f[i] - g[i])
  <2>1. /\ \A k \in 0 .. n - 1 : g[k] \in Int /\ f[k] \in Int
        /\ \A k \in 0 .. n - 1 : k # i => f[k] = g[k]
    OBVIOUS
  <2>. HIDE DEF g
  <2>. QED  BY <2>1, SumUpdate
<1>. QED  BY <1>1, <1>2

\* A sum in which only two terms are not zero.
LEMMA SumOfTwo ==
  ASSUME NEW n \in Nat, NEW f, NEW i \in 0 .. n - 1, NEW j \in 0 .. n - 1, i # j,
         f[i] \in Int, f[j] \in Int,
         \A k \in 0 .. n - 1 : k # i /\ k # j => f[k] = 0
  PROVE  Sum(f, n) = f[i] + f[j]
<1>. DEFINE z == [k \in 0 .. n - 1 |-> 0]
            g == [k \in 0 .. n - 1 |-> IF k = i THEN f[i] ELSE 0]
<1>1. Sum(z, n) = 0
  BY SumZero
<1>2. /\ \A k \in 0 .. n - 1 : z[k] \in Int /\ g[k] \in Int /\ f[k] \in Int
      /\ \A k \in 0 .. n - 1 : k # i => g[k] = z[k]
      /\ \A k \in 0 .. n - 1 : k # j => f[k] = g[k]
      /\ g[i] = f[i] /\ z[i] = 0 /\ g[j] = 0
  OBVIOUS
<1>. HIDE DEF z, g
<1>3. Sum(g, n) = Sum(z, n) + (g[i] - z[i])
  BY <1>2, SumUpdate, ZenonT(40)
<1>4. Sum(f, n) = Sum(g, n) + (f[j] - g[j])
  BY <1>2, SumUpdate, ZenonT(40)
<1>. QED  BY <1>1, <1>2, <1>3, <1>4

\* A sum of larger terms is larger.
LEMMA SumMonotone ==
  ASSUME NEW f, NEW g, NEW n \in Nat,
         \A k \in 0 .. n - 1 : f[k] \in Nat /\ g[k] \in Nat /\ f[k] <= g[k]
  PROVE  Sum(f, n) <= Sum(g, n)
<1>. DEFINE d == [k \in 0 .. n - 1 |-> g[k] - f[k]]
<1>1. \A k \in 0 .. n - 1 : d[k] \in Nat /\ g[k] = f[k] + d[k]
  OBVIOUS
<1>. HIDE DEF d
<1>2. Sum(d, n) \in Nat /\ Sum(f, n) \in Nat
  BY <1>1, SumType
<1>3. Sum(g, n) = Sum(f, n) + Sum(d, n)
  BY <1>1, SumAdd
<1>. QED  BY <1>2, <1>3

\* A stretch of equal terms adds a multiple of the term.
LEMMA SumOfEqual ==
  ASSUME NEW f, NEW a \in Nat, NEW b \in Nat, a <= b, NEW c \in Nat,
         Sum(f, a) \in Int, \A i \in a .. b - 1 : f[i] = c
  PROVE  Sum(f, b) = Sum(f, a) + (b - a) * c
<1>. DEFINE Good(k) == Sum(f, k) = Sum(f, a) + (k - a) * c
            Bad == {k \in Nat : a <= k /\ k <= b /\ ~Good(k)}
<1>1. Good(a)
  <2>1. (a - a) * c = 0
    OBVIOUS
  <2>. QED  BY <2>1
<1>2. ASSUME NEW k \in Nat, a <= k, k < b, Good(k) PROVE Good(k + 1)
  <2>1. Sum(f, k + 1) = Sum(f, k) + f[k]
    BY SumStep
  <2>2. f[k] = c
    BY <1>2
  <2>3. ((k + 1) - a) * c = (k - a) * c + c /\ (k - a) * c \in Int
    OBVIOUS
  <2>. QED  BY <1>2, <2>1, <2>2, <2>3
<1>3. SUFFICES ASSUME Bad # {} PROVE FALSE
  <2>1. SUFFICES Good(b)
    OBVIOUS
  <2>. HIDE DEF Good
  <2>. QED  BY <1>3
<1>. HIDE DEF Good
<1>4. PICK k \in Bad : \A j \in Bad : k <= j
  BY <1>3, NatSetHasMin
<1>5. k # a
  BY <1>1, <1>4
<1>6. k - 1 \in Nat /\ a <= k - 1 /\ k - 1 < b /\ Good(k - 1) /\ (k - 1) + 1 = k
  BY <1>4, <1>5
<1>7. Good((k - 1) + 1)
  BY <1>2, <1>6
<1>. QED  BY <1>4, <1>6, <1>7

\* A table of numbers has one sum, whether it is summed by rows or by columns.
LEMMA SumSwap ==
  ASSUME NEW n \in Nat, NEW m \in Nat, NEW F,
         \A p \in 0 .. n - 1 : \A i \in 0 .. m - 1 : F[p][i] \in Nat
  PROVE  Sum([p \in 0 .. n - 1 |-> Sum(F[p], m)], n)
           = Sum([i \in 0 .. m - 1 |-> Sum([p \in 0 .. n - 1 |-> F[p][i]], n)], m)
<1>. DEFINE Row(k) == [p \in 0 .. n - 1 |-> Sum(F[p], k)]
            Column(i) == [p \in 0 .. n - 1 |-> F[p][i]]
            G == [i \in 0 .. m - 1 |-> Sum(Column(i), n)]
            Good(k) == Sum(Row(k), n) = Sum(G, k)
            Bad == {k \in Nat : k <= m /\ ~Good(k)}
<1>1. SUFFICES ASSUME Bad # {} PROVE FALSE
  <2>1. SUFFICES Good(m)
    BY Zenon
  <2>. HIDE DEF Good
  <2>. QED  BY <1>1
<1>2. PICK k \in Bad : \A j \in Bad : k <= j
  BY <1>1, NatSetHasMin
<1>3. k # 0
  <2>1. \A p \in 0 .. n - 1 : Row(0)[p] = 0
    BY SumEmpty
  <2>2. Sum(Row(0), n) = 0
    BY <2>1, SumZero
  <2>. QED  BY <2>2, SumEmpty
<1>4. k - 1 \in 0 .. m - 1 /\ (k - 1) + 1 = k /\ k - 1 \in Nat
      /\ Good(k - 1)
  <2>. HIDE DEF Good
  <2>. QED  BY <1>2, <1>3
<1>5. \A p \in 0 .. n - 1 :
        /\ Row(k - 1)[p] \in Int /\ Column(k - 1)[p] \in Int
        /\ Row(k)[p] = Row(k - 1)[p] + Column(k - 1)[p]
  <2>. SUFFICES ASSUME NEW p \in 0 .. n - 1
                PROVE  /\ Sum(F[p], k - 1) \in Int /\ F[p][k - 1] \in Int
                       /\ Sum(F[p], k) = Sum(F[p], k - 1) + F[p][k - 1]
    OBVIOUS
  <2>1. \A i \in 0 .. (k - 1) - 1 : F[p][i] \in Nat
    BY <1>4
  <2>2. Sum(F[p], k - 1) \in Nat
    BY <1>4, <2>1, SumType
  <2>3. Sum(F[p], (k - 1) + 1) = Sum(F[p], k - 1) + F[p][k - 1]
    BY <1>4, SumStep
  <2>. QED  BY <1>4, <2>2, <2>3
<1>6. Sum(Row(k), n) = Sum(Row(k - 1), n) + Sum(Column(k - 1), n)
  <2>. HIDE DEF Row, Column
  <2>. QED  BY <1>5, SumAdd
<1>7. Sum(G, (k - 1) + 1) = Sum(G, k - 1) + G[k - 1]
  BY <1>4, SumStep
<1>8. G[k - 1] = Sum(Column(k - 1), n)
  BY <1>4
<1>. HIDE DEF Row, Column, G
<1>. QED  BY <1>4, <1>6, <1>7, <1>8

-----------------------------------------------------------------------------
(* Levels, layers and shares *)

\* Contributions of n seats.
LEMMA LevelsAreBounded ==
  ASSUME NEW n \in Nat, NEW contrib \in [0 .. n - 1 -> Nat]
  PROVE  /\ Levels(contrib) \in SUBSET (Nat \ {0})
         /\ Sum(contrib, n) \in Nat
         /\ \A l \in Levels(contrib) : l <= Sum(contrib, n)
<1>1. Sum(contrib, n) \in Nat
  BY SumType
<1>2. \A p \in 0 .. n - 1 : contrib[p] <= Sum(contrib, n)
  BY SumBoundsElements
<1>. QED  BY <1>1, <1>2 DEF Levels

\* Below every level of build_pot_layers lies the level before it, or zero.
LEMMA PrevLevelIsBelow ==
  ASSUME NEW n \in Nat, NEW contrib \in [0 .. n - 1 -> Nat],
         NEW level \in Levels(contrib)
  PROVE  PrevLevel(contrib, level) \in Nat /\ PrevLevel(contrib, level) < level
<1>. DEFINE S == {0} \cup {l \in Levels(contrib) : l < level}
<1>1. level \in Nat \ {0}
  BY LevelsAreBounded
<1>2. S \in SUBSET Nat /\ S # {} /\ \A k \in S : k <= level
  <2>1. Levels(contrib) \in SUBSET Nat
    BY LevelsAreBounded
  <2>. QED  BY <1>1, <2>1
<1>3. Greatest(S) \in S
  BY <1>1, <1>2, GreatestIsGreatest
<1>4. \A k \in S : k \in Nat /\ k < level
  BY <1>1, <1>2
<1>. QED  BY <1>3, <1>4 DEF PrevLevel

\* The highest level of build_pot_layers is a natural number, and the highest.
LEMMA MaxLevelType ==
  ASSUME NEW n \in Nat, NEW contrib \in [0 .. n - 1 -> Nat]
  PROVE  /\ MaxLevel(contrib) \in Nat
         /\ \A l \in Levels(contrib) : l <= MaxLevel(contrib)
<1>. DEFINE S == {0} \cup Levels(contrib)
<1>1. S \in SUBSET Nat /\ S # {} /\ Sum(contrib, n) \in Nat
  BY LevelsAreBounded
<1>2. \A k \in S : k <= Sum(contrib, n)
  BY LevelsAreBounded
<1>3. Greatest(S) \in S /\ \A k \in S : k <= Greatest(S)
  BY <1>1, <1>2, GreatestIsGreatest
<1>. QED  BY <1>1, <1>3 DEF MaxLevel

\* Any set of seats is finite, so counting it gives a natural number, which
\* is positive when the set has an element.
LEMMA SeatSetCardinality ==
  ASSUME NEW n \in Nat, NEW S \in SUBSET (0 .. n - 1)
  PROVE  /\ IsFiniteSet(S)
         /\ Cardinality(S) \in Nat
         /\ S # {} <=> Cardinality(S) > 0
<1>1. IsFiniteSet(0 .. n - 1)
  BY FS_Interval
<1>2. IsFiniteSet(S)
  BY <1>1, FS_Subset
<1>3. Cardinality(S) \in Nat
  BY <1>2, FS_CardinalityType
<1>4. Cardinality(S) = 0 <=> S = {}
  BY <1>2, FS_EmptySet
<1>5. Cardinality(S) > 0 <=> Cardinality(S) # 0
  BY <1>3
<1>. QED  BY <1>2, <1>3, <1>4, <1>5, Zenon

\* The division of a layer among its winners leaves natural numbers.
LEMMA QuotientType ==
  ASSUME NEW a \in Nat, NEW b \in Nat, b > 0
  PROVE  a \div b \in Nat
OBVIOUS

\* A share of a layer is a natural number of chips.
LEMMA ShareType ==
  ASSUME NEW n \in Nat, NEW amount \in Nat,
         NEW winners \in SUBSET (0 .. n - 1), NEW p \in winners
  PROVE  Share(amount, winners, p) \in Nat
<1>1. Cardinality(winners) \in Nat /\ Cardinality(winners) > 0
  BY SeatSetCardinality
<1>2. amount \div Cardinality(winners) \in Nat
  BY <1>1, QuotientType
<1>. QED  BY <1>2 DEF Share

\* What one layer pays to one player is a natural number of chips.
LEMMA LayerShareType ==
  ASSUME NEW n \in Nat, NEW contrib \in [0 .. n - 1 -> Nat],
         NEW showdown, NEW strength, NEW level, NEW p
  PROVE  LayerShare(contrib, showdown, strength, level, p) \in Nat
<1>. DEFINE winners == DetermineWinners(Eligible(contrib, showdown, level), strength)
<1>1. CASE level \in Levels(contrib) /\ p \in winners
  <2>1. winners \in SUBSET (0 .. n - 1)
    BY DEF DetermineWinners, Eligible, Contributors
  <2>2. Contributors(contrib, level) \in SUBSET (0 .. n - 1)
    BY DEF Contributors
  <2>3. Cardinality(Contributors(contrib, level)) \in Nat
    BY <2>2, SeatSetCardinality
  <2>4. level - PrevLevel(contrib, level) \in Nat
    <3>1. level \in Nat
      BY <1>1, LevelsAreBounded
    <3>2. PrevLevel(contrib, level) \in Nat /\ PrevLevel(contrib, level) < level
      BY <1>1, PrevLevelIsBelow
    <3>. QED  BY <3>1, <3>2
  <2>5. LayerAmount(contrib, level) \in Nat
    BY <2>3, <2>4 DEF LayerAmount
  <2>6. Share(LayerAmount(contrib, level), winners, p) \in Nat
    BY <1>1, <2>1, <2>5, ShareType
  <2>. QED  BY <1>1, <2>6 DEF LayerShare
<1>2. CASE ~(level \in Levels(contrib) /\ p \in winners)
  BY <1>2 DEF LayerShare
<1>. QED  BY <1>1, <1>2

\* conduct_showdown pays every seat a natural number of chips.
LEMMA WinningsType ==
  ASSUME NEW n \in Nat, NEW contrib \in [0 .. n - 1 -> Nat],
         NEW showdown, NEW strength
  PROVE  Winnings(contrib, showdown, strength) \in [0 .. n - 1 -> Nat]
<1>1. MaxLevel(contrib) \in Nat
  BY MaxLevelType
<1>2. ASSUME NEW p \in 0 .. n - 1
      PROVE  Sum([i \in 0 .. MaxLevel(contrib) - 1 |->
                    LayerShare(contrib, showdown, strength, i + 1, p)],
                 MaxLevel(contrib)) \in Nat
  BY <1>1, LayerShareType, SumType
<1>. QED  BY <1>2 DEF Winnings

-----------------------------------------------------------------------------
(* One layer is paid out to the last chip *)

\* How many seats of S come before seat k: the place of k among the winners.
Rank(S, k) == Cardinality({q \in S : q < k})

\* Counting the seats of a set from the lowest seat on.
LEMMA RankStep ==
  ASSUME NEW n \in Nat, NEW S \in SUBSET (0 .. n - 1)
  PROVE  /\ Rank(S, 0) = 0 /\ Rank(S, n) = Cardinality(S)
         /\ \A k \in Nat : /\ Rank(S, k) \in Nat
                           /\ Rank(S, k + 1) = Rank(S, k) + (IF k \in S THEN 1 ELSE 0)
<1>0. \A q \in S : q \in Nat /\ q < n /\ ~(q < 0)
  OBVIOUS
<1>1. {q \in S : q < 0} = {} /\ {q \in S : q < n} = S
  BY <1>0, Zenon
<1>2. Rank(S, 0) = 0 /\ Rank(S, n) = Cardinality(S)
  BY <1>1, FS_EmptySet DEF Rank
<1>3. ASSUME NEW k \in Nat
      PROVE  /\ Rank(S, k) \in Nat
             /\ Rank(S, k + 1) = Rank(S, k) + (IF k \in S THEN 1 ELSE 0)
  <2>. DEFINE below == {q \in S : q < k}
              upto == {q \in S : q < k + 1}
  <2>0. (\A q \in S : q < k + 1 <=> q < k \/ q = k) /\ ~(k < k)
    BY <1>0
  <2>1. below \in SUBSET (0 .. n - 1)
    OBVIOUS
  <2>2. IsFiniteSet(below) /\ Cardinality(below) \in Nat
    BY <2>1, SeatSetCardinality
  <2>3. CASE k \in S
    <3>1. upto = below \cup {k} /\ k \notin below
      BY <2>0, <2>3, Zenon
    <3>2. Cardinality(below \cup {k}) = Cardinality(below) + 1
      <4>. HIDE DEF below
      <4>. QED  BY <2>2, <3>1, FS_AddElement
    <3>. QED  BY <2>2, <2>3, <3>1, <3>2 DEF Rank
  <2>4. CASE k \notin S
    <3>1. upto = below
      BY <2>0, <2>4
    <3>. QED  BY <2>2, <2>4, <3>1 DEF Rank
  <2>. QED  BY <2>3, <2>4
<1>. QED  BY <1>2, <1>3

\* A constant for every seat of a set adds up to a multiple of their number.
LEMMA SumOverSet ==
  ASSUME NEW n \in Nat, NEW S \in SUBSET (0 .. n - 1), NEW c \in Nat, NEW f,
         \A p \in 0 .. n - 1 : f[p] = IF p \in S THEN c ELSE 0
  PROVE  Sum(f, n) = c * Cardinality(S)
<1>. DEFINE Good(k) == Sum(f, k) = c * Rank(S, k)
            Bad == {k \in Nat : k <= n /\ ~Good(k)}
<1>0. c * 0 = 0
  OBVIOUS
<1>1. Good(0)
  BY <1>0, SumEmpty, RankStep
<1>2. ASSUME NEW k \in Nat, k < n, Good(k) PROVE Good(k + 1)
  <2>1. Sum(f, k + 1) = Sum(f, k) + f[k]
    BY SumStep
  <2>2. /\ Rank(S, k) \in Nat
        /\ Rank(S, k + 1) = Rank(S, k) + (IF k \in S THEN 1 ELSE 0)
    BY RankStep
  <2>3. f[k] = IF k \in S THEN c ELSE 0
    BY <1>2
  <2>4. /\ c * (Rank(S, k) + 1) = c * Rank(S, k) + c
        /\ c * Rank(S, k) \in Nat
    BY <2>2
  <2>. QED  BY <1>2, <2>1, <2>2, <2>3, <2>4
<1>3. SUFFICES ASSUME Bad # {} PROVE FALSE
  <2>1. SUFFICES Good(n)
    BY RankStep
  <2>. HIDE DEF Good
  <2>. QED  BY <1>3
<1>. HIDE DEF Good
<1>4. PICK k \in Bad : \A j \in Bad : k <= j
  BY <1>3, NatSetHasMin
<1>5. k # 0
  BY <1>1
<1>6. k - 1 \in Nat /\ k - 1 < n /\ Good(k - 1) /\ (k - 1) + 1 = k
  BY <1>4, <1>5
<1>7. Good((k - 1) + 1)
  BY <1>2, <1>6
<1>. QED  BY <1>6, <1>7

\* Quotient and remainder make up what was divided.
LEMMA Division ==
  ASSUME NEW a \in Nat, NEW b \in Nat, b > 0
  PROVE  /\ a \div b \in Nat /\ a % b \in Nat /\ a % b < b
         /\ a = (a \div b) * b + (a % b)
<1>1. a \div b \in Nat
  BY QuotientType
<1>. QED  BY <1>1

\* The shares of the winners add up to the amount: the chips that do not
\* divide evenly go to as many winners as there are such chips.
LEMMA SharesAddUp ==
  ASSUME NEW n \in Nat, NEW amount \in Nat,
         NEW winners \in SUBSET (0 .. n - 1), winners # {}, NEW f,
         \A p \in 0 .. n - 1 : f[p] = IF p \in winners THEN Share(amount, winners, p) ELSE 0
  PROVE  Sum(f, n) = amount
<1>. DEFINE w == Cardinality(winners)
            base == amount \div w
            rest == amount % w
            e(k) == IF Rank(winners, k) < rest THEN Rank(winners, k) ELSE rest
            Good(k) == Sum(f, k) = base * Rank(winners, k) + e(k)
            Bad == {k \in Nat : k <= n /\ ~Good(k)}
<1>1. w \in Nat /\ w > 0
  BY SeatSetCardinality
<1>2. base \in Nat /\ rest \in Nat /\ rest < w /\ amount = base * w + rest
  BY <1>1, Division
<1>3. \A p \in 0 .. n - 1 :
        f[p] = IF p \in winners THEN base + (IF Rank(winners, p) < rest THEN 1 ELSE 0)
               ELSE 0
  BY DEF Share, Rank
<1>. HIDE DEF w, base, rest
<1>4. Good(0)
  <2>1. base * 0 = 0
    BY <1>2
  <2>. QED  BY <1>2, <2>1, SumEmpty, RankStep
<1>5. ASSUME NEW k \in Nat, k < n, Good(k) PROVE Good(k + 1)
  <2>. DEFINE r == Rank(winners, k)
  <2>1. Sum(f, k + 1) = Sum(f, k) + f[k]
    BY SumStep
  <2>2. r \in Nat /\ Rank(winners, k + 1) = r + (IF k \in winners THEN 1 ELSE 0)
    BY RankStep
  <2>3. f[k] = IF k \in winners THEN base + (IF r < rest THEN 1 ELSE 0) ELSE 0
    BY <1>3, <1>5
  <2>4. base * (r + 1) = base * r + base /\ base * r \in Nat
    BY <1>2, <2>2
  <2>. HIDE DEF r
  <2>5. CASE k \in winners
    <3>1. /\ f[k] = base + (IF r < rest THEN 1 ELSE 0)
          /\ Rank(winners, k + 1) = r + 1
      BY <2>2, <2>3, <2>5
    <3>2. Sum(f, k) = base * r + (IF r < rest THEN r ELSE rest)
      BY <1>5 DEF r
    <3>3. Sum(f, k + 1) = (base * r + base) + (IF r + 1 < rest THEN r + 1 ELSE rest)
      BY <1>2, <2>1, <2>2, <2>4, <3>1, <3>2
    <3>. QED  BY <2>4, <3>1, <3>3
  <2>6. CASE k \notin winners
    <3>1. f[k] = 0 /\ Rank(winners, k + 1) = r
      BY <2>2, <2>3, <2>6
    <3>. QED  BY <1>2, <1>5, <2>1, <2>2, <2>4, <3>1 DEF r
  <2>. QED  BY <2>5, <2>6
<1>6. SUFFICES ASSUME Bad # {} PROVE FALSE
  <2>1. SUFFICES Good(n)
    BY <1>2, RankStep DEF w
  <2>. HIDE DEF Good
  <2>. QED  BY <1>6
<1>. HIDE DEF Good
<1>7. PICK k \in Bad : \A j \in Bad : k <= j
  BY <1>6, NatSetHasMin
<1>8. k # 0
  BY <1>4
<1>9. k - 1 \in Nat /\ k - 1 < n /\ Good(k - 1) /\ (k - 1) + 1 = k
  BY <1>7, <1>8
<1>10. Good((k - 1) + 1)
  BY <1>5, <1>9
<1>. QED  BY <1>9, <1>10
\* Among players at a showdown there is a best hand.
LEMMA WinnersExist ==
  ASSUME NEW n \in Nat, NEW eligible \in SUBSET (0 .. n - 1), eligible # {},
         NEW strength \in [0 .. n - 1 -> Nat]
  PROVE  DetermineWinners(eligible, strength) # {}
<1>. DEFINE S == {strength[p] : p \in eligible}
<1>1. S \in SUBSET Nat /\ S # {}
  OBVIOUS
<1>2. Sum(strength, n) \in Nat /\ \A k \in S : k <= Sum(strength, n)
  BY SumType, SumBoundsElements
<1>3. Greatest(S) \in S /\ \A k \in S : k <= Greatest(S)
  BY <1>1, <1>2, GreatestIsGreatest
<1>4. PICK p \in eligible : strength[p] = Greatest(S)
  BY <1>3
<1>5. \A q \in eligible : strength[q] <= strength[p]
  BY <1>3, <1>4
<1>. QED  BY <1>5 DEF DetermineWinners

\* A layer holds a natural number of chips.
LEMMA LayerAmountType ==
  ASSUME NEW n \in Nat, NEW contrib \in [0 .. n - 1 -> Nat],
         NEW level \in Levels(contrib)
  PROVE  LayerAmount(contrib, level) \in Nat
<1>1. Contributors(contrib, level) \in SUBSET (0 .. n - 1)
  BY DEF Contributors
<1>2. Cardinality(Contributors(contrib, level)) \in Nat
  BY <1>1, SeatSetCardinality
<1>3. level - PrevLevel(contrib, level) \in Nat
  <2>1. level \in Nat
    BY LevelsAreBounded
  <2>2. PrevLevel(contrib, level) \in Nat /\ PrevLevel(contrib, level) < level
    BY PrevLevelIsBelow
  <2>. QED  BY <2>1, <2>2
<1>. QED  BY <1>2, <1>3 DEF LayerAmount

\* What one layer pays to all players together: all of it, or nothing when
\* all its contributors have folded.
LEMMA LayerIsPaid ==
  ASSUME NEW n \in Nat, NEW contrib \in [0 .. n - 1 -> Nat],
         NEW showdown, NEW strength \in [0 .. n - 1 -> Nat], NEW level
  PROVE  Sum([p \in 0 .. n - 1 |-> LayerShare(contrib, showdown, strength, level, p)], n)
           = IF level \in Levels(contrib) /\ Eligible(contrib, showdown, level) # {}
             THEN LayerAmount(contrib, level) ELSE 0
<1>. DEFINE eligible == Eligible(contrib, showdown, level)
            winners == DetermineWinners(eligible, strength)
            f == [p \in 0 .. n - 1 |-> LayerShare(contrib, showdown, strength, level, p)]
<1>1. eligible \in SUBSET (0 .. n - 1) /\ winners \in SUBSET eligible
  BY DEF Eligible, Contributors, DetermineWinners
<1>2. \A p \in 0 .. n - 1 :
        f[p] = IF level \in Levels(contrib) /\ p \in winners
               THEN Share(LayerAmount(contrib, level), winners, p) ELSE 0
  BY DEF LayerShare
<1>. HIDE DEF f, winners, eligible
<1>3. CASE level \in Levels(contrib) /\ eligible # {}
  <2>1. winners # {}
    BY <1>1, <1>3, WinnersExist DEF winners
  <2>2. LayerAmount(contrib, level) \in Nat
    BY <1>3, LayerAmountType
  <2>3. winners \in SUBSET (0 .. n - 1)
    BY <1>1
  <2>4. \A p \in 0 .. n - 1 :
          f[p] = IF p \in winners THEN Share(LayerAmount(contrib, level), winners, p) ELSE 0
    BY <1>2, <1>3
  <2>5. Sum(f, n) = LayerAmount(contrib, level)
    <3>. DEFINE amount == LayerAmount(contrib, level)
    <3>. HIDE DEF amount
    <3>1. amount \in Nat /\ \A p \in 0 .. n - 1 :
            f[p] = IF p \in winners THEN Share(amount, winners, p) ELSE 0
      BY <2>2, <2>4 DEF amount
    <3>2. Sum(f, n) = amount
      BY <2>1, <2>3, <3>1, SharesAddUp, SMTT(30)
    <3>. QED  BY <3>2 DEF amount
  <2>. QED  BY <1>3, <2>5 DEF f, eligible
<1>4. CASE ~(level \in Levels(contrib) /\ eligible # {})
  <2>1. \A p \in 0 .. n - 1 : f[p] = 0
    BY <1>1, <1>2, <1>4
  <2>2. Sum(f, n) = 0
    BY <2>1, SumZero
  <2>. QED  BY <1>4, <2>2 DEF f, eligible
<1>. QED  BY <1>3, <1>4

-----------------------------------------------------------------------------
(* The layers up to a level hold what everybody bet up to that level *)

\* What every seat contributed, counted up to x chips.
Capped(contrib, x) ==
  [q \in DOMAIN contrib |-> IF contrib[q] <= x THEN contrib[q] ELSE x]

\* No contribution lies between a level and the level before it.
LEMMA PrevLevelIsLast ==
  ASSUME NEW n \in Nat, NEW contrib \in [0 .. n - 1 -> Nat],
         NEW level \in Levels(contrib)
  PROVE  /\ PrevLevel(contrib, level) \in {0} \cup Levels(contrib)
         /\ \A l \in Levels(contrib) : l < level => l <= PrevLevel(contrib, level)
<1>. DEFINE S == {0} \cup {l \in Levels(contrib) : l < level}
<1>1. level \in Nat /\ Levels(contrib) \in SUBSET Nat
  BY LevelsAreBounded
<1>2. S \in SUBSET Nat /\ S # {} /\ \A k \in S : k <= level
  BY <1>1
<1>3. Greatest(S) \in S /\ \A k \in S : k <= Greatest(S)
  BY <1>1, <1>2, GreatestIsGreatest
<1>. QED  BY <1>3 DEF PrevLevel

\* A layer is what the cap at its level adds to the cap at the level before.
LEMMA CappedStep ==
  ASSUME NEW n \in Nat, NEW contrib \in [0 .. n - 1 -> Nat],
         NEW level \in Levels(contrib)
  PROVE  Sum(Capped(contrib, level), n)
           = Sum(Capped(contrib, PrevLevel(contrib, level)), n) + LayerAmount(contrib, level)
<1>. DEFINE prev == PrevLevel(contrib, level)
            S == Contributors(contrib, level)
            h == [q \in 0 .. n - 1 |-> IF q \in S THEN level - prev ELSE 0]
<1>1. level \in Nat /\ prev \in Nat /\ prev < level /\ level - prev \in Nat
  <2>1. level \in Nat
    BY LevelsAreBounded
  <2>. QED  BY <2>1, PrevLevelIsBelow
<1>2. \A q \in 0 .. n - 1 : q \in S <=> contrib[q] >= level
  BY DEF Contributors
<1>3. \A q \in 0 .. n - 1 : contrib[q] < level => contrib[q] <= prev
  <2>1. ASSUME NEW q \in 0 .. n - 1, contrib[q] < level PROVE contrib[q] <= prev
    <3>1. CASE contrib[q] = 0
      BY <1>1, <3>1
    <3>2. CASE contrib[q] # 0
      <4>1. contrib[q] \in Levels(contrib)
        BY <3>2 DEF Levels
      <4>. QED  BY <2>1, <4>1, PrevLevelIsLast
    <3>. QED  BY <3>1, <3>2
  <2>. QED  BY <2>1
<1>4. S \in SUBSET (0 .. n - 1)
  BY DEF Contributors
<1>5. Sum(h, n) = (level - prev) * Cardinality(S)
  <2>. HIDE DEF S, prev
  <2>1. \A q \in 0 .. n - 1 : h[q] = IF q \in S THEN level - prev ELSE 0
    OBVIOUS
  <2>. HIDE DEF h
  <2>. QED  BY <1>1, <1>4, <2>1, SumOverSet
<1>. HIDE DEF prev, S
<1>6. \A q \in 0 .. n - 1 :
        /\ Capped(contrib, prev)[q] \in Int /\ h[q] \in Int
        /\ Capped(contrib, level)[q] = Capped(contrib, prev)[q] + h[q]
  <2>1. ASSUME NEW q \in 0 .. n - 1
        PROVE  /\ Capped(contrib, prev)[q] \in Int /\ h[q] \in Int
               /\ Capped(contrib, level)[q] = Capped(contrib, prev)[q] + h[q]
    <3>1. contrib[q] \in Nat
      OBVIOUS
    <3>2. h[q] = IF contrib[q] >= level THEN level - prev ELSE 0
      BY <1>2
    <3>3. /\ Capped(contrib, prev)[q] = IF contrib[q] <= prev THEN contrib[q] ELSE prev
          /\ Capped(contrib, level)[q] = IF contrib[q] <= level THEN contrib[q] ELSE level
      BY DEF Capped
    <3>4. contrib[q] < level => contrib[q] <= prev
      BY <1>3
    <3>. HIDE DEF h
    <3>. QED  BY <1>1, <3>1, <3>2, <3>3, <3>4
  <2>. QED  BY <2>1
<1>. HIDE DEF h
<1>7. Sum(Capped(contrib, level), n) = Sum(Capped(contrib, prev), n) + Sum(h, n)
  BY <1>6, SumAdd
<1>. QED  BY <1>5, <1>7 DEF LayerAmount, prev, S

\* The layers up to a level add up to the contributions capped at that level:
\* build_pot_layers neither drops a chip nor counts one twice.
LEMMA LayersAddUp ==
  ASSUME NEW n \in Nat, NEW contrib \in [0 .. n - 1 -> Nat],
         NEW t \in {0} \cup Levels(contrib), NEW f,
         \A i \in 0 .. MaxLevel(contrib) - 1 :
           f[i] = IF i + 1 \in Levels(contrib) /\ i + 1 <= t
                  THEN LayerAmount(contrib, i + 1) ELSE 0
  PROVE  Sum(f, MaxLevel(contrib)) = Sum(Capped(contrib, t), n)
<1>. DEFINE max == MaxLevel(contrib)
            L == Levels(contrib)
            IsLast(x, k) == x <= k /\ x <= t /\ \A l \in L : l <= k /\ l <= t => l <= x
            Good(k) == \A x \in {0} \cup L :
                         IsLast(x, k) => Sum(f, k) = Sum(Capped(contrib, x), n)
            Bad == {k \in Nat : k <= max /\ ~Good(k)}
<1>1. L \in SUBSET (Nat \ {0}) /\ max \in Nat /\ t \in Nat /\ \A l \in L : l <= max
  <2>1. L \in SUBSET (Nat \ {0})
    BY LevelsAreBounded
  <2>2. max \in Nat /\ \A l \in L : l <= max
    BY MaxLevelType
  <2>. QED  BY <2>1, <2>2
<1>2. Good(0)
  <2>. SUFFICES ASSUME NEW x \in {0} \cup L, x <= 0
                PROVE  Sum(f, 0) = Sum(Capped(contrib, x), n)
    OBVIOUS
  <2>1. x = 0
    BY <1>1
  <2>2. \A q \in 0 .. n - 1 : Capped(contrib, 0)[q] = 0
    BY DEF Capped
  <2>3. Sum(Capped(contrib, 0), n) = 0
    BY <2>2, SumZero
  <2>. QED  BY <2>1, <2>3, SumEmpty
<1>3. ASSUME NEW k \in Nat, k < max, Good(k) PROVE Good(k + 1)
  <2>. SUFFICES ASSUME NEW x \in {0} \cup L, IsLast(x, k + 1)
                PROVE  Sum(f, k + 1) = Sum(Capped(contrib, x), n)
    OBVIOUS
  <2>1. Sum(f, k + 1) = Sum(f, k) + f[k]
    BY SumStep
  <2>2. f[k] = IF k + 1 \in L /\ k + 1 <= t THEN LayerAmount(contrib, k + 1) ELSE 0
    BY <1>1, <1>3
  <2>3. CASE k + 1 \in L /\ k + 1 <= t
    <3>. DEFINE prev == PrevLevel(contrib, k + 1)
    <3>1. x = k + 1
      BY <1>1, <2>3
    <3>2. /\ prev \in {0} \cup L /\ prev \in Nat /\ prev < k + 1
          /\ \A l \in L : l < k + 1 => l <= prev
      BY <2>3, PrevLevelIsBelow, PrevLevelIsLast
    <3>3. Sum(Capped(contrib, k + 1), n)
            = Sum(Capped(contrib, prev), n) + LayerAmount(contrib, k + 1)
      BY <2>3, CappedStep
    <3>. HIDE DEF prev
    <3>4. IsLast(prev, k)
      <4>1. \A l \in L : l <= k => l < k + 1
        BY <1>1
      <4>. QED  BY <1>1, <2>3, <3>2, <4>1
    <3>5. Sum(f, k) = Sum(Capped(contrib, prev), n)
      BY <1>3, <3>2, <3>4
    <3>. QED  BY <2>1, <2>2, <2>3, <3>1, <3>3, <3>5
  <2>4. CASE ~(k + 1 \in L /\ k + 1 <= t)
    <3>1. x # k + 1
      BY <1>1, <2>4
    <3>2. IsLast(x, k)
      <4>1. x \in Nat /\ x <= k
        BY <1>1, <3>1
      <4>2. \A l \in L : l <= k => l <= k + 1
        BY <1>1
      <4>. QED  BY <4>1, <4>2
    <3>3. Sum(f, k) = Sum(Capped(contrib, x), n)
      BY <1>3, <3>2
    <3>4. Sum(Capped(contrib, x), n) \in Nat
      <4>1. x \in Nat
        BY <1>1
      <4>2. \A q \in 0 .. n - 1 : Capped(contrib, x)[q] \in Nat
        BY <4>1 DEF Capped
      <4>. QED  BY <4>2, SumType
    <3>. QED  BY <2>1, <2>2, <2>4, <3>3, <3>4
  <2>. QED  BY <2>3, <2>4
<1>4. SUFFICES ASSUME Bad # {} PROVE FALSE
  <2>1. IsLast(t, max)
    BY <1>1
  <2>2. SUFFICES Good(max)
    BY <2>1
  <2>. HIDE DEF Good
  <2>. QED  BY <1>1, <1>4
<1>. HIDE DEF Good, max
<1>5. PICK k \in Bad : \A j \in Bad : k <= j
  BY <1>4, NatSetHasMin
<1>6. k # 0
  BY <1>2
<1>7. k - 1 \in Nat /\ k - 1 < max /\ Good(k - 1) /\ (k - 1) + 1 = k
  BY <1>1, <1>5, <1>6
<1>8. Good((k - 1) + 1)
  BY <1>3, <1>7
<1>. QED  BY <1>7, <1>8

-----------------------------------------------------------------------------
(* What conduct_showdown pays *)

\* The largest stake at the showdown is a level, or zero, and a layer can be
\* claimed exactly when it is not above that stake.
LEMMA TopStake ==
  ASSUME NEW n \in Nat, NEW contrib \in [0 .. n - 1 -> Nat],
         NEW showdown \in SUBSET (0 .. n - 1), showdown # {},
         NEW top, top = Greatest({contrib[p] : p \in showdown})
  PROVE  /\ top \in {0} \cup Levels(contrib)
         /\ \A p \in showdown : contrib[p] <= top
         /\ \A level \in Nat : Eligible(contrib, showdown, level) # {} <=> level <= top
<1>. DEFINE S == {contrib[p] : p \in showdown}
<1>1. S \in SUBSET Nat /\ S # {}
  OBVIOUS
<1>2. Sum(contrib, n) \in Nat /\ \A k \in S : k <= Sum(contrib, n)
  BY SumType, SumBoundsElements
<1>3. top \in S /\ \A k \in S : k <= top
  BY <1>1, <1>2, GreatestIsGreatest
<1>4. PICK b \in showdown : contrib[b] = top
  BY <1>3
<1>5. top \in {0} \cup Levels(contrib)
  BY <1>4 DEF Levels
<1>6. \A p \in showdown : contrib[p] <= top
  BY <1>3
<1>7. ASSUME NEW level \in Nat
      PROVE  Eligible(contrib, showdown, level) # {} <=> level <= top
  <2>1. ASSUME level <= top PROVE b \in Eligible(contrib, showdown, level)
    BY <1>4, <2>1 DEF Eligible, Contributors
  <2>2. ASSUME NEW p \in Eligible(contrib, showdown, level) PROVE level <= top
    <3>1. p \in showdown /\ contrib[p] >= level /\ contrib[p] \in Nat
      BY <2>2 DEF Eligible, Contributors
    <3>2. contrib[p] <= top /\ top \in Nat
      BY <1>1, <1>3, <1>6, <3>1
    <3>. QED  BY <3>1, <3>2
  <2>. QED  BY <2>1, <2>2
<1>. QED  BY <1>5, <1>6, <1>7

\* All players together are paid the contributions, capped at the largest
\* stake at the showdown.
LEMMA WinningsAddUp ==
  ASSUME NEW n \in Nat, NEW contrib \in [0 .. n - 1 -> Nat],
         NEW showdown \in SUBSET (0 .. n - 1), showdown # {},
         NEW strength \in [0 .. n - 1 -> Nat],
         NEW top, top = Greatest({contrib[p] : p \in showdown})
  PROVE  Sum(Winnings(contrib, showdown, strength), n) = Sum(Capped(contrib, top), n)
<1>. DEFINE max == MaxLevel(contrib)
            F == [p \in 0 .. n - 1 |-> [i \in 0 .. max - 1 |->
                    LayerShare(contrib, showdown, strength, i + 1, p)]]
            layers == [i \in 0 .. max - 1 |-> Sum([p \in 0 .. n - 1 |-> F[p][i]], n)]
<1>1. max \in Nat
  BY MaxLevelType
<1>2. Winnings(contrib, showdown, strength) = [p \in 0 .. n - 1 |-> Sum(F[p], max)]
  BY DEF Winnings
<1>3. Sum([p \in 0 .. n - 1 |-> Sum(F[p], max)], n) = Sum(layers, max)
  <2>1. \A p \in 0 .. n - 1 : \A i \in 0 .. max - 1 : F[p][i] \in Nat
    BY LayerShareType
  <2>. HIDE DEF F, max
  <2>. QED  BY <1>1, <2>1, SumSwap
<1>4. \A i \in 0 .. max - 1 :
        layers[i] = IF i + 1 \in Levels(contrib) /\ i + 1 <= top
                    THEN LayerAmount(contrib, i + 1) ELSE 0
  <2>1. ASSUME NEW i \in 0 .. max - 1
        PROVE  layers[i] = IF i + 1 \in Levels(contrib) /\ i + 1 <= top
                           THEN LayerAmount(contrib, i + 1) ELSE 0
    <3>. DEFINE paid == [p \in 0 .. n - 1 |-> LayerShare(contrib, showdown, strength, i + 1, p)]
    <3>1. layers[i] = Sum(paid, n)
      <4>1. [p \in 0 .. n - 1 |-> F[p][i]] = paid
        OBVIOUS
      <4>. QED  BY <4>1
    <3>2. Sum(paid, n) = IF /\ i + 1 \in Levels(contrib)
                            /\ Eligible(contrib, showdown, i + 1) # {}
                         THEN LayerAmount(contrib, i + 1) ELSE 0
      BY LayerIsPaid, ZenonT(40)
    <3>3. Eligible(contrib, showdown, i + 1) # {} <=> i + 1 <= top
      <4>1. i + 1 \in Nat
        BY <1>1
      <4>. QED  BY <4>1, TopStake
    <3>. QED  BY <3>1, <3>2, <3>3
  <2>. QED  BY <2>1
<1>5. top \in {0} \cup Levels(contrib)
  BY TopStake
<1>. HIDE DEF F, layers
<1>6. Sum(layers, max) = Sum(Capped(contrib, top), n)
  BY <1>4, <1>5, LayersAddUp
<1>. QED  BY <1>2, <1>3, <1>6

\* A layer that pays a player is one it has reached, at the showdown, with a
\* hand that nobody who reached it beats.
LEMMA PaidByLayer ==
  ASSUME NEW n \in Nat, NEW contrib \in [0 .. n - 1 -> Nat], NEW showdown,
         NEW strength, NEW level, NEW q,
         LayerShare(contrib, showdown, strength, level, q) # 0
  PROVE  /\ level \in Levels(contrib) /\ level <= contrib[q]
         /\ q \in showdown \cap (0 .. n - 1)
         /\ \A p \in showdown \cap (0 .. n - 1) :
              contrib[p] >= level => strength[p] <= strength[q]
BY DEF LayerShare, DetermineWinners, Eligible, Contributors

\* No layer pays one player more than it holds.
LEMMA LayerShareIsBounded ==
  ASSUME NEW n \in Nat, NEW contrib \in [0 .. n - 1 -> Nat], NEW showdown,
         NEW strength \in [0 .. n - 1 -> Nat], NEW level \in Levels(contrib),
         NEW q \in 0 .. n - 1
  PROVE  LayerShare(contrib, showdown, strength, level, q) <= LayerAmount(contrib, level)
<1>. DEFINE f == [p \in 0 .. n - 1 |-> LayerShare(contrib, showdown, strength, level, p)]
<1>1. \A p \in 0 .. n - 1 : f[p] \in Nat
  BY LayerShareType
<1>2. Sum(f, n) = LayerAmount(contrib, level) \/ Sum(f, n) = 0
  BY LayerIsPaid
<1>3. LayerAmount(contrib, level) \in Nat
  BY LayerAmountType
<1>4. f[q] <= Sum(f, n)
  <2>. HIDE DEF f
  <2>. QED  BY <1>1, SumBoundsElements
<1>5. f[q] \in Nat /\ f[q] = LayerShare(contrib, showdown, strength, level, q)
  BY <1>1
<1>. HIDE DEF f
<1>. QED  BY <1>2, <1>3, <1>4, <1>5

\* Nobody wins from another player more than its own stake.
LEMMA WinningsAreBounded ==
  ASSUME NEW n \in Nat, NEW contrib \in [0 .. n - 1 -> Nat], NEW showdown,
         NEW strength \in [0 .. n - 1 -> Nat], NEW q \in 0 .. n - 1
  PROVE  Winnings(contrib, showdown, strength)[q] <= Sum(Capped(contrib, contrib[q]), n)
<1>. DEFINE max == MaxLevel(contrib)
            t == contrib[q]
            paid == [i \in 0 .. max - 1 |-> LayerShare(contrib, showdown, strength, i + 1, q)]
            layers == [i \in 0 .. max - 1 |->
                         IF i + 1 \in Levels(contrib) /\ i + 1 <= t
                         THEN LayerAmount(contrib, i + 1) ELSE 0]
<1>1. max \in Nat
  BY MaxLevelType
<1>2. Winnings(contrib, showdown, strength)[q] = Sum(paid, max)
  BY DEF Winnings
<1>3. t \in {0} \cup Levels(contrib)
  BY DEF Levels
<1>4. \A i \in 0 .. max - 1 : paid[i] \in Nat /\ layers[i] \in Nat /\ paid[i] <= layers[i]
  <2>1. ASSUME NEW i \in 0 .. max - 1
        PROVE  paid[i] \in Nat /\ layers[i] \in Nat /\ paid[i] <= layers[i]
    <3>1. /\ paid[i] = LayerShare(contrib, showdown, strength, i + 1, q)
          /\ layers[i] = IF i + 1 \in Levels(contrib) /\ i + 1 <= t
                         THEN LayerAmount(contrib, i + 1) ELSE 0
      OBVIOUS
    <3>2. LayerShare(contrib, showdown, strength, i + 1, q) \in Nat
      BY LayerShareType
    <3>3. CASE i + 1 \in Levels(contrib) /\ i + 1 <= t
      <4>1. LayerShare(contrib, showdown, strength, i + 1, q) <= LayerAmount(contrib, i + 1)
        BY <3>3, LayerShareIsBounded
      <4>2. LayerAmount(contrib, i + 1) \in Nat
        BY <3>3, LayerAmountType
      <4>. HIDE DEF paid, layers, t, max
      <4>. QED  BY <3>1, <3>2, <3>3, <4>1, <4>2
    <3>4. CASE ~(i + 1 \in Levels(contrib) /\ i + 1 <= t)
      <4>1. LayerShare(contrib, showdown, strength, i + 1, q) = 0
        BY <3>4, PaidByLayer
      <4>. HIDE DEF paid, layers, t, max
      <4>. QED  BY <3>1, <3>4, <4>1
    <3>. QED  BY <3>3, <3>4
  <2>. QED  BY <2>1
<1>5. Sum(layers, max) = Sum(Capped(contrib, t), n)
  <2>1. \A i \in 0 .. max - 1 :
          layers[i] = IF i + 1 \in Levels(contrib) /\ i + 1 <= t
                      THEN LayerAmount(contrib, i + 1) ELSE 0
    OBVIOUS
  <2>. HIDE DEF layers, t
  <2>. QED  BY <1>3, <2>1, LayersAddUp
<1>. HIDE DEF layers, paid, max
<1>6. Sum(paid, max) <= Sum(layers, max)
  BY <1>1, <1>4, SumMonotone
<1>. QED  BY <1>2, <1>5, <1>6

\* A player that wins anything is paid by some layer.
LEMMA WinnerIsPaidByLayer ==
  ASSUME NEW n \in Nat, NEW contrib \in [0 .. n - 1 -> Nat], NEW showdown,
         NEW strength, NEW q \in 0 .. n - 1,
         Winnings(contrib, showdown, strength)[q] # 0
  PROVE  \E level : LayerShare(contrib, showdown, strength, level, q) # 0
<1>. DEFINE max == MaxLevel(contrib)
            paid == [i \in 0 .. max - 1 |-> LayerShare(contrib, showdown, strength, i + 1, q)]
<1>1. max \in Nat
  BY MaxLevelType
<1>2. Winnings(contrib, showdown, strength)[q] = Sum(paid, max)
  BY DEF Winnings
<1>3. \E i \in 0 .. max - 1 : paid[i] # 0
  <2>. HIDE DEF paid, max
  <2>. QED  BY <1>1, <1>2, SumZero
<1>. QED  BY <1>3
=============================================================================
