-------------------------------- MODULE Sums --------------------------------
(***************************************************************************)
(* Finite sums and the two minimum searches the other modules are built    *)
(* from.  The sum is a recursive function over an interval, not a fold     *)
(* over a set, so that what it computes can be proved for every length     *)
(* (SidePotsProofs): the conservation theorems rest on it.                 *)
(***************************************************************************)
EXTENDS Integers

\* f[0] + ... + f[n-1]
Sum(f, n) ==
  LET s[k \in 0 .. n] == IF k = 0 THEN 0 ELSE s[k - 1] + f[k - 1]
  IN  s[n]

\* The least and the greatest element of a non-empty set of numbers.
Least(S) == CHOOSE m \in S : \A k \in S : m <= k
Greatest(S) == CHOOSE m \in S : \A k \in S : k <= m
=============================================================================
