----------------------------- MODULE ChipLedger -----------------------------
(***************************************************************************)
(* What a poker table promises about chips, and nothing else: a hand opens *)
(* with stakes taken from the stacks into the pot, wagers move chips from  *)
(* one stack to the pot, and settling the hand pays the pot back to the    *)
(* stacks.  Chips never appear; settling may leave some of the pot unpaid. *)
(***************************************************************************)
EXTENDS Integers, Sums

CONSTANT N   \* number of stacks

VARIABLES bank, pot, open

ledger_vars == <<bank, pot, open>>

Stacks == 0 .. N - 1

LedgerInit ==
  /\ bank \in [Stacks -> Nat]
  /\ pot = 0
  /\ open = FALSE

Open ==
  /\ ~open /\ open'
  /\ \A p \in Stacks : bank'[p] \in 0 .. bank[p]
  /\ pot' = Sum(bank, N) - Sum(bank', N)

Wager ==
  /\ open /\ open'
  /\ \E p \in Stacks :
       /\ bank'[p] \in 0 .. bank[p]
       /\ bank' = [bank EXCEPT ![p] = bank'[p]]
       /\ pot' = pot + (bank[p] - bank'[p])

Settle ==
  /\ open /\ ~open'
  /\ \A p \in Stacks : bank'[p] >= bank[p]
  /\ Sum(bank', N) - Sum(bank, N) <= pot
  /\ pot' = 0

LedgerNext == Open \/ Wager \/ Settle

LedgerSpec == LedgerInit /\ [][LedgerNext]_ledger_vars
=============================================================================
