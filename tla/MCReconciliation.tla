-------------------------- MODULE MCReconciliation --------------------------
(***************************************************************************)
(* Small instances of the reconciliation: account 1 is the oldest, 3 is in *)
(* another currency, and 2 may go below zero.                              *)
(***************************************************************************)
EXTENDS Reconciliation

MCCurrency == [a \in AccountIds |-> IF a = 3 THEN "EUR" ELSE "USD"]
MCAllowNegative == [a \in AccountIds |-> a = 2]
MCAllowPositive == [a \in AccountIds |-> TRUE]
MCPayments == {[from |-> 2, to |-> a, amount |-> 1] : a \in AccountIds \ {2}}
MCHoldings == {[account |-> 2, amount |-> 1]}
=============================================================================
