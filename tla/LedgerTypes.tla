---------------------------- MODULE LedgerTypes ----------------------------
(***************************************************************************)
(* The rows of the ledger database and the arithmetic on them, shared by   *)
(* the abstract specifications (Journal, Commits) and by the transactional *)
(* one (Ledger).  Amounts are whole numbers of the smallest unit: the code *)
(* computes with decimal.Decimal over NUMERIC columns, both exact.         *)
(***************************************************************************)
EXTENDS Integers, Sequences, FiniteSets

CONSTANTS
  AccountIds,     \* ids of accounts; numbers, because the code sorts them
  TransferIds,    \* ids the generator may give to transfers
  HoldIds,        \* ids the generator may give to holds
  MaxAmount,      \* the largest amount a request carries
  Currency,       \* the currency each account is created with
  AllowNegative,  \* its allow_negative_balance flag
  AllowPositive,  \* its allow_positive_balance flag
  None            \* SQL NULL, and "nobody" where an owner is expected

ASSUME TypesAssumption ==
  /\ AccountIds \subseteq Int /\ IsFiniteSet(AccountIds)
  /\ IsFiniteSet(TransferIds) /\ IsFiniteSet(HoldIds)
  /\ TransferIds \cap HoldIds = {}   \* one generator gives both
  /\ MaxAmount \in Nat
  /\ AllowNegative \in [AccountIds -> BOOLEAN]
  /\ AllowPositive \in [AccountIds -> BOOLEAN]
  /\ None \notin TransferIds \cup HoldIds

Amount == 1..MaxAmount

(* An accounts row: the columns that operations change.                    *)
Row == [balance : Int, encumbered : Int, version : Nat]
NewRow == [balance |-> 0, encumbered |-> 0, version |-> 0]

(* A transfers row.  reversed is reversed_transfer_id; hold is the hold_id *)
(* that CaptureHold leaves in the metadata.                                *)
Transfer == [id : TransferIds, from : AccountIds, to : AccountIds,
             amount : Amount, reversed : TransferIds \cup {None},
             hold : HoldIds \cup {None}]

(* An entries row: one leg of a transfer, with the balance before and      *)
(* after it and the version the account had once it was posted.            *)
Entry == [transfer : TransferIds, account : AccountIds, amount : Int,
          prev : Int, current : Int, version : Nat]

(* A holds row; "none" stands for an id that no row has.                   *)
HoldStatus == {"none", "active", "voided", "captured"}
Hold == [account : AccountIds \cup {None}, amount : 0..MaxAmount,
         status : HoldStatus]
NoHold == [account |-> None, amount |-> 0, status |-> "none"]

(* The holds table once r is the row with id h (nothing if h is None).      *)
WithHold(hs, h, r) == [k \in HoldIds |-> IF k = h THEN r ELSE hs[k]]

AvailableBalance(r) == r.balance - r.encumbered

(* domain.Account.ValidateDebit and ValidateCredit, for account a whose    *)
(* row is r.                                                               *)
ValidateDebit(a, r, amount) ==
  AllowNegative[a] \/ AvailableBalance(r) - amount >= 0
ValidateCredit(a, r, amount) ==
  AllowPositive[a] \/ r.balance + amount <= 0

(* The CHECK constraints of the accounts table, evaluated by PostgreSQL on *)
(* every row an UPDATE writes.                                             *)
RowChecks(a, r) ==
  /\ r.encumbered >= 0
  /\ AllowNegative[a] \/ AvailableBalance(r) >= 0
  /\ AllowPositive[a] \/ r.balance <= 0

(* The two entries of a transfer, posted on the rows of view v.            *)
(* Mutant: the entry is made from the row after it was posted.             *)
LegOfUpdated(v, t, a, amount) ==
  [transfer |-> t.id, account |-> a, amount |-> amount,
   prev |-> v[a].balance + amount, current |-> v[a].balance + 2 * amount,
   version |-> v[a].version + 1]
Leg(v, t, a, amount) ==
  [transfer |-> t.id, account |-> a, amount |-> amount,
   prev |-> v[a].balance, current |-> v[a].balance + amount,
   version |-> v[a].version + 1]
EntriesOf(v, t) == {Leg(v, t, t.from, -t.amount), Leg(v, t, t.to, t.amount)}

(* UPDATE accounts: every statement also counts the version up.  Captured  *)
(* is the one case that changes both columns in one statement.             *)
Updated(r, balance, encumbered) ==
  [balance |-> balance, encumbered |-> encumbered, version |-> r.version + 1]
Posted(v, t) ==
  [v EXCEPT ![t.from] = Updated(@, @.balance - t.amount, @.encumbered),
            ![t.to] = Updated(@, @.balance + t.amount, @.encumbered)]
(* Mutant: a capture does not release what was held.                       *)
CapturedKeeping(v, t) == Posted(v, t)
Captured(v, t) ==
  [v EXCEPT ![t.from] = Updated(@, @.balance - t.amount,
                                   @.encumbered - t.amount),
            ![t.to] = Updated(@, @.balance + t.amount, @.encumbered)]
Encumber(v, a, encumbered) ==
  [v EXCEPT ![a] = Updated(@, @.balance, encumbered)]

(* VoidHold gives the amount back, never below zero.                       *)
NonNegative(n) == IF n < 0 THEN 0 ELSE n

(* What SUM(amount) ranges over, counted unit by unit so that a sum is the *)
(* cardinality of a set: the units a set of transfers brings to an account *)
(* and takes from it, and the units that the active holds among hs keep    *)
(* aside.                                                                  *)
Unit(S) == S \X Amount
CreditUnits(ts, a) ==
  {u \in Unit(ts) : u[1].to = a /\ u[2] <= u[1].amount}
DebitUnits(ts, a) ==
  {u \in Unit(ts) : u[1].from = a /\ u[2] <= u[1].amount}
HeldUnits(hs, a) ==
  {u \in Unit(HoldIds) :
     /\ hs[u[1]].status = "active"
     /\ hs[u[1]].account = a
     /\ u[2] <= hs[u[1]].amount}

Net(ts, a) == Cardinality(CreditUnits(ts, a)) - Cardinality(DebitUnits(ts, a))
Held(hs, a) == Cardinality(HeldUnits(hs, a))
=============================================================================
