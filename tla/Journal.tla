------------------------------ MODULE Journal ------------------------------
(***************************************************************************)
(* What the ledger promises, without rows that cache anything: a journal   *)
(* of transfers and a register of holds.  The balance of an account is     *)
(* what its transfers add up to, and its encumbered balance what its       *)
(* active holds add up to.  Ledger, where balances are columns updated     *)
(* under row locks, implements this specification.                         *)
(***************************************************************************)
EXTENDS LedgerTypes

VARIABLES
  accounts,   \* the accounts that exist
  transfers,  \* the transfers posted so far
  holds       \* [HoldIds -> Hold]

vars == <<accounts, transfers, holds>>

Init ==
  /\ accounts = {}
  /\ transfers = {}
  /\ holds = [h \in HoldIds |-> NoHold]

(* The row an account would have, were its balances computed on demand.    *)
Computed(ts, hs, a) ==
  [balance |-> Net(ts, a), encumbered |-> Held(hs, a), version |-> 0]

SameCurrency(t) ==
  /\ {t.from, t.to} \subseteq accounts
  /\ t.from # t.to
  /\ Currency[t.from] = Currency[t.to]

CreateAccount(a) ==
  /\ a \notin accounts
  /\ accounts' = accounts \cup {a}
  /\ UNCHANGED <<transfers, holds>>

(* A batch of transfers appears as a whole, none of them pays out what its *)
(* account does not have at hand once all are posted, and none reverses    *)
(* what has been reversed.                                                 *)
PostBatch ==
  LET new == transfers' \ transfers IN
  /\ transfers \subseteq transfers'
  /\ new # {}
  /\ \A t \in new :
       /\ SameCurrency(t)
       /\ t.hold = None
       /\ RowChecks(t.from, Computed(transfers', holds, t.from))
       /\ RowChecks(t.to, Computed(transfers', holds, t.to))
       /\ \A s \in transfers' \ {t} :
            /\ s.id # t.id
            /\ t.reversed # None => s.reversed # t.reversed
       /\ t.reversed # None => \E s \in transfers :
            /\ s.id = t.reversed
            /\ s.from = t.to /\ s.to = t.from /\ s.amount = t.amount
  /\ UNCHANGED <<accounts, holds>>

PlaceHold(h, a, amount) ==
  /\ a \in accounts
  /\ holds[h].status = "none"
  /\ ValidateDebit(a, Computed(transfers, holds, a), amount)
  /\ holds' = [holds EXCEPT ![h] = [account |-> a, amount |-> amount,
                                    status |-> "active"]]
  /\ UNCHANGED <<accounts, transfers>>

VoidHold(h) ==
  /\ holds[h].status = "active"
  /\ holds' = [holds EXCEPT ![h].status = "voided"]
  /\ UNCHANGED <<accounts, transfers>>

(* The hold turns into one transfer of the amount it kept aside.           *)
CaptureHold(h, id, to) ==
  LET t == [id |-> id, from |-> holds[h].account, to |-> to,
            amount |-> holds[h].amount, reversed |-> None, hold |-> h]
  IN
  /\ holds[h].status = "active"
  /\ SameCurrency(t)
  /\ \A s \in transfers : s.id # id
  /\ ValidateCredit(to, Computed(transfers, holds, to), t.amount)
  /\ transfers' = transfers \cup {t}
  /\ holds' = [holds EXCEPT ![h].status = "captured"]
  /\ UNCHANGED accounts

Next ==
  \/ \E a \in AccountIds : CreateAccount(a)
  \/ PostBatch
  \/ \E h \in HoldIds, a \in AccountIds, m \in Amount : PlaceHold(h, a, m)
  \/ \E h \in HoldIds : VoidHold(h)
  \/ \E h \in HoldIds, id \in TransferIds, to \in AccountIds :
        CaptureHold(h, id, to)

Spec == Init /\ [][Next]_vars
=============================================================================
