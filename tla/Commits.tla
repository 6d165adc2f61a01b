------------------------------ MODULE Commits ------------------------------
(***************************************************************************)
(* What other processes see of the ledger: tables that change one commit   *)
(* at a time.  Each commit takes the rows the commit before it left, so    *)
(* that requests might as well run one after the other.  Ledger, where     *)
(* transactions overlap, implements this specification; what only reads    *)
(* the tables can be studied over it.                                      *)
(***************************************************************************)
EXTENDS LedgerTypes, SequencesExt

VARIABLES
  accounts,   \* ids of the accounts rows
  row,        \* [AccountIds -> Row]
  transfers,  \* transfers rows
  entries,    \* entries rows
  holds       \* [HoldIds -> Hold]

vars == <<accounts, row, transfers, entries, holds>>

Init ==
  /\ accounts = {}
  /\ row = [a \in AccountIds |-> NewRow]
  /\ transfers = {} /\ entries = {}
  /\ holds = [h \in HoldIds |-> NoHold]

CreateAccount(a) ==
  /\ a \notin accounts
  /\ accounts' = accounts \cup {a}
  /\ UNCHANGED <<row, transfers, entries, holds>>

(* A transfer the rows of v allow.                                         *)
(* Mutant: across currencies.                                              *)
AllowedAcross(v, t) ==
  /\ {t.from, t.to} \subseteq accounts /\ t.from # t.to
  /\ ValidateDebit(t.from, v[t.from], t.amount)
  /\ ValidateCredit(t.to, v[t.to], t.amount)
Allowed(v, t) ==
  /\ {t.from, t.to} \subseteq accounts /\ t.from # t.to
  /\ Currency[t.from] = Currency[t.to]
  /\ ValidateDebit(t.from, v[t.from], t.amount)
  /\ ValidateCredit(t.to, v[t.to], t.amount)

New(t) == \A s \in transfers : s.id # t.id

(* A reversal undoes a transfer that nothing has undone yet.               *)
Undoes(t) ==
  t.reversed # None =>
    /\ \A s \in transfers : s.reversed # t.reversed
    /\ \E s \in transfers :
         s.id = t.reversed /\ s.from = t.to /\ s.to = t.from
         /\ s.amount = t.amount

(* The rows and entries after the transfers of a batch, in their order.    *)
Post(s, t) == [row |-> Posted(s.row, t),
               entries |-> s.entries \cup EntriesOf(s.row, t)]
After(batch) == FoldLeft(Post, [row |-> row, entries |-> entries], batch)

PostBatch(batch) ==
  /\ batch # <<>>
  /\ \A i \in 1..Len(batch) :
       /\ New(batch[i]) /\ Undoes(batch[i]) /\ batch[i].hold = None
       /\ Allowed(After(SubSeq(batch, 1, i - 1)).row, batch[i])
  /\ transfers' = transfers \cup ToSet(batch)
  /\ row' = After(batch).row
  /\ entries' = After(batch).entries
  /\ UNCHANGED <<accounts, holds>>

PlaceHold(h, a, amount) ==
  /\ a \in accounts /\ holds[h].status = "none"
  /\ ValidateDebit(a, row[a], amount)
  /\ row' = Encumber(row, a, row[a].encumbered + amount)
  /\ holds' = [holds EXCEPT ![h] = [account |-> a, amount |-> amount,
                                    status |-> "active"]]
  /\ UNCHANGED <<accounts, transfers, entries>>

VoidHold(h) ==
  LET a == holds[h].account IN
  /\ holds[h].status = "active"
  /\ row' = Encumber(row, a, row[a].encumbered - holds[h].amount)
  /\ holds' = [holds EXCEPT ![h].status = "voided"]
  /\ UNCHANGED <<accounts, transfers, entries>>

CaptureHold(h, id, to) ==
  LET a == holds[h].account
      t == [id |-> id, from |-> a, to |-> to, amount |-> holds[h].amount,
            reversed |-> None, hold |-> h]
  IN
  /\ holds[h].status = "active"
  /\ {a, to} \subseteq accounts /\ a # to /\ Currency[a] = Currency[to]
  /\ New(t) /\ ValidateCredit(to, row[to], t.amount)
  /\ transfers' = transfers \cup {t}
  /\ row' = Captured(row, t)
  /\ entries' = entries \cup EntriesOf(row, t)
  /\ holds' = [holds EXCEPT ![h].status = "captured"]
  /\ UNCHANGED accounts

Next ==
  \/ \E a \in AccountIds : CreateAccount(a)
  \/ \E batch \in SetToSeqs(transfers' \ transfers) : PostBatch(batch)
  \/ \E h \in HoldIds, a \in AccountIds, m \in Amount : PlaceHold(h, a, m)
  \/ \E h \in HoldIds : VoidHold(h)
  \/ \E h \in HoldIds, id \in TransferIds, to \in AccountIds :
       CaptureHold(h, id, to)

Spec == Init /\ [][Next]_vars

-----------------------------------------------------------------------------
(* The entries of an account, those of it before one, and the last of a    *)
(* set of them, all by account_version.                                    *)
EntriesFor(a) == {e \in entries : e.account = a}
Before(a, e) == {f \in EntriesFor(a) : f.version < e.version}
Latest(E) == CHOOSE e \in E : \A f \in E : f.version <= e.version
BalanceAfter(E) == IF E = {} THEN 0 ELSE Latest(E).current
=============================================================================
