--------------------------- MODULE Reconciliation ---------------------------
(***************************************************************************)
(* The reconciliation scheduler beside a ledger in use.  A run lists the   *)
(* accounts, compares the balance of each with the sum of its entries,     *)
(* compares the totals by currency, and walks the entries of each account: *)
(* every one of these reads is a statement of its own, between which       *)
(* requests commit.  Requests are those of Commits, which Ledger           *)
(* implements: no read sees more of them.                                  *)
(***************************************************************************)
EXTENDS Commits

CONSTANTS
  Payments,   \* transfers that clients ask for, without their ids
  Holdings,   \* holds that clients ask for
  PageCap,    \* domain.MaxPageSize, which ValidatePagination caps 10000 to
  MaxErrors,  \* bound: statements of the runs that fail
  MaxDamage   \* bound: accounts that are damaged

ASSUME ReconciliationAssumption ==
  /\ Payments \subseteq [from : AccountIds, to : AccountIds, amount : Amount]
  /\ Holdings \subseteq [account : AccountIds, amount : Amount]
  /\ PageCap \in Nat \ {0} /\ MaxErrors \in Nat /\ MaxDamage \in Nat

VARIABLES
  at,       \* where the scheduler is in runOnce
  todo,     \* the accounts left to read in this part of the run
  seen,     \* the accounts row that ReconcileAccount has read
  report,   \* the report so far
  outcome,  \* the label under which the last run was counted
  errors,   \* statements that failed so far
  damage,   \* by how much the balance of each account is off
  damaged   \* accounts whose balance was ever changed without an entry

reconciler == <<at, todo, seen, report, outcome, errors>>
harm == <<damage, damaged>>
allVars == <<vars, reconciler, harm>>

(* raced, failed and struck are not in the report: the accounts that moved *)
(* between the two reads, whether the totals could not be read, and what   *)
(* was damaged since the run began.                                        *)
NoReport == [results |-> {}, discrepancies |-> {}, breaks |-> {},
             consistent |-> TRUE, raced |-> {}, failed |-> FALSE,
             struck |-> {}]

InitReconciler ==
  /\ at = "wait" /\ todo = {} /\ seen = NewRow
  /\ report = NoReport /\ outcome = "none"
  /\ errors = 0 /\ damage = [a \in AccountIds |-> 0] /\ damaged = {}

-----------------------------------------------------------------------------
(* What the statements return.  Accounts are numbered in the order of      *)
(* created_at.                                                             *)

ListAccounts ==
  {a \in accounts : Cardinality({b \in accounts : b > a}) < PageCap}

SumAmountsByAccount(a) == SumFunction([e \in EntriesFor(a) |-> e.amount])

Mine(c) == {a \in accounts : Currency[a] = c}
TotalBalance(A) == SumFunction([a \in A |-> row[a].balance])
TotalEntries(A) == SumFunction([a \in A |-> SumAmountsByAccount(a)])

(* Reconciliation compares the totals of each currency, LedgerUseCase the  *)
(* totals of all accounts with zero.                                       *)
CheckLedgerConsistency ==
  \A c \in {Currency[a] : a \in accounts} :
    TotalBalance(Mine(c)) = TotalEntries(Mine(c))
CheckConsistency == TotalBalance(accounts) = 0 /\ TotalEntries(accounts) = 0

VerifyEntryChain(a) ==
  \A e \in EntriesFor(a) :
    IF Before(a, e) = {} THEN e.version = 1
    ELSE LET f == Latest(Before(a, e)) IN
         e.prev = f.current /\ e.version = f.version + 1

-----------------------------------------------------------------------------
(* runOnce.                                                                *)

ReconcileAllAccounts ==
  /\ at = "wait"
  /\ todo' = ListAccounts
  /\ at' = IF ListAccounts = {} THEN "totals" ELSE "balance"
  /\ report' = [NoReport EXCEPT !.results = ListAccounts]
  /\ UNCHANGED <<seen, outcome, errors>>

(* ORDER BY created_at DESC.                                               *)
Newest(a) == a \in todo /\ \A b \in todo : b <= a

ReadBalance(a) ==
  /\ at = "balance" /\ Newest(a)
  /\ seen' = row[a]
  /\ at' = "sum"
  /\ UNCHANGED <<todo, report, outcome, errors>>

(* Mutant: the available balance is compared.                              *)
AvailableReconciled(a) ==
  seen.balance - seen.encumbered = SumAmountsByAccount(a)
IsReconciled(a) == seen.balance = SumAmountsByAccount(a)

ReconcileAccount(a) ==
  /\ at = "sum" /\ Newest(a)
  /\ report' = [report EXCEPT
       !.discrepancies = @ \cup (IF IsReconciled(a) THEN {} ELSE {a}),
       !.raced = @ \cup (IF seen = row[a] THEN {} ELSE {a})]
  /\ todo' = todo \ {a}
  /\ at' = IF todo = {a} THEN "totals" ELSE "balance"
  /\ seen' = NewRow
  /\ UNCHANGED <<outcome, errors>>

CompareTotals(failed) ==
  /\ at = "totals"
  /\ report' = [report EXCEPT
       !.consistent = ~failed /\ CheckLedgerConsistency, !.failed = failed]
  /\ at' = "chain"
  /\ todo' = report.results
  /\ UNCHANGED <<seen, outcome>>

VerifyChain(a) ==
  /\ at = "chain" /\ Newest(a)
  /\ report' = [report EXCEPT
       !.breaks = @ \cup (IF VerifyEntryChain(a) THEN {} ELSE {a})]
  /\ todo' = todo \ {a}
  /\ UNCHANGED <<at, seen, outcome, errors>>

(* Mutant: only the accounts on the page count.                            *)
DriftedOnPage == report.discrepancies # {} \/ report.breaks # {}
Drifted ==
  report.discrepancies # {} \/ report.breaks # {} \/ ~report.consistent

Finish ==
  /\ at = "chain" /\ todo = {}
  /\ outcome' = IF Drifted THEN "drift" ELSE "ok"
  /\ at' = "wait"
  /\ report' = NoReport
  /\ UNCHANGED <<todo, seen, errors>>

(* A statement fails: the run ends, and the loop goes on.  Only the error  *)
(* of the totals goes into the report, as an inconsistency.                *)
(* Mutant: an error ends the loop.                                         *)
StopOnError == "stopped"
AfterError == "wait"

StatementFails ==
  /\ errors < MaxErrors
  /\ errors' = errors + 1
  /\ \/ CompareTotals(TRUE)
     \/ /\ at # "totals"
        /\ outcome' = "error" /\ at' = AfterError
        /\ todo' = {} /\ seen' = NewRow /\ report' = NoReport

runOnce ==
  \/ ReconcileAllAccounts
  \/ \E a \in AccountIds :
       ReadBalance(a) \/ ReconcileAccount(a) \/ VerifyChain(a)
  \/ CompareTotals(FALSE) /\ UNCHANGED errors
  \/ Finish

-----------------------------------------------------------------------------
(* Meanwhile.                                                              *)

(* Which of the free ids a transfer gets makes no difference here.         *)
NextId ==
  LET free == {id \in TransferIds : \A t \in transfers : t.id # id} IN
  IF free = {} THEN {} ELSE {CHOOSE id \in free : TRUE}

Pay(id, from, to, amount, reversed) ==
  PostBatch(<<[id |-> id, from |-> from, to |-> to, amount |-> amount,
               reversed |-> reversed, hold |-> None]>>)

(* A transfer may undo one that is there.                                  *)
Asked ==
  {[pay |-> i, reversed |-> None] : i \in Payments} \cup
  {[pay |-> [from |-> t.to, to |-> t.from, amount |-> t.amount],
    reversed |-> t.id] : t \in transfers}

Request ==
  \/ \E id \in NextId :
       \/ \E x \in Asked : Pay(id, x.pay.from, x.pay.to, x.pay.amount, x.reversed)
       \/ \E h \in HoldIds, to \in AccountIds : CaptureHold(h, id, to)
  \/ \E a \in AccountIds : CreateAccount(a)
  \/ \E h \in HoldIds, i \in Holdings : PlaceHold(h, i.account, i.amount)
  \/ \E h \in HoldIds : VoidHold(h)

(* A balance goes up or down without an entry, in some way the code does   *)
(* not know.  Two such changes may cancel each other, in one account or    *)
(* between two.                                                            *)
Off == {a \in accounts : damage[a] # 0}

Damage(a, by) ==
  /\ a \in accounts /\ by # 0
  /\ UNCHANGED <<accounts, transfers, entries, holds>>
  /\ row' = [row EXCEPT ![a].balance = @ + by]
  /\ RowChecks(a, row'[a])
  /\ damage' = [damage EXCEPT ![a] = @ + by]
  /\ Cardinality(damaged \cup {a}) <= MaxDamage
  /\ damage'[a] \in -MaxAmount..MaxAmount
  /\ damaged' = damaged \cup {a}
  /\ report' = [report EXCEPT !.struck = IF at = "wait" THEN {} ELSE @ \cup {a}]
  /\ UNCHANGED <<at, todo, seen, outcome, errors>>

InitAll == Init /\ InitReconciler

NextAll ==
  \/ Request /\ UNCHANGED <<reconciler, harm>>
  \/ (runOnce \/ StatementFails) /\ UNCHANGED <<vars, harm>>
  \/ \E a \in AccountIds, by \in -MaxAmount..MaxAmount : Damage(a, by)

(* The ticker fires again and again, and a statement that is sent returns. *)
SpecAll ==
  /\ InitAll /\ [][NextAll]_allVars
  /\ WF_allVars(runOnce /\ UNCHANGED <<vars, harm>>)

-----------------------------------------------------------------------------
Gapped(a) ==
  {e.version : e \in EntriesFor(a)} # 1..Cardinality(EntriesFor(a))

TotalDamage(A) == SumFunction([a \in A |-> damage[a]])
Uncancelled == {c \in {Currency[a] : a \in accounts} : TotalDamage(Mine(c)) # 0}

(* What a report holds against the ledger has a cause: an account that is  *)
(* off or was struck during the run, one that moved between the two reads, *)
(* one whose versions skip the changes of holds, damage that does not      *)
(* cancel in its currency, totals that could not be read.  Requests under  *)
(* way never disturb the totals or the links.                              *)
AlarmsExplained ==
  /\ report.discrepancies \subseteq Off \cup report.struck \cup report.raced
  /\ \A a \in report.breaks : a \in damaged \/ Gapped(a)
  /\ ~report.consistent =>
       Uncancelled # {} \/ report.struck # {} \/ report.failed

(* A run that finds nothing, while requests commit between its reads, has  *)
(* missed nothing but what it cannot see: damage done during it, an        *)
(* account that moved between its two reads, so that the errors cancel,    *)
(* and, on accounts beyond the page, damage that cancels in its currency.  *)
NoFalseAllClear ==
  [][Finish /\ outcome' = "ok" =>
       /\ \A a \in report.results \ (report.raced \cup report.struck) : a \notin Off
       /\ \A c \in Uncancelled : Mine(c) \cap report.struck # {}]_allVars

(* Damage that goes on without cancelling in its currency is reported      *)
(* sooner or later, on the page or beyond it, although runs fail.          *)
DriftReported == [](Uncancelled # {}) ~> outcome = "drift"

(* As long as no balance is damaged, both checks of the totals pass at any *)
(* moment, and money stays in its currency, which neither of them looks at:*)
(* each currency on its own adds up to zero.                               *)
ConsistentUntilDamaged ==
  damaged = {} =>
    /\ CheckLedgerConsistency /\ CheckConsistency
    /\ \A c \in {Currency[a] : a \in accounts} : TotalBalance(Mine(c)) = 0

(* "checks that each entry's account_previous_balance equals the prior     *)
(* entry's account_current_balance, and that account_version is contiguous *)
(* starting at 1": true of every ledger that nobody has damaged.           *)
ChainsContiguous ==
  damaged = {} => \A a \in accounts : VerifyEntryChain(a)
=============================================================================
