------------------------------- MODULE Ledger -------------------------------
(***************************************************************************)
(* The transfer, hold and account use cases, each request a goroutine that *)
(* runs one READ COMMITTED transaction against PostgreSQL: rows are locked *)
(* one at a time with SELECT ... FOR UPDATE, changes stay invisible until  *)
(* COMMIT, and a failure anywhere rolls the whole request back.            *)
(***************************************************************************)
EXTENDS LedgerTypes

CONSTANTS
  Clients,    \* the requests the server handles at the same time
  Batches,    \* the batches of transfers clients submit
  MaxRetries  \* Retrier.maxRetries

(* One item of a batch, as the caller passes it.                           *)
Input == [from : AccountIds, to : AccountIds, amount : 0..MaxAmount,
          reversed : TransferIds \cup {None}]

ASSUME LedgerAssumption ==
  /\ None \notin Clients
  /\ Batches \subseteq Seq(Input)
  /\ \A b \in Batches :
       b # <<>> /\ \A i \in DOMAIN b : b[i].reversed = None
  /\ MaxRetries \in Nat

VARIABLES
  accounts,   \* committed: ids of the accounts rows
  row,        \* committed: [AccountIds -> Row]
  transfers,  \* committed: transfers rows
  entries,    \* committed: entries rows
  holds,      \* committed: [HoldIds -> Hold]
  outbox,     \* committed: outbox_events rows
  audit,      \* committed: audit_logs rows that name what a request did
  rowLock,    \* owner of the lock on each accounts row
  holdLock,   \* owner of the lock on each holds row
  chainLock,  \* owner of the lock on the row audit_log_chain_state
  pc,         \* where each client's request is
  req,        \* the request it serves
  tx,         \* what its transaction has read and staged
  retries     \* Retrier.Retry's retryCount

db == <<accounts, row, transfers, entries, holds, outbox, audit>>
locks == <<rowLock, holdLock, chainLock>>
vars == <<db, locks, pc, req, tx, retries>>

NoRequest == [op |-> "none"]
Request ==
  {NoRequest}
  \cup [op : {"transfer"}, batch : Seq(Input)]
  \cup [op : {"hold"}, account : AccountIds, amount : 0..MaxAmount]
  \cup [op : {"void"}, hold : HoldIds]
  \cup [op : {"capture"}, hold : HoldIds, to : AccountIds]

Event == [type : {"transfer.created", "transfer.reversed", "hold.created",
                  "hold.voided", "hold.captured"},
          aggregate : TransferIds \cup HoldIds,
          transfer : TransferIds \cup {None}]
AuditRow == [action : {"account.create", "transfer.create",
                       "transfer.reverse", "hold.create", "hold.void",
                       "hold.capture"},
             resource : AccountIds \cup TransferIds \cup HoldIds]

(* A transaction's own view: the accounts it still has to lock, the rows   *)
(* it read under a lock (the code's accountMap) with its updates applied,  *)
(* the items still to process, and the rows it has inserted.               *)
NoTx == [need |-> {}, view |-> [a \in AccountIds |-> NewRow], rest |-> <<>>,
         transfers |-> {}, entries |-> {}, hold |-> None,
         holdRow |-> NoHold, events |-> {}, audit |-> {}]
TxState == [need : SUBSET AccountIds, view : [AccountIds -> Row],
            rest : Seq(Input), transfers : SUBSET Transfer,
            entries : SUBSET Entry, hold : HoldIds \cup {None},
            holdRow : Hold, events : SUBSET Event, audit : SUBSET AuditRow]

InTx == {"begin", "holdLock", "lock", "work", "audit", "commit"}
Pc == InTx \cup {"idle", "record", "failed"}

Init ==
  /\ accounts = {}
  /\ row = [a \in AccountIds |-> NewRow]
  /\ transfers = {} /\ entries = {} /\ outbox = {} /\ audit = {}
  /\ holds = [h \in HoldIds |-> NoHold]
  /\ rowLock = [a \in AccountIds |-> None]
  /\ holdLock = [h \in HoldIds |-> None]
  /\ chainLock = None
  /\ pc = [p \in Clients |-> "idle"]
  /\ req = [p \in Clients |-> NoRequest]
  /\ tx = [p \in Clients |-> NoTx]
  /\ retries = [p \in Clients |-> 0]

-----------------------------------------------------------------------------
(* Requests.  Those that fail validation never open a transaction.         *)

Goto(p, next) == pc' = [pc EXCEPT ![p] = next]

Submit(p, r, valid) ==
  /\ pc[p] = "idle"
  /\ req' = [req EXCEPT ![p] = r]
  /\ Goto(p, IF valid THEN "begin" ELSE "failed")
  /\ UNCHANGED <<db, locks, tx, retries>>

ValidBatch(b) ==
  \A i \in DOMAIN b : b[i].from # b[i].to /\ b[i].amount > 0

CreateBatchTransfer(p, b) ==
  Submit(p, [op |-> "transfer", batch |-> b], ValidBatch(b))

(* ReverseTransfer reads the original before any transaction starts.       *)
ReverseTransfer(p, t) ==
  LET back == [from |-> t.to, to |-> t.from, amount |-> t.amount,
               reversed |-> t.id]
  IN CreateBatchTransfer(p, <<back>>)

(* Mutant: the amount of a hold is not validated.                          *)
HoldFundsUnchecked(p, a, amount) ==
  Submit(p, [op |-> "hold", account |-> a, amount |-> amount], TRUE)
HoldFunds(p, a, amount) ==
  Submit(p, [op |-> "hold", account |-> a, amount |-> amount], amount > 0)

VoidHold(p, h) == Submit(p, [op |-> "void", hold |-> h], TRUE)

CaptureHold(p, h, to) ==
  Submit(p, [op |-> "capture", hold |-> h, to |-> to], TRUE)

(* CreateAccount inserts a row nobody can see before it commits, and an    *)
(* audit row, which needs the audit chain.                                 *)
CreateAccount(p, a) ==
  /\ pc[p] = "idle"
  /\ a \notin accounts
  /\ chainLock = None
  /\ accounts' = accounts \cup {a}
  /\ row' = [row EXCEPT ![a] = NewRow]
  /\ audit' = audit \cup {[action |-> "account.create", resource |-> a]}
  /\ UNCHANGED <<transfers, entries, holds, outbox, locks, pc, req, tx,
                 retries>>

-----------------------------------------------------------------------------
(* The transaction.                                                        *)

BatchAccounts(b) == UNION {{b[i].from, b[i].to} : i \in DOMAIN b}

(* The statement that locks accounts only sees the rows committed when it  *)
(* starts; those it will wait for one after the other, by id.              *)
StartLocking(p, t, ids) ==
  /\ tx' = [tx EXCEPT ![p] = [t EXCEPT !.need = ids \cap accounts]]
  /\ Goto(p, IF ids \cap accounts = {} THEN "work" ELSE "lock")

Begin(p) ==
  /\ pc[p] = "begin"
  /\ \/ /\ req[p].op = "transfer"
        /\ StartLocking(p, [NoTx EXCEPT !.rest = req[p].batch],
                        BatchAccounts(req[p].batch))
     \/ /\ req[p].op = "hold"
        /\ StartLocking(p, NoTx, {req[p].account})
     \/ /\ req[p].op \in {"void", "capture"}
        /\ Goto(p, "holdLock")
        /\ UNCHANGED tx
  /\ UNCHANGED <<db, locks, req, retries>>

(* FOR UPDATE waits for a row that another transaction has locked.         *)
(* Mutant: the hold is read without FOR UPDATE.                            *)
HoldFreeAlways(h) == TRUE
HoldFree(h) == holdLock[h] = None
(* Mutant: accounts are read without FOR UPDATE.                           *)
RowFreeAlways(a) == TRUE
RowFree(a) == rowLock[a] = None

(* VoidHold and CaptureHold lock the holds row before any account.         *)
LockHold(p) ==
  LET h == req[p].hold IN
  /\ pc[p] = "holdLock"
  /\ HoldFree(h)
  /\ holds[h].status = "active"
  /\ holdLock' = [holdLock EXCEPT ![h] = p]
  /\ StartLocking(p, [NoTx EXCEPT !.hold = h, !.holdRow = holds[h]],
                  {holds[h].account} \cup
                  (IF req[p].op = "capture" THEN {req[p].to} ELSE {}))
  /\ UNCHANGED <<db, rowLock, chainLock, req, retries>>

(* The next row of ORDER BY id FOR UPDATE: once granted, the lock shows    *)
(* the row as the last commit left it.                                     *)
(* Mutant: accounts are locked in no particular order.                     *)
NextUnsorted(p, a) == a \in tx[p].need
NextRow(p, a) == a \in tx[p].need /\ \A b \in tx[p].need : a <= b

LockAccount(p, a) ==
  /\ pc[p] = "lock"
  /\ NextRow(p, a)
  /\ RowFree(a)
  /\ rowLock' = [rowLock EXCEPT ![a] = p]
  /\ tx' = [tx EXCEPT ![p].need = @ \ {a}, ![p].view[a] = row[a]]
  /\ Goto(p, IF tx[p].need = {a} THEN "work" ELSE "lock")
  /\ UNCHANGED <<db, holdLock, chainLock, req, retries>>

Locked(p) == {a \in AccountIds : rowLock[a] = p}

(* An id no committed and no staged row has.                               *)
FreshTransfer(id) ==
  /\ \A t \in transfers : t.id # id
  /\ \A q \in Clients : \A t \in tx[q].transfers : t.id # id
FreshHold(h) ==
  /\ holds[h].status = "none"
  /\ \A q \in Clients : tx[q].hold # h

(* processTransfer, for the next item of the batch.                        *)
(* Mutant: missing accounts go unnoticed.                                  *)
FoundAnyway(p) == TRUE
AllFound(p) == BatchAccounts(req[p].batch) \subseteq Locked(p)
(* Mutant: the debit is not validated.                                     *)
CanTransferUnpaid(p, i) ==
  /\ Currency[i.from] = Currency[i.to]
  /\ ValidateCredit(i.to, tx[p].view[i.to], i.amount)
(* Mutant: no unique index on reversed_transfer_id.                        *)
CanTransferTwice(p, i) ==
  /\ Currency[i.from] = Currency[i.to]
  /\ ValidateDebit(i.from, tx[p].view[i.from], i.amount)
  /\ ValidateCredit(i.to, tx[p].view[i.to], i.amount)
CanTransfer(p, i) ==
  /\ Currency[i.from] = Currency[i.to]
  /\ ValidateDebit(i.from, tx[p].view[i.from], i.amount)
  /\ ValidateCredit(i.to, tx[p].view[i.to], i.amount)
  /\ i.reversed # None => \A t \in transfers : t.reversed # i.reversed

ProcessTransfer(p, id) ==
  LET own == tx[p]
      i == Head(own.rest)
      t == [id |-> id, from |-> i.from, to |-> i.to, amount |-> i.amount,
            reversed |-> i.reversed, hold |-> None]
      type == IF i.reversed = None THEN "transfer.created"
                                   ELSE "transfer.reversed"
  IN
  /\ pc[p] = "work" /\ req[p].op = "transfer"
  /\ AllFound(p) /\ CanTransfer(p, i)
  /\ FreshTransfer(id)
  /\ tx' = [tx EXCEPT ![p] = [own EXCEPT
       !.view = Posted(own.view, t),
       !.rest = Tail(own.rest),
       !.transfers = own.transfers \cup {t},
       !.entries = own.entries \cup EntriesOf(own.view, t),
       !.events = own.events \cup {[type |-> type, aggregate |-> id,
                                    transfer |-> id]}]]
  /\ Goto(p, IF Len(tx[p].rest) = 1 THEN "audit" ELSE "work")
  /\ UNCHANGED <<db, locks, req, retries>>

(* HoldFunds, once the account is locked.                                  *)
(* Mutant: a hold is checked against the whole balance.                    *)
CanHoldTwice(p) ==
  LET a == req[p].account IN
  a \in Locked(p) /\ tx[p].view[a].balance >= req[p].amount
CanHold(p) ==
  LET a == req[p].account IN
  a \in Locked(p) /\ ValidateDebit(a, tx[p].view[a], req[p].amount)

PlaceHold(p, h) ==
  LET own == tx[p]
      a == req[p].account
  IN
  /\ pc[p] = "work" /\ req[p].op = "hold"
  /\ CanHold(p)
  /\ FreshHold(h)
  /\ tx' = [tx EXCEPT ![p] = [own EXCEPT
       !.view = Encumber(own.view, a,
                         own.view[a].encumbered + req[p].amount),
       !.hold = h,
       !.holdRow = [account |-> a, amount |-> req[p].amount,
                    status |-> "active"],
       !.events = {[type |-> "hold.created", aggregate |-> h,
                    transfer |-> None]}]]
  /\ Goto(p, "audit")
  /\ UNCHANGED <<db, locks, req, retries>>

ReleaseHold(p) ==
  LET own == tx[p]
      h == own.holdRow
      left == NonNegative(own.view[h.account].encumbered - h.amount)
  IN
  /\ pc[p] = "work" /\ req[p].op = "void"
  /\ tx' = [tx EXCEPT ![p] = [own EXCEPT
       !.view = Encumber(own.view, h.account, left),
       !.holdRow = [h EXCEPT !.status = "voided"],
       !.events = {[type |-> "hold.voided", aggregate |-> req[p].hold,
                    transfer |-> None]}]]
  /\ Goto(p, "commit")
  /\ UNCHANGED <<db, locks, req, retries>>

(* CaptureHold: the debit and the release are one UPDATE, so the row       *)
(* counts one version; the transfers table refuses from = to.              *)
(* Mutant: a capture compares no currencies.                               *)
CanConvert(p) ==
  LET h == tx[p].holdRow IN
  {h.account, req[p].to} \subseteq Locked(p) /\ h.account # req[p].to
CanCapture(p) ==
  LET h == tx[p].holdRow
      to == req[p].to
  IN
  /\ {h.account, to} \subseteq Locked(p)
  /\ Currency[h.account] = Currency[to]
  /\ ValidateCredit(to, tx[p].view[to], h.amount)
  /\ h.account # to

SettleHold(p, id) ==
  LET own == tx[p]
      h == own.holdRow
      t == [id |-> id, from |-> h.account, to |-> req[p].to,
            amount |-> h.amount, reversed |-> None, hold |-> req[p].hold]
  IN
  /\ pc[p] = "work" /\ req[p].op = "capture"
  /\ CanCapture(p)
  /\ FreshTransfer(id)
  /\ tx' = [tx EXCEPT ![p] = [own EXCEPT
       !.view = Captured(own.view, t),
       !.transfers = {t},
       !.entries = EntriesOf(own.view, t),
       !.holdRow = [h EXCEPT !.status = "captured"],
       !.events = {[type |-> "hold.captured", aggregate |-> req[p].hold,
                    transfer |-> id]}]]
  /\ Goto(p, "commit")
  /\ UNCHANGED <<db, locks, req, retries>>

(* Transfers and new holds are audited inside the transaction: the insert  *)
(* locks the head of the audit chain until the transaction ends.           *)
AuditInTx(p) ==
  LET reverse(t) == t.reversed # None IN
  /\ pc[p] = "audit"
  /\ chainLock = None
  /\ chainLock' = p
  /\ tx' = [tx EXCEPT ![p].audit =
       IF req[p].op = "hold"
       THEN {[action |-> "hold.create", resource |-> tx[p].hold]}
       ELSE {[action |-> IF reverse(t) THEN "transfer.reverse"
                                       ELSE "transfer.create",
              resource |-> t.id] : t \in tx[p].transfers}]
  /\ Goto(p, "commit")
  /\ UNCHANGED <<db, rowLock, holdLock, req, retries>>
-----------------------------------------------------------------------------
(* The end of a transaction.                                               *)

ReleaseLocks(p) ==
  /\ rowLock' = [a \in AccountIds |-> IF rowLock[a] = p THEN None
                                                       ELSE rowLock[a]]
  /\ holdLock' = [h \in HoldIds |-> IF holdLock[h] = p THEN None
                                                      ELSE holdLock[h]]
  /\ chainLock' = IF chainLock = p THEN None ELSE chainLock

(* Mutant: every row that was locked is written back once more.            *)
ApplyTouchingAll(p) ==
  /\ row' = [a \in AccountIds |->
       LET r == tx[p].view[a] IN
       IF a \in Locked(p) THEN Updated(r, r.balance, r.encumbered)
                          ELSE row[a]]
  /\ transfers' = transfers \cup tx[p].transfers
  /\ entries' = entries \cup tx[p].entries
  /\ holds' = WithHold(holds, tx[p].hold, tx[p].holdRow)
  /\ outbox' = outbox \cup tx[p].events
  /\ audit' = audit \cup tx[p].audit
  /\ UNCHANGED accounts
  /\ ReleaseLocks(p)
Apply(p) ==
  /\ row' = [a \in AccountIds |-> IF a \in Locked(p) THEN tx[p].view[a]
                                                    ELSE row[a]]
  /\ transfers' = transfers \cup tx[p].transfers
  /\ entries' = entries \cup tx[p].entries
  /\ holds' = WithHold(holds, tx[p].hold, tx[p].holdRow)
  /\ outbox' = outbox \cup tx[p].events
  /\ audit' = audit \cup tx[p].audit
  /\ UNCHANGED accounts
  /\ ReleaseLocks(p)

Forget(p, next) ==
  /\ Goto(p, next)
  /\ tx' = [tx EXCEPT ![p] = NoTx]

Done(p) ==
  /\ Forget(p, "idle")
  /\ req' = [req EXCEPT ![p] = NoRequest]
  /\ retries' = [retries EXCEPT ![p] = 0]

Commit(p) ==
  /\ pc[p] = "commit"
  /\ Apply(p)
  /\ IF req[p].op \in {"void", "capture"}
     THEN Forget(p, "record") /\ UNCHANGED <<req, retries>>
     ELSE Done(p)

(* COMMIT takes effect but its answer is lost (the connection breaks, or   *)
(* txCtx expires), and the use case takes that for a failure.              *)
CommitUnanswered(p) ==
  /\ pc[p] = "commit"
  /\ Apply(p)
  /\ Goto(p, "failed")
  /\ UNCHANGED <<req, tx, retries>>

(* The id generator never runs dry; TransferIds and HoldIds do.  This is   *)
(* the bound on the length of a behaviour.                                 *)
OutOfIds(p) ==
  \/ /\ req[p].op \in {"transfer", "capture"}
     /\ \A id \in TransferIds : ~FreshTransfer(id)
  \/ /\ req[p].op = "hold"
     /\ \A h \in HoldIds : ~FreshHold(h)

(* The code itself gives up: unknown row, hold not active, currency,       *)
(* balance limits, original already reversed.                              *)
Refused(p) ==
  \/ /\ pc[p] = "holdLock"
     /\ HoldFree(req[p].hold)
     /\ holds[req[p].hold].status # "active"
  \/ /\ pc[p] = "work"
     /\ \/ req[p].op = "transfer"
           /\ ~(AllFound(p) /\ CanTransfer(p, Head(tx[p].rest)))
        \/ req[p].op = "hold" /\ ~CanHold(p)
        \/ req[p].op = "capture" /\ ~CanCapture(p)
        \/ OutOfIds(p)

(* Mutant: events are written outside the transaction.                     *)
RollBackKeepingEvents(p, next) ==
  /\ Forget(p, next) /\ ReleaseLocks(p)
  /\ outbox' = outbox \cup tx[p].events
  /\ UNCHANGED <<accounts, row, transfers, entries, holds, audit, req>>
(* Mutant: audit rows are written outside it.                              *)
RollBackKeepingAudit(p, next) ==
  /\ Forget(p, next) /\ ReleaseLocks(p)
  /\ audit' = audit \cup tx[p].audit
  /\ UNCHANGED <<accounts, row, transfers, entries, holds, outbox, req>>
(* Mutant: a failed transaction is left open.                              *)
RollBackKeepingLocks(p, next) ==
  Forget(p, next) /\ UNCHANGED <<db, locks, req>>
RollBack(p, next) ==
  /\ Forget(p, next)
  /\ ReleaseLocks(p)
  /\ UNCHANGED <<db, req>>

Refuse(p) == Refused(p) /\ RollBack(p, "failed") /\ UNCHANGED retries

(* Any statement may fail, and txCtx may expire at any point.              *)
Abort(p) ==
  /\ pc[p] \in InTx
  /\ RollBack(p, "failed")
  /\ UNCHANGED retries

(* A deadlock or serialization error: only the transfer use case has a     *)
(* Retrier, and starts over in a new transaction.                          *)
Retry(p) ==
  /\ pc[p] \in InTx
  /\ req[p].op = "transfer"
  /\ retries[p] < MaxRetries
  /\ RollBack(p, "begin")
  /\ retries' = [retries EXCEPT ![p] = @ + 1]

(* The failure row names no transfer and no hold, only itself: what it     *)
(* takes is the audit chain.                                               *)
AuditFailure(p) ==
  /\ pc[p] = "failed"
  /\ chainLock = None
  /\ Done(p)
  /\ UNCHANGED <<db, locks>>

(* VoidHold and CaptureHold write their audit row after the commit.        *)
AuditAfterCommit(p) ==
  /\ pc[p] = "record"
  /\ chainLock = None
  /\ audit' = audit \cup
       {[action |-> IF req[p].op = "void" THEN "hold.void"
                                          ELSE "hold.capture",
         resource |-> req[p].hold]}
  /\ Done(p)
  /\ UNCHANGED <<accounts, row, transfers, entries, holds, outbox, locks>>

(* The server stops, or the best-effort audit row fails: what is committed *)
(* stays, the rest is gone.                                                *)
Crash(p) ==
  /\ pc[p] # "idle"
  /\ Done(p)
  /\ ReleaseLocks(p)
  /\ UNCHANGED db

-----------------------------------------------------------------------------
Call(p) ==
  \/ \E a \in AccountIds : CreateAccount(p, a)
  \/ \E b \in Batches : CreateBatchTransfer(p, b)
  \/ \E t \in transfers : ReverseTransfer(p, t)
  \/ \E a \in AccountIds, m \in 0..MaxAmount : HoldFunds(p, a, m)
  \/ \E h \in HoldIds : VoidHold(p, h)
  \/ \E h \in HoldIds, to \in AccountIds : CaptureHold(p, h, to)

(* Steps that wait for another transaction.                                *)
Acquire(p) ==
  \/ LockHold(p)
  \/ \E a \in AccountIds : LockAccount(p, a)
  \/ AuditInTx(p)
  \/ AuditFailure(p)
  \/ AuditAfterCommit(p)

Step(p) ==
  \/ Begin(p)
  \/ \E id \in TransferIds : ProcessTransfer(p, id) \/ SettleHold(p, id)
  \/ \E h \in HoldIds : PlaceHold(p, h)
  \/ ReleaseHold(p)
  \/ Commit(p)
  \/ Refuse(p)

Fault(p) == CommitUnanswered(p) \/ Abort(p) \/ Retry(p) \/ Crash(p)

Next == \E p \in Clients : Call(p) \/ Acquire(p) \/ Step(p) \/ Fault(p)

Spec == Init /\ [][Next]_vars

(* Every goroutine keeps running, and PostgreSQL grants a row lock to its  *)
(* waiters in turn, so that nobody is passed over for ever.                *)
Fairness ==
  \A p \in Clients :
    /\ WF_vars(Step(p))
    /\ SF_vars(Acquire(p))

FairSpec == Spec /\ Fairness

-----------------------------------------------------------------------------
(* Every variable keeps its type.                                          *)
TypeOK ==
  /\ accounts \subseteq AccountIds
  /\ row \in [AccountIds -> Row]
  /\ transfers \subseteq Transfer
  /\ entries \subseteq Entry
  /\ holds \in [HoldIds -> Hold]
  /\ outbox \subseteq Event
  /\ audit \subseteq AuditRow
  /\ rowLock \in [AccountIds -> Clients \cup {None}]
  /\ holdLock \in [HoldIds -> Clients \cup {None}]
  /\ chainLock \in Clients \cup {None}
  /\ pc \in [Clients -> Pc]
  /\ req \in [Clients -> Request]
  /\ tx \in [Clients -> TxState]
  /\ retries \in [Clients -> 0..MaxRetries]

(* The encumbered_balance column, read and rewritten by HoldFunds,         *)
(* VoidHold and CaptureHold, is always the sum of the active holds.        *)
EncumberedIsHeld ==
  \A a \in AccountIds : row[a].encumbered = Held(holds, a)

(* The balance column, rewritten by batches, reversals and captures, is    *)
(* always what the transfers of the account add up to.                     *)
BalanceIsNet ==
  \A a \in AccountIds : row[a].balance = Net(transfers, a)

(* The limits of an account hold in every row committed, and in every row  *)
(* a transaction writes on the way: ValidateDebit and ValidateCredit refuse*)
(* what the CHECK constraints would, which never fire.                     *)
LimitsRespected ==
  \A a \in AccountIds :
    /\ RowChecks(a, row[a])
    /\ \A p \in Clients :
         pc[p] \in InTx /\ a \in Locked(p) => RowChecks(a, tx[p].view[a])
=============================================================================
