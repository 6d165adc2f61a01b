--------------------------- MODULE LedgerRecords ---------------------------
(***************************************************************************)
(* Proof that what Ledger commits is what Journal and Commits promise, that*)
(* transfers are reversed once and holds captured once, that the outbox and*)
(* the audit log tell of exactly that, that the entries of an account form *)
(* a chain, and that what is read of the past and page by page is true, for*)
(* any number of requests.                                                 *)
(*                                                                         *)
(* LedgerProofs shows that the rows a transaction would write are worth    *)
(* what they say; here it is about the records it inserts.  Each kind of   *)
(* step is first reduced to what it does to them.                          *)
(***************************************************************************)
EXTENDS LedgerHistory, LedgerProofs

-----------------------------------------------------------------------------
(* What a request may have staged.                                         *)

Undone(i, s) ==
  s.id = i.reversed /\ s.from = i.to /\ s.to = i.from /\ s.amount = i.amount

(* The items of a batch are new transfers, or there is one that undoes a   *)
(* transfer.                                                               *)
Plain(b) == \A i \in 1..Len(b) : b[i].reversed = None
UndoesOne(b) == Len(b) = 1 /\ \E s \in transfers : Undone(b[1], s)
Sane(b) == Plain(b) \/ UndoesOne(b)

Asked(p) ==
  /\ pc[p] \in {"idle", "begin", "holdLock", "record"} => tx[p].transfers = {}
  /\ pc[p] \in InTx /\ req[p].op = "transfer" => Sane(req[p].batch)
  /\ pc[p] = "record" =>
       holds[req[p].hold].status =
         (IF req[p].op = "void" THEN "voided" ELSE "captured")

(* The transfers a batch has staged, and what of it is left.               *)
StagedBatch(p) ==
  /\ pc[p] \in {"lock", "work"} =>
       \/ Plain(tx[p].rest) /\ \A t \in tx[p].transfers : t.reversed = None
       \/ UndoesOne(tx[p].rest) /\ tx[p].transfers = {}
  /\ pc[p] \in {"audit", "commit"} => tx[p].transfers # {}
  /\ \A t \in tx[p].transfers :
       /\ t.hold = None /\ t.from # t.to /\ Currency[t.from] = Currency[t.to]
       /\ t.reversed # None =>
            /\ tx[p].transfers = {t}
            /\ \E s \in transfers : Undone(t, s)
            /\ \A s \in transfers : s.reversed # t.reversed

(* One event for each of them.                                             *)
StagedEvents(p) ==
  /\ \A t \in tx[p].transfers : \E e \in tx[p].events : e.transfer = t.id
  /\ \A e \in tx[p].events :
       e.aggregate = e.transfer /\ \E t \in tx[p].transfers : t.id = e.transfer
  /\ \A e, f \in tx[p].events : e.transfer = f.transfer => e = f

(* What a hold, a void and a capture have staged before and after the work.*)
StagedNothing(p) == tx[p].transfers = {} /\ tx[p].events = {}
StagedStep(p, type, t) ==
  \A e \in tx[p].events :
    e.type = type /\ e.aggregate = tx[p].hold /\ e.transfer = t
StagedHold(p) ==
  /\ tx[p].transfers = {} /\ tx[p].events # {}
  /\ StagedStep(p, "hold.created", None)
  /\ tx[p].holdRow.account = req[p].account
  /\ tx[p].holdRow.amount = req[p].amount
  /\ tx[p].holdRow.status = "active"
  /\ req[p].amount \in Amount
StagedVoid(p) ==
  /\ tx[p].transfers = {} /\ tx[p].events # {}
  /\ StagedStep(p, "hold.voided", None)
  /\ tx[p].holdRow = [holds[tx[p].hold] EXCEPT !.status = "voided"]
Capture(p, t) ==
  /\ t.from = holds[tx[p].hold].account /\ t.to = req[p].to
  /\ t.amount = holds[tx[p].hold].amount
  /\ t.reversed = None /\ t.hold = tx[p].hold
  /\ t.from # t.to /\ Currency[t.from] = Currency[t.to]
StagedCapture(p) ==
  /\ tx[p].events # {}
  /\ \E t \in Transfer :
       /\ tx[p].transfers = {t} /\ Capture(p, t)
       /\ StagedStep(p, "hold.captured", t.id)
  /\ tx[p].holdRow = [holds[tx[p].hold] EXCEPT !.status = "captured"]

StagedAudit(p) ==
  IF pc[p] # "commit" \/ req[p].op \in {"void", "capture"}
  THEN tx[p].audit = {}
  ELSE IF req[p].op = "hold"
  THEN tx[p].audit = {[action |-> "hold.create", resource |-> tx[p].hold]}
  ELSE tx[p].audit = {[action |-> IF t.reversed # None
                                  THEN "transfer.reverse"
                                  ELSE "transfer.create",
                       resource |-> t.id] : t \in tx[p].transfers}

StagedRecords(p) ==
  /\ StagedAudit(p)
  /\ req[p].op = "transfer" => StagedBatch(p) /\ StagedEvents(p)
  /\ req[p].op # "transfer" /\ pc[p] \in {"lock", "work"} => StagedNothing(p)
  /\ req[p].op \in {"void", "capture"} => pc[p] # "audit"
  /\ pc[p] \in {"audit", "commit"} =>
       /\ req[p].op = "hold" => StagedHold(p)
       /\ req[p].op = "void" => StagedVoid(p)
       /\ req[p].op = "capture" => StagedCapture(p)

ClientRecords(p) == Asked(p) /\ (pc[p] \in Staging => StagedRecords(p))

-----------------------------------------------------------------------------
(* What is committed, and how it goes with what is staged.                 *)

UniqueIds == \A s, t \in transfers : s.id = t.id => s = t

(* No id is given twice.                                                   *)
NewIds(p) ==
  pc[p] \in Staging => \A t \in tx[p].transfers :
    /\ \A s \in transfers : s.id # t.id
    /\ \A s \in tx[p].transfers : s.id = t.id => s = t
IdsApart(p, q) ==
  pc[p] \in Staging /\ pc[q] \in Staging =>
    \A t \in tx[p].transfers, s \in tx[q].transfers : s.id # t.id

Captures ==
  /\ \A h \in HoldIds :
       holds[h].status = "captured" <=> \E t \in transfers : t.hold = h
  /\ \A t \in transfers : t.hold # None =>
       t.from = holds[t.hold].account /\ t.amount = holds[t.hold].amount
  /\ \A s, t \in transfers : s.hold = t.hold /\ t.hold # None => s = t

TransfersTold ==
  /\ \A t \in transfers : \E e \in outbox : e.transfer = t.id
  /\ \A e \in outbox : e.transfer # None =>
       \E t \in transfers : t.id = e.transfer
  /\ \A e, f \in outbox : e.transfer = f.transfer /\ f.transfer # None => e = f
StepsTo(status) ==
  CASE status = "none"     -> {}
    [] status = "active"   -> {"hold.created"}
    [] status = "voided"   -> {"hold.created", "hold.voided"}
    [] status = "captured" -> {"hold.created", "hold.captured"}
ToldOf(h) == {e.type : e \in {o \in outbox : o.aggregate = h}}
HoldsTold == \A h \in HoldIds : ToldOf(h) = StepsTo(holds[h].status)

Audited ==
  /\ AuditMatches
  /\ \A r \in audit :
       r.action \in {"hold.void", "hold.capture"} => r.resource \in HoldIds

Committed ==
  /\ UniqueIds /\ ReversedOnce /\ Captures
  /\ TransfersTold /\ HoldsTold /\ Audited

RecordsInv ==
  /\ SafeInv
  /\ Committed
  /\ \A p \in Clients : ClientRecords(p) /\ NewIds(p)
  /\ \A p, q \in Clients : p # q => IdsApart(p, q)

-----------------------------------------------------------------------------
(* Steps that commit nothing.                                              *)

Others(p) ==
  \A q \in Clients \ {p} :
    pc'[q] = pc[q] /\ req'[q] = req[q] /\ tx'[q] = tx[q]

(* Reading off the types of what a request has.                            *)
LEMMA Typed ==
  ASSUME SafeInv, NEW p \in Clients
  PROVE  /\ tx[p] \in TxState /\ req[p] \in Request /\ pc[p] \in Pc
         /\ tx \in [Clients -> TxState] /\ pc \in [Clients -> Pc]
         /\ req \in [Clients -> Request]
         /\ transfers \subseteq Transfer /\ holds \in [HoldIds -> Hold]
         /\ outbox \subseteq Event /\ audit \subseteq AuditRow
         /\ tx[p].transfers \subseteq Transfer /\ tx[p].events \subseteq Event
         /\ tx[p].audit \subseteq AuditRow /\ tx[p].holdRow \in Hold
         /\ tx[p].hold \in HoldIds \cup {None}
BY DEF SafeInv, TypeInv, TypeOK, TxState

LEMMA NoTxStages ==
  /\ NoTx.transfers = {} /\ NoTx.events = {} /\ NoTx.audit = {}
  /\ NoTx.rest = <<>> /\ NoTx.hold = None /\ NoTx.holdRow = NoHold
BY DEF NoTx

LEMMA OtherRecords ==
  ASSUME NEW q \in Clients, ClientRecords(q),
         pc'[q] = pc[q], req'[q] = req[q], tx'[q] = tx[q],
         UNCHANGED <<transfers, holds>>
  PROVE  ClientRecords(q)'
<1>1. Asked(q)'
  BY DEF ClientRecords, Asked, Sane, Plain, UndoesOne, Undone
<1>2. ASSUME pc[q] \in Staging PROVE StagedRecords(q)'
  <2>1. StagedRecords(q)
    BY <1>2 DEF ClientRecords
  <2>2. StagedAudit(q)'
    BY <2>1 DEF StagedRecords, StagedAudit
  <2>3. req[q].op = "transfer" => StagedBatch(q)' /\ StagedEvents(q)'
    BY <2>1 DEF StagedRecords, StagedBatch, StagedEvents, Plain, UndoesOne, Undone
  <2>4. req[q].op # "transfer" /\ pc[q] \in {"lock", "work"} => StagedNothing(q)'
    BY <2>1 DEF StagedRecords, StagedNothing
  <2>5. pc[q] \in {"audit", "commit"} =>
          /\ req[q].op = "hold" => StagedHold(q)'
          /\ req[q].op = "void" => StagedVoid(q)'
          /\ req[q].op = "capture" => StagedCapture(q)'
    BY <2>1
      DEF StagedRecords, StagedHold, StagedVoid, StagedCapture, StagedStep, Capture
  <2> QED
    BY <2>1, <2>2, <2>3, <2>4, <2>5 DEF StagedRecords
<1> QED
  BY <1>1, <1>2 DEF ClientRecords

LEMMA QuietRecords ==
  ASSUME RecordsInv, SafeInv', NEW p \in Clients, Others(p),
         UNCHANGED <<transfers, holds, outbox>>, Audited',
         ClientRecords(p)', NewIds(p)',
         \A q \in Clients \ {p} : IdsApart(p, q)'
  PROVE  RecordsInv'
<1>1. Committed'
  <2>1. Committed
    BY DEF RecordsInv
  <2>2. UniqueIds' /\ ReversedOnce' /\ Captures'
    BY <2>1 DEF Committed, UniqueIds, ReversedOnce, Captures
  <2>3. TransfersTold' /\ HoldsTold'
    BY <2>1 DEF Committed, TransfersTold, HoldsTold, ToldOf, StepsTo
  <2> QED
    BY <2>2, <2>3 DEF Committed
<1>2. \A q \in Clients : ClientRecords(q)' /\ NewIds(q)'
  <2>1. TAKE q \in Clients
  <2>2. CASE q = p
    BY <2>2
  <2>3. CASE q # p
    <3>1. pc'[q] = pc[q] /\ req'[q] = req[q] /\ tx'[q] = tx[q]
      BY <2>3 DEF Others
    <3>2. NewIds(q)'
      BY <3>1 DEF RecordsInv, NewIds
    <3> QED
      BY <3>1, <3>2, OtherRecords DEF RecordsInv
  <2> QED
    BY <2>2, <2>3
<1>3. \A q, r \in Clients : q # r => IdsApart(q, r)'
  <2>1. ASSUME NEW q \in Clients \ {p}, NEW r \in Clients \ {p}, q # r
        PROVE  IdsApart(q, r)'
    BY <2>1 DEF RecordsInv, IdsApart, Others
  <2>2. \A q \in Clients \ {p} : IdsApart(q, p)'
    BY DEF IdsApart
  <2> QED
    BY <2>1, <2>2
<1> QED
  BY <1>1, <1>2, <1>3 DEF RecordsInv

(* A step after which p has staged no transfer that it had not before.     *)
LEMMA SameRecords ==
  ASSUME RecordsInv, SafeInv', NEW p \in Clients, Others(p),
         UNCHANGED <<transfers, holds, outbox>>, Audited',
         ClientRecords(p)',
         pc'[p] \in Staging =>
           \/ tx'[p].transfers = {}
           \/ pc[p] \in Staging /\ tx'[p].transfers = tx[p].transfers
  PROVE  RecordsInv'
<1>1. NewIds(p)'
  BY DEF RecordsInv, NewIds
<1>2. ASSUME NEW q \in Clients \ {p} PROVE IdsApart(p, q)'
  <2>1. IdsApart(p, q)
    BY DEF RecordsInv
  <2>2. pc'[q] = pc[q] /\ tx'[q] = tx[q]
    BY DEF Others
  <2> QED
    BY <2>1, <2>2 DEF IdsApart
<1> QED
  BY <1>1, <1>2, QuietRecords

(* A step that leaves no transaction open.                                 *)
LEMMA IdleRecords ==
  ASSUME RecordsInv, SafeInv', NEW p \in Clients, Others(p),
         UNCHANGED <<transfers, holds, outbox>>, Audited',
         Asked(p)', pc'[p] \notin Staging
  PROVE  RecordsInv'
BY SameRecords DEF ClientRecords

(* Audited looks at nothing a client has for itself.                       *)
LEMMA SameAudit ==
  ASSUME RecordsInv, UNCHANGED <<transfers, holds, audit>>
  PROVE  Audited'
BY DEF RecordsInv, Committed, Audited, AuditMatches
-----------------------------------------------------------------------------
(* Requests that begin and end.                                            *)

LEMMA SubmitRecords ==
  ASSUME RecordsInv, SafeInv', NEW p \in Clients, NEW r, NEW valid,
         Submit(p, r, valid), r.op = "transfer" => Sane(r.batch)
  PROVE  RecordsInv'
<1>1. /\ pc[p] = "idle" /\ pc'[p] \in {"begin", "failed"} /\ req'[p] = r
      /\ tx' = tx /\ Others(p) /\ UNCHANGED db
  <2>1. pc \in [Clients -> Pc] /\ req \in [Clients -> Request]
    BY DEF RecordsInv, SafeInv, TypeInv, TypeOK
  <2> QED
    BY <2>1 DEF Submit, Goto, Others
<1>2. UNCHANGED <<transfers, holds, outbox, audit>>
  BY <1>1 DEF db
<1>3. Asked(p)'
  <2>1. tx[p].transfers = {}
    BY <1>1 DEF RecordsInv, ClientRecords, Asked
  <2> QED
    BY <1>1, <1>2, <2>1 DEF Asked, Sane, Plain, UndoesOne, Undone
<1>4. pc'[p] \notin Staging
  BY <1>1 DEF Staging
<1> QED
  BY <1>1, <1>2, <1>3, <1>4, SameAudit, IdleRecords

LEMMA CreateAccountRecords ==
  ASSUME RecordsInv, SafeInv', NEW p \in Clients, NEW a \in AccountIds,
         CreateAccount(p, a)
  PROVE  RecordsInv'
<1>1. /\ UNCHANGED <<transfers, holds, outbox, pc, req, tx>>
      /\ audit' = audit \cup {[action |-> "account.create", resource |-> a]}
  BY DEF CreateAccount, locks
<1>2. Audited'
  <2>1. Audited
    BY DEF RecordsInv, Committed
  <2>2. \A x \in audit' : x \in audit \/ x.action = "account.create"
    BY <1>1
  <2>3. /\ {x \in audit' : x.action = "hold.create"} =
             {x \in audit : x.action = "hold.create"}
        /\ {x \in audit' : x.action \in {"transfer.create", "transfer.reverse"}} =
             {x \in audit : x.action \in {"transfer.create", "transfer.reverse"}}
        /\ \A x \in audit' : x.action \in {"hold.void", "hold.capture"} =>
             x \in audit
    BY <1>1, <2>2
  <2> QED
    BY <1>1, <2>1, <2>3 DEF Audited, AuditMatches
<1>3. Others(p) /\ ClientRecords(p)'
  BY <1>1, OtherRecords DEF Others, RecordsInv
<1> QED
  BY <1>1, <1>2, <1>3, SameRecords

LEMMA CallRecords ==
  ASSUME RecordsInv, SafeInv', NEW p \in Clients, Call(p)
  PROVE  RecordsInv'
<1>1. ASSUME NEW b \in Batches, CreateBatchTransfer(p, b) PROVE RecordsInv'
  <2>1. Plain(b)
    BY LedgerAssumption DEF Plain
  <2> DEFINE r == [op |-> "transfer", batch |-> b]
  <2>2. Submit(p, r, ValidBatch(b)) /\ r.batch = b
    BY <1>1 DEF CreateBatchTransfer
  <2> HIDE DEF r
  <2> QED
    BY <2>1, <2>2, SubmitRecords DEF Sane
<1>2. ASSUME NEW t \in transfers, ReverseTransfer(p, t) PROVE RecordsInv'
  <2> DEFINE back == [from |-> t.to, to |-> t.from, amount |-> t.amount,
                      reversed |-> t.id]
             b == <<back>>
             r == [op |-> "transfer", batch |-> b]
  <2>1. Len(b) = 1 /\ b[1] = back /\ Undone(back, t)
    BY DEF Undone
  <2>2. Submit(p, r, ValidBatch(b)) /\ r.batch = b
    BY <1>2 DEF ReverseTransfer, CreateBatchTransfer
  <2> HIDE DEF r, b, back
  <2> QED
    BY <2>1, <2>2, SubmitRecords DEF Sane, UndoesOne
<1>3. ASSUME NEW r, r.op # "transfer", NEW valid, Submit(p, r, valid)
      PROVE  RecordsInv'
  BY <1>3, SubmitRecords
<1>4. ASSUME NEW a \in AccountIds, NEW m, HoldFunds(p, a, m) PROVE RecordsInv'
  <2>1. [op |-> "hold", account |-> a, amount |-> m].op # "transfer"
    OBVIOUS
  <2> QED
    BY <1>3, <1>4, <2>1 DEF HoldFunds
<1>5. ASSUME NEW h \in HoldIds, VoidHold(p, h) PROVE RecordsInv'
  <2>1. [op |-> "void", hold |-> h].op # "transfer"
    OBVIOUS
  <2> QED
    BY <1>3, <1>5, <2>1 DEF VoidHold
<1>6. ASSUME NEW h \in HoldIds, NEW a \in AccountIds, CaptureHold(p, h, a)
      PROVE  RecordsInv'
  <2>1. [op |-> "capture", hold |-> h, to |-> a].op # "transfer"
    OBVIOUS
  <2> QED
    BY <1>3, <1>6, <2>1 DEF CaptureHold
<1> QED
  BY <1>1, <1>2, <1>4, <1>5, <1>6, CreateAccountRecords DEF Call

LEMMA LeaveRecords ==
  ASSUME RecordsInv, SafeInv', NEW p \in Clients, NEW next, NEW r,
         pc' = [pc EXCEPT ![p] = next], tx' = [tx EXCEPT ![p] = NoTx],
         req' = [req EXCEPT ![p] = r],
         \/ next \in {"idle", "failed"}
         \/ next = "begin" /\ r = req[p] /\ pc[p] \in InTx,
         UNCHANGED <<transfers, holds, outbox>>, Audited'
  PROVE  RecordsInv'
<1>1. /\ pc'[p] = next /\ tx'[p] = NoTx /\ req'[p] = r /\ Others(p)
  <2>1. /\ pc \in [Clients -> Pc] /\ req \in [Clients -> Request]
        /\ tx \in [Clients -> TxState]
    BY DEF RecordsInv, SafeInv, TypeInv, TypeOK
  <2> QED
    BY <2>1 DEF Others
<1>2. Asked(p)'
  BY <1>1, NoTxStages DEF RecordsInv, ClientRecords, Asked, Sane, Plain,
     UndoesOne, Undone, InTx
<1>3. pc'[p] \notin Staging
  BY <1>1 DEF Staging
<1> QED
  BY <1>1, <1>2, <1>3, IdleRecords

(* The audit row of a void or a capture comes after its commit, when the   *)
(* status of the hold is final.                                            *)
LEMMA AuditAfterCommitMatches ==
  ASSUME RecordsInv, NEW p \in Clients, AuditAfterCommit(p)
  PROVE  Audited'
<1> DEFINE act == IF req[p].op = "void" THEN "hold.void" ELSE "hold.capture"
           x == [action |-> act, resource |-> req[p].hold]
<1>1. /\ audit' = audit \cup {x} /\ UNCHANGED <<transfers, holds>>
      /\ pc[p] = "record"
  BY DEF AuditAfterCommit
<1>2. holds[req[p].hold].status =
        (IF req[p].op = "void" THEN "voided" ELSE "captured")
  BY <1>1 DEF RecordsInv, ClientRecords, Asked
<1>3. /\ x.action \in {"hold.void", "hold.capture"} /\ x.resource = req[p].hold
      /\ x.action = "hold.void" => holds[x.resource].status = "voided"
      /\ x.action = "hold.capture" => holds[x.resource].status = "captured"
  BY <1>2
<1> HIDE DEF x, act
<1>4. Audited
  BY DEF RecordsInv, Committed
<1>5. /\ {y \in audit' : y.action = "hold.create"} =
           {y \in audit : y.action = "hold.create"}
      /\ {y \in audit' : y.action \in {"transfer.create", "transfer.reverse"}} =
           {y \in audit : y.action \in {"transfer.create", "transfer.reverse"}}
  BY <1>1, <1>3
<1>6. req[p].hold \in HoldIds
  BY <1>1, RequestFields
     DEF RecordsInv, SafeInv, TypeInv, TypeOK, ClientTyped
<1> QED
  BY <1>1, <1>3, <1>4, <1>5, <1>6 DEF Audited, AuditMatches

LEMMA EndRecords ==
  ASSUME RecordsInv, SafeInv', NEW p \in Clients,
         \/ AuditFailure(p) \/ AuditAfterCommit(p) \/ Crash(p)
         \/ Refuse(p) \/ Abort(p) \/ Retry(p)
  PROVE  RecordsInv'
<1>1. UNCHANGED <<transfers, holds, outbox>> /\ Audited'
  <2>1. CASE AuditAfterCommit(p)
    BY <2>1, AuditAfterCommitMatches DEF AuditAfterCommit
  <2>2. CASE AuditFailure(p) \/ Crash(p) \/ Refuse(p) \/ Abort(p) \/ Retry(p)
    <3>1. UNCHANGED db
      BY <2>2 DEF AuditFailure, Crash, Refuse, Abort, Retry, RollBack
    <3> QED
      BY <3>1, SameAudit DEF db
  <2> QED
    BY <2>1, <2>2
<1>2. CASE AuditFailure(p) \/ AuditAfterCommit(p) \/ Crash(p)
  <2>1. Done(p)
    BY <1>2 DEF AuditFailure, AuditAfterCommit, Crash
  <2>2. /\ pc' = [pc EXCEPT ![p] = "idle"] /\ tx' = [tx EXCEPT ![p] = NoTx]
        /\ req' = [req EXCEPT ![p] = NoRequest]
    BY <2>1 DEF Done, Forget, Goto
  <2> QED
    BY <1>1, <2>2, LeaveRecords
<1>3. CASE Refuse(p) \/ Abort(p) \/ Retry(p)
  <2>1. req' = [req EXCEPT ![p] = req[p]]
    BY <1>3 DEF Refuse, Abort, Retry, RollBack, RecordsInv, SafeInv, TypeInv,
       TypeOK
  <2>2. PICK next \in {"failed", "begin"} :
          /\ pc' = [pc EXCEPT ![p] = next] /\ tx' = [tx EXCEPT ![p] = NoTx]
          /\ next = "begin" => pc[p] \in InTx
    BY <1>3 DEF Refuse, Abort, Retry, RollBack, Forget, Goto
  <2> QED
    BY <1>1, <2>1, <2>2, LeaveRecords
<1> QED
  BY <1>2, <1>3
-----------------------------------------------------------------------------
(* A transaction starts out with nothing staged, and locks.                *)

LEMMA OpenRecords ==
  ASSUME RecordsInv, SafeInv', NEW p \in Clients, NEW t \in TxState, NEW ids,
         StartLocking(p, t, ids), pc[p] \in {"begin", "holdLock"},
         UNCHANGED <<db, req>>,
         t.transfers = {}, t.events = {}, t.audit = {},
         req[p].op = "transfer" => t.rest = req[p].batch
  PROVE  RecordsInv'
<1> DEFINE u == [t EXCEPT !.need = ids \cap accounts]
<1>1. /\ u.transfers = {} /\ u.events = {} /\ u.audit = {} /\ u.rest = t.rest
  BY DEF TxState
<1>2. tx' = [tx EXCEPT ![p] = u]
  BY DEF StartLocking
<1> HIDE DEF u
<1>3. /\ tx'[p] = u /\ pc'[p] \in {"lock", "work"} /\ req'[p] = req[p]
      /\ Others(p) /\ UNCHANGED <<transfers, holds, outbox, audit>>
  <2>1. pc \in [Clients -> Pc] /\ tx \in [Clients -> TxState]
    BY DEF RecordsInv, SafeInv, TypeInv, TypeOK
  <2> QED
    BY <1>2, <2>1 DEF StartLocking, Goto, Others, db
<1>4. Asked(p) /\ pc[p] \in InTx /\ pc'[p] \in InTx
  BY <1>3 DEF RecordsInv, ClientRecords, InTx
<1>5. Asked(p)'
  BY <1>3, <1>4 DEF Asked, Sane, Plain, UndoesOne, Undone
<1>6. StagedRecords(p)'
  <2>1. StagedAudit(p)'
    BY <1>1, <1>3 DEF StagedAudit
  <2>2. req[p].op = "transfer" => StagedBatch(p)' /\ StagedEvents(p)'
    <3>1. req[p].op = "transfer" => Sane(u.rest)
      BY <1>1, <1>4 DEF Asked
    <3> QED
      BY <1>1, <1>3, <3>1
      DEF StagedBatch, StagedEvents, Sane, Plain, UndoesOne, Undone
  <2>3. StagedNothing(p)'
    BY <1>1, <1>3 DEF StagedNothing
  <2> QED
    BY <1>3, <2>1, <2>2, <2>3 DEF StagedRecords
<1> QED
  BY <1>1, <1>3, <1>5, <1>6, SameAudit, SameRecords DEF ClientRecords

LEMMA BeginRecords ==
  ASSUME RecordsInv, SafeInv', NEW p \in Clients, Begin(p)
  PROVE  RecordsInv'
<1>1. /\ pc[p] = "begin" /\ pc[p] \in InTx /\ UNCHANGED <<db, req>>
      /\ req[p] \in Request /\ ClientTyped(p) /\ SafeInv
  BY DEF Begin, InTx, RecordsInv, SafeInv, TypeInv, TypeOK
<1>2. CASE req[p].op = "transfer"
  <2> DEFINE t == [NoTx EXCEPT !.rest = req[p].batch]
  <2>1. /\ t \in TxState /\ t.transfers = {} /\ t.events = {} /\ t.audit = {}
        /\ t.rest = req[p].batch
    <3>1. req[p].batch \in Seq(Input)
      BY <1>1, <1>2, RequestFields
    <3> QED
      BY <3>1, NoTxType, NoTxStages DEF TxState
  <2>2. StartLocking(p, t, BatchAccounts(req[p].batch))
    BY <1>2 DEF Begin
  <2> HIDE DEF t
  <2> QED
    BY <1>1, <2>1, <2>2, OpenRecords
<1>3. CASE req[p].op = "hold"
  <2>1. StartLocking(p, NoTx, {req[p].account})
    BY <1>3 DEF Begin
  <2> QED
    BY <1>1, <1>3, <2>1, NoTxType, NoTxStages, OpenRecords
<1>4. CASE req[p].op \in {"void", "capture"}
  <2>1. /\ pc'[p] = "holdLock" /\ tx' = tx /\ req' = req /\ Others(p)
        /\ UNCHANGED <<transfers, holds, outbox, audit>>
    <3>1. pc \in [Clients -> Pc]
      BY DEF RecordsInv, SafeInv, TypeInv, TypeOK
    <3> QED
      BY <1>1, <1>4, <3>1 DEF Begin, Goto, Others, db
  <2>2. Asked(p)'
    BY <1>1, <1>4, <2>1 DEF RecordsInv, ClientRecords, Asked
  <2>3. pc'[p] \notin Staging
    BY <2>1 DEF Staging
  <2> QED
    BY <2>1, <2>2, <2>3, SameAudit, IdleRecords
<1> QED
  BY <1>1, <1>2, <1>3, <1>4 DEF ClientTyped

LEMMA LockHoldRecords ==
  ASSUME RecordsInv, SafeInv', NEW p \in Clients, LockHold(p)
  PROVE  RecordsInv'
<1> DEFINE h == req[p].hold
           t == [NoTx EXCEPT !.hold = h, !.holdRow = holds[h]]
           ids == {holds[h].account} \cup
                  (IF req[p].op = "capture" THEN {req[p].to} ELSE {})
<1>1. /\ req[p].op \in {"void", "capture"} /\ h \in HoldIds
      /\ holds[h] \in Hold /\ pc[p] = "holdLock"
  BY RequestFields
     DEF LockHold, RecordsInv, SafeInv, TypeInv, TypeOK, ClientTyped
<1>2. t \in TxState /\ t.transfers = {} /\ t.events = {} /\ t.audit = {}
  BY <1>1, NoTxType, NoTxStages DEF TxState
<1>3. StartLocking(p, t, ids) /\ UNCHANGED <<db, req>>
  BY DEF LockHold
<1> HIDE DEF t, ids
<1> QED
  BY <1>1, <1>2, <1>3, OpenRecords

(* Steps of a transaction that stage no more transfers.                    *)
LEMMA LockAccountRecords ==
  ASSUME RecordsInv, SafeInv', NEW p \in Clients, NEW a \in AccountIds,
         LockAccount(p, a)
  PROVE  RecordsInv'
<1> DEFINE u == [tx[p] EXCEPT !.need = @ \ {a}, !.view[a] = row[a]]
<1>1. tx[p] \in TxState /\ pc \in [Clients -> Pc] /\ tx \in [Clients -> TxState]
  BY DEF RecordsInv, SafeInv, TypeInv, TypeOK
<1>2. /\ tx' = [tx EXCEPT ![p] = u] /\ pc[p] = "lock"
  BY <1>1 DEF LockAccount
<1>3. /\ u.transfers = tx[p].transfers /\ u.events = tx[p].events
      /\ u.audit = tx[p].audit /\ u.rest = tx[p].rest
  BY <1>1 DEF TxState
<1> HIDE DEF u
<1>4. /\ tx'[p] = u /\ pc'[p] \in {"lock", "work"} /\ req'[p] = req[p]
      /\ Others(p) /\ UNCHANGED <<transfers, holds, outbox, audit>>
  BY <1>1, <1>2 DEF LockAccount, Goto, Others, db
<1>5. Asked(p) /\ StagedRecords(p) /\ pc[p] \in InTx /\ pc[p] \in Staging
  BY <1>2 DEF RecordsInv, ClientRecords, Staging, InTx
<1>6. Asked(p)'
  BY <1>4, <1>5 DEF Asked, Sane, Plain, UndoesOne, Undone
<1>7. StagedRecords(p)'
  <2>1. StagedAudit(p)'
    BY <1>2, <1>3, <1>4, <1>5 DEF StagedRecords, StagedAudit
  <2>2. req[p].op = "transfer" => StagedBatch(p)' /\ StagedEvents(p)'
    <3>1. CASE req[p].op # "transfer"
      BY <3>1
    <3>2. CASE req[p].op = "transfer"
      <4>1. StagedBatch(p) /\ StagedEvents(p)
        BY <1>5, <3>2 DEF StagedRecords
      <4>2. /\ tx'[p].transfers = tx[p].transfers /\ tx'[p].rest = tx[p].rest
            /\ tx'[p].events = tx[p].events
            /\ transfers' = transfers
        BY <1>3, <1>4
      <4>3. /\ Plain(tx[p].rest)' <=> Plain(tx[p].rest)
            /\ UndoesOne(tx[p].rest)' <=> UndoesOne(tx[p].rest)
        BY <4>2 DEF Plain, UndoesOne, Undone
      <4>4. StagedBatch(p)'
        BY <1>2, <1>4, <4>1, <4>2, <4>3 DEF StagedBatch, Undone
      <4>5. StagedEvents(p)'
        BY <4>1, <4>2 DEF StagedEvents
      <4> QED
        BY <4>4, <4>5
    <3> QED
      BY <3>1, <3>2
  <2>3. req[p].op # "transfer" => StagedNothing(p)'
    BY <1>2, <1>3, <1>4, <1>5 DEF StagedRecords, StagedNothing
  <2> QED
    BY <1>4, <2>1, <2>2, <2>3 DEF StagedRecords
<1> QED
  BY <1>3, <1>4, <1>5, <1>6, <1>7, SameAudit, SameRecords DEF ClientRecords

LEMMA AuditInTxRecords ==
  ASSUME RecordsInv, SafeInv', NEW p \in Clients, AuditInTx(p)
  PROVE  RecordsInv'
<1> DEFINE rows == IF req[p].op = "hold"
                   THEN {[action |-> "hold.create", resource |-> tx[p].hold]}
                   ELSE {[action |-> IF t.reversed # None
                                     THEN "transfer.reverse"
                                     ELSE "transfer.create",
                          resource |-> t.id] : t \in tx[p].transfers}
           u == [tx[p] EXCEPT !.audit = rows]
<1>1. tx[p] \in TxState /\ pc \in [Clients -> Pc] /\ tx \in [Clients -> TxState]
  BY DEF RecordsInv, SafeInv, TypeInv, TypeOK
<1>2. /\ tx' = [tx EXCEPT ![p] = u] /\ pc[p] = "audit"
  BY <1>1 DEF AuditInTx
<1>3. /\ u.transfers = tx[p].transfers /\ u.events = tx[p].events
      /\ u.audit = rows /\ u.hold = tx[p].hold /\ u.holdRow = tx[p].holdRow
  BY <1>1 DEF TxState
<1> HIDE DEF u
<1>4. /\ tx'[p] = u /\ pc'[p] = "commit" /\ req'[p] = req[p]
      /\ Others(p) /\ UNCHANGED <<transfers, holds, outbox, audit>>
  BY <1>1, <1>2 DEF AuditInTx, Goto, Others, db
<1>5. Asked(p) /\ StagedRecords(p) /\ pc[p] \in InTx /\ pc[p] \in Staging
  BY <1>2 DEF RecordsInv, ClientRecords, Staging, InTx
<1>6. Asked(p)'
  BY <1>4, <1>5 DEF Asked, Sane, Plain, UndoesOne, Undone
<1>7. req[p].op \in {"transfer", "hold"}
  <2>1. req[p].op \in {"transfer", "hold", "void", "capture"}
    BY <1>5 DEF RecordsInv, SafeInv, TypeInv, ClientTyped
  <2> QED
    BY <1>2, <1>5, <2>1 DEF StagedRecords
<1>8. StagedRecords(p)'
  <2>1. StagedAudit(p)'
    BY <1>3, <1>4, <1>7 DEF StagedAudit
  <2> HIDE DEF rows
  <2>2. req[p].op = "transfer" => StagedBatch(p)' /\ StagedEvents(p)'
    BY <1>2, <1>3, <1>4, <1>5 DEF StagedRecords, StagedBatch, StagedEvents, Undone
  <2>3. req[p].op = "hold" => StagedHold(p)'
    BY <1>2, <1>3, <1>4, <1>5 DEF StagedRecords, StagedHold, StagedStep
  <2> QED
    BY <1>4, <1>7, <2>1, <2>2, <2>3 DEF StagedRecords
<1> QED
  BY <1>3, <1>4, <1>5, <1>6, <1>8, SameAudit, SameRecords DEF ClientRecords
-----------------------------------------------------------------------------
(* The work.                                                               *)

(* What is left of a sane batch after an item.                             *)
LEMMA TailPlain ==
  ASSUME NEW b \in Seq(Input), b # <<>>, Plain(b)
  PROVE  Plain(Tail(b)) /\ Head(b).reversed = None
<1>1. /\ Tail(b) \in Seq(Input) /\ Len(Tail(b)) = Len(b) - 1
      /\ \A i \in 1..Len(Tail(b)) : Tail(b)[i] = b[i+1]
      /\ Head(b) = b[1] /\ Len(b) \in Nat \ {0}
  BY HeadTailProperties, EmptySeq
<1> QED
  BY <1>1 DEF Plain

LEMMA ProcessTransferRecords ==
  ASSUME RecordsInv, SafeInv', NEW p \in Clients, NEW id \in TransferIds,
         ProcessTransfer(p, id)
  PROVE  RecordsInv'
<1> DEFINE own == tx[p]
           i == Head(tx[p].rest)
           t == [id |-> id, from |-> i.from, to |-> i.to,
                 amount |-> i.amount, reversed |-> i.reversed, hold |-> None]
           type == IF i.reversed = None THEN "transfer.created"
                                        ELSE "transfer.reversed"
           event == [type |-> type, aggregate |-> id, transfer |-> id]
           u == [own EXCEPT
                   !.view = Posted(own.view, t), !.rest = Tail(own.rest),
                   !.transfers = own.transfers \cup {t},
                   !.entries = own.entries \cup EntriesOf(own.view, t),
                   !.events = own.events \cup {event}]
           next == IF Len(tx[p].rest) = 1 THEN "audit" ELSE "work"
<1>1. /\ pc[p] = "work" /\ req[p].op = "transfer"
      /\ UNCHANGED <<transfers, holds, outbox, audit, req>>
      /\ AllFound(p) /\ CanTransfer(p, i) /\ FreshTransfer(id)
  BY DEF ProcessTransfer, db
<1>2. /\ tx[p] \in TxState /\ pc \in [Clients -> Pc] /\ tx \in [Clients -> TxState]
      /\ tx[p].transfers \subseteq Transfer /\ transfers \subseteq Transfer
  BY DEF RecordsInv, SafeInv, TypeInv, TypeOK, TxState
<1>3. tx' = [tx EXCEPT ![p] = u] /\ pc' = [pc EXCEPT ![p] = next]
  BY DEF ProcessTransfer, Goto
<1>4. /\ u.rest = Tail(tx[p].rest) /\ u.transfers = tx[p].transfers \cup {t}
      /\ u.events = tx[p].events \cup {event} /\ u.audit = tx[p].audit
  BY <1>2 DEF TxState
<1>5. Asked(p) /\ StagedRecords(p) /\ pc[p] \in InTx /\ pc[p] \in Staging
  BY <1>1 DEF RecordsInv, ClientRecords, Staging, InTx
<1>6. /\ tx[p].rest \in Seq(ValidInput) /\ tx[p].rest \in Seq(Input)
      /\ tx[p].rest # <<>> /\ i \in ValidInput
  <2>1. OwnRows(p) /\ TypeInv
    BY <1>5, ViewOf DEF RecordsInv, SafeInv
  <2>2. tx[p].rest # <<>>
    BY <1>1, <2>1 DEF TypeInv, ClientTyped
  <2> QED
    BY <1>1, <1>2, <2>1, <2>2, ItemLocked DEF TxState
<1>7. next \in {"audit", "work"} /\ (next = "audit" <=> Len(tx[p].rest) = 1)
  OBVIOUS
<1>8. /\ t.id = id /\ t.from = i.from /\ t.to = i.to /\ t.amount = i.amount
      /\ t.reversed = i.reversed /\ t.hold = None
      /\ event.aggregate = id /\ event.transfer = id
  OBVIOUS
<1> HIDE DEF u, next, t, event
<1>9. /\ tx'[p] = u /\ pc'[p] = next /\ Others(p) /\ req'[p] = req[p]
  BY <1>1, <1>2, <1>3 DEF Others
<1>10. Asked(p)'
  BY <1>1, <1>5, <1>7, <1>9 DEF Asked, Sane, Plain, UndoesOne, Undone
<1>11. \/ /\ Plain(tx[p].rest) /\ Plain(u.rest) /\ i.reversed = None
          /\ \A s \in tx[p].transfers : s.reversed = None
       \/ /\ next = "audit" /\ tx[p].transfers = {}
          /\ \E s \in transfers : Undone(i, s)
  <2>1. \/ Plain(tx[p].rest) /\ \A s \in tx[p].transfers : s.reversed = None
        \/ UndoesOne(tx[p].rest) /\ tx[p].transfers = {}
    BY <1>1, <1>5 DEF StagedRecords, StagedBatch
  <2>2. i = tx[p].rest[1]
    BY <1>6
  <2> QED
    BY <1>4, <1>6, <1>7, <2>1, <2>2, TailPlain DEF UndoesOne
<1>12. StagedBatch(p)'
  <2>1. /\ t.from # t.to /\ Currency[t.from] = Currency[t.to]
        /\ t.reversed # None => \A s \in transfers : s.reversed # t.reversed
    BY <1>1, <1>6, <1>8 DEF CanTransfer, ValidInput
  <2>2. \A s \in tx[p].transfers :
          s.hold = None /\ s.from # s.to /\ Currency[s.from] = Currency[s.to]
    BY <1>1, <1>5 DEF StagedRecords, StagedBatch
  <2>3. (\E s \in transfers : Undone(i, s)) => \E s \in transfers : Undone(t, s)
    BY <1>8 DEF Undone
  <2>4. next = "work" => /\ Plain(u.rest)
                         /\ \A s \in u.transfers : s.reversed = None
    BY <1>4, <1>7, <1>8, <1>11
  <2>5. \A s \in u.transfers :
          /\ s.hold = None /\ s.from # s.to /\ Currency[s.from] = Currency[s.to]
          /\ s.reversed # None =>
               /\ u.transfers = {s}
               /\ \E o \in transfers : Undone(s, o)
               /\ \A o \in transfers : o.reversed # s.reversed
    BY <1>4, <1>8, <1>11, <2>1, <2>2, <2>3
  <2>6. u.transfers # {}
    BY <1>4
  <2> QED
    BY <1>1, <1>7, <1>9, <2>4, <2>5, <2>6, SMTT(30) DEF StagedBatch, Plain, Undone
<1>13. StagedEvents(p)'
  <2>1. StagedEvents(p)
    BY <1>1, <1>5 DEF StagedRecords
  <2>2. \A e \in tx[p].events : e.transfer # id
    BY <1>1, <2>1 DEF StagedEvents, FreshTransfer
  <2> QED
    BY <1>4, <1>8, <1>9, <2>1, <2>2 DEF StagedEvents
<1>14. StagedAudit(p)'
  BY <1>1, <1>4, <1>5, <1>7, <1>9 DEF StagedRecords, StagedAudit
<1>15. ClientRecords(p)'
  BY <1>1, <1>9, <1>10, <1>12, <1>13, <1>14 DEF ClientRecords, StagedRecords
<1>16. NewIds(p)'
  <2>1. NewIds(p)
    BY DEF RecordsInv
  <2> QED
    BY <1>1, <1>4, <1>5, <1>8, <1>9, <2>1 DEF NewIds, FreshTransfer
<1>17. ASSUME NEW q \in Clients \ {p} PROVE IdsApart(p, q)'
  <2>1. IdsApart(p, q) /\ pc'[q] = pc[q] /\ tx'[q] = tx[q]
    BY <1>9 DEF RecordsInv, Others
  <2> QED
    BY <1>1, <1>4, <1>5, <1>8, <1>9, <2>1 DEF IdsApart, FreshTransfer
<1> QED
  BY <1>1, <1>9, <1>15, <1>16, <1>17, SameAudit, QuietRecords

LEMMA PlaceHoldRecords ==
  ASSUME RecordsInv, SafeInv', NEW p \in Clients, NEW h \in HoldIds,
         PlaceHold(p, h)
  PROVE  RecordsInv'
<1> DEFINE own == tx[p]
           b == req[p].account
           m == req[p].amount
           r == [account |-> b, amount |-> m, status |-> "active"]
           event == [type |-> "hold.created", aggregate |-> h, transfer |-> None]
           u == [own EXCEPT
                   !.view = Encumber(own.view, b, own.view[b].encumbered + m),
                   !.hold = h, !.holdRow = r, !.events = {event}]
<1>1. /\ pc[p] = "work" /\ req[p].op = "hold"
      /\ UNCHANGED <<transfers, holds, outbox, audit, req>>
  BY DEF PlaceHold, db
<1>2. /\ tx[p] \in TxState /\ pc \in [Clients -> Pc] /\ tx \in [Clients -> TxState]
      /\ req[p] \in Request /\ ClientTyped(p)
  BY DEF RecordsInv, SafeInv, TypeInv, TypeOK
<1>3. tx' = [tx EXCEPT ![p] = u] /\ pc' = [pc EXCEPT ![p] = "audit"]
  BY DEF PlaceHold, Goto
<1>4. /\ u.transfers = tx[p].transfers /\ u.events = {event}
      /\ u.audit = tx[p].audit /\ u.hold = h /\ u.holdRow = r
  BY <1>2 DEF TxState
<1>5. /\ r.account = b /\ r.amount = m /\ r.status = "active"
      /\ event.type = "hold.created" /\ event.aggregate = h
      /\ event.transfer = None
  OBVIOUS
<1> HIDE DEF u, r, event
<1>6. m \in Amount
  BY <1>1, <1>2, RequestFields, TypesAssumption DEF ClientTyped, InTx, Amount
<1>7. /\ tx'[p] = u /\ pc'[p] = "audit" /\ Others(p) /\ req'[p] = req[p]
  BY <1>1, <1>2, <1>3 DEF Others
<1>8. Asked(p) /\ StagedRecords(p) /\ pc[p] \in InTx /\ pc[p] \in Staging
  BY <1>1 DEF RecordsInv, ClientRecords, Staging, InTx
<1>9. Asked(p)'
  BY <1>1, <1>7 DEF Asked
<1>10. tx[p].transfers = {}
  BY <1>1, <1>8 DEF StagedRecords, StagedNothing
<1>11. StagedHold(p)' /\ StagedAudit(p)'
  BY <1>1, <1>4, <1>5, <1>6, <1>7, <1>8, <1>10
  DEF StagedHold, StagedStep, StagedRecords, StagedAudit
<1>12. ClientRecords(p)'
  BY <1>1, <1>7, <1>9, <1>11 DEF ClientRecords, StagedRecords
<1> QED
  BY <1>1, <1>4, <1>7, <1>10, <1>12, SameAudit, SameRecords

LEMMA ReleaseHoldRecords ==
  ASSUME RecordsInv, SafeInv', NEW p \in Clients, ReleaseHold(p)
  PROVE  RecordsInv'
<1> DEFINE own == tx[p]
           h == own.holdRow
           left == NonNegative(own.view[h.account].encumbered - h.amount)
           event == [type |-> "hold.voided", aggregate |-> req[p].hold,
                     transfer |-> None]
           r == [h EXCEPT !.status = "voided"]
           u == [own EXCEPT !.view = Encumber(own.view, h.account, left),
                            !.holdRow = r, !.events = {event}]
<1>1. /\ pc[p] = "work" /\ req[p].op = "void"
      /\ UNCHANGED <<transfers, holds, outbox, audit, req>>
  BY DEF ReleaseHold, db
<1>2. /\ tx[p] \in TxState /\ pc \in [Clients -> Pc] /\ tx \in [Clients -> TxState]
  BY DEF RecordsInv, SafeInv, TypeInv, TypeOK
<1>3. tx' = [tx EXCEPT ![p] = u] /\ pc' = [pc EXCEPT ![p] = "commit"]
  BY DEF ReleaseHold, Goto
<1>4. /\ own.hold = req[p].hold /\ h = holds[req[p].hold] /\ own.transfers = {}
  BY <1>1, HeldInView DEF RecordsInv
<1>5. /\ u.transfers = {} /\ u.events = {event}
      /\ u.audit = tx[p].audit /\ u.hold = req[p].hold /\ u.holdRow = r
  BY <1>2, <1>4 DEF TxState
<1>6. /\ r = [holds[req[p].hold] EXCEPT !.status = "voided"]
      /\ event.type = "hold.voided" /\ event.aggregate = req[p].hold
      /\ event.transfer = None
  BY <1>4
<1> HIDE DEF u, r, event
<1>7. /\ tx'[p] = u /\ pc'[p] = "commit" /\ Others(p) /\ req'[p] = req[p]
  BY <1>1, <1>2, <1>3 DEF Others
<1>8. StagedRecords(p)
  BY <1>1 DEF RecordsInv, ClientRecords, Staging
<1>9. Asked(p)'
  BY <1>1, <1>7 DEF Asked
<1>10. StagedVoid(p)'
  BY <1>1, <1>5, <1>6, <1>7 DEF StagedVoid, StagedStep
<1>11. StagedAudit(p)'
  BY <1>1, <1>5, <1>7, <1>8 DEF StagedRecords, StagedAudit
<1>12. ClientRecords(p)'
  BY <1>1, <1>7, <1>9, <1>10, <1>11 DEF ClientRecords, StagedRecords
<1> QED
  BY <1>1, <1>5, <1>7, <1>12, SameAudit, SameRecords

LEMMA SettleHoldRecords ==
  ASSUME RecordsInv, SafeInv', NEW p \in Clients, NEW id \in TransferIds,
         SettleHold(p, id)
  PROVE  RecordsInv'
<1> DEFINE own == tx[p]
           h == own.holdRow
           t == [id |-> id, from |-> h.account, to |-> req[p].to,
                 amount |-> h.amount, reversed |-> None, hold |-> req[p].hold]
           event == [type |-> "hold.captured", aggregate |-> req[p].hold,
                     transfer |-> id]
           r == [h EXCEPT !.status = "captured"]
           u == [own EXCEPT !.view = Captured(own.view, t), !.transfers = {t},
                            !.entries = EntriesOf(own.view, t),
                            !.holdRow = r, !.events = {event}]
<1>1. /\ pc[p] = "work" /\ req[p].op = "capture" /\ CanCapture(p)
      /\ FreshTransfer(id)
      /\ UNCHANGED <<transfers, holds, outbox, audit, req>>
  BY DEF SettleHold, db
<1>2. /\ tx[p] \in TxState /\ pc \in [Clients -> Pc] /\ tx \in [Clients -> TxState]
      /\ req[p] \in Request
  BY DEF RecordsInv, SafeInv, TypeInv, TypeOK
<1>3. tx' = [tx EXCEPT ![p] = u] /\ pc' = [pc EXCEPT ![p] = "commit"]
  BY DEF SettleHold, Goto
<1>4. /\ own.hold = req[p].hold /\ h = holds[req[p].hold] /\ own.transfers = {}
      /\ req[p].hold \in HoldIds /\ h.account \in Locked(p) /\ h.amount \in Amount
  BY <1>1, HeldInView DEF RecordsInv
<1>5. /\ u.transfers = {t} /\ u.events = {event}
      /\ u.audit = tx[p].audit /\ u.hold = req[p].hold /\ u.holdRow = r
  BY <1>2, <1>4 DEF TxState
<1>6. /\ r = [holds[req[p].hold] EXCEPT !.status = "captured"]
      /\ event.type = "hold.captured" /\ event.aggregate = req[p].hold
      /\ event.transfer = id /\ t.id = id
      /\ t.from = h.account /\ t.to = req[p].to /\ t.amount = h.amount
      /\ t.reversed = None /\ t.hold = req[p].hold
  BY <1>4
<1>7. t \in Transfer
  <2>1. req[p].to \in AccountIds
    BY <1>1, <1>2, RequestFields
  <2> QED
    BY <1>4, <2>1 DEF Transfer, Locked
<1> HIDE DEF u, r, event, t
<1>8. /\ tx'[p] = u /\ pc'[p] = "commit" /\ Others(p) /\ req'[p] = req[p]
  BY <1>1, <1>2, <1>3 DEF Others
<1>9. StagedRecords(p)
  BY <1>1 DEF RecordsInv, ClientRecords, Staging
<1>10. Asked(p)'
  BY <1>1, <1>8 DEF Asked
<1>11. StagedCapture(p)'
  <2>1. t.from # t.to /\ Currency[t.from] = Currency[t.to]
    BY <1>1, <1>6 DEF CanCapture
  <2>2. PICK c \in Transfer :
          /\ u.transfers = {c} /\ c.id = id
          /\ c.from = holds[req[p].hold].account /\ c.to = req[p].to
          /\ c.amount = holds[req[p].hold].amount
          /\ c.reversed = None /\ c.hold = req[p].hold
          /\ c.from # c.to /\ Currency[c.from] = Currency[c.to]
    BY <1>4, <1>5, <1>6, <1>7, <2>1
  <2>3. Capture(p, c)'
    BY <1>1, <1>4, <1>5, <1>8, <2>2 DEF Capture
  <2>4. StagedStep(p, "hold.captured", c.id)'
    BY <1>1, <1>5, <1>6, <1>8, <2>2 DEF StagedStep
  <2>5. tx'[p].holdRow = [holds'[tx'[p].hold] EXCEPT !.status = "captured"]
    BY <1>1, <1>5, <1>6, <1>8
  <2> QED
    BY <1>5, <1>8, <2>2, <2>3, <2>4, <2>5 DEF StagedCapture
<1>12. StagedAudit(p)'
  BY <1>1, <1>5, <1>8, <1>9 DEF StagedRecords, StagedAudit
<1>13. ClientRecords(p)'
  BY <1>1, <1>8, <1>10, <1>11, <1>12 DEF ClientRecords, StagedRecords
<1>14. NewIds(p)'
  BY <1>1, <1>5, <1>6, <1>8 DEF NewIds, FreshTransfer
<1>15. ASSUME NEW q \in Clients \ {p} PROVE IdsApart(p, q)'
  <2>1. pc'[q] = pc[q] /\ tx'[q] = tx[q]
    BY <1>8 DEF Others
  <2> QED
    BY <1>1, <1>5, <1>6, <1>8, <2>1 DEF IdsApart, FreshTransfer
<1> QED
  BY <1>1, <1>8, <1>13, <1>14, <1>15, SameAudit, QuietRecords
-----------------------------------------------------------------------------
(* The commit.                                                             *)

(* Both transactions that would undo a transfer have locked its accounts.  *)
LEMMA ReversalsApart ==
  ASSUME RecordsInv, NEW p \in Clients, NEW q \in Clients, p # q,
         pc[p] \in Staging, pc[q] \in Staging,
         NEW t \in tx[p].transfers, NEW s \in tx[q].transfers,
         t.reversed # None
  PROVE  t.reversed # s.reversed
<1> SUFFICES ASSUME t.reversed = s.reversed PROVE FALSE
  OBVIOUS
<1>1. ASSUME NEW r \in Clients, pc[r] \in Staging, NEW u \in tx[r].transfers,
             u.reversed # None
      PROVE  \E o \in transfers : Undone(u, o)
  <2>1. /\ StagedRecords(r) /\ ClientTyped(r) /\ pc[r] \in InTx
        /\ tx[r].transfers # {}
    BY <1>1 DEF RecordsInv, ClientRecords, SafeInv, TypeInv, Staging, InTx
  <2>2. req[r].op \in {"transfer", "hold", "void", "capture"}
    BY <2>1 DEF ClientTyped
  <2>3. req[r].op \notin {"hold", "void", "capture"}
    BY <1>1, <2>1
    DEF StagedRecords, StagedNothing, StagedHold, StagedVoid, StagedCapture, Capture,
        Staging
  <2> QED
    BY <1>1, <2>1, <2>2, <2>3 DEF StagedRecords, StagedBatch
<1>2. PICK o \in transfers : Undone(t, o)
  BY <1>1
<1>3. PICK n \in transfers : Undone(s, n)
  BY <1>1
<1>4. o = n
  BY <1>2, <1>3 DEF RecordsInv, Committed, UniqueIds, Undone
<1>5. t.from = s.from
  BY <1>2, <1>3, <1>4 DEF Undone
<1>6. t.from \in Locked(p) /\ s.from \in Locked(q)
  BY ViewOf DEF RecordsInv, OwnRows
<1> QED
  BY <1>5, <1>6 DEF Locked

(* What a transaction that is about to commit has done.                    *)
LEMMA AtCommit ==
  ASSUME RecordsInv, NEW p \in Clients, pc[p] = "commit"
  PROVE  /\ req[p].op \in {"transfer", "hold", "void", "capture"}
         /\ req[p].op = "transfer" =>
              StagedBatch(p) /\ StagedEvents(p) /\ tx[p].hold = None
         /\ req[p].op # "transfer" => tx[p].hold \in HoldIds
         /\ req[p].op = "hold" =>
              StagedHold(p) /\ holds[tx[p].hold].status = "none"
         /\ req[p].op \in {"void", "capture"} =>
              tx[p].hold = req[p].hold /\ holds[tx[p].hold].status = "active"
         /\ req[p].op = "void" => StagedVoid(p)
         /\ req[p].op = "capture" => StagedCapture(p)
         /\ StagedAudit(p)
<1>1. /\ pc[p] \in Staging /\ pc[p] \in InTx /\ StagedRecords(p)
      /\ OwnHold(p) /\ ClientTyped(p) /\ req[p] \in Request
  BY ViewOf
    DEF Staging, InTx, RecordsInv, ClientRecords, SafeInv, TypeInv, TypeOK
<1>2. req[p].op \in {"transfer", "hold", "void", "capture"}
  BY <1>1 DEF ClientTyped
<1>3. /\ req[p].op = "transfer" => tx[p].hold = None
      /\ req[p].op = "hold" =>
           tx[p].hold \in HoldIds /\ holds[tx[p].hold].status = "none"
      /\ req[p].op \in {"void", "capture"} =>
           /\ tx[p].hold = req[p].hold /\ tx[p].hold \in HoldIds
           /\ holds[tx[p].hold].status = "active"
  BY <1>1, RequestFields DEF OwnHold
<1> QED
  BY <1>1, <1>2, <1>3 DEF StagedRecords

(* What a commit does to the tables.                                       *)
LEMMA Applied ==
  ASSUME RecordsInv, NEW p \in Clients, Apply(p)
  PROVE  /\ transfers' = transfers \cup tx[p].transfers
         /\ outbox' = outbox \cup tx[p].events
         /\ audit' = audit \cup tx[p].audit
         /\ \A h \in HoldIds : holds'[h] =
              IF h = tx[p].hold THEN tx[p].holdRow ELSE holds[h]
         /\ tx[p].hold = None => holds' = holds
<1>1. holds \in [HoldIds -> Hold]
  BY DEF RecordsInv, SafeInv, TypeInv, TypeOK
<1> QED
  BY <1>1, WithNoHold DEF Apply, WithHold

(* How the commit moves the status of its hold.                            *)
LEMMA StatusMoves ==
  ASSUME RecordsInv, NEW p \in Clients, pc[p] = "commit", Apply(p),
         tx[p].hold # None
  PROVE  /\ tx[p].hold \in HoldIds
         /\ holds[tx[p].hold].status \notin {"voided", "captured"}
         /\ req[p].op = "hold" => /\ holds[tx[p].hold].status = "none"
                                  /\ holds'[tx[p].hold].status = "active"
         /\ req[p].op = "void" => /\ holds[tx[p].hold].status = "active"
                                  /\ holds'[tx[p].hold].status = "voided"
         /\ req[p].op = "capture" =>
              /\ holds[tx[p].hold].status = "active"
              /\ holds'[tx[p].hold].status = "captured"
         /\ req[p].op \in {"void", "capture"} =>
              /\ holds'[tx[p].hold].account = holds[tx[p].hold].account
              /\ holds'[tx[p].hold].amount = holds[tx[p].hold].amount
         /\ req[p].op \in {"hold", "void", "capture"}
<1>1. /\ tx[p].hold \in HoldIds /\ req[p].op \in {"hold", "void", "capture"}
      /\ holds'[tx[p].hold] = tx[p].holdRow
  BY AtCommit, Applied
<1>2. holds[tx[p].hold] \in Hold
  BY <1>1 DEF RecordsInv, SafeInv, TypeInv, TypeOK
<1>3. \A s \in {"voided", "captured"} :
        LET r == [holds[tx[p].hold] EXCEPT !.status = s]
        IN  /\ r.status = s /\ r.account = holds[tx[p].hold].account
            /\ r.amount = holds[tx[p].hold].amount
  BY <1>2 DEF Hold
<1>4. /\ req[p].op = "hold" => /\ holds[tx[p].hold].status = "none"
                               /\ tx[p].holdRow.status = "active"
      /\ req[p].op = "void" =>
           /\ holds[tx[p].hold].status = "active"
           /\ tx[p].holdRow = [holds[tx[p].hold] EXCEPT !.status = "voided"]
      /\ req[p].op = "capture" =>
           /\ holds[tx[p].hold].status = "active"
           /\ tx[p].holdRow = [holds[tx[p].hold] EXCEPT !.status = "captured"]
  BY AtCommit DEF StagedHold, StagedVoid, StagedCapture
<1>5. req[p].op \in {"void", "capture"} =>
        /\ tx[p].holdRow.account = holds[tx[p].hold].account
        /\ tx[p].holdRow.amount = holds[tx[p].hold].amount
        /\ tx[p].holdRow.status =
             IF req[p].op = "void" THEN "voided" ELSE "captured"
  <2>1. CASE req[p].op = "void"
    BY <1>3, <1>4, <2>1
  <2>2. CASE req[p].op = "capture"
    BY <1>3, <1>4, <2>2
  <2> QED
    BY <2>1, <2>2
<1>6. /\ req[p].op = "hold" => holds'[tx[p].hold].status = "active"
      /\ req[p].op = "void" => holds'[tx[p].hold].status = "voided"
      /\ req[p].op = "capture" => holds'[tx[p].hold].status = "captured"
      /\ req[p].op \in {"void", "capture"} =>
           /\ holds'[tx[p].hold].account = holds[tx[p].hold].account
           /\ holds'[tx[p].hold].amount = holds[tx[p].hold].amount
  BY <1>1, <1>4, <1>5
<1> QED
  BY <1>1, <1>4, <1>6

(* Which transfers a commit adds.                                          *)
LEMMA AddedTransfers ==
  ASSUME RecordsInv, NEW p \in Clients, pc[p] = "commit"
  PROVE  /\ req[p].op \in {"hold", "void"} => tx[p].transfers = {}
         /\ req[p].op = "transfer" =>
              tx[p].transfers # {} /\ \A t \in tx[p].transfers : t.hold = None
         /\ req[p].op = "capture" =>
              \E t \in Transfer : tx[p].transfers = {t} /\ Capture(p, t)
         /\ \A t \in tx[p].transfers :
              /\ t.hold # None => req[p].op = "capture" /\ t.hold = tx[p].hold
              /\ t.reversed # None =>
                   /\ tx[p].transfers = {t}
                   /\ \E s \in transfers : Undone(t, s)
                   /\ \A s \in transfers : s.reversed # t.reversed
<1>1. req[p].op = "capture" =>
        \E t \in Transfer : tx[p].transfers = {t} /\ Capture(p, t)
  BY AtCommit DEF StagedCapture
<1>2. req[p].op = "transfer" => StagedBatch(p)
  BY AtCommit
<1>3. req[p].op \in {"hold", "void"} => tx[p].transfers = {}
  BY AtCommit DEF StagedHold, StagedVoid
<1> QED
  BY <1>1, <1>2, <1>3, AtCommit DEF StagedBatch, Capture

LEMMA CommitIds ==
  ASSUME RecordsInv, NEW p \in Clients, pc[p] = "commit", Apply(p)
  PROVE  UniqueIds' /\ ReversedOnce'
<1>1. transfers' = transfers \cup tx[p].transfers
  BY Applied
<1>2. UniqueIds /\ ReversedOnce /\ NewIds(p) /\ pc[p] \in Staging
  BY DEF RecordsInv, Committed, Staging
<1>3. UniqueIds'
  BY <1>1, <1>2 DEF UniqueIds, NewIds
<1>4. ReversedOnce'
  <2>1. ASSUME NEW t \in transfers', t.reversed # None,
               NEW s \in transfers', s.reversed = t.reversed
        PROVE  s = t
    BY <1>1, <1>2, <2>1, AddedTransfers DEF ReversedOnce
  <2>2. ASSUME NEW t \in transfers', t.reversed # None
        PROVE  \E s \in transfers' :
                 /\ s.id = t.reversed /\ s.from = t.to /\ s.to = t.from
                 /\ s.amount = t.amount
    BY <1>1, <1>2, <2>2, AddedTransfers DEF ReversedOnce, Undone
  <2> QED
    BY <2>1, <2>2 DEF ReversedOnce
<1> QED
  BY <1>3, <1>4

LEMMA CommitCaptures ==
  ASSUME RecordsInv, NEW p \in Clients, pc[p] = "commit", Apply(p)
  PROVE  Captures'
<1>1. /\ transfers' = transfers \cup tx[p].transfers /\ Captures
      /\ \A h \in HoldIds : h # tx[p].hold => holds'[h] = holds[h]
      /\ tx[p].hold = None => holds' = holds
      /\ transfers \subseteq Transfer /\ tx[p].transfers \subseteq Transfer
      /\ req[p].op \in {"transfer", "hold", "void", "capture"}
      /\ req[p].op # "transfer" => tx[p].hold \in HoldIds
      /\ req[p].op = "transfer" => tx[p].hold = None
  BY Applied, AtCommit, Typed DEF RecordsInv, Committed
<1>2. \A t \in transfers' : t.hold \in HoldIds \cup {None}
  BY <1>1 DEF Transfer
<1>3. CASE req[p].op = "transfer"
  BY <1>1, <1>2, <1>3, AddedTransfers, TypesAssumption DEF Captures
<1>4. CASE req[p].op \in {"hold", "void"}
  <2>1. /\ tx[p].hold \in HoldIds /\ tx[p].hold # None
        /\ holds[tx[p].hold].status # "captured"
        /\ holds'[tx[p].hold].status # "captured"
        /\ transfers' = transfers
    BY <1>1, <1>4, AddedTransfers, StatusMoves, TypesAssumption
  <2>2. \A t \in transfers : t.hold # tx[p].hold
    BY <1>1, <2>1 DEF Captures
  <2> QED
    BY <1>1, <1>2, <2>1, <2>2 DEF Captures
<1>5. CASE req[p].op = "capture"
  <2>1. /\ tx[p].hold \in HoldIds /\ tx[p].hold # None
        /\ holds[tx[p].hold].status # "captured"
        /\ holds'[tx[p].hold].status = "captured"
        /\ holds'[tx[p].hold].account = holds[tx[p].hold].account
        /\ holds'[tx[p].hold].amount = holds[tx[p].hold].amount
    BY <1>1, <1>5, StatusMoves, TypesAssumption
  <2>2. PICK t \in Transfer : tx[p].transfers = {t} /\ Capture(p, t)
    BY <1>5, AddedTransfers
  <2>3. \A s \in transfers : s.hold # tx[p].hold
    BY <1>1, <2>1 DEF Captures
  <2>4. t.hold = tx[p].hold /\ t.from = holds[tx[p].hold].account
        /\ t.amount = holds[tx[p].hold].amount /\ transfers' = transfers \cup {t}
    BY <1>1, <2>2 DEF Capture
  <2>5. \A h \in HoldIds :
          holds'[h].status = "captured" <=> \E s \in transfers' : s.hold = h
    BY <1>1, <2>1, <2>3, <2>4 DEF Captures
  <2>6. \A s \in transfers' : s.hold # None =>
          s.from = holds'[s.hold].account /\ s.amount = holds'[s.hold].amount
    BY <1>1, <1>2, <2>1, <2>3, <2>4 DEF Captures
  <2>7. \A s, u \in transfers' : s.hold = u.hold /\ u.hold # None => s = u
    BY <1>1, <2>1, <2>3, <2>4 DEF Captures
  <2> QED
    BY <2>5, <2>6, <2>7 DEF Captures
<1> QED
  BY <1>1, <1>3, <1>4, <1>5
(* The events of one commit.                                               *)
LEMMA AddedEvents ==
  ASSUME RecordsInv, NEW p \in Clients, pc[p] = "commit"
  PROVE  /\ \A t \in tx[p].transfers : \E e \in tx[p].events : e.transfer = t.id
         /\ \A e \in tx[p].events : e.transfer # None =>
              \E t \in tx[p].transfers : t.id = e.transfer
         /\ \A e, f \in tx[p].events :
              e.transfer = f.transfer /\ f.transfer # None => e = f
         /\ req[p].op = "transfer" =>
              \A e \in tx[p].events : e.aggregate \in TransferIds
         /\ req[p].op # "transfer" => tx[p].events # {}
         /\ req[p].op = "hold" => StagedStep(p, "hold.created", None)
         /\ req[p].op = "void" => StagedStep(p, "hold.voided", None)
         /\ req[p].op = "capture" =>
              \A e \in tx[p].events :
                e.type = "hold.captured" /\ e.aggregate = tx[p].hold
<1>1. /\ tx[p].events \subseteq Event /\ tx[p].transfers \subseteq Transfer
      /\ req[p].op \in {"transfer", "hold", "void", "capture"}
  BY Typed, AtCommit DEF RecordsInv
<1>2. CASE req[p].op = "transfer"
  <2>1. StagedEvents(p)
    BY <1>2, AtCommit
  <2>2. \A t \in tx[p].transfers : t.id \in TransferIds
    BY <1>1 DEF Transfer
  <2> QED
    BY <1>2, <2>1, <2>2 DEF StagedEvents
<1>3. CASE req[p].op \in {"hold", "void"}
  <2>1. /\ req[p].op = "hold" => StagedStep(p, "hold.created", None)
        /\ req[p].op = "void" => StagedStep(p, "hold.voided", None)
        /\ tx[p].transfers = {} /\ tx[p].events # {}
    BY <1>3, AtCommit DEF StagedHold, StagedVoid
  <2>2. \A e \in tx[p].events : e.transfer = None
    BY <1>3, <2>1 DEF StagedStep
  <2> QED
    BY <1>3, <2>1, <2>2
<1>4. CASE req[p].op = "capture"
  <2>1. PICK t \in Transfer :
          tx[p].transfers = {t} /\ StagedStep(p, "hold.captured", t.id)
    BY <1>4, AtCommit DEF StagedCapture
  <2>2. tx[p].events # {}
    BY <1>4, AtCommit DEF StagedCapture
  <2>3. \A e, f \in Event : e.type = f.type /\ e.aggregate = f.aggregate
          /\ e.transfer = f.transfer => e = f
    BY DEF Event
  <2> QED
    BY <1>1, <1>4, <2>1, <2>2, <2>3 DEF StagedStep
<1> QED
  BY <1>1, <1>2, <1>3, <1>4

LEMMA CommitTransfersTold ==
  ASSUME RecordsInv, NEW p \in Clients, pc[p] = "commit", Apply(p)
  PROVE  TransfersTold'
<1>1. /\ transfers' = transfers \cup tx[p].transfers
      /\ outbox' = outbox \cup tx[p].events
  BY Applied
<1>2. TransfersTold /\ \A t \in tx[p].transfers : \A s \in transfers : s.id # t.id
  BY DEF RecordsInv, Committed, NewIds, Staging
<1>3. /\ \A t \in tx[p].transfers : \E e \in tx[p].events : e.transfer = t.id
      /\ \A e \in tx[p].events : e.transfer # None =>
           \E t \in tx[p].transfers : t.id = e.transfer
      /\ \A e, f \in tx[p].events :
           e.transfer = f.transfer /\ f.transfer # None => e = f
  BY AddedEvents
<1>4. \A e \in outbox, f \in tx[p].events :
        f.transfer # None => e.transfer # f.transfer
  BY <1>2, <1>3 DEF TransfersTold
<1> QED
  BY <1>1, <1>2, <1>3, <1>4 DEF TransfersTold

LEMMA CommitHoldsTold ==
  ASSUME RecordsInv, NEW p \in Clients, pc[p] = "commit", Apply(p)
  PROVE  HoldsTold'
<1>1. /\ outbox' = outbox \cup tx[p].events
      /\ \A h \in HoldIds : h # tx[p].hold => holds'[h] = holds[h]
  BY Applied
<1>2. /\ req[p].op \in {"transfer", "hold", "void", "capture"}
      /\ req[p].op = "transfer" => tx[p].hold = None
      /\ req[p].op # "transfer" => tx[p].hold \in HoldIds
      /\ HoldsTold
  BY AtCommit DEF RecordsInv, Committed
<1>3. ASSUME NEW h \in HoldIds, h # tx[p].hold
      PROVE  ToldOf(h)' = StepsTo(holds[h].status)'
  <2>1. \A e \in tx[p].events : e.aggregate # h
    BY <1>2, <1>3, AddedEvents, TypesAssumption DEF StagedStep
  <2>2. {o \in outbox' : o.aggregate = h} = {o \in outbox : o.aggregate = h}
    BY <1>1, <2>1
  <2>3. ToldOf(h)' = ToldOf(h)
    BY <2>2 DEF ToldOf
  <2>4. holds'[h].status = holds[h].status
    BY <1>1, <1>3
  <2> QED
    BY <1>2, <2>3, <2>4 DEF HoldsTold, StepsTo
<1>4. ASSUME NEW h \in HoldIds, h = tx[p].hold
      PROVE  ToldOf(h)' = StepsTo(holds[h].status)'
  <2>1. PICK type \in {"hold.created", "hold.voided", "hold.captured"} :
          /\ \A e \in tx[p].events : e.type = type /\ e.aggregate = h
          /\ type = (IF req[p].op = "hold" THEN "hold.created"
                     ELSE IF req[p].op = "void" THEN "hold.voided"
                     ELSE "hold.captured")
    BY <1>2, <1>4, AddedEvents, TypesAssumption DEF StagedStep
  <2>2. tx[p].events # {}
    BY <1>2, <1>4, AddedEvents, TypesAssumption
  <2>3. {e.type : e \in {o \in outbox' : o.aggregate = h}} = ToldOf(h) \cup {type}
    BY <1>1, <2>1, <2>2 DEF ToldOf
  <2>4. ToldOf(h) = StepsTo(holds[h].status)
    BY <1>2, <1>4 DEF HoldsTold
  <2>5. StepsTo(holds'[h].status) = StepsTo(holds[h].status) \cup {type}
    BY <1>2, <1>4, <2>1, StatusMoves, TypesAssumption DEF StepsTo
  <2>6. ToldOf(h)' = {e.type : e \in {o \in outbox' : o.aggregate = h}}
    BY DEF ToldOf
  <2>7. StepsTo(holds[h].status)' = StepsTo(holds'[h].status)
    BY DEF StepsTo
  <2> QED
    BY <2>3, <2>4, <2>5, <2>6, <2>7
<1> QED
  BY <1>2, <1>3, <1>4, TypesAssumption DEF HoldsTold

(* The audit rows of one commit.                                           *)
LEMMA AddedAudit ==
  ASSUME RecordsInv, NEW p \in Clients, pc[p] = "commit"
  PROVE  /\ \A r \in tx[p].audit :
              r.action \in {"hold.create", "transfer.create", "transfer.reverse"}
         /\ {r.resource : r \in {x \in tx[p].audit : x.action = "hold.create"}} =
              IF req[p].op = "hold" THEN {tx[p].hold} ELSE {}
         /\ {r.resource : r \in {x \in tx[p].audit :
                x.action \in {"transfer.create", "transfer.reverse"}}} =
              {t.id : t \in {x \in tx[p].transfers : x.hold = None}}
<1>1. /\ StagedAudit(p) /\ req[p].op \in {"transfer", "hold", "void", "capture"}
      /\ req[p].op \in {"hold", "void"} => tx[p].transfers = {}
      /\ req[p].op = "transfer" => \A t \in tx[p].transfers : t.hold = None
  BY AtCommit, AddedTransfers
<1>2. CASE req[p].op = "transfer"
  <2> DEFINE A(t) == [action |-> IF t.reversed # None
                                 THEN "transfer.reverse" ELSE "transfer.create",
                      resource |-> t.id]
  <2>1. tx[p].audit = {A(t) : t \in tx[p].transfers}
    BY <1>1, <1>2 DEF StagedAudit
  <2>2. \A t : /\ A(t).action \in {"transfer.create", "transfer.reverse"}
               /\ A(t).resource = t.id
    OBVIOUS
  <2> HIDE DEF A
  <2>3. {x \in tx[p].audit : x.action = "hold.create"} = {}
    BY <2>1, <2>2
  <2>4. {x \in tx[p].audit :
           x.action \in {"transfer.create", "transfer.reverse"}} = tx[p].audit
    BY <2>1, <2>2
  <2>5. {r.resource : r \in tx[p].audit} = {t.id : t \in tx[p].transfers}
    BY <2>1, <2>2
  <2>6. {x \in tx[p].transfers : x.hold = None} = tx[p].transfers
    BY <1>1, <1>2
  <2> QED
    BY <1>2, <2>1, <2>2, <2>3, <2>4, <2>5, <2>6
<1>3. CASE req[p].op = "hold"
  <2> DEFINE x == [action |-> "hold.create", resource |-> tx[p].hold]
  <2>1. tx[p].audit = {x} /\ tx[p].transfers = {}
    BY <1>1, <1>3 DEF StagedAudit
  <2>2. x.action = "hold.create" /\ x.resource = tx[p].hold
    OBVIOUS
  <2> HIDE DEF x
  <2>3. /\ {y \in tx[p].audit : y.action = "hold.create"} = {x}
        /\ {y \in tx[p].audit :
              y.action \in {"transfer.create", "transfer.reverse"}} = {}
    BY <2>1, <2>2
  <2>4. {r.resource : r \in {x}} = {tx[p].hold}
    BY <2>2
  <2> QED
    BY <1>3, <2>1, <2>2, <2>3, <2>4
<1>4. CASE req[p].op = "void"
  BY <1>1, <1>4 DEF StagedAudit
<1>5. CASE req[p].op = "capture"
  <2>1. \A t \in tx[p].transfers : t.hold # None
    BY <1>5, AtCommit, AddedTransfers, TypesAssumption DEF Capture
  <2> QED
    BY <1>1, <1>5, <2>1 DEF StagedAudit
<1> QED
  BY <1>1, <1>2, <1>3, <1>4, <1>5

LEMMA CommitAudited ==
  ASSUME RecordsInv, NEW p \in Clients, pc[p] = "commit", Apply(p)
  PROVE  Audited'
<1>1. /\ transfers' = transfers \cup tx[p].transfers
      /\ audit' = audit \cup tx[p].audit
      /\ \A h \in HoldIds : h # tx[p].hold => holds'[h] = holds[h]
      /\ req[p].op # "transfer" => tx[p].hold \in HoldIds
      /\ req[p].op = "transfer" => tx[p].hold = None
      /\ Audited
  BY Applied, AtCommit DEF RecordsInv, Committed
<1>2. {r.resource : r \in {x \in audit' : x.action = "hold.create"}} =
        {h \in HoldIds : holds'[h].status # "none"}
  <2>1. {r.resource : r \in {x \in audit' : x.action = "hold.create"}} =
          {h \in HoldIds : holds[h].status # "none"} \cup
          (IF req[p].op = "hold" THEN {tx[p].hold} ELSE {})
    <3>1. {r.resource : r \in {x \in audit : x.action = "hold.create"}} =
            {h \in HoldIds : holds[h].status # "none"}
      BY <1>1 DEF Audited, AuditMatches
    <3>2. {x \in audit' : x.action = "hold.create"} =
            {x \in audit : x.action = "hold.create"} \cup
            {x \in tx[p].audit : x.action = "hold.create"}
      BY <1>1
    <3>3. {r.resource : r \in {x \in tx[p].audit : x.action = "hold.create"}} =
            IF req[p].op = "hold" THEN {tx[p].hold} ELSE {}
      BY AddedAudit
    <3> QED
      BY <3>1, <3>2, <3>3
  <2>2. \A h \in HoldIds : holds'[h].status # "none" <=>
          holds[h].status # "none" \/ (req[p].op = "hold" /\ h = tx[p].hold)
    BY <1>1, StatusMoves, TypesAssumption
  <2> QED
    BY <1>1, <2>1, <2>2
<1>3. {r.resource : r \in {x \in audit' :
          x.action \in {"transfer.create", "transfer.reverse"}}} =
        {t.id : t \in {x \in transfers' : x.hold = None}}
  <2> DEFINE R(rows) == {r.resource : r \in {x \in rows :
                           x.action \in {"transfer.create", "transfer.reverse"}}}
             T(ts) == {t.id : t \in {x \in ts : x.hold = None}}
  <2>1. R(audit) = T(transfers)
    BY <1>1 DEF Audited, AuditMatches
  <2>2. R(tx[p].audit) = T(tx[p].transfers)
    BY AddedAudit
  <2>3. R(audit \cup tx[p].audit) = R(audit) \cup R(tx[p].audit)
    OBVIOUS
  <2>4. T(transfers \cup tx[p].transfers) = T(transfers) \cup T(tx[p].transfers)
    OBVIOUS
  <2> HIDE DEF R, T
  <2>5. R(audit \cup tx[p].audit) = T(transfers \cup tx[p].transfers)
    BY <2>1, <2>2, <2>3, <2>4
  <2> USE DEF R, T
  <2>6. {r.resource : r \in {x \in audit \cup tx[p].audit :
           x.action \in {"transfer.create", "transfer.reverse"}}} =
         {t.id : t \in {x \in transfers \cup tx[p].transfers : x.hold = None}}
    BY <2>5
  <2> QED
    BY <1>1, <2>6
<1>4. ASSUME NEW r \in audit', r.action \in {"hold.void", "hold.capture"}
      PROVE  /\ r.resource \in HoldIds
             /\ r.action = "hold.void" => holds'[r.resource].status = "voided"
             /\ r.action = "hold.capture" => holds'[r.resource].status = "captured"
  <2>1. r \in audit
    BY <1>1, <1>4, AddedAudit
  <2>2. /\ r.resource \in HoldIds
        /\ r.action = "hold.void" => holds[r.resource].status = "voided"
        /\ r.action = "hold.capture" => holds[r.resource].status = "captured"
    BY <1>1, <1>4, <2>1 DEF Audited, AuditMatches
  <2>3. r.resource # tx[p].hold
    BY <1>4, <2>2, StatusMoves, TypesAssumption
  <2> QED
    BY <1>1, <2>2, <2>3
<1> QED
  BY <1>2, <1>3, <1>4 DEF Audited, AuditMatches

(* What a commit does to the transactions of others: their holds are other *)
(* holds, their ids other ids, and they undo other transfers.              *)
LEMMA CommitOthers ==
  ASSUME RecordsInv, NEW p \in Clients, pc[p] = "commit", Apply(p),
         NEW q \in Clients, q # p,
         pc'[q] = pc[q], req'[q] = req[q], tx'[q] = tx[q]
  PROVE  ClientRecords(q)' /\ NewIds(q)'
<1>1. /\ transfers' = transfers \cup tx[p].transfers
      /\ \A h \in HoldIds : h # tx[p].hold => holds'[h] = holds[h]
      /\ ClientRecords(q) /\ NewIds(q) /\ IdsApart(p, q) /\ pc[p] \in Staging
  BY Applied DEF RecordsInv, Staging
<1>2. Asked(q)'
  <2>1. Asked(q)
    BY <1>1 DEF ClientRecords
  <2>2. pc[q] \in InTx /\ req[q].op = "transfer" => Sane(req[q].batch)'
    BY <1>1, <2>1 DEF Asked, Sane, Plain, UndoesOne, Undone
  <2>3. ASSUME pc[q] = "record"
        PROVE  holds'[req[q].hold].status = holds[req[q].hold].status
    <3>1. req[q].hold \in HoldIds
      BY <2>3, RequestFields
         DEF RecordsInv, SafeInv, TypeInv, TypeOK, ClientTyped
    <3>2. holds[req[q].hold].status \in {"voided", "captured"}
      BY <2>1, <2>3 DEF Asked
    <3>3. req[q].hold # tx[p].hold
      BY <3>1, <3>2, StatusMoves, TypesAssumption
    <3> QED
      BY <1>1, <3>1, <3>3
  <2> QED
    BY <2>1, <2>2, <2>3 DEF Asked
<1>3. ASSUME pc[q] \in Staging PROVE StagedRecords(q)'
  <2>1. StagedRecords(q) /\ OwnHold(q) /\ req[q] \in Request
    BY <1>1, <1>3, ViewOf
      DEF ClientRecords, RecordsInv, SafeInv, TypeInv, TypeOK
  <2>2. req[q].op \in {"void", "capture"} =>
          tx[q].hold \in HoldIds /\ holds'[tx[q].hold] = holds[tx[q].hold]
    <3>1. req[q].op \in {"void", "capture"} => tx[q].hold \in HoldIds
      BY <2>1, RequestFields DEF OwnHold
    <3>2. tx[q].hold \in HoldIds => tx[q].hold # tx[p].hold
      BY <1>1, <1>3, TypesAssumption DEF RecordsInv, SafeInv, HoldsApart
    <3> QED
      BY <1>1, <3>1, <3>2
  <2>3. StagedAudit(q)'
    BY <2>1 DEF StagedRecords, StagedAudit
  <2>4. req[q].op = "transfer" => StagedBatch(q)' /\ StagedEvents(q)'
    <3> SUFFICES ASSUME req[q].op = "transfer"
                 PROVE  StagedBatch(q)' /\ StagedEvents(q)'
      OBVIOUS
    <3>1. StagedBatch(q) /\ StagedEvents(q)
      BY <2>1 DEF StagedRecords
    <3>2. \A t \in tx[q].transfers, s \in tx[p].transfers :
            t.reversed # None => t.reversed # s.reversed
      BY <1>1, <1>3, ReversalsApart
    <3>3. StagedBatch(q)'
      BY <1>1, <3>1, <3>2 DEF StagedBatch, Plain, UndoesOne, Undone
    <3> QED
      BY <3>1, <3>3 DEF StagedEvents
  <2>5. req[q].op # "transfer" /\ pc[q] \in {"lock", "work"} => StagedNothing(q)'
    BY <2>1 DEF StagedRecords, StagedNothing
  <2>6. pc[q] \in {"audit", "commit"} =>
          /\ req[q].op = "hold" => StagedHold(q)'
          /\ req[q].op = "void" => StagedVoid(q)'
          /\ req[q].op = "capture" => StagedCapture(q)'
    BY <2>1, <2>2 DEF StagedRecords, StagedHold, StagedVoid, StagedCapture, StagedStep,
       Capture
  <2> QED
    BY <2>1, <2>3, <2>4, <2>5, <2>6 DEF StagedRecords
<1>4. NewIds(q)'
  BY <1>1 DEF NewIds, IdsApart
<1> QED
  BY <1>2, <1>3, <1>4 DEF ClientRecords

LEMMA CommitRecords ==
  ASSUME RecordsInv, SafeInv', NEW p \in Clients,
         Commit(p) \/ CommitUnanswered(p)
  PROVE  RecordsInv'
<1>1. pc[p] = "commit" /\ Apply(p)
  BY DEF Commit, CommitUnanswered
<1>2. /\ Others(p) /\ pc'[p] \in {"idle", "record", "failed"}
      /\ pc'[p] # "failed" => tx'[p] = NoTx
      /\ pc'[p] = "record" =>
           req'[p] = req[p] /\ req[p].op \in {"void", "capture"}
  <2>1. /\ pc \in [Clients -> Pc] /\ req \in [Clients -> Request]
        /\ tx \in [Clients -> TxState]
    BY DEF RecordsInv, SafeInv, TypeInv, TypeOK
  <2> QED
    BY <2>1 DEF Commit, CommitUnanswered, Done, Forget, Goto, Others
<1>3. Committed'
  <2>1. UniqueIds' /\ ReversedOnce'
    BY <1>1, CommitIds
  <2>2. Captures' /\ TransfersTold' /\ HoldsTold' /\ Audited'
    BY <1>1, CommitCaptures, CommitTransfersTold, CommitHoldsTold, CommitAudited
  <2> QED
    BY <2>1, <2>2 DEF Committed
<1>4. ASSUME pc'[p] = "record"
      PROVE  holds'[req[p].hold].status =
               (IF req[p].op = "void" THEN "voided" ELSE "captured")
  <2>1. tx[p].hold = req[p].hold /\ tx[p].hold \in HoldIds
    BY <1>1, <1>2, <1>4, AtCommit
  <2> QED
    BY <1>1, <1>2, <1>4, <2>1, StatusMoves, TypesAssumption
<1>5. ClientRecords(p)' /\ pc'[p] \notin Staging
  BY <1>2, <1>4, NoTxStages DEF ClientRecords, Asked, Staging, InTx
<1>6. \A q \in Clients : ClientRecords(q)' /\ NewIds(q)'
  <2>1. NewIds(p)'
    BY <1>5 DEF NewIds
  <2>2. \A q \in Clients : q # p => ClientRecords(q)' /\ NewIds(q)'
    BY <1>1, <1>2, CommitOthers DEF Others
  <2> QED
    BY <1>5, <2>1, <2>2
<1>7. \A q, r \in Clients : q # r => IdsApart(q, r)'
  BY <1>2, <1>5 DEF RecordsInv, IdsApart, Others
<1> QED
  BY <1>3, <1>6, <1>7 DEF RecordsInv

-----------------------------------------------------------------------------
LEMMA RecordsInvInit == Init => RecordsInv
<1> SUFFICES ASSUME Init PROVE RecordsInv
  OBVIOUS
<1>1. SafeInv
  BY SafeInvInit
<1>2. transfers = {} /\ outbox = {} /\ audit = {}
  BY DEF Init
<1>3. \A h \in HoldIds : holds[h].status = "none"
  BY DEF Init, NoHold
<1>4. Committed
  <2>1. UniqueIds /\ ReversedOnce /\ Captures
    BY <1>2, <1>3 DEF UniqueIds, ReversedOnce, Captures
  <2>2. TransfersTold /\ HoldsTold
    BY <1>2, <1>3 DEF TransfersTold, HoldsTold, ToldOf, StepsTo
  <2>3. Audited
    BY <1>2, <1>3 DEF Audited, AuditMatches
  <2> QED
    BY <2>1, <2>2, <2>3 DEF Committed
<1>5. \A p \in Clients : pc[p] = "idle" /\ tx[p] = NoTx
  BY DEF Init
<1>6. \A p \in Clients : ClientRecords(p) /\ NewIds(p)
  BY <1>5, NoTxStages DEF ClientRecords, Asked, NewIds, InTx, Staging
<1>7. \A p, q \in Clients : IdsApart(p, q)
  BY <1>5 DEF IdsApart, Staging
<1> QED
  BY <1>1, <1>4, <1>6, <1>7 DEF RecordsInv

LEMMA RecordsInvStep == RecordsInv /\ [Next]_vars => RecordsInv'
<1> SUFFICES ASSUME RecordsInv, [Next]_vars PROVE RecordsInv'
  OBVIOUS
<1>1. SafeInv'
  BY SafeInvStep DEF RecordsInv
<1>2. CASE UNCHANGED vars
  <2>1. UNCHANGED <<transfers, holds, outbox, audit, pc, req, tx>>
    BY <1>2 DEF vars, db
  <2>2. \A p \in Clients : Others(p)
    BY <2>1 DEF Others
  <2>3. Committed'
    <3>1. (UniqueIds /\ ReversedOnce /\ Captures)'
      BY <2>1 DEF RecordsInv, Committed, UniqueIds, ReversedOnce, Captures
    <3>2. (TransfersTold /\ HoldsTold)'
      BY <2>1
        DEF RecordsInv, Committed, TransfersTold, HoldsTold, ToldOf, StepsTo
    <3>3. Audited'
      BY <2>1, SameAudit
    <3> QED
      BY <3>1, <3>2, <3>3 DEF Committed
  <2>4. \A p \in Clients : ClientRecords(p)'
    BY <2>1, OtherRecords DEF RecordsInv
  <2>5. /\ \A p \in Clients : NewIds(p)'
        /\ \A p, q \in Clients : p # q => IdsApart(p, q)'
    BY <2>1 DEF RecordsInv, NewIds, IdsApart
  <2> QED
    BY <1>1, <2>3, <2>4, <2>5 DEF RecordsInv
<1>3. ASSUME NEW p \in Clients, Call(p) PROVE RecordsInv'
  BY <1>1, <1>3, CallRecords
<1>4. ASSUME NEW p \in Clients, Acquire(p) PROVE RecordsInv'
  BY <1>1, <1>4, LockHoldRecords, LockAccountRecords, AuditInTxRecords,
     EndRecords DEF Acquire
<1>5. ASSUME NEW p \in Clients, Step(p) PROVE RecordsInv'
  BY <1>1, <1>5, BeginRecords, ProcessTransferRecords, SettleHoldRecords,
     PlaceHoldRecords, ReleaseHoldRecords, CommitRecords, EndRecords DEF Step
<1>6. ASSUME NEW p \in Clients, Fault(p) PROVE RecordsInv'
  BY <1>1, <1>6, CommitRecords, EndRecords DEF Fault
<1> QED
  BY <1>2, <1>3, <1>4, <1>5, <1>6 DEF Next

(* In every state the program reaches, the tables of transfers, holds,     *)
(* events and audit rows go together, and so does what each transaction is *)
(* about to add to them: what HoldFunds, VoidHold, CaptureHold and         *)
(* CreateBatchTransfer insert, whatever else happens meanwhile.            *)
THEOREM Records == Spec => []RecordsInv
BY RecordsInvInit, RecordsInvStep, PTL DEF Spec
(* A transfer is reversed at most once, and exactly undone, although       *)
(* ReverseTransfer reads the original outside of any transaction.          *)
THEOREM ReversedCorrect == Spec => []ReversedOnce
<1>1. RecordsInv => ReversedOnce
  BY DEF RecordsInv, Committed
<1> QED
  BY <1>1, Records, PTL

(* Two transactions never insert reversals of the same transfer at the     *)
(* same time: both would first have to lock the accounts it paid.          *)
THEOREM NeverMeetCorrect == Spec => []ReversalsNeverMeet
<1>1. RecordsInv => ReversalsNeverMeet
  <2>1. SUFFICES ASSUME RecordsInv, NEW p \in Clients, NEW q \in Clients, p # q,
                        pc[p] \in InTx, pc[q] \in InTx,
                        NEW t \in tx[p].transfers, NEW s \in tx[q].transfers,
                        t.reversed # None
                 PROVE  t.reversed # s.reversed
    BY DEF ReversalsNeverMeet
  <2>2. pc[p] \in Staging /\ pc[q] \in Staging
    BY <2>1 DEF RecordsInv, ClientRecords, Asked, InTx, Staging
  <2> QED
    BY <2>1, <2>2, ReversalsApart
<1> QED
  BY <1>1, Records, PTL

(* CaptureHold leaves one transfer for every captured hold, of its account *)
(* and its amount, and no other hold has one.                              *)
THEOREM CapturedCorrect == Spec => []CapturedOnce
<1>1. RecordsInv => CapturedOnce
  <2> SUFFICES ASSUME RecordsInv, NEW h \in HoldIds
               PROVE  LET captures == {t \in transfers : t.hold = h} IN
                      /\ Cardinality(captures) =
                           (IF holds[h].status = "captured" THEN 1 ELSE 0)
                      /\ \A t \in captures :
                           t.from = holds[h].account /\ t.amount = holds[h].amount
    BY DEF CapturedOnce
  <2> DEFINE captures == {t \in transfers : t.hold = h}
  <2>1. Captures /\ h # None
    BY TypesAssumption DEF RecordsInv, Committed
  <2>2. CASE holds[h].status = "captured"
    <3>1. PICK t \in transfers : t.hold = h
      BY <2>1, <2>2 DEF Captures
    <3>2. captures = {t}
      BY <2>1, <3>1 DEF Captures
    <3>3. Cardinality({t}) = 1
      BY FS_Singleton
    <3>4. /\ Cardinality(captures) = 1
          /\ t.from = holds[h].account /\ t.amount = holds[h].amount
      BY <2>1, <3>1, <3>2, <3>3 DEF Captures
    <3> QED
      BY <2>2, <3>2, <3>4
  <2>3. CASE holds[h].status # "captured"
    <3>1. captures = {}
      BY <2>1, <2>3 DEF Captures
    <3> QED
      BY <2>3, <3>1, FS_EmptySet
  <2> QED
    BY <2>2, <2>3
<1> QED
  BY <1>1, Records, PTL

(* A consumer of the outbox learns of every transfer once, and of every    *)
(* hold exactly the steps it took: no event is lost with the answer to a   *)
(* COMMIT, and none tells of what was rolled back.                         *)
THEOREM OutboxCorrect == Spec => []OutboxTellsAll
<1>1. RecordsInv => OutboxTellsAll
  <2> SUFFICES ASSUME RecordsInv PROVE OutboxTellsAll
    OBVIOUS
  <2>1. TransfersTold /\ HoldsTold /\ transfers \subseteq Transfer
    BY DEF RecordsInv, Committed, SafeInv, TypeInv, TypeOK
  <2>2. ASSUME NEW t \in transfers
        PROVE  Cardinality({e \in outbox : e.transfer = t.id}) = 1
    <3>1. PICK e \in outbox : e.transfer = t.id
      BY <2>1 DEF TransfersTold
    <3>2. t.id # None
      BY <2>1, TypesAssumption DEF Transfer
    <3>3. {f \in outbox : f.transfer = t.id} = {e}
      BY <2>1, <3>1, <3>2 DEF TransfersTold
    <3> QED
      BY <3>3, FS_Singleton
  <2>3. \A h \in HoldIds : ToldOf(h) = StepsTo(holds[h].status)
    BY <2>1 DEF HoldsTold
  <2> QED
    BY <2>1, <2>2, <2>3 DEF OutboxTellsAll, TransfersTold, ToldOf, StepsTo
<1> QED
  BY <1>1, Records, PTL

(* The audit log names every transfer and every hold that was committed,   *)
(* and a void or a capture only if it was.                                 *)
THEOREM AuditCorrect == Spec => []AuditMatches
<1>1. RecordsInv => AuditMatches
  BY DEF RecordsInv, Committed, Audited
<1> QED
  BY <1>1, Records, PTL

-----------------------------------------------------------------------------
(* Ledger implements Journal, whose operators mean what they mean here.    *)

LEMMA JournalSums ==
  /\ \A ts, a : J!Net(ts, a) = Net(ts, a)
  /\ \A hs, a : J!Held(hs, a) = Held(hs, a)
  /\ \A a, r : J!RowChecks(a, r) <=> RowChecks(a, r)
  /\ J!Amount = Amount /\ J!NoHold = NoHold
  /\ \A a, r, m : J!ValidateDebit(a, r, m) <=> ValidateDebit(a, r, m)
  /\ \A a, r, m : J!ValidateCredit(a, r, m) <=> ValidateCredit(a, r, m)
<1>1. J!Amount = Amount /\ \A S : J!Unit(S) = Unit(S)
  BY DEF J!Amount, Amount, J!Unit, Unit
<1>2. \A S : J!Cardinality(S) = Cardinality(S)
  BY DEF J!Cardinality, Cardinality
<1>3. /\ \A ts, a : J!CreditUnits(ts, a) = CreditUnits(ts, a)
      /\ \A ts, a : J!DebitUnits(ts, a) = DebitUnits(ts, a)
      /\ \A hs, a : J!HeldUnits(hs, a) = HeldUnits(hs, a)
  BY <1>1 DEF J!CreditUnits, CreditUnits, J!DebitUnits, DebitUnits,
     J!HeldUnits, HeldUnits
<1>4. \A ts, a : J!Net(ts, a) = Net(ts, a)
  BY <1>2, <1>3 DEF J!Net, Net
<1>5. \A hs, a : J!Held(hs, a) = Held(hs, a)
  BY <1>2, <1>3 DEF J!Held, Held
<1> QED
  BY <1>1, <1>4, <1>5 DEF J!RowChecks, RowChecks, J!NoHold, NoHold,
     J!ValidateDebit, ValidateDebit, J!ValidateCredit, ValidateCredit,
     J!AvailableBalance, AvailableBalance

(* The row a transaction commits is the one the journal computes.          *)
LEMMA ComputedRow ==
  ASSUME RecordsInv, NEW p \in Clients, pc[p] = "commit", Apply(p),
         NEW a \in Locked(p)
  PROVE  /\ RowChecks(a, J!Computed(transfers', holds', a))
         /\ J!Computed(transfers', holds', a).balance = Net(transfers', a)
         /\ J!Computed(transfers', holds', a).encumbered = Held(holds', a)
<1>1. ViewSums(p)
  BY ViewOf DEF RecordsInv, Staging
<1>2. /\ transfers' = transfers \cup tx[p].transfers
      /\ holds' = WithHold(holds, tx[p].hold, tx[p].holdRow)
  BY DEF Apply
<1>3. /\ tx[p].view[a].balance = Net(transfers', a)
      /\ tx[p].view[a].encumbered = Held(holds', a)
      /\ RowChecks(a, tx[p].view[a])
  BY <1>1, <1>2 DEF ViewSums
<1>4. J!Computed(transfers', holds', a) =
        [balance |-> Net(transfers', a), encumbered |-> Held(holds', a),
         version |-> 0]
  BY JournalSums DEF J!Computed
<1> QED
  BY <1>3, <1>4 DEF RowChecks, AvailableBalance

LEMMA PostsBatch ==
  ASSUME RecordsInv, RecordsInv', NEW p \in Clients, pc[p] = "commit",
         Apply(p), req[p].op = "transfer"
  PROVE  J!PostBatch
<1>1. /\ transfers' = transfers \cup tx[p].transfers
      /\ UNCHANGED <<accounts, holds>>
      /\ tx[p].transfers # {}
  BY Applied, AtCommit, AddedTransfers DEF Apply
<1>2. transfers' \ transfers = tx[p].transfers
  BY <1>1 DEF RecordsInv, NewIds, Staging
<1>3. ASSUME NEW t \in tx[p].transfers
      PROVE  /\ J!SameCurrency(t) /\ t.hold = None
             /\ J!RowChecks(t.from, J!Computed(transfers', holds, t.from))
             /\ J!RowChecks(t.to, J!Computed(transfers', holds, t.to))
             /\ \A s \in transfers' \ {t} :
                  /\ s.id # t.id
                  /\ t.reversed # None => s.reversed # t.reversed
             /\ t.reversed # None => \E s \in transfers :
                  /\ s.id = t.reversed
                  /\ s.from = t.to /\ s.to = t.from /\ s.amount = t.amount
  <2>1. /\ t.from \in Locked(p) /\ t.to \in Locked(p)
        /\ Locked(p) \subseteq accounts
    BY Concerned DEF RecordsInv
  <2>2. J!SameCurrency(t) /\ t.hold = None
    BY <2>1, AtCommit DEF StagedBatch, J!SameCurrency
  <2>3. /\ J!RowChecks(t.from, J!Computed(transfers', holds, t.from))
        /\ J!RowChecks(t.to, J!Computed(transfers', holds, t.to))
    BY <1>1, <2>1, ComputedRow, JournalSums
  <2>4. \A s \in transfers' \ {t} :
          /\ s.id # t.id
          /\ t.reversed # None => s.reversed # t.reversed
    BY <1>1 DEF RecordsInv, Committed, UniqueIds, ReversedOnce
  <2>5. t.reversed # None => \E s \in transfers : Undone(t, s)
    BY AddedTransfers
  <2> QED
    BY <2>2, <2>3, <2>4, <2>5 DEF Undone
<1> QED
  BY <1>1, <1>2, <1>3 DEF J!PostBatch

LEMMA PlacesHold ==
  ASSUME RecordsInv, NEW p \in Clients, pc[p] = "commit",
         Apply(p), req[p].op = "hold"
  PROVE  \E h \in HoldIds, a \in AccountIds, m \in Amount : J!PlaceHold(h, a, m)
<1>1. PICK h \in HoldIds, a \in AccountIds, m \in Amount, r \in Hold :
        /\ h = tx[p].hold /\ r = tx[p].holdRow
        /\ a = req[p].account /\ m = req[p].amount
        /\ r.account = a /\ r.amount = m /\ r.status = "active"
        /\ holds[h].status = "none" /\ tx[p].transfers = {}
  <2>1. /\ tx[p].hold \in HoldIds /\ StagedHold(p) /\ tx[p].holdRow \in Hold
        /\ holds[tx[p].hold].status = "none" /\ req[p] \in Request
    BY AtCommit, Typed DEF RecordsInv
  <2>2. req[p].account \in AccountIds
    BY <2>1, RequestFields
  <2> QED
    BY <2>1, <2>2 DEF StagedHold
<1>2. /\ transfers' = transfers /\ accounts' = accounts
      /\ holds' = WithHold(holds, h, r) /\ holds \in [HoldIds -> Hold]
  BY <1>1, Typed DEF Apply, RecordsInv
<1>3. r = [account |-> a, amount |-> m, status |-> "active"]
  BY <1>1 DEF Hold
<1>4. holds' = [holds EXCEPT ![h] = r]
  BY <1>2 DEF WithHold
<1>5. a \in Locked(p) /\ a \in accounts
  BY <1>1, Concerned, TypesAssumption DEF RecordsInv
<1>6. Held(holds', a) = Held(holds, a) + m
  BY <1>1, <1>2, HeldWithActive, TypesAssumption
<1>7. J!ValidateDebit(a, J!Computed(transfers, holds, a), m)
  <2>1. RowChecks(a, J!Computed(transfers', holds', a))
    BY <1>5, ComputedRow
  <2>2. \A hs : J!Computed(transfers, hs, a) =
          [balance |-> Net(transfers, a), encumbered |-> Held(hs, a), version |-> 0]
    BY JournalSums DEF J!Computed
  <2>3. Net(transfers, a) \in Int /\ Held(holds, a) \in Int /\ m \in Int
    <3>1. IsFiniteSet(transfers)
      BY TxFacts DEF RecordsInv, SafeInv
    <3>2. Net(transfers, a) \in Int
      BY <3>1, NetType, TypesAssumption
    <3>3. Held(holds, a) \in Nat
      BY HeldFinite, TypesAssumption
    <3> QED
      BY <3>2, <3>3, TypesAssumption DEF Amount
  <2> QED
    BY <1>2, <1>6, <2>1, <2>2, <2>3, JournalSums
       DEF RowChecks, ValidateDebit, AvailableBalance
<1>8. J!PlaceHold(h, a, m)
  BY <1>1, <1>2, <1>3, <1>4, <1>5, <1>7 DEF J!PlaceHold
<1> QED
  BY <1>8

LEMMA VoidsHold ==
  ASSUME RecordsInv, NEW p \in Clients, pc[p] = "commit",
         Apply(p), req[p].op = "void"
  PROVE  \E h \in HoldIds : J!VoidHold(h)
<1>1. PICK h \in HoldIds : h = tx[p].hold
  BY AtCommit
<1>2. /\ transfers' = transfers /\ accounts' = accounts
      /\ holds' = WithHold(holds, h, [holds[h] EXCEPT !.status = "voided"])
      /\ holds[h].status = "active" /\ holds \in [HoldIds -> Hold]
  BY <1>1, Typed, AtCommit DEF Apply, RecordsInv, StagedVoid
<1>3. holds' = [holds EXCEPT ![h].status = "voided"]
  BY <1>2 DEF WithHold
<1> QED
  BY <1>2, <1>3 DEF J!VoidHold

LEMMA CapturesHold ==
  ASSUME RecordsInv, NEW p \in Clients, pc[p] = "commit",
         Apply(p), req[p].op = "capture"
  PROVE  \E h \in HoldIds, id \in TransferIds, to \in AccountIds :
           J!CaptureHold(h, id, to)
<1>1. PICK h \in HoldIds, t \in Transfer :
        h = tx[p].hold /\ tx[p].transfers = {t} /\ Capture(p, t)
  BY AtCommit, AddedTransfers
<1>2. /\ transfers' = transfers \cup {t} /\ accounts' = accounts
      /\ holds' = WithHold(holds, h, [holds[h] EXCEPT !.status = "captured"])
      /\ holds[h].status = "active" /\ holds \in [HoldIds -> Hold]
  BY <1>1, Typed, AtCommit DEF Apply, RecordsInv, StagedCapture
<1>3. holds' = [holds EXCEPT ![h].status = "captured"]
  BY <1>2 DEF WithHold
<1>4. t = [id |-> t.id, from |-> holds[h].account, to |-> t.to,
           amount |-> holds[h].amount, reversed |-> None, hold |-> h]
  BY <1>1 DEF Capture, Transfer
<1>5. /\ t.from \in accounts /\ t.to \in accounts /\ t.to \in Locked(p)
      /\ t.from # t.to /\ Currency[t.from] = Currency[t.to]
      /\ \A s \in transfers : s.id # t.id
  BY <1>1, Concerned DEF RecordsInv, Capture, NewIds, Staging
<1>6. /\ t.id \in TransferIds /\ t.to \in AccountIds /\ t.amount \in Amount
      /\ t.amount \in Int
  BY TypesAssumption DEF Transfer, Amount
<1>7. Net(transfers', t.to) = Net(transfers, t.to) + t.amount
  <2>1. IsFiniteSet(transfers) /\ t \notin transfers
    BY <1>5, TxFacts DEF RecordsInv, SafeInv
  <2>2. Net(transfers, t.to) \in Int
    BY <2>1, NetType, TypesAssumption
  <2> QED
    BY <1>2, <1>5, <1>6, <2>1, <2>2, NetOfOneMore, TypesAssumption
<1>8. J!ValidateCredit(t.to, J!Computed(transfers, holds, t.to), t.amount)
  <2>1. /\ RowChecks(t.to, J!Computed(transfers', holds', t.to))
        /\ J!Computed(transfers', holds', t.to).balance = Net(transfers', t.to)
    BY <1>5, ComputedRow
  <2>2. J!Computed(transfers, holds, t.to).balance = Net(transfers, t.to)
    BY JournalSums DEF J!Computed
  <2> QED
    BY <1>7, <2>1, <2>2, JournalSums DEF RowChecks, ValidateCredit
<1>9. J!CaptureHold(h, t.id, t.to)
  BY <1>2, <1>3, <1>4, <1>5, <1>8 DEF J!CaptureHold, J!SameCurrency
<1> QED
  BY <1>6, <1>9

LEMMA JournalStep ==
  ASSUME RecordsInv, RecordsInv', [Next]_vars
  PROVE  [J!Next]_(J!vars)
<1>1. ASSUME NEW p \in Clients, Commit(p) \/ CommitUnanswered(p) PROVE J!Next
  <2>1. pc[p] = "commit" /\ Apply(p)
    BY <1>1 DEF Commit, CommitUnanswered
  <2>2. req[p].op \in {"transfer", "hold", "void", "capture"}
    BY <2>1, AtCommit
  <2> QED
    BY <2>1, <2>2, PostsBatch, PlacesHold, VoidsHold, CapturesHold, JournalSums
       DEF J!Next
<1>2. ASSUME NEW p \in Clients, NEW a \in AccountIds, CreateAccount(p, a)
      PROVE  J!Next
  BY <1>2 DEF CreateAccount, J!Next, J!CreateAccount
<1>3. ASSUME UNCHANGED <<accounts, transfers, holds>>
      PROVE  UNCHANGED J!vars
  BY <1>3 DEF J!vars
<1>4. ASSUME NEW p \in Clients, Call(p) PROVE [J!Next]_(J!vars)
  BY <1>2, <1>3, <1>4 DEF Call, CreateBatchTransfer, ReverseTransfer, HoldFunds,
     VoidHold, CaptureHold, Submit, db
<1>5. ASSUME NEW p \in Clients, Acquire(p) PROVE UNCHANGED J!vars
  BY <1>3, <1>5 DEF Acquire, LockHold, LockAccount, AuditInTx, AuditFailure,
     AuditAfterCommit, db
<1>6. ASSUME NEW p \in Clients, Step(p) \/ Fault(p) PROVE [J!Next]_(J!vars)
  <2>1. CASE Commit(p) \/ CommitUnanswered(p)
    BY <1>1, <2>1, Zenon
  <2>2. CASE ~(Commit(p) \/ CommitUnanswered(p))
    BY <1>3, <1>6, <2>2, ZenonT(30) DEF Step, Fault, Begin, ProcessTransfer, SettleHold,
       PlaceHold, ReleaseHold, Refuse, Abort, Retry, Crash, RollBack, db
  <2> QED
    BY <2>1, <2>2
<1>7. CASE UNCHANGED vars
  BY <1>3, <1>7 DEF vars, db
<1> QED
  BY <1>4, <1>5, <1>6, <1>7 DEF Next

(* The tables implement the journal: each COMMIT posts a batch, places,    *)
(* voids or captures a hold as a whole and within the limits computed from *)
(* the journal itself, and no other step of the use cases is seen in it.   *)
THEOREM LedgerImplementsJournal == Spec => ImplementsJournal
<1>1. Init => J!Init
  BY JournalSums DEF Init, J!Init
<1>2. RecordsInv /\ RecordsInv' /\ [Next]_vars => [J!Next]_(J!vars)
  BY JournalStep
<1> QED
  BY <1>1, <1>2, Records, PTL DEF Spec, ImplementsJournal, J!Spec
-----------------------------------------------------------------------------
(* Entries.  The chain of an account goes on in the view of the            *)
(* transaction that has locked it, and only there.                         *)

Of(E, a) == {e \in E : e.account = a}
Chain(E, r) ==
  /\ \A e, f \in E : e.version = f.version => e = f
  /\ \A e \in E :
       /\ e.prev = C!BalanceAfter({f \in E : f.version < e.version})
       /\ e.current = e.prev + e.amount
       /\ e.version <= r.version
  /\ r.balance = C!BalanceAfter(E)

ClientEntries(p) ==
  pc[p] \in Staging =>
    /\ \A e \in tx[p].entries : e.account \in Locked(p)
    /\ pc[p] = "lock" \/ (pc[p] = "work" /\ req[p].op # "transfer") =>
         tx[p].entries = {}
    /\ \A a \in Locked(p) :
         Chain(Of(entries \cup tx[p].entries, a), tx[p].view[a])

EntriesInv ==
  /\ SafeInv
  /\ \A a \in AccountIds : Chain(Of(entries, a), row[a])
  /\ \A p \in Clients : ClientEntries(p)

(* What counts the version of a row up and keeps its balance keeps its     *)
(* chain; an entry made from the row goes on with it.                      *)
LEMMA ChainTouched ==
  ASSUME NEW E \in SUBSET Entry, NEW r \in Row, NEW s \in Row, Chain(E, r),
         s.balance = r.balance, s.version >= r.version
  PROVE  Chain(E, s)
<1>1. \A e \in E : e.version \in Nat
  BY DEF Entry
<1>2. r.version \in Nat /\ s.version \in Nat
  BY DEF Row
<1> QED
  BY <1>1, <1>2 DEF Chain

LEMMA ChainGoesOn ==
  ASSUME NEW E \in SUBSET Entry, NEW r \in Row, NEW s, Chain(E, r), NEW e,
         e.prev = r.balance, e.current = e.prev + e.amount,
         e.version = r.version + 1, s.balance = e.current, s.version = e.version
  PROVE  Chain(E \cup {e}, s)
<1>1. /\ \A f \in E : f.version \in Nat /\ f.version <= r.version
      /\ r.version \in Nat
  BY DEF Entry, Row, Chain
<1>2. \A f \in E : f.version < e.version /\ f # e /\ f.version # e.version
  BY <1>1
<1>3. {f \in E \cup {e} : f.version < e.version} = E
  BY <1>1, <1>2
<1>4. \A g \in E :
        {f \in E \cup {e} : f.version < g.version} =
          {f \in E : f.version < g.version}
  BY <1>1
<1>5. C!Latest(E \cup {e}) = e
  <2>1. \A f \in E \cup {e} : f.version <= e.version
    BY <1>1
  <2>2. ASSUME NEW g \in E \cup {e}, \A f \in E \cup {e} : f.version <= g.version
        PROVE  g = e
    BY <1>1, <2>2
  <2> QED
    BY <2>1, <2>2 DEF C!Latest
<1>6. C!BalanceAfter(E \cup {e}) = e.current
  BY <1>5 DEF C!BalanceAfter
<1>7. \A f, g \in E \cup {e} : f.version = g.version => f = g
  BY <1>2 DEF Chain
<1>8. \A f \in E \cup {e} :
        /\ f.prev = C!BalanceAfter({g \in E \cup {e} : g.version < f.version})
        /\ f.current = f.prev + f.amount
        /\ f.version <= s.version
  <2>1. TAKE f \in E \cup {e}
  <2>2. CASE f = e
    <3>1. {g \in E \cup {e} : g.version < f.version} = E
      BY <1>3, <2>2
    <3>2. r.balance = C!BalanceAfter(E)
      BY DEF Chain
    <3>3. f.version <= s.version
      BY <1>1, <2>2
    <3> QED
      BY <2>2, <3>1, <3>2, <3>3
  <2>3. CASE f \in E
    BY <1>1, <1>4, <2>3 DEF Chain
  <2> QED
    BY <2>2, <2>3
<1> QED
  BY <1>6, <1>7, <1>8 DEF Chain

(* Posting a transfer, or capturing a hold, goes on with both chains.      *)
LEMMA LegsChain ==
  ASSUME NEW v \in [AccountIds -> Row], NEW E \in SUBSET Entry,
         NEW t \in Transfer, t.from # t.to,
         NEW a \in AccountIds, Chain(Of(E, a), v[a])
  PROVE  /\ Chain(Of(E \cup EntriesOf(v, t), a), Posted(v, t)[a])
         /\ Chain(Of(E \cup EntriesOf(v, t), a), Captured(v, t)[a])
<1> DEFINE d == Leg(v, t, t.from, -t.amount)
           c == Leg(v, t, t.to, t.amount)
<1>1. /\ t.from \in AccountIds /\ t.to \in AccountIds /\ t.amount \in Int
      /\ \A b \in AccountIds : v[b] \in Row /\ v[b].balance \in Int
  BY TypesAssumption DEF Transfer, Amount, Row
<1>2. EntriesOf(v, t) = {d, c}
  BY DEF EntriesOf
<1>3. /\ d.account = t.from /\ d.prev = v[t.from].balance
      /\ d.amount = -t.amount /\ d.current = d.prev + d.amount
      /\ d.version = v[t.from].version + 1
      /\ c.account = t.to /\ c.prev = v[t.to].balance
      /\ c.amount = t.amount /\ c.current = c.prev + c.amount
      /\ c.version = v[t.to].version + 1
  BY DEF Leg
<1> HIDE DEF d, c
<1>4. Of(E, a) \in SUBSET Entry
  BY DEF Of
<1>5. CASE a = t.from
  <2>1. Of(E \cup {d, c}, a) = Of(E, a) \cup {d}
    BY <1>3, <1>5 DEF Of
  <2>2. /\ Posted(v, t)[a].balance = v[a].balance - t.amount
        /\ Posted(v, t)[a].version = v[a].version + 1
        /\ Captured(v, t)[a].balance = v[a].balance - t.amount
        /\ Captured(v, t)[a].version = v[a].version + 1
    <3>1. \E m, n \in Int :
            /\ Posted(v, t)[a] = Updated(v[a], v[a].balance - t.amount, m)
            /\ Captured(v, t)[a] = Updated(v[a], v[a].balance - t.amount, n)
      <4>1. v[a].encumbered \in Int /\ v[a].encumbered - t.amount \in Int
        BY <1>1 DEF Row
      <4> QED
        BY <1>1, <1>5, <4>1, PostedRows
    <3> QED
      BY <3>1 DEF Updated
  <2>3. /\ v[a].balance - t.amount = d.current /\ d.prev = v[a].balance
        /\ d.current = d.prev + d.amount /\ d.version = v[a].version + 1
    BY <1>1, <1>3, <1>5
  <2>4. v[a] \in Row /\ Of(E, a) \in SUBSET Entry /\ Chain(Of(E, a), v[a])
    BY <1>1, <1>4
  <2>5. Chain(Of(E, a) \cup {d}, Posted(v, t)[a])
    BY <2>2, <2>3, <2>4, ChainGoesOn
  <2>6. Chain(Of(E, a) \cup {d}, Captured(v, t)[a])
    BY <2>2, <2>3, <2>4, ChainGoesOn
  <2> QED
    BY <1>2, <2>1, <2>5, <2>6
<1>6. CASE a = t.to
  <2>1. Of(E \cup {d, c}, a) = Of(E, a) \cup {c}
    BY <1>3, <1>6 DEF Of
  <2>2. /\ Posted(v, t)[a].balance = v[a].balance + t.amount
        /\ Posted(v, t)[a].version = v[a].version + 1
        /\ Captured(v, t)[a].balance = v[a].balance + t.amount
        /\ Captured(v, t)[a].version = v[a].version + 1
    <3>1. \E m, n \in Int :
            /\ Posted(v, t)[a] = Updated(v[a], v[a].balance + t.amount, m)
            /\ Captured(v, t)[a] = Updated(v[a], v[a].balance + t.amount, n)
      <4>1. v[a].encumbered \in Int /\ v[a].encumbered - t.amount \in Int
        BY <1>1 DEF Row
      <4> QED
        BY <1>1, <1>6, <4>1, PostedRows
    <3> QED
      BY <3>1 DEF Updated
  <2>3. /\ v[a].balance + t.amount = c.current /\ c.prev = v[a].balance
        /\ c.current = c.prev + c.amount /\ c.version = v[a].version + 1
    BY <1>1, <1>3, <1>6
  <2>4. v[a] \in Row /\ Of(E, a) \in SUBSET Entry /\ Chain(Of(E, a), v[a])
    BY <1>1, <1>4
  <2>5. Chain(Of(E, a) \cup {c}, Posted(v, t)[a])
    BY <2>2, <2>3, <2>4, ChainGoesOn
  <2>6. Chain(Of(E, a) \cup {c}, Captured(v, t)[a])
    BY <2>2, <2>3, <2>4, ChainGoesOn
  <2> QED
    BY <1>2, <2>1, <2>5, <2>6
<1>7. CASE a # t.from /\ a # t.to
  <2>1. Of(E \cup {d, c}, a) = Of(E, a)
    BY <1>3, <1>7 DEF Of
  <2>2. Posted(v, t)[a] = v[a] /\ Captured(v, t)[a] = v[a]
    BY <1>1, <1>7, PostedRows
  <2> QED
    BY <1>2, <2>1, <2>2
<1> QED
  BY <1>5, <1>6, <1>7

LEMMA EntryTypes ==
  ASSUME SafeInv, NEW p \in Clients
  PROVE  /\ entries \subseteq Entry /\ tx[p].entries \subseteq Entry
         /\ entries \cup tx[p].entries \in SUBSET Entry
         /\ row \in [AccountIds -> Row] /\ tx[p].view \in [AccountIds -> Row]
         /\ Locked(p) \subseteq AccountIds
BY DEF SafeInv, TypeInv, TypeOK, TxState, Locked

(* A transaction that does not move keeps its chains while no entry is     *)
(* committed.                                                              *)
LEMMA UntouchedEntries ==
  ASSUME NEW q \in Clients, ClientEntries(q), UNCHANGED entries,
         pc'[q] = pc[q], req'[q] = req[q], tx'[q] = tx[q],
         Locked(q)' = Locked(q)
  PROVE  ClientEntries(q)'
BY DEF ClientEntries

LEMMA QuietEntries ==
  ASSUME EntriesInv, SafeInv', NEW p \in Clients, UNCHANGED <<row, entries>>,
         \A q \in Clients \ {p} : Untouched(q), ClientEntries(p)'
  PROVE  EntriesInv'
<1>1. \A a \in AccountIds : Chain(Of(entries, a), row[a])'
  BY DEF EntriesInv, Chain, Of
<1>2. ASSUME NEW q \in Clients \ {p} PROVE ClientEntries(q)'
  <2>1. ClientEntries(q) /\ Untouched(q)
    BY DEF EntriesInv
  <2> QED
    BY <2>1, UntouchedEntries DEF Untouched
<1> QED
  BY <1>1, <1>2 DEF EntriesInv

(* Steps after which no transaction is open.                               *)
LEMMA LeaveEntries ==
  ASSUME EntriesInv, SafeInv', NEW p \in Clients, NEW next, NEW t, NEW r,
         next \notin Staging,
         pc' = [pc EXCEPT ![p] = next], tx' = [tx EXCEPT ![p] = t],
         req' = [req EXCEPT ![p] = r], UNCHANGED <<row, entries>>,
         ReleaseLocks(p) \/ UNCHANGED locks
  PROVE  EntriesInv'
<1>1. /\ \A q \in Clients \ {p} : Untouched(q)
      /\ pc'[p] = next
  BY OthersUntouched, OthersKeepLocks DEF EntriesInv, SafeInv, locks
<1>2. ClientEntries(p)'
  BY <1>1 DEF ClientEntries
<1> QED
  BY <1>1, <1>2, QuietEntries

LEMMA CallEntries ==
  ASSUME EntriesInv, SafeInv', NEW p \in Clients, Call(p)
  PROVE  EntriesInv'
<1>1. ASSUME NEW r, NEW valid, Submit(p, r, valid) PROVE EntriesInv'
  <2>1. /\ req' = [req EXCEPT ![p] = r] /\ UNCHANGED <<row, entries, locks>>
        /\ tx' = [tx EXCEPT ![p] = tx[p]]
    BY <1>1 DEF Submit, db, EntriesInv, SafeInv, TypeInv, TypeOK
  <2>2. PICK next \in {"begin", "failed"} : pc' = [pc EXCEPT ![p] = next]
    BY <1>1 DEF Submit, Goto
  <2> QED
    BY <2>1, <2>2, LeaveEntries DEF Staging
<1>2. ASSUME NEW a \in AccountIds, CreateAccount(p, a) PROVE EntriesInv'
  <2>1. row' = row
    BY <1>2
      DEF CreateAccount, EntriesInv, SafeInv, CommittedSums, TypeInv, TypeOK
  <2>2. UNCHANGED <<entries, rowLock, holdLock, pc, req, tx>>
    BY <1>2 DEF CreateAccount, locks
  <2>3. \A q \in Clients : Untouched(q)
    BY <2>2 DEF Untouched, Locked
  <2>4. ClientEntries(p)'
    <3>1. ClientEntries(p)
      BY DEF EntriesInv
    <3> QED
      BY <2>2, <2>3, <3>1, UntouchedEntries DEF Untouched
  <2> QED
    BY <2>1, <2>2, <2>3, <2>4, QuietEntries
<1> QED
  BY <1>1, <1>2 DEF Call, CreateBatchTransfer, ReverseTransfer, HoldFunds,
     VoidHold, CaptureHold

LEMMA EndEntries ==
  ASSUME EntriesInv, SafeInv', NEW p \in Clients,
         \/ AuditFailure(p) \/ AuditAfterCommit(p) \/ Crash(p)
         \/ Refuse(p) \/ Abort(p) \/ Retry(p)
  PROVE  EntriesInv'
<1>1. UNCHANGED <<row, entries>> /\ (ReleaseLocks(p) \/ UNCHANGED locks)
  BY DEF AuditFailure, AuditAfterCommit, Crash, Refuse, Abort, Retry,
     RollBack, db
<1>2. PICK next \in {"idle", "failed", "begin"}, r \in {NoRequest, req[p]} :
        /\ pc' = [pc EXCEPT ![p] = next] /\ tx' = [tx EXCEPT ![p] = NoTx]
        /\ req' = [req EXCEPT ![p] = r]
  <2>1. req = [req EXCEPT ![p] = req[p]]
    BY DEF EntriesInv, SafeInv, TypeInv, TypeOK
  <2> QED
    BY <2>1 DEF AuditFailure, AuditAfterCommit, Crash, Refuse, Abort, Retry,
       RollBack, Done, Forget, Goto
<1> QED
  BY <1>1, <1>2, LeaveEntries DEF Staging

(* Locks.                                                                  *)
LEMMA OpenEntries ==
  ASSUME EntriesInv, SafeInv', NEW p \in Clients, NEW t \in TxState, NEW ids,
         StartLocking(p, t, ids), pc[p] \notin Staging, t.entries = {},
         UNCHANGED <<db, req, rowLock>>,
         \A q \in Clients \ {p} : \A h \in HoldIds :
           holdLock[h] = q => holdLock'[h] = q
  PROVE  EntriesInv'
<1> DEFINE need == ids \cap accounts
           u == [t EXCEPT !.need = need]
           next == IF need = {} THEN "work" ELSE "lock"
<1>1. u.entries = {}
  BY DEF TxState
<1>2. tx' = [tx EXCEPT ![p] = u] /\ pc' = [pc EXCEPT ![p] = next]
  BY DEF StartLocking, Goto
<1> HIDE DEF u, next
<1>3. /\ tx'[p] = u /\ Locked(p)' = {}
      /\ \A q \in Clients \ {p} : Untouched(q)
  BY <1>2
    DEF EntriesInv, SafeInv, TypeInv, TypeOK, ClientSafe, Locked, Untouched
<1>4. ClientEntries(p)'
  BY <1>1, <1>3 DEF ClientEntries
<1> QED
  BY <1>3, <1>4, QuietEntries DEF db

LEMMA BeginEntries ==
  ASSUME EntriesInv, SafeInv', NEW p \in Clients, Begin(p)
  PROVE  EntriesInv'
<1>1. /\ pc[p] = "begin" /\ pc[p] \notin Staging
      /\ UNCHANGED <<db, req, rowLock, holdLock, locks, row, entries>>
      /\ req[p] \in Request
  BY DEF Begin, Staging, locks, db, EntriesInv, SafeInv, TypeInv, TypeOK
<1>2. CASE req[p].op = "transfer"
  <2> DEFINE t == [NoTx EXCEPT !.rest = req[p].batch]
  <2>1. t \in TxState /\ t.entries = {}
    BY <1>1, <1>2, RequestFields, NoTxType DEF TxState, NoTx
  <2>2. StartLocking(p, t, BatchAccounts(req[p].batch))
    BY <1>2 DEF Begin
  <2> QED
    BY <1>1, <2>1, <2>2, OpenEntries
<1>3. CASE req[p].op = "hold"
  <2>1. NoTx \in TxState /\ NoTx.entries = {}
    BY NoTxType DEF NoTx
  <2>2. StartLocking(p, NoTx, {req[p].account})
    BY <1>3 DEF Begin
  <2> QED
    BY <1>1, <2>1, <2>2, OpenEntries
<1>4. CASE req[p].op \in {"void", "capture"}
  <2>1. /\ pc' = [pc EXCEPT ![p] = "holdLock"]
        /\ tx' = [tx EXCEPT ![p] = tx[p]] /\ req' = [req EXCEPT ![p] = req[p]]
    BY <1>1, <1>4 DEF Begin, Goto, EntriesInv, SafeInv, TypeInv, TypeOK
  <2>2. "holdLock" \notin Staging
    BY DEF Staging
  <2> QED
    BY <1>1, <2>1, <2>2, LeaveEntries
<1> QED
  BY <1>2, <1>3, <1>4 DEF Begin
LEMMA LockHoldEntries ==
  ASSUME EntriesInv, SafeInv', NEW p \in Clients, LockHold(p)
  PROVE  EntriesInv'
<1> DEFINE h == req[p].hold
           t == [NoTx EXCEPT !.hold = h, !.holdRow = holds[h]]
           ids == {holds[h].account} \cup
                  (IF req[p].op = "capture" THEN {req[p].to} ELSE {})
<1>1. /\ h \in HoldIds /\ holds[h] \in Hold /\ pc[p] \notin Staging
      /\ holdLock \in [HoldIds -> Clients \cup {None}]
  BY RequestFields
    DEF LockHold, EntriesInv, SafeInv, TypeInv, TypeOK, ClientTyped,
     Staging
<1>2. t \in TxState /\ t.entries = {}
  BY <1>1, NoTxType DEF NoTx, TxState
<1>3. /\ StartLocking(p, t, ids) /\ holdLock[h] = None
      /\ holdLock' = [holdLock EXCEPT ![h] = p]
      /\ UNCHANGED <<db, req, rowLock>>
  BY DEF LockHold, HoldFree
<1> HIDE DEF t, ids
<1>4. \A q \in Clients \ {p} : \A k \in HoldIds :
        holdLock[k] = q => holdLock'[k] = q
  BY <1>1, <1>3, LedgerAssumption
<1> QED
  BY <1>1, <1>2, <1>3, <1>4, OpenEntries

(* The row read under its lock is the committed one, and so is its chain.  *)
LEMMA LockAccountEntries ==
  ASSUME EntriesInv, SafeInv', NEW p \in Clients, NEW a \in AccountIds,
         LockAccount(p, a)
  PROVE  EntriesInv'
<1> DEFINE u == [tx[p] EXCEPT !.need = @ \ {a}, !.view[a] = row[a]]
           next == IF tx[p].need = {a} THEN "work" ELSE "lock"
<1>1. /\ tx[p] \in TxState /\ tx \in [Clients -> TxState]
      /\ pc \in [Clients -> Pc] /\ tx[p].view \in [AccountIds -> Row]
      /\ rowLock \in [AccountIds -> Clients \cup {None}]
  BY TxFacts DEF EntriesInv, SafeInv, TypeInv, TypeOK
<1>2. /\ pc[p] = "lock" /\ rowLock[a] = None /\ rowLock' = [rowLock EXCEPT ![a] = p]
      /\ UNCHANGED <<row, entries, req, holdLock>>
      /\ tx' = [tx EXCEPT ![p] = u] /\ pc' = [pc EXCEPT ![p] = next]
  BY <1>1 DEF LockAccount, RowFree, Goto, db
<1>3. /\ u.entries = tx[p].entries
      /\ u.view = [tx[p].view EXCEPT ![a] = row[a]]
  BY <1>1 DEF TxState
<1> HIDE DEF u, next
<1>4. /\ tx'[p] = u /\ Locked(p)' = Locked(p) \cup {a}
      /\ \A q \in Clients \ {p} : Untouched(q)
  <2>1. \A q \in Clients \ {p} : Locked(q)' = Locked(q)
    BY <1>1, <1>2, LedgerAssumption DEF Locked
  <2> QED
    BY <1>1, <1>2, <2>1 DEF Locked, Untouched
<1>5. tx[p].entries = {} /\ \A b \in Locked(p) : Chain(Of(entries, b), tx[p].view[b])
  BY <1>2 DEF EntriesInv, ClientEntries, Staging
<1>6. \A b \in Locked(p) \cup {a} : Chain(Of(entries, b), u.view[b])
  BY <1>1, <1>3, <1>5 DEF EntriesInv, Locked
<1>7. entries' \cup u.entries = entries
  BY <1>2, <1>3, <1>5
<1>8. ClientEntries(p)'
  BY <1>3, <1>4, <1>5, <1>6, <1>7 DEF ClientEntries
<1> QED
  BY <1>2, <1>4, <1>8, QuietEntries

(* Work, which takes no lock.                                              *)
LEMMA WorkEntries ==
  ASSUME EntriesInv, SafeInv', NEW p \in Clients, pc[p] \in Staging,
         NEW u, NEW next \in {"work", "audit", "commit"},
         pc' = [pc EXCEPT ![p] = next], tx' = [tx EXCEPT ![p] = u],
         UNCHANGED <<row, entries, req, rowLock, holdLock>>,
         next = "work" => req[p].op = "transfer",
         \A e \in u.entries : e.account \in Locked(p),
         \A a \in Locked(p) : Chain(Of(entries \cup u.entries, a), u.view[a])
  PROVE  EntriesInv'
<1>1. req' = [req EXCEPT ![p] = req[p]] /\ TypeInv
  BY DEF EntriesInv, SafeInv, TypeInv, TypeOK
<1>2. /\ \A q \in Clients \ {p} : Untouched(q)
      /\ Locked(p)' = Locked(p)
      /\ pc'[p] = next /\ tx'[p] = u /\ req'[p] = req[p]
  BY <1>1, OthersUntouched
<1>3. ClientEntries(p)'
  BY <1>2 DEF ClientEntries
<1> QED
  BY <1>2, <1>3, QuietEntries

LEMMA ProcessTransferEntries ==
  ASSUME EntriesInv, SafeInv', NEW p \in Clients, NEW id \in TransferIds,
         ProcessTransfer(p, id)
  PROVE  EntriesInv'
<1> DEFINE own == tx[p]
           i == Head(tx[p].rest)
           t == [id |-> id, from |-> i.from, to |-> i.to,
                 amount |-> i.amount, reversed |-> i.reversed, hold |-> None]
           type == IF i.reversed = None THEN "transfer.created"
                                        ELSE "transfer.reversed"
           event == [type |-> type, aggregate |-> id, transfer |-> id]
           u == [own EXCEPT
                   !.view = Posted(own.view, t), !.rest = Tail(own.rest),
                   !.transfers = own.transfers \cup {t},
                   !.entries = own.entries \cup EntriesOf(own.view, t),
                   !.events = own.events \cup {event}]
           next == IF Len(tx[p].rest) = 1 THEN "audit" ELSE "work"
<1>1. /\ pc[p] = "work" /\ pc[p] \in Staging /\ req[p].op = "transfer"
      /\ UNCHANGED <<row, entries, req, rowLock, holdLock>>
      /\ AllFound(p)
      /\ tx' = [tx EXCEPT ![p] = u] /\ pc' = [pc EXCEPT ![p] = next]
      /\ next \in {"work", "audit", "commit"}
  BY DEF ProcessTransfer, Staging, Goto, db, locks
<1>2. /\ tx[p] \in TxState /\ own.view \in [AccountIds -> Row]
      /\ OwnRows(p) /\ TypeInv /\ SafeInv
  BY <1>1, TxFacts, ViewOf DEF EntriesInv, SafeInv
<1>3. i.from \in Locked(p) /\ i.to \in Locked(p) /\ i \in ValidInput
  BY <1>1, <1>2, ItemLocked
<1>4. /\ t \in Transfer /\ t.from # t.to
      /\ t.from \in Locked(p) /\ t.to \in Locked(p)
  BY <1>3, TypesAssumption DEF ValidInput, Input, Amount, Transfer
<1> HIDE DEF t, i, next, event
<1>5. /\ u.view = Posted(own.view, t)
      /\ u.entries = own.entries \cup EntriesOf(own.view, t)
  BY <1>2 DEF TxState
<1> HIDE DEF u
<1>6. \A e \in u.entries : e.account \in Locked(p)
  <2>1. \A e \in own.entries : e.account \in Locked(p)
    BY <1>1 DEF EntriesInv, ClientEntries
  <2>2. \A e \in EntriesOf(own.view, t) : e.account \in {t.from, t.to}
    BY DEF EntriesOf, Leg
  <2> QED
    BY <1>4, <1>5, <2>1, <2>2
<1>7. ASSUME NEW a \in Locked(p)
      PROVE  Chain(Of(entries \cup u.entries, a), u.view[a])
  <2>1. /\ Chain(Of(entries \cup own.entries, a), own.view[a]) /\ a \in AccountIds
        /\ entries \cup own.entries \in SUBSET Entry
    BY <1>1, <1>2, EntryTypes DEF EntriesInv, ClientEntries
  <2>2. entries \cup u.entries =
          (entries \cup own.entries) \cup EntriesOf(own.view, t)
    BY <1>5
  <2> QED
    BY <1>2, <1>4, <1>5, <2>1, <2>2, LegsChain
<1> QED
  BY <1>1, <1>6, <1>7, WorkEntries

LEMMA SettleHoldEntries ==
  ASSUME EntriesInv, SafeInv', NEW p \in Clients, NEW id \in TransferIds,
         SettleHold(p, id)
  PROVE  EntriesInv'
<1> DEFINE own == tx[p]
           h == own.holdRow
           t == [id |-> id, from |-> h.account, to |-> req[p].to,
                 amount |-> h.amount, reversed |-> None, hold |-> req[p].hold]
           event == [type |-> "hold.captured", aggregate |-> req[p].hold,
                     transfer |-> id]
           r == [h EXCEPT !.status = "captured"]
           u == [own EXCEPT
                   !.view = Captured(own.view, t), !.transfers = {t},
                   !.entries = EntriesOf(own.view, t),
                   !.holdRow = r, !.events = {event}]
<1>1. /\ pc[p] = "work" /\ pc[p] \in Staging /\ req[p].op = "capture"
      /\ UNCHANGED <<row, entries, req, rowLock, holdLock>>
      /\ CanCapture(p)
      /\ tx' = [tx EXCEPT ![p] = u] /\ pc' = [pc EXCEPT ![p] = "commit"]
  BY DEF SettleHold, Staging, Goto, db, locks
<1>2. /\ tx[p] \in TxState /\ own.view \in [AccountIds -> Row] /\ SafeInv
  BY TxFacts DEF EntriesInv, SafeInv
<1>3. /\ req[p].hold \in HoldIds /\ h.amount \in Amount
      /\ h.account \in Locked(p) /\ req[p].to \in Locked(p) /\ h.account # req[p].to
  BY <1>1, <1>2, HeldInView DEF CanCapture
<1>4. /\ t \in Transfer /\ t.from # t.to
      /\ t.from \in Locked(p) /\ t.to \in Locked(p)
  BY <1>3 DEF Transfer, Locked
<1> HIDE DEF t, r, event
<1>5. u.view = Captured(own.view, t) /\ u.entries = EntriesOf(own.view, t)
  BY <1>2 DEF TxState
<1> HIDE DEF u
<1>6. \A e \in u.entries : e.account \in Locked(p)
  BY <1>4, <1>5 DEF EntriesOf, Leg
<1>7. own.entries = {}
  BY <1>1 DEF EntriesInv, ClientEntries
<1>8. ASSUME NEW a \in Locked(p)
      PROVE  Chain(Of(entries \cup u.entries, a), u.view[a])
  <2>1. /\ Chain(Of(entries, a), own.view[a]) /\ a \in AccountIds
        /\ entries \in SUBSET Entry
    <3>1. entries \cup own.entries = entries
      BY <1>7
    <3> QED
      BY <1>1, <1>2, <3>1, EntryTypes DEF EntriesInv, ClientEntries
  <2> QED
    BY <1>2, <1>4, <1>5, <2>1, LegsChain
<1> QED
  BY <1>1, <1>6, <1>8, WorkEntries

(* A hold changes the encumbered balance only.                             *)
LEMMA EncumberEntries ==
  ASSUME EntriesInv, SafeInv', NEW p \in Clients, pc[p] = "work",
         req[p].op # "transfer", NEW u, NEW next \in {"audit", "commit"},
         pc' = [pc EXCEPT ![p] = next], tx' = [tx EXCEPT ![p] = u],
         UNCHANGED <<row, entries, req, rowLock, holdLock>>,
         NEW b \in AccountIds, NEW e \in Int,
         u.view = Encumber(tx[p].view, b, e), u.entries = tx[p].entries
  PROVE  EntriesInv'
<1>1. pc[p] \in Staging /\ tx[p].entries = {}
  BY DEF EntriesInv, ClientEntries, Staging
<1>2. ASSUME NEW a \in Locked(p)
      PROVE  Chain(Of(entries \cup u.entries, a), u.view[a])
  <2> DEFINE v == tx[p].view
  <2>1. /\ v \in [AccountIds -> Row] /\ a \in AccountIds /\ v[a] \in Row
        /\ entries \cup u.entries \in SUBSET Entry
        /\ Chain(Of(entries \cup u.entries, a), v[a])
    BY <1>1, EntryTypes DEF EntriesInv, ClientEntries
  <2>2. u.view[a] = IF a = b THEN Updated(v[a], v[a].balance, e) ELSE v[a]
    BY <2>1, EncumberedRows
  <2>3. /\ u.view[a] \in Row /\ u.view[a].balance = v[a].balance
        /\ u.view[a].version >= v[a].version
    BY <2>1, <2>2 DEF Row, Updated
  <2>4. Of(entries \cup u.entries, a) \in SUBSET Entry
    BY <2>1 DEF Of
  <2> QED
    BY <2>1, <2>3, <2>4, ChainTouched
<1> QED
  BY <1>1, <1>2, WorkEntries
LEMMA HoldEntries ==
  ASSUME EntriesInv, SafeInv', NEW p \in Clients,
         ReleaseHold(p) \/ \E h \in HoldIds : PlaceHold(p, h)
  PROVE  EntriesInv'
<1>1. /\ tx[p] \in TxState /\ tx[p].view \in [AccountIds -> Row]
      /\ tx[p].entries \subseteq Entry /\ SafeInv /\ TypeInv /\ ClientTyped(p)
      /\ tx \in [Clients -> TxState] /\ req[p] \in Request /\ MaxAmount \in Nat
  BY TxFacts, EntryTypes DEF EntriesInv, SafeInv, TypeInv, TypeOK
<1>2. ASSUME NEW h \in HoldIds, PlaceHold(p, h) PROVE EntriesInv'
  <2> DEFINE b == req[p].account
             e == tx[p].view[b].encumbered + req[p].amount
             r == [account |-> b, amount |-> req[p].amount, status |-> "active"]
             event == [type |-> "hold.created", aggregate |-> h,
                       transfer |-> None]
             u == [tx[p] EXCEPT !.view = Encumber(tx[p].view, b, e),
                     !.hold = h, !.holdRow = r, !.events = {event}]
  <2>1. /\ pc[p] = "work" /\ req[p].op = "hold"
        /\ pc' = [pc EXCEPT ![p] = "audit"] /\ tx' = [tx EXCEPT ![p] = u]
        /\ UNCHANGED <<row, entries, req, rowLock, holdLock>>
    BY <1>2 DEF PlaceHold, Goto, db, locks
  <2>2. b \in AccountIds /\ req[p].amount \in Int
    BY <1>1, <2>1, RequestFields
  <2>3. e \in Int
    BY <1>1, <2>2 DEF Row
  <2> HIDE DEF e, r, event
  <2>4. u.view = Encumber(tx[p].view, b, e) /\ u.entries = tx[p].entries
    BY <1>1 DEF TxState
  <2> HIDE DEF u
  <2> QED
    BY <2>1, <2>2, <2>3, <2>4, EncumberEntries
<1>3. CASE ReleaseHold(p)
  <2> DEFINE h == tx[p].holdRow
             b == h.account
             e == NonNegative(tx[p].view[b].encumbered - h.amount)
             event == [type |-> "hold.voided", aggregate |-> req[p].hold,
                       transfer |-> None]
             r == [h EXCEPT !.status = "voided"]
             u == [tx[p] EXCEPT !.view = Encumber(tx[p].view, b, e),
                     !.holdRow = r, !.events = {event}]
  <2>1. /\ pc[p] = "work" /\ req[p].op = "void"
        /\ pc' = [pc EXCEPT ![p] = "commit"] /\ tx' = [tx EXCEPT ![p] = u]
        /\ UNCHANGED <<row, entries, req, rowLock, holdLock>>
    BY <1>3 DEF ReleaseHold, Goto, db, locks
  <2>2. b \in AccountIds /\ h.amount \in Int
    BY <1>1, <2>1, HeldInView DEF Locked
  <2>3. e \in Int
    BY <1>1, <2>2 DEF Row, NonNegative
  <2> HIDE DEF e, r, event
  <2>4. u.view = Encumber(tx[p].view, b, e) /\ u.entries = tx[p].entries
    BY <1>1 DEF TxState
  <2> HIDE DEF u
  <2> QED
    BY <2>1, <2>2, <2>3, <2>4, EncumberEntries
<1> QED
  BY <1>2, <1>3

LEMMA AuditInTxEntries ==
  ASSUME EntriesInv, SafeInv', NEW p \in Clients, AuditInTx(p)
  PROVE  EntriesInv'
<1>1. /\ tx[p] \in TxState /\ tx \in [Clients -> TxState]
  BY DEF EntriesInv, SafeInv, TypeInv, TypeOK
<1>2. PICK rows : tx' = [tx EXCEPT ![p] = [tx[p] EXCEPT !.audit = rows]]
  BY <1>1 DEF AuditInTx
<1> DEFINE u == [tx[p] EXCEPT !.audit = rows]
<1>3. u.view = tx[p].view /\ u.entries = tx[p].entries
  BY <1>1 DEF TxState
<1>4. /\ tx' = [tx EXCEPT ![p] = u] /\ pc[p] \in Staging
      /\ pc' = [pc EXCEPT ![p] = "commit"]
      /\ UNCHANGED <<row, entries, req, rowLock, holdLock>>
  BY <1>2 DEF AuditInTx, Goto, Staging, db
<1> HIDE DEF u
<1>5. /\ \A e \in u.entries : e.account \in Locked(p)
      /\ \A a \in Locked(p) : Chain(Of(entries \cup u.entries, a), u.view[a])
  BY <1>3, <1>4 DEF EntriesInv, ClientEntries
<1> QED
  BY <1>4, <1>5, WorkEntries

(* A commit moves the chains of the accounts it has locked from the view   *)
(* to the table, and no other.                                             *)
LEMMA CommitEntries ==
  ASSUME EntriesInv, SafeInv', NEW p \in Clients,
         Commit(p) \/ CommitUnanswered(p)
  PROVE  EntriesInv'
<1>1. pc[p] = "commit" /\ pc[p] \in Staging /\ Apply(p) /\ ReleaseLocks(p)
  BY DEF Commit, CommitUnanswered, Apply, Staging
<1>2. PICK next \in {"idle", "record", "failed"}, t \in {NoTx, tx[p]},
           r \in {NoRequest, req[p]} :
        /\ pc' = [pc EXCEPT ![p] = next] /\ tx' = [tx EXCEPT ![p] = t]
        /\ req' = [req EXCEPT ![p] = r]
  <2>1. tx = [tx EXCEPT ![p] = tx[p]] /\ req = [req EXCEPT ![p] = req[p]]
    BY DEF EntriesInv, SafeInv, TypeInv, TypeOK
  <2> QED
    BY <2>1 DEF Commit, CommitUnanswered, Done, Forget, Goto
<1>3. /\ \A q \in Clients \ {p} : Untouched(q)
      /\ pc'[p] = next
  BY <1>1, <1>2, OthersKeepLocks DEF EntriesInv, SafeInv
<1>4. /\ entries' = entries \cup tx[p].entries
      /\ \A a \in AccountIds :
           row'[a] = IF a \in Locked(p) THEN tx[p].view[a] ELSE row[a]
      /\ \A e \in tx[p].entries : e.account \in Locked(p)
  BY <1>1 DEF Apply, EntriesInv, ClientEntries
<1>5. \A a \in AccountIds : Chain(Of(entries', a), row'[a])
  <2>1. TAKE a \in AccountIds
  <2>2. CASE a \in Locked(p)
    BY <1>1, <1>4, <2>2 DEF EntriesInv, ClientEntries
  <2>3. CASE a \notin Locked(p)
    <3>1. Of(entries', a) = Of(entries, a)
      BY <1>4, <2>3 DEF Of
    <3> QED
      BY <1>4, <2>3, <3>1 DEF EntriesInv
  <2> QED
    BY <2>2, <2>3
<1>6. ASSUME NEW q \in Clients \ {p} PROVE ClientEntries(q)'
  <2>1. ASSUME pc[q] \in Staging, NEW a \in Locked(q)
        PROVE  Chain(Of(entries' \cup tx[q].entries, a), tx[q].view[a])
    <3>1. a \notin Locked(p)
      BY DEF Locked
    <3>2. Of(entries' \cup tx[q].entries, a) = Of(entries \cup tx[q].entries, a)
      BY <1>4, <3>1 DEF Of
    <3> QED
      BY <2>1, <3>2 DEF EntriesInv, ClientEntries
  <2>2. ClientEntries(q) /\ Untouched(q)
    BY <1>3 DEF EntriesInv
  <2>3. /\ pc'[q] = pc[q] /\ req'[q] = req[q] /\ tx'[q] = tx[q]
        /\ Locked(q)' = Locked(q)
    BY <2>2 DEF Untouched
  <2> QED
    BY <2>1, <2>2, <2>3 DEF ClientEntries
<1>7. ClientEntries(p)'
  BY <1>3 DEF ClientEntries, Staging
<1>8. (\A a \in AccountIds : Chain(Of(entries, a), row[a]))'
  BY <1>5
<1> QED
  BY <1>6, <1>7, <1>8 DEF EntriesInv

LEMMA EntriesInvInit == Init => EntriesInv
<1> SUFFICES ASSUME Init PROVE EntriesInv
  OBVIOUS
<1>1. SafeInv
  BY SafeInvInit
<1>2. \A a \in AccountIds : Of(entries, a) = {} /\ row[a].balance = 0
  BY DEF Init, Of, NewRow
<1>3. C!BalanceAfter({}) = 0
  BY DEF C!BalanceAfter
<1>4. \A a \in AccountIds : Chain(Of(entries, a), row[a])
  BY <1>2, <1>3 DEF Chain
<1>5. \A p \in Clients : ClientEntries(p)
  BY DEF Init, ClientEntries, Staging
<1> QED
  BY <1>1, <1>4, <1>5 DEF EntriesInv

LEMMA EntriesInvStep == EntriesInv /\ [Next]_vars => EntriesInv'
<1> SUFFICES ASSUME EntriesInv, [Next]_vars PROVE EntriesInv'
  OBVIOUS
<1>1. SafeInv'
  BY SafeInvStep DEF EntriesInv
<1>2. CASE UNCHANGED vars
  <2>1. UNCHANGED <<row, entries, rowLock, holdLock, pc, req, tx>>
    BY <1>2 DEF vars, db, locks
  <2>2. ASSUME NEW p \in Clients PROVE ClientEntries(p)'
    <3>1. ClientEntries(p) /\ Locked(p)' = Locked(p)
      BY <2>1 DEF EntriesInv, Locked
    <3> QED
      BY <2>1, <3>1, UntouchedEntries
  <2>3. (\A a \in AccountIds : Chain(Of(entries, a), row[a]))'
    BY <2>1 DEF EntriesInv
  <2> QED
    BY <1>1, <2>2, <2>3 DEF EntriesInv
<1>3. ASSUME NEW p \in Clients, Call(p) PROVE EntriesInv'
  BY <1>1, <1>3, CallEntries
<1>4. ASSUME NEW p \in Clients, Acquire(p) PROVE EntriesInv'
  BY <1>1, <1>4, LockHoldEntries, LockAccountEntries, AuditInTxEntries,
     EndEntries DEF Acquire
<1>5. ASSUME NEW p \in Clients, Step(p) PROVE EntriesInv'
  BY <1>1, <1>5, BeginEntries, ProcessTransferEntries, SettleHoldEntries,
     HoldEntries, CommitEntries, EndEntries DEF Step
<1>6. ASSUME NEW p \in Clients, Fault(p) PROVE EntriesInv'
  BY <1>1, <1>6, CommitEntries, EndEntries DEF Fault
<1> QED
  BY <1>2, <1>3, <1>4, <1>5, <1>6 DEF Next

(* The entries of every account form one chain by account_version, from    *)
(* zero to the balance of its row, although each transaction computes the  *)
(* previous and the current balance from rows it has read for itself.      *)
THEOREM EntriesCorrect == Spec => []EntriesChain
<1>1. EntriesInv => EntriesChain
  <2> SUFFICES ASSUME EntriesInv, NEW a \in AccountIds
               PROVE  LET mine == C!EntriesFor(a) IN
                      /\ \A e, f \in mine : e.version = f.version => e = f
                      /\ \A e \in mine :
                           /\ e.prev = C!BalanceAfter(C!Before(a, e))
                           /\ e.current = e.prev + e.amount
                           /\ e.version <= row[a].version
                      /\ row[a].balance = C!BalanceAfter(mine)
    BY DEF EntriesChain
  <2>1. C!EntriesFor(a) = Of(entries, a)
    BY DEF C!EntriesFor, Of
  <2>2. \A e : C!Before(a, e) = {f \in Of(entries, a) : f.version < e.version}
    BY <2>1 DEF C!Before
  <2> DEFINE mine == Of(entries, a)
  <2>3. Chain(mine, row[a])
    BY DEF EntriesInv
  <2>4. /\ \A e, f \in mine : e.version = f.version => e = f
        /\ row[a].balance = C!BalanceAfter(mine)
    BY <2>3 DEF Chain
  <2>5. ASSUME NEW e \in mine
        PROVE  /\ e.prev = C!BalanceAfter(C!Before(a, e))
               /\ e.current = e.prev + e.amount
               /\ e.version <= row[a].version
    <3>1. C!Before(a, e) = {f \in mine : f.version < e.version}
      BY <2>2
    <3> QED
      BY <2>3, <3>1 DEF Chain
  <2> QED
    BY <2>1, <2>4, <2>5
<1> QED
  BY <1>1, EntriesInvInit, EntriesInvStep, PTL DEF Spec
-----------------------------------------------------------------------------
(* The past.  What a step of a request does to what history is made of:    *)
(* the entries and the transfers, committed and staged, and the rows that  *)
(* are locked meanwhile.                                                   *)

Elsewhere(p) ==
  \A q \in Clients \ {p} :
    pc'[q] = pc[q] /\ tx'[q] = tx[q] /\ Locked(q)' = Locked(q)
Working == {"work", "audit", "commit"}

Leaves(p) ==
  /\ pc'[p] \notin Staging
  /\ tx'[p].transfers \subseteq tx[p].transfers
  /\ UNCHANGED <<transfers, entries>>
Opens(p) ==
  /\ pc[p] \notin Working /\ pc'[p] \in {"lock", "work"}
  /\ tx'[p].transfers = {} /\ tx'[p].entries = {}
  /\ UNCHANGED <<transfers, entries>>
Moves(p) ==
  /\ pc[p] \in Working /\ pc'[p] \in Working /\ Locked(p)' = Locked(p)
  /\ tx'[p].transfers = tx[p].transfers /\ tx'[p].entries = tx[p].entries
  /\ UNCHANGED <<transfers, entries>>
Posts(p, t) ==
  /\ pc[p] = "work" /\ pc'[p] \in Working /\ Locked(p)' = Locked(p)
  /\ t.from # t.to /\ t.from \in Locked(p) /\ t.to \in Locked(p)
  /\ t \notin tx[p].transfers
  /\ tx'[p].transfers = tx[p].transfers \cup {t}
  /\ tx'[p].entries = tx[p].entries \cup EntriesOf(tx[p].view, t)
  /\ UNCHANGED <<transfers, entries>>
Commits(p) ==
  /\ pc[p] = "commit" /\ pc'[p] \notin Staging
  /\ tx'[p].transfers \subseteq tx[p].transfers
  /\ transfers' = transfers \cup tx[p].transfers
  /\ entries' = entries \cup tx[p].entries

Effects(p) ==
  /\ Elsewhere(p)
  /\ \/ Leaves(p) \/ Opens(p) \/ Moves(p) \/ Commits(p)
     \/ \E t \in Transfer : Posts(p, t)

(* Requests, and the steps that end a transaction.                         *)
LEMMA LeaveEffects ==
  ASSUME SafeInv, NEW p \in Clients, NEW next, NEW t \in {NoTx, tx[p]},
         next \notin Staging,
         pc' = [pc EXCEPT ![p] = next], tx' = [tx EXCEPT ![p] = t],
         ReleaseLocks(p) \/ UNCHANGED locks
  PROVE  /\ Elsewhere(p) /\ pc'[p] = next
         /\ tx'[p].transfers \subseteq tx[p].transfers
<1>1. /\ pc \in [Clients -> Pc] /\ tx \in [Clients -> TxState]
      /\ p # None /\ \A q \in Clients : q # None
  BY LedgerAssumption DEF SafeInv, TypeInv, TypeOK
<1>2. \A q \in Clients \ {p} : Locked(q)' = Locked(q)
  BY <1>1 DEF Locked, ReleaseLocks, locks
<1>3. NoTx.transfers = {}
  BY DEF NoTx
<1> QED
  BY <1>1, <1>2, <1>3 DEF Elsewhere

LEMMA CallEffects ==
  ASSUME SafeInv, NEW p \in Clients, Call(p)
  PROVE  Effects(p)
<1>0. tx = [tx EXCEPT ![p] = tx[p]] /\ pc = [pc EXCEPT ![p] = pc[p]]
  BY DEF SafeInv, TypeInv, TypeOK
<1>1. ASSUME NEW r, NEW valid, Submit(p, r, valid) PROVE Effects(p)
  <2>1. /\ tx' = [tx EXCEPT ![p] = tx[p]]
        /\ UNCHANGED <<transfers, entries, locks>>
    BY <1>0, <1>1 DEF Submit, db
  <2>2. PICK next \in {"begin", "failed"} : pc' = [pc EXCEPT ![p] = next]
    BY <1>1 DEF Submit, Goto
  <2>3. Elsewhere(p) /\ Leaves(p)
    BY <2>1, <2>2, LeaveEffects DEF Leaves, Staging
  <2> QED
    BY <2>3 DEF Effects
<1>2. ASSUME NEW a \in AccountIds, CreateAccount(p, a) PROVE Effects(p)
  <2>1. /\ UNCHANGED <<transfers, entries, locks, tx, pc>> /\ pc[p] = "idle"
    BY <1>2 DEF CreateAccount
  <2>3. Elsewhere(p) /\ Leaves(p)
    BY <1>0, <2>1, LeaveEffects DEF Leaves, Staging
  <2> QED
    BY <2>3 DEF Effects
<1> QED
  BY <1>1, <1>2 DEF Call, CreateBatchTransfer, ReverseTransfer, HoldFunds,
     VoidHold, CaptureHold

LEMMA EndEffects ==
  ASSUME SafeInv, NEW p \in Clients,
         \/ AuditFailure(p) \/ AuditAfterCommit(p) \/ Crash(p)
         \/ Refuse(p) \/ Abort(p) \/ Retry(p)
  PROVE  Effects(p)
<1>1. /\ UNCHANGED <<transfers, entries>>
      /\ ReleaseLocks(p) \/ UNCHANGED locks
  BY DEF AuditFailure, AuditAfterCommit, Crash, Refuse, Abort, Retry,
     RollBack, db
<1>2. PICK next \in {"idle", "failed", "begin"} :
        pc' = [pc EXCEPT ![p] = next] /\ tx' = [tx EXCEPT ![p] = NoTx]
  BY DEF AuditFailure, AuditAfterCommit, Crash, Refuse, Abort, Retry,
     RollBack, Done, Forget, Goto
<1>3. Elsewhere(p) /\ Leaves(p)
  BY <1>1, <1>2, LeaveEffects DEF Leaves, Staging
<1> QED
  BY <1>3 DEF Effects

LEMMA CommitEffects ==
  ASSUME SafeInv, NEW p \in Clients, Commit(p) \/ CommitUnanswered(p)
  PROVE  Effects(p)
<1>1. /\ pc[p] = "commit" /\ ReleaseLocks(p)
      /\ transfers' = transfers \cup tx[p].transfers
      /\ entries' = entries \cup tx[p].entries
  BY DEF Commit, CommitUnanswered, Apply
<1>2. PICK next \in {"idle", "record", "failed"}, t \in {NoTx, tx[p]} :
        pc' = [pc EXCEPT ![p] = next] /\ tx' = [tx EXCEPT ![p] = t]
  <2>1. tx = [tx EXCEPT ![p] = tx[p]]
    BY DEF SafeInv, TypeInv, TypeOK
  <2> QED
    BY <2>1 DEF Commit, CommitUnanswered, Done, Forget, Goto
<1>3. Elsewhere(p) /\ Commits(p)
  BY <1>1, <1>2, LeaveEffects DEF Commits, Staging
<1> QED
  BY <1>3 DEF Effects

(* Locking.                                                                *)
LEMMA OpenEffects ==
  ASSUME SafeInv, NEW p \in Clients, NEW u,
         NEW next \in {"lock", "work"}, pc[p] \notin Working,
         pc' = [pc EXCEPT ![p] = next], tx' = [tx EXCEPT ![p] = u],
         u.transfers = {}, u.entries = {}, UNCHANGED <<transfers, entries>>,
         \A q \in Clients \ {p} : Locked(q)' = Locked(q)
  PROVE  Effects(p)
<1>1. pc \in [Clients -> Pc] /\ tx \in [Clients -> TxState]
  BY DEF SafeInv, TypeInv, TypeOK
<1>2. Elsewhere(p) /\ Opens(p)
  BY <1>1 DEF Elsewhere, Opens
<1> QED
  BY <1>2 DEF Effects

LEMMA BeginEffects ==
  ASSUME SafeInv, NEW p \in Clients, Begin(p)
  PROVE  Effects(p)
<1>1. /\ UNCHANGED <<transfers, entries, locks>> /\ pc[p] \notin Working
      /\ \A q \in Clients \ {p} : Locked(q)' = Locked(q)
  BY DEF Begin, db, locks, Locked, Working
<1>2. ASSUME NEW t \in {NoTx, [NoTx EXCEPT !.rest = req[p].batch]}, NEW ids,
             StartLocking(p, t, ids)
      PROVE  Effects(p)
  <2> DEFINE u == [t EXCEPT !.need = ids \cap accounts]
             next == IF ids \cap accounts = {} THEN "work" ELSE "lock"
  <2>1. u.transfers = {} /\ u.entries = {}
    BY DEF NoTx
  <2>2. /\ pc' = [pc EXCEPT ![p] = next] /\ tx' = [tx EXCEPT ![p] = u]
        /\ next \in {"lock", "work"}
    BY <1>2 DEF StartLocking, Goto
  <2> HIDE DEF u, next
  <2> QED
    BY <1>1, <2>1, <2>2, OpenEffects
<1>3. CASE UNCHANGED tx /\ Goto(p, "holdLock")
  <2>1. tx' = [tx EXCEPT ![p] = tx[p]] /\ pc' = [pc EXCEPT ![p] = "holdLock"]
    BY <1>3 DEF Goto, SafeInv, TypeInv, TypeOK
  <2>2. Elsewhere(p) /\ Leaves(p)
    BY <1>1, <2>1, LeaveEffects DEF Leaves, Staging
  <2> QED
    BY <2>2 DEF Effects
<1> QED
  BY <1>2, <1>3 DEF Begin

LEMMA LockHoldEffects ==
  ASSUME SafeInv, NEW p \in Clients, LockHold(p)
  PROVE  Effects(p)
<1> DEFINE h == req[p].hold
           t == [NoTx EXCEPT !.hold = h, !.holdRow = holds[h]]
           ids == {holds[h].account} \cup
                  (IF req[p].op = "capture" THEN {req[p].to} ELSE {})
           u == [t EXCEPT !.need = ids \cap accounts]
           next == IF ids \cap accounts = {} THEN "work" ELSE "lock"
<1>1. u.transfers = {} /\ u.entries = {}
  BY DEF NoTx
<1>2. /\ pc' = [pc EXCEPT ![p] = next] /\ tx' = [tx EXCEPT ![p] = u]
      /\ next \in {"lock", "work"}
  BY DEF LockHold, StartLocking, Goto
<1>3. /\ UNCHANGED <<transfers, entries>> /\ pc[p] \notin Working
      /\ \A q \in Clients \ {p} : Locked(q)' = Locked(q)
  BY DEF LockHold, db, Locked, Working
<1> HIDE DEF u, next
<1> QED
  BY <1>1, <1>2, <1>3, OpenEffects

LEMMA LockAccountEffects ==
  ASSUME EntriesInv, NEW p \in Clients, NEW a \in AccountIds,
         LockAccount(p, a)
  PROVE  Effects(p)
<1> DEFINE u == [tx[p] EXCEPT !.need = @ \ {a}, !.view[a] = row[a]]
           next == IF tx[p].need = {a} THEN "work" ELSE "lock"
<1>1. /\ SafeInv /\ tx[p] \in TxState /\ tx \in [Clients -> TxState]
      /\ rowLock \in [AccountIds -> Clients \cup {None}]
  BY DEF EntriesInv, SafeInv, TypeInv, TypeOK
<1>2. /\ pc[p] = "lock" /\ rowLock[a] = None /\ rowLock' = [rowLock EXCEPT ![a] = p]
      /\ tx' = [tx EXCEPT ![p] = u] /\ pc' = [pc EXCEPT ![p] = next]
      /\ UNCHANGED <<transfers, entries>> /\ next \in {"lock", "work"}
  BY <1>1 DEF LockAccount, RowFree, Goto, db
<1>3. u.entries = tx[p].entries /\ u.transfers = tx[p].transfers
  BY <1>1 DEF TxState
<1> HIDE DEF u, next
<1>4. tx[p].entries = {} /\ tx[p].transfers = {}
  BY <1>2, ViewOf DEF EntriesInv, ClientEntries, Staging, OwnRows
<1>5. \A q \in Clients \ {p} : Locked(q)' = Locked(q)
  BY <1>1, <1>2, LedgerAssumption DEF Locked
<1> QED
  BY <1>1, <1>2, <1>3, <1>4, <1>5, OpenEffects DEF Working

(* Work.                                                                   *)
LEMMA MoveEffects ==
  ASSUME SafeInv, NEW p \in Clients,
         \/ ReleaseHold(p) \/ AuditInTx(p)
         \/ \E h \in HoldIds : PlaceHold(p, h)
  PROVE  Effects(p)
<1>1. /\ tx[p] \in TxState /\ tx \in [Clients -> TxState]
      /\ pc \in [Clients -> Pc]
  <2>1. TypeOK
    BY Zenon DEF SafeInv, TypeInv
  <2> QED
    BY <2>1, Zenon DEF TypeOK
<1>2. /\ pc[p] \in {"work", "audit"}
      /\ \E next \in {"audit", "commit"} : pc' = [pc EXCEPT ![p] = next]
      /\ UNCHANGED <<transfers, entries, rowLock>>
  BY DEF ReleaseHold, AuditInTx, PlaceHold, Goto, db, locks
<1>3. \E u : /\ tx' = [tx EXCEPT ![p] = u]
             /\ u.transfers = tx[p].transfers /\ u.entries = tx[p].entries
  <2>1. ASSUME NEW h \in HoldIds, PlaceHold(p, h)
        PROVE  /\ tx'[p].transfers = tx[p].transfers
               /\ tx'[p].entries = tx[p].entries
    BY <1>1, <2>1 DEF PlaceHold, TxState
  <2>2. ASSUME ReleaseHold(p)
        PROVE  /\ tx'[p].transfers = tx[p].transfers
               /\ tx'[p].entries = tx[p].entries
    BY <1>1, <2>2 DEF ReleaseHold, TxState
  <2>3. ASSUME AuditInTx(p)
        PROVE  /\ tx'[p].transfers = tx[p].transfers
               /\ tx'[p].entries = tx[p].entries
    BY <1>1, <2>3, SMTT(30) DEF AuditInTx, TxState
  <2>4. tx' = [tx EXCEPT ![p] = tx'[p]]
    BY <1>1 DEF PlaceHold, ReleaseHold, AuditInTx
  <2> QED
    BY <2>1, <2>2, <2>3, <2>4
<1>4. Elsewhere(p) /\ Moves(p)
  BY <1>1, <1>2, <1>3 DEF Elsewhere, Moves, Working, Locked
<1> QED
  BY <1>4 DEF Effects

LEMMA ProcessTransferEffects ==
  ASSUME SafeInv, NEW p \in Clients, NEW id \in TransferIds,
         ProcessTransfer(p, id)
  PROVE  Effects(p)
<1> DEFINE own == tx[p]
           i == Head(tx[p].rest)
           t == [id |-> id, from |-> i.from, to |-> i.to,
                 amount |-> i.amount, reversed |-> i.reversed, hold |-> None]
           type == IF i.reversed = None THEN "transfer.created"
                                        ELSE "transfer.reversed"
           event == [type |-> type, aggregate |-> id, transfer |-> id]
           u == [own EXCEPT
                   !.view = Posted(own.view, t), !.rest = Tail(own.rest),
                   !.transfers = own.transfers \cup {t},
                   !.entries = own.entries \cup EntriesOf(own.view, t),
                   !.events = own.events \cup {event}]
           next == IF Len(tx[p].rest) = 1 THEN "audit" ELSE "work"
<1>1. /\ pc[p] = "work" /\ pc[p] \in Staging /\ req[p].op = "transfer"
      /\ UNCHANGED <<transfers, entries, rowLock>>
      /\ AllFound(p) /\ \A s \in tx[p].transfers : s.id # id
      /\ tx' = [tx EXCEPT ![p] = u] /\ pc' = [pc EXCEPT ![p] = next]
      /\ next \in Working
  BY DEF ProcessTransfer, Staging, Goto, db, locks, Working, FreshTransfer
<1>2. /\ tx[p] \in TxState /\ OwnRows(p) /\ TypeInv
      /\ tx \in [Clients -> TxState] /\ pc \in [Clients -> Pc]
  BY <1>1, ViewOf DEF SafeInv, TypeInv, TypeOK
<1>3. i.from \in Locked(p) /\ i.to \in Locked(p) /\ i \in ValidInput
  BY <1>1, <1>2, ItemLocked
<1>4. /\ t \in Transfer /\ t.from # t.to /\ t \notin own.transfers
      /\ t.from \in Locked(p) /\ t.to \in Locked(p)
  BY <1>1, <1>3, TypesAssumption DEF ValidInput, Input, Amount, Transfer
<1> HIDE DEF t, i, next, event
<1>5. /\ u.transfers = own.transfers \cup {t}
      /\ u.entries = own.entries \cup EntriesOf(own.view, t)
  BY <1>2 DEF TxState
<1> HIDE DEF u
<1>6. Elsewhere(p) /\ Posts(p, t)
  BY <1>1, <1>2, <1>4, <1>5 DEF Elsewhere, Posts, Locked, Working
<1> QED
  BY <1>4, <1>6 DEF Effects

LEMMA SettleHoldEffects ==
  ASSUME EntriesInv, NEW p \in Clients, NEW id \in TransferIds,
         SettleHold(p, id)
  PROVE  Effects(p)
<1> DEFINE own == tx[p]
           h == own.holdRow
           t == [id |-> id, from |-> h.account, to |-> req[p].to,
                 amount |-> h.amount, reversed |-> None, hold |-> req[p].hold]
           event == [type |-> "hold.captured", aggregate |-> req[p].hold,
                     transfer |-> id]
           r == [h EXCEPT !.status = "captured"]
           u == [own EXCEPT
                   !.view = Captured(own.view, t), !.transfers = {t},
                   !.entries = EntriesOf(own.view, t),
                   !.holdRow = r, !.events = {event}]
<1>1. /\ pc[p] = "work" /\ pc[p] \in Staging /\ req[p].op = "capture"
      /\ UNCHANGED <<transfers, entries, rowLock>>
      /\ CanCapture(p) /\ SafeInv
      /\ tx' = [tx EXCEPT ![p] = u] /\ pc' = [pc EXCEPT ![p] = "commit"]
  BY DEF SettleHold, Staging, Goto, db, locks, EntriesInv
<1>2. /\ tx[p] \in TxState /\ TypeInv
      /\ tx \in [Clients -> TxState] /\ pc \in [Clients -> Pc]
  BY <1>1 DEF SafeInv, TypeInv, TypeOK
<1>3. /\ req[p].hold \in HoldIds /\ h.amount \in Amount
      /\ h.account \in Locked(p) /\ req[p].to \in Locked(p) /\ h.account # req[p].to
  BY <1>1, <1>2, HeldInView DEF CanCapture
<1>4. own.entries = {} /\ own.transfers = {}
  BY <1>1, ViewOf DEF EntriesInv, ClientEntries, OwnRows
<1>5. /\ t \in Transfer /\ t.from # t.to /\ t \notin own.transfers
      /\ t.from \in Locked(p) /\ t.to \in Locked(p)
  BY <1>3, <1>4 DEF Transfer, Locked
<1> HIDE DEF t, r, event
<1>6. /\ u.transfers = own.transfers \cup {t}
      /\ u.entries = own.entries \cup EntriesOf(own.view, t)
  BY <1>2, <1>4 DEF TxState
<1> HIDE DEF u
<1>7. Elsewhere(p) /\ Posts(p, t)
  BY <1>1, <1>2, <1>5, <1>6 DEF Elsewhere, Posts, Locked, Working
<1> QED
  BY <1>5, <1>7 DEF Effects

LEMMA StepEffects ==
  ASSUME EntriesInv, NEW p \in Clients,
         Call(p) \/ Acquire(p) \/ Step(p) \/ Fault(p)
  PROVE  Effects(p)
<1>1. SafeInv
  BY DEF EntriesInv
<1>2. CASE Call(p)
  BY <1>1, <1>2, CallEffects
<1>3. CASE Acquire(p)
  BY <1>1, <1>3, LockHoldEffects, LockAccountEffects, MoveEffects, EndEffects
    DEF Acquire
<1>4. CASE Step(p)
  BY <1>1, <1>4, BeginEffects, ProcessTransferEffects, SettleHoldEffects,
     MoveEffects, CommitEffects, EndEffects DEF Step
<1>5. CASE Fault(p)
  BY <1>1, <1>5, CommitEffects, EndEffects DEF Fault
<1> QED
  BY <1>2, <1>3, <1>4, <1>5

-----------------------------------------------------------------------------
(* What the clocks and the ids have to do with the versions.  A            *)
(* transaction that has read a clock has the rows of its accounts locked,  *)
(* so that what is posted on them is older by that clock, and at most      *)
(* MaxSkew younger by that of another process; what it posts itself has    *)
(* its time and ids that are larger than those of its process.             *)

TimeTypes ==
  /\ clock \in [Servers -> Nat] /\ now \in [Clients -> Nat]
  /\ server \in [Clients -> Servers \cup {None}]
  /\ createdAt \in [TransferIds -> Nat]
  /\ maker \in [TransferIds -> Servers \cup {None}]
  /\ \A s, o \in Servers : clock[s] <= clock[o] + MaxSkew
  /\ \A p \in Clients : now[p] # 0 =>
       /\ pc[p] \in Working
       /\ server[p] \in Servers /\ now[p] <= clock[server[p]]
  /\ \A id \in TransferIds :
       maker[id] # None => createdAt[id] <= clock[maker[id]]

MadeIds ==
  /\ \A e \in entries : maker[e.transfer] # None
  /\ \A t \in transfers : maker[t.id] # None

After(at, who, e, f) ==
  /\ who[e.transfer] = who[f.transfer] =>
       \/ at[e.transfer] > at[f.transfer]
       \/ at[e.transfer] = at[f.transfer] /\ e.transfer > f.transfer
  /\ at[f.transfer] <= at[e.transfer] + MaxSkew
InOrder(at, who, E) ==
  \A e, f \in E : e.version < f.version => After(at, who, f, e)

StagedEntries(p) ==
  \A e \in tx[p].entries :
    /\ e.account \in Locked(p) /\ now[p] # 0
    /\ createdAt[e.transfer] = now[p] /\ maker[e.transfer] = server[p]
StagedTransfers(p) ==
  \A t \in tx[p].transfers :
    /\ now[p] # 0 /\ maker[t.id] = server[p]
    /\ t.from \in Locked(p) /\ t.to \in Locked(p)
    /\ \A s \in transfers :
         {s.from, s.to} \cap {t.from, t.to} # {} =>
           (maker[s.id] = maker[t.id] => s.id < t.id)
Before(p) ==
  now[p] # 0 => \A e \in entries :
    e.account \in Locked(p) =>
      /\ createdAt[e.transfer] <= now[p] + MaxSkew
      /\ maker[e.transfer] = server[p] => createdAt[e.transfer] <= now[p]
OrderedView(p) ==
  \A a \in Locked(p) :
    InOrder(createdAt, maker, Of(entries \cup tx[p].entries, a))
ClientHistory(p) ==
  pc[p] \in Staging =>
    StagedEntries(p) /\ StagedTransfers(p) /\ Before(p) /\ OrderedView(p)

HistoryInv ==
  /\ EntriesInv
  /\ TimeTypes
  /\ MadeIds
  /\ \A a \in AccountIds : InOrder(createdAt, maker, Of(entries, a))
  /\ \A p \in Clients : ClientHistory(p)

LEMMA HistoryTypes ==
  ASSUME HistoryInv
  PROVE  /\ TransferIds \subseteq Nat
         /\ entries \subseteq Entry /\ transfers \subseteq Transfer
         /\ pc \in [Clients -> Pc]
         /\ \A p \in Clients : /\ tx[p].entries \subseteq Entry
                               /\ tx[p].transfers \subseteq Transfer
                               /\ Locked(p) \subseteq AccountIds
                               /\ tx[p].view \in [AccountIds -> Row]
<1>1. TransferIds \subseteq Nat
  BY HistoryAssumption, TypesAssumption, FS_CardinalityType
<1>2. SafeInv /\ TypeInv
  BY DEF HistoryInv, EntriesInv, SafeInv
<1> QED
  BY <1>1, <1>2, Typed, EntryTypes DEF TypeInv, TypeOK

LEMMA ServerIsNotNone == None \notin Servers /\ MaxSkew \in Nat
  BY HistoryAssumption

(* The order of entries goes by the times and makers of their transfers    *)
(* only.                                                                   *)
LEMMA OrderSame ==
  ASSUME NEW at, NEW who, NEW later, NEW makers, NEW E, InOrder(at, who, E),
         \A e \in E : /\ later[e.transfer] = at[e.transfer]
                      /\ makers[e.transfer] = who[e.transfer]
  PROVE  InOrder(later, makers, E)
<1>1. \A e, f \in E : After(at, who, e, f) => After(later, makers, e, f)
  BY DEF After
<1> QED
  BY <1>1 DEF InOrder

LEMMA OrderGoesOn ==
  ASSUME NEW at, NEW who, NEW E \in SUBSET Entry, NEW e, e.version \in Int,
         InOrder(at, who, E),
         \A f \in E : f.version < e.version /\ After(at, who, e, f)
  PROVE  InOrder(at, who, E \cup {e})
<1>1. \A f \in E : f.version \in Int
  BY DEF Entry
<1> QED
  BY <1>1 DEF InOrder

(* Posting: one client's view goes on, with the time it has read.          *)
LEMMA GenerateHistory ==
  ASSUME HistoryInv, NEW p \in Clients, NEW id \in TransferIds,
         Generate(p, id), EntriesInv'
  PROVE  HistoryInv'
<1>1. PICK t \in Transfer : Posts(p, t) /\ t.id = id
  <2>1. Effects(p) /\ Staged(p) = {id}
    BY StepEffects DEF Generate, HistoryInv
  <2>2. ASSUME tx'[p].transfers \subseteq tx[p].transfers PROVE FALSE
    <3>1. Staged(p) = {}
      BY <2>2 DEF Staged
    <3> QED
      BY <2>1, <3>1
  <2>3. PICK t \in Transfer : Posts(p, t)
    BY <2>1, <2>2 DEF Effects, Leaves, Opens, Moves, Commits
  <2>4. tx'[p].transfers \ tx[p].transfers = {t}
    BY <2>3 DEF Posts
  <2>5. Staged(p) = {t.id}
    BY <2>4 DEF Staged
  <2> QED
    BY <2>1, <2>3, <2>5
<1>2. /\ UNCHANGED <<clock, now, server, transfers, entries>>
      /\ createdAt' = [createdAt EXCEPT ![id] = now[p]]
      /\ maker' = [maker EXCEPT ![id] = server[p]]
      /\ now[p] # 0 /\ Elsewhere(p)
  BY <1>1, StepEffects DEF Generate, EntryTime, Posts, HistoryInv, Effects
<1>3. /\ maker[id] = None
      /\ \A n \in TransferIds : maker[n] = server[p] => n < id
  BY DEF Generate
<1>4. /\ TransferIds \subseteq Nat
      /\ now \in [Clients -> Nat] /\ createdAt \in [TransferIds -> Nat]
      /\ maker \in [TransferIds -> Servers \cup {None}]
      /\ clock \in [Servers -> Nat]
      /\ server[p] \in Servers /\ now[p] <= clock[server[p]]
  BY <1>2, HistoryTypes DEF HistoryInv, TimeTypes
<1>5. \A e \in Entry : e.transfer \in TransferIds /\ e.version \in Nat
  BY DEF Entry
<1>6. /\ createdAt'[id] = now[p] /\ maker'[id] = server[p]
      /\ \A n \in TransferIds : maker[n] # None =>
           createdAt'[n] = createdAt[n] /\ maker'[n] = maker[n]
  BY <1>2, <1>3, <1>4
<1>7. TimeTypes'
  <2>1. /\ createdAt' \in [TransferIds -> Nat]
        /\ maker' \in [TransferIds -> Servers \cup {None}]
    BY <1>2, <1>4
  <2>2. ASSUME NEW n \in TransferIds, maker'[n] # None
        PROVE  createdAt'[n] <= clock[maker'[n]]
    <3>1. CASE n = id
      BY <1>4, <1>6, <3>1
    <3>2. CASE n # id
      <4>1. maker'[n] = maker[n] /\ createdAt'[n] = createdAt[n]
        BY <1>2, <1>4, <3>2
      <4> QED
        BY <2>2, <4>1 DEF HistoryInv, TimeTypes
    <3> QED
      BY <3>1, <3>2
  <2>3. ASSUME NEW q \in Clients, now[q] # 0
        PROVE  /\ pc'[q] \in Working
               /\ server[q] \in Servers /\ now[q] <= clock[server[q]]
    <3>1. pc'[q] \in Working
      BY <1>1, <1>2, <2>3 DEF HistoryInv, TimeTypes, Elsewhere, Posts
    <3> QED
      BY <2>3, <3>1 DEF HistoryInv, TimeTypes
  <2> QED
    BY <1>2, <2>1, <2>2, <2>3 DEF HistoryInv, TimeTypes
<1>8. MadeIds'
  <2>1. /\ \A e \in entries : e.transfer \in TransferIds
        /\ \A s \in transfers : s.id \in TransferIds
    BY <1>5, HistoryTypes DEF Transfer
  <2> QED
    BY <1>2, <1>6, <2>1 DEF HistoryInv, MadeIds
<1>9. ASSUME NEW E, E \subseteq Entry, \A e \in E : maker[e.transfer] # None,
             InOrder(createdAt, maker, E)
      PROVE  InOrder(createdAt', maker', E)
  <2>1. \A e \in E : /\ createdAt'[e.transfer] = createdAt[e.transfer]
                     /\ maker'[e.transfer] = maker[e.transfer]
    BY <1>5, <1>6, <1>9
  <2> QED
    BY <1>9, <2>1, OrderSame
<1>10. \A a \in AccountIds : InOrder(createdAt', maker', Of(entries', a))
  <2>1. TAKE a \in AccountIds
  <2>2. /\ Of(entries, a) \subseteq Entry
        /\ \A e \in Of(entries, a) : maker[e.transfer] # None
    BY HistoryTypes DEF HistoryInv, MadeIds, Of
  <2>3. InOrder(createdAt, maker, Of(entries, a))
    BY DEF HistoryInv
  <2> QED
    BY <1>2, <1>9, <2>2, <2>3
<1>11. ASSUME NEW q \in Clients, pc[q] \in Staging
       PROVE  /\ StagedEntries(q) /\ StagedTransfers(q)
              /\ Before(q) /\ OrderedView(q)
              /\ \A e \in entries \cup tx[q].entries :
                   /\ e \in Entry /\ maker[e.transfer] # None
                   /\ createdAt'[e.transfer] = createdAt[e.transfer]
                   /\ maker'[e.transfer] = maker[e.transfer]
              /\ \A a : InOrder(createdAt, maker,
                                Of(entries \cup tx[q].entries, a)) =>
                        InOrder(createdAt', maker',
                                Of(entries \cup tx[q].entries, a))
              /\ \A s \in transfers \cup tx[q].transfers :
                   s \in Transfer /\ maker'[s.id] = maker[s.id]
  <2>1. ClientHistory(q)
    BY DEF HistoryInv
  <2>2. /\ StagedEntries(q) /\ StagedTransfers(q)
        /\ Before(q) /\ OrderedView(q)
    BY <1>11, <2>1 DEF ClientHistory
  <2>3. now[q] # 0 => server[q] # None
    BY ServerIsNotNone DEF HistoryInv, TimeTypes
  <2>4. \A e \in entries \cup tx[q].entries :
          e \in Entry /\ maker[e.transfer] # None
    BY <2>2, <2>3, HistoryTypes DEF StagedEntries, HistoryInv, MadeIds
  <2>5. \A s \in transfers \cup tx[q].transfers :
          s \in Transfer /\ maker[s.id] # None
    BY <2>2, <2>3, HistoryTypes DEF StagedTransfers, HistoryInv, MadeIds
  <2>6. \A e \in entries \cup tx[q].entries :
          /\ createdAt'[e.transfer] = createdAt[e.transfer]
          /\ maker'[e.transfer] = maker[e.transfer]
    BY <1>5, <1>6, <2>4
  <2>7. \A s \in transfers \cup tx[q].transfers : maker'[s.id] = maker[s.id]
    BY <1>6, <2>5 DEF Transfer
  <2>8. ASSUME NEW a
        PROVE  InOrder(createdAt, maker, Of(entries \cup tx[q].entries, a)) =>
               InOrder(createdAt', maker', Of(entries \cup tx[q].entries, a))
    <3>1. /\ Of(entries \cup tx[q].entries, a) \subseteq Entry
          /\ \A e \in Of(entries \cup tx[q].entries, a) :
               maker[e.transfer] # None
      BY <2>4 DEF Of
    <3> QED
      BY <1>9, <3>1
  <2> QED
    BY <2>2, <2>4, <2>5, <2>6, <2>7, <2>8
<1>12. ASSUME NEW q \in Clients \ {p} PROVE ClientHistory(q)'
  <2>1. CASE pc[q] \notin Staging
    BY <1>2, <2>1 DEF ClientHistory, Elsewhere
  <2>2. CASE pc[q] \in Staging
    <3>1. /\ tx'[q] = tx[q] /\ Locked(q)' = Locked(q)
      BY <1>2 DEF Elsewhere
    <3>2. StagedEntries(q)'
      <4>1. StagedEntries(q)
        BY <1>11, <2>2
      <4>2. \A e \in tx[q].entries :
              /\ createdAt'[e.transfer] = createdAt[e.transfer]
              /\ maker'[e.transfer] = maker[e.transfer]
        BY <1>11, <2>2
      <4> QED
        BY <1>2, <3>1, <4>1, <4>2 DEF StagedEntries
    <3>3. StagedTransfers(q)'
      <4>1. StagedTransfers(q)
        BY <1>11, <2>2
      <4>2. \A s \in transfers \cup tx[q].transfers : maker'[s.id] = maker[s.id]
        BY <1>11, <2>2
      <4> QED
        BY <1>2, <3>1, <4>1, <4>2 DEF StagedTransfers
    <3>4. Before(q)'
      <4>1. /\ Before(q)
            /\ \A e \in entries :
                 /\ createdAt'[e.transfer] = createdAt[e.transfer]
                 /\ maker'[e.transfer] = maker[e.transfer]
        BY <1>11, <2>2
      <4> QED
        BY <1>2, <3>1, <4>1 DEF Before
    <3>5. OrderedView(q)'
      BY <1>2, <1>11, <2>2, <3>1 DEF OrderedView
    <3> QED
      BY <3>2, <3>3, <3>4, <3>5 DEF ClientHistory
  <2> QED
    BY <2>1, <2>2
<1>13. ClientHistory(p)'
  <2> DEFINE v == tx[p].view
             d == Leg(v, t, t.from, -t.amount)
             c == Leg(v, t, t.to, t.amount)
             old == entries \cup tx[p].entries
  <2>1. /\ pc[p] \in Staging /\ Locked(p)' = Locked(p)
        /\ t.from # t.to /\ t.from \in Locked(p) /\ t.to \in Locked(p)
        /\ tx'[p].entries = tx[p].entries \cup {d, c}
        /\ tx'[p].transfers = tx[p].transfers \cup {t}
    BY <1>1 DEF Posts, EntriesOf, Staging
  <2>2. /\ d.account = t.from /\ d.transfer = id
        /\ d.version = v[t.from].version + 1
        /\ c.account = t.to /\ c.transfer = id
        /\ c.version = v[t.to].version + 1
    BY <1>1 DEF Leg
  <2> HIDE DEF d, c
  <2>3. StagedEntries(p)'
    <3>1. \A e \in tx'[p].entries :
            \/ e \in tx[p].entries
            \/ e.transfer = id /\ e.account \in Locked(p)
      BY <2>1, <2>2
    <3>2. \A e \in tx[p].entries :
            /\ e.account \in Locked(p)
            /\ createdAt'[e.transfer] = now[p]
            /\ maker'[e.transfer] = server[p]
      BY <1>11, <2>1 DEF StagedEntries
    <3> QED
      BY <1>2, <1>6, <2>1, <3>1, <3>2 DEF StagedEntries
  <2>4. StagedTransfers(p)'
    <3>1. /\ StagedTransfers(p)
          /\ \A s \in transfers \cup tx[p].transfers :
               s.id \in TransferIds /\ maker'[s.id] = maker[s.id]
      BY <1>11, <2>1 DEF Transfer
    <3>2. ASSUME NEW x \in tx'[p].transfers
          PROVE  /\ maker'[x.id] = server[p]
                 /\ x.from \in Locked(p) /\ x.to \in Locked(p)
                 /\ \A s \in transfers :
                      {s.from, s.to} \cap {x.from, x.to} # {} =>
                        (maker'[s.id] = maker'[x.id] => s.id < x.id)
      <4>1. CASE x \in tx[p].transfers
        BY <3>1, <4>1 DEF StagedTransfers
      <4>2. CASE x = t
        BY <1>1, <1>3, <1>6, <2>1, <3>1, <4>2
      <4> QED
        BY <2>1, <3>2, <4>1, <4>2
    <3> QED
      BY <1>2, <2>1, <3>2 DEF StagedTransfers
  <2>5. Before(p)'
    <3>1. /\ Before(p)
          /\ \A e \in entries :
               /\ createdAt'[e.transfer] = createdAt[e.transfer]
               /\ maker'[e.transfer] = maker[e.transfer]
      BY <1>11, <2>1
    <3> QED
      BY <1>2, <2>1, <3>1 DEF Before
  <2>6. ASSUME NEW a \in Locked(p), NEW e, e \in {d, c}, e.account = a
        PROVE  InOrder(createdAt', maker', Of(old, a) \cup {e})
    <3>1. /\ InOrder(createdAt', maker', Of(old, a))
          /\ Of(old, a) \in SUBSET Entry
      <4>1. OrderedView(p) /\ \A f \in old : f \in Entry
        BY <1>11, <2>1
      <4>2. InOrder(createdAt', maker', Of(old, a))
        BY <1>11, <2>1, <4>1 DEF OrderedView
      <4> QED
        BY <4>1, <4>2 DEF Of
    <3>2. e.version = v[a].version + 1 /\ v[a].version \in Nat
      BY <2>2, <2>6, HistoryTypes DEF Row
    <3>3. Chain(Of(old, a), v[a])
      BY <2>1, <2>6 DEF HistoryInv, EntriesInv, ClientEntries
    <3>4. ASSUME NEW f \in Of(old, a) PROVE f.version < e.version
      <4>1. f.version \in Nat /\ f.version <= v[a].version
        BY <3>1, <3>3 DEF Chain, Entry
      <4> QED
        BY <3>2, <4>1
    <3>5. ASSUME NEW f \in Of(old, a) PROVE After(createdAt', maker', e, f)
      <4>1. /\ f \in old /\ f.account = a
            /\ f.transfer \in TransferIds /\ maker[f.transfer] # None
            /\ createdAt'[f.transfer] = createdAt[f.transfer]
            /\ maker'[f.transfer] = maker[f.transfer]
        BY <1>5, <1>11, <2>1 DEF Of
      <4>2. /\ createdAt[f.transfer] <= now[p] + MaxSkew
            /\ maker[f.transfer] = server[p] => createdAt[f.transfer] <= now[p]
        <5>1. CASE f \in entries
          <6>1. Before(p)
            BY <1>11, <2>1
          <6> QED
            BY <1>2, <2>6, <4>1, <5>1, <6>1 DEF Before
        <5>2. CASE f \in tx[p].entries
          <6>1. createdAt[f.transfer] = now[p]
            BY <1>11, <2>1, <5>2 DEF StagedEntries
          <6>2. now[p] \in Nat /\ MaxSkew \in Nat
            BY <1>4, ServerIsNotNone
          <6> QED
            BY <6>1, <6>2
        <5> QED
          BY <4>1, <5>1, <5>2
      <4>3. /\ e.transfer = id /\ createdAt'[e.transfer] = now[p]
            /\ maker'[e.transfer] = server[p]
        BY <1>6, <2>2, <2>6
      <4>4. maker[f.transfer] = server[p] => f.transfer < id
        BY <1>3, <4>1
      <4>5. /\ f.transfer \in Nat /\ id \in Nat /\ now[p] \in Nat
            /\ createdAt[f.transfer] \in Nat
        BY <1>4, <4>1
      <4>6. maker[f.transfer] = server[p] =>
              \/ now[p] > createdAt[f.transfer]
              \/ now[p] = createdAt[f.transfer] /\ id > f.transfer
        BY <4>2, <4>4, <4>5
      <4> QED
        BY <4>1, <4>2, <4>3, <4>6 DEF After
    <3>6. e.version \in Int
      BY <3>2
    <3> HIDE DEF old
    <3> QED
      BY <3>1, <3>4, <3>5, <3>6, OrderGoesOn
  <2>7. OrderedView(p)'
    <3>1. SUFFICES ASSUME NEW a \in Locked(p)
                   PROVE  InOrder(createdAt', maker',
                                  Of(entries' \cup tx'[p].entries, a))
      BY <2>1 DEF OrderedView
    <3>2. entries' \cup tx'[p].entries = old \cup {d, c}
      BY <1>2, <2>1
    <3>3. \/ Of(old \cup {d, c}, a) = Of(old, a) /\ a # t.from /\ a # t.to
          \/ Of(old \cup {d, c}, a) = Of(old, a) \cup {d} /\ d.account = a
          \/ Of(old \cup {d, c}, a) = Of(old, a) \cup {c} /\ c.account = a
      BY <2>1, <2>2 DEF Of
    <3>4. InOrder(createdAt', maker', Of(old, a))
      BY <1>11, <2>1 DEF OrderedView
    <3> QED
      BY <2>6, <3>2, <3>3, <3>4
  <2> QED
    BY <2>3, <2>4, <2>5, <2>7 DEF ClientHistory
<1> QED
  BY <1>7, <1>8, <1>10, <1>12, <1>13 DEF HistoryInv

(* What the other clients have staged stays as it is: a commit concerns    *)
(* none of the accounts they have locked.                                  *)
LEMMA OtherHistory ==
  ASSUME HistoryInv, NEW p \in Clients, NEW q \in Clients \ {p},
         Elsewhere(p), now'[q] = now[q], server'[q] = server[q],
         UNCHANGED <<createdAt, maker>>,
         UNCHANGED <<transfers, entries>> \/ Commits(p)
  PROVE  ClientHistory(q)'
<1>1. /\ pc'[q] = pc[q] /\ tx'[q] = tx[q] /\ Locked(q)' = Locked(q)
      /\ ClientHistory(q) /\ ClientHistory(p)
  BY DEF Elsewhere, HistoryInv
<1>2. CASE pc[q] \notin Staging
  BY <1>1, <1>2 DEF ClientHistory
<1>3. CASE pc[q] \in Staging /\ UNCHANGED <<transfers, entries>>
  BY <1>1, <1>3
    DEF ClientHistory, StagedEntries, StagedTransfers, Before, OrderedView
<1>4. CASE pc[q] \in Staging /\ Commits(p)
  <2>1. /\ \A e \in tx[p].entries : e.account \in Locked(p)
        /\ \A t \in tx[p].transfers : t.from \in Locked(p) /\ t.to \in Locked(p)
        /\ entries' = entries \cup tx[p].entries
        /\ transfers' = transfers \cup tx[p].transfers
    BY <1>1, <1>4
      DEF Commits, ClientHistory, StagedEntries, StagedTransfers, Staging
  <2>2. \A a \in Locked(q) : a \notin Locked(p)
    BY DEF Locked
  <2>3. StagedEntries(q) /\ StagedTransfers(q) /\ Before(q) /\ OrderedView(q)
    BY <1>1, <1>4 DEF ClientHistory
  <2>4. StagedEntries(q)'
    BY <1>1, <2>3 DEF StagedEntries
  <2>5. StagedTransfers(q)'
    <3>1. ASSUME NEW t \in tx[q].transfers, NEW s \in tx[p].transfers
          PROVE  {s.from, s.to} \cap {t.from, t.to} = {}
      BY <2>1, <2>2, <2>3, <3>1 DEF StagedTransfers
    <3> QED
      BY <1>1, <2>1, <2>3, <3>1 DEF StagedTransfers
  <2>6. Before(q)'
    BY <1>1, <2>1, <2>2, <2>3 DEF Before
  <2>7. OrderedView(q)'
    <3>1. \A a \in Locked(q) : Of(entries' \cup tx[q].entries, a) =
                               Of(entries \cup tx[q].entries, a)
      BY <2>1, <2>2 DEF Of
    <3> QED
      BY <1>1, <2>3, <3>1 DEF OrderedView
  <2> QED
    BY <2>4, <2>5, <2>6, <2>7 DEF ClientHistory
<1> QED
  BY <1>2, <1>3, <1>4

LEMMA HandleHistory ==
  ASSUME HistoryInv, NEW p \in Clients, EntriesInv',
         Call(p) \/ Acquire(p) \/ Step(p) \/ Fault(p), Staged(p) = {},
         LET on == pc'[p] \in {"lock", "work", "audit", "commit"} IN
         /\ now' = [now EXCEPT ![p] = IF on THEN @ ELSE 0]
         /\ server' = [server EXCEPT ![p] = IF on THEN @ ELSE None],
         UNCHANGED <<clock, createdAt, maker>>
  PROVE  HistoryInv'
<1>1. Effects(p)
  BY StepEffects DEF HistoryInv
<1>2. ASSUME NEW t \in Transfer, Posts(p, t) PROVE FALSE
  <2>1. t.id \in Staged(p)
    BY <1>2 DEF Posts, Staged
  <2> QED
    BY <2>1
<1>3. /\ Elsewhere(p)
      /\ Leaves(p) \/ Opens(p) \/ Moves(p) \/ Commits(p)
      /\ UNCHANGED <<transfers, entries>> \/ Commits(p)
  BY <1>1, <1>2 DEF Effects, Leaves, Opens, Moves
<1>4. /\ now \in [Clients -> Nat] /\ now' \in [Clients -> Nat]
      /\ server' \in [Clients -> Servers \cup {None}]
      /\ \A q \in Clients \ {p} :
           now'[q] = now[q] /\ server'[q] = server[q] /\ pc'[q] = pc[q]
      /\ now'[p] = IF pc'[p] \in Staging THEN now[p] ELSE 0
      /\ pc'[p] \in Staging => server'[p] = server[p]
  BY <1>3 DEF HistoryInv, TimeTypes, Elsewhere, Staging
<1>5. TimeTypes'
  <2>1. now'[p] # 0 => pc'[p] \in Working /\ pc'[p] \in Staging
    BY <1>3, <1>4
      DEF HistoryInv, TimeTypes, Leaves, Opens, Moves, Commits, Working
  <2>2. now'[p] # 0 => /\ server'[p] \in Servers
                       /\ now'[p] <= clock[server'[p]]
    BY <1>4, <2>1 DEF HistoryInv, TimeTypes
  <2>3. ASSUME NEW q \in Clients, now'[q] # 0
        PROVE  /\ pc'[q] \in Working
               /\ server'[q] \in Servers /\ now'[q] <= clock[server'[q]]
    <3>1. CASE q = p
      BY <2>1, <2>2, <2>3, <3>1
    <3>2. CASE q # p
      BY <1>4, <2>3, <3>2 DEF HistoryInv, TimeTypes
    <3> QED
      BY <3>1, <3>2
  <2> QED
    BY <1>4, <2>3 DEF HistoryInv, TimeTypes
<1>6. ClientHistory(p)
  BY DEF HistoryInv
<1>7. MadeIds'
  <2>1. CASE UNCHANGED <<transfers, entries>>
    BY <2>1 DEF HistoryInv, MadeIds
  <2>2. CASE Commits(p)
    <3>1. /\ StagedEntries(p) /\ StagedTransfers(p)
          /\ entries' = entries \cup tx[p].entries
          /\ transfers' = transfers \cup tx[p].transfers
      BY <1>6, <2>2 DEF Commits, ClientHistory, Staging
    <3>2. now[p] # 0 => server[p] # None
      BY ServerIsNotNone DEF HistoryInv, TimeTypes
    <3> QED
      BY <3>1, <3>2 DEF HistoryInv, MadeIds, StagedEntries, StagedTransfers
  <2> QED
    BY <1>3, <2>1, <2>2
<1>8. \A a \in AccountIds : InOrder(createdAt, maker, Of(entries', a))
  <2>1. CASE UNCHANGED <<transfers, entries>>
    BY <2>1 DEF HistoryInv
  <2>2. ASSUME Commits(p), NEW a \in AccountIds
        PROVE  InOrder(createdAt, maker, Of(entries', a))
    <3>1. /\ entries' = entries \cup tx[p].entries
          /\ StagedEntries(p) /\ OrderedView(p)
      BY <1>6, <2>2 DEF Commits, ClientHistory, Staging
    <3>2. CASE a \in Locked(p)
      BY <3>1, <3>2 DEF OrderedView
    <3>3. CASE a \notin Locked(p)
      <4>1. Of(entries', a) = Of(entries, a)
        BY <3>1, <3>3 DEF Of, StagedEntries
      <4> QED
        BY <4>1 DEF HistoryInv
    <3> QED
      BY <3>2, <3>3
  <2> QED
    BY <1>3, <2>1, <2>2
<1>9. ASSUME NEW q \in Clients \ {p} PROVE ClientHistory(q)'
  BY <1>3, <1>4, OtherHistory
<1>10. ClientHistory(p)'
  <2>1. CASE Leaves(p) \/ Commits(p)
    BY <2>1 DEF Leaves, Commits, ClientHistory
  <2>2. CASE Opens(p)
    <3>1. /\ now[p] = 0 /\ now'[p] = 0
          /\ tx'[p].transfers = {} /\ tx'[p].entries = {}
          /\ entries' \cup tx'[p].entries = entries
      BY <1>4, <2>2 DEF Opens, HistoryInv, TimeTypes
    <3>2. StagedEntries(p)' /\ StagedTransfers(p)' /\ Before(p)'
      BY <3>1 DEF StagedEntries, StagedTransfers, Before
    <3>3. OrderedView(p)'
      <4>1. Locked(p)' \subseteq AccountIds
        BY DEF Locked
      <4> QED
        BY <3>1, <4>1 DEF OrderedView, HistoryInv
    <3> QED
      BY <3>2, <3>3 DEF ClientHistory
  <2>3. CASE Moves(p)
    <3>1. /\ pc[p] \in Staging /\ pc'[p] \in Staging
          /\ now'[p] = now[p] /\ server'[p] = server[p]
      BY <1>4, <2>3 DEF Moves, Working, Staging
    <3>2. /\ StagedEntries(p) /\ StagedTransfers(p)
          /\ Before(p) /\ OrderedView(p)
      BY <1>6, <3>1 DEF ClientHistory
    <3> QED
      BY <2>3, <3>1, <3>2 DEF Moves, ClientHistory, StagedEntries,
         StagedTransfers, Before, OrderedView
  <2> QED
    BY <1>3, <2>1, <2>2, <2>3
<1> QED
  BY <1>5, <1>7, <1>8, <1>9, <1>10 DEF HistoryInv

(* What is posted on the rows a transaction has locked is no younger than  *)
(* its clock allows.                                                       *)
LEMMA ReadClockHistory ==
  ASSUME HistoryInv, NEW p \in Clients, NEW s \in Servers, ReadClock(p, s),
         EntriesInv'
  PROVE  HistoryInv'
<1>1. /\ pc[p] = "work" /\ now[p] = 0
      /\ now' = [now EXCEPT ![p] = clock[s]]
      /\ server' = [server EXCEPT ![p] = s]
      /\ UNCHANGED <<db, locks, pc, tx, clock, createdAt, maker>>
  BY DEF ReadClock, AllLocked, vars
<1>2. UNCHANGED <<transfers, entries, rowLock>>
  BY <1>1 DEF db, locks
<1>3. /\ now \in [Clients -> Nat] /\ clock \in [Servers -> Nat]
      /\ server \in [Clients -> Servers \cup {None}]
      /\ now'[p] = clock[s] /\ server'[p] = s
      /\ \A q \in Clients \ {p} : now'[q] = now[q] /\ server'[q] = server[q]
  BY <1>1 DEF HistoryInv, TimeTypes
<1>4. TimeTypes'
  <2>1. /\ now' \in [Clients -> Nat]
        /\ server' \in [Clients -> Servers \cup {None}]
    BY <1>1, <1>3
  <2>2. ASSUME NEW q \in Clients, now'[q] # 0
        PROVE  /\ pc[q] \in Working
               /\ server'[q] \in Servers /\ now'[q] <= clock[server'[q]]
    <3>1. CASE q = p
      BY <1>1, <1>3, <3>1 DEF Working
    <3>2. CASE q # p
      BY <1>3, <2>2, <3>2 DEF HistoryInv, TimeTypes
    <3> QED
      BY <3>1, <3>2
  <2> QED
    BY <1>1, <2>1, <2>2 DEF HistoryInv, TimeTypes
<1>5. MadeIds' /\ (\A a \in AccountIds : InOrder(createdAt, maker, Of(entries, a)))'
  BY <1>1, <1>2 DEF HistoryInv, MadeIds
<1>6. \A q \in Clients : Locked(q)' = Locked(q) /\ ClientHistory(q)
  BY <1>2 DEF Locked, HistoryInv
<1>7. ASSUME NEW q \in Clients \ {p} PROVE ClientHistory(q)'
  <2>1. /\ now'[q] = now[q] /\ server'[q] = server[q]
        /\ Locked(q)' = Locked(q) /\ ClientHistory(q)
        /\ UNCHANGED <<transfers, entries, pc, tx, createdAt, maker>>
    BY <1>1, <1>2, <1>3, <1>6
  <2> QED
    BY <2>1
      DEF ClientHistory, StagedEntries, StagedTransfers, Before, OrderedView
<1>8. ClientHistory(p)'
  <2>1. /\ StagedEntries(p) /\ StagedTransfers(p) /\ OrderedView(p)
        /\ tx[p].entries = {} /\ tx[p].transfers = {}
    BY <1>1, <1>6 DEF ClientHistory, StagedEntries, StagedTransfers, Staging
  <2>2. Before(p)'
    <3>1. ASSUME NEW e \in entries
          PROVE  /\ createdAt[e.transfer] <= clock[s] + MaxSkew
                 /\ maker[e.transfer] = s => createdAt[e.transfer] <= clock[s]
      <4>1. e.transfer \in TransferIds /\ maker[e.transfer] # None
        BY HistoryTypes DEF Entry, HistoryInv, MadeIds
      <4>2. /\ maker[e.transfer] \in Servers
            /\ createdAt[e.transfer] \in Nat
            /\ createdAt[e.transfer] <= clock[maker[e.transfer]]
            /\ clock[maker[e.transfer]] <= clock[s] + MaxSkew
        BY <4>1 DEF HistoryInv, TimeTypes
      <4>3. clock[maker[e.transfer]] \in Nat /\ clock[s] \in Nat
        BY <1>3, <4>2
      <4> QED
        BY <4>2, <4>3, ServerIsNotNone
    <3> QED
      BY <1>1, <1>2, <1>3, <3>1 DEF Before
  <2>3. StagedEntries(p)' /\ StagedTransfers(p)' /\ OrderedView(p)'
    BY <1>1, <1>2, <1>6, <2>1 DEF StagedEntries, StagedTransfers, OrderedView
  <2> QED
    BY <2>2, <2>3 DEF ClientHistory
<1> QED
  BY <1>4, <1>5, <1>7, <1>8 DEF HistoryInv

(* The clocks, and what only reads.                                        *)
LEMMA QuietHistory ==
  ASSUME HistoryInv, EntriesInv',
         UNCHANGED <<vars, now, server, createdAt, maker>>,
         clock' \in [Servers -> Nat],
         \A s \in Servers : clock[s] <= clock'[s],
         \A s, o \in Servers : clock'[s] <= clock'[o] + MaxSkew
  PROVE  HistoryInv'
<1>1. UNCHANGED <<transfers, entries, rowLock, pc, tx, now, server, createdAt,
                  maker>>
  BY DEF vars, db, locks
<1>2. TimeTypes'
  <2>1. clock \in [Servers -> Nat]
    BY DEF HistoryInv, TimeTypes
  <2>2. ASSUME NEW p \in Clients, now[p] # 0
        PROVE  /\ pc[p] \in Working
               /\ server[p] \in Servers /\ now[p] <= clock'[server[p]]
    <3>1. /\ pc[p] \in Working /\ server[p] \in Servers
          /\ now[p] <= clock[server[p]] /\ now[p] \in Nat
      BY <2>2 DEF HistoryInv, TimeTypes
    <3>2. /\ clock[server[p]] \in Nat /\ clock'[server[p]] \in Nat
          /\ clock[server[p]] <= clock'[server[p]]
      BY <2>1, <3>1
    <3> QED
      BY <3>1, <3>2
  <2>3. ASSUME NEW id \in TransferIds, maker[id] # None
        PROVE  createdAt[id] <= clock'[maker[id]]
    <3>1. /\ maker[id] \in Servers /\ createdAt[id] \in Nat
          /\ createdAt[id] <= clock[maker[id]]
      BY <2>3 DEF HistoryInv, TimeTypes
    <3>2. /\ clock[maker[id]] \in Nat /\ clock'[maker[id]] \in Nat
          /\ clock[maker[id]] <= clock'[maker[id]]
      BY <2>1, <3>1
    <3> QED
      BY <3>1, <3>2
  <2> QED
    BY <1>1, <2>2, <2>3 DEF HistoryInv, TimeTypes
<1>3. MadeIds' /\ (\A a \in AccountIds : InOrder(createdAt, maker, Of(entries, a)))'
  BY <1>1 DEF HistoryInv, MadeIds
<1>4. ASSUME NEW p \in Clients PROVE ClientHistory(p)'
  <2>1. ClientHistory(p) /\ Locked(p)' = Locked(p)
    BY <1>1 DEF HistoryInv, Locked
  <2> QED
    BY <1>1, <2>1 DEF ClientHistory, StagedEntries, StagedTransfers, Before,
       OrderedView
<1> QED
  BY <1>2, <1>3, <1>4 DEF HistoryInv

LEMMA LedgerSteps == [NextAll]_historyVars => [Next]_vars
<1>1. \A p \in Clients : Handle(p) => [Next]_vars
  BY DEF Handle, ReadClock, Generate, Next
<1> QED
  BY <1>1 DEF NextAll, Tick, FirstPage, NextPage, historyVars

LEMMA HistoryInit == InitAll => HistoryInv
<1> SUFFICES ASSUME InitAll PROVE HistoryInv
  OBVIOUS
<1>1. EntriesInv
  BY EntriesInvInit DEF InitAll
<1>2. TimeTypes
  BY ServerIsNotNone DEF InitAll, InitHistory, TimeTypes
<1>3. /\ MadeIds
      /\ \A a \in AccountIds : InOrder(createdAt, maker, Of(entries, a))
      /\ \A p \in Clients : ClientHistory(p)
  BY DEF InitAll, Init, MadeIds, InOrder, Of, ClientHistory, Staging
<1> QED
  BY <1>1, <1>2, <1>3 DEF HistoryInv

LEMMA HistoryStep == HistoryInv /\ [NextAll]_historyVars => HistoryInv'
<1> SUFFICES ASSUME HistoryInv, [NextAll]_historyVars PROVE HistoryInv'
  OBVIOUS
<1>1. EntriesInv'
  BY LedgerSteps, EntriesInvStep DEF HistoryInv
<1>2. ASSUME NEW p \in Clients, Handle(p) PROVE HistoryInv'
  BY <1>1, <1>2, ReadClockHistory, GenerateHistory, HandleHistory DEF Handle
<1>3. /\ clock \in [Servers -> Nat]
      /\ \A s, o \in Servers : clock[s] <= clock[o] + MaxSkew
  BY DEF HistoryInv, TimeTypes
<1>4. CASE FirstPage \/ NextPage \/ UNCHANGED historyVars
  <2>1. UNCHANGED <<vars, now, server, createdAt, maker, clock>>
    BY <1>4 DEF FirstPage, NextPage, historyVars, time
  <2> QED
    BY <1>1, <1>3, <2>1, QuietHistory
<1>5. ASSUME NEW S \in SUBSET Servers, Tick(S) PROVE HistoryInv'
  <2>1. /\ UNCHANGED <<vars, now, server, createdAt, maker>>
        /\ clock' = [s \in Servers |->
                       IF s \in S THEN clock[s] + 1 ELSE clock[s]]
        /\ \A s, o \in Servers : clock'[s] <= clock'[o] + MaxSkew
    BY <1>5 DEF Tick
  <2>2. /\ clock' \in [Servers -> Nat]
        /\ \A s \in Servers : clock[s] <= clock'[s]
    BY <1>3, <2>1
  <2> QED
    BY <1>1, <2>1, <2>2, QuietHistory
<1> QED
  BY <1>2, <1>4, <1>5 DEF NextAll

LEMMA HistoryAlways == SpecAll => []HistoryInv
  BY HistoryInit, HistoryStep, PTL DEF SpecAll

(* Of the entries posted by a time, the last in time is the last version,  *)
(* where one process has posted them all.                                  *)
OneMaker(a) == \E s : \A e \in Of(entries, a) : maker[e.transfer] = s

LEMMA LastPosted ==
  ASSUME HistoryInv, NEW a \in AccountIds, NEW t \in Nat, OneMaker(a)
  PROVE  GetAccountBalanceAtTime(a, t) = C!BalanceAfter(PostedBy(a, t))
<1> DEFINE P == PostedBy(a, t)
<1>1. /\ P \subseteq Of(entries, a) /\ \A e \in P : e \in Entry
      /\ TransferIds \subseteq Nat
  BY HistoryTypes DEF PostedBy, C!EntriesFor, Of
<1>2. /\ Chain(Of(entries, a), row[a])
      /\ InOrder(createdAt, maker, Of(entries, a))
      /\ row[a].version \in Nat /\ createdAt \in [TransferIds -> Nat]
  BY DEF HistoryInv, TimeTypes, EntriesInv, SafeInv, TypeInv, TypeOK, Row
<1> HIDE DEF P
<1>3. CASE P = {}
  BY <1>3 DEF GetAccountBalanceAtTime, C!BalanceAfter, P
<1>4. CASE P # {}
  <2> DEFINE T == {e.version : e \in P}
  <2>1. \A e \in P : e.version \in Nat /\ e.version <= row[a].version
    BY <1>1, <1>2 DEF Entry, Chain
  <2>2. T \in SUBSET Nat /\ T # {} /\ \A n \in T : n <= row[a].version
    BY <1>4, <2>1
  <2>3. IsFiniteSet(T) /\ T \subseteq Int
    <3> HIDE DEF T
    <3>1. T \in SUBSET Nat /\ row[a].version \in Nat
      BY <1>2, <2>2
    <3>2. IsFiniteSet(T)
      BY <2>2, <3>1, FS_BoundedSetOfNaturals
    <3> QED
      BY <3>1, <3>2
  <2>4. PICK e \in P : \A n \in T : n <= e.version
    <3> HIDE DEF T
    <3>1. PICK m \in T : \A n \in T : n <= m
      BY <2>2, <2>3, Largest
    <3> QED
      BY <3>1 DEF T
  <2>5. \A f \in P : f.version <= e.version
    BY <2>4
  <2>6. \A f \in P \ {e} : f.version < e.version
    <3>1. \A f \in P \ {e} : f.version # e.version
      BY <1>1, <1>2 DEF Chain
    <3> QED
      BY <2>1, <2>5, <3>1
  <2>7. \A f \in P \ {e} : Later(e, f) /\ ~ Later(f, e)
    <3> TAKE f \in P \ {e}
    <3>1. After(createdAt, maker, e, f)
      BY <1>1, <1>2, <2>6 DEF InOrder
    <3>2. /\ e.transfer \in Nat /\ f.transfer \in Nat
          /\ createdAt[e.transfer] \in Nat /\ createdAt[f.transfer] \in Nat
      BY <1>1, <1>2 DEF Entry
    <3>3. maker[e.transfer] = maker[f.transfer]
      BY <1>1 DEF OneMaker
    <3> QED
      BY <3>1, <3>2, <3>3 DEF After, Later
  <2>8. e = CHOOSE x \in P : \A f \in P \ {x} : Later(x, f)
    <3>1. ASSUME NEW x \in P, \A f \in P \ {x} : Later(x, f) PROVE x = e
      BY <2>7, <3>1
    <3> QED
      BY <2>7, <3>1
  <2>9. e = C!Latest(P)
    <3>1. ASSUME NEW x \in P, \A f \in P : f.version <= x.version PROVE x = e
      <4>1. e.version <= x.version /\ x.version \in Nat /\ e.version \in Nat
        BY <2>1, <3>1
      <4> QED
        BY <2>6, <4>1
    <3> QED
      BY <2>5, <3>1 DEF C!Latest
  <2>10. GetAccountBalanceAtTime(a, t) = e.current
    BY <1>4, <2>8 DEF GetAccountBalanceAtTime, P
  <2> QED
    BY <1>4, <2>9, <2>10 DEF C!BalanceAfter, P
<1> QED
  BY <1>3, <1>4

(* Time runs with the versions of an account, up to MaxSkew where two      *)
(* processes posted; and where one did, the balance at a time is the one   *)
(* that the last version posted by then left, and the balance now is that  *)
(* of the row, although created_at is chosen long before the entry can be  *)
(* seen.                                                                   *)
THEOREM HistoryCorrect == SpecAll => []HistoryMatchesVersions
<1>1. ASSUME HistoryInv PROVE HistoryMatchesVersions
  <2> SUFFICES ASSUME NEW a \in AccountIds
               PROVE  HistoryMatchesVersions!(a)
    BY DEF HistoryMatchesVersions
  <2>1. C!EntriesFor(a) = Of(entries, a) /\ Of(entries, a) \subseteq Entry
    BY <1>1, HistoryTypes DEF C!EntriesFor, Of
  <2>2. ASSUME NEW e \in Of(entries, a), NEW f \in Of(entries, a),
               e.version < f.version
        PROVE  IF maker[e.transfer] = maker[f.transfer] THEN Later(f, e)
               ELSE createdAt[e.transfer] <= createdAt[f.transfer] + MaxSkew
    <3>1. After(createdAt, maker, f, e)
      BY <1>1, <2>2 DEF HistoryInv, InOrder
    <3> QED
      BY <3>1 DEF After, Later
  <2>3. ASSUME NEW s \in Servers,
               \A e \in Of(entries, a) : maker[e.transfer] = s
        PROVE  /\ \A t \in 0..clock[s] : GetAccountBalanceAtTime(a, t) =
                                           C!BalanceAfter(PostedBy(a, t))
               /\ GetAccountBalanceAtTime(a, clock[s]) = row[a].balance
    <3>1. OneMaker(a) /\ clock[s] \in Nat
      BY <1>1, <2>3 DEF OneMaker, HistoryInv, TimeTypes
    <3>2. \A t \in Nat : GetAccountBalanceAtTime(a, t) =
                           C!BalanceAfter(PostedBy(a, t))
      BY <1>1, <3>1, LastPosted
    <3>3. PostedBy(a, clock[s]) = Of(entries, a)
      <4>1. \A e \in Of(entries, a) : createdAt[e.transfer] <= clock[s]
        BY <1>1, <2>1, <2>3, ServerIsNotNone DEF Entry, HistoryInv, TimeTypes
      <4> QED
        BY <2>1, <4>1 DEF PostedBy
    <3>4. row[a].balance = C!BalanceAfter(Of(entries, a))
      BY <1>1 DEF HistoryInv, EntriesInv, Chain
    <3>5. GetAccountBalanceAtTime(a, clock[s]) = row[a].balance
      BY <3>1, <3>2, <3>3, <3>4
    <3> QED
      BY <3>1, <3>2, <3>5
  <2> QED
    BY <2>1, <2>2, <2>3
<1> QED
  BY <1>1, HistoryAlways, PTL

(* What was posted by a time stays so with its times and ids, and nothing  *)
(* is added to it but by transactions that have read a clock by then.      *)
LEMMA PostedByStays ==
  ASSUME HistoryInv, [NextAll]_historyVars, NEW a \in AccountIds, NEW t \in Nat,
         \A p \in Clients : now[p] = 0 \/ now[p] > t
  PROVE  /\ PostedBy(a, t)' = PostedBy(a, t)
         /\ \A e \in PostedBy(a, t) :
              createdAt'[e.transfer] = createdAt[e.transfer]
<1> DEFINE Goal == /\ PostedBy(a, t)' = PostedBy(a, t)
                   /\ \A e \in PostedBy(a, t) :
                        createdAt'[e.transfer] = createdAt[e.transfer]
<1>1. CASE UNCHANGED <<entries, createdAt>>
  BY <1>1 DEF PostedBy, C!EntriesFor
<1>2. ASSUME NEW p \in Clients, NEW id \in TransferIds, Generate(p, id)
      PROVE  Goal
  <2>1. /\ createdAt' = [createdAt EXCEPT ![id] = now[p]] /\ maker[id] = None
        /\ Staged(p) = {id}
    BY <1>2 DEF Generate, EntryTime
  <2>2. \A e \in entries : maker[e.transfer] # None /\ e.transfer \in TransferIds
    BY HistoryTypes DEF HistoryInv, MadeIds, Entry
  <2>3. \A e \in entries : createdAt'[e.transfer] = createdAt[e.transfer]
    BY <2>1, <2>2 DEF HistoryInv, TimeTypes
  <2>4. entries' = entries
    <3>1. Effects(p)
      BY <1>2, StepEffects DEF Generate, HistoryInv
    <3>2. ~ Commits(p)
      BY <2>1 DEF Commits, Staged
    <3> QED
      BY <3>1, <3>2 DEF Effects, Leaves, Opens, Moves, Posts
  <2> QED
    BY <2>3, <2>4 DEF PostedBy, C!EntriesFor
<1>3. ASSUME NEW p \in Clients, Effects(p), createdAt' = createdAt
      PROVE  Goal
  <2>1. CASE Commits(p)
    <3>1. entries' = entries \cup tx[p].entries /\ StagedEntries(p)
      BY <2>1 DEF Commits, HistoryInv, ClientHistory, Staging
    <3>2. now[p] \in Nat /\ (now[p] = 0 \/ now[p] > t)
      BY DEF HistoryInv, TimeTypes
    <3>3. \A e \in tx[p].entries : ~ (createdAt[e.transfer] <= t)
      BY <3>1, <3>2 DEF StagedEntries
    <3> QED
      BY <1>3, <3>1, <3>3 DEF PostedBy, C!EntriesFor
  <2>2. CASE entries' = entries
    BY <1>1, <1>3, <2>2
  <2> QED
    BY <1>3, <2>1, <2>2 DEF Effects, Leaves, Opens, Moves, Posts
<1>4. ASSUME NEW p \in Clients, Handle(p) PROVE Goal
  <2>1. \A s \in Servers : ReadClock(p, s) => UNCHANGED <<entries, createdAt>>
    BY DEF ReadClock, vars, db
  <2>2. Call(p) \/ Acquire(p) \/ Step(p) \/ Fault(p) => Effects(p)
    BY StepEffects DEF HistoryInv
  <2>3. \/ \E s \in Servers : ReadClock(p, s)
        \/ \E id \in TransferIds : Generate(p, id)
        \/ /\ Call(p) \/ Acquire(p) \/ Step(p) \/ Fault(p)
           /\ createdAt' = createdAt
    BY <1>4 DEF Handle
  <2> QED
    BY <1>1, <1>2, <1>3, <2>1, <2>2, <2>3, Zenon
<1>5. CASE \/ \E S \in SUBSET Servers : Tick(S)
           \/ FirstPage \/ NextPage \/ UNCHANGED historyVars
  <2>1. UNCHANGED <<entries, createdAt>>
    BY <1>5 DEF Tick, FirstPage, NextPage, historyVars, time, vars, db
  <2> QED
    BY <1>1, <2>1
<1> QED
  BY <1>4, <1>5, Zenon DEF NextAll

(* The balance at a past time is final once all clocks have passed it and  *)
(* no transaction is under way that read one of them by then.              *)
LEMMA StillPassed ==
  ASSUME HistoryInv, [NextAll]_historyVars, NEW t \in Nat, Passed(t)
  PROVE  Passed(t)'
<1>1. /\ clock \in [Servers -> Nat] /\ now \in [Clients -> Nat]
      /\ \A s \in Servers : clock[s] > t
      /\ \A p \in Clients : now[p] = 0 \/ now[p] > t
  BY DEF HistoryInv, TimeTypes, Passed
<1>2. CASE UNCHANGED <<clock, now>>
  BY <1>2 DEF Passed
<1>3. ASSUME NEW p \in Clients, NEW s \in Servers, ReadClock(p, s)
      PROVE  Passed(t)'
  BY <1>1, <1>3 DEF ReadClock, Passed
<1>4. ASSUME NEW p \in Clients, Handle(p) PROVE Passed(t)'
  <2>1. \/ \E s \in Servers : ReadClock(p, s)
        \/ \E id \in TransferIds : Generate(p, id)
        \/ /\ clock' = clock
           /\ \/ now' = [now EXCEPT ![p] = now[p]]
              \/ now' = [now EXCEPT ![p] = 0]
    BY <1>4 DEF Handle
  <2>2. \A id \in TransferIds : Generate(p, id) => UNCHANGED <<clock, now>>
    BY DEF Generate
  <2>3. ASSUME clock' = clock, now' = [now EXCEPT ![p] = 0] PROVE Passed(t)'
    BY <1>1, <2>3 DEF Passed
  <2>4. ASSUME clock' = clock, now' = [now EXCEPT ![p] = now[p]]
        PROVE  Passed(t)'
    BY <1>1, <2>4 DEF Passed
  <2> QED
    BY <1>2, <1>3, <2>1, <2>2, <2>3, <2>4
<1>5. ASSUME NEW S \in SUBSET Servers, Tick(S) PROVE Passed(t)'
  <2>1. /\ clock' = [s \in Servers |->
                       IF s \in S THEN clock[s] + 1 ELSE clock[s]]
        /\ now' = now
    BY <1>5 DEF Tick
  <2>2. \A s \in Servers : clock'[s] > t
    BY <1>1, <2>1
  <2> QED
    BY <1>1, <2>1, <2>2 DEF Passed
<1>6. CASE FirstPage \/ NextPage \/ UNCHANGED historyVars
  <2>1. UNCHANGED <<clock, now>>
    BY <1>6 DEF FirstPage, NextPage, historyVars, time
  <2> QED
    BY <1>2, <2>1
<1> QED
  BY <1>4, <1>5, <1>6 DEF NextAll

(* The balance at a past time is final, whatever is still under way.       *)
THEOREM PastCorrect == SpecAll => PastSettles
<1> DEFINE Settled ==
             \A a \in AccountIds, t \in 0..MaxTime :
               Passed(t) =>
                 /\ Passed(t)'
                 /\ GetAccountBalanceAtTime(a, t)' =
                      GetAccountBalanceAtTime(a, t)
<1>1. HistoryInv /\ [NextAll]_historyVars => [Settled]_historyVars
  <2> SUFFICES ASSUME HistoryInv, [NextAll]_historyVars,
                      NEW a \in AccountIds, NEW t \in 0..MaxTime, Passed(t)
               PROVE  /\ Passed(t)'
                      /\ GetAccountBalanceAtTime(a, t)' =
                           GetAccountBalanceAtTime(a, t)
    OBVIOUS
  <2> DEFINE P == PostedBy(a, t)
  <2>1. t \in Nat /\ \A p \in Clients : now[p] = 0 \/ now[p] > t
    BY HistoryAssumption DEF Passed
  <2>2. /\ P' = P
        /\ \A e \in P : createdAt'[e.transfer] = createdAt[e.transfer]
    BY <2>1, PostedByStays
  <2>3. \A e, f \in P : Later(e, f)' <=> Later(e, f)
    BY <2>2 DEF Later
  <2> HIDE DEF P
  <2>4. P' = P
    BY <2>2
  <2>5. (CHOOSE e \in P' : \A f \in P' \ {e} : Later(e, f)')
          = (CHOOSE e \in P : \A f \in P \ {e} : Later(e, f))
    BY <2>3, <2>4
  <2>6. GetAccountBalanceAtTime(a, t)' =
          IF P' = {} THEN 0
          ELSE (CHOOSE e \in P' : \A f \in P' \ {e} : Later(e, f)').current
    BY DEF GetAccountBalanceAtTime, P
  <2>7. GetAccountBalanceAtTime(a, t) =
          IF P = {} THEN 0
          ELSE (CHOOSE e \in P : \A f \in P \ {e} : Later(e, f)).current
    BY DEF GetAccountBalanceAtTime, P
  <2>8. GetAccountBalanceAtTime(a, t)' = GetAccountBalanceAtTime(a, t)
    BY <2>4, <2>5, <2>6, <2>7
  <2> QED
    BY <2>1, <2>8, StillPassed
<1> QED
  BY <1>1, HistoryAlways, PTL DEF SpecAll, PastSettles

-----------------------------------------------------------------------------
(* Pages.  Finitely many numbers can be listed from the largest down.      *)
LEMMA Listing ==
  ASSUME NEW S, S \subseteq Nat, IsFiniteSet(S)
  PROVE  /\ Cardinality(S) \in Nat
         /\ Descending(S) \in [1..Cardinality(S) -> S]
         /\ \A i, j \in 1..Cardinality(S) :
              i < j => Descending(S)[i] > Descending(S)[j]
         /\ \A x \in S : \E i \in 1..Cardinality(S) : Descending(S)[i] = x
<1> DEFINE n == Cardinality(S)
           Rest(x) == {y \in S : y >= x}
           rank == [x \in S |-> Cardinality(Rest(x))]
<1>1. n \in Nat /\ IsFiniteSet(1..n) /\ Cardinality(1..n) = n
  BY FS_CardinalityType, FS_Interval
<1>2. ASSUME NEW x \in S
      PROVE  /\ IsFiniteSet(Rest(x)) /\ x \in Rest(x)
             /\ Cardinality(Rest(x)) \in 1..n
  <2>1. Rest(x) \subseteq S /\ x \in Rest(x)
    BY <1>2
  <2>2. IsFiniteSet(Rest(x)) /\ Cardinality(Rest(x)) <= n
    BY <2>1, FS_Subset
  <2>3. Cardinality(Rest(x)) \in Nat /\ Cardinality(Rest(x)) # 0
    BY <2>1, <2>2, FS_CardinalityType, FS_EmptySet
  <2> QED
    BY <1>1, <2>1, <2>2, <2>3
<1>3. ASSUME NEW x \in S, NEW y \in S, x < y PROVE rank[y] < rank[x]
  <2>1. Rest(y) \subseteq Rest(x) /\ Rest(y) # Rest(x)
    <3>1. \A z \in S : z >= y => z >= x
      BY <1>3
    <3>2. x \in Rest(x) /\ x \notin Rest(y)
      BY <1>3
    <3> QED
      BY <3>1, <3>2
  <2>2. Cardinality(Rest(y)) < Cardinality(Rest(x))
    <3> HIDE DEF Rest
    <3>1. /\ Cardinality(Rest(y)) <= Cardinality(Rest(x))
          /\ Cardinality(Rest(y)) # Cardinality(Rest(x))
      BY <1>2, <1>3, <2>1, FS_Subset
    <3> QED
      BY <1>1, <1>2, <1>3, <3>1
  <2> QED
    BY <1>3, <2>2
<1>4. rank \in [S -> 1..n]
  BY <1>2
<1> HIDE DEF rank, Rest
<1>5. \A x, y \in S : rank[x] = rank[y] => x = y
  <2> SUFFICES ASSUME NEW x \in S, NEW y \in S, rank[x] = rank[y] PROVE x = y
    OBVIOUS
  <2>1. rank[x] \in Nat /\ ~ (x < y) /\ ~ (y < x)
    BY <1>1, <1>3, <1>4
  <2> QED
    BY <2>1
<1>6. \A i \in 1..n : \E x \in S : rank[x] = i
  <2>1. rank \in Injection(S, 1..n)
    BY <1>4, <1>5 DEF Injection, IsInjective
  <2>2. rank \in Surjection(S, 1..n)
    BY <1>1, <2>1, FS_Injection
  <2> QED
    BY <2>2 DEF Surjection
<1> DEFINE f == [i \in 1..n |-> CHOOSE x \in S : rank[x] = i]
<1>7. f \in [1..n -> S] /\ \A i \in 1..n : rank[f[i]] = i
  BY <1>6
<1> HIDE DEF f
<1>8. \A i, j \in 1..n : i < j => f[i] > f[j]
  <2> SUFFICES ASSUME NEW i \in 1..n, NEW j \in 1..n, i < j PROVE f[i] > f[j]
    OBVIOUS
  <2>1. f[i] \in S /\ f[j] \in S /\ rank[f[i]] = i /\ rank[f[j]] = j
    BY <1>7
  <2>2. f[i] # f[j] /\ f[i] \in Nat /\ f[j] \in Nat
    <3>1. i # j
      BY <1>1
    <3> QED
      BY <2>1, <3>1
  <2>3. ~ (f[i] < f[j])
    <3>1. f[i] < f[j] => rank[f[j]] < rank[f[i]]
      BY <1>3, <2>1
    <3> QED
      BY <2>1, <3>1
  <2> QED
    BY <2>2, <2>3
<1> DEFINE s == Descending(S)
<1>9. /\ s \in [1..n -> S]
      /\ \A i, j \in 1..n : i < j => s[i] > s[j]
  BY <1>7, <1>8 DEF Descending
<1> HIDE DEF s
<1>10. \A i, j \in 1..n : s[i] = s[j] => i = j
  <2> SUFFICES ASSUME NEW i \in 1..n, NEW j \in 1..n, s[i] = s[j] PROVE i = j
    OBVIOUS
  <2>1. s[i] \in Nat /\ s[j] \in Nat
    BY <1>9
  <2>2. ~ (i < j) /\ ~ (j < i)
    BY <1>9, <2>1
  <2> QED
    BY <1>1, <2>2
<1>11. s \in Surjection(1..n, S)
  <2>1. s \in Injection(1..n, S)
    BY <1>9, <1>10 DEF Injection, IsInjective
  <2> QED
    BY <1>1, <2>1, FS_Injection
<1> QED
  BY <1>1, <1>9, <1>11 DEF s, Surjection

LEMMA Smallest ==
  ASSUME NEW T, T \subseteq Nat, T # {}
  PROVE  \E m \in T : \A x \in T : m <= x
<1> DEFINE Less == OpToRel(<, Nat)
<1>1. IsWellFoundedOn(Less, Nat)
  BY NatLessThanWellFounded
<1>2. \A i, j \in Nat : <<i, j>> \in Less <=> i < j
  BY DEF OpToRel
<1> HIDE DEF Less
<1>3. PICK m \in T : \A x \in T : ~ (<<x, m>> \in Less)
  BY <1>1, WFMin
<1>4. ASSUME NEW x \in T PROVE m <= x
  <2>1. m \in Nat /\ x \in Nat
    OBVIOUS
  <2>2. ~ (x < m)
    BY <1>2, <1>3, <2>1
  <2> QED
    BY <2>1, <2>2
<1> QED
  BY <1>4

(* A page is what is left, or the largest PageSize of it.                  *)
First(S) == {id \in S : Cardinality({n \in S : n > id}) < PageSize}

LEMMA OnePage ==
  ASSUME NEW S, S \subseteq Nat, IsFiniteSet(S)
  PROVE  /\ Cardinality(First(S)) # PageSize => First(S) = S
         /\ Cardinality(First(S)) = PageSize =>
              \E m \in First(S) : /\ \A n \in First(S) : m <= n
                                  /\ First(S) = {id \in S : id >= m}
<1> DEFINE Above(x) == {n \in S : n > x}
           P == First(S)
<1>1. /\ PageSize \in Nat /\ PageSize > 0
      /\ P \subseteq S /\ P \subseteq Nat
      /\ IsFiniteSet(P) /\ Cardinality(P) \in Nat
  <2>1. PageSize \in Nat /\ PageSize > 0
    BY HistoryAssumption
  <2>2. P \subseteq S
    BY DEF First
  <2> HIDE DEF P
  <2> QED
    BY <2>1, <2>2, FS_Subset, FS_CardinalityType
<1>2. \A x \in S : /\ IsFiniteSet(Above(x)) /\ Cardinality(Above(x)) \in Nat
                   /\ x \in P <=> Cardinality(Above(x)) < PageSize
  BY FS_Subset, FS_CardinalityType DEF First
<1>3. ASSUME NEW x \in P, NEW y \in S, y >= x PROVE y \in P
  <2>1. x \in S /\ \A z \in S : z > y => z > x
    <3>1. x \in Nat /\ y \in Nat /\ x \in S
      BY <1>1, <1>3
    <3> HIDE DEF P
    <3> QED
      BY <1>3, <3>1
  <2>2. Above(y) \subseteq Above(x)
    BY <2>1
  <2> HIDE DEF Above
  <2>3. Cardinality(Above(y)) <= Cardinality(Above(x))
    BY <1>2, <2>1, <2>2, FS_Subset
  <2> QED
    BY <1>1, <1>2, <2>1, <2>3
<1>4. ASSUME P # {}
      PROVE  \E m \in P : /\ \A n \in P : m <= n
                          /\ P = {id \in S : id >= m}
                          /\ Cardinality(P) <= PageSize
  <2>1. PICK m \in P : \A n \in P : m <= n
    BY <1>1, <1>4, Smallest
  <2>2. P = {id \in S : id >= m}
    BY <1>1, <1>3, <2>1
  <2>3. m \in S /\ P \subseteq Above(m) \cup {m}
    <3>1. m \in Nat /\ \A n \in P : n \in S /\ n \in Nat /\ m <= n
      BY <1>1, <2>1
    <3>2. \A n \in P : n > m \/ n = m
      BY <3>1
    <3> HIDE DEF P
    <3> QED
      BY <1>1, <2>1, <3>1, <3>2
  <2> HIDE DEF Above, P
  <2>4. /\ Cardinality(P) <= Cardinality(Above(m) \cup {m})
        /\ Cardinality(Above(m) \cup {m}) <= Cardinality(Above(m)) + 1
        /\ Cardinality(Above(m) \cup {m}) \in Nat
    <3>1. /\ IsFiniteSet(Above(m)) /\ IsFiniteSet(Above(m) \cup {m})
          /\ Cardinality(Above(m) \cup {m}) =
               IF m \in Above(m) THEN Cardinality(Above(m))
                                 ELSE Cardinality(Above(m)) + 1
      BY <1>2, <2>3, FS_AddElement
    <3>2. Cardinality(P) <= Cardinality(Above(m) \cup {m})
      BY <2>3, <3>1, FS_Subset
    <3>3. Cardinality(Above(m)) \in Nat
      BY <1>2, <2>3
    <3> QED
      BY <3>1, <3>2, <3>3
  <2>5. Cardinality(P) <= PageSize
    BY <1>1, <1>2, <2>1, <2>3, <2>4
  <2> QED
    BY <2>1, <2>2, <2>5
<1>5. ASSUME P # S PROVE Cardinality(P) = PageSize
  <2>1. S \ P # {} /\ S \ P \subseteq Int /\ IsFiniteSet(S \ P)
    <3> HIDE DEF P
    <3>0. P \subseteq S /\ S \subseteq Nat
      BY <1>1
    <3>a. S \ P # {}
      BY <1>5, <3>0
    <3>b. S \ P \in SUBSET S
      OBVIOUS
    <3>c. S \ P \subseteq Int
      BY <3>0
    <3>1. S \ P \in SUBSET S /\ S \ P # {} /\ S \ P \subseteq Int
      BY <3>a, <3>b, <3>c
    <3>2. IsFiniteSet(S \ P)
      BY <3>1, FS_Subset
    <3> QED
      BY <3>1, <3>2
  <2>2. PICK x \in S \ P : \A y \in S \ P : y <= x
    <3> HIDE DEF P
    <3> QED
      BY <2>1, Largest
  <2>3. Above(x) = P
    <3>1. \A y \in S : y > x => y \in P
      BY <2>2
    <3>2. \A y \in P : y > x
      <4> SUFFICES ASSUME NEW y \in P, ~ (y > x) PROVE FALSE
        OBVIOUS
      <4>1. x \in S /\ x \notin P /\ x \in Nat /\ y \in Nat
        BY <1>1, <2>2
      <4>2. x >= y
        BY <4>1
      <4> QED
        BY <1>3, <4>1, <4>2
    <3> QED
      BY <1>1, <3>1, <3>2
  <2>4. Cardinality(P) >= PageSize
    BY <1>1, <1>2, <2>2, <2>3
  <2>5. P # {}
    BY <1>1, <2>4, FS_EmptySet
  <2> QED
    BY <1>1, <1>4, <2>4, <2>5
<1>6. Cardinality(P) = PageSize => P # {}
  BY <1>1, FS_EmptySet
<1> QED
  BY <1>4, <1>5, <1>6

(* What the cursor has not passed yet has all that was there when the      *)
(* listing began: whatever is posted on the account later has an id larger *)
(* than any of its process that was there.                                 *)
PagesInv ==
  /\ shown \in Seq(Nat) /\ cursor \in Nat
  /\ PagesMissNothing
  /\ start \subseteq Touching(Listed) /\ ToSet(shown) \subseteq Touching(Listed)
  /\ \A id \in ToSet(shown) : id >= cursor
  /\ \A id \in Touching(Listed) \ start, n \in start :
       maker[n] = maker[id] => id > n
  /\ cursor # 0 => \E n \in start : n >= cursor

Descends(s) == \A i, j \in 1..Len(s) : i < j => s[i] > s[j]

LEMMA Concatenation ==
  ASSUME NEW a \in Seq(Nat), NEW b \in Seq(Nat)
  PROVE  /\ a \o b \in Seq(Nat) /\ Len(a \o b) = Len(a) + Len(b)
         /\ \A i \in 1..(Len(a) + Len(b)) :
              (a \o b)[i] = IF i <= Len(a) THEN a[i] ELSE b[i - Len(a)]
OBVIOUS

LEMMA Appended ==
  ASSUME NEW before \in Seq(Nat), Descends(before),
         NEW ids, ids \subseteq Nat, IsFiniteSet(ids),
         \A i \in 1..Len(before), id \in ids : before[i] > id
  PROVE  LET s == before \o Descending(ids) IN
         s \in Seq(Nat) /\ Descends(s) /\ ToSet(s) = ToSet(before) \cup ids
<1> DEFINE d == Descending(ids)
           n == Cardinality(ids)
           s == before \o d
<1>1. /\ n \in Nat /\ d \in [1..n -> ids]
      /\ \A i, j \in 1..n : i < j => d[i] > d[j]
      /\ \A x \in ids : \E i \in 1..n : d[i] = x
  BY Listing
<1> HIDE DEF d, n
<1>2. d \in Seq(Nat) /\ Len(d) = n
  <2>1. d \in [1..n -> Nat]
    BY <1>1
  <2> QED
    BY <1>1, <2>1
<1>3. /\ s \in Seq(Nat) /\ Len(s) = Len(before) + n
      /\ \A i \in 1..Len(s) :
           s[i] = IF i <= Len(before) THEN before[i] ELSE d[i - Len(before)]
  <2>1. d \in Seq(Nat) /\ Len(s) = Len(before) + Len(d) /\ s \in Seq(Nat)
    BY <1>2, Concatenation DEF s
  <2>2. \A i \in 1..(Len(before) + Len(d)) :
          s[i] = IF i <= Len(before) THEN before[i] ELSE d[i - Len(before)]
    BY <2>1, Concatenation, Zenon DEF s
  <2> QED
    BY <1>2, <2>1, <2>2, Zenon
<1>4. Len(before) \in Nat
  OBVIOUS
<1> HIDE DEF s
<1>5. ASSUME NEW i \in 1..Len(s), NEW j \in 1..Len(s), i < j
      PROVE  s[i] > s[j]
  <2>1. CASE j <= Len(before)
    <3>1. i \in 1..Len(before) /\ j \in 1..Len(before)
      BY <1>3, <1>4, <1>5, <2>1
    <3>2. s[i] = before[i] /\ s[j] = before[j]
      BY <1>3, <2>1, <3>1
    <3> QED
      BY <1>5, <3>1, <3>2 DEF Descends
  <2>2. CASE i <= Len(before) /\ ~ (j <= Len(before))
    <3>1. j - Len(before) \in 1..n
      BY <1>1, <1>3, <1>4, <2>2
    <3>2. d[j - Len(before)] \in ids /\ i \in 1..Len(before)
      BY <1>1, <1>4, <2>2, <3>1
    <3> QED
      BY <1>3, <2>2, <3>2
  <2>3. CASE ~ (i <= Len(before))
    <3>1. /\ i - Len(before) \in 1..n /\ j - Len(before) \in 1..n
          /\ i - Len(before) < j - Len(before) /\ ~ (j <= Len(before))
      BY <1>1, <1>3, <1>4, <1>5, <2>3
    <3> QED
      BY <1>1, <1>3, <2>3, <3>1
  <2> QED
    BY <1>3, <1>4, <2>1, <2>2, <2>3
<1>6. ToSet(s) = ToSet(before) \cup ids
  <2>0. /\ DOMAIN s = 1..Len(s) /\ DOMAIN before = 1..Len(before)
    BY <1>3
  <2>1. ASSUME NEW x \in ToSet(s) PROVE x \in ToSet(before) \cup ids
    <3>1. PICK i \in 1..Len(s) : x = s[i]
      BY <2>0, <2>1 DEF ToSet
    <3>2. CASE i <= Len(before)
      <4>1. i \in 1..Len(before) /\ x = before[i]
        BY <1>3, <1>4, <3>1, <3>2
      <4> QED
        BY <2>0, <4>1 DEF ToSet
    <3>3. CASE ~ (i <= Len(before))
      <4>1. i - Len(before) \in 1..n
        BY <1>1, <1>3, <1>4, <3>3
      <4> QED
        BY <1>1, <1>3, <3>1, <3>3, <4>1
    <3> QED
      BY <3>2, <3>3
  <2>2. ASSUME NEW x \in ToSet(before) PROVE x \in ToSet(s)
    <3>1. PICK i \in 1..Len(before) : x = before[i]
      BY <2>0, <2>2 DEF ToSet
    <3>2. i \in 1..Len(s) /\ s[i] = x
      BY <1>1, <1>3, <1>4, <3>1
    <3> QED
      BY <2>0, <3>2 DEF ToSet
  <2>3. ASSUME NEW x \in ids PROVE x \in ToSet(s)
    <3>1. PICK i \in 1..n : d[i] = x
      BY <1>1, <2>3
    <3>2. /\ i + Len(before) \in 1..Len(s) /\ ~ (i + Len(before) <= Len(before))
          /\ (i + Len(before)) - Len(before) = i
      BY <1>1, <1>3, <1>4, <3>1
    <3>3. s[i + Len(before)] = x
      BY <1>3, <3>1, <3>2
    <3> QED
      BY <2>0, <3>2, <3>3 DEF ToSet
  <2> QED
    BY <2>1, <2>2, <2>3
<1> QED
  BY <1>3, <1>5, <1>6 DEF Descends, d, s

LEMMA TouchingIds ==
  ASSUME HistoryInv
  PROVE  /\ Touching(Listed) \subseteq Nat \ {0}
         /\ \A S \in SUBSET Touching(Listed) : IsFiniteSet(S)
<1>1. /\ Touching(Listed) \subseteq TransferIds
  BY HistoryTypes DEF Touching, Transfer
<1>2. TransferIds \subseteq Nat \ {0}
  BY HistoryAssumption, TypesAssumption, FS_CardinalityType
<1> QED
  BY <1>1, <1>2, TypesAssumption, FS_Subset

(* Showing a page of what is left.                                         *)
LEMMA Shown ==
  ASSUME NEW left, left \subseteq Nat \ {0}, IsFiniteSet(left),
         NEW before \in Seq(Nat), Descends(before),
         \A i \in 1..Len(before), id \in left : before[i] > id,
         Show(First(left), before)
  PROVE  /\ shown' \in Seq(Nat) /\ Descends(shown')
         /\ ToSet(shown') = ToSet(before) \cup First(left)
         /\ \/ cursor' = 0 /\ First(left) = left
            \/ cursor' \in left /\ First(left) = {id \in left : id >= cursor'}
<1>1. First(left) \subseteq left
  BY DEF First
<1>2. First(left) \subseteq Nat /\ IsFiniteSet(First(left)) /\ left \subseteq Nat
  BY <1>1, FS_Subset
<1>3. /\ shown' = before \o Descending(First(left))
      /\ cursor' = IF Cardinality(First(left)) = PageSize
                   THEN CHOOSE id \in First(left) : \A n \in First(left) : id <= n
                   ELSE 0
  BY DEF Show
<1>4. \A i \in 1..Len(before), id \in First(left) : before[i] > id
  BY <1>1
<1>5. /\ shown' \in Seq(Nat) /\ Descends(shown')
      /\ ToSet(shown') = ToSet(before) \cup First(left)
  BY <1>2, <1>3, <1>4, Appended
<1>6. CASE Cardinality(First(left)) # PageSize
  BY <1>2, <1>3, <1>5, <1>6, OnePage
<1>7. CASE Cardinality(First(left)) = PageSize
  <2>1. PICK m \in First(left) : /\ \A n \in First(left) : m <= n
                                 /\ First(left) = {id \in left : id >= m}
    BY <1>2, <1>7, OnePage
  <2>2. cursor' = m
    <3>1. ASSUME NEW k \in First(left), \A n \in First(left) : k <= n PROVE k = m
      <4>1. k <= m /\ m <= k /\ k \in Nat /\ m \in Nat
        BY <1>2, <2>1, <3>1
      <4> QED
        BY <4>1
    <3> QED
      BY <1>3, <1>7, <2>1, <3>1
  <2> QED
    BY <1>1, <1>5, <2>1, <2>2
<1> QED
  BY <1>6, <1>7

LEMMA FirstPageShown ==
  ASSUME HistoryInv, PagesInv, FirstPage
  PROVE  PagesInv'
<1> DEFINE left == Touching(Listed)
<1>1. /\ cursor = 0 /\ start' = left /\ Show(Page(0), <<>>)
      /\ Touching(Listed)' = left
  BY DEF FirstPage, vars, db, Touching
<1>2. Page(0) = First(left)
  BY DEF Page, First
<1>3. left \subseteq Nat \ {0} /\ IsFiniteSet(left)
  BY TouchingIds
<1> HIDE DEF left
<1>4. /\ shown' \in Seq(Nat) /\ Descends(shown')
      /\ ToSet(shown') = ToSet(<<>>) \cup First(left)
      /\ \/ cursor' = 0 /\ First(left) = left
         \/ cursor' \in left /\ First(left) = {id \in left : id >= cursor'}
  <2>1. <<>> \in Seq(Nat) /\ Descends(<<>>) /\ Len(<<>>) = 0
    BY DEF Descends
  <2> DEFINE none == <<>>
  <2>2. /\ none \in Seq(Nat) /\ Descends(none)
        /\ \A i \in 1..Len(none), id \in left : none[i] > id
        /\ Show(First(left), none)
    BY <1>1, <1>2, <2>1
  <2> HIDE DEF none
  <2>3. /\ shown' \in Seq(Nat) /\ Descends(shown')
        /\ ToSet(shown') = ToSet(none) \cup First(left)
        /\ \/ cursor' = 0 /\ First(left) = left
           \/ cursor' \in left /\ First(left) = {id \in left : id >= cursor'}
    BY <1>3, <2>2, Shown
  <2> QED
    BY <2>3 DEF none
<1>5. ToSet(<<>>) = {}
  BY DEF ToSet
<1>6. cursor' \in Nat /\ ToSet(shown') = {id \in left : id >= cursor'}
  <2>1. ToSet(shown') = First(left)
    BY <1>4, <1>5
  <2>2. CASE cursor' = 0 /\ First(left) = left
    <3>1. \A id \in left : id >= 0
      BY <1>3
    <3> QED
      BY <2>1, <2>2, <3>1
  <2>3. CASE cursor' \in left /\ First(left) = {id \in left : id >= cursor'}
    BY <1>3, <2>1, <2>3
  <2> QED
    BY <1>4, <2>2, <2>3
<1>7. cursor' # 0 => \E n \in left : n >= cursor'
  <2>1. cursor' = 0 \/ cursor' \in left
    BY <1>4, Zenon
  <2>2. \A n \in left : n >= n
    BY <1>3
  <2> QED
    BY <2>1, <2>2, Zenon
<1>8. PagesMissNothing'
  BY <1>1, <1>4, <1>6 DEF PagesMissNothing, Descends
<1> QED
  BY <1>1, <1>4, <1>6, <1>7, <1>8 DEF PagesInv

LEMMA NextPageShown ==
  ASSUME HistoryInv, PagesInv, NextPage
  PROVE  PagesInv'
<1> DEFINE left == {id \in Touching(Listed) : id < cursor}
<1>1. /\ cursor # 0 /\ start' = start /\ Show(Page(cursor), shown)
      /\ Touching(Listed)' = Touching(Listed) /\ maker' = maker
  BY DEF NextPage, vars, db, Touching, time
<1>2. Page(cursor) = First(left)
  BY <1>1 DEF Page, First
<1>3. left \subseteq Nat \ {0} /\ IsFiniteSet(left)
  BY TouchingIds
<1>4. /\ shown \in Seq(Nat) /\ Descends(shown) /\ cursor \in Nat
      /\ \A id \in ToSet(shown) : id >= cursor
      /\ start \subseteq Touching(Listed)
      /\ \A id \in start : id \in Nat
  BY TouchingIds DEF PagesInv, PagesMissNothing, Descends
<1>5. \A i \in 1..Len(shown), id \in left : shown[i] > id
  <2>1. \A i \in 1..Len(shown) : shown[i] \in ToSet(shown) /\ shown[i] \in Nat
    BY <1>4 DEF ToSet
  <2>2. \A id \in left : id < cursor /\ id \in Nat
    BY <1>3
  <2> HIDE DEF left
  <2> QED
    BY <1>4, <2>1, <2>2
<1>6. /\ left \subseteq Touching(Listed) /\ \A id \in left : id < cursor
      /\ \A id \in Touching(Listed) : id < cursor => id \in left
  OBVIOUS
<1> HIDE DEF left
<1>7. /\ shown' \in Seq(Nat) /\ Descends(shown')
      /\ ToSet(shown') = ToSet(shown) \cup First(left)
      /\ \/ cursor' = 0 /\ First(left) = left
         \/ cursor' \in left /\ First(left) = {id \in left : id >= cursor'}
  BY <1>1, <1>2, <1>3, <1>4, <1>5, Shown
<1>8. /\ cursor' \in Nat /\ cursor' < cursor
      /\ First(left) = {id \in left : id >= cursor'}
  <2>1. CASE cursor' = 0 /\ First(left) = left
    <3>1. \A id \in left : id >= 0
      BY <1>3
    <3> QED
      BY <1>1, <1>4, <2>1, <3>1
  <2>2. CASE cursor' \in left /\ First(left) = {id \in left : id >= cursor'}
    BY <1>3, <1>6, <2>2
  <2> QED
    BY <1>7, <2>1, <2>2
<1>9. {id \in start : id >= cursor'} \subseteq ToSet(shown')
  <2> SUFFICES ASSUME NEW id \in start, id >= cursor' PROVE id \in ToSet(shown')
    OBVIOUS
  <2>1. CASE id >= cursor
    BY <1>7, <2>1 DEF PagesInv, PagesMissNothing
  <2>2. CASE ~ (id >= cursor)
    <3>1. id \in left
      BY <1>4, <1>6, <2>2
    <3> QED
      BY <1>7, <1>8, <3>1
  <2> QED
    BY <2>1, <2>2
<1>10. ASSUME NEW id \in ToSet(shown') \ start
       PROVE  \E n \in start : n > id /\ maker[n] # maker[id]
  <2>1. CASE id \in ToSet(shown)
    BY <2>1 DEF PagesInv, PagesMissNothing
  <2>2. CASE id \in First(left)
    <3>1. id \in left /\ id \in Touching(Listed) \ start /\ id \in Nat
      BY <1>3, <1>6, <1>8, <2>2
    <3>2. PICK n \in start : n >= cursor
      BY <1>1 DEF PagesInv
    <3>3. n \in Nat /\ n > id
      BY <1>4, <1>6, <3>1, <3>2
    <3>4. maker[n] = maker[id] => id > n
      BY <3>1 DEF PagesInv
    <3> QED
      BY <3>1, <3>3, <3>4
  <2> QED
    BY <1>7, <2>1, <2>2
<1>11. ToSet(shown') \subseteq Touching(Listed)
  BY <1>6, <1>7, <1>8 DEF PagesInv
<1>12. \A id \in ToSet(shown') : id >= cursor'
  <2>1. ASSUME NEW id \in ToSet(shown) PROVE id >= cursor'
    <3>1. id \in Nat /\ id >= cursor
      BY <1>4, TouchingIds DEF PagesInv
    <3> QED
      BY <1>4, <1>8, <3>1
  <2> QED
    BY <1>7, <1>8, <2>1
<1>13. \E n \in start : n >= cursor'
  BY <1>1, <1>4, <1>8 DEF PagesInv
<1>14. PagesMissNothing'
  BY <1>1, <1>7, <1>9, <1>10 DEF PagesMissNothing, Descends
<1>15. \A id \in Touching(Listed) \ start, n \in start :
         maker[n] = maker[id] => id > n
  BY DEF PagesInv
<1> QED
  BY <1>1, <1>4, <1>7, <1>8, <1>11, <1>12, <1>13, <1>14, <1>15 DEF PagesInv

(* A commit while a listing is under way, and a new id.                    *)
LEMMA PagesKept ==
  ASSUME HistoryInv, PagesInv, UNCHANGED reader,
         \A n \in TransferIds : maker[n] # None => maker'[n] = maker[n],
         \/ UNCHANGED transfers
         \/ /\ UNCHANGED maker
            /\ \E p \in Clients : Commits(p)
  PROVE  PagesInv'
<1>1. UNCHANGED <<cursor, shown, start>>
  BY DEF reader
<1>2. \A id \in Touching(Listed) : maker'[id] = maker[id]
  <2>1. \A t \in transfers : t.id \in TransferIds /\ maker[t.id] # None
    BY HistoryTypes DEF Transfer, HistoryInv, MadeIds
  <2> QED
    BY <2>1 DEF Touching
<1>3. /\ start \subseteq Touching(Listed)
      /\ ToSet(shown) \subseteq Touching(Listed)
      /\ shown \in Seq(Nat) /\ cursor \in Nat /\ PagesMissNothing
      /\ \A id \in ToSet(shown) : id >= cursor
      /\ cursor # 0 => \E n \in start : n >= cursor
  BY DEF PagesInv
<1>4. PagesMissNothing'
  <2>1. \A id \in ToSet(shown) \ start :
          \E n \in start : n > id /\ maker'[n] # maker'[id]
    BY <1>2, <1>3 DEF PagesMissNothing
  <2> QED
    BY <1>1, <1>3, <2>1 DEF PagesMissNothing
<1>5. ASSUME NEW id \in Touching(Listed) \ start, NEW n \in start,
             maker'[n] = maker'[id]
      PROVE  id > n
  <2>1. maker[n] = maker[id]
    BY <1>2, <1>3, <1>5
  <2> QED
    BY <2>1 DEF PagesInv
<1>6. CASE UNCHANGED transfers
  <2>1. Touching(Listed)' = Touching(Listed)
    BY <1>6 DEF Touching
  <2> QED
    BY <1>1, <1>3, <1>4, <1>5, <2>1 DEF PagesInv
<1>7. ASSUME NEW p \in Clients, Commits(p), UNCHANGED maker PROVE PagesInv'
  <2>1. transfers' = transfers \cup tx[p].transfers /\ StagedTransfers(p)
    BY <1>7 DEF Commits, HistoryInv, ClientHistory, Staging
  <2>2. Touching(Listed) \subseteq Touching(Listed)'
    BY <2>1 DEF Touching
  <2>3. ASSUME NEW id \in Touching(Listed)' \ start, NEW n \in start,
               maker[n] = maker[id]
        PROVE  id > n
    <3>1. CASE id \in Touching(Listed)
      BY <1>5, <1>7, <2>3, <3>1
    <3>2. CASE id \notin Touching(Listed)
      <4>1. PICK t \in tx[p].transfers : t.id = id /\ Listed \in {t.from, t.to}
        BY <2>1, <3>2 DEF Touching
      <4>2. PICK s \in transfers : s.id = n /\ Listed \in {s.from, s.to}
        BY <1>3 DEF Touching
      <4>3. s.id < t.id
        BY <2>1, <2>3, <4>1, <4>2 DEF StagedTransfers
      <4>4. s.id \in Nat /\ t.id \in Nat
        BY <4>1, HistoryTypes DEF Transfer
      <4> QED
        BY <4>1, <4>2, <4>3, <4>4
    <3> QED
      BY <3>1, <3>2
  <2>4. /\ start \subseteq Touching(Listed)'
        /\ ToSet(shown) \subseteq Touching(Listed)'
    BY <1>3, <2>2
  <2> QED
    BY <1>1, <1>3, <1>4, <1>7, <2>3, <2>4 DEF PagesInv
<1> QED
  BY <1>6, <1>7

(* The pages of a listing show every transfer that was there when the      *)
(* first one was read, each once and in order, although others are         *)
(* committed meanwhile; any of those that they show has an id below that   *)
(* of another process.                                                     *)
THEOREM PagesCorrect == SpecAll => []PagesMissNothing
<1>1. InitAll => PagesInv
  <2>1. ToSet(<<>>) = {} /\ Len(<<>>) = 0
    BY DEF ToSet
  <2> QED
    BY <2>1 DEF InitAll, Init, InitHistory, PagesInv, PagesMissNothing, Touching
<1>2. HistoryInv /\ PagesInv /\ [NextAll]_historyVars => PagesInv'
  <2> SUFFICES ASSUME HistoryInv, PagesInv, [NextAll]_historyVars
               PROVE  PagesInv'
    OBVIOUS
  <2>1. ASSUME NEW p \in Clients, Handle(p) PROVE PagesInv'
    <3>1. UNCHANGED reader
      BY <2>1 DEF Handle, ReadClock, Generate
    <3>2. CASE \E s \in Servers : ReadClock(p, s)
      BY <3>1, <3>2, PagesKept DEF ReadClock, vars, db
    <3>3. ASSUME NEW id \in TransferIds, Generate(p, id) PROVE PagesInv'
      <4>1. /\ maker' = [maker EXCEPT ![id] = server[p]] /\ maker[id] = None
            /\ Staged(p) = {id}
        BY <3>3 DEF Generate
      <4>2. \A n \in TransferIds : maker[n] # None => maker'[n] = maker[n]
        BY <4>1 DEF HistoryInv, TimeTypes
      <4>3. Effects(p) /\ ~ Commits(p)
        BY <3>3, <4>1, StepEffects DEF Generate, HistoryInv, Commits, Staged
      <4>4. UNCHANGED transfers
        BY <4>3 DEF Effects, Leaves, Opens, Moves, Posts
      <4> QED
        BY <3>1, <4>2, <4>4, PagesKept
    <3>4. CASE /\ Call(p) \/ Acquire(p) \/ Step(p) \/ Fault(p)
               /\ UNCHANGED maker
      <4>1. Effects(p)
        BY <3>4, StepEffects DEF HistoryInv
      <4>2. UNCHANGED transfers \/ Commits(p)
        BY <4>1 DEF Effects, Leaves, Opens, Moves, Posts
      <4> QED
        BY <3>1, <3>4, <4>2, PagesKept
    <3> QED
      BY <2>1, <3>2, <3>3, <3>4 DEF Handle
  <2>2. CASE (\E S \in SUBSET Servers : Tick(S)) \/ UNCHANGED historyVars
    <3>1. UNCHANGED <<transfers, maker>> /\ UNCHANGED reader
      BY <2>2 DEF Tick, historyVars, vars, db, time, reader
    <3> QED
      BY <3>1, PagesKept
  <2> QED
    BY <2>1, <2>2, FirstPageShown, NextPageShown DEF NextAll
<1>3. PagesInv => PagesMissNothing
  BY DEF PagesInv
<1> QED
  BY <1>1, <1>2, <1>3, HistoryAlways, PTL DEF SpecAll


-----------------------------------------------------------------------------
(* One after the other.  Commits posts the transfers of a batch in some    *)
(* order, on the rows the last commit left: the order in which they were   *)
(* processed, because the rows a transaction read stay those of the tables *)
(* until it commits.  What it has made of them is kept in the invariant as *)
(* the run of rows that its items leave.                                   *)

(* The rows v that a transaction locked, as it found them: those of the    *)
(* tables, which nobody else writes meanwhile.                             *)
Found(p, v) == v \in [AccountIds -> Row] /\ \A a \in Locked(p) : v[a] = row[a]

(* The rows vs that the transfers of b leave, one after the other.         *)
Runs(b, vs) ==
  /\ b \in Seq(Transfer) /\ vs \in [1..(Len(b) + 1) -> [AccountIds -> Row]]
  /\ \A i \in 1..Len(b) :
       /\ ValidateDebit(b[i].from, vs[i][b[i].from], b[i].amount)
       /\ ValidateCredit(b[i].to, vs[i][b[i].to], b[i].amount)
       /\ vs[i + 1] = Posted(vs[i], b[i])
  /\ \A i, j \in 1..Len(b) : b[i].id = b[j].id => i = j
RunEntries(b, vs) == UNION {EntriesOf(vs[i], b[i]) : i \in 1..Len(b)}
RunTransfers(b) == {b[i] : i \in 1..Len(b)}

(* What a transaction has made of the rows it found.                       *)
ItsBatch(p, v) ==
  \E b, vs : /\ Runs(b, vs) /\ vs[1] = v /\ vs[Len(b) + 1] = tx[p].view
             /\ tx[p].transfers = RunTransfers(b)
             /\ tx[p].entries = RunEntries(b, vs)
ItsHold(p, v) ==
  LET a == req[p].account IN
  /\ tx[p].view = Encumber(v, a, v[a].encumbered + req[p].amount)
  /\ ValidateDebit(a, v[a], req[p].amount)
  /\ tx[p].entries = {}
ItsVoid(p, v) ==
  LET h == tx[p].holdRow IN
  /\ tx[p].view = Encumber(v, h.account,
                           NonNegative(v[h.account].encumbered - h.amount))
  /\ tx[p].entries = {}
ItsCapture(p, v) ==
  \A t \in tx[p].transfers :
    /\ tx[p].view = Captured(v, t)
    /\ ValidateCredit(t.to, v[t.to], t.amount)
    /\ tx[p].entries = EntriesOf(v, t)

Made(p, v) ==
  /\ pc[p] = "lock" \/ (pc[p] = "work" /\ req[p].op # "transfer") =>
       tx[p].view = v
  /\ pc[p] \in Working /\ req[p].op = "transfer" => ItsBatch(p, v)
  /\ pc[p] \in {"audit", "commit"} =>
       /\ req[p].op = "hold" => ItsHold(p, v)
       /\ req[p].op = "void" => ItsVoid(p, v)
       /\ req[p].op = "capture" => ItsCapture(p, v)

ClientSerial(p) == pc[p] \in Staging => \E v : Found(p, v) /\ Made(p, v)
SerialInv == \A p \in Clients : ClientSerial(p)

(* The run of an item more, starting from none.                            *)
LEMMA NoRun ==
  ASSUME NEW v \in [AccountIds -> Row]
  PROVE  \E b, vs : /\ Runs(b, vs) /\ vs[1] = v /\ vs[Len(b) + 1] = v
                    /\ RunTransfers(b) = {} /\ RunEntries(b, vs) = {}
<1> DEFINE b == <<>>
           vs == [i \in 1..1 |-> v]
<1>1. b \in Seq(Transfer) /\ Len(b) = 0 /\ 1..Len(b) = {} /\ vs[1] = v
  OBVIOUS
<1>2. vs \in [1..(Len(b) + 1) -> [AccountIds -> Row]]
  BY <1>1
<1> HIDE DEF b, vs
<1>3. Runs(b, vs) /\ RunTransfers(b) = {} /\ RunEntries(b, vs) = {}
  BY <1>1, <1>2 DEF Runs, RunTransfers, RunEntries
<1> QED
  BY <1>1, <1>3

LEMMA LongerRun ==
  ASSUME NEW b, NEW vs, Runs(b, vs), NEW t \in Transfer, NEW v,
         v = vs[Len(b) + 1],
         ValidateDebit(t.from, v[t.from], t.amount),
         ValidateCredit(t.to, v[t.to], t.amount),
         \A s \in RunTransfers(b) : s.id # t.id
  PROVE  \E c, ws : /\ Runs(c, ws) /\ ws[1] = vs[1]
                    /\ ws[Len(c) + 1] = Posted(v, t)
                    /\ RunTransfers(c) = RunTransfers(b) \cup {t}
                    /\ RunEntries(c, ws) = RunEntries(b, vs) \cup EntriesOf(v, t)
<1> DEFINE n == Len(b)
           c == Append(b, t)
           ws == [i \in 1..(n + 2) |-> IF i = n + 2 THEN Posted(v, t) ELSE vs[i]]
<1>1. /\ b \in Seq(Transfer) /\ n \in Nat
      /\ vs \in [1..(n + 1) -> [AccountIds -> Row]]
      /\ \A i \in 1..n :
           /\ ValidateDebit(b[i].from, vs[i][b[i].from], b[i].amount)
           /\ ValidateCredit(b[i].to, vs[i][b[i].to], b[i].amount)
           /\ vs[i + 1] = Posted(vs[i], b[i])
      /\ \A i, j \in 1..n : b[i].id = b[j].id => i = j
  <2>1. Len(b) \in Nat
    BY DEF Runs
  <2> QED
    BY <2>1 DEF Runs
<1>2. /\ c \in Seq(Transfer) /\ Len(c) = n + 1 /\ c[n + 1] = t
      /\ \A i \in 1..n : c[i] = b[i]
  BY <1>1
<1>3. v \in [AccountIds -> Row] /\ Posted(v, t) \in [AccountIds -> Row]
  <2>1. v \in [AccountIds -> Row]
    BY <1>1
  <2> QED
    BY <2>1, PostingType
<1>4. ws \in [1..(n + 2) -> [AccountIds -> Row]]
  <2>1. \A i \in 1..(n + 2) : i # n + 2 => i \in 1..(n + 1)
    BY <1>1
  <2> QED
    BY <1>1, <1>3, <2>1
<1>5. /\ ws[n + 2] = Posted(v, t)
      /\ \A i \in 1..(n + 1) : ws[i] = vs[i]
  BY <1>1
<1> HIDE DEF n, c, ws
<1>6. n + 2 = Len(c) + 1 /\ n + 2 = (n + 1) + 1 /\ 1..Len(c) = 1..n \cup {n + 1}
      /\ n + 1 \in 1..(n + 1) /\ 1..n \subseteq 1..(n + 1) /\ 1 \in 1..(n + 1)
      /\ \A i \in 1..n : i # n + 1 /\ i + 1 \in 1..(n + 1)
  BY <1>1, <1>2
<1>7. ws[n + 1] = v
  BY <1>5, <1>6 DEF n
<1>8. \A i \in 1..Len(c) :
        /\ ValidateDebit(c[i].from, ws[i][c[i].from], c[i].amount)
        /\ ValidateCredit(c[i].to, ws[i][c[i].to], c[i].amount)
        /\ ws[i + 1] = Posted(ws[i], c[i])
  <2>1. ASSUME NEW i \in 1..n
        PROVE  /\ ValidateDebit(c[i].from, ws[i][c[i].from], c[i].amount)
               /\ ValidateCredit(c[i].to, ws[i][c[i].to], c[i].amount)
               /\ ws[i + 1] = Posted(ws[i], c[i])
    <3>1. c[i] = b[i] /\ ws[i] = vs[i] /\ ws[i + 1] = vs[i + 1]
      BY <1>2, <1>5, <1>6
    <3> QED
      BY <1>1, <3>1
  <2>2. /\ ValidateDebit(t.from, ws[n + 1][t.from], t.amount)
        /\ ValidateCredit(t.to, ws[n + 1][t.to], t.amount)
        /\ ws[(n + 1) + 1] = Posted(ws[n + 1], t)
    BY <1>5, <1>6, <1>7
  <2> QED
    BY <1>2, <1>6, <2>1, <2>2
<1>9. \A i, j \in 1..Len(c) : c[i].id = c[j].id => i = j
  <2>1. \A i \in 1..n : c[i].id # t.id
    BY <1>2 DEF RunTransfers, n
  <2> QED
    BY <1>1, <1>2, <1>6, <2>1
<1>10. Runs(c, ws)
  BY <1>2, <1>4, <1>6, <1>8, <1>9 DEF Runs
<1>11. RunTransfers(c) = RunTransfers(b) \cup {t}
  BY <1>2, <1>6 DEF RunTransfers, n
<1>12. RunEntries(c, ws) = RunEntries(b, vs) \cup EntriesOf(v, t)
  <2>1. \A i \in 1..n : EntriesOf(ws[i], c[i]) = EntriesOf(vs[i], b[i])
    BY <1>2, <1>5, <1>6
  <2>2. EntriesOf(ws[n + 1], c[n + 1]) = EntriesOf(v, t)
    BY <1>2, <1>7
  <2>3. \A i \in 1..Len(c) : i \in 1..n \/ i = n + 1
    BY <1>6
  <2>4. 1..n \subseteq 1..Len(c) /\ n + 1 \in 1..Len(c)
    BY <1>6
  <2>5. RunEntries(b, vs) = UNION {EntriesOf(vs[i], b[i]) : i \in 1..n}
    BY DEF RunEntries, n
  <2>6. RunEntries(c, ws) = UNION {EntriesOf(ws[i], c[i]) : i \in 1..Len(c)}
    BY DEF RunEntries
  <2>7. ASSUME NEW e PROVE e \in RunEntries(c, ws) <=>
                             e \in RunEntries(b, vs) \/ e \in EntriesOf(v, t)
    BY <2>1, <2>2, <2>3, <2>4, <2>5, <2>6
  <2> QED
    BY <2>7
<1>13. ws[1] = vs[1] /\ ws[Len(c) + 1] = Posted(v, t)
  BY <1>5, <1>6
<1> QED
  BY <1>10, <1>11, <1>12, <1>13

(* A request that does not step keeps what it has, the steps of the others *)
(* being those that do not touch its rows.                                 *)
LEMMA OtherSerial ==
  ASSUME NEW q \in Clients, ClientSerial(q),
         pc'[q] = pc[q], req'[q] = req[q], tx'[q] = tx[q],
         Locked(q)' = Locked(q), \A a \in Locked(q) : row'[a] = row[a]
  PROVE  ClientSerial(q)'
<1> SUFFICES ASSUME pc[q] \in Staging
             PROVE  \E v : (Found(q, v) /\ Made(q, v))'
  BY DEF ClientSerial
<1>1. PICK v : Found(q, v) /\ Made(q, v)
  BY DEF ClientSerial
<1>2. Found(q, v)'
  BY <1>1 DEF Found
<1>3. /\ ItsBatch(q, v)' <=> ItsBatch(q, v)
      /\ ItsHold(q, v)' <=> ItsHold(q, v)
      /\ ItsVoid(q, v)' <=> ItsVoid(q, v)
      /\ ItsCapture(q, v)' <=> ItsCapture(q, v)
  BY DEF ItsBatch, ItsHold, ItsVoid, ItsCapture
<1>4. Made(q, v)'
  BY <1>1, <1>3 DEF Made
<1> QED
  BY <1>2, <1>4

(* What a request has locked nobody else writes.                           *)
LEMMA RowsElsewhere ==
  ASSUME SafeInv, NEW p \in Clients,
         Call(p) \/ Acquire(p) \/ Step(p) \/ Fault(p),
         NEW q \in Clients \ {p}
  PROVE  req'[q] = req[q] /\ \A a \in Locked(q) : row'[a] = row[a]
<1>1. /\ req \in [Clients -> Request] /\ row \in [AccountIds -> Row]
      /\ Locked(q) \subseteq accounts /\ Locked(q) \subseteq AccountIds
      /\ \A a \in Locked(q) : a \notin Locked(p)
  BY DEF SafeInv, TypeInv, TypeOK, ClientSafe, Locked
<1>2. req'[q] = req[q]
  <2>1. ASSUME NEW r, req' = [req EXCEPT ![p] = r] PROVE req'[q] = req[q]
    BY <1>1, <2>1
  <2>2. UNCHANGED req \/ \E r : req' = [req EXCEPT ![p] = r]
    <3>1. CASE Call(p)
      BY <3>1 DEF Call, CreateAccount, CreateBatchTransfer, ReverseTransfer,
         HoldFunds, VoidHold, CaptureHold, Submit
    <3>2. CASE Acquire(p)
      BY <3>2, Zenon DEF Acquire, LockHold, LockAccount, AuditInTx, AuditFailure,
         AuditAfterCommit, Done
    <3>3. CASE Step(p)
      BY <3>3, ZenonT(30) DEF Step, Begin, ProcessTransfer, SettleHold, PlaceHold,
         ReleaseHold, Commit, Refuse, RollBack, Done
    <3>4. CASE Fault(p)
      BY <3>4 DEF Fault, CommitUnanswered, Abort, Retry, Crash, RollBack, Done
    <3> QED
      BY <3>1, <3>2, <3>3, <3>4
  <2> QED
    BY <2>1, <2>2
<1>3. \A a \in Locked(q) : row'[a] = row[a]
  <2>1. ASSUME Apply(p) PROVE \A a \in Locked(q) : row'[a] = row[a]
    BY <1>1, <2>1 DEF Apply
  <2>2. ASSUME NEW a \in AccountIds, CreateAccount(p, a)
        PROVE  \A b \in Locked(q) : row'[b] = row[b]
    BY <1>1, <2>2 DEF CreateAccount
  <2>3. \/ UNCHANGED row \/ Apply(p)
        \/ \E a \in AccountIds : CreateAccount(p, a)
    <3>1. CASE Call(p)
      BY <3>1 DEF Call, CreateBatchTransfer, ReverseTransfer,
         HoldFunds, VoidHold, CaptureHold, Submit, db
    <3>2. CASE Acquire(p)
      BY <3>2, Zenon DEF Acquire, LockHold, LockAccount, AuditInTx, AuditFailure,
         AuditAfterCommit, db
    <3>3. CASE Step(p)
      BY <3>3, ZenonT(30) DEF Step, Begin, ProcessTransfer, SettleHold, PlaceHold,
         ReleaseHold, Commit, Refuse, RollBack, db
    <3>4. CASE Fault(p)
      BY <3>4 DEF Fault, CommitUnanswered, Abort, Retry, Crash, RollBack, db
    <3> QED
      BY <3>1, <3>2, <3>3, <3>4
  <2> QED
    BY <2>1, <2>2, <2>3
<1> QED
  BY <1>2, <1>3

(* The steps of p itself.                                                  *)
LEMMA OutsideSerial ==
  ASSUME SafeInv, NEW p \in Clients,
         \/ Call(p) \/ Commit(p) \/ CommitUnanswered(p)
         \/ AuditFailure(p) \/ AuditAfterCommit(p) \/ Crash(p)
         \/ Refuse(p) \/ Abort(p) \/ Retry(p)
  PROVE  ClientSerial(p)'
<1>1. pc \in [Clients -> Pc]
  BY DEF SafeInv, TypeInv, TypeOK
<1>2. \/ UNCHANGED pc /\ pc[p] = "idle"
      \/ \E next \in {"idle", "begin", "failed", "record"} :
           pc' = [pc EXCEPT ![p] = next]
  <2>1. CASE Call(p)
    BY <2>1 DEF Call, CreateAccount, CreateBatchTransfer, ReverseTransfer,
       HoldFunds, VoidHold, CaptureHold, Submit, Goto
  <2>2. CASE Commit(p) \/ CommitUnanswered(p)
    BY <2>2 DEF Commit, CommitUnanswered, Done, Forget, Goto
  <2>3. CASE \/ AuditFailure(p) \/ AuditAfterCommit(p) \/ Crash(p)
             \/ Refuse(p) \/ Abort(p) \/ Retry(p)
    BY <2>3 DEF AuditFailure, AuditAfterCommit, Crash, Refuse, Abort, Retry,
       RollBack, Done, Forget, Goto
  <2> QED
    BY <2>1, <2>2, <2>3
<1>3. pc'[p] \notin Staging
  BY <1>1, <1>2 DEF Staging
<1> QED
  BY <1>3 DEF ClientSerial

(* While a transaction takes its locks it has made nothing yet.            *)
LEMMA OpensSerial ==
  ASSUME SafeInv', NEW p \in Clients, pc'[p] \in {"lock", "work"},
         tx'[p].transfers = {}, tx'[p].entries = {},
         \A a \in Locked(p)' : tx'[p].view[a] = row'[a]
  PROVE  ClientSerial(p)'
<1>1. PICK v \in [AccountIds -> Row] : v = tx'[p].view
  BY DEF SafeInv, TypeInv, TypeOK, TxState
<1>2. Found(p, v)'
  BY <1>1 DEF Found
<1>3. ItsBatch(p, v)'
  <2>1. PICK b, vs : /\ Runs(b, vs) /\ vs[1] = v /\ vs[Len(b) + 1] = v
                     /\ RunTransfers(b) = {} /\ RunEntries(b, vs) = {}
    BY <1>1, NoRun
  <2>2. /\ Runs(b, vs)' /\ RunTransfers(b)' = {} /\ RunEntries(b, vs)' = {}
    BY <2>1 DEF Runs, RunTransfers, RunEntries
  <2> QED
    BY <1>1, <2>1, <2>2 DEF ItsBatch
<1>4. Made(p, v)'
  BY <1>1, <1>3 DEF Made
<1> QED
  BY <1>2, <1>4 DEF ClientSerial

LEMMA LockingSerial ==
  ASSUME EntriesInv, SafeInv', NEW p \in Clients, ClientSerial(p),
         \/ Begin(p) \/ LockHold(p)
         \/ \E a \in AccountIds : LockAccount(p, a)
  PROVE  ClientSerial(p)'
<1>1. /\ SafeInv /\ tx \in [Clients -> TxState] /\ pc \in [Clients -> Pc]
      /\ tx[p] \in TxState /\ row \in [AccountIds -> Row]
      /\ rowLock \in [AccountIds -> Clients \cup {None}]
      /\ pc[p] \notin Staging => Locked(p) = {}
  BY DEF EntriesInv, SafeInv, TypeInv, TypeOK, ClientSafe
<1>2. ASSUME NEW t \in {NoTx, [NoTx EXCEPT !.rest = req[p].batch],
                       [NoTx EXCEPT !.hold = req[p].hold,
                                    !.holdRow = holds[req[p].hold]]},
             NEW ids, StartLocking(p, t, ids), UNCHANGED rowLock,
             pc[p] \in {"begin", "holdLock"}
      PROVE  ClientSerial(p)'
  <2> DEFINE u == [t EXCEPT !.need = ids \cap accounts]
  <2>1. pc'[p] \in {"lock", "work"}
    BY <1>1, <1>2 DEF StartLocking, Goto
  <2>2. u.transfers = {} /\ u.entries = {}
    <3>1. CASE t = NoTx
      BY <3>1 DEF NoTx
    <3>2. CASE t = [NoTx EXCEPT !.rest = req[p].batch]
      BY <3>2 DEF NoTx
    <3>3. CASE t = [NoTx EXCEPT !.hold = req[p].hold,
                                !.holdRow = holds[req[p].hold]]
      BY <3>3 DEF NoTx
    <3> QED
      BY <1>2, <3>1, <3>2, <3>3
  <2>3. tx'[p] = u
    BY <1>1, <1>2 DEF StartLocking
  <2>4. Locked(p)' = {}
    BY <1>1, <1>2 DEF Locked, Staging
  <2> HIDE DEF u
  <2> QED
    BY <2>1, <2>2, <2>3, <2>4, OpensSerial
<1>3. CASE Begin(p)
  <2>1. pc[p] = "begin" /\ UNCHANGED rowLock
    BY <1>3 DEF Begin, locks
  <2>2. ASSUME Goto(p, "holdLock") PROVE ClientSerial(p)'
    BY <1>1, <2>2 DEF Goto, ClientSerial, Staging
  <2> QED
    BY <1>2, <1>3, <2>1, <2>2 DEF Begin
<1>4. CASE LockHold(p)
  <2>1. pc[p] = "holdLock" /\ UNCHANGED rowLock
    BY <1>4 DEF LockHold
  <2> QED
    BY <1>2, <1>4, <2>1 DEF LockHold
<1>5. ASSUME NEW a \in AccountIds, LockAccount(p, a) PROVE ClientSerial(p)'
  <2> DEFINE u == [tx[p] EXCEPT !.need = @ \ {a}, !.view[a] = row[a]]
  <2>1. /\ pc[p] = "lock" /\ rowLock[a] = None
        /\ rowLock' = [rowLock EXCEPT ![a] = p]
        /\ UNCHANGED row
    BY <1>5 DEF LockAccount, RowFree, db
  <2>8. tx' = [tx EXCEPT ![p] = u]
    <3>1. /\ tx \in [Clients -> TxState] /\ tx[p] \in TxState
          /\ tx' = [tx EXCEPT ![p].need = @ \ {a}, ![p].view[a] = row[a]]
      BY <1>1, <1>5 DEF LockAccount
    <3> QED
      BY <3>1 DEF TxState
  <2>0. pc'[p] \in {"lock", "work"}
    BY <1>1, <1>5 DEF LockAccount, Goto
  <2>2. /\ u.entries = tx[p].entries /\ u.transfers = tx[p].transfers
        /\ u.view = [tx[p].view EXCEPT ![a] = row[a]]
        /\ tx[p].view \in [AccountIds -> Row]
    BY <1>1 DEF TxState
  <2>3. tx[p].entries = {} /\ tx[p].transfers = {}
    BY <1>1, <2>1, ViewOf DEF EntriesInv, ClientEntries, Staging, OwnRows
  <2>4. \A b \in Locked(p) : tx[p].view[b] = row[b]
    BY <2>1 DEF ClientSerial, Found, Made, Staging
  <2> HIDE DEF u
  <2>5. tx'[p] = u
    BY <1>1, <2>8
  <2>6. \A b \in Locked(p)' : b \in AccountIds /\ (b = a \/ b \in Locked(p))
    BY <1>1, <2>1 DEF Locked
  <2>7. \A b \in Locked(p)' : tx'[p].view[b] = row'[b]
    BY <2>1, <2>2, <2>4, <2>5, <2>6
  <2> QED
    BY <2>0, <2>2, <2>3, <2>5, <2>7, OpensSerial
<1> QED
  BY <1>3, <1>4, <1>5

(* What the work stages is made of the rows that were found.               *)
LEMMA ProcessTransferSerial ==
  ASSUME SafeInv, NEW p \in Clients, ClientSerial(p), NEW id \in TransferIds,
         ProcessTransfer(p, id)
  PROVE  ClientSerial(p)'
<1> DEFINE own == tx[p]
           i == Head(tx[p].rest)
           t == [id |-> id, from |-> i.from, to |-> i.to,
                 amount |-> i.amount, reversed |-> i.reversed, hold |-> None]
           type == IF i.reversed = None THEN "transfer.created"
                                        ELSE "transfer.reversed"
           event == [type |-> type, aggregate |-> id, transfer |-> id]
           u == [own EXCEPT
                   !.view = Posted(own.view, t), !.rest = Tail(own.rest),
                   !.transfers = own.transfers \cup {t},
                   !.entries = own.entries \cup EntriesOf(own.view, t),
                   !.events = own.events \cup {event}]
           next == IF Len(tx[p].rest) = 1 THEN "audit" ELSE "work"
<1>1. /\ pc[p] = "work" /\ pc[p] \in Staging /\ pc[p] \in Working
      /\ req[p].op = "transfer"
      /\ UNCHANGED <<row, rowLock, req>>
      /\ AllFound(p) /\ CanTransfer(p, i) /\ \A s \in tx[p].transfers : s.id # id
      /\ tx' = [tx EXCEPT ![p] = u] /\ pc' = [pc EXCEPT ![p] = next]
      /\ next \in {"work", "audit"}
  BY DEF ProcessTransfer, Staging, Goto, db, locks, Working, FreshTransfer
<1>2. /\ tx[p] \in TxState /\ OwnRows(p) /\ TypeInv
      /\ tx \in [Clients -> TxState] /\ pc \in [Clients -> Pc]
  BY <1>1, ViewOf DEF SafeInv, TypeInv, TypeOK
<1>3. i \in ValidInput
  BY <1>1, <1>2, ItemLocked
<1>4. t \in Transfer
  BY <1>3, TypesAssumption, SMTT(30) DEF ValidInput, Input, Amount, Transfer
<1>5. /\ ValidateDebit(t.from, own.view[t.from], t.amount)
      /\ ValidateCredit(t.to, own.view[t.to], t.amount)
      /\ t.id = id
  BY <1>1 DEF CanTransfer
<1> HIDE DEF t, i, next, event
<1>6. /\ u.transfers = own.transfers \cup {t}
      /\ u.entries = own.entries \cup EntriesOf(own.view, t)
      /\ u.view = Posted(own.view, t)
  BY <1>2 DEF TxState
<1>7. PICK v : Found(p, v) /\ Made(p, v)
  BY <1>1 DEF ClientSerial
<1>8. PICK b, vs :
        /\ Runs(b, vs) /\ vs[1] = v /\ vs[Len(b) + 1] = own.view
        /\ own.transfers = RunTransfers(b)
        /\ own.entries = RunEntries(b, vs)
  BY <1>1, <1>7 DEF Made, ItsBatch
<1>9. PICK c, ws :
        /\ Runs(c, ws) /\ ws[1] = vs[1]
        /\ ws[Len(c) + 1] = Posted(own.view, t)
        /\ RunTransfers(c) = RunTransfers(b) \cup {t}
        /\ RunEntries(c, ws) = RunEntries(b, vs) \cup EntriesOf(own.view, t)
  <2>1. \A s \in RunTransfers(b) : s.id # t.id
    BY <1>1, <1>5, <1>8
  <2> QED
    BY <1>4, <1>5, <1>8, <2>1, LongerRun
<1> HIDE DEF u
<1>10. tx'[p] = u /\ pc'[p] \in {"work", "audit"}
  BY <1>1, <1>2
<1>11. /\ Runs(c, ws)' /\ RunTransfers(c)' = own.transfers \cup {t}
       /\ RunEntries(c, ws)' = own.entries \cup EntriesOf(own.view, t)
  BY <1>8, <1>9 DEF Runs, RunTransfers, RunEntries
<1>12. ItsBatch(p, v)'
  BY <1>6, <1>8, <1>9, <1>10, <1>11 DEF ItsBatch
<1>13. Found(p, v)'
  BY <1>1, <1>7 DEF Found, Locked
<1>14. Made(p, v)'
  BY <1>1, <1>10, <1>12 DEF Made
<1> QED
  BY <1>13, <1>14 DEF ClientSerial

LEMMA PlaceHoldSerial ==
  ASSUME EntriesInv, NEW p \in Clients, ClientSerial(p), NEW h \in HoldIds,
         PlaceHold(p, h)
  PROVE  ClientSerial(p)'
<1> DEFINE a == req[p].account
           view == Encumber(tx[p].view, a,
                            tx[p].view[a].encumbered + req[p].amount)
<1>1. /\ pc[p] = "work" /\ pc[p] \in Staging /\ req[p].op = "hold"
      /\ UNCHANGED <<row, rowLock, req>>
      /\ ValidateDebit(a, tx[p].view[a], req[p].amount)
  BY DEF PlaceHold, CanHold, Staging, db, locks
<1>2. tx[p] \in TxState /\ tx \in [Clients -> TxState] /\ pc \in [Clients -> Pc]
  BY DEF EntriesInv, SafeInv, TypeInv, TypeOK
<1>3. pc'[p] = "audit"
  BY <1>2 DEF PlaceHold, Goto
<1>4. tx'[p].view = view /\ tx'[p].entries = tx[p].entries
  BY <1>2 DEF PlaceHold, TxState
<1>5. tx[p].entries = {}
  BY <1>1 DEF EntriesInv, ClientEntries
<1>6. PICK v : Found(p, v) /\ Made(p, v)
  BY <1>1 DEF ClientSerial
<1>7. tx[p].view = v
  BY <1>1, <1>6 DEF Made
<1>8. ItsHold(p, v)'
  BY <1>1, <1>4, <1>5, <1>7 DEF ItsHold
<1>9. Found(p, v)'
  BY <1>1, <1>6 DEF Found, Locked
<1>10. Made(p, v)'
  BY <1>1, <1>3, <1>8 DEF Made
<1> QED
  BY <1>9, <1>10 DEF ClientSerial

LEMMA ReleaseHoldSerial ==
  ASSUME EntriesInv, NEW p \in Clients, ClientSerial(p), ReleaseHold(p)
  PROVE  ClientSerial(p)'
<1> DEFINE h == tx[p].holdRow
           left == NonNegative(tx[p].view[h.account].encumbered - h.amount)
<1>1. /\ pc[p] = "work" /\ pc[p] \in Staging /\ req[p].op = "void"
      /\ UNCHANGED <<row, rowLock, req>>
  BY DEF ReleaseHold, Staging, db, locks
<1>2. /\ tx[p] \in TxState /\ tx \in [Clients -> TxState]
      /\ pc \in [Clients -> Pc] /\ h \in Hold
  BY DEF EntriesInv, SafeInv, TypeInv, TypeOK, TxState
<1>3. pc'[p] = "commit"
  BY <1>2 DEF ReleaseHold, Goto
<1>4. /\ tx'[p].view = Encumber(tx[p].view, h.account, left)
      /\ tx'[p].entries = tx[p].entries
      /\ tx'[p].holdRow = [h EXCEPT !.status = "voided"]
  BY <1>2 DEF ReleaseHold, TxState
<1>5. tx[p].entries = {}
  BY <1>1 DEF EntriesInv, ClientEntries
<1>6. PICK v : Found(p, v) /\ Made(p, v)
  BY <1>1 DEF ClientSerial
<1>7. tx[p].view = v
  BY <1>1, <1>6 DEF Made
<1>8. tx'[p].holdRow.account = h.account /\ tx'[p].holdRow.amount = h.amount
  BY <1>2, <1>4 DEF Hold
<1>9. ItsVoid(p, v)'
  BY <1>1, <1>4, <1>5, <1>7, <1>8 DEF ItsVoid
<1>10. Found(p, v)'
  BY <1>1, <1>6 DEF Found, Locked
<1>11. Made(p, v)'
  BY <1>1, <1>3, <1>9 DEF Made
<1> QED
  BY <1>10, <1>11 DEF ClientSerial

LEMMA SettleHoldSerial ==
  ASSUME SafeInv, NEW p \in Clients, ClientSerial(p), NEW id \in TransferIds,
         SettleHold(p, id)
  PROVE  ClientSerial(p)'
<1> DEFINE h == tx[p].holdRow
           t == [id |-> id, from |-> h.account, to |-> req[p].to,
                 amount |-> h.amount, reversed |-> None, hold |-> req[p].hold]
<1>1. /\ pc[p] = "work" /\ pc[p] \in Staging /\ req[p].op = "capture"
      /\ UNCHANGED <<row, rowLock, req>>
      /\ ValidateCredit(t.to, tx[p].view[t.to], t.amount)
  BY DEF SettleHold, CanCapture, Staging, db, locks
<1>2. tx[p] \in TxState /\ tx \in [Clients -> TxState] /\ pc \in [Clients -> Pc]
  BY DEF SafeInv, TypeInv, TypeOK
<1>3. pc'[p] = "commit"
  BY <1>2 DEF SettleHold, Goto
<1>4. /\ tx'[p].view = Captured(tx[p].view, t)
      /\ tx'[p].transfers = {t}
      /\ tx'[p].entries = EntriesOf(tx[p].view, t)
  BY <1>2 DEF SettleHold, TxState
<1> HIDE DEF t
<1>5. PICK v : Found(p, v) /\ Made(p, v)
  BY <1>1 DEF ClientSerial
<1>6. tx[p].view = v
  BY <1>1, <1>5 DEF Made
<1>7. ItsCapture(p, v)'
  BY <1>1, <1>4, <1>6 DEF ItsCapture
<1>8. Found(p, v)'
  BY <1>1, <1>5 DEF Found, Locked
<1>9. Made(p, v)'
  BY <1>1, <1>3, <1>7 DEF Made
<1> QED
  BY <1>8, <1>9 DEF ClientSerial

LEMMA AuditInTxSerial ==
  ASSUME SafeInv, NEW p \in Clients, ClientSerial(p), AuditInTx(p)
  PROVE  ClientSerial(p)'
<1>1. /\ pc[p] = "audit" /\ pc[p] \in Staging /\ pc[p] \in Working
      /\ UNCHANGED <<row, rowLock, req>>
  BY DEF AuditInTx, Staging, Working, db
<1>2. tx[p] \in TxState /\ tx \in [Clients -> TxState] /\ pc \in [Clients -> Pc]
  BY DEF SafeInv, TypeInv, TypeOK
<1>3. pc'[p] = "commit"
  BY <1>2 DEF AuditInTx, Goto
<1>4. /\ tx'[p].view = tx[p].view /\ tx'[p].transfers = tx[p].transfers
      /\ tx'[p].entries = tx[p].entries /\ tx'[p].holdRow = tx[p].holdRow
  BY <1>2 DEF AuditInTx, TxState
<1>5. PICK v : Found(p, v) /\ Made(p, v)
  BY <1>1 DEF ClientSerial
<1>6. Found(p, v)'
  BY <1>1, <1>5 DEF Found, Locked
<1>7. /\ ItsBatch(p, v)' <=> ItsBatch(p, v)
      /\ ItsHold(p, v)' <=> ItsHold(p, v)
      /\ ItsVoid(p, v)' <=> ItsVoid(p, v)
      /\ ItsCapture(p, v)' <=> ItsCapture(p, v)
  BY <1>1, <1>4 DEF ItsBatch, ItsHold, ItsVoid, ItsCapture
<1>8. Made(p, v)'
  BY <1>1, <1>3, <1>5, <1>7 DEF Made
<1> QED
  BY <1>6, <1>8 DEF ClientSerial

LEMMA SerialInit == Init => SerialInv
BY DEF Init, SerialInv, ClientSerial, Staging

LEMMA SerialStep ==
  EntriesInv /\ SafeInv' /\ SerialInv /\ [Next]_vars => SerialInv'
<1> SUFFICES ASSUME EntriesInv, SafeInv', SerialInv, [Next]_vars,
                    NEW q \in Clients
             PROVE  ClientSerial(q)'
  BY DEF SerialInv
<1>1. SafeInv /\ ClientSerial(q)
  BY DEF EntriesInv, SerialInv
<1>2. CASE UNCHANGED vars
  <2>1. UNCHANGED <<pc, req, tx, row, rowLock>>
    BY <1>2 DEF vars, db, locks
  <2> QED
    BY <1>1, <2>1, OtherSerial DEF Locked
<1>3. ASSUME NEW p \in Clients \ {q},
             Call(p) \/ Acquire(p) \/ Step(p) \/ Fault(p)
      PROVE  ClientSerial(q)'
  <2>1. Elsewhere(p)
    BY <1>3, StepEffects DEF Effects
  <2>2. req'[q] = req[q] /\ \A a \in Locked(q) : row'[a] = row[a]
    BY <1>1, <1>3, RowsElsewhere
  <2> QED
    BY <1>1, <2>1, <2>2, OtherSerial DEF Elsewhere
<1>4. CASE Call(q)
  BY <1>1, <1>4, OutsideSerial
<1>5. CASE Acquire(q)
  BY <1>1, <1>5, LockingSerial, AuditInTxSerial, OutsideSerial DEF Acquire
<1>6. CASE Step(q)
  BY <1>1, <1>6, LockingSerial, ProcessTransferSerial, SettleHoldSerial,
     PlaceHoldSerial, ReleaseHoldSerial, OutsideSerial DEF Step
<1>7. CASE Fault(q)
  BY <1>1, <1>7, OutsideSerial DEF Fault
<1> QED
  BY <1>2, <1>3, <1>4, <1>5, <1>6, <1>7 DEF Next

-----------------------------------------------------------------------------
(* C!After is a fold: a recursive function on the sets of positions in the *)
(* batch.  It exists, and on the first k positions it has what k transfers *)
(* leave; both are shown by the least k for which they would not hold.     *)
Folding(n, base, batch, h) ==
  [s \in SUBSET (1..n) |->
     IF s = {} THEN base ELSE C!Post(h[s \ {C!Max(s)}], batch[C!Max(s)])]

LEMMA MaxUpTo ==
  ASSUME NEW n \in Nat, NEW s \in SUBSET (1..(n + 1)), n + 1 \in s
  PROVE  C!Max(s) = n + 1
<1>1. \A i \in s : n + 1 >= i
  OBVIOUS
<1>2. \A i \in s : (\A j \in s : i >= j) => i = n + 1
  OBVIOUS
<1> QED
  BY <1>1, <1>2 DEF C!Max

(* The function it is defined by exists, though it is recursive: one more  *)
(* element of the batch extends it to the sets this element is in.         *)
LEMMA FoldingExists ==
  ASSUME NEW base, NEW batch, NEW n \in Nat
  PROVE  \E h : h = Folding(n, base, batch, h)
<1> DEFINE T == {k \in Nat : ~ \E h : h = Folding(k, base, batch, h)}
<1> SUFFICES ASSUME T # {} PROVE FALSE
  OBVIOUS
<1>1. PICK m \in T : \A k \in T : m <= k
  BY Smallest
<1>2. m # 0
  <2> DEFINE g == [s \in SUBSET (1..0) |-> base]
  <2>1. \A s \in SUBSET (1..0) : s = {}
    OBVIOUS
  <2>2. g = Folding(0, base, batch, g)
    BY <2>1 DEF Folding
  <2> HIDE DEF g
  <2> QED
    BY <2>2
<1>3. m - 1 \in Nat /\ m - 1 \notin T
  BY <1>1, <1>2
<1> DEFINE k == m - 1
<1>4. PICK h : h = Folding(k, base, batch, h)
  BY <1>3
<1> DEFINE g == [s \in SUBSET (1..m) |->
                   IF m \in s THEN C!Post(h[s \ {m}], batch[m]) ELSE h[s]]
<1>5. m = k + 1 /\ k \in Nat /\ m \in Nat
  BY <1>1, <1>3
<1> HIDE DEF k, T
<1>6. ASSUME NEW s \in SUBSET (1..m)
      PROVE  g[s] = IF s = {} THEN base
                    ELSE C!Post(g[s \ {C!Max(s)}], batch[C!Max(s)])
  <2>1. CASE m \in s
    <3>1. C!Max(s) = m
      BY <1>5, <2>1, MaxUpTo
    <3>2. s \ {m} \in SUBSET (1..m) /\ m \notin s \ {m} /\ s # {}
      BY <2>1
    <3>3. g[s \ {m}] = h[s \ {m}]
      BY <3>2
    <3>4. g[s] = C!Post(h[s \ {m}], batch[m])
      BY <2>1
    <3> HIDE DEF g
    <3> QED
      BY <3>1, <3>2, <3>3, <3>4
  <2>2. CASE m \notin s
    <3>1. s \in SUBSET (1..k)
      BY <1>5, <2>2
    <3>2. h[s] = IF s = {} THEN base
                 ELSE C!Post(h[s \ {C!Max(s)}], batch[C!Max(s)])
      BY <1>4, <3>1 DEF Folding
    <3>3. g[s] = h[s]
      BY <2>2
    <3>4. g[s \ {C!Max(s)}] = h[s \ {C!Max(s)}]
      BY <2>2
    <3> HIDE DEF g
    <3> QED
      BY <3>2, <3>3, <3>4
  <2> QED
    BY <2>1, <2>2
<1>7. g = Folding(m, base, batch, g)
  <2>1. DOMAIN g = SUBSET (1..m) /\ g = [s \in SUBSET (1..m) |-> g[s]]
    OBVIOUS
  <2> HIDE DEF g
  <2> QED
    BY <1>6, <2>1 DEF Folding
<1> HIDE DEF g
<1> QED
  BY <1>1, <1>7 DEF T

LEMMA AfterFolds ==
  ASSUME NEW batch \in Seq(Transfer)
  PROVE  \E h : /\ h = Folding(Len(batch), [row |-> row, entries |-> entries],
                               batch, h)
                /\ C!After(batch) = h[1..Len(batch)]
<1> DEFINE base == [row |-> row, entries |-> entries]
           h == CHOOSE h : h = Folding(Len(batch), base, batch, h)
<1>1. DOMAIN batch = 1..Len(batch) /\ Len(batch) \in Nat
  OBVIOUS
<1>2. C!After(batch) = h[1..Len(batch)]
  BY <1>1 DEF C!After, C!FoldLeft, C!MapThenFoldSet, Folding
<1> HIDE DEF base
<1>3. h = Folding(Len(batch), base, batch, h)
  BY <1>1, FoldingExists
<1> HIDE DEF h
<1> QED
  BY <1>2, <1>3 DEF base

(* Whatever goes from what is committed through the transfers of a batch,  *)
(* one after the other, is what the journal of commits computes.           *)
LEMMA AfterRun ==
  ASSUME NEW batch \in Seq(Transfer), NEW states,
         states[1] = [row |-> row, entries |-> entries],
         \A i \in 1..Len(batch) : states[i + 1] = C!Post(states[i], batch[i])
  PROVE  C!After(batch) = states[Len(batch) + 1]
<1> DEFINE n == Len(batch)
           base == [row |-> row, entries |-> entries]
<1>1. PICK h : h = Folding(n, base, batch, h) /\ C!After(batch) = h[1..n]
  BY AfterFolds
<1>2. n \in Nat
  OBVIOUS
<1> DEFINE T == {k \in 0..n : h[1..k] # states[k + 1]}
<1>3. ASSUME T # {} PROVE FALSE
  <2>1. PICK m \in T : \A k \in T : m <= k
    <3>1. T \subseteq Nat
      BY <1>2
    <3> HIDE DEF T
    <3> QED
      BY <1>3, <3>1, Smallest
  <2>2. m \in 0..n /\ h[1..m] # states[m + 1]
    OBVIOUS
  <2> HIDE DEF base, n
  <2>3. h[{}] = base
    BY <1>1 DEF Folding
  <2>4. m # 0
    <3>1. 1..0 = {}
      OBVIOUS
    <3> QED
      BY <2>2, <2>3, <3>1 DEF base
  <2> DEFINE k == m - 1
  <2>5. k \in 0..n /\ m = k + 1 /\ m \in 1..n /\ k \in Nat
    BY <1>2, <2>2, <2>4
  <2>6. h[1..k] = states[k + 1]
    BY <2>1, <2>5
  <2> HIDE DEF k, T
  <2>7. /\ 1..m \in SUBSET (1..n) /\ m \in 1..m
        /\ (1..m) \ {m} = 1..k
    BY <1>2, <2>5
  <2>8. C!Max(1..m) = m
    <3>1. 1..m \in SUBSET (1..(k + 1)) /\ k + 1 \in 1..m
      BY <2>5, <2>7
    <3> QED
      BY <2>5, <3>1, MaxUpTo
  <2>9. h[1..m] = C!Post(h[1..k], batch[m])
    <3>1. \A s \in SUBSET (1..n) : s # {} =>
            h[s] = C!Post(h[s \ {C!Max(s)}], batch[C!Max(s)])
      BY <1>1 DEF Folding
    <3>2. 1..m # {}
      BY <2>7
    <3> QED
      BY <2>7, <2>8, <3>1, <3>2
  <2>10. states[m + 1] = C!Post(states[m], batch[m])
    BY <2>5 DEF n
  <2> QED
    BY <2>2, <2>5, <2>6, <2>9, <2>10
<1> QED
  BY <1>1, <1>2, <1>3

-----------------------------------------------------------------------------
(* Ledger implements Commits, whose operators mean what they mean here.    *)

LEMMA CommitOps ==
  /\ \A v, t : C!Posted(v, t) = Posted(v, t)
  /\ \A v, t : C!Captured(v, t) = Captured(v, t)
  /\ \A v, t : C!EntriesOf(v, t) = EntriesOf(v, t)
  /\ \A v, a, n : C!Encumber(v, a, n) = Encumber(v, a, n)
  /\ \A a, r, m : C!ValidateDebit(a, r, m) <=> ValidateDebit(a, r, m)
  /\ \A a, r, m : C!ValidateCredit(a, r, m) <=> ValidateCredit(a, r, m)
  /\ \A S : C!Cardinality(S) = Cardinality(S)
  /\ C!Amount = Amount /\ C!NoHold = NoHold /\ C!NewRow = NewRow
BY DEF C!Posted, Posted, C!Captured, Captured, C!Updated, Updated,
   C!EntriesOf, EntriesOf, C!Leg, Leg, C!Encumber, Encumber,
   C!ValidateDebit, ValidateDebit, C!ValidateCredit, ValidateCredit,
   C!AvailableBalance, AvailableBalance, C!Cardinality, Cardinality,
   C!Amount, Amount, C!NoHold, NoHold, C!NewRow, NewRow

(* The table of accounts once p has written w for the rows it locked.      *)
Over(p, w) == [a \in AccountIds |-> IF a \in Locked(p) THEN w[a] ELSE row[a]]

LEMMA OverFound ==
  ASSUME SafeInv, NEW p \in Clients, NEW v, Found(p, v)
  PROVE  Over(p, v) = row
<1>1. row \in [AccountIds -> Row]
  BY DEF SafeInv, TypeInv, TypeOK
<1> QED
  BY <1>1 DEF Over, Found

LEMMA OverPosted ==
  ASSUME NEW p \in Clients, NEW w \in [AccountIds -> Row],
         NEW t, t.from \in Locked(p), t.to \in Locked(p)
  PROVE  /\ Posted(Over(p, w), t) = Over(p, Posted(w, t))
         /\ Captured(Over(p, w), t) = Over(p, Captured(w, t))
         /\ EntriesOf(Over(p, w), t) = EntriesOf(w, t)
<1>1. /\ t.from \in AccountIds /\ t.to \in AccountIds
      /\ Over(p, w)[t.from] = w[t.from] /\ Over(p, w)[t.to] = w[t.to]
  BY DEF Over, Locked
<1>2. Posted(Over(p, w), t) = Over(p, Posted(w, t))
  BY <1>1 DEF Posted, Over
<1>3. Captured(Over(p, w), t) = Over(p, Captured(w, t))
  BY <1>1 DEF Captured, Over
<1>4. EntriesOf(Over(p, w), t) = EntriesOf(w, t)
  BY <1>1 DEF EntriesOf, Leg
<1> QED
  BY <1>2, <1>3, <1>4

LEMMA OverEncumbered ==
  ASSUME NEW p \in Clients, NEW w \in [AccountIds -> Row], NEW a \in Locked(p)
  PROVE  \A n : Encumber(Over(p, w), a, n) = Over(p, Encumber(w, a, n))
<1>1. a \in AccountIds /\ Over(p, w)[a] = w[a]
  BY DEF Over, Locked
<1> QED
  BY <1>1 DEF Encumber, Over

(* What the commit of p writes is what it made of the tables.              *)
LEMMA AppliedOver ==
  ASSUME RecordsInv, SerialInv, NEW p \in Clients, pc[p] = "commit", Apply(p)
  PROVE  /\ row' = Over(p, tx[p].view)
         /\ transfers' = transfers \cup tx[p].transfers
         /\ entries' = entries \cup tx[p].entries
         /\ accounts' = accounts
         /\ \E v : Found(p, v) /\ Made(p, v)
<1>1. pc[p] \in Staging
  BY DEF Staging
<1> QED
  BY <1>1 DEF Apply, Over, SerialInv, ClientSerial

(* The order in which p posted its items is one in which Commits may.      *)
LEMMA CommitsBatch ==
  ASSUME RecordsInv, SerialInv, NEW p \in Clients, pc[p] = "commit",
         Apply(p), req[p].op = "transfer"
  PROVE  \E batch \in C!SetToSeqs(transfers' \ transfers) : C!PostBatch(batch)
<1>1. /\ row' = Over(p, tx[p].view)
      /\ transfers' = transfers \cup tx[p].transfers
      /\ entries' = entries \cup tx[p].entries
      /\ UNCHANGED <<accounts, holds>>
      /\ tx[p].transfers # {}
  BY AppliedOver, Applied, AtCommit, AddedTransfers
<1>2. PICK v : Found(p, v) /\ Made(p, v)
  BY AppliedOver
<1>3. PICK b, vs : /\ Runs(b, vs) /\ vs[1] = v /\ vs[Len(b) + 1] = tx[p].view
                   /\ tx[p].transfers = RunTransfers(b)
                   /\ tx[p].entries = RunEntries(b, vs)
  BY <1>2 DEF Made, ItsBatch, Working
<1> DEFINE n == Len(b)
<1>4. /\ b \in Seq(Transfer) /\ n \in Nat /\ 1..n = DOMAIN b
      /\ vs \in [1..(n + 1) -> [AccountIds -> Row]]
      /\ \A i \in 1..n :
           /\ ValidateDebit(b[i].from, vs[i][b[i].from], b[i].amount)
           /\ ValidateCredit(b[i].to, vs[i][b[i].to], b[i].amount)
           /\ vs[i + 1] = Posted(vs[i], b[i])
      /\ \A i, j \in 1..n : b[i].id = b[j].id => i = j
      /\ \A i \in 1..n : b[i] \in tx[p].transfers /\ i \in 1..(n + 1)
  BY <1>3 DEF Runs, RunTransfers
<1>5. ASSUME NEW t \in tx[p].transfers
      PROVE  /\ C!New(t) /\ C!Undoes(t) /\ t.hold = None
             /\ {t.from, t.to} \subseteq accounts /\ t.from # t.to
             /\ Currency[t.from] = Currency[t.to]
             /\ t.from \in Locked(p) /\ t.to \in Locked(p)
  <2>1. /\ t.from \in Locked(p) /\ t.to \in Locked(p)
        /\ Locked(p) \subseteq accounts
    BY Concerned DEF RecordsInv
  <2>2. t.hold = None /\ t.from # t.to /\ Currency[t.from] = Currency[t.to]
    BY AtCommit DEF StagedBatch
  <2>3. C!New(t)
    BY DEF RecordsInv, NewIds, Staging, C!New
  <2>4. C!Undoes(t)
    BY AddedTransfers DEF Undone, C!Undoes
  <2> QED
    BY <2>1, <2>2, <2>3, <2>4
<1> DEFINE before(i) == UNION {EntriesOf(vs[j], b[j]) : j \in 1..(i - 1)}
           states == [i \in 1..(n + 1) |->
                        [row |-> Over(p, vs[i]), entries |-> entries \cup before(i)]]
<1>6. states[1] = [row |-> row, entries |-> entries]
  <2>1. Over(p, vs[1]) = row
    BY <1>2, <1>3, OverFound DEF RecordsInv
  <2>2. before(1) = {}
    OBVIOUS
  <2>3. 1 \in 1..(n + 1)
    BY <1>4
  <2> HIDE DEF before
  <2>4. states[1] = [row |-> Over(p, vs[1]), entries |-> entries \cup before(1)]
    BY <2>3
  <2> HIDE DEF states
  <2> QED
    BY <2>1, <2>2, <2>4
<1>7. ASSUME NEW i \in 1..n
      PROVE  states[i + 1] = C!Post(states[i], b[i])
  <2>1. i + 1 \in 1..(n + 1) /\ i \in 1..(n + 1) /\ vs[i] \in [AccountIds -> Row]
    BY <1>4
  <2>2. /\ Posted(Over(p, vs[i]), b[i]) = Over(p, vs[i + 1])
        /\ EntriesOf(Over(p, vs[i]), b[i]) = EntriesOf(vs[i], b[i])
    BY <1>4, <1>5, <2>1, OverPosted
  <2>3. before(i + 1) = before(i) \cup EntriesOf(vs[i], b[i])
    <3>1. 1..((i + 1) - 1) = 1..(i - 1) \cup {i}
      BY <1>4
    <3> QED
      BY <3>1
  <2> HIDE DEF before
  <2>4. /\ states[i] = [row |-> Over(p, vs[i]), entries |-> entries \cup before(i)]
        /\ states[i + 1] = [row |-> Over(p, vs[i + 1]),
                            entries |-> entries \cup before(i + 1)]
    BY <2>1
  <2> HIDE DEF states
  <2>5. /\ C!Posted(states[i].row, b[i]) = Over(p, vs[i + 1])
        /\ C!EntriesOf(states[i].row, b[i]) = EntriesOf(vs[i], b[i])
        /\ states[i].entries = entries \cup before(i)
    BY <2>2, <2>4, CommitOps
  <2> QED
    BY <2>3, <2>4, <2>5 DEF C!Post
<1> HIDE DEF n
<1>8. ASSUME NEW i \in 1..n
      PROVE  C!After(SubSeq(b, 1, i - 1)).row = Over(p, vs[i])
  <2> DEFINE c == SubSeq(b, 1, i - 1)
  <2>1. /\ c \in Seq(Transfer) /\ Len(c) = i - 1
        /\ \A j \in 1..Len(c) : c[j] = b[j] /\ j \in 1..n
    BY <1>4 DEF n
  <2>2. Len(c) + 1 = i /\ i \in 1..(n + 1)
    BY <1>4, <2>1
  <2> HIDE DEF c
  <2>3. states[i].row = Over(p, vs[i])
    BY <2>2
  <2> HIDE DEF states
  <2>4. C!After(c) = states[i]
    BY <1>6, <1>7, <2>1, <2>2, AfterRun
  <2> QED
    BY <2>3, <2>4 DEF c
<1>9. /\ C!After(b).row = row' /\ C!After(b).entries = entries'
  <2>1. n + 1 \in 1..(n + 1)
    BY <1>4
  <2>2. before(n + 1) = RunEntries(b, vs)
    <3>1. (n + 1) - 1 = n
      BY <1>4
    <3> QED
      BY <3>1 DEF RunEntries, n
  <2> HIDE DEF before
  <2>3. /\ states[n + 1].row = Over(p, vs[n + 1])
        /\ states[n + 1].entries = entries \cup RunEntries(b, vs)
    BY <2>1, <2>2
  <2> HIDE DEF states
  <2>4. C!After(b) = states[n + 1]
    BY <1>4, <1>6, <1>7, AfterRun DEF n
  <2> QED
    BY <1>1, <1>3, <2>3, <2>4 DEF n
<1>10. b \in C!SetToSeqs(tx[p].transfers)
  <2>0. b \in [1..n -> tx[p].transfers]
    <3>1. b \in [1..n -> Transfer]
      BY <1>4
    <3> QED
      BY <1>4, <3>1
  <2>1. /\ b \in [1..n -> tx[p].transfers]
        /\ \A i, j \in 1..n : b[i] = b[j] => i = j
    BY <1>4, <2>0
  <2>2. b \in Bijection(1..n, tx[p].transfers)
    <3>1. \A t \in tx[p].transfers : \E i \in 1..n : b[i] = t
      BY <1>3 DEF RunTransfers, n
    <3> QED
      BY <2>1, <3>1 DEF Bijection, Injection, Surjection, IsInjective
  <2>3. ExistsBijection(1..n, tx[p].transfers)
    BY <2>2 DEF ExistsBijection
  <2>4. IsFiniteSet(1..n) /\ Cardinality(1..n) = n
    BY <1>4, FS_Interval
  <2>5. Cardinality(tx[p].transfers) = n
    BY <2>3, <2>4, FS_Bijection
  <2> QED
    BY <2>1, <2>5, CommitOps DEF C!SetToSeqs
<1>11. C!PostBatch(b)
  <2>1. ASSUME NEW i \in 1..n
        PROVE  C!Allowed(C!After(SubSeq(b, 1, i - 1)).row, b[i])
    <3>1. /\ b[i].from \in Locked(p) /\ b[i].to \in Locked(p)
          /\ b[i].from \in AccountIds /\ b[i].to \in AccountIds
      BY <1>4, <1>5 DEF Locked
    <3>2. /\ Over(p, vs[i])[b[i].from] = vs[i][b[i].from]
          /\ Over(p, vs[i])[b[i].to] = vs[i][b[i].to]
      BY <3>1 DEF Over
    <3> QED
      BY <1>4, <1>5, <1>8, <3>2, CommitOps DEF C!Allowed
  <2>2. transfers' = transfers \cup C!ToSet(b)
    BY <1>1, <1>3, <1>4 DEF C!ToSet, RunTransfers, n
  <2>3. b # <<>>
    BY <1>1, <1>3 DEF RunTransfers
  <2> QED
    BY <1>1, <1>4, <1>5, <1>9, <2>1, <2>2, <2>3 DEF C!PostBatch, n
<1>12. transfers' \ transfers = tx[p].transfers
  BY <1>1 DEF RecordsInv, NewIds, Staging
<1> QED
  BY <1>10, <1>11, <1>12

LEMMA CommitsHold ==
  ASSUME RecordsInv, SerialInv, NEW p \in Clients, pc[p] = "commit",
         Apply(p), req[p].op = "hold"
  PROVE  \E h \in HoldIds, a \in AccountIds, m \in Amount : C!PlaceHold(h, a, m)
<1>1. PICK h \in HoldIds, a \in AccountIds, m \in Amount, r \in Hold :
        /\ h = tx[p].hold /\ r = tx[p].holdRow
        /\ a = req[p].account /\ m = req[p].amount
        /\ r.account = a /\ r.amount = m /\ r.status = "active"
        /\ holds[h].status = "none" /\ tx[p].transfers = {}
  <2>1. /\ tx[p].hold \in HoldIds /\ StagedHold(p) /\ tx[p].holdRow \in Hold
        /\ holds[tx[p].hold].status = "none" /\ req[p] \in Request
    BY AtCommit, Typed DEF RecordsInv
  <2>2. req[p].account \in AccountIds
    BY <2>1, RequestFields
  <2> QED
    BY <2>1, <2>2 DEF StagedHold
<1>2. /\ row' = Over(p, tx[p].view)
      /\ transfers' = transfers /\ entries' = entries \cup tx[p].entries
      /\ accounts' = accounts
      /\ holds' = WithHold(holds, h, r) /\ holds \in [HoldIds -> Hold]
  BY <1>1, AppliedOver, Typed DEF Apply, RecordsInv
<1>3. r = [account |-> a, amount |-> m, status |-> "active"]
  BY <1>1 DEF Hold
<1>4. holds' = [holds EXCEPT ![h] = r]
  BY <1>2 DEF WithHold
<1>5. a \in Locked(p) /\ a \in accounts
  BY <1>1, Concerned, TypesAssumption DEF RecordsInv
<1>6. PICK v : Found(p, v) /\ Made(p, v)
  BY AppliedOver
<1>7. /\ tx[p].view = Encumber(v, a, v[a].encumbered + m)
      /\ ValidateDebit(a, v[a], m) /\ tx[p].entries = {}
  BY <1>1, <1>6 DEF Made, ItsHold
<1>8. v[a] = row[a] /\ v \in [AccountIds -> Row]
  BY <1>5, <1>6 DEF Found
<1>9. row' = Encumber(row, a, row[a].encumbered + m)
  <2>1. Over(p, v) = row
    BY <1>6, OverFound DEF RecordsInv
  <2> QED
    BY <1>2, <1>5, <1>7, <1>8, <2>1, OverEncumbered
<1>10. C!PlaceHold(h, a, m)
  BY <1>1, <1>2, <1>3, <1>4, <1>5, <1>7, <1>8, <1>9, CommitOps DEF C!PlaceHold
<1> QED
  BY <1>10

LEMMA CommitsVoid ==
  ASSUME RecordsInv, SerialInv, NEW p \in Clients, pc[p] = "commit",
         Apply(p), req[p].op = "void"
  PROVE  \E h \in HoldIds : C!VoidHold(h)
<1>1. PICK h \in HoldIds : h = tx[p].hold
  BY AtCommit
<1>2. /\ tx[p].holdRow = [holds[h] EXCEPT !.status = "voided"]
      /\ tx[p].transfers = {}
      /\ holds[h].status = "active" /\ holds \in [HoldIds -> Hold]
  BY <1>1, Typed, AtCommit DEF RecordsInv, StagedVoid
<1>3. /\ row' = Over(p, tx[p].view)
      /\ transfers' = transfers /\ entries' = entries \cup tx[p].entries
      /\ accounts' = accounts
      /\ holds' = WithHold(holds, h, tx[p].holdRow)
  BY <1>1, <1>2, AppliedOver DEF Apply
<1>4. holds' = [holds EXCEPT ![h].status = "voided"]
  BY <1>2, <1>3 DEF WithHold
<1> DEFINE a == holds[h].account
           m == holds[h].amount
<1>5. tx[p].holdRow.account = a /\ tx[p].holdRow.amount = m
  BY <1>2 DEF Hold
<1>6. a \in Locked(p) /\ a \in AccountIds /\ m \in Amount
  <2>1. HoldRow(holds[h])
    BY <1>2 DEF RecordsInv, SafeInv, TypeInv
  <2>2. tx[p].hold # None
    BY <1>1, TypesAssumption
  <2> QED
    BY <1>5, <2>1, <2>2, Concerned DEF HoldRow, RecordsInv
<1>7. row[a].encumbered >= m
  <2>1. row[a].encumbered = Held(holds, a)
    BY <1>6 DEF RecordsInv, SafeInv, CommittedSums
  <2> QED
    BY <1>2, <1>6, <2>1, HeldAtLeast, TypesAssumption
<1>8. NonNegative(row[a].encumbered - m) = row[a].encumbered - m
  <2>1. row[a] \in Row /\ m \in Int
    <3>1. row \in [AccountIds -> Row]
      BY DEF RecordsInv, SafeInv, TypeInv, TypeOK
    <3> HIDE DEF a, m
    <3> QED
      BY <1>6, <3>1, TypesAssumption DEF Amount
  <2>2. row[a].encumbered \in Int
    BY <2>1 DEF Row
  <2> QED
    BY <1>7, <2>1, <2>2 DEF NonNegative
<1>9. PICK v : Found(p, v) /\ Made(p, v)
  BY AppliedOver
<1>10. v[a] = row[a] /\ v \in [AccountIds -> Row]
  BY <1>6, <1>9 DEF Found
<1>11. /\ tx[p].view = Encumber(v, a, row[a].encumbered - m)
       /\ tx[p].entries = {}
  BY <1>5, <1>8, <1>9, <1>10 DEF Made, ItsVoid
<1>12. row' = Encumber(row, a, row[a].encumbered - m)
  <2>1. Over(p, v) = row
    BY <1>9, OverFound DEF RecordsInv
  <2> HIDE DEF a, m
  <2> QED
    BY <1>3, <1>6, <1>10, <1>11, <2>1, OverEncumbered
<1>13. C!VoidHold(h)
  BY <1>2, <1>3, <1>4, <1>11, <1>12, CommitOps DEF C!VoidHold
<1> QED
  BY <1>13

LEMMA CommitsCapture ==
  ASSUME RecordsInv, SerialInv, NEW p \in Clients, pc[p] = "commit",
         Apply(p), req[p].op = "capture"
  PROVE  \E h \in HoldIds, id \in TransferIds, to \in AccountIds :
           C!CaptureHold(h, id, to)
<1>1. PICK h \in HoldIds, t \in Transfer :
        h = tx[p].hold /\ tx[p].transfers = {t} /\ Capture(p, t)
  BY AtCommit, AddedTransfers
<1>2. /\ row' = Over(p, tx[p].view)
      /\ transfers' = transfers \cup {t} /\ accounts' = accounts
      /\ entries' = entries \cup tx[p].entries
      /\ holds' = WithHold(holds, h, [holds[h] EXCEPT !.status = "captured"])
      /\ holds[h].status = "active" /\ holds \in [HoldIds -> Hold]
  BY <1>1, Typed, AtCommit, AppliedOver DEF Apply, RecordsInv, StagedCapture
<1>3. holds' = [holds EXCEPT ![h].status = "captured"]
  BY <1>2 DEF WithHold
<1>4. t = [id |-> t.id, from |-> holds[h].account, to |-> t.to,
           amount |-> holds[h].amount, reversed |-> None, hold |-> h]
  BY <1>1 DEF Capture, Transfer
<1>5. /\ t.from \in accounts /\ t.to \in accounts
      /\ t.from \in Locked(p) /\ t.to \in Locked(p)
      /\ t.from # t.to /\ Currency[t.from] = Currency[t.to]
      /\ C!New(t)
  BY <1>1, Concerned DEF RecordsInv, Capture, NewIds, Staging, C!New
<1>6. t.id \in TransferIds /\ t.to \in AccountIds
  BY DEF Transfer
<1>7. PICK v : Found(p, v) /\ Made(p, v)
  BY AppliedOver
<1>8. /\ tx[p].view = Captured(v, t) /\ tx[p].entries = EntriesOf(v, t)
      /\ ValidateCredit(t.to, v[t.to], t.amount)
  BY <1>1, <1>7 DEF Made, ItsCapture
<1>9. v[t.to] = row[t.to] /\ v \in [AccountIds -> Row]
  BY <1>5, <1>7 DEF Found
<1>10. row' = Captured(row, t) /\ entries' = entries \cup EntriesOf(row, t)
  <2>1. Over(p, v) = row
    BY <1>7, OverFound DEF RecordsInv
  <2> QED
    BY <1>2, <1>5, <1>8, <1>9, <2>1, OverPosted
<1>11. C!ValidateCredit(t.to, row[t.to], holds[h].amount)
  BY <1>4, <1>8, <1>9, CommitOps
<1>12. /\ row' = C!Captured(row, t)
       /\ entries' = entries \cup C!EntriesOf(row, t)
  BY <1>10, CommitOps
<1>13. t.from = holds[h].account
  BY <1>4
<1>14. C!CaptureHold(h, t.id, t.to)
  BY <1>2, <1>3, <1>4, <1>5, <1>11, <1>12, <1>13 DEF C!CaptureHold
<1> QED
  BY <1>6, <1>14

(* Only a commit and a new account are seen in the tables.                 *)
LEMMA CommitsStep ==
  ASSUME RecordsInv, SerialInv, [Next]_vars
  PROVE  [C!Next]_(C!vars)
<1>1. ASSUME NEW p \in Clients, Commit(p) \/ CommitUnanswered(p) PROVE C!Next
  <2>1. pc[p] = "commit" /\ Apply(p)
    BY <1>1 DEF Commit, CommitUnanswered
  <2>2. req[p].op \in {"transfer", "hold", "void", "capture"}
    BY <2>1, AtCommit
  <2>3. C!Amount = Amount
    BY CommitOps
  <2> QED
    BY <2>1, <2>2, <2>3, CommitsBatch, CommitsHold, CommitsVoid, CommitsCapture
       DEF C!Next
<1>2. ASSUME NEW p \in Clients, NEW a \in AccountIds, CreateAccount(p, a)
      PROVE  C!Next
  <2>1. row' = row
    <3>1. row[a] = NewRow /\ row \in [AccountIds -> Row]
      BY <1>2 DEF CreateAccount, RecordsInv, SafeInv, CommittedSums, TypeInv,
         TypeOK
    <3> QED
      BY <1>2, <3>1 DEF CreateAccount
  <2> QED
    BY <1>2, <2>1 DEF CreateAccount, C!Next, C!CreateAccount
<1>3. ASSUME UNCHANGED <<accounts, row, transfers, entries, holds>>
      PROVE  UNCHANGED C!vars
  BY <1>3 DEF C!vars
<1>4. ASSUME NEW p \in Clients, Call(p) PROVE [C!Next]_(C!vars)
  BY <1>2, <1>3, <1>4 DEF Call, CreateBatchTransfer, ReverseTransfer, HoldFunds,
     VoidHold, CaptureHold, Submit, db
<1>5. ASSUME NEW p \in Clients, Acquire(p) PROVE UNCHANGED C!vars
  BY <1>3, <1>5 DEF Acquire, LockHold, LockAccount, AuditInTx, AuditFailure,
     AuditAfterCommit, db
<1>6. ASSUME NEW p \in Clients, Step(p) \/ Fault(p) PROVE [C!Next]_(C!vars)
  <2>1. CASE Commit(p) \/ CommitUnanswered(p)
    BY <1>1, <2>1, Zenon
  <2>2. CASE ~(Commit(p) \/ CommitUnanswered(p))
    BY <1>3, <1>6, <2>2, ZenonT(30) DEF Step, Fault, Begin, ProcessTransfer, SettleHold,
       PlaceHold, ReleaseHold, Refuse, Abort, Retry, Crash, RollBack, db
  <2> QED
    BY <2>1, <2>2
<1>7. CASE UNCHANGED vars
  BY <1>3, <1>7 DEF vars, db
<1> QED
  BY <1>4, <1>5, <1>6, <1>7 DEF Next

LEMMA SerialAlways == Spec => []SerialInv
<1>1. EntriesInv => SafeInv
  BY DEF EntriesInv
<1>2. EntriesInv /\ EntriesInv' /\ SerialInv /\ [Next]_vars => SerialInv'
  <2>1. EntriesInv' => SafeInv'
    BY <1>1, PTL
  <2> QED
    BY <2>1, SerialStep
<1>3. Spec => []EntriesInv
  BY EntriesInvInit, EntriesInvStep, PTL DEF Spec
<1> QED
  BY <1>2, <1>3, SerialInit, PTL DEF Spec

(* Requests that run at the same time leave the rows, versions and entries *)
(* they would leave one after the other: every COMMIT, answered or not, is *)
(* one step of the journal of commits on the rows the last one left,       *)
(* although each statement reads what was committed just before it.        *)
THEOREM LedgerImplementsCommits == Spec => ImplementsCommits
<1>1. Init => C!Init
  BY CommitOps DEF Init, C!Init
<1>2. RecordsInv /\ SerialInv /\ [Next]_vars => [C!Next]_(C!vars)
  BY CommitsStep
<1> QED
  BY <1>1, <1>2, Records, SerialAlways, PTL DEF Spec, ImplementsCommits, C!Spec
=============================================================================
