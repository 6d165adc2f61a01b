---------------------------- MODULE LedgerProofs ----------------------------
(***************************************************************************)
(* Proofs about Ledger, for any number of clients, accounts, transfers and *)
(* holds and for batches of any length: types, the order of the locks, and *)
(* that the columns of the accounts table are the sums they cache and no   *)
(* transaction breaks a limit.                                             *)
(***************************************************************************)
EXTENDS LedgerProperties, FiniteSetTheorems, SequenceTheorems,
        WellFoundedInduction, TLAPS

-----------------------------------------------------------------------------
(* How the sums of LedgerTypes change with a transfer or a hold.           *)

(* A row's worth of units: {x} \X (1..n) has n elements.                   *)
LEMMA Slice ==
  ASSUME NEW x, NEW n \in Nat
  PROVE  /\ IsFiniteSet({x} \X (1..n))
         /\ Cardinality({x} \X (1..n)) = n
<1>1. IsFiniteSet({x}) /\ Cardinality({x}) = 1
  BY FS_Singleton
<1>2. IsFiniteSet(1..n) /\ Cardinality(1..n) = n
  BY FS_Interval
<1>3. /\ IsFiniteSet({x} \X (1..n))
      /\ Cardinality({x} \X (1..n)) = Cardinality({x}) * Cardinality(1..n)
  BY <1>1, <1>2, FS_Product, Zenon
<1> QED
  BY <1>1, <1>2, <1>3

(* The units of finitely many rows are finitely many.                      *)
LEMMA UnitsFinite ==
  ASSUME NEW S, IsFiniteSet(S), MaxAmount \in Nat
  PROVE  IsFiniteSet(Unit(S))
<1>1. IsFiniteSet(Amount)
  BY FS_Interval DEF Amount
<1> QED
  BY <1>1, FS_Product DEF Unit

(* Adding n new units to a finite set of units adds n to the sum.          *)
LEMMA AddSlice ==
  ASSUME NEW U, IsFiniteSet(U), NEW x, NEW n \in Nat,
         \A u \in U : u[1] # x
  PROVE  /\ IsFiniteSet(U \cup ({x} \X (1..n)))
         /\ Cardinality(U \cup ({x} \X (1..n))) = Cardinality(U) + n
<1> DEFINE X == {x} \X (1..n)
<1>1. IsFiniteSet(X) /\ Cardinality(X) = n
  BY Slice
<1>2. U \cap X = {}
  OBVIOUS
<1>3. Cardinality(U \cap X) = 0
  BY <1>2, FS_EmptySet
<1>4. Cardinality(U) \in Nat
  BY FS_CardinalityType
<1> QED
  BY <1>1, <1>3, <1>4, FS_Union

(* One more transfer credits its to account and debits its from account.   *)
LEMMA NetOfOneMore ==
  ASSUME NEW ts, IsFiniteSet(ts), MaxAmount \in Nat,
         NEW t, t \notin ts, t.amount \in Amount, NEW a
  PROVE  Net(ts \cup {t}, a) =
           Net(ts, a) + (IF t.to = a THEN t.amount ELSE 0)
                      - (IF t.from = a THEN t.amount ELSE 0)
<1> DEFINE new == {t} \X (1..t.amount)
<1>1. /\ t.amount \in Nat /\ 1..t.amount \subseteq Amount
  BY DEF Amount
<1>2. /\ IsFiniteSet(CreditUnits(ts, a)) /\ IsFiniteSet(DebitUnits(ts, a))
      /\ \A u \in CreditUnits(ts, a) \cup DebitUnits(ts, a) : u[1] # t
  <2>1. CreditUnits(ts, a) \subseteq Unit(ts) /\ DebitUnits(ts, a) \subseteq Unit(ts)
    BY DEF CreditUnits, DebitUnits
  <2>2. \A u \in Unit(ts) : u[1] # t
    BY DEF Unit
  <2> QED
    BY <2>1, <2>2, UnitsFinite, FS_Subset
<1>3. CreditUnits(ts \cup {t}, a) =
        IF t.to = a THEN CreditUnits(ts, a) \cup new ELSE CreditUnits(ts, a)
  BY <1>1 DEF CreditUnits, Unit, Amount
<1>4. DebitUnits(ts \cup {t}, a) =
        IF t.from = a THEN DebitUnits(ts, a) \cup new ELSE DebitUnits(ts, a)
  BY <1>1 DEF DebitUnits, Unit, Amount
<1>5. Cardinality(CreditUnits(ts \cup {t}, a)) =
        Cardinality(CreditUnits(ts, a)) + (IF t.to = a THEN t.amount ELSE 0)
  <2>1. Cardinality(CreditUnits(ts, a) \cup new) =
          Cardinality(CreditUnits(ts, a)) + t.amount
    BY <1>1, <1>2, AddSlice, ZenonT(30)
  <2>2. Cardinality(CreditUnits(ts, a)) \in Nat
    BY <1>2, FS_CardinalityType
  <2> QED
    BY <1>3, <2>1, <2>2
<1>6. Cardinality(DebitUnits(ts \cup {t}, a)) =
        Cardinality(DebitUnits(ts, a)) + (IF t.from = a THEN t.amount ELSE 0)
  <2>1. Cardinality(DebitUnits(ts, a) \cup new) =
          Cardinality(DebitUnits(ts, a)) + t.amount
    BY <1>1, <1>2, AddSlice, ZenonT(30)
  <2>2. Cardinality(DebitUnits(ts, a)) \in Nat
    BY <1>2, FS_CardinalityType
  <2> QED
    BY <1>4, <2>1, <2>2
<1>7. /\ Cardinality(CreditUnits(ts, a)) \in Nat
      /\ Cardinality(DebitUnits(ts, a)) \in Nat
  BY <1>2, FS_CardinalityType
<1> QED
  BY <1>1, <1>5, <1>6, <1>7 DEF Net

(* Transfers that do not touch an account do not change its sum.           *)
LEMMA NetOfOthers ==
  ASSUME NEW ts, NEW us, NEW a,
         \A u \in us : u.from # a /\ u.to # a
  PROVE  Net(ts \cup us, a) = Net(ts, a)
<1>1. CreditUnits(ts \cup us, a) = CreditUnits(ts, a)
  BY DEF CreditUnits, Unit
<1>2. DebitUnits(ts \cup us, a) = DebitUnits(ts, a)
  BY DEF DebitUnits, Unit
<1> QED
  BY <1>1, <1>2 DEF Net

LEMMA NetType ==
  ASSUME NEW ts, IsFiniteSet(ts), MaxAmount \in Nat, NEW a
  PROVE  Net(ts, a) \in Int
<1>1. CreditUnits(ts, a) \subseteq Unit(ts) /\ DebitUnits(ts, a) \subseteq Unit(ts)
  BY DEF CreditUnits, DebitUnits
<1>2. IsFiniteSet(CreditUnits(ts, a)) /\ IsFiniteSet(DebitUnits(ts, a))
  BY <1>1, UnitsFinite, FS_Subset
<1> QED
  BY <1>2, FS_CardinalityType DEF Net

(* Nothing is owed before the first transfer.                              *)
LEMMA NetOfNone == \A a : Net({}, a) = 0
<1>1. \A a : CreditUnits({}, a) = {} /\ DebitUnits({}, a) = {}
  BY DEF CreditUnits, DebitUnits, Unit
<1> QED
  BY <1>1, FS_EmptySet DEF Net

-----------------------------------------------------------------------------
LEMMA HeldFinite ==
  ASSUME TypesAssumption, NEW hs, NEW a
  PROVE  /\ IsFiniteSet(HeldUnits(hs, a))
         /\ Held(hs, a) \in Nat
<1>1. IsFiniteSet(Unit(HoldIds))
  BY UnitsFinite DEF TypesAssumption
<1>2. HeldUnits(hs, a) \in SUBSET Unit(HoldIds)
  BY DEF HeldUnits
<1>3. IsFiniteSet(HeldUnits(hs, a))
  BY <1>1, <1>2, FS_Subset
<1> QED
  BY <1>3, FS_CardinalityType DEF Held

(* A hold that becomes active keeps its amount aside on its account, and   *)
(* nothing on the others.                                                  *)
LEMMA HeldWithActive ==
  ASSUME TypesAssumption, NEW hs, NEW h \in HoldIds, NEW r, NEW a,
         hs[h].status # "active", r.status = "active", r.amount \in Amount
  PROVE  Held(WithHold(hs, h, r), a) =
           Held(hs, a) + (IF r.account = a THEN r.amount ELSE 0)
<1> DEFINE after == WithHold(hs, h, r)
           new == {h} \X (1..r.amount)
<1>1. r.amount \in Nat /\ 1..r.amount \subseteq Amount
  BY DEF Amount, TypesAssumption
<1>2. IsFiniteSet(HeldUnits(hs, a)) /\ Held(hs, a) \in Nat
  BY HeldFinite
<1>3. \A u \in HeldUnits(hs, a) : u[1] # h
  BY DEF HeldUnits
<1>4. after[h] = r /\ \A k \in HoldIds : k # h => after[k] = hs[k]
  BY DEF WithHold
<1>5. CASE r.account = a
  <2>1. HeldUnits(after, a) = HeldUnits(hs, a) \cup new
    BY <1>1, <1>4, <1>5 DEF HeldUnits, Unit, Amount
  <2>2. Cardinality(HeldUnits(hs, a) \cup new) =
          Cardinality(HeldUnits(hs, a)) + r.amount
    BY <1>1, <1>2, <1>3, AddSlice
  <2> QED
    BY <1>5, <2>1, <2>2 DEF Held
<1>6. CASE r.account # a
  <2>1. HeldUnits(after, a) = HeldUnits(hs, a)
    BY <1>4, <1>6 DEF HeldUnits, Unit
  <2> QED
    BY <1>2, <1>6, <2>1 DEF Held
<1> QED
  BY <1>5, <1>6

(* A hold that is voided or captured gives its amount back.                *)
LEMMA HeldWithInactive ==
  ASSUME TypesAssumption, NEW hs \in [HoldIds -> Hold], NEW h \in HoldIds,
         NEW r, NEW a,
         hs[h].status = "active", r.status # "active", hs[h].amount \in Amount
  PROVE  Held(WithHold(hs, h, r), a) =
           Held(hs, a) - (IF hs[h].account = a THEN hs[h].amount ELSE 0)
<1> DEFINE after == WithHold(hs, h, r)
<1>1. after[h] = r
  BY DEF WithHold
<1>2. WithHold(after, h, hs[h]) = hs
  BY DEF WithHold
<1>3. Held(WithHold(after, h, hs[h]), a) =
        Held(after, a) + (IF hs[h].account = a THEN hs[h].amount ELSE 0)
  <2> HIDE DEF after
  <2> QED BY <1>1, HeldWithActive
<1>4. Held(after, a) \in Nat /\ hs[h].amount \in Nat
  BY HeldFinite DEF Amount, TypesAssumption
<1> QED
  BY <1>2, <1>3, <1>4

(* A hold of another account does not change what an account keeps aside.  *)
LEMMA HeldOfOthers ==
  ASSUME NEW hs, NEW h, NEW r, NEW a,
         r.status = "active" => r.account # a,
         h \in HoldIds /\ hs[h].status = "active" => hs[h].account # a
  PROVE  Held(WithHold(hs, h, r), a) = Held(hs, a)
<1>1. HeldUnits(WithHold(hs, h, r), a) = HeldUnits(hs, a)
  BY DEF HeldUnits, Unit, WithHold
<1> QED
  BY <1>1 DEF Held

(* An active hold is part of what its account keeps aside.                 *)
LEMMA HeldAtLeast ==
  ASSUME TypesAssumption, NEW hs \in [HoldIds -> Hold], NEW h \in HoldIds,
         hs[h].status = "active", hs[h].amount \in Amount
  PROVE  Held(hs, hs[h].account) >= hs[h].amount
<1> DEFINE after == WithHold(hs, h, NoHold)
<1>1. Held(after, hs[h].account) = Held(hs, hs[h].account) - hs[h].amount
  BY HeldWithInactive DEF NoHold
<1>2. Held(after, hs[h].account) \in Nat /\ Held(hs, hs[h].account) \in Nat
  BY HeldFinite
<1> QED
  BY <1>1, <1>2 DEF Amount, TypesAssumption

LEMMA HeldOfNone ==
  \A a : Held([h \in HoldIds |-> NoHold], a) = 0
<1>1. \A a : HeldUnits([h \in HoldIds |-> NoHold], a) = {}
  BY DEF HeldUnits, Unit, NoHold
<1> QED
  BY <1>1, FS_EmptySet DEF Held

-----------------------------------------------------------------------------
(* Types.  TypeOK alone is not inductive: a staged transfer has the type of*)
(* a transfers row because its item passed the validation of the batch, a  *)
(* captured one because no active hold lacks an account or an amount.      *)

Staging == {"lock", "work", "audit", "commit"}
ValidInput == {i \in Input : i.from # i.to /\ i.amount > 0}
HoldRow(r) == r.account \in AccountIds /\ r.amount \in Amount

ClientTyped(p) ==
  /\ pc[p] \in InTx => req[p].op \in {"transfer", "hold", "void", "capture"}
  /\ pc[p] \in {"holdLock", "record"} => req[p].op \in {"void", "capture"}
  /\ pc[p] \in InTx /\ req[p].op = "transfer" =>
       req[p].batch \in Seq(ValidInput) /\ req[p].batch # <<>>
  /\ pc[p] \in InTx /\ req[p].op = "hold" => req[p].amount > 0
  /\ pc[p] \in Staging /\ req[p].op = "transfer" =>
       tx[p].rest \in Seq(ValidInput)
  /\ pc[p] \in {"lock", "work"} /\ req[p].op = "transfer" =>
       tx[p].rest # <<>>
  /\ pc[p] \in Staging /\ req[p].op \in {"void", "capture"} =>
       HoldRow(tx[p].holdRow)
  /\ pc[p] \in Staging /\ tx[p].holdRow.status # "none" =>
       HoldRow(tx[p].holdRow)
  /\ pc[p] = "audit" /\ req[p].op = "hold" => tx[p].hold \in HoldIds

TypeInv ==
  /\ TypeOK
  /\ \A h \in HoldIds : holds[h].status # "none" => HoldRow(holds[h])
  /\ \A p \in Clients : ClientTyped(p)

LEMMA RequestFields ==
  ASSUME NEW r \in Request
  PROVE  /\ r.op = "transfer" => r.batch \in Seq(Input)
         /\ r.op = "hold" => r.account \in AccountIds /\ r.amount \in 0..MaxAmount
         /\ r.op = "void" => r.hold \in HoldIds
         /\ r.op = "capture" => r.hold \in HoldIds /\ r.to \in AccountIds
BY DEF Request, NoRequest

LEMMA NoTxType == NoTx \in TxState
<1>1. NewRow \in Row /\ NoHold \in Hold
  BY TypesAssumption DEF NewRow, Row, NoHold, Hold, HoldStatus
<1>2. <<>> \in Seq(Input)
  OBVIOUS
<1> QED
  BY <1>1, <1>2 DEF NoTx, TxState

LEMMA ValidBatchType ==
  ASSUME NEW b \in Seq(Input), ValidBatch(b)
  PROVE  b \in Seq(ValidInput)
<1>1. \A i \in 1..Len(b) : b[i] \in ValidInput
  BY DEF ValidBatch, ValidInput
<1> QED
  BY <1>1

LEMMA UpdatedType ==
  ASSUME NEW r \in Row, NEW b \in Int, NEW e \in Int
  PROVE  Updated(r, b, e) \in Row
BY DEF Updated, Row

LEMMA PostingType ==
  ASSUME NEW v \in [AccountIds -> Row], NEW t \in Transfer
  PROVE  /\ EntriesOf(v, t) \subseteq Entry
         /\ Posted(v, t) \in [AccountIds -> Row]
         /\ Captured(v, t) \in [AccountIds -> Row]
<1>1. /\ t.amount \in Int /\ t.id \in TransferIds
      /\ t.from \in AccountIds /\ t.to \in AccountIds
  BY DEF Transfer, Amount
<1>2. \A r \in Row : r.balance \in Int /\ r.encumbered \in Int /\ r.version \in Nat
  BY DEF Row
<1>3. EntriesOf(v, t) \subseteq Entry
  BY <1>1, <1>2 DEF EntriesOf, Leg, Entry
<1>4. \A r \in Row, d, e \in Int :
        /\ Updated(r, r.balance + d, r.encumbered) \in Row
        /\ Updated(r, r.balance - d, r.encumbered) \in Row
        /\ Updated(r, r.balance - d, r.encumbered - e) \in Row
  BY <1>2, UpdatedType
<1>5. Posted(v, t) \in [AccountIds -> Row] /\ Captured(v, t) \in [AccountIds -> Row]
  BY <1>1, <1>4 DEF Posted, Captured
<1> QED
  BY <1>3, <1>5

LEMMA OtherClientTyped ==
  ASSUME NEW q, ClientTyped(q),
         pc'[q] = pc[q], req'[q] = req[q], tx'[q] = tx[q]
  PROVE  ClientTyped(q)'
BY DEF ClientTyped

(* A step that leaves the database alone, moves one client and gives it a  *)
(* well-typed transaction keeps the types.                                 *)
LEMMA ClientStepTyped ==
  ASSUME TypeInv, NEW p \in Clients, NEW next \in Pc, NEW r \in Request,
         NEW t \in TxState, NEW n \in 0..MaxRetries,
         pc' = [pc EXCEPT ![p] = next],
         req' = [req EXCEPT ![p] = r],
         tx' = [tx EXCEPT ![p] = t],
         retries' = [retries EXCEPT ![p] = n],
         accounts' \subseteq AccountIds, row' \in [AccountIds -> Row],
         transfers' \subseteq Transfer, entries' \subseteq Entry,
         holds' \in [HoldIds -> Hold], outbox' \subseteq Event,
         audit' \subseteq AuditRow,
         \A h \in HoldIds : holds'[h].status # "none" => HoldRow(holds'[h]),
         rowLock' \in [AccountIds -> Clients \cup {None}],
         holdLock' \in [HoldIds -> Clients \cup {None}],
         chainLock' \in Clients \cup {None},
         ClientTyped(p)'
  PROVE  TypeInv'
<1>1. TypeOK'
  BY DEF TypeInv, TypeOK
<1>2. \A q \in Clients : ClientTyped(q)'
  <2>1. TAKE q \in Clients
  <2>2. CASE q # p
    <3>1. pc'[q] = pc[q] /\ req'[q] = req[q] /\ tx'[q] = tx[q]
      BY <2>2 DEF TypeInv, TypeOK
    <3> QED
      BY <3>1, OtherClientTyped DEF TypeInv
  <2>3. CASE q = p
    BY <2>3
  <2> QED
    BY <2>2, <2>3
<1> QED
  BY <1>1, <1>2 DEF TypeInv, HoldRow

LEMMA SubmitTyped ==
  ASSUME TypeInv, NEW p \in Clients, NEW r \in Request, NEW valid \in BOOLEAN,
         Submit(p, r, valid),
         valid => /\ r.op \in {"transfer", "hold", "void", "capture"}
                  /\ r.op = "transfer" => r.batch \in Seq(ValidInput) /\ r.batch # <<>>
                  /\ r.op = "hold" => r.amount > 0
  PROVE  TypeInv'
<1> DEFINE next == IF valid THEN "begin" ELSE "failed"
<1>1. next \in Pc /\ next \in {"begin", "failed"} /\ (next = "begin" <=> valid)
  BY DEF Pc, InTx
<1>2. /\ tx' = [tx EXCEPT ![p] = tx[p]] /\ tx[p] \in TxState
      /\ retries' = [retries EXCEPT ![p] = retries[p]]
      /\ retries[p] \in 0..MaxRetries
      /\ pc' = [pc EXCEPT ![p] = next] /\ pc'[p] = next
      /\ req' = [req EXCEPT ![p] = r] /\ req'[p] = r
      /\ UNCHANGED <<db, locks>>
  BY DEF TypeInv, TypeOK, Submit, Goto
<1>3. ClientTyped(p)'
  BY <1>1, <1>2 DEF ClientTyped, InTx, Staging
<1> HIDE DEF next
<1>4. UNCHANGED <<accounts, row, transfers, entries, holds, outbox, audit, rowLock, holdLock, chainLock>>
  BY <1>2 DEF db, locks
<1> QED
  BY <1>1, <1>2, <1>3, <1>4, ClientStepTyped DEF TypeInv, TypeOK

LEMMA CallTyped ==
  ASSUME TypeInv, NEW p \in Clients, Call(p)
  PROVE  TypeInv'
<1>1. ASSUME NEW a \in AccountIds, CreateAccount(p, a) PROVE TypeInv'
  <2>1. NewRow \in Row /\ [action |-> "account.create", resource |-> a] \in AuditRow
    BY DEF NewRow, Row, AuditRow
  <2>2. TypeOK'
    BY <1>1, <2>1 DEF TypeInv, TypeOK, CreateAccount, locks
  <2>3. \A q \in Clients : ClientTyped(q)'
    BY <1>1, OtherClientTyped DEF CreateAccount, TypeInv
  <2> QED
    BY <1>1, <2>2, <2>3 DEF TypeInv, CreateAccount, HoldRow
<1>2. ASSUME NEW b \in Seq(Input), b # <<>>, CreateBatchTransfer(p, b)
      PROVE  TypeInv'
  <2>1. [op |-> "transfer", batch |-> b] \in Request
    BY <1>2 DEF Request
  <2>2. ValidBatch(b) => b \in Seq(ValidInput)
    BY <1>2, ValidBatchType
  <2>3. ValidBatch(b) \in BOOLEAN
    BY DEF ValidBatch
  <2> QED
    BY <1>2, <2>1, <2>2, <2>3, SubmitTyped DEF CreateBatchTransfer
<1>3. ASSUME NEW t \in transfers, ReverseTransfer(p, t) PROVE TypeInv'
  <2> DEFINE back == [from |-> t.to, to |-> t.from, amount |-> t.amount,
                      reversed |-> t.id]
  <2>1. back \in Input
    BY TypesAssumption DEF TypeInv, TypeOK, Transfer, Input, Amount
  <2>2. <<back>> \in Seq(Input) /\ <<back>> # <<>>
    BY <2>1
  <2> QED
    BY <1>2, <1>3, <2>2 DEF ReverseTransfer
<1>4. ASSUME NEW a \in AccountIds, NEW m \in 0..MaxAmount, HoldFunds(p, a, m)
      PROVE  TypeInv'
  <2>1. [op |-> "hold", account |-> a, amount |-> m] \in Request
    BY DEF Request
  <2>2. (m > 0) \in BOOLEAN
    OBVIOUS
  <2> QED
    BY <1>4, <2>1, <2>2, SubmitTyped DEF HoldFunds
<1>5. ASSUME NEW h \in HoldIds, VoidHold(p, h) PROVE TypeInv'
  <2>1. [op |-> "void", hold |-> h] \in Request
    BY DEF Request
  <2> QED
    BY <1>5, <2>1, SubmitTyped DEF VoidHold
<1>6. ASSUME NEW h \in HoldIds, NEW to \in AccountIds, CaptureHold(p, h, to)
      PROVE  TypeInv'
  <2>1. [op |-> "capture", hold |-> h, to |-> to] \in Request
    BY DEF Request
  <2> QED
    BY <1>6, <2>1, SubmitTyped DEF CaptureHold
<1>7. \A b \in Batches : b \in Seq(Input) /\ b # <<>>
  BY LedgerAssumption
<1> QED
  BY <1>1, <1>2, <1>3, <1>4, <1>5, <1>6, <1>7 DEF Call

LEMMA ReleaseTyped ==
  ASSUME TypeOK, NEW p \in Clients, ReleaseLocks(p)
  PROVE  /\ rowLock' \in [AccountIds -> Clients \cup {None}]
         /\ holdLock' \in [HoldIds -> Clients \cup {None}]
         /\ chainLock' \in Clients \cup {None}
BY DEF TypeOK, ReleaseLocks

(* Rolling back, for whatever reason.                                      *)
LEMMA RollBackTyped ==
  ASSUME TypeInv, NEW p \in Clients, NEW next \in {"failed", "begin"},
         RollBack(p, next), pc[p] \in InTx,
         NEW n \in 0..MaxRetries, retries' = [retries EXCEPT ![p] = n]
  PROVE  TypeInv'
<1>1. next \in Pc /\ next \notin Staging \cup {"holdLock", "record"}
  BY DEF Pc, InTx, Staging
<1>2. /\ pc' = [pc EXCEPT ![p] = next] /\ pc'[p] = next
      /\ tx' = [tx EXCEPT ![p] = NoTx]
      /\ req' = [req EXCEPT ![p] = req[p]] /\ req'[p] = req[p]
      /\ req[p] \in Request
      /\ UNCHANGED <<accounts, row, transfers, entries, holds, outbox, audit>>
  BY DEF TypeInv, TypeOK, RollBack, Forget, Goto, db
<1>3. ClientTyped(p)'
  BY <1>1, <1>2 DEF ClientTyped, TypeInv
<1>4. ReleaseLocks(p) /\ TypeOK
  BY DEF RollBack, TypeInv
<1> QED
  BY <1>1, <1>2, <1>3, <1>4, ReleaseTyped, NoTxType, ClientStepTyped
     DEF TypeInv, TypeOK

LEMMA FaultTyped ==
  ASSUME TypeInv, NEW p \in Clients,
         Refuse(p) \/ Abort(p) \/ Retry(p)
  PROVE  TypeInv'
<1>1. retries[p] \in 0..MaxRetries /\ retries = [retries EXCEPT ![p] = retries[p]]
  BY DEF TypeInv, TypeOK
<1>2. CASE Refuse(p)
  <2>1. pc[p] \in InTx
    BY <1>2 DEF Refuse, Refused, InTx
  <2> QED
    BY <1>1, <1>2, <2>1, RollBackTyped DEF Refuse
<1>3. CASE Abort(p)
  BY <1>1, <1>3, RollBackTyped DEF Abort
<1>4. CASE Retry(p)
  <2>1. retries[p] + 1 \in 0..MaxRetries
    BY <1>1, <1>4, LedgerAssumption DEF Retry
  <2> QED
    BY <1>4, <2>1, RollBackTyped DEF Retry
<1> QED
  BY <1>2, <1>3, <1>4

(* The end of a request.                                                   *)
LEMMA DoneTyped ==
  ASSUME TypeInv, NEW p \in Clients, Done(p),
         accounts' \subseteq AccountIds, row' \in [AccountIds -> Row],
         transfers' \subseteq Transfer, entries' \subseteq Entry,
         holds' \in [HoldIds -> Hold], outbox' \subseteq Event,
         audit' \subseteq AuditRow,
         \A h \in HoldIds : holds'[h].status # "none" => HoldRow(holds'[h]),
         ReleaseLocks(p) \/ UNCHANGED locks
  PROVE  TypeInv'
<1>1. NoRequest \in Request /\ "idle" \in Pc /\ 0 \in 0..MaxRetries
  BY LedgerAssumption DEF Request, Pc
<1>2. /\ pc' = [pc EXCEPT ![p] = "idle"] /\ pc'[p] = "idle"
      /\ tx' = [tx EXCEPT ![p] = NoTx]
      /\ req' = [req EXCEPT ![p] = NoRequest]
      /\ retries' = [retries EXCEPT ![p] = 0]
  BY DEF TypeInv, TypeOK, Done, Forget, Goto
<1>3. ClientTyped(p)'
  BY <1>2 DEF ClientTyped, InTx, Staging
<1>4. /\ rowLock' \in [AccountIds -> Clients \cup {None}]
      /\ holdLock' \in [HoldIds -> Clients \cup {None}]
      /\ chainLock' \in Clients \cup {None}
  <2>1. CASE ReleaseLocks(p)
    BY <2>1, ReleaseTyped DEF TypeInv
  <2>2. CASE UNCHANGED locks
    BY <2>2 DEF TypeInv, TypeOK, locks
  <2> QED
    BY <2>1, <2>2
<1> QED
  BY <1>1, <1>2, <1>3, <1>4, NoTxType, ClientStepTyped

(* A step inside a transaction: the client changes its view, nothing in the*)
(* database changes.                                                       *)
LEMMA WorkTyped ==
  ASSUME TypeInv, NEW p \in Clients, NEW next \in Pc, NEW t \in TxState,
         pc' = [pc EXCEPT ![p] = next],
         tx' = [tx EXCEPT ![p] = t],
         UNCHANGED <<db, req, retries>>,
         rowLock' \in [AccountIds -> Clients \cup {None}],
         holdLock' \in [HoldIds -> Clients \cup {None}],
         chainLock' \in Clients \cup {None},
         ClientTyped(p)'
  PROVE  TypeInv'
<1>1. /\ req' = [req EXCEPT ![p] = req[p]] /\ req[p] \in Request
      /\ retries' = [retries EXCEPT ![p] = retries[p]]
      /\ retries[p] \in 0..MaxRetries
  BY DEF TypeInv, TypeOK
<1>2. UNCHANGED <<accounts, row, transfers, entries, holds, outbox, audit>>
  BY DEF db
<1> QED
  BY <1>1, <1>2, ClientStepTyped DEF TypeInv, TypeOK

LEMMA StartLockingTyped ==
  ASSUME TypeOK, NEW p \in Clients, NEW t \in TxState, NEW ids,
         StartLocking(p, t, ids)
  PROVE  /\ tx' = [tx EXCEPT ![p] = tx'[p]] /\ tx'[p] \in TxState
         /\ tx'[p] = [t EXCEPT !.need = ids \cap accounts]
         /\ tx'[p].rest = t.rest /\ tx'[p].holdRow = t.holdRow
         /\ pc'[p] \in {"lock", "work"} /\ pc' = [pc EXCEPT ![p] = pc'[p]]
<1> DEFINE u == [t EXCEPT !.need = ids \cap accounts]
<1>1. ids \cap accounts \in SUBSET AccountIds
  BY DEF TypeOK
<1>2. u \in TxState /\ u.rest = t.rest /\ u.holdRow = t.holdRow
  BY <1>1 DEF TxState
<1>3. tx' = [tx EXCEPT ![p] = u] /\ tx'[p] = u
  BY DEF StartLocking, TypeOK
<1>4. pc'[p] \in {"lock", "work"} /\ pc' = [pc EXCEPT ![p] = pc'[p]]
  BY DEF StartLocking, Goto, TypeOK
<1> QED
  BY <1>2, <1>3, <1>4

LEMMA BeginTyped ==
  ASSUME TypeInv, NEW p \in Clients, Begin(p)
  PROVE  TypeInv'
<1>1. /\ UNCHANGED <<db, locks, req, retries>> /\ pc[p] = "begin"
      /\ "lock" \in Pc /\ "work" \in Pc /\ "holdLock" \in Pc
  BY DEF Begin, Pc, InTx
<1>2. UNCHANGED <<rowLock, holdLock, chainLock, req>>
  BY <1>1 DEF locks
<1>3. CASE req[p].op = "transfer"
  <2> DEFINE t == [NoTx EXCEPT !.rest = req[p].batch]
  <2>1. req[p].batch \in Seq(ValidInput) /\ req[p].batch # <<>> /\ req[p].batch \in Seq(Input)
    BY <1>1, <1>3, RequestFields DEF TypeInv, TypeOK, ClientTyped, InTx
  <2>2. t \in TxState /\ t.rest = req[p].batch /\ t.holdRow.status = "none"
    BY <2>1, NoTxType DEF NoTx, TxState, NoHold
  <2>3. StartLocking(p, t, BatchAccounts(req[p].batch))
    BY <1>3 DEF Begin
  <2>4. ClientTyped(p)'
    <3> HIDE DEF t
    <3>1. /\ tx'[p].rest = t.rest /\ tx'[p].holdRow = t.holdRow
          /\ pc'[p] \in {"lock", "work"}
      BY <2>2, <2>3, StartLockingTyped DEF TypeInv
    <3>2. /\ tx'[p].rest = req[p].batch /\ tx'[p].holdRow.status = "none"
          /\ req'[p] = req[p]
      BY <1>2, <2>2, <3>1
    <3> QED
      BY <1>3, <2>1, <3>1, <3>2 DEF ClientTyped
  <2> HIDE DEF t
  <2>5. /\ tx' = [tx EXCEPT ![p] = tx'[p]] /\ tx'[p] \in TxState
        /\ pc' = [pc EXCEPT ![p] = pc'[p]] /\ pc'[p] \in Pc
    BY <1>1, <2>2, <2>3, StartLockingTyped DEF TypeInv
  <2> QED
    BY <1>1, <1>2, <2>4, <2>5, WorkTyped DEF TypeInv, TypeOK
<1>4. CASE req[p].op = "hold"
  <2>1. StartLocking(p, NoTx, {req[p].account})
    BY <1>4 DEF Begin
  <2>2. ClientTyped(p)'
    <3>1. NoTx.holdRow.status = "none"
      BY DEF NoTx, NoHold
    <3>2. /\ pc'[p] \in {"lock", "work"} /\ req'[p] = req[p]
          /\ tx'[p].holdRow.status = "none"
      BY <1>2, <2>1, <3>1, NoTxType, StartLockingTyped DEF TypeInv
    <3> QED
      BY <1>1, <1>4, <3>2 DEF ClientTyped, TypeInv, InTx
  <2>3. /\ tx' = [tx EXCEPT ![p] = tx'[p]] /\ tx'[p] \in TxState
        /\ pc' = [pc EXCEPT ![p] = pc'[p]] /\ pc'[p] \in Pc
    BY <1>1, <2>1, NoTxType, StartLockingTyped DEF TypeInv
  <2> QED
    BY <1>1, <1>2, <2>2, <2>3, WorkTyped DEF TypeInv, TypeOK
<1>5. CASE req[p].op \in {"void", "capture"}
  <2>1. pc' = [pc EXCEPT ![p] = "holdLock"] /\ pc'[p] = "holdLock" /\ tx' = tx
    BY <1>5 DEF Begin, Goto, TypeInv, TypeOK
  <2>2. tx' = [tx EXCEPT ![p] = tx[p]] /\ tx[p] \in TxState
    BY <2>1 DEF TypeInv, TypeOK
  <2>3. ClientTyped(p)'
    BY <1>2, <1>5, <2>1 DEF ClientTyped, Staging, InTx
  <2> QED
    BY <1>1, <1>2, <2>1, <2>2, <2>3, WorkTyped DEF TypeInv, TypeOK
<1> QED
  BY <1>1, <1>3, <1>4, <1>5 DEF TypeInv, ClientTyped, InTx

LEMMA LockHoldTyped ==
  ASSUME TypeInv, NEW p \in Clients, LockHold(p)
  PROVE  TypeInv'
<1> DEFINE h == req[p].hold
           t == [NoTx EXCEPT !.hold = h, !.holdRow = holds[h]]
           ids == {holds[h].account} \cup
                  (IF req[p].op = "capture" THEN {req[p].to} ELSE {})
<1>1. /\ req[p].op \in {"void", "capture"} /\ h \in HoldIds
      /\ holds[h] \in Hold /\ HoldRow(holds[h])
  BY RequestFields DEF LockHold, TypeInv, TypeOK, ClientTyped
<1>2. t \in TxState /\ t.holdRow = holds[h]
  BY <1>1, NoTxType DEF NoTx, TxState
<1>3. StartLocking(p, t, ids)
  BY DEF LockHold
<1>4. /\ UNCHANGED <<db, req, retries, rowLock, chainLock>>
      /\ holdLock' \in [HoldIds -> Clients \cup {None}]
      /\ "lock" \in Pc /\ "work" \in Pc
  BY <1>1 DEF LockHold, TypeInv, TypeOK, Pc, InTx
<1> HIDE DEF t, ids
<1>5. /\ tx' = [tx EXCEPT ![p] = tx'[p]] /\ tx'[p] \in TxState
      /\ tx'[p].holdRow = holds[h]
      /\ pc'[p] \in {"lock", "work"} /\ pc' = [pc EXCEPT ![p] = pc'[p]]
  BY <1>2, <1>3, StartLockingTyped DEF TypeInv
<1>6. ClientTyped(p)'
  BY <1>1, <1>4, <1>5 DEF ClientTyped
<1>7. rowLock' \in [AccountIds -> Clients \cup {None}] /\ chainLock' \in Clients \cup {None}
  BY <1>4 DEF TypeInv, TypeOK
<1>8. pc'[p] \in Pc
  BY <1>4, <1>5
<1> QED
  BY <1>4, <1>5, <1>6, <1>7, <1>8, WorkTyped

LEMMA LockAccountTyped ==
  ASSUME TypeInv, NEW p \in Clients, NEW a \in AccountIds, LockAccount(p, a)
  PROVE  TypeInv'
<1> DEFINE t == [tx[p] EXCEPT !.need = @ \ {a}, !.view[a] = row[a]]
           next == IF tx[p].need = {a} THEN "work" ELSE "lock"
<1>1. /\ UNCHANGED <<db, req, retries, holdLock, chainLock>>
      /\ rowLock' \in [AccountIds -> Clients \cup {None}]
      /\ next \in Pc /\ next \in {"lock", "work"} /\ pc[p] = "lock"
      /\ pc' = [pc EXCEPT ![p] = next] /\ pc'[p] = next
  BY DEF LockAccount, TypeInv, TypeOK, Pc, InTx, Goto
<1>2. tx[p] \in TxState /\ row[a] \in Row
  BY DEF TypeInv, TypeOK
<1>3. t \in TxState /\ t.rest = tx[p].rest /\ t.holdRow = tx[p].holdRow
  BY <1>2 DEF TxState
<1>4. tx' = [tx EXCEPT ![p] = t] /\ tx'[p] = t
  <2>1. tx' = [tx EXCEPT ![p] = t]
    BY DEF LockAccount
  <2> QED
    BY <2>1 DEF TypeInv, TypeOK
<1> HIDE DEF t, next
<1>5. ClientTyped(p)'
  BY <1>1, <1>3, <1>4 DEF ClientTyped, TypeInv, InTx, Staging
<1> QED
  BY <1>1, <1>3, <1>4, <1>5, WorkTyped DEF TypeInv, TypeOK

LEMMA ProcessTransferTyped ==
  ASSUME TypeInv, NEW p \in Clients, NEW id \in TransferIds,
         ProcessTransfer(p, id)
  PROVE  TypeInv'
<1> DEFINE i == Head(tx[p].rest)
           t == [id |-> id, from |-> i.from, to |-> i.to,
                 amount |-> i.amount, reversed |-> i.reversed, hold |-> None]
           type == IF i.reversed = None THEN "transfer.created"
                                        ELSE "transfer.reversed"
           event == [type |-> type, aggregate |-> id, transfer |-> id]
           own == tx[p]
           u == [own EXCEPT
                   !.view = Posted(own.view, t), !.rest = Tail(own.rest),
                   !.transfers = own.transfers \cup {t},
                   !.entries = own.entries \cup EntriesOf(own.view, t),
                   !.events = own.events \cup {event}]
           next == IF Len(tx[p].rest) = 1 THEN "audit" ELSE "work"
<1>1. /\ UNCHANGED <<db, locks, req, retries>>
      /\ pc[p] = "work" /\ req[p].op = "transfer"
  BY DEF ProcessTransfer
<1>2. /\ tx[p].rest \in Seq(ValidInput) /\ tx[p].rest # <<>>
      /\ tx[p] \in TxState
  BY <1>1 DEF TypeInv, TypeOK, ClientTyped, Staging
<1>3. /\ i \in ValidInput
      /\ Tail(tx[p].rest) \in Seq(ValidInput) /\ Tail(tx[p].rest) \in Seq(Input)
      /\ next = "work" => Tail(tx[p].rest) # <<>>
  <2>1. i \in ValidInput /\ Tail(tx[p].rest) \in Seq(ValidInput)
        /\ Len(Tail(tx[p].rest)) = Len(tx[p].rest) - 1
    BY <1>2, HeadTailProperties
  <2>2. ValidInput \subseteq Input
    BY DEF ValidInput
  <2>3. Tail(tx[p].rest) \in Seq(Input)
    BY <2>1, <2>2, SeqMonotonic
  <2>4. Len(tx[p].rest) \in Nat \ {0}
    BY <1>2, EmptySeq
  <2>5. next = "work" => Tail(tx[p].rest) # <<>>
    <3>1. Len(<<>>) = 0
      OBVIOUS
    <3>2. next = "work" => Len(Tail(tx[p].rest)) # 0
      BY <2>1, <2>4
    <3> QED
      BY <3>1, <3>2
  <2> QED
    BY <2>1, <2>3, <2>5
<1>4. t \in Transfer
  BY <1>3, TypesAssumption, SMTT(30) DEF ValidInput, Input, Transfer, Amount
<1>5. event \in Event
  BY DEF Event
<1> HIDE DEF i, event, next
<1>6. u \in TxState /\ u.rest = Tail(tx[p].rest) /\ u.holdRow = tx[p].holdRow
  <2> HIDE DEF t
  <2>1. tx[p].view \in [AccountIds -> Row]
    BY <1>2 DEF TxState
  <2>2. Posted(tx[p].view, t) \in [AccountIds -> Row]
        /\ EntriesOf(tx[p].view, t) \subseteq Entry
    BY <1>4, <2>1, PostingType
  <2> QED
    BY <1>2, <1>3, <1>4, <1>5, <2>2 DEF TxState
<1>7. tx' = [tx EXCEPT ![p] = u] /\ pc' = [pc EXCEPT ![p] = next]
  BY DEF ProcessTransfer, Goto, TypeInv, TypeOK, i, next, event
<1> HIDE DEF u
<1>8. tx'[p] = u /\ pc'[p] = next /\ req'[p] = req[p] /\ next \in {"work", "audit"}
  BY <1>1, <1>7 DEF TypeInv, TypeOK, next
<1>9. ClientTyped(p)'
  BY <1>1, <1>3, <1>6, <1>8 DEF ClientTyped, TypeInv, InTx, Staging
<1>10. next \in Pc
  BY <1>8 DEF Pc, InTx
<1> QED
  BY <1>1, <1>6, <1>7, <1>9, <1>10, WorkTyped DEF locks, TypeInv, TypeOK

LEMMA PlaceHoldTyped ==
  ASSUME TypeInv, NEW p \in Clients, NEW h \in HoldIds, PlaceHold(p, h)
  PROVE  TypeInv'
<1> DEFINE a == req[p].account
           e == tx[p].view[a].encumbered + req[p].amount
           r == [account |-> a, amount |-> req[p].amount, status |-> "active"]
           event == [type |-> "hold.created", aggregate |-> h, transfer |-> None]
           u == [tx[p] EXCEPT !.view = Encumber(tx[p].view, a, e), !.hold = h,
                              !.holdRow = r, !.events = {event}]
<1>1. /\ UNCHANGED <<db, locks, req, retries>>
      /\ pc[p] = "work" /\ req[p].op = "hold"
      /\ a \in AccountIds /\ req[p].amount \in 0..MaxAmount
      /\ tx[p] \in TxState
  BY RequestFields DEF PlaceHold, TypeInv, TypeOK
<1>2. r \in Hold /\ HoldRow(r) /\ event \in Event
  <2>1. req[p].amount > 0
    BY <1>1 DEF TypeInv, ClientTyped, InTx
  <2> QED
    BY <1>1, <2>1, TypesAssumption DEF Hold, HoldStatus, HoldRow, Amount, Event
<1>3. Encumber(tx[p].view, a, e) \in [AccountIds -> Row]
  <2>1. tx[p].view \in [AccountIds -> Row] /\ tx[p].view[a] \in Row
    BY <1>1 DEF TxState
  <2>2. tx[p].view[a].balance \in Int /\ e \in Int
    BY <1>1, <2>1 DEF Row
  <2> QED
    BY <2>1, <2>2, UpdatedType DEF Encumber
<1>4. u \in TxState /\ u.holdRow = r /\ u.hold = h
  <2> HIDE DEF r, event, e
  <2> QED
    BY <1>1, <1>2, <1>3 DEF TxState
<1>5. tx' = [tx EXCEPT ![p] = u] /\ pc' = [pc EXCEPT ![p] = "audit"]
  BY DEF PlaceHold, Goto, TypeInv, TypeOK
<1>6. ClientTyped(p)'
  <2> HIDE DEF u, r
  <2>1. pc'[p] = "audit" /\ req'[p] = req[p] /\ tx'[p] = u
    BY <1>1, <1>5 DEF TypeInv, TypeOK
  <2> QED
    BY <1>1, <1>2, <1>4, <2>1 DEF ClientTyped, TypeInv, InTx, Staging
<1>7. "audit" \in Pc
  BY DEF Pc, InTx
<1> HIDE DEF u
<1> QED
  BY <1>1, <1>4, <1>5, <1>6, <1>7, WorkTyped DEF locks, TypeInv, TypeOK

LEMMA ReleaseHoldTyped ==
  ASSUME TypeInv, NEW p \in Clients, ReleaseHold(p)
  PROVE  TypeInv'
<1> DEFINE h == tx[p].holdRow
           e == NonNegative(tx[p].view[h.account].encumbered - h.amount)
           event == [type |-> "hold.voided", aggregate |-> req[p].hold,
                     transfer |-> None]
           u == [tx[p] EXCEPT !.view = Encumber(tx[p].view, h.account, e),
                              !.holdRow = [h EXCEPT !.status = "voided"],
                              !.events = {event}]
<1>1. /\ UNCHANGED <<db, locks, req, retries>>
      /\ pc[p] = "work" /\ req[p].op = "void" /\ req[p].hold \in HoldIds
      /\ tx[p] \in TxState /\ h \in Hold /\ HoldRow(h)
  <2>1. tx[p] \in TxState /\ req[p] \in Request /\ ClientTyped(p)
    BY DEF TypeInv, TypeOK
  <2>2. pc[p] = "work" /\ req[p].op = "void" /\ UNCHANGED <<db, locks, req, retries>>
    BY DEF ReleaseHold
  <2>3. h \in Hold
    BY <2>1 DEF TxState
  <2> QED
    BY <2>1, <2>2, <2>3, RequestFields DEF ClientTyped, Staging
<1>2. [h EXCEPT !.status = "voided"] \in Hold
      /\ HoldRow([h EXCEPT !.status = "voided"]) /\ event \in Event
  BY <1>1 DEF Hold, HoldStatus, Event, HoldRow
<1>3. Encumber(tx[p].view, h.account, e) \in [AccountIds -> Row]
  <2>1. tx[p].view \in [AccountIds -> Row] /\ h.account \in AccountIds /\ h.amount \in Int
    BY <1>1, TypesAssumption DEF TxState, HoldRow, Amount
  <2>2. /\ tx[p].view[h.account] \in Row
        /\ tx[p].view[h.account].balance \in Int
        /\ tx[p].view[h.account].encumbered \in Int
    BY <2>1 DEF Row
  <2>3. e \in Int
    BY <2>1, <2>2 DEF NonNegative
  <2> QED
    BY <2>1, <2>2, <2>3, UpdatedType DEF Encumber
<1>4. u \in TxState /\ u.holdRow = [h EXCEPT !.status = "voided"]
  <2> HIDE DEF event, e
  <2> QED
    BY <1>1, <1>2, <1>3 DEF TxState
<1>5. tx' = [tx EXCEPT ![p] = u] /\ pc' = [pc EXCEPT ![p] = "commit"]
  BY DEF ReleaseHold, Goto, TypeInv, TypeOK
<1> HIDE DEF u
<1>6. ClientTyped(p)'
  <2>1. pc'[p] = "commit" /\ req'[p] = req[p] /\ tx'[p] = u
    BY <1>1, <1>5 DEF TypeInv, TypeOK
  <2> QED
    BY <1>1, <1>2, <1>4, <2>1 DEF ClientTyped, TypeInv, InTx, Staging
<1>7. "commit" \in Pc
  BY DEF Pc, InTx
<1> QED
  BY <1>1, <1>4, <1>5, <1>6, <1>7, WorkTyped DEF locks, TypeInv, TypeOK

LEMMA SettleHoldTyped ==
  ASSUME TypeInv, NEW p \in Clients, NEW id \in TransferIds, SettleHold(p, id)
  PROVE  TypeInv'
<1> DEFINE h == tx[p].holdRow
           t == [id |-> id, from |-> h.account, to |-> req[p].to,
                 amount |-> h.amount, reversed |-> None, hold |-> req[p].hold]
           event == [type |-> "hold.captured", aggregate |-> req[p].hold,
                     transfer |-> id]
           u == [tx[p] EXCEPT !.view = Captured(tx[p].view, t), !.transfers = {t},
                              !.entries = EntriesOf(tx[p].view, t),
                              !.holdRow = [h EXCEPT !.status = "captured"],
                              !.events = {event}]
<1>1. /\ UNCHANGED <<db, locks, req, retries>>
      /\ pc[p] = "work" /\ req[p].op = "capture"
      /\ req[p].hold \in HoldIds /\ req[p].to \in AccountIds
      /\ tx[p] \in TxState /\ h \in Hold /\ HoldRow(h)
  <2>1. tx[p] \in TxState /\ req[p] \in Request /\ ClientTyped(p)
    BY DEF TypeInv, TypeOK
  <2>2. pc[p] = "work" /\ req[p].op = "capture" /\ UNCHANGED <<db, locks, req, retries>>
    BY DEF SettleHold
  <2>3. h \in Hold
    BY <2>1 DEF TxState
  <2> QED
    BY <2>1, <2>2, <2>3, RequestFields DEF ClientTyped, Staging
<1>2. [h EXCEPT !.status = "captured"] \in Hold
      /\ HoldRow([h EXCEPT !.status = "captured"]) /\ event \in Event
  BY <1>1 DEF Hold, HoldStatus, Event, HoldRow
<1>3. t \in Transfer
  BY <1>1 DEF Transfer, HoldRow
<1>4. u \in TxState /\ u.holdRow = [h EXCEPT !.status = "captured"]
  <2> HIDE DEF event, t
  <2>1. tx[p].view \in [AccountIds -> Row]
    BY <1>1 DEF TxState
  <2>2. Captured(tx[p].view, t) \in [AccountIds -> Row]
        /\ EntriesOf(tx[p].view, t) \subseteq Entry
    BY <1>3, <2>1, PostingType
  <2> QED
    BY <1>1, <1>2, <1>3, <2>2 DEF TxState
<1>5. tx' = [tx EXCEPT ![p] = u] /\ pc' = [pc EXCEPT ![p] = "commit"]
  BY DEF SettleHold, Goto, TypeInv, TypeOK
<1> HIDE DEF u
<1>6. ClientTyped(p)'
  <2>1. pc'[p] = "commit" /\ req'[p] = req[p] /\ tx'[p] = u
    BY <1>1, <1>5 DEF TypeInv, TypeOK
  <2> QED
    BY <1>1, <1>2, <1>4, <2>1 DEF ClientTyped, TypeInv, InTx, Staging
<1>7. "commit" \in Pc
  BY DEF Pc, InTx
<1> QED
  BY <1>1, <1>4, <1>5, <1>6, <1>7, WorkTyped DEF locks, TypeInv, TypeOK

LEMMA AuditInTxTyped ==
  ASSUME TypeInv, NEW p \in Clients, AuditInTx(p)
  PROVE  TypeInv'
<1> DEFINE rows == IF req[p].op = "hold"
                   THEN {[action |-> "hold.create", resource |-> tx[p].hold]}
                   ELSE {[action |-> IF t.reversed # None
                                     THEN "transfer.reverse"
                                     ELSE "transfer.create",
                          resource |-> t.id] : t \in tx[p].transfers}
           u == [tx[p] EXCEPT !.audit = rows]
<1>1. /\ UNCHANGED <<db, rowLock, holdLock, req, retries>>
      /\ pc[p] = "audit" /\ chainLock' = p
      /\ pc' = [pc EXCEPT ![p] = "commit"]
      /\ tx' = [tx EXCEPT ![p] = u]
  BY DEF AuditInTx, Goto
<1>2. tx[p] \in TxState /\ req[p].op = "hold" => tx[p].hold \in HoldIds
  BY <1>1 DEF TypeInv, TypeOK, ClientTyped
<1>3. rows \subseteq AuditRow
  <2>1. CASE req[p].op = "hold"
    BY <1>1, <2>1 DEF AuditRow, TypeInv, TypeOK, ClientTyped
  <2>2. CASE req[p].op # "hold"
    <3>1. \A t \in tx[p].transfers : t.id \in TransferIds
      BY DEF TypeInv, TypeOK, TxState, Transfer
    <3> QED
      BY <2>2, <3>1 DEF AuditRow
  <2> QED
    BY <2>1, <2>2
<1>4. u \in TxState /\ u.rest = tx[p].rest /\ u.holdRow = tx[p].holdRow
      /\ u.hold = tx[p].hold
  <2> HIDE DEF rows
  <2>1. tx[p] \in TxState
    BY DEF TypeInv, TypeOK
  <2> QED
    BY <1>3, <2>1 DEF TxState
<1> HIDE DEF u, rows
<1>5. pc'[p] = "commit" /\ req'[p] = req[p] /\ tx'[p] = u
  BY <1>1 DEF TypeInv, TypeOK
<1>6. ClientTyped(p)'
  BY <1>1, <1>4, <1>5 DEF ClientTyped, TypeInv, InTx, Staging
<1>7. "commit" \in Pc
  BY DEF Pc, InTx
<1> QED
  BY <1>1, <1>4, <1>6, <1>7, WorkTyped DEF TypeInv, TypeOK

LEMMA ApplyTyped ==
  ASSUME TypeInv, NEW p \in Clients, Apply(p), pc[p] = "commit"
  PROVE  /\ accounts' \subseteq AccountIds /\ row' \in [AccountIds -> Row]
         /\ transfers' \subseteq Transfer /\ entries' \subseteq Entry
         /\ holds' \in [HoldIds -> Hold] /\ outbox' \subseteq Event
         /\ audit' \subseteq AuditRow
         /\ \A h \in HoldIds : holds'[h].status # "none" => HoldRow(holds'[h])
<1>1. /\ tx[p] \in TxState
      /\ tx[p].holdRow.status # "none" => HoldRow(tx[p].holdRow)
  BY DEF TypeInv, TypeOK, ClientTyped, Staging
<1>2. /\ accounts' \subseteq AccountIds /\ row' \in [AccountIds -> Row]
      /\ transfers' \subseteq Transfer /\ entries' \subseteq Entry
      /\ outbox' \subseteq Event /\ audit' \subseteq AuditRow
  BY <1>1 DEF Apply, TypeInv, TypeOK, TxState
<1>3. holds' \in [HoldIds -> Hold]
  BY <1>1 DEF Apply, TypeInv, TypeOK, TxState, WithHold
<1>4. \A h \in HoldIds : holds'[h] \in {holds[h], tx[p].holdRow}
  BY DEF Apply, WithHold
<1> QED
  BY <1>1, <1>2, <1>3, <1>4 DEF TypeInv

LEMMA CommitTyped ==
  ASSUME TypeInv, NEW p \in Clients, Commit(p)
  PROVE  TypeInv'
<1>1. Apply(p) /\ pc[p] = "commit" /\ ReleaseLocks(p)
  BY DEF Commit, Apply
<1>2. CASE Done(p)
  BY <1>1, <1>2, ApplyTyped, DoneTyped
<1>3. CASE Forget(p, "record") /\ UNCHANGED <<req, retries>>
           /\ req[p].op \in {"void", "capture"}
  <2>1. /\ pc' = [pc EXCEPT ![p] = "record"] /\ pc'[p] = "record"
        /\ tx' = [tx EXCEPT ![p] = NoTx] /\ "record" \in Pc
        /\ req' = [req EXCEPT ![p] = req[p]] /\ req'[p] = req[p]
        /\ retries' = [retries EXCEPT ![p] = retries[p]]
        /\ req[p] \in Request /\ retries[p] \in 0..MaxRetries
    BY <1>3 DEF TypeInv, TypeOK, Forget, Goto, Pc
  <2>2. ClientTyped(p)'
    BY <1>3, <2>1 DEF ClientTyped, InTx, Staging
  <2>3. TypeOK
    BY DEF TypeInv
  <2> QED
    BY <1>1, <2>1, <2>2, <2>3, ApplyTyped, ReleaseTyped, NoTxType, ClientStepTyped
<1> QED
  BY <1>2, <1>3 DEF Commit

LEMMA CommitUnansweredTyped ==
  ASSUME TypeInv, NEW p \in Clients, CommitUnanswered(p)
  PROVE  TypeInv'
<1>1. Apply(p) /\ pc[p] = "commit" /\ ReleaseLocks(p) /\ TypeOK
  BY DEF CommitUnanswered, Apply, TypeInv
<1>2. /\ pc' = [pc EXCEPT ![p] = "failed"] /\ pc'[p] = "failed"
      /\ tx' = [tx EXCEPT ![p] = tx[p]] /\ tx[p] \in TxState
      /\ req' = [req EXCEPT ![p] = req[p]] /\ req[p] \in Request
      /\ retries' = [retries EXCEPT ![p] = retries[p]]
      /\ retries[p] \in 0..MaxRetries /\ "failed" \in Pc
  BY DEF CommitUnanswered, TypeInv, TypeOK, Goto, Pc
<1>3. ClientTyped(p)'
  BY <1>2 DEF ClientTyped, InTx, Staging
<1> QED
  BY <1>1, <1>2, <1>3, ApplyTyped, ReleaseTyped, ClientStepTyped

LEMMA EndTyped ==
  ASSUME TypeInv, NEW p \in Clients,
         AuditFailure(p) \/ AuditAfterCommit(p) \/ Crash(p)
  PROVE  TypeInv'
<1>1. /\ Done(p)
      /\ ReleaseLocks(p) \/ UNCHANGED locks
      /\ UNCHANGED <<accounts, row, transfers, entries, holds, outbox>>
  BY DEF AuditFailure, AuditAfterCommit, Crash, db
<1>2. audit' \subseteq AuditRow
  <2>1. CASE AuditAfterCommit(p)
    <3>1. req[p].hold \in HoldIds
      BY <2>1, RequestFields DEF AuditAfterCommit, TypeInv, TypeOK, ClientTyped
    <3> QED
      BY <2>1, <3>1 DEF AuditAfterCommit, AuditRow, TypeInv, TypeOK
  <2>2. CASE AuditFailure(p) \/ Crash(p)
    BY <2>2 DEF AuditFailure, Crash, db, TypeInv, TypeOK
  <2> QED
    BY <2>1, <2>2
<1> QED
  BY <1>1, <1>2, DoneTyped DEF TypeInv, TypeOK, HoldRow

LEMMA TypeInvInit == Init => TypeInv
<1> SUFFICES ASSUME Init PROVE TypeInv
  OBVIOUS
<1>1. /\ NewRow \in Row /\ NoHold \in Hold /\ NoHold.status = "none"
      /\ "idle" \in Pc \ InTx /\ "idle" # "record" /\ NoRequest \in Request
      /\ 0 \in 0..MaxRetries
  BY LedgerAssumption, TypesAssumption
     DEF NewRow, Row, NoHold, Hold, HoldStatus, Pc, InTx, Request
<1>2. TypeOK
  BY <1>1, NoTxType DEF Init, TypeOK
<1>3. \A p \in Clients : ClientTyped(p)
  BY DEF Init, ClientTyped, InTx, Staging
<1> QED
  BY <1>1, <1>2, <1>3 DEF TypeInv, Init

LEMMA TypeInvStep == TypeInv /\ [Next]_vars => TypeInv'
<1> SUFFICES ASSUME TypeInv, [Next]_vars PROVE TypeInv'
  OBVIOUS
<1>1. CASE UNCHANGED vars
  BY <1>1 DEF vars, db, locks, TypeInv, TypeOK, ClientTyped, HoldRow
<1>2. ASSUME NEW p \in Clients, Call(p) PROVE TypeInv'
  BY <1>2, CallTyped
<1>3. ASSUME NEW p \in Clients, Acquire(p) PROVE TypeInv'
  BY <1>3, LockHoldTyped, LockAccountTyped, AuditInTxTyped, EndTyped DEF Acquire
<1>4. ASSUME NEW p \in Clients, Step(p) PROVE TypeInv'
  BY <1>4, BeginTyped, ProcessTransferTyped, SettleHoldTyped, PlaceHoldTyped,
     ReleaseHoldTyped, CommitTyped, FaultTyped DEF Step
<1>5. ASSUME NEW p \in Clients, Fault(p) PROVE TypeInv'
  BY <1>5, CommitUnansweredTyped, FaultTyped, EndTyped DEF Fault
<1> QED
  BY <1>1, <1>2, <1>3, <1>4, <1>5 DEF Next

(* Whatever requests, faults and crashes come in whatever order, every row *)
(* the use cases read or write has the shape its table gives it.           *)
THEOREM TypeCorrect == Spec => []TypeOK
<1>1. TypeInv => TypeOK
  BY DEF TypeInv
<1> QED
  BY <1>1, TypeInvInit, TypeInvStep, PTL DEF Spec

-----------------------------------------------------------------------------
(* The order of the locks - a hold, then account rows by id, then the      *)
(* audit chain - keeps requests from waiting for each other.               *)

(* What a request owns, and where it is while it does.  Not inductive      *)
(* without the last conjunct: a request only waits in "lock" for an account*)
(* it has left to lock, which comes after all those it owns.               *)
OrderedLocks(p) ==
  /\ chainLock = p => pc[p] = "commit"
  /\ \A h \in HoldIds : holdLock[h] = p => pc[p] \in Staging
  /\ \A a \in AccountIds : rowLock[a] = p =>
       /\ pc[p] \in Staging
       /\ pc[p] = "lock" => \A b \in tx[p].need : a < b
  /\ pc[p] = "lock" => tx[p].need # {}

LockInv == TypeInv /\ \A p \in Clients : OrderedLocks(p)

(* A request that does not move keeps its place in the order, as long as it*)
(* is given no lock.                                                       *)
LEMMA OthersOrdered ==
  ASSUME NEW p \in Clients, OrderedLocks(p),
         pc'[p] = pc[p], tx'[p] = tx[p],
         chainLock' = p => chainLock = p,
         \A h \in HoldIds : holdLock'[h] = p => holdLock[h] = p,
         \A a \in AccountIds : rowLock'[a] = p => rowLock[a] = p
  PROVE  OrderedLocks(p)'
BY DEF OrderedLocks

LEMMA NothingOwned ==
  ASSUME NEW p \in Clients, pc'[p] # "lock",
         chainLock' # p,
         \A h \in HoldIds : holdLock'[h] # p,
         \A a \in AccountIds : rowLock'[a] # p
  PROVE  OrderedLocks(p)'
BY DEF OrderedLocks

(* Nobody but p moves, and nobody but p is given a lock.                   *)
OnlyMoves(p) ==
  \A q \in Clients \ {p} :
    /\ pc'[q] = pc[q] /\ tx'[q] = tx[q]
    /\ chainLock' = q => chainLock = q
    /\ \A h \in HoldIds : holdLock'[h] = q => holdLock[h] = q
    /\ \A a \in AccountIds : rowLock'[a] = q => rowLock[a] = q

LEMMA MoveOrdered ==
  ASSUME LockInv, NEW p \in Clients, OnlyMoves(p), OrderedLocks(p)'
  PROVE  \A q \in Clients : OrderedLocks(q)'
<1> SUFFICES ASSUME NEW q \in Clients, q # p PROVE OrderedLocks(q)'
  OBVIOUS
<1> QED
  BY OthersOrdered DEF LockInv, OnlyMoves

(* Whatever ends a transaction leaves the request without a lock.          *)
LEMMA EndOrdered ==
  ASSUME LockInv, NEW p \in Clients, NEW next \in Pc \ {"lock"},
         ReleaseLocks(p), pc' = [pc EXCEPT ![p] = next],
         NEW t, tx' = [tx EXCEPT ![p] = t]
  PROVE  \A q \in Clients : OrderedLocks(q)'
<1>1. p # None
  BY LedgerAssumption
<1>2. pc'[p] = next /\ next # "lock"
  BY DEF LockInv, TypeInv, TypeOK
<1>3. /\ chainLock' # p
      /\ \A h \in HoldIds : holdLock'[h] # p
      /\ \A a \in AccountIds : rowLock'[a] # p
  BY <1>1 DEF ReleaseLocks
<1>4. OrderedLocks(p)'
  BY <1>2, <1>3, NothingOwned
<1>5. OnlyMoves(p)
  BY LedgerAssumption DEF OnlyMoves, ReleaseLocks, LockInv, TypeInv, TypeOK
<1> QED
  BY <1>4, <1>5, MoveOrdered

(* A step that takes no lock.                                              *)
LEMMA WorkOrdered ==
  ASSUME LockInv, NEW p \in Clients, NEW next \in Pc, UNCHANGED locks,
         pc' = [pc EXCEPT ![p] = next], NEW t, tx' = [tx EXCEPT ![p] = t],
         pc[p] \in Staging => next \in Staging,
         next = "lock" => pc[p] \notin Staging /\ t.need # {},
         pc[p] # "commit"
  PROVE  \A q \in Clients : OrderedLocks(q)'
<1>1. pc'[p] = next /\ tx'[p] = t
  BY DEF LockInv, TypeInv, TypeOK
<1>2. OnlyMoves(p)
  BY DEF OnlyMoves, locks, LockInv, TypeInv, TypeOK
<1>3. OrderedLocks(p)
  BY DEF LockInv
<1>4. OrderedLocks(p)'
  BY <1>1, <1>3 DEF OrderedLocks, locks
<1> QED
  BY <1>2, <1>4, MoveOrdered

(* StartLocking, by a request that owns no account.                        *)
LEMMA StartLockingNeeds ==
  ASSUME TypeOK, NEW p \in Clients, NEW t \in TxState, NEW ids,
         StartLocking(p, t, ids)
  PROVE  /\ pc'[p] \in {"lock", "work"} /\ pc' = [pc EXCEPT ![p] = pc'[p]]
         /\ tx' = [tx EXCEPT ![p] = tx'[p]]
         /\ pc'[p] = "lock" => tx'[p].need # {}
<1>1. /\ tx'[p].need = ids \cap accounts
      /\ pc'[p] = IF ids \cap accounts = {} THEN "work" ELSE "lock"
  BY DEF StartLocking, Goto, TypeOK, TxState
<1> QED
  BY <1>1, StartLockingTyped

LEMMA CallOrdered ==
  ASSUME LockInv, NEW p \in Clients, Call(p)
  PROVE  \A q \in Clients : OrderedLocks(q)'
<1>1. ASSUME NEW r, NEW v \in BOOLEAN, Submit(p, r, v)
      PROVE  \A q \in Clients : OrderedLocks(q)'
  <2> DEFINE next == IF v THEN "begin" ELSE "failed"
  <2>1. next \in Pc /\ next # "lock" /\ pc' = [pc EXCEPT ![p] = next]
    BY <1>1 DEF Submit, Goto, Pc, InTx
  <2>2. pc[p] = "idle" /\ UNCHANGED locks /\ tx' = [tx EXCEPT ![p] = tx[p]]
    BY <1>1 DEF Submit, LockInv, TypeInv, TypeOK
  <2> HIDE DEF next
  <2> QED
    BY <2>1, <2>2, WorkOrdered DEF Staging
<1>2. ASSUME NEW a \in AccountIds, CreateAccount(p, a)
      PROVE  \A q \in Clients : OrderedLocks(q)'
  BY <1>2, OthersOrdered DEF CreateAccount, LockInv, locks
<1>3. \A b : ValidBatch(b) \in BOOLEAN
  BY DEF ValidBatch
<1>4. ASSUME NEW b, CreateBatchTransfer(p, b)
      PROVE  \A q \in Clients : OrderedLocks(q)'
  BY <1>1, <1>3, <1>4 DEF CreateBatchTransfer
<1>5. ASSUME NEW t \in transfers, ReverseTransfer(p, t)
      PROVE  \A q \in Clients : OrderedLocks(q)'
  BY <1>4, <1>5 DEF ReverseTransfer
<1>6. ASSUME NEW a, NEW m \in Nat, HoldFunds(p, a, m)
      PROVE  \A q \in Clients : OrderedLocks(q)'
  <2>1. (m > 0) \in BOOLEAN
    OBVIOUS
  <2> QED
    BY <1>1, <1>6, <2>1 DEF HoldFunds
<1>7. ASSUME NEW h, VoidHold(p, h) \/ \E to : CaptureHold(p, h, to)
      PROVE  \A q \in Clients : OrderedLocks(q)'
  BY <1>1, <1>7 DEF VoidHold, CaptureHold
<1> QED
  BY <1>2, <1>4, <1>5, <1>6, <1>7 DEF Call

LEMMA BeginOrdered ==
  ASSUME LockInv, NEW p \in Clients, Begin(p)
  PROVE  \A q \in Clients : OrderedLocks(q)'
<1>1. pc[p] = "begin" /\ UNCHANGED locks /\ TypeOK
  BY DEF Begin, LockInv, TypeInv
<1>2. ASSUME NEW t \in TxState, NEW ids, StartLocking(p, t, ids)
      PROVE  \A q \in Clients : OrderedLocks(q)'
  BY <1>1, <1>2, StartLockingNeeds, WorkOrdered DEF Staging, Pc, InTx
<1>3. CASE req[p].op = "transfer"
  <2>1. [NoTx EXCEPT !.rest = req[p].batch] \in TxState
    BY <1>1, <1>3, NoTxType, RequestFields DEF TxState, NoTx, TypeOK
  <2> QED
    BY <1>2, <1>3, <2>1 DEF Begin
<1>4. CASE req[p].op = "hold"
  BY <1>2, <1>4, NoTxType DEF Begin
<1>5. CASE req[p].op \in {"void", "capture"}
  <2>1. pc' = [pc EXCEPT ![p] = "holdLock"] /\ tx' = [tx EXCEPT ![p] = tx[p]]
    BY <1>1, <1>5 DEF Begin, Goto, TypeOK
  <2>2. "holdLock" \in Pc /\ pc[p] \notin Staging /\ pc[p] # "commit"
    BY <1>1 DEF Staging, Pc, InTx
  <2> QED
    BY <1>1, <2>1, <2>2, WorkOrdered
<1> QED
  BY <1>3, <1>4, <1>5 DEF Begin

LEMMA LockHoldOrdered ==
  ASSUME LockInv, NEW p \in Clients, LockHold(p)
  PROVE  \A q \in Clients : OrderedLocks(q)'
<1> DEFINE h == req[p].hold
           t == [NoTx EXCEPT !.hold = h, !.holdRow = holds[h]]
           ids == {holds[h].account} \cup
                  (IF req[p].op = "capture" THEN {req[p].to} ELSE {})
<1>1. /\ pc[p] = "holdLock" /\ TypeOK /\ OrderedLocks(p)
      /\ holdLock' = [holdLock EXCEPT ![h] = p]
      /\ StartLocking(p, t, ids)
      /\ UNCHANGED <<rowLock, chainLock>>
  BY DEF LockHold, LockInv, TypeInv
<1>2. h \in HoldIds
  BY <1>1, RequestFields DEF LockInv, TypeInv, TypeOK, ClientTyped
<1>3. t \in TxState
  BY <1>1, <1>2, NoTxType DEF TxState, NoTx, TypeOK
<1> HIDE DEF h, t, ids
<1>4. /\ pc'[p] \in {"lock", "work"} /\ pc' = [pc EXCEPT ![p] = pc'[p]]
      /\ tx' = [tx EXCEPT ![p] = tx'[p]]
      /\ pc'[p] = "lock" => tx'[p].need # {}
  BY <1>1, <1>3, StartLockingNeeds
<1>5. OrderedLocks(p)'
  BY <1>1, <1>4 DEF OrderedLocks, Staging
<1>6. OnlyMoves(p)
  BY <1>1, <1>2, <1>4 DEF OnlyMoves, TypeOK
<1> QED
  BY <1>5, <1>6, MoveOrdered

(* The next account by id comes after all those the request owns, and      *)
(* before all those it has left.                                           *)
LEMMA LockAccountOrdered ==
  ASSUME LockInv, NEW p \in Clients, NEW a \in AccountIds, LockAccount(p, a)
  PROVE  \A q \in Clients : OrderedLocks(q)'
<1>1. /\ pc[p] = "lock" /\ TypeOK /\ OrderedLocks(p)
      /\ a \in tx[p].need /\ \A b \in tx[p].need : a <= b
      /\ rowLock' = [rowLock EXCEPT ![a] = p]
      /\ UNCHANGED <<holdLock, chainLock>>
  BY DEF LockAccount, NextRow, LockInv, TypeInv
<1>2. /\ pc' = [pc EXCEPT ![p] = IF tx[p].need = {a} THEN "work" ELSE "lock"]
      /\ pc'[p] = (IF tx[p].need = {a} THEN "work" ELSE "lock")
  BY <1>1 DEF LockAccount, Goto, TypeOK
<1>3. /\ tx'[p].need = tx[p].need \ {a}
      /\ \A q \in Clients \ {p} : tx'[q] = tx[q]
  BY DEF LockAccount, LockInv, TypeInv, TypeOK, TxState
<1>4. tx[p].need \subseteq Int /\ AccountIds \subseteq Int
  BY TypesAssumption DEF LockInv, TypeInv, TypeOK, TxState
<1>5. ASSUME NEW c \in AccountIds, rowLock'[c] = p
      PROVE  \A b \in tx[p].need \ {a} : c < b
  <2>1. CASE c = a
    BY <1>1, <1>4, <2>1
  <2>2. CASE c # a
    BY <1>1, <1>5, <2>2 DEF OrderedLocks, TypeOK
  <2> QED
    BY <2>1, <2>2
<1>6. OrderedLocks(p)'
  BY <1>1, <1>2, <1>3, <1>5 DEF OrderedLocks, Staging
<1>7. OnlyMoves(p)
  BY <1>1, <1>2, <1>3 DEF OnlyMoves, TypeOK
<1> QED
  BY <1>6, <1>7, MoveOrdered

LEMMA AuditInTxOrdered ==
  ASSUME LockInv, NEW p \in Clients, AuditInTx(p)
  PROVE  \A q \in Clients : OrderedLocks(q)'
<1>1. /\ pc[p] = "audit" /\ chainLock' = p /\ UNCHANGED <<rowLock, holdLock>>
      /\ pc' = [pc EXCEPT ![p] = "commit"] /\ pc'[p] = "commit"
      /\ \A q \in Clients \ {p} : tx'[q] = tx[q]
  BY DEF AuditInTx, Goto, LockInv, TypeInv, TypeOK
<1>2. OrderedLocks(p)'
  BY <1>1 DEF OrderedLocks, Staging
<1>3. OnlyMoves(p)
  BY <1>1 DEF OnlyMoves, LockInv, TypeInv, TypeOK
<1> QED
  BY <1>2, <1>3, MoveOrdered

(* ProcessTransfer, SettleHold, PlaceHold and ReleaseHold.                 *)
LEMMA StageOrdered ==
  ASSUME LockInv, NEW p \in Clients, pc[p] = "work", UNCHANGED locks,
         NEW next \in {"work", "audit", "commit"}, pc' = [pc EXCEPT ![p] = next],
         NEW t, tx' = [tx EXCEPT ![p] = t]
  PROVE  \A q \in Clients : OrderedLocks(q)'
BY WorkOrdered DEF Staging, Pc, InTx

LEMMA StepOrdered ==
  ASSUME LockInv, NEW p \in Clients, Step(p)
  PROVE  \A q \in Clients : OrderedLocks(q)'
<1>1. ASSUME NEW id \in TransferIds, ProcessTransfer(p, id)
      PROVE  \A q \in Clients : OrderedLocks(q)'
  <2> DEFINE next == IF Len(tx[p].rest) = 1 THEN "audit" ELSE "work"
  <2>1. next \in {"work", "audit", "commit"} /\ pc' = [pc EXCEPT ![p] = next]
    BY <1>1 DEF ProcessTransfer, Goto
  <2> HIDE DEF next
  <2> QED
    BY <1>1, <2>1, StageOrdered DEF ProcessTransfer
<1>2. ASSUME NEW id \in TransferIds, SettleHold(p, id)
      PROVE  \A q \in Clients : OrderedLocks(q)'
  BY <1>2, StageOrdered DEF SettleHold, Goto
<1>3. ASSUME NEW h \in HoldIds, PlaceHold(p, h)
      PROVE  \A q \in Clients : OrderedLocks(q)'
  BY <1>3, StageOrdered DEF PlaceHold, Goto
<1>4. CASE ReleaseHold(p)
  BY <1>4, StageOrdered DEF ReleaseHold, Goto
<1>5. CASE Commit(p)
  BY <1>5, EndOrdered DEF Commit, Apply, Done, Forget, Goto, Pc
<1>6. CASE Refuse(p)
  BY <1>6, EndOrdered DEF Refuse, RollBack, Forget, Goto, Pc
<1> QED
  BY <1>1, <1>2, <1>3, <1>4, <1>5, <1>6, BeginOrdered DEF Step

LEMMA FaultOrdered ==
  ASSUME LockInv, NEW p \in Clients, Fault(p)
  PROVE  \A q \in Clients : OrderedLocks(q)'
<1>1. CASE CommitUnanswered(p)
  <2>1. tx' = [tx EXCEPT ![p] = tx[p]]
    BY <1>1 DEF CommitUnanswered, LockInv, TypeInv, TypeOK
  <2> QED
    BY <1>1, <2>1, EndOrdered DEF CommitUnanswered, Apply, Goto, Pc
<1>2. CASE Abort(p)
  BY <1>2, EndOrdered DEF Abort, RollBack, Forget, Goto, Pc
<1>3. CASE Retry(p)
  BY <1>3, EndOrdered DEF Retry, RollBack, Forget, Goto, Pc, InTx
<1>4. CASE Crash(p)
  BY <1>4, EndOrdered DEF Crash, Done, Forget, Goto, Pc
<1> QED
  BY <1>1, <1>2, <1>3, <1>4 DEF Fault

(* A request that has left its transaction owns nothing it could keep.     *)
LEMMA AuditAloneOrdered ==
  ASSUME LockInv, NEW p \in Clients, AuditFailure(p) \/ AuditAfterCommit(p)
  PROVE  \A q \in Clients : OrderedLocks(q)'
<1>1. pc[p] \in {"failed", "record"} /\ Done(p) /\ UNCHANGED locks
  BY DEF AuditFailure, AuditAfterCommit
<1>2. pc' = [pc EXCEPT ![p] = "idle"] /\ tx' = [tx EXCEPT ![p] = NoTx]
  BY <1>1 DEF Done, Forget, Goto
<1>3. "idle" \in Pc /\ pc[p] \notin Staging /\ pc[p] # "commit"
  BY <1>1 DEF Staging, Pc
<1> QED
  BY <1>1, <1>2, <1>3, WorkOrdered

LEMMA LockInvInit == Init => LockInv
<1> SUFFICES ASSUME Init PROVE LockInv
  OBVIOUS
<1>1. \A p \in Clients : OrderedLocks(p)
  BY LedgerAssumption DEF Init, OrderedLocks
<1> QED
  BY <1>1, TypeInvInit DEF LockInv

LEMMA LockInvStep == LockInv /\ [Next]_vars => LockInv'
<1> SUFFICES ASSUME LockInv, [Next]_vars PROVE LockInv'
  OBVIOUS
<1>1. TypeInv'
  BY TypeInvStep DEF LockInv
<1>2. CASE UNCHANGED vars
  <2>1. \A p \in Clients : OrderedLocks(p)'
    BY <1>2, OthersOrdered DEF vars, locks, LockInv
  <2> QED
    BY <1>1, <2>1 DEF LockInv
<1>3. CASE Next
  <2>1. PICK p \in Clients : Call(p) \/ Acquire(p) \/ Step(p) \/ Fault(p)
    BY <1>3 DEF Next
  <2>2. \A q \in Clients : OrderedLocks(q)'
    BY <2>1, CallOrdered, StepOrdered, FaultOrdered, LockHoldOrdered,
       LockAccountOrdered, AuditInTxOrdered, AuditAloneOrdered DEF Acquire
  <2> QED
    BY <1>1, <2>2 DEF LockInv
<1> QED
  BY <1>2, <1>3

-----------------------------------------------------------------------------
(* Finitely many numbers have a largest: the one with the fewest above it. *)
LEMMA Largest ==
  ASSUME NEW T, T \subseteq Int, IsFiniteSet(T), T # {}
  PROVE  \E m \in T : \A x \in T : x <= m
<1> DEFINE Above(x) == {y \in T : x < y}
           Counts == {Cardinality(Above(x)) : x \in T}
           Less == OpToRel(<, Nat)
<1>1. \A x \in T : IsFiniteSet(Above(x)) /\ Cardinality(Above(x)) \in Nat
  BY FS_Subset, FS_CardinalityType
<1>2. PICK n \in Counts : \A k \in Counts : ~ (<<k, n>> \in Less)
  <2>1. Counts \subseteq Nat /\ Counts # {}
    BY <1>1
  <2>2. IsWellFoundedOn(Less, Nat)
    BY NatLessThanWellFounded
  <2> HIDE DEF Counts, Less
  <2> QED
    BY <2>1, <2>2, WFMin
<1>3. \A i, j \in Nat : <<i, j>> \in Less <=> i < j
  BY DEF OpToRel
<1> HIDE DEF Less
<1>4. PICK m \in T : n = Cardinality(Above(m))
  BY <1>2
<1>5. \A x \in T : ~ (Cardinality(Above(x)) < Cardinality(Above(m)))
  BY <1>1, <1>2, <1>3, <1>4
<1> HIDE DEF Counts
<1>6. ASSUME NEW x \in T, ~ (x <= m) PROVE FALSE
  <2>1. m < x
    BY <1>6
  <2>2. x \in Above(m) /\ x \notin Above(x)
    BY <2>1
  <2>3. ASSUME NEW y \in T, x < y PROVE m < y
    BY <2>1, <2>3
  <2>4. Above(x) \subseteq Above(m)
    BY <2>3
  <2>5. Cardinality(Above(x)) \in Nat /\ Cardinality(Above(m)) \in Nat
    BY <1>1
  <2>6. /\ Cardinality(Above(x)) <= Cardinality(Above(m))
        /\ Cardinality(Above(m)) = Cardinality(Above(x)) => Above(m) = Above(x)
    BY <1>1, <2>4, FS_Subset
  <2>7. ~ (Cardinality(Above(x)) < Cardinality(Above(m)))
    BY <1>5
  <2>8. Above(m) # Above(x)
    BY <2>2
  <2> HIDE DEF Above
  <2> QED
    BY <2>5, <2>6, <2>7, <2>8
<1> QED
  BY <1>6

LEMMA NobodyInACircle == LockInv => NoDeadlock
<1> SUFFICES ASSUME LockInv, NEW S \in SUBSET Clients, S # {},
                    \A p \in S : \E q \in S : WaitsFor(p, q)
             PROVE  FALSE
  BY DEF NoDeadlock
<1>1. \A p \in S : OrderedLocks(p)
  BY DEF LockInv
(* The owner of the audit chain waits for nobody, so nobody in S waits for *)
(* it, and everybody in S waits for a hold or an account.                  *)
<1>2. \A p \in S : pc[p] \in {"holdLock", "lock", "audit", "failed", "record"}
  BY DEF WaitsFor
<1>3. \A q \in S : chainLock # q
  BY <1>1, <1>2 DEF OrderedLocks
<1>4. \A p \in S : pc[p] \in {"holdLock", "lock"}
  BY <1>3 DEF WaitsFor
<1> DEFINE Wanted == {a \in AccountIds : \E p \in S : pc[p] = "lock" /\ NextRow(p, a)}
<1>5. \A p \in S : pc[p] = "lock" =>
        \E a \in Wanted, q \in S : NextRow(p, a) /\ rowLock[a] = q /\ pc[q] = "lock"
  <2> SUFFICES ASSUME NEW p \in S, pc[p] = "lock"
               PROVE \E a \in Wanted, q \in S : NextRow(p, a) /\ rowLock[a] = q /\ pc[q] = "lock"
    OBVIOUS
  <2>1. PICK q \in S, a \in tx[p].need : rowLock[a] = q /\ \A b \in tx[p].need : a <= b
    BY DEF WaitsFor
  <2>2. a \in AccountIds /\ NextRow(p, a)
    BY <2>1 DEF NextRow, LockInv, TypeInv, TypeOK, TxState
  <2>3. pc[q] = "lock"
    BY <1>1, <1>4, <2>1, <2>2 DEF OrderedLocks, Staging
  <2> QED
    BY <2>1, <2>2, <2>3
<1>6. Wanted # {}
  <2>1. PICK p \in S : TRUE
    OBVIOUS
  <2>2. CASE pc[p] = "lock"
    BY <1>5, <2>2
  <2>3. CASE pc[p] = "holdLock"
    <3>1. PICK q \in S : holdLock[req[p].hold] = q
      BY <2>3 DEF WaitsFor
    <3>2. req[p].hold \in HoldIds
      BY <2>3, RequestFields DEF LockInv, TypeInv, TypeOK, ClientTyped
    <3>3. pc[q] = "lock"
      BY <1>1, <1>4, <3>1, <3>2 DEF OrderedLocks, Staging
    <3> QED
      BY <1>5, <3>3
  <2> QED
    BY <1>4, <2>2, <2>3
<1>7. IsFiniteSet(Wanted) /\ Wanted \subseteq Int
  BY TypesAssumption, FS_Subset
<1>8. PICK m \in Wanted : \A a \in Wanted : a <= m
  BY <1>6, <1>7, Largest
(* Who owns the last account wanted wants one after it.                    *)
<1>9. PICK p \in S : pc[p] = "lock" /\ NextRow(p, m)
  OBVIOUS
<1>10. PICK q \in S : rowLock[m] = q /\ pc[q] = "lock"
  <2>1. PICK a \in Wanted, q \in S : NextRow(p, a) /\ rowLock[a] = q /\ pc[q] = "lock"
    BY <1>5, <1>9
  <2>2. a = m
    BY <1>7, <1>9, <2>1 DEF NextRow
  <2> QED
    BY <2>1, <2>2
<1>11. PICK b \in Wanted : NextRow(q, b)
  BY <1>5, <1>10
<1>12. m < b
  BY <1>1, <1>10, <1>11 DEF OrderedLocks, NextRow
<1> QED
  BY <1>7, <1>8, <1>11, <1>12

(* Hold before accounts, accounts by id, the audit chain last: among any   *)
(* requests at any time there is one that waits for none of the others, so *)
(* that "deadlock prevention via sorted account locking" holds for every   *)
(* set of accounts and any number of requests.                             *)
THEOREM DeadlockFree == Spec => []NoDeadlock
BY LockInvInit, LockInvStep, NobodyInACircle, PTL DEF Spec

-----------------------------------------------------------------------------
(* Sums and limits.  None of it is inductive on what is committed alone.   *)
(* The argument is about views: the row an account has in a transaction    *)
(* that locked it is what the committed transfers and holds and the        *)
(* transaction's own add up to, and it stays so because whatever another   *)
(* transaction commits meanwhile concerns accounts and holds that it has   *)
(* locked itself.                                                          *)

CommittedSums ==
  \A a \in AccountIds :
    /\ row[a].balance = Net(transfers, a)
    /\ row[a].encumbered = Held(holds, a)
    /\ RowChecks(a, row[a])
    /\ a \notin accounts => row[a] = NewRow

HoldersExist ==
  \A h \in HoldIds : holds[h].status # "none" => holds[h].account \in accounts

(* The rows a transaction has locked, as it would commit them.             *)
ViewSums(p) ==
  \A a \in Locked(p) :
    /\ tx[p].view[a].balance = Net(transfers \cup tx[p].transfers, a)
    /\ tx[p].view[a].encumbered =
         Held(WithHold(holds, tx[p].hold, tx[p].holdRow), a)
    /\ RowChecks(a, tx[p].view[a])

(* The hold a transaction works on is its own: locked, or not yet there.   *)
OwnHold(p) ==
  /\ req[p].op = "transfer" => tx[p].hold = None
  /\ req[p].op = "hold" =>
       IF pc[p] \in {"lock", "work"} THEN tx[p].hold = None
       ELSE /\ tx[p].hold \in HoldIds
            /\ holds[tx[p].hold].status = "none"
  /\ req[p].op \in {"void", "capture"} =>
       /\ tx[p].hold = req[p].hold
       /\ holdLock[tx[p].hold] = p
       /\ holds[tx[p].hold].status = "active"
       /\ holds[tx[p].hold].account = tx[p].holdRow.account
       /\ pc[p] \in {"lock", "work"} => tx[p].holdRow = holds[tx[p].hold]
  /\ tx[p].hold # None => tx[p].holdRow.account \in tx[p].need \cup Locked(p)

(* It locks all the rows it needs before it stages anything, and stages    *)
(* only what concerns them.                                                *)
Items(b) == {b[i] : i \in DOMAIN b}
OwnRows(p) ==
  /\ tx[p].need \subseteq accounts
  /\ pc[p] # "lock" => tx[p].need = {}
  /\ pc[p] = "lock" => tx[p].transfers = {}
  /\ pc[p] = "work" /\ req[p].op # "transfer" => tx[p].transfers = {}
  /\ req[p].op = "transfer" => tx[p].rest \in Seq(Items(req[p].batch))
  /\ \A t \in tx[p].transfers : t.from \in Locked(p) /\ t.to \in Locked(p)

ClientSafe(p) ==
  /\ Locked(p) \subseteq accounts
  /\ pc[p] \notin Staging => Locked(p) = {}
  /\ pc[p] \in Staging => OwnRows(p) /\ OwnHold(p) /\ ViewSums(p)

HoldsApart ==
  \A p, q \in Clients :
    p # q /\ pc[p] \in Staging /\ pc[q] \in Staging /\ tx[p].hold # None
      => tx[p].hold # tx[q].hold

SafeInv ==
  /\ TypeInv
  /\ CommittedSums
  /\ HoldersExist
  /\ HoldsApart
  /\ \A p \in Clients : ClientSafe(p)

-----------------------------------------------------------------------------
(* Facts about the tables.                                                 *)

(* Only finitely many rows can be told apart.                              *)
LEMMA TransfersFinite == ASSUME NEW ts \in SUBSET Transfer PROVE IsFiniteSet(ts)
<1> DEFINE Nul == TransferIds \cup {None}
           Nuh == HoldIds \cup {None}
           P == TransferIds \X (AccountIds \X (AccountIds \X (Amount \X (Nul \X Nuh))))
           f == [t \in Transfer |->
                   <<t.id, <<t.from, <<t.to, <<t.amount, <<t.reversed, t.hold>>>>>>>>>>]
<1>1. IsFiniteSet(Nul) /\ IsFiniteSet(Nuh) /\ IsFiniteSet(Amount)
  <2>1. IsFiniteSet({None})
    BY FS_Singleton
  <2>2. IsFiniteSet(1..MaxAmount)
    BY FS_Interval, TypesAssumption
  <2> QED
    BY <2>1, <2>2, FS_Union, TypesAssumption DEF Amount
<1>2. IsFiniteSet(P)
  <2> HIDE DEF Nul, Nuh
  <2>1. IsFiniteSet(Nul \X Nuh)
    BY <1>1, FS_Product
  <2>2. IsFiniteSet(Amount \X (Nul \X Nuh))
    BY <1>1, <2>1, FS_Product
  <2>3. IsFiniteSet(AccountIds \X (Amount \X (Nul \X Nuh)))
    BY <2>2, FS_Product, TypesAssumption
  <2>4. IsFiniteSet(AccountIds \X (AccountIds \X (Amount \X (Nul \X Nuh))))
    BY <2>3, FS_Product, TypesAssumption
  <2> QED
    BY <2>4, FS_Product, TypesAssumption
<1>3. f \in Injection(Transfer, P)
  <2>1. f \in [Transfer -> P]
    BY DEF Transfer
  <2>2. \A s, t \in Transfer : f[s] = f[t] => s = t
    BY DEF Transfer
  <2> QED
    BY <2>1, <2>2 DEF Injection, IsInjective
<1>4. IsFiniteSet(Transfer)
  <2> HIDE DEF f, P
  <2> QED BY <1>2, <1>3, FS_Injection
<1> QED
  BY <1>4, FS_Subset

LEMMA WithNoHold ==
  ASSUME NEW hs \in [HoldIds -> Hold], NEW r
  PROVE  WithHold(hs, None, r) = hs
BY TypesAssumption DEF WithHold

LEMMA WithSameHold ==
  ASSUME NEW hs \in [HoldIds -> Hold], NEW h
  PROVE  WithHold(hs, h, hs[h]) = hs
BY DEF WithHold

(* Two transactions that write different holds may commit in any order.    *)
LEMMA HoldsCommute ==
  ASSUME NEW hs, NEW h, NEW k, NEW r, NEW s, h # k
  PROVE  WithHold(WithHold(hs, h, r), k, s) = WithHold(WithHold(hs, k, s), h, r)
BY DEF WithHold

(* What a transaction has read and staged is as typed as what is committed.*)
LEMMA TxFacts ==
  ASSUME TypeInv, NEW p \in Clients
  PROVE  /\ tx[p] \in TxState
         /\ tx[p].view \in [AccountIds -> Row]
         /\ tx[p].transfers \subseteq Transfer
         /\ IsFiniteSet(transfers) /\ IsFiniteSet(tx[p].transfers)
         /\ IsFiniteSet(transfers \cup tx[p].transfers)
         /\ holds \in [HoldIds -> Hold]
         /\ row \in [AccountIds -> Row]
         /\ MaxAmount \in Nat
<1>1. tx[p] \in TxState /\ transfers \in SUBSET Transfer
      /\ holds \in [HoldIds -> Hold] /\ row \in [AccountIds -> Row]
  BY DEF TypeInv, TypeOK
<1>2. tx[p].view \in [AccountIds -> Row] /\ tx[p].transfers \in SUBSET Transfer
  BY <1>1 DEF TxState
<1>3. transfers \cup tx[p].transfers \in SUBSET Transfer
  BY <1>1, <1>2
<1> QED
  BY <1>1, <1>2, <1>3, TransfersFinite, TypesAssumption

(* Reading off a client's invariant.                                       *)
LEMMA ViewOf ==
  ASSUME SafeInv, NEW p \in Clients, pc[p] \in Staging
  PROVE  OwnRows(p) /\ OwnHold(p) /\ ViewSums(p) /\ Locked(p) \subseteq accounts
BY DEF SafeInv, ClientSafe

-----------------------------------------------------------------------------
(* Who is affected by a step.  A client that does not move keeps what it   *)
(* knows as long as the tables of transfers and holds stay.                *)

Untouched(q) ==
  /\ pc'[q] = pc[q] /\ req'[q] = req[q] /\ tx'[q] = tx[q]
  /\ Locked(q)' = Locked(q)
  /\ \A h \in HoldIds : holdLock[h] = q => holdLock'[h] = q

LEMMA UntouchedSafe ==
  ASSUME TypeInv, NEW q \in Clients, ClientSafe(q), Untouched(q),
         accounts \subseteq accounts', UNCHANGED <<transfers, holds>>
  PROVE  ClientSafe(q)'
<1>1. CASE pc[q] \notin Staging
  BY <1>1 DEF ClientSafe, Untouched
<1>2. CASE pc[q] \in Staging
  <2>1. OwnRows(q)'
    BY <1>2 DEF ClientSafe, OwnRows, Untouched
  <2>2. OwnHold(q)'
    <3>1. req[q].op \in {"void", "capture"} => req[q].hold \in HoldIds
      BY RequestFields DEF TypeInv, TypeOK
    <3> QED
      BY <1>2, <3>1 DEF ClientSafe, OwnHold, Untouched
  <2>3. ViewSums(q)'
    BY <1>2 DEF ClientSafe, ViewSums, Untouched
  <2> QED
    BY <1>2, <2>1, <2>2, <2>3 DEF ClientSafe, Untouched
<1> QED
  BY <1>1, <1>2

LEMMA StillApart ==
  ASSUME HoldsApart, NEW p \in Clients,
         \A q \in Clients \ {p} : pc'[q] = pc[q] /\ tx'[q] = tx[q],
         pc'[p] \in Staging /\ tx'[p].hold # None =>
           \A q \in Clients \ {p} :
             pc[q] \in Staging => tx[q].hold # tx'[p].hold
  PROVE  HoldsApart'
BY DEF HoldsApart

(* A step of p that commits nothing.                                       *)
LEMMA QuietStep ==
  ASSUME SafeInv, TypeInv', NEW p \in Clients,
         UNCHANGED <<accounts, row, transfers, holds>>,
         \A q \in Clients \ {p} : Untouched(q),
         ClientSafe(p)',
         pc'[p] \in Staging /\ tx'[p].hold # None =>
           \A q \in Clients \ {p} :
             pc[q] \in Staging => tx[q].hold # tx'[p].hold
  PROVE  SafeInv'
<1>1. CommittedSums' /\ HoldersExist'
  BY DEF SafeInv, CommittedSums, HoldersExist
<1>2. HoldsApart'
  BY StillApart DEF SafeInv, Untouched
<1>3. \A q \in Clients : ClientSafe(q)'
  BY UntouchedSafe DEF SafeInv
<1> QED
  BY <1>1, <1>2, <1>3 DEF SafeInv

(* A step of p that takes no lock and keeps its own.                       *)
LEMMA OthersUntouched ==
  ASSUME TypeInv, NEW p \in Clients, NEW next, NEW t, NEW r,
         pc' = [pc EXCEPT ![p] = next], tx' = [tx EXCEPT ![p] = t],
         req' = [req EXCEPT ![p] = r],
         UNCHANGED <<rowLock, holdLock>>
  PROVE  /\ \A q \in Clients \ {p} : Untouched(q)
         /\ Locked(p)' = Locked(p)
         /\ pc'[p] = next /\ tx'[p] = t /\ req'[p] = r
<1>1. \A q : Locked(q)' = Locked(q)
  BY DEF Locked
<1> QED
  BY <1>1 DEF TypeInv, TypeOK, Untouched

(* A step that ends the transaction of p.                                  *)
LEMMA OthersKeepLocks ==
  ASSUME TypeInv, NEW p \in Clients, NEW next, NEW t, NEW r,
         pc' = [pc EXCEPT ![p] = next], tx' = [tx EXCEPT ![p] = t],
         req' = [req EXCEPT ![p] = r],
         ReleaseLocks(p)
  PROVE  /\ \A q \in Clients \ {p} : Untouched(q)
         /\ Locked(p)' = {}
         /\ pc'[p] = next /\ tx'[p] = t /\ req'[p] = r
<1>1. p # None
  BY LedgerAssumption
<1>2. Locked(p)' = {}
  BY <1>1 DEF Locked, ReleaseLocks
<1>3. \A q \in Clients \ {p} : Locked(q)' = Locked(q)
  <2>1. TAKE q \in Clients \ {p}
  <2>2. q # None
    BY LedgerAssumption
  <2> QED
    BY <2>2 DEF Locked, ReleaseLocks
<1>4. \A q \in Clients \ {p} : \A h \in HoldIds :
        holdLock[h] = q => holdLock'[h] = q
  BY DEF ReleaseLocks
<1> QED
  BY <1>2, <1>3, <1>4 DEF TypeInv, TypeOK, Untouched

-----------------------------------------------------------------------------
(* Steps outside transactions, and the ends of those that roll back.       *)

LEMMA SubmitSafe ==
  ASSUME SafeInv, TypeInv', NEW p \in Clients, NEW r, NEW valid,
         Submit(p, r, valid)
  PROVE  SafeInv'
<1> DEFINE next == IF valid THEN "begin" ELSE "failed"
<1>1. /\ pc' = [pc EXCEPT ![p] = next] /\ next \notin Staging
      /\ tx' = [tx EXCEPT ![p] = tx[p]] /\ req' = [req EXCEPT ![p] = r]
      /\ UNCHANGED <<rowLock, holdLock, accounts, row, transfers, holds>>
      /\ pc[p] \notin Staging /\ TypeInv
  BY DEF Submit, Goto, db, locks, SafeInv, TypeInv, TypeOK, Staging
<1> HIDE DEF next
<1>2. /\ \A q \in Clients \ {p} : Untouched(q)
      /\ Locked(p)' = Locked(p) /\ pc'[p] = next
  BY <1>1, OthersUntouched
<1>3. ClientSafe(p)'
  BY <1>1, <1>2 DEF SafeInv, ClientSafe
<1> QED
  BY <1>1, <1>2, <1>3, QuietStep

LEMMA CreateAccountSafe ==
  ASSUME SafeInv, TypeInv', NEW p \in Clients, NEW a \in AccountIds,
         CreateAccount(p, a)
  PROVE  SafeInv'
<1>1. row' = row
  BY DEF CreateAccount, SafeInv, CommittedSums, TypeInv, TypeOK
<1>2. /\ accounts' = accounts \cup {a}
      /\ UNCHANGED <<transfers, holds, rowLock, holdLock, pc, req, tx>>
  BY DEF CreateAccount, locks
<1>3. CommittedSums' /\ HoldersExist' /\ HoldsApart'
  BY <1>1, <1>2 DEF SafeInv, CommittedSums, HoldersExist, HoldsApart
<1>4. \A q \in Clients : Untouched(q)
  BY <1>2 DEF Untouched, Locked
<1>5. \A q \in Clients : ClientSafe(q)'
  BY <1>2, <1>4, UntouchedSafe DEF SafeInv
<1> QED
  BY <1>3, <1>5 DEF SafeInv

LEMMA CallSafe ==
  ASSUME SafeInv, TypeInv', NEW p \in Clients, Call(p)
  PROVE  SafeInv'
BY SubmitSafe, CreateAccountSafe
   DEF Call, CreateBatchTransfer, ReverseTransfer, HoldFunds, VoidHold,
       CaptureHold

(* The request's transaction is over, or never began.                      *)
LEMMA LeaveSafe ==
  ASSUME SafeInv, TypeInv', NEW p \in Clients, NEW next, NEW t, NEW r,
         next \notin Staging,
         pc' = [pc EXCEPT ![p] = next], tx' = [tx EXCEPT ![p] = t],
         req' = [req EXCEPT ![p] = r],
         UNCHANGED <<accounts, row, transfers, holds>>,
         ReleaseLocks(p) \/ (pc[p] \notin Staging /\ UNCHANGED locks)
  PROVE  SafeInv'
<1>1. /\ \A q \in Clients \ {p} : Untouched(q)
      /\ Locked(p)' = {} /\ pc'[p] = next
  <2>1. CASE ReleaseLocks(p)
    BY <2>1, OthersKeepLocks DEF SafeInv
  <2>2. CASE pc[p] \notin Staging /\ UNCHANGED locks
    <3>1. Locked(p) = {}
      BY <2>2 DEF SafeInv, ClientSafe
    <3> QED
      BY <2>2, <3>1, OthersUntouched DEF SafeInv, locks
  <2> QED
    BY <2>1, <2>2
<1>2. ClientSafe(p)'
  BY <1>1 DEF ClientSafe
<1> QED
  BY <1>1, <1>2, QuietStep

LEMMA DoneSafe ==
  ASSUME SafeInv, TypeInv', NEW p \in Clients,
         AuditFailure(p) \/ AuditAfterCommit(p) \/ Crash(p)
  PROVE  SafeInv'
<1>1. /\ pc' = [pc EXCEPT ![p] = "idle"] /\ tx' = [tx EXCEPT ![p] = NoTx]
      /\ req' = [req EXCEPT ![p] = NoRequest] /\ "idle" \notin Staging
  BY DEF AuditFailure, AuditAfterCommit, Crash, Done, Forget, Goto, Staging
<1>2. /\ UNCHANGED <<accounts, row, transfers, holds>>
      /\ ReleaseLocks(p) \/ (pc[p] \notin Staging /\ UNCHANGED locks)
  BY DEF AuditFailure, AuditAfterCommit, Crash, db, Staging
<1> QED
  BY <1>1, <1>2, LeaveSafe

LEMMA RollBackSafe ==
  ASSUME SafeInv, TypeInv', NEW p \in Clients,
         Refuse(p) \/ Abort(p) \/ Retry(p)
  PROVE  SafeInv'
<1>1. PICK next \in {"failed", "begin"} : RollBack(p, next)
  BY DEF Refuse, Abort, Retry
<1>2. /\ pc' = [pc EXCEPT ![p] = next] /\ tx' = [tx EXCEPT ![p] = NoTx]
      /\ req' = [req EXCEPT ![p] = req[p]] /\ next \notin Staging
      /\ UNCHANGED <<accounts, row, transfers, holds>> /\ ReleaseLocks(p)
  BY <1>1 DEF RollBack, Forget, Goto, Staging, db, SafeInv, TypeInv, TypeOK
<1> QED
  BY <1>2, LeaveSafe

-----------------------------------------------------------------------------
(* Locking.  The rows read under a lock are the committed ones, and those  *)
(* are the sums.                                                           *)

LEMMA StartLockingSafe ==
  ASSUME SafeInv, TypeInv', NEW p \in Clients, NEW t \in TxState, NEW ids,
         StartLocking(p, t, ids), pc[p] \notin Staging,
         UNCHANGED <<db, req, rowLock>>,
         \A q \in Clients \ {p} : \A h \in HoldIds :
           holdLock[h] = q => holdLock'[h] = q,
         t.transfers = {},
         req[p].op = "transfer" =>
           t.rest \in Seq(Items(req[p].batch)) /\ t.hold = None,
         req[p].op = "hold" => t.hold = None,
         req[p].op \in {"void", "capture"} =>
           /\ t.hold = req[p].hold /\ t.hold \in HoldIds
           /\ holdLock[t.hold] = None /\ holdLock'[t.hold] = p
           /\ holds[t.hold].status = "active" /\ t.holdRow = holds[t.hold]
           /\ holds[t.hold].account \in ids,
         req[p].op \in {"transfer", "hold", "void", "capture"}
  PROVE  SafeInv'
<1> DEFINE u == [t EXCEPT !.need = ids \cap accounts]
           next == IF ids \cap accounts = {} THEN "work" ELSE "lock"
<1>1. /\ u.need = ids \cap accounts /\ u.transfers = {} /\ u.rest = t.rest
      /\ u.hold = t.hold /\ u.holdRow = t.holdRow
  BY DEF TxState
<1>2. /\ tx' = [tx EXCEPT ![p] = u] /\ pc' = [pc EXCEPT ![p] = next]
  BY DEF StartLocking, Goto
<1>3. /\ next \in {"lock", "work"} /\ (next = "work" <=> u.need = {})
  BY <1>1
<1> HIDE DEF u, next
<1>4. /\ UNCHANGED <<accounts, row, transfers, holds, req, rowLock>>
      /\ tx'[p] = u /\ pc'[p] = next /\ Locked(p)' = {}
      /\ \A q \in Clients \ {p} : Untouched(q)
  <2>1. /\ UNCHANGED <<accounts, row, transfers, holds, req, rowLock>>
        /\ tx'[p] = u /\ pc'[p] = next
    BY <1>2 DEF db, SafeInv, TypeInv, TypeOK
  <2>2. \A q \in Clients : Locked(q)' = Locked(q)
    BY <2>1 DEF Locked
  <2>3. Locked(p) = {}
    BY DEF SafeInv, ClientSafe
  <2> QED
    BY <1>2, <2>1, <2>2, <2>3 DEF Untouched, SafeInv, TypeInv, TypeOK
<1>5. ViewSums(p)'
  BY <1>4 DEF ViewSums
<1>6. OwnRows(p)'
  BY <1>1, <1>3, <1>4 DEF OwnRows
<1>7. OwnHold(p)'
  <2>1. req[p].op \in {"void", "capture"} => holds[t.hold].account \in accounts
    BY DEF SafeInv, HoldersExist
  <2> QED
    BY <1>1, <1>3, <1>4, <2>1 DEF OwnHold
<1>8. ClientSafe(p)'
  BY <1>3, <1>4, <1>5, <1>6, <1>7 DEF ClientSafe, Staging
<1>9. ASSUME u.hold # None, NEW q \in Clients \ {p}, pc[q] \in Staging
      PROVE  tx[q].hold # u.hold
  <2>1. holdLock[t.hold] = None /\ holds[t.hold].status = "active"
    BY <1>1, <1>9
  <2>2. OwnHold(q) /\ req[q] \in Request /\ q # None
    BY <1>9, ViewOf, LedgerAssumption DEF SafeInv, TypeInv, TypeOK
  <2>3. req[q].op \in {"transfer", "hold", "void", "capture"}
    BY <1>9 DEF SafeInv, TypeInv, ClientTyped, Staging, InTx
  <2> QED
    BY <1>1, <1>9, <2>1, <2>2, <2>3 DEF OwnHold
<1> QED
  BY <1>4, <1>8, <1>9, QuietStep

LEMMA ItemsOf ==
  ASSUME NEW b \in Seq(Input)
  PROVE  b \in Seq(Items(b))
<1>1. \A i \in 1..Len(b) : b[i] \in Items(b)
  BY DEF Items
<1> QED
  BY <1>1

LEMMA BeginSafe ==
  ASSUME SafeInv, TypeInv', NEW p \in Clients, Begin(p)
  PROVE  SafeInv'
<1>1. /\ pc[p] = "begin" /\ pc[p] \notin Staging /\ pc[p] \in InTx
      /\ UNCHANGED <<db, req, rowLock, holdLock, locks>>
      /\ req[p] \in Request /\ ClientTyped(p)
  BY DEF Begin, Staging, InTx, locks, SafeInv, TypeInv, TypeOK
<1>2. CASE req[p].op = "transfer"
  <2> DEFINE t == [NoTx EXCEPT !.rest = req[p].batch]
  <2>1. req[p].batch \in Seq(Input) /\ req[p].batch \in Seq(Items(req[p].batch))
    BY <1>1, <1>2, RequestFields, ItemsOf
  <2>2. /\ t \in TxState /\ t.transfers = {} /\ t.hold = None
        /\ t.rest = req[p].batch
    BY <2>1, NoTxType DEF NoTx, TxState
  <2>3. StartLocking(p, t, BatchAccounts(req[p].batch))
    BY <1>2 DEF Begin
  <2> HIDE DEF t
  <2> QED
    BY <1>1, <1>2, <2>1, <2>2, <2>3, StartLockingSafe
<1>3. CASE req[p].op = "hold"
  <2>1. StartLocking(p, NoTx, {req[p].account})
    BY <1>3 DEF Begin
  <2>2. NoTx.transfers = {} /\ NoTx.hold = None
    BY DEF NoTx
  <2> QED
    BY <1>1, <1>3, <2>1, <2>2, NoTxType, StartLockingSafe
<1>4. CASE req[p].op \in {"void", "capture"}
  <2>1. /\ pc' = [pc EXCEPT ![p] = "holdLock"] /\ tx' = [tx EXCEPT ![p] = tx[p]]
        /\ req' = [req EXCEPT ![p] = req[p]] /\ "holdLock" \notin Staging
        /\ UNCHANGED <<accounts, row, transfers, holds>>
    BY <1>1, <1>4 DEF Begin, Goto, Staging, db, SafeInv, TypeInv, TypeOK
  <2> QED
    BY <1>1, <2>1, LeaveSafe
<1> QED
  BY <1>1, <1>2, <1>3, <1>4 DEF ClientTyped

LEMMA LockHoldSafe ==
  ASSUME SafeInv, TypeInv', NEW p \in Clients, LockHold(p)
  PROVE  SafeInv'
<1> DEFINE h == req[p].hold
           t == [NoTx EXCEPT !.hold = h, !.holdRow = holds[h]]
           ids == {holds[h].account} \cup
                  (IF req[p].op = "capture" THEN {req[p].to} ELSE {})
<1>1. /\ req[p].op \in {"void", "capture"} /\ h \in HoldIds
      /\ holds[h] \in Hold /\ holdLock \in [HoldIds -> Clients \cup {None}]
      /\ pc[p] = "holdLock" /\ pc[p] \notin Staging
  BY RequestFields DEF LockHold, SafeInv, TypeInv, TypeOK, ClientTyped, Staging
<1>2. /\ t \in TxState /\ t.hold = h /\ t.holdRow = holds[h] /\ t.transfers = {}
  BY <1>1, NoTxType DEF NoTx, TxState
<1>3. /\ StartLocking(p, t, ids) /\ holds[h].account \in ids
      /\ holdLock[h] = None /\ holdLock' = [holdLock EXCEPT ![h] = p]
      /\ holds[h].status = "active"
      /\ UNCHANGED <<db, req, rowLock>>
  BY DEF LockHold, HoldFree
<1> HIDE DEF t, ids
<1>4. \A q \in Clients \ {p} : \A k \in HoldIds :
        holdLock[k] = q => holdLock'[k] = q
  BY <1>1, <1>3, LedgerAssumption
<1> QED
  BY <1>1, <1>2, <1>3, <1>4, StartLockingSafe

LEMMA LockAccountSafe ==
  ASSUME SafeInv, TypeInv', NEW p \in Clients, NEW a \in AccountIds,
         LockAccount(p, a)
  PROVE  SafeInv'
<1> DEFINE u == [tx[p] EXCEPT !.need = @ \ {a}, !.view[a] = row[a]]
           next == IF tx[p].need = {a} THEN "work" ELSE "lock"
<1>1. /\ pc[p] = "lock" /\ pc[p] \in Staging /\ p # None
      /\ a \in tx[p].need /\ rowLock[a] = None
      /\ rowLock' = [rowLock EXCEPT ![a] = p]
      /\ UNCHANGED <<accounts, row, transfers, holds, req, holdLock>>
      /\ tx' = [tx EXCEPT ![p] = u] /\ pc' = [pc EXCEPT ![p] = next]
  <2>1. tx' = [tx EXCEPT ![p] = u] /\ pc' = [pc EXCEPT ![p] = next]
    <3>1. tx \in [Clients -> TxState]
      BY DEF SafeInv, TypeInv, TypeOK
    <3> QED
      BY <3>1 DEF LockAccount, Goto
  <2>2. a \in tx[p].need /\ rowLock[a] = None
    BY DEF LockAccount, NextRow, RowFree
  <2> QED
    BY <2>1, <2>2, LedgerAssumption DEF LockAccount, Staging, db
<1>2. /\ tx[p] \in TxState /\ tx[p].view \in [AccountIds -> Row]
      /\ holds \in [HoldIds -> Hold] /\ req[p] \in Request
      /\ rowLock \in [AccountIds -> Clients \cup {None}] /\ ClientTyped(p)
  BY TxFacts DEF SafeInv, TypeInv, TypeOK
<1>3. OwnRows(p) /\ OwnHold(p) /\ ViewSums(p) /\ Locked(p) \subseteq accounts
  BY <1>1, ViewOf
<1>4. /\ u.need = tx[p].need \ {a} /\ u.transfers = tx[p].transfers
      /\ u.rest = tx[p].rest /\ u.hold = tx[p].hold /\ u.holdRow = tx[p].holdRow
      /\ u.view = [tx[p].view EXCEPT ![a] = row[a]]
  BY <1>2 DEF TxState
<1>5. next \in {"lock", "work"} /\ (next = "work" => u.need = {})
  BY <1>4
<1> HIDE DEF u, next
<1>6. /\ tx'[p] = u /\ pc'[p] = next
      /\ Locked(p)' = Locked(p) \cup {a}
      /\ \A q \in Clients \ {p} : Locked(q)' = Locked(q)
      /\ \A q \in Clients \ {p} : Untouched(q)
  <2>1. tx'[p] = u /\ pc'[p] = next
    BY <1>1 DEF SafeInv, TypeInv, TypeOK
  <2>2. Locked(p)' = Locked(p) \cup {a}
    BY <1>1, <1>2 DEF Locked
  <2>3. \A q \in Clients \ {p} : Locked(q)' = Locked(q)
    BY <1>1, <1>2, LedgerAssumption DEF Locked
  <2> QED
    BY <1>1, <2>1, <2>2, <2>3 DEF Untouched, SafeInv, TypeInv, TypeOK
<1>7. OwnRows(p)'
  BY <1>1, <1>3, <1>4, <1>5, <1>6 DEF OwnRows
<1>8. OwnHold(p)'
  BY <1>1, <1>3, <1>4, <1>5, <1>6 DEF OwnHold
<1>9. ViewSums(p)'
  <2>1. tx[p].transfers = {}
    BY <1>1, <1>3 DEF OwnRows
  <2>2. WithHold(holds, tx[p].hold, tx[p].holdRow) = holds
    <3>1. tx[p].hold = None \/ tx[p].holdRow = holds[tx[p].hold]
      BY <1>1, <1>2, <1>3 DEF OwnHold, ClientTyped, InTx
    <3> QED
      BY <1>2, <3>1, WithNoHold, WithSameHold
  <2>3. /\ row[a].balance = Net(transfers, a) /\ RowChecks(a, row[a])
        /\ row[a].encumbered = Held(holds, a)
    BY DEF SafeInv, CommittedSums
  <2>4. \A b \in AccountIds : u.view[b] = IF b = a THEN row[a] ELSE tx[p].view[b]
    BY <1>2, <1>4
  <2>5. \A b \in Locked(p) \cup {a} :
          /\ u.view[b].balance = Net(transfers, b)
          /\ u.view[b].encumbered = Held(holds, b)
          /\ RowChecks(b, u.view[b])
    <3>1. \A b \in Locked(p) :
            /\ tx[p].view[b].balance = Net(transfers, b)
            /\ tx[p].view[b].encumbered = Held(holds, b)
            /\ RowChecks(b, tx[p].view[b])
      BY <1>3, <2>1, <2>2 DEF ViewSums
    <3> QED
      BY <2>3, <2>4, <3>1 DEF Locked
  <2>6. /\ UNCHANGED <<transfers, holds>> /\ transfers \cup u.transfers = transfers
        /\ WithHold(holds, u.hold, u.holdRow) = holds
    BY <1>1, <1>4, <2>1, <2>2
  <2> QED
    BY <1>6, <2>5, <2>6 DEF ViewSums
<1>10. ClientSafe(p)'
  BY <1>1, <1>3, <1>5, <1>6, <1>7, <1>8, <1>9 DEF ClientSafe, OwnRows, Staging
<1>11. ASSUME u.hold # None, NEW q \in Clients \ {p}, pc[q] \in Staging
       PROVE  tx[q].hold # u.hold
  BY <1>1, <1>4, <1>11 DEF SafeInv, HoldsApart
<1> QED
  BY <1>1, <1>6, <1>10, <1>11, QuietStep

-----------------------------------------------------------------------------
(* The work.  A change of a view that the code lets pass keeps the CHECK   *)
(* constraints, and changes the view by what it changes the sums.          *)

LEMMA Debit ==
  ASSUME NEW a, NEW r \in Row, NEW m \in Nat,
         RowChecks(a, r), ValidateDebit(a, r, m)
  PROVE  /\ RowChecks(a, Updated(r, r.balance - m, r.encumbered))
         /\ RowChecks(a, Updated(r, r.balance, r.encumbered + m))
BY DEF Row, RowChecks, ValidateDebit, AvailableBalance, Updated

LEMMA Credit ==
  ASSUME NEW a, NEW r \in Row, NEW m \in Nat,
         RowChecks(a, r), ValidateCredit(a, r, m)
  PROVE  RowChecks(a, Updated(r, r.balance + m, r.encumbered))
BY DEF Row, RowChecks, ValidateCredit, AvailableBalance, Updated

(* Giving back what was held can only help.                                *)
LEMMA Release ==
  ASSUME NEW a, NEW r \in Row, NEW m \in Nat, RowChecks(a, r), r.encumbered >= m
  PROVE  /\ RowChecks(a, Updated(r, r.balance, r.encumbered - m))
         /\ RowChecks(a, Updated(r, r.balance - m, r.encumbered - m))
BY DEF Row, RowChecks, AvailableBalance, Updated

LEMMA WorkSafe ==
  ASSUME SafeInv, TypeInv', NEW p \in Clients, NEW u, NEW next \in Staging,
         pc[p] \in Staging,
         pc' = [pc EXCEPT ![p] = next], tx' = [tx EXCEPT ![p] = u],
         UNCHANGED <<accounts, row, transfers, holds, req, rowLock, holdLock>>,
         OwnRows(p)', OwnHold(p)', ViewSums(p)',
         u.hold = tx[p].hold \/ FreshHold(u.hold)
  PROVE  SafeInv'
<1>1. req' = [req EXCEPT ![p] = req[p]]
  BY DEF SafeInv, TypeInv, TypeOK
<1>2. /\ \A q \in Clients \ {p} : Untouched(q)
      /\ Locked(p)' = Locked(p) /\ tx'[p] = u /\ pc'[p] = next
  BY <1>1, OthersUntouched DEF SafeInv
<1>3. ClientSafe(p)'
  BY <1>2, ViewOf DEF ClientSafe
<1>4. ASSUME u.hold # None, NEW q \in Clients \ {p}, pc[q] \in Staging
      PROVE  tx[q].hold # u.hold
  BY <1>4 DEF SafeInv, HoldsApart, FreshHold
<1> QED
  BY <1>2, <1>3, <1>4, QuietStep

(* Before a transfer use case posts an item, both its rows are locked.     *)
LEMMA ItemLocked ==
  ASSUME TypeInv, NEW p \in Clients, OwnRows(p), AllFound(p),
         pc[p] = "work", req[p].op = "transfer"
  PROVE  /\ tx[p].rest \in Seq(ValidInput)
         /\ Tail(tx[p].rest) \in Seq(Items(req[p].batch))
         /\ Head(tx[p].rest) \in ValidInput
         /\ Head(tx[p].rest).from \in Locked(p)
         /\ Head(tx[p].rest).to \in Locked(p)
<1>1. tx[p].rest \in Seq(ValidInput) /\ tx[p].rest # <<>>
  BY DEF TypeInv, ClientTyped, Staging
<1>2. tx[p].rest \in Seq(Items(req[p].batch))
  BY DEF OwnRows
<1>3. Head(tx[p].rest) \in ValidInput
  BY <1>1, HeadTailProperties
<1>4. /\ Head(tx[p].rest) \in Items(req[p].batch)
      /\ Tail(tx[p].rest) \in Seq(Items(req[p].batch))
  BY <1>1, <1>2, HeadTailProperties
<1>5. \A i \in Items(req[p].batch) :
        i.from \in BatchAccounts(req[p].batch) /\ i.to \in BatchAccounts(req[p].batch)
  BY DEF Items, BatchAccounts
<1> QED
  BY <1>1, <1>3, <1>4, <1>5 DEF AllFound

LEMMA PostedRows ==
  ASSUME NEW v \in [AccountIds -> Row], NEW t, t.from \in AccountIds,
         t.to \in AccountIds, t.from # t.to, NEW a \in AccountIds
  PROVE  /\ Posted(v, t)[a] =
              IF a = t.from
              THEN Updated(v[a], v[a].balance - t.amount, v[a].encumbered)
              ELSE IF a = t.to
                   THEN Updated(v[a], v[a].balance + t.amount, v[a].encumbered)
                   ELSE v[a]
         /\ Captured(v, t)[a] =
              IF a = t.from
              THEN Updated(v[a], v[a].balance - t.amount,
                                 v[a].encumbered - t.amount)
              ELSE IF a = t.to
                   THEN Updated(v[a], v[a].balance + t.amount, v[a].encumbered)
                   ELSE v[a]
BY DEF Posted, Captured

LEMMA ProcessTransferSafe ==
  ASSUME SafeInv, TypeInv', NEW p \in Clients, NEW id \in TransferIds,
         ProcessTransfer(p, id)
  PROVE  SafeInv'
<1> DEFINE own == tx[p]
           i == Head(tx[p].rest)
           t == [id |-> id, from |-> i.from, to |-> i.to,
                 amount |-> i.amount, reversed |-> i.reversed, hold |-> None]
           type == IF i.reversed = None THEN "transfer.created"
                                        ELSE "transfer.reversed"
           event == [type |-> type, aggregate |-> id, transfer |-> id]
           u == [own EXCEPT
                   !.view = Posted(own.view, t), !.rest = Tail(own.rest),
                   !.transfers = own.transfers \cup {t},
                   !.entries = own.entries \cup EntriesOf(own.view, t),
                   !.events = own.events \cup {event}]
           next == IF Len(tx[p].rest) = 1 THEN "audit" ELSE "work"
           all == transfers \cup tx[p].transfers
<1>1. /\ pc[p] = "work" /\ pc[p] \in Staging /\ req[p].op = "transfer"
      /\ UNCHANGED <<accounts, row, transfers, holds, req, rowLock, holdLock>>
      /\ AllFound(p) /\ CanTransfer(p, i) /\ FreshTransfer(id)
  BY DEF ProcessTransfer, Staging, db, locks
<1>2. tx' = [tx EXCEPT ![p] = u] /\ pc' = [pc EXCEPT ![p] = next]
  BY DEF ProcessTransfer, Goto
<1>3. OwnRows(p) /\ OwnHold(p) /\ ViewSums(p) /\ Locked(p) \subseteq accounts
  BY <1>1, ViewOf
<1>4. /\ tx[p] \in TxState /\ own.view \in [AccountIds -> Row]
      /\ all \subseteq Transfer /\ IsFiniteSet(all) /\ MaxAmount \in Nat
  BY TxFacts DEF SafeInv, TypeInv, TypeOK
<1>5. /\ Tail(tx[p].rest) \in Seq(Items(req[p].batch))
      /\ i.from \in Locked(p) /\ i.to \in Locked(p) /\ i \in ValidInput
  BY <1>1, <1>3, ItemLocked DEF SafeInv
<1>6. /\ t.from \in Locked(p) /\ t.to \in Locked(p) /\ t.from # t.to
      /\ t.from \in AccountIds /\ t.to \in AccountIds
      /\ t.amount \in Amount /\ t.amount \in Nat /\ t \notin all
  BY <1>1, <1>4, <1>5 DEF ValidInput, Input, Amount, FreshTransfer
<1>7. /\ ValidateDebit(t.from, own.view[t.from], t.amount)
      /\ ValidateCredit(t.to, own.view[t.to], t.amount)
  BY <1>1 DEF CanTransfer
<1>8. next \in {"work", "audit"}
  OBVIOUS
<1> HIDE DEF t, i, next, event
<1>9. /\ u.view = Posted(own.view, t) /\ u.rest = Tail(tx[p].rest)
      /\ u.transfers = own.transfers \cup {t} /\ u.need = own.need
      /\ u.hold = own.hold /\ u.holdRow = own.holdRow
  BY <1>4 DEF TxState
<1> HIDE DEF u
<1>10. /\ tx'[p] = u /\ pc'[p] = next /\ req'[p] = req[p] /\ Locked(p)' = Locked(p)
  BY <1>1, <1>2 DEF SafeInv, TypeInv, TypeOK, Locked
<1>11. OwnRows(p)' /\ OwnHold(p)'
  <2>1. OwnRows(p)'
    BY <1>1, <1>3, <1>5, <1>6, <1>8, <1>9, <1>10 DEF OwnRows
  <2>2. OwnHold(p)'
    BY <1>1, <1>3, <1>9, <1>10 DEF OwnHold
  <2> QED
    BY <2>1, <2>2
<1>12. ASSUME NEW a \in Locked(p)
       PROVE  /\ u.view[a].balance = Net(all \cup {t}, a)
              /\ u.view[a].encumbered = own.view[a].encumbered
              /\ RowChecks(a, u.view[a])
  <2>1. /\ a \in AccountIds /\ own.view[a] \in Row
        /\ own.view[a].balance = Net(all, a) /\ RowChecks(a, own.view[a])
        /\ own.view[a].balance \in Int
    BY <1>3, <1>4 DEF ViewSums, Locked, Row
  <2>2. Net(all \cup {t}, a) =
          Net(all, a) + (IF t.to = a THEN t.amount ELSE 0)
                      - (IF t.from = a THEN t.amount ELSE 0)
    BY <1>4, <1>6, NetOfOneMore
  <2>3. CASE a = t.from
    <3>1. u.view[a] = Updated(own.view[a], own.view[a].balance - t.amount,
                              own.view[a].encumbered)
      BY <1>4, <1>6, <1>9, <2>3, PostedRows
    <3>2. RowChecks(a, u.view[a])
      BY <1>6, <1>7, <2>1, <2>3, <3>1, Debit
    <3> QED
      BY <1>6, <2>1, <2>2, <2>3, <3>1, <3>2 DEF Updated
  <2>4. CASE a = t.to
    <3>1. u.view[a] = Updated(own.view[a], own.view[a].balance + t.amount,
                              own.view[a].encumbered)
      BY <1>4, <1>6, <1>9, <2>4, PostedRows
    <3>2. RowChecks(a, u.view[a])
      BY <1>6, <1>7, <2>1, <2>4, <3>1, Credit
    <3> QED
      BY <1>6, <2>1, <2>2, <2>4, <3>1, <3>2 DEF Updated
  <2>5. CASE a # t.from /\ a # t.to
    <3>1. u.view[a] = own.view[a]
      BY <1>4, <1>6, <1>9, <2>1, <2>5, PostedRows
    <3> QED
      BY <2>1, <2>2, <2>5, <3>1
  <2> QED
    BY <2>3, <2>4, <2>5
<1>13. ViewSums(p)'
  <2>1. transfers' \cup u.transfers = all \cup {t}
    BY <1>1, <1>9
  <2> QED
    BY <1>1, <1>3, <1>9, <1>10, <1>12, <2>1 DEF ViewSums
<1>14. next \in Staging
  BY <1>8 DEF Staging
<1> QED
  BY <1>1, <1>2, <1>9, <1>11, <1>13, <1>14, WorkSafe

LEMMA EncumberedRows ==
  ASSUME NEW v \in [AccountIds -> Row], NEW b \in AccountIds, NEW e,
         NEW a \in AccountIds
  PROVE  Encumber(v, b, e)[a] =
           IF a = b THEN Updated(v[a], v[a].balance, e) ELSE v[a]
BY DEF Encumber

LEMMA EncumberedRow ==
  ASSUME NEW v \in [AccountIds -> Row], NEW b \in AccountIds, NEW e
  PROVE  /\ Encumber(v, b, e)[b] = Updated(v[b], v[b].balance, e)
         /\ \A a \in AccountIds : a # b => Encumber(v, b, e)[a] = v[a]
BY EncumberedRows

LEMMA PlaceHoldSafe ==
  ASSUME SafeInv, TypeInv', NEW p \in Clients, NEW h \in HoldIds,
         PlaceHold(p, h)
  PROVE  SafeInv'
<1> DEFINE own == tx[p]
           b == req[p].account
           m == req[p].amount
           r == [account |-> b, amount |-> m, status |-> "active"]
           event == [type |-> "hold.created", aggregate |-> h, transfer |-> None]
           u == [own EXCEPT
                   !.view = Encumber(own.view, b, own.view[b].encumbered + m),
                   !.hold = h, !.holdRow = r, !.events = {event}]
<1>1. /\ pc[p] = "work" /\ pc[p] \in Staging /\ req[p].op = "hold"
      /\ UNCHANGED <<accounts, row, transfers, holds, req, rowLock, holdLock>>
      /\ CanHold(p) /\ FreshHold(h) /\ b \in AccountIds /\ m \in Amount /\ m \in Nat
  <2>1. pc[p] = "work" /\ req[p].op = "hold" /\ CanHold(p) /\ FreshHold(h)
        /\ UNCHANGED <<accounts, row, transfers, holds, req, rowLock, holdLock>>
    BY DEF PlaceHold, db, locks
  <2>2. req[p] \in Request /\ ClientTyped(p) /\ MaxAmount \in Nat
    BY TxFacts DEF SafeInv, TypeInv, TypeOK
  <2>3. b \in AccountIds /\ m \in 0..MaxAmount /\ m > 0
    BY <2>1, <2>2, RequestFields DEF ClientTyped, InTx
  <2> QED
    BY <2>1, <2>2, <2>3 DEF Staging, Amount
<1>2. tx' = [tx EXCEPT ![p] = u] /\ pc' = [pc EXCEPT ![p] = "audit"]
  BY DEF PlaceHold, Goto
<1>3. OwnRows(p) /\ OwnHold(p) /\ ViewSums(p) /\ Locked(p) \subseteq accounts
  BY <1>1, ViewOf
<1>4. /\ tx[p] \in TxState /\ own.view \in [AccountIds -> Row]
      /\ holds \in [HoldIds -> Hold]
  BY TxFacts DEF SafeInv
<1>5. /\ b \in Locked(p) /\ ValidateDebit(b, own.view[b], m)
      /\ holds[h].status = "none"
  BY <1>1 DEF CanHold, FreshHold
<1> HIDE DEF event
<1>6. /\ u.view = Encumber(own.view, b, own.view[b].encumbered + m)
      /\ u.transfers = own.transfers /\ u.need = own.need
      /\ u.hold = h /\ u.holdRow = r
  BY <1>4 DEF TxState
<1>7. r.account = b /\ r.amount = m /\ r.status = "active"
  OBVIOUS
<1> HIDE DEF u, r
<1>8. /\ tx'[p] = u /\ pc'[p] = "audit" /\ req'[p] = req[p] /\ Locked(p)' = Locked(p)
  BY <1>1, <1>2 DEF SafeInv, TypeInv, TypeOK, Locked
<1>9. OwnRows(p)'
  BY <1>1, <1>3, <1>6, <1>8 DEF OwnRows
<1>10. OwnHold(p)'
  BY <1>1, <1>5, <1>6, <1>7, <1>8 DEF OwnHold
<1>11. WithHold(holds, own.hold, own.holdRow) = holds /\ own.transfers = {}
  BY <1>1, <1>3, <1>4, WithNoHold DEF OwnHold, OwnRows
<1>12. ASSUME NEW a \in Locked(p)
       PROVE  /\ u.view[a].balance = Net(transfers, a)
              /\ u.view[a].encumbered = Held(WithHold(holds, h, r), a)
              /\ RowChecks(a, u.view[a])
  <2>1. /\ a \in AccountIds /\ own.view[a] \in Row /\ RowChecks(a, own.view[a])
        /\ own.view[a].balance = Net(transfers, a)
        /\ own.view[a].encumbered = Held(holds, a)
        /\ own.view[a].encumbered \in Int
    BY <1>3, <1>4, <1>11 DEF ViewSums, Locked, Row
  <2>2. Held(WithHold(holds, h, r), a) =
          Held(holds, a) + (IF b = a THEN m ELSE 0)
    BY <1>1, <1>5, <1>7, TypesAssumption, HeldWithActive
  <2>3. CASE a = b
    <3>1. u.view[a] = Updated(own.view[a], own.view[a].balance,
                              own.view[a].encumbered + m)
      <4>1. own.view \in [AccountIds -> Row] /\ b \in AccountIds
        BY <1>4, <2>1, <2>3, Zenon
      <4>2. u.view[b] = Updated(own.view[b], own.view[b].balance,
                                own.view[b].encumbered + m)
        BY <1>6, <4>1, EncumberedRow
      <4> QED
        BY <2>3, <4>2, Zenon
    <3>2. RowChecks(a, u.view[a])
      BY <1>1, <1>5, <2>1, <2>3, <3>1, Debit
    <3>3. /\ u.view[a].balance = own.view[a].balance
          /\ u.view[a].encumbered = own.view[a].encumbered + m
      BY <3>1 DEF Updated
    <3>4. Held(WithHold(holds, h, r), a) = own.view[a].encumbered + m
      BY <2>1, <2>2, <2>3
    <3> QED
      BY <2>1, <3>2, <3>3, <3>4
  <2>4. CASE a # b
    <3>1. u.view[a] = own.view[a]
      <4>1. own.view \in [AccountIds -> Row] /\ b \in AccountIds
        BY <1>1, <1>4, Zenon
      <4> QED
        BY <1>6, <2>1, <2>4, <4>1, EncumberedRow
    <3> QED
      BY <2>1, <2>2, <2>4, <3>1
  <2> QED
    BY <2>3, <2>4
<1>13. ViewSums(p)'
  <2>1. transfers' \cup u.transfers = transfers
    BY <1>1, <1>6, <1>11
  <2> QED
    BY <1>1, <1>6, <1>8, <1>12, <2>1, Zenon DEF ViewSums
<1>14. "audit" \in Staging
  BY DEF Staging
<1> QED
  BY <1>1, <1>2, <1>6, <1>9, <1>10, <1>13, <1>14, WorkSafe

(* The hold a void or a capture releases is still what its account keeps   *)
(* aside in the view.                                                      *)
LEMMA HeldInView ==
  ASSUME SafeInv, NEW p \in Clients, pc[p] = "work",
         req[p].op \in {"void", "capture"}
  PROVE  /\ req[p].hold \in HoldIds /\ tx[p].hold = req[p].hold
         /\ tx[p].holdRow = holds[req[p].hold]
         /\ holds[req[p].hold].status = "active"
         /\ holds[req[p].hold].account \in Locked(p)
         /\ holds[req[p].hold].amount \in Amount
         /\ holds[req[p].hold].amount \in Nat
         /\ tx[p].transfers = {}
         /\ \A a \in Locked(p) :
              /\ a \in AccountIds /\ tx[p].view[a] \in Row
              /\ RowChecks(a, tx[p].view[a])
              /\ tx[p].view[a].balance = Net(transfers, a)
              /\ tx[p].view[a].encumbered = Held(holds, a)
              /\ Held(holds, a) \in Nat
         /\ Held(holds, holds[req[p].hold].account) >= holds[req[p].hold].amount
<1> DEFINE h == req[p].hold
<1>1. OwnRows(p) /\ OwnHold(p) /\ ViewSums(p)
  BY ViewOf DEF Staging
<1>2. /\ h \in HoldIds /\ holds \in [HoldIds -> Hold] /\ MaxAmount \in Nat
      /\ tx[p].view \in [AccountIds -> Row]
  BY RequestFields, TxFacts DEF SafeInv, TypeInv, TypeOK
<1>3. /\ tx[p].hold = h /\ tx[p].holdRow = holds[h] /\ holds[h].status = "active"
      /\ tx[p].transfers = {} /\ tx[p].need = {}
  BY <1>1 DEF OwnHold, OwnRows
<1>4. h # None
  BY <1>2, TypesAssumption
<1>5. holds[h].account \in Locked(p)
  BY <1>1, <1>3, <1>4 DEF OwnHold
<1>6. holds[h].amount \in Amount /\ holds[h].amount \in Nat
  BY <1>2, <1>3 DEF SafeInv, TypeInv, HoldRow, Amount
<1>7. WithHold(holds, tx[p].hold, tx[p].holdRow) = holds
  BY <1>2, <1>3, WithSameHold
<1>8. \A a : Held(holds, a) \in Nat
  BY HeldFinite, TypesAssumption
<1>9. Held(holds, holds[h].account) >= holds[h].amount
  BY <1>2, <1>3, <1>6, TypesAssumption, HeldAtLeast
<1>10. \A a \in Locked(p) :
              /\ a \in AccountIds /\ tx[p].view[a] \in Row
              /\ RowChecks(a, tx[p].view[a])
              /\ tx[p].view[a].balance = Net(transfers, a)
              /\ tx[p].view[a].encumbered = Held(holds, a)
  BY <1>1, <1>2, <1>3, <1>7 DEF ViewSums, Locked
<1> QED
  BY <1>2, <1>3, <1>5, <1>6, <1>8, <1>9, <1>10

LEMMA ReleaseHoldSafe ==
  ASSUME SafeInv, TypeInv', NEW p \in Clients, ReleaseHold(p)
  PROVE  SafeInv'
<1> DEFINE own == tx[p]
           h == own.holdRow
           left == NonNegative(own.view[h.account].encumbered - h.amount)
           event == [type |-> "hold.voided", aggregate |-> req[p].hold,
                     transfer |-> None]
           r == [h EXCEPT !.status = "voided"]
           u == [own EXCEPT !.view = Encumber(own.view, h.account, left),
                            !.holdRow = r, !.events = {event}]
<1>1. /\ pc[p] = "work" /\ pc[p] \in Staging /\ req[p].op = "void"
      /\ req[p].op \in {"void", "capture"}
      /\ UNCHANGED <<accounts, row, transfers, holds, req, rowLock, holdLock>>
  BY DEF ReleaseHold, Staging, db, locks
<1>2. tx' = [tx EXCEPT ![p] = u] /\ pc' = [pc EXCEPT ![p] = "commit"]
  BY DEF ReleaseHold, Goto
<1>3. OwnRows(p) /\ OwnHold(p)
  BY <1>1, ViewOf
<1>4. /\ tx[p] \in TxState /\ own.view \in [AccountIds -> Row]
      /\ holds \in [HoldIds -> Hold] /\ h \in Hold
  BY TxFacts DEF SafeInv, TxState
<1>5. /\ req[p].hold \in HoldIds /\ own.hold = req[p].hold
      /\ h = holds[req[p].hold]
      /\ h.account \in Locked(p) /\ h.account \in AccountIds
      /\ own.view[h.account].encumbered = Held(holds, h.account)
      /\ h.amount \in Amount /\ h.amount \in Nat
      /\ Held(holds, h.account) >= h.amount /\ Held(holds, h.account) \in Nat
      /\ own.transfers = {}
  BY <1>1, HeldInView
<1>6. left = own.view[h.account].encumbered - h.amount
  BY <1>5 DEF NonNegative
<1>7. r.account = h.account /\ r.status = "voided"
  BY <1>4 DEF Hold
<1> HIDE DEF event, left, r
<1>8. /\ u.view = Encumber(own.view, h.account, left)
      /\ u.transfers = own.transfers /\ u.need = own.need
      /\ u.hold = own.hold /\ u.holdRow = r
  BY <1>4 DEF TxState
<1> HIDE DEF u
<1>9. /\ tx'[p] = u /\ pc'[p] = "commit" /\ req'[p] = req[p] /\ Locked(p)' = Locked(p)
  BY <1>1, <1>2 DEF SafeInv, TypeInv, TypeOK, Locked
<1>10. OwnRows(p)' /\ OwnHold(p)'
  <2>1. OwnRows(p)'
    BY <1>1, <1>3, <1>8, <1>9 DEF OwnRows
  <2>2. OwnHold(p)'
    BY <1>1, <1>3, <1>7, <1>8, <1>9 DEF OwnHold
  <2> QED
    BY <2>1, <2>2
<1>11. ASSUME NEW a \in Locked(p)
       PROVE  /\ u.view[a].balance = Net(transfers, a)
              /\ u.view[a].encumbered = Held(WithHold(holds, u.hold, r), a)
              /\ RowChecks(a, u.view[a])
  <2>1. /\ a \in AccountIds /\ own.view[a] \in Row /\ RowChecks(a, own.view[a])
        /\ own.view[a].balance = Net(transfers, a)
        /\ own.view[a].encumbered = Held(holds, a) /\ Held(holds, a) \in Nat
    BY <1>1, HeldInView
  <2>2. Held(WithHold(holds, u.hold, r), a) =
          Held(holds, a) - (IF h.account = a THEN h.amount ELSE 0)
    <3>1. holds[req[p].hold].status = "active" /\ r.status # "active"
      BY <1>1, <1>7, HeldInView
    <3> QED
      BY <1>4, <1>5, <1>8, <3>1, TypesAssumption, HeldWithInactive
  <2>3. CASE a = h.account
    <3>1. u.view[a] = Updated(own.view[a], own.view[a].balance,
                              own.view[a].encumbered - h.amount)
      <4>1. left = own.view[a].encumbered - h.amount
        BY <1>6, <2>3, Zenon
      <4>2. own.view \in [AccountIds -> Row] /\ h.account \in AccountIds
        BY <1>4, <1>5
      <4>3. u.view[h.account] =
              Updated(own.view[h.account], own.view[h.account].balance, left)
        BY <1>8, <4>2, EncumberedRow
      <4> QED
        BY <2>3, <4>1, <4>3, Zenon
    <3>2. RowChecks(a, u.view[a])
      BY <1>5, <2>1, <2>3, <3>1, Release, Zenon
    <3>3. /\ u.view[a].balance = own.view[a].balance
          /\ u.view[a].encumbered = own.view[a].encumbered - h.amount
      BY <3>1 DEF Updated
    <3>4. Held(WithHold(holds, u.hold, r), a) = own.view[a].encumbered - h.amount
      BY <2>1, <2>2, <2>3
    <3> QED
      BY <2>1, <3>2, <3>3, <3>4
  <2>4. CASE a # h.account
    <3>1. u.view[a] = own.view[a]
      <4>1. own.view \in [AccountIds -> Row] /\ h.account \in AccountIds
        BY <1>4, <1>5, Zenon
      <4> QED
        BY <1>8, <2>1, <2>4, <4>1, EncumberedRow
    <3> QED
      BY <2>1, <2>2, <2>4, <3>1
  <2> QED
    BY <2>3, <2>4
<1>12. ViewSums(p)'
  <2>1. transfers' \cup u.transfers = transfers
    BY <1>1, <1>5, <1>8
  <2> QED
    BY <1>1, <1>8, <1>9, <1>11, <2>1 DEF ViewSums
<1>13. "commit" \in Staging
  BY DEF Staging
<1> QED
  BY <1>1, <1>2, <1>8, <1>10, <1>12, <1>13, WorkSafe

LEMMA SettleHoldSafe ==
  ASSUME SafeInv, TypeInv', NEW p \in Clients, NEW id \in TransferIds,
         SettleHold(p, id)
  PROVE  SafeInv'
<1> DEFINE own == tx[p]
           h == own.holdRow
           t == [id |-> id, from |-> h.account, to |-> req[p].to,
                 amount |-> h.amount, reversed |-> None, hold |-> req[p].hold]
           event == [type |-> "hold.captured", aggregate |-> req[p].hold,
                     transfer |-> id]
           r == [h EXCEPT !.status = "captured"]
           u == [own EXCEPT !.view = Captured(own.view, t), !.transfers = {t},
                            !.entries = EntriesOf(own.view, t),
                            !.holdRow = r, !.events = {event}]
<1>1. /\ pc[p] = "work" /\ pc[p] \in Staging /\ req[p].op = "capture"
      /\ req[p].op \in {"void", "capture"} /\ CanCapture(p) /\ FreshTransfer(id)
      /\ UNCHANGED <<accounts, row, transfers, holds, req, rowLock, holdLock>>
  BY DEF SettleHold, Staging, db, locks
<1>2. tx' = [tx EXCEPT ![p] = u] /\ pc' = [pc EXCEPT ![p] = "commit"]
  BY DEF SettleHold, Goto
<1>3. OwnRows(p) /\ OwnHold(p)
  BY <1>1, ViewOf
<1>4. /\ tx[p] \in TxState /\ own.view \in [AccountIds -> Row]
      /\ holds \in [HoldIds -> Hold] /\ h \in Hold
      /\ IsFiniteSet(transfers) /\ MaxAmount \in Nat
  BY TxFacts DEF SafeInv, TxState
<1>5. /\ req[p].hold \in HoldIds /\ own.hold = req[p].hold
      /\ h = holds[req[p].hold] /\ holds[req[p].hold].status = "active"
      /\ h.account \in Locked(p) /\ h.account \in AccountIds
      /\ h.amount \in Amount /\ h.amount \in Nat
      /\ Held(holds, h.account) >= h.amount
  BY <1>1, HeldInView
<1>6. /\ t.from = h.account /\ t.to = req[p].to /\ t.from # t.to
      /\ t.amount = h.amount /\ t.amount \in Amount
      /\ t.from \in Locked(p) /\ t.to \in Locked(p)
      /\ t.from \in AccountIds /\ t.to \in AccountIds /\ t \notin transfers
      /\ ValidateCredit(t.to, own.view[t.to], h.amount)
  BY <1>1, <1>5 DEF CanCapture, FreshTransfer, Locked
<1>7. r.account = h.account /\ r.status = "captured"
  BY <1>4 DEF Hold
<1> HIDE DEF event, t, r
<1>8. /\ u.view = Captured(own.view, t) /\ u.transfers = {t}
      /\ u.need = own.need /\ u.hold = own.hold /\ u.holdRow = r
  BY <1>4 DEF TxState
<1> HIDE DEF u
<1>9. /\ tx'[p] = u /\ pc'[p] = "commit" /\ req'[p] = req[p] /\ Locked(p)' = Locked(p)
  BY <1>1, <1>2 DEF SafeInv, TypeInv, TypeOK, Locked
<1>10. OwnRows(p)' /\ OwnHold(p)'
  <2>1. OwnRows(p)'
    BY <1>1, <1>3, <1>6, <1>8, <1>9 DEF OwnRows
  <2>2. OwnHold(p)'
    BY <1>1, <1>3, <1>7, <1>8, <1>9 DEF OwnHold
  <2> QED
    BY <2>1, <2>2
<1>11. ASSUME NEW a \in Locked(p)
       PROVE  /\ u.view[a].balance = Net(transfers \cup {t}, a)
              /\ u.view[a].encumbered = Held(WithHold(holds, u.hold, r), a)
              /\ RowChecks(a, u.view[a])
  <2>1. /\ a \in AccountIds /\ own.view[a] \in Row /\ RowChecks(a, own.view[a])
        /\ own.view[a].balance = Net(transfers, a)
        /\ own.view[a].encumbered = Held(holds, a) /\ Held(holds, a) \in Nat
    BY <1>1, HeldInView
  <2>2. Held(WithHold(holds, u.hold, r), a) =
          Held(holds, a) - (IF h.account = a THEN h.amount ELSE 0)
    <3>1. r.status # "active"
      BY <1>7
    <3> QED
      BY <1>4, <1>5, <1>8, <3>1, TypesAssumption, HeldWithInactive
  <2>3. /\ Net(transfers \cup {t}, a) =
             Net(transfers, a) + (IF t.to = a THEN t.amount ELSE 0)
                               - (IF t.from = a THEN t.amount ELSE 0)
        /\ Net(transfers, a) \in Int
    BY <1>4, <1>6, NetOfOneMore, NetType
  <2>4. CASE a = t.from
    <3>1. u.view[a] = Updated(own.view[a], own.view[a].balance - h.amount,
                              own.view[a].encumbered - h.amount)
      <4>1. own.view \in [AccountIds -> Row]
        BY <1>4
      <4>2. Captured(own.view, t)[a] =
              Updated(own.view[a], own.view[a].balance - t.amount,
                                   own.view[a].encumbered - t.amount)
        BY <1>6, <2>4, <4>1, PostedRows, Zenon
      <4> QED
        BY <1>6, <1>8, <4>2, Zenon
    <3>2. RowChecks(a, u.view[a])
      BY <1>5, <1>6, <2>1, <2>4, <3>1, Release, Zenon
    <3>3. t.to # a /\ h.account = a
      BY <1>6, <2>4
    <3>4. /\ u.view[a].balance = own.view[a].balance - h.amount
          /\ u.view[a].encumbered = own.view[a].encumbered - h.amount
      BY <3>1 DEF Updated
    <3>5. /\ Net(transfers \cup {t}, a) = Net(transfers, a) - h.amount
          /\ Held(WithHold(holds, u.hold, r), a) = Held(holds, a) - h.amount
      <4>1. t.amount = h.amount /\ h.amount \in Nat /\ t.from = a
        BY <1>5, <1>6, <2>4
      <4>2. Net(transfers \cup {t}, a) = Net(transfers, a) + 0 - t.amount
        BY <2>3, <3>3, <4>1
      <4>3. Held(WithHold(holds, u.hold, r), a) = Held(holds, a) - h.amount
        BY <2>2, <3>3
      <4> QED
        BY <2>3, <4>1, <4>2, <4>3
    <3> QED
      BY <2>1, <3>2, <3>4, <3>5
  <2>5. CASE a = t.to
    <3>1. u.view[a] = Updated(own.view[a], own.view[a].balance + h.amount,
                              own.view[a].encumbered)
      <4>1. own.view \in [AccountIds -> Row]
        BY <1>4
      <4>2. Captured(own.view, t)[a] =
              Updated(own.view[a], own.view[a].balance + t.amount,
                                   own.view[a].encumbered)
        BY <1>6, <2>5, <4>1, PostedRows, Zenon
      <4> QED
        BY <1>6, <1>8, <4>2, Zenon
    <3>2. RowChecks(a, u.view[a])
      BY <1>5, <1>6, <2>1, <2>5, <3>1, Credit
    <3>3. t.from # a /\ h.account # a
      BY <1>6, <2>5
    <3>4. /\ u.view[a].balance = own.view[a].balance + h.amount
          /\ u.view[a].encumbered = own.view[a].encumbered
      BY <3>1 DEF Updated
    <3>5. /\ Net(transfers \cup {t}, a) = Net(transfers, a) + h.amount
          /\ Held(WithHold(holds, u.hold, r), a) = Held(holds, a)
      BY <1>5, <1>6, <2>1, <2>2, <2>3, <2>5, <3>3
    <3> QED
      BY <2>1, <3>2, <3>4, <3>5
  <2>6. CASE a # t.from /\ a # t.to
    <3>1. u.view[a] = own.view[a]
      BY <1>4, <1>6, <1>8, <2>1, <2>6, PostedRows
    <3> QED
      BY <1>6, <2>1, <2>2, <2>3, <2>6, <3>1
  <2> QED
    BY <2>4, <2>5, <2>6
<1>12. ViewSums(p)'
  BY <1>1, <1>8, <1>9, <1>11 DEF ViewSums
<1>13. "commit" \in Staging
  BY DEF Staging
<1> QED
  BY <1>1, <1>2, <1>8, <1>10, <1>12, <1>13, WorkSafe

LEMMA AuditInTxSafe ==
  ASSUME SafeInv, TypeInv', NEW p \in Clients, AuditInTx(p)
  PROVE  SafeInv'
<1> DEFINE rows == IF req[p].op = "hold"
                   THEN {[action |-> "hold.create", resource |-> tx[p].hold]}
                   ELSE {[action |-> IF t.reversed # None
                                     THEN "transfer.reverse"
                                     ELSE "transfer.create",
                          resource |-> t.id] : t \in tx[p].transfers}
           u == [tx[p] EXCEPT !.audit = rows]
<1>1. /\ UNCHANGED <<accounts, row, transfers, holds, req, rowLock, holdLock>>
      /\ pc[p] = "audit" /\ pc[p] \in Staging /\ "commit" \in Staging
      /\ tx' = [tx EXCEPT ![p] = u] /\ pc' = [pc EXCEPT ![p] = "commit"]
  BY DEF AuditInTx, Goto, db, Staging
<1>2. tx[p] \in TxState
  BY TxFacts DEF SafeInv
<1> HIDE DEF rows
<1>3. /\ u.view = tx[p].view /\ u.transfers = tx[p].transfers
      /\ u.need = tx[p].need /\ u.hold = tx[p].hold
      /\ u.holdRow = tx[p].holdRow /\ u.rest = tx[p].rest
  BY <1>2 DEF TxState
<1> HIDE DEF u
<1>4. /\ tx'[p] = u /\ pc'[p] = "commit" /\ req'[p] = req[p] /\ Locked(p)' = Locked(p)
  BY <1>1 DEF SafeInv, TypeInv, TypeOK, Locked
<1>5. OwnRows(p) /\ OwnHold(p) /\ ViewSums(p)
  BY <1>1, ViewOf
<1>6. OwnRows(p)'
  BY <1>1, <1>3, <1>4, <1>5 DEF OwnRows
<1>7. OwnHold(p)'
  BY <1>1, <1>3, <1>4, <1>5 DEF OwnHold
<1>8. ViewSums(p)'
  <2>1. ASSUME NEW a \in Locked(p)
        PROVE  /\ u.view[a].balance = Net(transfers' \cup u.transfers, a)
               /\ u.view[a].encumbered = Held(WithHold(holds', u.hold, u.holdRow), a)
               /\ RowChecks(a, u.view[a])
    BY <1>1, <1>3, <1>5, <2>1 DEF ViewSums
  <2> QED
    BY <1>4, <2>1 DEF ViewSums
<1> QED
  BY <1>1, <1>3, <1>6, <1>7, <1>8, WorkSafe

-----------------------------------------------------------------------------
(* The commit.  What it writes concerns accounts and a hold that the       *)
(* transaction has locked.                                                 *)

LEMMA Concerned ==
  ASSUME SafeInv, NEW p \in Clients, pc[p] = "commit"
  PROVE  /\ \A t \in tx[p].transfers : t.from \in Locked(p) /\ t.to \in Locked(p)
         /\ tx[p].hold # None =>
              /\ tx[p].hold \in HoldIds
              /\ tx[p].holdRow.account \in Locked(p)
              /\ holds[tx[p].hold].status = "active" =>
                   holds[tx[p].hold].account = tx[p].holdRow.account
         /\ ViewSums(p) /\ Locked(p) \subseteq accounts
<1>1. OwnRows(p) /\ OwnHold(p) /\ ViewSums(p) /\ Locked(p) \subseteq accounts
  BY ViewOf DEF Staging
<1>2. /\ req[p] \in Request
      /\ req[p].op \in {"transfer", "hold", "void", "capture"}
  BY DEF SafeInv, TypeInv, TypeOK, ClientTyped, InTx
<1>3. tx[p].need = {}
  BY <1>1 DEF OwnRows
<1>4. ASSUME tx[p].hold # None
      PROVE  /\ tx[p].hold \in HoldIds
             /\ tx[p].holdRow.account \in Locked(p)
             /\ holds[tx[p].hold].status = "active" =>
                  holds[tx[p].hold].account = tx[p].holdRow.account
  BY <1>1, <1>2, <1>3, <1>4, RequestFields DEF OwnHold
<1> QED
  BY <1>1, <1>4 DEF OwnRows

(* So the sums of the other accounts stay, whatever else is staged.        *)
LEMMA OtherSums ==
  ASSUME SafeInv, NEW p \in Clients, pc[p] = "commit",
         NEW a, a \notin Locked(p), NEW ts, NEW hs,
         tx[p].hold # None => hs[tx[p].hold] = holds[tx[p].hold],
         hs \in [HoldIds -> Hold]
  PROVE  /\ Net(ts \cup tx[p].transfers, a) = Net(ts, a)
         /\ Held(WithHold(hs, tx[p].hold, tx[p].holdRow), a) = Held(hs, a)
<1>1. Net(ts \cup tx[p].transfers, a) = Net(ts, a)
  <2>1. \A t \in tx[p].transfers : t.from # a /\ t.to # a
    BY Concerned
  <2> QED
    BY <2>1, NetOfOthers
<1>2. CASE tx[p].hold = None
  BY <1>1, <1>2, WithNoHold
<1>3. CASE tx[p].hold # None
  <2>1. /\ tx[p].holdRow.status = "active" => tx[p].holdRow.account # a
        /\ hs[tx[p].hold].status = "active" => hs[tx[p].hold].account # a
    BY <1>3, Concerned
  <2> QED
    BY <1>1, <2>1, HeldOfOthers
<1> QED
  BY <1>2, <1>3

LEMMA ApplySums ==
  ASSUME SafeInv, NEW p \in Clients, pc[p] = "commit", Apply(p)
  PROVE  CommittedSums' /\ HoldersExist'
<1>1. /\ row' = [a \in AccountIds |-> IF a \in Locked(p) THEN tx[p].view[a]
                                                         ELSE row[a]]
      /\ transfers' = transfers \cup tx[p].transfers
      /\ holds' = WithHold(holds, tx[p].hold, tx[p].holdRow)
      /\ accounts' = accounts
  BY DEF Apply
<1>2. holds \in [HoldIds -> Hold] /\ ViewSums(p) /\ Locked(p) \subseteq accounts
  BY Concerned, TxFacts DEF SafeInv
<1>3. ASSUME NEW a \in AccountIds
      PROVE  /\ row'[a].balance = Net(transfers', a)
             /\ row'[a].encumbered = Held(holds', a)
             /\ RowChecks(a, row'[a])
             /\ a \notin accounts => row'[a] = NewRow
  <2>1. CASE a \in Locked(p)
    BY <1>1, <1>2, <2>1 DEF ViewSums
  <2>2. CASE a \notin Locked(p)
    <3>1. row'[a] = row[a]
      BY <1>1, <2>2
    <3>2. /\ row[a].balance = Net(transfers, a) /\ row[a].encumbered = Held(holds, a)
          /\ RowChecks(a, row[a]) /\ (a \notin accounts => row[a] = NewRow)
      BY DEF SafeInv, CommittedSums
    <3>3. Net(transfers', a) = Net(transfers, a) /\ Held(holds', a) = Held(holds, a)
      BY <1>1, <1>2, <2>2, OtherSums
    <3> QED
      BY <3>1, <3>2, <3>3
  <2> QED
    BY <2>1, <2>2
<1>4. CommittedSums'
  BY <1>1, <1>3 DEF CommittedSums
<1>5. HoldersExist'
  <2>1. SUFFICES ASSUME NEW h \in HoldIds, holds'[h].status # "none"
                 PROVE  holds'[h].account \in accounts
    BY <1>1 DEF HoldersExist
  <2>2. CASE h = tx[p].hold
    <3>1. h # None
      BY TypesAssumption
    <3>2. tx[p].holdRow.account \in accounts
      BY <1>2, <2>2, <3>1, Concerned
    <3> QED
      BY <1>1, <2>2, <3>2 DEF WithHold
  <2>3. CASE h # tx[p].hold
    BY <1>1, <2>1, <2>3 DEF WithHold, SafeInv, HoldersExist
  <2> QED
    BY <2>2, <2>3
<1> QED
  BY <1>4, <1>5

LEMMA ApplyOthers ==
  ASSUME SafeInv, NEW p \in Clients, pc[p] = "commit", Apply(p),
         NEW q \in Clients \ {p}, Untouched(q)
  PROVE  ClientSafe(q)'
<1>1. /\ transfers' = transfers \cup tx[p].transfers
      /\ holds' = WithHold(holds, tx[p].hold, tx[p].holdRow)
      /\ accounts' = accounts
  BY DEF Apply
<1>2. CASE pc[q] \notin Staging
  BY <1>1, <1>2 DEF SafeInv, ClientSafe, Untouched
<1>3. CASE pc[q] \in Staging
  <2>1. OwnRows(q) /\ OwnHold(q) /\ ViewSums(q) /\ Locked(q) \subseteq accounts
    BY <1>3, ViewOf
  <2>2. tx[q].hold # None => tx[q].hold # tx[p].hold
    BY <1>3 DEF SafeInv, HoldsApart, Staging
  <2>3. /\ holds \in [HoldIds -> Hold] /\ req[q] \in Request
        /\ tx[q] \in TxState /\ tx[q].hold \in HoldIds \cup {None}
        /\ tx[q].holdRow \in Hold
    BY TxFacts DEF SafeInv, TypeInv, TypeOK, TxState
  <2>4. \A h \in HoldIds : h = tx[q].hold => holds'[h] = holds[h]
    BY <1>1, <2>2, TypesAssumption DEF WithHold
  <2>5. OwnRows(q)'
    BY <1>1, <2>1 DEF OwnRows, Untouched
  <2>6. OwnHold(q)'
    <3>1. req[q].op \in {"void", "capture"} => tx[q].hold \in HoldIds
      BY <2>1, <2>3, RequestFields DEF OwnHold
    <3> QED
      BY <2>1, <2>4, <3>1 DEF OwnHold, Untouched
  <2>7. ViewSums(q)'
    <3> DEFINE hq == WithHold(holds, tx[q].hold, tx[q].holdRow)
               tq == transfers \cup tx[q].transfers
    <3>1. hq \in [HoldIds -> Hold]
      BY <2>3 DEF WithHold
    <3>2. tx[p].hold # None => hq[tx[p].hold] = holds[tx[p].hold]
      BY <2>2, Concerned DEF WithHold
    <3>3. holds' = WithHold(holds, tx[p].hold, tx[p].holdRow)
          /\ transfers' \cup tx[q].transfers = tq \cup tx[p].transfers
      BY <1>1
    <3>4. WithHold(holds', tx[q].hold, tx[q].holdRow) =
            WithHold(hq, tx[p].hold, tx[p].holdRow)
      <4>1. CASE tx[q].hold = None
        <5>1. holds' \in [HoldIds -> Hold]
          <6>1. tx[p].holdRow \in Hold
            BY TxFacts DEF SafeInv, TxState
          <6> QED
            BY <1>1, <2>3, <6>1 DEF WithHold
        <5> QED
          BY <1>1, <2>3, <4>1, <5>1, WithNoHold
      <4>2. CASE tx[q].hold # None
        BY <1>1, <2>2, <4>2, HoldsCommute
      <4> QED
        BY <4>1, <4>2
    <3>5. \A a \in Locked(q) : a \notin Locked(p)
      BY DEF Locked
    <3> HIDE DEF hq, tq
    <3>6. \A a \in Locked(q) :
            /\ Net(transfers' \cup tx[q].transfers, a) = Net(tq, a)
            /\ Held(WithHold(holds', tx[q].hold, tx[q].holdRow), a) = Held(hq, a)
      BY <3>1, <3>2, <3>3, <3>4, <3>5, OtherSums
    <3>7. \A a \in Locked(q) :
            /\ tx[q].view[a].balance = Net(tq, a)
            /\ tx[q].view[a].encumbered = Held(hq, a)
            /\ RowChecks(a, tx[q].view[a])
      BY <2>1 DEF ViewSums, hq, tq
    <3> QED
      BY <3>6, <3>7 DEF ViewSums, Untouched
  <2> QED
    BY <1>1, <1>3, <2>1, <2>5, <2>6, <2>7 DEF ClientSafe, Untouched
<1> QED
  BY <1>2, <1>3

LEMMA CommitSafe ==
  ASSUME SafeInv, TypeInv', NEW p \in Clients, Commit(p) \/ CommitUnanswered(p)
  PROVE  SafeInv'
<1>1. pc[p] = "commit" /\ Apply(p) /\ ReleaseLocks(p)
  BY DEF Commit, CommitUnanswered, Apply
<1>2. PICK next \in {"idle", "record", "failed"}, t \in {NoTx, tx[p]},
           r \in {NoRequest, req[p]} :
        /\ pc' = [pc EXCEPT ![p] = next] /\ tx' = [tx EXCEPT ![p] = t]
        /\ req' = [req EXCEPT ![p] = r]
  <2>1. tx = [tx EXCEPT ![p] = tx[p]] /\ req = [req EXCEPT ![p] = req[p]]
    BY DEF SafeInv, TypeInv, TypeOK
  <2> QED
    BY <2>1 DEF Commit, CommitUnanswered, Done, Forget, Goto
<1>3. /\ \A q \in Clients \ {p} : Untouched(q)
      /\ Locked(p)' = {} /\ pc'[p] = next
  BY <1>1, <1>2, OthersKeepLocks DEF SafeInv
<1>4. next \notin Staging
  BY DEF Staging
<1>5. CommittedSums' /\ HoldersExist'
  BY <1>1, ApplySums
<1>6. \A q \in Clients : ClientSafe(q)'
  <2>1. ClientSafe(p)'
    BY <1>3, <1>4 DEF ClientSafe
  <2>2. \A q \in Clients \ {p} : ClientSafe(q)'
    BY <1>1, <1>3, ApplyOthers
  <2> QED
    BY <2>1, <2>2
<1>7. HoldsApart'
  BY <1>3, <1>4, StillApart DEF SafeInv, Untouched
<1> QED
  BY <1>5, <1>6, <1>7 DEF SafeInv

-----------------------------------------------------------------------------
LEMMA SafeInvInit == Init => SafeInv
<1> SUFFICES ASSUME Init PROVE SafeInv
  OBVIOUS
<1>1. TypeInv
  BY TypeInvInit
<1>2. CommittedSums
  <2>1. \A a \in AccountIds : RowChecks(a, NewRow)
    BY DEF RowChecks, AvailableBalance, NewRow
  <2> QED
    BY <2>1, NetOfNone, HeldOfNone DEF Init, CommittedSums, NewRow
<1>3. HoldersExist
  BY DEF Init, HoldersExist, NoHold
<1>4. HoldsApart
  BY DEF Init, HoldsApart, Staging
<1>5. \A p \in Clients : ClientSafe(p)
  BY LedgerAssumption DEF Init, ClientSafe, Locked, Staging
<1> QED
  BY <1>1, <1>2, <1>3, <1>4, <1>5 DEF SafeInv

LEMMA SafeInvStep == SafeInv /\ [Next]_vars => SafeInv'
<1> SUFFICES ASSUME SafeInv, [Next]_vars PROVE SafeInv'
  OBVIOUS
<1>1. TypeInv'
  BY TypeInvStep DEF SafeInv
<1>2. CASE UNCHANGED vars
  <2>1. UNCHANGED <<accounts, row, transfers, holds, rowLock, holdLock, pc, req, tx>>
    BY <1>2 DEF vars, db, locks
  <2>2. CommittedSums' /\ HoldersExist' /\ HoldsApart'
    BY <2>1 DEF SafeInv, CommittedSums, HoldersExist, HoldsApart
  <2>3. \A q \in Clients : Untouched(q)
    BY <2>1 DEF Untouched, Locked
  <2>4. \A q \in Clients : ClientSafe(q)'
    BY <2>1, <2>3, UntouchedSafe DEF SafeInv
  <2> QED
    BY <1>1, <2>2, <2>4 DEF SafeInv
<1>3. ASSUME NEW p \in Clients, Call(p) PROVE SafeInv'
  BY <1>1, <1>3, CallSafe
<1>4. ASSUME NEW p \in Clients, Acquire(p) PROVE SafeInv'
  BY <1>1, <1>4, LockHoldSafe, LockAccountSafe, AuditInTxSafe, DoneSafe DEF Acquire
<1>5. ASSUME NEW p \in Clients, Step(p) PROVE SafeInv'
  BY <1>1, <1>5, BeginSafe, ProcessTransferSafe, SettleHoldSafe, PlaceHoldSafe,
     ReleaseHoldSafe, CommitSafe, RollBackSafe DEF Step
<1>6. ASSUME NEW p \in Clients, Fault(p) PROVE SafeInv'
  BY <1>1, <1>6, CommitSafe, RollBackSafe, DoneSafe DEF Fault
<1> QED
  BY <1>2, <1>3, <1>4, <1>5, <1>6 DEF Next

(* In every state the program reaches, what each transaction has read      *)
(* under its locks and staged is consistent with what is committed.        *)
THEOREM Safe == Spec => []SafeInv
BY SafeInvInit, SafeInvStep, PTL DEF Spec

(* However holds, voids, captures and batches interleave, fail and retry,  *)
(* the encumbered_balance column of an account is the sum of its active    *)
(* holds in every committed state.                                         *)
THEOREM EncumberedCorrect == Spec => []EncumberedIsHeld
<1>1. SafeInv => EncumberedIsHeld
  BY DEF SafeInv, CommittedSums, EncumberedIsHeld
<1> QED
  BY <1>1, Safe, PTL

(* And its balance column is what the committed transfers add up to: no    *)
(* update is lost, none is applied twice.                                  *)
THEOREM BalanceCorrect == Spec => []BalanceIsNet
<1>1. SafeInv => BalanceIsNet
  BY DEF SafeInv, CommittedSums, BalanceIsNet
<1> QED
  BY <1>1, Safe, PTL

(* No account is ever outside its limits, committed or in the view of the  *)
(* transaction that holds its row: the validation in the use cases is      *)
(* enough, and the CHECK constraints never refuse what it let pass.        *)
THEOREM LimitsCorrect == Spec => []LimitsRespected
<1>1. SafeInv => LimitsRespected
  <2>1. SUFFICES ASSUME SafeInv, NEW a \in AccountIds
                 PROVE  /\ RowChecks(a, row[a])
                        /\ \A p \in Clients : pc[p] \in InTx /\ a \in Locked(p)
                             => RowChecks(a, tx[p].view[a])
    BY DEF LimitsRespected
  <2>2. RowChecks(a, row[a])
    BY <2>1 DEF SafeInv, CommittedSums
  <2>3. \A p \in Clients : a \in Locked(p) => RowChecks(a, tx[p].view[a])
    BY <2>1 DEF SafeInv, ClientSafe, ViewSums
  <2> QED
    BY <2>2, <2>3
<1> QED
  BY <1>1, Safe, PTL
=============================================================================
