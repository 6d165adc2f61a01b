-------------------------- MODULE MCLedgerHistory --------------------------
(***************************************************************************)
(* A small instance of the ledger's history: two accounts without limits,  *)
(* payments from one to the other and reversals of them.                   *)
(***************************************************************************)
EXTENDS LedgerHistory

MCCurrency == [a \in AccountIds |-> "USD"]
MCUnlimited == [a \in AccountIds |-> TRUE]
MCBatches ==
  {<<[from |-> 1, to |-> 2, amount |-> 1, reversed |-> None]>>}
MCSymmetry == Permutations(Clients) \cup Permutations(Servers)

(* One payment has been made.                                              *)
Paid == [id |-> 2, from |-> 1, to |-> 2, amount |-> 1, reversed |-> None,
         hold |-> None]

InitPaid ==
  /\ accounts = AccountIds
  /\ transfers = {Paid}
  /\ row = Posted([a \in AccountIds |-> NewRow], Paid)
  /\ entries = EntriesOf([a \in AccountIds |-> NewRow], Paid)
  /\ outbox = {[type |-> "transfer.created", aggregate |-> 2, transfer |-> 2]}
  /\ audit = {[action |-> "account.create", resource |-> a] : a \in AccountIds}
              \cup {[action |-> "transfer.create", resource |-> 2]}
  /\ holds = [h \in HoldIds |-> NoHold]
  /\ rowLock = [a \in AccountIds |-> None]
  /\ holdLock = [h \in HoldIds |-> None]
  /\ chainLock = None
  /\ pc = [p \in Clients |-> "idle"]
  /\ req = [p \in Clients |-> NoRequest]
  /\ tx = [p \in Clients |-> NoTx]
  /\ retries = [p \in Clients |-> 0]
  /\ \E s \in Servers :
       /\ clock = [x \in Servers |-> IF x = s THEN 2 ELSE 1]
       /\ maker = [id \in TransferIds |-> IF id = 2 THEN s ELSE None]
  /\ now = [p \in Clients |-> 0] /\ server = [p \in Clients |-> None]
  /\ createdAt = [id \in TransferIds |-> IF id = 2 THEN 1 ELSE 0]
  /\ cursor = 0 /\ shown = <<>> /\ start = {}

SpecPaid == InitPaid /\ [][NextAll]_historyVars
=============================================================================
