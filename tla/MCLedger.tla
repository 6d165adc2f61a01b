------------------------------ MODULE MCLedger ------------------------------
(***************************************************************************)
(* Small instances of the ledger.  Account 1 is a settlement account that  *)
(* may go negative and never positive, 2 and 3 are wallets that may not go *)
(* negative, 4 is a wallet in another currency.                            *)
(***************************************************************************)
EXTENDS LedgerProperties, TLC

MCCurrency == [a \in AccountIds |-> IF a = 4 THEN "EUR" ELSE "USD"]
MCAllowNegative == [a \in AccountIds |-> a = 1]
MCAllowPositive == [a \in AccountIds |-> a # 1]

In(from, to, amount) ==
  [from |-> from, to |-> to, amount |-> amount, reversed |-> None]

(* A payment in, a payment through two wallets in one batch, a payment     *)
(* between them the other way round.                                       *)
MCBatches ==
  {b \in {<<In(1, 2, 2)>>, <<In(1, 2, 1), In(2, 3, 1)>>, <<In(3, 2, 1)>>,
          <<In(1, 4, 1)>>} : BatchAccounts(b) \subseteq AccountIds}

(* One-unit payments in a ring, for the runs about locks.                  *)
MCRing ==
  {b \in {<<In(1, 2, 1)>>, <<In(2, 3, 1)>>, <<In(3, 1, 1)>>, <<In(2, 1, 1)>>} :
     BatchAccounts(b) \subseteq AccountIds}

MCSymmetry ==
  Permutations(Clients) \cup Permutations(TransferIds)
    \cup Permutations(HoldIds)

(* Runs about what happens between existing accounts start once all have   *)
(* been created.                                                           *)
InitOpened ==
  /\ accounts = AccountIds
  /\ audit = {[action |-> "account.create", resource |-> a] : a \in AccountIds}
  /\ row = [a \in AccountIds |-> NewRow]
  /\ transfers = {} /\ entries = {} /\ outbox = {}
  /\ holds = [h \in HoldIds |-> NoHold]
  /\ rowLock = [a \in AccountIds |-> None]
  /\ holdLock = [h \in HoldIds |-> None]
  /\ chainLock = None
  /\ pc = [p \in Clients |-> "idle"]
  /\ req = [p \in Clients |-> NoRequest]
  /\ tx = [p \in Clients |-> NoTx]
  /\ retries = [p \in Clients |-> 0]

SpecOpened == InitOpened /\ [][Next]_vars
FairSpecOpened == SpecOpened /\ Fairness
=============================================================================
