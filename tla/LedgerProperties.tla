-------------------------- MODULE LedgerProperties --------------------------
(***************************************************************************)
(* What else the ledger keeps true, beyond the invariants that stand in    *)
(* Ledger itself, and that it implements the journal.                      *)
(***************************************************************************)
EXTENDS Ledger

J == INSTANCE Journal
C == INSTANCE Commits

(* The rows committed by concurrent transactions always show a journal to  *)
(* which whole batches, holds, voids and captures were added one after the *)
(* other, each within the limits computed from the journal itself.         *)
ImplementsJournal == J!Spec

(* Requests that run at the same time leave the rows, versions and entries *)
(* they would leave one after the other: the commits are serializable,     *)
(* although every statement reads what was committed just before it.       *)
ImplementsCommits == C!Spec

(* The entries of an account, taken by version, form one chain: no two     *)
(* share a version, each starts from the balance the one before left, and  *)
(* the last one leaves the balance of the row.                             *)
EntriesChain ==
  \A a \in AccountIds :
    LET mine == C!EntriesFor(a) IN
    /\ \A e, f \in mine : e.version = f.version => e = f
    /\ \A e \in mine :
         /\ e.prev = C!BalanceAfter(C!Before(a, e))
         /\ e.current = e.prev + e.amount
         /\ e.version <= row[a].version
    /\ row[a].balance = C!BalanceAfter(mine)

(* A hold is captured by exactly one transfer, of its account and amount,  *)
(* and by none in any other status.                                        *)
CapturedOnce ==
  \A h \in HoldIds :
    LET captures == {t \in transfers : t.hold = h} IN
    /\ Cardinality(captures) = (IF holds[h].status = "captured" THEN 1 ELSE 0)
    /\ \A t \in captures :
         t.from = holds[h].account /\ t.amount = holds[h].amount

(* A consumer of the outbox learns of every transfer once, and of every    *)
(* hold exactly the steps it took.                                         *)
OutboxTellsAll ==
  /\ \A t \in transfers :
       Cardinality({e \in outbox : e.transfer = t.id}) = 1
  /\ \A e \in outbox :
       e.transfer # None => \E t \in transfers : t.id = e.transfer
  /\ \A h \in HoldIds :
       {e.type : e \in {o \in outbox : o.aggregate = h}} =
         CASE holds[h].status = "none"     -> {}
           [] holds[h].status = "active"   -> {"hold.created"}
           [] holds[h].status = "voided"   -> {"hold.created", "hold.voided"}
           [] holds[h].status = "captured" -> {"hold.created",
                                               "hold.captured"}

(* The success rows written inside transactions are there exactly for what *)
(* committed; those written after the commit never precede it.             *)
AuditMatches ==
  /\ {r.resource : r \in {x \in audit : x.action = "hold.create"}} =
       {h \in HoldIds : holds[h].status # "none"}
  /\ {r.resource : r \in {x \in audit :
         x.action \in {"transfer.create", "transfer.reverse"}}} =
       {t.id : t \in {x \in transfers : x.hold = None}}
  /\ \A r \in audit :
       /\ r.action = "hold.void" => holds[r.resource].status = "voided"
       /\ r.action = "hold.capture" => holds[r.resource].status = "captured"

(* A request waits for the one that owns the lock it asks for.             *)
WaitsFor(p, q) ==
  \/ pc[p] = "holdLock" /\ holdLock[req[p].hold] = q
  \/ /\ pc[p] = "lock"
     /\ \E a \in tx[p].need : rowLock[a] = q /\ \A b \in tx[p].need : a <= b
  \/ pc[p] \in {"audit", "failed", "record"} /\ chainLock = q

(* "Concurrent-safe - Deadlock prevention via sorted account locking": in  *)
(* any group of requests there is one that waits for nobody in the group.  *)
NoDeadlock ==
  \A S \in SUBSET Clients :
    S # {} => \E p \in S : \A q \in S : ~WaitsFor(p, q)

(* No two transactions ever stage a reversal of the same transfer, so the  *)
(* unique index on reversed_transfer_id never makes one wait for the other *)
(* outside the order of the row locks.                                     *)
ReversalsNeverMeet ==
  \A p, q \in Clients :
    p # q /\ pc[p] \in InTx /\ pc[q] \in InTx =>
      \A t \in tx[p].transfers, s \in tx[q].transfers :
        t.reversed # None => t.reversed # s.reversed

(* A transfer is reversed at most once, and exactly undone.                *)
ReversedOnce ==
  \A t \in transfers : t.reversed # None =>
    /\ \A s \in transfers : s.reversed = t.reversed => s = t
    /\ \E s \in transfers :
         s.id = t.reversed /\ s.from = t.to /\ s.to = t.from
         /\ s.amount = t.amount

(* Every request ends, whatever the others do.                             *)
RequestsEnd ==
  \A p \in Clients : pc[p] # "idle" ~> pc[p] = "idle"
=============================================================================
