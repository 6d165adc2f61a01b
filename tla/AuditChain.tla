----------------------------- MODULE AuditChain -----------------------------
(***************************************************************************)
(* The hash chain through audit_logs.  Requests insert audit rows in       *)
(* transactions of their own or of their use case; a trigger locks the     *)
(* single row of audit_log_chain_state, links the new row to the one       *)
(* before it and moves the head.  verify_audit_log_chain() walks the       *)
(* chain.  Beside the requests there are the operator's retention jobs,    *)
(* and rows changed behind the application's back.                         *)
(***************************************************************************)
EXTENDS Integers, Sequences, FiniteSets

CONSTANTS
  Writers,     \* the requests that write audit rows at the same time
  Ids,         \* ids of audit rows
  MaxMonth,    \* bound: months that pass
  MaxAltered,  \* bound: columns of rows altered
  None         \* nobody holds the lock

ASSUME ChainAssumption ==
  /\ None \notin Writers
  /\ MaxMonth \in Nat /\ MaxAltered \in Nat

VARIABLES
  rows,     \* committed: rows of audit_logs
  head,     \* committed: the row of audit_log_chain_state
  lock,     \* owner of the lock on it
  pc,       \* where the transaction of each writer is
  tx,       \* what it has inserted, and the head it sees
  month,    \* the clock, as far as partitions tell it
  gone,     \* chain_seq of the rows that were dropped or deleted
  altered   \* which columns of which rows, by chain_seq, were altered

past == <<gone, altered>>
vars == <<rows, head, lock, pc, tx, month, past>>

(* A digest stands for the contents it was computed from, so that two are  *)
(* equal only if those are: SHA-256 is taken to have no collisions.        *)
Digest(prior, id, text) == Append(prior, <<id, text>>)
Genesis == <<>>

(* A row: what is hashed is the digest before it, id and text, which is    *)
(* user_id, action, resource, status, error_message and created_at; state  *)
(* stands for before_state, after_state and request_id, pii for ip_address *)
(* and user_agent, none of which is.                                       *)
Text == {"as written", "altered"}
Columns == {"text", "state", "prev", "hash"}
HeadAt(hash, seq) == [hash |-> hash, seq |-> seq]
NoTx == [at |-> 0, rows |-> {}, head |-> HeadAt(Genesis, 0)]

Init ==
  /\ rows = {}
  /\ head = HeadAt(Genesis, 0)
  /\ lock = None
  /\ pc = [w \in Writers |-> "idle"]
  /\ tx = [w \in Writers |-> NoTx]
  /\ month = 1
  /\ gone = {}
  /\ altered = {}

-----------------------------------------------------------------------------
(* The use case builds the record, with the time it has, and only then     *)
(* inserts it; a batch of transfers does so once per transfer.             *)
NewAuditLog(w) ==
  /\ pc[w] \in {"idle", "open"}
  /\ pc' = [pc EXCEPT ![w] = "built"]
  /\ tx' = [tx EXCEPT ![w].at = month]
  /\ UNCHANGED <<rows, head, lock, month, past>>

Fresh(id) ==
  /\ \A i \in 1..Len(head.hash) : head.hash[i][1] # id
  /\ \A w \in Writers : \A r \in tx[w].rows : r.id # id

(* SELECT ... FOR UPDATE waits for the transaction that has moved the head *)
(* and then sees where that one left it.                                   *)
(* Mutant: without FOR UPDATE.                                             *)
HeadFreeAlways(w) == TRUE
HeadFree(w) == lock \in {None, w}
(* Mutant: the trigger does not move the head.                             *)
SeenHeadUnmoved(w) == head
SeenHead(w) == IF tx[w].rows = {} THEN head ELSE tx[w].head

Linked(w, id) ==
  [id |-> id, text |-> "as written", state |-> "as written",
   at |-> tx[w].at, pii |-> TRUE,
   prev |-> SeenHead(w).hash, seq |-> SeenHead(w).seq + 1,
   hash |-> Digest(SeenHead(w).hash, id, "as written")]

Create(w, id) ==
  LET r == Linked(w, id) IN
  /\ pc[w] = "built"
  /\ HeadFree(w)
  /\ Fresh(id)
  /\ lock' = w
  /\ tx' = [tx EXCEPT ![w].rows = @ \cup {r}, ![w].head = HeadAt(r.hash, r.seq)]
  /\ pc' = [pc EXCEPT ![w] = "open"]
  /\ UNCHANGED <<rows, head, month, past>>

End(w) ==
  /\ lock' = IF lock = w THEN None ELSE lock
  /\ pc' = [pc EXCEPT ![w] = "idle"]
  /\ tx' = [tx EXCEPT ![w] = NoTx]
  /\ UNCHANGED <<month, past>>

Commit(w) ==
  /\ pc[w] = "open"
  /\ rows' = rows \cup tx[w].rows
  /\ head' = tx[w].head
  /\ End(w)

Rollback(w) ==
  /\ pc[w] # "idle"
  /\ End(w)
  /\ UNCHANGED <<rows, head>>

-----------------------------------------------------------------------------
(* Retention, by the operator.  The scrub updates rows under the bypass of *)
(* the append-only trigger and leaves what is hashed alone.                *)
(* Mutant: the scrub also blanks a column that is hashed.                  *)
ScrubbedTooMuch(r) == [r EXCEPT !.pii = FALSE, !.text = "altered"]
Scrubbed(r) == [r EXCEPT !.pii = FALSE]

scrub_audit_log_pii(cutoff) ==
  /\ \E r \in rows : r.at < cutoff /\ r.pii
  /\ rows' = {IF r.at < cutoff THEN Scrubbed(r) ELSE r : r \in rows}
  /\ UNCHANGED <<head, lock, pc, tx, month, past>>

(* DROP of a month that is over waits for transactions that have rows in   *)
(* the table.                                                              *)
DropPartition(m) ==
  /\ m < month
  /\ \E r \in rows : r.at = m
  /\ \A w \in Writers : tx[w].rows = {}
  /\ rows' = {r \in rows : r.at # m}
  /\ gone' = gone \cup {r.seq : r \in {x \in rows : x.at = m}}
  /\ UNCHANGED <<head, lock, pc, tx, month, altered>>

-----------------------------------------------------------------------------
(* verify_audit_log_chain(): rows by chain_seq, each compared with the     *)
(* stored hash of the one before it in that order, and hashed anew.        *)
Earlier(r) == {s \in rows : s.seq < r.seq}
expected_prev_hash(r) ==
  IF Earlier(r) = {} THEN Genesis
  ELSE (CHOOSE s \in Earlier(r) : \A t \in Earlier(r) : t.seq <= s.seq).hash

(* Mutant: only the linkage is compared.                                   *)
LinksBroken == {r.id : r \in {x \in rows : x.prev # expected_prev_hash(x)}}
verify_audit_log_chain ==
  {r.id : r \in {x \in rows :
     \/ x.prev # expected_prev_hash(x)
     \/ x.hash # Digest(expected_prev_hash(x), x.id, x.text)}}

(* Past the application and its triggers, columns of a row are altered,    *)
(* its digests to what would fit the rows that are there, or not, each     *)
(* column once, and rows are deleted, one by one.                          *)
Rewrite(r, column, s) ==
  /\ <<r.seq, column>> \notin altered /\ s # r
  /\ rows' = (rows \ {r}) \cup {s}
  /\ altered' = altered \cup {<<r.seq, column>>}
  /\ Cardinality(altered') <= MaxAltered
  /\ UNCHANGED <<head, lock, pc, tx, month, gone>>

Fitting(r) == {Genesis, expected_prev_hash(r), Digest(r.prev, r.id, r.text)}

Alter(r) ==
  \/ Rewrite(r, "text", [r EXCEPT !.text = "altered"])
  \/ Rewrite(r, "state", [r EXCEPT !.state = "altered"])
  \/ \E h \in Fitting(r) :
       \/ Rewrite(r, "prev", [r EXCEPT !.prev = h])
       \/ Rewrite(r, "hash", [r EXCEPT !.hash = h])

Delete(r) ==
  /\ rows' = rows \ {r}
  /\ gone' = gone \cup {r.seq}
  /\ UNCHANGED <<head, lock, pc, tx, month, altered>>

Tick ==
  /\ month < MaxMonth
  /\ month' = month + 1
  /\ UNCHANGED <<rows, head, lock, pc, tx, past>>

Write(w) ==
  \/ NewAuditLog(w)
  \/ \E id \in Ids : Create(w, id)
  \/ Commit(w)
  \/ Rollback(w)

Next ==
  \/ \E w \in Writers : Write(w)
  \/ \E m \in 1..MaxMonth : scrub_audit_log_pii(m) \/ DropPartition(m)
  \/ \E r \in rows : Alter(r) \/ Delete(r)
  \/ Tick

Spec == Init /\ [][Next]_vars

-----------------------------------------------------------------------------
(* "chain_seq is globally unique by construction", although the unique     *)
(* index also spans created_at, and has no gap but where rows were dropped *)
(* or deleted; the head has the digest of all that was ever committed, and *)
(* a row the digest of all up to it, until somebody overwrites that.       *)
RowsAreTheLog ==
  /\ head.seq = Len(head.hash)
  /\ \A r, s \in rows : r.seq = s.seq => r = s
  /\ {r.seq : r \in rows} \cup gone = 1..head.seq
  /\ \A r \in rows :
       /\ <<r.seq, "hash">> \notin altered => r.hash = SubSeq(head.hash, 1, r.seq)
       /\ r.id = head.hash[r.seq][1]

(* Every alarm has a cause: the row was altered in what is hashed, or the  *)
(* digest before it was, or the row before it is gone; concurrent inserts, *)
(* rollbacks and scrubs never raise one.  And a row whose hashed text was  *)
(* altered is named itself, unless its stored digest was overwritten too.  *)
AlarmsAreReal ==
  \A r \in rows :
    /\ r.id \in verify_audit_log_chain =>
         \/ \E c \in Columns \ {"state"} : <<r.seq, c>> \in altered
         \/ <<r.seq - 1, "hash">> \in altered
         \/ r.seq - 1 \in gone
    /\ r.text = "altered" /\ <<r.seq, "hash">> \notin altered =>
         r.id \in verify_audit_log_chain

(* When verification names nobody, any row that has the digest it was      *)
(* committed with vouches for all before it: they are there, and their     *)
(* hashed text is what was committed, whatever else was altered, digests   *)
(* and all, or deleted.  Nothing vouches for the rows after the last such  *)
(* row, nor for columns that are not hashed.                               *)
SilenceVouches ==
  verify_audit_log_chain = {} =>
    \A r \in rows : r.hash = SubSeq(head.hash, 1, r.seq) =>
      \A n \in 1..r.seq :
        \E s \in rows : s.seq = n /\ <<s.id, s.text>> = head.hash[n]

(* "Altering ... a historical row ... breaks the chain at that point,      *)
(* which verify_audit_log_chain() below detects."                          *)
AlterationsDetected ==
  \A r \in rows :
    r.seq < head.seq /\ (\E c \in Columns : <<r.seq, c>> \in altered) =>
      verify_audit_log_chain # {}

L == INSTANCE AuditLog WITH log <- head.hash

(* Seen through the head, the trail is one list that transactions append   *)
(* their rows to, as a whole each and one after the other.                 *)
ImplementsLog == L!Spec
=============================================================================
