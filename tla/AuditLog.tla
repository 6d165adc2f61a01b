------------------------------ MODULE AuditLog ------------------------------
(***************************************************************************)
(* What the audit trail promises: one list of records for the whole        *)
(* database, to which every transaction appends its records next to each   *)
(* other, and in which nothing is ever taken back or changed.              *)
(***************************************************************************)
EXTENDS Naturals, Sequences

VARIABLE log  \* the records, oldest first

Init == log = <<>>

NoRecordTwice ==
  \A i, j \in 1..Len(log) : log[i] = log[j] => i = j

Record ==
  /\ Len(log') > Len(log)
  /\ SubSeq(log', 1, Len(log)) = log
  /\ NoRecordTwice'

Spec == Init /\ [][Record]_log
=============================================================================
