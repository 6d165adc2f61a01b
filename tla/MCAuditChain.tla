---------------------------- MODULE MCAuditChain ----------------------------
(***************************************************************************)
(* Small instances of the audit chain.                                     *)
(***************************************************************************)
EXTENDS AuditChain, TLC

MCSymmetry == Permutations(Writers) \cup Permutations(Ids)
=============================================================================
