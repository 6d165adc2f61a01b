------------------------------ MODULE MCAccess ------------------------------
(***************************************************************************)
(* Two users sharing two e-mails, given a role the domain knows or one it  *)
(* does not, two managers and a client, for TLC.                           *)
(***************************************************************************)
EXTENDS Access, TLC

CONSTANTS u1, u2, m1, m2

MCUsers == {u1, u2}
MCManagers == {m1, m2}
MCGranted == {"admin", "operator", "unknown"}

Symmetry == Permutations(MCUsers) \cup Permutations(MCManagers)
=============================================================================
