------------------------------ MODULE MCServer ------------------------------
(***************************************************************************)
(* Small instances of the server's life.                                   *)
(***************************************************************************)
EXTENDS Server, TLC
=============================================================================
