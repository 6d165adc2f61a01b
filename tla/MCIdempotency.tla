--------------------------- MODULE MCIdempotency ---------------------------
(* Small instances of the idempotency middlewares.                         *)
EXTENDS Idempotency, TLC

MCSymmetry ==
  Permutations(Requests) \cup Permutations(Keys) \cup Permutations(Bodies)
=============================================================================
