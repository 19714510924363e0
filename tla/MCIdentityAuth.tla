--------------------------- MODULE MCIdentityAuth ---------------------------
(* IdentityAuth on a clock of a few units. *)
EXTENDS IdentityAuth, TLC

NonceSymmetry == Permutations(Nonces)
=============================================================================
