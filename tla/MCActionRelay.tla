--------------------------- MODULE MCActionRelay ---------------------------
(* Instances of ActionRelay for TLC. *)
EXTENDS ActionRelay, TLC

\* Devices stay apart (their kind matters); requests are interchangeable.
RequestSymmetry == Permutations(Posts) \cup Permutations(Joins) \cup Permutations(Identities)

=============================================================================
