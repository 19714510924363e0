---------------------------- MODULE MCSyncStore ----------------------------
(* SyncStore on three posts; a clock long enough for a document to expire. *)
EXTENDS SyncStore, TLC

Interchangeable == Permutations(Posts) \cup Permutations(Identities)
=============================================================================
