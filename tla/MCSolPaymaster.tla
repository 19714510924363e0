--------------------------- MODULE MCSolPaymaster ---------------------------
(* SolPaymaster with two calls on a pool of two, in two blocks. *)
EXTENDS SolPaymaster, TLC

BundledContent == <<"advance", "create", "approve", "execute", "close">>

\* One list per kind, a close alone, and two that must be refused.
MCContents == {<<"advance", "create", "approve">>, <<"advance", "approve">>,
               <<"ata", "execute">>, <<"close">>, BundledContent,
               <<"advance", "system">>}

Interchangeable == Permutations(Jobs)
=============================================================================
