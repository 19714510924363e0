---------------------------- MODULE MCPushTokens ----------------------------
(* Instances of PushTokens for TLC. *)
EXTENDS PushTokens, TLC

\* Tokens, slots and _ids are interchangeable.  Identities are not: an idle slot
\* holds an arbitrary but fixed one.
Interchangeable ==
    Permutations(Tokens) \cup Permutations(Registrars) \cup Permutations(RecordIds)

=============================================================================
