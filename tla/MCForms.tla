------------------------------ MODULE MCForms ------------------------------
(* Four submissions of the contact form and one ticket, from three           *)
(* addresses, one of them empty, with room for one entry and two             *)
(* submissions per address.                                                  *)
EXTENDS Forms, TLC

CONSTANTS c1, c2, c3, c4, t1, a1, a2

MCFormOf == [q \in Requests |-> IF q = t1 THEN "ticket" ELSE "contact"]

Interchangeable == Permutations({c1, c2, c3, c4}) \cup Permutations({a1, a2})
=============================================================================
