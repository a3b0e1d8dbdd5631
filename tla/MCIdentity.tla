----------------------------- MODULE MCIdentity -----------------------------
(* Instances of Identity for TLC. *)
EXTENDS Identity, TLC
CONSTANTS ann, customer, q1, q2
MCUsers    == {ann}
MCRoles    == {customer}
MCRequests == {q1, q2}
Symmetry   == Permutations(Requests)

\* Bound: one access token verifies at a time; the others have expired.
OneAccess  == Cardinality(access) <= 1
=============================================================================
