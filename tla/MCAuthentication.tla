-------------------------- MODULE MCAuthentication --------------------------
(* Instances of Authentication for TLC. *)
EXTENDS Authentication, TLC

CONSTANTS i1, r1, r2

\* Both requests are of one identity.
OneSender == [r \in Requests |-> i1]

RequestSymmetry == Permutations(Requests)

=============================================================================
