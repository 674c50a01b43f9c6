----------------------------- MODULE MCBackend -----------------------------
(* Instances of Backend for TLC. *)
EXTENDS Backend, TLC

CONSTANTS u1, s1, s2, r1, r2, r3, j1, j2, c1

Row(status, limit, endDate, autoRenew) ==
  [user |-> u1, status |-> status, limit |-> limit, remaining |-> limit,
   endDate |-> endDate, autoRenew |-> autoRenew]

\* A renewing bundle that ends at instant 1.
RenewingRows == {Row("active", 2, 1, TRUE)}

\* A renewing bundle that is due from the start.
DueRows == {Row("active", 2, 0, TRUE)}

\* An id not used yet, or a renewing bundle that ends at instant 1.
NewOrRenewingRows == {Row("absent", 1, 0, FALSE), Row("active", 2, 1, TRUE)}

Bodies == {[user |-> u1, limit |-> 1, autoRenew |-> TRUE],
           [user |-> u1, limit |-> Unlimited, autoRenew |-> FALSE]}

NoBodies == {}

BackendSymmetry == Permutations(Requests) \cup Permutations(Runs)

=============================================================================
