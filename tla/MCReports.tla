----------------------------- MODULE MCReports -----------------------------
(* Instances of Reports for TLC. *)
EXTENDS Reports, TLC

CONSTANTS u1, s1, s2, r1, r2, r3

\* Active bundles that outlive the behaviour, of different size and end.
LastingRows ==
  {[user |-> u1, status |-> "active", limit |-> size[1],
    remaining |-> size[1], endDate |-> size[2], autoRenew |-> FALSE]
     : size \in {<<1, 9>>, <<2, 5>>, <<Unlimited, 9>>}}

=============================================================================
