------------------------- MODULE MCRequestPipeline -------------------------
(* Instances of RequestPipeline for TLC. *)
EXTENDS RequestPipeline, TLC

CONSTANTS i1, i2, a1, a2, e1, r1, r2, r3

\* Two identities whose tokens carry one email.
SharedEmail == [i \in {i1, i2} |-> e1]

From(ip, identity) == [ip |-> ip, identity |-> identity, authentic |-> TRUE]

Forged(ip, identity) == [ip |-> ip, identity |-> identity, authentic |-> FALSE]

\* One user too often; and two users and a forged request behind one address.
MixedWorkloads ==
  {r1 :> From(a1, i1) @@ r2 :> From(a1, i1) @@ r3 :> From(a2, i1),
   r1 :> From(a1, i1) @@ r2 :> From(a1, i2) @@ r3 :> Forged(a1, i2)}

=============================================================================
