--------------------------- MODULE MCAskQuestion ---------------------------
(* Instances of AskQuestion for TLC. *)
EXTENDS AskQuestion, TLC

CONSTANTS u1, u2, s1, s2, r1, r2, r3, r4

\* A subscription as CreateSubscriptionUseCase stored it.
Row(u, status, limit, endDate) ==
  [user |-> u, status |-> status, limit |-> limit, remaining |-> limit,
   endDate |-> endDate, autoRenew |-> FALSE]

\* A bundle of one message that lasts, and enterprise ending at instant 1.
MonthEndRows == {Row(u1, "active", 1, 9), Row(u1, "active", Unlimited, 1)}

\* The larger bundle ends at instant 1, the smaller one lasts.
ExpiringRows == {Row(u1, "active", 2, 1), Row(u1, "active", 1, 9)}

\* Two equal bundles that last.
EqualRows == {Row(u1, "active", 1, 9)}

\* Which request and which subscription is which makes no difference.
AskSymmetry == Permutations(Requests) \cup Permutations(Subs)

=============================================================================
