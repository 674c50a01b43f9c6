------------------------------ MODULE Reports ------------------------------
(***************************************************************************)
(* GET /admin/usage-summary while messages are charged.  The endpoint      *)
(* counts the rows of usage_ledger with three statements, one after the    *)
(* other and outside a transaction: each sees what has committed until     *)
(* then, so the three numbers need not be of one moment.                   *)
(***************************************************************************)
EXTENDS AskQuestion

VARIABLES
  counted,   \* how many of the counts have been made
  summary    \* what they returned

reportVars == <<counted, summary>>
allVars == <<vars, reportVars>>

-----------------------------------------------------------------------------

Counts == {"totalUsage", "freeUsage", "subscriptionUsage"}

\* Mutant of Order: the total is counted last.
OrderTotalLast == <<"freeUsage", "subscriptionUsage", "totalUsage">>

\* The order of the three awaits.
Order == <<"totalUsage", "freeUsage", "subscriptionUsage">>

\* The committed rows of usage_ledger that a count() sees.
RowsOf(count) ==
  CASE count = "totalUsage" -> ledger
    [] count = "freeUsage" -> {row \in ledger : row.source = "free"}
    [] count = "subscriptionUsage" ->
         {row \in ledger : row.source = "subscription"}

ReportTypeOK ==
  /\ counted \in 0 .. Len(Order)
  /\ summary \in [Counts -> Nat]

ReportInit ==
  /\ Init
  /\ counted = 0
  /\ summary = [c \in Counts |-> 0]

\* The next statement of the endpoint.
Count ==
  /\ counted < Len(Order)
  /\ counted' = counted + 1
  /\ summary' = [summary EXCEPT ![Order[counted + 1]] =
                   Cardinality(RowsOf(Order[counted + 1]))]

ReportNext ==
  \/ Next /\ UNCHANGED reportVars
  \/ Count /\ UNCHANGED vars

ReportSpec == ReportInit /\ [][ReportNext]_allVars

\* Chat as in FairSpec; nothing is assumed of the endpoint.
FairReportSpec == ReportSpec /\ Fairness

-----------------------------------------------------------------------------
(* Properties                                                              *)

Parts == summary["freeUsage"] + summary["subscriptionUsage"]

\* The parts of a summary cover its total, which was counted first, and
\* exceed it by no more than what was charged while they were counted: no
\* charge of the total is missing from its part, and none is in both.
SummaryCoversTotal ==
  counted = Len(Order) =>
    /\ summary["totalUsage"] <= Parts
    /\ Parts <= Cardinality(ledger)

-----------------------------------------------------------------------------
(* The inductive invariant                                                 *)

\* A count that has been made is still covered by the rows it counted.
CountedOK(i) == summary[Order[i]] <= Cardinality(RowsOf(Order[i]))

\* After the first count the free rows there were and the subscription rows
\* there are make up for the total.
ReportInv ==
  /\ ReportTypeOK
  /\ \A i \in 1 .. counted : CountedOK(i)
  /\ counted = 2 =>
       summary["totalUsage"] <=
         summary["freeUsage"] + Cardinality(RowsOf("subscriptionUsage"))
  /\ SummaryCoversTotal

=============================================================================
