---------------------------- MODULE MCPlanQuota -----------------------------
(***************************************************************************)
(* PlanQuota on a plan with a weekly and a monthly window, and 3 dates.    *)
(***************************************************************************)
EXTENDS PlanQuota, TLC

MCSymmetry == Permutations(Workers)

\* A midnight between two weeks, and one key, <<2024, 1>>, for the weeks of 5 January
\* and of 30 December 2024.
MCDays == {Date(2024, 1, 5), Date(2024, 12, 29), Date(2024, 12, 30)}
MCWindows == <<"weekly", "monthly">>
MCLimit == [window \in {"weekly", "monthly"} |-> 1]

=============================================================================
