--------------------------- MODULE MCUsagePipeline ---------------------------
(***************************************************************************)
(* Small instances of UsagePipeline.  Agreement A1 has two statements with *)
(* two charges in one bucket, a charge without a subscription and one too  *)
(* old to be kept; A2 has two, one with a charge that has no month, one    *)
(* with a charge that cannot be summed, of a subscription billed under     *)
(* both agreements.                                                        *)
(***************************************************************************)
EXTENDS UsagePipelineProperties

CONSTANTS A1, A2, s1, s2, add

Ledger ==
  [c1 |-> [statement |-> "st1", subscription |-> s1,  month |-> 20],
   c2 |-> [statement |-> "st2", subscription |-> s1,  month |-> 20],
   c3 |-> [statement |-> "st1", subscription |-> add, month |-> 20],
   c4 |-> [statement |-> "st2", subscription |-> s1,  month |-> 2],
   c5 |-> [statement |-> "st3", subscription |-> s2,  month |-> 20],
   c6 |-> [statement |-> "st3", subscription |-> s2,  month |-> NoMonth],
   c7 |-> [statement |-> "st4", subscription |-> s1,  month |-> 20]]

MCCharges == DOMAIN Ledger
\* Without the charge that is pruned, the one that has no month, and the one
\* that cannot be summed: s1 is billed under A1 only.
PairCharges == MCCharges \ {"c4", "c6", "c7"}
MCStatements == {"st1", "st2", "st3", "st4"}
Summable == {"st1", "st2", "st3"}
MCSubscriptions == {s1, s2, add}
MCSynthetic == {add}
MCAgreements == {A1, A2}
MCStatementOf == [c \in Charges |-> Ledger[c].statement]
MCSubscriptionOf == [c \in Charges |-> Ledger[c].subscription]
MCMonthOf == [c \in Charges |-> Ledger[c].month]
MCStatementAgreement == [st1 |-> A1, st2 |-> A1, st3 |-> A2, st4 |-> A2]
MCChargeAgreement == [c \in Charges |-> MCStatementAgreement[MCStatementOf[c]]]

\* The first months kept by a clean-up.
Cutoff == 3

A_Job(command, kind, subscriptions, agreements, window) ==
  [command |-> command, kind |-> kind, subscriptions |-> subscriptions,
   agreements |-> agreements, window |-> window, base |-> MCStatements,
   cutoff |-> Cutoff, dryRun |-> FALSE]

RunOf(window)              == A_Job("run", "all", {}, {}, window)
CleanUp                    == A_Job("cleanup", "all", {}, {}, {})
Recalculate(as, window)    == A_Job("recalculate", "agreements", {}, as, window)
RecalculateOne(s, window)  == A_Job("recalculate", "subscription", {s}, {}, window)
Delete(as)                 == A_Job("delete", "agreements", {}, as, {})
DeleteOne(s)               == A_Job("delete", "subscription", {s}, {}, {})
DryRun(j)                  == [j EXCEPT !.dryRun = TRUE]

\* One command against every content the rows may have.
SoloJobs ==
  {RunOf({"st1"}), RunOf(Summable), RunOf(MCStatements), CleanUp,
   [RunOf(Summable) EXCEPT !.base = {"st1", "st2"}],
   Recalculate({}, Summable), Recalculate({A1}, MCStatements),
   Recalculate({A1}, {"st1"}), Recalculate(MCAgreements, Summable),
   Recalculate(MCAgreements, MCStatements),
   DryRun(Recalculate(MCAgreements, MCStatements)),
   DryRun(RecalculateOne(s1, Summable)),
   RecalculateOne(add, Summable), RecalculateOne(s1, Summable), RecalculateOne(s1, MCStatements),
   RecalculateOne(s2, {"st3"}), RecalculateOne(s2, MCStatements),
   Delete({}), Delete({A1}), Delete(MCAgreements), DeleteOne(s1)}

\* The charge that cannot be summed is counted in both tables or in neither.
SoloInit == Init /\ subRows["c7"] = agrRows["c7"]
SoloSpec == SoloInit /\ [][Next]_vars

\* Two commands that overlap.
PairJobs ==
  {RunOf({"st1", "st3"}), Recalculate({A1}, {"st1"}), Recalculate({}, {"st3"}),
   RecalculateOne(s1, {"st2"}), Delete({A2})}

\* A rebuild of one day, as after that day's run has failed.
OneDayJobs == {Recalculate({A1}, {"st1"})}

\* A rebuild from every statement.
OneAgreementJobs == {Recalculate({A1}, MCStatements)}
BothAgreementsJobs == {Recalculate(MCAgreements, MCStatements)}
=============================================================================
