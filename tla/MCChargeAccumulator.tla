------------------------ MODULE MCChargeAccumulator ------------------------
(***************************************************************************)
(* Three statements, two of one agreement, with charges of two             *)
(* subscriptions and one that has none; c2 or c5 cannot be summed.         *)
(***************************************************************************)
EXTENDS ChargeAccumulator

CONSTANTS A1, A2, s1, s2, add

Ledger ==
  [c1 |-> [statement |-> "st1", subscription |-> s1],
   c2 |-> [statement |-> "st1", subscription |-> s2],
   c3 |-> [statement |-> "st2", subscription |-> s1],
   c4 |-> [statement |-> "st2", subscription |-> add],
   c5 |-> [statement |-> "st3", subscription |-> s1],
   c6 |-> [statement |-> "st3", subscription |-> s2]]

MCCharges == DOMAIN Ledger
MCStatements == {"st1", "st2", "st3"}
MCStatementOf == [c \in MCCharges |-> Ledger[c].statement]
MCSubscriptionOf == [c \in MCCharges |-> Ledger[c].subscription]
MCMonthOf == [c \in MCCharges |-> 1]
MCStatementAgreement == [st1 |-> A1, st2 |-> A1, st3 |-> A2]
MCChargeAgreement == [c \in MCCharges |-> MCStatementAgreement[MCStatementOf[c]]]

MCArguments ==
  [statements : {{"st1", "st2"}, MCStatements},
   ids        : {{}, {s1}, {s2}},
   isolate    : BOOLEAN]
=============================================================================
