------------------------ MODULE AccumulationContract ------------------------
(***************************************************************************)
(* What ChargeAccumulator.accumulate promises its caller: one step that    *)
(* returns the totals of every agreement that can be summed and names the  *)
(* others, or raises.  UsagePipeline takes an accumulation as that step.   *)
(***************************************************************************)
EXTENDS Billing

VARIABLES
  arguments,   \* the statements, the ids of the filter and isolate_agreements
  state,       \* "running", "returned" or "raised"
  counted,     \* charge |-> how often the returned totals count it
  leftOut      \* the returned failed_agreements

vars == <<arguments, state, counted, leftOut>>

ArgumentsType ==
  [statements : SUBSET Statements, ids : SUBSET Subscriptions, isolate : BOOLEAN]

Unsummable(a)  == UnsummableAgreements(a.statements, a.ids)
Summable(a)    == Accumulated(a.statements, a.ids)

Once(cs) == [c \in Charges |-> IF c \in cs THEN 1 ELSE 0]

Init ==
  /\ arguments \in ArgumentsType
  /\ state = "running"
  /\ counted = Once({})
  /\ leftOut = {}

\* Only an isolating accumulation returns without some agreement.
Return ==
  /\ state = "running"
  /\ arguments.isolate \/ Unsummable(arguments) = {}
  /\ state' = "returned"
  /\ counted' = Once(Summable(arguments))
  /\ leftOut' = Unsummable(arguments)
  /\ UNCHANGED arguments

Raise ==
  /\ state = "running"
  /\ state' = "raised"
  /\ UNCHANGED <<arguments, counted, leftOut>>

Next == Return \/ Raise

Spec == Init /\ [][Next]_vars

\* An accumulation does not run for ever.
FairSpec == Spec /\ WF_vars(Next)
=============================================================================
