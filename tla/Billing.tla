------------------------------- MODULE Billing -------------------------------
(***************************************************************************)
(* What the MPT billing API hands to the usage reporting jobs, and the     *)
(* pure functions the jobs apply to it: which statements a command selects *)
(* (services/statements.py), which of their charges pass the filter and in *)
(* which bucket they are summed (accumulation.py), and which agreements an *)
(* isolating accumulation leaves out (services/charges.py).                *)
(*                                                                         *)
(* A price is never a number here.  A bucket is the set of charges summed  *)
(* into it, and a stored row is the bag of charges added into it, so that  *)
(* "counted twice" and "left out" can be told apart whatever the prices.   *)
(***************************************************************************)
EXTENDS Naturals

CONSTANTS
  Charges,             \* the charges of every statement the platform holds
  Statements,          \* the automated, issued or cancelled statements
  Subscriptions,       \* the subscription ids charges are accumulated under
  Synthetic,           \* those made up for a charge without a subscription
  Agreements,          \* agreement ids
  StatementOf,         \* charge |-> the statement it is listed on
  SubscriptionOf,      \* charge |-> the subscription id of its bucket
  MonthOf,             \* charge |-> its billing month's ordinal, or NoMonth
  ChargeAgreement,     \* charge |-> the agreement id it carries itself
  StatementAgreement,  \* statement |-> its agreement
  Unpriced             \* the charges without a price that can be summed

\* The month of a charge that has no plausible date at all.
NoMonth == 0

ASSUME BillingAssumption ==
  /\ StatementOf \in [Charges -> Statements]
  /\ SubscriptionOf \in [Charges -> Subscriptions]
  /\ MonthOf \in [Charges -> Nat]
  /\ ChargeAgreement \in [Charges -> Agreements]
  /\ StatementAgreement \in [Statements -> Agreements]
  /\ Synthetic \subseteq Subscriptions
  /\ Unpriced \subseteq Charges

\* The platform's doing, and what the code counts on: it leaves out a failed
\* agreement's statements by their agreement, and its buckets by the charges'.
ASSUME ListedByItsAgreement ==
  \A c \in Charges : ChargeAgreement[c] = StatementAgreement[StatementOf[c]]

AgreementOf(c) == ChargeAgreement[c]

Storable(c) == MonthOf[c] # NoMonth

\* The subscription table's key, and the key of an accumulation.
Key(c) == <<AgreementOf(c), SubscriptionOf[c], MonthOf[c]>>
Keys   == {Key(c) : c \in Charges}
KeyAgreement(k) == k[1]

\* No filter is built from an empty set of ids.  The filter reads the charge's
\* own subscription id, which a charge of a synthetic bucket does not have.
Passes(c, ids) == ids = {} \/ SubscriptionOf[c] \in ids \ Synthetic

ChargesOf(statements, ids) ==
  {c \in Charges : StatementOf[c] \in statements /\ Passes(c, ids)}

\* `agreements` narrows the selection when there are any; otherwise the
\* statements of the configured products (and seller), `base`, are taken.
SelectFallbackDropped(window, base, agreements) ==
  {s \in window : StatementAgreement[s] \in agreements}
SelectedStatements(window, base, agreements) ==
  IF agreements # {} THEN {s \in window : StatementAgreement[s] \in agreements}
                     ELSE window \cap base

\* Those of the statements with a charge that passes the filter and cannot be
\* summed.
UnsummableAgreements(statements, ids) ==
  {StatementAgreement[StatementOf[c]] : c \in ChargesOf(statements, ids) \cap Unpriced}

\* The isolating accumulation: every charge but those of a failed agreement.
Accumulated(statements, ids) ==
  {c \in ChargesOf(statements, ids) :
      AgreementOf(c) \notin UnsummableAgreements(statements, ids)}
=============================================================================
