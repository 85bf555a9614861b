--------------------------- MODULE MCEstimateFeed ---------------------------
(***************************************************************************)
(* A subscription billed in one currency in a December, and eleven months  *)
(* later billed and credited in another, under a second agreement too.     *)
(***************************************************************************)
EXTENDS EstimateFeed

In(y, m) == [year |-> y, month |-> m]

B(s, a, m, amount, currency) ==
  [subscription |-> s, agreement |-> a, month |-> m,
   amount |-> amount, currency |-> currency]

\* Definitions of their own, which TLC evaluates once: it would evaluate a
\* value written in MCBill again at every use of Bill.
Bills == [old    |-> B("s1", "A1", In(2023, 12), 5, "usd"),
          fee    |-> B("s1", "A1", In(2024, 11), 1, "eur"),
          credit |-> B("s1", "A1", In(2024, 11), -7, "eur"),
          shared |-> B("s1", "A2", In(2024, 11), 3, "eur")]
Ids == DOMAIN Bills
MCBill == Bills
MCCharges == Ids
MCStart == In(2024, 12)
=============================================================================
