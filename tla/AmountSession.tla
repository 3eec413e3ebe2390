--------------------------- MODULE AmountSession ----------------------------
(***************************************************************************)
(* A client tops up an empty wallet by an amount it writes, is shown the   *)
(* balance, and pays the text it was shown.                                *)
(***************************************************************************)
EXTENDS Amounts

CONSTANTS
  Whole,      \* numbers that may stand before the point
  Fraction    \* sequences of digits that may stand after it

ASSUME WrittenAssumption == Whole \subseteq Nat /\ Fraction \subseteq Seq(0..9)

VARIABLES
  stage,      \* "start", "posted", "refused", "shown", "paid", "unpaid"
  amount, currency,
  balance,    \* the cents that the top-up credited, less the payment
  shown       \* the balance as the client reads it

vars == <<stage, amount, currency, balance, shown>>

Nothing == Text("", 0, << >>)

Init ==
  /\ stage = "start"
  /\ amount = Nothing /\ currency = "usd"
  /\ balance = 0 /\ shown = Nothing

Topup(a, cur) ==
  /\ amount' = a /\ currency' = cur
  /\ \/ /\ ParseAmountToCents(a, cur) = Rejected
        /\ stage' = "refused" /\ UNCHANGED balance
     \/ /\ ParseAmountToCents(a, cur) # Rejected
        /\ stage' = "posted" /\ balance' = ParseAmountToCents(a, cur)
  /\ UNCHANGED shown

GetWallet ==
  /\ stage = "posted"
  /\ stage' = "shown" /\ shown' = FormatCents(balance, currency)
  /\ UNCHANGED <<amount, currency, balance>>

PayShown ==
  LET cents == ParseAmountToCents(shown, currency)
      paid  == cents # Rejected /\ cents <= balance
  IN  /\ stage = "shown"
      /\ stage' = IF paid THEN "paid" ELSE "unpaid"
      /\ balance' = IF paid THEN balance - cents ELSE balance
      /\ UNCHANGED <<amount, currency, shown>>

Next == \/ /\ stage = "start"
           /\ \E sign \in Sign, whole \in Whole, frac \in Fraction, cur \in Currencies :
                Topup(Text(sign, whole, frac), cur)
        \/ GetWallet
        \/ PayShown

Spec == Init /\ [][Next]_vars

-----------------------------------------------------------------------------
\* Type invariant: in particular no amount makes a balance negative.
TypeOK ==
  /\ stage \in {"start", "posted", "refused", "shown", "paid", "unpaid"}
  /\ currency \in Currencies
  /\ balance \in 0..MaxInt

\* service.go: "applying round-half-up to the currency's decimal precision":
\* every USD or EUR amount whose cents an int64 can hold is credited as the
\* nearest number of cents, a half going up, however many digits it has; an
\* amount below half a cent or with a minus sign is refused.
RoundsHalfUp ==
  (stage # "start" /\ currency \notin NoDecimals /\ Nearest(amount, SmallestUnitFactor) <= MaxInt) =>
    /\ stage = "refused" <=> amount.sign = "-" \/ Nearest(amount, SmallestUnitFactor) = 0
    /\ stage \in {"posted", "shown"} => balance = Nearest(amount, SmallestUnitFactor)

\* What the other amounts are credited as: whole*100 is not checked, so that a USD
\* or EUR amount beyond the range is refused or, if that happens to be positive,
\* credited as its remainder modulo 2^64; IDR loses its fraction, and zero passes.
CreditedAmount ==
  stage \in {"posted", "shown"} =>
    IF currency \in NoDecimals THEN balance = Numerator(amount) \div Denominator(amount)
    ELSE (balance - Nearest(amount, SmallestUnitFactor)) % (2 * (MaxInt + 1)) = 0

\* The text a balance is shown as is an amount the service reads back as the same
\* number: a client that pays what it was shown empties its wallet.
ShownIsPayable == stage \in {"paid", "unpaid"} => stage = "paid" /\ balance = 0
=============================================================================
