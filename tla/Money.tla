------------------------------- MODULE Money --------------------------------
(***************************************************************************)
(* backend/src/lib/money.ts.  An amount of money is an integer count of    *)
(* 0.0001 USD, the scale of DECIMAL(18,4): decimal.js and the column are    *)
(* both exact at that scale, so the only inexact operation is CalculateFee. *)
(*                                                                         *)
(* A wire amount is the text of a decimal number, kept as what the grammar  *)
(* of MONEY_RE tells apart: the integer part and the digits after the       *)
(* point.  (The limit of 14 integer digits lies far above MaxAmount.)       *)
(***************************************************************************)
EXTENDS Integers, Sequences

CONSTANT MaxAmount      \* MAX_AMOUNT, in units of 0.0001

\* One cent, the smallest amount an order may have.
MinOrderAmount == 100

\* The business cap admits the smallest order.
ASSUME MaxAmountAssumption == MaxAmount \in Nat /\ MaxAmount >= MinOrderAmount

Text == [whole : Nat, digits : Seq(0..9)]

\* The i-th digit after the point.
Digit(text, i) == IF i <= Len(text.digits) THEN text.digits[i] ELSE 0

(***************************************************************************)
(* new Prisma.Decimal(raw): the number the text denotes, at scale 4.  Only  *)
(* meaningful for texts of at most four digits after the point.             *)
(***************************************************************************)
ValueOf(text) ==
    10000 * text.whole + 1000 * Digit(text, 1) + 100 * Digit(text, 2)
                       + 10 * Digit(text, 3) + Digit(text, 4)

\* Mutant: the number of digits after the point is not limited.
AnyDigitsAccepted(text) == ValueOf(text) > 0 /\ ValueOf(text) <= MaxAmount

\* What parseMoney lets through: well formed, positive, under the cap.
ParseMoneyAccepts(text) ==
    /\ Len(text.digits) <= 4
    /\ ValueOf(text) > 0
    /\ ValueOf(text) <= MaxAmount

\* Mutant: an order amount only has to be positive, not at least one cent.
AnyPositiveOrderAmount(text) == ParseMoneyAccepts(text)

ParseOrderAmountAccepts(text) ==
    /\ ParseMoneyAccepts(text)
    /\ ValueOf(text) >= MinOrderAmount

\* The amounts that parseOrderAmount can return.
OrderAmounts == MinOrderAmount .. MaxAmount

(***************************************************************************)
(* toFixed(4): always four digits after the point.  Two stored payload      *)
(* amounts are compared as these texts when a key is replayed.              *)
(***************************************************************************)
ToMoneyString(a) ==
    [whole |-> a \div 10000,
     digits |-> << (a \div 1000) % 10, (a \div 100) % 10, (a \div 10) % 10, a % 10 >>]

\* Mutant: the fee is cut off at four decimal places instead of rounded half-up.
FeeTruncated(a) == (3 * a) \div 100

(***************************************************************************)
(* amount x 3%, rounded half-up to the scale: floor(3a/100 + 1/2).          *)
(***************************************************************************)
CalculateFee(a) == (3 * a + 50) \div 100

Payout(a) == a - CalculateFee(a)
=============================================================================
