------------------------------ MODULE MCMoney -------------------------------
(***************************************************************************)
(* The way an amount takes through the program, for every text of a small   *)
(* grammar: the text arrives at POST /orders, parseOrderAmount admits or     *)
(* rejects it, and the fee of an admitted amount is computed.                *)
(***************************************************************************)
EXTENDS Money

CONSTANTS MaxWhole,     \* texts have an integer part of 0..MaxWhole ...
          SomeDigits    \* ... and up to five digits of this set after the point

ASSUME MCMoneyAssumption == MaxWhole \in Nat /\ SomeDigits \subseteq 0..9

VARIABLES text, stage, amount, fee

vars == <<text, stage, amount, fee>>

Texts == [whole : 0..MaxWhole, digits : UNION {[1..n -> SomeDigits] : n \in 0..5}]

Init == text \in Texts /\ stage = "raw" /\ amount = 0 /\ fee = 0

Parse ==
    /\ stage = "raw"
    /\ IF ParseOrderAmountAccepts(text)
       THEN stage' = "amount" /\ amount' = ValueOf(text)
       ELSE stage' = "rejected" /\ UNCHANGED amount
    /\ UNCHANGED <<text, fee>>

Price ==
    /\ stage = "amount"
    /\ stage' = "priced"
    /\ fee' = CalculateFee(amount)
    /\ UNCHANGED <<text, amount>>

Next == Parse \/ Price

Spec == Init /\ [][Next]_vars

(***************************************************************************)
(* The computed fee is the multiple of 0.0001 nearest to 3% of the amount,   *)
(* the larger one on a tie (calculateFee, "rounded half-up to 4 dp"): in     *)
(* hundredths of a unit the error lies in (-50, 50].                         *)
(***************************************************************************)
FeeIsNearestHalfUp ==
    stage = "priced" => 100 * fee - 3 * amount \in -49..50

(***************************************************************************)
(* Every amount the parser admits can be posted: the fee and the payout are  *)
(* strictly positive and together make up the amount, so that neither        *)
(* validatePostings nor the CHECK constraints of ledger_entry can refuse the *)
(* fee or the settlement postings of an order that was accepted.             *)
(***************************************************************************)
EveryAdmittedAmountIsPostable ==
    stage = "priced" => fee > 0 /\ Payout(amount) > 0 /\ fee + Payout(amount) = amount

(***************************************************************************)
(* Parsing loses nothing: the stored text of an admitted amount shows every  *)
(* digit that was sent, padded with zeros, and reads back as the same        *)
(* amount.  Replayed requests are matched on that text.                      *)
(***************************************************************************)
StoredTextIsExact ==
    stage = "amount" =>
        LET stored == ToMoneyString(amount)
        IN  /\ ValueOf(stored) = amount
            /\ stored.whole = text.whole
            /\ \A i \in 1..5 : Digit(text, i) = Digit(stored, i)
=============================================================================
