---------------------------- MODULE MoneyProofs -----------------------------
(***************************************************************************)
(* What holds of money.ts for every amount, and of the way of an amount      *)
(* through it (MCMoney) for every cap and every text.                        *)
(***************************************************************************)
EXTENDS MCMoney, SequenceTheorems, TLAPS

(***************************************************************************)
(* Lemmas about the operators.                                              *)
(***************************************************************************)

\* In hundredths of a unit, the fee misses 3% of the amount by -49..50.
LEMMA FeeRounding ==
    ASSUME NEW a \in Nat
    PROVE  CalculateFee(a) \in Nat /\ 100 * CalculateFee(a) - 3 * a \in -49..50
BY DEF CalculateFee

\* The payout of a positive amount is positive, however small the amount is:
\* a settlement line never posts zero (dailySettlement, validatePostings).
THEOREM PayoutPositive ==
    ASSUME NEW a \in Nat \ {0}
    PROVE  /\ CalculateFee(a) \in Nat
           /\ Payout(a) \in Nat /\ Payout(a) > 0
           /\ CalculateFee(a) + Payout(a) = a
<1>1. CalculateFee(a) \in Nat /\ 100 * CalculateFee(a) <= 3 * a + 50
    BY FeeRounding
<1>2. CASE a = 1
    BY <1>2 DEF CalculateFee, Payout
<1>3. CASE a > 1
    BY <1>1, <1>3 DEF Payout
<1>4. QED BY <1>2, <1>3

\* The fee of an order amount is positive: calculateFees never posts zero for
\* an order that POST /orders accepted.
LEMMA FeePositive ==
    ASSUME NEW a \in OrderAmounts
    PROVE  CalculateFee(a) > 0
BY MaxAmountAssumption, FeeRounding DEF OrderAmounts, MinOrderAmount

\* A text denotes a natural number.
LEMMA TextDigits ==
    ASSUME NEW t \in Texts
    PROVE  /\ t.whole \in Nat
           /\ Len(t.digits) \in 0..5
           /\ Digit(t, 1) \in 0..9 /\ Digit(t, 2) \in 0..9
           /\ Digit(t, 3) \in 0..9 /\ Digit(t, 4) \in 0..9
<1>1. PICK n \in 0..5 : t.digits \in [1..n -> SomeDigits]
    BY DEF Texts
<1>2. t.digits \in Seq(SomeDigits) /\ Len(t.digits) = n
    <2>1. t.digits \in Seq(SomeDigits)
        BY <1>1, SeqDef
    <2>2. 1..Len(t.digits) = 1..n /\ Len(t.digits) \in Nat
        BY <1>1, <2>1, LenProperties
    <2>3. QED BY <2>1, <2>2
<1>3. \A i \in 1..n : t.digits[i] \in 0..9
    BY <1>1, MCMoneyAssumption
<1>4. t.whole \in Nat
    BY MCMoneyAssumption DEF Texts
<1>5. QED BY <1>2, <1>3, <1>4 DEF Digit

LEMMA TextValue ==
    ASSUME NEW t \in Texts
    PROVE  ValueOf(t) \in Nat
<1> DEFINE w == t.whole  a == Digit(t, 1)  b == Digit(t, 2)  c == Digit(t, 3)  d == Digit(t, 4)
<1>1. w \in Nat /\ a \in 0..9 /\ b \in 0..9 /\ c \in 0..9 /\ d \in 0..9
    BY TextDigits
<1>2. ValueOf(t) = 10000 * w + 1000 * a + 100 * b + 10 * c + d
    BY DEF ValueOf
<1> HIDE DEF w, a, b, c, d
<1>3. QED BY <1>1, <1>2

(***************************************************************************)
(* Writing a number and reading it back.                                    *)
(***************************************************************************)

\* toMoneyString loses nothing of an amount that parseMoney admitted.
LEMMA StoredText ==
    ASSUME NEW t \in Texts, Len(t.digits) <= 4
    PROVE  LET stored == ToMoneyString(ValueOf(t))
           IN  /\ ValueOf(stored) = ValueOf(t)
               /\ stored.whole = t.whole
               /\ \A i \in 1..5 : Digit(t, i) = Digit(stored, i)
<1> DEFINE v == ValueOf(t)
           stored == ToMoneyString(v)
<1>1. v \in Nat
    BY TextValue
<1> DEFINE w == t.whole  a == Digit(t, 1)  b == Digit(t, 2)  c == Digit(t, 3)  d == Digit(t, 4)
<1>2. /\ w \in Nat /\ a \in 0..9 /\ b \in 0..9 /\ c \in 0..9 /\ d \in 0..9
      /\ Len(t.digits) \in 0..5
    BY TextDigits
<1>3. /\ v \div 10000 = w
      /\ (v \div 1000) % 10 = a
      /\ (v \div 100) % 10 = b
      /\ (v \div 10) % 10 = c
      /\ v % 10 = d
    <2> v \in Nat /\ v = 10000 * w + 1000 * a + 100 * b + 10 * c + d
        BY <1>1 DEF ValueOf
    <2> HIDE DEF v, w, a, b, c, d
    <2>1. v \div 10000 = w
        BY <1>2
    <2>2. v \div 1000 = 10 * w + a /\ (10 * w + a) % 10 = a
        BY <1>2
    <2>3. v \div 100 = 100 * w + 10 * a + b /\ (100 * w + 10 * a + b) % 10 = b
        BY <1>2
    <2>4. v \div 10 = 1000 * w + 100 * a + 10 * b + c /\ (1000 * w + 100 * a + 10 * b + c) % 10 = c
        BY <1>2
    <2>5. v % 10 = d
        BY <1>2
    <2>6. QED BY <2>1, <2>2, <2>3, <2>4, <2>5
<1>4. stored = [whole |-> w, digits |-> <<a, b, c, d>>]
    BY <1>3 DEF ToMoneyString
<1>5. /\ stored.whole = w
      /\ Digit(stored, 1) = a /\ Digit(stored, 2) = b /\ Digit(stored, 3) = c
      /\ Digit(stored, 4) = d /\ Digit(stored, 5) = 0
    BY <1>4 DEF Digit
<1>6. Digit(t, 5) = 0
    BY <1>2 DEF Digit
<1>7. ValueOf(stored) = v
    BY <1>5 DEF ValueOf
<1>8. \A i \in 1..5 : Digit(t, i) = Digit(stored, i)
    BY <1>5, <1>6
<1>9. QED BY <1>5, <1>7, <1>8

(***************************************************************************)
(* The way of an amount through the program.                                *)
(***************************************************************************)
MoneyInv ==
    /\ text \in Texts
    /\ stage \in {"raw", "rejected", "amount", "priced"}
    /\ stage = "amount" => ParseOrderAmountAccepts(text) /\ amount = ValueOf(text)
    /\ stage = "priced" => amount \in OrderAmounts /\ fee = CalculateFee(amount)

\* parseOrderAmount returns an order amount.
LEMMA ParsedAmount ==
    ASSUME NEW t \in Texts, ParseOrderAmountAccepts(t)
    PROVE  ValueOf(t) \in OrderAmounts /\ Len(t.digits) <= 4
BY TextValue, MaxAmountAssumption
   DEF ParseOrderAmountAccepts, ParseMoneyAccepts, OrderAmounts, MinOrderAmount

LEMMA MoneyInvariant == Spec => []MoneyInv
<1>1. Init => MoneyInv
    BY DEF Init, MoneyInv
<1>2. MoneyInv /\ [Next]_vars => MoneyInv'
    <2> SUFFICES ASSUME MoneyInv, [Next]_vars PROVE MoneyInv'
        OBVIOUS
    <2>1. CASE Parse
        BY <2>1 DEF Parse, MoneyInv, ParseOrderAmountAccepts, ParseMoneyAccepts
    <2>2. CASE Price
        <3>1. ValueOf(text) \in OrderAmounts
            BY <2>2, ParsedAmount DEF Price, MoneyInv
        <3>2. QED BY <2>2, <3>1 DEF Price, MoneyInv
    <2>3. CASE UNCHANGED vars
        BY <2>3 DEF vars, MoneyInv, ParseOrderAmountAccepts, ParseMoneyAccepts
    <2>4. QED BY <2>1, <2>2, <2>3 DEF Next
<1>3. QED BY <1>1, <1>2, PTL DEF Spec

\* calculateFee rounds half-up to four places, for every amount the API admits.
THEOREM FeeRoundsHalfUp == Spec => []FeeIsNearestHalfUp
<1>1. MoneyInv => FeeIsNearestHalfUp
    BY FeeRounding, MaxAmountAssumption
       DEF MoneyInv, FeeIsNearestHalfUp, OrderAmounts, MinOrderAmount
<1>2. QED BY <1>1, MoneyInvariant, PTL

\* No order that POST /orders accepted can have a fee or a payout that the
\* ledger refuses to post, whatever the cap.
THEOREM AdmittedAmountsPostable == Spec => []EveryAdmittedAmountIsPostable
<1>1. MoneyInv => EveryAdmittedAmountIsPostable
    BY FeePositive, PayoutPositive, MaxAmountAssumption
       DEF MoneyInv, EveryAdmittedAmountIsPostable, OrderAmounts, MinOrderAmount
<1>2. QED BY <1>1, MoneyInvariant, PTL

\* The stored text of an amount shows exactly the digits that were sent: two
\* requests for the same amount are matched, two for different ones are not.
THEOREM StoredTextExact == Spec => []StoredTextIsExact
<1>1. MoneyInv => StoredTextIsExact
    <2> SUFFICES ASSUME MoneyInv, stage = "amount" PROVE StoredTextIsExact
        BY DEF StoredTextIsExact
    <2>1. text \in Texts /\ Len(text.digits) <= 4 /\ amount = ValueOf(text)
        BY ParsedAmount DEF MoneyInv
    <2>2. QED BY <2>1, StoredText DEF StoredTextIsExact
<1>2. QED BY <1>1, MoneyInvariant, PTL
=============================================================================
