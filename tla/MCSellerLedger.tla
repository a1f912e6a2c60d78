--------------------------- MODULE MCSellerLedger ---------------------------
(***************************************************************************)
(* Instances of SellerLedger for TLC.  Each XxxCalls is the menu of calls    *)
(* one run lets its clients send, in any order and any number of times; the  *)
(* keys of the menu bound the event log, since no key stores two events.     *)
(***************************************************************************)
EXTENDS SellerLedgerRefinement, TLC

CONSTANTS o1, o2, alice, mallory, bob, w1, w2, s1, s2

\* Client keys are one-token sequences; the saga appends its suffix.
K(n) == <<"k1", "k2", "k3", "k4", "k5", "k6", "k7", "k8", "k9">>[n]
ClientKeys == {<<K(n)>> : n \in 1..9}
DerivedKeys == {Append(k, Suffix[s]) : k \in ClientKeys, s \in DOMAIN Suffix}
AllKeys == ClientKeys \cup DerivedKeys \cup {SettlementAggregate(d) : d \in Days}
AllParties == {alice, mallory, bob} \cup ClientKeys

\* alice pays, mallory's card is declined, bob's bank cannot be reached.
MCOutcome ==
    [p \in AllParties |-> CASE p = mallory -> "declined"
                            [] p = bob     -> "unavailable"
                            [] OTHER       -> "succeeded"]

Create(o, n, amount, customer) ==
    [op |-> "create", order |-> o, key |-> <<K(n)>>, amount |-> amount, party |-> customer]
Do(op, o, n) == [op |-> op, order |-> o, key |-> <<K(n)>>, amount |-> 0, party |-> None]

Permuted == Permutations(Workers)
PermutedSettlers == Permutations(Settlers)

RecordOrder(o, n, amount) == [Create(o, n, amount, alice) EXCEPT !.op = "recordOrder"]
RecordPayment(o, n, amount) ==
    [op |-> "recordPayment", order |-> o, key |-> <<K(n)>>, amount |-> amount, party |-> <<K(n)>>]
CalculateFees(o, n, amount) ==
    [op |-> "calculateFees", order |-> o, key |-> <<K(n)>>, amount |-> amount, party |-> None]
Settle(d, key) == [day |-> d, key |-> key]
\* The key of a settlement call that brings none is the id of its aggregate.
SettleDefault(d) == Settle(d, SettlementAggregate(d))

\* One order: two payments under different keys, fulfilment and refund.
\* Three customers want the order id; the amount of a fourth create is below
\* one cent.
PaymentCalls == {Create(o1, 1, 150, alice), Create(o1, 7, 150, mallory),
                 Create(o1, 8, 150, bob), Create(o1, 1, 99, alice), Do("pay", o1, 2), Do("pay", o1, 3),
                 Do("ship", o1, 4), Do("deliver", o1, 5), Do("refund", o1, 6)}

\* The exported service functions, driven without the saga as an import does:
\* a payment of the wrong amount, a fee on the wrong base, and an order so small
\* that its fee rounds to nothing.
ImportCalls == {RecordOrder(o1, 1, 150), RecordOrder(o1, 2, 16),
                RecordPayment(o1, 3, 150), RecordPayment(o1, 4, 16),
                CalculateFees(o1, 5, 150), CalculateFees(o1, 6, 150),
                CalculateFees(o1, 7, 16), Do("refund", o1, 8)}

\* One order, settled on two days, against its refund and its shipment; one
\* settlement call reuses the key of the shipment.
SettleOneCalls == {Create(o1, 1, 150, alice), Do("pay", o1, 2), Do("ship", o1, 3),
                   Do("refund", o1, 4)}
SettleOneSettles == {SettleDefault(1), Settle(1, <<K(3)>>), SettleDefault(2)}

\* Two orders that fit no settlement column together, settled and refunded.
SettleTwoCalls == {Create(o1, 1, 150, alice), Create(o2, 2, 250, alice),
                   Do("pay", o1, 3), Do("pay", o2, 4), Do("refund", o1, 5)}
BothDays == {SettleDefault(1), SettleDefault(2)}

\* The payment of one order.
FeeWindowCalls == {Create(o1, 1, 150, alice), Do("pay", o1, 2), Do("ship", o1, 3)}

\* Orders paid without the saga, the shortest way to something to settle.
PaidOrder(o, n) == {RecordOrder(o, n, 150), RecordPayment(o, n + 1, 150),
                    CalculateFees(o, n + 2, 150)}
PaidOrRefundedCalls == PaidOrder(o1, 1) \cup {Do("refund", o1, 4)}
TwoPaidCalls == PaidOrder(o1, 1) \cup PaidOrder(o2, 4)
=============================================================================
