---------------------------- MODULE AtomicService ----------------------------
(***************************************************************************)
(* What the service promises (docs/CONCURRENCY.md, docs/FINANCIAL_RULES.md), *)
(* without transactions, read rows, versions, locks, retries or failures:   *)
(* every mutation takes effect in one step, on the orders as they are at    *)
(* that step, and spends an idempotency key nobody has spent before.        *)
(* SellerLedgerRefinement shows that SellerLedger keeps the promise.        *)
(***************************************************************************)
EXTENDS StateMachine, Ledger, Money, FiniteSets, FiniteSetsExt

CONSTANTS Orders, Keys, Days, Amounts

VARIABLES account,   \* what a customer and a seller see of each order
          books,     \* the ledger nets of each order
          spent,     \* the keys of the mutations that took effect
          payouts,   \* the settlement of each day
          today      \* the calendar day

vars == <<account, books, spent, payouts, today>>

Unset == -1
Never == 0

Unopened == [status |-> "NONE", amount |-> 0, fee |-> Unset,
             paidDay |-> Never, settledOn |-> Never]

NoPayout == [closed |-> FALSE, orders |-> {}, total |-> 0]

Init ==
    /\ account = [o \in Orders |-> Unopened]
    /\ books = [o \in Orders |-> NoEntries]
    /\ spent = {}
    /\ payouts = [d \in Days |-> NoPayout]
    /\ today = 1

\* A mutation spends one key, which nobody has spent before.
SpendKey == \E key \in (Keys \cap spent') \ spent : spent' = spent \cup {key}

\* The effect of a mutation on its order and on the order's books.
Effect(o, new, nets) ==
    /\ account' = [account EXCEPT ![o] = new]
    /\ books' = [books EXCEPT ![o] = nets]
    /\ UNCHANGED <<payouts, today>>

\* The whole amount is owed by the customer.
Open(o, amount) ==
    /\ account[o].status = "NONE"
    /\ amount > 0
    /\ Effect(o, [Unopened EXCEPT !.status = "CREATED", !.amount = amount],
              [NoEntries EXCEPT !["order_balance"] = amount, !["order_pending"] = -amount])

\* A change of status that moves no money.
Move(o, type) ==
    /\ IsTransitionAllowed(type, account[o].status)
    /\ Effect(o, [account[o] EXCEPT !.status = NextStatus[type]], books[o])

\* The payment, dated today or on an earlier day the confirmation began on.
Capture(o, day) ==
    /\ IsTransitionAllowed("PaymentConfirmed", account[o].status)
    /\ day <= today
    /\ Effect(o, [account[o] EXCEPT !.status = "PAID", !.paidDay = day],
              [NoEntries EXCEPT !["order_pending"] = -account[o].amount,
                                !["payment_received"] = account[o].amount])

\* The fee, taken once, out of the payment.
TakeFee(o) ==
    LET amount == account[o].amount
        fee    == CalculateFee(amount)
    IN  /\ account[o].status = "PAID" /\ account[o].fee = Unset
        /\ fee > 0
        /\ Effect(o, [account[o] EXCEPT !.fee = fee],
                  [NoEntries EXCEPT !["order_pending"] = -amount, !["fees_owed"] = fee,
                                    !["payment_received"] = amount - fee])

\* A refund of a settled order never takes effect; any other one leaves
\* nothing on the order's accounts.
Refund(o) ==
    /\ IsTransitionAllowed("OrderRefunded", account[o].status)
    /\ account[o].settledOn = Never
    /\ Effect(o, [account[o] EXCEPT !.status = "REFUNDED"], NoEntries)

Payable(o, day) ==
    /\ account[o].status \in {"PAID", "SHIPPED", "DELIVERED"}
    /\ account[o].fee # Unset /\ account[o].settledOn = Never
    /\ account[o].paidDay \in 1..day

NetAmount(o) == account[o].amount - account[o].fee

\* A day is paid out once, for orders that are payable when it happens.
PayOut(day, paid) ==
    /\ ~payouts[day].closed
    /\ \A o \in paid : Payable(o, day)
    /\ payouts' = [payouts EXCEPT ![day] =
                     [closed |-> TRUE, orders |-> paid, total |-> MapThenSumSet(NetAmount, paid)]]
    /\ account' = [o \in Orders |-> IF o \in paid THEN [account[o] EXCEPT !.settledOn = day]
                                                  ELSE account[o]]
    /\ books' = [o \in Orders |->
                   IF o \in paid THEN [books[o] EXCEPT !["payment_received"] = 0,
                                                       !["seller_payout"] = NetAmount(o)]
                                 ELSE books[o]]
    /\ UNCHANGED today

NextDay ==
    /\ today + 1 \in Days
    /\ today' = today + 1
    /\ UNCHANGED <<account, books, spent, payouts>>

OrderMutation(o) ==
    \/ \E amount \in Amounts : Open(o, amount)
    \/ \E type \in {"PaymentProcessing", "PaymentFailed", "OrderShipped", "OrderDelivered"} :
         Move(o, type)
    \/ \E day \in Days : Capture(o, day)
    \/ TakeFee(o)
    \/ Refund(o)

Settlement(day) == \E paid \in SUBSET Orders : PayOut(day, paid)

Next ==
    \/ NextDay
    \/ SpendKey /\ \/ \E o \in Orders : OrderMutation(o)
                   \/ \E day \in Days : Settlement(day)

Spec == Init /\ [][Next]_vars
=============================================================================
