------------------------------- MODULE Ledger -------------------------------
(***************************************************************************)
(* backend/src/services/ledger.ts and the posting sets that                 *)
(* financial-service.ts builds.  The ledger_entry rows of one order are      *)
(* kept as one signed number per account, debits minus credits: that is     *)
(* all that verify-ledger and the trial balance read of them.               *)
(***************************************************************************)
EXTENDS Integers

Accounts == {"order_balance", "order_pending", "payment_received",
             "fees_owed", "seller_payout"}

NoEntries == [a \in Accounts |-> 0]

\* entry.debit and entry.credit, applied to the nets of one order.
Debit(nets, account, amount)  == [nets EXCEPT ![account] = @ + amount]
Credit(nets, account, amount) == [nets EXCEPT ![account] = @ - amount]

Balance(nets) ==
    nets["order_balance"] + nets["order_pending"] + nets["payment_received"]
      + nets["fees_owed"] + nets["seller_payout"]

PostOrderCreated(nets, amount) ==
    Credit(Debit(nets, "order_balance", amount), "order_pending", amount)

PostPaymentConfirmed(nets, amount) ==
    Credit(Debit(nets, "payment_received", amount), "order_balance", amount)

PostFeeCalculated(nets, fee) ==
    Credit(Debit(nets, "fees_owed", fee), "payment_received", fee)

PostSettlement(nets, payout) ==
    Credit(Debit(nets, "seller_payout", payout), "payment_received", payout)

\* The reversal of a payment, of the fee if one was posted, and of the order.
PostOrderRefunded(nets, amount, fee) ==
    LET payment == Credit(Debit(nets, "order_balance", amount), "payment_received", amount)
        charged == IF fee > 0
                   THEN Credit(Debit(payment, "payment_received", fee), "fees_owed", fee)
                   ELSE payment
    IN  Credit(Debit(charged, "order_pending", amount), "order_balance", amount)

(***************************************************************************)
(* The postings that go with an event: status-only events post nothing.     *)
(***************************************************************************)
PostEvent(nets, eventType, amount, fee) ==
    CASE eventType = "OrderCreated"     -> PostOrderCreated(nets, amount)
      [] eventType = "PaymentConfirmed" -> PostPaymentConfirmed(nets, amount)
      [] eventType = "FeeCalculated"    -> PostFeeCalculated(nets, fee)
      [] eventType = "OrderRefunded"    -> PostOrderRefunded(nets, amount, fee)
      [] OTHER                          -> nets

(***************************************************************************)
(* validatePostings and the CHECK constraints of ledger_entry: amounts are  *)
(* strictly positive and the set balances.  One side per row holds by       *)
(* entry.debit and entry.credit; a refund posts its fee only when positive.  *)
(***************************************************************************)
PostingsValid(eventType, amount, fee) ==
    /\ eventType \in {"OrderCreated", "PaymentConfirmed", "OrderRefunded"} => amount > 0
    /\ eventType = "FeeCalculated" => fee > 0
    /\ Balance(PostEvent(NoEntries, eventType, amount, fee)) = 0
=============================================================================
