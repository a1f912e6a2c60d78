---------------------------- MODULE StateMachine ----------------------------
(***************************************************************************)
(* backend/src/domain/state-machine.ts: which event may happen to an order  *)
(* in which status, and the status it leaves behind.  NONE stands for the   *)
(* null of an order that does not exist yet.                                *)
(***************************************************************************)

Statuses == {"NONE", "CREATED", "PAYMENT_PROCESSING", "PAYMENT_FAILED", "PAID",
             "SHIPPED", "DELIVERED", "REFUNDED"}

OrderEventTypes == {"OrderCreated", "PaymentProcessing", "PaymentConfirmed",
                    "PaymentFailed", "FeeCalculated", "OrderShipped",
                    "OrderDelivered", "OrderRefunded"}

AllowedFrom ==
    [OrderCreated      |-> {"NONE"},
     PaymentProcessing |-> {"CREATED", "PAYMENT_FAILED"},
     PaymentConfirmed  |-> {"CREATED", "PAYMENT_PROCESSING"},
     PaymentFailed     |-> {"PAYMENT_PROCESSING"},
     FeeCalculated     |-> {"PAID"},
     OrderShipped      |-> {"PAID"},
     OrderDelivered    |-> {"SHIPPED"},
     OrderRefunded     |-> {"PAID", "SHIPPED", "DELIVERED"}]

NextStatus ==
    [OrderCreated      |-> "CREATED",
     PaymentProcessing |-> "PAYMENT_PROCESSING",
     PaymentConfirmed  |-> "PAID",
     PaymentFailed     |-> "PAYMENT_FAILED",
     FeeCalculated     |-> "PAID",
     OrderShipped      |-> "SHIPPED",
     OrderDelivered    |-> "DELIVERED",
     OrderRefunded     |-> "REFUNDED"]

\* Mutant: a fresh key may enter PAYMENT_PROCESSING a second time.
ReentryAllowed(eventType, status) ==
    \/ status \in AllowedFrom[eventType]
    \/ eventType = "PaymentProcessing" /\ status = "PAYMENT_PROCESSING"

\* Mutant: an order can be refunded while its payment is being processed.
CancelAllowed(eventType, status) ==
    \/ status \in AllowedFrom[eventType]
    \/ eventType = "OrderRefunded" /\ status = "PAYMENT_PROCESSING"

IsTransitionAllowed(eventType, status) == status \in AllowedFrom[eventType]
=============================================================================
