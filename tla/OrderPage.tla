------------------------------ MODULE OrderPage ------------------------------
(***************************************************************************)
(* The buttons of an order's page (frontend/components/OrderActions.tsx)     *)
(* over the keys of frontend/lib/idempotency.ts: each tab keeps one key per  *)
(* action in its sessionStorage until the action succeeds, shows the order   *)
(* it polled last, and resends a key after whatever went wrong.             *)
(***************************************************************************)
EXTENDS HttpApi

CONSTANTS Tabs,         \* the tabs that show the page
          Order,        \* the order it is about
          Uuids         \* what crypto.randomUUID() returns, one after the other

ASSUME OrderPageAssumption ==
    Tabs \subseteq Clients /\ Order \in Orders /\ Uuids \in Seq(Keys)

VARIABLES shown,        \* the order each tab shows
          saved,        \* the keys of each tab's sessionStorage, by action
          busy,         \* the action a tab waits for
          minted        \* how many keys were drawn so far

pageVars == <<shown, saved, busy, minted>>

Actions == {"pay", "ship", "deliver", "refund"}

PageInit ==
    /\ shown = [t \in Tabs |-> NoRow]
    /\ saved = [t \in Tabs |-> [a \in Actions |-> None]]
    /\ busy = [t \in Tabs |-> "none"]
    /\ minted = 0

\* canPay, canShip, canDeliver, canRefund.
Offered(action, row) ==
    CASE action = "pay"     -> row.status \in {"CREATED", "PAYMENT_FAILED", "PAYMENT_PROCESSING"}
      [] action = "ship"    -> row.status = "PAID"
      [] action = "deliver" -> row.status = "SHIPPED"
      [] action = "refund"  -> row.status \in {"PAID", "SHIPPED", "DELIVERED"}
                               /\ row.settlement = NoDay

\* useOrder polls every few seconds; NoRow stands for NOT_FOUND.
PollOrder(t) ==
    /\ shown[t] # orders[Order]
    /\ shown' = [shown EXCEPT ![t] = orders[Order]]
    /\ UNCHANGED <<vars, httpVars, saved, busy, minted>>

\* Mutant: the scope of a key is the order, not the action.
ScopeIsTheOrder(action) == Actions

\* The scope of a key, `${action}:${order.id}`, as the actions that share it.
Scope(action) == {action}

Saved(t, action, key) == [saved EXCEPT ![t] = [a \in Actions |-> IF a \in Scope(action)
                                                                 THEN key ELSE @[a]]]

\* run: a click on an offered button sends the saved key, or a fresh one.
Click(t, action) ==
    /\ busy[t] = "none"
    /\ Offered(action, shown[t])
    /\ \E key \in Keys :
         /\ Request(t, [op |-> action, order |-> Order, key |-> key, amount |-> 0, party |-> None])
         /\ \/ /\ saved[t][action] = key
               /\ UNCHANGED <<saved, minted>>
            \/ /\ saved[t][action] = None
               /\ minted < Len(Uuids) /\ key = Uuids[minted + 1]
               /\ minted' = minted + 1
               /\ saved' = Saved(t, action, key)
    /\ busy' = [busy EXCEPT ![t] = action]
    /\ UNCHANGED shown

\* Mutant: whatever the answer, the key is dropped.
EndsTheIntentAlways(code) == TRUE

\* The answers after which the next click is a new intent.
EndsTheIntent(code) == code \in {"OK", "CARD_DECLINED"}

Answered(t) ==
    /\ busy[t] # "none"
    /\ \E code \in Errors \cup {"OK"} :
         /\ Answer(t, code)
         /\ IF EndsTheIntent(code) THEN saved' = Saved(t, busy[t], None) ELSE UNCHANGED saved
    /\ busy' = [busy EXCEPT ![t] = "none"]
    /\ UNCHANGED <<shown, minted>>

\* NETWORK_ERROR: "click again to retry with the SAME idempotency key".
AfterNetworkError(t) ==
    /\ busy[t] # "none"
    /\ busy' = [busy EXCEPT ![t] = "none"]
    /\ UNCHANGED <<shown, saved, minted>>

NotAnswered(t) == (WorkerDied(t) \/ ConnectionBroke(t)) /\ AfterNetworkError(t)

\* The page is reloaded: React's state is gone, sessionStorage is not.
Reload(t) ==
    /\ Reloaded(t)
    /\ shown' = [shown EXCEPT ![t] = NoRow]
    /\ busy' = [busy EXCEPT ![t] = "none"]
    /\ UNCHANGED <<saved, minted>>

TabNext(t) ==
    PollOrder(t) \/ (\E a \in Actions : Click(t, a)) \/ Answered(t) \/ NotAnswered(t) \/ Reload(t)

(***************************************************************************)
(* Properties.                                                              *)
(***************************************************************************)
Attempt(row) == {e \in EventsOf(Order) : e.version = row.version}

\* While a payment is undecided, some tab still holds the key of the attempt:
\* nothing else can resume it (OrderActions.tsx:41, idempotency.ts:1-8).
AttemptKeyIsKept ==
    orders[Order].status = "PAYMENT_PROCESSING" =>
        \E t \in Tabs : \E e \in Attempt(orders[Order]) :
            saved[t]["pay"] # None /\ e.key = Append(saved[t]["pay"], "processing")

\* A user who retries whatever failed is never told that the key of a button
\* belongs to something else.
UserMeetsNoConflict ==
    \A w \in Workers : call[w].op \in Actions => outcome[w] # "IDEMPOTENCY_CONFLICT"

\* Once the failures stop, every payment that was begun is decided, if the users
\* of all tabs click on the button as long as their pages offer it
\* (OrderActions.tsx:12-15).  The tab that began the payment must be among them:
\* any other one sends a key of its own, whatever its button says, and is refused.
PaymentIsDecided ==
    /\ orders[Order].status = "PAYMENT_PROCESSING"
    /\ Outcome[orders[Order].customer] # "unavailable"
    ~> orders[Order].status # "PAYMENT_PROCESSING"
=============================================================================
