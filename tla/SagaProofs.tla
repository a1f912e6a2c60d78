----------------------------- MODULE SagaProofs ------------------------------
(***************************************************************************)
(* The payment saga and the answers of the service, for any number of        *)
(* orders, workers, settlers, keys and calls.                               *)
(*                                                                         *)
(* The argument.  Money is captured only after the event PaymentProcessing   *)
(* was stored under the client's key (ChargeOK).  An order leaves            *)
(* PAYMENT_PROCESSING by PaymentConfirmed, for good, or by PaymentFailed,    *)
(* which is recorded only for a customer whose card is declined (EventOK),   *)
(* and the provider's answer is a function of the customer.  So the order of *)
(* a captured charge holds one PaymentProcessing event (OneProcessing), and  *)
(* the key that charged it is the key of that event.                        *)
(*                                                                         *)
(* What a worker knows of its call (Sent, TargetOK, FilledOK, StepOK,        *)
(* AnswerOK) is about committed events, charges and the amount and customer  *)
(* of an order, none of which is ever taken back (Grows): no step of another *)
(* actor can make it false.                                                 *)
(***************************************************************************)
EXTENDS BooksProofs, SequenceTheorems

(***************************************************************************)
(* The inductive invariant, on top of IInv and BooksInv.                    *)
(***************************************************************************)

\* Some client may confirm a payment without the saga.
PaymentsAreImported == \E c \in Calls : c.op = "recordPayment"

\* The keys clients start sagas with.
PayKeys == {c.key : c \in {x \in Calls : x.op = "pay"}}

\* The saga of a key has begun on an order.
Processing(key, o) ==
    \E e \in events : /\ e.key = Append(key, "processing")
                      /\ e.type = "PaymentProcessing" /\ e.agg = o

EventOK(e) ==
    /\ e.type # "SettlementProcessed" => e.agg \in Orders
    /\ e.type = "OrderCreated" =>
         orders[e.agg].amount = e.amount /\ orders[e.agg].customer = e.party
    /\ e.type \in {"PaymentConfirmed", "FeeCalculated"} => e.amount = orders[e.agg].amount
    /\ e.type \notin {"OrderCreated", "PaymentConfirmed", "FeeCalculated"} => e.amount = 0
    /\ e.type \notin {"OrderCreated", "PaymentConfirmed"} => e.party = None
    /\ e.type = "PaymentFailed" => Outcome[orders[e.agg].customer] = "declined"
    /\ e.type = "PaymentConfirmed" =>
         \/ PaymentsAreImported
         \/ \E k \in PayKeys : e.key = Append(k, "confirmed") /\ Processing(k, e.agg)

ChargeOK(c) ==
    /\ c[1] \in Orders /\ c[2] \in PayKeys
    /\ Outcome[orders[c[1]].customer] = "succeeded"
    /\ Processing(c[2], c[1])

\* A worker serves a call that a client may send.
Sent(w) ==
    pc[w] # "idle" =>
        \E c \in Calls : call[w].op = c.op /\ call[w].order = c.order /\ call[w].key = c.key

TargetOK(w) == pc[w] \in Writing => call[w].order \in {target[w], AnyOrder}

\* The amount and the customer a saga has read are the order's for good.
Filled(w) ==
    /\ orders[call[w].order].status # "NONE"
    /\ call[w].amount = orders[call[w].order].amount
    /\ call[w].party = orders[call[w].order].customer

FilledOK(w) ==
    /\ call[w].op = "pay" /\ pc[w] \notin {"idle", "find"}
    /\ pc[w] = "reply" => outcome[w] = "OK"
    => Filled(w)

\* How far a saga has come.
StepOK(w) ==
    call[w].op = "pay" /\ pc[w] # "idle" =>
        /\ pc[w] = "find" => step[w] = "PaymentProcessing"
        /\ pc[w] = "charge" => step[w] = "PaymentProcessing"
        /\ pc[w] = "charge" \/ step[w] # "PaymentProcessing" => Processing(call[w].key, call[w].order)
        /\ step[w] = "PaymentFailed" /\ pc[w] # "reply" => Outcome[call[w].party] = "declined"

\* The stored event that backs an answer of success.
Backed(w, e) ==
    /\ e.key = EventKey(w)
    /\ e.type = step[w]
    /\ call[w].order \in {e.agg, AnyOrder}
    /\ call[w].op \in {"create", "pay"} =>
         orders[e.agg].amount = call[w].amount /\ orders[e.agg].customer = call[w].party

AnswerOK(w) ==
    /\ pc[w] = "reply" /\ outcome[w] = "OK" => \E e \in events : Backed(w, e)
    /\ pc[w] = "recheck" => outcome[w] # "OK"

WorkerOK(w) == Sent(w) /\ TargetOK(w) /\ FilledOK(w) /\ StepOK(w) /\ AnswerOK(w)

SagaInv ==
    /\ \A e \in events : EventOK(e)
    /\ \A c \in charges : ChargeOK(c)
    /\ \A w \in Workers : WorkerOK(w)

(***************************************************************************)
(* What no step takes back.                                                 *)
(***************************************************************************)
Grows ==
    /\ events \subseteq events' /\ charges \subseteq charges'
    /\ \A o \in Orders : orders[o].status # "NONE" =>
         /\ orders'[o].status # "NONE"
         /\ orders'[o].amount = orders[o].amount /\ orders'[o].customer = orders[o].customer

LEMMA ChargesGrow ==
    ASSUME NEW w \in Workers, WorkerNext(w)
    PROVE  charges \subseteq charges'
BY DEF WorkerNext, Start, Progress, FindOrder, Lookup, Recheck, ReplayOr, Continue, ReadOrder, Throw,
       ReadLatest, InsertEvent, UpdateOrder, Commit, Charge, Finish, Reset, Failure, CommitAckLost,
       Abort, QueryFails, Crash

LEMMA StepGrows ==
    ASSUME IInv, BooksInv, [Next]_vars
    PROVE  Grows
<1>1. ASSUME NEW w \in Workers, WorkerStep(w) PROVE Grows
    <2>1. charges \subseteq charges'
        BY <1>1, ChargesGrow DEF WorkerStep
    <2>2. CASE WorkerQuiet(w)
        BY <2>1, <2>2 DEF WorkerQuiet, committedVars, Grows
    <2>3. CASE Publishes(w)
        <3>1. PICK o \in Orders : o = target[w]
            BY <2>3, CommitFacts DEF Publishes
        <3>2. RowKept(orders[o], orders'[o])
            BY <2>3, <3>1, PublishedRow
        <3>3. /\ events' = events \cup {pending[w]}
              /\ \A x \in Orders \ {o} : orders'[x] = orders[x]
            BY <2>3, <3>1, PublishedRows
        <3>4. QED BY <2>1, <3>2, <3>3 DEF RowKept, Grows
    <2>4. QED BY <1>1, <2>2, <2>3, WorkerShapes
<1>2. ASSUME NEW s \in Settlers, SettlerStep(s) PROVE Grows
    <2>1. charges' = charges
        BY <1>2 DEF SettlerStep, orderVars
    <2>2. CASE SettlerQuiet(s)
        BY <2>1, <2>2 DEF SettlerQuiet, committedVars, Grows
    <2>3. CASE PublishesSettlement(s)
        <3>1. events \subseteq events'
            BY <2>3 DEF PublishesSettlement, PublishSettlement
        <3>2. ASSUME NEW o \in Orders
              PROVE  /\ orders'[o].status = orders[o].status
                     /\ orders'[o].amount = orders[o].amount /\ orders'[o].customer = orders[o].customer
            <4>1. orders[o] \in OrderRow
                BY DEF IInv, TypeOK, DbTypeOK
            <4>2. orders'[o] \in {orders[o], [orders[o] EXCEPT !.settlement = scall[s].day]}
                BY <2>3, SettledRows
            <4>3. QED BY <4>1, <4>2 DEF OrderRow
        <3>3. QED BY <2>1, <3>1, <3>2 DEF Grows
    <2>4. QED BY <1>2, <2>2, <2>3, SettlerShapes
<1>3. CASE CalendarStep \/ UNCHANGED vars
    BY <1>3 DEF CalendarStep, AdvanceDay, committedVars, vars, dbVars, orderVars, Grows
<1>4. QED BY <1>1, <1>2, <1>3 DEF Next

\* An order with an event has a row.
LEMMA EventRowExists ==
    ASSUME IInv, BooksInv, NEW e \in events, e.agg \in Orders
    PROVE  orders[e.agg].status # "NONE"
<1>1. StreamOK(e.agg) /\ RowOK(e.agg) /\ e \in EventsOf(e.agg)
    BY DEF IInv, BooksInv, EventsOf
<1>2. e.version \in 1..orders[e.agg].version
    BY <1>1 DEF StreamOK
<1>3. orders[e.agg].version # 0
    BY <1>2
<1>4. QED BY <1>1, <1>3 DEF RowOK, NoRow

LEMMA ProcessingKept ==
    ASSUME Grows, NEW key, NEW o, Processing(key, o)
    PROVE  Processing(key, o)'
BY DEF Grows, Processing

LEMMA EventKept ==
    ASSUME IInv, BooksInv, Grows, NEW e \in events, EventOK(e)
    PROVE  EventOK(e)'
<1>1. e.agg \in Orders => /\ orders'[e.agg].amount = orders[e.agg].amount
                          /\ orders'[e.agg].customer = orders[e.agg].customer
    BY EventRowExists DEF Grows
<1>2. \A k : Processing(k, e.agg) => Processing(k, e.agg)'
    BY ProcessingKept
<1>3. QED BY <1>1, <1>2 DEF EventOK

LEMMA ChargeKept ==
    ASSUME IInv, BooksInv, Grows, NEW c \in charges, ChargeOK(c)
    PROVE  ChargeOK(c)'
<1>1. c[1] \in Orders /\ orders[c[1]].status # "NONE" /\ Processing(c[2], c[1])
    BY EventRowExists DEF ChargeOK, Processing
<1>2. Processing(c[2], c[1])'
    BY <1>1, ProcessingKept
<1>3. QED BY <1>1, <1>2 DEF ChargeOK, Grows

LEMMA FilledKept ==
    ASSUME IInv, Grows, NEW w \in Workers, pc[w] # "idle", call[w].op = "pay", Filled(w),
           call'[w] = call[w]
    PROVE  Filled(w)'
<1>1. call[w].order \in Orders
    BY CallType DEF IInv
<1>2. QED BY <1>1 DEF Filled, Grows

\* What backs an answer goes on backing it.
LEMMA BackedKept ==
    ASSUME IInv, BooksInv, Grows, NEW w \in Workers, pc[w] # "idle", NEW e \in events, EventOK(e),
           Backed(w, e), call'[w] = call[w], step'[w] = step[w]
    PROVE  Backed(w, e)'
<1>1. step[w] \in OrderEventTypes
    BY StepType DEF IInv, TypeOK
<1>2. e.agg \in Orders
    BY <1>1 DEF Backed, EventOK, OrderEventTypes
<1>3. /\ orders'[e.agg].amount = orders[e.agg].amount
      /\ orders'[e.agg].customer = orders[e.agg].customer
    BY <1>2, EventRowExists DEF Grows
<1>4. QED BY <1>3 DEF Backed, EventKey

\* A worker that does not move keeps what it knows.
LEMMA WorkerKept ==
    ASSUME IInv, BooksInv, SagaInv, Grows, NEW w \in Workers,
           pc'[w] = pc[w], call'[w] = call[w], step'[w] = step[w], target'[w] = target[w],
           outcome'[w] = outcome[w]
    PROVE  WorkerOK(w)'
<1>1. Sent(w) /\ TargetOK(w) /\ FilledOK(w) /\ StepOK(w) /\ AnswerOK(w)
    BY DEF SagaInv, WorkerOK
<1>2. Sent(w)' /\ TargetOK(w)'
    BY <1>1 DEF Sent, TargetOK
<1>3. FilledOK(w)'
    BY <1>1, FilledKept DEF FilledOK
<1>4. StepOK(w)'
    <2>1. Processing(call[w].key, call[w].order) => Processing(call[w].key, call[w].order)'
        BY DEF Processing, Grows
    <2>2. QED BY <1>1, <2>1 DEF StepOK
<1>5. AnswerOK(w)'
    <2>1. ASSUME pc[w] = "reply", outcome[w] = "OK" PROVE \E e \in events' : Backed(w, e)'
        <3>1. PICK e \in events : Backed(w, e)
            BY <1>1, <2>1 DEF AnswerOK
        <3>2. Backed(w, e)' /\ e \in events'
            BY <2>1, <3>1, BackedKept DEF SagaInv, Grows
        <3>3. QED BY <3>2
    <2>2. QED BY <1>1, <2>1 DEF AnswerOK
<1>6. QED BY <1>2, <1>3, <1>4, <1>5 DEF WorkerOK

(***************************************************************************)
(* The steps of a worker.                                                   *)
(***************************************************************************)

\* What follows a mutation whose event is stored.
LEMMA ContinueOK ==
    ASSUME IInv, BooksInv, SagaInv, Grows, NEW w \in Workers,
           pc[w] \notin {"idle", "find", "charge", "reply"},
           Continue(w), NEW e \in events', e.key = EventKey(w), e.type = step[w],
           call[w].order \in {e.agg, AnyOrder},
           call[w].op = "create" =>
             orders'[e.agg].amount = call[w].amount /\ orders'[e.agg].customer = call[w].party
    PROVE  WorkerOK(w)'
<1>1. /\ CallOK(w) /\ OrderTypeOK /\ Sent(w) /\ FilledOK(w) /\ StepOK(w)
    BY DEF IInv, TypeOK, SagaInv, WorkerOK
<1>2. /\ call' = call /\ pc'[w] \in {"charge", "lookup", "reply"}
      /\ step'[w] = step[w] \/ (call[w].op = "pay" /\ step'[w] = "FeeCalculated")
      /\ pc'[w] = "charge" => step[w] = "PaymentProcessing" /\ step'[w] = step[w]
      /\ pc'[w] = "reply" /\ outcome'[w] = "OK" =>
           /\ step[w] \notin {"PaymentProcessing", "PaymentFailed"} /\ step'[w] = step[w]
           /\ ~(step[w] = "PaymentConfirmed" /\ call[w].op = "pay")
      /\ step[w] = "PaymentFailed" => pc'[w] = "reply"
    BY <1>1 DEF Continue, Goto, Reply, OrderTypeOK
<1>3. call[w].op = "pay" => /\ Filled(w) /\ Filled(w)' /\ call[w].order \in Orders
                            /\ call[w].order = e.agg /\ step[w] \in DOMAIN Suffix
    BY <1>1, <1>2, FilledKept, CallType, OrderServiceAssumption DEF FilledOK, IInv, CallOK
<1>4. Sent(w)' /\ TargetOK(w)' /\ FilledOK(w)'
    BY <1>1, <1>2, <1>3 DEF Sent, TargetOK, FilledOK, Writing
<1>5. StepOK(w)'
    <2>1. ASSUME call[w].op = "pay" PROVE Processing(call[w].key, call[w].order)'
        <3>1. CASE step[w] = "PaymentProcessing"
            BY <1>2, <1>3, <2>1, <3>1 DEF Processing, EventKey, Suffix
        <3>2. CASE step[w] # "PaymentProcessing"
            BY <1>1, <1>2, <2>1, <3>2 DEF StepOK, Processing, Grows
        <3>3. QED BY <3>1, <3>2
    <2>2. QED BY <1>2, <2>1 DEF StepOK
<1>6. AnswerOK(w)'
    <2>1. ASSUME pc'[w] = "reply", outcome'[w] = "OK" PROVE Backed(w, e)'
        <3>1. EventKey(w)' = EventKey(w) /\ step'[w] = step[w]
            BY <1>2, <2>1 DEF EventKey
        <3>2. call[w].op = "pay" => /\ orders'[e.agg].amount = call[w].amount
                                    /\ orders'[e.agg].customer = call[w].party
            BY <1>2, <1>3 DEF Filled
        <3>3. QED BY <1>2, <3>1, <3>2 DEF Backed
    <2>2. QED BY <1>2, <2>1 DEF AnswerOK
<1>7. QED BY <1>4, <1>5, <1>6 DEF WorkerOK

\* A worker inside one call, with the mutation it had.
LEMMA SameStepOK ==
    ASSUME IInv, BooksInv, SagaInv, Grows, NEW w \in Workers,
           pc[w] \notin {"idle", "find", "charge", "reply"}, call'[w] = call[w], step'[w] = step[w],
           pc'[w] \notin {"idle", "find", "charge"},
           pc'[w] \in {"reply", "recheck"} => outcome'[w] # "OK",
           TargetOK(w)'
    PROVE  WorkerOK(w)'
<1>1. Sent(w) /\ FilledOK(w) /\ StepOK(w)
    BY DEF SagaInv, WorkerOK
<1>2. Sent(w)' /\ AnswerOK(w)'
    BY <1>1 DEF Sent, AnswerOK
<1>3. FilledOK(w)'
    BY <1>1, FilledKept DEF FilledOK
<1>4. StepOK(w)'
    <2>1. Processing(call[w].key, call[w].order) => Processing(call[w].key, call[w].order)'
        BY DEF Processing, Grows
    <2>2. QED BY <1>1, <2>1 DEF StepOK
<1>5. QED BY <1>2, <1>3, <1>4 DEF WorkerOK

LEMMA StartOK ==
    ASSUME IInv, NEW w \in Workers, Start(w)
    PROVE  WorkerOK(w)'
<1>1. PICK c \in Calls :
         /\ call' = [call EXCEPT ![w] = c]
         /\ step' = [step EXCEPT ![w] = FirstStep[c.op]]
         /\ \/ /\ c.op = "create"
               /\ Reply(w, "VALIDATION_ERROR")
            \/ /\ Goto(w, IF c.op = "pay" THEN "find" ELSE "lookup")
               /\ UNCHANGED outcome
    BY DEF Start
<1>2. OrderTypeOK
    BY DEF IInv, TypeOK
<1>3. /\ call'[w] = c /\ step'[w] = FirstStep[c.op]
      /\ pc'[w] \in {"find", "lookup", "reply"}
      /\ c.op = "pay" => pc'[w] = "find"
      /\ pc'[w] = "reply" => outcome'[w] = "VALIDATION_ERROR"
    BY <1>1, <1>2 DEF Reply, Goto, OrderTypeOK
<1>4. c.op = "pay" => step'[w] = "PaymentProcessing"
    BY <1>3 DEF FirstStep
<1>5. QED BY <1>1, <1>3, <1>4 DEF WorkerOK, Sent, TargetOK, FilledOK, StepOK, AnswerOK, Writing

LEMMA FindOrderOK ==
    ASSUME IInv, BooksInv, SagaInv, NEW w \in Workers, FindOrder(w)
    PROVE  WorkerOK(w)'
<1>1. /\ pc[w] = "find" /\ CallOK(w) /\ OrderTypeOK /\ Sent(w) /\ StepOK(w)
      /\ call[w].op = "pay" /\ call[w].order \in Orders /\ call[w] \in Call
    BY CallType DEF FindOrder, IInv, TypeOK, SagaInv, WorkerOK, CallOK
<1>2. step[w] = "PaymentProcessing" /\ step' = step /\ orders' = orders
    BY <1>1 DEF StepOK, FindOrder, dbVars
<1>3. CASE orders[call[w].order].status = "NONE"
    <2>1. pc'[w] = "reply" /\ outcome'[w] = "NOT_FOUND" /\ call' = call
        BY <1>1, <1>3 DEF FindOrder, Reply, Goto, OrderTypeOK
    <2>2. QED BY <1>1, <1>2, <2>1 DEF WorkerOK, Sent, TargetOK, FilledOK, StepOK, AnswerOK, Writing
<1>4. CASE orders[call[w].order].status # "NONE"
    <2> DEFINE row == orders[call[w].order]
    <2>1. /\ call' = [call EXCEPT ![w].amount = row.amount, ![w].party = row.customer]
          /\ pc'[w] = "lookup"
        BY <1>1, <1>4 DEF FindOrder, Goto, OrderTypeOK
    <2>2. /\ call'[w].op = "pay" /\ call'[w].order = call[w].order /\ call'[w].key = call[w].key
          /\ call'[w].amount = row.amount /\ call'[w].party = row.customer
        BY <1>1, <2>1 DEF OrderTypeOK, Call
    <2>3. Filled(w)'
        BY <1>2, <1>4, <2>2 DEF Filled
    <2>4. Sent(w)'
        BY <1>1, <2>2 DEF Sent
    <2>5. QED BY <1>2, <2>1, <2>3, <2>4 DEF WorkerOK, TargetOK, FilledOK, StepOK, AnswerOK, Writing
<1>5. QED BY <1>3, <1>4

\* Before and after a transaction: the stored event is this call's.
LEMMA ReplayOK ==
    ASSUME IInv, BooksInv, SagaInv, Grows, NEW w \in Workers, Lookup(w) \/ Recheck(w)
    PROVE  WorkerOK(w)'
<1>1. /\ pc[w] \in {"lookup", "recheck"} /\ CallOK(w) /\ OrderTypeOK /\ orders' = orders
      /\ events' = events
      /\ pc[w] = "recheck" => outcome[w] # "OK"
    BY DEF Lookup, Recheck, IInv, TypeOK, dbVars, SagaInv, WorkerOK, AnswerOK
<1>2. CASE \E e \in StoredUnder(EventKey(w)) : Replayable(e, w) /\ Continue(w)
    <2>1. PICK e \in events : e.key = EventKey(w) /\ SameIntent(e, w) /\ Continue(w)
        BY <1>2 DEF StoredUnder, Replayable
    <2>2. call[w].op = "create" => step[w] = "OrderCreated"
        BY <1>1 DEF CallOK, FirstStep
    <2>3. call[w].op = "create" => /\ orders[e.agg].amount = call[w].amount
                                   /\ orders[e.agg].customer = call[w].party
        BY <2>1, <2>2 DEF SameIntent, PayloadAmount, PayloadParty, SagaInv, EventOK
    <2>4. QED BY <1>1, <2>1, <2>3, ContinueOK DEF SameIntent
<1>3. CASE ~\E e \in StoredUnder(EventKey(w)) : Replayable(e, w) /\ Continue(w)
    <2>1. /\ call' = call /\ step' = step
          /\ pc'[w] \in {"read", "reply"}
          /\ pc'[w] = "reply" => outcome'[w] \in {"IDEMPOTENCY_CONFLICT", "NOT_FOUND"}
                                 \/ (pc[w] = "recheck" /\ outcome'[w] = outcome[w])
        BY <1>1, <1>3 DEF Lookup, Recheck, ReplayOr, Reply, Goto, OrderTypeOK
    <2>2. QED BY <1>1, <2>1, SameStepOK DEF TargetOK, Writing
<1>4. QED BY <1>2, <1>3

\* A statement that goes wrong outside a transaction, an outage of the provider.
LEMMA FailOK ==
    ASSUME IInv, BooksInv, SagaInv, Grows, NEW w \in Workers, pc[w] # "idle", pc[w] # "reply",
           call'[w] = call[w], step'[w] = step[w], pc'[w] = "reply", outcome'[w] # "OK"
    PROVE  WorkerOK(w)'
<1>1. Sent(w) /\ StepOK(w)
    BY DEF SagaInv, WorkerOK
<1>2. Sent(w)' /\ TargetOK(w)' /\ FilledOK(w)' /\ AnswerOK(w)'
    BY <1>1 DEF Sent, TargetOK, FilledOK, AnswerOK, Writing
<1>3. StepOK(w)'
    <2>1. Processing(call[w].key, call[w].order) => Processing(call[w].key, call[w].order)'
        BY DEF Processing, Grows
    <2>2. QED BY <1>1, <2>1 DEF StepOK
<1>4. QED BY <1>2, <1>3 DEF WorkerOK

LEMMA ThrowOK ==
    ASSUME IInv, BooksInv, SagaInv, Grows, NEW w \in Workers, pc[w] \in InTransaction,
           NEW code, code # "OK", Throw(w, code)
    PROVE  WorkerOK(w)'
<1>1. OrderTypeOK
    BY DEF IInv, TypeOK
<1>2. /\ call' = call /\ step' = step /\ pc'[w] = "recheck" /\ outcome'[w] = code
    BY <1>1 DEF Throw, Goto, OrderTypeOK
<1>3. QED BY <1>2, SameStepOK DEF TargetOK, Writing, InTransaction

\* The statements of a transaction.
LEMMA TransactionOK ==
    ASSUME IInv, BooksInv, SagaInv, Grows, NEW w \in Workers,
           ReadOrder(w) \/ ReadLatest(w) \/ InsertEvent(w) \/ UpdateOrder(w) \/ Abort(w)
    PROVE  WorkerOK(w)'
<1>1. /\ pc[w] \in InTransaction /\ OrderTypeOK /\ TargetOK(w) /\ CallOK(w)
    BY DEF ReadOrder, ReadLatest, InsertEvent, UpdateOrder, Abort, InTransaction, IInv, TypeOK,
           SagaInv, WorkerOK
<1>2. CASE \E code : code # "OK" /\ Throw(w, code)
    BY <1>1, <1>2, ThrowOK
<1>3. CASE ~\E code : code # "OK" /\ Throw(w, code)
    <2>1. CASE ReadOrder(w)
        <3>1. PICK o \in IF call[w].order = AnyOrder THEN FreshIds ELSE {call[w].order} :
                 \/ /\ target' = [target EXCEPT ![w] = o]
                    /\ Goto(w, "insert") \/ Goto(w, "latest")
                    /\ UNCHANGED <<call, step, outcome>>
                 \/ Rejection(w, orders[o]) # "none" /\ Throw(w, Rejection(w, orders[o]))
            BY <2>1 DEF ReadOrder
        <3>2. target' = [target EXCEPT ![w] = o] /\ (Goto(w, "insert") \/ Goto(w, "latest"))
              /\ UNCHANGED <<call, step, outcome>>
            BY <1>3, <3>1 DEF Rejection
        <3>3. pc'[w] \in {"insert", "latest"} /\ call' = call /\ step' = step
            BY <1>1, <3>2 DEF Goto, OrderTypeOK
        <3>4. target'[w] = o /\ call[w].order \in {o, AnyOrder}
            BY <1>1, <3>1, <3>2 DEF OrderTypeOK
        <3>5. QED BY <1>1, <3>3, <3>4, SameStepOK DEF TargetOK, InTransaction
    <2>2. CASE ReadLatest(w) \/ InsertEvent(w) \/ UpdateOrder(w)
        <3>1. /\ call' = call /\ step' = step /\ target' = target
              /\ pc[w] \in {"latest", "insert", "update"}
              /\ pc'[w] \in {"insert", "update", "commit"}
            BY <1>1, <1>3, <2>2
               DEF ReadLatest, InsertEvent, UpdateOrder, Goto, OrderTypeOK
        <3>2. QED BY <1>1, <3>1, SameStepOK DEF TargetOK, InTransaction, Writing
    <2>3. CASE Abort(w)
        BY <1>3, <2>3 DEF Abort
    <2>4. QED BY <2>1, <2>2, <2>3
<1>4. QED BY <1>2, <1>3

\* The commit publishes the event this call asked for.
LEMMA PublishedEvent ==
    ASSUME IInv, BooksInv, SagaInv, NEW w \in Workers, Publishes(w)
    PROVE  /\ pending[w] \in events' /\ events' = events \cup {pending[w]}
           /\ pending[w].key = EventKey(w) /\ pending[w].type = step[w]
           /\ pending[w].agg = target[w] /\ target[w] \in Orders
           /\ call[w].order \in {target[w], AnyOrder}
           /\ step[w] = "OrderCreated" =>
                /\ pending[w].amount = call[w].amount /\ pending[w].party = call[w].party
                /\ orders'[target[w]].amount = call[w].amount
                /\ orders'[target[w]].customer = call[w].party
           /\ step[w] # "OrderCreated" =>
                orders'[target[w]].customer = orders[target[w]].customer
<1>1. pc[w] = "commit"
    BY DEF Publishes
<1>2. EventFixed(w) /\ TargetOK(w)
    BY DEF BooksInv, SagaInv, WorkerOK
<1>3. /\ events' = events \cup {pending[w]}
      /\ orders'[target[w]] = Written(orders[target[w]], pending[w])
    BY PublishedRows
<1>4. /\ pending[w].agg = target[w] /\ pending[w].type = step[w] /\ target[w] \in Orders
    BY <1>1, CommitFacts
<1>5. /\ step[w] = "OrderCreated" => /\ orders'[target[w]].amount = call[w].amount
                                     /\ orders'[target[w]].customer = call[w].party
      /\ step[w] # "OrderCreated" => orders'[target[w]].customer = orders[target[w]].customer
    BY <1>1, <1>3, WrittenRow
<1>6. QED BY <1>1, <1>2, <1>3, <1>4, <1>5
          DEF EventFixed, PayloadAmount, PayloadParty, TargetOK, Writing

LEMMA PublishEventOK ==
    ASSUME IInv, BooksInv, SagaInv, Grows, NEW w \in Workers, Publishes(w),
           NEW e, e = pending[w]
    PROVE  EventOK(e)'
<1>1. /\ pc[w] = "commit" /\ CallOK(w) /\ Sent(w) /\ FilledOK(w) /\ StepOK(w)
      /\ e \in events' /\ e.key = EventKey(w) /\ e.type = step[w]
      /\ e.agg = target[w] /\ target[w] \in Orders /\ call[w].order \in {target[w], AnyOrder}
    BY PublishedEvent DEF Publishes, IInv, SagaInv, WorkerOK
<1>2. e.type = "OrderCreated" => /\ orders'[e.agg].amount = e.amount
                                 /\ orders'[e.agg].customer = e.party
    BY <1>1, PublishedEvent
<1>3. call[w].op = "pay" => call[w].order = e.agg /\ Filled(w)
    BY <1>1, CallType, OrderServiceAssumption DEF IInv, FilledOK
<1>4. ASSUME e.type = "PaymentFailed" PROVE Outcome[orders'[e.agg].customer] = "declined"
    <2>1. call[w].op = "pay"
        BY <1>1, <1>4 DEF CallOK, FirstStep, Call, Ops
    <2>2. Outcome[orders[e.agg].customer] = "declined"
        BY <1>1, <1>3, <1>4, <2>1 DEF StepOK, Filled
    <2>3. orders'[e.agg].customer = orders[e.agg].customer
        BY <1>1, <1>4, PublishedEvent
    <2>4. QED BY <2>2, <2>3
<1>5. ASSUME e.type = "PaymentConfirmed", ~PaymentsAreImported
      PROVE  \E k \in PayKeys : e.key = Append(k, "confirmed") /\ Processing(k, e.agg)'
    <2>1. PICK c \in Calls : call[w].op = c.op /\ call[w].order = c.order /\ call[w].key = c.key
        BY <1>1 DEF Sent
    <2>2. call[w].op = "pay"
        BY <1>1, <1>5, <2>1 DEF CallOK, FirstStep, Call, Ops, PaymentsAreImported
    <2>3. call[w].key \in PayKeys
        BY <2>1, <2>2 DEF PayKeys
    <2>4. e.key = Append(call[w].key, "confirmed")
        BY <1>1, <1>5, <2>2 DEF EventKey, Suffix
    <2>5. Processing(call[w].key, call[w].order)
        BY <1>1, <1>5, <2>2 DEF StepOK
    <2>6. PICK k \in PayKeys : k = call[w].key
        BY <2>3
    <2>7. Processing(k, e.agg)'
        BY <1>3, <2>2, <2>5, <2>6 DEF Processing, Grows
    <2>8. QED BY <2>4, <2>6, <2>7
<1>6. /\ e.type \in {"PaymentConfirmed", "FeeCalculated"} => e.amount = orders'[e.agg].amount
      /\ e.type \notin {"OrderCreated", "PaymentConfirmed", "FeeCalculated"} => e.amount = 0
      /\ e.type \notin {"OrderCreated", "PaymentConfirmed"} => e.party = None
    <2>1. e.amount = PayloadAmount(w) /\ e.party = PayloadParty(w) /\ SeenOK(w)
        BY <1>1 DEF BooksInv, EventFixed
    <2>2. seen[w].amount = orders[target[w]].amount
        BY <1>1, CommitFacts
    <2>3. step[w] # "OrderCreated" => orders'[target[w]].amount = orders[target[w]].amount
        BY <1>1, PublishedRows, WrittenRow
    <2>4. step[w] \in {"PaymentConfirmed", "FeeCalculated"} => call[w].amount = orders'[target[w]].amount
        BY <1>1, <2>1, <2>2, <2>3 DEF SeenOK, Writing
    <2>5. step[w] \in OrderEventTypes
        BY <1>1, CommitFacts
    <2>6. QED BY <1>1, <2>1, <2>4, <2>5 DEF PayloadAmount, PayloadParty, OrderEventTypes
<1>7. QED BY <1>1, <1>2, <1>4, <1>5, <1>6 DEF EventOK, PaymentsAreImported

LEMMA CommitOK ==
    ASSUME IInv, BooksInv, SagaInv, Grows, NEW w \in Workers, Publishes(w),
           Commit(w) \/ CommitAckLost(w)
    PROVE  WorkerOK(w)'
<1>1. /\ pc[w] = "commit" /\ CallOK(w) /\ OrderTypeOK
    BY DEF Publishes, IInv, TypeOK
<1>2. CASE Commit(w)
    <2>1. call[w].op = "create" => step[w] = "OrderCreated"
        BY <1>1 DEF CallOK, FirstStep
    <2>2. PICK e \in events' : e = pending[w]
        BY PublishedEvent
    <2>3. /\ e.key = EventKey(w) /\ e.type = step[w] /\ call[w].order \in {e.agg, AnyOrder}
          /\ call[w].op = "create" =>
               orders'[e.agg].amount = call[w].amount /\ orders'[e.agg].customer = call[w].party
        BY <2>1, <2>2, PublishedEvent
    <2>4. QED BY <1>1, <1>2, <2>3, ContinueOK DEF Commit
<1>3. CASE CommitAckLost(w)
    <2>1. /\ call' = call /\ step' = step /\ pc'[w] = "recheck" /\ outcome'[w] = "INTERNAL_ERROR"
        BY <1>1, <1>3 DEF CommitAckLost, Goto, OrderTypeOK
    <2>2. QED BY <1>1, <2>1, SameStepOK DEF TargetOK, Writing
<1>4. QED BY <1>2, <1>3

\* The provider answers.
LEMMA ChargeStepOK ==
    ASSUME IInv, BooksInv, SagaInv, Grows, NEW w \in Workers, Charge(w)
    PROVE  WorkerOK(w)' /\ \A c \in charges' : ChargeOK(c)'
<1>1. /\ pc[w] = "charge" /\ CallOK(w) /\ OrderTypeOK /\ Sent(w) /\ FilledOK(w) /\ StepOK(w)
      /\ call[w].op = "pay" /\ call[w].order \in Orders
      /\ call' = call /\ orders' = orders /\ events' = events
    BY CallType DEF Charge, IInv, TypeOK, SagaInv, WorkerOK, CallOK, dbVars
<1>2. Filled(w) /\ Filled(w)'
    BY <1>1, FilledKept DEF FilledOK
<1>3. Processing(call[w].key, call[w].order) /\ step[w] = "PaymentProcessing"
    BY <1>1 DEF StepOK
<1>4. ASSUME NEW c \in charges' PROVE ChargeOK(c)'
    <2>1. CASE c \in charges
        BY <2>1, ChargeKept DEF SagaInv
    <2>2. CASE c \notin charges
        <3>1. c = <<call[w].order, call[w].key>> /\ Outcome[call[w].party] = "succeeded"
            BY <2>2 DEF Charge
        <3>2. PICK m \in Calls : call[w].op = m.op /\ call[w].order = m.order /\ call[w].key = m.key
            BY <1>1 DEF Sent
        <3>3. c[1] = call[w].order /\ c[2] = call[w].key /\ c[2] \in PayKeys
            BY <1>1, <3>1, <3>2 DEF PayKeys
        <3>4. Processing(c[2], c[1])'
            BY <1>1, <1>3, <3>3 DEF Processing
        <3>5. QED BY <1>1, <1>2, <3>1, <3>3, <3>4 DEF ChargeOK, Filled
    <2>3. QED BY <2>1, <2>2
<1>5. CASE step'[w] = step[w] /\ pc'[w] = "reply"
    <2>1. outcome'[w] = "STRIPE_ERROR"
        BY <1>1, <1>3, <1>5 DEF Charge, Goto, Reply, OrderTypeOK
    <2>2. QED BY <1>1, <1>4, <1>5, <2>1, FailOK
<1>6. CASE pc'[w] = "lookup" /\ step'[w] \in {"PaymentConfirmed", "PaymentFailed"}
    <2>1. step'[w] = "PaymentFailed" => Outcome[call[w].party] = "declined"
        BY <1>1, <1>3, <1>6 DEF Charge, OrderTypeOK
    <2>2. Processing(call[w].key, call[w].order)'
        BY <1>1, <1>3 DEF Processing
    <2>3. StepOK(w)'
        BY <1>1, <1>6, <2>1, <2>2 DEF StepOK
    <2>4. QED BY <1>1, <1>2, <1>4, <1>6, <2>3
              DEF WorkerOK, Sent, TargetOK, FilledOK, AnswerOK, Writing
<1>7. QED BY <1>1, <1>5, <1>6 DEF Charge, Goto, Reply, OrderTypeOK

(***************************************************************************)
(* The invariant is inductive.                                              *)
(***************************************************************************)
LEMMA SagaInit == Init => SagaInv
BY DEF Init, DbInit, OrderInit, SagaInv, WorkerOK, Sent, TargetOK, FilledOK, StepOK, AnswerOK,
       Writing, NoCall

\* A worker's step leaves the others where they were.
LEMMA OthersStay ==
    ASSUME IInv, BooksInv, NEW w \in Workers, WorkerStep(w)
    PROVE  OnlyWorker(w) /\ \A u \in Workers \ {w} : outcome'[u] = outcome[u]
<1>1. OnlyWorker(w)
    BY WorkerShapes DEF WorkerQuiet, Publishes
<1>2. OrderTypeOK
    BY DEF IInv, TypeOK
<1>3. outcome' = [outcome EXCEPT ![w] = outcome'[w]]
    BY <1>2 DEF WorkerStep, WorkerNext, Start, Progress, FindOrder, Lookup, Recheck, ReplayOr,
                Continue, Reply, ReadOrder, Throw, ReadLatest, InsertEvent, UpdateOrder, Commit,
                Charge, Finish, Reset, Failure, CommitAckLost, Abort, QueryFails, Crash, OrderTypeOK
<1>4. QED BY <1>1, <1>2, <1>3 DEF OrderTypeOK

\* Only the provider adds charges, and only a commit adds events.
LEMMA ChargesStay ==
    ASSUME NEW w \in Workers, WorkerNext(w), ~Charge(w)
    PROVE  charges' = charges
BY DEF WorkerNext, Start, Progress, FindOrder, Lookup, Recheck, ReplayOr, Continue, ReadOrder, Throw,
       ReadLatest, InsertEvent, UpdateOrder, Commit, Finish, Reset, Failure, CommitAckLost,
       Abort, QueryFails, Crash

LEMMA OwnStepOK ==
    ASSUME IInv, BooksInv, SagaInv, Grows, NEW w \in Workers, WorkerStep(w)
    PROVE  WorkerOK(w)'
<1>1. WorkerNext(w) /\ OrderTypeOK /\ UNCHANGED settleVars
    BY DEF WorkerStep, IInv, TypeOK
<1>2. CASE Commit(w) \/ CommitAckLost(w)
    <2>1. Publishes(w)
        BY <1>1, <1>2, ContinueShape
           DEF Commit, CommitAckLost, Goto, ForgetTransaction, OnlyWorker, OrderTypeOK, Publishes,
               Writing
    <2>2. QED BY <1>2, <2>1, CommitOK
<1>3. CASE QueryFails(w)
    <2>1. /\ pc[w] \in {"find", "lookup", "recheck"} /\ call' = call /\ step' = step
          /\ pc'[w] = "reply" /\ outcome'[w] = "INTERNAL_ERROR"
        BY <1>1, <1>3 DEF QueryFails, Reply, Goto, OrderTypeOK
    <2>2. QED BY <2>1, FailOK
<1>4. CASE Finish(w) \/ Crash(w)
    <2>1. pc'[w] = "idle"
        BY <1>4, ResetLocal DEF Finish, Crash
    <2>2. QED BY <2>1 DEF WorkerOK, Sent, TargetOK, FilledOK, StepOK, AnswerOK, Writing
<1>5. QED BY <1>1, <1>2, <1>3, <1>4, StartOK, FindOrderOK, ReplayOK, TransactionOK, ChargeStepOK
          DEF WorkerNext, Progress, Failure

LEMMA SagaNext == IInv /\ BooksInv /\ SagaInv /\ [Next]_vars => SagaInv'
<1> SUFFICES ASSUME IInv, BooksInv, SagaInv, [Next]_vars PROVE SagaInv'
    OBVIOUS
<1>1. Grows
    BY StepGrows
<1>2. \A e \in events : EventOK(e)'
    BY <1>1, EventKept DEF SagaInv
<1>3. ASSUME charges' = charges PROVE \A c \in charges' : ChargeOK(c)'
    BY <1>1, <1>3, ChargeKept DEF SagaInv
<1>4. ASSUME NEW w \in Workers, WorkerStep(w) PROVE SagaInv'
    <2>1. ASSUME NEW e \in events' PROVE EventOK(e)'
        <3>1. CASE e \in events
            BY <1>2, <3>1
        <3>2. CASE e \notin events
            <4>1. Publishes(w)
                BY <1>4, <3>2, WorkerShapes DEF WorkerQuiet, committedVars
            <4>2. e = pending[w]
                BY <3>2, <4>1, PublishedEvent
            <4>3. QED BY <1>1, <4>1, <4>2, PublishEventOK
        <3>3. QED BY <3>1, <3>2
    <2>2. \A c \in charges' : ChargeOK(c)'
        BY <1>1, <1>3, <1>4, ChargesStay, ChargeStepOK DEF WorkerStep
    <2>3. ASSUME NEW u \in Workers PROVE WorkerOK(u)'
        <3>1. CASE u = w
            BY <1>1, <1>4, <3>1, OwnStepOK
        <3>2. CASE u # w
            <4>1. OnlyWorker(w) /\ outcome'[u] = outcome[u]
                BY <1>4, <3>2, OthersStay
            <4>2. QED BY <1>1, <3>2, <4>1, WorkerKept DEF OnlyWorker
        <3>3. QED BY <3>1, <3>2
    <2>4. QED BY <2>1, <2>2, <2>3 DEF SagaInv
<1>5. ASSUME UNCHANGED orderVars, \A e \in events' : EventOK(e)' PROVE SagaInv'
    <2>1. \A w \in Workers : WorkerOK(w)'
        BY <1>1, <1>5, WorkerKept DEF orderVars, workVars
    <2>2. QED BY <1>3, <1>5, <2>1 DEF SagaInv, orderVars
<1>6. ASSUME NEW s \in Settlers, SettlerStep(s) PROVE SagaInv'
    <2>1. ASSUME NEW e \in events' PROVE EventOK(e)'
        <3>1. CASE e \in events
            BY <1>2, <3>1
        <3>2. CASE e \notin events
            <4>1. PublishesSettlement(s)
                BY <1>6, <3>2, SettlerShapes DEF SettlerQuiet, committedVars
            <4>2. e.type = "SettlementProcessed" /\ e.amount = 0 /\ e.party = None
                <5>1. e = pending[s] /\ spc[s] = "mark"
                    BY <3>2, <4>1 DEF PublishesSettlement, PublishSettlement
                <5>2. pending[s] = SettlementEvent(s)
                    BY <5>1 DEF IInv, SettlerOK
                <5>3. QED BY <5>1, <5>2 DEF SettlementEvent
            <4>3. QED BY <4>2 DEF EventOK
        <3>3. QED BY <3>1, <3>2
    <2>2. QED BY <1>5, <1>6, <2>1 DEF SettlerStep
<1>7. CASE CalendarStep \/ UNCHANGED vars
    BY <1>2, <1>5, <1>7 DEF CalendarStep, AdvanceDay, committedVars, vars, dbVars
<1>8. QED BY <1>4, <1>6, <1>7 DEF Next

LEMMA SagaInvariance == Spec => []SagaInv
<1>1. Init => SagaInv
    BY SagaInit
<1>2. IInv /\ BooksInv /\ SagaInv /\ [Next]_vars => SagaInv'
    BY SagaNext
<1>3. QED BY Invariance, BooksInvariance, <1>1, <1>2, PTL DEF Spec

(***************************************************************************)
(* The money the provider has captured.                                     *)
(***************************************************************************)

\* The derived keys of two client keys differ.
LEMMA DerivedKeysDiffer ==
    ASSUME NEW k \in PayKeys, NEW m \in PayKeys,
           Append(k, "processing") = Append(m, "processing")
    PROVE  k = m
<1>1. k \in Seq(STRING) /\ m \in Seq(STRING)
    BY OrderServiceAssumption DEF PayKeys
<1> DEFINE Texts == STRING \cup {"processing"}
<1>2. k \in Seq(Texts) /\ m \in Seq(Texts)
    BY <1>1
<1>3. "processing" \in Texts
    OBVIOUS
<1> HIDE DEF Texts
<1>4. \A e \in Texts : Append(k, e) = Append(m, e) => k = m
    BY <1>2, AppendInjective
<1>5. QED BY <1>3, <1>4

\* An order whose customer's card is not declined enters PAYMENT_PROCESSING once.
LEMMA OneProcessing ==
    ASSUME IInv, SagaInv, NEW o \in Orders, Outcome[orders[o].customer] # "declined",
           NEW e \in EventsOf(o), NEW f \in EventsOf(o),
           e.type = "PaymentProcessing", f.type = "PaymentProcessing"
    PROVE  e = f
<1>1. /\ StreamOK(o) /\ orders[o].version \in Nat
      /\ \A x, y \in EventsOf(o) : x.version = y.version => x = y
      /\ \A x \in EventsOf(o) : x.type # "PaymentFailed"
    BY DEF IInv, TypeOK, DbTypeOK, OrderRow, GateOK, Clash, SameVersion, EventsOf, SagaInv, EventOK
<1>2. ASSUME NEW x \in EventsOf(o), NEW y \in EventsOf(o), x.type = "PaymentProcessing",
             y.type = "PaymentProcessing", x.version < y.version
      PROVE  FALSE
    <2>1. x.version \in 1..orders[o].version /\ y.version \in 1..orders[o].version
        BY <1>1 DEF StreamOK
    <2>2. y.version - 1 \in 1..orders[o].version
        BY <1>1, <1>2, <2>1
    <2>3. PICK z \in EventsOf(o) : z.version = y.version - 1
        BY <1>1, <2>2 DEF StreamOK
    <2>4. z.type \in OrderEventTypes /\ NextStatus[z.type] \in {"CREATED", "PAYMENT_FAILED"}
        <3>1. y.version = z.version + 1
            BY <2>1, <2>3
        <3>2. QED BY <1>1, <1>2, <3>1 DEF StreamOK, AllowedFrom
    <2>5. z.type = "OrderCreated"
        BY <1>1, <2>4 DEF NextStatus, OrderEventTypes
    <2>6. z.version # 1
        BY <1>1, <1>2, <2>1, <2>3, <2>5
    <2>7. z.version - 1 \in 1..orders[o].version
        BY <1>1, <2>1, <2>2, <2>3, <2>6
    <2>8. PICK p \in EventsOf(o) : p.version = z.version - 1
        BY <1>1, <2>7 DEF StreamOK
    <2>9. p.type \in OrderEventTypes /\ NextStatus[p.type] \in {"NONE"}
        <3>1. z.version = p.version + 1
            BY <2>2, <2>3, <2>8
        <3>2. QED BY <1>1, <2>5, <3>1 DEF StreamOK, AllowedFrom
    <2>10. QED BY <2>9 DEF NextStatus, OrderEventTypes
<1>3. e.version \in Nat /\ f.version \in Nat
    BY <1>1 DEF StreamOK
<1>4. ~(e.version < f.version) /\ ~(f.version < e.version)
    BY <1>2
<1>5. QED BY <1>1, <1>3, <1>4

\* The provider captures money for an order under one client key at most,
\* however many clients pay for it with however many keys, and whatever fails
\* in between (processOrderPayment, state-machine.ts:12-15).
THEOREM ChargedOnce == Spec => []NoDoubleCharge
<1>1. IInv /\ SagaInv => NoDoubleCharge
    <2> SUFFICES ASSUME IInv, SagaInv, NEW c \in charges, NEW d \in charges, c[1] = d[1]
                 PROVE  c[2] = d[2]
        BY DEF NoDoubleCharge
    <2>1. ChargeOK(c) /\ ChargeOK(d)
        BY DEF SagaInv
    <2>2. PICK e \in events : /\ e.key = Append(c[2], "processing")
                              /\ e.type = "PaymentProcessing" /\ e.agg = c[1]
        BY <2>1 DEF ChargeOK, Processing
    <2>3. PICK f \in events : /\ f.key = Append(d[2], "processing")
                              /\ f.type = "PaymentProcessing" /\ f.agg = d[1]
        BY <2>1 DEF ChargeOK, Processing
    <2>4. e = f
        BY <2>1, <2>2, <2>3, OneProcessing DEF ChargeOK, EventsOf
    <2>5. QED BY <2>1, <2>2, <2>3, <2>4, DerivedKeysDiffer DEF ChargeOK
<1>2. QED BY <1>1, Invariance, SagaInvariance, PTL

\* recordPayment is no route: imports and tests call it, clients cannot.
PaymentsBySagaOnly == \A c \in Calls : c.op # "recordPayment"

\* Money that was captured is never stranded: its order is PAID through the key
\* that was charged, or still waits in PAYMENT_PROCESSING for a retry with it
\* (processOrderPayment, financial-service.ts:369-373).
THEOREM ChargesAreRecoverable == PaymentsBySagaOnly => (Spec => []ChargeRecoverable)
<1> SUFFICES ASSUME PaymentsBySagaOnly PROVE Spec => []ChargeRecoverable
    OBVIOUS
<1>1. IInv /\ SagaInv => ChargeRecoverable
    <2> SUFFICES ASSUME IInv, SagaInv, NEW c \in charges
                 PROVE  \/ \E e \in StoredUnder(Append(c[2], "confirmed")) :
                             e.agg = c[1] /\ e.type = "PaymentConfirmed"
                        \/ /\ orders[c[1]].status = "PAYMENT_PROCESSING"
                           /\ \E e \in StoredUnder(Append(c[2], "processing")) :
                                e.agg = c[1] /\ e.version = orders[c[1]].version
        BY DEF ChargeRecoverable
    <2> DEFINE o == c[1]
    <2>1. ChargeOK(c) /\ o \in Orders /\ StreamOK(o) /\ orders[o].version \in Nat
        BY DEF SagaInv, ChargeOK, IInv, TypeOK, DbTypeOK, OrderRow
    <2>2. PICK e \in events : /\ e.key = Append(c[2], "processing")
                              /\ e.type = "PaymentProcessing" /\ e.agg = o
        BY <2>1 DEF ChargeOK, Processing
    <2>3. e \in EventsOf(o) /\ e.version \in 1..orders[o].version
        BY <2>1, <2>2 DEF EventsOf, StreamOK
    <2>4. CASE e.version = orders[o].version
        <3>1. orders[o].status = "PAYMENT_PROCESSING"
            BY <2>1, <2>2, <2>3, <2>4 DEF StreamOK, NextStatus
        <3>2. QED BY <2>2, <2>4, <3>1 DEF StoredUnder
    <2>5. CASE e.version # orders[o].version
        <3>1. e.version + 1 \in 1..orders[o].version
            BY <2>1, <2>3, <2>5
        <3>2. PICK f \in EventsOf(o) : f.version = e.version + 1
            BY <2>1, <3>1 DEF StreamOK
        <3>3. f.type \in OrderEventTypes /\ "PAYMENT_PROCESSING" \in AllowedFrom[f.type]
            BY <2>1, <2>2, <2>3, <3>2 DEF StreamOK, NextStatus
        <3>4. f.type # "PaymentFailed"
            BY <2>1, <3>2 DEF SagaInv, EventOK, ChargeOK, EventsOf
        <3>5. f.type = "PaymentConfirmed"
            BY <3>3, <3>4 DEF AllowedFrom, OrderEventTypes
        <3>6. PICK k \in PayKeys : f.key = Append(k, "confirmed") /\ Processing(k, o)
            BY <3>2, <3>5 DEF SagaInv, EventOK, EventsOf, PaymentsAreImported, PaymentsBySagaOnly
        <3>7. PICK g \in events : /\ g.key = Append(k, "processing")
                                  /\ g.type = "PaymentProcessing" /\ g.agg = o
            BY <3>6 DEF Processing
        <3>8. g = e
            BY <2>1, <2>2, <2>3, <3>7, OneProcessing DEF ChargeOK, EventsOf
        <3>9. k = c[2]
            BY <2>1, <2>2, <3>7, <3>8, DerivedKeysDiffer DEF ChargeOK
        <3>10. QED BY <3>2, <3>5, <3>6, <3>9 DEF StoredUnder, EventsOf
    <2>6. QED BY <2>4, <2>5
<1>2. QED BY <1>1, Invariance, SagaInvariance, PTL

(***************************************************************************)
(* The answers.                                                             *)
(***************************************************************************)

\* An answer of success is backed by the stored event the caller asked for, with
\* its operation, its order, its amount and its customer, even when another
\* request with the same key stored it (withIdempotentEvent, assertSameIntent).
THEOREM SuccessesAreStored == Spec => []SuccessIsStored
<1>1. SagaInv => SuccessIsStored
    BY DEF SagaInv, WorkerOK, AnswerOK, Backed, SuccessIsStored, StoredUnder
<1>2. QED BY <1>1, SagaInvariance, PTL

\* A payment whose money is captured is not one that was declined.
LEMMA NotDeclined ==
    ASSUME IInv, BooksInv, SagaInv, NEW w \in Workers, pc[w] \notin {"idle", "find", "reply"},
           Fulfilled(call[w])
    PROVE  /\ step[w] # "PaymentFailed"
           /\ call[w].op = "pay" => Filled(w) /\ Outcome[call[w].party] = "succeeded"
<1>1. /\ CallOK(w) /\ call[w] \in Call /\ FilledOK(w) /\ StepOK(w)
    BY DEF IInv, CallOK, SagaInv, WorkerOK
<1>2. CASE call[w].op = "pay"
    <2>1. PICK c \in charges : c = <<call[w].order, call[w].key>>
        BY <1>2 DEF Fulfilled
    <2>2. Filled(w) /\ Outcome[orders[call[w].order].customer] = "succeeded"
        BY <1>1, <1>2, <2>1 DEF FilledOK, SagaInv, ChargeOK
    <2>3. Outcome[call[w].party] = "succeeded"
        BY <2>2 DEF Filled
    <2>4. QED BY <1>1, <1>2, <2>2, <2>3 DEF StepOK
<1>3. CASE call[w].op # "pay"
    BY <1>1, <1>3 DEF CallOK, FirstStep, Call, Ops
<1>4. QED BY <1>2, <1>3

\* An event of an order has its row, and carries what its type carries.
LEMMA StoredEvent ==
    ASSUME IInv, BooksInv, SagaInv, NEW e \in events, e.type # "SettlementProcessed"
    PROVE  e.agg \in Orders /\ orders[e.agg].status # "NONE" /\ EventOK(e)
<1>1. e.agg \in Orders /\ EventOK(e)
    BY DEF SagaInv, EventOK
<1>2. QED BY <1>1, EventRowExists

\* What is stored under the key of a call whose work is done answers for it.
LEMMA StoredIsReplayed ==
    ASSUME IInv, BooksInv, SagaInv, NEW w \in Workers, pc[w] \in {"lookup", "recheck"},
           Fulfilled(call[w])
    PROVE  /\ StoredUnder(EventKey(w)) # {}
           /\ \A e \in StoredUnder(EventKey(w)) : Replayable(e, w)
<1>1. /\ CallOK(w) /\ call[w] \in Call /\ step[w] # "PaymentFailed"
      /\ call[w].op = "pay" => Filled(w)
    BY NotDeclined DEF IInv, CallOK
<1>2. PICK e \in StoredUnder(EventKey(w)) : Replayable(e, w)
    <2>1. CASE call[w].op = "pay"
        <3>1. step[w] \in {"PaymentProcessing", "PaymentConfirmed", "FeeCalculated"}
            BY <1>1, <2>1 DEF CallOK, Suffix
        <3>2. PICK e \in StoredUnder(Append(call[w].key, Suffix[step[w]])) :
                e.type = step[w] /\ e.agg = call[w].order
                /\ (step[w] = "PaymentConfirmed" => e.party = call[w].key)
            BY <2>1, <3>1 DEF Fulfilled
        <3>3. e \in events /\ e \in StoredUnder(EventKey(w))
            BY <2>1, <3>2 DEF StoredUnder, EventKey
        <3>4. orders[e.agg].status # "NONE" /\ EventOK(e)
            BY <3>1, <3>2, <3>3, StoredEvent
        <3>5. e.amount = PayloadAmount(w) /\ e.party = PayloadParty(w)
            BY <1>1, <2>1, <3>1, <3>2, <3>4 DEF EventOK, Filled, PayloadAmount, PayloadParty
        <3>6. QED BY <3>2, <3>3, <3>4, <3>5 DEF Replayable, SameIntent
    <2>2. CASE call[w].op # "pay"
        <3>1. step[w] = FirstStep[call[w].op] /\ EventKey(w) = call[w].key
            BY <1>1, <2>2 DEF CallOK, EventKey
        <3>2. PICK e \in StoredUnder(call[w].key) :
                /\ e.type = step[w] /\ call[w].order \in {e.agg, AnyOrder}
                /\ \/ call[w].op \in {"ship", "deliver", "refund"}
                   \/ e.amount = call[w].amount /\ e.party = call[w].party
            BY <2>2, <3>1 DEF Fulfilled
        <3>3. e \in events /\ e.type # "SettlementProcessed"
            BY <1>1, <2>2, <3>1, <3>2 DEF StoredUnder, FirstStep, Call, Ops
        <3>4. orders[e.agg].status # "NONE" /\ EventOK(e)
            BY <3>3, StoredEvent
        <3>5. e.amount = PayloadAmount(w) /\ e.party = PayloadParty(w)
            BY <1>1, <2>2, <3>1, <3>2, <3>4
               DEF EventOK, PayloadAmount, PayloadParty, FirstStep, Call, Ops
        <3>6. QED BY <3>1, <3>2, <3>4, <3>5 DEF Replayable, SameIntent
    <2>3. QED BY <2>1, <2>2
<1>3. \A f \in StoredUnder(EventKey(w)) : f = e
    BY <1>2 DEF StoredUnder, IInv, GateOK, Clash
<1>4. QED BY <1>2, <1>3

LEMMA StoredAnswer ==
    ASSUME IInv, BooksInv, SagaInv, NEW w \in Workers, WorkerNext(w), pc[w] \notin {"idle", "reply"},
           pc'[w] = "reply", Fulfilled(call[w])
    PROVE  outcome'[w] = "OK" \/ QueryFails(w)
<1>1. OrderTypeOK /\ CallOK(w)
    BY DEF IInv, TypeOK
<1>2. ASSUME Continue(w), pc[w] # "find" PROVE outcome'[w] = "OK"
    <2>1. step[w] # "PaymentFailed"
        BY <1>2, NotDeclined
    <2>2. QED BY <1>1, <1>2, <2>1 DEF Continue, Goto, Reply, OrderTypeOK
<1>3. \A code : ~Throw(w, code)
    BY <1>1 DEF Throw, Goto, OrderTypeOK
<1>4. ~(Start(w) \/ Finish(w) \/ Crash(w))
    BY <1>1 DEF Start, Finish, Crash, Reset, Goto, OrderTypeOK
<1>5. ~FindOrder(w)
    <2> SUFFICES ASSUME FindOrder(w) PROVE FALSE
        OBVIOUS
    <2>1. call[w].op = "pay" /\ orders[call[w].order].status = "NONE"
        BY <1>1 DEF FindOrder, Goto, OrderTypeOK, CallOK
    <2>2. PICK e \in events : e.type = "PaymentProcessing" /\ e.agg = call[w].order
        BY <2>1 DEF Fulfilled, StoredUnder
    <2>3. QED BY <2>1, <2>2, StoredEvent
<1>6. ~Charge(w)
    <2> SUFFICES ASSUME Charge(w) PROVE FALSE
        OBVIOUS
    <2>1. pc[w] = "charge" /\ call[w].op = "pay"
        BY <1>1 DEF Charge, CallOK
    <2>2. Outcome[call[w].party] = "succeeded"
        BY <2>1, NotDeclined
    <2>3. QED BY <1>1, <2>2 DEF Charge, Goto, OrderTypeOK
<1>7. ~(ReadOrder(w) \/ ReadLatest(w) \/ InsertEvent(w) \/ UpdateOrder(w) \/ Abort(w))
    BY <1>1, <1>3 DEF ReadOrder, ReadLatest, InsertEvent, UpdateOrder, Abort, Goto, OrderTypeOK
<1>8. CASE Lookup(w) \/ Recheck(w)
    <2>1. pc[w] \in {"lookup", "recheck"}
        BY <1>8 DEF Lookup, Recheck
    <2>2. /\ StoredUnder(EventKey(w)) # {}
          /\ \A e \in StoredUnder(EventKey(w)) : Replayable(e, w)
        BY <2>1, StoredIsReplayed
    <2>3. Continue(w)
        BY <1>8, <2>2 DEF Lookup, Recheck, ReplayOr
    <2>4. QED BY <1>2, <2>1, <2>3
<1>9. CASE Commit(w) \/ CommitAckLost(w)
    BY <1>1, <1>2, <1>9 DEF Commit, CommitAckLost, Goto, OrderTypeOK
<1>10. QED BY <1>4, <1>5, <1>6, <1>7, <1>8, <1>9 DEF WorkerNext, Progress, Failure

\* A call whose work is done is answered with success: by its own transaction,
\* or by a replay of what an unanswered request or a twin has stored, whatever
\* race it lost and however far the order has moved on (withIdempotentEvent).
THEOREM StoredCallsSucceed == Spec => StoredIsSuccess
<1> DEFINE Answered(w) ==
             pc[w] \notin {"idle", "reply"} /\ pc'[w] = "reply" /\ Fulfilled(call[w])
             => outcome'[w] = "OK" \/ QueryFails(w)
<1>1. IInv /\ BooksInv /\ SagaInv /\ [Next]_vars => [\A w \in Workers : Answered(w)]_vars
    <2> SUFFICES ASSUME IInv, BooksInv, SagaInv, Next, NEW w \in Workers PROVE Answered(w)
        OBVIOUS
    <2>1. ASSUME NEW u \in Workers, WorkerStep(u) PROVE Answered(w)
        <3>1. CASE u = w
            BY <2>1, <3>1, StoredAnswer DEF WorkerStep
        <3>2. CASE u # w
            BY <2>1, <3>2, OthersStay DEF OnlyWorker
        <3>3. QED BY <3>1, <3>2
    <2>2. CASE pc' = pc
        BY <2>2
    <2>3. QED BY <2>1, <2>2 DEF Next, SettlerStep, CalendarStep, orderVars, workVars
<1>2. QED BY <1>1, Invariance, BooksInvariance, SagaInvariance, PTL DEF Spec, StoredIsSuccess

(***************************************************************************)
(* The refusals of a settlement.                                            *)
(***************************************************************************)

\* The event of a date is stored only together with its settlement.
DateOK(d) == \A e \in events : e.agg = SettlementAggregate(d) => settlements[d].exists

\* A line that its UPDATE has passed over is an order it could not mark.
MarkOK(s) ==
    spc[s] = "mark" => \A o \in LineIds(s) \ todo[s] : locks[o] = s \/ ~StillSettleable(orders[o])

\* Why a settlement failed: its date is settled, or what its error says is true.
Conflict(d) == settlements[d].exists \/ \E o \in Orders : LostToSettlement(o, d)
KeyTaken(c) ==
    settlements[c.day].exists \/ \E e \in events : e.key = c.key /\ e.agg # SettlementAggregate(c.day)

FailureOK(s) ==
    spc[s] = "recheck" =>
        /\ result[s] = "VERSION_CONFLICT" => Conflict(scall[s].day)
        /\ result[s] = "UNIQUE_KEY" => KeyTaken(scall[s])

RefusalInv ==
    /\ \A d \in Days : DateOK(d)
    /\ \A s \in Settlers : MarkOK(s) /\ FailureOK(s)

\* What no step takes back, of the rows and the settlements.
SettledGrows ==
    /\ events \subseteq events'
    /\ \A d \in Days : settlements[d].exists => settlements'[d].exists
    /\ \A o \in Orders :
         /\ \A d \in Days : LostToSettlement(o, d) => LostToSettlement(o, d)'
         /\ ~StillSettleable(orders[o]) /\ orders[o].paidDay # NoDay => ~StillSettleable(orders'[o])

LEMMA StepSettledGrows ==
    ASSUME IInv, BooksInv, [Next]_vars
    PROVE  SettledGrows
<1>1. CASE UNCHANGED committedVars
    BY <1>1 DEF committedVars, SettledGrows, LostToSettlement, StillSettleable
<1>2. ASSUME NEW w \in Workers, Publishes(w) PROVE SettledGrows
    <2>1. PICK t \in Orders : t = target[w]
        BY <1>2, CommitFacts DEF Publishes
    <2>2. /\ events \subseteq events' /\ settlements' = settlements
          /\ \A o \in Orders \ {t} : orders'[o] = orders[o]
        BY <1>2, <2>1, PublishedRows
    <2>3. RowKept(orders[t], orders'[t]) /\ RowOK(t)
        BY <1>2, <2>1, PublishedRow DEF BooksInv
    <2>4. orders[t].status # "REFUNDED"
        BY <1>2, <2>1, CommitFacts DEF Publishes, AllowedFrom, OrderEventTypes
    <2>5. \A d \in Days : LostToSettlement(t, d) => LostToSettlement(t, d)'
        BY <2>3, <2>4 DEF RowKept, LostToSettlement, NoDay
    <2>6. ~StillSettleable(orders[t]) /\ orders[t].paidDay # NoDay => ~StillSettleable(orders'[t])
        BY <2>3, <2>4 DEF RowKept, RowOK, StillSettleable, SettlementStatuses
    <2>7. QED BY <2>2, <2>5, <2>6 DEF SettledGrows, LostToSettlement
<1>3. ASSUME NEW s \in Settlers, PublishesSettlement(s) PROVE SettledGrows
    <2>1. events \subseteq events' /\ \A d \in Days : settlements[d].exists => settlements'[d].exists
        BY <1>3 DEF PublishesSettlement, PublishSettlement, IInv, TypeOK, DbTypeOK
    <2>2. ASSUME NEW o \in Orders
          PROVE  \/ orders'[o] = orders[o]
                 \/ orders[o].status \in SettlementStatuses /\ orders[o].settlement = NoDay
        BY <1>3, SettledRows DEF SettlementStatuses
    <2>3. QED BY <2>1, <2>2 DEF SettledGrows, LostToSettlement, StillSettleable, SettlementStatuses
<1>4. ASSUME NEW w \in Workers, WorkerStep(w) PROVE SettledGrows
    BY <1>1, <1>2, <1>4, WorkerShapes DEF WorkerQuiet
<1>5. ASSUME NEW s \in Settlers, SettlerStep(s) PROVE SettledGrows
    BY <1>1, <1>3, <1>5, SettlerShapes DEF SettlerQuiet
<1>6. CASE CalendarStep \/ UNCHANGED vars
    BY <1>1, <1>6 DEF CalendarStep, AdvanceDay, vars, dbVars, committedVars
<1>7. QED BY <1>4, <1>5, <1>6 DEF Next

\* A line is an order that has its fee and was paid by the day of the settlement.
LEMMA LineFacts ==
    ASSUME IInv, BooksInv, NEW s \in Settlers, spc[s] = "mark", NEW o \in LineIds(s)
    PROVE  /\ o \in Orders /\ scall[s].day \in Days
           /\ orders[o].fee # NoFee /\ orders[o].paidDay \in 1..scall[s].day
           /\ orders[o].status \in SettlementStatuses \cup {"REFUNDED"}
<1>1. PICK l \in lines[s] : l.order = o
    BY DEF LineIds
<1>2. /\ l \in Line /\ LinesOK(s) /\ scall[s].day \in Days
    BY SettlementAssumption DEF IInv, TypeOK, SettlementTypeOK, SettlerOK, BooksInv, SettleCall
<1>3. o \in Orders /\ orders[o] \in OrderRow /\ RowOK(o)
    BY <1>1, <1>2 DEF Line, IInv, TypeOK, DbTypeOK, BooksInv
<1>4. /\ orders[o].fee \in Nat /\ orders[o].paidDay # NoDay /\ orders[o].paidDay <= scall[s].day
    BY <1>1, <1>2 DEF LinesOK, Line
<1>5. orders[o].paidDay \in 1..scall[s].day
    BY <1>2, <1>3, <1>4, DatabaseAssumption DEF OrderRow, Days, NoDay
<1>6. QED BY <1>2, <1>3, <1>4, <1>5 DEF RowOK, SettlementStatuses, NoFee

\* The rows another transaction's step leaves locked.
LEMMA LocksOfOthers ==
    ASSUME IInv, BooksInv, [Next]_vars, NEW s \in Settlers, ~SettlerStep(s), NEW o \in Orders
    PROVE  locks'[o] = s <=> locks[o] = s
<1>1. s \in Tx /\ s \notin Workers /\ locks \in [Orders -> Tx \cup {NoTx}] /\ s # NoTx
    BY DatabaseAssumption DEF IInv, TypeOK, DbTypeOK, Tx
<1>2. ASSUME NEW w \in Workers, WorkerStep(w) PROVE locks'[o] = s <=> locks[o] = s
    <2>1. CASE WorkerQuiet(w)
        BY <1>1, <2>1 DEF WorkerQuiet
    <2>2. CASE Publishes(w)
        <3>1. locks[target[w]] = w
            BY <2>2, CommitFacts DEF Publishes
        <3>2. QED BY <1>1, <2>2, <3>1, PublishedRows
    <2>3. QED BY <1>2, <2>1, <2>2, WorkerShapes
<1>3. ASSUME NEW r \in Settlers \ {s}, SettlerStep(r) PROVE locks'[o] = s <=> locks[o] = s
    <2>1. CASE SettlerQuiet(r)
        BY <1>1, <2>1 DEF SettlerQuiet
    <2>2. CASE PublishesSettlement(r)
        BY <1>1, <2>2 DEF PublishesSettlement, PublishSettlement, EndTransaction
    <2>3. QED BY <1>3, <2>1, <2>2, SettlerShapes
<1>4. CASE CalendarStep \/ UNCHANGED vars
    BY <1>4 DEF CalendarStep, AdvanceDay, vars, dbVars
<1>5. QED BY <1>2, <1>3, <1>4 DEF Next

\* A settler's step leaves the others where they were.
LEMMA OtherSettlersStay ==
    ASSUME IInv, [Next]_vars, NEW s \in Settlers, ~SettlerStep(s)
    PROVE  /\ spc'[s] = spc[s] /\ scall'[s] = scall[s] /\ lines'[s] = lines[s]
           /\ todo'[s] = todo[s] /\ result'[s] = result[s]
<1>1. SettlementTypeOK
    BY DEF IInv, TypeOK
<1>2. ASSUME NEW r \in Settlers \ {s}, SettlerStep(r)
      PROVE  /\ spc' = [spc EXCEPT ![r] = spc'[r]] /\ scall' = [scall EXCEPT ![r] = scall'[r]]
             /\ lines' = [lines EXCEPT ![r] = lines'[r]] /\ todo' = [todo EXCEPT ![r] = todo'[r]]
             /\ result' = [result EXCEPT ![r] = result'[r]]
    BY <1>1, <1>2
       DEF SettlerStep, SettlerNext, SettleProgress, SettleFailure, StartSettle, FindSettlement,
           SelectEligible, InsertSettlement, MarkOrder, CommitSettlement, RecheckSettlement,
           FinishSettle, SettleAckLost, AbortSettlement, SettleQueryFails, CrashSettler,
           DeadlockVictim, SettleThrow, SettleReply, SettleGoto, ResetSettler, ForgetSettlement,
           SettlementTypeOK
<1>3. CASE \E r \in Settlers \ {s} : SettlerStep(r)
    BY <1>1, <1>2, <1>3 DEF SettlementTypeOK
<1>4. CASE UNCHANGED settleVars
    BY <1>4 DEF settleVars
<1>5. QED BY <1>3, <1>4 DEF Next, WorkerStep, CalendarStep, vars

\* Every error that sends a settlement to its catch block has its reason.
LEMMA FailureReason ==
    ASSUME IInv, BooksInv, SettledInv, RefusalInv, NEW s \in Settlers, SettlerStep(s),
           spc'[s] = "recheck"
    PROVE  FailureOK(s)'
<1> DEFINE d == scall[s].day
<1>1. SettlementTypeOK /\ MarkOK(s) /\ SettlerNext(s)
    BY DEF IInv, TypeOK, RefusalInv, SettlerStep
<1>2. ASSUME NEW code, SettleThrow(s, code), code = "VERSION_CONFLICT" => Conflict(d),
             code = "UNIQUE_KEY" => KeyTaken(scall[s])
      PROVE  FailureOK(s)'
    <2>1. UNCHANGED committedVars /\ scall' = scall /\ result'[s] = code
        BY <1>1, <1>2 DEF SettleThrow, SettlementTypeOK
    <2>2. QED BY <1>2, <2>1 DEF FailureOK, Conflict, KeyTaken, LostToSettlement, committedVars
<1>3. CASE InsertSettlement(s)
    <2>1. d \in Days /\ DateOK(d)
        BY <1>3 DEF InsertSettlement, IInv, SettlerOK, SettleCall, RefusalInv
    <2>2. CASE SettleThrow(s, "INTERNAL_ERROR")
        BY <1>2, <2>2
    <2>3. ASSUME NEW e \in events, SameVersion(e, SettlementEvent(s)),
                 SettleThrow(s, "VERSION_CONFLICT")
          PROVE  FailureOK(s)'
        <3>1. settlements[d].exists
            BY <2>1, <2>3 DEF SameVersion, SettlementEvent, DateOK
        <3>2. QED BY <1>2, <2>3, <3>1 DEF Conflict
    <2>4. ASSUME NEW e \in events, e.key = scall[s].key, SettleThrow(s, "UNIQUE_KEY")
          PROVE  FailureOK(s)'
        <3>1. KeyTaken(scall[s])
            BY <2>1, <2>4 DEF KeyTaken, DateOK
        <3>2. QED BY <1>2, <2>4, <3>1
    <2>5. CASE SettleGoto(s, "mark")
        BY <1>1, <2>5 DEF SettleGoto, SettlementTypeOK
    <2>6. QED BY <1>3, <2>2, <2>3, <2>4, <2>5 DEF InsertSettlement
<1>4. CASE CommitSettlement(s)
    <2>1. spc[s] = "mark" /\ todo[s] = {}
        BY <1>4 DEF CommitSettlement
    <2>2. ~AllLinesMarked(s) /\ SettleThrow(s, "VERSION_CONFLICT")
        BY <1>1, <1>4 DEF CommitSettlement, SettleReply, SettleGoto, SettlementTypeOK
    <2>3. PICK o \in LineIds(s) : locks[o] # s
        BY <2>2 DEF AllLinesMarked
    <2>4. /\ o \in Orders /\ d \in Days /\ orders[o].fee # NoFee /\ orders[o].paidDay \in 1..d
          /\ orders[o].status \in SettlementStatuses \cup {"REFUNDED"}
        BY <2>1, LineFacts
    <2>5. ~StillSettleable(orders[o])
        BY <1>1, <2>1, <2>3 DEF MarkOK
    <2>6. CASE orders[o].settlement = d
        <3>1. settlements[d].exists
            BY <2>4, <2>6 DEF SettledInv, DayOK, Settled, RefusalInv, DateOK
        <3>2. QED BY <1>2, <2>2, <3>1 DEF Conflict
    <2>7. CASE orders[o].settlement # d
        <3>1. LostToSettlement(o, d)
            BY <2>4, <2>5, <2>7 DEF LostToSettlement, StillSettleable
        <3>2. QED BY <1>2, <2>2, <2>4, <3>1 DEF Conflict
    <2>8. QED BY <2>6, <2>7
<1>5. CASE SettleAckLost(s)
    BY <1>1, <1>5 DEF SettleAckLost, SettlementTypeOK, FailureOK
<1>6. CASE AbortSettlement(s) \/ DeadlockVictim(s)
    BY <1>2, <1>6 DEF AbortSettlement, DeadlockVictim
<1>7. CASE \E o \in Orders : MarkOrder(s, o)
    BY <1>7 DEF MarkOrder
<1>8. ~\/ StartSettle(s) \/ FindSettlement(s) \/ SelectEligible(s) \/ FinishSettle(s)
       \/ SettleQueryFails(s) \/ CrashSettler(s) \/ RecheckSettlement(s)
    BY <1>1
       DEF StartSettle, FindSettlement, SelectEligible, FinishSettle, SettleQueryFails, CrashSettler,
           RecheckSettlement, ResetSettler, SettleReply, SettleGoto, SettlementTypeOK
<1>9. QED BY <1>1, <1>3, <1>4, <1>5, <1>6, <1>7, <1>8
          DEF SettlerNext, SettleProgress, SettleFailure

\* Its UPDATE leaves behind it rows it has marked and rows it could not mark.
LEMMA MarksKept ==
    ASSUME IInv, BooksInv, RefusalInv, SettledGrows, NEW s \in Settlers, SettlerStep(s)
    PROVE  MarkOK(s)'
<1>1. MarkOK(s) /\ SettlementTypeOK
    BY DEF RefusalInv, IInv, TypeOK
<1>2. CASE spc'[s] # "mark"
    BY <1>2 DEF MarkOK
<1>3. CASE InsertsSettlement(s)
    BY <1>3 DEF InsertsSettlement, MarkOK, LineIds
<1>4. ASSUME NEW o \in Orders, SettlerQuiet(s), Marks(s, o) PROVE MarkOK(s)'
    <2>1. /\ spc[s] = "mark" /\ todo'[s] = todo[s] \ {o} /\ lines' = lines /\ orders' = orders
          /\ locks'[o] = s \/ ~StillSettleable(orders[o])
          /\ \A x \in Orders \ {o} : locks'[x] = locks[x]
        BY <1>4 DEF Marks, SettlerQuiet, committedVars, IInv, TypeOK, DbTypeOK
    <2>2. LineIds(s)' = LineIds(s) /\ LineIds(s) \subseteq Orders
        BY <1>1, <2>1 DEF LineIds, Line, SettlementTypeOK
    <2>3. QED BY <1>1, <2>1, <2>2 DEF MarkOK
<1>5. QED BY <1>2, <1>3, <1>4, SettlerShapes DEF SettlerOutside, Selects, PublishesSettlement

LEMMA RefusalNext ==
    IInv /\ BooksInv /\ SettledInv /\ RefusalInv /\ [Next]_vars => RefusalInv'
<1> SUFFICES ASSUME IInv, BooksInv, SettledInv, RefusalInv, [Next]_vars PROVE RefusalInv'
    OBVIOUS
<1>1. SettledGrows
    BY StepSettledGrows
<1>2. ASSUME NEW d \in Days PROVE DateOK(d)'
    <2> SUFFICES ASSUME NEW e \in events', e.agg = SettlementAggregate(d)
                 PROVE  settlements'[d].exists
        BY DEF DateOK
    <2>1. CASE e \in events
        BY <1>1, <2>1 DEF RefusalInv, DateOK, SettledGrows
    <2>2. CASE e \notin events
        <3>1. ASSUME NEW w \in Workers, WorkerStep(w) PROVE FALSE
            <4>1. Publishes(w)
                BY <2>2, <3>1, WorkerShapes DEF WorkerQuiet, committedVars
            <4>2. e = pending[w] /\ pending[w].agg = target[w] /\ target[w] \in Orders
                BY <2>2, <4>1, PublishedRows, CommitFacts DEF Publishes
            <4>3. QED BY <4>2, DatabaseAssumption
        <3>2. ASSUME NEW s \in Settlers, SettlerStep(s) PROVE settlements'[d].exists
            <4>1. PublishesSettlement(s)
                BY <2>2, <3>2, SettlerShapes DEF SettlerQuiet, committedVars
            <4>2. /\ e = SettlementEvent(s)
                  /\ settlements' = [settlements EXCEPT ![scall[s].day] = settlements'[scall[s].day]]
                  /\ scall[s].day \in Days /\ settlements'[scall[s].day].exists
                BY <2>2, <4>1
                   DEF PublishesSettlement, PublishSettlement, IInv, SettlerOK, SettleCall, TypeOK,
                       DbTypeOK
            <4>3. scall[s].day = d
                BY <4>2 DEF SettlementEvent, SettlementAggregate
            <4>4. QED BY <4>2, <4>3
        <3>3. CASE CalendarStep \/ UNCHANGED vars
            BY <2>2, <3>3 DEF CalendarStep, AdvanceDay, committedVars, vars, dbVars
        <3>4. QED BY <3>1, <3>2, <3>3 DEF Next
    <2>3. QED BY <2>1, <2>2
<1>3. ASSUME NEW s \in Settlers, ~SettlerStep(s) PROVE MarkOK(s)' /\ FailureOK(s)'
    <2>1. /\ spc'[s] = spc[s] /\ scall'[s] = scall[s] /\ lines'[s] = lines[s]
          /\ todo'[s] = todo[s] /\ result'[s] = result[s]
        BY <1>3, OtherSettlersStay
    <2>2. MarkOK(s) /\ FailureOK(s) /\ LineIds(s)' = LineIds(s)
        BY <2>1 DEF RefusalInv, LineIds
    <2>3. MarkOK(s)'
        <3> SUFFICES ASSUME spc[s] = "mark", NEW o \in LineIds(s) \ todo[s]
                     PROVE  locks'[o] = s \/ ~StillSettleable(orders'[o])
            BY <2>1, <2>2 DEF MarkOK
        <3>1. /\ o \in Orders /\ orders[o].paidDay # NoDay
              /\ locks[o] = s \/ ~StillSettleable(orders[o])
            BY <2>2, LineFacts DEF MarkOK, NoDay
        <3>2. QED BY <1>1, <1>3, <3>1, LocksOfOthers DEF SettledGrows
    <2>4. FailureOK(s)'
        <3> SUFFICES ASSUME spc[s] = "recheck"
                     PROVE  /\ result[s] = "VERSION_CONFLICT" => Conflict(scall[s].day)'
                            /\ result[s] = "UNIQUE_KEY" => KeyTaken(scall[s])'
            BY <2>1 DEF FailureOK
        <3>1. scall[s].day \in Days
            BY DEF IInv, SettlerOK, SettleCall
        <3>2. PICK d \in Days : d = scall[s].day
            BY <3>1
        <3>3. Conflict(d) => Conflict(d)'
            BY <1>1 DEF SettledGrows, Conflict
        <3>4. KeyTaken(scall[s]) => KeyTaken(scall[s])'
            BY <1>1, <2>1, <3>1 DEF SettledGrows, KeyTaken
        <3>5. QED BY <2>1, <2>2, <3>2, <3>3, <3>4 DEF FailureOK
    <2>5. QED BY <2>3, <2>4
<1>4. ASSUME NEW s \in Settlers, SettlerStep(s) PROVE MarkOK(s)' /\ FailureOK(s)'
    <2>1. FailureOK(s)'
        BY <1>4, FailureReason DEF FailureOK
    <2>2. QED BY <1>1, <1>4, <2>1, MarksKept
<1>5. QED BY <1>2, <1>3, <1>4 DEF RefusalInv

LEMMA RefusalInvariance == Spec => []RefusalInv
<1>1. Init => RefusalInv
    BY DEF Init, DbInit, SettlementInit, RefusalInv, DateOK, MarkOK, FailureOK
<1>2. IInv /\ BooksInv /\ SettledInv /\ RefusalInv /\ [Next]_vars => RefusalInv'
    BY RefusalNext
<1>3. QED BY Invariance, BooksInvariance, SettledInvariance, <1>1, <1>2, PTL DEF Spec

LEMMA RefusedAfterRecheck ==
    ASSUME IInv, RefusalInv, NEW s \in Settlers, SettlerNext(s), spc[s] # "reply",
           spc'[s] = "reply", result'[s] \in {"VERSION_CONFLICT", "UNIQUE_KEY"}
    PROVE  /\ ~settlements[scall[s].day].exists
           /\ result'[s] = "VERSION_CONFLICT" => Conflict(scall[s].day)
           /\ result'[s] = "UNIQUE_KEY" => KeyTaken(scall[s])
<1>1. SettlementTypeOK /\ FailureOK(s)
    BY DEF IInv, TypeOK, RefusalInv
<1>2. \A code : ~SettleThrow(s, code)
    BY <1>1 DEF SettleThrow, SettleGoto, SettlementTypeOK
<1>3. ~\/ StartSettle(s) \/ FindSettlement(s) \/ SelectEligible(s) \/ FinishSettle(s)
       \/ SettleQueryFails(s) \/ CrashSettler(s) \/ SettleAckLost(s) \/ CommitSettlement(s)
    BY <1>1, <1>2
       DEF StartSettle, FindSettlement, SelectEligible, FinishSettle, SettleQueryFails, CrashSettler,
           SettleAckLost, CommitSettlement, ResetSettler, SettleReply, SettleGoto, SettlementTypeOK
<1>4. ~(InsertSettlement(s) \/ AbortSettlement(s) \/ DeadlockVictim(s) \/ \E o \in Orders : MarkOrder(s, o))
    BY <1>1, <1>2
       DEF InsertSettlement, AbortSettlement, DeadlockVictim, MarkOrder, SettleGoto, SettlementTypeOK
<1>5. RecheckSettlement(s)
    BY <1>3, <1>4 DEF SettlerNext, SettleProgress, SettleFailure
<1>6. /\ spc[s] = "recheck" /\ ~settlements[scall[s].day].exists /\ result'[s] = result[s]
    BY <1>1, <1>5 DEF RecheckSettlement, SettleReply, SettleGoto, SettlementTypeOK
<1>7. QED BY <1>1, <1>6 DEF FailureOK

\* A settlement is refused for a conflict only if its date is not settled and an
\* order it wanted was refunded or settled under another date, or its key belongs
\* to another aggregate (dailySettlement, financial-service.ts:665-677, 685-700).
THEOREM SettlementRefusalsAreReal == Spec => SettlementRefusalIsReal
<1> DEFINE Real(s) ==
             spc[s] # "reply" /\ spc'[s] = "reply" /\ result'[s] \in {"VERSION_CONFLICT", "UNIQUE_KEY"}
             => /\ ~settlements[scall[s].day].exists
                /\ result'[s] = "VERSION_CONFLICT" =>
                     \E o \in Orders : LostToSettlement(o, scall[s].day)
                /\ result'[s] = "UNIQUE_KEY" =>
                     \E e \in StoredUnder(scall[s].key) :
                         e.agg # SettlementAggregate(scall[s].day)
<1>1. IInv /\ RefusalInv /\ [Next]_vars => [\A s \in Settlers : Real(s)]_vars
    <2> SUFFICES ASSUME IInv, RefusalInv, Next, NEW s \in Settlers PROVE Real(s)
        OBVIOUS
    <2>1. CASE SettlerStep(s)
        BY <2>1, RefusedAfterRecheck DEF SettlerStep, Conflict, KeyTaken, StoredUnder
    <2>2. CASE ~SettlerStep(s)
        BY <2>2, OtherSettlersStay
    <2>3. QED BY <2>1, <2>2
<1>2. QED BY <1>1, Invariance, RefusalInvariance, PTL DEF Spec, SettlementRefusalIsReal

(***************************************************************************)
(* The calls in flight and the events stored for them, for the clients.      *)
(***************************************************************************)
ServiceOK == IInv /\ BooksInv /\ SagaInv

LEMMA ServiceInvariance == Spec => []ServiceOK
BY Invariance, BooksInvariance, SagaInvariance, PTL DEF ServiceOK

\* What the calls in flight ask for.
SameCall(u) ==
    pc'[u] # "idle" => /\ pc[u] # "idle"
                       /\ call'[u].op = call[u].op /\ call'[u].key = call[u].key
                       /\ call'[u].order = call[u].order

\* Only a call that arrives changes what a worker is asked for.
LEMMA CallsKept ==
    ASSUME IInv, BooksInv, NEW w \in Workers, WorkerStep(w), ~Start(w), NEW u \in Workers
    PROVE  SameCall(u)
<1>1. OnlyWorker(w) /\ OrderTypeOK
    BY OthersStay DEF IInv, TypeOK
<1>2. CASE u # w
    BY <1>1, <1>2 DEF OnlyWorker, SameCall
<1>3. CASE u = w
    <2>1. CASE Finish(w) \/ Crash(w)
        BY <1>1, <1>3, <2>1 DEF Finish, Crash, Reset, Goto, OrderTypeOK, SameCall
    <2>2. CASE FindOrder(w)
        <3>1. pc[w] = "find"
            BY <2>2 DEF FindOrder
        <3>2. CASE call' = call
            BY <1>3, <3>1, <3>2 DEF SameCall
        <3>3. CASE call' # call
            <4>1. PICK row : call' = [call EXCEPT ![w].amount = row.amount,
                                                  ![w].party = row.customer]
                BY <2>2, <3>3 DEF FindOrder
            <4>2. call[w] \in Call
                BY <3>1 DEF IInv, CallOK
            <4>3. call'[w] = [call[w] EXCEPT !.amount = row.amount, !.party = row.customer]
                BY <1>1, <4>1 DEF OrderTypeOK
            <4>4. QED BY <1>3, <3>1, <4>2, <4>3 DEF SameCall, Call
        <3>4. QED BY <3>2, <3>3
    <2>3. CASE ~(Finish(w) \/ Crash(w) \/ FindOrder(w))
        <3>1. call' = call /\ pc[w] # "idle"
            BY <2>3
               DEF WorkerStep, WorkerNext, Progress, Lookup, Recheck, ReplayOr, Continue, ReadOrder,
                   Throw, ReadLatest, InsertEvent, UpdateOrder, Commit, Charge, Failure,
                   CommitAckLost, Abort, QueryFails, InTransaction
        <3>2. QED BY <1>3, <3>1 DEF SameCall
    <2>4. QED BY <2>1, <2>2, <2>3
<1>4. QED BY <1>2, <1>3

\* An event is stored for the call it was asked with.
StoredFor(e, w) ==
    /\ e.key = EventKey(w) /\ e.type = step[w]
    /\ call[w].order \in {e.agg, AnyOrder}
    /\ e.agg \in Orders /\ e.version = orders[e.agg].version + 1
    /\ pc[w] = "commit" /\ e.amount = PayloadAmount(w) /\ e.party = PayloadParty(w)

LEMMA NewEvents ==
    ASSUME IInv, BooksInv, SagaInv, NEW w \in Workers, WorkerStep(w)
    PROVE  \A e \in events' : e \in events \/ StoredFor(e, w)
<1>1. CASE WorkerQuiet(w)
    BY <1>1 DEF WorkerQuiet, committedVars
<1>2. CASE Publishes(w)
    <2>1. pc[w] = "commit"
        BY <1>2 DEF Publishes
    <2>2. EventFixed(w)
        BY DEF BooksInv
    <2>3. QED BY <1>2, <2>1, <2>2, PublishedEvent, CommitFacts DEF StoredFor, EventFixed
<1>3. QED BY <1>1, <1>2, WorkerShapes

\* A request puts a call into an idle worker, and nothing else into the service.
LEMMA Requested ==
    ASSUME IInv, NEW c, NEW w \in Workers, Start(w), call'[w] = c
    PROVE  /\ UNCHANGED <<events, orders>> /\ c \in Calls
           /\ \A u \in Workers : SameCall(u) \/ (u = w /\ pc[w] = "idle" /\ call'[u] = c)
<1>1. OrderTypeOK /\ pc[w] = "idle"
    BY DEF IInv, TypeOK, Start
<1>2. OnlyWorker(w) /\ UNCHANGED <<events, orders>> /\ c \in Calls
    BY <1>1 DEF Start, Reply, Goto, OnlyWorker, OrderTypeOK, dbVars
<1>3. QED BY <1>1, <1>2 DEF OnlyWorker, SameCall
=============================================================================
