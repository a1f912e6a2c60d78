---------------------------- MODULE OrderService ----------------------------
(***************************************************************************)
(* The mutations of one order: backend/src/services/financial-service.ts    *)
(* (recordOrder, recordPayment, calculateFees, processOrderPayment,         *)
(* shipOrder, deliverOrder, refundOrder), the wrapper and the gate of       *)
(* event-store.ts they all go through, and the payment provider.            *)
(*                                                                         *)
(* A worker serves one call at a time.  A call is one mutation, except pay, *)
(* a saga of up to three.  Every mutation runs the same control points, one *)
(* database round trip each:                                                *)
(*                                                                         *)
(*   lookup -> read -> latest -> insert -> update -> commit                 *)
(*                 \_______\________\_________\________\-> recheck          *)
(*                                                                         *)
(* where recheck is the catch block of withIdempotentEvent.                 *)
(***************************************************************************)
EXTENDS Database, Sequences

CONSTANTS Calls,          \* what clients may ask for, any number of times
          GeneratedIds,   \* the order ids newOrderId() can return
          AnyOrder,       \* the absent orderId of such a call
          Outcome         \* the provider's answer, by customer id

\* The routes, and the service functions that imports and tests call directly.
Ops == {"create", "pay", "ship", "deliver", "refund",
        "recordOrder", "recordPayment", "calculateFees"}

Call == [op : Ops, order : Orders \cup {AnyOrder}, key : Keys, amount : Nat,
         party : Parties \cup {None}]

Errors == {"NOT_FOUND", "VALIDATION_ERROR", "IDEMPOTENCY_CONFLICT", "VERSION_CONFLICT",
           "INVALID_TRANSITION", "CARD_DECLINED", "STRIPE_ERROR", "LEDGER_IMBALANCED",
           "UNIQUE_KEY", "INTERNAL_ERROR"}      \* UNIQUE_KEY: a raw P2002, HTTP 500

\* The derived keys of the payment saga: `${idempotencyKey}:suffix`.
Suffix == [PaymentProcessing |-> "processing", PaymentFailed |-> "failed",
           PaymentConfirmed |-> "confirmed", FeeCalculated |-> "fee"]

ASSUME OrderServiceAssumption ==
    /\ AnyOrder \notin Orders
    /\ GeneratedIds \subseteq Orders
    /\ Calls \subseteq Call
    /\ \A c \in Calls : /\ c.order = AnyOrder => c.op \in {"create", "recordOrder"}
                        /\ c.op \in {"create", "recordOrder"} => c.order \notin GeneratedIds
                        /\ c.op = "pay" =>
                             /\ c.key \in Parties /\ c.key \in Seq(STRING)
                             /\ \A s \in DOMAIN Suffix : Append(c.key, Suffix[s]) \in Keys
    /\ \A p \in Parties : Outcome[p] \in {"succeeded", "declined", "unavailable"}

VARIABLES pc,           \* control point of each worker
          call,         \* the call it serves
          step,         \* the event type of the mutation it runs
          target,       \* the order it writes to
          seen,         \* the order row it has read in its transaction
          nextVersion,  \* the version it computed from the latest event
          outcome,      \* its answer, or the error it is about to throw
          charges       \* <<order, key>> the provider has captured money for

workVars == <<pc, call, step, target, seen, nextVersion, outcome>>
orderVars == <<workVars, charges>>

Control == {"idle", "find", "lookup", "read", "latest", "insert", "update", "commit",
            "recheck", "charge", "reply"}
InTransaction == {"read", "latest", "insert", "update", "commit"}

NoCall == [op |-> "none", order |-> None, key |-> None, amount |-> 0, party |-> None]

OrderInit ==
    /\ pc = [w \in Workers |-> "idle"]
    /\ call = [w \in Workers |-> NoCall]
    /\ step = [w \in Workers |-> "none"]
    /\ target = [w \in Workers |-> None]
    /\ seen = [w \in Workers |-> NoRow]
    /\ nextVersion = [w \in Workers |-> 0]
    /\ outcome = [w \in Workers |-> "none"]
    /\ charges = {}

OrderTypeOK ==
    /\ pc \in [Workers -> Control]
    /\ call \in [Workers -> Call \cup {NoCall}]
    /\ step \in [Workers -> OrderEventTypes \cup {"none"}]
    /\ target \in [Workers -> Orders \cup {AnyOrder, None}]
    /\ seen \in [Workers -> OrderRow]
    /\ nextVersion \in [Workers -> Nat]
    /\ outcome \in [Workers -> Errors \cup {"OK", "none"}]
    /\ charges \subseteq Orders \X Keys

(***************************************************************************)
(* The mutation a worker runs.                                              *)
(***************************************************************************)
FirstStep == [create |-> "OrderCreated", pay |-> "PaymentProcessing",
              ship |-> "OrderShipped", deliver |-> "OrderDelivered",
              refund |-> "OrderRefunded", recordOrder |-> "OrderCreated",
              recordPayment |-> "PaymentConfirmed", calculateFees |-> "FeeCalculated"]

EventKey(w) == IF call[w].op = "pay" THEN Append(call[w].key, Suffix[step[w]])
                                     ELSE call[w].key

\* The amount and the customer or charge id of the payload.  The provider's
\* charge id is a hash of the client's key: the key itself.
PayloadAmount(w) ==
    IF step[w] \in {"OrderCreated", "PaymentConfirmed", "FeeCalculated"}
    THEN call[w].amount ELSE 0
PayloadParty(w) ==
    CASE step[w] = "OrderCreated"     -> call[w].party
      [] step[w] = "PaymentConfirmed" -> IF call[w].op = "pay" THEN call[w].key
                                                               ELSE call[w].party
      [] OTHER                        -> None

\* Mutant: an event gets the latest version instead of the next one.
EventAtLatestVersion(w) ==
    [agg |-> target[w], type |-> step[w], version |-> nextVersion[w] - 1, key |-> EventKey(w),
     amount |-> PayloadAmount(w), party |-> PayloadParty(w),
     day |-> IF step[w] = "PaymentConfirmed" THEN today ELSE NoDay, lines |-> {}]

EventOf(w) ==
    [agg |-> target[w], type |-> step[w], version |-> nextVersion[w], key |-> EventKey(w),
     amount |-> PayloadAmount(w), party |-> PayloadParty(w),
     day |-> IF step[w] = "PaymentConfirmed" THEN today ELSE NoDay, lines |-> {}]

\* Mutant: a stored event of another order counts as this request's.
SameIntentAnyOrder(e, w) ==
    e.type = step[w] /\ e.amount = PayloadAmount(w) /\ e.party = PayloadParty(w)

\* assertSameIntent, with the intent each mutation passes.
SameIntent(e, w) ==
    /\ e.type = step[w]
    /\ call[w].order # AnyOrder => e.agg = call[w].order
    /\ e.amount = PayloadAmount(w)
    /\ e.party = PayloadParty(w)

(***************************************************************************)
(* Control flow shared by the mutations.                                    *)
(***************************************************************************)
Goto(w, point) == pc' = [pc EXCEPT ![w] = point]

\* The row, version and generated id of a transaction do not outlive it.
ForgetTransaction(w) ==
    /\ seen' = [seen EXCEPT ![w] = NoRow]
    /\ nextVersion' = [nextVersion EXCEPT ![w] = 0]
    /\ target' = [target EXCEPT ![w] = call[w].order]

Reply(w, code) == Goto(w, "reply") /\ outcome' = [outcome EXCEPT ![w] = code]

(***************************************************************************)
(* What follows a mutation that succeeded, executed or replayed.            *)
(***************************************************************************)
Continue(w) ==
    /\ ForgetTransaction(w)
    /\ UNCHANGED <<call, charges>>
    /\ \/ /\ step[w] = "PaymentProcessing"
          /\ Goto(w, "charge")
          /\ outcome' = [outcome EXCEPT ![w] = "none"]
          /\ UNCHANGED step
       \/ /\ step[w] = "PaymentFailed"
          /\ Reply(w, "CARD_DECLINED")
          /\ UNCHANGED step
       \/ /\ step[w] = "PaymentConfirmed" /\ call[w].op = "pay"
          /\ Goto(w, "lookup")
          /\ step' = [step EXCEPT ![w] = "FeeCalculated"]
          /\ outcome' = [outcome EXCEPT ![w] = "none"]
       \/ /\ step[w] \notin {"PaymentProcessing", "PaymentFailed"}
          /\ ~(step[w] = "PaymentConfirmed" /\ call[w].op = "pay")
          /\ Reply(w, "OK")
          /\ UNCHANGED step

\* Mutant: an exception leaves the transaction open.
ThrowWithoutRollback(w, code) ==
    /\ ForgetTransaction(w)
    /\ Goto(w, "recheck")
    /\ outcome' = [outcome EXCEPT ![w] = code]
    /\ UNCHANGED <<dbVars, call, step, charges>>

\* An exception inside the transaction: rollback, then the catch block.
Throw(w, code) ==
    /\ EndTransaction(w)
    /\ ForgetTransaction(w)
    /\ Goto(w, "recheck")
    /\ outcome' = [outcome EXCEPT ![w] = code]
    /\ UNCHANGED <<committedVars, today, call, step, charges>>

(***************************************************************************)
(* A call arrives.  POST /orders validates the amount first.                *)
(***************************************************************************)
Start(w) ==
    /\ pc[w] = "idle"
    /\ \E c \in Calls :
         /\ call' = [call EXCEPT ![w] = c]
         /\ step' = [step EXCEPT ![w] = FirstStep[c.op]]
         /\ target' = [target EXCEPT ![w] = c.order]
         /\ \/ /\ c.op = "create" /\ c.amount \notin OrderAmounts
               /\ Reply(w, "VALIDATION_ERROR")
            \/ /\ c.op = "create" => c.amount \in OrderAmounts
               /\ Goto(w, IF c.op = "pay" THEN "find" ELSE "lookup")
               /\ UNCHANGED outcome
    /\ UNCHANGED <<dbVars, seen, nextVersion, charges>>

\* processOrderPayment reads the amount and the customer once, before the saga.
FindOrder(w) ==
    /\ pc[w] = "find"
    /\ LET row == orders[call[w].order]
       IN  IF row.status = "NONE"
           THEN Reply(w, "NOT_FOUND") /\ UNCHANGED call
           ELSE /\ call' = [call EXCEPT ![w].amount = row.amount, ![w].party = row.customer]
                /\ Goto(w, "lookup")
                /\ UNCHANGED outcome
    /\ UNCHANGED <<dbVars, step, target, seen, nextVersion, charges>>

\* replayOrderResult: the event answers for this request, with its order's row.
Replayable(e, w) == SameIntent(e, w) /\ orders[e.agg].status # "NONE"

(***************************************************************************)
(* withIdempotentEvent, before and after the transaction: replay the event  *)
(* stored under the key, or go on with `otherwise`.  The query for the row  *)
(* of a replayed event follows the one for the event with nothing between   *)
(* them but reads of what is never taken back; if either fails, QueryFails. *)
(***************************************************************************)
ReplayOr(w, otherwise) ==
    \/ \E e \in StoredUnder(EventKey(w)) :
         \/ Replayable(e, w) /\ Continue(w)
         \/ /\ ~Replayable(e, w)
            /\ Reply(w, IF SameIntent(e, w) THEN "NOT_FOUND" ELSE "IDEMPOTENCY_CONFLICT")
            /\ UNCHANGED <<call, step, target, seen, nextVersion, charges>>
    \/ /\ StoredUnder(EventKey(w)) = {}
       /\ otherwise
       /\ UNCHANGED <<call, step, target, seen, nextVersion, charges>>

Lookup(w) ==
    /\ pc[w] = "lookup"
    /\ ReplayOr(w, Goto(w, "read") /\ UNCHANGED outcome)
    /\ UNCHANGED dbVars

\* Mutant: the error is thrown without asking for the key again.
RecheckSkipped(w) ==
    /\ pc[w] = "recheck"
    /\ Reply(w, outcome[w])
    /\ UNCHANGED <<dbVars, call, step, target, seen, nextVersion, charges>>

Recheck(w) ==
    /\ pc[w] = "recheck"
    /\ ReplayOr(w, Reply(w, outcome[w]))
    /\ UNCHANGED dbVars

(***************************************************************************)
(* The transaction.                                                         *)
(***************************************************************************)

\* Mutant: fees may be calculated a second time.
RejectionWithoutFeeCheck(w, row) ==
    IF row.status = "NONE" /\ step[w] # "OrderCreated" THEN "NOT_FOUND"
    ELSE IF ~IsTransitionAllowed(step[w], row.status) THEN "INVALID_TRANSITION"
    ELSE IF step[w] \in {"PaymentConfirmed", "FeeCalculated"} /\ row.amount # call[w].amount
         THEN "VALIDATION_ERROR"
    ELSE IF step[w] = "OrderRefunded" /\ row.settlement # NoDay THEN "INVALID_TRANSITION"
    ELSE "none"

\* What a mutation refuses, given the order row it reads.
Rejection(w, row) ==
    IF row.status = "NONE" /\ step[w] # "OrderCreated" THEN "NOT_FOUND"
    ELSE IF \/ ~IsTransitionAllowed(step[w], row.status)
            \/ step[w] = "FeeCalculated" /\ row.fee # NoFee
         THEN "INVALID_TRANSITION"
    ELSE IF step[w] \in {"PaymentConfirmed", "FeeCalculated"} /\ row.amount # call[w].amount
         THEN "VALIDATION_ERROR"
    ELSE IF step[w] = "OrderRefunded" /\ row.settlement # NoDay THEN "INVALID_TRANSITION"
    ELSE "none"

\* newOrderId() never returns an id twice.
FreshIds == {o \in GeneratedIds : orders[o].status = "NONE" /\ \A u \in Workers : target[u] # o}

ReadOrder(w) ==
    /\ pc[w] = "read"
    /\ \E o \in IF call[w].order = AnyOrder THEN FreshIds ELSE {call[w].order} :
         \/ /\ Rejection(w, orders[o]) = "none"
            /\ target' = [target EXCEPT ![w] = o]
            /\ seen' = [seen EXCEPT ![w] = orders[o]]
            /\ IF step[w] = "OrderCreated"
               THEN Goto(w, "insert") /\ nextVersion' = [nextVersion EXCEPT ![w] = 1]
               ELSE Goto(w, "latest") /\ UNCHANGED nextVersion
            /\ UNCHANGED <<dbVars, call, step, outcome, charges>>
         \/ /\ Rejection(w, orders[o]) # "none"
            /\ Throw(w, Rejection(w, orders[o]))

ReadLatest(w) ==
    /\ pc[w] = "latest"
    /\ nextVersion' = [nextVersion EXCEPT ![w] = LatestVersion(target[w]) + 1]
    /\ Goto(w, "insert")
    /\ UNCHANGED <<dbVars, call, step, target, seen, outcome, charges>>

\* The amounts of the postings; a refund takes them from the row it has read.
PostedAmount(w) == IF step[w] = "OrderRefunded" THEN seen[w].amount ELSE call[w].amount
PostedFee(w) == IF step[w] # "OrderRefunded" THEN CalculateFee(call[w].amount)
                ELSE IF seen[w].fee = NoFee THEN 0 ELSE seen[w].fee

(***************************************************************************)
(* appendEvent and postLedger.  A conflict on (aggregate, version) becomes  *)
(* VERSION_CONFLICT; one on the key stays a raw P2002, answered with 500    *)
(* unless the recheck finds the event.                                      *)
(***************************************************************************)
InsertEvent(w) ==
    /\ pc[w] = "insert"
    /\ \/ /\ InsertEventRow(w, EventOf(w))
          /\ PostingsValid(step[w], PostedAmount(w), PostedFee(w))
          /\ Goto(w, "update")
          /\ UNCHANGED <<committedVars, locks, today, call, step, target, seen,
                         nextVersion, outcome, charges>>
       \/ /\ ~MustWait(w, EventOf(w)) /\ ~Refused(EventOf(w))
          /\ ~PostingsValid(step[w], PostedAmount(w), PostedFee(w))
          /\ Throw(w, "LEDGER_IMBALANCED")
       \/ \E e \in events :
            \/ SameVersion(e, EventOf(w)) /\ Throw(w, "VERSION_CONFLICT")
            \/ e.key = EventKey(w) /\ Throw(w, "UNIQUE_KEY")

\* Mutant: the update of the projection is not guarded by the version read.
GuardWithoutVersion(w, row) == step[w] = "OrderRefunded" => row.settlement = NoDay

\* Mutant: a refund does not check the settlement again when it writes.
GuardWithoutSettlement(w, row) == row.version = seen[w].version

(***************************************************************************)
(* The WHERE of updateProjectionGuarded.  recordOrder inserts a row that    *)
(* does not exist; that is the same condition at version 0.                 *)
(***************************************************************************)
UpdateGuard(w, row) ==
    /\ row.version = seen[w].version
    /\ step[w] = "OrderRefunded" => row.settlement = NoDay

UpdateOrder(w) ==
    /\ pc[w] = "update"
    /\ IF UpdateGuard(w, orders[target[w]])
       THEN /\ RowIsFree(target[w])
            /\ LockRow(w, target[w])
            /\ Goto(w, "commit")
            /\ UNCHANGED <<committedVars, pending, today, call, step, target, seen,
                           nextVersion, outcome, charges>>
       ELSE Throw(w, "VERSION_CONFLICT")

(***************************************************************************)
(* The columns an event of each type sets in its order's row.               *)
(***************************************************************************)
Written(row, e) ==
    CASE e.type = "OrderCreated" ->
           [NoRow EXCEPT !.status = "CREATED", !.version = 1, !.amount = e.amount,
                         !.customer = e.party]
      [] e.type = "PaymentConfirmed" ->
           [row EXCEPT !.status = "PAID", !.version = e.version, !.paidDay = e.day,
                       !.charge = e.party]
      [] e.type = "FeeCalculated" ->
           [row EXCEPT !.fee = CalculateFee(e.amount), !.version = e.version]
      [] OTHER ->
           [row EXCEPT !.status = NextStatus[e.type], !.version = e.version]

Publish(w) ==
    /\ events' = events \cup {pending[w]}
    /\ orders' = [orders EXCEPT ![target[w]] = Written(@, pending[w])]
    /\ ledger' = [ledger EXCEPT ![target[w]] =
                    PostEvent(@, step[w], PostedAmount(w), PostedFee(w))]
    /\ EndTransaction(w)
    /\ UNCHANGED <<settlements, today>>

Commit(w) ==
    /\ pc[w] = "commit"
    /\ Publish(w)
    /\ Continue(w)

\* The database commits and the connection dies before it says so.
CommitAckLost(w) ==
    /\ "ack_lost" \in Faults
    /\ pc[w] = "commit"
    /\ Publish(w)
    /\ ForgetTransaction(w)
    /\ Goto(w, "recheck")
    /\ outcome' = [outcome EXCEPT ![w] = "INTERNAL_ERROR"]
    /\ UNCHANGED <<call, step, charges>>

\* The transaction times out, loses its connection or is chosen as a victim.
Abort(w) ==
    /\ "abort" \in Faults
    /\ pc[w] \in InTransaction
    /\ Throw(w, "INTERNAL_ERROR")

\* A statement outside a transaction fails: nothing catches it.
QueryFails(w) ==
    /\ "query_fails" \in Faults
    /\ pc[w] \in {"find", "lookup", "recheck"}
    /\ Reply(w, "INTERNAL_ERROR")
    /\ UNCHANGED <<dbVars, call, step, target, seen, nextVersion, charges>>

(***************************************************************************)
(* stripe.processPayment: a function of the customer; the same key charges  *)
(* once.  A decline is recorded, an outage leaves the order as it is.       *)
(***************************************************************************)
Charge(w) ==
    /\ pc[w] = "charge"
    /\ LET answer == Outcome[call[w].party]
       IN  \/ /\ answer = "succeeded"
              /\ charges' = charges \cup {<<call[w].order, call[w].key>>}
              /\ step' = [step EXCEPT ![w] = "PaymentConfirmed"]
              /\ Goto(w, "lookup")
              /\ UNCHANGED outcome
           \/ /\ answer = "declined"
              /\ step' = [step EXCEPT ![w] = "PaymentFailed"]
              /\ Goto(w, "lookup")
              /\ UNCHANGED <<charges, outcome>>
           \/ /\ answer = "unavailable"
              /\ Reply(w, "STRIPE_ERROR")
              /\ UNCHANGED <<step, charges>>
    /\ UNCHANGED <<dbVars, call, target, seen, nextVersion>>

\* The worker is ready for the next call.
Reset(w) ==
    /\ Goto(w, "idle")
    /\ call' = [call EXCEPT ![w] = NoCall]
    /\ step' = [step EXCEPT ![w] = "none"]
    /\ target' = [target EXCEPT ![w] = None]
    /\ seen' = [seen EXCEPT ![w] = NoRow]
    /\ nextVersion' = [nextVersion EXCEPT ![w] = 0]
    /\ outcome' = [outcome EXCEPT ![w] = "none"]
    /\ UNCHANGED charges

Finish(w) ==
    /\ pc[w] = "reply"
    /\ Reset(w)
    /\ UNCHANGED dbVars

\* The process dies: the server rolls its transaction back, nobody is answered.
Crash(w) ==
    /\ "crash" \in Faults
    /\ pc[w] \notin {"idle", "reply"}
    /\ EndTransaction(w)
    /\ Reset(w)
    /\ UNCHANGED <<committedVars, today>>

\* What the service does by itself, and what its environment does to it.
Progress(w) ==
    \/ FindOrder(w) \/ Lookup(w) \/ Recheck(w) \/ ReadOrder(w) \/ ReadLatest(w)
    \/ InsertEvent(w) \/ UpdateOrder(w) \/ Commit(w) \/ Charge(w) \/ Finish(w)

Failure(w) == CommitAckLost(w) \/ Abort(w) \/ QueryFails(w) \/ Crash(w)

WorkerNext(w) == Start(w) \/ Progress(w) \/ Failure(w)
=============================================================================
