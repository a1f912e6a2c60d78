---------------------------- MODULE SellerLedger ----------------------------
(***************************************************************************)
(* The service: any number of workers and settlers over one database, the   *)
(* payment provider and the calendar.                                       *)
(***************************************************************************)
EXTENDS OrderService, SettlementService, Projector

vars == <<dbVars, orderVars, settleVars>>

Init == DbInit /\ OrderInit /\ SettlementInit

WorkerStep(w) == WorkerNext(w) /\ UNCHANGED settleVars
SettlerStep(s) == SettlerNext(s) /\ UNCHANGED orderVars
CalendarStep == AdvanceDay /\ UNCHANGED <<orderVars, settleVars>>

Next ==
    \/ \E w \in Workers : WorkerStep(w)
    \/ \E s \in Settlers : SettlerStep(s)
    \/ CalendarStep

Spec == Init /\ [][Next]_vars

(***************************************************************************)
(* Fairness.  A worker whose next statement can run eventually runs it; the  *)
(* queue of a lock or of an index entry is first come, first served, so a    *)
(* transaction that finds it free again and again gets it (strong fairness). *)
(* A deadlock is eventually broken.  Calls, failures and the calendar are    *)
(* under no obligation.                                                      *)
(***************************************************************************)
BreakDeadlock == \E s \in Settlers : DeadlockVictim(s) /\ UNCHANGED orderVars

Fairness ==
    /\ \A w \in Workers : SF_vars(Progress(w) /\ UNCHANGED settleVars)
    /\ \A s \in Settlers : SF_vars(SettleProgress(s) /\ UNCHANGED orderVars)
    /\ WF_vars(BreakDeadlock)

FairSpec == Spec /\ Fairness

TypeOK == DbTypeOK /\ OrderTypeOK /\ SettlementTypeOK

(***************************************************************************)
(* The event log.                                                           *)
(***************************************************************************)

\* The events of an order carry the versions 1, 2, ... without gap or
\* repetition, and the order's row carries the last of them (CONCURRENCY.md:9;
\* appendEvent and updateProjectionGuarded).
VersionsDense ==
    \A o \in Orders :
        /\ {e.version : e \in EventsOf(o)} = 1..orders[o].version
        /\ \A e, f \in EventsOf(o) : e.version = f.version => e = f

\* One idempotency key stores at most one event, whatever order, operation or
\* settlement it was sent with (CONCURRENCY.md:10).
OneEventPerKey == \A e, f \in events : e.key = f.key => e = f

StatusAfter(o, v) ==
    IF v = 0 THEN "NONE" ELSE NextStatus[(CHOOSE e \in EventsOf(o) : e.version = v).type]

\* Every stored event was legal in the status its predecessor left behind
\* (assertTransition decides on a row read two statements earlier).
LegalHistory ==
    \A o \in Orders : \A e \in EventsOf(o) :
        e.type \in OrderEventTypes /\
        StatusAfter(o, e.version - 1) \in AllowedFrom[e.type]

\* The read model is what replaying the log gives, column by column
\* (schema.prisma:105-107, projection-consistency.test.ts).
ReadModelMatchesReplay == \A o \in Orders : Rebuilt(events, o) = {orders[o]}

(***************************************************************************)
(* Money.                                                                   *)
(***************************************************************************)
PaidLike(o) == orders[o].status \in {"PAID", "SHIPPED", "DELIVERED"}

FeeTaken(o) == IF orders[o].fee = NoFee THEN 0 ELSE orders[o].fee

\* The nets that the lifecycle of an order should have left on its accounts:
\* everything back to zero after a refund (FINANCIAL_RULES.md).
ExpectedNets(o) ==
    LET amount == orders[o].amount
        fee    == FeeTaken(o)
        payout == IF orders[o].settlement = NoDay THEN 0 ELSE amount - fee
    IN  CASE orders[o].status \in {"NONE", "REFUNDED"} -> NoEntries
          [] PaidLike(o) ->
               [NoEntries EXCEPT !["order_pending"] = -amount, !["fees_owed"] = fee,
                                 !["payment_received"] = amount - fee - payout,
                                 !["seller_payout"] = payout]
          [] OTHER ->
               [NoEntries EXCEPT !["order_balance"] = amount, !["order_pending"] = -amount]

\* The ledger and the read model tell the same story: a payment, a fee and a
\* payout are each posted once, a refund reverses exactly what was posted.
LedgerMatchesReadModel == \A o \in Orders : ledger[o] = ExpectedNets(o)

\* A settlement names exactly the orders marked with it, its totals are theirs,
\* and a settled order is never refunded (CONCURRENCY.md:13).
SettlementsAddUp ==
    \A d \in Days :
        LET settled == {o \in Orders : orders[o].settlement = d}
            row == settlements[d]
        IN  /\ row.lines = settled
            /\ row.gross = MapThenSumSet(LAMBDA o : orders[o].amount, settled)
            /\ row.payout = MapThenSumSet(LAMBDA o : ledger[o]["seller_payout"], settled)
            /\ row.fees = row.gross - row.payout
            /\ \A o \in settled : PaidLike(o) /\ orders[o].paidDay <= d

\* The provider captures money for an order under one client key at most
\* (state-machine.ts:12-15).
NoDoubleCharge ==
    \A c, d \in charges : c[1] = d[1] => c[2] = d[2]

\* Money captured but not yet confirmed is never stranded: its order still
\* waits in PAYMENT_PROCESSING for a retry with the key that was charged
\* (financial-service.ts:369-373).
ChargeRecoverable ==
    \A c \in charges :
        \/ \E e \in StoredUnder(Append(c[2], "confirmed")) :
             e.agg = c[1] /\ e.type = "PaymentConfirmed"
        \/ /\ orders[c[1]].status = "PAYMENT_PROCESSING"
           /\ \E e \in StoredUnder(Append(c[2], "processing")) :
                e.agg = c[1] /\ e.version = orders[c[1]].version

(***************************************************************************)
(* Answers.                                                                 *)
(***************************************************************************)

\* An answer of success is backed by the stored event the caller asked for:
\* its operation, its order, its amount (event-store.ts:79-100).
SuccessIsStored ==
    \A w \in Workers :
        pc[w] = "reply" /\ outcome[w] = "OK" =>
            \E e \in StoredUnder(EventKey(w)) :
                /\ e.type = step[w]
                /\ call[w].order \in {e.agg, AnyOrder}
                /\ call[w].op \in {"create", "pay"} =>
                     /\ orders[e.agg].amount = call[w].amount
                     /\ orders[e.agg].customer = call[w].party

\* Everything a call asks for has been done under its key, by whomever: the
\* money of a payment is captured and its three events are stored; any other
\* mutation has its event, of the order, the amount and the party asked for.
Fulfilled(c) ==
    IF c.op = "pay"
    THEN /\ <<c.order, c.key>> \in charges
         /\ \A t \in {"PaymentProcessing", "PaymentConfirmed", "FeeCalculated"} :
              \E e \in StoredUnder(Append(c.key, Suffix[t])) :
                  e.type = t /\ e.agg = c.order /\ (t = "PaymentConfirmed" => e.party = c.key)
    ELSE \E e \in StoredUnder(c.key) :
             /\ e.type = FirstStep[c.op] /\ c.order \in {e.agg, AnyOrder}
             /\ c.op \in {"ship", "deliver", "refund"} \/ (e.amount = c.amount /\ e.party = c.party)

\* The converse: a call whose work is done is answered with success, whoever did
\* it: this request, whose acknowledgement was lost, an earlier one that was not
\* answered, or a twin that won the race in any of three ways.  It does not
\* matter how far the order has moved on since.  Only a query that fails
\* outside a transaction keeps the answer back (event-store.ts:107-113).
StoredIsSuccess ==
    [][\A w \in Workers :
         pc[w] \notin {"idle", "reply"} /\ pc'[w] = "reply" /\ Fulfilled(call[w])
         => outcome'[w] = "OK" \/ QueryFails(w)]_vars

\* An order that a settlement of this date selects is lost to it.
LostToSettlement(o, d) ==
    /\ orders[o].fee # NoFee /\ orders[o].paidDay \in 1..d
    /\ orders[o].status = "REFUNDED" \/ orders[o].settlement \notin {NoDay, d}

\* A settlement is refused for a conflict only if its date is not settled and
\* the conflict is real.  VERSION_CONFLICT: since it began to select, an order
\* it wanted was refunded or settled under another date; a shipment or a
\* delivery that gets in between is no reason.  UNIQUE_KEY: the key belongs to
\* another aggregate (financial-service.ts:665-677, 685-700).
SettlementRefusalIsReal ==
    [][\A s \in Settlers :
         spc[s] # "reply" /\ spc'[s] = "reply" /\ result'[s] \in {"VERSION_CONFLICT", "UNIQUE_KEY"}
         => /\ ~settlements[scall[s].day].exists
            /\ result'[s] = "VERSION_CONFLICT" =>
                 \E o \in Orders : LostToSettlement(o, scall[s].day)
            /\ result'[s] = "UNIQUE_KEY" =>
                 \E e \in StoredUnder(scall[s].key) :
                     e.agg # SettlementAggregate(scall[s].day)]_vars

\* Every call ends: no transaction waits for ever behind another, no retry of a
\* lookup goes round in circles (event-store.ts:11, "no deadlocks").
EveryCallEnds == \A w \in Workers : pc[w] # "idle" ~> pc[w] = "idle"

EverySettlementCallEnds == \A s \in Settlers : spc[s] # "idle" ~> spc[s] = "idle"

(***************************************************************************)
(* Statements of the documentation that the code does not keep.             *)
(***************************************************************************)

\* "a retry after ANY partial failure (timeout, crash, Stripe 5xx) resumes
\* exactly where it stopped: completed steps replay, pending steps execute"
\* (financial-service.ts:370-372): once the payment of a saga is confirmed, no
\* retry with its key is turned away.
ConfirmedSagaResumes ==
    [][\A w \in Workers :
         /\ call[w].op = "pay" /\ StoredUnder(Append(call[w].key, "confirmed")) # {}
         /\ pc[w] # "reply" /\ pc'[w] = "reply"
         => outcome'[w] # "INVALID_TRANSITION"]_vars

\* "`withIdempotentEvent` wraps every mutation: event with this key exists ...
\* mismatch is 422 IDEMPOTENCY_CONFLICT" (CONCURRENCY.md:49-53): a settlement
\* call whose key belongs to another event is not answered with the raw
\* constraint violation, an HTTP 500.
ReusedSettlementKeyIsReported ==
    \A s \in Settlers : spc[s] = "reply" => result[s] # "UNIQUE_KEY"
=============================================================================
