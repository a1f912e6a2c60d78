------------------------- MODULE SellerLedgerProofs -------------------------
(***************************************************************************)
(* Theorems of SellerLedger, for any number of orders, workers, settlers,    *)
(* keys, days and calls, and with every fault enabled or not.               *)
(*                                                                         *)
(* The argument.  No order row is trusted to be current: a worker decides on *)
(* a row it has read (seen) and on a version it has computed (nextVersion),  *)
(* both possibly stale.  What makes the decision good is the gate: while a   *)
(* transaction's event row is pending, no conflicting row can be committed   *)
(* (GateOK).  As the versions of an order are dense, a pending event whose   *)
(* version is at most one past the order's is exactly one past it, so that   *)
(* the version guard of the projection update, evaluated once, holds until   *)
(* the commit.                                                              *)
(***************************************************************************)
EXTENDS SellerLedger, TLAPS

(***************************************************************************)
(* The inductive invariant.                                                 *)
(***************************************************************************)

\* The call of a busy worker is one of Calls (with the amount and the customer
\* of its order filled in, if it is a payment), and its mutation belongs to it.
CallOK(w) ==
    pc[w] # "idle" =>
        /\ call[w] \in Call
        /\ call[w].order = AnyOrder => call[w].op \in {"create", "recordOrder"}
        /\ call[w].op = "pay" =>
             /\ call[w].key \in Parties
             /\ \A s \in DOMAIN Suffix : Append(call[w].key, Suffix[s]) \in Keys
             /\ step[w] \in DOMAIN Suffix
        /\ call[w].op # "pay" => step[w] = FirstStep[call[w].op]
        /\ pc[w] \in {"find", "charge"} => call[w].op = "pay"

Writing == {"latest", "insert", "update", "commit"}

\* What a transaction has read: a row that allowed its event when it was read,
\* and that still is the order's row if the version has not moved.
ReadOK(w) ==
    pc[w] \in Writing =>
        /\ target[w] \in Orders
        /\ seen[w].status \in AllowedFrom[step[w]]
        /\ seen[w].version <= orders[target[w]].version
        /\ seen[w].version = orders[target[w]].version =>
             seen[w].status = orders[target[w]].status

\* The version it will write is at most one past the order's.
VersionOK(w) ==
    /\ pc[w] \in {"insert", "update", "commit"} =>
         /\ nextVersion[w] >= 1
         /\ nextVersion[w] <= orders[target[w]].version + 1
         /\ step[w] = "OrderCreated" => nextVersion[w] = 1
    /\ pc[w] = "latest" => step[w] # "OrderCreated"
    /\ pc[w] = "commit" => nextVersion[w] = seen[w].version + 1

\* The event row it has inserted.
PendingOK(w) ==
    IF pc[w] \in {"update", "commit"}
    THEN /\ pending[w] # NoEvent
         /\ pending[w].agg = target[w]
         /\ pending[w].version = nextVersion[w]
         /\ pending[w].type = step[w]
    ELSE pending[w] = NoEvent

SettlerOK(s) ==
    /\ spc[s] # "idle" => scall[s] \in SettleCall
    /\ spc[s] = "mark" => TotalsFit(lines[s]) /\ pending[s] = SettlementEvent(s)
    /\ spc[s] # "mark" => pending[s] = NoEvent

\* The unique indexes: no two event rows clash, committed or pending.
GateOK ==
    /\ \A e, f \in events : Clash(e, f) => e = f
    /\ \A t \in Tx : pending[t] # NoEvent => \A e \in events : ~Clash(e, pending[t])
    /\ \A t, u \in Tx : pending[t] # NoEvent /\ pending[u] # NoEvent /\ t # u
                          => ~Clash(pending[t], pending[u])

\* The stream of an order: versions without gap, each event legal after its
\* predecessor, the row in the status of the last.
StreamOK(o) ==
    /\ {e.version : e \in EventsOf(o)} = 1..orders[o].version
    /\ orders[o].version = 0 => orders[o].status = "NONE"
    /\ \A e \in EventsOf(o) :
         /\ e.type \in OrderEventTypes
         /\ e.version = orders[o].version => orders[o].status = NextStatus[e.type]
         /\ e.version = 1 => "NONE" \in AllowedFrom[e.type]
         /\ \A f \in EventsOf(o) :
              f.version = e.version + 1 => NextStatus[e.type] \in AllowedFrom[f.type]

IInv ==
    /\ TypeOK
    /\ \A w \in Workers : CallOK(w) /\ ReadOK(w) /\ VersionOK(w) /\ PendingOK(w)
    /\ \A s \in Settlers : SettlerOK(s)
    /\ GateOK
    /\ \A o \in Orders : StreamOK(o)

(***************************************************************************)
(* Lemmas about the operators.                                              *)
(***************************************************************************)

\* The columns an event writes keep the row well formed.
LEMMA WrittenType ==
    ASSUME NEW row \in OrderRow, NEW e \in EventRow, e.type \in OrderEventTypes
    PROVE  Written(row, e) \in OrderRow
<1>1. NoRow \in OrderRow
    BY DEF NoRow, OrderRow, Statuses, NoFee, NoDay
<1>2. CalculateFee(e.amount) \in Nat
    BY DEF EventRow, CalculateFee
<1>3. NextStatus[e.type] \in Statuses
    BY DEF NextStatus, OrderEventTypes, Statuses
<1>4. QED BY <1>1, <1>2, <1>3 DEF Written, OrderRow, EventRow, Statuses, NoDay, NoFee

\* Postings keep the nets of an order integers.
LEMMA PostEventType ==
    ASSUME NEW nets \in [Accounts -> Int], NEW type, NEW amount \in Int, NEW fee \in Int
    PROVE  PostEvent(nets, type, amount, fee) \in [Accounts -> Int]
<1>1. \A n \in [Accounts -> Int] : \A a \in Accounts : \A m \in Int :
        Debit(n, a, m) \in [Accounts -> Int] /\ Credit(n, a, m) \in [Accounts -> Int]
    BY DEF Debit, Credit
<1>2. {"order_balance", "order_pending", "payment_received", "fees_owed"} \subseteq Accounts
    BY DEF Accounts
<1>3. PostOrderRefunded(nets, amount, fee) \in [Accounts -> Int]
    BY <1>1, <1>2 DEF PostOrderRefunded
<1>4. QED BY <1>1, <1>2, <1>3
             DEF PostEvent, PostOrderCreated, PostPaymentConfirmed, PostFeeCalculated

\* The key a busy worker looks up and stores is a key.
LEMMA EventKeyType ==
    ASSUME NEW w \in Workers, OrderTypeOK, CallOK(w), pc[w] # "idle"
    PROVE  EventKey(w) \in Keys
BY DEF CallOK, EventKey, Call

\* The mutation of a busy worker is an order event type.
LEMMA StepType ==
    ASSUME NEW w \in Workers, OrderTypeOK, CallOK(w), pc[w] # "idle"
    PROVE  step[w] \in OrderEventTypes
BY DEF CallOK, Suffix, FirstStep, Call, Ops, OrderEventTypes

\* An inserted row is well formed, and is not the absent row.
LEMMA EventOfType ==
    ASSUME NEW w \in Workers, TypeOK, CallOK(w), pc[w] = "insert", target[w] \in Orders,
           nextVersion[w] >= 1
    PROVE  EventOf(w) \in EventRow /\ EventOf(w) # NoEvent
<1>1. EventKey(w) \in Keys /\ step[w] \in OrderEventTypes
    BY EventKeyType, StepType DEF TypeOK
<1>2. PayloadAmount(w) \in Nat
    BY DEF PayloadAmount, TypeOK, OrderTypeOK, CallOK, Call
<1>3. PayloadParty(w) \in Parties \cup {None}
    BY DEF PayloadParty, TypeOK, OrderTypeOK, CallOK, Call
<1>4. nextVersion[w] \in Nat \ {0}
    BY DEF TypeOK, OrderTypeOK
<1>5. today \in Days
    BY DEF TypeOK, DbTypeOK
<1>6. EventOf(w) \in EventRow
    BY <1>1, <1>2, <1>3, <1>4, <1>5 DEF EventOf, EventRow
<1>7. QED BY <1>4, <1>6 DEF EventOf, NoEvent

LEMMA SettlementEventType ==
    ASSUME NEW s \in Settlers, TypeOK, scall[s] \in SettleCall
    PROVE  SettlementEvent(s) \in EventRow /\ SettlementEvent(s) # NoEvent
<1>1. LineIds(s) \subseteq Orders
    BY DEF LineIds, TypeOK, SettlementTypeOK, Line
<1>2. SettlementEvent(s) \in EventRow
    BY <1>1 DEF SettlementEvent, EventRow, SettleCall
<1>3. QED BY <1>2 DEF SettlementEvent, NoEvent

\* The version of the latest event is the version of the order's row.
LEMMA LatestVersionIs ==
    ASSUME NEW o \in Orders, TypeOK, StreamOK(o)
    PROVE  LatestVersion(o) = orders[o].version
<1> DEFINE n == orders[o].version
<1>1. n \in Nat
    BY DEF TypeOK, DbTypeOK, OrderRow
<1>2. {0} \cup {e.version : e \in EventsOf(o)} = 0..n
    BY <1>1 DEF StreamOK
<1>3. Max(0..n) = n
    <2>1. n \in 0..n /\ \A y \in 0..n : n >= y
        BY <1>1
    <2>2. \A m \in 0..n : (\A y \in 0..n : m >= y) => m = n
        BY <1>1
    <2>3. QED BY <2>1, <2>2 DEF Max
<1>4. QED BY <1>2, <1>3 DEF LatestVersion

(***************************************************************************)
(* The initial states.                                                      *)
(***************************************************************************)
LEMMA InitIInv == Init => IInv
<1> SUFFICES ASSUME Init PROVE IInv
    OBVIOUS
<1> USE DEF Init, DbInit, OrderInit, SettlementInit
<1>1. DbTypeOK
    BY DatabaseAssumption
       DEF DbTypeOK, NoRow, OrderRow, Statuses, NoFee, NoDay, NoEntries, SettlementRow,
           NoSettlement, Days
<1>2. OrderTypeOK
    BY <1>1 DEF DbTypeOK, OrderTypeOK, Control, NoRow, OrderRow, Statuses, NoFee, NoDay
<1>3. SettlementTypeOK
    BY DEF SettlementTypeOK
<1>4. \A w \in Workers : CallOK(w) /\ ReadOK(w) /\ VersionOK(w) /\ PendingOK(w)
    BY DEF CallOK, ReadOK, VersionOK, PendingOK, Writing, Tx
<1>5. \A s \in Settlers : SettlerOK(s)
    BY DEF SettlerOK, Tx
<1>6. GateOK
    BY DEF GateOK
<1>7. ASSUME NEW o \in Orders PROVE StreamOK(o)
    BY DEF StreamOK, EventsOf, NoRow
<1>8. QED BY <1>1, <1>2, <1>3, <1>4, <1>5, <1>6, <1>7 DEF IInv, TypeOK

(***************************************************************************)
(* Steps that publish nothing.                                              *)
(***************************************************************************)

\* The parts of the invariant that a step leaves alone when the committed
\* events and order rows stay and pending changes for one transaction, to a
\* row that passes the gate or to none.
LEMMA GateFrame ==
    ASSUME IInv, NEW t \in Tx, UNCHANGED <<events, orders>>,
           \A u \in Tx \ {t} : pending'[u] = pending[u],
           \/ pending'[t] \in {NoEvent, pending[t]}
           \/ ~MustWait(t, pending'[t]) /\ ~Refused(pending'[t])
    PROVE  GateOK' /\ \A o \in Orders : StreamOK(o)'
<1>1. \A o \in Orders : StreamOK(o)'
    BY DEF IInv, StreamOK, EventsOf
<1>2. \A e, f : Clash(e, f) <=> Clash(f, e)
    BY DEF Clash, SameVersion
<1>3. GateOK'
    BY <1>2 DEF IInv, GateOK, MustWait, Refused
<1>4. QED BY <1>1, <1>3

\* One worker moves, and publishes nothing.
LEMMA WorkerFrame ==
    ASSUME IInv, TypeOK', NEW w \in Workers, UNCHANGED <<events, orders, settleVars>>,
           \A u \in Workers \ {w} :
               /\ pc'[u] = pc[u] /\ call'[u] = call[u] /\ step'[u] = step[u]
               /\ target'[u] = target[u] /\ seen'[u] = seen[u]
               /\ nextVersion'[u] = nextVersion[u],
           \A u \in Tx \ {w} : pending'[u] = pending[u],
           \/ pending'[w] \in {NoEvent, pending[w]}
           \/ ~MustWait(w, pending'[w]) /\ ~Refused(pending'[w]),
           CallOK(w)', ReadOK(w)', VersionOK(w)', PendingOK(w)'
    PROVE  IInv'
<1>1. GateOK' /\ \A o \in Orders : StreamOK(o)'
    BY GateFrame DEF Tx
<1>2. ASSUME NEW u \in Workers PROVE CallOK(u)' /\ ReadOK(u)' /\ VersionOK(u)' /\ PendingOK(u)'
    <2>1. CASE u = w
        BY <2>1
    <2>2. CASE u # w
        BY <2>2 DEF IInv, CallOK, ReadOK, VersionOK, PendingOK, Tx
    <2>3. QED BY <2>1, <2>2
<1>3. ASSUME NEW s \in Settlers PROVE SettlerOK(s)'
    <2>1. s # w
        BY DatabaseAssumption
    <2>2. pending'[s] = pending[s]
        BY <2>1 DEF Tx
    <2>3. QED BY <2>2 DEF IInv, SettlerOK, SettlementEvent, LineIds, settleVars
<1>4. QED BY <1>1, <1>2, <1>3 DEF IInv

\* One settler moves, and publishes nothing.
LEMMA SettlerFrame ==
    ASSUME IInv, TypeOK', NEW s \in Settlers, UNCHANGED <<events, orders, orderVars>>,
           \A r \in Settlers \ {s} :
               spc'[r] = spc[r] /\ scall'[r] = scall[r] /\ lines'[r] = lines[r],
           \A u \in Tx \ {s} : pending'[u] = pending[u],
           \/ pending'[s] \in {NoEvent, pending[s]}
           \/ ~MustWait(s, pending'[s]) /\ ~Refused(pending'[s]),
           SettlerOK(s)'
    PROVE  IInv'
<1>1. GateOK' /\ \A o \in Orders : StreamOK(o)'
    BY GateFrame DEF Tx
<1>2. ASSUME NEW w \in Workers PROVE CallOK(w)' /\ ReadOK(w)' /\ VersionOK(w)' /\ PendingOK(w)'
    <2>1. s # w
        BY DatabaseAssumption
    <2>2. pending'[w] = pending[w]
        BY <2>1 DEF Tx
    <2>3. QED BY <2>2 DEF IInv, CallOK, ReadOK, VersionOK, PendingOK, orderVars, workVars
<1>3. ASSUME NEW r \in Settlers PROVE SettlerOK(r)'
    <2>1. CASE r = s
        BY <2>1
    <2>2. CASE r # s
        BY <2>2 DEF IInv, SettlerOK, SettlementEvent, LineIds, Tx
    <2>3. QED BY <2>1, <2>2
<1>4. QED BY <1>1, <1>2, <1>3 DEF IInv

(***************************************************************************)
(* The steps of a worker.                                                   *)
(***************************************************************************)

\* Only w's own control variables move.
OnlyWorker(w) ==
    \A u \in Workers \ {w} :
        /\ pc'[u] = pc[u] /\ call'[u] = call[u] /\ step'[u] = step[u]
        /\ target'[u] = target[u] /\ seen'[u] = seen[u] /\ nextVersion'[u] = nextVersion[u]

LEMMA NoRowType == NoRow \in OrderRow
BY DEF NoRow, OrderRow, Statuses, NoFee, NoDay

\* A busy worker's call names an order, or the absent order of a create.
LEMMA CallType ==
    ASSUME TypeOK, NEW w \in Workers, CallOK(w), pc[w] # "idle"
    PROVE  /\ call[w] \in Call
           /\ call[w].order \in Orders \cup {AnyOrder}
           /\ call[w].op = "pay" => call[w].order \in Orders
BY DEF TypeOK, CallOK, Call

\* What follows a mutation that succeeded leaves the worker outside its
\* transaction, with a mutation of the same call.
LEMMA ContinueLocal ==
    ASSUME IInv, NEW w \in Workers, pc[w] # "idle", Continue(w)
    PROVE  /\ OrderTypeOK' /\ OnlyWorker(w) /\ CallOK(w)'
           /\ pc'[w] \in {"charge", "lookup", "reply"}
<1>1. CallOK(w) /\ OrderTypeOK /\ TypeOK
    BY DEF IInv, TypeOK
<1>2. pc'[w] \in {"charge", "lookup", "reply"} /\ pc' = [pc EXCEPT ![w] = pc'[w]]
    BY <1>1 DEF Continue, Goto, Reply, OrderTypeOK
<1>3. call' = call /\ charges' = charges
    BY DEF Continue
<1>4. /\ step' \in [Workers -> OrderEventTypes \cup {"none"}]
      /\ \A u \in Workers \ {w} : step'[u] = step[u]
      /\ step'[w] = step[w] \/ (call[w].op = "pay" /\ step'[w] = "FeeCalculated")
    BY <1>1 DEF Continue, OrderTypeOK, OrderEventTypes
<1>5. outcome' \in [Workers -> Errors \cup {"OK", "none"}]
    BY <1>1 DEF Continue, Reply, OrderTypeOK, Errors
<1>6. /\ target' = [target EXCEPT ![w] = call[w].order]
      /\ seen' = [seen EXCEPT ![w] = NoRow]
      /\ nextVersion' = [nextVersion EXCEPT ![w] = 0]
    BY DEF Continue, ForgetTransaction
<1>7. OrderTypeOK'
    BY <1>1, <1>2, <1>3, <1>4, <1>5, <1>6, NoRowType, CallType DEF OrderTypeOK, Control
<1>8. OnlyWorker(w)
    BY <1>1, <1>2, <1>3, <1>4, <1>6 DEF OnlyWorker, OrderTypeOK
<1>9. CallOK(w)'
    <2>1. pc'[w] = "charge" => step[w] = "PaymentProcessing"
        BY <1>1 DEF Continue, Goto, Reply, OrderTypeOK
    <2>2. step[w] = "PaymentProcessing" => call[w].op = "pay"
        BY <1>1 DEF CallOK, FirstStep, Call, Ops
    <2>3. QED BY <1>1, <1>2, <1>3, <1>4, <2>1, <2>2 DEF CallOK, Suffix
<1>10. QED BY <1>2, <1>7, <1>8, <1>9

\* ROLLBACK and COMMIT keep the variables of the transactions well formed.
LEMMA EndTransactionType ==
    ASSUME DbTypeOK, NEW t \in Tx, EndTransaction(t)
    PROVE  /\ pending' \in [Tx -> EventRow \cup {NoEvent}]
           /\ locks' \in [Orders -> Tx \cup {NoTx}]
           /\ pending'[t] = NoEvent
           /\ \A u \in Tx \ {t} : pending'[u] = pending[u]
BY DEF EndTransaction, DbTypeOK

LEMMA ThrowStep ==
    ASSUME IInv, NEW w \in Workers, pc[w] # "idle", NEW code \in Errors, Throw(w, code),
           UNCHANGED settleVars
    PROVE  IInv'
<1> USE DEF IInv, TypeOK
<1>1. /\ pending' \in [Tx -> EventRow \cup {NoEvent}] /\ locks' \in [Orders -> Tx \cup {NoTx}]
      /\ pending'[w] = NoEvent /\ \A u \in Tx \ {w} : pending'[u] = pending[u]
    BY EndTransactionType DEF Throw, Tx
<1>2. DbTypeOK'
    BY <1>1 DEF Throw, committedVars, DbTypeOK, EventRow
<1>3. /\ pc' = [pc EXCEPT ![w] = "recheck"] /\ UNCHANGED <<call, step, charges>>
      /\ seen' = [seen EXCEPT ![w] = NoRow] /\ nextVersion' = [nextVersion EXCEPT ![w] = 0]
      /\ target' = [target EXCEPT ![w] = call[w].order]
      /\ outcome' = [outcome EXCEPT ![w] = code]
    BY DEF Throw, Goto, ForgetTransaction
<1>4. OrderTypeOK'
    BY <1>3, NoRowType, CallType DEF OrderTypeOK, Control
<1>5. SettlementTypeOK'
    BY DEF settleVars, SettlementTypeOK
<1>6. OnlyWorker(w)
    BY <1>3 DEF OnlyWorker, OrderTypeOK
<1>7. CallOK(w)' /\ ReadOK(w)' /\ VersionOK(w)' /\ PendingOK(w)'
    BY <1>1, <1>3 DEF CallOK, ReadOK, VersionOK, PendingOK, Writing, OrderTypeOK
<1>8. QED BY <1>1, <1>2, <1>4, <1>5, <1>6, <1>7, WorkerFrame
             DEF Throw, committedVars, OnlyWorker

\* A step that leaves the database alone.
LEMMA ControlStep ==
    ASSUME IInv, NEW w \in Workers, UNCHANGED <<dbVars, settleVars>>,
           OrderTypeOK', OnlyWorker(w), CallOK(w)', pc'[w] \notin Writing,
           pc[w] \notin {"update", "commit"}
    PROVE  IInv'
<1>1. TypeOK'
    BY DEF IInv, TypeOK, DbTypeOK, SettlementTypeOK, dbVars, settleVars, EventRow
<1>2. ReadOK(w)' /\ VersionOK(w)' /\ PendingOK(w)'
    BY DEF IInv, ReadOK, VersionOK, PendingOK, Writing, dbVars
<1>3. QED BY <1>1, <1>2, WorkerFrame DEF OnlyWorker, dbVars

LEMMA StartStep ==
    ASSUME IInv, NEW w \in Workers, Start(w), UNCHANGED settleVars
    PROVE  IInv'
<1>1. PICK c \in Calls :
        /\ call' = [call EXCEPT ![w] = c]
        /\ step' = [step EXCEPT ![w] = FirstStep[c.op]]
        /\ target' = [target EXCEPT ![w] = c.order]
        /\ \/ /\ c.op = "create" /\ c.amount \notin OrderAmounts
              /\ Reply(w, "VALIDATION_ERROR")
           \/ /\ c.op = "create" => c.amount \in OrderAmounts
              /\ Goto(w, IF c.op = "pay" THEN "find" ELSE "lookup")
              /\ UNCHANGED outcome
    BY DEF Start
<1>2. /\ c \in Call
      /\ c.order = AnyOrder => c.op \in {"create", "recordOrder"}
      /\ c.op = "pay" => /\ c.key \in Parties
                         /\ \A s \in DOMAIN Suffix : Append(c.key, Suffix[s]) \in Keys
    BY OrderServiceAssumption
<1>3. OrderTypeOK
    BY DEF IInv, TypeOK
<1>4. /\ pc' \in [Workers -> Control] /\ pc'[w] \in {"reply", "find", "lookup"}
      /\ pc'[w] = "find" => c.op = "pay"
      /\ \A u \in Workers \ {w} : pc'[u] = pc[u]
      /\ outcome' \in [Workers -> Errors \cup {"OK", "none"}]
    BY <1>1, <1>3 DEF Reply, Goto, OrderTypeOK, Control, Errors
<1>5. FirstStep[c.op] \in OrderEventTypes /\ (c.op = "pay" => FirstStep[c.op] \in DOMAIN Suffix)
    BY <1>2 DEF Call, Ops, FirstStep, OrderEventTypes, Suffix
<1>6. c.order \in Orders \cup {AnyOrder}
    BY <1>2 DEF Call
<1>7. OrderTypeOK'
    BY <1>1, <1>2, <1>3, <1>4, <1>5, <1>6 DEF OrderTypeOK, Start
<1>8. OnlyWorker(w)
    BY <1>1, <1>3, <1>4 DEF OnlyWorker, OrderTypeOK, Start
<1>9. CallOK(w)'
    BY <1>1, <1>2, <1>3, <1>4, <1>5 DEF CallOK, OrderTypeOK
<1>10. QED BY <1>4, <1>7, <1>8, <1>9, ControlStep DEF Start, Writing

LEMMA FindOrderStep ==
    ASSUME IInv, NEW w \in Workers, FindOrder(w), UNCHANGED settleVars
    PROVE  IInv'
<1> USE DEF IInv, TypeOK
<1>1. CallOK(w) /\ OrderTypeOK /\ pc[w] = "find" /\ call[w] \in Call
    BY DEF FindOrder, CallOK
<1>2. call[w].op = "pay" /\ call[w].order \in Orders
    BY <1>1, CallType DEF CallOK
<1> DEFINE row == orders[call[w].order]
           filled == [call[w] EXCEPT !.amount = row.amount, !.party = row.customer]
<1>3. /\ pc' \in [Workers -> Control] /\ pc'[w] \in {"reply", "lookup"}
      /\ \A u \in Workers \ {w} : pc'[u] = pc[u]
      /\ outcome' \in [Workers -> Errors \cup {"OK", "none"}]
    BY <1>1 DEF FindOrder, Reply, Goto, OrderTypeOK, Control, Errors
<1>4. CASE call' = call
    <2>1. OrderTypeOK' /\ OnlyWorker(w) /\ CallOK(w)'
        BY <1>1, <1>3, <1>4 DEF FindOrder, OrderTypeOK, OnlyWorker, CallOK
    <2>2. QED BY <1>1, <1>3, <2>1, ControlStep DEF FindOrder, Writing
<1>5. CASE call' = [call EXCEPT ![w] = filled]
    <2>1. row \in OrderRow
        BY <1>2 DEF DbTypeOK
    <2>2. /\ filled \in Call
          /\ filled.op = call[w].op /\ filled.key = call[w].key /\ filled.order = call[w].order
        BY <1>1, <2>1 DEF Call, OrderRow
    <2>3. OrderTypeOK' /\ OnlyWorker(w) /\ CallOK(w)'
        BY <1>1, <1>3, <1>5, <2>2 DEF FindOrder, OrderTypeOK, OnlyWorker, CallOK
    <2>4. QED BY <1>1, <1>3, <2>3, ControlStep DEF FindOrder, Writing
<1>6. QED BY <1>4, <1>5 DEF FindOrder

\* The lookup before, and the recheck after, a transaction.
LEMMA ReplayStep ==
    ASSUME IInv, NEW w \in Workers, Lookup(w) \/ Recheck(w), UNCHANGED settleVars
    PROVE  IInv'
<1>1. /\ CallOK(w) /\ OrderTypeOK /\ pc[w] \in {"lookup", "recheck"} /\ UNCHANGED dbVars
      /\ outcome[w] \in Errors \cup {"OK", "none"}
    BY DEF IInv, TypeOK, OrderTypeOK, Lookup, Recheck
<1>2. CASE Continue(w)
    BY <1>1, <1>2, ContinueLocal, ControlStep DEF Writing
<1>3. CASE /\ UNCHANGED <<call, step, target, seen, nextVersion, charges>>
           /\ \E code \in Errors \cup {"OK", "none"} : Reply(w, code)
    <2>1. OrderTypeOK' /\ OnlyWorker(w) /\ CallOK(w)' /\ pc'[w] = "reply"
        BY <1>1, <1>3 DEF Reply, Goto, OrderTypeOK, OnlyWorker, CallOK, Control
    <2>2. QED BY <1>1, <2>1, ControlStep DEF Writing
<1>4. CASE /\ UNCHANGED <<call, step, target, seen, nextVersion, charges, outcome>>
           /\ Goto(w, "read")
    <2>1. OrderTypeOK' /\ OnlyWorker(w) /\ CallOK(w)' /\ pc'[w] = "read"
        BY <1>1, <1>4 DEF Goto, OrderTypeOK, OnlyWorker, CallOK, Control
    <2>2. QED BY <1>1, <2>1, ControlStep DEF Writing
<1>5. {"NOT_FOUND", "IDEMPOTENCY_CONFLICT"} \subseteq Errors
    BY DEF Errors
<1>6. QED BY <1>1, <1>2, <1>3, <1>4, <1>5 DEF Lookup, Recheck, ReplayOr, Replayable

LEMMA QueryFailsStep ==
    ASSUME IInv, NEW w \in Workers, QueryFails(w), UNCHANGED settleVars
    PROVE  IInv'
<1>1. OrderTypeOK' /\ OnlyWorker(w) /\ CallOK(w)' /\ pc'[w] = "reply"
    BY DEF IInv, TypeOK, QueryFails, Reply, Goto, OrderTypeOK, OnlyWorker, CallOK, Control, Errors
<1>2. QED BY <1>1, ControlStep DEF QueryFails, Writing

LEMMA ChargeStep ==
    ASSUME IInv, NEW w \in Workers, Charge(w), UNCHANGED settleVars
    PROVE  IInv'
<1>1. CallOK(w) /\ OrderTypeOK /\ pc[w] = "charge" /\ call[w].op = "pay" /\ call[w] \in Call
    BY DEF IInv, TypeOK, CallOK, Charge
<1>2. <<call[w].order, call[w].key>> \in Orders \X Keys
    BY <1>1, CallType DEF Call, IInv
<1>3. charges' \subseteq Orders \X Keys
    BY <1>1, <1>2 DEF Charge, OrderTypeOK
<1>4. /\ pc' \in [Workers -> Control] /\ pc'[w] \in {"lookup", "reply"}
      /\ \A u \in Workers \ {w} : pc'[u] = pc[u]
      /\ outcome' \in [Workers -> Errors \cup {"OK", "none"}]
    BY <1>1 DEF Charge, Reply, Goto, OrderTypeOK, Control, Errors
<1>5. /\ step' \in [Workers -> OrderEventTypes \cup {"none"}]
      /\ \A u \in Workers \ {w} : step'[u] = step[u]
      /\ step'[w] \in {step[w], "PaymentConfirmed", "PaymentFailed"}
    BY <1>1 DEF Charge, OrderTypeOK, OrderEventTypes
<1>6. OrderTypeOK' /\ OnlyWorker(w)
    BY <1>1, <1>3, <1>4, <1>5 DEF Charge, OrderTypeOK, OnlyWorker
<1>7. CallOK(w)'
    BY <1>1, <1>4, <1>5 DEF Charge, CallOK, Suffix
<1>8. QED BY <1>1, <1>4, <1>6, <1>7, ControlStep DEF Charge, Writing

\* The end of a call, answered or cut short by a crash.
LEMMA ResetLocal ==
    ASSUME IInv, NEW w \in Workers, Reset(w)
    PROVE  OrderTypeOK' /\ OnlyWorker(w) /\ CallOK(w)' /\ pc'[w] = "idle"
<1>1. OrderTypeOK'
    BY NoRowType DEF IInv, TypeOK, Reset, Goto, OrderTypeOK, Control
<1>2. QED BY <1>1 DEF IInv, TypeOK, Reset, Goto, OrderTypeOK, OnlyWorker, CallOK

LEMMA FinishStep ==
    ASSUME IInv, NEW w \in Workers, Finish(w), UNCHANGED settleVars
    PROVE  IInv'
BY ResetLocal, ControlStep DEF Finish, Writing

LEMMA CrashStep ==
    ASSUME IInv, NEW w \in Workers, Crash(w), UNCHANGED settleVars
    PROVE  IInv'
<1>1. OrderTypeOK' /\ OnlyWorker(w) /\ CallOK(w)' /\ pc'[w] = "idle"
    BY ResetLocal DEF Crash
<1>2. /\ pending' \in [Tx -> EventRow \cup {NoEvent}] /\ locks' \in [Orders -> Tx \cup {NoTx}]
      /\ pending'[w] = NoEvent /\ \A u \in Tx \ {w} : pending'[u] = pending[u]
    BY EndTransactionType DEF Crash, Tx, IInv, TypeOK
<1>3. TypeOK'
    BY <1>1, <1>2 DEF Crash, committedVars, IInv, TypeOK, DbTypeOK, SettlementTypeOK,
                      settleVars, EventRow
<1>4. ReadOK(w)' /\ VersionOK(w)' /\ PendingOK(w)'
    BY <1>1, <1>2 DEF ReadOK, VersionOK, PendingOK, Writing
<1>5. QED BY <1>1, <1>2, <1>3, <1>4, WorkerFrame DEF Crash, committedVars, OnlyWorker

LEMMA AbortStep ==
    ASSUME IInv, NEW w \in Workers, Abort(w), UNCHANGED settleVars
    PROVE  IInv'
<1>1. pc[w] # "idle" /\ Throw(w, "INTERNAL_ERROR") /\ "INTERNAL_ERROR" \in Errors
    BY DEF Abort, InTransaction, Errors
<1>2. QED BY <1>1, ThrowStep

\* A row that is not rejected allows the event.
LEMMA NotRejected ==
    ASSUME NEW w \in Workers, NEW row, Rejection(w, row) = "none"
    PROVE  row.status \in AllowedFrom[step[w]]
BY DEF Rejection, IsTransitionAllowed

LEMMA RejectionIsError ==
    ASSUME NEW w \in Workers, NEW row, Rejection(w, row) # "none"
    PROVE  Rejection(w, row) \in Errors
BY DEF Rejection, Errors

LEMMA ReadOrderStep ==
    ASSUME IInv, NEW w \in Workers, ReadOrder(w), UNCHANGED settleVars
    PROVE  IInv'
<1> USE DEF IInv, TypeOK
<1>1. /\ CallOK(w) /\ OrderTypeOK /\ pc[w] = "read" /\ call[w] \in Call
      /\ call[w].order \in Orders \cup {AnyOrder}
    BY CallType DEF ReadOrder, CallOK
<1>2. PICK o \in IF call[w].order = AnyOrder THEN FreshIds ELSE {call[w].order} :
         \/ /\ Rejection(w, orders[o]) = "none"
            /\ target' = [target EXCEPT ![w] = o]
            /\ seen' = [seen EXCEPT ![w] = orders[o]]
            /\ IF step[w] = "OrderCreated"
               THEN Goto(w, "insert") /\ nextVersion' = [nextVersion EXCEPT ![w] = 1]
               ELSE Goto(w, "latest") /\ UNCHANGED nextVersion
            /\ UNCHANGED <<dbVars, call, step, outcome, charges>>
         \/ /\ Rejection(w, orders[o]) # "none"
            /\ Throw(w, Rejection(w, orders[o]))
    BY DEF ReadOrder
<1>3. o \in Orders
    BY <1>1, <1>2, OrderServiceAssumption DEF FreshIds
<1>4. CASE Rejection(w, orders[o]) # "none"
    BY <1>1, <1>2, <1>4, ThrowStep, RejectionIsError
<1>5. CASE Rejection(w, orders[o]) = "none"
    <2>1. orders[o] \in OrderRow
        BY <1>3 DEF DbTypeOK
    <2>2. orders[o].status \in AllowedFrom[step[w]]
        BY <1>5, NotRejected
    <2>3. /\ pc' \in [Workers -> Control] /\ pc'[w] \in {"insert", "latest"}
          /\ pc'[w] = "latest" => step[w] # "OrderCreated"
          /\ \A u \in Workers \ {w} : pc'[u] = pc[u] /\ nextVersion'[u] = nextVersion[u]
          /\ nextVersion' \in [Workers -> Nat]
          /\ pc'[w] = "insert" => nextVersion'[w] = 1
        BY <1>1, <1>2, <1>5 DEF OrderTypeOK, Goto, Control
    <2>4. TypeOK'
        BY <1>2, <1>3, <1>5, <2>1, <2>3
           DEF OrderTypeOK, DbTypeOK, SettlementTypeOK, dbVars, settleVars, EventRow
    <2>5. OnlyWorker(w)
        BY <1>2, <1>5, <2>3 DEF OnlyWorker, OrderTypeOK
    <2>6. CallOK(w)'
        BY <1>1, <1>2, <1>5, <2>3 DEF CallOK
    <2>7. target'[w] = o /\ seen'[w] = orders[o] /\ UNCHANGED <<step, orders, pending>>
        BY <1>1, <1>2, <1>5 DEF OrderTypeOK, dbVars
    <2>8. ReadOK(w)'
        BY <1>3, <2>1, <2>2, <2>7 DEF ReadOK, OrderRow
    <2>9. VersionOK(w)'
        BY <1>3, <2>1, <2>3, <2>7 DEF VersionOK, OrderRow
    <2>10. PendingOK(w)'
        BY <1>1, <2>3, <2>7 DEF PendingOK
    <2>11. QED BY <1>2, <1>5, <2>4, <2>5, <2>6, <2>7, <2>8, <2>9, <2>10, WorkerFrame
                  DEF OnlyWorker, dbVars
<1>6. QED BY <1>4, <1>5

LEMMA ReadLatestStep ==
    ASSUME IInv, NEW w \in Workers, ReadLatest(w), UNCHANGED settleVars
    PROVE  IInv'
<1> USE DEF IInv, TypeOK
<1>1. /\ CallOK(w) /\ ReadOK(w) /\ OrderTypeOK /\ pc[w] = "latest" /\ target[w] \in Orders
      /\ UNCHANGED <<dbVars, call, step, target, seen, outcome, charges>>
    BY DEF ReadLatest, ReadOK, Writing
<1>2. LatestVersion(target[w]) = orders[target[w]].version
    BY <1>1, LatestVersionIs
<1>3. orders[target[w]].version \in Nat
    BY <1>1 DEF DbTypeOK, OrderRow
<1>4. /\ pc' = [pc EXCEPT ![w] = "insert"]
      /\ nextVersion' = [nextVersion EXCEPT ![w] = orders[target[w]].version + 1]
    BY <1>2 DEF ReadLatest, Goto
<1>5. TypeOK'
    BY <1>1, <1>3, <1>4
       DEF OrderTypeOK, Control, DbTypeOK, SettlementTypeOK, dbVars, settleVars, EventRow
<1>6. OnlyWorker(w)
    BY <1>1, <1>4 DEF OnlyWorker, OrderTypeOK
<1>7. CallOK(w)' /\ ReadOK(w)' /\ PendingOK(w)'
    BY <1>1, <1>4 DEF CallOK, ReadOK, PendingOK, Writing, dbVars, OrderTypeOK
<1>8. step[w] # "OrderCreated"
    BY <1>1 DEF VersionOK
<1>9. VersionOK(w)'
    BY <1>1, <1>3, <1>4, <1>8 DEF VersionOK, dbVars, OrderTypeOK
<1>10. QED BY <1>1, <1>5, <1>6, <1>7, <1>9, WorkerFrame DEF OnlyWorker, dbVars

\* The amounts a mutation posts are numbers.
LEMMA PostedType ==
    ASSUME NEW w \in Workers, OrderTypeOK, CallOK(w), pc[w] # "idle"
    PROVE  PostedAmount(w) \in Int /\ PostedFee(w) \in Int
<1>1. call[w].amount \in Nat
    BY DEF CallOK, Call
<1>2. CalculateFee(call[w].amount) \in Int
    BY <1>1 DEF CalculateFee
<1>3. seen[w].amount \in Nat /\ seen[w].fee \in Nat \cup {NoFee}
    BY DEF OrderTypeOK, OrderRow
<1>4. QED BY <1>1, <1>2, <1>3 DEF PostedAmount, PostedFee, NoFee

LEMMA InsertEventStep ==
    ASSUME IInv, NEW w \in Workers, InsertEvent(w), UNCHANGED settleVars
    PROVE  IInv'
<1> USE DEF IInv, TypeOK
<1>1. /\ CallOK(w) /\ ReadOK(w) /\ VersionOK(w) /\ OrderTypeOK /\ pc[w] = "insert"
      /\ target[w] \in Orders /\ nextVersion[w] >= 1
    BY DEF InsertEvent, ReadOK, VersionOK, Writing
<1>2. CASE \E code \in Errors : Throw(w, code)
    BY <1>1, <1>2, ThrowStep
<1>3. CASE /\ InsertEventRow(w, EventOf(w))
           /\ Goto(w, "update")
           /\ UNCHANGED <<committedVars, locks, today, call, step, target, seen,
                          nextVersion, outcome, charges>>
    <2>1. EventOf(w) \in EventRow /\ EventOf(w) # NoEvent
        BY <1>1, EventOfType
    <2>2. /\ ~MustWait(w, EventOf(w)) /\ ~Refused(EventOf(w))
          /\ pending' = [pending EXCEPT ![w] = EventOf(w)]
          /\ pc' = [pc EXCEPT ![w] = "update"]
        BY <1>3 DEF InsertEventRow, Goto
    <2>3. pending'[w] = EventOf(w) /\ pc'[w] = "update"
        BY <1>1, <2>2 DEF DbTypeOK, OrderTypeOK, Tx
    <2>4. TypeOK'
        BY <1>3, <2>1, <2>2
           DEF committedVars, DbTypeOK, OrderTypeOK, Control, SettlementTypeOK, settleVars, EventRow
    <2>5. OnlyWorker(w) /\ \A u \in Tx \ {w} : pending'[u] = pending[u]
        BY <1>3, <2>2 DEF OnlyWorker, OrderTypeOK, DbTypeOK
    <2>6. CallOK(w)' /\ ReadOK(w)' /\ VersionOK(w)'
        BY <1>1, <1>3, <2>3 DEF CallOK, ReadOK, VersionOK, Writing, committedVars
    <2>7. PendingOK(w)'
        BY <1>3, <2>1, <2>3 DEF PendingOK, EventOf
    <2>8. QED BY <1>3, <2>2, <2>3, <2>4, <2>5, <2>6, <2>7, WorkerFrame
                 DEF OnlyWorker, committedVars
<1>4. {"LEDGER_IMBALANCED", "VERSION_CONFLICT", "UNIQUE_KEY"} \subseteq Errors
    BY DEF Errors
<1>5. QED BY <1>2, <1>3, <1>4 DEF InsertEvent

\* The version of a pending event is exactly one past the order's: an order
\* whose versions reached it would have stored an event that clashes.
LEMMA PendingVersion ==
    ASSUME IInv, NEW w \in Workers, pc[w] \in {"update", "commit"}
    PROVE  /\ target[w] \in Orders
           /\ pending[w] \in EventRow /\ pending[w] # NoEvent
           /\ pending[w].agg = target[w]
           /\ pending[w].version = orders[target[w]].version + 1
           /\ pending[w].version = nextVersion[w]
           /\ pending[w].type = step[w]
<1> DEFINE n == orders[target[w]].version
<1>1. /\ target[w] \in Orders /\ PendingOK(w) /\ VersionOK(w) /\ StreamOK(target[w])
    BY DEF IInv, ReadOK, Writing
<1>2. /\ pending[w] # NoEvent /\ pending[w].agg = target[w] /\ pending[w].type = step[w]
      /\ pending[w].version = nextVersion[w]
    BY <1>1 DEF PendingOK
<1>3. pending[w] \in EventRow
    BY <1>2 DEF IInv, TypeOK, DbTypeOK, Tx
<1>4. n \in Nat /\ nextVersion[w] \in Nat /\ nextVersion[w] >= 1 /\ nextVersion[w] <= n + 1
    BY <1>1 DEF VersionOK, IInv, TypeOK, DbTypeOK, OrderTypeOK, OrderRow
<1>5. ASSUME nextVersion[w] <= n PROVE FALSE
    <2>1. nextVersion[w] \in {e.version : e \in EventsOf(target[w])}
        BY <1>1, <1>4, <1>5 DEF StreamOK
    <2>2. PICK e \in events : e.agg = target[w] /\ e.version = nextVersion[w]
        BY <2>1 DEF EventsOf
    <2>3. Clash(e, pending[w])
        BY <1>2, <2>2 DEF Clash, SameVersion
    <2>4. QED BY <1>2, <2>2, <2>3 DEF IInv, GateOK, Tx
<1>6. QED BY <1>1, <1>2, <1>3, <1>4, <1>5

LEMMA UpdateOrderStep ==
    ASSUME IInv, NEW w \in Workers, UpdateOrder(w), UNCHANGED settleVars
    PROVE  IInv'
<1> USE DEF IInv, TypeOK
<1>1. CallOK(w) /\ ReadOK(w) /\ VersionOK(w) /\ PendingOK(w) /\ OrderTypeOK /\ pc[w] = "update"
    BY DEF UpdateOrder
<1>2. CASE Throw(w, "VERSION_CONFLICT")
    BY <1>1, <1>2, ThrowStep DEF Errors
<1>3. CASE /\ UpdateGuard(w, orders[target[w]])
           /\ LockRow(w, target[w])
           /\ Goto(w, "commit")
           /\ UNCHANGED <<committedVars, pending, today, call, step, target, seen,
                          nextVersion, outcome, charges>>
    <2>1. nextVersion[w] = seen[w].version + 1
        BY <1>1, <1>3, PendingVersion DEF UpdateGuard
    <2>2. locks' = [locks EXCEPT ![target[w]] = w] /\ pc' = [pc EXCEPT ![w] = "commit"]
        BY <1>3 DEF LockRow, Goto
    <2>3. TypeOK'
        BY <1>3, <2>2
           DEF committedVars, DbTypeOK, OrderTypeOK, Control, SettlementTypeOK, settleVars, EventRow, Tx
    <2>4. OnlyWorker(w) /\ pc'[w] = "commit"
        BY <1>3, <2>2 DEF OnlyWorker, OrderTypeOK
    <2>5. CallOK(w)' /\ ReadOK(w)' /\ VersionOK(w)' /\ PendingOK(w)'
        BY <1>1, <1>3, <2>1, <2>4
           DEF CallOK, ReadOK, VersionOK, PendingOK, Writing, committedVars
    <2>6. QED BY <1>3, <2>3, <2>4, <2>5, WorkerFrame DEF OnlyWorker, committedVars
<1>4. QED BY <1>2, <1>3 DEF UpdateOrder

\* Two event rows clash in either order.
LEMMA ClashSymmetric == \A e, f : Clash(e, f) <=> Clash(f, e)
BY DEF Clash, SameVersion

\* A published row leaves the gate's pending rows without conflict.
LEMMA GatePublish ==
    ASSUME IInv, NEW t \in Tx, pending[t] # NoEvent, events' = events \cup {pending[t]},
           pending' = [pending EXCEPT ![t] = NoEvent]
    PROVE  GateOK'
<1>1. pending'[t] = NoEvent /\ \A u \in Tx \ {t} : pending'[u] = pending[u]
    BY DEF IInv, TypeOK, DbTypeOK
<1>2. \A e, f \in events' : Clash(e, f) => e = f
    BY ClashSymmetric DEF IInv, GateOK
<1>3. \A u \in Tx : pending'[u] # NoEvent => \A e \in events' : ~Clash(e, pending'[u])
    BY <1>1, ClashSymmetric DEF IInv, GateOK
<1>4. \A u, v \in Tx : pending'[u] # NoEvent /\ pending'[v] # NoEvent /\ u # v
                         => ~Clash(pending'[u], pending'[v])
    BY <1>1 DEF IInv, GateOK
<1>5. QED BY <1>2, <1>3, <1>4 DEF GateOK

\* The commit of a mutation: one event, its order's row, its postings.
LEMMA PublishStep ==
    ASSUME IInv, NEW w \in Workers, pc[w] = "commit", Publish(w), UNCHANGED settleVars,
           OrderTypeOK', OnlyWorker(w), CallOK(w)', pc'[w] \in {"charge", "lookup", "reply", "recheck"}
    PROVE  IInv'
<1> DEFINE o == target[w]
           e == pending[w]
           row == orders[o]
           new == Written(row, e)
<1>1. /\ o \in Orders /\ e \in EventRow /\ e # NoEvent /\ e.agg = o
      /\ e.version = row.version + 1 /\ e.version = nextVersion[w] /\ e.type = step[w]
    BY PendingVersion
<1>2. /\ TypeOK /\ CallOK(w) /\ ReadOK(w) /\ VersionOK(w) /\ StreamOK(o)
      /\ row \in OrderRow /\ row.version \in Nat
    BY <1>1 DEF IInv, TypeOK, DbTypeOK, OrderRow
<1>3. e.type \in OrderEventTypes
    BY <1>1, <1>2, StepType DEF TypeOK
<1>4. row.status \in AllowedFrom[e.type]
    <2>1. seen[w].version \in Nat /\ nextVersion[w] = seen[w].version + 1
        BY <1>2 DEF VersionOK, TypeOK, OrderTypeOK, OrderRow
    <2>2. seen[w].version = row.version
        BY <1>1, <1>2, <2>1
    <2>3. QED BY <1>1, <1>2, <2>2 DEF ReadOK, Writing
<1>5. new \in OrderRow /\ new.version = e.version /\ new.status = NextStatus[e.type]
    <2>1. new \in OrderRow
        BY <1>1, <1>2, <1>3, WrittenType
    <2>2. CASE e.type = "OrderCreated"
        <3>1. new.version = 1 /\ new.status = "CREATED"
            BY <2>2 DEF Written, NoRow
        <3>2. e.version = 1
            BY <1>1, <1>2, <2>2 DEF VersionOK
        <3>3. NextStatus["OrderCreated"] = "CREATED"
            BY DEF NextStatus
        <3>4. QED BY <2>1, <2>2, <3>1, <3>2, <3>3
    <2>3. CASE e.type = "FeeCalculated"
        <3>1. row.status = "PAID"
            BY <1>4, <2>3 DEF AllowedFrom
        <3>2. new.version = e.version /\ new.status = row.status
            BY <1>2, <2>3 DEF Written, OrderRow
        <3>3. NextStatus["FeeCalculated"] = "PAID"
            BY DEF NextStatus
        <3>4. QED BY <2>1, <2>3, <3>1, <3>2, <3>3
    <2>4. CASE e.type \notin {"OrderCreated", "FeeCalculated"}
        BY <1>2, <2>1, <2>4 DEF Written, NextStatus, OrderRow
    <2>5. QED BY <2>1, <2>2, <2>3, <2>4
<1> HIDE DEF new
<1>6. /\ events' = events \cup {e}
      /\ orders' = [orders EXCEPT ![o] = new]
      /\ ledger' = [ledger EXCEPT ![o] = PostEvent(@, step[w], PostedAmount(w), PostedFee(w))]
      /\ pending' = [pending EXCEPT ![w] = NoEvent]
      /\ UNCHANGED <<settlements, today>>
    BY DEF Publish, EndTransaction, new
<1>7. DbTypeOK'
    <2>1. /\ pending' \in [Tx -> EventRow \cup {NoEvent}] /\ locks' \in [Orders -> Tx \cup {NoTx}]
        BY EndTransactionType DEF Publish, Tx, IInv, TypeOK
    <2>2. ledger' \in [Orders -> [Accounts -> Int]]
        <3>1. PostEvent(ledger[o], step[w], PostedAmount(w), PostedFee(w)) \in [Accounts -> Int]
            BY <1>1, <1>2, PostEventType, PostedType DEF TypeOK, DbTypeOK
        <3>2. QED BY <1>2, <1>6, <3>1 DEF TypeOK, DbTypeOK
    <2>3. events' \subseteq EventRow /\ orders' \in [Orders -> OrderRow]
        BY <1>1, <1>2, <1>5, <1>6 DEF TypeOK, DbTypeOK
    <2>4. QED BY <1>2, <1>6, <2>1, <2>2, <2>3 DEF TypeOK, DbTypeOK, EventRow
<1>8. TypeOK'
    BY <1>2, <1>7 DEF TypeOK, SettlementTypeOK, settleVars
<1>9. GateOK'
    BY <1>1, <1>6, GatePublish DEF Tx
<1>10. /\ orders'[o] = new /\ \A x \in Orders \ {o} : orders'[x] = orders[x]
       /\ pending'[w] = NoEvent /\ \A u \in Tx \ {w} : pending'[u] = pending[u]
    BY <1>1, <1>2, <1>6 DEF TypeOK, DbTypeOK, Tx
<1>11. ASSUME NEW x \in Orders PROVE StreamOK(x)'
    <2>1. CASE x # o
        <3>1. EventsOf(x)' = EventsOf(x)
            BY <1>1, <1>6, <2>1 DEF EventsOf
        <3>2. QED BY <1>10, <2>1, <3>1 DEF StreamOK, IInv
    <2>2. CASE x = o
        <3>1. EventsOf(x)' = EventsOf(x) \cup {e}
            BY <1>1, <1>6, <2>2 DEF EventsOf
        <3>2. \A f \in EventsOf(x) : f.version \in 1..row.version
            BY <1>2, <2>2 DEF StreamOK
        <3>3. {f.version : f \in EventsOf(x)'} = 1..new.version
            BY <1>1, <1>2, <1>5, <2>2, <3>1 DEF StreamOK
        <3>4. e.version = 1 => "NONE" \in AllowedFrom[e.type]
            BY <1>1, <1>2, <1>4, <2>2 DEF StreamOK
        <3>5. \A f \in EventsOf(x) : e.version = f.version + 1 => NextStatus[f.type] \in AllowedFrom[e.type]
            BY <1>1, <1>2, <1>4, <2>2, <3>2 DEF StreamOK
        <3>6. \A f \in EventsOf(x) : f.version # new.version /\ f.version # e.version + 1
            BY <1>1, <1>2, <1>5, <3>2
        <3>7. new.version # 0
            BY <1>1, <1>2, <1>5
        <3>8. e.version # e.version + 1
            BY <1>1, <1>2
        <3>9. QED
            <4>1. \A f \in EventsOf(x)' :
                    /\ f.type \in OrderEventTypes
                    /\ f.version = new.version => new.status = NextStatus[f.type]
                    /\ f.version = 1 => "NONE" \in AllowedFrom[f.type]
                BY <1>2, <1>3, <1>5, <2>2, <3>1, <3>4, <3>6 DEF StreamOK
            <4>2. \A f, g \in EventsOf(x)' :
                    g.version = f.version + 1 => NextStatus[f.type] \in AllowedFrom[g.type]
                BY <1>2, <2>2, <3>1, <3>5, <3>6, <3>8 DEF StreamOK
            <4>3. QED BY <1>10, <2>2, <3>3, <3>7, <4>1, <4>2 DEF StreamOK
    <2>3. QED BY <2>1, <2>2
<1>12. ASSUME NEW u \in Workers PROVE CallOK(u)' /\ ReadOK(u)' /\ VersionOK(u)' /\ PendingOK(u)'
    <2>1. CASE u = w
        BY <1>10, <2>1 DEF ReadOK, VersionOK, PendingOK, Writing
    <2>2. CASE u # w
        <3>1. CallOK(u) /\ ReadOK(u) /\ VersionOK(u) /\ PendingOK(u)
            BY DEF IInv
        <3>2. CallOK(u)' /\ PendingOK(u)'
            BY <1>10, <2>2, <3>1 DEF OnlyWorker, CallOK, PendingOK, Tx
        <3>3. pc[u] \in Writing /\ target[u] = o =>
                /\ orders'[target[u]].version = orders[target[u]].version + 1
                /\ seen[u].version \in Nat /\ nextVersion[u] \in Nat
                /\ seen[u].version <= row.version
            BY <1>1, <1>2, <1>5, <1>10, <3>1 DEF ReadOK, TypeOK, OrderTypeOK, OrderRow
        <3>4. ReadOK(u)'
            BY <1>2, <1>10, <2>2, <3>1, <3>3 DEF OnlyWorker, ReadOK, Writing
        <3>5. VersionOK(u)'
            BY <1>2, <1>10, <2>2, <3>1, <3>3 DEF OnlyWorker, ReadOK, VersionOK, Writing
        <3>6. QED BY <3>2, <3>4, <3>5
    <2>3. QED BY <2>1, <2>2
<1>13. ASSUME NEW s \in Settlers PROVE SettlerOK(s)'
    <2>1. pending'[s] = pending[s]
        BY <1>10, DatabaseAssumption DEF Tx
    <2>2. QED BY <2>1 DEF IInv, SettlerOK, SettlementEvent, LineIds, settleVars
<1>14. QED BY <1>8, <1>9, <1>11, <1>12, <1>13 DEF IInv

LEMMA CommitStep ==
    ASSUME IInv, NEW w \in Workers, Commit(w), UNCHANGED settleVars
    PROVE  IInv'
<1>1. pc[w] = "commit" /\ Publish(w) /\ Continue(w)
    BY DEF Commit
<1>2. QED BY <1>1, ContinueLocal, PublishStep

LEMMA CommitAckLostStep ==
    ASSUME IInv, NEW w \in Workers, CommitAckLost(w), UNCHANGED settleVars
    PROVE  IInv'
<1>1. pc[w] = "commit" /\ Publish(w)
    BY DEF CommitAckLost
<1>2. CallOK(w) /\ OrderTypeOK /\ TypeOK
    BY DEF IInv, TypeOK
<1>3. call[w].order \in Orders \cup {AnyOrder}
    BY <1>1, <1>2, CallType
<1>4. OrderTypeOK' /\ OnlyWorker(w) /\ CallOK(w)' /\ pc'[w] = "recheck"
    BY <1>2, <1>3, NoRowType
       DEF CommitAckLost, ForgetTransaction, Goto, OrderTypeOK, OnlyWorker, CallOK, Control, Errors
<1>5. QED BY <1>1, <1>4, PublishStep

LEMMA WorkerNextStep ==
    ASSUME IInv, NEW w \in Workers, WorkerStep(w)
    PROVE  IInv'
<1>1. CASE Progress(w)
    BY <1>1, FindOrderStep, ReplayStep, ReadOrderStep, ReadLatestStep, InsertEventStep,
       UpdateOrderStep, CommitStep, ChargeStep, FinishStep DEF WorkerStep, Progress
<1>2. CASE Failure(w)
    BY <1>2, CommitAckLostStep, AbortStep, QueryFailsStep, CrashStep DEF WorkerStep, Failure
<1>3. QED BY <1>1, <1>2, StartStep DEF WorkerStep, WorkerNext

(***************************************************************************)
(* The steps of a settler.                                                  *)
(***************************************************************************)

\* Only s's own control variables move.
OnlySettler(s) ==
    \A r \in Settlers \ {s} : spc'[r] = spc[r] /\ scall'[r] = scall[r] /\ lines'[r] = lines[r]

\* A step outside the transaction's writes: the database stays as it is, up to
\* a row lock.
LEMMA SettlerControlStep ==
    ASSUME IInv, NEW s \in Settlers,
           UNCHANGED <<committedVars, pending, today, orderVars>>,
           locks' \in [Orders -> Tx \cup {NoTx}],
           SettlementTypeOK', OnlySettler(s), SettlerOK(s)'
    PROVE  IInv'
<1>1. TypeOK'
    BY DEF IInv, TypeOK, DbTypeOK, OrderTypeOK, committedVars, orderVars, workVars, EventRow
<1>2. QED BY <1>1, SettlerFrame DEF OnlySettler, committedVars

LEMMA SettleThrowStep ==
    ASSUME IInv, NEW s \in Settlers, spc[s] # "idle", NEW code \in SettleErrors,
           SettleThrow(s, code), UNCHANGED orderVars
    PROVE  IInv'
<1> USE DEF IInv, TypeOK
<1>1. /\ pending' \in [Tx -> EventRow \cup {NoEvent}] /\ locks' \in [Orders -> Tx \cup {NoTx}]
      /\ pending'[s] = NoEvent /\ \A u \in Tx \ {s} : pending'[u] = pending[u]
    BY EndTransactionType DEF SettleThrow, Tx
<1>2. DbTypeOK' /\ OrderTypeOK'
    BY <1>1 DEF SettleThrow, committedVars, DbTypeOK, EventRow, OrderTypeOK, orderVars, workVars
<1>3. SettlementTypeOK' /\ OnlySettler(s) /\ spc'[s] = "recheck" /\ scall' = scall
    BY DEF SettleThrow, SettleGoto, ForgetSettlement, SettlementTypeOK, OnlySettler
<1>4. SettlerOK(s)'
    BY <1>1, <1>3 DEF SettlerOK
<1>5. QED BY <1>1, <1>2, <1>3, <1>4, SettlerFrame DEF SettleThrow, committedVars, OnlySettler

LEMMA SettlerControlSteps ==
    ASSUME IInv, NEW s \in Settlers, UNCHANGED orderVars,
           \/ StartSettle(s) \/ FindSettlement(s) \/ SelectEligible(s) \/ RecheckSettlement(s)
           \/ SettleQueryFails(s) \/ FinishSettle(s)
    PROVE  IInv'
<1>1. TypeOK /\ SettlerOK(s) /\ SettlementTypeOK
    BY DEF IInv, TypeOK
<1>2. UNCHANGED dbVars
    BY DEF StartSettle, FindSettlement, SelectEligible, RecheckSettlement, SettleQueryFails,
           FinishSettle
<1>3. /\ spc' = [spc EXCEPT ![s] = spc'[s]] /\ spc[s] # "mark" /\ spc'[s] # "mark"
      /\ spc' \in [Settlers -> {"idle", "find", "select", "insert", "mark", "recheck", "reply"}]
      /\ result' \in [Settlers -> SettleErrors \cup {"SETTLED", "ALREADY_SETTLED", "none"}]
    BY <1>1 DEF StartSettle, FindSettlement, SelectEligible, RecheckSettlement, SettleQueryFails,
                FinishSettle, ResetSettler, SettleReply, SettleGoto, SettlementTypeOK, SettleErrors
<1>4. /\ scall' \in [Settlers -> SettleCall \cup {NoSettleCall}]
      /\ \A r \in Settlers \ {s} : scall'[r] = scall[r]
      /\ spc'[s] # "idle" => scall'[s] \in SettleCall
    BY <1>1, SettlementAssumption
       DEF StartSettle, FindSettlement, SelectEligible, RecheckSettlement, SettleQueryFails,
           FinishSettle, ResetSettler, SettleGoto, SettlementTypeOK, SettlerOK
<1>5. /\ lines' \in [Settlers -> SUBSET Line] /\ todo' \in [Settlers -> SUBSET Orders]
      /\ \A r \in Settlers \ {s} : lines'[r] = lines[r]
    <2>1. CASE SelectEligible(s)
        <3> DEFINE selected == {[order |-> o, amount |-> orders[o].amount, fee |-> orders[o].fee] :
                                  o \in {x \in Orders : Eligible(x, scall[s].day)}}
        <3>1. selected \subseteq Line
            BY <1>1 DEF Eligible, Line, TypeOK, DbTypeOK, OrderRow
        <3>2. lines' = [lines EXCEPT ![s] = selected] /\ todo' = todo
            BY <2>1 DEF SelectEligible
        <3>3. QED BY <1>1, <3>1, <3>2 DEF SettlementTypeOK
    <2>2. CASE ~SelectEligible(s)
        BY <1>1, <2>2
           DEF StartSettle, FindSettlement, RecheckSettlement, SettleQueryFails, FinishSettle,
               ResetSettler, ForgetSettlement, SettlementTypeOK
    <2>3. QED BY <2>1, <2>2
<1>6. SettlementTypeOK'
    BY <1>3, <1>4, <1>5 DEF SettlementTypeOK
<1>7. OnlySettler(s)
    BY <1>1, <1>3, <1>4, <1>5 DEF OnlySettler, SettlementTypeOK
<1>8. SettlerOK(s)'
    BY <1>1, <1>2, <1>3, <1>4 DEF SettlerOK, dbVars
<1>9. QED BY <1>1, <1>2, <1>6, <1>7, <1>8, SettlerControlStep
             DEF dbVars, committedVars, TypeOK, DbTypeOK

LEMMA InsertSettlementStep ==
    ASSUME IInv, NEW s \in Settlers, InsertSettlement(s), UNCHANGED orderVars
    PROVE  IInv'
<1> USE DEF IInv, TypeOK
<1>1. SettlerOK(s) /\ SettlementTypeOK /\ spc[s] = "insert" /\ scall[s] \in SettleCall
    BY DEF InsertSettlement, SettlerOK
<1>2. CASE \E code \in SettleErrors : SettleThrow(s, code)
    BY <1>1, <1>2, SettleThrowStep
<1>3. CASE /\ InsertEventRow(s, SettlementEvent(s))
           /\ TotalsFit(lines[s])
           /\ todo' = [todo EXCEPT ![s] = LineIds(s)]
           /\ SettleGoto(s, "mark")
           /\ UNCHANGED <<committedVars, locks, today, scall, lines, result>>
    <2>1. SettlementEvent(s) \in EventRow
        BY <1>1, SettlementEventType
    <2>2. /\ ~MustWait(s, SettlementEvent(s)) /\ ~Refused(SettlementEvent(s))
          /\ pending' = [pending EXCEPT ![s] = SettlementEvent(s)]
          /\ spc' = [spc EXCEPT ![s] = "mark"]
        BY <1>3 DEF InsertEventRow, SettleGoto
    <2>3. /\ pending'[s] = SettlementEvent(s) /\ spc'[s] = "mark"
          /\ \A u \in Tx \ {s} : pending'[u] = pending[u]
        BY <1>1, <2>2 DEF DbTypeOK, SettlementTypeOK, Tx
    <2>4. LineIds(s) \subseteq Orders
        BY <1>1 DEF LineIds, SettlementTypeOK, Line
    <2>5. TypeOK'
        BY <1>3, <2>1, <2>2, <2>4
           DEF committedVars, DbTypeOK, OrderTypeOK, SettlementTypeOK, orderVars, workVars, EventRow
    <2>6. OnlySettler(s)
        BY <1>1, <1>3, <2>2 DEF OnlySettler, SettlementTypeOK
    <2>7. SettlerOK(s)'
        BY <1>1, <1>3, <2>3 DEF SettlerOK, SettlementEvent, LineIds
    <2>8. QED BY <1>3, <2>2, <2>3, <2>5, <2>6, <2>7, SettlerFrame DEF OnlySettler, committedVars
<1>4. {"INTERNAL_ERROR", "VERSION_CONFLICT", "UNIQUE_KEY"} \subseteq SettleErrors
    BY DEF SettleErrors
<1>5. QED BY <1>2, <1>3, <1>4 DEF InsertSettlement

LEMMA MarkOrderStep ==
    ASSUME IInv, NEW s \in Settlers, NEW o \in Orders, MarkOrder(s, o), UNCHANGED orderVars
    PROVE  IInv'
<1>1. TypeOK /\ SettlerOK(s)
    BY DEF IInv
<1>2. locks' \in [Orders -> Tx \cup {NoTx}]
    BY <1>1 DEF MarkOrder, LockRow, TypeOK, DbTypeOK, Tx
<1>3. SettlementTypeOK' /\ OnlySettler(s)
    BY <1>1 DEF MarkOrder, TypeOK, SettlementTypeOK, OnlySettler
<1>4. SettlerOK(s)'
    BY <1>1 DEF MarkOrder, SettlerOK, SettlementEvent, LineIds
<1>5. QED BY <1>2, <1>3, <1>4, SettlerControlStep DEF MarkOrder

\* The commit of a settlement: one event, its row, the payouts of its orders.
LEMMA PublishSettlementStep ==
    ASSUME IInv, NEW s \in Settlers, spc[s] = "mark", PublishSettlement(s), UNCHANGED orderVars,
           SettlementTypeOK', OnlySettler(s), scall' = scall, spc'[s] \in {"reply", "recheck"}
    PROVE  IInv'
<1> DEFINE e == pending[s]
           d == scall[s].day
<1>1. /\ TypeOK /\ SettlerOK(s) /\ scall[s] \in SettleCall /\ d \in Days
      /\ TotalsFit(lines[s]) /\ e = SettlementEvent(s)
    BY DEF IInv, SettlerOK, SettleCall
<1>2. e \in EventRow /\ e # NoEvent /\ e.agg = SettlementAggregate(d) /\ e.agg \notin Orders
    <2>1. SettlementAggregate(d) \notin Orders
        BY <1>1, DatabaseAssumption
    <2>2. QED BY <1>1, <2>1, SettlementEventType DEF SettlementEvent
<1>3. /\ events' = events \cup {e}
      /\ pending' = [pending EXCEPT ![s] = NoEvent]
      /\ today' = today
    BY DEF PublishSettlement, EndTransaction
<1>4. \A o \in Orders : orders'[o] = orders[o] \/ orders'[o] = [orders[o] EXCEPT !.settlement = d]
    BY DEF PublishSettlement
<1>5. orders' \in [Orders -> OrderRow]
    <2>1. \A o \in Orders : [orders[o] EXCEPT !.settlement = d] \in OrderRow
        BY <1>1 DEF TypeOK, DbTypeOK, OrderRow
    <2>2. QED BY <1>1, <1>4, <2>1 DEF PublishSettlement, TypeOK, DbTypeOK
<1>6. \A o \in Orders : orders'[o].version = orders[o].version /\ orders'[o].status = orders[o].status
    <2> SUFFICES ASSUME NEW o \in Orders
                 PROVE  orders'[o].version = orders[o].version /\ orders'[o].status = orders[o].status
        OBVIOUS
    <2>1. orders[o] \in OrderRow
        BY <1>1 DEF TypeOK, DbTypeOK
    <2>2. /\ [orders[o] EXCEPT !.settlement = d].version = orders[o].version
          /\ [orders[o] EXCEPT !.settlement = d].status = orders[o].status
        BY <2>1 DEF OrderRow
    <2>3. QED BY <1>4, <2>2
<1>7. DbTypeOK'
    <2>1. /\ pending' \in [Tx -> EventRow \cup {NoEvent}] /\ locks' \in [Orders -> Tx \cup {NoTx}]
        BY <1>1, EndTransactionType DEF PublishSettlement, Tx, TypeOK
    <2>2. events' \subseteq EventRow
        BY <1>1, <1>2, <1>3 DEF TypeOK, DbTypeOK
    <2>3. LineIds(s) \subseteq Orders
        BY <1>1 DEF LineIds, TypeOK, SettlementTypeOK, Line
    <2>4. settlements' \in [Days -> SettlementRow]
        <3>1. /\ GrossOf(lines[s]) \in Int /\ FeesOf(lines[s]) \in Int
              /\ GrossOf(lines[s]) - FeesOf(lines[s]) \in Int
            BY <1>1, SettlementAssumption DEF TotalsFit
        <3>2. QED BY <1>1, <2>3, <3>1 DEF PublishSettlement, TypeOK, DbTypeOK, SettlementRow
    <2>5. ledger' \in [Orders -> [Accounts -> Int]]
        <3>1. \A n \in [Accounts -> Int], m \in Int : PostSettlement(n, m) \in [Accounts -> Int]
            BY DEF PostSettlement, Debit, Credit, Accounts
        <3>2. ASSUME NEW o \in LineIds(s)
              PROVE  LET l == CHOOSE x \in lines[s] : x.order = o IN l.amount - l.fee \in Int
            <4> DEFINE l == CHOOSE x \in lines[s] : x.order = o
            <4>1. \E x \in lines[s] : x.order = o
                BY DEF LineIds
            <4>2. l \in lines[s]
                BY <4>1
            <4>3. l \in Line
                BY <1>1, <4>2 DEF TypeOK, SettlementTypeOK
            <4>4. QED BY <4>3 DEF Line
        <3>3. \A o \in Orders : ledger[o] \in [Accounts -> Int]
            BY <1>1 DEF TypeOK, DbTypeOK
        <3>4. ASSUME NEW o \in Orders PROVE ledger'[o] \in [Accounts -> Int]
            <4>1. CASE o \in LineIds(s)
                BY <3>1, <3>2, <3>3, <4>1 DEF PublishSettlement
            <4>2. CASE o \notin LineIds(s)
                BY <3>3, <4>2 DEF PublishSettlement
            <4>3. QED BY <4>1, <4>2
        <3>5. ledger' = [o \in Orders |-> ledger'[o]]
            BY DEF PublishSettlement
        <3>6. QED BY <3>4, <3>5
    <2>6. QED BY <1>1, <1>3, <1>5, <2>1, <2>2, <2>4, <2>5 DEF TypeOK, DbTypeOK, EventRow
<1>8. TypeOK'
    BY <1>1, <1>7 DEF TypeOK, OrderTypeOK, orderVars, workVars
<1>9. GateOK'
    BY <1>2, <1>3, GatePublish DEF Tx
<1>10. pending'[s] = NoEvent /\ \A u \in Tx \ {s} : pending'[u] = pending[u]
    BY <1>1, <1>3 DEF TypeOK, DbTypeOK, Tx
<1>11. ASSUME NEW o \in Orders PROVE StreamOK(o)'
    <2>1. EventsOf(o)' = EventsOf(o)
        BY <1>2, <1>3 DEF EventsOf
    <2>2. QED BY <1>6, <2>1 DEF IInv, StreamOK
<1>12. ASSUME NEW w \in Workers PROVE CallOK(w)' /\ ReadOK(w)' /\ VersionOK(w)' /\ PendingOK(w)'
    <2>1. pending'[w] = pending[w]
        BY <1>10, DatabaseAssumption DEF Tx
    <2>2. CallOK(w) /\ ReadOK(w) /\ VersionOK(w) /\ PendingOK(w)
        BY DEF IInv
    <2>3. CallOK(w)' /\ PendingOK(w)'
        BY <2>1, <2>2 DEF CallOK, PendingOK, orderVars, workVars
    <2>4. ReadOK(w)'
        BY <1>6, <2>2 DEF ReadOK, orderVars, workVars, Writing
    <2>5. VersionOK(w)'
        BY <1>6, <2>2 DEF ReadOK, VersionOK, orderVars, workVars, Writing
    <2>6. QED BY <2>3, <2>4, <2>5
<1>13. ASSUME NEW r \in Settlers PROVE SettlerOK(r)'
    <2>1. CASE r = s
        BY <1>1, <1>10, <2>1 DEF SettlerOK
    <2>2. CASE r # s
        BY <1>10, <2>2 DEF IInv, SettlerOK, SettlementEvent, LineIds, OnlySettler, Tx
    <2>3. QED BY <2>1, <2>2
<1>14. QED BY <1>8, <1>9, <1>11, <1>12, <1>13 DEF IInv

LEMMA CommitSettlementStep ==
    ASSUME IInv, NEW s \in Settlers, CommitSettlement(s) \/ SettleAckLost(s), UNCHANGED orderVars
    PROVE  IInv'
<1>1. spc[s] = "mark" /\ SettlementTypeOK
    BY DEF CommitSettlement, SettleAckLost, IInv, TypeOK
<1>2. CASE SettleThrow(s, "VERSION_CONFLICT")
    BY <1>1, <1>2, SettleThrowStep DEF SettleErrors
<1>3. CASE /\ PublishSettlement(s) /\ ForgetSettlement(s) /\ UNCHANGED scall
           /\ SettleReply(s, "SETTLED")
    <2>1. SettlementTypeOK' /\ OnlySettler(s) /\ spc'[s] = "reply"
        BY <1>1, <1>3 DEF ForgetSettlement, SettleReply, SettleGoto, SettlementTypeOK, OnlySettler
    <2>2. QED BY <1>1, <1>3, <2>1, PublishSettlementStep
<1>4. CASE SettleAckLost(s)
    <2>1. SettlementTypeOK' /\ OnlySettler(s) /\ spc'[s] = "recheck"
        BY <1>1, <1>4
           DEF SettleAckLost, ForgetSettlement, SettleGoto, SettlementTypeOK, OnlySettler, SettleErrors
    <2>2. QED BY <1>1, <1>4, <2>1, PublishSettlementStep DEF SettleAckLost
<1>5. QED BY <1>2, <1>3, <1>4 DEF CommitSettlement

LEMMA CrashSettlerStep ==
    ASSUME IInv, NEW s \in Settlers, CrashSettler(s), UNCHANGED orderVars
    PROVE  IInv'
<1>1. /\ pending' \in [Tx -> EventRow \cup {NoEvent}] /\ locks' \in [Orders -> Tx \cup {NoTx}]
      /\ pending'[s] = NoEvent /\ \A u \in Tx \ {s} : pending'[u] = pending[u]
    BY EndTransactionType DEF CrashSettler, Tx, IInv, TypeOK
<1>2. DbTypeOK' /\ OrderTypeOK'
    BY <1>1 DEF CrashSettler, committedVars, IInv, TypeOK, DbTypeOK, EventRow, OrderTypeOK,
                orderVars, workVars
<1>3. SettlementTypeOK' /\ OnlySettler(s) /\ spc'[s] = "idle"
    BY DEF CrashSettler, ResetSettler, SettleGoto, ForgetSettlement, IInv, TypeOK,
           SettlementTypeOK, OnlySettler
<1>4. SettlerOK(s)'
    BY <1>1, <1>3 DEF SettlerOK
<1>5. QED BY <1>1, <1>2, <1>3, <1>4, SettlerFrame
             DEF CrashSettler, committedVars, OnlySettler, TypeOK

LEMMA SettlerNextStep ==
    ASSUME IInv, NEW s \in Settlers, SettlerStep(s)
    PROVE  IInv'
<1>1. UNCHANGED orderVars /\ SettlerNext(s) /\ SettlerOK(s)
    BY DEF SettlerStep, IInv
<1>2. CASE StartSettle(s) \/ SettleQueryFails(s)
    BY <1>1, <1>2, SettlerControlSteps
<1>3. CASE SettleProgress(s)
    BY <1>1, <1>3, SettlerControlSteps, InsertSettlementStep, MarkOrderStep, CommitSettlementStep
       DEF SettleProgress
<1>4. CASE DeadlockVictim(s) \/ AbortSettlement(s)
    <2>1. spc[s] # "idle" /\ SettleThrow(s, "INTERNAL_ERROR") /\ "INTERNAL_ERROR" \in SettleErrors
        BY <1>4 DEF DeadlockVictim, Deadlocked, AbortSettlement, SettleErrors
    <2>2. QED BY <1>1, <2>1, SettleThrowStep
<1>5. CASE SettleAckLost(s) \/ CrashSettler(s)
    BY <1>1, <1>5, CommitSettlementStep, CrashSettlerStep
<1>6. QED BY <1>1, <1>2, <1>3, <1>4, <1>5 DEF SettlerNext, SettleFailure

(***************************************************************************)
(* The theorems.                                                            *)
(***************************************************************************)
LEMMA NextIInv == IInv /\ [Next]_vars => IInv'
<1> SUFFICES ASSUME IInv, [Next]_vars PROVE IInv'
    OBVIOUS
<1>1. CASE CalendarStep
    <2>1. today' \in Days
        BY <1>1, DatabaseAssumption DEF CalendarStep, AdvanceDay, IInv, TypeOK, DbTypeOK, Days
    <2>2. UNCHANGED <<events, orders, pending, ledger, settlements, locks, orderVars, settleVars>>
        BY <1>1 DEF CalendarStep, AdvanceDay, committedVars
    <2>3. TypeOK'
        BY <2>1, <2>2 DEF IInv, TypeOK, DbTypeOK, OrderTypeOK, SettlementTypeOK, orderVars,
                          workVars, settleVars, EventRow
    <2>4. QED BY <2>2, <2>3
              DEF IInv, CallOK, ReadOK, VersionOK, PendingOK, SettlerOK, SettlementEvent, LineIds,
                  GateOK, StreamOK, EventsOf, orderVars, workVars, settleVars
<1>2. CASE UNCHANGED vars
    BY <1>2
       DEF vars, dbVars, orderVars, workVars, settleVars, IInv, TypeOK, DbTypeOK, OrderTypeOK,
           SettlementTypeOK, EventRow, CallOK, ReadOK, VersionOK, PendingOK, SettlerOK,
           SettlementEvent, LineIds, GateOK, StreamOK, EventsOf
<1>3. QED BY <1>1, <1>2, WorkerNextStep, SettlerNextStep DEF Next

LEMMA Invariance == Spec => []IInv
BY InitIInv, NextIInv, PTL DEF Spec

\* Every variable keeps its type: the rows the handlers write are well formed,
\* whatever was read, thrown away, lost or interrupted before.
THEOREM TypeCorrect == Spec => []TypeOK
<1>1. IInv => TypeOK
    BY DEF IInv
<1>2. QED BY <1>1, Invariance, PTL

\* One idempotency key stores at most one event, over orders, operations and
\* settlements, however many requests race for it.
THEOREM KeysUnique == Spec => []OneEventPerKey
<1>1. IInv => OneEventPerKey
    BY DEF IInv, GateOK, Clash, OneEventPerKey
<1>2. QED BY <1>1, Invariance, PTL

\* The events of every order are numbered 1, 2, ... up to the version of its
\* row, with no gap and no number used twice.
THEOREM VersionsAreDense == Spec => []VersionsDense
<1>1. IInv => VersionsDense
    BY DEF IInv, GateOK, Clash, SameVersion, StreamOK, VersionsDense, EventsOf
<1>2. QED BY <1>1, Invariance, PTL

\* No order ever takes a step its state machine forbids, although every handler
\* decides on a row that may be stale when it writes.
THEOREM HistoriesAreLegal == Spec => []LegalHistory
<1>1. IInv => LegalHistory
    <2> SUFFICES ASSUME IInv, NEW o \in Orders, NEW e \in EventsOf(o)
                 PROVE  /\ e.type \in OrderEventTypes
                        /\ StatusAfter(o, e.version - 1) \in AllowedFrom[e.type]
        BY DEF LegalHistory
    <2> DEFINE v == e.version - 1
    <2>1. StreamOK(o) /\ orders[o].version \in Nat
        BY DEF IInv, TypeOK, DbTypeOK, OrderRow
    <2>2. e.version \in 1..orders[o].version
        BY <2>1 DEF StreamOK
    <2>3. CASE v = 0
        BY <2>1, <2>2, <2>3 DEF StreamOK, StatusAfter
    <2>4. CASE v # 0
        <3>1. v \in 1..orders[o].version
            BY <2>1, <2>2, <2>4
        <3>2. \E f \in EventsOf(o) : f.version = v
            BY <2>1, <3>1 DEF StreamOK
        <3> DEFINE f == CHOOSE g \in EventsOf(o) : g.version = v
        <3>3. f \in EventsOf(o) /\ f.version = v
            BY <3>2
        <3>4. StatusAfter(o, v) = NextStatus[f.type]
            BY <2>4 DEF StatusAfter
        <3>5. e.version = f.version + 1
            BY <2>2, <3>3
        <3> HIDE DEF f
        <3>6. QED BY <2>1, <3>3, <3>4, <3>5 DEF StreamOK
    <2>5. QED BY <2>1, <2>3, <2>4 DEF StreamOK
<1>2. QED BY <1>1, Invariance, PTL
=============================================================================
