---------------------------- MODULE ScriptProofs -----------------------------
(***************************************************************************)
(* The two scripts, for any list of orders, any load, any number of workers  *)
(* and clients, and any interleaving of the requests.                       *)
(*                                                                         *)
(* The seed.  While it runs, no other worker is busy, and its own serves the *)
(* call at the script's position (BusyOK).  So the events of an order of the *)
(* list are of the types its flow asks for (EventFits), and every call       *)
(* before the position has stored its last event (Seeded).  Which status     *)
(* such a stream of events can end in is a matter of the state machine.      *)
(*                                                                         *)
(* The load test.  A payment it counts as a success has stored its fee       *)
(* (PayOK), so by the time it settles no order lacks a fee; nobody but its   *)
(* own settlement touches the database from then on, and what that           *)
(* selects, marks and commits is every paid order there is (SettledAll).     *)
(***************************************************************************)
EXTENDS Scripts, SagaProofs

(***************************************************************************)
(* The inductive invariant, on top of ServiceOK.                            *)
(***************************************************************************)

\* The types of the events that a call stores, and of the last of them.
TypesOf(op) == IF op = "pay" THEN DOMAIN Suffix ELSE {FirstStep[op]}
LastType(op) == IF op = "pay" THEN "FeeCalculated" ELSE FirstStep[op]

CallsFor(i) == CallsOfFlow[List[i].flow]
Asks(i, op) == \E j \in DOMAIN CallsFor(i) : CallsFor(i)[j] = op

Jobbed(op, o) == \E j \in DOMAIN Jobs : Jobs[j].op = op /\ Jobs[j].order = o

\* What a busy worker serves: the seed's call, or a job of the pool.
ServesSeed(w) ==
    /\ w = Seeder /\ Untested /\ Running
    /\ call[w].op = SeedCalls[nth] /\ call[w].order = List[at].id
    /\ call[w].op = "create" => call[w].party = List[at].customer

ServesJob(w) ==
    /\ waiting[w] \in Clients
    /\ phase \in {"create", "pay"} /\ Jobbed(call[w].op, call[w].order)

BusyOK(w) == pc[w] # "idle" => ServesSeed(w) \/ ServesJob(w)

\* A saga gets past the charge only for a customer who can pay, and succeeds
\* with its last step.
PaidOK(w) ==
    pc[w] # "idle" /\ call[w].op = "pay" =>
        /\ step[w] \in {"PaymentConfirmed", "FeeCalculated"} => Outcome[call[w].party] = "succeeded"
        /\ pc[w] = "reply" /\ outcome[w] = "OK" => step[w] = "FeeCalculated"

\* Where the scripts are.
PlaceOK ==
    /\ at \in 0..Len(List) + 1
    /\ Running => nth \in DOMAIN SeedCalls
    /\ ~Untested => Done
    /\ next \in Nat \ {0} /\ failures \in Nat
    /\ phase \in {"create", "pay", "settle", "again", "verify", "PASS", "FAIL"}
    /\ waiting \in [Workers -> Clients \cup {Nobody}]
    /\ Untested => \A w \in Workers : waiting[w] = Nobody

WorkInv == PlaceOK /\ \A w \in Workers : BusyOK(w) /\ PaidOK(w)

\* An event of an order is one that its script asks for.
EventFits(e) ==
    e.agg \in Orders =>
        /\ \A i \in DOMAIN List : e.agg = List[i].id =>
             /\ \E op \in Ops : Asks(i, op) /\ e.type \in TypesOf(op)
             /\ e.type = "OrderCreated" => e.party = List[i].customer
        /\ \/ \E i \in DOMAIN List : e.agg = List[i].id
           \/ e.type = "OrderCreated"
           \/ e.type \in DOMAIN Suffix /\ \E j \in DOMAIN Pays : Pays[j].order = e.agg
        /\ e.type \in {"PaymentConfirmed", "FeeCalculated"} =>
             Outcome[orders[e.agg].customer] = "succeeded"
        /\ e.type = "FeeCalculated" => orders[e.agg].fee # NoFee

Stored(o, type) == \E e \in events : e.agg = o /\ e.type = type

\* The j-th call of the i-th order lies behind the script.
Behind(i, j) == i < at \/ (i = at /\ j < nth)

Seeded ==
    \A i \in DOMAIN List : \A j \in DOMAIN CallsFor(i) :
        LET op == CallsFor(i)[j]
        IN  Behind(i, j) /\ ~(op = "pay" /\ List[i].flow = "declined") =>
                Stored(List[i].id, LastType(op))

Late == phase \in {"settle", "again", "verify", "PASS"}

\* Every payment of the load is under way or has failed, or its fee is stored.
PayOK(j) ==
    LET o == Pays[j].order
    IN  \/ Stored(o, "FeeCalculated")
        \/ phase = "create" \/ phase = "FAIL"
        \/ phase = "pay" /\ \/ j >= next \/ failures > 0
                            \/ \E w \in Workers : pc[w] # "idle" /\ call[w].op = "pay"
                                                   /\ call[w].order = o

EventsInv == (\A e \in events : EventFits(e)) /\ Seeded /\ \A j \in DOMAIN Pays : PayOK(j)

\* Only the test settles, and only its day.
OneDay ==
    /\ \A s \in Settlers : spc[s] # "idle" =>
         /\ s = Tester /\ phase \in {"settle", "again"} /\ scall[s].day = date
    /\ date \in Days \cup {NoDay}
    /\ \A d \in Days : settlements[d].exists => d = date
    /\ \A o \in Orders : orders[o].settlement \in {NoDay, date}
    /\ phase \in {"create", "pay"} => date = NoDay
    /\ phase = "settle" /\ spc[Tester] = "idle" => date = NoDay

PaidOrders == {o \in Orders : PaidLike(o)}

\* Until it is stored the settlement has nothing, then it has every paid order.
SettledAll ==
    Late /\ date # NoDay =>
        /\ \A o \in PaidOrders : orders[o].paidDay <= date
        /\ \A o \in PaidOrders :
             orders[o].settlement = IF settlements[date].exists THEN date ELSE NoDay

SelectedAll ==
    /\ spc[Tester] \in {"select", "insert", "mark"} => ~settlements[date].exists
    /\ spc[Tester] \in {"insert", "mark"} => LineIds(Tester) = PaidOrders

AnswersOK ==
    /\ spc[Tester] = "recheck" => result[Tester] # "ALREADY_SETTLED"
    /\ spc[Tester] = "reply" /\ result[Tester] = "ALREADY_SETTLED" => settlements[date].exists
    /\ phase \in {"again", "verify", "PASS"} => date # NoDay
    /\ phase \in {"verify", "PASS"} =>
         settlements[date].exists /\ first.payout = settlements[date].payout

SettleInv == OneDay /\ SettledAll /\ SelectedAll /\ AnswersOK

ScriptInv == WorkInv /\ EventsInv /\ SettleInv

(***************************************************************************)
(* The service under the scripts.                                           *)
(***************************************************************************)

\* A script makes the service take steps of its own, or none.
LEMMA ScriptsStep ==
    ASSUME ScriptsNext
    PROVE  [Next]_vars
<1>1. CASE Seeding
    <2>1. Seeder \in Workers
        BY SeedAssumption
    <2>2. CASE Launch \/ RunAgain
        BY <2>2 DEF Launch, RunAgain
    <2>3. CASE CallNext \/ Returned \/ Work \/ Disturbed
        <3>1. WorkerStep(Seeder)
            BY <2>3 DEF CallNext, Returned, Work, Disturbed, WorkerStep, WorkerNext, Progress
        <3>2. QED BY <2>1, <3>1 DEF Next
    <2>4. CASE Killed
        <3>1. CASE Crash(Seeder) \/ Finish(Seeder)
            BY <2>1, <2>4, <3>1 DEF Killed, Next, WorkerStep, WorkerNext, Progress, Failure
        <3>2. CASE UNCHANGED <<dbVars, orderVars>>
            BY <2>4, <3>2 DEF Killed, vars
        <3>3. QED BY <2>4, <3>1, <3>2 DEF Killed
    <2>5. QED BY <1>1, <2>2, <2>3, <2>4 DEF Seeding, SNext, Onward
<1>2. CASE Loading
    <2>1. ASSUME NEW x \in Clients, TakeJob(x) \/ JobDone(x) PROVE Next
        BY <2>1 DEF TakeJob, JobDone, Request, Answer, Next, WorkerStep, WorkerNext, Progress
    <2>2. CASE EndPhase \/ Verify
        BY <2>2 DEF EndPhase, Verify
    <2>3. CASE AskSettlement \/ SettlementAnswered \/ ServeSettlement
        BY <2>3, LoadTestAssumption
           DEF AskSettlement, SettlementAnswered, ServeSettlement, Next, SettlerStep, SettlerNext,
               SettleProgress
    <2>4. ASSUME NEW w \in Workers, Serve(w) PROVE Next
        BY <2>4 DEF Serve, Next, WorkerStep, WorkerNext
    <2>5. CASE Midnight
        BY <2>5 DEF Midnight, Next, CalendarStep
    <2>6. QED BY <1>2, <2>1, <2>2, <2>3, <2>4, <2>5 DEF Loading, LNext, ClientStep
<1>3. QED BY <1>1, <1>2 DEF ScriptsNext

LEMMA ScriptsServe == ScriptsSpec => Spec
<1>1. ScriptsInit => Init
    BY DEF ScriptsInit, SeedInit
<1>2. [ScriptsNext]_ScriptVars => [Next]_vars
    BY ScriptsStep DEF ScriptVars
<1>3. QED BY <1>1, <1>2, PTL DEF ScriptsSpec, Spec

\* What goes on in a worker is not the arrival of a call.
LEMMA BusyStep ==
    ASSUME NEW w \in Workers, Progress(w) \/ Failure(w)
    PROVE  pc[w] # "idle" /\ ~Start(w)
BY DEF Progress, FindOrder, Lookup, Recheck, ReadOrder, ReadLatest, InsertEvent, UpdateOrder, Commit,
       Charge, Finish, Failure, CommitAckLost, Abort, QueryFails, Crash, InTransaction, Start

\* A worker is done with a call only when it has answered.
LEMMA BusyUntilReply ==
    ASSUME IInv, NEW w \in Workers, Progress(w), pc[w] # "reply"
    PROVE  pc'[w] # "idle"
<1>1. OrderTypeOK
    BY DEF IInv, TypeOK
<1>2. ASSUME NEW point, Goto(w, point), point # "idle" PROVE pc'[w] # "idle"
    BY <1>1, <1>2 DEF Goto, OrderTypeOK
<1>3. ASSUME Continue(w) PROVE pc'[w] # "idle"
    BY <1>1, <1>3 DEF Continue, Reply, Goto, OrderTypeOK
<1>4. ASSUME NEW code, Reply(w, code) \/ Throw(w, code) PROVE pc'[w] # "idle"
    BY <1>2, <1>4 DEF Reply, Throw
<1>5. CASE FindOrder(w) \/ Lookup(w) \/ Recheck(w)
    BY <1>2, <1>3, <1>4, <1>5 DEF FindOrder, Lookup, Recheck, ReplayOr
<1>6. CASE ReadOrder(w) \/ ReadLatest(w) \/ InsertEvent(w) \/ UpdateOrder(w)
    BY <1>2, <1>4, <1>6 DEF ReadOrder, ReadLatest, InsertEvent, UpdateOrder
<1>7. CASE Commit(w) \/ Charge(w)
    BY <1>2, <1>3, <1>4, <1>7 DEF Commit, Charge
<1>8. QED BY <1>5, <1>6, <1>7 DEF Progress, Finish

\* The customer of a call stays, unless a saga fills it in.
LEMMA PartyKept ==
    ASSUME IInv, BooksInv, NEW w \in Workers, WorkerStep(w), ~Start(w), NEW u \in Workers,
           pc'[u] # "idle", call'[u].op # "pay"
    PROVE  call'[u] = call[u]
<1>1. OnlyWorker(w) /\ OrderTypeOK /\ SameCall(u) /\ CallOK(u)
    BY OthersStay, CallsKept DEF IInv, TypeOK
<1>2. CASE u # w
    BY <1>1, <1>2 DEF OnlyWorker
<1>3. CASE u = w
    <2>1. ~(Finish(w) \/ Crash(w) \/ FindOrder(w))
        BY <1>1, <1>3 DEF Finish, Crash, Reset, Goto, OrderTypeOK, FindOrder, SameCall, CallOK
    <2>2. call' = call
        BY <2>1 DEF WorkerStep, WorkerNext, Progress, Lookup, Recheck, ReplayOr, Continue, ReadOrder,
                    Throw, ReadLatest, InsertEvent, UpdateOrder, Commit, Charge, Failure,
                    CommitAckLost, Abort, QueryFails
    <2>3. QED BY <2>2
<1>4. QED BY <1>2, <1>3

\* A fee that is taken is never given back.
LEMMA FeeLasts ==
    ASSUME IInv, BooksInv, [Next]_vars, NEW o \in Orders, orders[o].fee # NoFee
    PROVE  orders'[o].fee # NoFee
<1>1. ASSUME NEW w \in Workers, WorkerStep(w) PROVE orders'[o].fee = orders[o].fee
    <2>1. CASE WorkerQuiet(w)
        BY <2>1 DEF WorkerQuiet, committedVars
    <2>2. CASE Publishes(w)
        BY <2>2, PublishedRow, PublishedRows DEF RowKept
    <2>3. QED BY <1>1, <2>1, <2>2, WorkerShapes
<1>2. ASSUME NEW s \in Settlers, SettlerStep(s) PROVE orders'[o].fee = orders[o].fee
    <2>1. CASE SettlerQuiet(s)
        BY <2>1 DEF SettlerQuiet, committedVars
    <2>2. CASE PublishesSettlement(s)
        <3>1. orders[o] \in OrderRow
            BY DEF IInv, TypeOK, DbTypeOK
        <3>2. orders'[o] \in {orders[o], [orders[o] EXCEPT !.settlement = scall[s].day]}
            BY <2>2, SettledRows
        <3>3. QED BY <3>1, <3>2 DEF OrderRow
    <2>3. QED BY <1>2, <2>1, <2>2, SettlerShapes
<1>3. CASE CalendarStep \/ UNCHANGED vars
    BY <1>3 DEF CalendarStep, AdvanceDay, committedVars, vars, dbVars
<1>4. QED BY <1>1, <1>2, <1>3 DEF Next

\* How a saga succeeds.
LEMMA PaidNext ==
    ASSUME ServiceOK, NEW w \in Workers, WorkerStep(w), PaidOK(w)
    PROVE  PaidOK(w)'
<1> USE DEF ServiceOK
<1>1. OrderTypeOK /\ CallOK(w) /\ StepOK(w) /\ AnswerOK(w)
    BY DEF IInv, TypeOK, SagaInv, WorkerOK
<1>2. ASSUME Continue(w), pc[w] # "idle" PROVE PaidOK(w)'
    <2>1. call' = call
        BY <1>2 DEF Continue
    <2>2. CASE step[w] = "PaymentProcessing"
        BY <1>1, <1>2, <2>1, <2>2 DEF Continue, Goto, Reply, OrderTypeOK, PaidOK
    <2>3. CASE step[w] = "PaymentFailed"
        BY <1>1, <1>2, <2>1, <2>3 DEF Continue, Goto, Reply, OrderTypeOK, PaidOK
    <2>4. CASE step[w] = "PaymentConfirmed" /\ call[w].op = "pay"
        BY <1>1, <1>2, <2>1, <2>4 DEF Continue, Goto, Reply, OrderTypeOK, PaidOK
    <2>5. CASE /\ step[w] \notin {"PaymentProcessing", "PaymentFailed"}
               /\ ~(step[w] = "PaymentConfirmed" /\ call[w].op = "pay")
        <3>1. call[w].op = "pay" => step[w] = "FeeCalculated"
            BY <1>1, <1>2, <2>5 DEF CallOK, Suffix
        <3>2. step' = step
            BY <1>2, <2>5 DEF Continue
        <3>3. QED BY <1>2, <2>1, <3>1, <3>2 DEF PaidOK
    <2>6. QED BY <2>2, <2>3, <2>4, <2>5
<1>3. ASSUME call' = call, step' = step, pc[w] # "idle",
             pc'[w] # "reply" \/ outcome'[w] # "OK"
      PROVE  PaidOK(w)'
    BY <1>3 DEF PaidOK
<1>4. ASSUME NEW code, code # "OK", Reply(w, code) \/ Throw(w, code), pc[w] # "idle",
             call' = call, step' = step
      PROVE  PaidOK(w)'
    BY <1>1, <1>3, <1>4 DEF Reply, Throw, Goto, OrderTypeOK
<1>5. ASSUME NEW point, Goto(w, point), point # "reply", pc[w] # "idle", call' = call, step' = step
      PROVE  PaidOK(w)'
    BY <1>1, <1>3, <1>5 DEF Goto, OrderTypeOK
<1>6. CASE Start(w)
    <2>1. PICK c \in Calls : call'[w] = c /\ step'[w] = FirstStep[c.op]
        BY <1>1, <1>6 DEF Start, OrderTypeOK
    <2>2. pc'[w] = "reply" => c.op = "create"
        BY <1>1, <1>6, <2>1 DEF Start, Reply, Goto, OrderTypeOK
    <2>3. QED BY <2>1, <2>2 DEF PaidOK, FirstStep
<1>7. CASE FindOrder(w)
    <2>1. pc[w] = "find" /\ step[w] = "PaymentProcessing" /\ step' = step
        BY <1>1, <1>7 DEF FindOrder, CallOK, StepOK
    <2>2. pc'[w] = "reply" => outcome'[w] # "OK"
        BY <1>1, <1>7 DEF FindOrder, Reply, Goto, OrderTypeOK
    <2>3. QED BY <2>1, <2>2 DEF PaidOK
<1>8. CASE Lookup(w) \/ Recheck(w)
    <2>1. pc[w] \in {"lookup", "recheck"} /\ (pc[w] = "recheck" => outcome[w] # "OK")
        BY <1>1, <1>8 DEF Lookup, Recheck, AnswerOK
    <2>2. QED BY <1>2, <1>4, <1>5, <1>8, <2>1 DEF Lookup, Recheck, ReplayOr
<1>9. CASE ReadOrder(w)
    <2>1. \A o \in Orders : Rejection(w, orders[o]) # "OK"
        BY DEF Rejection
    <2>2. pc[w] = "read" /\ call' = call /\ step' = step
        BY <1>9 DEF ReadOrder, Throw
    <2>3. \A o : Rejection(w, orders[o]) # "OK"
        BY DEF Rejection
    <2>4. (\E code : code # "OK" /\ Throw(w, code)) \/ Goto(w, "insert") \/ Goto(w, "latest")
        BY <1>9, <2>3 DEF ReadOrder
    <2>5. QED BY <1>4, <1>5, <2>2, <2>4
<1>10. CASE ReadLatest(w) \/ InsertEvent(w) \/ UpdateOrder(w) \/ Abort(w)
    <2>1. pc[w] # "idle" /\ call' = call /\ step' = step
        BY <1>10 DEF ReadLatest, InsertEvent, UpdateOrder, Abort, Throw, InTransaction
    <2>2. QED BY <1>4, <1>5, <1>10, <2>1 DEF ReadLatest, InsertEvent, UpdateOrder, Abort
<1>11. CASE Commit(w)
    BY <1>2, <1>11 DEF Commit
<1>12. CASE CommitAckLost(w)
    BY <1>5, <1>12 DEF CommitAckLost
<1>13. CASE QueryFails(w)
    BY <1>4, <1>13 DEF QueryFails
<1>14. CASE Charge(w)
    <2>1. pc[w] = "charge" /\ call' = call /\ step[w] = "PaymentProcessing"
        BY <1>1, <1>14 DEF Charge, CallOK, StepOK
    <2>2. \/ step' = [step EXCEPT ![w] = "PaymentConfirmed"] /\ Outcome[call[w].party] = "succeeded"
          \/ step' = [step EXCEPT ![w] = "PaymentFailed"]
          \/ step' = step
        BY <1>14 DEF Charge
    <2>3. pc'[w] # "reply" \/ outcome'[w] # "OK"
        BY <1>1, <1>14 DEF Charge, Reply, Goto, OrderTypeOK
    <2>4. QED BY <1>1, <2>1, <2>2, <2>3 DEF PaidOK, OrderTypeOK
<1>15. CASE Finish(w) \/ Crash(w)
    BY <1>15, ResetLocal DEF Finish, Crash, PaidOK
<1>16. QED BY <1>6, <1>7, <1>8, <1>9, <1>10, <1>11, <1>12, <1>13, <1>14, <1>15
           DEF WorkerStep, WorkerNext, Progress, Failure

(***************************************************************************)
(* Who is busy, and with what.                                              *)
(***************************************************************************)
LEMMA FlowCalls ==
    ASSUME NEW flow \in DOMAIN CallsOfFlow
    PROVE  /\ CallsOfFlow[flow] \in Seq({"create", "pay", "ship", "deliver", "refund"})
           /\ Len(CallsOfFlow[flow]) >= 1
<1>1. CASE flow = "created"
    BY <1>1 DEF CallsOfFlow
<1>2. CASE flow = "declined"
    BY <1>2 DEF CallsOfFlow
<1>3. CASE flow = "paid"
    BY <1>3 DEF CallsOfFlow
<1>4. CASE flow = "shipped"
    BY <1>4 DEF CallsOfFlow
<1>5. CASE flow = "delivered"
    BY <1>5 DEF CallsOfFlow
<1>6. CASE flow = "refunded"
    BY <1>6 DEF CallsOfFlow
<1>7. QED BY <1>1, <1>2, <1>3, <1>4, <1>5, <1>6 DEF CallsOfFlow

LEMMA ListTypes ==
    /\ DOMAIN List = 1..Len(List) /\ Len(List) \in Nat
    /\ \A i \in DOMAIN List :
         /\ List[i] \in SeedOrder /\ List[i].id \in Orders
         /\ CallsFor(i) \in Seq({"create", "pay", "ship", "deliver", "refund"})
         /\ DOMAIN CallsFor(i) = 1..Len(CallsFor(i))
         /\ Len(CallsFor(i)) \in Nat /\ Len(CallsFor(i)) >= 1
         /\ \A j \in DOMAIN List : List[i].id = List[j].id => i = j
         /\ List[i].flow = "declined" => Outcome[List[i].customer] = "declined"
<1>1. List \in Seq(SeedOrder)
    BY SeedAssumption
<1>2. DOMAIN List = 1..Len(List) /\ Len(List) \in Nat /\ \A i \in DOMAIN List : List[i] \in SeedOrder
    BY <1>1
<1>3. ASSUME NEW i \in DOMAIN List
      PROVE  /\ List[i].id \in Orders
             /\ CallsFor(i) \in Seq({"create", "pay", "ship", "deliver", "refund"})
             /\ DOMAIN CallsFor(i) = 1..Len(CallsFor(i))
             /\ Len(CallsFor(i)) \in Nat /\ Len(CallsFor(i)) >= 1
    <2>1. List[i].id \in Orders /\ List[i].flow \in DOMAIN CallsOfFlow
        BY <1>2 DEF SeedOrder
    <2>2. CallsFor(i) \in Seq({"create", "pay", "ship", "deliver", "refund"}) /\ Len(CallsFor(i)) >= 1
        BY <2>1, FlowCalls DEF CallsFor
    <2>3. QED BY <2>1, <2>2
<1>4. QED BY <1>2, <1>3, SeedAssumption

LEMMA JobTypes ==
    /\ DOMAIN Pays = 1..Len(Pays) /\ Len(Pays) \in Nat
    /\ DOMAIN Creates = 1..Len(Creates) /\ Len(Creates) \in Nat
    /\ \A j \in DOMAIN Pays : Pays[j].op = "pay" /\ Pays[j] \in Call
    /\ \A j \in DOMAIN Creates : Creates[j].op = "create" /\ Creates[j] \in Call
<1>1. /\ Pays \in Seq({c \in Call : c.op = "pay"})
      /\ Creates \in Seq({c \in Call : c.op = "create" /\ c.order \in Orders})
    BY LoadTestAssumption
<1>2. QED BY <1>1

\* Where a worker has to be idle.
LEMMA Resting ==
    ASSUME WorkInv, NEW w \in Workers
    PROVE  /\ Done => ~Running
           /\ Untested /\ ~(w = Seeder /\ Running) => pc[w] = "idle"
           /\ ~Untested /\ pc[w] # "idle" => ServesJob(w)
           /\ phase \notin {"create", "pay"} => pc[w] = "idle"
           /\ waiting[w] = Nobody /\ Done => pc[w] = "idle"
           /\ Untested /\ pc[w] # "idle" => ServesSeed(w)
<1>1. Done => ~Running
    BY ListTypes DEF Done, Running
<1>2. PlaceOK /\ BusyOK(w) /\ Nobody \notin Clients
    BY HttpAssumption DEF WorkInv
<1>3. ServesJob(w) => ~Untested /\ waiting[w] # Nobody /\ phase \in {"create", "pay"}
    BY <1>2 DEF ServesJob, PlaceOK
<1>4. ServesSeed(w) => w = Seeder /\ Untested /\ Running /\ phase = "create"
    BY DEF ServesSeed, Untested
<1>5. QED BY <1>1, <1>2, <1>3, <1>4 DEF BusyOK

\* A call in flight goes on being the one its script asked for.
LEMMA ServingKept ==
    ASSUME WorkInv, NEW u \in Workers, SameCall(u),
           pc'[u] # "idle" /\ call'[u].op # "pay" => call'[u] = call[u],
           pc'[u] # "idle" => waiting'[u] = waiting[u],
           UNCHANGED <<phase, at, nth>>, Done \/ UNCHANGED next
    PROVE  BusyOK(u)'
<1> SUFFICES ASSUME pc'[u] # "idle" PROVE ServesSeed(u)' \/ ServesJob(u)'
    BY DEF BusyOK
<1>1. /\ pc[u] # "idle" /\ call'[u].op = call[u].op /\ call'[u].order = call[u].order
      /\ ServesSeed(u) \/ ServesJob(u)
    BY DEF SameCall, WorkInv, BusyOK
<1>2. CASE ServesJob(u)
    BY <1>1, <1>2 DEF ServesJob, Jobbed, Jobs
<1>3. CASE ServesSeed(u)
    <2>1. ~Done /\ UNCHANGED next
        BY <1>3, Resting DEF ServesSeed
    <2>2. QED BY <1>1, <1>3, <2>1 DEF ServesSeed, Untested, Running, SeedCalls
<1>4. QED BY <1>1, <1>2, <1>3

\* While nothing goes on in the workers.
LEMMA WorkersStay ==
    ASSUME WorkInv, UNCHANGED workVars, PlaceOK',
           \/ UNCHANGED <<phase, at, nth, waiting, next>>
           \/ \A w \in Workers : pc[w] = "idle"
    PROVE  WorkInv'
<1>1. ASSUME NEW u \in Workers PROVE BusyOK(u)'
    <2>1. CASE pc[u] = "idle"
        BY <2>1 DEF workVars, BusyOK
    <2>2. CASE UNCHANGED <<phase, at, nth, waiting, next>>
        BY <2>2, ServingKept DEF SameCall, workVars
    <2>3. QED BY <2>1, <2>2
<1>2. ASSUME NEW u \in Workers PROVE PaidOK(u)'
    BY DEF WorkInv, PaidOK, workVars
<1>3. QED BY <1>1, <1>2 DEF WorkInv

\* While a worker serves its call.
LEMMA WorkersGoOn ==
    ASSUME ServiceOK, WorkInv, NEW w \in Workers, WorkerStep(w), ~Start(w), PlaceOK',
           \A u \in Workers : pc'[u] # "idle" => waiting'[u] = waiting[u],
           \/ UNCHANGED <<phase, at, nth, next>>
           \/ \A u \in Workers : pc'[u] = "idle"
    PROVE  WorkInv'
<1>1. ASSUME NEW u \in Workers PROVE PaidOK(u)'
    <2>1. CASE u = w
        BY <2>1, PaidNext DEF WorkInv
    <2>2. CASE u # w
        BY <2>2, OthersStay DEF ServiceOK, OnlyWorker, WorkInv, PaidOK
    <2>3. QED BY <2>1, <2>2
<1>2. ASSUME NEW u \in Workers PROVE BusyOK(u)'
    <2>1. SameCall(u) /\ (pc'[u] # "idle" /\ call'[u].op # "pay" => call'[u] = call[u])
        BY CallsKept, PartyKept DEF ServiceOK
    <2>2. QED BY <2>1, ServingKept DEF BusyOK
<1>3. QED BY <1>1, <1>2 DEF WorkInv

\* When a script makes a call.
LEMMA WorkersStart ==
    ASSUME ServiceOK, WorkInv, NEW w \in Workers, NEW c, Start(w), call'[w] = c, UNCHANGED settleVars,
           PlaceOK', \A u \in Workers \ {w} : waiting'[u] = waiting[u],
           UNCHANGED <<phase, at, nth>>, Done \/ UNCHANGED next, BusyOK(w)'
    PROVE  WorkInv'
<1>1. WorkerStep(w)
    BY DEF WorkerStep, WorkerNext
<1>2. ASSUME NEW u \in Workers \ {w}
      PROVE  BusyOK(u)' /\ PaidOK(u)'
    <2>1. /\ pc'[u] = pc[u] /\ call'[u] = call[u] /\ step'[u] = step[u] /\ outcome'[u] = outcome[u]
        BY <1>1, OthersStay DEF ServiceOK, OnlyWorker
    <2>2. BusyOK(u)'
        BY <2>1, ServingKept DEF SameCall
    <2>3. QED BY <2>1, <2>2 DEF PaidOK, WorkInv
<1>3. PaidOK(w)'
    BY <1>1, PaidNext DEF WorkInv
<1>4. QED BY <1>2, <1>3 DEF WorkInv

LEMMA SeedingWork ==
    ASSUME ServiceOK, WorkInv, Untested, Seeding
    PROVE  WorkInv'
<1>1. /\ Seeder \in Workers /\ PlaceOK /\ UNCHANGED <<waiting, phase, next, failures>>
      /\ \A w \in Workers : waiting[w] = Nobody
    BY SeedAssumption DEF WorkInv, PlaceOK, Seeding, httpVars, testVars
<1>2. ASSUME UNCHANGED <<at, nth>> PROVE PlaceOK'
    BY <1>1, <1>2 DEF PlaceOK, Untested, Running, Done, SeedCalls
<1>3. ASSUME NEW i, NEW j, MoveTo(i, j), i \in 0..Len(List) + 1,
             i \in DOMAIN List => j \in DOMAIN CallsFor(i)
      PROVE  PlaceOK'
    BY <1>1, <1>3 DEF PlaceOK, Untested, Running, SeedCalls, CallsFor, MoveTo
<1>4. 0 \in 0..Len(List) + 1 /\ 0 \notin DOMAIN List
    BY ListTypes
<1>5. 1 \in 0..Len(List) + 1 /\ (1 \in DOMAIN List => 1 \in DOMAIN CallsFor(1))
    BY ListTypes
<1>6. \A w \in Workers : w # Seeder \/ ~Running => pc[w] = "idle"
    BY <1>1, Resting
<1>7. CASE Launch \/ RunAgain
    <2>1. UNCHANGED vars /\ ~Running /\ PlaceOK'
        BY <1>3, <1>4, <1>5, <1>7, Resting, <1>1 DEF Launch, RunAgain, Running
    <2>2. QED BY <1>6, <2>1, WorkersStay DEF vars, orderVars
<1>8. CASE CallNext
    <2>1. /\ Start(Seeder) /\ call'[Seeder] = SeedCall(List[at], SeedCalls[nth])
          /\ UNCHANGED <<settleVars, at, nth>> /\ Running /\ PlaceOK'
        BY <1>2, <1>8 DEF CallNext, seedVars
    <2>2. BusyOK(Seeder)'
        <3>1. /\ call'[Seeder].op = SeedCalls[nth] /\ call'[Seeder].order = List[at].id
              /\ call'[Seeder].op = "create" => call'[Seeder].party = List[at].customer
            BY <2>1 DEF SeedCall
        <3>2. QED BY <1>1, <2>1, <3>1 DEF BusyOK, ServesSeed, Untested, Running, SeedCalls
    <2>3. QED BY <1>1, <2>1, <2>2, WorkersStart
<1>9. CASE Returned
    <2>1. Finish(Seeder) /\ UNCHANGED settleVars /\ Running
        BY <1>9 DEF Returned
    <2>2. WorkerStep(Seeder) /\ ~Start(Seeder) /\ OnlyWorker(Seeder)
        BY <1>1, <2>1, BusyStep, OthersStay DEF WorkerStep, WorkerNext, Progress, ServiceOK
    <2>3. \A u \in Workers : pc'[u] = "idle"
        BY <1>1, <1>6, <2>1, <2>2, ResetLocal DEF Finish, ServiceOK, OnlyWorker
    <2>4. PlaceOK'
        <3>1. /\ at \in DOMAIN List /\ nth \in DOMAIN CallsFor(at) /\ SeedCalls = CallsFor(at)
            BY <1>1, <2>1 DEF Running, PlaceOK, SeedCalls, CallsFor
        <3>2. /\ at \in 0..Len(List) + 1 /\ at + 1 \in 0..Len(List) + 1
              /\ nth < Len(SeedCalls) => nth + 1 \in DOMAIN CallsFor(at)
              /\ at + 1 \in DOMAIN List => 1 \in DOMAIN CallsFor(at + 1)
            BY <3>1, ListTypes
        <3>3. MoveTo(0, 1) \/ (nth < Len(SeedCalls) /\ MoveTo(at, nth + 1)) \/ MoveTo(at + 1, 1)
            BY <1>9 DEF Returned
        <3>4. CASE MoveTo(0, 1)
            BY <1>3, <1>4, <3>4
        <3>5. CASE nth < Len(SeedCalls) /\ MoveTo(at, nth + 1)
            BY <1>3, <3>2, <3>5
        <3>6. CASE MoveTo(at + 1, 1)
            BY <1>3, <3>2, <3>6
        <3>7. QED BY <3>3, <3>4, <3>5, <3>6
    <2>5. QED BY <1>1, <2>2, <2>3, <2>4, WorkersGoOn
<1>10. CASE Work \/ Disturbed
    <2>1. /\ Progress(Seeder) \/ Failure(Seeder)
          /\ UNCHANGED <<settleVars, at, nth>>
        BY <1>10 DEF Work, Disturbed, seedVars
    <2>2. WorkerStep(Seeder) /\ ~Start(Seeder) /\ PlaceOK'
        BY <1>1, <1>2, <2>1, BusyStep DEF WorkerStep, WorkerNext
    <2>3. QED BY <1>1, <2>1, <2>2, WorkersGoOn
<1>11. CASE Killed
    <2>1. PlaceOK'
        BY <1>3, <1>4, <1>11 DEF Killed
    <2>2. CASE Crash(Seeder) \/ Finish(Seeder)
        <3>1. WorkerStep(Seeder) /\ ~Start(Seeder) /\ OnlyWorker(Seeder)
            BY <1>1, <1>11, <2>2, BusyStep, OthersStay
               DEF WorkerStep, WorkerNext, Progress, Failure, Killed, ServiceOK
        <3>2. \A u \in Workers : pc'[u] = "idle"
            BY <1>1, <1>6, <2>2, <3>1, ResetLocal DEF Finish, Crash, ServiceOK, OnlyWorker
        <3>3. QED BY <1>1, <2>1, <3>1, <3>2, WorkersGoOn
    <2>3. CASE pc[Seeder] = "idle" /\ UNCHANGED <<dbVars, orderVars>>
        <3>1. \A w \in Workers : pc[w] = "idle"
            BY <1>6, <2>3
        <3>2. QED BY <2>1, <2>3, <3>1, WorkersStay DEF orderVars
    <2>4. QED BY <1>11, <2>2, <2>3 DEF Killed
<1>12. QED BY <1>7, <1>8, <1>9, <1>10, <1>11 DEF Seeding, SNext, Onward

\* The place of the load test, while the seed lies behind.
LEMMA LoadPlace ==
    ASSUME PlaceOK, Done, UNCHANGED <<at, nth>>, next' \in Nat \ {0}, failures' \in Nat,
           phase' \in {"create", "pay", "settle", "again", "verify", "PASS", "FAIL"},
           waiting' \in [Workers -> Clients \cup {Nobody}],
           Untested' => \A w \in Workers : waiting'[w] = Nobody
    PROVE  PlaceOK'
BY ListTypes DEF PlaceOK, Done, Running

LEMMA LoadingWork ==
    ASSUME ServiceOK, WorkInv, Loading
    PROVE  WorkInv'
<1>1. /\ PlaceOK /\ Done /\ UNCHANGED <<at, nth>> /\ LNext
      /\ waiting \in [Workers -> Clients \cup {Nobody}] /\ next \in Nat \ {0} /\ failures \in Nat
    BY DEF WorkInv, PlaceOK, Loading, seedVars
<1>2. ASSUME UNCHANGED <<waiting, phase, next, failures>> PROVE PlaceOK'
    BY <1>1, <1>2, LoadPlace DEF PlaceOK, Untested
<1>3. ASSUME NEW x \in Clients, TakeJob(x) PROVE WorkInv'
    <2>1. PICK w \in Workers :
             /\ Idle(w) /\ Start(w) /\ call'[w] = Jobs[next]
             /\ waiting' = [waiting EXCEPT ![w] = x] /\ UNCHANGED <<settleVars, faults>>
        BY <1>3 DEF TakeJob, Request
    <2>2. /\ phase \in {"create", "pay"} /\ next \in 1..Len(Jobs) /\ next' = next + 1
          /\ UNCHANGED <<phase, failures>>
        BY <1>1, <1>3, JobTypes DEF TakeJob, Jobs
    <2>3. waiting' \in [Workers -> Clients \cup {Nobody}] /\ waiting'[w] = x /\ ~Untested'
        BY <1>1, <2>1, <2>2 DEF Untested
    <2>4. PlaceOK'
        BY <1>1, <2>2, <2>3, LoadPlace DEF PlaceOK
    <2>5. BusyOK(w)'
        <3>1. next \in DOMAIN Jobs
            BY <2>2, JobTypes DEF Jobs
        <3>2. Jobs' = Jobs
            BY <2>2 DEF Jobs
        <3>3. QED BY <2>1, <2>2, <2>3, <3>1, <3>2 DEF BusyOK, ServesJob, Jobbed
    <2>6. QED BY <1>1, <2>1, <2>2, <2>4, <2>5, WorkersStart
<1>4. ASSUME NEW x \in Clients, JobDone(x) PROVE WorkInv'
    <2>1. PICK code \in Errors \cup {"OK"} :
             Answer(x, code) /\ failures' = IF code = "OK" THEN failures ELSE failures + 1
        BY <1>4 DEF JobDone
    <2>2. PICK w \in Workers :
             /\ waiting[w] = x /\ Finish(w) /\ waiting' = [waiting EXCEPT ![w] = Nobody]
             /\ UNCHANGED settleVars
        BY <2>1 DEF Answer
    <2>3. UNCHANGED <<phase, next>> /\ failures' \in Nat /\ PlaceOK'
        <3>1. UNCHANGED <<phase, next>> /\ failures' \in Nat
            BY <1>1, <1>4, <2>1 DEF JobDone
        <3>2. QED BY <1>1, <2>2, <3>1, LoadPlace DEF PlaceOK, Untested
    <2>4. WorkerStep(w) /\ ~Start(w) /\ pc'[w] = "idle"
        BY <2>2, BusyStep, ResetLocal DEF WorkerStep, WorkerNext, Progress, Finish, ServiceOK
    <2>5. QED BY <1>1, <2>2, <2>3, <2>4, WorkersGoOn
<1>5. CASE EndPhase
    <2>1. \A w \in Workers : pc[w] = "idle"
        BY <1>1, <1>5, Resting DEF EndPhase
    <2>2. PlaceOK'
        <3>1. /\ phase' \in {"create", "pay", "settle", "again", "verify", "PASS", "FAIL"}
              /\ next' = 1 /\ failures' = 0 /\ UNCHANGED waiting
              /\ \A w \in Workers : waiting[w] = Nobody
            BY <1>5 DEF EndPhase, httpVars
        <3>2. QED BY <1>1, <3>1, LoadPlace
    <2>3. QED BY <1>5, <2>1, <2>2, WorkersStay DEF EndPhase, vars, orderVars
<1>6. CASE AskSettlement \/ SettlementAnswered \/ Verify
    <2>1. /\ UNCHANGED <<orderVars, waiting, next, failures>>
          /\ phase' \in {"again", "verify", "PASS", "FAIL", phase}
          /\ phase \in {"settle", "again", "verify"}
        BY <1>6 DEF AskSettlement, SettlementAnswered, Verify, httpVars, vars
    <2>2. PlaceOK'
        BY <1>1, <2>1, LoadPlace DEF PlaceOK, Untested
    <2>3. \A w \in Workers : pc[w] = "idle"
        BY <2>1, Resting
    <2>4. QED BY <2>1, <2>2, <2>3, WorkersStay DEF orderVars
<1>7. ASSUME NEW w \in Workers, Serve(w), UNCHANGED testVars PROVE WorkInv'
    <2>1. /\ Progress(w) /\ UNCHANGED <<settleVars, waiting, phase, next, failures>>
        BY <1>7 DEF Serve, httpVars, testVars
    <2>2. WorkerStep(w) /\ ~Start(w) /\ PlaceOK'
        BY <1>2, <2>1, BusyStep DEF WorkerStep, WorkerNext
    <2>3. QED BY <1>1, <2>1, <2>2, WorkersGoOn
<1>8. CASE ServeSettlement \/ Midnight
    <2>1. UNCHANGED <<orderVars, waiting, phase, next, failures>> /\ PlaceOK'
        BY <1>2, <1>8 DEF ServeSettlement, Midnight, httpVars, testVars
    <2>2. QED BY <1>1, <2>1, WorkersStay DEF orderVars
<1>9. QED BY <1>1, <1>3, <1>4, <1>5, <1>6, <1>7, <1>8 DEF LNext, ClientStep

LEMMA WorkNext == ServiceOK /\ WorkInv /\ [ScriptsNext]_ScriptVars => WorkInv'
<1>1. CASE UNCHANGED ScriptVars
    BY <1>1, WorkersStay DEF WorkInv, ScriptVars, vars, orderVars, httpVars, seedVars, testVars, PlaceOK,
                Untested, Running, Done, SeedCalls
<1>2. QED BY <1>1, SeedingWork, LoadingWork DEF ScriptsNext

LEMMA WorkInit == ScriptsInit => WorkInv
<1> SUFFICES ASSUME ScriptsInit PROVE WorkInv
    OBVIOUS
<1>1. /\ at = 0 /\ nth = 1 /\ phase = "create" /\ next = 1 /\ failures = 0
      /\ waiting = [w \in Workers |-> Nobody] /\ \A w \in Workers : pc[w] = "idle"
    BY DEF ScriptsInit, SeedInit, TestInit, HttpInit, Init, OrderInit
<1>2. PlaceOK
    BY <1>1, ListTypes DEF PlaceOK, Untested, Running
<1>3. QED BY <1>1, <1>2 DEF WorkInv, BusyOK, PaidOK

(***************************************************************************)
(* What is stored.                                                          *)
(***************************************************************************)
LEMMA StoredKept ==
    ASSUME Grows, NEW o, NEW type, Stored(o, type)
    PROVE  Stored(o, type)'
BY DEF Grows, Stored

\* An event that fits its order goes on doing so.
LEMMA FitsKept ==
    ASSUME ServiceOK, [Next]_vars, NEW e \in events, EventFits(e)
    PROVE  EventFits(e)'
<1> SUFFICES ASSUME e.agg \in Orders PROVE EventFits(e)'
    BY DEF EventFits
<1>1. orders[e.agg].status # "NONE"
    BY EventRowExists DEF ServiceOK
<1>2. orders'[e.agg].customer = orders[e.agg].customer
    BY <1>1, StepGrows DEF ServiceOK, Grows
<1>3. orders[e.agg].fee # NoFee => orders'[e.agg].fee # NoFee
    BY FeeLasts DEF ServiceOK
<1>4. QED BY <1>2, <1>3 DEF EventFits

\* What a worker stores, its script has asked for.
LEMMA NewFits ==
    ASSUME ServiceOK, WorkInv, NEW w \in Workers, WorkerStep(w), NEW e \in events', e \notin events
    PROVE  EventFits(e)'
<1> USE DEF ServiceOK
<1>1. Publishes(w)
    BY WorkerShapes DEF WorkerQuiet, committedVars
<1>2. /\ e = pending[w] /\ pc[w] = "commit" /\ e.type = step[w] /\ e.agg = target[w]
      /\ target[w] \in Orders /\ call[w].order \in {target[w], AnyOrder}
      /\ e.type = "OrderCreated" => e.party = call[w].party
      /\ e.type # "OrderCreated" => orders'[e.agg].customer = orders[e.agg].customer
    BY <1>1, PublishedEvent DEF Publishes
<1>3. CallOK(w) /\ FilledOK(w) /\ PaidOK(w) /\ (ServesSeed(w) \/ ServesJob(w))
    BY <1>2 DEF IInv, SagaInv, WorkerOK, WorkInv, BusyOK
<1>4. step[w] \in TypesOf(call[w].op) /\ call[w].op \in Ops
    BY <1>2, <1>3 DEF CallOK, TypesOf, Call
<1>5. ServesSeed(w) => /\ at \in DOMAIN List /\ nth \in DOMAIN CallsFor(at)
                       /\ call[w].op = CallsFor(at)[nth]
                       /\ call[w].op \in {"create", "pay", "ship", "deliver", "refund"}
                       /\ call[w].order = List[at].id /\ e.agg = List[at].id
    <2>1. SUFFICES ASSUME ServesSeed(w)
                   PROVE  /\ at \in DOMAIN List /\ nth \in DOMAIN CallsFor(at)
                          /\ call[w].op = CallsFor(at)[nth]
                          /\ call[w].op \in {"create", "pay", "ship", "deliver", "refund"}
                          /\ call[w].order = List[at].id /\ e.agg = List[at].id
        OBVIOUS
    <2>2. /\ at \in DOMAIN List /\ nth \in DOMAIN CallsFor(at)
          /\ call[w].op = CallsFor(at)[nth] /\ call[w].order = List[at].id
        BY <2>1 DEF ServesSeed, Running, SeedCalls, CallsFor, WorkInv, PlaceOK
    <2>3. List[at].id \in Orders /\ CallsFor(at)[nth] \in {"create", "pay", "ship", "deliver", "refund"}
        BY <2>2, ListTypes
    <2>4. QED BY <1>2, <2>2, <2>3, OrderServiceAssumption
<1>6. ServesJob(w) =>
        /\ e.agg = call[w].order
        /\ \A i \in DOMAIN List : e.agg # List[i].id
        /\ \/ call[w].op = "create"
           \/ call[w].op = "pay" /\ \E j \in DOMAIN Pays : Pays[j].order = e.agg
    <2>1. SUFFICES ASSUME ServesJob(w)
                   PROVE  /\ e.agg = call[w].order
                          /\ \A i \in DOMAIN List : e.agg # List[i].id
                          /\ \/ call[w].op = "create"
                             \/ call[w].op = "pay" /\ \E j \in DOMAIN Pays : Pays[j].order = e.agg
        OBVIOUS
    <2>2. PICK j \in DOMAIN Jobs : Jobs[j].op = call[w].op /\ Jobs[j].order = call[w].order
        BY <2>1 DEF ServesJob, Jobbed
    <2>3. CASE phase = "create"
        <3>1. j \in DOMAIN Creates /\ call[w].op = "create" /\ call[w].order = Creates[j].order
            BY <2>2, <2>3, JobTypes DEF Jobs
        <3>2. Creates[j].order \in Orders
            BY <3>1, LoadTestAssumption
        <3>3. QED BY <1>2, <3>1, <3>2, ScriptsAssumption, OrderServiceAssumption
    <2>4. CASE phase # "create"
        <3>1. j \in DOMAIN Pays /\ call[w].op = "pay" /\ call[w].order = Pays[j].order
            BY <2>2, <2>4, JobTypes DEF Jobs
        <3>2. call[w].order \in Orders
            BY <1>2, <1>3, <3>1, CallType DEF IInv
        <3>3. QED BY <1>2, <3>1, <3>2, ScriptsAssumption, OrderServiceAssumption
    <2>5. QED BY <2>3, <2>4
<1>7. ASSUME NEW i \in DOMAIN List, e.agg = List[i].id
      PROVE  /\ \E op \in Ops : Asks(i, op) /\ e.type \in TypesOf(op)
             /\ e.type = "OrderCreated" => e.party = List[i].customer
    <2>1. ServesSeed(w) /\ i = at
        BY <1>3, <1>5, <1>6, <1>7, ListTypes
    <2>2. Asks(i, call[w].op)
        BY <1>5, <2>1 DEF Asks
    <2>3. e.type = "OrderCreated" => call[w].op = "create"
        BY <1>2, <1>4, <1>5, <2>1 DEF TypesOf, Suffix, FirstStep
    <2>4. QED BY <1>2, <1>4, <2>1, <2>2, <2>3 DEF ServesSeed
<1>8. \/ \E i \in DOMAIN List : e.agg = List[i].id
      \/ e.type = "OrderCreated"
      \/ e.type \in DOMAIN Suffix /\ \E j \in DOMAIN Pays : Pays[j].order = e.agg
    BY <1>2, <1>3, <1>4, <1>5, <1>6 DEF TypesOf, FirstStep
<1>9. ASSUME e.type \in {"PaymentConfirmed", "FeeCalculated"}
      PROVE  Outcome[orders'[e.agg].customer] = "succeeded"
    <2>1. call[w].op = "pay"
        <3>1. CASE ServesSeed(w)
            BY <1>2, <1>4, <1>5, <1>9, <3>1 DEF TypesOf, FirstStep
        <3>2. CASE ServesJob(w)
            BY <1>2, <1>4, <1>6, <1>9, <3>2 DEF TypesOf, FirstStep
        <3>3. QED BY <1>3, <3>1, <3>2
    <2>2. Outcome[call[w].party] = "succeeded" /\ Filled(w)
        BY <1>2, <1>3, <1>9, <2>1 DEF PaidOK, FilledOK
    <2>3. call[w].order = e.agg
        BY <1>2, <1>3, <2>1, CallType, OrderServiceAssumption DEF IInv
    <2>4. QED BY <1>2, <1>9, <2>2, <2>3 DEF Filled
<1>10. ASSUME e.type = "FeeCalculated" PROVE orders'[e.agg].fee # NoFee
    <2>1. orders'[e.agg].fee = CalculateFee(call[w].amount) /\ call[w].amount \in Nat
        BY <1>1, <1>2, <1>10, PublishedRows, WrittenRow, CommitFacts
    <2>2. QED BY <2>1 DEF CalculateFee, NoFee
<1>11. QED BY <1>7, <1>8, <1>9, <1>10 DEF EventFits

LEMMA FitsNext ==
    ASSUME ServiceOK, WorkInv, [Next]_vars, \A e \in events : EventFits(e)
    PROVE  \A e \in events' : EventFits(e)'
<1> SUFFICES ASSUME NEW e \in events', e \notin events PROVE EventFits(e)'
    BY FitsKept
<1>1. ASSUME NEW w \in Workers, WorkerStep(w) PROVE EventFits(e)'
    BY <1>1, NewFits
<1>2. ASSUME NEW s \in Settlers, SettlerStep(s) PROVE EventFits(e)'
    <2>1. PublishesSettlement(s)
        BY <1>2, SettlerShapes DEF ServiceOK, SettlerQuiet, committedVars
    <2>2. e = pending[s] /\ spc[s] = "mark"
        BY <2>1 DEF PublishesSettlement, PublishSettlement
    <2>3. e = SettlementEvent(s) /\ scall[s] \in SettleCall
        BY <2>2 DEF ServiceOK, IInv, SettlerOK
    <2>4. e.agg \notin Orders
        BY <2>3, DatabaseAssumption DEF SettlementEvent, SettleCall
    <2>5. QED BY <2>4 DEF EventFits
<1>3. CASE CalendarStep \/ UNCHANGED vars
    BY <1>3 DEF CalendarStep, AdvanceDay, committedVars, vars, dbVars
<1>4. QED BY <1>1, <1>2, <1>3 DEF Next

\* A call that succeeded has stored its last event.
LEMMA AnswerStored ==
    ASSUME ServiceOK, WorkInv, NEW w \in Workers, pc[w] = "reply", outcome[w] = "OK",
           call[w].order \in Orders
    PROVE  Stored(call[w].order, LastType(call[w].op))
<1>1. CallOK(w) /\ AnswerOK(w) /\ PaidOK(w)
    BY DEF ServiceOK, IInv, SagaInv, WorkerOK, WorkInv
<1>2. PICK e \in events : Backed(w, e)
    BY <1>1 DEF AnswerOK
<1>3. e.type = LastType(call[w].op)
    BY <1>1, <1>2 DEF Backed, CallOK, PaidOK, LastType
<1>4. e.agg = call[w].order
    BY <1>2, OrderServiceAssumption DEF Backed
<1>5. QED BY <1>3, <1>4 DEF Stored

LEMMA SeededNext ==
    ASSUME ServiceOK, WorkInv, Seeded, [ScriptsNext]_ScriptVars
    PROVE  Seeded'
<1>1. Grows
    BY ScriptsStep, StepGrows DEF ServiceOK, ScriptVars
<1>2. ASSUME \A i \in DOMAIN List : \A j \in DOMAIN CallsFor(i) : Behind(i, j)' => Behind(i, j)
      PROVE  Seeded'
    BY <1>1, <1>2, StoredKept DEF Seeded, CallsFor
<1>3. CASE UNCHANGED <<at, nth>>
    BY <1>2, <1>3 DEF Behind
<1>4. ASSUME NEW i, MoveTo(i, 1), i \in {0, 1} PROVE Seeded'
    BY <1>2, <1>4, ListTypes DEF Behind, MoveTo
<1>5. CASE Returned
    <2>1. /\ at \in DOMAIN List /\ nth \in DOMAIN CallsFor(at) /\ SeedCalls = CallsFor(at)
          /\ pc[Seeder] = "reply" /\ Seeder \in Workers
        BY <1>5, SeedAssumption DEF Returned, Running, SeedCalls, CallsFor, WorkInv, PlaceOK
    <2>2. CASE MoveTo(0, 1)
        BY <1>4, <2>2
    <2>3. CASE ~MoveTo(0, 1) /\ Untested
        <3> DEFINE op == CallsFor(at)[nth]
        <3>1. ServesSeed(Seeder)
            BY <2>1, <2>3, Resting
        <3>2. call[Seeder].op = op /\ call[Seeder].order = List[at].id /\ List[at].id \in Orders
            BY <2>1, <3>1, ListTypes DEF ServesSeed
        <3>3. /\ ~Unexpected(outcome[Seeder], call[Seeder])
              /\ IF nth < Len(CallsFor(at)) THEN MoveTo(at, nth + 1) ELSE MoveTo(at + 1, 1)
            BY <1>5, <2>1, <2>3 DEF Returned
        <3>4. ~(op = "pay" /\ List[at].flow = "declined") => Stored(List[at].id, LastType(op))
            BY <2>1, <3>2, <3>3, AnswerStored DEF Unexpected
        <3>5. ASSUME NEW i \in DOMAIN List, NEW j \in DOMAIN CallsFor(i), Behind(i, j)'
              PROVE  Behind(i, j) \/ (i = at /\ j = nth)
            BY <2>1, <3>3, <3>5, ListTypes DEF Behind, MoveTo
        <3>6. QED BY <1>1, <3>4, <3>5, StoredKept DEF Seeded, CallsFor
    <2>4. CASE ~Untested
        <3>1. FALSE
            BY <1>5, <2>1, <2>4, Resting DEF Returned, WorkInv, PlaceOK
        <3>2. QED BY <3>1
    <2>5. QED BY <2>2, <2>3, <2>4
<1>6. CASE Launch \/ Killed \/ RunAgain
    BY <1>4, <1>6 DEF Launch, Killed, RunAgain
<1>7. QED BY <1>3, <1>5, <1>6
          DEF ScriptsNext, ScriptVars, Seeding, Loading, SNext, Onward, CallNext, Work, Disturbed,
              seedVars

LEMMA PayNext ==
    ASSUME ServiceOK, WorkInv, NEW j \in DOMAIN Pays, PayOK(j), [ScriptsNext]_ScriptVars
    PROVE  PayOK(j)'
<1> DEFINE o == Pays[j].order
           Paying(u) == pc[u] # "idle" /\ call[u].op = "pay" /\ call[u].order = o
<1>1. Grows /\ [Next]_vars
    BY ScriptsStep, StepGrows DEF ServiceOK, ScriptVars
<1>2. Stored(o, "FeeCalculated") => PayOK(j)'
    BY <1>1, StoredKept DEF PayOK
<1>3. phase' \in {"create", "FAIL"} => PayOK(j)'
    BY DEF PayOK
<1>4. ASSUME UNCHANGED <<phase, next, failures>>, \A u \in Workers : Paying(u) => Paying(u)'
      PROVE  PayOK(j)'
    BY <1>2, <1>4 DEF PayOK
<1>5. ASSUME NEW w \in Workers, WorkerStep(w), ~Start(w), NEW u \in Workers, Paying(u), pc'[u] # "idle"
      PROVE  Paying(u)'
    BY <1>5, CallsKept DEF ServiceOK, SameCall
<1>6. ASSUME NEW w \in Workers, WorkerStep(w), NEW u \in Workers, u # w, Paying(u)
      PROVE  Paying(u)'
    BY <1>6, OthersStay DEF ServiceOK, OnlyWorker
<1>7. ASSUME Loading PROVE PayOK(j)'
    <2>1. Done /\ LNext
        BY <1>7 DEF Loading
    <2>2. ASSUME NEW x \in Clients, TakeJob(x) PROVE PayOK(j)'
        <3>1. PICK w \in Workers : Idle(w) /\ Start(w) /\ call'[w] = Jobs[next] /\ UNCHANGED settleVars
            BY <2>2 DEF TakeJob, Request
        <3>2. /\ phase \in {"create", "pay"} /\ next' = next + 1 /\ UNCHANGED <<phase, failures>>
              /\ next \in Nat
            BY <2>2 DEF TakeJob, WorkInv, PlaceOK
        <3>3. \A u \in Workers : Paying(u) => Paying(u)'
            BY <1>6, <3>1 DEF WorkerStep, WorkerNext, Idle
        <3>4. CASE j = next /\ phase = "pay"
            <4>1. call'[w] = Pays[j] /\ pc'[w] # "idle"
                BY <3>1, <3>4 DEF Jobs, Start, Reply, Goto, ServiceOK, IInv, TypeOK, OrderTypeOK
            <4>2. Paying(w)'
                BY <4>1, JobTypes
            <4>3. QED BY <3>2, <3>4, <4>2 DEF PayOK
        <3>5. CASE j # next /\ phase = "pay"
            <4>1. j \in Nat /\ (j >= next => j >= next + 1)
                BY <3>2, <3>5, JobTypes
            <4>2. QED BY <1>2, <3>2, <3>3, <3>5, <4>1 DEF PayOK
        <3>6. QED BY <1>3, <3>2, <3>4, <3>5
    <2>3. ASSUME NEW x \in Clients, JobDone(x) PROVE PayOK(j)'
        <3>1. PICK code \in Errors \cup {"OK"} :
                 Answer(x, code) /\ failures' = IF code = "OK" THEN failures ELSE failures + 1
            BY <2>3 DEF JobDone
        <3>2. PICK w \in Workers :
                 pc[w] = "reply" /\ outcome[w] = code /\ Finish(w) /\ UNCHANGED settleVars
            BY <3>1 DEF Answer
        <3>3. UNCHANGED <<phase, next>> /\ failures \in Nat
            BY <2>3 DEF JobDone, WorkInv, PlaceOK
        <3>4. CASE code = "OK"
            <4>1. CASE Paying(w)
                <5>1. call[w].order \in Orders
                    BY <4>1, CallType DEF ServiceOK, IInv
                <5>2. Stored(o, "FeeCalculated")
                    BY <3>2, <3>4, <4>1, <5>1, AnswerStored DEF LastType
                <5>3. QED BY <1>2, <5>2
            <4>2. CASE ~Paying(w)
                <5>1. \A u \in Workers : Paying(u) => Paying(u)'
                    BY <1>6, <3>2, <4>2 DEF WorkerStep, WorkerNext, Progress
                <5>2. QED BY <1>4, <3>1, <3>3, <3>4, <5>1
            <4>3. QED BY <4>1, <4>2
        <3>5. CASE code # "OK"
            <4>1. failures' > 0
                BY <3>1, <3>3, <3>5
            <4>2. QED BY <1>2, <3>3, <4>1 DEF PayOK
        <3>6. QED BY <3>4, <3>5
    <2>4. CASE EndPhase
        <3>1. /\ next > Len(Jobs) /\ \A w \in Workers : waiting[w] = Nobody
              /\ phase' = IF failures > 0 THEN "FAIL" ELSE IF phase = "create" THEN "pay" ELSE "settle"
              /\ next' = 1 /\ phase \in {"create", "pay"}
            BY <2>4 DEF EndPhase
        <3>2. \A w \in Workers : pc[w] = "idle"
            BY <2>1, <3>1, Resting
        <3>3. CASE failures > 0
            BY <1>3, <3>1, <3>3
        <3>4. CASE ~(failures > 0) /\ phase = "create"
            BY <3>1, <3>4, JobTypes DEF PayOK
        <3>5. CASE ~(failures > 0) /\ phase = "pay"
            <4>1. ~(j >= next)
                BY <3>1, <3>5, JobTypes DEF Jobs, WorkInv, PlaceOK
            <4>2. QED BY <1>2, <3>2, <3>5, <4>1 DEF PayOK
        <3>6. QED BY <3>1, <3>3, <3>4, <3>5
    <2>5. CASE AskSettlement \/ SettlementAnswered \/ Verify
        <3>1. phase \in {"settle", "again", "verify"}
            BY <2>5 DEF AskSettlement, SettlementAnswered, Verify
        <3>2. QED BY <1>2, <3>1 DEF PayOK
    <2>6. ASSUME NEW w \in Workers, Serve(w), UNCHANGED testVars PROVE PayOK(j)'
        <3>1. /\ Progress(w) /\ WorkerStep(w) /\ ~Start(w) /\ pc[w] # "idle"
              /\ pc[w] = "reply" => waiting[w] = Nobody
            BY <2>6, BusyStep DEF Serve, WorkerStep, WorkerNext
        <3>2. pc'[w] # "idle"
            BY <2>1, <3>1, Resting, BusyUntilReply DEF ServiceOK
        <3>3. \A u \in Workers : Paying(u) => Paying(u)'
            BY <1>5, <1>6, <3>1, <3>2
        <3>4. QED BY <1>4, <2>6, <3>3 DEF testVars
    <2>7. CASE ServeSettlement \/ Midnight
        <3>1. UNCHANGED <<pc, call, phase, next, failures>>
            BY <2>7 DEF ServeSettlement, Midnight, orderVars, workVars, testVars
        <3>2. QED BY <1>4, <3>1
    <2>8. QED BY <2>1, <2>2, <2>3, <2>4, <2>5, <2>6, <2>7 DEF LNext, ClientStep
<1>8. CASE Untested /\ Seeding
    BY <1>3, <1>8 DEF Untested, Seeding, testVars
<1>9. CASE UNCHANGED ScriptVars
    <2>1. UNCHANGED <<pc, call, phase, next, failures>>
        BY <1>9 DEF ScriptVars, vars, orderVars, workVars, testVars
    <2>2. QED BY <1>4, <2>1
<1>10. QED BY <1>7, <1>8, <1>9 DEF ScriptsNext

LEMMA EventsNext == ServiceOK /\ WorkInv /\ EventsInv /\ [ScriptsNext]_ScriptVars => EventsInv'
<1> SUFFICES ASSUME ServiceOK, WorkInv, EventsInv, [ScriptsNext]_ScriptVars PROVE EventsInv'
    OBVIOUS
<1>1. [Next]_vars
    BY ScriptsStep DEF ScriptVars
<1>2. QED BY <1>1, FitsNext, SeededNext, PayNext DEF EventsInv

LEMMA EventsInit == ScriptsInit => EventsInv
<1> SUFFICES ASSUME ScriptsInit PROVE EventsInv
    OBVIOUS
<1>1. events = {} /\ at = 0 /\ phase = "create"
    BY DEF ScriptsInit, SeedInit, TestInit, Init, DbInit
<1>2. Seeded
    BY <1>1, ListTypes DEF Seeded, Behind
<1>3. QED BY <1>1, <1>2 DEF EventsInv, PayOK

(***************************************************************************)
(* The seed.                                                                *)
(***************************************************************************)

\* The last event of an order, and what has to come after an event.
LEMMA LastEvent ==
    ASSUME IInv, NEW o \in Orders, NEW e \in events, e.agg = o
    PROVE  /\ e.type \in OrderEventTypes
           /\ \E f \in events : f.agg = o /\ f.type \in OrderEventTypes
                                /\ orders[o].status = NextStatus[f.type]
           /\ \/ orders[o].status = NextStatus[e.type]
              \/ \E f \in events : /\ f.agg = o /\ f.type \in OrderEventTypes
                                   /\ NextStatus[e.type] \in AllowedFrom[f.type]
<1>1. StreamOK(o) /\ e \in EventsOf(o) /\ orders[o].version \in Nat
    BY DEF IInv, EventsOf, TypeOK, DbTypeOK, OrderRow
<1>2. e.version \in 1..orders[o].version /\ e.type \in OrderEventTypes
    BY <1>1 DEF StreamOK
<1>3. \A v \in 1..orders[o].version : \E f \in EventsOf(o) : f.version = v
    BY <1>1 DEF StreamOK
<1>4. PICK f \in EventsOf(o) : f.version = orders[o].version
    <2>1. orders[o].version \in 1..orders[o].version
        BY <1>1, <1>2
    <2>2. QED BY <1>3, <2>1
<1>5. orders[o].status = NextStatus[f.type] /\ f.type \in OrderEventTypes
    BY <1>1, <1>4 DEF StreamOK
<1>6. CASE e.version = orders[o].version
    BY <1>1, <1>2, <1>4, <1>5, <1>6 DEF StreamOK, EventsOf
<1>7. CASE e.version # orders[o].version
    <2>1. e.version + 1 \in 1..orders[o].version
        BY <1>1, <1>2, <1>7
    <2>2. PICK g \in EventsOf(o) : g.version = e.version + 1
        BY <1>3, <2>1
    <2>3. NextStatus[e.type] \in AllowedFrom[g.type] /\ g.type \in OrderEventTypes
        BY <1>1, <2>2 DEF StreamOK
    <2>4. QED BY <1>2, <1>4, <1>5, <2>2, <2>3 DEF EventsOf
<1>8. QED BY <1>6, <1>7

\* The calls of a flow.
LEMMA FlowAsks ==
    ASSUME NEW i \in DOMAIN List
    PROVE  /\ List[i].flow \in DOMAIN CallsOfFlow
           /\ CallsFor(i)[1] = "create" /\ Len(CallsFor(i)) \in Nat /\ Len(CallsFor(i)) >= 1
           /\ List[i].flow # "created" => CallsFor(i)[2] = "pay" /\ Len(CallsFor(i)) >= 2
           /\ List[i].flow \in {"shipped", "delivered"} =>
                CallsFor(i)[3] = "ship" /\ Len(CallsFor(i)) >= 3
           /\ List[i].flow = "delivered" => CallsFor(i)[4] = "deliver" /\ Len(CallsFor(i)) = 4
           /\ List[i].flow = "refunded" => CallsFor(i)[3] = "refund" /\ Len(CallsFor(i)) = 3
           /\ \A op : Asks(i, op) =>
                /\ op \in {"create", "pay", "ship", "deliver", "refund"}
                /\ op = "pay" => List[i].flow # "created"
                /\ op = "ship" => List[i].flow \in {"shipped", "delivered"}
                /\ op = "deliver" => List[i].flow = "delivered"
                /\ op = "refund" => List[i].flow = "refunded"
<1>1. List[i].flow \in DOMAIN CallsOfFlow
    BY ListTypes DEF SeedOrder
<1>2. CASE List[i].flow = "created"
    <2>1. CallsFor(i) = <<"create">>
        BY <1>2 DEF CallsFor, CallsOfFlow
    <2>2. QED BY <1>1, <1>2, <2>1 DEF Asks
<1>3. CASE List[i].flow = "declined"
    <2>1. CallsFor(i) = <<"create", "pay">>
        BY <1>3 DEF CallsFor, CallsOfFlow
    <2>2. QED BY <1>1, <1>3, <2>1 DEF Asks
<1>4. CASE List[i].flow = "paid"
    <2>1. CallsFor(i) = <<"create", "pay">>
        BY <1>4 DEF CallsFor, CallsOfFlow
    <2>2. QED BY <1>1, <1>4, <2>1 DEF Asks
<1>5. CASE List[i].flow = "shipped"
    <2>1. CallsFor(i) = <<"create", "pay", "ship">>
        BY <1>5 DEF CallsFor, CallsOfFlow
    <2>2. QED BY <1>1, <1>5, <2>1 DEF Asks
<1>6. CASE List[i].flow = "delivered"
    <2>1. CallsFor(i) = <<"create", "pay", "ship", "deliver">>
        BY <1>6 DEF CallsFor, CallsOfFlow
    <2>2. QED BY <1>1, <1>6, <2>1 DEF Asks
<1>7. CASE List[i].flow = "refunded"
    <2>1. CallsFor(i) = <<"create", "pay", "refund">>
        BY <1>7 DEF CallsFor, CallsOfFlow
    <2>2. QED BY <1>1, <1>7, <2>1 DEF Asks
<1>8. QED BY <1>1, <1>2, <1>3, <1>4, <1>5, <1>6, <1>7 DEF CallsOfFlow

\* The types of events that a flow admits.
LEMMA FlowTypes ==
    ASSUME NEW i \in DOMAIN List, NEW op \in Ops, Asks(i, op), NEW type \in TypesOf(op)
    PROVE  /\ type \in {"OrderCreated", "OrderShipped", "OrderDelivered", "OrderRefunded"}
                        \cup DOMAIN Suffix
           /\ List[i].flow = "created" => type = "OrderCreated"
           /\ type = "OrderShipped" => List[i].flow \in {"shipped", "delivered"}
           /\ type = "OrderDelivered" => List[i].flow = "delivered"
           /\ type = "OrderRefunded" => List[i].flow = "refunded"
<1>1. /\ op \in {"create", "pay", "ship", "deliver", "refund"}
      /\ op = "pay" => List[i].flow # "created"
      /\ op = "ship" => List[i].flow \in {"shipped", "delivered"}
      /\ op = "deliver" => List[i].flow = "delivered"
      /\ op = "refund" => List[i].flow = "refunded"
    BY FlowAsks
<1>2. CASE op = "pay"
    BY <1>1, <1>2 DEF TypesOf, Suffix
<1>3. CASE op # "pay"
    BY <1>1, <1>3 DEF TypesOf, FirstStep, Suffix
<1>4. QED BY <1>2, <1>3

\* At the end of the seed every order of the list is where its flow leads.
LEMMA ListedStates == ServiceOK /\ WorkInv /\ EventsInv => SeededAsListed
<1> SUFFICES ASSUME ServiceOK, WorkInv, EventsInv, Done, NEW i \in DOMAIN List
             PROVE  LET row == orders[List[i].id]
                    IN  /\ row.status \in
                             [created   |-> {"CREATED"},
                              declined  |-> {"CREATED", "PAYMENT_PROCESSING", "PAYMENT_FAILED"},
                              paid      |-> {"PAID"},
                              shipped   |-> {"SHIPPED"},
                              delivered |-> {"DELIVERED"},
                              refunded  |-> {"REFUNDED"}][List[i].flow]
                        /\ PaidLike(List[i].id) => row.fee # NoFee
    BY DEF SeededAsListed
<1> DEFINE o == List[i].id
<1> DEFINE flow == List[i].flow
<1> DEFINE status == orders[o].status
<1>1. IInv /\ RowOK(o) /\ o \in Orders /\ flow \in DOMAIN CallsOfFlow
    BY ListTypes, FlowAsks DEF ServiceOK, BooksInv
<1>2. ASSUME NEW j \in DOMAIN CallsFor(i), ~(CallsFor(i)[j] = "pay" /\ flow = "declined")
      PROVE  Stored(o, LastType(CallsFor(i)[j]))
    <2>1. Behind(i, j)
        BY ListTypes DEF Done, Behind
    <2>2. QED BY <1>2, <2>1 DEF EventsInv, Seeded
<1>3. ASSUME NEW e \in events, e.agg = o
      PROVE  /\ e.type \in {"OrderCreated", "OrderShipped", "OrderDelivered", "OrderRefunded"}
                             \cup DOMAIN Suffix
             /\ flow = "created" => e.type = "OrderCreated"
             /\ e.type = "OrderShipped" => flow \in {"shipped", "delivered"}
             /\ e.type = "OrderDelivered" => flow = "delivered"
             /\ e.type = "OrderRefunded" => flow = "refunded"
             /\ e.type = "OrderCreated" => orders[o].customer = List[i].customer
             /\ e.type \in {"PaymentConfirmed", "FeeCalculated"} =>
                  Outcome[orders[o].customer] = "succeeded"
             /\ e.type = "FeeCalculated" => orders[o].fee # NoFee
    <2>1. EventFits(e) /\ EventOK(e)
        BY DEF EventsInv, ServiceOK, SagaInv
    <2>2. PICK op \in Ops : Asks(i, op) /\ e.type \in TypesOf(op)
        BY <1>1, <1>3, <2>1 DEF EventFits
    <2>3. e.type = "OrderCreated" => orders[o].customer = List[i].customer
        BY <1>1, <1>3, <2>1 DEF EventFits, EventOK
    <2>4. QED BY <1>1, <1>3, <2>1, <2>2, <2>3, FlowTypes DEF EventFits
<1>4. Stored(o, "OrderCreated")
    BY <1>2, FlowAsks, ListTypes DEF LastType, FirstStep
<1>5. orders[o].customer = List[i].customer
    BY <1>3, <1>4 DEF Stored
<1>6. PICK f \in events : f.agg = o /\ f.type \in OrderEventTypes /\ status = NextStatus[f.type]
    BY <1>1, <1>4, LastEvent DEF Stored
<1>7. CASE flow = "created"
    <2>1. status = "CREATED"
        BY <1>3, <1>6, <1>7 DEF NextStatus
    <2>2. QED BY <1>7, <2>1 DEF PaidLike
<1>8. CASE flow = "declined"
    <2>1. f.type \notin {"PaymentConfirmed", "FeeCalculated"}
        BY <1>3, <1>5, <1>6, <1>8, ListTypes
    <2>2. f.type \in {"OrderCreated", "PaymentProcessing", "PaymentFailed"}
        BY <1>3, <1>6, <1>8, <2>1 DEF Suffix
    <2>3. status \in {"CREATED", "PAYMENT_PROCESSING", "PAYMENT_FAILED"}
        BY <1>6, <2>2 DEF NextStatus
    <2>4. QED BY <1>8, <2>3 DEF PaidLike
<1>9. CASE flow \in {"paid", "shipped", "delivered", "refunded"}
    <2>1. Stored(o, "FeeCalculated")
        BY <1>2, <1>9, FlowAsks, ListTypes DEF LastType
    <2>2. orders[o].fee # NoFee
        BY <1>3, <2>1 DEF Stored
    <2>3. status \in {"PAID", "SHIPPED", "DELIVERED", "REFUNDED"}
        BY <1>1, <2>2 DEF RowOK
    <2>4. ASSUME NEW e \in events, e.agg = o
          PROVE  \/ status = NextStatus[e.type]
                 \/ \E g \in events : /\ g.agg = o /\ g.type \in OrderEventTypes
                                      /\ NextStatus[e.type] \in AllowedFrom[g.type]
        BY <1>1, <2>4, LastEvent
    <2>5. flow = "paid" => status = "PAID"
        BY <1>3, <1>6, <2>3 DEF NextStatus, Suffix
    <2>6. flow = "shipped" => status = "SHIPPED"
        <3>1. SUFFICES ASSUME flow = "shipped" PROVE status = "SHIPPED"
            OBVIOUS
        <3>2. PICK e \in events : e.agg = o /\ e.type = "OrderShipped"
            BY <1>2, <3>1, FlowAsks, ListTypes DEF LastType, FirstStep, Stored
        <3>3. ASSUME NEW g \in events, g.agg = o PROVE "SHIPPED" \notin AllowedFrom[g.type]
            BY <1>3, <3>1, <3>3 DEF AllowedFrom, Suffix
        <3>4. QED BY <2>4, <3>2, <3>3 DEF NextStatus
    <2>7. flow = "delivered" => status = "DELIVERED"
        <3>1. SUFFICES ASSUME flow = "delivered" PROVE status = "DELIVERED"
            OBVIOUS
        <3>2. PICK e \in events : e.agg = o /\ e.type = "OrderDelivered"
            BY <1>2, <3>1, FlowAsks, ListTypes DEF LastType, FirstStep, Stored
        <3>3. ASSUME NEW g \in events, g.agg = o PROVE "DELIVERED" \notin AllowedFrom[g.type]
            BY <1>3, <3>1, <3>3 DEF AllowedFrom, Suffix
        <3>4. QED BY <2>4, <3>2, <3>3 DEF NextStatus
    <2>8. flow = "refunded" => status = "REFUNDED"
        <3>1. SUFFICES ASSUME flow = "refunded" PROVE status = "REFUNDED"
            OBVIOUS
        <3>2. PICK e \in events : e.agg = o /\ e.type = "OrderRefunded"
            BY <1>2, <3>1, FlowAsks, ListTypes DEF LastType, FirstStep, Stored
        <3>3. ASSUME NEW g \in events, g.agg = o PROVE "REFUNDED" \notin AllowedFrom[g.type]
            BY <1>3, <3>3 DEF AllowedFrom, Suffix
        <3>4. QED BY <2>4, <3>2, <3>3 DEF NextStatus
    <2>9. QED BY <1>9, <2>2, <2>5, <2>6, <2>7, <2>8
<1>10. QED BY <1>1, <1>7, <1>8, <1>9 DEF CallsOfFlow

\* At the end of any run of the seed its orders are in the states the demo needs
\* (seed.ts; db:seed of package.json).
THEOREM SeedEndsAsListed == ScriptsSpec => []SeededAsListed
<1>1. ScriptsInit => WorkInv /\ EventsInv
    BY WorkInit, EventsInit
<1>2. ServiceOK /\ WorkInv /\ EventsInv /\ [ScriptsNext]_ScriptVars => WorkInv' /\ EventsInv'
    BY WorkNext, EventsNext
<1>3. ScriptsSpec => [](ServiceOK /\ WorkInv /\ EventsInv)
    BY <1>1, <1>2, ScriptsServe, ServiceInvariance, PTL DEF ScriptsSpec
<1>4. QED BY <1>3, ListedStates, PTL

(***************************************************************************)
(* The settlement of the load test.                                         *)
(***************************************************************************)

\* By the time it settles every payment has left its fee.
LEMMA FeesTaken ==
    ASSUME ServiceOK, WorkInv, EventsInv, Late, NEW o \in Orders, PaidLike(o)
    PROVE  orders[o].fee # NoFee
<1>1. Done /\ IInv
    BY DEF WorkInv, PlaceOK, Late, Untested, ServiceOK
<1>2. CASE \E i \in DOMAIN List : o = List[i].id
    BY <1>1, <1>2, ListedStates DEF SeededAsListed
<1>3. CASE ~\E i \in DOMAIN List : o = List[i].id
    <2>1. PICK e \in events : e.agg = o
        <3>1. StreamOK(o) /\ orders[o].version \in Nat /\ orders[o].version # 0
            BY <1>1 DEF IInv, TypeOK, DbTypeOK, OrderRow, StreamOK, PaidLike
        <3>2. orders[o].version \in {e.version : e \in EventsOf(o)}
            BY <3>1 DEF StreamOK
        <3>3. QED BY <3>2 DEF EventsOf
    <2>2. PICK f \in events : f.agg = o /\ f.type \in OrderEventTypes
                              /\ orders[o].status = NextStatus[f.type]
        BY <1>1, <2>1, LastEvent
    <2>3. f.type # "OrderCreated"
        BY <2>2 DEF PaidLike, NextStatus
    <2>4. PICK j \in DOMAIN Pays : Pays[j].order = o
        BY <1>3, <2>2, <2>3 DEF EventsInv, EventFits
    <2>5. Stored(o, "FeeCalculated")
        BY <2>4 DEF EventsInv, PayOK, Late
    <2>6. QED BY <2>5 DEF Stored, EventsInv, EventFits
<1>4. QED BY <1>2, <1>3

\* A mutation leaves the settlements and their marks alone.
LEMMA WorkersDoNotSettle ==
    ASSUME IInv, BooksInv, NEW w \in Workers, WorkerStep(w)
    PROVE  /\ UNCHANGED <<settlements, settleVars>>
           /\ \A o \in Orders : orders'[o].settlement = orders[o].settlement
<1>1. UNCHANGED settleVars
    BY DEF WorkerStep
<1>2. CASE WorkerQuiet(w)
    BY <1>1, <1>2 DEF WorkerQuiet, committedVars
<1>3. CASE Publishes(w)
    BY <1>1, <1>3, PublishedRow, PublishedRows DEF RowKept
<1>4. QED BY <1>2, <1>3, WorkerShapes

LEMMA SettleKept ==
    ASSUME SettleInv, UNCHANGED <<settleVars, phase, first, date, settlements>>,
           \A o \in Orders : orders'[o].settlement = orders[o].settlement,
           phase \in {"create", "pay"} \/ UNCHANGED orders
    PROVE  SettleInv'
<1>1. UNCHANGED <<spc, scall, lines, result, phase, first, date, settlements>>
    BY DEF settleVars
<1>2. OneDay'
    BY <1>1 DEF SettleInv, OneDay
<1>3. phase \in {"create", "pay"} => spc[Tester] = "idle" /\ ~Late
    BY LoadTestAssumption DEF SettleInv, OneDay, Late
<1>4. SettledAll' /\ SelectedAll'
    BY <1>1, <1>3 DEF SettleInv, SettledAll, SelectedAll, Late, PaidOrders, PaidLike, LineIds
<1>5. AnswersOK'
    BY <1>1 DEF SettleInv, AnswersOK
<1>6. QED BY <1>2, <1>4, <1>5 DEF SettleInv

LEMMA SettleInit == ScriptsInit => SettleInv
<1> SUFFICES ASSUME ScriptsInit PROVE SettleInv
    OBVIOUS
<1>1. /\ \A s \in Settlers : spc[s] = "idle"
      /\ date = NoDay /\ phase = "create"
      /\ \A d \in Days : settlements[d] = NoSettlement
      /\ \A o \in Orders : orders[o] = NoRow
    BY DEF ScriptsInit, SeedInit, TestInit, Init, DbInit, SettlementInit
<1>2. OneDay
    BY <1>1 DEF OneDay, NoSettlement, NoRow
<1>3. spc[Tester] = "idle"
    BY <1>1, LoadTestAssumption
<1>4. QED BY <1>1, <1>2, <1>3 DEF SettleInv, SettledAll, SelectedAll, AnswersOK, Late

\* A step of the test's settler that leaves the rest of the database alone.
LEMMA TesterKept ==
    ASSUME SettleInv, NEW s \in Settlers, s = Tester, OtherSettlers(s),
           UNCHANGED <<phase, first, date, committedVars>>,
           spc[s] # "idle", spc'[s] # "idle", scall'[s] = scall[s]
    PROVE  OneDay' /\ SettledAll'
<1>1. UNCHANGED <<orders, settlements>>
    BY DEF committedVars
<1>2. OneDay'
    BY <1>1 DEF SettleInv, OneDay, OtherSettlers
<1>3. SettledAll'
    BY <1>1 DEF SettleInv, SettledAll, Late, PaidOrders, PaidLike
<1>4. QED BY <1>2, <1>3

\* A transaction that is rolled back, and the answers.
LEMMA ThrowSettles ==
    ASSUME IInv, SettleInv, NEW s \in Settlers, s = Tester, NEW code \in SettleErrors,
           SettleThrow(s, code), UNCHANGED orderVars, spc[s] # "idle",
           UNCHANGED <<phase, first, date>>
    PROVE  SettleInv'
<1>1. /\ OtherSettlers(s) /\ UNCHANGED committedVars
      /\ spc'[s] = "recheck" /\ result'[s] = code /\ scall'[s] = scall[s]
    BY SettleThrowShape
       DEF SettleThrow, SettleGoto, SettlerQuiet, IInv, TypeOK, SettlementTypeOK
<1>2. OneDay' /\ SettledAll'
    BY <1>1, TesterKept
<1>3. SelectedAll'
    BY <1>1 DEF SelectedAll
<1>4. AnswersOK'
    BY <1>1 DEF SettleInv, AnswersOK, SettleErrors, committedVars
<1>5. QED BY <1>2, <1>3, <1>4 DEF SettleInv

\* It settles all there is to settle.
LEMMA ServeSettles ==
    ASSUME ServiceOK, WorkInv, EventsInv, SettleInv, ServeSettlement
    PROVE  SettleInv'
<1> DEFINE s == Tester
<1>1. /\ s \in Settlers /\ SettleProgress(s) /\ spc[s] # "reply" /\ spc[s] # "idle"
      /\ UNCHANGED <<orderVars, phase, first, date>>
    BY LoadTestAssumption
       DEF ServeSettlement, testVars, SettleProgress, FindSettlement, SelectEligible, InsertSettlement,
           MarkOrder, CommitSettlement, RecheckSettlement, FinishSettle
<1>2. /\ IInv /\ BooksInv /\ SettlementTypeOK /\ DbTypeOK /\ SettlerStep(s)
      /\ OneDay /\ SettledAll /\ SelectedAll /\ AnswersOK
    BY <1>1 DEF ServiceOK, SettleInv, IInv, TypeOK, SettlerStep, SettlerNext
<1>3. /\ phase \in {"settle", "again"} /\ Late /\ scall[s].day = date /\ date \in Days /\ date # NoDay
    <2>1. scall[s] \in SettleCall
        BY <1>1, <1>2, SettlementAssumption DEF IInv, SettlerOK
    <2>2. scall[s].day \in Days
        BY <2>1 DEF SettleCall
    <2>3. QED BY <1>1, <1>2, <2>2, DatabaseAssumption DEF OneDay, Late, Days, NoDay
<1>4. CASE FindSettlement(s)
    <2>1. /\ UNCHANGED dbVars /\ scall' = scall /\ spc'[s] \in {"reply", "select"}
          /\ spc'[s] = "select" => ~settlements[date].exists
          /\ spc'[s] = "reply" => settlements[date].exists
          /\ OtherSettlers(s)
        BY <1>1, <1>2, <1>3, <1>4
           DEF FindSettlement, SettleReply, SettleGoto, SettlementTypeOK, OtherSettlers
    <2>2. OneDay' /\ SettledAll'
        BY <1>1, <2>1, TesterKept DEF dbVars, committedVars
    <2>3. SelectedAll' /\ AnswersOK'
        BY <1>1, <1>2, <2>1 DEF SelectedAll, AnswersOK, dbVars
    <2>4. QED BY <2>2, <2>3 DEF SettleInv
<1>5. CASE SelectEligible(s)
    <2>1. /\ UNCHANGED dbVars /\ scall' = scall /\ spc[s] = "select" /\ spc'[s] = "insert"
          /\ lines'[s] = {[order |-> o, amount |-> orders[o].amount, fee |-> orders[o].fee] :
                            o \in {x \in Orders : Eligible(x, scall[s].day)}}
          /\ OtherSettlers(s)
        BY <1>1, <1>2, <1>5 DEF SelectEligible, SettleGoto, SettlementTypeOK, OtherSettlers
    <2>2. ASSUME NEW o \in Orders PROVE Eligible(o, date) <=> PaidLike(o)
        <3>1. RowOK(o)
            BY <1>2 DEF BooksInv
        <3>2. CASE PaidLike(o)
            <4>1. orders[o].settlement = NoDay /\ orders[o].paidDay <= date
                BY <1>2, <1>3, <2>1, <3>2 DEF SettledAll, SelectedAll, PaidOrders
            <4>2. orders[o].fee # NoFee
                BY <1>3, <3>2, FeesTaken
            <4>3. QED BY <3>1, <3>2, <4>1, <4>2 DEF RowOK, PaidLike, Eligible, SettlementStatuses
        <3>3. CASE ~PaidLike(o)
            BY <3>3 DEF PaidLike, Eligible, SettlementStatuses
        <3>4. QED BY <3>2, <3>3
    <2>3. LineIds(s)' = PaidOrders'
        <3>1. LineIds(s)' = {x \in Orders : Eligible(x, date)}
            <4> DEFINE row(o) == [order |-> o, amount |-> orders[o].amount, fee |-> orders[o].fee]
            <4>1. lines'[s] = {row(o) : o \in {x \in Orders : Eligible(x, date)}}
                BY <1>3, <2>1
            <4>2. \A o : row(o).order = o
                OBVIOUS
            <4> HIDE DEF row
            <4>3. {l.order : l \in lines'[s]} = {x \in Orders : Eligible(x, date)}
                BY <4>1, <4>2
            <4>4. QED BY <4>3 DEF LineIds
        <3>2. PaidOrders' = PaidOrders
            BY <2>1 DEF PaidOrders, PaidLike, dbVars
        <3>3. QED BY <2>2, <3>1, <3>2 DEF PaidOrders
    <2>4. OneDay' /\ SettledAll'
        BY <1>1, <2>1, TesterKept DEF dbVars, committedVars
    <2>5. SelectedAll' /\ AnswersOK'
        BY <1>1, <1>2, <2>1, <2>3 DEF SelectedAll, AnswersOK, dbVars
    <2>6. QED BY <2>4, <2>5 DEF SettleInv
<1>6. CASE InsertSettlement(s)
    <2>1. CASE \E code \in SettleErrors : SettleThrow(s, code)
        BY <1>1, <1>2, <2>1, ThrowSettles
    <2>2. CASE ~\E code \in SettleErrors : SettleThrow(s, code)
        <3>1. /\ UNCHANGED <<committedVars, scall, lines>> /\ spc[s] = "insert" /\ spc'[s] = "mark"
              /\ OtherSettlers(s)
            BY <1>1, <1>2, <1>6, <2>2
               DEF InsertSettlement, SettleGoto, SettlementTypeOK, OtherSettlers, SettleErrors
        <3>2. OneDay' /\ SettledAll'
            BY <1>1, <3>1, TesterKept
        <3>3. SelectedAll' /\ AnswersOK'
            BY <1>1, <1>2, <3>1
               DEF SelectedAll, AnswersOK, committedVars, LineIds, PaidOrders, PaidLike
        <3>4. QED BY <3>2, <3>3 DEF SettleInv
    <2>3. QED BY <2>1, <2>2
<1>7. ASSUME NEW o \in Orders, MarkOrder(s, o) PROVE SettleInv'
    <2>1. /\ UNCHANGED <<committedVars, spc, scall, lines, result>> /\ OtherSettlers(s)
        BY <1>1, <1>2, <1>7 DEF MarkOrder, SettlementTypeOK, OtherSettlers, LockRow
    <2>2. OneDay' /\ SettledAll'
        BY <1>1, <2>1, TesterKept
    <2>3. SelectedAll' /\ AnswersOK'
        BY <1>1, <1>2, <2>1
           DEF SelectedAll, AnswersOK, committedVars, LineIds, PaidOrders, PaidLike
    <2>4. QED BY <2>2, <2>3 DEF SettleInv
<1>8. CASE CommitSettlement(s)
    <2>1. CASE SettleThrow(s, "VERSION_CONFLICT")
        BY <1>1, <1>2, <2>1, ThrowSettles DEF SettleErrors
    <2>2. CASE ~SettleThrow(s, "VERSION_CONFLICT")
        <3>1. /\ AllLinesMarked(s) /\ PublishSettlement(s) /\ spc[s] = "mark" /\ spc'[s] = "reply"
              /\ result'[s] = "SETTLED" /\ scall' = scall /\ OtherSettlers(s)
              /\ PublishesSettlement(s)
            BY <1>1, <1>2, <1>8, <2>2
               DEF CommitSettlement, SettleReply, SettleGoto, ForgetSettlement, SettlementTypeOK,
                   OtherSettlers, PublishesSettlement
        <3>2. LineIds(s) = PaidOrders
            BY <1>2, <3>1 DEF SelectedAll
        <3>3. ASSUME NEW o \in Orders
              PROVE  /\ orders'[o].status = orders[o].status /\ orders'[o].paidDay = orders[o].paidDay
                     /\ orders'[o].settlement = IF o \in PaidOrders THEN date
                                                ELSE orders[o].settlement
            <4>1. orders[o] \in OrderRow
                BY <1>2 DEF DbTypeOK
            <4>2. CASE o \in PaidOrders
                <5>1. orders'[o] = [orders[o] EXCEPT !.settlement = scall[s].day]
                    BY <1>1, <1>2, <3>1, <3>2, <4>2, SettledRows
                <5>2. QED BY <1>3, <4>1, <4>2, <5>1 DEF OrderRow
            <4>3. CASE o \notin PaidOrders
                <5>1. orders'[o] = orders[o]
                    BY <1>1, <1>2, <3>1, <3>2, <4>3, SettledRows
                <5>2. QED BY <4>3, <5>1
            <4>4. QED BY <4>2, <4>3
        <3>4. \A d \in Days : settlements'[d].exists <=> settlements[d].exists \/ d = date
            BY <1>2, <1>3, <3>1 DEF PublishSettlement, DbTypeOK
        <3>5. PaidOrders' = PaidOrders
            BY <3>3 DEF PaidOrders, PaidLike
        <3>6. OneDay'
            BY <1>1, <1>2, <1>3, <3>1, <3>3, <3>4 DEF OneDay, OtherSettlers
        <3>7. SettledAll'
            BY <1>1, <1>2, <1>3, <3>3, <3>4, <3>5 DEF SettledAll, Late, PaidOrders
        <3>8. SelectedAll' /\ AnswersOK'
            BY <1>1, <1>2, <1>3, <3>1 DEF SelectedAll, AnswersOK
        <3>9. QED BY <3>6, <3>7, <3>8 DEF SettleInv
    <2>3. QED BY <2>1, <2>2
<1>9. CASE RecheckSettlement(s)
    <2>1. /\ UNCHANGED dbVars /\ scall' = scall /\ spc[s] = "recheck" /\ spc'[s] = "reply"
          /\ result'[s] = "ALREADY_SETTLED" =>
               settlements[date].exists \/ result[s] = "ALREADY_SETTLED"
          /\ OtherSettlers(s)
        BY <1>1, <1>2, <1>3, <1>9
           DEF RecheckSettlement, SettleReply, SettleGoto, SettlementTypeOK, OtherSettlers
    <2>2. OneDay' /\ SettledAll'
        BY <1>1, <2>1, TesterKept DEF dbVars, committedVars
    <2>3. SelectedAll' /\ AnswersOK'
        BY <1>1, <1>2, <2>1 DEF SelectedAll, AnswersOK, dbVars
    <2>4. QED BY <2>2, <2>3 DEF SettleInv
<1>10. QED BY <1>1, <1>4, <1>5, <1>6, <1>7, <1>8, <1>9 DEF SettleProgress, FinishSettle

LEMMA AskSettles ==
    ASSUME ServiceOK, SettleInv, AskSettlement
    PROVE  SettleInv'
<1> DEFINE s == Tester
<1>1. /\ s \in Settlers /\ IInv /\ BooksInv /\ SettlementTypeOK /\ today \in Days
      /\ OneDay /\ SettledAll /\ SelectedAll /\ AnswersOK
    BY LoadTestAssumption DEF ServiceOK, SettleInv, IInv, TypeOK, DbTypeOK
<1>2. /\ phase \in {"settle", "again"} /\ phase' = phase /\ first' = first
      /\ date' = (IF phase = "settle" THEN today ELSE date)
      /\ spc[s] = "idle" /\ spc'[s] = "find" /\ scall'[s].day = date'
      /\ UNCHANGED dbVars /\ \A r \in Settlers \ {s} : spc'[r] = spc[r]
    BY <1>1 DEF AskSettlement, StartSettle, SettleGoto, SettlementTypeOK
<1>3. UNCHANGED <<orders, settlements, today>>
    BY <1>2 DEF dbVars
<1>4. \A r \in Settlers \ {s} : spc[r] = "idle"
    BY <1>1 DEF OneDay
<1>5. SelectedAll'
    BY <1>2 DEF SelectedAll
<1>6. CASE phase = "settle"
    <2>1. date = NoDay /\ date' = today
        BY <1>1, <1>2, <1>6 DEF OneDay
    <2>2. /\ \A d \in Days : ~settlements[d].exists
          /\ \A o \in Orders : orders[o].settlement = NoDay
        BY <1>1, <2>1, DatabaseAssumption DEF OneDay, Days, NoDay
    <2>3. OneDay'
        BY <1>1, <1>2, <1>3, <1>4, <1>6, <2>1, <2>2 DEF OneDay
    <2>4. \A o \in Orders : orders[o].paidDay <= today
        BY <1>1 DEF BooksInv, RowOK
    <2>5. SettledAll'
        BY <1>1, <1>3, <2>1, <2>2, <2>4 DEF SettledAll, PaidOrders
    <2>6. AnswersOK'
        BY <1>2, <1>6 DEF AnswersOK
    <2>7. QED BY <1>5, <2>3, <2>5, <2>6 DEF SettleInv
<1>7. CASE phase = "again"
    <2>1. OneDay'
        BY <1>1, <1>2, <1>3, <1>4, <1>7 DEF OneDay
    <2>2. SettledAll'
        BY <1>1, <1>2, <1>3, <1>7 DEF SettledAll, Late, PaidOrders, PaidLike
    <2>3. AnswersOK'
        BY <1>1, <1>2, <1>7 DEF AnswersOK
    <2>4. QED BY <1>5, <2>1, <2>2, <2>3 DEF SettleInv
<1>8. QED BY <1>2, <1>6, <1>7

LEMMA AnswerSettles ==
    ASSUME ServiceOK, SettleInv, SettlementAnswered
    PROVE  SettleInv'
<1> DEFINE s == Tester
<1>1. /\ s \in Settlers /\ IInv /\ SettlementTypeOK
      /\ OneDay /\ SettledAll /\ SelectedAll /\ AnswersOK
    BY LoadTestAssumption DEF ServiceOK, SettleInv, IInv, TypeOK
<1>2. /\ spc[s] = "reply" /\ spc'[s] = "idle" /\ date' = date
      /\ UNCHANGED dbVars /\ \A r \in Settlers \ {s} : spc'[r] = spc[r]
    BY <1>1 DEF SettlementAnswered, FinishSettle, ResetSettler, SettleGoto, SettlementTypeOK
<1>3. UNCHANGED <<orders, settlements>>
    BY <1>2 DEF dbVars
<1>4. /\ phase \in {"settle", "again"} /\ scall[s].day = date /\ date \in Days /\ date # NoDay
    <2>1. phase \in {"settle", "again"} /\ scall[s].day = date
        BY <1>1, <1>2 DEF OneDay
    <2>2. scall[s] \in SettleCall
        BY <1>1, <1>2 DEF IInv, SettlerOK
    <2>3. scall[s].day \in Days
        BY <2>2 DEF SettleCall
    <2>4. QED BY <2>1, <2>3, DatabaseAssumption DEF Days, NoDay
<1>5. \A r \in Settlers : spc'[r] = "idle"
    BY <1>1, <1>2 DEF OneDay
<1>6. /\ phase = "settle" => phase' = "again"
      /\ phase = "again" =>
           \/ phase' = "FAIL"
           \/ /\ phase' = "verify" /\ first' = first
              /\ result[s] = "ALREADY_SETTLED" /\ settlements[date].payout = first.payout
    BY <1>4 DEF SettlementAnswered
<1>7. OneDay'
    BY <1>1, <1>2, <1>3, <1>4, <1>5, <1>6 DEF OneDay
<1>8. SettledAll'
    BY <1>1, <1>2, <1>3, <1>4 DEF SettledAll, Late, PaidOrders, PaidLike
<1>9. SelectedAll'
    BY <1>1, <1>5 DEF SelectedAll
<1>10. AnswersOK'
    BY <1>1, <1>2, <1>3, <1>4, <1>5, <1>6 DEF AnswersOK
<1>11. QED BY <1>7, <1>8, <1>9, <1>10 DEF SettleInv

\* The other steps of the load test.
LEMMA PhaseSettles ==
    ASSUME SettleInv, EndPhase \/ Verify
    PROVE  SettleInv'
<1>1. /\ UNCHANGED <<vars, date, first>> /\ OneDay /\ SettledAll /\ AnswersOK
      /\ phase \in {"create", "pay", "verify"}
      /\ phase \in {"create", "pay"} => phase' \in {"pay", "settle", "FAIL"} /\ date = NoDay
      /\ phase = "verify" => phase' \in {"PASS", "FAIL"}
    BY DEF EndPhase, Verify, SettleInv, OneDay
<1>2. UNCHANGED <<orders, settlements, spc, scall, lines, result>>
    BY <1>1 DEF vars, dbVars, settleVars
<1>3. \A s \in Settlers : spc[s] = "idle"
    BY <1>1 DEF OneDay
<1>4. OneDay'
    BY <1>1, <1>2, <1>3 DEF OneDay
<1>5. SettledAll'
    BY <1>1, <1>2 DEF SettledAll, Late, PaidOrders, PaidLike
<1>6. SelectedAll' /\ AnswersOK'
    BY <1>1, <1>2, <1>3, LoadTestAssumption DEF SelectedAll, AnswersOK
<1>7. QED BY <1>4, <1>5, <1>6 DEF SettleInv

LEMMA SettleNext ==
    ServiceOK /\ WorkInv /\ EventsInv /\ SettleInv /\ [ScriptsNext]_ScriptVars => SettleInv'
<1> SUFFICES ASSUME ServiceOK, WorkInv, EventsInv, SettleInv, [ScriptsNext]_ScriptVars
             PROVE  SettleInv'
    OBVIOUS
<1>1. IInv /\ BooksInv
    BY DEF ServiceOK
<1>2. ASSUME NEW w \in Workers, WorkerStep(w), phase \in {"create", "pay"},
             UNCHANGED <<phase, first, date>>
      PROVE  SettleInv'
    BY <1>1, <1>2, WorkersDoNotSettle, SettleKept
<1>3. ASSUME UNCHANGED <<orders, settlements, settleVars, phase, first, date>> PROVE SettleInv'
    BY <1>3, SettleKept
<1>4. CASE Untested /\ Seeding
    <2>1. phase = "create" /\ UNCHANGED <<phase, first, date>> /\ Seeder \in Workers
        BY <1>4, SeedAssumption DEF Untested, Seeding, testVars
    <2>2. CASE Launch \/ RunAgain
        BY <1>3, <2>1, <2>2 DEF Launch, RunAgain, vars, dbVars
    <2>3. CASE CallNext \/ Returned \/ Work \/ Disturbed
        <3>1. WorkerStep(Seeder)
            BY <2>3 DEF CallNext, Returned, Work, Disturbed, WorkerStep, WorkerNext, Progress
        <3>2. QED BY <1>2, <2>1, <3>1
    <2>4. CASE Killed
        <3>1. CASE Crash(Seeder) \/ Finish(Seeder)
            <4>1. WorkerStep(Seeder)
                BY <2>4, <3>1 DEF Killed, WorkerStep, WorkerNext, Progress, Failure
            <4>2. QED BY <1>2, <2>1, <4>1
        <3>2. CASE UNCHANGED <<dbVars, orderVars>>
            BY <1>3, <2>1, <2>4, <3>2 DEF Killed, dbVars
        <3>3. QED BY <2>4, <3>1, <3>2 DEF Killed
    <2>5. QED BY <1>4, <2>2, <2>3, <2>4 DEF Seeding, SNext, Onward
<1>5. CASE Loading
    <2>1. ASSUME NEW w \in Workers, WorkerStep(w), pc[w] # "idle", UNCHANGED <<phase, first, date>>
          PROVE  SettleInv'
        BY <1>2, <2>1, Resting
    <2>2. ASSUME NEW x \in Clients, TakeJob(x) PROVE SettleInv'
        <3>1. PICK w \in Workers : WorkerStep(w)
            BY <2>2 DEF TakeJob, Request, WorkerStep, WorkerNext
        <3>2. QED BY <1>2, <2>2, <3>1 DEF TakeJob
    <2>3. ASSUME NEW x \in Clients, JobDone(x) PROVE SettleInv'
        <3>1. PICK w \in Workers : WorkerStep(w) /\ pc[w] # "idle"
            BY <2>3 DEF JobDone, Answer, WorkerStep, WorkerNext, Progress
        <3>2. QED BY <2>1, <2>3, <3>1 DEF JobDone
    <2>4. ASSUME NEW w \in Workers, Serve(w), UNCHANGED testVars PROVE SettleInv'
        <3>1. WorkerStep(w) /\ pc[w] # "idle"
            BY <2>4, BusyStep DEF Serve, WorkerStep, WorkerNext
        <3>2. QED BY <2>1, <2>4, <3>1 DEF testVars
    <2>5. CASE EndPhase \/ Verify
        BY <2>5, PhaseSettles
    <2>6. CASE AskSettlement
        BY <2>6, AskSettles
    <2>7. CASE SettlementAnswered
        BY <2>7, AnswerSettles
    <2>8. CASE ServeSettlement
        BY <2>8, ServeSettles
    <2>9. CASE Midnight
        BY <1>3, <2>9 DEF Midnight, AdvanceDay, committedVars, testVars
    <2>10. QED
        BY <1>5, <2>2, <2>3, <2>4, <2>5, <2>6, <2>7, <2>8, <2>9 DEF Loading, LNext, ClientStep
<1>6. CASE UNCHANGED ScriptVars
    BY <1>3, <1>6 DEF ScriptVars, vars, dbVars, testVars
<1>7. QED BY <1>4, <1>5, <1>6 DEF ScriptsNext

LEMMA ScriptInvariance == ScriptsSpec => [](ServiceOK /\ ScriptInv)
<1>1. ScriptsInit => ScriptInv
    BY WorkInit, EventsInit, SettleInit DEF ScriptInv
<1>2. ServiceOK /\ ScriptInv /\ [ScriptsNext]_ScriptVars => ScriptInv'
    BY WorkNext, EventsNext, SettleNext DEF ScriptInv
<1>3. QED BY <1>1, <1>2, ScriptsServe, ServiceInvariance, PTL DEF ScriptsSpec

\* The sum the load test compares with is a total.
LEMMA PaidSumIsTotal ==
    ASSUME DbTypeOK, NEW S, S \subseteq Orders, IsFiniteSet(S)
    PROVE  IsTotal(MapThenSumSet(LAMBDA o : orders[o].amount - CalculateFee(orders[o].amount), S),
                   [o \in S |-> orders[o].amount - CalculateFee(orders[o].amount)], S)
<1> DEFINE net(o) == orders[o].amount - CalculateFee(orders[o].amount)
           f == [o \in S |-> net(o)]
           G == CHOOSE g : g = [s \in SUBSET S |->
                    IF s = {} THEN 0
                    ELSE net(CHOOSE x \in s : TRUE) + g[s \ {CHOOSE x \in s : TRUE}]]
<1>1. f \in [S -> Int]
    <2>1. ASSUME NEW o \in S PROVE net(o) \in Int
        <3>1. orders[o].amount \in Nat
            BY DEF DbTypeOK, OrderRow
        <3>2. CalculateFee(orders[o].amount) \in Nat
            BY <3>1, FeeWithinAmount
        <3>3. QED BY <3>1, <3>2
    <2>2. QED BY <2>1
<1>2. \A s \in SUBSET S : s # {} =>
        (CHOOSE x \in s : TRUE) \in S /\ f[CHOOSE x \in s : TRUE] = net(CHOOSE x \in s : TRUE)
    OBVIOUS
<1>3. MapThenSumSet(LAMBDA o : orders[o].amount - CalculateFee(orders[o].amount), S) = G[S]
    BY DEF MapThenSumSet, MapThenFoldSet
<1>4. PICK h : Additive(h, f, S)
    <2> HIDE DEF f
    <2>1. QED BY <1>1, SumExists
<1>5. h = [s \in SUBSET S |->
              IF s = {} THEN 0
              ELSE net(CHOOSE x \in s : TRUE) + h[s \ {CHOOSE x \in s : TRUE}]]
    <2> HIDE DEF f, net, G
    <2>1. h \in [SUBSET S -> Int] /\ h[{}] = 0
        BY <1>4 DEF Additive
    <2>2. ASSUME NEW s \in SUBSET S, s # {}
          PROVE  h[s] = net(CHOOSE x \in s : TRUE) + h[s \ {CHOOSE x \in s : TRUE}]
        <3>1. PICK y \in s : y = CHOOSE x \in s : TRUE
            BY <2>2
        <3>2. h[s] = f[y] + h[s \ {y}]
            BY <1>4, <2>2 DEF Additive
        <3>3. QED BY <1>2, <2>2, <3>1, <3>2
    <2>3. h = [s \in SUBSET S |-> h[s]]
        BY <2>1
    <2>4. QED BY <2>1, <2>2, <2>3
<1>6. G = [s \in SUBSET S |->
              IF s = {} THEN 0
              ELSE net(CHOOSE x \in s : TRUE) + G[s \ {CHOOSE x \in s : TRUE}]]
    <2> HIDE DEF net
    <2>1. QED BY <1>5
<1> HIDE DEF G
<1>7. SumsByChoice(G, f, S)
    <2> HIDE DEF net, f
    <2>1. QED BY <1>2, <1>6 DEF SumsByChoice
<1>8. IsTotal(G[S], f, S)
    <2> HIDE DEF f
    <2>1. QED BY <1>1, <1>7, SumByChoiceIsAdditive DEF IsTotal
<1>9. QED BY <1>3, <1>8

\* What the test's settlement paid out is that sum.
LEMMA PaidOutInFull ==
    ASSUME ServiceOK, ScriptInv, SettledInv, FeesOK
    PROVE  WholeRunIsPaidOut
<1> SUFFICES ASSUME phase = "PASS"
             PROVE  first.payout =
                      MapThenSumSet(LAMBDA o : orders[o].amount - CalculateFee(orders[o].amount),
                                    {o \in Orders : PaidLike(o)})
    BY DEF WholeRunIsPaidOut
<1> DEFINE S == PaidOrders
           amounts == [o \in S |-> orders[o].amount]
           fees == [o \in S |-> orders[o].fee]
           nets == [o \in S |-> orders[o].amount - CalculateFee(orders[o].amount)]
           total == MapThenSumSet(LAMBDA o : orders[o].amount - CalculateFee(orders[o].amount), S)
           row == settlements[date]
<1>1. /\ DbTypeOK /\ BooksInv /\ Late
      /\ OneDay /\ SettledAll /\ AnswersOK
    BY DEF ServiceOK, IInv, TypeOK, ScriptInv, SettleInv, Late
<1>2. date \in Days /\ date # NoDay /\ row.exists /\ first.payout = row.payout
    BY <1>1 DEF AnswersOK, OneDay
<1>3. Settled(date) = S
    <2>1. ASSUME NEW o \in Orders PROVE orders[o].settlement = date <=> PaidLike(o)
        BY <1>1, <1>2 DEF BooksInv, RowOK, SettledAll, PaidOrders
    <2>2. QED BY <2>1 DEF Settled, PaidOrders
<1>4. DayOK(date) /\ IsFiniteSet(WrittenOrders)
    BY <1>2 DEF SettledInv
<1>5. S \subseteq Orders /\ IsFiniteSet(S)
    <2>1. S \subseteq WrittenOrders
        BY DEF PaidOrders, WrittenOrders, PaidLike
    <2>2. QED BY <1>4, <2>1, FS_Subset DEF PaidOrders
<1>6. ASSUME NEW o \in S
      PROVE  /\ orders[o].amount \in Int /\ orders[o].fee \in Int
             /\ orders[o].fee = CalculateFee(orders[o].amount)
    <2>1. o \in Orders /\ orders[o].settlement # NoDay
        BY <1>2, <1>3 DEF PaidOrders, Settled
    <2>2. orders[o].fee # NoFee /\ orders[o] \in OrderRow
        BY <1>1, <2>1 DEF BooksInv, RowOK, DbTypeOK
    <2>3. QED BY <2>1, <2>2 DEF OrderRow, FeesOK, FeeOK
<1>7. amounts \in [S -> Int] /\ fees \in [S -> Int] /\ \A o \in S : nets[o] = amounts[o] - fees[o]
    BY <1>6
<1>8. IsTotal(row.gross, amounts, S) /\ IsTotal(row.fees, fees, S) /\ row.payout = row.gross - row.fees
    BY <1>3, <1>4 DEF DayOK
<1>9. IsTotal(total, nets, S)
    BY <1>1, <1>5, PaidSumIsTotal
<1> HIDE DEF amounts, fees, nets, total, row, S
<1>10. IsTotal(row.gross - row.fees, nets, S)
    BY <1>7, <1>8, TotalOfDifference
<1>11. total = row.payout
    BY <1>5, <1>8, <1>9, <1>10, TotalIsUnique
<1>12. QED BY <1>2, <1>11 DEF total, S, PaidOrders

\* A load test that passes has paid out every paid order (load-test.ts:4-8).
THEOREM PassedRunsPaidOut == ScriptsSpec => []WholeRunIsPaidOut
BY PaidOutInFull, ScriptInvariance, ScriptsServe, SettledInvariance, FeesInvariance, PTL

\* Every order balances, so the trial balance does.
LEMMA BalancesAreZero ==
    ASSUME IInv, BooksInv, NEW o \in Orders
    PROVE  Balance(ledger[o]) = 0
<1>1. ledger[o] = ExpectedNets(o) /\ orders[o] \in OrderRow
    BY DEF BooksInv, LedgerMatchesReadModel, IInv, TypeOK, DbTypeOK
<1>2. orders[o].amount \in Int /\ FeeTaken(o) \in Int
    BY <1>1 DEF OrderRow, FeeTaken, NoFee
<1>3. QED BY <1>1, <1>2 DEF ExpectedNets, Balance, PaidLike, NoEntries, Accounts

LEMMA TrialBalanceIsZero ==
    ASSUME IInv, BooksInv, IsFiniteSet(Orders)
    PROVE  MapThenSumSet(LAMBDA o : Balance(ledger[o]), Orders) = 0
<1> DEFINE net(o) == Balance(ledger[o])
           G == CHOOSE g : g = [s \in SUBSET Orders |->
                    IF s = {} THEN 0
                    ELSE net(CHOOSE x \in s : TRUE) + g[s \ {CHOOSE x \in s : TRUE}]]
           zero == [s \in SUBSET Orders |-> 0]
           f == [o \in Orders |-> 0]
<1>1. MapThenSumSet(LAMBDA o : Balance(ledger[o]), Orders) = G[Orders]
    BY DEF MapThenSumSet, MapThenFoldSet
<1>2. \A s \in SUBSET Orders : s # {} =>
        (CHOOSE x \in s : TRUE) \in Orders /\ net(CHOOSE x \in s : TRUE) = 0
    BY BalancesAreZero
<1>3. zero = [s \in SUBSET Orders |->
                 IF s = {} THEN 0
                 ELSE net(CHOOSE x \in s : TRUE) + zero[s \ {CHOOSE x \in s : TRUE}]]
    <2> HIDE DEF net, G
    <2>1. \A s \in SUBSET Orders : s # {} =>
            net(CHOOSE x \in s : TRUE) + zero[s \ {CHOOSE x \in s : TRUE}] = 0
        BY <1>2
    <2>2. QED BY <2>1
<1>4. G = [s \in SUBSET Orders |->
              IF s = {} THEN 0
              ELSE net(CHOOSE x \in s : TRUE) + G[s \ {CHOOSE x \in s : TRUE}]]
    <2> HIDE DEF net, zero
    <2>1. QED BY <1>3
<1> HIDE DEF G
<1>5. SumsByChoice(G, f, Orders)
    <2> HIDE DEF net
    <2>1. QED BY <1>2, <1>4 DEF SumsByChoice
<1>6. IsTotal(G[Orders], f, Orders)
    <2>1. f \in [Orders -> Int]
        OBVIOUS
    <2> HIDE DEF f
    <2>2. QED BY <1>5, <2>1, SumByChoiceIsAdditive DEF IsTotal
<1>7. IsTotal(0, f, Orders)
    <2>1. Additive(zero, f, Orders) /\ zero[Orders] = 0
        BY DEF Additive
    <2> HIDE DEF zero, f
    <2>2. QED BY <2>1 DEF IsTotal
<1>8. G[Orders] = 0
    <2> HIDE DEF f
    <2>1. QED BY <1>6, <1>7, TotalIsUnique
<1>9. QED BY <1>1, <1>8

\* Once the load test has come to its verification of the books, it passes: the
\* trial balance and the balance of every order are zero (load-test.ts).
THEOREM VerificationPasses ==
    IsFiniteSet(Orders) =>
        (ScriptsSpec => [][phase = "verify" /\ phase' # phase => phase' = "PASS"]_ScriptVars)
<1> SUFFICES ASSUME IsFiniteSet(Orders)
             PROVE  ScriptsSpec => [][phase = "verify" /\ phase' # phase => phase' = "PASS"]_ScriptVars
    OBVIOUS
<1>1. ASSUME ServiceOK, [ScriptsNext]_ScriptVars, phase = "verify", phase' # phase
      PROVE  phase' = "PASS"
    <2>1. Verify
        BY <1>1 DEF ScriptsNext, Untested, Loading, LNext, ClientStep, ScriptVars, testVars, TakeJob,
                    JobDone, EndPhase, AskSettlement, SettlementAnswered, ServeSettlement, Midnight
    <2>2. IInv /\ BooksInv
        BY <1>1 DEF ServiceOK
    <2>3. QED BY <2>1, <2>2, BalancesAreZero, TrialBalanceIsZero DEF Verify
<1>2. QED BY <1>1, ScriptInvariance, PTL DEF ScriptsSpec
=============================================================================
