----------------------------- MODULE BooksProofs -----------------------------
(***************************************************************************)
(* The books: the ledger agrees with the read model, and the settlements add *)
(* up, for any number of orders, workers and settlers.                      *)
(*                                                                         *)
(* The argument.  A mutation posts amounts it took from its request or from  *)
(* the row it read, and a settlement from the lines it selected; the row may *)
(* have changed since.  For a mutation the version guard decides: the row    *)
(* it overwrites is the row it read (SeenOK), up to the settlement column,   *)
(* which moves without the version and which the refund guards by the row    *)
(* lock it holds until it commits (HeldOK, LockOK).  For a settlement the    *)
(* columns it reads never change again once they are set (LinesOK), except   *)
(* status and settlement, which its UPDATE checks under the lock (LockOK).   *)
(***************************************************************************)
EXTENDS SellerLedgerProofs, WellFoundedInduction, FiniteSetTheorems

\* A set of naturals has a smallest element.
LEMMA SmallestNat ==
    ASSUME NEW S \in SUBSET Nat, S # {}
    PROVE  \E n \in S : \A m \in S : n <= m
<1>1. \E n \in S : \A m \in S : <<m, n>> \notin OpToRel(<, Nat)
    BY NatLessThanWellFounded, WFMin
<1>2. \A m, n \in Nat : m < n => <<m, n>> \in OpToRel(<, Nat)
    BY DEF OpToRel
<1>3. PICK n \in S : \A m \in S : <<m, n>> \notin OpToRel(<, Nat)
    BY <1>1
<1>4. ASSUME NEW m \in S PROVE n <= m
    <2>1. m \in Nat /\ n \in Nat /\ ~(m < n)
        BY <1>2, <1>3
    <2>2. QED BY <2>1
<1>5. QED BY <1>4

(***************************************************************************)
(* The inductive invariant, on top of IInv.                                 *)
(***************************************************************************)

\* The event a transaction has inserted is still the one its call describes.
EventFixed(w) ==
    pc[w] \in {"update", "commit"} =>
        /\ pending[w].key = EventKey(w)
        /\ pending[w].amount = PayloadAmount(w)
        /\ pending[w].party = PayloadParty(w)
        /\ pending[w].lines = {}
        /\ IF step[w] = "PaymentConfirmed" THEN pending[w].day \in 1..today
                                           ELSE pending[w].day = NoDay

\* What it has read is what it is going to overwrite, unless the version moved.
SeenOK(w) ==
    pc[w] \in Writing =>
        /\ seen[w].version = orders[target[w]].version =>
             seen[w].amount = orders[target[w]].amount /\ seen[w].fee = orders[target[w]].fee
        /\ step[w] \in {"PaymentConfirmed", "FeeCalculated"} => seen[w].amount = call[w].amount
        /\ step[w] = "FeeCalculated" => seen[w].fee = NoFee

\* The postings it has inserted passed the constraints of ledger_entry.
PostedOK(w) ==
    pc[w] \in {"update", "commit"} => PostingsValid(step[w], PostedAmount(w), PostedFee(w))

\* A refund that holds the lock of its order refunds an unsettled order.
HeldOK(w) == pc[w] = "commit" /\ step[w] = "OrderRefunded" => orders[target[w]].settlement = NoDay

\* Which columns are set in which status.
RowOK(o) ==
    LET row == orders[o]
    IN  /\ row.status = "NONE" => row = NoRow
        /\ row.status # "NONE" => row.amount > 0
        /\ row.fee # NoFee => row.status \in {"PAID", "SHIPPED", "DELIVERED", "REFUNDED"}
        /\ row.paidDay # NoDay <=> row.status \in {"PAID", "SHIPPED", "DELIVERED", "REFUNDED"}
        /\ row.paidDay <= today
        /\ row.settlement # NoDay =>
             PaidLike(o) /\ row.fee # NoFee /\ row.paidDay <= row.settlement

\* A row is locked by the mutation that is about to commit it, or by a
\* settlement that names it and found it unsettled.
LockOK(o) ==
    /\ \A w \in Workers : locks[o] = w <=> pc[w] = "commit" /\ target[w] = o
    /\ \A s \in Settlers : locks[o] = s =>
         spc[s] = "mark" /\ o \in LineIds(s) /\ StillSettleable(orders[o])

\* The lines of a settlement still are what the rows say.
LinesOK(s) ==
    /\ spc[s] \in {"insert", "mark"} =>
         \A l \in lines[s] :
           /\ l.amount = orders[l.order].amount /\ l.fee = orders[l.order].fee
           /\ orders[l.order].paidDay # NoDay /\ orders[l.order].paidDay <= scall[s].day
    /\ spc[s] = "mark" => todo[s] \subseteq LineIds(s)

BooksInv ==
    /\ \A w \in Workers : EventFixed(w) /\ SeenOK(w) /\ PostedOK(w) /\ HeldOK(w)
    /\ \A o \in Orders : RowOK(o) /\ LockOK(o)
    /\ \A s \in Settlers : LinesOK(s)
    /\ LedgerMatchesReadModel

(***************************************************************************)
(* The shapes of a step.  A worker either leaves its transaction, or makes   *)
(* one of the four statements in it, or publishes; whatever it does, nothing *)
(* of another actor moves.                                                  *)
(***************************************************************************)

\* Nothing is published, and nothing that belongs to another actor moves.
WorkerQuiet(w) ==
    /\ UNCHANGED <<committedVars, today, settleVars>>
    /\ OnlyWorker(w)
    /\ \A t \in Tx \ {w} : pending'[t] = pending[t]
    /\ \A o \in Orders, t \in Tx \ {w} : locks'[o] = t <=> locks[o] = t

\* It holds no row and is in no transaction.
Outside(w) ==
    /\ pc'[w] \notin Writing
    /\ \A o \in Orders : locks'[o] # w

\* The statements of a transaction that go well.
Reads(w) ==
    /\ pc[w] = "read" /\ pc'[w] \in {"latest", "insert"}
    /\ target'[w] \in Orders /\ call[w].order \in {target'[w], AnyOrder}
    /\ Rejection(w, orders[target'[w]]) = "none"
    /\ seen'[w] = orders[target'[w]]
    /\ UNCHANGED <<pending, locks, call, step, charges>>

Numbers(w) ==
    /\ pc[w] = "latest" /\ pc'[w] = "insert"
    /\ UNCHANGED <<pending, locks, call, step, target, seen, charges>>

Inserts(w) ==
    /\ pc[w] = "insert" /\ pc'[w] = "update"
    /\ pending'[w] = EventOf(w)
    /\ PostingsValid(step[w], PostedAmount(w), PostedFee(w))
    /\ UNCHANGED <<locks, call, step, target, seen, nextVersion, charges>>

Updates(w) ==
    /\ pc[w] = "update" /\ pc'[w] = "commit"
    /\ UpdateGuard(w, orders[target[w]])
    /\ locks[target[w]] = NoTx
    /\ locks' = [locks EXCEPT ![target[w]] = w]
    /\ UNCHANGED <<pending, call, step, target, seen, nextVersion, charges>>

Publishes(w) ==
    /\ pc[w] = "commit"
    /\ Publish(w)
    /\ OnlyWorker(w)
    /\ pc'[w] \notin Writing
    /\ UNCHANGED settleVars

\* A transaction that ends keeps no row.
LEMMA EndTransactionLocks ==
    ASSUME DbTypeOK, NEW t \in Tx, EndTransaction(t)
    PROVE  \A o \in Orders : /\ locks'[o] # t
                             /\ \A u \in Tx \ {t} : locks'[o] = u <=> locks[o] = u
BY DatabaseAssumption DEF EndTransaction, DbTypeOK

LEMMA ThrowShape ==
    ASSUME IInv, NEW w \in Workers, pc[w] # "idle", NEW code, Throw(w, code), UNCHANGED settleVars
    PROVE  WorkerQuiet(w) /\ Outside(w)
<1>1. TypeOK /\ w \in Tx
    BY DEF IInv, Tx
<1>2. /\ \A u \in Tx \ {w} : pending'[u] = pending[u]
      /\ \A o \in Orders : locks'[o] # w /\ \A u \in Tx \ {w} : locks'[o] = u <=> locks[o] = u
    BY <1>1, EndTransactionType, EndTransactionLocks DEF Throw, TypeOK
<1>3. OnlyWorker(w) /\ pc'[w] = "recheck"
    BY <1>1 DEF Throw, Goto, ForgetTransaction, OnlyWorker, TypeOK, OrderTypeOK
<1>4. QED BY <1>2, <1>3 DEF Throw, WorkerQuiet, Outside, Writing

\* Outside a transaction a worker holds no row.
LEMMA ControlShape ==
    ASSUME IInv, BooksInv, NEW w \in Workers, pc[w] # "commit", UNCHANGED <<dbVars, settleVars>>,
           OnlyWorker(w), pc'[w] \notin Writing
    PROVE  WorkerQuiet(w) /\ Outside(w)
<1>1. \A o \in Orders : locks[o] # w
    BY DEF BooksInv, LockOK
<1>2. QED BY <1>1 DEF WorkerQuiet, Outside, dbVars, committedVars

LEMMA ContinueShape ==
    ASSUME IInv, NEW w \in Workers, pc[w] # "idle", Continue(w)
    PROVE  OnlyWorker(w) /\ pc'[w] \notin Writing
BY ContinueLocal DEF Writing

LEMMA WorkerShapes ==
    ASSUME IInv, BooksInv, NEW w \in Workers, WorkerStep(w)
    PROVE  \/ WorkerQuiet(w) /\ \/ Outside(w) \/ Reads(w) \/ Numbers(w)
                                \/ Inserts(w) \/ Updates(w)
           \/ Publishes(w)
<1>1. /\ TypeOK /\ OrderTypeOK /\ CallOK(w) /\ ReadOK(w) /\ UNCHANGED settleVars
      /\ WorkerNext(w)
    BY DEF IInv, TypeOK, WorkerStep
<1>2. CASE \E code : pc[w] # "idle" /\ Throw(w, code)
    BY <1>1, <1>2, ThrowShape
<1>3. CASE Start(w) \/ FindOrder(w) \/ QueryFails(w) \/ Charge(w) \/ Finish(w)
    <2>1. /\ pc[w] # "commit" /\ UNCHANGED dbVars
          /\ pc'[w] \in {"idle", "find", "lookup", "reply"}
          /\ OnlyWorker(w)
        BY <1>1, <1>3
           DEF Start, FindOrder, QueryFails, Charge, Finish, Reset, Reply, Goto, OnlyWorker,
               OrderTypeOK
    <2>2. QED BY <1>1, <2>1, ControlShape DEF Writing
<1>4. CASE Lookup(w) \/ Recheck(w)
    <2>1. pc[w] \in {"lookup", "recheck"} /\ UNCHANGED dbVars
        BY <1>4 DEF Lookup, Recheck
    <2>2. CASE Continue(w)
        BY <1>1, <2>1, <2>2, ContinueShape, ControlShape
    <2>3. CASE ~Continue(w)
        <3>1. OnlyWorker(w) /\ pc'[w] \in {"read", "reply"}
            BY <1>1, <1>4, <2>3 DEF Lookup, Recheck, ReplayOr, Reply, Goto, OnlyWorker, OrderTypeOK
        <3>2. QED BY <1>1, <2>1, <3>1, ControlShape DEF Writing
    <2>4. QED BY <2>2, <2>3
<1>5. CASE Crash(w)
    <2>1. /\ \A u \in Tx \ {w} : pending'[u] = pending[u]
          /\ \A o \in Orders : locks'[o] # w /\ \A u \in Tx \ {w} : locks'[o] = u <=> locks[o] = u
        BY <1>1, <1>5, EndTransactionType, EndTransactionLocks DEF Crash, TypeOK, Tx
    <2>2. OnlyWorker(w) /\ pc'[w] = "idle"
        BY <1>5, ResetLocal DEF Crash
    <2>3. QED BY <1>1, <1>5, <2>1, <2>2 DEF Crash, WorkerQuiet, Outside, Writing
<1>6. CASE ReadOrder(w) /\ ~\E code : Throw(w, code)
    <2>1. PICK o \in IF call[w].order = AnyOrder THEN FreshIds ELSE {call[w].order} :
              /\ Rejection(w, orders[o]) = "none"
              /\ target' = [target EXCEPT ![w] = o]
              /\ seen' = [seen EXCEPT ![w] = orders[o]]
              /\ IF step[w] = "OrderCreated"
                 THEN Goto(w, "insert") /\ nextVersion' = [nextVersion EXCEPT ![w] = 1]
                 ELSE Goto(w, "latest") /\ UNCHANGED nextVersion
              /\ UNCHANGED <<dbVars, call, step, outcome, charges>>
        BY <1>6 DEF ReadOrder
    <2>2. o \in Orders /\ pc[w] = "read" /\ call[w].order \in {o, AnyOrder}
        BY <1>1, <1>6, <2>1, CallType, OrderServiceAssumption DEF FreshIds, ReadOrder
    <2>3. pc'[w] \in {"latest", "insert"} /\ target'[w] = o /\ seen'[w] = orders[o]
        BY <1>1, <2>1 DEF Goto, OrderTypeOK
    <2>4. OnlyWorker(w)
        BY <1>1, <2>1 DEF Goto, OnlyWorker, OrderTypeOK
    <2>5. QED BY <1>1, <2>1, <2>2, <2>3, <2>4 DEF WorkerQuiet, Reads, dbVars, committedVars
<1>7. CASE ReadLatest(w)
    <2>1. OnlyWorker(w) /\ pc[w] = "latest" /\ pc'[w] = "insert"
        BY <1>1, <1>7 DEF ReadLatest, Goto, OnlyWorker, OrderTypeOK
    <2>2. QED BY <1>1, <1>7, <2>1 DEF ReadLatest, WorkerQuiet, Numbers, dbVars, committedVars
<1>8. CASE InsertEvent(w) /\ ~\E code : Throw(w, code)
    <2>1. /\ pc[w] = "insert"
          /\ pending' = [pending EXCEPT ![w] = EventOf(w)]
          /\ PostingsValid(step[w], PostedAmount(w), PostedFee(w))
          /\ Goto(w, "update")
          /\ UNCHANGED <<committedVars, locks, today, call, step, target, seen,
                         nextVersion, outcome, charges>>
        BY <1>8 DEF InsertEvent, InsertEventRow
    <2>2. OnlyWorker(w) /\ pc'[w] = "update"
        BY <1>1, <2>1 DEF Goto, OnlyWorker, OrderTypeOK
    <2>3. pending'[w] = EventOf(w) /\ \A t \in Tx \ {w} : pending'[t] = pending[t]
        BY <1>1, <2>1 DEF TypeOK, DbTypeOK, Tx
    <2>4. QED BY <1>1, <2>1, <2>2, <2>3 DEF WorkerQuiet, Inserts
<1>9. CASE UpdateOrder(w) /\ ~\E code : Throw(w, code)
    <2>1. /\ pc[w] = "update" /\ UpdateGuard(w, orders[target[w]]) /\ locks[target[w]] = NoTx
          /\ locks' = [locks EXCEPT ![target[w]] = w]
          /\ Goto(w, "commit")
          /\ UNCHANGED <<committedVars, pending, today, call, step, target, seen,
                         nextVersion, outcome, charges>>
        BY <1>9 DEF UpdateOrder, RowIsFree, LockRow
    <2>2. OnlyWorker(w) /\ pc'[w] = "commit"
        BY <1>1, <2>1 DEF Goto, OnlyWorker, OrderTypeOK
    <2>3. \A o \in Orders, t \in Tx \ {w} : locks'[o] = t <=> locks[o] = t
        BY <1>1, <2>1, DatabaseAssumption DEF TypeOK, DbTypeOK
    <2>4. QED BY <1>1, <2>1, <2>2, <2>3 DEF WorkerQuiet, Updates
<1>10. CASE Commit(w)
    BY <1>1, <1>10, ContinueShape DEF Commit, Publishes
<1>11. CASE CommitAckLost(w)
    BY <1>1, <1>11
       DEF CommitAckLost, Goto, ForgetTransaction, OnlyWorker, OrderTypeOK, Publishes, Writing
<1>12. CASE \E code : Throw(w, code) /\ (ReadOrder(w) \/ InsertEvent(w) \/ UpdateOrder(w) \/ Abort(w))
    BY <1>2, <1>12 DEF ReadOrder, InsertEvent, UpdateOrder, Abort, InTransaction
<1>13. QED
    BY <1>1, <1>3, <1>4, <1>5, <1>6, <1>7, <1>8, <1>9, <1>10, <1>11, <1>12
       DEF WorkerNext, Progress, Failure, Abort

(***************************************************************************)
(* The shapes of a settler's step.                                          *)
(***************************************************************************)
OtherSettlers(s) ==
    \A r \in Settlers \ {s} :
        spc'[r] = spc[r] /\ scall'[r] = scall[r] /\ lines'[r] = lines[r] /\ todo'[r] = todo[r]

SettlerQuiet(s) ==
    /\ UNCHANGED <<committedVars, today, orderVars>>
    /\ OtherSettlers(s)
    /\ \A t \in Tx \ {s} : pending'[t] = pending[t]
    /\ \A o \in Orders, t \in Tx \ {s} : locks'[o] = t <=> locks[o] = t

SettlerOutside(s) ==
    /\ spc'[s] \notin {"insert", "mark"}
    /\ \A o \in Orders : locks'[o] # s

Selects(s) ==
    /\ spc[s] = "select" /\ spc'[s] = "insert"
    /\ lines'[s] = {[order |-> o, amount |-> orders[o].amount, fee |-> orders[o].fee] :
                      o \in {x \in Orders : Eligible(x, scall[s].day)}}
    /\ UNCHANGED <<pending, locks, scall>>

InsertsSettlement(s) ==
    /\ spc[s] = "insert" /\ spc'[s] = "mark"
    /\ todo'[s] = LineIds(s)
    /\ UNCHANGED <<locks, scall, lines>>

Marks(s, o) ==
    /\ spc[s] = "mark" /\ o \in todo[s]
    /\ todo'[s] = todo[s] \ {o}
    /\ \/ /\ StillSettleable(orders[o]) /\ locks[o] = NoTx
          /\ locks' = [locks EXCEPT ![o] = s]
       \/ ~StillSettleable(orders[o]) /\ UNCHANGED locks
    /\ UNCHANGED <<pending, spc, scall, lines>>

PublishesSettlement(s) ==
    /\ spc[s] = "mark"
    /\ AllLinesMarked(s)
    /\ PublishSettlement(s)
    /\ OtherSettlers(s)
    /\ spc'[s] \notin {"insert", "mark"}
    /\ UNCHANGED <<scall, orderVars>>

LEMMA SettleThrowShape ==
    ASSUME IInv, NEW s \in Settlers, NEW code, SettleThrow(s, code), UNCHANGED orderVars
    PROVE  SettlerQuiet(s) /\ SettlerOutside(s)
<1>1. TypeOK /\ s \in Tx
    BY DEF IInv, Tx
<1>2. /\ \A u \in Tx \ {s} : pending'[u] = pending[u]
      /\ \A o \in Orders : locks'[o] # s /\ \A u \in Tx \ {s} : locks'[o] = u <=> locks[o] = u
    BY <1>1, EndTransactionType, EndTransactionLocks DEF SettleThrow, TypeOK
<1>3. OtherSettlers(s) /\ spc'[s] = "recheck"
    BY <1>1 DEF SettleThrow, SettleGoto, ForgetSettlement, OtherSettlers, TypeOK, SettlementTypeOK
<1>4. QED BY <1>2, <1>3 DEF SettleThrow, SettlerQuiet, SettlerOutside

LEMMA SettlerShapes ==
    ASSUME IInv, BooksInv, NEW s \in Settlers, SettlerStep(s)
    PROVE  \/ SettlerQuiet(s) /\ \/ SettlerOutside(s) \/ Selects(s) \/ InsertsSettlement(s)
                                 \/ \E o \in Orders : Marks(s, o)
           \/ PublishesSettlement(s)
<1>1. /\ TypeOK /\ SettlementTypeOK /\ UNCHANGED orderVars /\ SettlerNext(s) /\ s \in Tx
      /\ \A o \in Orders : locks[o] = s => spc[s] = "mark"
    BY DEF IInv, TypeOK, SettlerStep, Tx, BooksInv, LockOK
<1>2. CASE \E code : SettleThrow(s, code)
    BY <1>1, <1>2, SettleThrowShape
<1>3. CASE \/ StartSettle(s) \/ FindSettlement(s) \/ RecheckSettlement(s)
           \/ SettleQueryFails(s) \/ FinishSettle(s)
    <2>1. /\ spc[s] # "mark" /\ spc'[s] \notin {"insert", "mark"} /\ OtherSettlers(s)
          /\ UNCHANGED dbVars
        BY <1>1, <1>3
           DEF StartSettle, FindSettlement, RecheckSettlement, SettleQueryFails, FinishSettle,
               ResetSettler, ForgetSettlement, SettleReply, SettleGoto, OtherSettlers, SettlementTypeOK
    <2>2. QED BY <1>1, <2>1 DEF SettlerQuiet, SettlerOutside, dbVars, committedVars
<1>4. CASE SelectEligible(s)
    <2>1. OtherSettlers(s) /\ UNCHANGED dbVars
        BY <1>1, <1>4 DEF SelectEligible, SettleGoto, OtherSettlers, SettlementTypeOK
    <2>2. Selects(s)
        BY <1>1, <1>4 DEF SelectEligible, SettleGoto, Selects, SettlementTypeOK, dbVars
    <2>3. QED BY <1>1, <2>1, <2>2 DEF SettlerQuiet, dbVars, committedVars
<1>5. CASE InsertSettlement(s) /\ ~\E code : SettleThrow(s, code)
    <2>1. /\ spc[s] = "insert"
          /\ pending' = [pending EXCEPT ![s] = SettlementEvent(s)]
          /\ todo' = [todo EXCEPT ![s] = LineIds(s)]
          /\ spc' = [spc EXCEPT ![s] = "mark"]
          /\ UNCHANGED <<committedVars, locks, today, scall, lines, result>>
        BY <1>5 DEF InsertSettlement, InsertEventRow, SettleGoto
    <2>2. OtherSettlers(s) /\ InsertsSettlement(s)
        BY <1>1, <2>1 DEF OtherSettlers, InsertsSettlement, SettlementTypeOK
    <2>3. \A t \in Tx \ {s} : pending'[t] = pending[t]
        BY <1>1, <2>1 DEF TypeOK, DbTypeOK
    <2>4. QED BY <1>1, <2>1, <2>2, <2>3 DEF SettlerQuiet
<1>6. ASSUME NEW o \in Orders, MarkOrder(s, o) PROVE SettlerQuiet(s) /\ Marks(s, o)
    <2>1. OtherSettlers(s) /\ Marks(s, o)
        BY <1>1, <1>6 DEF MarkOrder, LockRow, RowIsFree, OtherSettlers, Marks, SettlementTypeOK
    <2>2. \A x \in Orders, t \in Tx \ {s} : locks'[x] = t <=> locks[x] = t
        BY <1>1, <2>1, DatabaseAssumption DEF Marks, TypeOK, DbTypeOK
    <2>3. QED BY <1>1, <1>6, <2>1, <2>2 DEF MarkOrder, SettlerQuiet
<1>7. CASE \/ CommitSettlement(s) /\ ~\E code : SettleThrow(s, code)
           \/ SettleAckLost(s)
    <2>1. /\ spc[s] = "mark" /\ AllLinesMarked(s) /\ PublishSettlement(s) /\ ForgetSettlement(s)
          /\ scall' = scall /\ \E point \in {"reply", "recheck"} : spc' = [spc EXCEPT ![s] = point]
        BY <1>7 DEF CommitSettlement, SettleAckLost, SettleReply, SettleGoto
    <2>2. OtherSettlers(s) /\ spc'[s] \notin {"insert", "mark"}
        BY <1>1, <2>1 DEF ForgetSettlement, OtherSettlers, SettlementTypeOK
    <2>3. QED BY <1>1, <2>1, <2>2 DEF PublishesSettlement
<1>8. CASE CrashSettler(s)
    <2>1. /\ \A u \in Tx \ {s} : pending'[u] = pending[u]
          /\ \A o \in Orders : locks'[o] # s /\ \A u \in Tx \ {s} : locks'[o] = u <=> locks[o] = u
        BY <1>1, <1>8, EndTransactionType, EndTransactionLocks DEF CrashSettler, TypeOK
    <2>2. OtherSettlers(s) /\ spc'[s] = "idle"
        BY <1>1, <1>8
           DEF CrashSettler, ResetSettler, SettleGoto, ForgetSettlement, OtherSettlers, SettlementTypeOK
    <2>3. QED BY <1>1, <1>8, <2>1, <2>2 DEF CrashSettler, SettlerQuiet, SettlerOutside
<1>9. QED
    BY <1>1, <1>2, <1>3, <1>4, <1>5, <1>6, <1>7, <1>8
       DEF SettlerNext, SettleProgress, SettleFailure, DeadlockVictim, AbortSettlement

(***************************************************************************)
(* The steps that publish nothing.                                          *)
(***************************************************************************)
LEMMA BooksInit == Init => BooksInv
<1> SUFFICES ASSUME Init PROVE BooksInv
    OBVIOUS
<1>1. ASSUME NEW w \in Workers PROVE EventFixed(w) /\ SeenOK(w) /\ PostedOK(w) /\ HeldOK(w)
    BY DEF Init, OrderInit, EventFixed, SeenOK, PostedOK, HeldOK, Writing
<1>2. ASSUME NEW o \in Orders PROVE RowOK(o) /\ LockOK(o)
    <2>1. RowOK(o)
        BY DEF Init, DbInit, RowOK, NoRow, NoFee, NoDay
    <2>2. LockOK(o)
        BY DatabaseAssumption DEF Init, DbInit, OrderInit, LockOK, Tx
    <2>3. QED BY <2>1, <2>2
<1>3. ASSUME NEW s \in Settlers PROVE LinesOK(s)
    BY DEF Init, SettlementInit, LinesOK
<1>4. LedgerMatchesReadModel
    BY DEF Init, DbInit, LedgerMatchesReadModel, ExpectedNets, PaidLike, NoRow
<1>5. QED BY <1>1, <1>2, <1>3, <1>4 DEF BooksInv

LEMMA BooksWorkerFrame ==
    ASSUME IInv, BooksInv, NEW w \in Workers, WorkerQuiet(w),
           EventFixed(w)', SeenOK(w)', PostedOK(w)', HeldOK(w)',
           \A o \in Orders : locks'[o] = w <=> pc'[w] = "commit" /\ target'[w] = o
    PROVE  BooksInv'
<1> USE DEF WorkerQuiet, committedVars
<1>1. ASSUME NEW u \in Workers PROVE EventFixed(u)' /\ SeenOK(u)' /\ PostedOK(u)' /\ HeldOK(u)'
    <2>1. CASE u = w
        BY <2>1
    <2>2. CASE u # w
        <3>1. /\ EventFixed(u) /\ SeenOK(u) /\ PostedOK(u) /\ HeldOK(u) /\ u \in Tx
              /\ pc'[u] = pc[u] /\ call'[u] = call[u] /\ step'[u] = step[u]
              /\ target'[u] = target[u] /\ seen'[u] = seen[u] /\ pending'[u] = pending[u]
            BY <2>2 DEF BooksInv, OnlyWorker, Tx
        <3>2. EventFixed(u)'
            BY <3>1 DEF EventFixed, EventKey, PayloadAmount, PayloadParty
        <3>3. SeenOK(u)' /\ HeldOK(u)'
            BY <3>1 DEF SeenOK, HeldOK
        <3>4. PostedOK(u)'
            BY <3>1 DEF PostedOK, PostedAmount, PostedFee
        <3>5. QED BY <3>2, <3>3, <3>4
    <2>3. QED BY <2>1, <2>2
<1>2. ASSUME NEW o \in Orders PROVE RowOK(o)' /\ LockOK(o)'
    <2>1. RowOK(o)'
        BY DEF BooksInv, RowOK, PaidLike
    <2>2. LockOK(o) /\ \A s \in Settlers : s \in Tx /\ s # w
        BY DatabaseAssumption DEF BooksInv, Tx
    <2>3. \A s \in Settlers : (locks'[o] = s <=> locks[o] = s) /\ LineIds(s)' = LineIds(s)
        BY <2>2 DEF settleVars, LineIds
    <2>4. \A u \in Workers \ {w} : /\ locks'[o] = u <=> locks[o] = u
                                   /\ pc'[u] = pc[u] /\ target'[u] = target[u]
        BY DEF OnlyWorker, Tx
    <2>5. LockOK(o)'
        BY <2>2, <2>3, <2>4 DEF LockOK, settleVars
    <2>6. QED BY <2>1, <2>5
<1>3. \A s \in Settlers : LinesOK(s)'
    BY DEF BooksInv, LinesOK, LineIds, settleVars
<1>4. LedgerMatchesReadModel'
    BY DEF BooksInv, LedgerMatchesReadModel, ExpectedNets, FeeTaken, PaidLike
<1>5. QED BY <1>1, <1>2, <1>3, <1>4 DEF BooksInv

LEMMA BooksWorkerQuiet ==
    ASSUME IInv, BooksInv, NEW w \in Workers, WorkerQuiet(w),
           Outside(w) \/ Reads(w) \/ Numbers(w) \/ Inserts(w) \/ Updates(w)
    PROVE  BooksInv'
<1>1. /\ EventFixed(w) /\ SeenOK(w) /\ PostedOK(w) /\ HeldOK(w)
      /\ \A o \in Orders : locks[o] = w <=> pc[w] = "commit" /\ target[w] = o
      /\ OrderTypeOK /\ DbTypeOK
    BY DEF BooksInv, LockOK, IInv, TypeOK
<1>2. UNCHANGED <<orders, today>>
    BY DEF WorkerQuiet, committedVars
<1>3. CASE Outside(w)
    BY <1>3, BooksWorkerFrame DEF Outside, EventFixed, SeenOK, PostedOK, HeldOK, Writing
<1>4. CASE Reads(w)
    <2>1. SeenOK(w)'
        BY <1>2, <1>4 DEF Reads, SeenOK, Rejection
    <2>2. EventFixed(w)' /\ PostedOK(w)' /\ HeldOK(w)'
        BY <1>4 DEF Reads, EventFixed, PostedOK, HeldOK
    <2>3. \A o \in Orders : locks'[o] = w <=> pc'[w] = "commit" /\ target'[w] = o
        BY <1>1, <1>4 DEF Reads
    <2>4. QED BY <2>1, <2>2, <2>3, BooksWorkerFrame
<1>5. CASE Numbers(w)
    <2>1. EventFixed(w)' /\ SeenOK(w)' /\ PostedOK(w)' /\ HeldOK(w)'
        BY <1>1, <1>2, <1>5 DEF Numbers, EventFixed, SeenOK, PostedOK, HeldOK, Writing
    <2>2. \A o \in Orders : locks'[o] = w <=> pc'[w] = "commit" /\ target'[w] = o
        BY <1>1, <1>5 DEF Numbers
    <2>3. QED BY <2>1, <2>2, BooksWorkerFrame
<1>6. CASE Inserts(w)
    <2>1. today \in 1..today
        BY <1>1, DatabaseAssumption DEF DbTypeOK, Days
    <2>2. EventFixed(w)'
        BY <1>2, <1>6, <2>1
           DEF Inserts, EventFixed, EventOf, EventKey, PayloadAmount, PayloadParty
    <2>3. SeenOK(w)' /\ HeldOK(w)'
        BY <1>1, <1>2, <1>6 DEF Inserts, SeenOK, HeldOK, Writing
    <2>4. PostedOK(w)'
        BY <1>6 DEF Inserts, PostedOK, PostedAmount, PostedFee
    <2>5. \A o \in Orders : locks'[o] = w <=> pc'[w] = "commit" /\ target'[w] = o
        BY <1>1, <1>6 DEF Inserts
    <2>6. QED BY <2>2, <2>3, <2>4, <2>5, BooksWorkerFrame
<1>7. CASE Updates(w)
    <2>1. EventFixed(w)'
        BY <1>1, <1>2, <1>7 DEF Updates, EventFixed, EventKey, PayloadAmount, PayloadParty
    <2>2. SeenOK(w)'
        BY <1>1, <1>2, <1>7 DEF Updates, SeenOK, Writing
    <2>3. PostedOK(w)'
        BY <1>1, <1>7 DEF Updates, PostedOK, PostedAmount, PostedFee
    <2>4. HeldOK(w)'
        BY <1>2, <1>7 DEF Updates, HeldOK, UpdateGuard
    <2>5. \A o \in Orders : locks'[o] = w <=> pc'[w] = "commit" /\ target'[w] = o
        BY <1>1, <1>7, DatabaseAssumption DEF Updates, DbTypeOK, Tx
    <2>6. QED BY <2>1, <2>2, <2>3, <2>4, <2>5, BooksWorkerFrame
<1>8. QED BY <1>3, <1>4, <1>5, <1>6, <1>7

LEMMA BooksSettlerFrame ==
    ASSUME IInv, BooksInv, NEW s \in Settlers, SettlerQuiet(s), LinesOK(s)',
           \A o \in Orders : locks'[o] = s =>
             spc'[s] = "mark" /\ o \in LineIds(s)' /\ StillSettleable(orders[o])
    PROVE  BooksInv'
<1> USE DEF SettlerQuiet, committedVars
<1>1. ASSUME NEW w \in Workers PROVE EventFixed(w)' /\ SeenOK(w)' /\ PostedOK(w)' /\ HeldOK(w)'
    <2>1. EventFixed(w) /\ SeenOK(w) /\ PostedOK(w) /\ HeldOK(w) /\ pending'[w] = pending[w]
        BY DatabaseAssumption DEF BooksInv, Tx
    <2>2. EventFixed(w)'
        BY <2>1 DEF EventFixed, EventKey, PayloadAmount, PayloadParty, orderVars, workVars
    <2>3. SeenOK(w)' /\ HeldOK(w)' /\ PostedOK(w)'
        BY <2>1 DEF SeenOK, HeldOK, PostedOK, PostedAmount, PostedFee, orderVars, workVars
    <2>4. QED BY <2>2, <2>3
<1>2. ASSUME NEW o \in Orders PROVE RowOK(o)' /\ LockOK(o)'
    <2>1. RowOK(o)'
        BY DEF BooksInv, RowOK, PaidLike
    <2>2. LockOK(o) /\ \A w \in Workers : w \in Tx /\ w # s
        BY DatabaseAssumption DEF BooksInv, Tx
    <2>3. \A w \in Workers : locks'[o] = w <=> pc'[w] = "commit" /\ target'[w] = o
        BY <2>2 DEF LockOK, orderVars, workVars
    <2>4. ASSUME NEW r \in Settlers, locks'[o] = r
          PROVE  spc'[r] = "mark" /\ o \in LineIds(r)' /\ StillSettleable(orders'[o])
        <3>1. CASE r = s
            BY <2>4, <3>1
        <3>2. CASE r # s
            <4>1. locks[o] = r /\ spc'[r] = spc[r] /\ LineIds(r)' = LineIds(r)
                BY <2>4, <3>2 DEF Tx, OtherSettlers, LineIds
            <4>2. QED BY <2>2, <4>1 DEF LockOK
        <3>3. QED BY <3>1, <3>2
    <2>5. QED BY <2>1, <2>3, <2>4 DEF LockOK, StillSettleable
<1>3. ASSUME NEW r \in Settlers PROVE LinesOK(r)'
    <2>1. CASE r = s
        BY <2>1
    <2>2. CASE r # s
        BY <2>2 DEF BooksInv, LinesOK, LineIds, OtherSettlers
    <2>3. QED BY <2>1, <2>2
<1>4. LedgerMatchesReadModel'
    BY DEF BooksInv, LedgerMatchesReadModel, ExpectedNets, FeeTaken, PaidLike
<1>5. QED BY <1>1, <1>2, <1>3, <1>4 DEF BooksInv

LEMMA BooksSettlerQuiet ==
    ASSUME IInv, BooksInv, NEW s \in Settlers, SettlerQuiet(s),
           \/ SettlerOutside(s) \/ Selects(s) \/ InsertsSettlement(s)
           \/ \E o \in Orders : Marks(s, o)
    PROVE  BooksInv'
<1>1. /\ LinesOK(s) /\ UNCHANGED <<orders, today>> /\ DbTypeOK
      /\ \A o \in Orders : locks[o] = s =>
           spc[s] = "mark" /\ o \in LineIds(s) /\ StillSettleable(orders[o])
    BY DEF BooksInv, LockOK, SettlerQuiet, committedVars, IInv, TypeOK
<1>2. CASE SettlerOutside(s)
    BY <1>1, <1>2, BooksSettlerFrame DEF SettlerOutside, LinesOK
<1>3. CASE Selects(s)
    <2>1. LinesOK(s)'
        BY <1>1, <1>3 DEF Selects, LinesOK, Eligible
    <2>2. QED BY <1>1, <1>3, <2>1, BooksSettlerFrame DEF Selects
<1>4. CASE InsertsSettlement(s)
    <2>1. LinesOK(s)'
        BY <1>1, <1>4 DEF InsertsSettlement, LinesOK, LineIds
    <2>2. QED BY <1>1, <1>4, <2>1, BooksSettlerFrame DEF InsertsSettlement
<1>5. ASSUME NEW o \in Orders, Marks(s, o) PROVE BooksInv'
    <2>1. LinesOK(s)' /\ LineIds(s)' = LineIds(s)
        BY <1>1, <1>5 DEF Marks, LinesOK, LineIds
    <2>2. o \in LineIds(s)
        BY <1>1, <1>5 DEF Marks, LinesOK
    <2>3. ASSUME NEW x \in Orders, locks'[x] = s
          PROVE  spc'[s] = "mark" /\ x \in LineIds(s)' /\ StillSettleable(orders[x])
        BY <1>1, <1>5, <2>1, <2>2, <2>3 DEF Marks, DbTypeOK
    <2>4. QED BY <2>1, <2>3, BooksSettlerFrame
<1>6. QED BY <1>2, <1>3, <1>4, <1>5

(***************************************************************************)
(* The commit of a mutation.                                                *)
(***************************************************************************)

\* What is known of the row a commit overwrites.
LEMMA CommitFacts ==
    ASSUME IInv, BooksInv, NEW w \in Workers, pc[w] = "commit"
    PROVE  /\ target[w] \in Orders /\ orders[target[w]] \in OrderRow
           /\ call[w] \in Call /\ call[w].amount \in Nat
           /\ pending[w] \in EventRow /\ pending[w] # NoEvent
           /\ pending[w].agg = target[w] /\ pending[w].type = step[w]
           /\ pending[w].version = orders[target[w]].version + 1
           /\ step[w] \in OrderEventTypes
           /\ orders[target[w]].status \in AllowedFrom[step[w]]
           /\ seen[w].amount = orders[target[w]].amount
           /\ seen[w].fee = orders[target[w]].fee
           /\ locks[target[w]] = w
           /\ step[w] = "OrderCreated" => orders[target[w]].version = 0
<1>1. /\ pending[w] \in EventRow /\ pending[w] # NoEvent
      /\ pending[w].agg = target[w] /\ pending[w].type = step[w] /\ target[w] \in Orders
      /\ pending[w].version = orders[target[w]].version + 1 /\ pending[w].version = nextVersion[w]
    BY PendingVersion
<1>2. /\ TypeOK /\ CallOK(w) /\ ReadOK(w) /\ VersionOK(w) /\ SeenOK(w) /\ LockOK(target[w])
    BY <1>1 DEF IInv, BooksInv
<1>3. /\ orders[target[w]] \in OrderRow /\ orders[target[w]].version \in Nat
      /\ seen[w].version \in Nat
    BY <1>1, <1>2 DEF TypeOK, DbTypeOK, OrderTypeOK, OrderRow
<1>4. seen[w].version = orders[target[w]].version
    BY <1>1, <1>2, <1>3 DEF VersionOK
<1>5. step[w] \in OrderEventTypes /\ call[w] \in Call /\ call[w].amount \in Nat
    BY <1>2, StepType DEF TypeOK, CallOK, Call
<1>6. locks[target[w]] = w
    BY <1>2 DEF LockOK
<1>7. QED BY <1>1, <1>2, <1>3, <1>4, <1>5, <1>6 DEF ReadOK, SeenOK, VersionOK, Writing

\* The row it writes.
LEMMA WrittenRow ==
    ASSUME IInv, BooksInv, NEW w \in Workers, pc[w] = "commit",
           NEW row, row = orders[target[w]], NEW new, new = Written(row, pending[w])
    PROVE  /\ new \in OrderRow
           /\ new.version = row.version + 1
           /\ new.status = NextStatus[step[w]]
           /\ new.amount = IF step[w] = "OrderCreated" THEN call[w].amount ELSE row.amount
           /\ new.customer = IF step[w] = "OrderCreated" THEN call[w].party ELSE row.customer
           /\ new.fee = IF step[w] = "FeeCalculated" THEN CalculateFee(call[w].amount) ELSE row.fee
           /\ new.paidDay = IF step[w] = "PaymentConfirmed" THEN pending[w].day ELSE row.paidDay
           /\ new.settlement = row.settlement
           /\ step[w] = "OrderCreated" => row = NoRow
<1> DEFINE e == pending[w]
<1>1. /\ row \in OrderRow /\ e \in EventRow /\ e.type = step[w] /\ e.version = row.version + 1
      /\ step[w] \in OrderEventTypes /\ row.status \in AllowedFrom[step[w]]
      /\ step[w] = "OrderCreated" => row.version = 0
    BY CommitFacts
<1>2. /\ e.amount = PayloadAmount(w) /\ e.party = PayloadParty(w)
    BY DEF BooksInv, EventFixed
<1>3. new \in OrderRow
    BY <1>1, WrittenType
<1>4. CASE step[w] = "OrderCreated"
    <2>1. row.status = "NONE"
        BY <1>1, <1>4 DEF AllowedFrom
    <2>2. row = NoRow
        BY <2>1, CommitFacts DEF BooksInv, RowOK
    <2>3. e.amount = call[w].amount /\ e.party = call[w].party
        BY <1>2, <1>4 DEF PayloadAmount, PayloadParty
    <2>4. new = [NoRow EXCEPT !.status = "CREATED", !.version = 1, !.amount = e.amount,
                              !.customer = e.party]
        BY <1>1, <1>4 DEF Written
    <2>5. new = [status |-> "CREATED", version |-> 1, amount |-> call[w].amount,
                 customer |-> call[w].party, fee |-> NoFee, charge |-> None,
                 paidDay |-> NoDay, settlement |-> NoDay]
        BY <2>3, <2>4 DEF NoRow
    <2>6. NextStatus[step[w]] = "CREATED"
        BY <1>4 DEF NextStatus
    <2>7. QED BY <1>3, <1>4, <2>2, <2>5, <2>6 DEF NoRow
<1>5. CASE step[w] = "PaymentConfirmed"
    <2>1. new = [row EXCEPT !.status = "PAID", !.version = e.version, !.paidDay = e.day,
                            !.charge = e.party]
        BY <1>1, <1>5 DEF Written
    <2>2. QED BY <1>1, <1>3, <1>5, <2>1 DEF OrderRow, NextStatus
<1>6. CASE step[w] = "FeeCalculated"
    <2>1. new = [row EXCEPT !.fee = CalculateFee(e.amount), !.version = e.version]
        BY <1>1, <1>6 DEF Written
    <2>2. e.amount = call[w].amount /\ row.status = "PAID"
        BY <1>1, <1>2, <1>6 DEF PayloadAmount, AllowedFrom
    <2>3. QED BY <1>1, <1>3, <1>6, <2>1, <2>2 DEF OrderRow, NextStatus
<1>7. CASE step[w] \notin {"OrderCreated", "PaymentConfirmed", "FeeCalculated"}
    <2>1. new = [row EXCEPT !.status = NextStatus[step[w]], !.version = e.version]
        BY <1>1, <1>7 DEF Written
    <2>2. QED BY <1>1, <1>3, <1>7, <2>1 DEF OrderRow
<1>8. QED BY <1>4, <1>5, <1>6, <1>7

\* What a commit changes, and for whom.
LEMMA PublishedRows ==
    ASSUME IInv, BooksInv, NEW w \in Workers, Publishes(w)
    PROVE  /\ events' = events \cup {pending[w]}
           /\ orders'[target[w]] = Written(orders[target[w]], pending[w])
           /\ ledger'[target[w]] = PostEvent(ledger[target[w]], step[w], PostedAmount(w), PostedFee(w))
           /\ \A o \in Orders \ {target[w]} :
                orders'[o] = orders[o] /\ ledger'[o] = ledger[o] /\ locks'[o] = locks[o]
           /\ locks'[target[w]] = NoTx
           /\ pending'[w] = NoEvent
           /\ \A t \in Tx \ {w} : pending'[t] = pending[t]
           /\ UNCHANGED <<settlements, today>>
<1>1. TypeOK /\ DbTypeOK /\ w \in Tx /\ target[w] \in Orders /\ pc[w] = "commit" /\ Publish(w)
    BY CommitFacts DEF IInv, TypeOK, Tx, Publishes
<1>2. \A o \in Orders : locks[o] = w <=> target[w] = o
    BY <1>1 DEF BooksInv, LockOK
<1>3. /\ \A o \in Orders \ {target[w]} : locks'[o] = locks[o]
      /\ locks'[target[w]] = NoTx
    BY <1>1, <1>2 DEF Publish, EndTransaction
<1>4. QED BY <1>1, <1>3 DEF Publish, EndTransaction, DbTypeOK

(***************************************************************************)
(* The nets of an order, account by account.                                *)
(***************************************************************************)
Net(balance, pending_, received, fees, payout) ==
    [a \in Accounts |-> CASE a = "order_balance"    -> balance
                          [] a = "order_pending"    -> pending_
                          [] a = "payment_received" -> received
                          [] a = "fees_owed"        -> fees
                          [] a = "seller_payout"    -> payout]

LEMMA NoEntriesNet == NoEntries = Net(0, 0, 0, 0, 0)
BY DEF NoEntries, Net, Accounts

LEMMA NetEqual ==
    ASSUME NEW f, f = [a \in Accounts |-> f[a]], NEW b, NEW p, NEW r, NEW e, NEW s,
           f["order_balance"] = b, f["order_pending"] = p, f["payment_received"] = r,
           f["fees_owed"] = e, f["seller_payout"] = s
    PROVE  f = Net(b, p, r, e, s)
BY DEF Net, Accounts

\* What each posting set adds to the nets.
LEMMA PostingNets ==
    ASSUME NEW b, NEW p, NEW r, NEW e, NEW s, NEW amount,
           b \in Int, p \in Int, r \in Int, e \in Int, s \in Int, amount \in Int
    PROVE  /\ PostOrderCreated(Net(b, p, r, e, s), amount) = Net(b + amount, p - amount, r, e, s)
           /\ PostPaymentConfirmed(Net(b, p, r, e, s), amount) = Net(b - amount, p, r + amount, e, s)
           /\ PostFeeCalculated(Net(b, p, r, e, s), amount) = Net(b, p, r - amount, e + amount, s)
           /\ PostSettlement(Net(b, p, r, e, s), amount) = Net(b, p, r - amount, e, s + amount)
<1> DEFINE n == Net(b, p, r, e, s)
<1>1. /\ n = [a \in Accounts |-> n[a]] /\ n["order_balance"] = b /\ n["order_pending"] = p
      /\ n["payment_received"] = r /\ n["fees_owed"] = e /\ n["seller_payout"] = s
    BY DEF Net, Accounts
<1> HIDE DEF n
<1>2. PostOrderCreated(n, amount) = Net(b + amount, p - amount, r, e, s)
    BY <1>1, NetEqual DEF PostOrderCreated, Debit, Credit, Accounts
<1>3. PostPaymentConfirmed(n, amount) = Net(b - amount, p, r + amount, e, s)
    BY <1>1, NetEqual DEF PostPaymentConfirmed, Debit, Credit, Accounts
<1>4. PostFeeCalculated(n, amount) = Net(b, p, r - amount, e + amount, s)
    BY <1>1, NetEqual DEF PostFeeCalculated, Debit, Credit, Accounts
<1>5. PostSettlement(n, amount) = Net(b, p, r - amount, e, s + amount)
    BY <1>1, NetEqual DEF PostSettlement, Debit, Credit, Accounts
<1>6. QED BY <1>2, <1>3, <1>4, <1>5 DEF n

\* What the reversals of a refund leave.
LEMMA RefundNets ==
    ASSUME NEW b, NEW p, NEW r, NEW e, NEW s, NEW amount, NEW fee,
           b \in Int, p \in Int, r \in Int, e \in Int, s \in Int, amount \in Int, fee \in Nat
    PROVE  PostOrderRefunded(Net(b, p, r, e, s), amount, fee)
             = Net(b, p + amount, r - amount + fee, e - fee, s)
<1> DEFINE n == Net(b, p, r, e, s)
           payment == Credit(Debit(n, "order_balance", amount), "payment_received", amount)
           charged == Credit(Debit(payment, "payment_received", fee), "fees_owed", fee)
<1>1. /\ n = [a \in Accounts |-> n[a]] /\ n["order_balance"] = b /\ n["order_pending"] = p
      /\ n["payment_received"] = r /\ n["fees_owed"] = e /\ n["seller_payout"] = s
    BY DEF Net, Accounts
<1> HIDE DEF n
<1>2. payment = Net(b + amount, p, r - amount, e, s)
    BY <1>1, NetEqual DEF Debit, Credit, Accounts
<1>3. /\ payment = [a \in Accounts |-> payment[a]] /\ payment["order_balance"] = b + amount
      /\ payment["order_pending"] = p /\ payment["payment_received"] = r - amount
      /\ payment["fees_owed"] = e /\ payment["seller_payout"] = s
    BY <1>2 DEF Net, Accounts
<1> HIDE DEF payment
<1>4. charged = Net(b + amount, p, r - amount + fee, e - fee, s)
    BY <1>3, NetEqual DEF Debit, Credit, Accounts
<1>5. (IF fee > 0 THEN charged ELSE payment) = Net(b + amount, p, r - amount + fee, e - fee, s)
    BY <1>2, <1>4
<1> DEFINE nets == Net(b + amount, p, r - amount + fee, e - fee, s)
<1>6. /\ nets = [a \in Accounts |-> nets[a]] /\ nets["order_balance"] = b + amount
      /\ nets["order_pending"] = p /\ nets["payment_received"] = r - amount + fee
      /\ nets["fees_owed"] = e - fee /\ nets["seller_payout"] = s
    BY DEF Net, Accounts
<1> HIDE DEF nets, charged
<1>7. Credit(Debit(nets, "order_pending", amount), "order_balance", amount)
        = Net(b, p + amount, r - amount + fee, e - fee, s)
    BY <1>6, NetEqual DEF Debit, Credit, Accounts
<1>8. QED BY <1>5, <1>7 DEF PostOrderRefunded, payment, charged, nets, n

\* The nets an order should have, by the status of its row.
NetsOf(row) ==
    CASE row.status \in {"NONE", "REFUNDED"} -> Net(0, 0, 0, 0, 0)
      [] row.status \in {"PAID", "SHIPPED", "DELIVERED"} ->
           LET fee    == IF row.fee = NoFee THEN 0 ELSE row.fee
               payout == IF row.settlement = NoDay THEN 0 ELSE row.amount - fee
           IN  Net(0, -row.amount, row.amount - fee - payout, fee, payout)
      [] OTHER -> Net(row.amount, -row.amount, 0, 0, 0)

LEMMA NetsOfIs ==
    ASSUME NEW row \in OrderRow, NEW fee, fee = IF row.fee = NoFee THEN 0 ELSE row.fee,
           NEW payout, payout = IF row.settlement = NoDay THEN 0 ELSE row.amount - fee
    PROVE  /\ row.status \in {"NONE", "REFUNDED"} => NetsOf(row) = NoEntries
           /\ row.status \in {"PAID", "SHIPPED", "DELIVERED"} =>
                NetsOf(row) = [NoEntries EXCEPT !["order_pending"] = -row.amount,
                                                !["fees_owed"] = fee,
                                                !["payment_received"] = row.amount - fee - payout,
                                                !["seller_payout"] = payout]
           /\ row.status \notin {"NONE", "REFUNDED", "PAID", "SHIPPED", "DELIVERED"} =>
                NetsOf(row) = [NoEntries EXCEPT !["order_balance"] = row.amount,
                                                !["order_pending"] = -row.amount]
<1>1. [NoEntries EXCEPT !["order_pending"] = -row.amount, !["fees_owed"] = fee,
                        !["payment_received"] = row.amount - fee - payout,
                        !["seller_payout"] = payout]
        = Net(0, -row.amount, row.amount - fee - payout, fee, payout)
    BY NetEqual DEF NoEntries, Accounts
<1>2. [NoEntries EXCEPT !["order_balance"] = row.amount, !["order_pending"] = -row.amount]
        = Net(row.amount, -row.amount, 0, 0, 0)
    BY NetEqual DEF NoEntries, Accounts
<1>3. QED BY <1>1, <1>2, NoEntriesNet DEF NetsOf

LEMMA ExpectedNetsIs ==
    DbTypeOK => \A o \in Orders : ExpectedNets(o) = NetsOf(orders[o])
<1> SUFFICES ASSUME DbTypeOK, NEW o \in Orders PROVE ExpectedNets(o) = NetsOf(orders[o])
    OBVIOUS
<1> DEFINE row == orders[o]
<1>1. row \in OrderRow
    BY DEF DbTypeOK
<1>2. CASE row.status \in {"NONE", "REFUNDED"}
    <2>1. ExpectedNets(o) = NoEntries
        BY <1>2 DEF ExpectedNets, PaidLike
    <2>2. QED BY <1>1, <1>2, <2>1, NetsOfIs
<1>3. CASE row.status \in {"PAID", "SHIPPED", "DELIVERED"}
    <2> DEFINE fee == IF row.fee = NoFee THEN 0 ELSE row.fee
               payout == IF row.settlement = NoDay THEN 0 ELSE row.amount - fee
    <2>1. ExpectedNets(o) = [NoEntries EXCEPT !["order_pending"] = -row.amount,
                                !["fees_owed"] = fee,
                                !["payment_received"] = row.amount - fee - payout,
                                !["seller_payout"] = payout]
        BY <1>3 DEF ExpectedNets, PaidLike, FeeTaken
    <2>2. /\ fee = IF row.fee = NoFee THEN 0 ELSE row.fee
          /\ payout = IF row.settlement = NoDay THEN 0 ELSE row.amount - fee
        OBVIOUS
    <2> HIDE DEF fee, payout, row
    <2>3. ExpectedNets(o) = NetsOf(row)
        BY <1>1, <1>3, <2>1, <2>2, NetsOfIs
    <2>4. QED BY <2>3 DEF row
<1>4. CASE row.status \notin {"NONE", "REFUNDED", "PAID", "SHIPPED", "DELIVERED"}
    <2>1. ExpectedNets(o) = [NoEntries EXCEPT !["order_balance"] = row.amount,
                                              !["order_pending"] = -row.amount]
        BY <1>4 DEF ExpectedNets, PaidLike
    <2>2. QED BY <1>1, <1>4, <2>1, NetsOfIs
<1>5. QED BY <1>2, <1>3, <1>4

LEMMA ExpectedNetsIsPrimed ==
    ASSUME DbTypeOK' PROVE \A o \in Orders : ExpectedNets(o)' = NetsOf(orders'[o])
<1>1. (DbTypeOK => \A o \in Orders : ExpectedNets(o) = NetsOf(orders[o]))'
    BY ExpectedNetsIs, PTL
<1>2. QED BY <1>1

\* The postings of a commit turn the nets of the old row into those of the new.
LEMMA PublishedLedger ==
    ASSUME IInv, IInv', BooksInv, NEW w \in Workers, Publishes(w)
    PROVE  ledger'[target[w]] = NetsOf(orders'[target[w]])
<1> DEFINE o == target[w]
           row == orders[o]
           new == orders'[o]
           fee == IF row.fee = NoFee THEN 0 ELSE row.fee
<1>1. /\ pc[w] = "commit" /\ o \in Orders /\ new = Written(row, pending[w])
      /\ ledger'[o] = PostEvent(ledger[o], step[w], PostedAmount(w), PostedFee(w))
    BY CommitFacts, PublishedRows DEF Publishes
<1>2. /\ row \in OrderRow /\ row.status \in AllowedFrom[step[w]] /\ step[w] \in OrderEventTypes
      /\ seen[w].amount = row.amount /\ seen[w].fee = row.fee /\ call[w].amount \in Nat
      /\ row.amount \in Nat /\ row.fee \in Nat \cup {NoFee} /\ RowOK(o)
    BY <1>1, CommitFacts DEF OrderRow, BooksInv
<1>3. ledger[o] = NetsOf(row)
    BY <1>1, ExpectedNetsIs DEF BooksInv, LedgerMatchesReadModel, IInv, TypeOK
<1>4. /\ new \in OrderRow /\ new.status = NextStatus[step[w]]
      /\ new.amount = IF step[w] = "OrderCreated" THEN call[w].amount ELSE row.amount
      /\ new.fee = IF step[w] = "FeeCalculated" THEN CalculateFee(call[w].amount) ELSE row.fee
      /\ new.settlement = row.settlement
      /\ step[w] = "OrderCreated" => row = NoRow
    BY <1>1, WrittenRow
<1>5. step[w] \in {"PaymentConfirmed", "FeeCalculated"} => row.amount = call[w].amount
    BY <1>1, <1>2 DEF BooksInv, SeenOK, Writing
<1>6. step[w] = "FeeCalculated" => row.fee = NoFee
    BY <1>1, <1>2 DEF BooksInv, SeenOK, Writing
<1>7. step[w] = "OrderRefunded" => row.settlement = NoDay
    BY <1>1 DEF BooksInv, HeldOK
<1>8. CalculateFee(call[w].amount) \in Nat
    BY <1>2 DEF CalculateFee
<1>9. fee \in Nat
    BY <1>2
<1> HIDE DEF new, row, fee
<1>10. CASE step[w] = "OrderCreated"
    <2>1. ledger[o] = Net(0, 0, 0, 0, 0) /\ new.status = "CREATED" /\ PostedAmount(w) = new.amount
        BY <1>3, <1>4, <1>10 DEF NoRow, NextStatus, PostedAmount, NetsOf
    <2>2. ledger'[o] = PostOrderCreated(ledger[o], new.amount)
        BY <1>1, <1>10, <2>1 DEF PostEvent
    <2>3. ledger'[o] = Net(0 + new.amount, 0 - new.amount, 0, 0, 0)
        BY <1>2, <1>4, <1>10, <2>1, <2>2, PostingNets
    <2>4. NetsOf(new) = Net(new.amount, -new.amount, 0, 0, 0)
        BY <2>1 DEF NetsOf
    <2>5. 0 + new.amount = new.amount /\ 0 - new.amount = -new.amount
        BY <1>2, <1>4, <1>10
    <2>6. QED BY <2>3, <2>4, <2>5 DEF new
<1>11. CASE step[w] \in {"PaymentProcessing", "PaymentFailed"}
    <2>1. /\ row.status \in {"CREATED", "PAYMENT_PROCESSING", "PAYMENT_FAILED"}
          /\ new.status \in {"PAYMENT_PROCESSING", "PAYMENT_FAILED"}
        BY <1>2, <1>4, <1>11 DEF AllowedFrom, NextStatus
    <2>2. ledger'[o] = ledger[o]
        BY <1>1, <1>11 DEF PostEvent
    <2>3. NetsOf(new) = NetsOf(row)
        BY <1>4, <1>11, <2>1 DEF NetsOf
    <2>4. QED BY <1>3, <2>2, <2>3 DEF new
<1>12. CASE step[w] = "PaymentConfirmed"
    <2>1. /\ row.status \in {"CREATED", "PAYMENT_PROCESSING"} /\ new.status = "PAID"
          /\ PostedAmount(w) = row.amount
        BY <1>2, <1>4, <1>5, <1>12 DEF AllowedFrom, NextStatus, PostedAmount
    <2>2. row.fee = NoFee /\ row.settlement = NoDay
        BY <1>2, <2>1 DEF RowOK, PaidLike, row
    <2>3. ledger[o] = Net(row.amount, -row.amount, 0, 0, 0)
        BY <1>3, <2>1 DEF NetsOf
    <2>4. ledger'[o] = PostPaymentConfirmed(ledger[o], row.amount)
        BY <1>1, <1>12, <2>1 DEF PostEvent
    <2>5. ledger'[o] = Net(row.amount - row.amount, -row.amount, 0 + row.amount, 0, 0)
        BY <1>2, <2>3, <2>4, PostingNets
    <2>6. NetsOf(new) = Net(0, -row.amount, row.amount - 0 - 0, 0, 0)
        BY <1>4, <1>12, <2>1, <2>2 DEF NetsOf
    <2>7. row.amount - row.amount = 0 /\ 0 + row.amount = row.amount - 0 - 0
        BY <1>2
    <2>8. QED BY <2>5, <2>6, <2>7 DEF new
<1>13. CASE step[w] = "FeeCalculated"
    <2>1. /\ row.status = "PAID" /\ new.status = "PAID" /\ new.amount = row.amount
          /\ PostedFee(w) = new.fee /\ new.fee \in Nat /\ new.fee # NoFee
        BY <1>2, <1>4, <1>8, <1>13 DEF AllowedFrom, NextStatus, PostedFee, NoFee
    <2>2. row.fee = NoFee /\ row.settlement = NoDay
        BY <1>2, <1>6, <1>13 DEF RowOK, row
    <2>3. ledger[o] = Net(0, -row.amount, row.amount - 0 - 0, 0, 0)
        BY <1>3, <2>1, <2>2 DEF NetsOf
    <2>4. ledger'[o] = PostFeeCalculated(ledger[o], new.fee)
        BY <1>1, <1>13, <2>1 DEF PostEvent
    <2> DEFINE pending_ == -row.amount
               received == row.amount - 0 - 0
    <2>5. pending_ \in Int /\ received \in Int /\ ledger[o] = Net(0, pending_, received, 0, 0)
        BY <1>2, <2>3
    <2> HIDE DEF pending_, received
    <2>6. PostFeeCalculated(Net(0, pending_, received, 0, 0), new.fee)
            = Net(0, pending_, received - new.fee, 0 + new.fee, 0)
        BY <2>1, <2>5, PostingNets
    <2>7. ledger'[o] = Net(0, -row.amount, row.amount - 0 - 0 - new.fee, 0 + new.fee, 0)
        BY <2>4, <2>5, <2>6 DEF pending_, received
    <2>8. NetsOf(new) = Net(0, -row.amount, row.amount - new.fee - 0, new.fee, 0)
        BY <1>4, <2>1, <2>2 DEF NetsOf
    <2>9. row.amount - 0 - 0 - new.fee = row.amount - new.fee - 0 /\ 0 + new.fee = new.fee
        BY <1>2, <2>1
    <2>10. QED BY <2>7, <2>8, <2>9 DEF new
<1>14. CASE step[w] \in {"OrderShipped", "OrderDelivered"}
    <2>1. /\ row.status \in {"PAID", "SHIPPED", "DELIVERED"}
          /\ new.status \in {"PAID", "SHIPPED", "DELIVERED"}
        BY <1>2, <1>4, <1>14 DEF AllowedFrom, NextStatus
    <2>2. ledger'[o] = ledger[o]
        BY <1>1, <1>14 DEF PostEvent
    <2>3. NetsOf(new) = NetsOf(row)
        BY <1>4, <1>14, <2>1 DEF NetsOf
    <2>4. QED BY <1>3, <2>2, <2>3 DEF new
<1>15. CASE step[w] = "OrderRefunded"
    <2>1. /\ row.status \in {"PAID", "SHIPPED", "DELIVERED"} /\ new.status = "REFUNDED"
          /\ PostedAmount(w) = row.amount /\ PostedFee(w) = fee
        BY <1>2, <1>4, <1>15 DEF AllowedFrom, NextStatus, PostedAmount, PostedFee, fee
    <2>2. ledger[o] = Net(0, -row.amount, row.amount - fee - 0, fee, 0)
        BY <1>3, <1>7, <1>15, <2>1 DEF NetsOf, fee
    <2>3. ledger'[o] = PostOrderRefunded(ledger[o], row.amount, fee)
        BY <1>1, <1>15, <2>1 DEF PostEvent
    <2> DEFINE pending_ == -row.amount
               received == row.amount - fee - 0
    <2>4. pending_ \in Int /\ received \in Int /\ ledger[o] = Net(0, pending_, received, fee, 0)
        BY <1>2, <1>9, <2>2
    <2> HIDE DEF pending_, received
    <2>5. PostOrderRefunded(Net(0, pending_, received, fee, 0), row.amount, fee)
            = Net(0, pending_ + row.amount, received - row.amount + fee, fee - fee, 0)
        BY <1>2, <1>9, <2>4, RefundNets
    <2>6. ledger'[o] = Net(0, -row.amount + row.amount, row.amount - fee - 0 - row.amount + fee,
                           fee - fee, 0)
        BY <2>3, <2>4, <2>5 DEF pending_, received
    <2>7. NetsOf(new) = Net(0, 0, 0, 0, 0)
        BY <2>1 DEF NetsOf
    <2>8. -row.amount + row.amount = 0 /\ row.amount - fee - 0 - row.amount + fee = 0 /\ fee - fee = 0
        BY <1>2, <1>9
    <2>9. QED BY <2>6, <2>7, <2>8 DEF new
<1>16. QED BY <1>2, <1>10, <1>11, <1>12, <1>13, <1>14, <1>15 DEF OrderEventTypes

\* What no commit of a mutation takes back: an amount, a fee and a day of
\* payment that are set, the settlement, the customer.
RowKept(row, new) ==
    /\ new.version = row.version + 1
    /\ new.status # "NONE"
    /\ row.status # "NONE" => new.amount = row.amount /\ new.customer = row.customer
    /\ row.fee # NoFee => new.fee = row.fee
    /\ row.paidDay # NoDay => new.paidDay = row.paidDay
    /\ new.settlement = row.settlement

LEMMA PublishedRow ==
    ASSUME IInv, BooksInv, NEW w \in Workers, Publishes(w), NEW o \in Orders, o = target[w]
    PROVE  RowKept(orders[o], orders'[o]) /\ RowOK(o)'
<1> DEFINE row == orders[o]
           new == orders'[o]
           Paid == {"PAID", "SHIPPED", "DELIVERED", "REFUNDED"}
<1>1. /\ pc[w] = "commit" /\ o \in Orders /\ new = Written(row, pending[w]) /\ today' = today
    BY CommitFacts, PublishedRows DEF Publishes
<1>2. /\ row \in OrderRow /\ row.status \in AllowedFrom[step[w]] /\ step[w] \in OrderEventTypes
      /\ row.version \in Nat /\ call[w].amount \in Nat /\ seen[w].fee = row.fee /\ RowOK(o)
    BY <1>1, CommitFacts DEF OrderRow, BooksInv
<1>3. /\ new \in OrderRow
      /\ new.version = row.version + 1
      /\ new.status = NextStatus[step[w]]
      /\ new.amount = IF step[w] = "OrderCreated" THEN call[w].amount ELSE row.amount
      /\ new.customer = IF step[w] = "OrderCreated" THEN call[w].party ELSE row.customer
      /\ new.fee = IF step[w] = "FeeCalculated" THEN CalculateFee(call[w].amount) ELSE row.fee
      /\ new.paidDay = IF step[w] = "PaymentConfirmed" THEN pending[w].day ELSE row.paidDay
      /\ new.settlement = row.settlement
      /\ step[w] = "OrderCreated" => row = NoRow
    BY <1>1, WrittenRow
<1>4. /\ step[w] = "OrderCreated" => call[w].amount > 0
      /\ step[w] = "PaymentConfirmed" => pending[w].day \in 1..today
      /\ step[w] = "FeeCalculated" => row.fee = NoFee
      /\ step[w] = "OrderRefunded" => row.settlement = NoDay
    BY <1>1, <1>2
       DEF BooksInv, PostedOK, PostingsValid, PostedAmount, EventFixed, SeenOK, HeldOK, Writing
<1>5. CalculateFee(call[w].amount) # NoFee /\ today \in Nat
    BY <1>2, DatabaseAssumption DEF CalculateFee, NoFee, IInv, TypeOK, DbTypeOK, Days
<1>6. /\ row.status # "NONE" => row.amount > 0
      /\ row.fee # NoFee => row.status \in Paid
      /\ row.paidDay # NoDay <=> row.status \in Paid
      /\ row.paidDay <= today
      /\ row.settlement # NoDay =>
           /\ row.status \in {"PAID", "SHIPPED", "DELIVERED"}
           /\ row.fee # NoFee /\ row.paidDay <= row.settlement
    BY <1>2 DEF RowOK, PaidLike
<1> HIDE DEF row, new
<1>7. /\ row.status = "NONE" <=> step[w] = "OrderCreated"
      /\ step[w] = "PaymentConfirmed" => row.status \notin Paid
      /\ step[w] \in {"FeeCalculated", "OrderShipped", "OrderDelivered"} =>
           /\ row.status \in {"PAID", "SHIPPED", "DELIVERED"}
           /\ new.status \in {"PAID", "SHIPPED", "DELIVERED"}
      /\ step[w] = "OrderRefunded" => row.status \in Paid
      /\ step[w] \in {"PaymentProcessing", "PaymentFailed"} => row.status \notin Paid
    BY <1>2, <1>3 DEF AllowedFrom, NextStatus, OrderEventTypes
<1>8. /\ new.status # "NONE"
      /\ step[w] \in {"PaymentConfirmed", "OrderRefunded"} => new.status \in Paid
      /\ step[w] \in {"OrderCreated", "PaymentProcessing", "PaymentFailed"} => new.status \notin Paid
    BY <1>2, <1>3 DEF NextStatus, OrderEventTypes
<1>9. RowKept(row, new)
    BY <1>1, <1>3, <1>4, <1>6, <1>7, <1>8 DEF RowKept
<1>10. CASE step[w] = "OrderCreated"
    <2>1. /\ new.amount > 0 /\ new.fee = NoFee /\ new.paidDay = NoDay /\ new.settlement = NoDay
          /\ new.status \notin Paid
        BY <1>3, <1>4, <1>8, <1>10 DEF NoRow
    <2>2. RowOK(o)'
        BY <1>1, <1>5, <1>8, <2>1 DEF RowOK, PaidLike, new, NoDay
    <2>3. QED BY <1>9, <2>2 DEF row, new
<1>11. CASE step[w] # "OrderCreated"
    <2>1. /\ new.amount = row.amount /\ row.amount > 0
          /\ new.paidDay = IF step[w] = "PaymentConfirmed" THEN pending[w].day ELSE row.paidDay
        BY <1>3, <1>6, <1>7, <1>11
    <2>2. new.fee # NoFee => new.status \in Paid
        BY <1>2, <1>3, <1>6, <1>7, <1>8, <1>11 DEF OrderEventTypes
    <2>3. new.paidDay # NoDay <=> new.status \in Paid
        BY <1>2, <1>4, <1>5, <1>6, <1>7, <1>8, <1>11, <2>1 DEF OrderEventTypes, NoDay
    <2>4. new.paidDay <= today
        BY <1>4, <1>5, <1>6, <2>1
    <2>5. new.settlement # NoDay =>
            /\ new.status \in {"PAID", "SHIPPED", "DELIVERED"}
            /\ new.fee # NoFee /\ new.paidDay <= new.settlement
        BY <1>2, <1>3, <1>4, <1>6, <1>7, <1>9, <1>11, <2>1 DEF OrderEventTypes, RowKept
    <2>6. RowOK(o)'
        BY <1>1, <1>8, <2>1, <2>2, <2>3, <2>4, <2>5 DEF RowOK, PaidLike, new
    <2>7. QED BY <1>9, <2>6 DEF row, new
<1>12. QED BY <1>10, <1>11

LEMMA BooksPublish ==
    ASSUME IInv, IInv', BooksInv, NEW w \in Workers, Publishes(w)
    PROVE  BooksInv'
<1> PICK o \in Orders : o = target[w]
    BY CommitFacts DEF Publishes
<1>1. /\ pc[w] = "commit" /\ o \in Orders /\ locks[o] = w /\ w \in Tx
      /\ orders[o] \in OrderRow /\ orders[o].version \in Nat
      /\ OnlyWorker(w) /\ pc'[w] \notin Writing /\ UNCHANGED settleVars
    BY CommitFacts DEF Publishes, Tx, OrderRow
<1>2. /\ \A x \in Orders \ {o} : orders'[x] = orders[x] /\ ledger'[x] = ledger[x] /\ locks'[x] = locks[x]
      /\ locks'[o] = NoTx
      /\ \A t \in Tx \ {w} : pending'[t] = pending[t]
      /\ today' = today
    BY PublishedRows
<1>3. RowKept(orders[o], orders'[o]) /\ RowOK(o)'
    BY PublishedRow
<1>4. /\ EventFixed(w)' /\ SeenOK(w)' /\ PostedOK(w)' /\ HeldOK(w)'
    BY <1>1 DEF EventFixed, SeenOK, PostedOK, HeldOK, Writing
<1>5. ASSUME NEW u \in Workers \ {w} PROVE EventFixed(u)' /\ SeenOK(u)' /\ PostedOK(u)' /\ HeldOK(u)'
    <2>1. /\ EventFixed(u) /\ SeenOK(u) /\ PostedOK(u) /\ HeldOK(u) /\ ReadOK(u)
          /\ pc'[u] = pc[u] /\ call'[u] = call[u] /\ step'[u] = step[u]
          /\ target'[u] = target[u] /\ seen'[u] = seen[u] /\ pending'[u] = pending[u]
          /\ seen[u].version \in Nat
        BY <1>1, <1>2 DEF BooksInv, IInv, TypeOK, OrderTypeOK, OrderRow, OnlyWorker, Tx
    <2>2. EventFixed(u)'
        BY <1>2, <2>1 DEF EventFixed, EventKey, PayloadAmount, PayloadParty
    <2>3. SeenOK(u)'
        <3>1. CASE target[u] = o
            <4>1. pc[u] \in Writing => seen[u].version # orders'[o].version
                BY <1>1, <1>3, <2>1, <3>1 DEF ReadOK, RowKept
            <4>2. QED BY <2>1, <3>1, <4>1 DEF SeenOK
        <3>2. CASE target[u] # o
            BY <1>2, <2>1, <3>2 DEF SeenOK, ReadOK
        <3>3. QED BY <3>1, <3>2
    <2>4. PostedOK(u)'
        BY <2>1 DEF PostedOK, PostedAmount, PostedFee
    <2>5. HeldOK(u)'
        <3>1. CASE target[u] = o
            BY <1>1, <1>3, <2>1, <3>1 DEF HeldOK, RowKept
        <3>2. CASE target[u] # o
            BY <1>2, <2>1, <3>2 DEF HeldOK, ReadOK, Writing
        <3>3. QED BY <3>1, <3>2
    <2>6. QED BY <2>2, <2>3, <2>4, <2>5
<1>6. ASSUME NEW x \in Orders PROVE RowOK(x)'
    <2>1. CASE x = o
        BY <1>3, <2>1
    <2>2. CASE x # o
        BY <1>2, <2>2 DEF BooksInv, RowOK, PaidLike
    <2>3. QED BY <2>1, <2>2
<1>7. ASSUME NEW x \in Orders PROVE LockOK(x)'
    <2>1. LockOK(x) /\ LockOK(o) /\ NoTx \notin Tx
        BY <1>1, DatabaseAssumption DEF BooksInv
    <2>2. ASSUME NEW u \in Workers PROVE locks'[x] = u <=> pc'[u] = "commit" /\ target'[u] = x
        <3>1. CASE x = o
            BY <1>1, <1>2, <2>1, <3>1 DEF LockOK, OnlyWorker, Writing, Tx
        <3>2. CASE x # o
            BY <1>1, <1>2, <2>1, <3>2 DEF LockOK, OnlyWorker, Writing
        <3>3. QED BY <3>1, <3>2
    <2>3. ASSUME NEW s \in Settlers, locks'[x] = s
          PROVE  spc'[s] = "mark" /\ x \in LineIds(s)' /\ StillSettleable(orders'[x])
        <3>1. x # o
            BY <1>2, <2>1, <2>3 DEF Tx
        <3>2. QED BY <1>1, <1>2, <2>1, <2>3, <3>1 DEF LockOK, LineIds, settleVars
    <2>4. QED BY <2>2, <2>3 DEF LockOK, StillSettleable
<1>8. ASSUME NEW s \in Settlers PROVE LinesOK(s)'
    <2>1. LinesOK(s) /\ lines[s] \subseteq Line /\ UNCHANGED settleVars
        BY <1>1 DEF BooksInv, IInv, TypeOK, SettlementTypeOK
    <2>2. ASSUME spc[s] \in {"insert", "mark"}, NEW l \in lines[s]
          PROVE  /\ l.amount = orders'[l.order].amount /\ l.fee = orders'[l.order].fee
                 /\ orders'[l.order].paidDay # NoDay /\ orders'[l.order].paidDay <= scall[s].day
        <3>1. /\ l.amount = orders[l.order].amount /\ l.fee = orders[l.order].fee
              /\ orders[l.order].paidDay # NoDay /\ orders[l.order].paidDay <= scall[s].day
              /\ l.order \in Orders /\ l.fee # NoFee
            BY <2>1, <2>2 DEF LinesOK, Line, NoFee
        <3>2. orders[l.order].status # "NONE"
            BY <3>1 DEF BooksInv, RowOK
        <3>3. CASE l.order = o
            BY <1>3, <3>1, <3>2, <3>3 DEF RowKept
        <3>4. CASE l.order # o
            BY <1>2, <3>1, <3>4
        <3>5. QED BY <3>3, <3>4
    <2>3. QED BY <2>1, <2>2 DEF LinesOK, LineIds, settleVars
<1>9. LedgerMatchesReadModel'
    <2>1. DbTypeOK /\ DbTypeOK'
        BY DEF IInv, TypeOK
    <2>2. ASSUME NEW x \in Orders PROVE ledger'[x] = ExpectedNets(x)'
        <3>1. ExpectedNets(x)' = NetsOf(orders'[x])
            BY <2>1, ExpectedNetsIsPrimed
        <3>2. CASE x = o
            BY <3>1, <3>2, PublishedLedger
        <3>3. CASE x # o
            BY <1>2, <2>1, <3>1, <3>3, ExpectedNetsIs DEF BooksInv, LedgerMatchesReadModel
        <3>4. QED BY <3>2, <3>3
    <2>3. QED BY <2>2 DEF LedgerMatchesReadModel
<1>10. QED BY <1>4, <1>5, <1>6, <1>7, <1>8, <1>9 DEF BooksInv

(***************************************************************************)
(* The commit of a settlement.                                              *)
(***************************************************************************)

\* It marks exactly the orders of its lines, as their rows still are.
LEMMA SettledRows ==
    ASSUME IInv, BooksInv, NEW s \in Settlers, PublishesSettlement(s), NEW o \in Orders
    PROVE  /\ scall[s].day \in Days
           /\ locks[o] = s <=> o \in LineIds(s)
           /\ o \notin LineIds(s) => orders'[o] = orders[o] /\ ledger'[o] = ledger[o]
           /\ o \in LineIds(s) =>
                /\ orders'[o] = [orders[o] EXCEPT !.settlement = scall[s].day]
                /\ ledger'[o] = PostSettlement(ledger[o], orders[o].amount - orders[o].fee)
                /\ orders[o].settlement = NoDay
                /\ orders[o].status \in {"PAID", "SHIPPED", "DELIVERED"}
                /\ orders[o].fee \in Nat
                /\ orders[o].paidDay <= scall[s].day
<1>1. /\ spc[s] = "mark" /\ AllLinesMarked(s) /\ PublishSettlement(s) /\ LinesOK(s) /\ LockOK(o)
      /\ lines[s] \subseteq Line
    BY DEF PublishesSettlement, BooksInv, IInv, TypeOK, SettlementTypeOK
<1>2. scall[s].day \in Days
    BY <1>1, SettlementAssumption DEF IInv, SettlerOK, SettleCall
<1>3. locks[o] = s <=> o \in LineIds(s)
    BY <1>1 DEF LockOK, AllLinesMarked
<1>4. ASSUME o \notin LineIds(s) PROVE orders'[o] = orders[o] /\ ledger'[o] = ledger[o]
    BY <1>1, <1>3, <1>4 DEF PublishSettlement
<1>5. ASSUME o \in LineIds(s)
      PROVE  /\ orders'[o] = [orders[o] EXCEPT !.settlement = scall[s].day]
             /\ ledger'[o] = PostSettlement(ledger[o], orders[o].amount - orders[o].fee)
             /\ orders[o].settlement = NoDay
             /\ orders[o].status \in {"PAID", "SHIPPED", "DELIVERED"}
             /\ orders[o].fee \in Nat
             /\ orders[o].paidDay <= scall[s].day
    <2> DEFINE l == CHOOSE x \in lines[s] : x.order = o
    <2>1. l \in lines[s] /\ l.order = o
        BY <1>5 DEF LineIds
    <2>2. /\ l.amount = orders[o].amount /\ l.fee = orders[o].fee /\ l.fee \in Nat
          /\ orders[o].paidDay <= scall[s].day
        BY <1>1, <2>1 DEF LinesOK, Line
    <2>3. ledger'[o] = PostSettlement(ledger[o], l.amount - l.fee)
        BY <1>1, <1>5 DEF PublishSettlement
    <2>4. StillSettleable(orders[o])
        BY <1>1, <1>3, <1>5 DEF LockOK
    <2> HIDE DEF l
    <2>5. QED BY <1>1, <1>3, <1>5, <2>2, <2>3, <2>4
                 DEF PublishSettlement, StillSettleable, SettlementStatuses
<1>6. QED BY <1>2, <1>3, <1>4, <1>5

LEMMA BooksPublishSettlement ==
    ASSUME IInv, IInv', BooksInv, NEW s \in Settlers, PublishesSettlement(s)
    PROVE  BooksInv'
<1> DEFINE d == scall[s].day
<1>1. /\ spc[s] = "mark" /\ PublishSettlement(s) /\ OtherSettlers(s)
      /\ spc'[s] \notin {"insert", "mark"} /\ UNCHANGED orderVars /\ s \in Tx
      /\ DbTypeOK /\ DbTypeOK'
    BY DEF PublishesSettlement, IInv, TypeOK, Tx
<1>2. /\ \A t \in Tx \ {s} : pending'[t] = pending[t]
      /\ \A o \in Orders : /\ locks'[o] # s
                           /\ \A t \in Tx \ {s} : locks'[o] = t <=> locks[o] = t
      /\ today' = today
    BY <1>1, EndTransactionLocks DEF PublishSettlement, EndTransaction, DbTypeOK
<1>3. ASSUME NEW o \in Orders
      PROVE  /\ orders'[o].version = orders[o].version /\ orders'[o].amount = orders[o].amount
             /\ orders'[o].fee = orders[o].fee /\ orders'[o].paidDay = orders[o].paidDay
             /\ locks[o] # s => orders'[o] = orders[o]
    BY <1>1, SettledRows DEF DbTypeOK, OrderRow
<1>4. ASSUME NEW w \in Workers PROVE EventFixed(w)' /\ SeenOK(w)' /\ PostedOK(w)' /\ HeldOK(w)'
    <2>1. /\ EventFixed(w) /\ SeenOK(w) /\ PostedOK(w) /\ HeldOK(w) /\ ReadOK(w) /\ w \in Tx
          /\ w # s /\ pending'[w] = pending[w]
        BY <1>2, DatabaseAssumption DEF BooksInv, IInv, Tx
    <2>2. EventFixed(w)'
        BY <1>1, <1>2, <2>1 DEF EventFixed, EventKey, PayloadAmount, PayloadParty, orderVars, workVars
    <2>3. SeenOK(w)'
        BY <1>1, <1>3, <2>1 DEF SeenOK, ReadOK, orderVars, workVars
    <2>4. PostedOK(w)'
        BY <1>1, <2>1 DEF PostedOK, PostedAmount, PostedFee, orderVars, workVars
    <2>5. HeldOK(w)'
        <3>1. pc[w] = "commit" => target[w] \in Orders /\ locks[target[w]] = w
            BY <2>1 DEF BooksInv, LockOK, ReadOK, Writing
        <3>2. QED BY <1>1, <1>3, <2>1, <3>1 DEF HeldOK, orderVars, workVars
    <2>6. QED BY <2>2, <2>3, <2>4, <2>5
<1>5. ASSUME NEW o \in Orders PROVE RowOK(o)'
    <2>1. RowOK(o) /\ orders[o] \in OrderRow
        BY <1>1 DEF BooksInv, DbTypeOK
    <2>2. CASE o \in LineIds(s)
        <3>1. /\ orders'[o] = [orders[o] EXCEPT !.settlement = d]
              /\ orders[o].status \in {"PAID", "SHIPPED", "DELIVERED"}
              /\ orders[o].fee # NoFee /\ orders[o].paidDay <= d
            BY <2>2, SettledRows DEF NoFee
        <3>2. /\ orders'[o].settlement = d /\ orders'[o].status = orders[o].status
              /\ orders'[o].amount = orders[o].amount
              /\ orders'[o].fee = orders[o].fee /\ orders'[o].paidDay = orders[o].paidDay
            BY <2>1, <3>1 DEF OrderRow
        <3> HIDE DEF d
        <3>3. QED BY <1>2, <2>1, <3>1, <3>2 DEF RowOK, PaidLike
    <2>3. CASE o \notin LineIds(s)
        BY <1>2, <2>1, <2>3, SettledRows DEF RowOK, PaidLike
    <2>4. QED BY <2>2, <2>3
<1>6. ASSUME NEW o \in Orders PROVE LockOK(o)'
    <2>1. LockOK(o) /\ \A w \in Workers : w \in Tx \ {s}
        BY DatabaseAssumption DEF BooksInv, Tx
    <2>2. \A w \in Workers : locks'[o] = w <=> pc'[w] = "commit" /\ target'[w] = o
        BY <1>1, <1>2, <2>1 DEF LockOK, orderVars, workVars
    <2>3. ASSUME NEW r \in Settlers, locks'[o] = r
          PROVE  spc'[r] = "mark" /\ o \in LineIds(r)' /\ StillSettleable(orders'[o])
        <3>1. r # s /\ locks[o] = r
            BY <1>2, <2>3 DEF Tx
        <3>2. orders'[o] = orders[o] /\ spc'[r] = spc[r] /\ LineIds(r)' = LineIds(r)
            BY <1>1, <1>3, <3>1 DEF OtherSettlers, LineIds
        <3>3. QED BY <2>1, <3>1, <3>2 DEF LockOK
    <2>4. QED BY <2>2, <2>3 DEF LockOK, StillSettleable
<1>7. ASSUME NEW r \in Settlers PROVE LinesOK(r)'
    <2>1. CASE r = s
        BY <1>1, <2>1 DEF LinesOK
    <2>2. CASE r # s
        <3>1. /\ LinesOK(r) /\ spc'[r] = spc[r] /\ scall'[r] = scall[r] /\ lines'[r] = lines[r]
              /\ todo'[r] = todo[r] /\ \A l \in lines[r] : l.order \in Orders
            BY <1>1, <2>2 DEF BooksInv, OtherSettlers, IInv, TypeOK, SettlementTypeOK, Line
        <3>2. QED BY <1>3, <3>1 DEF LinesOK, LineIds
    <2>3. QED BY <2>1, <2>2
<1>8. ASSUME NEW o \in Orders PROVE ledger'[o] = ExpectedNets(o)'
    <2>1. /\ ExpectedNets(o)' = NetsOf(orders'[o]) /\ ledger[o] = NetsOf(orders[o])
          /\ orders[o] \in OrderRow
        BY <1>1, ExpectedNetsIs, ExpectedNetsIsPrimed DEF BooksInv, LedgerMatchesReadModel, DbTypeOK
    <2>2. CASE o \notin LineIds(s)
        BY <2>1, <2>2, SettledRows
    <2>3. CASE o \in LineIds(s)
        <3> DEFINE row == orders[o]
                   new == orders'[o]
                   pending_ == -row.amount
                   received == row.amount - row.fee - 0
                   payout == row.amount - row.fee
        <3>1. /\ new = [row EXCEPT !.settlement = d] /\ d \in Days /\ row.settlement = NoDay
              /\ row.status \in {"PAID", "SHIPPED", "DELIVERED"} /\ row.fee \in Nat
              /\ ledger'[o] = PostSettlement(ledger[o], payout)
            BY <2>3, SettledRows
        <3>2. /\ new.settlement # NoDay /\ new.status = row.status /\ new.amount = row.amount
              /\ new.fee = row.fee /\ row.fee # NoFee /\ row.amount \in Nat
            BY <2>1, <3>1, DatabaseAssumption DEF OrderRow, Days, NoDay, NoFee
        <3>3. ledger[o] = Net(0, pending_, received, row.fee, 0)
            BY <2>1, <3>1, <3>2 DEF NetsOf
        <3>4. pending_ \in Int /\ received \in Int /\ payout \in Int
            BY <3>1, <3>2
        <3>5. NetsOf(new) = Net(0, pending_, row.amount - row.fee - payout, row.fee, payout)
            BY <3>1, <3>2 DEF NetsOf
        <3>6. received - payout = row.amount - row.fee - payout /\ 0 + payout = payout
            BY <3>1, <3>2
        <3> HIDE DEF row, new, pending_, received, payout
        <3>7. PostSettlement(Net(0, pending_, received, row.fee, 0), payout)
                = Net(0, pending_, received - payout, row.fee, 0 + payout)
            BY <3>1, <3>4, PostingNets
        <3>8. ledger'[o] = NetsOf(new)
            BY <3>1, <3>3, <3>5, <3>6, <3>7
        <3>9. QED BY <2>1, <3>8 DEF new
    <2>4. QED BY <2>2, <2>3
<1>9. QED BY <1>4, <1>5, <1>6, <1>7, <1>8 DEF BooksInv, LedgerMatchesReadModel

(***************************************************************************)
(* The theorem.                                                             *)
(***************************************************************************)
LEMMA BooksCalendar ==
    ASSUME IInv, BooksInv, CalendarStep
    PROVE  BooksInv'
<1>1. today \in Nat /\ today' = today + 1
      /\ UNCHANGED <<committedVars, pending, locks, orderVars, settleVars>>
    BY DatabaseAssumption DEF CalendarStep, AdvanceDay, IInv, TypeOK, DbTypeOK, Days
<1>2. ASSUME NEW w \in Workers PROVE EventFixed(w)' /\ SeenOK(w)' /\ PostedOK(w)' /\ HeldOK(w)'
    <2>1. EventFixed(w) /\ SeenOK(w) /\ PostedOK(w) /\ HeldOK(w)
        BY DEF BooksInv
    <2>2. EventFixed(w)'
        BY <1>1, <2>1 DEF EventFixed, EventKey, PayloadAmount, PayloadParty, orderVars, workVars
    <2>3. SeenOK(w)' /\ PostedOK(w)' /\ HeldOK(w)'
        BY <1>1, <2>1
           DEF SeenOK, PostedOK, PostedAmount, PostedFee, HeldOK, orderVars, workVars, committedVars
    <2>4. QED BY <2>2, <2>3
<1>3. ASSUME NEW o \in Orders PROVE RowOK(o)' /\ LockOK(o)'
    <2>1. RowOK(o) /\ LockOK(o) /\ orders[o].paidDay \in Nat
        BY DatabaseAssumption DEF BooksInv, IInv, TypeOK, DbTypeOK, OrderRow, Days, NoDay
    <2>2. RowOK(o)'
        BY <1>1, <2>1 DEF RowOK, PaidLike, committedVars
    <2>3. LockOK(o)'
        BY <1>1, <2>1 DEF LockOK, LineIds, committedVars, orderVars, workVars, settleVars
    <2>4. QED BY <2>2, <2>3
<1>4. \A s \in Settlers : LinesOK(s)'
    BY <1>1 DEF BooksInv, LinesOK, LineIds, committedVars, settleVars
<1>5. LedgerMatchesReadModel'
    BY <1>1 DEF BooksInv, LedgerMatchesReadModel, ExpectedNets, FeeTaken, PaidLike, committedVars
<1>6. QED BY <1>2, <1>3, <1>4, <1>5 DEF BooksInv

LEMMA BooksStutter ==
    ASSUME BooksInv, UNCHANGED vars
    PROVE  BooksInv'
<1> USE DEF vars, dbVars, orderVars, workVars, settleVars
<1>1. \A w \in Workers : EventFixed(w)' /\ SeenOK(w)' /\ PostedOK(w)' /\ HeldOK(w)'
    BY DEF BooksInv, EventFixed, EventKey, PayloadAmount, PayloadParty, SeenOK, PostedOK,
           PostedAmount, PostedFee, HeldOK
<1>2. \A o \in Orders : RowOK(o)' /\ LockOK(o)'
    BY DEF BooksInv, RowOK, PaidLike, LockOK, LineIds
<1>3. \A s \in Settlers : LinesOK(s)'
    BY DEF BooksInv, LinesOK, LineIds
<1>4. LedgerMatchesReadModel'
    BY DEF BooksInv, LedgerMatchesReadModel, ExpectedNets, FeeTaken, PaidLike
<1>5. QED BY <1>1, <1>2, <1>3, <1>4 DEF BooksInv

LEMMA BooksNext == IInv /\ IInv' /\ BooksInv /\ [Next]_vars => BooksInv'
<1> SUFFICES ASSUME IInv, IInv', BooksInv, [Next]_vars PROVE BooksInv'
    OBVIOUS
<1>1. ASSUME NEW w \in Workers, WorkerStep(w) PROVE BooksInv'
    BY <1>1, WorkerShapes, BooksWorkerQuiet, BooksPublish
<1>2. ASSUME NEW s \in Settlers, SettlerStep(s) PROVE BooksInv'
    BY <1>2, SettlerShapes, BooksSettlerQuiet, BooksPublishSettlement
<1>3. QED BY <1>1, <1>2, BooksCalendar, BooksStutter DEF Next

LEMMA BooksInvariance == Spec => []BooksInv
<1>1. Init => BooksInv
    BY BooksInit
<1>2. IInv /\ IInv' /\ BooksInv /\ [Next]_vars => BooksInv'
    BY BooksNext
<1>3. QED BY Invariance, <1>1, <1>2, PTL DEF Spec

\* The ledger of every order holds what its row says: a payment, a fee and a
\* payout are posted once each, and a refund reverses exactly what was posted,
\* whatever workers and settlers race for the order (FINANCIAL_RULES.md,
\* updateProjectionGuarded, the WHERE of the settlement's UPDATE).
THEOREM BooksAgree == Spec => []LedgerMatchesReadModel
<1>1. BooksInv => LedgerMatchesReadModel
    BY DEF BooksInv
<1>2. QED BY BooksInvariance, <1>1, PTL

(***************************************************************************)
(* The settlements add up, for any number of orders, settlers and days.      *)
(*                                                                         *)
(* The argument has two parts.  Sums: MapThenSumSet picks the elements of a  *)
(* set in an order CHOOSE decides; over a finite set the sum is the only     *)
(* function of the subsets that adds one element's value at a time           *)
(* (Additive), so it does not depend on that order, nor on whether it runs   *)
(* over the lines of a settlement or over the orders they name.  Such facts  *)
(* hold by induction over the subsets, written as the absence of a smallest  *)
(* counterexample (SmallestSubset).                                         *)
(*                                                                         *)
(* State: once an order is settled its amount and its fee stay (Books), and  *)
(* the event of a settlement's date keeps a second settlement of that date   *)
(* from committing (the gate), so the row of a date goes on being the total  *)
(* of the orders that carry it (DayOK).                                     *)
(***************************************************************************)

(***************************************************************************)
(* Sums over finite sets.                                                   *)
(***************************************************************************)

\* g is the sum of f over every subset of S.
Additive(g, f, S) ==
    /\ g \in [SUBSET S -> Int]
    /\ g[{}] = 0
    /\ \A s \in SUBSET S : \A x \in s : g[s] = f[x] + g[s \ {x}]

\* The recursive function inside MapThenSumSet.
SumsByChoice(g, f, S) ==
    g = [s \in SUBSET S |-> IF s = {} THEN 0
                            ELSE f[CHOOSE x \in s : TRUE] + g[s \ {CHOOSE x \in s : TRUE}]]

\* n is the sum of f over S.
IsTotal(n, f, S) == \E g : Additive(g, f, S) /\ n = g[S]

\* A set of subsets of a finite set has a smallest element.
LEMMA SmallestSubset ==
    ASSUME NEW S, IsFiniteSet(S), NEW Bad, Bad \subseteq SUBSET S, Bad # {}
    PROVE  \E T \in Bad : \A U \in Bad : U \subseteq T => U = T
<1>1. Bad \subseteq FiniteSubsetsOf(S)
    BY FS_Subset DEF FiniteSubsetsOf
<1>2. \E T \in Bad : \A U \in Bad : <<U, T>> \notin StrictSubsetOrdering(S)
    BY <1>1, FS_StrictSubsetOrderingWellFounded, WFMin
<1>3. QED BY <1>2 DEF StrictSubsetOrdering

LEMMA SumExists ==
    ASSUME NEW S, IsFiniteSet(S), NEW f \in [S -> Int]
    PROVE  \E g : Additive(g, f, S)
<1> DEFINE Bad == {T \in SUBSET S : ~\E g : Additive(g, f, T)}
<1>1. SUFFICES ASSUME Bad # {} PROVE FALSE
    OBVIOUS
<1>2. PICK T \in Bad : \A U \in Bad : U \subseteq T => U = T
    <2> HIDE DEF Bad
    <2>1. Bad \subseteq SUBSET S
        BY DEF Bad
    <2>2. QED BY <1>1, <2>1, SmallestSubset
<1>3. T \in SUBSET S /\ \A U \in SUBSET T : U # T => \E g : Additive(g, f, U)
    BY <1>2
<1>4. CASE T = {}
    <2> DEFINE zero == [s \in SUBSET {} |-> 0]
    <2>1. Additive(zero, f, {})
        BY DEF Additive
    <2>2. QED BY <1>2, <1>4, <2>1
<1>5. CASE T # {}
    <2>1. PICK x \in T : TRUE
        BY <1>5
    <2> DEFINE R == T \ {x}
    <2>2. PICK h : Additive(h, f, R)
        BY <1>3
    <2> DEFINE g == [s \in SUBSET T |-> IF x \in s THEN f[x] + h[s \ {x}] ELSE h[s]]
    <2>3. /\ h \in [SUBSET R -> Int] /\ h[{}] = 0
          /\ \A s \in SUBSET R : \A y \in s : h[s] = f[y] + h[s \ {y}]
        BY <2>2 DEF Additive
    <2>4. \A s \in SUBSET T : s \ {x} \in SUBSET R /\ (x \notin s => s \in SUBSET R)
        OBVIOUS
    <2>5. \A y \in T : f[y] \in Int
        BY <1>3
    <2>6. g \in [SUBSET T -> Int] /\ g[{}] = 0
        BY <2>1, <2>3, <2>4, <2>5
    <2>7. ASSUME NEW s \in SUBSET T, NEW y \in s PROVE g[s] = f[y] + g[s \ {y}]
        <3>1. CASE y = x
            <4>1. g[s] = f[x] + h[s \ {x}] /\ g[s \ {x}] = h[s \ {x}]
                BY <2>7, <3>1
            <4>2. QED BY <3>1, <4>1
        <3>2. CASE y # x /\ x \in s
            <4>1. g[s] = f[x] + h[s \ {x}] /\ g[s \ {y}] = f[x] + h[(s \ {y}) \ {x}]
                BY <2>7, <3>2
            <4>2. s \ {x} \in SUBSET R /\ y \in s \ {x} /\ (s \ {x}) \ {y} = (s \ {y}) \ {x}
                BY <2>4, <2>7, <3>2
            <4>3. h[s \ {x}] = f[y] + h[(s \ {x}) \ {y}]
                BY <2>3, <4>2
            <4>4. (s \ {y}) \ {x} \in SUBSET R
                BY <2>4, <2>7
            <4>5. h[s \ {x}] = f[y] + h[(s \ {y}) \ {x}] /\ (s \ {y}) \ {x} \in SUBSET R
                BY <4>2, <4>3, <4>4
            <4>6. f[x] \in Int /\ f[y] \in Int /\ h[(s \ {y}) \ {x}] \in Int
                BY <2>1, <2>3, <2>5, <2>7, <4>5
            <4> HIDE DEF g
            <4>7. QED BY <4>1, <4>5, <4>6
        <3>3. CASE y # x /\ x \notin s
            <4>1. g[s] = h[s] /\ g[s \ {y}] = h[s \ {y}] /\ s \in SUBSET R
                BY <2>4, <2>7, <3>3
            <4>2. QED BY <2>3, <2>7, <4>1
        <3>4. QED BY <3>1, <3>2, <3>3
    <2> HIDE DEF g
    <2>8. Additive(g, f, T)
        BY <2>6, <2>7 DEF Additive
    <2>9. QED BY <1>2, <2>8
<1>6. QED BY <1>4, <1>5

\* The sum that follows CHOOSE adds the elements in any other order as well.
LEMMA SumByChoiceIsAdditive ==
    ASSUME NEW S, IsFiniteSet(S), NEW f \in [S -> Int], NEW g, SumsByChoice(g, f, S)
    PROVE  Additive(g, f, S)
<1>1. PICK h : Additive(h, f, S)
    BY SumExists
<1> DEFINE Bad == {s \in SUBSET S : g[s] # h[s]}
<1>2. CASE Bad = {}
    <2>1. g \in [SUBSET S -> Int] /\ \A s \in SUBSET S : g[s] = h[s]
        <3>1. g = [s \in SUBSET S |-> g[s]]
            BY DEF SumsByChoice
        <3>2. \A s \in SUBSET S : g[s] = h[s]
            BY <1>2
        <3>3. \A s \in SUBSET S : h[s] \in Int
            BY <1>1 DEF Additive
        <3>4. QED BY <3>1, <3>2, <3>3
    <2>2. g[{}] = 0
        BY <1>1, <2>1 DEF Additive
    <2>3. ASSUME NEW s \in SUBSET S, NEW x \in s PROVE g[s] = f[x] + g[s \ {x}]
        <3>1. s \ {x} \in SUBSET S
            OBVIOUS
        <3>2. QED BY <1>1, <2>1, <3>1 DEF Additive
    <2>4. QED BY <2>1, <2>2, <2>3 DEF Additive
<1>3. CASE Bad # {}
    <2>1. PICK T \in Bad : \A U \in Bad : U \subseteq T => U = T
        <3> HIDE DEF Bad
        <3>1. Bad \subseteq SUBSET S
            BY DEF Bad
        <3>2. QED BY <1>3, <3>1, SmallestSubset
    <2>2. T \in SUBSET S /\ g[T] # h[T]
        OBVIOUS
    <2>3. g[T] = IF T = {} THEN 0 ELSE f[CHOOSE x \in T : TRUE] + g[T \ {CHOOSE x \in T : TRUE}]
        BY <2>2 DEF SumsByChoice
    <2>4. CASE T = {}
        BY <1>1, <2>2, <2>3, <2>4 DEF Additive
    <2>5. CASE T # {}
        <3> DEFINE x == CHOOSE y \in T : TRUE
        <3>1. x \in T /\ T \ {x} \in SUBSET S
            BY <2>2, <2>5
        <3>2. g[T] = f[x] + g[T \ {x}]
            BY <2>3, <2>5
        <3> HIDE DEF x
        <3>3. g[T \ {x}] = h[T \ {x}]
            BY <2>1, <3>1
        <3>4. h[T] = f[x] + h[T \ {x}]
            BY <1>1, <2>2, <3>1 DEF Additive
        <3>5. QED BY <2>2, <3>2, <3>3, <3>4
    <2>6. QED BY <2>4, <2>5
<1>4. QED BY <1>2, <1>3

\* A sum over S is the sum over what S is mapped to, one to one.
LEMMA TotalOfImage ==
    ASSUME NEW S, IsFiniteSet(S), NEW T, NEW phi \in [S -> T],
           \A x, y \in S : phi[x] = phi[y] => x = y,
           T = {phi[x] : x \in S},
           NEW f, NEW k, \A x \in S : f[x] = k[phi[x]],
           NEW n, NEW m, IsTotal(n, f, S), IsTotal(m, k, T)
    PROVE  n = m
<1>1. PICK g : Additive(g, f, S) /\ n = g[S]
    BY DEF IsTotal
<1>2. PICK h : Additive(h, k, T) /\ m = h[T]
    BY DEF IsTotal
<1> DEFINE Image(s) == {phi[x] : x \in s}
           Bad == {s \in SUBSET S : g[s] # h[Image(s)]}
<1>3. CASE Bad = {}
    <2>1. S \in SUBSET S /\ Image(S) = T
        OBVIOUS
    <2>2. QED BY <1>1, <1>2, <1>3, <2>1
<1>4. CASE Bad # {}
    <2>1. PICK s \in Bad : \A U \in Bad : U \subseteq s => U = s
        <3> HIDE DEF Bad
        <3>1. Bad \subseteq SUBSET S
            BY DEF Bad
        <3>2. QED BY <1>4, <3>1, SmallestSubset
    <2>2. s \in SUBSET S /\ g[s] # h[Image(s)]
        OBVIOUS
    <2>3. CASE s = {}
        <3>1. Image(s) = {}
            BY <2>3
        <3>2. QED BY <1>1, <1>2, <2>2, <2>3, <3>1 DEF Additive
    <2>4. CASE s # {}
        <3>1. PICK x \in s : TRUE
            BY <2>4
        <3>2. Image(s \ {x}) = Image(s) \ {phi[x]} /\ Image(s) \in SUBSET T /\ phi[x] \in Image(s)
            BY <2>2, <3>1
        <3>3. s \ {x} \in SUBSET S /\ s \ {x} \subseteq s /\ s \ {x} # s
            BY <2>2, <3>1
        <3>4. s \ {x} \notin Bad
            <4> HIDE DEF Bad
            <4>1. QED BY <2>1, <3>3
        <3>5. g[s \ {x}] = h[Image(s \ {x})]
            BY <3>3, <3>4
        <3>6. g[s] = f[x] + g[s \ {x}]
            BY <1>1, <2>2, <3>1 DEF Additive
        <3> HIDE DEF Image
        <3>7. h[Image(s)] = k[phi[x]] + h[Image(s) \ {phi[x]}]
            BY <1>2, <3>2 DEF Additive
        <3>8. QED BY <2>2, <3>1, <3>2, <3>5, <3>6, <3>7
    <2>5. QED BY <2>3, <2>4
<1>5. QED BY <1>3, <1>4

LEMMA TotalOfImageIs ==
    ASSUME NEW S, IsFiniteSet(S), NEW T, IsFiniteSet(T), NEW phi \in [S -> T],
           \A x, y \in S : phi[x] = phi[y] => x = y,
           T = {phi[x] : x \in S},
           NEW f, NEW k \in [T -> Int], \A x \in S : f[x] = k[phi[x]],
           NEW n, IsTotal(n, f, S)
    PROVE  IsTotal(n, k, T)
<1>1. PICK h : Additive(h, k, T)
    BY SumExists
<1>2. IsTotal(h[T], k, T)
    BY <1>1 DEF IsTotal
<1>3. QED BY <1>2, TotalOfImage

LEMMA TotalIsUnique ==
    ASSUME NEW S, IsFiniteSet(S), NEW f, NEW n, NEW m, IsTotal(n, f, S), IsTotal(m, f, S)
    PROVE  n = m
<1> DEFINE phi == [x \in S |-> x]
<1>1. /\ phi \in [S -> S] /\ \A x, y \in S : phi[x] = phi[y] => x = y
      /\ S = {phi[x] : x \in S} /\ \A x \in S : f[x] = f[phi[x]]
    OBVIOUS
<1> HIDE DEF phi
<1>2. QED BY <1>1, TotalOfImage

LEMMA TotalOfDifference ==
    ASSUME NEW S, NEW f \in [S -> Int], NEW k \in [S -> Int], NEW d,
           \A x \in S : d[x] = f[x] - k[x],
           NEW n, NEW m, IsTotal(n, f, S), IsTotal(m, k, S)
    PROVE  IsTotal(n - m, d, S)
<1>1. PICK g : Additive(g, f, S) /\ n = g[S]
    BY DEF IsTotal
<1>2. PICK h : Additive(h, k, S) /\ m = h[S]
    BY DEF IsTotal
<1> DEFINE e == [s \in SUBSET S |-> g[s] - h[s]]
<1>3. \A s \in SUBSET S : g[s] \in Int /\ h[s] \in Int
    BY <1>1, <1>2 DEF Additive
<1>4. e \in [SUBSET S -> Int] /\ e[{}] = 0
    BY <1>1, <1>2, <1>3 DEF Additive
<1>5. ASSUME NEW s \in SUBSET S, NEW x \in s PROVE e[s] = d[x] + e[s \ {x}]
    <2>1. g[s] = f[x] + g[s \ {x}] /\ h[s] = k[x] + h[s \ {x}]
        BY <1>1, <1>2 DEF Additive
    <2>2. /\ d[x] = f[x] - k[x] /\ f[x] \in Int /\ k[x] \in Int
          /\ s \ {x} \in SUBSET S /\ g[s \ {x}] \in Int /\ h[s \ {x}] \in Int
        BY <1>3
    <2>3. e[s] = g[s] - h[s] /\ e[s \ {x}] = g[s \ {x}] - h[s \ {x}]
        BY <2>2
    <2> HIDE DEF e
    <2>4. QED BY <2>1, <2>2, <2>3
<1>6. e[S] = n - m
    BY <1>1, <1>2
<1> HIDE DEF e
<1>7. Additive(e, d, S)
    BY <1>4, <1>5 DEF Additive
<1>8. QED BY <1>6, <1>7 DEF IsTotal

\* A sum over two disjoint parts.
LEMMA SumOfUnion ==
    ASSUME NEW S, IsFiniteSet(S), NEW f \in [S -> Int], NEW g, Additive(g, f, S),
           NEW A, A \subseteq S, NEW B, B \subseteq S, A \cap B = {}
    PROVE  g[A \cup B] = g[A] + g[B]
<1> DEFINE Bad == {T \in SUBSET S : T \subseteq B /\ g[A \cup T] # g[A] + g[T]}
<1>1. SUFFICES ASSUME Bad # {} PROVE FALSE
    OBVIOUS
<1>2. PICK T \in Bad : \A U \in Bad : U \subseteq T => U = T
    <2> HIDE DEF Bad
    <2>1. Bad \subseteq SUBSET S
        BY DEF Bad
    <2>2. QED BY <1>1, <2>1, SmallestSubset
<1>3. T \in SUBSET S /\ T \subseteq B /\ g[A \cup T] # g[A] + g[T]
    OBVIOUS
<1>4. \A s \in SUBSET S : g[s] \in Int
    BY DEF Additive
<1>5. CASE T = {}
    <2>1. A \cup T = A
        BY <1>5
    <2>2. g[A \cup T] = g[A] /\ g[T] = 0 /\ g[A] \in Int
        BY <1>4, <1>5, <2>1 DEF Additive
    <2> HIDE DEF Bad
    <2>3. QED BY <1>3, <2>2
<1>6. CASE T # {}
    <2>1. PICK x \in T : TRUE
        BY <1>6
    <2> DEFINE R == T \ {x}
    <2>2. R \in SUBSET S /\ R \subseteq T /\ R # T /\ R \subseteq B
        BY <1>3, <2>1
    <2>3. g[A \cup R] = g[A] + g[R]
        <3>1. R \notin Bad
            <4> HIDE DEF Bad, R
            <4>1. QED BY <1>2, <2>2
        <3>2. QED BY <2>2, <3>1
    <2>4. (A \cup T) \ {x} = A \cup R /\ x \in A \cup T /\ A \cup T \in SUBSET S
        BY <1>3, <2>1
    <2>5. g[A \cup T] = f[x] + g[A \cup R] /\ g[T] = f[x] + g[R]
        BY <1>3, <2>1, <2>4 DEF Additive
    <2>6. f[x] \in Int /\ g[A] \in Int /\ g[R] \in Int
        BY <1>3, <1>4, <2>1, <2>2
    <2> HIDE DEF R, Bad
    <2>7. QED BY <1>3, <2>3, <2>5, <2>6
<1>7. QED BY <1>5, <1>6

\* The part of a sum.
LEMMA PartOfSum ==
    ASSUME NEW S, IsFiniteSet(S), NEW f \in [S -> Int], NEW g, Additive(g, f, S),
           NEW A, A \subseteq S, NEW k, \A x \in A : k[x] = f[x], NEW n, IsTotal(n, k, A)
    PROVE  n = g[A]
<1> DEFINE h == [s \in SUBSET A |-> g[s]]
<1>1. IsFiniteSet(A)
    BY FS_Subset
<1>2. Additive(h, k, A)
    BY DEF Additive
<1>3. IsTotal(g[A], k, A)
    <2>1. h[A] = g[A]
        OBVIOUS
    <2> HIDE DEF h
    <2>2. QED BY <1>2, <2>1 DEF IsTotal
<1>4. QED BY <1>1, <1>3, TotalIsUnique

\* A sum over sets that do not overlap is the sum of their sums.
LEMMA TotalOfParts ==
    ASSUME NEW D, IsFiniteSet(D), NEW S, IsFiniteSet(S), NEW part \in [D -> SUBSET S],
           \A d, e \in D : d # e => part[d] \cap part[e] = {},
           NEW f \in [S -> Int], NEW n, \A d \in D : IsTotal(n[d], [x \in part[d] |-> f[x]], part[d]),
           NEW m, IsTotal(m, n, D),
           NEW total, IsTotal(total, f, UNION {part[d] : d \in D})
    PROVE  total = m
<1>1. PICK g : Additive(g, f, S)
    BY SumExists
<1>2. PICK h : Additive(h, n, D) /\ m = h[D]
    BY DEF IsTotal
<1>3. \A A, B : A \subseteq S /\ B \subseteq S /\ A \cap B = {} => g[A \cup B] = g[A] + g[B]
    BY <1>1, SumOfUnion
<1> DEFINE Joined(E) == UNION {part[d] : d \in E}
           Bad == {E \in SUBSET D : h[E] # g[Joined(E)]}
<1>4. \A E \in SUBSET D : Joined(E) \subseteq S
    OBVIOUS
<1>5. ASSUME NEW d \in D PROVE n[d] = g[part[d]]
    <2> DEFINE k == [x \in part[d] |-> f[x]]
    <2>1. part[d] \subseteq S /\ (\A x \in part[d] : k[x] = f[x]) /\ IsTotal(n[d], k, part[d])
        OBVIOUS
    <2> HIDE DEF k
    <2>2. QED BY <1>1, <2>1, PartOfSum
<1>6. CASE Bad = {}
    <2>1. h[D] = g[Joined(D)]
        BY <1>6
    <2>2. total = g[Joined(D)]
        <3>1. Joined(D) \subseteq S /\ IsTotal(total, f, Joined(D)) /\ \A x \in Joined(D) : f[x] = f[x]
            BY <1>4
        <3> HIDE DEF Joined
        <3>2. QED BY <1>1, <3>1, PartOfSum
    <2>3. QED BY <1>2, <2>1, <2>2
<1>7. CASE Bad # {}
    <2>1. PICK E \in Bad : \A U \in Bad : U \subseteq E => U = E
        <3> HIDE DEF Bad
        <3>1. Bad \subseteq SUBSET D
            BY DEF Bad
        <3>2. QED BY <1>7, <3>1, SmallestSubset
    <2>2. E \in SUBSET D /\ h[E] # g[Joined(E)]
        OBVIOUS
    <2>3. CASE E = {}
        <3>1. Joined(E) = {}
            BY <2>3
        <3>2. QED BY <1>1, <1>2, <2>2, <2>3, <3>1 DEF Additive
    <2>4. CASE E # {}
        <3>1. PICK d \in E : TRUE
            BY <2>4
        <3> DEFINE R == E \ {d}
        <3>2. R \in SUBSET D /\ R \subseteq E /\ R # E /\ d \in D
            BY <2>2, <3>1
        <3>3. h[R] = g[Joined(R)]
            <4>1. R \notin Bad
                <5> HIDE DEF Bad, R
                <5>1. QED BY <2>1, <3>2
            <4>2. QED BY <3>2, <4>1
        <3>4. Joined(E) = part[d] \cup Joined(R)
            BY <3>1
        <3>5. part[d] \cap Joined(R) = {}
            BY <2>2, <3>2
        <3>6. Joined(R) \subseteq S /\ part[d] \subseteq S
            BY <1>4, <3>2
        <3>7. h[E] = n[d] + h[R]
            BY <1>2, <2>2, <3>1 DEF Additive
        <3> HIDE DEF R, Joined, Bad
        <3>8. g[part[d] \cup Joined(R)] = g[part[d]] + g[Joined(R)]
            BY <1>3, <3>5, <3>6
        <3>9. QED BY <1>5, <2>2, <3>2, <3>3, <3>4, <3>7, <3>8
    <2>5. QED BY <2>3, <2>4
<1>8. QED BY <1>6, <1>7

\* A sum of greater values is greater.
LEMMA TotalGrows ==
    ASSUME NEW S, IsFiniteSet(S), NEW f \in [S -> Int], NEW k \in [S -> Int],
           \A x \in S : f[x] <= k[x], NEW n, NEW m, IsTotal(n, f, S), IsTotal(m, k, S)
    PROVE  n <= m
<1>1. PICK g : Additive(g, f, S) /\ n = g[S]
    BY DEF IsTotal
<1>2. PICK h : Additive(h, k, S) /\ m = h[S]
    BY DEF IsTotal
<1> DEFINE Bad == {s \in SUBSET S : ~(g[s] <= h[s])}
<1>3. CASE Bad = {}
    <2>1. S \in SUBSET S
        OBVIOUS
    <2>2. QED BY <1>1, <1>2, <1>3, <2>1
<1>4. CASE Bad # {}
    <2>1. PICK s \in Bad : \A U \in Bad : U \subseteq s => U = s
        <3> HIDE DEF Bad
        <3>1. Bad \subseteq SUBSET S
            BY DEF Bad
        <3>2. QED BY <1>4, <3>1, SmallestSubset
    <2>2. s \in SUBSET S /\ ~(g[s] <= h[s])
        OBVIOUS
    <2>3. CASE s = {}
        BY <1>1, <1>2, <2>2, <2>3 DEF Additive
    <2>4. CASE s # {}
        <3>1. PICK x \in s : TRUE
            BY <2>4
        <3> DEFINE R == s \ {x}
        <3>2. R \in SUBSET S /\ R \subseteq s /\ R # s /\ x \in S
            BY <2>2, <3>1
        <3>3. g[R] <= h[R]
            <4>1. R \notin Bad
                <5> HIDE DEF Bad, R
                <5>1. QED BY <2>1, <3>2
            <4>2. QED BY <3>2, <4>1
        <3>4. g[s] = f[x] + g[R] /\ h[s] = k[x] + h[R]
            BY <1>1, <1>2, <2>2, <3>1 DEF Additive
        <3>5. f[x] \in Int /\ k[x] \in Int /\ f[x] <= k[x] /\ g[R] \in Int /\ h[R] \in Int
            BY <1>1, <1>2, <3>2 DEF Additive
        <3> HIDE DEF R, Bad
        <3>6. QED BY <2>2, <3>3, <3>4, <3>5
    <2>5. QED BY <2>3, <2>4
<1>5. QED BY <1>3, <1>4
(***************************************************************************)
(* The sums of the model are totals.                                        *)
(***************************************************************************)

\* The gross and the fees of a settlement are the totals of its lines.
LEMMA GrossIsTotal ==
    ASSUME NEW ls, ls \subseteq Line, IsFiniteSet(ls)
    PROVE  IsTotal(GrossOf(ls), [l \in ls |-> l.amount], ls)
<1> DEFINE f == [l \in ls |-> l.amount]
           G == CHOOSE g : g = [s \in SUBSET ls |->
                    IF s = {} THEN 0
                    ELSE (CHOOSE x \in s : TRUE).amount + g[s \ {CHOOSE x \in s : TRUE}]]
<1>1. f \in [ls -> Int] /\ \A s \in SUBSET ls : s # {} => (CHOOSE x \in s : TRUE) \in ls
    BY DEF Line
<1>2. PICK h : Additive(h, f, ls)
    BY <1>1, SumExists
<1>3. h = [s \in SUBSET ls |->
              IF s = {} THEN 0
              ELSE (CHOOSE x \in s : TRUE).amount + h[s \ {CHOOSE x \in s : TRUE}]]
    BY <1>1, <1>2 DEF Additive
<1>4. G = [s \in SUBSET ls |->
              IF s = {} THEN 0
              ELSE (CHOOSE x \in s : TRUE).amount + G[s \ {CHOOSE x \in s : TRUE}]]
    BY <1>3
<1>5. GrossOf(ls) = G[ls]
    BY DEF GrossOf, MapThenSumSet, MapThenFoldSet
<1> HIDE DEF G
<1>6. SumsByChoice(G, f, ls)
    BY <1>1, <1>4 DEF SumsByChoice
<1>7. IsTotal(G[ls], f, ls)
    <2> HIDE DEF f
    <2>1. QED BY <1>1, <1>6, SumByChoiceIsAdditive DEF IsTotal
<1>8. QED BY <1>5, <1>7

LEMMA FeesIsTotal ==
    ASSUME NEW ls, ls \subseteq Line, IsFiniteSet(ls)
    PROVE  IsTotal(FeesOf(ls), [l \in ls |-> l.fee], ls)
<1> DEFINE f == [l \in ls |-> l.fee]
           G == CHOOSE g : g = [s \in SUBSET ls |->
                    IF s = {} THEN 0
                    ELSE (CHOOSE x \in s : TRUE).fee + g[s \ {CHOOSE x \in s : TRUE}]]
<1>1. f \in [ls -> Int] /\ \A s \in SUBSET ls : s # {} => (CHOOSE x \in s : TRUE) \in ls
    BY DEF Line
<1>2. PICK h : Additive(h, f, ls)
    BY <1>1, SumExists
<1>3. h = [s \in SUBSET ls |->
              IF s = {} THEN 0
              ELSE (CHOOSE x \in s : TRUE).fee + h[s \ {CHOOSE x \in s : TRUE}]]
    BY <1>1, <1>2 DEF Additive
<1>4. G = [s \in SUBSET ls |->
              IF s = {} THEN 0
              ELSE (CHOOSE x \in s : TRUE).fee + G[s \ {CHOOSE x \in s : TRUE}]]
    BY <1>3
<1>5. FeesOf(ls) = G[ls]
    BY DEF FeesOf, MapThenSumSet, MapThenFoldSet
<1> HIDE DEF G
<1>6. SumsByChoice(G, f, ls)
    BY <1>1, <1>4 DEF SumsByChoice
<1>7. IsTotal(G[ls], f, ls)
    <2> HIDE DEF f
    <2>1. QED BY <1>1, <1>6, SumByChoiceIsAdditive DEF IsTotal
<1>8. QED BY <1>5, <1>7

\* The two sums of SettlementsAddUp are totals over the settled orders.
LEMMA AmountsTotal ==
    ASSUME DbTypeOK, NEW S, S \subseteq Orders, IsFiniteSet(S)
    PROVE  IsTotal(MapThenSumSet(LAMBDA o : orders[o].amount, S), [o \in S |-> orders[o].amount], S)
<1> DEFINE f == [o \in S |-> orders[o].amount]
           G == CHOOSE g : g = [s \in SUBSET S |->
                    IF s = {} THEN 0
                    ELSE orders[(CHOOSE x \in s : TRUE)].amount + g[s \ {CHOOSE x \in s : TRUE}]]
<1>1. f \in [S -> Int] /\ \A s \in SUBSET S : s # {} => (CHOOSE x \in s : TRUE) \in S
    BY DEF DbTypeOK, OrderRow
<1>2. PICK h : Additive(h, f, S)
    BY <1>1, SumExists
<1>3. h = [s \in SUBSET S |->
              IF s = {} THEN 0
              ELSE orders[(CHOOSE x \in s : TRUE)].amount + h[s \ {CHOOSE x \in s : TRUE}]]
    BY <1>1, <1>2 DEF Additive
<1>4. G = [s \in SUBSET S |->
              IF s = {} THEN 0
              ELSE orders[(CHOOSE x \in s : TRUE)].amount + G[s \ {CHOOSE x \in s : TRUE}]]
    BY <1>3
<1>5. MapThenSumSet(LAMBDA o : orders[o].amount, S) = G[S]
    BY DEF MapThenSumSet, MapThenFoldSet
<1> HIDE DEF G
<1>6. SumsByChoice(G, f, S)
    BY <1>1, <1>4 DEF SumsByChoice
<1>7. IsTotal(G[S], f, S)
    <2> HIDE DEF f
    <2>1. QED BY <1>1, <1>6, SumByChoiceIsAdditive DEF IsTotal
<1>8. QED BY <1>5, <1>7

LEMMA PayoutsTotal ==
    ASSUME DbTypeOK, NEW S, S \subseteq Orders, IsFiniteSet(S)
    PROVE  IsTotal(MapThenSumSet(LAMBDA o : ledger[o]["seller_payout"], S), [o \in S |-> ledger[o]["seller_payout"]], S)
<1> DEFINE f == [o \in S |-> ledger[o]["seller_payout"]]
           G == CHOOSE g : g = [s \in SUBSET S |->
                    IF s = {} THEN 0
                    ELSE ledger[(CHOOSE x \in s : TRUE)]["seller_payout"] + g[s \ {CHOOSE x \in s : TRUE}]]
<1>1. f \in [S -> Int] /\ \A s \in SUBSET S : s # {} => (CHOOSE x \in s : TRUE) \in S
    BY DEF DbTypeOK, Accounts
<1>2. PICK h : Additive(h, f, S)
    BY <1>1, SumExists
<1>3. h = [s \in SUBSET S |->
              IF s = {} THEN 0
              ELSE ledger[(CHOOSE x \in s : TRUE)]["seller_payout"] + h[s \ {CHOOSE x \in s : TRUE}]]
    BY <1>1, <1>2 DEF Additive
<1>4. G = [s \in SUBSET S |->
              IF s = {} THEN 0
              ELSE ledger[(CHOOSE x \in s : TRUE)]["seller_payout"] + G[s \ {CHOOSE x \in s : TRUE}]]
    BY <1>3
<1>5. MapThenSumSet(LAMBDA o : ledger[o]["seller_payout"], S) = G[S]
    BY DEF MapThenSumSet, MapThenFoldSet
<1> HIDE DEF G
<1>6. SumsByChoice(G, f, S)
    BY <1>1, <1>4 DEF SumsByChoice
<1>7. IsTotal(G[S], f, S)
    <2> HIDE DEF f
    <2>1. QED BY <1>1, <1>6, SumByChoiceIsAdditive DEF IsTotal
<1>8. QED BY <1>5, <1>7

(***************************************************************************)
(* The inductive invariant, on top of IInv and BooksInv.                     *)
(***************************************************************************)
Settled(d) == {o \in Orders : orders[o].settlement = d}
WrittenOrders == {o \in Orders : orders[o].status # "NONE"}

\* The row of a date is the total of the orders that carry the date, and once
\* it exists the event that settled them is stored.
DayOK(d) ==
    LET row == settlements[d]
    IN  /\ row.lines = Settled(d)
        /\ IsTotal(row.gross, [o \in Settled(d) |-> orders[o].amount], Settled(d))
        /\ IsTotal(row.fees, [o \in Settled(d) |-> orders[o].fee], Settled(d))
        /\ row.payout = row.gross - row.fees
        /\ row.exists \/ Settled(d) # {} =>
             \E e \in events : e.agg = SettlementAggregate(d) /\ e.version = 1

SettledInv == IsFiniteSet(WrittenOrders) /\ \A d \in Days : DayOK(d)

\* What a date depends on.
LEMMA DayFrame ==
    ASSUME NEW d, DayOK(d), settlements'[d] = settlements[d], events \subseteq events',
           \A o \in Orders : orders'[o].settlement = d <=> orders[o].settlement = d,
           \A o \in Settled(d) : /\ orders'[o].amount = orders[o].amount
                                 /\ orders'[o].fee = orders[o].fee
    PROVE  DayOK(d)'
<1>1. Settled(d)' = Settled(d)
    BY DEF Settled
<1>2. /\ [o \in Settled(d) |-> orders'[o].amount] = [o \in Settled(d) |-> orders[o].amount]
      /\ [o \in Settled(d) |-> orders'[o].fee] = [o \in Settled(d) |-> orders[o].fee]
    OBVIOUS
<1>3. IsTotal(settlements'[d].gross, [o \in Settled(d)' |-> orders'[o].amount], Settled(d)')
    BY <1>1, <1>2 DEF DayOK
<1>4. IsTotal(settlements'[d].fees, [o \in Settled(d)' |-> orders'[o].fee], Settled(d)')
    BY <1>1, <1>2 DEF DayOK
<1>5. /\ settlements'[d].lines = Settled(d)'
      /\ settlements'[d].payout = settlements'[d].gross - settlements'[d].fees
      /\ settlements'[d].exists \/ Settled(d)' # {} =>
           \E e \in events' : e.agg = SettlementAggregate(d) /\ e.version = 1
    BY <1>1 DEF DayOK
<1>6. QED BY <1>3, <1>4, <1>5 DEF DayOK

LEMMA SettledInit == Init => SettledInv
<1> SUFFICES ASSUME Init PROVE SettledInv
    OBVIOUS
<1>1. orders = [o \in Orders |-> NoRow] /\ settlements = [d \in Days |-> NoSettlement]
    BY DEF Init, DbInit
<1>2. IsFiniteSet(WrittenOrders)
    <2>1. WrittenOrders = {}
        BY <1>1 DEF WrittenOrders, NoRow
    <2>2. QED BY <2>1, FS_EmptySet
<1>3. ASSUME NEW d \in Days PROVE DayOK(d)
    <2>1. Settled(d) = {}
        BY <1>1 DEF Settled, NoRow, Days, NoDay
    <2>2. ASSUME NEW f PROVE IsTotal(0, f, {})
        <3> DEFINE zero == [s \in SUBSET {} |-> 0]
        <3>1. Additive(zero, f, {}) /\ zero[{}] = 0
            BY DEF Additive
        <3>2. QED BY <3>1 DEF IsTotal
    <2>3. settlements[d] = NoSettlement
        BY <1>1
    <2>4. QED BY <2>1, <2>2, <2>3 DEF DayOK, NoSettlement
<1>4. QED BY <1>2, <1>3 DEF SettledInv

\* A mutation leaves every settlement as it is: it writes one row, and of a row
\* that is settled neither the amount nor the fee nor the settlement.
LEMMA SettledPublish ==
    ASSUME IInv, BooksInv, SettledInv, NEW w \in Workers, Publishes(w)
    PROVE  SettledInv'
<1>1. PICK o \in Orders : o = target[w]
    BY CommitFacts DEF Publishes
<1>2. /\ RowKept(orders[o], orders'[o]) /\ RowOK(o) /\ settlements' = settlements
      /\ events \subseteq events' /\ \A x \in Orders \ {o} : orders'[x] = orders[x]
    BY <1>1, PublishedRow, PublishedRows DEF BooksInv
<1>3. IsFiniteSet(WrittenOrders)'
    <2>1. WrittenOrders' \subseteq WrittenOrders \cup {o}
        BY <1>2 DEF WrittenOrders
    <2>2. QED BY <2>1, FS_AddElement, FS_Subset DEF SettledInv
<1>4. ASSUME NEW d \in Days PROVE DayOK(d)'
    <2>1. \A x \in Orders : orders'[x].settlement = d <=> orders[x].settlement = d
        BY <1>2 DEF RowKept
    <2>2. ASSUME NEW x \in Settled(d)
          PROVE  orders'[x].amount = orders[x].amount /\ orders'[x].fee = orders[x].fee
        BY <1>2 DEF Settled, RowKept, RowOK, PaidLike, Days, NoDay
    <2>3. QED BY <1>2, <2>1, <2>2, DayFrame DEF SettledInv
<1>5. QED BY <1>3, <1>4 DEF SettledInv

\* A settlement marks exactly its lines, on a date nobody has settled.
LEMMA SettledPublishSettlement ==
    ASSUME IInv, BooksInv, SettledInv, NEW s \in Settlers, PublishesSettlement(s)
    PROVE  SettledInv'
<1> DEFINE ids == LineIds(s)
<1>1. /\ spc[s] = "mark" /\ PublishSettlement(s) /\ lines[s] \subseteq Line /\ LinesOK(s)
      /\ pending[s] = SettlementEvent(s) /\ pending[s] # NoEvent /\ s \in Tx
      /\ \A e \in events : ~Clash(e, pending[s])
      /\ settlements \in [Days -> SettlementRow]
    BY DEF PublishesSettlement, IInv, TypeOK, DbTypeOK, SettlementTypeOK, SettlerOK, BooksInv, Tx,
           SettlementEvent, NoEvent, GateOK
<1>2. ids \subseteq Orders /\ scall[s].day \in Days
    BY <1>1 DEF LineIds, Line, SettlerOK, IInv, SettleCall
<1>3. PICK day \in Days : day = scall[s].day
    BY <1>2
<1>4. ASSUME NEW o \in Orders
      PROVE  /\ orders'[o].amount = orders[o].amount /\ orders'[o].fee = orders[o].fee
             /\ orders'[o].status = orders[o].status
             /\ orders'[o].settlement = IF o \in ids THEN day ELSE orders[o].settlement
             /\ o \in ids => orders[o].status # "NONE" /\ orders[o].settlement = NoDay
    <2>1. orders[o] \in OrderRow
        BY DEF IInv, TypeOK, DbTypeOK
    <2>2. CASE o \in ids
        <3>1. /\ orders'[o] = [orders[o] EXCEPT !.settlement = day]
              /\ orders[o].status \in {"PAID", "SHIPPED", "DELIVERED"}
              /\ orders[o].settlement = NoDay
            BY <1>3, <2>2, SettledRows
        <3>2. QED BY <2>1, <2>2, <3>1 DEF OrderRow
    <2>3. CASE o \notin ids
        <3>1. orders'[o] = orders[o]
            BY <2>3, SettledRows
        <3>2. QED BY <2>3, <3>1
    <2>4. QED BY <2>2, <2>3
<1>5. IsFiniteSet(WrittenOrders)'
    <2>1. WrittenOrders' = WrittenOrders
        BY <1>4 DEF WrittenOrders
    <2>2. QED BY <2>1 DEF SettledInv
<1>6. ASSUME NEW d \in Days, d # day PROVE DayOK(d)'
    <2>1. settlements'[d] = settlements[d] /\ events \subseteq events'
        BY <1>1, <1>6, <1>3 DEF PublishSettlement
    <2>2. \A o \in Orders : orders'[o].settlement = d <=> orders[o].settlement = d
        BY <1>4, <1>6 DEF Days, NoDay
    <2>3. QED BY <1>4, <2>1, <2>2, DayFrame DEF SettledInv, Settled
<1>7. DayOK(day)'
    <2>1. Settled(day) = {}
        <3>1. ASSUME NEW e \in events, e.agg = SettlementAggregate(day), e.version = 1 PROVE FALSE
            BY <1>1, <1>3, <3>1 DEF Clash, SameVersion, SettlementEvent
        <3>2. QED BY <3>1 DEF SettledInv, DayOK
    <2>2. Settled(day)' = ids
        BY <1>2, <1>4, <2>1 DEF Settled
    <2>3. IsFiniteSet(ids)
        <3>1. ids \subseteq WrittenOrders
            BY <1>2, <1>4 DEF WrittenOrders
        <3>2. QED BY <3>1, FS_Subset DEF SettledInv
    <2>4. /\ \A o \in ids : orders'[o].amount \in Int /\ orders'[o].fee \in Int
          /\ \A l \in lines[s] : /\ l.order \in ids
                                 /\ l.amount = orders'[l.order].amount
                                 /\ l.fee = orders'[l.order].fee
        <3>1. \A o \in Orders : orders[o].amount \in Int /\ orders[o].fee \in Int
            BY DEF IInv, TypeOK, DbTypeOK, OrderRow, NoFee
        <3>2. QED BY <1>1, <1>2, <1>4, <3>1 DEF LinesOK, LineIds
    <2> DEFINE phi == [l \in lines[s] |-> l.order]
    <2>5. /\ phi \in [lines[s] -> ids] /\ ids = {phi[l] : l \in lines[s]}
          /\ \A k, l \in lines[s] : phi[k] = phi[l] => k = l
        <3>1. \A k, l \in lines[s] : k.order = l.order => k = l
            BY <1>1 DEF LinesOK, Line
        <3>2. QED BY <3>1 DEF LineIds
    <2> HIDE DEF phi
    <2>6. IsFiniteSet(lines[s])
        BY <2>3, <2>5, FS_Injection DEF Injection, IsInjective
    <2>7. /\ settlements'[day].lines = ids
          /\ settlements'[day].gross = GrossOf(lines[s])
          /\ settlements'[day].fees = FeesOf(lines[s])
          /\ settlements'[day].payout = GrossOf(lines[s]) - FeesOf(lines[s])
        BY <1>1, <1>3 DEF PublishSettlement
    <2>8. IsTotal(GrossOf(lines[s]), [o \in ids |-> orders'[o].amount], ids)
        <3> DEFINE f == [l \in lines[s] |-> l.amount]
                   k == [o \in ids |-> orders'[o].amount]
        <3>1. IsTotal(GrossOf(lines[s]), f, lines[s])
            BY <1>1, <2>6, GrossIsTotal
        <3>2. k \in [ids -> Int] /\ \A l \in lines[s] : f[l] = k[phi[l]]
            <4>1. k \in [ids -> Int]
                BY <2>4
            <4>2. \A l \in lines[s] : phi[l] = l.order
                BY DEF phi
            <4>3. QED BY <2>4, <4>1, <4>2
        <3> HIDE DEF f, k
        <3>3. IsTotal(GrossOf(lines[s]), k, ids)
            BY <2>3, <2>5, <2>6, <3>1, <3>2, TotalOfImageIs
        <3>4. QED BY <3>3 DEF k
    <2>9. IsTotal(FeesOf(lines[s]), [o \in ids |-> orders'[o].fee], ids)
        <3> DEFINE f == [l \in lines[s] |-> l.fee]
                   k == [o \in ids |-> orders'[o].fee]
        <3>1. IsTotal(FeesOf(lines[s]), f, lines[s])
            BY <1>1, <2>6, FeesIsTotal
        <3>2. k \in [ids -> Int] /\ \A l \in lines[s] : f[l] = k[phi[l]]
            <4>1. k \in [ids -> Int]
                BY <2>4
            <4>2. \A l \in lines[s] : phi[l] = l.order
                BY DEF phi
            <4>3. QED BY <2>4, <4>1, <4>2
        <3> HIDE DEF f, k
        <3>3. IsTotal(FeesOf(lines[s]), k, ids)
            BY <2>3, <2>5, <2>6, <3>1, <3>2, TotalOfImageIs
        <3>4. QED BY <3>3 DEF k
    <2>10. \E e \in events' : e.agg = SettlementAggregate(day) /\ e.version = 1
        BY <1>1, <1>3 DEF PublishSettlement, SettlementEvent
    <2>11. QED BY <2>2, <2>7, <2>8, <2>9, <2>10 DEF DayOK
<1>8. QED BY <1>5, <1>6, <1>7 DEF SettledInv

\* Whatever publishes nothing changes nothing here.
LEMMA SettledQuiet ==
    ASSUME SettledInv, UNCHANGED <<events, orders, settlements>>
    PROVE  SettledInv'
<1>1. WrittenOrders' = WrittenOrders
    BY DEF WrittenOrders
<1>2. \A d \in Days : DayOK(d)'
    BY DayFrame DEF SettledInv
<1>3. QED BY <1>1, <1>2 DEF SettledInv

LEMMA SettledNext == IInv /\ BooksInv /\ SettledInv /\ [Next]_vars => SettledInv'
<1> SUFFICES ASSUME IInv, BooksInv, SettledInv, [Next]_vars PROVE SettledInv'
    OBVIOUS
<1>1. ASSUME NEW w \in Workers, WorkerStep(w) PROVE SettledInv'
    BY <1>1, WorkerShapes, SettledPublish, SettledQuiet DEF WorkerQuiet, committedVars
<1>2. ASSUME NEW s \in Settlers, SettlerStep(s) PROVE SettledInv'
    BY <1>2, SettlerShapes, SettledPublishSettlement, SettledQuiet DEF SettlerQuiet, committedVars
<1>3. CASE CalendarStep \/ UNCHANGED vars
    BY <1>3, SettledQuiet DEF CalendarStep, AdvanceDay, committedVars, vars, dbVars
<1>4. QED BY <1>1, <1>2, <1>3 DEF Next

LEMMA SettledInvariance == Spec => []SettledInv
<1>1. Init => SettledInv
    BY SettledInit
<1>2. IInv /\ BooksInv /\ SettledInv /\ [Next]_vars => SettledInv'
    BY SettledNext
<1>3. QED BY Invariance, BooksInvariance, <1>1, <1>2, PTL DEF Spec

(***************************************************************************)
(* The theorem.                                                             *)
(***************************************************************************)
LEMMA SettledAddUp == IInv /\ BooksInv /\ SettledInv => SettlementsAddUp
<1> SUFFICES ASSUME IInv, BooksInv, SettledInv, NEW d \in Days
             PROVE  LET row == settlements[d]
                    IN  /\ row.lines = Settled(d)
                        /\ row.gross = MapThenSumSet(LAMBDA o : orders[o].amount, Settled(d))
                        /\ row.payout = MapThenSumSet(LAMBDA o : ledger[o]["seller_payout"], Settled(d))
                        /\ row.fees = row.gross - row.payout
                        /\ \A o \in Settled(d) : PaidLike(o) /\ orders[o].paidDay <= d
    BY DEF SettlementsAddUp, Settled
<1> DEFINE row == settlements[d]
           amounts == [o \in Settled(d) |-> orders[o].amount]
           fees == [o \in Settled(d) |-> orders[o].fee]
           payouts == [o \in Settled(d) |-> ledger[o]["seller_payout"]]
<1>1. /\ DbTypeOK /\ row.gross \in Int /\ row.fees \in Int /\ Settled(d) \subseteq Orders
      /\ row.payout = row.gross - row.fees /\ row.lines = Settled(d)
      /\ IsTotal(row.gross, amounts, Settled(d)) /\ IsTotal(row.fees, fees, Settled(d))
    BY DEF IInv, TypeOK, DbTypeOK, SettlementRow, SettledInv, DayOK, Settled
<1>2. ASSUME NEW o \in Settled(d)
      PROVE  /\ PaidLike(o) /\ orders[o].paidDay <= d /\ o \in Orders
             /\ orders[o].amount \in Int /\ orders[o].fee \in Int
             /\ ledger[o]["seller_payout"] = orders[o].amount - orders[o].fee
    <2>1. /\ o \in Orders /\ RowOK(o) /\ orders[o].settlement = d /\ d # NoDay
          /\ orders[o] \in OrderRow /\ ledger[o] = ExpectedNets(o)
        BY <1>1 DEF Settled, BooksInv, Days, NoDay, DbTypeOK, LedgerMatchesReadModel
    <2>2. PaidLike(o) /\ orders[o].fee # NoFee /\ orders[o].paidDay <= d
        BY <2>1 DEF RowOK
    <2>3. ledger[o]["seller_payout"] = orders[o].amount - orders[o].fee
        BY <2>1, <2>2 DEF ExpectedNets, FeeTaken, PaidLike, NoEntries, Accounts
    <2>4. QED BY <2>1, <2>2, <2>3 DEF OrderRow, NoFee
<1>3. IsFiniteSet(Settled(d))
    <2>1. Settled(d) \subseteq WrittenOrders
        BY <1>2 DEF WrittenOrders, PaidLike
    <2>2. QED BY <2>1, FS_Subset DEF SettledInv
<1>4. row.gross = MapThenSumSet(LAMBDA o : orders[o].amount, Settled(d))
    <2>1. IsTotal(MapThenSumSet(LAMBDA o : orders[o].amount, Settled(d)), amounts, Settled(d))
        BY <1>1, <1>3, AmountsTotal
    <2>2. QED BY <1>1, <1>3, <2>1, TotalIsUnique
<1>5. row.payout = MapThenSumSet(LAMBDA o : ledger[o]["seller_payout"], Settled(d))
    <2>1. IsTotal(MapThenSumSet(LAMBDA o : ledger[o]["seller_payout"], Settled(d)), payouts, Settled(d))
        BY <1>1, <1>3, PayoutsTotal
    <2>2. /\ amounts \in [Settled(d) -> Int] /\ fees \in [Settled(d) -> Int]
          /\ \A o \in Settled(d) : payouts[o] = amounts[o] - fees[o]
        BY <1>2
    <2> HIDE DEF payouts, amounts, fees
    <2>3. IsTotal(row.gross - row.fees, payouts, Settled(d))
        BY <1>1, <2>2, TotalOfDifference
    <2>4. QED BY <1>1, <1>3, <2>1, <2>3, TotalIsUnique
<1>6. row.fees = row.gross - row.payout
    BY <1>1
<1>7. QED BY <1>1, <1>2, <1>4, <1>5, <1>6

\* The settlement of a date names exactly the orders marked with it, its gross,
\* fees and payout are the totals of their rows and of their postings, and none
\* of them is refunded or was paid later (dailySettlement, refundOrder).
THEOREM SettlementsBalance == Spec => []SettlementsAddUp
BY Invariance, BooksInvariance, SettledInvariance, SettledAddUp, PTL

(***************************************************************************)
(* Fees.                                                                    *)
(***************************************************************************)

\* The fee of a row is the fee of its amount.
FeeOK(o) == orders[o].fee # NoFee => orders[o].fee = CalculateFee(orders[o].amount)

FeesOK == \A o \in Orders : FeeOK(o)

LEMMA FeeWithinAmount ==
    ASSUME NEW amount \in Nat
    PROVE  CalculateFee(amount) <= amount /\ CalculateFee(amount) \in Nat
BY DEF CalculateFee

LEMMA FeesNext == IInv /\ BooksInv /\ FeesOK /\ [Next]_vars => FeesOK'
<1> SUFFICES ASSUME IInv, BooksInv, NEW o \in Orders, FeeOK(o), [Next]_vars PROVE FeeOK(o)'
    BY DEF FeesOK
<1>1. ASSUME orders'[o] = orders[o] PROVE FeeOK(o)'
    BY <1>1 DEF FeeOK
<1>2. ASSUME NEW w \in Workers, WorkerStep(w) PROVE FeeOK(o)'
    <2>1. CASE WorkerQuiet(w)
        BY <1>1, <2>1 DEF WorkerQuiet, committedVars
    <2>2. CASE Publishes(w)
        <3>1. CASE o = target[w]
            <4> DEFINE row == orders[o]
                       new == orders'[o]
            <4>1. /\ pc[w] = "commit" /\ new = Written(row, pending[w])
                  /\ row.status \in AllowedFrom[step[w]] /\ RowOK(o)
                BY <2>2, <3>1, CommitFacts, PublishedRows DEF Publishes, BooksInv
            <4>2. /\ new.amount = IF step[w] = "OrderCreated" THEN call[w].amount ELSE row.amount
                  /\ new.fee = IF step[w] = "FeeCalculated" THEN CalculateFee(call[w].amount) ELSE row.fee
                  /\ step[w] = "OrderCreated" => row = NoRow
                BY <3>1, <4>1, WrittenRow
            <4>3. step[w] = "FeeCalculated" => call[w].amount = row.amount
                BY <3>1, <4>1, CommitFacts DEF BooksInv, SeenOK, Writing
            <4>4. QED BY <4>2, <4>3 DEF FeeOK, NoRow
        <3>2. CASE o # target[w]
            BY <1>1, <2>2, <3>2, PublishedRows
        <3>3. QED BY <3>1, <3>2
    <2>3. QED BY <1>2, <2>1, <2>2, WorkerShapes
<1>3. ASSUME NEW s \in Settlers, SettlerStep(s) PROVE FeeOK(o)'
    <2>1. CASE SettlerQuiet(s)
        BY <1>1, <2>1 DEF SettlerQuiet, committedVars
    <2>2. CASE PublishesSettlement(s)
        <3>1. orders'[o] \in {orders[o], [orders[o] EXCEPT !.settlement = scall[s].day]}
            BY <2>2, SettledRows
        <3>2. orders[o] \in OrderRow
            BY DEF IInv, TypeOK, DbTypeOK
        <3>3. orders'[o].fee = orders[o].fee /\ orders'[o].amount = orders[o].amount
            BY <3>1, <3>2 DEF OrderRow
        <3>4. QED BY <3>3 DEF FeeOK
    <2>3. QED BY <1>3, <2>1, <2>2, SettlerShapes
<1>4. ASSUME CalendarStep \/ UNCHANGED vars PROVE FeeOK(o)'
    BY <1>1, <1>4 DEF CalendarStep, AdvanceDay, committedVars, vars, dbVars
<1>5. QED BY <1>2, <1>3, <1>4 DEF Next

LEMMA FeesInvariance == Spec => []FeesOK
<1>1. Init => FeesOK
    BY DEF Init, DbInit, FeesOK, FeeOK, NoRow
<1>2. IInv /\ BooksInv /\ FeesOK /\ [Next]_vars => FeesOK'
    BY FeesNext
<1>3. QED BY Invariance, BooksInvariance, <1>1, <1>2, PTL DEF Spec
=============================================================================
