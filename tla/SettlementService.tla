------------------------- MODULE SettlementService --------------------------
(***************************************************************************)
(* dailySettlement of backend/src/services/financial-service.ts: one        *)
(* transaction that selects the orders to settle, inserts the settlement's  *)
(* event, row and postings, and marks every order with one UPDATE, which    *)
(* locks the rows one after the other in an order the plan decides.         *)
(***************************************************************************)
EXTENDS Database, Sequences

CONSTANTS SettleCalls,  \* [day, key] that callers may send, any number of times
          ColumnMax     \* the largest value of a DECIMAL(18,4) column

SettleCall == [day : Days, key : Keys]

ASSUME SettlementAssumption ==
    /\ ColumnMax \in Nat /\ ColumnMax >= MaxAmount
    /\ SettleCalls \subseteq SettleCall

VARIABLES spc,      \* control point of each settler
          scall,    \* the call it serves
          lines,    \* what it has read of the orders it is settling
          todo,     \* the orders its UPDATE has not reached yet
          result    \* its answer, or the error it is about to throw

settleVars == <<spc, scall, lines, todo, result>>

SettlementStatuses == {"PAID", "SHIPPED", "DELIVERED"}

Line == [order : Orders, amount : Nat, fee : Nat]
NoSettleCall == [day |-> NoDay, key |-> None]
SettleErrors == {"VERSION_CONFLICT", "UNIQUE_KEY", "INTERNAL_ERROR"}

SettlementInit ==
    /\ spc = [s \in Settlers |-> "idle"]
    /\ scall = [s \in Settlers |-> NoSettleCall]
    /\ lines = [s \in Settlers |-> {}]
    /\ todo = [s \in Settlers |-> {}]
    /\ result = [s \in Settlers |-> "none"]

SettlementTypeOK ==
    /\ spc \in [Settlers -> {"idle", "find", "select", "insert", "mark", "recheck", "reply"}]
    /\ scall \in [Settlers -> SettleCall \cup {NoSettleCall}]
    /\ lines \in [Settlers -> SUBSET Line]
    /\ todo \in [Settlers -> SUBSET Orders]
    /\ result \in [Settlers -> SettleErrors \cup {"SETTLED", "ALREADY_SETTLED", "none"}]

LineIds(s) == {l.order : l \in lines[s]}
GrossOf(ls) == MapThenSumSet(LAMBDA l : l.amount, ls)
FeesOf(ls)  == MapThenSumSet(LAMBDA l : l.fee, ls)

\* The totals of a settlement fit their DECIMAL(18,4) columns.
TotalsFit(ls) == {GrossOf(ls), FeesOf(ls), GrossOf(ls) - FeesOf(ls)} \subseteq -ColumnMax..ColumnMax

SettlementEvent(s) ==
    [agg |-> SettlementAggregate(scall[s].day), type |-> "SettlementProcessed", version |-> 1,
     key |-> scall[s].key, amount |-> 0, party |-> None, day |-> NoDay, lines |-> LineIds(s)]

SettleGoto(s, point) == spc' = [spc EXCEPT ![s] = point]

ForgetSettlement(s) == lines' = [lines EXCEPT ![s] = {}] /\ todo' = [todo EXCEPT ![s] = {}]

SettleReply(s, code) == SettleGoto(s, "reply") /\ result' = [result EXCEPT ![s] = code]

\* Mutant: an exception leaves the transaction open.
SettleThrowWithoutRollback(s, code) ==
    /\ ForgetSettlement(s)
    /\ SettleGoto(s, "recheck")
    /\ result' = [result EXCEPT ![s] = code]
    /\ UNCHANGED <<dbVars, scall>>

SettleThrow(s, code) ==
    /\ EndTransaction(s)
    /\ ForgetSettlement(s)
    /\ SettleGoto(s, "recheck")
    /\ result' = [result EXCEPT ![s] = code]
    /\ UNCHANGED <<committedVars, today, scall>>

StartSettle(s) ==
    /\ spc[s] = "idle"
    /\ \E c \in SettleCalls : scall' = [scall EXCEPT ![s] = c]
    /\ SettleGoto(s, "find")
    /\ UNCHANGED <<dbVars, lines, todo, result>>

\* A date that is settled already is answered with the stored settlement.
FindSettlement(s) ==
    /\ spc[s] = "find"
    /\ IF settlements[scall[s].day].exists
       THEN SettleReply(s, "ALREADY_SETTLED")
       ELSE SettleGoto(s, "select") /\ UNCHANGED result
    /\ UNCHANGED <<dbVars, scall, lines, todo>>

\* Mutant: orders without a fee are settled too.
EligibleWithoutFee(o, d) ==
    /\ orders[o].status \in SettlementStatuses
    /\ orders[o].settlement = NoDay
    /\ orders[o].paidDay # NoDay /\ orders[o].paidDay <= d

\* Mutant: the day ends at its midnight, not the next one.
EligibleBeforeDay(o, d) ==
    /\ orders[o].status \in SettlementStatuses
    /\ orders[o].settlement = NoDay
    /\ orders[o].fee # NoFee
    /\ orders[o].paidDay # NoDay /\ orders[o].paidDay < d

Eligible(o, d) ==
    /\ orders[o].status \in SettlementStatuses
    /\ orders[o].settlement = NoDay
    /\ orders[o].fee # NoFee
    /\ orders[o].paidDay # NoDay /\ orders[o].paidDay <= d

SelectEligible(s) ==
    /\ spc[s] = "select"
    /\ lines' = [lines EXCEPT ![s] =
                   {[order |-> o, amount |-> orders[o].amount, fee |-> orders[o].fee] :
                      o \in {x \in Orders : Eligible(x, scall[s].day)}}]
    /\ SettleGoto(s, "insert")
    /\ UNCHANGED <<dbVars, scall, todo, result>>

(***************************************************************************)
(* The event (the gate), the settlement row (its totals must fit their       *)
(* columns) and the postings.  The unique index on settlement(date) cannot   *)
(* fire: the event of the same date is inserted first.  Nor can              *)
(* validatePostings: the payout of a positive amount is positive             *)
(* (theorem PayoutPositive of MoneyProofs).                                  *)
(***************************************************************************)
InsertSettlement(s) ==
    /\ spc[s] = "insert"
    /\ \/ /\ InsertEventRow(s, SettlementEvent(s))
          /\ TotalsFit(lines[s])
          /\ todo' = [todo EXCEPT ![s] = LineIds(s)]
          /\ SettleGoto(s, "mark")
          /\ UNCHANGED <<committedVars, locks, today, scall, lines, result>>
       \/ /\ ~MustWait(s, SettlementEvent(s)) /\ ~Refused(SettlementEvent(s))
          /\ ~TotalsFit(lines[s])
          /\ SettleThrow(s, "INTERNAL_ERROR")
       \/ \E e \in events :
            \/ SameVersion(e, SettlementEvent(s)) /\ SettleThrow(s, "VERSION_CONFLICT")
            \/ e.key = scall[s].key /\ SettleThrow(s, "UNIQUE_KEY")

\* Mutant: the UPDATE marks whatever row it was given.
MarksAnyRow(row) == TRUE

\* Mutant: an order that was shipped meanwhile is not marked any more.
StillPaid(row) == row.settlement = NoDay /\ row.status = "PAID"

\* The WHERE of the UPDATE, on the latest row.
StillSettleable(row) == row.settlement = NoDay /\ row.status \in SettlementStatuses

\* The UPDATE reaches one more row; a row that no longer matches is skipped.
MarkOrder(s, o) ==
    /\ spc[s] = "mark"
    /\ o \in todo[s]
    /\ todo' = [todo EXCEPT ![s] = @ \ {o}]
    /\ IF StillSettleable(orders[o]) THEN RowIsFree(o) /\ LockRow(s, o) ELSE UNCHANGED locks
    /\ UNCHANGED <<committedVars, pending, today, spc, scall, lines, result>>

\* Mutant: the number of updated rows is not compared with the lines.
CountUnchecked(s) == TRUE

AllLinesMarked(s) == \A o \in LineIds(s) : locks[o] = s

PublishSettlement(s) ==
    /\ events' = events \cup {pending[s]}
    /\ settlements' = [settlements EXCEPT ![scall[s].day] =
                         [exists |-> TRUE, lines |-> LineIds(s), gross |-> GrossOf(lines[s]),
                          fees |-> FeesOf(lines[s]),
                          payout |-> GrossOf(lines[s]) - FeesOf(lines[s])]]
    /\ ledger' = [o \in Orders |->
                    IF o \in LineIds(s)
                    THEN LET l == CHOOSE x \in lines[s] : x.order = o
                         IN  PostSettlement(ledger[o], l.amount - l.fee)
                    ELSE ledger[o]]
    /\ orders' = [o \in Orders |-> IF locks[o] = s
                                   THEN [orders[o] EXCEPT !.settlement = scall[s].day]
                                   ELSE orders[o]]
    /\ EndTransaction(s)
    /\ UNCHANGED today

CommitSettlement(s) ==
    /\ spc[s] = "mark" /\ todo[s] = {}
    /\ IF AllLinesMarked(s)
       THEN /\ PublishSettlement(s)
            /\ ForgetSettlement(s)
            /\ SettleReply(s, "SETTLED")
            /\ UNCHANGED scall
       ELSE SettleThrow(s, "VERSION_CONFLICT")

SettleAckLost(s) ==
    /\ "ack_lost" \in Faults
    /\ spc[s] = "mark" /\ todo[s] = {} /\ AllLinesMarked(s)
    /\ PublishSettlement(s)
    /\ ForgetSettlement(s)
    /\ SettleGoto(s, "recheck")
    /\ result' = [result EXCEPT ![s] = "INTERNAL_ERROR"]
    /\ UNCHANGED scall

\* The catch block: only a lost race looks for the winner.
RecheckSettlement(s) ==
    /\ spc[s] = "recheck"
    /\ IF /\ result[s] \in {"VERSION_CONFLICT", "UNIQUE_KEY"}
          /\ settlements[scall[s].day].exists
       THEN SettleReply(s, "ALREADY_SETTLED")
       ELSE SettleReply(s, result[s])
    /\ UNCHANGED <<dbVars, scall, lines, todo>>

AbortSettlement(s) ==
    /\ "abort" \in Faults
    /\ spc[s] \in {"select", "insert", "mark"}
    /\ SettleThrow(s, "INTERNAL_ERROR")

\* A query outside the transaction fails: nothing catches it.
SettleQueryFails(s) ==
    /\ "query_fails" \in Faults
    /\ spc[s] \in {"find", "recheck"}
    /\ SettleReply(s, "INTERNAL_ERROR")
    /\ UNCHANGED <<dbVars, scall, lines, todo>>

ResetSettler(s) ==
    /\ SettleGoto(s, "idle")
    /\ scall' = [scall EXCEPT ![s] = NoSettleCall]
    /\ ForgetSettlement(s)
    /\ result' = [result EXCEPT ![s] = "none"]

FinishSettle(s) ==
    /\ spc[s] = "reply"
    /\ ResetSettler(s)
    /\ UNCHANGED dbVars

CrashSettler(s) ==
    /\ "crash" \in Faults
    /\ spc[s] \notin {"idle", "reply"}
    /\ EndTransaction(s)
    /\ ResetSettler(s)
    /\ UNCHANGED <<committedVars, today>>

\* A cycle of settlements that wait for one another's rows; PostgreSQL aborts
\* one of them after deadlock_timeout.
Deadlocked(s) ==
    \E ring \in SUBSET Settlers :
        /\ s \in ring
        /\ \A t \in ring : /\ spc[t] = "mark" /\ todo[t] # {}
                           /\ \A o \in todo[t] : /\ locks[o] \in ring \ {t}
                                                  /\ StillSettleable(orders[o])

DeadlockVictim(s) == Deadlocked(s) /\ SettleThrow(s, "INTERNAL_ERROR")

SettleProgress(s) ==
    \/ FindSettlement(s) \/ SelectEligible(s) \/ InsertSettlement(s)
    \/ (\E o \in Orders : MarkOrder(s, o)) \/ CommitSettlement(s)
    \/ RecheckSettlement(s) \/ FinishSettle(s)

SettleFailure(s) ==
    SettleAckLost(s) \/ AbortSettlement(s) \/ SettleQueryFails(s) \/ CrashSettler(s)

SettlerNext(s) == StartSettle(s) \/ SettleProgress(s) \/ DeadlockVictim(s) \/ SettleFailure(s)
=============================================================================
