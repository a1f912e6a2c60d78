------------------------------ MODULE Database ------------------------------
(***************************************************************************)
(* The PostgreSQL database behind the service (backend/prisma/schema.prisma *)
(* and its migration), as Prisma's interactive transactions use it at       *)
(* READ COMMITTED:                                                          *)
(*   - a statement reads the rows committed when it runs;                   *)
(*   - an INSERT into event_log is checked against both unique indexes: it  *)
(*     fails on a committed conflict and waits for the end of an            *)
(*     uncommitted one;                                                     *)
(*   - an UPDATE skips a row that does not match its WHERE; for the lock of  *)
(*     one that does it waits, and evaluates the WHERE again on the row that *)
(*     is committed by then;                                                *)
(*   - COMMIT publishes everything at once, ROLLBACK nothing.               *)
(* A transaction's unpublished work is its event row (pending) and the      *)
(* order rows it has updated (locks); the values it will write are a        *)
(* function of those, computed by the services when they commit.            *)
(***************************************************************************)
EXTENDS StateMachine, Ledger, Money, FiniteSets, FiniteSetsExt

CONSTANTS Orders,       \* order ids
          Parties,      \* customer ids and provider charge ids
          Keys,         \* idempotency keys
          MaxDay,       \* calendar days 1..MaxDay
          Workers,      \* transactions of order mutations
          Settlers,     \* transactions of daily settlements
          Faults,       \* what may go wrong around a transaction in this instance
          NoTx,         \* holder of a free row
          None          \* a NULL column

Days == 1..MaxDay
Tx == Workers \cup Settlers
SettlementAggregate(d) == <<"settlement", d>>

ASSUME DatabaseAssumption ==
    /\ MaxDay \in Nat \ {0}
    /\ Faults \subseteq {"abort", "ack_lost", "query_fails", "crash"}
    /\ NoTx \notin Tx
    /\ Workers \cap Settlers = {}
    /\ \A d \in Days : SettlementAggregate(d) \notin Orders

VARIABLES events,       \* committed rows of event_log
          orders,       \* committed rows of order_projection, by id
          ledger,       \* committed ledger_entry nets, by order and account
          settlements,  \* committed rows of settlement, by date
          pending,      \* the event row a transaction has inserted, if any
          locks,        \* the transaction that has updated an order row, if any
          today         \* the database server's calendar day

dbVars == <<events, orders, ledger, settlements, pending, locks, today>>

NoFee == -1             \* fee_amount IS NULL
NoDay == 0              \* paid_at or settlement_id IS NULL

\* payout_amount is written together with fee_amount, as amount - fee.
OrderRow == [status : Statuses, version : Nat, amount : Nat, customer : Parties \cup {None},
             fee : Nat \cup {NoFee}, charge : Parties \cup {None},
             paidDay : Days \cup {NoDay}, settlement : Days \cup {NoDay}]

NoRow == [status |-> "NONE", version |-> 0, amount |-> 0, customer |-> None,
          fee |-> NoFee, charge |-> None, paidDay |-> NoDay, settlement |-> NoDay]

(***************************************************************************)
(* amount, party, day and lines are the parts of payload and timestamp that *)
(* some code reads back: amount/baseAmount, customerId/stripeChargeId, the  *)
(* day of a payment, the settled order ids.                                 *)
(***************************************************************************)
EventRow == [agg : Orders \cup {SettlementAggregate(d) : d \in Days},
             type : OrderEventTypes \cup {"SettlementProcessed"},
             version : Nat \ {0}, key : Keys, amount : Nat,
             party : Parties \cup {None}, day : Days \cup {NoDay}, lines : SUBSET Orders]

NoEvent == [agg |-> None, type |-> "none", version |-> 0, key |-> None, amount |-> 0,
            party |-> None, day |-> NoDay, lines |-> {}]

SettlementRow == [exists : BOOLEAN, lines : SUBSET Orders, gross : Int, fees : Int, payout : Int]

NoSettlement == [exists |-> FALSE, lines |-> {}, gross |-> 0, fees |-> 0, payout |-> 0]

DbInit ==
    /\ events = {}
    /\ orders = [o \in Orders |-> NoRow]
    /\ ledger = [o \in Orders |-> NoEntries]
    /\ settlements = [d \in Days |-> NoSettlement]
    /\ pending = [t \in Tx |-> NoEvent]
    /\ locks = [o \in Orders |-> NoTx]
    /\ today = 1

DbTypeOK ==
    /\ events \subseteq EventRow
    /\ orders \in [Orders -> OrderRow]
    /\ ledger \in [Orders -> [Accounts -> Int]]
    /\ settlements \in [Days -> SettlementRow]
    /\ pending \in [Tx -> EventRow \cup {NoEvent}]
    /\ locks \in [Orders -> Tx \cup {NoTx}]
    /\ today \in Days

(***************************************************************************)
(* Queries.                                                                 *)
(***************************************************************************)
EventsOf(agg) == {e \in events : e.agg = agg}

\* findEventByKey: the stored event with this key, as a set of at most one.
StoredUnder(key) == {e \in events : e.key = key}

\* Mutant: the latest event is looked up without its aggregate.
LatestVersionOfLog(agg) == Max({0} \cup {e.version : e \in events})

\* latestEvent(...)?.version ?? 0
LatestVersion(agg) == Max({0} \cup {e.version : e \in EventsOf(agg)})

(***************************************************************************)
(* The unique indexes event_log(idempotency_key) and                        *)
(* event_log(aggregate_id, version).                                        *)
(***************************************************************************)
SameVersion(e, f) == e.agg = f.agg /\ e.version = f.version

\* Mutant: the index on the key is missing.
ClashOnVersionOnly(e, f) == SameVersion(e, f)

Clash(e, f) == e.key = f.key \/ SameVersion(e, f)

MustWait(t, e) == \E u \in Tx \ {t} : pending[u] # NoEvent /\ Clash(pending[u], e)
Refused(e) == \E f \in events : Clash(e, f)

InsertEventRow(t, e) ==
    /\ ~MustWait(t, e)
    /\ ~Refused(e)
    /\ pending' = [pending EXCEPT ![t] = e]

RowIsFree(o) == locks[o] = NoTx

LockRow(t, o) == locks' = [locks EXCEPT ![o] = t]

\* COMMIT and ROLLBACK both release the index entries and the row locks.
EndTransaction(t) ==
    /\ pending' = [pending EXCEPT ![t] = NoEvent]
    /\ locks' = [o \in Orders |-> IF locks[o] = t THEN NoTx ELSE locks[o]]

committedVars == <<events, orders, ledger, settlements>>

\* The calendar moves on.
AdvanceDay ==
    /\ today < MaxDay
    /\ today' = today + 1
    /\ UNCHANGED <<committedVars, pending, locks>>
=============================================================================
