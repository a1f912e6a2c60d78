---------------------------- MODULE ReplayProofs -----------------------------
(***************************************************************************)
(* The read model is what a replay of the event log gives, for any number of *)
(* orders, workers, settlers and days.                                      *)
(*                                                                         *)
(* The argument.  The services and the projector are two implementations of  *)
(* one rule: a service writes columns into the row it has read, the          *)
(* projector folds the events of an order.  A commit adds the next event of  *)
(* one order, so the fold of that order takes one step more, the step the    *)
(* service took (AppliedRow), and every other fold is untouched.  The        *)
(* invariant speaks of every function that satisfies the equation of the     *)
(* fold, so that no induction over its versions is needed (FoldOK).          *)
(*                                                                         *)
(* The second half is about the repair script, on rows damaged from outside, *)
(* where none of this holds any more: RepairsHeal, from an invariant of its  *)
(* own (HealInv).                                                           *)
(***************************************************************************)
EXTENDS BooksProofs, RebuildScript

(***************************************************************************)
(* The inductive invariant, on top of IInv and BooksInv.                     *)
(***************************************************************************)

\* The equation of the recursive function inside FoldOrder.
IsFold(fold, mine, n) ==
    fold = [v \in 0..n |->
              IF v = 0 THEN NoRow
              ELSE IF \E e \in mine : e.version = v
                   THEN ApplyOrderEvent(fold[v - 1], CHOOSE e \in mine : e.version = v)
                   ELSE fold[v - 1]]

\* The events of an order do not set its settlement.
Unsettled(row) == [row EXCEPT !.settlement = NoDay]

\* The fold of some events up to version n exists and gives a row.
FoldGives(mine, n, row) ==
    /\ \E fold : IsFold(fold, mine, n)
    /\ \A fold : IsFold(fold, mine, n) => fold[n] = row

\* The fold of the events of an order gives its row.
FoldOK(o) == FoldGives(EventsOf(o), orders[o].version, Unsettled(orders[o]))

\* The settlement events that name an order are those of its settlement.
NamedOK(o) ==
    \A d \in Days :
        orders[o].settlement = d <=>
            \E e \in events : e.agg = SettlementAggregate(d) /\ o \in e.lines

ReplayInv == \A o \in Orders : FoldOK(o) /\ NamedOK(o)

(***************************************************************************)
(* The fold.                                                                *)
(***************************************************************************)

\* Two rows are equal if their columns are.
LEMMA RowsEqual ==
    ASSUME NEW row \in OrderRow, NEW new \in OrderRow,
           row.status = new.status, row.version = new.version, row.amount = new.amount,
           row.customer = new.customer, row.fee = new.fee, row.charge = new.charge,
           row.paidDay = new.paidDay, row.settlement = new.settlement
    PROVE  row = new
<1>1. \A r \in OrderRow :
        r = [status |-> r.status, version |-> r.version, amount |-> r.amount,
             customer |-> r.customer, fee |-> r.fee, charge |-> r.charge,
             paidDay |-> r.paidDay, settlement |-> r.settlement]
    BY DEF OrderRow
<1>2. QED BY <1>1

LEMMA UnsettledRow ==
    ASSUME NEW row \in OrderRow, NEW new, new = Unsettled(row)
    PROVE  /\ new \in OrderRow
           /\ new.status = row.status /\ new.version = row.version /\ new.amount = row.amount
           /\ new.customer = row.customer /\ new.fee = row.fee /\ new.charge = row.charge
           /\ new.paidDay = row.paidDay /\ new.settlement = NoDay
BY DEF Unsettled, OrderRow

\* The projector applies an event as the service did that wrote it.
LEMMA AppliedRow ==
    ASSUME NEW row \in OrderRow, NEW e \in EventRow, e.type \in OrderEventTypes,
           e.version = row.version + 1, row.status \in AllowedFrom[e.type],
           e.type = "OrderCreated" => row.version = 0
    PROVE  Unsettled(Written(row, e)) = ApplyOrderEvent(Unsettled(row), e)
<1> DEFINE old == Unsettled(row)
           new == Unsettled(Written(row, e))
<1>1. CASE e.type = "OrderCreated"
    <2>1. e.version = 1 /\ NextStatus[e.type] = "CREATED"
        BY <1>1 DEF OrderRow, NextStatus
    <2>2. ApplyOrderEvent(old, e) = Written(row, e)
        BY <1>1, <2>1 DEF ApplyOrderEvent, Written
    <2>3. Written(row, e) \in OrderRow /\ Written(row, e).settlement = NoDay
        <3>1. Written(row, e).settlement = NoDay
            BY <1>1 DEF Written, NoRow
        <3>2. QED BY <3>1, WrittenType
    <2>4. new = Written(row, e)
        <3> DEFINE w == Written(row, e)
        <3> HIDE DEF w
        <3>1. Unsettled(w) = w
            BY <2>3, UnsettledRow, RowsEqual DEF w
        <3>2. QED BY <3>1 DEF w
    <2>5. QED BY <2>2, <2>4
<1>2. CASE e.type = "PaymentConfirmed"
    <2> DEFINE w == Written(row, e)
               r == ApplyOrderEvent(old, e)
    <2>1. w = [row EXCEPT !.status = "PAID", !.version = e.version, !.paidDay = e.day,
                          !.charge = e.party]
        BY <1>2 DEF Written
    <2>2. r = [old EXCEPT !.status = "PAID", !.version = e.version, !.charge = e.party,
                          !.paidDay = e.day, !.fee = old.fee]
        BY <1>2 DEF ApplyOrderEvent, NextStatus
    <2>3. w \in OrderRow
        BY WrittenType
    <2> HIDE DEF w, r
    <2>4. /\ w.status = "PAID" /\ w.version = e.version /\ w.amount = row.amount
          /\ w.customer = row.customer /\ w.fee = row.fee /\ w.charge = e.party
          /\ w.paidDay = e.day
        BY <2>1 DEF OrderRow
    <2>5. /\ old \in OrderRow /\ old.amount = row.amount /\ old.customer = row.customer
          /\ old.fee = row.fee /\ old.settlement = NoDay
        BY UnsettledRow
    <2> HIDE DEF old
    <2>6. /\ r \in OrderRow
          /\ r.status = "PAID" /\ r.version = e.version /\ r.amount = row.amount
          /\ r.customer = row.customer /\ r.fee = row.fee /\ r.charge = e.party
          /\ r.paidDay = e.day /\ r.settlement = NoDay
        BY <2>2, <2>5 DEF OrderRow, EventRow, Statuses
    <2>7. new = r
        BY <2>3, <2>4, <2>6, UnsettledRow, RowsEqual DEF w
    <2>8. QED BY <2>7 DEF r, old
<1>3. CASE e.type = "FeeCalculated"
    <2>1. row.status = "PAID" /\ NextStatus[e.type] = "PAID"
        BY <1>3 DEF AllowedFrom, NextStatus
    <2>2. QED BY <1>3, <2>1 DEF Unsettled, Written, ApplyOrderEvent, OrderRow
<1>4. CASE e.type \notin {"OrderCreated", "PaymentConfirmed", "FeeCalculated"}
    BY <1>4 DEF Unsettled, Written, ApplyOrderEvent, OrderRow
<1>5. QED BY <1>1, <1>2, <1>3, <1>4

\* One more event, of the next version, is one more step of the fold.
LEMMA FoldGrows ==
    ASSUME NEW mine, NEW n \in Nat, NEW row, NEW e, e.version = n + 1,
           \A f \in mine : f.version \in 1..n, FoldGives(mine, n, row)
    PROVE  FoldGives(mine \cup {e}, n + 1, ApplyOrderEvent(row, e))
<1> DEFINE more == mine \cup {e}
           Picked(s, v) == CHOOSE f \in s : f.version = v
<1>1. ASSUME NEW v \in 1..n
      PROVE  /\ (\E f \in more : f.version = v) <=> \E f \in mine : f.version = v
             /\ Picked(more, v) = Picked(mine, v)
    <2>1. \A f : f \in more /\ f.version = v <=> f \in mine /\ f.version = v
        OBVIOUS
    <2>2. QED BY <2>1
<1>2. (\E f \in more : f.version = n + 1) /\ Picked(more, n + 1) = e
    <2>1. \A f \in more : f.version = n + 1 => f = e
        OBVIOUS
    <2>2. e \in more
        OBVIOUS
    <2> HIDE DEF more
    <2>3. QED BY <2>1, <2>2
<1> HIDE DEF more, Picked
<1>3. \E fold : IsFold(fold, more, n + 1)
    <2>1. PICK old : IsFold(old, mine, n)
        BY DEF FoldGives
    <2> DEFINE fold == [v \in 0..(n + 1) |-> IF v = n + 1 THEN ApplyOrderEvent(old[n], e) ELSE old[v]]
    <2>2. \A v \in 0..n : fold[v] = old[v]
        OBVIOUS
    <2>3. ASSUME NEW v \in 0..(n + 1)
          PROVE  fold[v] = IF v = 0 THEN NoRow
                           ELSE IF \E f \in more : f.version = v
                                THEN ApplyOrderEvent(fold[v - 1], Picked(more, v))
                                ELSE fold[v - 1]
        <3>1. CASE v = n + 1
            <4>1. v # 0 /\ v - 1 = n /\ n \in 0..n /\ fold[v] = ApplyOrderEvent(old[n], e)
                BY <3>1
            <4> HIDE DEF fold
            <4>2. QED BY <1>2, <2>2, <3>1, <4>1
        <3>2. CASE v = 0
            <4>1. old[0] = NoRow /\ fold[0] = old[0]
                BY <2>1, <2>2 DEF IsFold
            <4> HIDE DEF fold
            <4>2. QED BY <3>2, <4>1
        <3>3. CASE v \in 1..n
            <4>1. v # 0 /\ v \in 0..n /\ v - 1 \in 0..n
                BY <3>3
            <4>2. old[v] = IF \E f \in mine : f.version = v
                           THEN ApplyOrderEvent(old[v - 1], Picked(mine, v))
                           ELSE old[v - 1]
                BY <2>1, <4>1 DEF IsFold, Picked
            <4> HIDE DEF fold
            <4>3. QED BY <1>1, <2>2, <3>3, <4>1, <4>2
        <3>4. QED BY <3>1, <3>2, <3>3
    <2>4. fold = [v \in 0..(n + 1) |-> fold[v]]
        OBVIOUS
    <2> HIDE DEF fold
    <2>5. IsFold(fold, more, n + 1)
        BY <2>3, <2>4 DEF IsFold, Picked
    <2>6. QED BY <2>5
<1>4. ASSUME NEW fold, IsFold(fold, more, n + 1)
      PROVE  fold[n + 1] = ApplyOrderEvent(row, e)
    <2>1. ASSUME NEW v \in 0..(n + 1)
          PROVE  fold[v] = IF v = 0 THEN NoRow
                           ELSE IF \E f \in more : f.version = v
                                THEN ApplyOrderEvent(fold[v - 1], Picked(more, v))
                                ELSE fold[v - 1]
        BY <1>4 DEF IsFold, Picked
    <2> DEFINE old == [v \in 0..n |-> fold[v]]
    <2>2. ASSUME NEW v \in 0..n
          PROVE  old[v] = IF v = 0 THEN NoRow
                          ELSE IF \E f \in mine : f.version = v
                               THEN ApplyOrderEvent(old[v - 1], Picked(mine, v))
                               ELSE old[v - 1]
        <3>1. old[v] = fold[v] /\ v \in 0..(n + 1)
            OBVIOUS
        <3>2. CASE v = 0
            BY <2>1, <3>1, <3>2
        <3>3. CASE v # 0
            <4>1. v \in 1..n /\ v - 1 \in 0..n
                BY <3>3
            <4>2. old[v - 1] = fold[v - 1]
                BY <4>1
            <4> HIDE DEF old
            <4>3. QED BY <1>1, <2>1, <3>1, <3>3, <4>1, <4>2
        <3>4. QED BY <3>2, <3>3
    <2>3. old = [v \in 0..n |-> old[v]] /\ old[n] = fold[n]
        OBVIOUS
    <2> HIDE DEF old
    <2>4. IsFold(old, mine, n)
        BY <2>2, <2>3 DEF IsFold, Picked
    <2>5. fold[n] = row
        BY <2>3, <2>4 DEF FoldGives
    <2>6. n + 1 \in 0..(n + 1) /\ n + 1 # 0 /\ n + 1 - 1 = n
        OBVIOUS
    <2>7. QED BY <1>2, <2>1, <2>5, <2>6
<1>5. QED BY <1>3, <1>4 DEF more, FoldGives

(***************************************************************************)
(* The invariant.                                                           *)
(***************************************************************************)
LEMMA ReplayInit == Init => ReplayInv
<1> SUFFICES ASSUME Init, NEW o \in Orders PROVE FoldOK(o) /\ NamedOK(o)
    BY DEF ReplayInv
<1>1. orders[o] = NoRow /\ events = {}
    BY DEF Init, DbInit
<1>2. orders[o].version = 0 /\ Unsettled(orders[o]) = NoRow
    BY <1>1 DEF NoRow, Unsettled
<1>3. FoldOK(o)
    <2> DEFINE first == [v \in 0..0 |-> NoRow]
    <2>1. IsFold(first, EventsOf(o), 0)
        BY DEF IsFold
    <2>2. \A fold : IsFold(fold, EventsOf(o), 0) => fold[0] = NoRow
        BY DEF IsFold
    <2>3. QED BY <1>2, <2>1, <2>2 DEF FoldOK, FoldGives
<1>4. NamedOK(o)
    BY <1>1 DEF NamedOK, NoRow, Days, NoDay
<1>5. QED BY <1>3, <1>4

\* An order whose events and columns stay, up to the settlement, is folded as
\* before.
LEMMA FoldFrame ==
    ASSUME NEW o, FoldOK(o), EventsOf(o)' = EventsOf(o),
           orders'[o].version = orders[o].version,
           Unsettled(orders'[o]) = Unsettled(orders[o])
    PROVE  FoldOK(o)'
BY DEF FoldOK

LEMMA ReplayQuiet ==
    ASSUME ReplayInv, UNCHANGED <<events, orders>>
    PROVE  ReplayInv'
BY DEF ReplayInv, FoldOK, NamedOK, EventsOf

\* Aggregates of orders and of settlements are different texts.
LEMMA AggregatesDiffer ==
    ASSUME NEW d \in Days
    PROVE  /\ SettlementAggregate(d) \notin Orders
           /\ \A c \in Days : SettlementAggregate(c) = SettlementAggregate(d) => c = d
BY DatabaseAssumption DEF SettlementAggregate

LEMMA ReplayPublish ==
    ASSUME IInv, BooksInv, ReplayInv, NEW w \in Workers, Publishes(w)
    PROVE  ReplayInv'
<1> DEFINE e == pending[w]
<1>1. PICK o \in Orders : o = target[w]
    BY CommitFacts DEF Publishes
<1>2. /\ orders[o] \in OrderRow /\ orders[o].version \in Nat
      /\ e \in EventRow /\ e.agg = o /\ e.type \in OrderEventTypes
      /\ e.version = orders[o].version + 1 /\ orders[o].status \in AllowedFrom[e.type]
      /\ e.type = "OrderCreated" => orders[o].version = 0
    BY <1>1, CommitFacts DEF Publishes, OrderRow
<1>3. /\ events' = events \cup {e} /\ orders'[o] = Written(orders[o], e)
      /\ \A x \in Orders \ {o} : orders'[x] = orders[x]
    BY <1>1, PublishedRows
<1>4. orders'[o].version = orders[o].version + 1 /\ orders'[o].settlement = orders[o].settlement
    BY <1>1, PublishedRow DEF RowKept
<1>5. FoldOK(o)'
    <2> DEFINE n == orders[o].version
               row == Unsettled(orders[o])
               mine == EventsOf(o)
    <2>1. \A f \in mine : f.version \in 1..n
        BY DEF IInv, StreamOK
    <2>2. FoldGives(mine, n, row)
        BY DEF ReplayInv, FoldOK
    <2>3. /\ EventsOf(o)' = mine \cup {e} /\ orders'[o].version = n + 1
          /\ Unsettled(orders'[o]) = ApplyOrderEvent(row, e)
        BY <1>2, <1>3, <1>4, AppliedRow DEF EventsOf
    <2>4. n \in Nat /\ e.version = n + 1
        BY <1>2
    <2> HIDE DEF n, row, mine, e
    <2>5. FoldGives(mine \cup {e}, n + 1, ApplyOrderEvent(row, e))
        BY <2>1, <2>2, <2>4, FoldGrows
    <2>6. QED BY <2>3, <2>5 DEF FoldOK
<1>6. ASSUME NEW x \in Orders, x # o PROVE FoldOK(x)'
    <2>1. EventsOf(x)' = EventsOf(x)
        BY <1>2, <1>3, <1>6 DEF EventsOf
    <2>2. QED BY <1>3, <1>6, <2>1, FoldFrame DEF ReplayInv
<1>7. ASSUME NEW x \in Orders PROVE NamedOK(x)'
    <2>1. orders'[x].settlement = orders[x].settlement
        BY <1>3, <1>4
    <2>2. \A d \in Days : e.agg # SettlementAggregate(d)
        BY <1>2, AggregatesDiffer
    <2>3. QED BY <1>3, <2>1, <2>2 DEF ReplayInv, NamedOK
<1>8. QED BY <1>5, <1>6, <1>7 DEF ReplayInv

LEMMA ReplayPublishSettlement ==
    ASSUME IInv, BooksInv, ReplayInv, NEW s \in Settlers, PublishesSettlement(s)
    PROVE  ReplayInv'
<1>1. /\ spc[s] = "mark" /\ PublishSettlement(s) /\ pending[s] = SettlementEvent(s)
      /\ scall[s] \in SettleCall
    BY DEF PublishesSettlement, IInv, SettlerOK
<1>2. PICK day \in Days : day = scall[s].day
    BY <1>1 DEF SettleCall
<1>3. PICK e : /\ events' = events \cup {e}
               /\ e.agg = SettlementAggregate(day) /\ e.lines = LineIds(s)
    BY <1>1, <1>2 DEF PublishSettlement, SettlementEvent
<1>4. ASSUME NEW o \in Orders
      PROVE  /\ orders'[o].version = orders[o].version
             /\ Unsettled(orders'[o]) = Unsettled(orders[o])
             /\ o \in LineIds(s) => orders'[o].settlement = day /\ orders[o].settlement = NoDay
             /\ o \notin LineIds(s) => orders'[o] = orders[o]
    <2>1. orders[o] \in OrderRow
        BY DEF IInv, TypeOK, DbTypeOK
    <2>2. CASE o \in LineIds(s)
        <3>1. /\ orders'[o] = [orders[o] EXCEPT !.settlement = day]
              /\ orders[o].settlement = NoDay
            BY <1>2, <2>2, SettledRows
        <3>2. QED BY <2>1, <2>2, <3>1 DEF OrderRow, Unsettled
    <2>3. CASE o \notin LineIds(s)
        BY <2>3, SettledRows
    <2>4. QED BY <2>2, <2>3
<1>5. ASSUME NEW o \in Orders PROVE FoldOK(o)'
    <2>1. EventsOf(o)' = EventsOf(o)
        BY <1>3, AggregatesDiffer DEF EventsOf
    <2>2. QED BY <1>4, <2>1, FoldFrame DEF ReplayInv
<1>6. ASSUME NEW o \in Orders PROVE NamedOK(o)'
    <2> SUFFICES ASSUME NEW d \in Days
                 PROVE  orders'[o].settlement = d <=>
                          \E f \in events' : f.agg = SettlementAggregate(d) /\ o \in f.lines
        BY DEF NamedOK
    <2>1. orders[o].settlement = d <=>
            \E f \in events : f.agg = SettlementAggregate(d) /\ o \in f.lines
        BY DEF ReplayInv, NamedOK
    <2>2. orders'[o].settlement = d <=>
            orders[o].settlement = d \/ (d = day /\ o \in LineIds(s))
        BY <1>4 DEF Days, NoDay
    <2>3. e.agg = SettlementAggregate(d) <=> d = day
        BY <1>3, AggregatesDiffer
    <2>4. QED BY <1>3, <2>1, <2>2, <2>3
<1>7. QED BY <1>5, <1>6 DEF ReplayInv

LEMMA ReplayNext == IInv /\ BooksInv /\ ReplayInv /\ [Next]_vars => ReplayInv'
<1> SUFFICES ASSUME IInv, BooksInv, ReplayInv, [Next]_vars PROVE ReplayInv'
    OBVIOUS
<1>1. ASSUME NEW w \in Workers, WorkerStep(w) PROVE ReplayInv'
    BY <1>1, WorkerShapes, ReplayPublish, ReplayQuiet DEF WorkerQuiet, committedVars
<1>2. ASSUME NEW s \in Settlers, SettlerStep(s) PROVE ReplayInv'
    BY <1>2, SettlerShapes, ReplayPublishSettlement, ReplayQuiet DEF SettlerQuiet, committedVars
<1>3. CASE CalendarStep \/ UNCHANGED vars
    BY <1>3, ReplayQuiet DEF CalendarStep, AdvanceDay, committedVars, vars, dbVars
<1>4. QED BY <1>1, <1>2, <1>3 DEF Next

LEMMA ReplayInvariance == Spec => []ReplayInv
<1>1. Init => ReplayInv
    BY ReplayInit
<1>2. IInv /\ BooksInv /\ ReplayInv /\ [Next]_vars => ReplayInv'
    BY ReplayNext
<1>3. QED BY Invariance, BooksInvariance, <1>1, <1>2, PTL DEF Spec

(***************************************************************************)
(* The theorem.                                                             *)
(***************************************************************************)

\* FoldOrder is the fold the invariant speaks of.
LEMMA FoldIsRow ==
    ASSUME IInv, ReplayInv, NEW o \in Orders
    PROVE  FoldOrder(events, o) = Unsettled(orders[o])
<1> DEFINE mine == {e \in events : e.agg = o}
           n == Max({0} \cup {e.version : e \in mine})
           fold == CHOOSE row : row =
                     [v \in 0..n |->
                        IF v = 0 THEN NoRow
                        ELSE IF \E e \in mine : e.version = v
                             THEN ApplyOrderEvent(row[v - 1], CHOOSE e \in mine : e.version = v)
                             ELSE row[v - 1]]
<1>1. FoldOrder(events, o) = fold[n]
    BY DEF FoldOrder
<1>2. n = orders[o].version /\ mine = EventsOf(o)
    BY LatestVersionIs DEF IInv, LatestVersion, EventsOf
<1> HIDE DEF mine, n
<1>3. FoldGives(mine, n, Unsettled(orders[o]))
    BY <1>2 DEF ReplayInv, FoldOK
<1>4. PICK some : IsFold(some, mine, n)
    BY <1>3 DEF FoldGives
<1>5. some = [v \in 0..n |->
                IF v = 0 THEN NoRow
                ELSE IF \E e \in mine : e.version = v
                     THEN ApplyOrderEvent(some[v - 1], CHOOSE e \in mine : e.version = v)
                     ELSE some[v - 1]]
    BY <1>4 DEF IsFold
<1>6. fold = [v \in 0..n |->
                IF v = 0 THEN NoRow
                ELSE IF \E e \in mine : e.version = v
                     THEN ApplyOrderEvent(fold[v - 1], CHOOSE e \in mine : e.version = v)
                     ELSE fold[v - 1]]
    BY <1>5
<1> HIDE DEF fold
<1>7. IsFold(fold, mine, n)
    BY <1>6 DEF IsFold
<1>8. QED BY <1>1, <1>3, <1>7 DEF FoldGives

LEMMA ReplayIsRow == IInv /\ BooksInv /\ ReplayInv => ReadModelMatchesReplay
<1> SUFFICES ASSUME IInv, BooksInv, ReplayInv, NEW o \in Orders
             PROVE  Rebuilt(events, o) = {orders[o]}
    BY DEF ReadModelMatchesReplay
<1> DEFINE row == orders[o]
           old == Unsettled(row)
<1>1. row \in OrderRow /\ RowOK(o) /\ FoldOrder(events, o) = old
    BY FoldIsRow DEF IInv, TypeOK, DbTypeOK, BooksInv
<1>2. SettledOn(events, o) = {d \in Days : row.settlement = d}
    BY DEF ReplayInv, NamedOK, SettledOn
<1>3. CASE row.settlement = NoDay
    <2>1. SettledOn(events, o) = {}
        BY <1>2, <1>3 DEF Days, NoDay
    <2>2. old = row
        BY <1>1, <1>3, UnsettledRow, RowsEqual
    <2>3. QED BY <1>1, <2>1, <2>2 DEF Rebuilt
<1>4. CASE row.settlement # NoDay
    <2>1. row.settlement \in Days /\ SettledOn(events, o) = {row.settlement}
        BY <1>1, <1>2, <1>4 DEF OrderRow
    <2>2. old # NoRow
        <3>1. old.status = row.status /\ row.status # "NONE"
            BY <1>1, <1>4, UnsettledRow DEF RowOK, PaidLike
        <3>2. QED BY <3>1 DEF NoRow
    <2>3. [old EXCEPT !.settlement = row.settlement] = row
        BY <1>1 DEF Unsettled, OrderRow
    <2> HIDE DEF old, row
    <2>4. Rebuilt(events, o) = {[old EXCEPT !.settlement = d] : d \in {row.settlement}}
        BY <1>1, <2>1, <2>2 DEF Rebuilt
    <2>5. QED BY <2>3, <2>4 DEF row
<1>5. QED BY <1>3, <1>4

\* Replaying the log gives the stored row of every order, column by column,
\* settlement included (projector.ts, schema.prisma:105-107): a repair of the
\* read model finds nothing to do in a database only the service has written.
THEOREM ReadModelIsReplay == Spec => []ReadModelMatchesReplay
BY Invariance, BooksInvariance, ReplayInvariance, ReplayIsRow, PTL

(***************************************************************************)
(* The repair script.                                                       *)
(***************************************************************************)

\* A set of naturals that has a bound has a maximum, which Max finds.
LEMMA MaxOfBounded ==
    ASSUME NEW S \in SUBSET Nat, S # {}, NEW b \in Nat, \A x \in S : x <= b
    PROVE  Max(S) \in S /\ \A x \in S : x <= Max(S)
<1> DEFINE Bounds == {n \in Nat : \A x \in S : x <= n}
<1>1. PICK n \in Bounds : \A m \in Bounds : n <= m
    <2>1. b \in Bounds /\ Bounds \in SUBSET Nat
        OBVIOUS
    <2> HIDE DEF Bounds
    <2>2. QED BY <2>1, SmallestNat
<1>2. n \in S
    <2>1. SUFFICES ASSUME n \notin S PROVE FALSE
        OBVIOUS
    <2>2. \A x \in S : x <= n - 1
        BY <1>1, <2>1
    <2>3. n - 1 \in Nat
        <3>1. PICK x \in S : TRUE
            OBVIOUS
        <3>2. x \in Nat /\ x <= n - 1 /\ n \in Nat
            BY <1>1, <2>2, <3>1
        <3>3. QED BY <3>2
    <2>4. n - 1 \in Bounds
        BY <2>2, <2>3
    <2>5. n <= n - 1
        <3> HIDE DEF Bounds
        <3>1. QED BY <1>1, <2>4
    <2>6. QED BY <1>1, <2>5
<1>3. \A x \in S : n >= x
    BY <1>1
<1> HIDE DEF Bounds
<1>4. QED BY <1>2, <1>3 DEF Max

\* The fold of any events exists: the recursive function inside FoldOrder is
\* one.
LEMMA FoldExists ==
    ASSUME NEW mine, NEW n \in Nat
    PROVE  \E fold : IsFold(fold, mine, n)
<1> DEFINE Bad == {k \in Nat : ~\E fold : IsFold(fold, mine, k)}
<1>1. SUFFICES ASSUME Bad # {} PROVE FALSE
    OBVIOUS
<1>2. PICK k \in Bad : \A m \in Bad : k <= m
    <2>1. Bad \in SUBSET Nat
        OBVIOUS
    <2> HIDE DEF Bad
    <2>2. QED BY <1>1, <2>1, SmallestNat
<1>3. k \in Nat /\ ~\E fold : IsFold(fold, mine, k)
    OBVIOUS
<1>4. CASE k = 0
    <2> DEFINE first == [v \in 0..0 |-> NoRow]
    <2>1. IsFold(first, mine, 0)
        BY DEF IsFold
    <2>2. QED BY <1>3, <1>4, <2>1
<1>5. CASE k # 0
    <2>1. k - 1 \in Nat /\ k - 1 \notin Bad
        <3> HIDE DEF Bad
        <3>1. QED BY <1>2, <1>3, <1>5
    <2>2. PICK old : IsFold(old, mine, k - 1)
        BY <2>1
    <2> DEFINE last == IF \E e \in mine : e.version = k
                       THEN ApplyOrderEvent(old[k - 1], CHOOSE e \in mine : e.version = k)
                       ELSE old[k - 1]
               fold == [v \in 0..k |-> IF v = k THEN last ELSE old[v]]
    <2>3. \A v \in 0..(k - 1) : fold[v] = old[v] /\ v # k
        BY <1>3
    <2>4. ASSUME NEW v \in 0..k
          PROVE  fold[v] = IF v = 0 THEN NoRow
                           ELSE IF \E e \in mine : e.version = v
                                THEN ApplyOrderEvent(fold[v - 1], CHOOSE e \in mine : e.version = v)
                                ELSE fold[v - 1]
        <3>1. CASE v = k
            <4>1. fold[v] = last /\ v # 0 /\ v - 1 \in 0..(k - 1)
                BY <1>3, <1>5, <3>1
            <4>2. fold[v - 1] = old[k - 1]
                BY <2>3, <3>1, <4>1
            <4> HIDE DEF fold
            <4>3. QED BY <3>1, <4>1, <4>2
        <3>2. CASE v # k
            <4>1. v \in 0..(k - 1) /\ (v = 0 \/ v - 1 \in 0..(k - 1))
                BY <1>3, <3>2
            <4>2. old[v] = IF v = 0 THEN NoRow
                           ELSE IF \E e \in mine : e.version = v
                                THEN ApplyOrderEvent(old[v - 1], CHOOSE e \in mine : e.version = v)
                                ELSE old[v - 1]
                BY <2>2, <4>1 DEF IsFold
            <4> HIDE DEF fold
            <4>3. QED BY <2>3, <4>1, <4>2
        <3>3. QED BY <3>1, <3>2
    <2>5. fold = [v \in 0..k |-> fold[v]]
        OBVIOUS
    <2> HIDE DEF fold
    <2>6. IsFold(fold, mine, k)
        BY <2>4, <2>5 DEF IsFold
    <2>7. QED BY <1>3, <2>6
<1>6. QED BY <1>4, <1>5

\* Every row of a fold has the columns of a row.
HasColumns(row) == Columns \subseteq DOMAIN row

LEMMA FoldHasColumns ==
    ASSUME NEW mine, NEW n \in Nat, NEW fold, IsFold(fold, mine, n)
    PROVE  HasColumns(fold[n])
<1>1. HasColumns(NoRow)
    BY DEF HasColumns, Columns, NoRow
<1>2. ASSUME NEW row, HasColumns(row), NEW e PROVE HasColumns(ApplyOrderEvent(row, e))
    BY <1>1, <1>2 DEF HasColumns, ApplyOrderEvent
<1> DEFINE Bad == {k \in 0..n : ~HasColumns(fold[k])}
<1>3. SUFFICES ASSUME Bad # {} PROVE FALSE
    OBVIOUS
<1>4. PICK k \in Bad : \A m \in Bad : k <= m
    <2>1. Bad \in SUBSET Nat
        OBVIOUS
    <2> HIDE DEF Bad
    <2>2. QED BY <1>3, <2>1, SmallestNat
<1>5. k \in 0..n /\ ~HasColumns(fold[k])
    OBVIOUS
<1>6. fold[k] = IF k = 0 THEN NoRow
                ELSE IF \E e \in mine : e.version = k
                     THEN ApplyOrderEvent(fold[k - 1], CHOOSE e \in mine : e.version = k)
                     ELSE fold[k - 1]
    BY <1>5 DEF IsFold
<1>7. k # 0
    BY <1>1, <1>5, <1>6
<1>8. k - 1 \in 0..n /\ k - 1 \notin Bad
    <2>1. k - 1 \in 0..n /\ ~(k <= k - 1)
        BY <1>5, <1>7
    <2> HIDE DEF Bad
    <2>2. QED BY <1>4, <2>1
<1>9. HasColumns(fold[k - 1])
    BY <1>8
<1> HIDE DEF Bad
<1>10. QED BY <1>2, <1>5, <1>6, <1>7, <1>9

\* A log whose versions are numbers and have a bound, as those of a finite log.
Numbered(some) ==
    /\ \A e \in some : e.version \in Nat
    /\ \E b \in Nat : \A e \in some : e.version <= b

LEMMA LastVersion ==
    ASSUME NEW some, Numbered(some), NEW mine \in SUBSET some
    PROVE  Max({0} \cup {e.version : e \in mine}) \in Nat
<1>1. PICK b \in Nat : \A e \in some : e.version <= b
    BY DEF Numbered
<1> DEFINE S == {0} \cup {e.version : e \in mine}
<1>2. S \in SUBSET Nat /\ S # {} /\ \A x \in S : x <= b
    BY <1>1 DEF Numbered
<1> HIDE DEF S
<1>3. Max(S) \in S
    BY <1>2, MaxOfBounded
<1>4. QED BY <1>2, <1>3 DEF S

\* What the script rebuilds: at least one row, each with all columns, and the
\* absent row for an order without events.
LEMMA RebuiltRows ==
    ASSUME NEW some, Numbered(some), NEW o
    PROVE  /\ Rebuilt(some, o) # {}
           /\ \A row \in Rebuilt(some, o) : HasColumns(row)
           /\ (~\E e \in some : e.agg = o) => Rebuilt(some, o) = {NoRow}
<1> DEFINE mine == {e \in some : e.agg = o}
           n == Max({0} \cup {e.version : e \in mine})
           fold == CHOOSE row : row =
                     [v \in 0..n |->
                        IF v = 0 THEN NoRow
                        ELSE IF \E e \in mine : e.version = v
                             THEN ApplyOrderEvent(row[v - 1], CHOOSE e \in mine : e.version = v)
                             ELSE row[v - 1]]
<1>1. FoldOrder(some, o) = fold[n]
    BY DEF FoldOrder
<1>2. n \in Nat
    <2>1. mine \in SUBSET some
        OBVIOUS
    <2> HIDE DEF mine
    <2>2. QED BY <2>1, LastVersion
<1>3. ~(\E e \in some : e.agg = o) => n = 0
    <2>1. SUFFICES ASSUME mine = {} PROVE n = 0
        OBVIOUS
    <2>2. {0} \cup {e.version : e \in mine} = {0}
        BY <2>1
    <2>3. Max({0}) = 0
        BY DEF Max
    <2> HIDE DEF mine
    <2>4. QED BY <2>2, <2>3
<1> HIDE DEF mine, n
<1>4. PICK known : IsFold(known, mine, n)
    BY <1>2, FoldExists
<1>5. known = [v \in 0..n |->
                 IF v = 0 THEN NoRow
                 ELSE IF \E e \in mine : e.version = v
                      THEN ApplyOrderEvent(known[v - 1], CHOOSE e \in mine : e.version = v)
                      ELSE known[v - 1]]
    BY <1>4 DEF IsFold
<1>6. fold = [v \in 0..n |->
                IF v = 0 THEN NoRow
                ELSE IF \E e \in mine : e.version = v
                     THEN ApplyOrderEvent(fold[v - 1], CHOOSE e \in mine : e.version = v)
                     ELSE fold[v - 1]]
    BY <1>5
<1> HIDE DEF fold
<1>7. IsFold(fold, mine, n)
    BY <1>6 DEF IsFold
<1>8. HasColumns(fold[n])
    BY <1>2, <1>7, FoldHasColumns
<1>9. (~\E e \in some : e.agg = o) => fold[n] = NoRow
    <2>1. SUFFICES ASSUME n = 0 PROVE fold[n] = NoRow
        BY <1>3
    <2>2. QED BY <1>7, <2>1 DEF IsFold
<1> DEFINE row == fold[n]
<1>10. HasColumns(row) /\ FoldOrder(some, o) = row
       /\ ((~\E e \in some : e.agg = o) => row = NoRow)
    BY <1>1, <1>8, <1>9
<1> HIDE DEF row
<1>11. Rebuilt(some, o) = IF SettledOn(some, o) = {} \/ row = NoRow THEN {row}
                          ELSE {[row EXCEPT !.settlement = d] : d \in SettledOn(some, o)}
    BY <1>10 DEF Rebuilt
<1>12. \A d : HasColumns([row EXCEPT !.settlement = d])
    BY <1>10 DEF HasColumns
<1>13. Rebuilt(some, o) # {} /\ \A new \in Rebuilt(some, o) : HasColumns(new)
    <2>1. CASE SettledOn(some, o) = {} \/ row = NoRow
        BY <1>10, <1>11, <2>1
    <2>2. CASE ~(SettledOn(some, o) = {} \/ row = NoRow)
        BY <1>11, <1>12, <2>2
    <2>3. QED BY <2>1, <2>2
<1>14. (~\E e \in some : e.agg = o) => Rebuilt(some, o) = {NoRow}
    BY <1>10, <1>11
<1>15. QED BY <1>13, <1>14

(***************************************************************************)
(* The invariant.  Damage breaks IInv: a row no longer tells what its order  *)
(* has been through.  What survives is enough for the script: a row that     *)
(* there is has an event, and a transaction that commits adds an event that  *)
(* was not there, so that a log that is still whole means that nobody but    *)
(* the script has written a row since it was read.                          *)
(***************************************************************************)
HasEvent(o) == \E e \in events : e.agg = o

\* The control variables of the transactions are functions.
ControlOK ==
    /\ pc = [w \in Workers |-> pc[w]]
    /\ step = [w \in Workers |-> step[w]]
    /\ target = [w \in Workers |-> target[w]]
    /\ nextVersion \in [Workers -> Nat]
    /\ spc = [s \in Settlers |-> spc[s]]
    /\ pending = [t \in Tx |-> pending[t]]
    /\ locks = [o \in Orders |-> locks[o]]
    /\ orders = [o \in Orders |-> orders[o]]

\* A worker past its insert has a pending event of its order.
HoldsEvent(w) ==
    /\ pc[w] # "idle" => step[w] # "none"
    /\ pc[w] \in {"update", "commit"} => pending[w] # NoEvent /\ pending[w].agg = target[w]

\* A settler past its insert has one, too.
HoldsSettlement(s) == spc[s] = "mark" => pending[s] # NoEvent

\* A pending event is not in the log, nor pending twice.
Fresh(t) ==
    /\ pending[t].version \in Nat
    /\ pending[t] # NoEvent =>
         pending[t] \notin events /\ \A u \in Tx \ {t} : pending[u] # pending[t]

\* A row that is there has an event, as has one that a settler marks.
RowOfEvent(o) == (orders[o] # NoRow \/ locks[o] \in Settlers) => HasEvent(o)

ServiceOK ==
    /\ ControlOK
    /\ Numbered(events)
    /\ \A w \in Workers : HoldsEvent(w)
    /\ \A s \in Settlers : HoldsSettlement(s)
    /\ \A t \in Tx : Fresh(t)
    /\ \A o \in Orders : RowOfEvent(o)

\* A row has what one of its rebuilt rows has.
Healed(o) ==
    \E row \in Rebuilt(log, o) :
        \A c \in {"status", "version", "fee", "charge", "settlement"} : orders[o][c] = row[c]

\* What the script has found is about an order of the log.
FoundOK(d) == d.order \in Orders /\ HasEvent(d.order) /\ d.row \in Rebuilt(log, d.order)

\* While the log is still whole, every order is either to be repaired or as
\* rebuilt.
ScriptOK ==
    /\ log \subseteq events
    /\ \A d \in drifted : FoundOK(d)
    /\ rpc = "idle" => drifted = {}
    /\ rpc \in {"repair", "done"} /\ log = events =>
         \A o \in Orders : HasEvent(o) => (\E d \in drifted : d.order = o) \/ Healed(o)

HealInv == ServiceOK /\ ScriptOK

LEMMA HealInit == RInit => HealInv
<1> SUFFICES ASSUME RInit PROVE HealInv
    OBVIOUS
<1> USE DEF RInit, Init, DbInit, OrderInit, SettlementInit
<1>1. ControlOK
    BY DEF ControlOK
<1>2. Numbered(events)
    BY DEF Numbered
<1>3. \A w \in Workers : HoldsEvent(w)
    BY DEF HoldsEvent
<1>4. \A s \in Settlers : HoldsSettlement(s)
    BY DEF HoldsSettlement
<1>5. \A t \in Tx : Fresh(t)
    BY DEF Fresh, NoEvent
<1>6. \A o \in Orders : RowOfEvent(o)
    BY DatabaseAssumption DEF RowOfEvent, Tx
<1>7. ScriptOK
    BY DEF ScriptOK
<1>8. QED BY <1>1, <1>2, <1>3, <1>4, <1>5, <1>6, <1>7 DEF HealInv, ServiceOK

(***************************************************************************)
(* A step of one transaction, as the script sees it.                        *)
(***************************************************************************)

\* Only t's event and locks move, and a new event has passed the gate.
Touches(t) ==
    /\ \A u \in Tx \ {t} : pending'[u] = pending[u]
    /\ \A o \in Orders : locks'[o] \in {locks[o], NoTx} \/ (locks'[o] = t /\ (t \in Settlers => HasEvent(o)))
    /\ \/ pending'[t] \in {NoEvent, pending[t]}
       \/ /\ pending'[t].version \in Nat
          /\ ~MustWait(t, pending'[t]) /\ ~Refused(pending'[t])

\* A commit adds the pending event, and writes no row that has no event.
AddsEvent(t) ==
    /\ pending[t] # NoEvent /\ pending'[t] = NoEvent
    /\ events' = events \cup {pending[t]}
    /\ \A o \in Orders : orders'[o] = orders[o] \/ HasEvent(o) \/ o = pending[t].agg

Moves(t) == Touches(t) /\ (UNCHANGED <<events, orders>> \/ AddsEvent(t))

LEMMA FreshStep ==
    ASSUME ServiceOK, NEW t \in Tx, Moves(t), NEW u \in Tx
    PROVE  Fresh(u)'
<1>1. \A x \in Tx : Fresh(x)
    BY DEF ServiceOK
<1>2. NoEvent.version \in Nat
    BY DEF NoEvent
<1>3. pending'[t].version \in Nat
    BY <1>1, <1>2 DEF Moves, Touches, Fresh
<1>4. pending'[u].version \in Nat
    BY <1>1, <1>3 DEF Moves, Touches, Fresh
<1>5. \A e : Clash(e, e)
    BY DEF Clash
<1>6. pending'[t] = NoEvent \/ (pending'[t] \notin events /\ \A x \in Tx \ {t} : pending[x] # pending'[t])
    <2>1. CASE pending'[t] = NoEvent
        BY <2>1
    <2>2. CASE pending'[t] # NoEvent /\ pending'[t] = pending[t]
        BY <1>1, <2>2 DEF Fresh
    <2>3. CASE ~MustWait(t, pending'[t]) /\ ~Refused(pending'[t]) /\ pending'[t] # NoEvent
        <3>1. pending'[t] \notin events
            BY <1>5, <2>3 DEF Refused
        <3>2. ASSUME NEW x \in Tx \ {t} PROVE pending[x] # pending'[t]
            BY <1>5, <2>3 DEF MustWait
        <3>3. QED BY <3>1, <3>2
    <2>4. QED BY <2>1, <2>2, <2>3 DEF Moves, Touches
<1>7. CASE UNCHANGED <<events, orders>>
    BY <1>1, <1>4, <1>6, <1>7 DEF Moves, Touches, Fresh
<1>8. CASE AddsEvent(t)
    <2>1. pending'[t] = NoEvent /\ events' = events \cup {pending[t]}
        BY <1>8 DEF AddsEvent
    <2>2. CASE u = t
        BY <1>4, <2>1, <2>2 DEF Fresh
    <2>3. CASE u # t
        <3>1. pending'[u] = pending[u]
            BY <2>3 DEF Moves, Touches
        <3>2. pending[u] # NoEvent => pending[u] \notin events'
            BY <1>1, <2>1, <2>3 DEF Fresh
        <3>3. ASSUME pending[u] # NoEvent, NEW x \in Tx \ {u} PROVE pending'[x] # pending[u]
            <4>1. CASE x = t
                BY <2>1, <3>3, <4>1
            <4>2. CASE x # t
                <5>1. pending'[x] = pending[x]
                    BY <4>2 DEF Moves, Touches
                <5>2. QED BY <1>1, <3>3, <5>1 DEF Fresh
            <4>3. QED BY <4>1, <4>2
        <3>4. QED BY <1>4, <3>1, <3>2, <3>3 DEF Fresh
    <2>4. QED BY <2>2, <2>3
<1>9. QED BY <1>7, <1>8 DEF Moves

LEMMA NumberedStep ==
    ASSUME ServiceOK, NEW t \in Tx, Moves(t)
    PROVE  Numbered(events)'
<1>1. CASE UNCHANGED <<events, orders>>
    BY <1>1 DEF ServiceOK, Numbered
<1>2. CASE AddsEvent(t)
    <2>1. events' = events \cup {pending[t]} /\ pending[t].version \in Nat
        BY <1>2 DEF AddsEvent, ServiceOK, Fresh
    <2>2. PICK b \in Nat : \A e \in events : e.version <= b
        BY DEF ServiceOK, Numbered
    <2>3. \A e \in events : e.version \in Nat
        BY DEF ServiceOK, Numbered
    <2> DEFINE v == pending[t].version
               top == IF v > b THEN v ELSE b
    <2>4. top \in Nat /\ v <= top /\ b <= top
        BY <2>1, <2>2
    <2>5. \A e \in events' : e.version \in Nat /\ e.version <= top
        <3> HIDE DEF top
        <3>1. \A e \in events : e.version <= top
            BY <2>2, <2>3, <2>4
        <3>2. QED BY <2>1, <2>3, <2>4, <3>1
    <2> HIDE DEF top, v
    <2>6. QED BY <2>4, <2>5 DEF Numbered
<1>3. QED BY <1>1, <1>2 DEF Moves

LEMMA RowsStep ==
    ASSUME ServiceOK, NEW t \in Tx, Moves(t), NEW o \in Orders
    PROVE  RowOfEvent(o)'
<1>1. RowOfEvent(o) /\ (HasEvent(o) => HasEvent(o)')
    BY DEF ServiceOK, Moves, AddsEvent, HasEvent
<1>2. locks'[o] \in Settlers => HasEvent(o)
    BY <1>1, DatabaseAssumption DEF Moves, Touches, RowOfEvent, Tx
<1>3. orders'[o] # NoRow => HasEvent(o)'
    BY <1>1 DEF Moves, AddsEvent, RowOfEvent, HasEvent
<1>4. QED BY <1>1, <1>2, <1>3 DEF RowOfEvent

\* A transaction leaves the script's invariant alone: it commits nothing, or
\* the log is whole no longer.
LEMMA ScriptMoves ==
    ASSUME HealInv, NEW t \in Tx, Moves(t), UNCHANGED scriptVars
    PROVE  ScriptOK'
<1>1. log' = log /\ drifted' = drifted /\ rpc' = rpc
    BY DEF scriptVars
<1>2. CASE UNCHANGED <<events, orders>>
    BY <1>1, <1>2 DEF HealInv, ScriptOK, FoundOK, HasEvent, Healed
<1>3. CASE AddsEvent(t)
    <2>1. events' = events \cup {pending[t]} /\ pending[t] \notin events
        BY <1>3 DEF AddsEvent, HealInv, ServiceOK, Fresh
    <2>2. log' \subseteq events' /\ log' # events'
        BY <1>1, <2>1 DEF HealInv, ScriptOK
    <2>3. ASSUME NEW d \in drifted PROVE FoundOK(d)'
        BY <1>1, <2>1, <2>3 DEF HealInv, ScriptOK, FoundOK, HasEvent
    <2>4. rpc' = "idle" => drifted' = {}
        BY <1>1 DEF HealInv, ScriptOK
    <2>5. QED BY <1>1, <2>2, <2>3, <2>4 DEF ScriptOK
<1>4. QED BY <1>2, <1>3 DEF Moves

(***************************************************************************)
(* The steps of the service.                                                *)
(***************************************************************************)

\* One worker moves, and keeps what concerns it.
LEMMA HealWorker ==
    ASSUME HealInv, NEW w \in Workers, UNCHANGED settleVars, ControlOK', Moves(w),
           UNCHANGED scriptVars, HoldsEvent(w)',
           \A u \in Workers \ {w} : pc'[u] = pc[u] /\ step'[u] = step[u] /\ target'[u] = target[u]
    PROVE  HealInv'
<1>1. w \in Tx
    BY DEF Tx
<1>2. ASSUME NEW u \in Workers PROVE HoldsEvent(u)'
    <2>1. CASE u = w
        BY <2>1
    <2>2. CASE u # w
        BY <2>2 DEF HealInv, ServiceOK, HoldsEvent, Moves, Touches, Tx
    <2>3. QED BY <2>1, <2>2
<1>3. ASSUME NEW s \in Settlers PROVE HoldsSettlement(s)'
    <2>1. s # w /\ s \in Tx
        BY DatabaseAssumption DEF Tx
    <2>2. QED BY <2>1 DEF HealInv, ServiceOK, HoldsSettlement, Moves, Touches, settleVars
<1>4. ServiceOK'
    BY <1>1, <1>2, <1>3, FreshStep, NumberedStep, RowsStep DEF HealInv, ServiceOK
<1>5. QED BY <1>1, <1>4, ScriptMoves DEF HealInv

LEMMA HealSettler ==
    ASSUME HealInv, NEW s \in Settlers, UNCHANGED orderVars, ControlOK', Moves(s),
           UNCHANGED scriptVars, HoldsSettlement(s)', \A u \in Settlers \ {s} : spc'[u] = spc[u]
    PROVE  HealInv'
<1>1. s \in Tx
    BY DEF Tx
<1>2. ASSUME NEW w \in Workers PROVE HoldsEvent(w)'
    <2>1. s # w /\ w \in Tx
        BY DatabaseAssumption DEF Tx
    <2>2. QED BY <2>1 DEF HealInv, ServiceOK, HoldsEvent, Moves, Touches, orderVars, workVars
<1>3. ASSUME NEW u \in Settlers PROVE HoldsSettlement(u)'
    <2>1. CASE u = s
        BY <2>1
    <2>2. CASE u # s
        BY <2>2 DEF HealInv, ServiceOK, HoldsSettlement, Moves, Touches, Tx
    <2>3. QED BY <2>1, <2>2
<1>4. ServiceOK'
    BY <1>1, <1>2, <1>3, FreshStep, NumberedStep, RowsStep DEF HealInv, ServiceOK
<1>5. QED BY <1>1, <1>4, ScriptMoves DEF HealInv

\* The control variables of w move, and no other worker's.
ControlMoves(w) ==
    /\ pc' = [pc EXCEPT ![w] = pc'[w]]
    /\ step' = [step EXCEPT ![w] = step'[w]]
    /\ target' = [target EXCEPT ![w] = target'[w]]
    /\ nextVersion' \in [Workers -> Nat]

\* The tables and the transactions are functions.
TablesOK ==
    /\ pending = [t \in Tx |-> pending[t]]
    /\ locks = [o \in Orders |-> locks[o]]
    /\ orders = [o \in Orders |-> orders[o]]

\* A step of w that keeps the invariant.
WorkerKeeps(w) == ControlMoves(w) /\ Moves(w) /\ HoldsEvent(w)' /\ TablesOK'

\* ROLLBACK and COMMIT.
LEMMA EndTouches ==
    ASSUME ServiceOK, NEW t \in Tx, EndTransaction(t)
    PROVE  /\ Touches(t) /\ pending'[t] = NoEvent
           /\ pending' = [u \in Tx |-> pending'[u]] /\ locks' = [o \in Orders |-> locks'[o]]
BY DEF EndTransaction, Touches, ServiceOK, ControlOK

LEMMA WorkerKept ==
    ASSUME HealInv, NEW w \in Workers, UNCHANGED settleVars, UNCHANGED scriptVars, WorkerKeeps(w)
    PROVE  HealInv'
<1>1. \A u \in Workers \ {w} : pc'[u] = pc[u] /\ step'[u] = step[u] /\ target'[u] = target[u]
    BY DEF HealInv, ServiceOK, ControlOK, WorkerKeeps, ControlMoves
<1>2. ControlOK'
    BY DEF HealInv, ServiceOK, ControlOK, TablesOK, WorkerKeeps, ControlMoves, settleVars
<1>3. QED BY <1>1, <1>2, HealWorker DEF WorkerKeeps

\* A step outside the transaction.
LEMMA OutsideKeeps ==
    ASSUME ServiceOK, NEW w \in Workers, UNCHANGED dbVars, ControlMoves(w),
           pc'[w] \notin {"update", "commit"}, pc'[w] = "idle" \/ step'[w] # "none"
    PROVE  WorkerKeeps(w)
<1>1. Moves(w) /\ TablesOK'
    BY DEF dbVars, Moves, Touches, ServiceOK, ControlOK, TablesOK
<1>2. HoldsEvent(w)'
    BY DEF HoldsEvent
<1>3. QED BY <1>1, <1>2 DEF WorkerKeeps

\* A step that ends the transaction without a commit.
LEMMA RollbackKeeps ==
    ASSUME ServiceOK, NEW w \in Workers, EndTransaction(w), UNCHANGED committedVars, ControlMoves(w),
           pc'[w] \notin {"update", "commit"}, pc'[w] = "idle" \/ step'[w] # "none"
    PROVE  WorkerKeeps(w)
<1>1. w \in Tx
    BY DEF Tx
<1>2. Moves(w)
    BY <1>1, EndTouches DEF Moves, committedVars
<1>3. TablesOK'
    BY <1>1, EndTouches DEF TablesOK, committedVars, ServiceOK, ControlOK
<1>4. HoldsEvent(w)'
    BY DEF HoldsEvent
<1>5. QED BY <1>2, <1>3, <1>4 DEF WorkerKeeps

LEMMA ContinueMoves ==
    ASSUME ServiceOK, NEW w \in Workers, pc[w] # "idle", Continue(w)
    PROVE  ControlMoves(w) /\ pc'[w] \in {"charge", "lookup", "reply"} /\ step'[w] # "none"
<1>1. step[w] # "none"
    BY DEF ServiceOK, HoldsEvent
<1>2. /\ pc = [u \in Workers |-> pc[u]] /\ step = [u \in Workers |-> step[u]]
      /\ target = [u \in Workers |-> target[u]] /\ nextVersion \in [Workers -> Nat]
    BY DEF ServiceOK, ControlOK
<1>3. pc' = [pc EXCEPT ![w] = pc'[w]] /\ pc'[w] \in {"charge", "lookup", "reply"}
    BY <1>2 DEF Continue, Goto, Reply
<1>4. step' = [step EXCEPT ![w] = step'[w]] /\ step'[w] # "none"
    BY <1>1, <1>2 DEF Continue
<1>5. target' = [target EXCEPT ![w] = target'[w]] /\ nextVersion' \in [Workers -> Nat]
    BY <1>2 DEF Continue, ForgetTransaction
<1>6. QED BY <1>3, <1>4, <1>5 DEF ControlMoves

LEMMA ThrowKeeps ==
    ASSUME ServiceOK, NEW w \in Workers, pc[w] # "idle", NEW code, Throw(w, code)
    PROVE  WorkerKeeps(w)
<1>1. step[w] # "none"
    BY DEF ServiceOK, HoldsEvent
<1>2. ControlMoves(w) /\ pc'[w] = "recheck" /\ step'[w] # "none"
    BY <1>1 DEF Throw, ForgetTransaction, Goto, ControlMoves, ServiceOK, ControlOK
<1>3. EndTransaction(w) /\ UNCHANGED committedVars
    BY DEF Throw
<1>4. QED BY <1>2, <1>3, RollbackKeeps

LEMMA ReplayKeeps ==
    ASSUME ServiceOK, NEW w \in Workers, pc[w] \in {"lookup", "recheck"}, UNCHANGED dbVars,
           \/ ReplayOr(w, Goto(w, "read") /\ UNCHANGED outcome)
           \/ ReplayOr(w, Reply(w, outcome[w]))
    PROVE  WorkerKeeps(w)
<1>1. step[w] # "none"
    BY DEF ServiceOK, HoldsEvent
<1>2. CASE Continue(w)
    BY <1>2, ContinueMoves, OutsideKeeps
<1>3. CASE ~Continue(w)
    <2>1. /\ pc' = [pc EXCEPT ![w] = "read"] \/ pc' = [pc EXCEPT ![w] = "reply"]
          /\ UNCHANGED <<step, target, nextVersion>>
        BY <1>3 DEF ReplayOr, Goto, Reply
    <2>2. ControlMoves(w) /\ pc'[w] \in {"read", "reply"} /\ step'[w] # "none"
        BY <1>1, <2>1 DEF ControlMoves, ServiceOK, ControlOK
    <2>3. QED BY <2>2, OutsideKeeps
<1>4. QED BY <1>2, <1>3

LEMMA StartKeeps ==
    ASSUME ServiceOK, NEW w \in Workers, Start(w)
    PROVE  WorkerKeeps(w)
<1>1. PICK c \in Calls :
        /\ step' = [step EXCEPT ![w] = FirstStep[c.op]] /\ target' = [target EXCEPT ![w] = c.order]
        /\ \/ Reply(w, "VALIDATION_ERROR")
           \/ Goto(w, IF c.op = "pay" THEN "find" ELSE "lookup")
    BY DEF Start
<1>2. c.op \in Ops
    BY OrderServiceAssumption DEF Call
<1>3. FirstStep[c.op] # "none"
    BY <1>2 DEF FirstStep, Ops
<1>4. UNCHANGED dbVars /\ UNCHANGED nextVersion
    BY DEF Start
<1>5. ControlMoves(w) /\ pc'[w] \in {"find", "lookup", "reply"} /\ step'[w] # "none"
    BY <1>1, <1>3, <1>4 DEF ControlMoves, Reply, Goto, ServiceOK, ControlOK
<1>6. QED BY <1>4, <1>5, OutsideKeeps

LEMMA QuietKeeps ==
    ASSUME ServiceOK, NEW w \in Workers, FindOrder(w) \/ QueryFails(w) \/ Charge(w) \/ Finish(w)
    PROVE  WorkerKeeps(w)
<1>1. UNCHANGED dbVars /\ step[w] # "none"
    BY DEF FindOrder, QueryFails, Charge, Finish, ServiceOK, HoldsEvent
<1>2. ControlMoves(w) /\ pc'[w] \notin {"update", "commit"} /\ (pc'[w] = "idle" \/ step'[w] # "none")
    <2>1. CASE FindOrder(w)
        BY <1>1, <2>1 DEF FindOrder, Goto, Reply, ControlMoves, ServiceOK, ControlOK
    <2>2. CASE QueryFails(w)
        BY <1>1, <2>2 DEF QueryFails, Goto, Reply, ControlMoves, ServiceOK, ControlOK
    <2>3. CASE Charge(w)
        BY <1>1, <2>3 DEF Charge, Goto, Reply, ControlMoves, ServiceOK, ControlOK
    <2>4. CASE Finish(w)
        BY <1>1, <2>4 DEF Finish, Reset, Goto, ControlMoves, ServiceOK, ControlOK
    <2>5. QED BY <2>1, <2>2, <2>3, <2>4
<1>3. QED BY <1>1, <1>2, OutsideKeeps

LEMMA CrashKeeps ==
    ASSUME ServiceOK, NEW w \in Workers, Crash(w)
    PROVE  WorkerKeeps(w)
<1>1. EndTransaction(w) /\ UNCHANGED committedVars
    BY DEF Crash
<1>2. ControlMoves(w) /\ pc'[w] = "idle"
    BY DEF Crash, Reset, Goto, ControlMoves, ServiceOK, ControlOK
<1>3. QED BY <1>1, <1>2, RollbackKeeps

LEMMA ReadKeeps ==
    ASSUME ServiceOK, NEW w \in Workers, ReadOrder(w)
    PROVE  WorkerKeeps(w)
<1>1. step[w] # "none" /\ pc[w] # "idle"
    BY DEF ReadOrder, ServiceOK, HoldsEvent
<1>2. CASE \E code : Throw(w, code)
    BY <1>1, <1>2, ThrowKeeps
<1>3. CASE ~\E code : Throw(w, code)
    <2>1. PICK o : /\ UNCHANGED dbVars /\ UNCHANGED step
                   /\ target' = [target EXCEPT ![w] = o]
                   /\ \/ Goto(w, "insert") /\ nextVersion' = [nextVersion EXCEPT ![w] = 1]
                      \/ Goto(w, "latest") /\ UNCHANGED nextVersion
        BY <1>3 DEF ReadOrder
    <2>2. /\ pc' = [pc EXCEPT ![w] = "insert"] \/ pc' = [pc EXCEPT ![w] = "latest"]
          /\ nextVersion' \in [Workers -> Nat]
        BY <2>1 DEF Goto, ServiceOK, ControlOK
    <2>3. pc'[w] \in {"insert", "latest"} /\ pc' = [pc EXCEPT ![w] = pc'[w]]
        BY <2>2 DEF ServiceOK, ControlOK
    <2>4. step' = [step EXCEPT ![w] = step'[w]] /\ target' = [target EXCEPT ![w] = target'[w]]
        BY <2>1 DEF ServiceOK, ControlOK
    <2>5. ControlMoves(w) /\ step'[w] # "none"
        BY <1>1, <2>1, <2>2, <2>3, <2>4 DEF ControlMoves
    <2>6. QED BY <2>1, <2>3, <2>5, OutsideKeeps
<1>4. QED BY <1>2, <1>3

LEMMA ReadLatestKeeps ==
    ASSUME ServiceOK, NEW w \in Workers, ReadLatest(w)
    PROVE  WorkerKeeps(w)
<1>1. step[w] # "none" /\ UNCHANGED dbVars
    BY DEF ReadLatest, ServiceOK, HoldsEvent
<1>2. LatestVersion(target[w]) \in Nat
    BY LastVersion DEF LatestVersion, EventsOf, ServiceOK
<1>3. LatestVersion(target[w]) + 1 \in Nat
    BY <1>2
<1>4. ControlMoves(w) /\ pc'[w] = "insert" /\ step'[w] # "none"
    BY <1>1, <1>3 DEF ReadLatest, Goto, ControlMoves, ServiceOK, ControlOK
<1>5. QED BY <1>1, <1>4, OutsideKeeps

LEMMA InsertKeeps ==
    ASSUME ServiceOK, NEW w \in Workers, InsertEvent(w)
    PROVE  WorkerKeeps(w)
<1>1. step[w] # "none" /\ pc[w] # "idle" /\ w \in Tx /\ nextVersion[w] \in Nat
    BY DEF InsertEvent, ServiceOK, ControlOK, HoldsEvent, Tx
<1>2. CASE \E code : Throw(w, code)
    BY <1>1, <1>2, ThrowKeeps
<1>3. CASE ~\E code : Throw(w, code)
    <2> DEFINE e == EventOf(w)
    <2>1. /\ ~MustWait(w, e) /\ ~Refused(e) /\ pending' = [pending EXCEPT ![w] = e]
          /\ Goto(w, "update")
          /\ UNCHANGED <<events, orders, locks, step, target, nextVersion>>
        BY <1>3 DEF InsertEvent, InsertEventRow, committedVars
    <2>2. e.version = nextVersion[w] /\ e.agg = target[w] /\ e # NoEvent
        <3>1. e.type = step[w] /\ NoEvent.type = "none"
            BY DEF EventOf, NoEvent
        <3>2. e.version = nextVersion[w] /\ e.agg = target[w]
            BY DEF EventOf
        <3> HIDE DEF e
        <3>3. QED BY <1>1, <3>1, <3>2
    <2> HIDE DEF e
    <2>3. ControlMoves(w) /\ pc'[w] = "update" /\ step'[w] # "none" /\ target'[w] = target[w]
        BY <1>1, <2>1 DEF Goto, ControlMoves, ServiceOK, ControlOK
    <2>4. pending'[w] = e /\ \A t \in Tx \ {w} : pending'[t] = pending[t]
        BY <1>1, <2>1 DEF ServiceOK, ControlOK
    <2>5. Moves(w)
        BY <1>1, <2>1, <2>2, <2>4 DEF Moves, Touches
    <2>6. TablesOK'
        BY <2>1 DEF TablesOK, ServiceOK, ControlOK
    <2>7. HoldsEvent(w)'
        BY <2>2, <2>3, <2>4 DEF HoldsEvent
    <2>8. QED BY <2>3, <2>5, <2>6, <2>7 DEF WorkerKeeps
<1>4. QED BY <1>2, <1>3

LEMMA UpdateKeeps ==
    ASSUME ServiceOK, NEW w \in Workers, UpdateOrder(w)
    PROVE  WorkerKeeps(w)
<1>1. step[w] # "none" /\ pc[w] = "update" /\ w \in Tx /\ w \notin Settlers
    BY DatabaseAssumption DEF UpdateOrder, ServiceOK, HoldsEvent, Tx
<1>2. CASE Throw(w, "VERSION_CONFLICT")
    BY <1>1, <1>2, ThrowKeeps
<1>3. CASE ~Throw(w, "VERSION_CONFLICT")
    <2>1. /\ LockRow(w, target[w]) /\ Goto(w, "commit")
          /\ UNCHANGED <<events, orders, pending, step, target, nextVersion>>
        BY <1>3 DEF UpdateOrder, committedVars
    <2>2. ControlMoves(w) /\ pc'[w] = "commit" /\ step'[w] # "none"
        BY <1>1, <2>1 DEF Goto, ControlMoves, ServiceOK, ControlOK
    <2>3. Moves(w) /\ TablesOK'
        BY <1>1, <2>1 DEF LockRow, Moves, Touches, TablesOK, ServiceOK, ControlOK
    <2>4. HoldsEvent(w)'
        BY <1>1, <2>1 DEF HoldsEvent, ServiceOK
    <2>5. QED BY <2>2, <2>3, <2>4 DEF WorkerKeeps
<1>4. QED BY <1>2, <1>3

\* A commit of a mutation.
LEMMA PublishMoves ==
    ASSUME ServiceOK, NEW w \in Workers, pc[w] = "commit", Publish(w)
    PROVE  Moves(w) /\ TablesOK'
<1>1. w \in Tx /\ pending[w] # NoEvent /\ pending[w].agg = target[w]
    BY DEF ServiceOK, HoldsEvent, Tx
<1>2. EndTransaction(w) /\ events' = events \cup {pending[w]}
    BY DEF Publish
<1>3. /\ orders' = [o \in Orders |-> orders'[o]]
      /\ \A o \in Orders : o # target[w] => orders'[o] = orders[o]
    BY DEF Publish, ServiceOK, ControlOK
<1>4. QED BY <1>1, <1>2, <1>3, EndTouches DEF Moves, AddsEvent, TablesOK

LEMMA CommitKeeps ==
    ASSUME ServiceOK, NEW w \in Workers, Commit(w) \/ CommitAckLost(w)
    PROVE  WorkerKeeps(w)
<1>1. pc[w] = "commit" /\ Publish(w) /\ step[w] # "none"
    BY DEF Commit, CommitAckLost, ServiceOK, HoldsEvent
<1>2. Moves(w) /\ TablesOK'
    BY <1>1, PublishMoves
<1>3. ControlMoves(w) /\ pc'[w] \notin {"update", "commit"} /\ step'[w] # "none"
    <2>1. CASE Commit(w)
        BY <1>1, <2>1, ContinueMoves DEF Commit
    <2>2. CASE CommitAckLost(w)
        BY <1>1, <2>2 DEF CommitAckLost, ForgetTransaction, Goto, ControlMoves, ServiceOK, ControlOK
    <2>3. QED BY <2>1, <2>2
<1>4. HoldsEvent(w)'
    BY <1>3 DEF HoldsEvent
<1>5. QED BY <1>2, <1>3, <1>4 DEF WorkerKeeps

LEMMA WorkerNextKeeps ==
    ASSUME ServiceOK, NEW w \in Workers, WorkerNext(w)
    PROVE  WorkerKeeps(w)
<1>1. CASE Start(w)
    BY <1>1, StartKeeps
<1>2. CASE FindOrder(w) \/ QueryFails(w) \/ Charge(w) \/ Finish(w)
    BY <1>2, QuietKeeps
<1>3. CASE Lookup(w) \/ Recheck(w)
    BY <1>3, ReplayKeeps DEF Lookup, Recheck
<1>4. CASE ReadOrder(w)
    BY <1>4, ReadKeeps
<1>5. CASE ReadLatest(w)
    BY <1>5, ReadLatestKeeps
<1>6. CASE InsertEvent(w)
    BY <1>6, InsertKeeps
<1>7. CASE UpdateOrder(w)
    BY <1>7, UpdateKeeps
<1>8. CASE Commit(w) \/ CommitAckLost(w)
    BY <1>8, CommitKeeps
<1>9. CASE Abort(w)
    BY <1>9, ThrowKeeps DEF Abort, InTransaction
<1>10. CASE Crash(w)
    BY <1>10, CrashKeeps
<1>11. QED
    BY <1>1, <1>2, <1>3, <1>4, <1>5, <1>6, <1>7, <1>8, <1>9, <1>10
    DEF WorkerNext, Progress, Failure

\* A step of a settler that keeps the invariant.
SettlerKeeps(s) ==
    spc' = [spc EXCEPT ![s] = spc'[s]] /\ Moves(s) /\ HoldsSettlement(s)' /\ TablesOK'

LEMMA SettlerKept ==
    ASSUME HealInv, NEW s \in Settlers, UNCHANGED orderVars, UNCHANGED scriptVars, SettlerKeeps(s)
    PROVE  HealInv'
<1>1. \A u \in Settlers \ {s} : spc'[u] = spc[u]
    BY DEF HealInv, ServiceOK, ControlOK, SettlerKeeps
<1>2. ControlOK'
    BY DEF HealInv, ServiceOK, ControlOK, TablesOK, SettlerKeeps, orderVars, workVars
<1>3. QED BY <1>1, <1>2, HealSettler DEF SettlerKeeps

LEMMA SettlerOutsideKeeps ==
    ASSUME ServiceOK, NEW s \in Settlers, UNCHANGED dbVars, NEW point, point # "mark",
           spc' = [spc EXCEPT ![s] = point]
    PROVE  SettlerKeeps(s)
<1>1. Moves(s) /\ TablesOK'
    BY DEF dbVars, Moves, Touches, ServiceOK, ControlOK, TablesOK
<1>2. spc'[s] = point
    BY DEF ServiceOK, ControlOK
<1>3. QED BY <1>1, <1>2 DEF SettlerKeeps, HoldsSettlement

LEMMA SettlerRollbackKeeps ==
    ASSUME ServiceOK, NEW s \in Settlers, EndTransaction(s), UNCHANGED committedVars,
           NEW point, point # "mark", spc' = [spc EXCEPT ![s] = point]
    PROVE  SettlerKeeps(s)
<1>1. s \in Tx
    BY DEF Tx
<1>2. Moves(s)
    BY <1>1, EndTouches DEF Moves, committedVars
<1>3. TablesOK'
    BY <1>1, EndTouches DEF TablesOK, committedVars, ServiceOK, ControlOK
<1>4. spc'[s] = point
    BY DEF ServiceOK, ControlOK
<1>5. QED BY <1>2, <1>3, <1>4 DEF SettlerKeeps, HoldsSettlement

LEMMA SettleThrowKeeps ==
    ASSUME ServiceOK, NEW s \in Settlers, NEW code, SettleThrow(s, code)
    PROVE  SettlerKeeps(s)
BY SettlerRollbackKeeps DEF SettleThrow, SettleGoto

LEMMA SettlerQuietKeeps ==
    ASSUME ServiceOK, NEW s \in Settlers,
           \/ StartSettle(s) \/ FindSettlement(s) \/ SelectEligible(s) \/ RecheckSettlement(s)
           \/ SettleQueryFails(s) \/ FinishSettle(s)
    PROVE  SettlerKeeps(s)
<1>1. UNCHANGED dbVars
    BY DEF StartSettle, FindSettlement, SelectEligible, RecheckSettlement, SettleQueryFails, FinishSettle
<1>2. \E point : point # "mark" /\ spc' = [spc EXCEPT ![s] = point]
    BY DEF StartSettle, FindSettlement, SelectEligible, RecheckSettlement, SettleQueryFails,
           FinishSettle, ResetSettler, SettleReply, SettleGoto
<1>3. QED BY <1>1, <1>2, SettlerOutsideKeeps

LEMMA InsertSettlementKeeps ==
    ASSUME ServiceOK, NEW s \in Settlers, InsertSettlement(s)
    PROVE  SettlerKeeps(s)
<1>1. CASE \E code : SettleThrow(s, code)
    BY <1>1, SettleThrowKeeps
<1>2. CASE ~\E code : SettleThrow(s, code)
    <2> DEFINE e == SettlementEvent(s)
    <2>1. /\ ~MustWait(s, e) /\ ~Refused(e) /\ pending' = [pending EXCEPT ![s] = e]
          /\ spc' = [spc EXCEPT ![s] = "mark"] /\ UNCHANGED <<events, orders, locks>>
        BY <1>2 DEF InsertSettlement, InsertEventRow, SettleGoto, committedVars
    <2>2. e.version = 1 /\ e # NoEvent
        <3>1. e.version = 1 /\ NoEvent.version = 0
            BY DEF SettlementEvent, NoEvent
        <3> HIDE DEF e
        <3>2. QED BY <3>1
    <2> HIDE DEF e
    <2>3. s \in Tx /\ pending'[s] = e /\ \A t \in Tx \ {s} : pending'[t] = pending[t]
        BY <2>1 DEF ServiceOK, ControlOK, Tx
    <2>4. Moves(s)
        BY <2>1, <2>2, <2>3 DEF Moves, Touches
    <2>5. TablesOK' /\ spc' = [spc EXCEPT ![s] = spc'[s]]
        BY <2>1 DEF TablesOK, ServiceOK, ControlOK
    <2>6. QED BY <2>2, <2>3, <2>4, <2>5 DEF SettlerKeeps, HoldsSettlement
<1>3. QED BY <1>1, <1>2

\* The row it locks is there, and so has an event.
LEMMA MarkKeeps ==
    ASSUME ServiceOK, NEW s \in Settlers, NEW o \in Orders, MarkOrder(s, o)
    PROVE  SettlerKeeps(s)
<1>1. UNCHANGED <<events, orders, pending, spc>>
    BY DEF MarkOrder, committedVars
<1>2. StillSettleable(orders[o]) => HasEvent(o)
    BY DEF StillSettleable, SettlementStatuses, NoRow, ServiceOK, RowOfEvent
<1>3. Touches(s) /\ locks' = [x \in Orders |-> locks'[x]]
    BY <1>1, <1>2 DEF MarkOrder, LockRow, Touches, ServiceOK, ControlOK
<1>4. Moves(s) /\ TablesOK' /\ spc' = [spc EXCEPT ![s] = spc'[s]]
    BY <1>1, <1>3 DEF Moves, TablesOK, ServiceOK, ControlOK
<1>5. HoldsSettlement(s)'
    BY <1>1 DEF HoldsSettlement, ServiceOK
<1>6. QED BY <1>4, <1>5 DEF SettlerKeeps

LEMMA PublishSettlementMoves ==
    ASSUME ServiceOK, NEW s \in Settlers, spc[s] = "mark", PublishSettlement(s)
    PROVE  Moves(s) /\ TablesOK'
<1>1. s \in Tx /\ pending[s] # NoEvent
    BY DEF ServiceOK, HoldsSettlement, Tx
<1>2. EndTransaction(s) /\ events' = events \cup {pending[s]}
    BY DEF PublishSettlement
<1>3. orders' = [o \in Orders |-> orders'[o]]
    BY DEF PublishSettlement
<1>4. \A o \in Orders : orders'[o] = orders[o] \/ HasEvent(o)
    BY DEF PublishSettlement, ServiceOK, RowOfEvent
<1>5. QED BY <1>1, <1>2, <1>3, <1>4, EndTouches DEF Moves, AddsEvent, TablesOK

LEMMA CommitSettlementKeeps ==
    ASSUME ServiceOK, NEW s \in Settlers, CommitSettlement(s) \/ SettleAckLost(s)
    PROVE  SettlerKeeps(s)
<1>1. CASE \E code : SettleThrow(s, code)
    BY <1>1, SettleThrowKeeps
<1>2. CASE ~\E code : SettleThrow(s, code)
    <2>1. spc[s] = "mark" /\ PublishSettlement(s)
        BY <1>2 DEF CommitSettlement, SettleAckLost
    <2>2. Moves(s) /\ TablesOK'
        BY <2>1, PublishSettlementMoves
    <2>3. spc' = [spc EXCEPT ![s] = "reply"] \/ spc' = [spc EXCEPT ![s] = "recheck"]
        BY <1>2 DEF CommitSettlement, SettleAckLost, SettleReply, SettleGoto
    <2>4. spc' = [spc EXCEPT ![s] = spc'[s]] /\ spc'[s] # "mark"
        BY <2>3 DEF ServiceOK, ControlOK
    <2>5. QED BY <2>2, <2>4 DEF SettlerKeeps, HoldsSettlement
<1>3. QED BY <1>1, <1>2

LEMMA SettlerNextKeeps ==
    ASSUME ServiceOK, NEW s \in Settlers, SettlerNext(s)
    PROVE  SettlerKeeps(s)
<1>1. CASE \/ StartSettle(s) \/ FindSettlement(s) \/ SelectEligible(s) \/ RecheckSettlement(s)
           \/ SettleQueryFails(s) \/ FinishSettle(s)
    BY <1>1, SettlerQuietKeeps
<1>2. CASE InsertSettlement(s)
    BY <1>2, InsertSettlementKeeps
<1>3. CASE \E o \in Orders : MarkOrder(s, o)
    BY <1>3, MarkKeeps
<1>4. CASE CommitSettlement(s) \/ SettleAckLost(s)
    BY <1>4, CommitSettlementKeeps
<1>5. CASE AbortSettlement(s) \/ DeadlockVictim(s)
    BY <1>5, SettleThrowKeeps DEF AbortSettlement, DeadlockVictim
<1>6. CASE CrashSettler(s)
    BY <1>6, SettlerRollbackKeeps DEF CrashSettler, ResetSettler, SettleGoto
<1>7. QED
    BY <1>1, <1>2, <1>3, <1>4, <1>5, <1>6 DEF SettlerNext, SettleProgress, SettleFailure

(***************************************************************************)
(* The steps of the script, and damage.                                     *)
(***************************************************************************)

\* What rests on the variables of the service only.
LEMMA ServiceStays ==
    ASSUME ServiceOK, UNCHANGED <<orderVars, settleVars, events, pending, locks>>,
           orders' = [o \in Orders |-> orders'[o]],
           \A o \in Orders : orders'[o] # NoRow => HasEvent(o)
    PROVE  ServiceOK'
<1> USE DEF orderVars, workVars, settleVars
<1>1. ControlOK' /\ Numbered(events)'
    BY DEF ServiceOK, ControlOK, Numbered
<1>2. \A w \in Workers : HoldsEvent(w)'
    BY DEF ServiceOK, HoldsEvent
<1>3. \A s \in Settlers : HoldsSettlement(s)'
    BY DEF ServiceOK, HoldsSettlement
<1>4. \A t \in Tx : Fresh(t)'
    BY DEF ServiceOK, Fresh
<1>5. \A o \in Orders : RowOfEvent(o)'
    BY DEF ServiceOK, RowOfEvent, HasEvent
<1>6. QED BY <1>1, <1>2, <1>3, <1>4, <1>5 DEF ServiceOK

LEMMA ServiceQuiet ==
    ASSUME ServiceOK, UNCHANGED <<orderVars, settleVars, events, pending, locks, orders>>
    PROVE  ServiceOK'
<1>1. orders' = [o \in Orders |-> orders'[o]] /\ \A o \in Orders : orders'[o] # NoRow => HasEvent(o)
    BY DEF ServiceOK, ControlOK, RowOfEvent
<1>2. QED BY <1>1, ServiceStays

LEMMA ReadRowsKeeps ==
    ASSUME HealInv, ReadRows, UNCHANGED <<orderVars, settleVars>>
    PROVE  HealInv'
<1>1. UNCHANGED <<events, pending, locks, orders, log>> /\ log \subseteq events /\ rpc' # "idle"
    BY DEF ReadRows, dbVars, HealInv, ScriptOK
<1>2. ServiceOK'
    BY <1>1, ServiceQuiet DEF HealInv
<1>3. Numbered(log)
    BY <1>1 DEF HealInv, ServiceOK, Numbered
<1>4. \A d \in drifted' : FoundOK(d)'
    BY <1>1 DEF ReadRows, FoundOK, HasEvent
<1>5. ASSUME NEW o \in Orders, HasEvent(o), log = events
      PROVE  (\E d \in drifted' : d.order = o) \/ Healed(o)
    <2>1. PICK row \in Rebuilt(log, o) : TRUE
        BY <1>3, RebuiltRows
    <2>2. CASE DescribeDrift(orders[o], row)
        <3> DEFINE d == [order |-> o, row |-> row]
        <3>1. d \in [order : {o}, row : Rebuilt(log, o)] /\ d.order = o /\ d.row = row
            BY <2>1
        <3>2. o \in {e.agg : e \in log} \cap Orders
            BY <1>5 DEF HasEvent
        <3> HIDE DEF d
        <3>3. d \in drifted'
            BY <2>2, <3>1, <3>2 DEF ReadRows
        <3>4. QED BY <3>1, <3>3
    <2>3. CASE ~DescribeDrift(orders[o], row)
        BY <2>1, <2>3 DEF DescribeDrift, Healed
    <2>4. QED BY <2>2, <2>3
<1>6. ScriptOK'
    BY <1>1, <1>4, <1>5 DEF ScriptOK, HasEvent, Healed
<1>7. QED BY <1>2, <1>6 DEF HealInv

LEMMA RepairKeeps ==
    ASSUME HealInv, Repair, UNCHANGED <<orderVars, settleVars>>
    PROVE  HealInv'
<1>1. PICK d \in drifted : /\ orders' = [orders EXCEPT ![d.order] = Upsert(@, d.row)]
                           /\ drifted' = drifted \ {d}
    BY DEF Repair
<1>2. UNCHANGED <<events, pending, locks, log, rpc>> /\ log \subseteq events /\ rpc # "idle"
    BY DEF Repair, HealInv, ScriptOK
<1>3. FoundOK(d)
    BY DEF HealInv, ScriptOK
<1>4. /\ orders' = [o \in Orders |-> orders'[o]]
      /\ \A o \in Orders : o # d.order => orders'[o] = orders[o]
      /\ orders'[d.order] = Upsert(orders[d.order], d.row)
    BY <1>1, <1>3 DEF FoundOK, HealInv, ServiceOK, ControlOK
<1>5. ServiceOK'
    <2>1. \A o \in Orders : orders'[o] # NoRow => HasEvent(o)
        BY <1>3, <1>4 DEF FoundOK, HealInv, ServiceOK, RowOfEvent
    <2>2. QED BY <1>2, <1>4, <2>1, ServiceStays DEF HealInv
<1>6. Healed(d.order)'
    <2>1. Numbered(log)
        BY <1>2 DEF HealInv, ServiceOK, Numbered
    <2>2. d.row \in Rebuilt(log, d.order) /\ HasColumns(d.row)
        BY <1>3, <2>1, RebuiltRows DEF FoundOK
    <2> DEFINE stored == orders[d.order]
    <2>3. \A c \in {"status", "version", "fee", "charge", "settlement"} :
            Upsert(stored, d.row)[c] = d.row[c]
        <3> HIDE DEF stored
        <3>1. QED BY <2>2 DEF Upsert, HasColumns, Columns
    <2>4. QED BY <1>2, <1>4, <2>2, <2>3 DEF Healed
<1>7. \A x \in drifted' : FoundOK(x)'
    BY <1>1, <1>2 DEF HealInv, ScriptOK, FoundOK, HasEvent
<1>8. ASSUME NEW o \in Orders, HasEvent(o), log = events
      PROVE  (\E x \in drifted' : x.order = o) \/ Healed(o)'
    <2>1. CASE o = d.order
        BY <1>6, <2>1
    <2>2. CASE o # d.order
        <3>1. (\E x \in drifted : x.order = o) \/ Healed(o)
            BY <1>8 DEF Repair, HealInv, ScriptOK
        <3>2. Healed(o) => Healed(o)'
            BY <1>2, <1>4, <2>2 DEF Healed
        <3>3. QED BY <1>1, <2>2, <3>1, <3>2
    <2>3. QED BY <2>1, <2>2
<1>9. ScriptOK'
    BY <1>2, <1>7, <1>8 DEF ScriptOK, HasEvent
<1>10. QED BY <1>5, <1>9 DEF HealInv

LEMMA ScriptStepKeeps == ASSUME HealInv, ScriptStep PROVE HealInv'
<1>1. CASE ReadRows
    BY <1>1, ReadRowsKeeps DEF ScriptStep
<1>2. CASE Repair
    BY <1>2, RepairKeeps DEF ScriptStep
<1>3. CASE ReadLog \/ Exit \/ Report
    <2>1. ServiceOK'
        BY <1>3, ServiceQuiet DEF ScriptStep, ReadLog, Exit, Report, dbVars, HealInv
    <2>2. UNCHANGED <<events, orders>>
        BY <1>3 DEF ReadLog, Exit, Report, dbVars
    <2>3. CASE ReadLog
        <3>1. drifted' = {} /\ log' = events' /\ rpc' = "rows"
            BY <2>2, <2>3 DEF ReadLog, HealInv, ScriptOK
        <3>2. QED BY <2>1, <3>1 DEF HealInv, ScriptOK
    <2>4. CASE Exit
        BY <2>1, <2>2, <2>4 DEF Exit, HealInv, ScriptOK
    <2>5. CASE Report
        BY <2>1, <2>2, <2>5 DEF Report, HealInv, ScriptOK, FoundOK, HasEvent, Healed
    <2>6. QED BY <1>3, <2>3, <2>4, <2>5
<1>4. QED BY <1>1, <1>2, <1>3 DEF ScriptStep

LEMMA DamageStepKeeps == ASSUME HealInv, DamageStep PROVE HealInv'
<1>1. PICK o \in Orders : DamageRow(o)
    BY DEF DamageStep
<1>2. /\ UNCHANGED <<orderVars, settleVars, events, pending, locks, log, drifted, rpc>>
      /\ rpc = "idle" /\ orders[o] # NoRow
    BY <1>1 DEF DamageStep, DamageRow
<1>3. HasEvent(o)
    BY <1>2 DEF HealInv, ServiceOK, RowOfEvent
<1>4. PICK row : orders' = [orders EXCEPT ![o] = row]
    BY <1>1 DEF DamageRow
<1>5. /\ orders' = [x \in Orders |-> orders'[x]]
      /\ \A x \in Orders : x # o => orders'[x] = orders[x]
    BY <1>4 DEF HealInv, ServiceOK, ControlOK
<1>6. \A x \in Orders : orders'[x] # NoRow => HasEvent(x)
    BY <1>3, <1>5 DEF HealInv, ServiceOK, RowOfEvent
<1>7. ServiceOK'
    BY <1>2, <1>5, <1>6, ServiceStays DEF HealInv
<1>8. ScriptOK'
    BY <1>2 DEF HealInv, ScriptOK
<1>9. QED BY <1>7, <1>8 DEF HealInv

LEMMA ServiceStepKeeps == ASSUME HealInv, ServiceStep PROVE HealInv'
<1>1. ASSUME NEW w \in Workers, WorkerStep(w) PROVE HealInv'
    BY <1>1, WorkerNextKeeps, WorkerKept DEF WorkerStep, ServiceStep, HealInv
<1>2. ASSUME NEW s \in Settlers, SettlerStep(s) PROVE HealInv'
    BY <1>2, SettlerNextKeeps, SettlerKept DEF SettlerStep, ServiceStep, HealInv
<1>3. ASSUME CalendarStep PROVE HealInv'
    <2>1. UNCHANGED <<orderVars, settleVars, events, pending, locks, orders, scriptVars>>
        BY <1>3 DEF CalendarStep, AdvanceDay, committedVars, ServiceStep
    <2>2. ServiceOK'
        BY <2>1, ServiceQuiet DEF HealInv
    <2>3. ScriptOK'
        BY <2>1 DEF scriptVars, HealInv, ScriptOK, FoundOK, HasEvent, Healed
    <2>4. QED BY <2>2, <2>3 DEF HealInv
<1>4. QED BY <1>1, <1>2, <1>3 DEF ServiceStep, Next

LEMMA HealNext == HealInv /\ [RNext]_<<vars, scriptVars>> => HealInv'
<1> SUFFICES ASSUME HealInv, [RNext]_<<vars, scriptVars>> PROVE HealInv'
    OBVIOUS
<1>1. CASE UNCHANGED <<vars, scriptVars>>
    <2>1. ServiceOK'
        BY <1>1, ServiceQuiet DEF HealInv, vars, dbVars
    <2>2. ScriptOK'
        BY <1>1 DEF vars, dbVars, scriptVars, HealInv, ScriptOK, FoundOK, HasEvent, Healed
    <2>3. QED BY <2>1, <2>2 DEF HealInv
<1>2. QED BY <1>1, ScriptStepKeeps, DamageStepKeeps, ServiceStepKeeps DEF RNext

LEMMA HealInvariance == RSpec => []HealInv
BY HealInit, HealNext, PTL DEF RSpec

LEMMA HealInvHeals == HealInv => RepairHeals
<1> SUFFICES ASSUME HealInv, AllRepaired, NEW o \in Orders PROVE Healed(o) /\ log = events
    BY DEF RepairHeals, Healed
<1>1. log = events /\ rpc = "done" /\ drifted = {}
    BY DEF AllRepaired
<1>2. CASE HasEvent(o)
    BY <1>1, <1>2 DEF HealInv, ScriptOK
<1>3. CASE ~HasEvent(o)
    <2>1. orders[o] = NoRow
        BY <1>3 DEF HealInv, ServiceOK, RowOfEvent
    <2>2. Numbered(log)
        BY <1>1 DEF HealInv, ServiceOK
    <2>3. Rebuilt(log, o) = {NoRow}
        BY <1>1, <1>3, <2>2, RebuiltRows DEF HasEvent
    <2>4. QED BY <1>1, <2>1, <2>3 DEF Healed
<1>4. QED BY <1>1, <1>2, <1>3

\* A run of the repair script that ends with nothing left to repair, and during
\* which nothing was committed, leaves rows that replay from the log, whatever
\* was damaged before, whatever transactions are open and however many runs
\* were killed (rebuild-projections.ts:6-10).
THEOREM RepairsHeal == RSpec => []RepairHeals
BY HealInvariance, HealInvHeals, PTL
=============================================================================
