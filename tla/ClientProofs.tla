---------------------------- MODULE ClientProofs -----------------------------
(***************************************************************************)
(* The two sides of the dashboard: the pages that read, for any number of    *)
(* orders, workers, settlers and readers, and the form and the buttons that  *)
(* write, for any number of tabs.                                           *)
(*                                                                         *)
(* The argument for the pages.  A page is put together from statements       *)
(* between which anything may be committed; what it has read stays true of a *)
(* database that only grows: events are never removed, a settled order keeps *)
(* its amount and its fee, a refunded order stays refunded (OrderLasts), and *)
(* no settlement takes anything back (PaidOutGrows).  So a page that reads   *)
(* the row first finds in its history, or in the books, all that the row     *)
(* says happened.  A walk through the list takes the newest of the orders    *)
(* older than its cursor, which is the last one it has shown: nothing comes  *)
(* twice, and what it has not shown yet is older than the cursor (WalkInv).  *)
(*                                                                         *)
(* The argument for the buttons.  A call in flight carries a key that some   *)
(* form or tab still holds, or whose attempt is over (FormInv, PageInv): a   *)
(* tab waits for one worker, which serves its action and its key, and only   *)
(* an event that ends the attempt makes that worker answer with success or   *)
(* with a decline.  And as a key is drawn for one action, whatever is stored *)
(* under it was stored for that action (KeysOwned).                         *)
(***************************************************************************)
EXTENDS Queries, Browser, SagaProofs

(***************************************************************************)
(* What an order's row and events keep while a page is put together.        *)
(***************************************************************************)

\* Some event of the history left the status the row shows.
Explains(history, row) ==
    \E e \in history : e.version = row.version /\ NextStatus[e.type] = row.status

\* The order a row was read of is still as settled, or as refunded, as the row.
Lasts(row, o) ==
    /\ row.settlement # NoDay =>
         /\ orders[o].settlement # NoDay
         /\ orders[o].amount = row.amount /\ orders[o].fee = row.fee
    /\ row.status = "REFUNDED" => orders[o].status = "REFUNDED"

\* The postings of that row are in the books.
Posted(row, nets) ==
    /\ row.settlement # NoDay => nets["seller_payout"] = row.amount - row.fee
    /\ row.status = "REFUNDED" => nets = NoEntries

\* No step of the service takes a posting or an event of an order back.
LEMMA OrderLasts ==
    ASSUME IInv, BooksInv, [Next]_vars, NEW o \in Orders
    PROVE  /\ EventsOf(o) \subseteq EventsOf(o)'
           /\ orders[o].status # "NONE" => orders'[o].status # "NONE"
           /\ \A row : Lasts(row, o) => Lasts(row, o)'
<1> DEFINE row == orders[o]
           new == orders'[o]
           Later == /\ new.settlement = row.settlement \/ row.settlement = NoDay
                    /\ row.settlement # NoDay => new.amount = row.amount /\ new.fee = row.fee
                    /\ row.status = "REFUNDED" => new.status = "REFUNDED"
<1>1. Grows
    BY StepGrows
<1>2. EventsOf(o) \subseteq EventsOf(o)' /\ (row.status # "NONE" => new.status # "NONE")
    BY <1>1 DEF Grows, EventsOf
<1>3. RowOK(o) /\ row \in OrderRow
    BY DEF BooksInv, IInv, TypeOK, DbTypeOK
<1>4. ASSUME new = row PROVE Later
    BY <1>4
<1>5. ASSUME NEW w \in Workers, WorkerStep(w) PROVE Later
    <2>1. CASE WorkerQuiet(w)
        BY <1>4, <2>1 DEF WorkerQuiet, committedVars
    <2>2. CASE Publishes(w)
        <3>1. CASE o = target[w]
            <4>1. RowKept(row, new) /\ pc[w] = "commit"
                BY <2>2, <3>1, PublishedRow DEF Publishes
            <4>2. row.status \in AllowedFrom[step[w]] /\ step[w] \in OrderEventTypes
                BY <3>1, <4>1, CommitFacts
            <4>3. row.status # "REFUNDED"
                BY <4>2 DEF AllowedFrom, OrderEventTypes
            <4>4. row.settlement # NoDay => row.status # "NONE" /\ row.fee # NoFee
                BY <1>3 DEF RowOK, PaidLike
            <4>5. QED BY <4>1, <4>3, <4>4 DEF RowKept
        <3>2. CASE o # target[w]
            BY <1>4, <2>2, <3>2, PublishedRows
        <3>3. QED BY <3>1, <3>2
    <2>3. QED BY <1>5, <2>1, <2>2, WorkerShapes
<1>6. ASSUME NEW s \in Settlers, SettlerStep(s) PROVE Later
    <2>1. CASE SettlerQuiet(s)
        BY <1>4, <2>1 DEF SettlerQuiet, committedVars
    <2>2. CASE PublishesSettlement(s)
        <3>1. CASE o \in LineIds(s)
            <4>1. new = [row EXCEPT !.settlement = scall[s].day] /\ row.settlement = NoDay
                BY <2>2, <3>1, SettledRows
            <4>2. new.status = row.status
                BY <1>3, <4>1 DEF OrderRow
            <4>3. QED BY <4>1, <4>2
        <3>2. CASE o \notin LineIds(s)
            BY <1>4, <2>2, <3>2, SettledRows
        <3>3. QED BY <3>1, <3>2
    <2>3. QED BY <1>6, <2>1, <2>2, SettlerShapes
<1>7. ASSUME CalendarStep \/ UNCHANGED vars PROVE Later
    BY <1>4, <1>7 DEF CalendarStep, AdvanceDay, committedVars, vars, dbVars
<1>8. Later
    BY <1>5, <1>6, <1>7 DEF Next
<1>9. ASSUME NEW snapshot, Lasts(snapshot, o) PROVE Lasts(snapshot, o)'
    BY <1>8, <1>9 DEF Lasts
<1>10. QED BY <1>2, <1>9

\* The postings a page reads while its order's row lasts are those of the row.
LEMMA BooksPosted ==
    ASSUME IInv, BooksInv, NEW o \in Orders, NEW row, Lasts(row, o)
    PROVE  Posted(row, ledger[o]) /\ Balance(ledger[o]) = 0
<1>1. /\ ledger[o] = ExpectedNets(o) /\ orders[o] \in OrderRow /\ RowOK(o)
    BY DEF BooksInv, LedgerMatchesReadModel, IInv, TypeOK, DbTypeOK
<1>2. ASSUME row.settlement # NoDay PROVE ledger[o]["seller_payout"] = row.amount - row.fee
    <2>1. /\ orders[o].settlement # NoDay /\ PaidLike(o) /\ orders[o].fee # NoFee
          /\ orders[o].amount = row.amount /\ orders[o].fee = row.fee
        BY <1>1, <1>2 DEF Lasts, RowOK
    <2>2. QED BY <1>1, <2>1 DEF ExpectedNets, FeeTaken, PaidLike, NoEntries, Accounts
<1>3. ASSUME row.status = "REFUNDED" PROVE ledger[o] = NoEntries
    BY <1>1, <1>3 DEF Lasts, ExpectedNets, PaidLike
<1>4. Balance(ledger[o]) = 0
    <2>1. /\ orders[o].amount \in Int /\ FeeTaken(o) \in Int
        BY <1>1 DEF OrderRow, FeeTaken, NoFee
    <2>2. QED BY <1>1, <2>1 DEF ExpectedNets, Balance, PaidLike, NoEntries, Accounts
<1>5. QED BY <1>2, <1>3, <1>4 DEF Posted

\* The history of an order explains its row.
LEMMA RowExplained ==
    ASSUME IInv, NEW o \in Orders, orders[o].status # "NONE"
    PROVE  Explains(EventsOf(o), orders[o])
<1>1. StreamOK(o) /\ orders[o].version \in Nat
    BY DEF IInv, TypeOK, DbTypeOK, OrderRow
<1>2. orders[o].version \in {e.version : e \in EventsOf(o)}
    BY <1>1 DEF StreamOK
<1>3. QED BY <1>1, <1>2 DEF StreamOK, Explains

(***************************************************************************)
(* The payouts of the summary.                                              *)
(***************************************************************************)
PaidOut == MapThenSumSet(LAMBDA d : settlements[d].payout, Days)

LEMMA PaidOutIsTotal ==
    ASSUME DbTypeOK
    PROVE  /\ IsTotal(PaidOut, [d \in Days |-> settlements[d].payout], Days) /\ IsFiniteSet(Days)
           /\ PaidOut \in Int
<1> DEFINE f == [d \in Days |-> settlements[d].payout]
           G == CHOOSE g : g = [s \in SUBSET Days |->
                    IF s = {} THEN 0
                    ELSE settlements[(CHOOSE x \in s : TRUE)].payout + g[s \ {CHOOSE x \in s : TRUE}]]
<1>1. f \in [Days -> Int] /\ \A s \in SUBSET Days : s # {} => (CHOOSE x \in s : TRUE) \in Days
    BY DEF DbTypeOK, SettlementRow
<1>2. IsFiniteSet(Days)
    BY DatabaseAssumption, FS_Interval DEF Days
<1>3. PICK h : Additive(h, f, Days)
    BY <1>1, <1>2, SumExists
<1>4. h = [s \in SUBSET Days |->
              IF s = {} THEN 0
              ELSE settlements[(CHOOSE x \in s : TRUE)].payout + h[s \ {CHOOSE x \in s : TRUE}]]
    BY <1>1, <1>3 DEF Additive
<1>5. G = [s \in SUBSET Days |->
              IF s = {} THEN 0
              ELSE settlements[(CHOOSE x \in s : TRUE)].payout + G[s \ {CHOOSE x \in s : TRUE}]]
    BY <1>4
<1>6. PaidOut = G[Days]
    BY DEF PaidOut, MapThenSumSet, MapThenFoldSet
<1> HIDE DEF G
<1>7. SumsByChoice(G, f, Days)
    BY <1>1, <1>5 DEF SumsByChoice
<1>8. IsTotal(G[Days], f, Days) /\ G[Days] \in Int
    <2> HIDE DEF f
    <2>1. Additive(G, f, Days)
        BY <1>1, <1>2, <1>7, SumByChoiceIsAdditive
    <2>2. QED BY <2>1 DEF IsTotal, Additive
<1>9. QED BY <1>2, <1>6, <1>8

LEMMA PayoutSumIsTotal ==
    ASSUME DbTypeOK, NEW S, S \subseteq Orders, IsFiniteSet(S), \A o \in S : orders[o].fee # NoFee
    PROVE  IsTotal(PayoutSum(S), [o \in S |-> orders[o].amount - orders[o].fee], S)
<1> DEFINE f == [o \in S |-> orders[o].amount - orders[o].fee]
           G == CHOOSE g : g = [s \in SUBSET S |->
                    IF s = {} THEN 0
                    ELSE PayoutAmount(CHOOSE x \in s : TRUE) + g[s \ {CHOOSE x \in s : TRUE}]]
<1>1. f \in [S -> Int] /\ \A s \in SUBSET S : s # {} => (CHOOSE x \in s : TRUE) \in S
    BY DEF DbTypeOK, OrderRow, NoFee
<1>2. PICK h : Additive(h, f, S)
    BY <1>1, SumExists
<1>3. h = [s \in SUBSET S |->
              IF s = {} THEN 0
              ELSE PayoutAmount(CHOOSE x \in s : TRUE) + h[s \ {CHOOSE x \in s : TRUE}]]
    BY <1>1, <1>2 DEF Additive, PayoutAmount
<1>4. G = [s \in SUBSET S |->
              IF s = {} THEN 0
              ELSE PayoutAmount(CHOOSE x \in s : TRUE) + G[s \ {CHOOSE x \in s : TRUE}]]
    BY <1>3
<1>5. PayoutSum(S) = G[S]
    <2>1. {o \in S : orders[o].fee # NoFee} = S
        OBVIOUS
    <2>2. QED BY <2>1 DEF PayoutSum, MapThenSumSet, MapThenFoldSet
<1> HIDE DEF G
<1>6. SumsByChoice(G, f, S)
    BY <1>1, <1>4 DEF SumsByChoice, PayoutAmount
<1>7. IsTotal(G[S], f, S)
    <2> HIDE DEF f
    <2>1. QED BY <1>1, <1>6, SumByChoiceIsAdditive DEF IsTotal
<1>8. QED BY <1>5, <1>7

\* What the rows say was settled is what the settlements paid out.
LEMMA SettledPayouts ==
    ASSUME IInv, BooksInv, SettledInv
    PROVE  PayoutSum({o \in Orders : SettledRow(o)}) = PaidOut
<1> DEFINE T == {o \in Orders : SettledRow(o)}
           f == [o \in T |-> orders[o].amount - orders[o].fee]
           n == [d \in Days |-> settlements[d].payout]
           part == [d \in Days |-> Settled(d)]
<1>1. DbTypeOK
    BY DEF IInv, TypeOK
<1>2. ASSUME NEW o \in T
      PROVE  /\ orders[o].fee # NoFee /\ orders[o].status # "NONE" /\ orders[o].settlement \in Days
             /\ orders[o].amount \in Int /\ orders[o].fee \in Int
    <2>1. /\ o \in Orders /\ orders[o].settlement # NoDay /\ RowOK(o) /\ orders[o] \in OrderRow
        BY <1>1 DEF SettledRow, BooksInv, DbTypeOK
    <2>2. QED BY <2>1 DEF RowOK, PaidLike, OrderRow, NoFee
<1>3. IsFiniteSet(T) /\ T \subseteq Orders
    <2>1. T \subseteq WrittenOrders
        BY <1>2 DEF WrittenOrders
    <2>2. QED BY <2>1, FS_Subset DEF SettledInv
<1>4. /\ part \in [Days -> SUBSET T]
      /\ \A d, e \in Days : d # e => part[d] \cap part[e] = {}
      /\ UNION {part[d] : d \in Days} = T
    <2>1. \A d \in Days : Settled(d) \subseteq T
        BY DEF Settled, SettledRow, Days, NoDay
    <2>2. \A d, e \in Days : d # e => Settled(d) \cap Settled(e) = {}
        BY DEF Settled
    <2>3. ASSUME NEW o \in T PROVE \E d \in Days : o \in Settled(d)
        BY <1>2 DEF Settled
    <2>4. QED BY <2>1, <2>2, <2>3
<1>5. f \in [T -> Int]
    BY <1>2
<1>6. ASSUME NEW d \in Days PROVE IsTotal(n[d], [o \in part[d] |-> f[o]], part[d])
    <2> DEFINE S == Settled(d)
               amounts == [o \in S |-> orders[o].amount]
               fees == [o \in S |-> orders[o].fee]
               nets == [o \in S |-> f[o]]
               row == settlements[d]
    <2>1. S \subseteq T
        BY DEF Settled, SettledRow, Days, NoDay
    <2>2. /\ IsTotal(row.gross, amounts, S) /\ IsTotal(row.fees, fees, S)
          /\ n[d] = row.gross - row.fees /\ part[d] = S
        BY DEF SettledInv, DayOK
    <2>3. /\ amounts \in [S -> Int] /\ fees \in [S -> Int]
          /\ \A o \in S : nets[o] = amounts[o] - fees[o]
        BY <1>2, <2>1
    <2> HIDE DEF amounts, fees, n, part, S
    <2>4. IsTotal(row.gross - row.fees, nets, S)
        <3> HIDE DEF nets
        <3>1. QED BY <2>2, <2>3, TotalOfDifference
    <2>5. QED BY <2>2, <2>4
<1>7. IsTotal(PaidOut, n, Days) /\ IsFiniteSet(Days)
    BY <1>1, PaidOutIsTotal
<1>8. IsTotal(PayoutSum(T), f, UNION {part[d] : d \in Days})
    BY <1>1, <1>2, <1>3, <1>4, PayoutSumIsTotal
<1> HIDE DEF f, n, part, T
<1>9. PayoutSum(T) = PaidOut
    BY <1>3, <1>4, <1>5, <1>6, <1>7, <1>8, TotalOfParts
<1>10. QED BY <1>9 DEF T

\* A settlement never pays out less than nothing.
LEMMA PayoutNotNegative ==
    IInv /\ BooksInv /\ SettledInv /\ FeesOK => \A d \in Days : settlements[d].payout >= 0
<1> SUFFICES ASSUME IInv, BooksInv, SettledInv, FeesOK, NEW d \in Days
             PROVE  settlements[d].payout >= 0
    OBVIOUS
<1> DEFINE S == Settled(d)
           amounts == [o \in S |-> orders[o].amount]
           fees == [o \in S |-> orders[o].fee]
           row == settlements[d]
<1>1. ASSUME NEW o \in S
      PROVE  /\ orders[o].amount \in Int /\ orders[o].fee \in Int
             /\ orders[o].fee <= orders[o].amount /\ orders[o].status # "NONE"
    <2>1. /\ o \in Orders /\ orders[o].settlement # NoDay /\ RowOK(o) /\ FeeOK(o)
          /\ orders[o].amount \in Nat
        BY DEF Settled, Days, NoDay, BooksInv, FeesOK, IInv, TypeOK, DbTypeOK, OrderRow
    <2>2. PaidLike(o) /\ orders[o].fee = CalculateFee(orders[o].amount)
        BY <2>1 DEF RowOK, FeeOK
    <2>3. QED BY <2>1, <2>2, FeeWithinAmount DEF PaidLike
<1>2. IsFiniteSet(S)
    <2>1. S \subseteq WrittenOrders
        BY <1>1 DEF WrittenOrders, Settled
    <2>2. QED BY <2>1, FS_Subset DEF SettledInv
<1>3. /\ IsTotal(row.gross, amounts, S) /\ IsTotal(row.fees, fees, S)
      /\ row.payout = row.gross - row.fees /\ row.gross \in Int /\ row.fees \in Int
    BY DEF SettledInv, DayOK, IInv, TypeOK, DbTypeOK, SettlementRow
<1>4. /\ amounts \in [S -> Int] /\ fees \in [S -> Int]
      /\ \A o \in S : fees[o] <= amounts[o]
    BY <1>1
<1>5. row.fees <= row.gross
    <2> HIDE DEF amounts, fees, S
    <2>1. QED BY <1>2, <1>3, <1>4, TotalGrows
<1>6. QED BY <1>3, <1>5

\* An empty date has paid out nothing.
LEMMA NothingPaidOut ==
    ASSUME IInv, SettledInv, NEW d \in Days, Settled(d) = {}
    PROVE  settlements[d].payout = 0
<1>1. /\ IsTotal(settlements[d].gross, [o \in {} |-> orders[o].amount], {})
      /\ IsTotal(settlements[d].fees, [o \in {} |-> orders[o].fee], {})
      /\ settlements[d].payout = settlements[d].gross - settlements[d].fees
    BY DEF SettledInv, DayOK
<1>2. settlements[d].gross = 0 /\ settlements[d].fees = 0
    BY <1>1 DEF IsTotal, Additive
<1>3. QED BY <1>1, <1>2

\* What has been paid out stays paid out.
LEMMA PaidOutGrows ==
    ASSUME IInv, BooksInv, SettledInv, [Next]_vars,
           IInv', \A d \in Days : settlements'[d].payout >= 0
    PROVE  PaidOut <= PaidOut'
<1> DEFINE n == [d \in Days |-> settlements[d].payout]
           m == [d \in Days |-> settlements'[d].payout]
<1>1. ASSUME NEW d \in Days PROVE settlements[d].payout <= settlements'[d].payout
    <2>1. settlements[d].payout \in Int
        BY DEF IInv, TypeOK, DbTypeOK, SettlementRow
    <2>2. ASSUME settlements' = settlements PROVE settlements[d].payout <= settlements'[d].payout
        BY <2>1, <2>2
    <2>3. ASSUME NEW w \in Workers, WorkerStep(w) PROVE settlements' = settlements
        BY <2>3, WorkerShapes, PublishedRows DEF WorkerQuiet, committedVars
    <2>4. ASSUME NEW s \in Settlers, SettlerStep(s)
          PROVE  settlements[d].payout <= settlements'[d].payout
        <3>1. CASE SettlerQuiet(s)
            BY <2>2, <3>1 DEF SettlerQuiet, committedVars
        <3>2. CASE PublishesSettlement(s)
            <4>1. /\ spc[s] = "mark" /\ PublishSettlement(s) /\ pending[s] = SettlementEvent(s)
                  /\ pending[s] # NoEvent /\ s \in Tx
                BY <3>2 DEF PublishesSettlement, IInv, SettlerOK, SettlementEvent, NoEvent, Tx
            <4>2. CASE d # scall[s].day
                BY <2>1, <4>1, <4>2 DEF PublishSettlement
            <4>3. CASE d = scall[s].day
                <5>1. \A e \in events : ~Clash(e, pending[s])
                    BY <4>1 DEF IInv, GateOK
                <5>2. Settled(d) = {}
                    <6>1. ASSUME NEW e \in events, e.agg = SettlementAggregate(d), e.version = 1
                          PROVE  FALSE
                        BY <4>1, <4>3, <5>1, <6>1 DEF Clash, SameVersion, SettlementEvent
                    <6>2. QED BY <6>1 DEF SettledInv, DayOK
                <5>3. QED BY <5>2, NothingPaidOut
            <4>4. QED BY <4>2, <4>3
        <3>3. QED BY <2>4, <3>1, <3>2, SettlerShapes
    <2>5. CASE CalendarStep \/ UNCHANGED vars
        BY <2>2, <2>5 DEF CalendarStep, AdvanceDay, committedVars, vars, dbVars
    <2>6. QED BY <2>2, <2>3, <2>4, <2>5 DEF Next
<1>2. IsTotal(PaidOut, n, Days) /\ IsFiniteSet(Days)
    BY PaidOutIsTotal DEF IInv, TypeOK
<1>3. IsTotal(PaidOut', m, Days)
    <2>1. (DbTypeOK => IsTotal(PaidOut, [d \in Days |-> settlements[d].payout], Days))'
        BY PaidOutIsTotal, PTL
    <2>2. QED BY <2>1 DEF IInv, TypeOK
<1>4. n \in [Days -> Int] /\ m \in [Days -> Int] /\ \A d \in Days : n[d] <= m[d]
    BY <1>1 DEF IInv, TypeOK, DbTypeOK, SettlementRow
<1> HIDE DEF n, m
<1>5. QED BY <1>2, <1>3, <1>4, TotalGrows

(***************************************************************************)
(* The inductive invariant, on top of those of the service.                 *)
(***************************************************************************)
AboutOK(r) ==
    /\ page[r] = "none" => parts[r] = <<>>
    /\ page[r] # "none" => about[r] \in Orders /\ orders[about[r]].status # "NONE"

DetailOK(r) ==
    page[r] = "detail" =>
        /\ "order" \in DOMAIN parts[r] => Explains(EventsOf(about[r]), parts[r]["order"])
        /\ "events" \in DOMAIN parts[r] =>
             "order" \in DOMAIN parts[r] /\ Explains(parts[r]["events"], parts[r]["order"])

LedgerOK(r) ==
    page[r] = "ledger" =>
        /\ "order" \in DOMAIN parts[r] => Lasts(parts[r]["order"], about[r])
        /\ "entries" \in DOMAIN parts[r] =>
             "order" \in DOMAIN parts[r] /\ Posted(parts[r]["order"], parts[r]["entries"])
        /\ "totals" \in DOMAIN parts[r] => parts[r]["totals"] = 0

SummaryOK(r) ==
    page[r] = "summary" /\ "settled" \in DOMAIN parts[r] =>
        parts[r]["settled"] \in Int /\ parts[r]["settled"] <= PaidOut

ReaderOK(r) == AboutOK(r) /\ DetailOK(r) /\ LedgerOK(r) /\ SummaryOK(r)

PagesInv ==
    /\ page \in [Readers -> {"none", "detail", "ledger", "summary", "list"}]
    /\ about \in [Readers -> Orders \cup {None}]
    /\ parts = [r \in Readers |-> parts[r]]
    /\ \A r \in Readers : ReaderOK(r)

LEMMA PagesInit == QInit => PagesInv
BY DEF QInit, PagesInv, ReaderOK, AboutOK, DetailOK, LedgerOK, SummaryOK

ServiceInv == IInv /\ BooksInv /\ SettledInv /\ FeesOK

LEMMA PaidOutKept ==
    ASSUME ServiceInv, ServiceInv', [Next]_vars
    PROVE  PaidOut \in Int /\ PaidOut' \in Int /\ PaidOut <= PaidOut'
<1>1. (ServiceInv => \A d \in Days : settlements[d].payout >= 0)'
    BY PayoutNotNegative, PTL DEF ServiceInv
<1>2. PaidOut <= PaidOut'
    BY <1>1, PaidOutGrows DEF ServiceInv
<1>3. PaidOut \in Int
    BY PaidOutIsTotal DEF ServiceInv, IInv, TypeOK
<1>4. (DbTypeOK => PaidOut \in Int)'
    BY PaidOutIsTotal, PTL
<1>5. QED BY <1>2, <1>3, <1>4 DEF ServiceInv, IInv, TypeOK

\* What a reader has stays right whatever is committed behind it.
LEMMA ReaderKept ==
    ASSUME ServiceInv, ServiceInv', PagesInv, [Next]_vars, NEW r \in Readers,
           page'[r] = page[r], about'[r] = about[r], parts'[r] = parts[r]
    PROVE  ReaderOK(r)'
<1>1. ReaderOK(r) /\ IInv /\ BooksInv
    BY DEF PagesInv, ServiceInv
<1>2. CASE page[r] = "none"
    BY <1>1, <1>2 DEF ReaderOK, AboutOK, DetailOK, LedgerOK, SummaryOK
<1>3. CASE page[r] # "none"
    <2>1. /\ EventsOf(about[r]) \subseteq EventsOf(about[r])'
          /\ orders[about[r]].status # "NONE" => orders'[about[r]].status # "NONE"
          /\ \A row : Lasts(row, about[r]) => Lasts(row, about[r])'
        BY <1>1, <1>3, OrderLasts DEF ReaderOK, AboutOK
    <2>2. AboutOK(r)' /\ DetailOK(r)' /\ LedgerOK(r)'
        BY <1>1, <2>1 DEF ReaderOK, AboutOK, DetailOK, LedgerOK, Explains
    <2>3. SummaryOK(r)'
        <3>1. PaidOut \in Int /\ PaidOut' \in Int /\ PaidOut <= PaidOut'
            BY PaidOutKept
        <3>2. QED BY <1>1, <3>1 DEF ReaderOK, SummaryOK
    <2>4. QED BY <2>2, <2>3 DEF ReaderOK
<1>4. QED BY <1>2, <1>3

(***************************************************************************)
(* The steps of a reader.                                                   *)
(***************************************************************************)
LEMMA PollOK ==
    ASSUME PagesInv, NEW r \in Readers, Poll(r), UNCHANGED vars
    PROVE  /\ ReaderOK(r)' /\ parts' = parts
           /\ \E p \in {"detail", "ledger", "summary", "list"}, o \in Orders :
                page' = [page EXCEPT ![r] = p] /\ about' = [about EXCEPT ![r] = o]
<1>1. PICK p \in Pages, o \in Existing :
         page' = [page EXCEPT ![r] = p] /\ about' = [about EXCEPT ![r] = o]
    BY DEF Poll
<1>2. /\ p \in {"detail", "ledger", "summary", "list"} /\ parts' = parts /\ page[r] = "none"
      /\ o \in Orders /\ orders'[o].status # "NONE"
    BY <1>1, QueriesAssumption DEF Poll, Existing, vars, dbVars
<1>3. parts'[r] = <<>>
    BY <1>2 DEF PagesInv, ReaderOK, AboutOK
<1>4. ReaderOK(r)'
    BY <1>1, <1>2, <1>3 DEF PagesInv, ReaderOK, AboutOK, DetailOK, LedgerOK, SummaryOK
<1>5. QED BY <1>1, <1>2, <1>4

LEMMA RunStatementOK ==
    ASSUME ServiceInv, ServiceInv', PagesInv, NEW r \in Readers, RunStatement(r), UNCHANGED vars
    PROVE  ReaderOK(r)' /\ \E f : parts' = [parts EXCEPT ![r] = f]
<1>1. PICK part \in DOMAIN Needs[page[r]] \ DOMAIN parts[r] :
         /\ Needs[page[r]][part] \subseteq DOMAIN parts[r]
         /\ parts' = [parts EXCEPT ![r] =
                        [p \in DOMAIN @ \cup {part} |->
                           IF p = part THEN Statement(part, about[r]) ELSE @[p]]]
    BY DEF RunStatement
<1>2. /\ page' = page /\ about' = about /\ page[r] # "none" /\ ReaderOK(r)
      /\ about[r] \in Orders /\ orders[about[r]].status # "NONE"
      /\ UNCHANGED <<events, orders, ledger, settlements>> /\ IInv /\ BooksInv /\ SettledInv
    BY DEF RunStatement, Needs, PagesInv, ReaderOK, AboutOK, vars, dbVars, ServiceInv
<1>3. /\ DOMAIN parts'[r] = DOMAIN parts[r] \cup {part}
      /\ parts'[r][part] = Statement(part, about[r])
      /\ \A q \in DOMAIN parts[r] : parts'[r][q] = parts[r][q]
    BY <1>1 DEF PagesInv
<1>4. AboutOK(r)'
    BY <1>2 DEF AboutOK
<1>5. DetailOK(r)'
    <2>1. CASE page[r] = "detail"
        <3>1. part \in {"order", "events"} /\ (part = "events" => "order" \in DOMAIN parts[r])
            BY <1>1, <2>1 DEF Needs
        <3>2. Explains(EventsOf(about[r]), orders[about[r]])
            BY <1>2, RowExplained
        <3>3. QED BY <1>2, <1>3, <3>1, <3>2 DEF ReaderOK, DetailOK, Statement, EventsOf
    <2>2. QED BY <1>2, <2>1 DEF DetailOK
<1>6. LedgerOK(r)'
    <2>1. CASE page[r] = "ledger"
        <3>1. /\ part \in {"order", "entries", "verified", "totals"}
              /\ part = "entries" => "order" \in DOMAIN parts[r]
            BY <1>1, <2>1 DEF Needs
        <3>2. /\ "order" \in DOMAIN parts[r] => Posted(parts[r]["order"], ledger[about[r]])
              /\ Lasts(orders[about[r]], about[r]) /\ Balance(ledger[about[r]]) = 0
            BY <1>2, <2>1, BooksPosted DEF ReaderOK, LedgerOK, Lasts
        <3>3. QED BY <1>2, <1>3, <2>1, <3>1, <3>2 DEF ReaderOK, LedgerOK, Statement, Lasts
    <2>2. QED BY <1>2, <2>1 DEF LedgerOK
<1>7. SummaryOK(r)'
    <2>1. CASE page[r] = "summary"
        <3>1. part \in {"byStatus", "paid", "unsettled", "settled", "latest"}
            BY <1>1, <2>1 DEF Needs, Parallel
        <3>2. part = "settled" => parts'[r]["settled"] = PaidOut
            BY <1>2, <1>3, SettledPayouts DEF Statement
        <3>3. PaidOut \in Int /\ PaidOut' \in Int /\ PaidOut <= PaidOut'
            BY PaidOutKept
        <3>4. QED BY <1>2, <1>3, <2>1, <3>1, <3>2, <3>3 DEF ReaderOK, SummaryOK
    <2>2. QED BY <1>2, <2>1 DEF SummaryOK
<1>8. \E f : parts' = [parts EXCEPT ![r] = f]
    BY <1>1
<1>9. QED BY <1>4, <1>5, <1>6, <1>7, <1>8 DEF ReaderOK

LEMMA ShownOK ==
    ASSUME PagesInv, NEW r \in Readers, Shown(r)
    PROVE  ReaderOK(r)'
BY DEF PagesInv, Shown, ReaderOK, AboutOK, DetailOK, LedgerOK, SummaryOK

LEMMA PagesNext ==
    ServiceInv /\ ServiceInv' /\ PagesInv /\ [QNext]_<<vars, readVars>> => PagesInv'
<1> SUFFICES ASSUME ServiceInv, ServiceInv', PagesInv, [QNext]_<<vars, readVars>> PROVE PagesInv'
    OBVIOUS
<1>1. ASSUME [Next]_vars, UNCHANGED <<page, about, parts>> PROVE PagesInv'
    BY <1>1, ReaderKept DEF PagesInv
<1>2. ASSUME NEW r \in Readers, ReaderNext(r), UNCHANGED vars PROVE PagesInv'
    <2> DEFINE Kept == \A q \in Readers \ {r} :
                         page'[q] = page[q] /\ about'[q] = about[q] /\ parts'[q] = parts[q]
    <2>1. ASSUME Kept, ReaderOK(r)' PROVE \A q \in Readers : ReaderOK(q)'
        BY <1>2, <2>1, ReaderKept
    <2> HIDE DEF Kept
    <2>2. CASE Poll(r)
        <3>1. /\ page' \in [Readers -> {"none", "detail", "ledger", "summary", "list"}]
              /\ about' \in [Readers -> Orders \cup {None}] /\ parts' = parts
              /\ Kept /\ ReaderOK(r)'
            BY <1>2, <2>2, PollOK DEF PagesInv, Kept
        <3>2. QED BY <2>1, <3>1 DEF PagesInv
    <2>3. CASE RunStatement(r)
        <3>1. page' = page /\ about' = about
            BY <2>3 DEF RunStatement
        <3>2. parts' = [q \in Readers |-> parts'[q]] /\ Kept /\ ReaderOK(r)'
            BY <1>2, <2>3, <3>1, RunStatementOK DEF PagesInv, Kept
        <3>3. QED BY <2>1, <3>1, <3>2 DEF PagesInv
    <2>4. CASE ListNextPage(r)
        BY <1>1, <1>2, <2>4 DEF ListNextPage
    <2>5. CASE Shown(r)
        <3>1. /\ page' \in [Readers -> {"none", "detail", "ledger", "summary", "list"}]
              /\ about' \in [Readers -> Orders \cup {None}]
              /\ parts' = [q \in Readers |-> parts'[q]] /\ Kept
            BY <2>5 DEF PagesInv, Shown, Kept
        <3>2. QED BY <2>1, <2>5, <3>1, ShownOK DEF PagesInv
    <2>6. QED BY <1>2, <2>2, <2>3, <2>4, <2>5 DEF ReaderNext
<1>3. QED BY <1>1, <1>2 DEF QNext, readVars

\* The service next to its readers is the service.
LEMMA ReadersOnlyRead == QSpec => Spec
<1>1. QInit => Init
    BY DEF QInit
<1>2. [QNext]_<<vars, readVars>> => [Next]_vars
    BY DEF QNext
<1>3. QED BY <1>1, <1>2, PTL DEF QSpec, Spec

LEMMA PagesInvariance == QSpec => []PagesInv
<1>1. Spec => []ServiceInv
    BY Invariance, BooksInvariance, SettledInvariance, FeesInvariance, PTL DEF ServiceInv
<1>2. QInit => PagesInv
    BY PagesInit
<1>3. ServiceInv /\ ServiceInv' /\ PagesInv /\ [QNext]_<<vars, readVars>> => PagesInv'
    BY PagesNext
<1>4. QED BY ReadersOnlyRead, <1>1, <1>2, <1>3, PTL DEF QSpec

(***************************************************************************)
(* The theorems.                                                            *)
(***************************************************************************)

\* The history on an order's page always holds the event that left the status
\* the page shows, whatever was committed between the two statements
\* (getOrderWithEvents).
THEOREM HistoriesExplainStatus == QSpec => []HistoryExplainsStatus
<1>1. PagesInv => HistoryExplainsStatus
    BY DEF PagesInv, ReaderOK, DetailOK, Explains, HistoryExplainsStatus, Has, Needs
<1>2. QED BY <1>1, PagesInvariance, PTL

\* A ledger page that calls an order settled or refunded lists the postings
\* that did it, and its totals are balanced (getOrderLedger,
\* verifyLedgerBalance).
THEOREM LedgerPagesKeepUp == QSpec => []LedgerPageIsNotBehind
<1>1. PagesInv => LedgerPageIsNotBehind
    BY DEF PagesInv, ReaderOK, LedgerOK, Posted, LedgerPageIsNotBehind, Has, Needs
<1>2. QED BY <1>1, PagesInvariance, PTL

\* What the summary calls settled has been paid out by the settlements there
\* are by the time it is shown (getDashboardSummary).
THEOREM SummariesArePaidOut == QSpec => []SettledPayoutIsPaidOut
<1>1. PagesInv => SettledPayoutIsPaidOut
    BY DEF PagesInv, ReaderOK, SummaryOK, SettledPayoutIsPaidOut, Has, Needs, Parallel, PaidOut
<1>2. QED BY <1>1, PagesInvariance, PTL

(***************************************************************************)
(* The walk through the list.                                               *)
(***************************************************************************)

\* Newest first, so no order is in it twice.
Descending(rows) ==
    \A i, j \in DOMAIN rows : i < j => CreatedAt[rows[i]] > CreatedAt[rows[j]]

Shows(rows, o) == \E i \in DOMAIN rows : rows[i] = o

LEMMA OldestOrder ==
    ASSUME NEW S, S \subseteq Orders, S # {}
    PROVE  \E x \in S : \A y \in S : CreatedAt[x] <= CreatedAt[y]
<1> DEFINE T == {CreatedAt[y] : y \in S}
<1>1. T \in SUBSET Nat /\ T # {}
    BY QueriesAssumption
<1>2. PICK n \in T : \A m \in T : n <= m
    <2> HIDE DEF T
    <2>1. QED BY <1>1, SmallestNat
<1>3. QED BY <1>2

\* Every finite set of orders has a listing: that of the others, and the oldest
\* order at its end.
LEMMA ListingExists ==
    ASSUME NEW S, S \subseteq Orders, IsFiniteSet(S)
    PROVE  \E rows \in [1..Cardinality(S) -> S] : Descending(rows)
<1> DEFINE Listed(T) == \E rows \in [1..Cardinality(T) -> T] : Descending(rows)
           Bad == {T \in SUBSET S : ~Listed(T)}
<1>1. SUFFICES ASSUME Bad # {} PROVE FALSE
    OBVIOUS
<1>2. PICK T \in Bad : \A U \in Bad : U \subseteq T => U = T
    <2>1. Bad \subseteq SUBSET S
        OBVIOUS
    <2> HIDE DEF Bad
    <2>2. QED BY <1>1, <2>1, SmallestSubset
<1>3. T \subseteq S /\ ~Listed(T) /\ \A U \in SUBSET T : U # T => Listed(U)
    BY <1>2
<1>4. IsFiniteSet(T) /\ T \subseteq Orders
    BY <1>3, FS_Subset
<1>5. CASE T = {}
    <2> DEFINE none == [i \in 1..0 |-> i]
    <2>1. Cardinality(T) = 0
        BY <1>5, FS_EmptySet
    <2>2. none \in [1..0 -> T] /\ Descending(none)
        BY DEF Descending
    <2>3. QED BY <1>3, <2>1, <2>2
<1>6. CASE T # {}
    <2>1. PICK x \in T : \A y \in T : CreatedAt[x] <= CreatedAt[y]
        BY <1>4, <1>6, OldestOrder
    <2> DEFINE R == T \ {x}
               n == Cardinality(R)
    <2>2. n \in Nat /\ Cardinality(T) = n + 1
        <3>1. Cardinality(T) \in Nat /\ IsFiniteSet(R) /\ n = Cardinality(T) - 1
            BY <1>4, FS_RemoveElement, FS_CardinalityType
        <3>2. n \in Nat
            BY <3>1, FS_CardinalityType
        <3> HIDE DEF n
        <3>3. QED BY <3>1, <3>2
    <2>3. PICK h \in [1..n -> R] : Descending(h)
        BY <1>3
    <2> DEFINE rows == [i \in 1..(n + 1) |-> IF i = n + 1 THEN x ELSE h[i]]
    <2> HIDE DEF n
    <2>4. \A i \in 1..n : h[i] \in T /\ h[i] \in Orders /\ CreatedAt[h[i]] > CreatedAt[x]
        <3>1. ASSUME NEW y \in R PROVE CreatedAt[y] > CreatedAt[x]
            <4>1. /\ CreatedAt[x] # CreatedAt[y] /\ CreatedAt[x] <= CreatedAt[y]
                  /\ CreatedAt[x] \in Nat /\ CreatedAt[y] \in Nat
                BY <1>4, <2>1, QueriesAssumption
            <4>2. QED BY <4>1
        <3>2. QED BY <1>4, <2>3, <3>1
    <2>5. \A i \in 1..(n + 1) : i # n + 1 => i \in 1..n
        BY <2>2
    <2>6. rows \in [1..(n + 1) -> T]
        BY <2>4, <2>5
    <2>7. ASSUME NEW i \in 1..(n + 1), NEW j \in 1..(n + 1), i < j
          PROVE  CreatedAt[rows[i]] > CreatedAt[rows[j]]
        <3>1. i \in 1..n /\ rows[i] = h[i]
            BY <2>2, <2>7
        <3>2. CASE j = n + 1
            BY <2>4, <3>1, <3>2
        <3>3. CASE j # n + 1
            BY <2>3, <2>5, <2>7, <3>1, <3>3 DEF Descending
        <3>4. QED BY <3>2, <3>3
    <2>8. Descending(rows)
        BY <2>6, <2>7 DEF Descending
    <2>9. QED BY <1>3, <2>2, <2>6, <2>8
<1>7. QED BY <1>5, <1>6

\* The rows of a page: each order that is asked for, newest first.
LEMMA NewestFirstLists ==
    ASSUME NEW S, S \subseteq Orders, IsFiniteSet(S)
    PROVE  /\ NewestFirst(S) \in Seq(S) /\ Descending(NewestFirst(S))
           /\ \A o \in S : Shows(NewestFirst(S), o)
<1> DEFINE n == Cardinality(S)
           rows == NewestFirst(S)
<1>1. n \in Nat
    BY FS_CardinalityType
<1>2. rows \in [1..n -> S] /\ Descending(rows)
    BY ListingExists DEF NewestFirst, Descending
<1> HIDE DEF rows
<1>3. rows \in Seq(S)
    BY <1>1, <1>2
<1>4. rows \in Surjection(1..n, S)
    <2>1. ASSUME NEW i \in 1..n, NEW j \in 1..n, rows[i] = rows[j] PROVE i = j
        <3>1. CreatedAt[rows[i]] \in Nat
            BY <1>2, QueriesAssumption
        <3>2. ~(i < j) /\ ~(j < i)
            BY <1>2, <2>1, <3>1 DEF Descending
        <3>3. QED BY <1>1, <3>2
    <2>2. rows \in Injection(1..n, S)
        BY <1>2, <2>1 DEF Injection, IsInjective
    <2>3. Cardinality(1..n) = Cardinality(S)
        BY <1>1, FS_Interval
    <2>4. QED BY <2>2, <2>3, FS_Injection
<1>5. \A o \in S : Shows(rows, o)
    BY <1>4 DEF Surjection, Shows
<1>6. QED BY <1>2, <1>3, <1>5 DEF rows

\* What a walk has shown: a walk that goes on has shown every order it found
\* that is not older than its cursor, the last order it showed.
WalkOK(walk) ==
    /\ walk.present \subseteq Existing
    /\ Descending(walk.shown)
    /\ walk.over => \A o \in walk.present : Shows(walk.shown, o)
    /\ ~walk.over =>
         \/ walk.cursor = None /\ walk.shown = <<>>
         \/ /\ walk.shown # <<>> /\ walk.cursor = walk.shown[Len(walk.shown)]
            /\ \A o \in walk.present :
                 CreatedAt[o] >= CreatedAt[walk.cursor] => Shows(walk.shown, o)

Walk == [present : SUBSET Orders, shown : Seq(Orders), cursor : Orders \cup {None}, over : BOOLEAN]

WalkInv == listed \in [Readers -> Walk] /\ \A r \in Readers : WalkOK(listed[r])

\* The three columns that a page changes, one at a time.
LEMMA PageTurned ==
    ASSUME NEW walk \in Walk, NEW rows, NEW next, NEW ended
    PROVE  [walk EXCEPT !.shown = rows, !.over = ended, !.cursor = next] =
               [present |-> walk.present, shown |-> rows, cursor |-> next, over |-> ended]
<1> DEFINE p == walk.present
           c == walk.cursor
           d == walk.over
           first  == [walk EXCEPT !.shown = rows]
           second == [first EXCEPT !.over = ended]
<1> HIDE DEF d
<1>1. walk = [present |-> p, shown |-> walk.shown, cursor |-> c, over |-> d]
    BY Zenon DEF Walk, d
<1> HIDE DEF p, c
<1>2. first = [present |-> p, shown |-> rows, cursor |-> c, over |-> d]
    BY <1>1
<1>3. second = [present |-> p, shown |-> rows, cursor |-> c, over |-> ended]
    <2> HIDE DEF first
    <2>1. QED BY <1>2
<1>4. [second EXCEPT !.cursor = next] =
        [present |-> p, shown |-> rows, cursor |-> next, over |-> ended]
    <2> HIDE DEF second
    <2>1. QED BY <1>3
<1>5. QED BY <1>4 DEF p

\* The rows a page takes go to the end of what was shown before.
LEMMA NextPageOK ==
    ASSUME IInv, SettledInv, WalkInv, NEW r \in Readers, ListNextPage(r)
    PROVE  \E walk \in Walk : listed' = [listed EXCEPT ![r] = walk] /\ WalkOK(walk)
<1> DEFINE old     == listed[r]
           asked   == {o \in Existing : old.cursor = None \/ CreatedAt[o] < CreatedAt[old.cursor]}
           rows    == NewestFirst(asked)
           hasMore == Len(rows) > PageSize
           size    == IF hasMore THEN PageSize ELSE Len(rows)
           taken   == SubSeq(rows, 1, size)
           new     == [present |-> old.present, shown |-> old.shown \o taken,
                       cursor |-> IF hasMore THEN taken[Len(taken)] ELSE None, over |-> ~hasMore]
<1>1. old \in Walk /\ WalkOK(old)
    BY DEF WalkInv
<1>2. listed' = [listed EXCEPT ![r] = new] /\ ~old.over
    <2>1. rows = FromCursor(old)
        BY DEF FromCursor
    <2> HIDE DEF rows
    <2>2. /\ ~old.over
          /\ listed' = [listed EXCEPT ![r] =
                [old EXCEPT !.shown = old.shown \o taken, !.over = ~hasMore,
                            !.cursor = IF hasMore THEN taken[Len(taken)] ELSE None]]
        BY <2>1 DEF ListNextPage
    <2> DEFINE over == ~hasMore
               cursor == IF hasMore THEN taken[Len(taken)] ELSE None
    <2>3. listed' = [listed EXCEPT ![r] =
                [old EXCEPT !.shown = old.shown \o taken, !.over = over, !.cursor = cursor]]
        BY <2>2
    <2>4. new = [present |-> old.present, shown |-> old.shown \o taken,
                 cursor |-> cursor, over |-> over]
        OBVIOUS
    <2> HIDE DEF taken, hasMore, over, cursor, new
    <2>5. [old EXCEPT !.shown = @ \o taken, !.over = over, !.cursor = cursor] =
            [present |-> old.present, shown |-> old.shown \o taken,
             cursor |-> cursor, over |-> over]
        <3> HIDE DEF old
        <3>1. QED BY <1>1, PageTurned
    <2> HIDE DEF old
    <2>6. QED BY <2>2, <2>3, <2>4, <2>5
<1>3. asked \subseteq Orders /\ IsFiniteSet(asked)
    <2>1. asked \subseteq WrittenOrders
        BY DEF Existing, WrittenOrders
    <2>2. QED BY <2>1, FS_Subset DEF SettledInv, WrittenOrders
<1>4. /\ rows \in Seq(asked) /\ Descending(rows) /\ \A o \in asked : Shows(rows, o)
    BY <1>3, NewestFirstLists
<1>5. \A o \in Existing : o \notin asked =>
         old.cursor # None /\ ~(CreatedAt[o] < CreatedAt[old.cursor])
    OBVIOUS
<1>6. \A o \in asked : old.cursor = None \/ CreatedAt[o] < CreatedAt[old.cursor]
    OBVIOUS
<1> HIDE DEF asked, rows
<1>7. /\ size \in 0..Len(rows) /\ Len(rows) \in Nat /\ (hasMore => size >= 1)
      /\ DOMAIN rows = 1..Len(rows)
    BY <1>4, QueriesAssumption
<1>8. /\ taken \in Seq(Orders) /\ Len(taken) = size /\ DOMAIN taken = 1..size
      /\ \A i \in 1..size : taken[i] = rows[i] /\ rows[i] \in asked
    BY <1>3, <1>4, <1>7
<1> DEFINE sofar == old.shown \o taken
           n == Len(old.shown)
<1>9. /\ old.shown \in Seq(Orders) /\ n \in Nat /\ DOMAIN old.shown = 1..n
      /\ old.present \in SUBSET Orders /\ old.cursor \in Orders \cup {None}
    BY <1>1 DEF Walk
<1>10. \A o \in Orders : CreatedAt[o] \in Nat
    BY QueriesAssumption
<1> HIDE DEF size, taken, n
<1>11. /\ sofar \in Seq(Orders) /\ DOMAIN sofar = 1..(n + size)
       /\ \A i \in 1..n : sofar[i] = old.shown[i]
       /\ \A i \in 1..size : sofar[n + i] = taken[i] /\ n + i \in DOMAIN sofar
    <2>1. size \in Nat
        BY <1>7
    <2>2. QED BY <1>8, <1>9, <2>1 DEF n
<1> HIDE DEF sofar
<1>12. Descending(sofar)
    <2> SUFFICES ASSUME NEW i \in DOMAIN sofar, NEW j \in DOMAIN sofar, i < j
                 PROVE  CreatedAt[sofar[i]] > CreatedAt[sofar[j]]
        BY DEF Descending
    <2>1. \A k \in DOMAIN sofar : k \in 1..n \/ \E m \in 1..size : k = n + m
        <3>1. SUFFICES ASSUME NEW k \in 1..(n + size), k \notin 1..n PROVE k - n \in 1..size /\ k = n + (k - n)
            BY <1>11
        <3>2. QED BY <1>7, <1>9, <3>1
    <2>2. CASE j \in 1..n
        <3>1. i \in 1..n
            BY <1>7, <1>9, <1>11, <2>2
        <3>2. QED BY <1>1, <1>9, <1>11, <2>2, <3>1 DEF WalkOK, Descending
    <2>3. CASE i \in 1..n /\ j \notin 1..n
        <3>1. PICK m \in 1..size : j = n + m
            BY <2>1, <2>3
        <3>2. sofar[i] = old.shown[i] /\ sofar[j] = rows[m] /\ rows[m] \in asked
            BY <1>8, <1>11, <2>3, <3>1
        <3>3. old.shown # <<>> /\ old.cursor = old.shown[n]
            BY <1>2, <1>1, <1>9, <2>3 DEF WalkOK, n
        <3>4. old.cursor \in Orders /\ CreatedAt[rows[m]] < CreatedAt[old.cursor]
            <4>1. n \in 1..n
                BY <1>9, <2>3
            <4>2. old.cursor \in Orders
                BY <1>9, <3>3, <4>1
            <4>3. QED BY <1>6, <3>2, <4>2, QueriesAssumption
        <3>5. CreatedAt[old.shown[i]] >= CreatedAt[old.cursor]
            <4>1. CASE i = n
                BY <1>10, <3>3, <3>4, <4>1
            <4>2. CASE i # n
                <5>1. i < n /\ i \in DOMAIN old.shown /\ n \in DOMAIN old.shown
                    BY <1>9, <2>3, <4>2
                <5>2. CreatedAt[old.shown[i]] > CreatedAt[old.shown[n]]
                    BY <1>1, <5>1 DEF WalkOK, Descending
                <5>3. old.shown[i] \in Orders
                    BY <1>9, <5>1
                <5>4. QED BY <1>10, <3>3, <3>4, <5>2, <5>3
            <4>3. QED BY <4>1, <4>2
        <3>6. old.shown[i] \in Orders /\ rows[m] \in Orders
            BY <1>3, <1>9, <2>3, <3>2
        <3>7. QED BY <1>10, <3>2, <3>4, <3>5, <3>6
    <2>4. CASE i \notin 1..n /\ j \notin 1..n
        <3>1. PICK k \in 1..size : i = n + k
            BY <2>1, <2>4
        <3>2. PICK m \in 1..size : j = n + m
            BY <2>1, <2>4
        <3>3. k < m /\ k \in DOMAIN rows /\ m \in DOMAIN rows
            BY <1>7, <1>9, <3>1, <3>2
        <3>4. QED BY <1>4, <1>8, <1>11, <3>1, <3>2, <3>3 DEF Descending
    <2>5. QED BY <2>2, <2>3, <2>4
<1>13. ASSUME NEW o \in old.present, \A i \in DOMAIN rows : rows[i] = o => i \in 1..size
       PROVE  Shows(sofar, o)
    <2>1. o \in Existing
        BY <1>1 DEF WalkOK
    <2>2. CASE o \in asked
        <3>1. PICK i \in DOMAIN rows : rows[i] = o
            BY <1>4, <2>2 DEF Shows
        <3>2. sofar[n + i] = o /\ n + i \in DOMAIN sofar
            BY <1>8, <1>11, <1>13, <3>1
        <3>3. QED BY <3>2 DEF Shows
    <2>3. CASE o \notin asked
        <3>1. old.cursor # None /\ ~(CreatedAt[o] < CreatedAt[old.cursor])
            BY <1>5, <2>1, <2>3
        <3>2. o \in Orders /\ old.cursor \in Orders
            BY <1>9, <3>1
        <3>3. CreatedAt[o] >= CreatedAt[old.cursor]
            BY <1>10, <3>1, <3>2
        <3>4. Shows(old.shown, o)
            BY <1>2, <1>1, <3>1, <3>3 DEF WalkOK
        <3>5. QED BY <1>7, <1>9, <1>11, <3>4 DEF Shows
    <2>4. QED BY <2>2, <2>3
<1>14. CASE ~hasMore
    <2>1. new = [present |-> old.present, shown |-> sofar, cursor |-> None, over |-> TRUE]
        BY <1>14 DEF sofar
    <2>2. size = Len(rows)
        BY <1>14 DEF size
    <2>3. \A o \in old.present : Shows(sofar, o)
        BY <1>7, <1>13, <2>2
    <2>4. new \in Walk /\ WalkOK(new)
        BY <1>1, <1>9, <1>11, <1>12, <2>1, <2>3 DEF Walk, WalkOK
    <2>5. QED BY <1>2, <2>4
<1>15. CASE hasMore
    <2> DEFINE c == taken[size]
    <2>1. new = [present |-> old.present, shown |-> sofar, cursor |-> c, over |-> FALSE]
        BY <1>8, <1>15 DEF sofar
    <2>2. size \in 1..size /\ size \in DOMAIN rows
        BY <1>7, <1>15
    <2>3. /\ c = rows[size] /\ c \in Orders /\ c = sofar[n + size] /\ Len(sofar) = n + size
          /\ sofar # <<>>
        BY <1>3, <1>7, <1>8, <1>9, <1>11, <2>2
    <2>4. ASSUME NEW o \in old.present, CreatedAt[o] >= CreatedAt[c] PROVE Shows(sofar, o)
        <3>1. ASSUME NEW i \in DOMAIN rows, rows[i] = o, i \notin 1..size PROVE FALSE
            <4>1. size < i
                BY <1>7, <3>1
            <4>2. CreatedAt[rows[size]] > CreatedAt[rows[i]]
                BY <1>4, <2>2, <4>1 DEF Descending
            <4>3. o \in Orders
                BY <1>9
            <4>4. QED BY <1>10, <2>3, <2>4, <3>1, <4>2, <4>3
        <3>2. QED BY <1>13, <3>1
    <2>5. new \in Walk /\ WalkOK(new)
        <3> HIDE DEF c
        <3>1. QED BY <1>1, <1>9, <1>11, <1>12, <2>1, <2>3, <2>4 DEF Walk, WalkOK
    <2>6. QED BY <1>2, <2>5
<1>16. QED BY <1>14, <1>15

\* An order that a walk found is there for good.
LEMMA WalkKept ==
    ASSUME IInv, BooksInv, [Next]_vars, NEW walk \in Walk, WalkOK(walk)
    PROVE  WalkOK(walk)'
<1>1. ASSUME NEW o \in Orders, orders[o].status # "NONE" PROVE orders'[o].status # "NONE"
    BY <1>1, OrderLasts
<1>2. walk.present \subseteq Existing'
    BY <1>1 DEF WalkOK, Existing
<1>3. QED BY <1>2 DEF WalkOK, Shows, Descending

LEMMA WalkNext ==
    ServiceInv /\ WalkInv /\ [QNext]_<<vars, readVars>> => WalkInv'
<1> SUFFICES ASSUME ServiceInv, WalkInv, [QNext]_<<vars, readVars>> PROVE WalkInv'
    OBVIOUS
<1>1. [Next]_vars /\ IInv /\ BooksInv /\ SettledInv
    BY DEF QNext, ServiceInv
<1>2. ASSUME NEW walk \in Walk, WalkOK(walk) PROVE WalkOK(walk)'
    BY <1>1, <1>2, WalkKept
<1>3. ASSUME listed' = listed PROVE WalkInv'
    BY <1>2, <1>3 DEF WalkInv, WalkOK
<1>4. ASSUME NEW r \in Readers, NEW walk \in Walk, WalkOK(walk),
             listed' = [listed EXCEPT ![r] = walk]
      PROVE  WalkInv'
    BY <1>2, <1>4 DEF WalkInv, WalkOK
<1>5. NoWalk \in Walk /\ WalkOK(NoWalk)
    BY DEF NoWalk, Walk, WalkOK, Descending
<1>6. ASSUME NEW r \in Readers, ReaderNext(r) PROVE WalkInv'
    <2>1. CASE Poll(r)
        <3>1. listed' = [listed EXCEPT ![r] = [NoWalk EXCEPT !.present = Existing]]
            BY <2>1 DEF Poll
        <3> DEFINE begun == [present |-> Existing, shown |-> <<>>, cursor |-> None, over |-> FALSE]
        <3>2. [NoWalk EXCEPT !.present = Existing] = begun
            <4> DEFINE over == FALSE
            <4>1. NoWalk = [present |-> {}, shown |-> <<>>, cursor |-> None, over |-> over]
                BY DEF NoWalk
            <4> HIDE DEF over
            <4>2. [NoWalk EXCEPT !.present = Existing] =
                    [present |-> Existing, shown |-> <<>>, cursor |-> None, over |-> over]
                BY <4>1
            <4>3. QED BY <4>2 DEF over
        <3>3. begun \in Walk /\ WalkOK(begun)
            BY DEF Walk, WalkOK, Descending, Existing
        <3> HIDE DEF begun
        <3>4. QED BY <1>4, <3>1, <3>2, <3>3
    <2>2. CASE RunStatement(r)
        BY <1>3, <2>2 DEF RunStatement
    <2>3. CASE ListNextPage(r)
        BY <1>1, <1>4, <2>3, NextPageOK
    <2>4. CASE Shown(r)
        BY <1>4, <1>5, <2>4 DEF Shown
    <2>5. QED BY <1>6, <2>1, <2>2, <2>3, <2>4 DEF ReaderNext
<1>7. QED BY <1>3, <1>6 DEF QNext, readVars

\* A walk through the list shows each order that was there when it began once
\* and only once, whatever is created behind it (listOrders).
THEOREM WalksShowEachOrderOnce == QSpec => []WalkShowsEachOrderOnce
<1>1. QInit => WalkInv
    BY DEF QInit, NoWalk, WalkInv, Walk, WalkOK, Descending, Existing
<1>2. ServiceInv /\ WalkInv /\ [QNext]_<<vars, readVars>> => WalkInv'
    BY WalkNext
<1>3. Spec => []ServiceInv
    BY Invariance, BooksInvariance, SettledInvariance, FeesInvariance, PTL DEF ServiceInv
<1>4. WalkInv => WalkShowsEachOrderOnce
    <2> SUFFICES ASSUME WalkInv, NEW r \in Readers, listed[r].over, NEW o \in listed[r].present
                 PROVE  Cardinality({i \in DOMAIN listed[r].shown : listed[r].shown[i] = o}) = 1
        BY DEF WalkShowsEachOrderOnce
    <2> DEFINE sofar == listed[r].shown
    <2>1. sofar \in Seq(Orders) /\ Descending(sofar) /\ Shows(sofar, o)
        BY DEF WalkInv, Walk, WalkOK
    <2> HIDE DEF sofar
    <2>2. PICK k \in DOMAIN sofar : sofar[k] = o
        BY <2>1 DEF Shows
    <2>3. ASSUME NEW i \in DOMAIN sofar, sofar[i] = o PROVE i = k
        <3>1. CreatedAt[o] \in Nat /\ i \in Int /\ k \in Int
            BY <2>1, <2>2, QueriesAssumption
        <3>2. ~(i < k) /\ ~(k < i)
            BY <2>1, <2>2, <2>3, <3>1 DEF Descending
        <3>3. QED BY <3>1, <3>2
    <2>4. {i \in DOMAIN sofar : sofar[i] = o} = {k}
        BY <2>2, <2>3
    <2>5. QED BY <2>4, FS_Singleton DEF sofar
<1>5. QED BY ReadersOnlyRead, <1>1, <1>2, <1>3, <1>4, PTL DEF QSpec

(***************************************************************************)
(* The service behind the browser.                                          *)
(***************************************************************************)

\* A browser makes the service take steps of its own, or none.
LEMMA BrowserStep ==
    ASSUME BrowserNext
    PROVE  [Next]_vars
<1>1. ASSUME NEW client, NEW c, Request(client, c) PROVE Next
    BY <1>1 DEF Request, Next, WorkerStep, WorkerNext
<1>2. ASSUME NEW client, NEW code, Answer(client, code) PROVE Next
    BY <1>2 DEF Answer, Next, WorkerStep, WorkerNext, Progress
<1>3. ASSUME NEW client, Abandon(client) PROVE UNCHANGED vars
    BY <1>3 DEF Abandon
<1>4. ASSUME NEW w \in Workers, Serve(w) \/ Disturb(w) PROVE Next
    BY <1>4 DEF Serve, Disturb, Next, WorkerStep, WorkerNext
<1>5. ASSUME NEW t \in Forms, FormNext(t) PROVE [Next]_vars
    BY <1>1, <1>2, <1>3, <1>5
       DEF FormNext, Submit, SubmitAnswered, SubmitNotAnswered, WorkerDied, ConnectionBroke,
           ReloadForm, Reloaded
<1>6. ASSUME NEW t \in Tabs, TabNext(t) PROVE [Next]_vars
    BY <1>1, <1>2, <1>3, <1>6
       DEF TabNext, PollOrder, Click, Answered, NotAnswered, WorkerDied, ConnectionBroke,
           Reload, Reloaded
<1>7. QED BY <1>4, <1>5, <1>6 DEF BrowserNext, ServiceNext

LEMMA BrowserServes == BrowserSpec => Spec
<1>1. BrowserInit => Init
    BY DEF BrowserInit
<1>2. [BrowserNext]_browserVars => [Next]_vars
    BY BrowserStep DEF browserVars
<1>3. QED BY <1>1, <1>2, PTL DEF BrowserSpec, Spec

(***************************************************************************)
(* The form.                                                                *)
(***************************************************************************)

\* The keys of the submissions that somebody still knows of.
Accounted == (recorded \cup forgotten \cup {pendingKey[t] : t \in Forms}) \ {None}

\* The keys an order may be recorded under are keys of submissions.
FormInv ==
    /\ pendingKey \in [Forms -> Keys \cup {None}] /\ drawn \in Nat
    /\ \A w \in Workers : pc[w] # "idle" =>
         /\ call[w].op \in Actions \cup {"create"}
         /\ call[w].op = "create" => call[w].key \in Accounted
    /\ \A e \in events : e.type = "OrderCreated" => e.key \in Accounted

\* No key that somebody knows of is lost.
KeysHeld ==
    /\ pendingKey' \in [Forms -> Keys \cup {None}] /\ drawn' \in Nat
    /\ Accounted \subseteq Accounted'

LEMMA FormStarts == BrowserInit => FormInv
BY DEF BrowserInit, Init, DbInit, OrderInit, FormInit, FormInv

\* A step of the service stores orders under the keys of the calls in flight.
LEMMA FormServed ==
    ASSUME ServiceOK, FormInv, NEW w \in Workers, WorkerStep(w), ~Start(w),
           KeysHeld
    PROVE  FormInv'
<1>1. ASSUME NEW u \in Workers, pc'[u] # "idle"
      PROVE  /\ call'[u].op \in Actions \cup {"create"}
             /\ call'[u].op = "create" => call'[u].key \in Accounted'
    <2>1. SameCall(u)
        BY CallsKept DEF ServiceOK
    <2>2. QED BY <1>1, <2>1 DEF FormInv, SameCall, KeysHeld
<1>2. ASSUME NEW e \in events', e.type = "OrderCreated" PROVE e.key \in Accounted'
    <2>1. CASE e \in events
        BY <1>2, <2>1 DEF FormInv, KeysHeld
    <2>2. CASE StoredFor(e, w)
        <3>1. CallOK(w) /\ OrderTypeOK
            BY DEF ServiceOK, IInv, TypeOK
        <3>2. call[w].op \in Actions \cup {"create"} /\ step[w] = "OrderCreated"
            BY <1>2, <2>2 DEF FormInv, StoredFor
        <3>3. call[w].op = "create"
            BY <2>2, <3>1, <3>2 DEF CallOK, StoredFor, Suffix, FirstStep, Actions
        <3>4. QED BY <2>2, <3>3 DEF FormInv, StoredFor, EventKey, KeysHeld
    <2>3. QED BY <2>1, <2>2, NewEvents DEF ServiceOK
<1>3. QED BY <1>1, <1>2 DEF FormInv, KeysHeld

\* A step that leaves the service alone.
LEMMA FormAlone ==
    ASSUME FormInv, UNCHANGED vars,
           KeysHeld
    PROVE  FormInv'
BY DEF FormInv, vars, dbVars, orderVars, workVars, KeysHeld

\* A call that a page sends.
LEMMA FormRequested ==
    ASSUME IInv, FormInv, NEW client, NEW c, Request(client, c),
           KeysHeld,
           c.op \in Actions \/ (c.op = "create" /\ c.key \in Accounted')
    PROVE  FormInv'
<1>1. PICK w \in Workers : Start(w) /\ call'[w] = c
    BY DEF Request
<1>2. /\ events' = events
      /\ \A u \in Workers : SameCall(u) \/ (u = w /\ call'[u] = c)
    BY <1>1, Requested
<1>3. "create" \notin Actions
    BY DEF Actions
<1>4. QED BY <1>2, <1>3 DEF FormInv, SameCall, KeysHeld

\* A worker that answers, or goes on, takes no new call.
LEMMA ServedStep ==
    ASSUME NEW w \in Workers, (Serve(w) \/ Disturb(w)) \/ (Finish(w) /\ UNCHANGED settleVars)
    PROVE  WorkerStep(w) /\ ~Start(w)
<1>1. WorkerStep(w)
    BY DEF Serve, Disturb, WorkerStep, WorkerNext, Progress
<1>2. pc[w] # "idle"
    BY DEF Serve, Disturb, Progress, FindOrder, Lookup, Recheck, ReadOrder, ReadLatest, InsertEvent,
           UpdateOrder, Commit, Charge, Finish, Failure, CommitAckLost, Abort, QueryFails, Crash,
           InTransaction
<1>3. QED BY <1>1, <1>2 DEF Start

LEMMA FormKeeps == ServiceOK /\ FormInv /\ [BrowserNext]_browserVars => FormInv'
<1> SUFFICES ASSUME ServiceOK, FormInv, [BrowserNext]_browserVars PROVE FormInv'
    OBVIOUS
<1>1. IInv /\ pendingKey \in [Forms -> Keys \cup {None}] /\ drawn \in Nat /\ None \notin Keys
    BY FormAssumption DEF ServiceOK, FormInv
<1>2. ASSUME UNCHANGED formVars PROVE KeysHeld
    BY <1>1, <1>2 DEF formVars, Accounted, KeysHeld
<1>3. ASSUME NEW w \in Workers, ServiceNext(w) PROVE FormInv'
    BY <1>2, <1>3, ServedStep, FormServed DEF ServiceNext
<1>4. ASSUME NEW t \in Tabs, TabNext(t), UNCHANGED formVars PROVE FormInv'
    <2>1. ASSUME NEW a \in Actions, Click(t, a) PROVE FormInv'
        <3>1. PICK key : Request(t, [op |-> a, order |-> Order, key |-> key, amount |-> 0,
                                     party |-> None])
            BY <2>1 DEF Click
        <3> DEFINE c == [op |-> a, order |-> Order, key |-> key, amount |-> 0, party |-> None]
        <3>2. c.op \in Actions
            OBVIOUS
        <3> HIDE DEF c
        <3>3. QED BY <1>1, <1>2, <1>4, <3>1, <3>2, FormRequested DEF c
    <2>2. CASE Answered(t)
        <3>1. PICK w \in Workers : Finish(w) /\ UNCHANGED settleVars
            BY <2>2 DEF Answered, Answer
        <3>2. QED BY <1>2, <1>4, <3>1, ServedStep, FormServed
    <2>3. CASE PollOrder(t) \/ NotAnswered(t) \/ Reload(t)
        <3>1. UNCHANGED vars
            BY <2>3
               DEF PollOrder, NotAnswered, WorkerDied, ConnectionBroke, Reload, Reloaded, Abandon
        <3>2. QED BY <1>2, <1>4, <3>1, FormAlone
    <2>4. QED BY <1>4, <2>1, <2>2, <2>3 DEF TabNext
<1>5. ASSUME NEW t \in Forms, FormNext(t) PROVE FormInv'
    <2>1. CASE Submit(t)
        <3>1. /\ pendingKey' \in [Forms -> Keys \cup {None}] /\ pendingKey'[t] # None
              /\ drawn' \in Nat
              /\ \A u \in Forms : pendingKey[u] = None \/ pendingKey'[u] = pendingKey[u]
              /\ recorded' = recorded /\ forgotten' = forgotten
            <4>1. CASE pendingKey[t] # None /\ UNCHANGED pendingKey
                BY <1>1, <2>1, <4>1 DEF Submit
            <4>2. CASE /\ pendingKey[t] = None /\ drawn < Len(FormUuids)
                       /\ pendingKey' = [pendingKey EXCEPT ![t] = FormUuids[drawn + 1]]
                <5>1. FormUuids[drawn + 1] \in Keys
                    BY <1>1, <4>2, FormAssumption
                <5>2. QED BY <1>1, <2>1, <4>2, <5>1 DEF Submit
            <4>3. QED BY <2>1, <4>1, <4>2 DEF Submit
        <3>2. KeysHeld /\ pendingKey'[t] \in Accounted'
            BY <3>1 DEF Accounted, KeysHeld
        <3>3. PICK e \in Entries :
                Request(t, [op |-> "create", order |-> AnyOrder, key |-> pendingKey'[t],
                            amount |-> e.amount, party |-> e.customer])
            BY <2>1 DEF Submit
        <3> DEFINE c == [op |-> "create", order |-> AnyOrder, key |-> pendingKey'[t],
                         amount |-> e.amount, party |-> e.customer]
        <3>4. c.op = "create" /\ c.key \in Accounted'
            BY <3>2
        <3>5. Request(t, c)
            BY <3>3
        <3> HIDE DEF c
        <3>6. QED BY <1>1, <3>1, <3>2, <3>4, <3>5, FormRequested
    <2>2. CASE SubmitAnswered(t)
        <3>1. PICK code : /\ Answer(t, code)
                          /\ pendingKey' = [pendingKey EXCEPT ![t] = KeyAfter(t, code)]
                          /\ recorded' = IF code = "OK" THEN recorded \cup {pendingKey[t]}
                                                        ELSE recorded
                          /\ forgotten' = forgotten /\ drawn' = drawn
            BY <2>2 DEF SubmitAnswered
        <3>2. pendingKey' \in [Forms -> Keys \cup {None}]
            BY <1>1, <3>1 DEF KeyAfter
        <3>3. \A u \in Forms : u # t => pendingKey'[u] = pendingKey[u]
            BY <1>1, <3>1
        <3>4. pendingKey'[t] = pendingKey[t] \/ pendingKey[t] \in recorded'
            BY <1>1, <3>1 DEF KeyAfter
        <3>5. KeysHeld
            BY <1>1, <3>1, <3>2, <3>3, <3>4 DEF Accounted, KeysHeld
        <3>6. PICK w \in Workers : Finish(w) /\ UNCHANGED settleVars
            BY <3>1 DEF Answer
        <3>7. QED BY <3>5, <3>6, ServedStep, FormServed
    <2>3. CASE SubmitNotAnswered(t)
        <3>1. /\ UNCHANGED vars /\ pendingKey' = pendingKey
              /\ recorded' = recorded /\ forgotten' = forgotten /\ drawn' = drawn
            <4>1. pendingKey' = [pendingKey EXCEPT ![t] = pendingKey[t]]
                BY <2>3 DEF SubmitNotAnswered, KeyAfter
            <4>2. QED BY <1>1, <2>3, <4>1
                     DEF SubmitNotAnswered, WorkerDied, ConnectionBroke, Abandon
        <3>2. QED BY <1>1, <3>1, FormAlone DEF Accounted, KeysHeld
    <2>4. CASE ReloadForm(t)
        <3>1. /\ UNCHANGED vars /\ pendingKey' = [pendingKey EXCEPT ![t] = None]
              /\ forgotten' = forgotten \cup {pendingKey[t]} /\ recorded' = recorded
              /\ drawn' = drawn
            BY <2>4 DEF ReloadForm, Reloaded, Abandon
        <3>2. KeysHeld
            BY <1>1, <3>1 DEF Accounted, KeysHeld
        <3>3. QED BY <3>1, <3>2, FormAlone
    <2>5. QED BY <1>5, <2>1, <2>2, <2>3, <2>4 DEF FormNext
<1>6. CASE UNCHANGED browserVars
    BY <1>2, <1>6, FormAlone DEF browserVars
<1>7. QED BY <1>3, <1>4, <1>5, <1>6 DEF BrowserNext, formVars

\* No order in the log was recorded for a submission nobody knows of: a form
\* holds its key and a retry finds the order, or the user was told, or a reload
\* lost the key (pendingKey of CreateOrderForm.tsx).
THEOREM FormsAccountForOrders == BrowserSpec => []EveryOrderIsAccountedFor
<1>1. FormInv => EveryOrderIsAccountedFor
    BY DEF FormInv, EveryOrderIsAccountedFor, Accounted
<1>2. BrowserSpec => []FormInv
    <2>1. BrowserSpec => []ServiceOK
        BY BrowserServes, ServiceInvariance, PTL
    <2>2. QED BY <2>1, FormStarts, FormKeeps, PTL DEF BrowserSpec
<1>3. QED BY <1>1, <1>2, PTL

(***************************************************************************)
(* The buttons of a page: what a tab waits for, and what it remembers.       *)
(***************************************************************************)

FormKeys == {FormUuids[i] : i \in DOMAIN FormUuids}

\* Something was stored after the attempt with a key: the attempt is over.
Over(k) ==
    \E e, f \in EventsOf(Order) : e.key = Append(k, "processing") /\ e.version < f.version

\* A key of an attempt that is not over is in some tab's sessionStorage.
Remembered(k) == (\E t \in Tabs : saved[t]["pay"] = k) \/ Over(k)

\* The event comes after the attempt its key belongs to.
Follows(f, k) ==
    \E e \in EventsOf(Order) : e.key = Append(k, "processing") /\ e.version < f.version

SavedOK ==
    /\ saved \in [Tabs -> [Actions -> Keys \cup {None}]]
    /\ busy \in [Tabs -> Actions \cup {"none"}]
    /\ waiting \in [Workers -> Clients \cup {Nobody}]
    /\ minted \in Nat

\* A tab waits for one worker, which serves the action and the key it is busy with.
WaitOK(w) ==
    \A t \in Tabs : waiting[w] = t =>
        /\ busy[t] \in Actions
        /\ \A u \in Workers : waiting[u] = t => u = w
        /\ pc[w] # "idle" => call[w].op = busy[t] /\ call[w].key = saved[t][busy[t]]

\* Every call comes from a form or from a button.
CallFrom(w) ==
    pc[w] # "idle" =>
        \/ call[w].op = "create"
        \/ /\ call[w].op \in Actions /\ call[w].order = Order
           /\ call[w].op = "pay" => Remembered(call[w].key)

\* After these answers the attempt of the caller is over.
AnswerFrom(w) ==
    /\ pc[w] = "reply" /\ call[w].op = "pay" /\ EndsTheIntent(outcome[w]) => Over(call[w].key)
    /\ pc[w] = "recheck" => outcome[w] # "CARD_DECLINED"

\* Every event of a payment comes from a button.
EventFrom(e) ==
    e.type \in DOMAIN Suffix =>
        /\ e.agg = Order
        /\ \E k \in PayKeys :
             /\ e.key = Append(k, Suffix[e.type])
             /\ IF e.type = "PaymentProcessing" THEN Remembered(k) ELSE Follows(e, k)

PaymentsFrom ==
    /\ \A w \in Workers : CallFrom(w) /\ AnswerFrom(w)
    /\ \A e \in events : EventFrom(e)

PageInv == SavedOK /\ PaymentsFrom /\ \A w \in Workers : WaitOK(w)

LEMMA SuffixDiffer ==
    ASSUME NEW k \in PayKeys, NEW m \in PayKeys, NEW s \in DOMAIN Suffix, NEW r \in DOMAIN Suffix,
           Append(k, Suffix[s]) = Append(m, Suffix[r])
    PROVE  k = m /\ s = r
<1>1. k \in Seq(STRING) /\ m \in Seq(STRING)
    BY OrderServiceAssumption DEF PayKeys
<1> DEFINE Texts == STRING \cup {"processing", "failed", "confirmed", "fee"}
<1>2. k \in Seq(Texts) /\ m \in Seq(Texts)
    BY <1>1
<1>3. Suffix[s] \in Texts /\ Suffix[r] \in Texts
    BY DEF Suffix
<1> HIDE DEF Texts
<1>4. \A x, y \in Texts : Append(k, x) = Append(m, y) => k = m /\ x = y
    BY <1>2, AppendInjective
<1>5. k = m /\ Suffix[s] = Suffix[r]
    BY <1>3, <1>4
<1>6. QED BY <1>5 DEF Suffix

\* The key of a payment in flight is one that a client may send.
LEMMA PaymentInFlight ==
    ASSUME ServiceOK, NEW w \in Workers, pc[w] # "idle", call[w].op = "pay"
    PROVE  call[w].key \in PayKeys /\ step[w] \in DOMAIN Suffix /\ call[w].order \in Orders
<1>1. Sent(w) /\ CallOK(w)
    BY DEF ServiceOK, SagaInv, WorkerOK, IInv
<1>2. call[w].order \in Orders
    BY <1>1 DEF CallOK, Call
<1>3. QED BY <1>1, <1>2 DEF Sent, CallOK, PayKeys

\* What a page holds on to, or has seen decided, stays so.
SavedKept ==
    \A t \in Tabs : saved[t]["pay"] # None =>
        saved'[t]["pay"] = saved[t]["pay"] \/ Over(saved[t]["pay"])

LEMMA RememberedStays ==
    ASSUME events \subseteq events'
    PROVE  /\ \A k : Over(k) => Over(k)'
           /\ \A k, f : Follows(f, k) => Follows(f, k)'
           /\ SavedKept => \A k : k # None /\ Remembered(k) => Remembered(k)'
<1>1. EventsOf(Order) \subseteq EventsOf(Order)'
    BY DEF EventsOf
<1>2. \A k : Over(k) => Over(k)'
    BY <1>1 DEF Over
<1>3. \A k, f : Follows(f, k) => Follows(f, k)'
    BY <1>1 DEF Follows
<1>4. ASSUME SavedKept, NEW k, k # None, Remembered(k) PROVE Remembered(k)'
    BY <1>2, <1>4 DEF SavedKept, Remembered
<1>5. QED BY <1>2, <1>3, <1>4

\* An event that follows an attempt ends it.
LEMMA FollowsEnds ==
    ASSUME NEW f \in events, f.agg = Order, NEW k, Follows(f, k)
    PROVE  Over(k)
BY DEF Over, Follows, EventsOf

\* A mutation that is through goes on, or answers.
LEMMA ContinueEnds ==
    ASSUME ServiceOK, NEW w \in Workers, pc[w] # "idle", call[w].op = "pay", Continue(w),
           pc'[w] = "reply"
    PROVE  step[w] \in {"PaymentFailed", "FeeCalculated"}
<1>1. OrderTypeOK /\ step[w] \in DOMAIN Suffix
    BY PaymentInFlight DEF ServiceOK, IInv, TypeOK
<1>2. QED BY <1>1 DEF Continue, Goto, OrderTypeOK, Suffix

\* Only a mutation that is through, or has been, answers with success or decline.
LEMMA EndingAnswers ==
    ASSUME ServiceOK, NEW w \in Workers, WorkerStep(w), ~Start(w), pc[w] # "idle", AnswerFrom(w),
           call[w].op = "pay", pc'[w] = "reply", EndsTheIntent(outcome'[w])
    PROVE  /\ step[w] \in {"PaymentFailed", "FeeCalculated"}
           /\ \E f \in events' : /\ f.key = EventKey(w) /\ f.type = step[w]
                                 /\ f.agg = call[w].order
<1>1. /\ OrderTypeOK /\ IInv /\ BooksInv /\ SagaInv /\ AnswerOK(w)
      /\ call[w].order \in Orders /\ AnyOrder \notin Orders /\ WorkerNext(w)
    BY PaymentInFlight, OrderServiceAssumption
       DEF ServiceOK, IInv, TypeOK, SagaInv, WorkerOK, WorkerStep
<1>2. CASE Lookup(w) \/ Recheck(w)
    <2>1. events' = events /\ (pc[w] = "recheck" => ~EndsTheIntent(outcome[w]))
        BY <1>1, <1>2 DEF Lookup, Recheck, dbVars, AnswerOK, AnswerFrom, EndsTheIntent
    <2>2. PICK f \in events : f.key = EventKey(w) /\ SameIntent(f, w) /\ Continue(w)
        BY <1>1, <1>2, <2>1
           DEF Lookup, Recheck, ReplayOr, Replayable, Reply, Goto, OrderTypeOK, EndsTheIntent,
               StoredUnder
    <2>3. QED BY <1>1, <2>1, <2>2, ContinueEnds DEF SameIntent
<1>3. CASE Commit(w)
    <2>1. pc[w] = "commit" /\ Continue(w)
        BY <1>3 DEF Commit
    <2>2. Publishes(w)
        BY <1>1, <1>3, <2>1, OthersStay
           DEF Commit, Goto, ForgetTransaction, OnlyWorker, OrderTypeOK, Publishes, Writing,
               WorkerStep, Continue, Reply
    <2>3. QED BY <1>1, <2>1, <2>2, PublishedEvent, ContinueEnds
<1>4. CASE ~(Lookup(w) \/ Recheck(w) \/ Commit(w))
    BY <1>1, <1>4
       DEF WorkerNext, Progress, FindOrder, ReadOrder, Throw, ReadLatest, InsertEvent, UpdateOrder,
           Charge, Finish, Reset, Failure, CommitAckLost, Abort, QueryFails, Crash, Reply, Goto,
           OrderTypeOK, EndsTheIntent
<1>5. QED BY <1>2, <1>3, <1>4

LEMMA NoDeclineThrown ==
    ASSUME ServiceOK, NEW w \in Workers, WorkerStep(w), pc'[w] = "recheck"
    PROVE  outcome'[w] # "CARD_DECLINED"
<1>1. OrderTypeOK /\ WorkerNext(w)
    BY DEF ServiceOK, IInv, TypeOK, WorkerStep
<1>2. \A o : Rejection(w, orders[o]) # "CARD_DECLINED"
    BY DEF Rejection
<1>3. QED BY <1>1, <1>2
          DEF WorkerNext, Start, Progress, FindOrder, Lookup, Recheck, ReplayOr, Continue, ReadOrder,
              Throw, ReadLatest, InsertEvent, UpdateOrder, Commit, Charge, Finish, Reset, Failure,
              CommitAckLost, Abort, QueryFails, Crash, Reply, Goto, OrderTypeOK

LEMMA PayKeysAreKeys == PayKeys \subseteq Keys /\ None \notin PayKeys
BY OrderServiceAssumption, FormAssumption DEF PayKeys, Call

\* An event of a payment that is stored now.
LEMMA StoredPayment ==
    ASSUME ServiceOK, PageInv, NEW w \in Workers, NEW e, StoredFor(e, w), e.type \in DOMAIN Suffix
    PROVE  /\ e.agg = Order /\ call[w].key \in PayKeys /\ call[w].op = "pay"
           /\ e.key = Append(call[w].key, Suffix[e.type])
           /\ IF e.type = "PaymentProcessing" THEN Remembered(call[w].key)
                                             ELSE Follows(e, call[w].key)
<1>1. /\ CallOK(w) /\ CallFrom(w) /\ StepOK(w) /\ pc[w] # "idle" /\ step[w] = e.type
      /\ Order \in Orders /\ AnyOrder \notin Orders
    BY OrderServiceAssumption, OrderPageAssumption
       DEF ServiceOK, IInv, SagaInv, WorkerOK, PageInv, PaymentsFrom, StoredFor
<1>2. call[w].op = "pay"
    BY <1>1 DEF CallOK, CallFrom, Actions, FirstStep, Suffix
<1>3. call[w].key \in PayKeys /\ call[w].order = Order /\ Remembered(call[w].key)
    BY <1>1, <1>2, PaymentInFlight DEF CallFrom
<1>4. e.agg = Order /\ e.key = Append(call[w].key, Suffix[e.type])
    BY <1>1, <1>2, <1>3 DEF StoredFor, EventKey
<1>5. ASSUME e.type # "PaymentProcessing" PROVE Follows(e, call[w].key)
    <2>1. PICK d \in EventsOf(Order) : d.key = Append(call[w].key, "processing")
        BY <1>1, <1>2, <1>3, <1>5 DEF StepOK, Processing, EventsOf
    <2>2. d.version \in 1..orders[Order].version /\ orders[Order].version \in Nat
        BY <1>1, <2>1 DEF ServiceOK, IInv, TypeOK, DbTypeOK, OrderRow, StreamOK
    <2>3. d.version < e.version
        BY <1>4, <2>2 DEF StoredFor
    <2>4. QED BY <2>1, <2>3 DEF Follows
<1>6. QED BY <1>2, <1>3, <1>4, <1>5

\* The worker that answers with success, or with a decline, has an event to show.
LEMMA AnswersKept ==
    ASSUME ServiceOK, PageInv, NEW w \in Workers, WorkerStep(w), ~Start(w),
           \A e \in events' : EventFrom(e)', NEW u \in Workers
    PROVE  AnswerFrom(u)'
<1>1. OnlyWorker(w) /\ (u # w => outcome'[u] = outcome[u]) /\ SameCall(u) /\ events \subseteq events'
    BY OthersStay, CallsKept, StepGrows DEF ServiceOK, Next, Grows
<1>2. \A k : Over(k) => Over(k)'
    BY <1>1, RememberedStays
<1>3. CASE u # w
    <2>1. pc'[u] = pc[u] /\ call'[u] = call[u] /\ outcome'[u] = outcome[u] /\ AnswerFrom(u)
        BY <1>1, <1>3 DEF OnlyWorker, PageInv, PaymentsFrom
    <2>2. QED BY <1>2, <2>1 DEF AnswerFrom
<1>4. CASE u = w
    <2>1. ASSUME pc'[w] = "reply", call'[w].op = "pay", EndsTheIntent(outcome'[w])
          PROVE  \E k : k = call'[w].key /\ Over(k)'
        <3>1. /\ pc[w] # "idle" /\ call[w].op = "pay" /\ call'[w].key = call[w].key
              /\ AnswerFrom(w) /\ CallFrom(w)
            BY <1>1, <1>4, <2>1 DEF SameCall, PageInv, PaymentsFrom
        <3>2. PICK f \in events' : /\ f.key = EventKey(w) /\ f.type = step[w]
                                   /\ f.agg = call[w].order
                                   /\ step[w] \in {"PaymentFailed", "FeeCalculated"}
            BY <2>1, <3>1, EndingAnswers
        <3>3. call[w].order = Order /\ call[w].key \in PayKeys
            BY <3>1, PaymentInFlight DEF CallFrom
        <3>4. f.type \in DOMAIN Suffix /\ f.type # "PaymentProcessing"
            BY <3>2 DEF Suffix
        <3>5. PICK k \in PayKeys : f.key = Append(k, Suffix[f.type]) /\ Follows(f, k)'
            BY <3>2, <3>4 DEF EventFrom
        <3>6. k = call[w].key
            BY <3>1, <3>2, <3>3, <3>4, <3>5, SuffixDiffer DEF EventKey
        <3>7. Over(k)'
            BY <3>2, <3>3, <3>5 DEF Over, Follows, EventsOf
        <3>8. QED BY <3>1, <3>6, <3>7
    <2>2. QED BY <1>4, <2>1, NoDeclineThrown DEF AnswerFrom, Over
<1>5. QED BY <1>3, <1>4

\* A call stays one of a button while its key is remembered.
LEMMA CallFromKept ==
    ASSUME ServiceOK, events \subseteq events', SavedKept, NEW u \in Workers, CallFrom(u), SameCall(u)
    PROVE  CallFrom(u)'
<1>1. PICK k : k = call[u].key
    OBVIOUS
<1>2. SUFFICES ASSUME pc'[u] # "idle", call[u].op # "create" PROVE CallFrom(u)'
    BY DEF CallFrom, SameCall
<1>3. /\ pc[u] # "idle" /\ k # None /\ call'[u].key = k
      /\ call[u].op \in Actions /\ call[u].order = Order
      /\ call[u].op = "pay" => Remembered(k)
    BY <1>1, <1>2, FormAssumption DEF ServiceOK, IInv, CallOK, Call, CallFrom, SameCall
<1>4. call[u].op = "pay" => Remembered(k)'
    BY <1>3, RememberedStays
<1>5. QED BY <1>2, <1>3, <1>4 DEF CallFrom, SameCall, Remembered, Over

\* An event of a payment stays one that is remembered, or that follows its attempt.
LEMMA EventFromKept ==
    ASSUME events \subseteq events', SavedKept, NEW e,
           e.type \in DOMAIN Suffix =>
             /\ e.agg = Order
             /\ \E k \in PayKeys :
                  /\ e.key = Append(k, Suffix[e.type])
                  /\ IF e.type = "PaymentProcessing" THEN Remembered(k) ELSE Follows(e, k)
    PROVE  EventFrom(e)'
<1>1. SUFFICES ASSUME e.type \in DOMAIN Suffix PROVE EventFrom(e)'
    BY DEF EventFrom
<1>2. PICK k \in PayKeys :
         /\ e.agg = Order /\ e.key = Append(k, Suffix[e.type])
         /\ IF e.type = "PaymentProcessing" THEN Remembered(k) ELSE Follows(e, k)
    BY <1>1
<1>3. IF e.type = "PaymentProcessing" THEN Remembered(k)' ELSE Follows(e, k)'
    BY <1>2, RememberedStays, PayKeysAreKeys
<1>4. QED BY <1>2, <1>3 DEF EventFrom

LEMMA PageServed ==
    ASSUME ServiceOK, PageInv, NEW w \in Workers, WorkerStep(w), ~Start(w), SavedKept
    PROVE  PaymentsFrom'
<1>1. events \subseteq events'
    BY StepGrows DEF ServiceOK, Next, Grows
<1>2. ASSUME NEW u \in Workers PROVE CallFrom(u)'
    BY <1>1, CallsKept, CallFromKept DEF ServiceOK, PageInv, PaymentsFrom
<1>3. ASSUME NEW e \in events' PROVE EventFrom(e)'
    <2>1. CASE e \in events
        BY <1>1, <2>1, EventFromKept DEF PageInv, PaymentsFrom, EventFrom
    <2>2. CASE StoredFor(e, w)
        <3>1. e.type \in DOMAIN Suffix =>
                /\ e.agg = Order
                /\ \E k \in PayKeys :
                     /\ e.key = Append(k, Suffix[e.type])
                     /\ IF e.type = "PaymentProcessing" THEN Remembered(k) ELSE Follows(e, k)
            BY <2>2, StoredPayment
        <3>2. QED BY <1>1, <3>1, EventFromKept
    <2>3. QED BY <2>1, <2>2, NewEvents DEF ServiceOK
<1>4. QED BY <1>2, <1>3, AnswersKept DEF PaymentsFrom

LEMMA PageAlone ==
    ASSUME ServiceOK, PageInv, UNCHANGED vars, SavedKept
    PROVE  PaymentsFrom'
<1>1. UNCHANGED <<events, orders, pc, call, outcome>>
    BY DEF vars, dbVars, orderVars, workVars
<1>2. ASSUME NEW u \in Workers PROVE CallFrom(u)'
    BY <1>1, CallFromKept DEF PageInv, PaymentsFrom, SameCall
<1>3. ASSUME NEW u \in Workers PROVE AnswerFrom(u)'
    BY <1>1 DEF PageInv, PaymentsFrom, AnswerFrom, Over, EventsOf
<1>4. ASSUME NEW e \in events' PROVE EventFrom(e)'
    BY <1>1, EventFromKept DEF PageInv, PaymentsFrom, EventFrom
<1>5. QED BY <1>2, <1>3, <1>4 DEF PaymentsFrom

\* The call of a form, or of a button with a key its tab saves.
SentByPage(c) ==
    \/ c.op = "create"
    \/ /\ c.op \in Actions /\ c.order = Order
       /\ c.op = "pay" => \E t \in Tabs : saved'[t]["pay"] = c.key

LEMMA PageRequested ==
    ASSUME ServiceOK, PageInv, NEW client, NEW c, Request(client, c), SavedKept, SentByPage(c)
    PROVE  PaymentsFrom'
<1>1. PICK w \in Workers : Start(w) /\ call'[w] = c /\ IInv
    BY DEF Request, ServiceOK
<1>2. /\ events' = events
      /\ \A u \in Workers : SameCall(u) \/ (u = w /\ call'[u] = c)
    BY <1>1, Requested
<1>3. ASSUME NEW u \in Workers PROVE CallFrom(u)'
    <2>1. CASE SameCall(u)
        BY <1>2, <2>1, CallFromKept DEF PageInv, PaymentsFrom
    <2>2. CASE u = w /\ call'[u] = c
        BY <2>2 DEF CallFrom, SentByPage, Remembered
    <2>3. QED BY <1>2, <2>1, <2>2
<1>4. ASSUME NEW u \in Workers PROVE AnswerFrom(u)'
    <2>1. OnlyWorker(w) /\ OrderTypeOK /\ (u # w => outcome'[u] = outcome[u])
        <3>1. WorkerStep(w)
            BY <1>1 DEF Request, Start, WorkerStep, WorkerNext
        <3>2. QED BY <3>1, OthersStay DEF ServiceOK, IInv, TypeOK
    <2>2. CASE u # w
        BY <1>2, <2>1, <2>2 DEF OnlyWorker, PageInv, PaymentsFrom, AnswerFrom, Over, EventsOf
    <2>3. CASE u = w
        BY <1>1, <2>1, <2>3 DEF Start, Reply, Goto, OrderTypeOK, AnswerFrom, EndsTheIntent
    <2>4. QED BY <2>2, <2>3
<1>5. ASSUME NEW e \in events' PROVE EventFrom(e)'
    BY <1>2, EventFromKept DEF PageInv, PaymentsFrom, EventFrom
<1>6. QED BY <1>3, <1>4, <1>5 DEF PaymentsFrom

(***************************************************************************)
(* Who waits for whom.                                                      *)
(***************************************************************************)
AllWait == /\ waiting \in [Workers -> Clients \cup {Nobody}]
           /\ \A w \in Workers : WaitOK(w)

\* Nothing happens to the other tabs.
OtherTabs(client) == \A t \in Tabs \ {client} : busy'[t] = busy[t] /\ saved'[t] = saved[t]

LEMMA WaitRequested ==
    ASSUME IInv, AllWait, NEW client \in Clients, NEW c, Request(client, c), OtherTabs(client),
           client \in Tabs => /\ busy[client] = "none" /\ busy'[client] = c.op /\ c.op \in Actions
                              /\ saved'[client][c.op] = c.key
    PROVE  AllWait'
<1>1. PICK w \in Workers : /\ Start(w) /\ call'[w] = c /\ pc[w] = "idle"
                           /\ waiting' = [waiting EXCEPT ![w] = client]
    BY DEF Request, Idle
<1>2. \A u \in Workers : SameCall(u) \/ (u = w /\ call'[u] = c)
    BY <1>1, Requested
<1>3. "none" \notin Actions
    BY DEF Actions
<1>4. waiting' \in [Workers -> Clients \cup {Nobody}]
    BY <1>1 DEF AllWait
<1>5. ASSUME NEW u \in Workers, NEW t \in Tabs, waiting'[u] = t
      PROVE  /\ busy'[t] \in Actions
             /\ \A x \in Workers : waiting'[x] = t => x = u
             /\ pc'[u] # "idle" => call'[u].op = busy'[t] /\ call'[u].key = saved'[t][busy'[t]]
    <2>1. \A x \in Workers : waiting'[x] = IF x = w THEN client ELSE waiting[x]
        BY <1>1 DEF AllWait
    <2>2. CASE t = client
        <3>1. \A x \in Workers : waiting[x] # t
            BY <1>3, <2>2 DEF AllWait, WaitOK
        <3>2. QED BY <1>1, <1>5, <2>1, <2>2, <3>1
    <2>3. CASE t # client
        <3>1. u # w /\ waiting[u] = t /\ WaitOK(u) /\ SameCall(u)
            BY <1>2, <1>5, <2>1, <2>3 DEF AllWait
        <3>2. QED BY <2>1, <2>3, <3>1 DEF WaitOK, OtherTabs, SameCall
    <2>4. QED BY <2>2, <2>3
<1>6. QED BY <1>4, <1>5 DEF AllWait, WaitOK

\* A client that was answered, or gave up, waits no longer.
LEMMA WaitEnded ==
    ASSUME AllWait, NEW client \in Clients, OtherTabs(client), \A u \in Workers : SameCall(u),
           \/ Abandon(client)
           \/ \E w \in Workers : waiting[w] = client /\ waiting' = [waiting EXCEPT ![w] = Nobody]
    PROVE  AllWait'
<1>1. Nobody \notin Tabs
    BY HttpAssumption, OrderPageAssumption
<1>2. /\ waiting' \in [Workers -> Clients \cup {Nobody}]
      /\ \A u \in Workers, t \in Tabs : waiting'[u] = t => waiting[u] = t /\ t # client
    BY <1>1 DEF AllWait, WaitOK, Abandon
<1>3. ASSUME NEW u \in Workers, NEW t \in Tabs, waiting'[u] = t
      PROVE  /\ busy'[t] \in Actions
             /\ \A x \in Workers : waiting'[x] = t => x = u
             /\ pc'[u] # "idle" => call'[u].op = busy'[t] /\ call'[u].key = saved'[t][busy'[t]]
    BY <1>2, <1>3 DEF AllWait, WaitOK, OtherTabs, SameCall
<1>4. QED BY <1>2, <1>3 DEF AllWait, WaitOK

LEMMA WaitServed ==
    ASSUME AllWait, UNCHANGED <<waiting, saved, busy>>, \A u \in Workers : SameCall(u)
    PROVE  AllWait'
BY DEF AllWait, WaitOK, SameCall

(***************************************************************************)
(* The steps of the browser.                                                *)
(***************************************************************************)
LEMMA PageStarts == BrowserInit => PageInv
BY HttpAssumption, OrderPageAssumption
   DEF BrowserInit, Init, DbInit, OrderInit, HttpInit, PageInit, PageInv, PaymentsFrom, SavedOK,
       WaitOK, CallFrom, AnswerFrom

LEMMA PageParts ==
    ASSUME PageInv
    PROVE  AllWait /\ SavedOK
BY DEF PageInv, AllWait, SavedOK

\* A step during which the tabs only poll.
LEMMA PageByForm ==
    ASSUME ServiceOK, PageInv, NEW t \in Forms, FormNext(t), UNCHANGED pageVars
    PROVE  PageInv'
<1>1. AllWait /\ SavedOK /\ t \in Clients /\ t \notin Tabs /\ OtherTabs(t) /\ SavedKept /\ IInv
    BY PageParts, FormAssumption, BrowserAssumption DEF pageVars, OtherTabs, SavedKept, ServiceOK
<1>2. AllWait' => SavedOK'
    BY <1>1 DEF AllWait, SavedOK, pageVars
<1>3. ASSUME UNCHANGED vars, Abandon(t) PROVE AllWait'
    <2>1. \A u \in Workers : SameCall(u)
        BY <1>3 DEF SameCall, vars, orderVars, workVars
    <2>2. QED BY <1>1, <1>3, <2>1, WaitEnded
<1>4. CASE Submit(t)
    <2>1. PICK e \in Entries :
            Request(t, [op |-> "create", order |-> AnyOrder, key |-> pendingKey'[t],
                        amount |-> e.amount, party |-> e.customer])
        BY <1>4 DEF Submit
    <2> DEFINE c == [op |-> "create", order |-> AnyOrder, key |-> pendingKey'[t],
                     amount |-> e.amount, party |-> e.customer]
    <2>2. SentByPage(c) /\ Request(t, c)
        BY <2>1 DEF SentByPage
    <2> HIDE DEF c
    <2>3. PaymentsFrom'
        BY <1>1, <2>2, PageRequested
    <2>4. AllWait'
        BY <1>1, <2>2, WaitRequested
    <2>5. QED BY <1>2, <2>3, <2>4 DEF PageInv, AllWait
<1>5. CASE SubmitAnswered(t)
    <2>1. PICK w \in Workers :
             /\ waiting[w] = t /\ Finish(w) /\ UNCHANGED settleVars
             /\ waiting' = [waiting EXCEPT ![w] = Nobody]
        BY <1>5 DEF SubmitAnswered, Answer
    <2>2. WorkerStep(w) /\ ~Start(w)
        BY <2>1, ServedStep
    <2>3. PaymentsFrom'
        BY <1>1, <2>2, PageServed
    <2>4. \A u \in Workers : SameCall(u)
        BY <2>2, CallsKept DEF ServiceOK
    <2>5. AllWait'
        BY <1>1, <2>1, <2>4, WaitEnded
    <2>6. QED BY <1>2, <2>3, <2>5 DEF PageInv, AllWait
<1>6. CASE SubmitNotAnswered(t) \/ ReloadForm(t)
    <2>1. UNCHANGED vars /\ Abandon(t)
        BY <1>6 DEF SubmitNotAnswered, ReloadForm, WorkerDied, ConnectionBroke, Reloaded, Abandon
    <2>2. QED BY <1>1, <1>2, <1>3, <2>1, PageAlone DEF PageInv, AllWait
<1>7. QED BY <1>4, <1>5, <1>6 DEF FormNext

LEMMA PageByService ==
    ASSUME ServiceOK, PageInv, NEW w \in Workers, ServiceNext(w)
    PROVE  PageInv'
<1>1. WorkerStep(w) /\ ~Start(w) /\ waiting' = waiting /\ UNCHANGED pageVars
    BY ServedStep DEF ServiceNext, Serve, Disturb, httpVars
<1>2. AllWait /\ SavedOK /\ SavedKept
    BY <1>1, PageParts DEF SavedKept, pageVars
<1>3. PaymentsFrom'
    BY <1>1, <1>2, PageServed
<1>4. \A u \in Workers : SameCall(u)
    BY <1>1, CallsKept DEF ServiceOK
<1>5. AllWait'
    BY <1>1, <1>2, <1>4, WaitServed DEF pageVars
<1>6. QED BY <1>1, <1>2, <1>3, <1>5 DEF PageInv, AllWait, SavedOK, pageVars

\* A click sends the key its tab saves for the action, old or new.
LEMMA ClickSends ==
    ASSUME SavedOK, NEW t \in Tabs, NEW a \in Actions, Click(t, a)
    PROVE  \E key \in Keys :
             /\ Request(t, [op |-> a, order |-> Order, key |-> key, amount |-> 0, party |-> None])
             /\ saved'[t][a] = key
             /\ \/ UNCHANGED <<saved, minted>> /\ saved[t][a] = key
                \/ /\ saved[t][a] = None /\ minted < Len(Uuids)
                   /\ key = Uuids[minted + 1] /\ minted' = minted + 1
                   /\ saved' = [saved EXCEPT ![t] = [@ EXCEPT ![a] = key]]
             /\ busy[t] = "none" /\ busy' = [busy EXCEPT ![t] = a]
<1>1. PICK key \in Keys :
         /\ Request(t, [op |-> a, order |-> Order, key |-> key, amount |-> 0, party |-> None])
         /\ \/ saved[t][a] = key /\ UNCHANGED <<saved, minted>>
            \/ /\ saved[t][a] = None /\ minted < Len(Uuids) /\ key = Uuids[minted + 1]
               /\ minted' = minted + 1 /\ saved' = Saved(t, a, key)
    BY DEF Click
<1>2. Saved(t, a, key) = [saved EXCEPT ![t] = [@ EXCEPT ![a] = key]]
    BY DEF Saved, Scope, SavedOK
<1>3. saved'[t][a] = key
    BY <1>1, <1>2 DEF SavedOK
<1>4. busy[t] = "none" /\ busy' = [busy EXCEPT ![t] = a]
    BY DEF Click
<1>5. QED BY <1>1, <1>2, <1>3, <1>4

LEMMA PageByClick ==
    ASSUME ServiceOK, PageInv, NEW t \in Tabs, NEW a \in Actions, Click(t, a)
    PROVE  PageInv'
<1>1. AllWait /\ SavedOK /\ IInv /\ t \in Clients
    BY PageParts, OrderPageAssumption DEF ServiceOK
<1>2. PICK key \in Keys :
         /\ Request(t, [op |-> a, order |-> Order, key |-> key, amount |-> 0, party |-> None])
         /\ saved'[t][a] = key
         /\ \/ UNCHANGED <<saved, minted>> /\ saved[t][a] = key
            \/ /\ saved[t][a] = None /\ minted < Len(Uuids)
               /\ key = Uuids[minted + 1] /\ minted' = minted + 1
               /\ saved' = [saved EXCEPT ![t] = [@ EXCEPT ![a] = key]]
         /\ busy[t] = "none" /\ busy' = [busy EXCEPT ![t] = a]
    BY <1>1, ClickSends
<1>3. /\ saved' \in [Tabs -> [Actions -> Keys \cup {None}]] /\ minted' \in Nat
      /\ \A u \in Tabs, b \in Actions : saved[u][b] # None => saved'[u][b] = saved[u][b]
      /\ \A u \in Tabs \ {t} : saved'[u] = saved[u] /\ busy'[u] = busy[u]
      /\ busy' \in [Tabs -> Actions \cup {"none"}] /\ busy'[t] = a
    BY <1>1, <1>2 DEF SavedOK
<1> DEFINE c == [op |-> a, order |-> Order, key |-> key, amount |-> 0, party |-> None]
<1>4. c.op = a /\ c.key = key /\ SentByPage(c) /\ Request(t, c)
    BY <1>2 DEF SentByPage
<1> HIDE DEF c
<1>5. SavedKept /\ OtherTabs(t)
    BY <1>3 DEF SavedKept, OtherTabs, Actions
<1>6. PaymentsFrom'
    BY <1>4, <1>5, PageRequested
<1>7. AllWait'
    BY <1>1, <1>2, <1>3, <1>4, <1>5, WaitRequested
<1>8. QED BY <1>3, <1>6, <1>7 DEF PageInv, AllWait, SavedOK

\* An answer drops the key only when the attempt is over.
LEMMA PageByAnswer ==
    ASSUME ServiceOK, PageInv, NEW t \in Tabs, Answered(t)
    PROVE  PageInv'
<1>1. AllWait /\ SavedOK /\ t \in Clients
    BY PageParts, OrderPageAssumption
<1>2. PICK code \in Errors \cup {"OK"} :
         /\ Answer(t, code)
         /\ IF EndsTheIntent(code) THEN saved' = Saved(t, busy[t], None) ELSE UNCHANGED saved
         /\ busy[t] # "none" /\ busy' = [busy EXCEPT ![t] = "none"] /\ minted' = minted
    BY DEF Answered
<1>3. PICK w \in Workers :
         /\ waiting[w] = t /\ pc[w] = "reply" /\ outcome[w] = code
         /\ Finish(w) /\ UNCHANGED settleVars
         /\ waiting' = [waiting EXCEPT ![w] = Nobody]
    BY <1>2 DEF Answer
<1>4. busy[t] \in Actions /\ call[w].op = busy[t] /\ call[w].key = saved[t][busy[t]]
    BY <1>1, <1>3 DEF AllWait, WaitOK
<1>5. /\ saved' \in [Tabs -> [Actions -> Keys \cup {None}]]
      /\ busy' \in [Tabs -> Actions \cup {"none"}]
      /\ \A u \in Tabs \ {t} : saved'[u] = saved[u] /\ busy'[u] = busy[u]
      /\ \A b \in Actions : saved'[t][b] = saved[t][b] \/ (b = busy[t] /\ EndsTheIntent(code))
    BY <1>1, <1>2, <1>4 DEF SavedOK, Saved, Scope
<1>6. SavedKept
    <2>1. AnswerFrom(w)
        BY DEF PageInv, PaymentsFrom
    <2>2. saved'[t]["pay"] = saved[t]["pay"] \/ Over(saved[t]["pay"])
        BY <1>3, <1>4, <1>5, <2>1 DEF AnswerFrom, Actions
    <2>3. QED BY <1>5, <2>2 DEF SavedKept
<1>7. WorkerStep(w) /\ ~Start(w)
    BY <1>3, ServedStep
<1>8. PaymentsFrom'
    BY <1>6, <1>7, PageServed
<1>9. \A u \in Workers : SameCall(u)
    BY <1>7, CallsKept DEF ServiceOK
<1>10. AllWait'
    BY <1>1, <1>3, <1>5, <1>9, WaitEnded DEF OtherTabs
<1>11. QED BY <1>1, <1>2, <1>5, <1>8, <1>10 DEF PageInv, AllWait, SavedOK

LEMMA PageByOther ==
    ASSUME ServiceOK, PageInv, NEW t \in Tabs, PollOrder(t) \/ NotAnswered(t) \/ Reload(t)
    PROVE  PageInv'
<1>1. AllWait /\ SavedOK /\ t \in Clients
    BY PageParts, OrderPageAssumption
<1>2. /\ UNCHANGED <<vars, saved, minted>>
      /\ \/ UNCHANGED <<waiting, busy>>
         \/ Abandon(t) /\ busy' = [busy EXCEPT ![t] = "none"]
    BY DEF PollOrder, NotAnswered, WorkerDied, ConnectionBroke, AfterNetworkError, Reload, Reloaded,
           Abandon, httpVars
<1>3. SavedKept /\ OtherTabs(t) /\ busy' \in [Tabs -> Actions \cup {"none"}]
    BY <1>1, <1>2 DEF SavedKept, OtherTabs, SavedOK
<1>4. PaymentsFrom'
    BY <1>2, <1>3, PageAlone
<1>5. \A u \in Workers : SameCall(u)
    BY <1>2 DEF SameCall, vars, orderVars, workVars
<1>6. AllWait'
    BY <1>1, <1>2, <1>3, <1>5, WaitEnded, WaitServed
<1>7. QED BY <1>1, <1>2, <1>3, <1>4, <1>6 DEF PageInv, AllWait, SavedOK

LEMMA PageNext == ServiceOK /\ PageInv /\ [BrowserNext]_browserVars => PageInv'
<1> SUFFICES ASSUME ServiceOK, PageInv, [BrowserNext]_browserVars PROVE PageInv'
    OBVIOUS
<1>1. CASE UNCHANGED browserVars
    <2>1. PaymentsFrom'
        BY <1>1, PageAlone DEF browserVars, pageVars, SavedKept
    <2>2. QED BY <1>1, <2>1
             DEF browserVars, pageVars, httpVars, vars, orderVars, workVars, PageInv, SavedOK, WaitOK
<1>2. ASSUME NEW t \in Tabs, TabNext(t) PROVE PageInv'
    BY <1>2, PageByClick, PageByAnswer, PageByOther DEF TabNext
<1>3. QED BY <1>1, <1>2, PageByForm, PageByService DEF BrowserNext

LEMMA PageInvariance == BrowserSpec => []PageInv
<1>1. BrowserSpec => []ServiceOK
    BY BrowserServes, ServiceInvariance, PTL
<1>2. QED BY <1>1, PageStarts, PageNext, PTL DEF BrowserSpec

\* While a payment is undecided, the key of its attempt is in some tab's
\* sessionStorage, whatever was answered, lost or reloaded in between: it is
\* dropped only after an answer that ends the attempt (OrderActions.tsx:41,
\* idempotency.ts:1-8).
THEOREM AttemptKeysAreKept == BrowserSpec => []AttemptKeyIsKept
<1>1. ServiceOK /\ PageInv => AttemptKeyIsKept
    <2> SUFFICES ASSUME ServiceOK, PageInv, orders[Order].status = "PAYMENT_PROCESSING"
                 PROVE  \E t \in Tabs : \E e \in Attempt(orders[Order]) :
                          saved[t]["pay"] # None /\ e.key = Append(saved[t]["pay"], "processing")
        BY DEF AttemptKeyIsKept
    <2>1. StreamOK(Order) /\ orders[Order].version \in Nat /\ GateOK
        BY OrderPageAssumption DEF ServiceOK, IInv, TypeOK, DbTypeOK, OrderRow
    <2>2. orders[Order].version # 0
        BY <2>1 DEF StreamOK
    <2>3. PICK e \in EventsOf(Order) : e.version = orders[Order].version
        BY <2>1, <2>2 DEF StreamOK
    <2>4. e.type = "PaymentProcessing"
        BY <2>1, <2>3 DEF StreamOK, NextStatus, OrderEventTypes
    <2>5. PICK k \in PayKeys : e.key = Append(k, "processing") /\ Remembered(k)
        BY <2>3, <2>4 DEF PageInv, PaymentsFrom, EventFrom, EventsOf, Suffix
    <2>6. ~Over(k)
        <3> SUFFICES ASSUME NEW d \in EventsOf(Order), NEW f \in EventsOf(Order),
                            d.key = Append(k, "processing"), d.version < f.version
                     PROVE  FALSE
            BY DEF Over
        <3>1. d = e
            BY <2>1, <2>3, <2>5 DEF GateOK, Clash, EventsOf
        <3>2. f.version \in 1..orders[Order].version
            BY <2>1 DEF StreamOK
        <3>3. QED BY <2>1, <2>3, <3>1, <3>2
    <2>7. QED BY <2>3, <2>5, <2>6, PayKeysAreKeys DEF Remembered, Attempt
<1>2. BrowserSpec => []ServiceOK
    BY BrowserServes, ServiceInvariance, PTL
<1>3. QED BY <1>1, <1>2, PageInvariance, PTL

(***************************************************************************)
(* The keys of a page belong to one action each.                            *)
(***************************************************************************)
MintedKeys == {Uuids[i] : i \in 1..minted}

EventOwned(own, e) ==
    \/ e.key \in FormKeys
    \/ \E a \in Actions \ {"pay"} :
         /\ e.type = FirstStep[a] /\ e.agg = Order /\ e.amount = 0 /\ e.party = None
         /\ e.key \in MintedKeys /\ own[e.key] = a
    \/ /\ e.type \in DOMAIN Suffix /\ e.agg = Order
       /\ e.amount = IF e.type \in {"PaymentConfirmed", "FeeCalculated"}
                     THEN orders[Order].amount ELSE 0
       /\ \E k \in MintedKeys \cap PayKeys :
            /\ e.key = Append(k, Suffix[e.type]) /\ own[k] = "pay"
            /\ e.party = IF e.type = "PaymentConfirmed" THEN k ELSE None

OwnedBy(own) ==
    /\ \A t \in Tabs, a \in Actions : saved[t][a] # None =>
         saved[t][a] \in MintedKeys /\ own[saved[t][a]] = a
    /\ \A w \in Workers : pc[w] # "idle" =>
         /\ call[w].op = "create" => call[w].key \in FormKeys
         /\ call[w].op \in Actions => call[w].key \in MintedKeys /\ own[call[w].key] = call[w].op
    /\ \A e \in events : EventOwned(own, e)

NoConflicts ==
    \A w \in Workers :
        pc[w] = "idle" \/ call[w].op \in Actions => outcome[w] # "IDEMPOTENCY_CONFLICT"

KeysOwned ==
    /\ pendingKey \in [Forms -> FormKeys \cup {None}] /\ drawn \in Nat
    /\ minted \in 0..Len(Uuids)
    /\ \E own \in [Keys -> Actions] : OwnedBy(own)
    /\ NoConflicts


LEMMA KeysApart ==
    ASSUME minted \in 0..Len(Uuids)
    PROVE  /\ MintedKeys \subseteq Keys
           /\ \A k \in MintedKeys : /\ k \notin FormKeys
                                    /\ \A s \in DOMAIN Suffix :
                                         Append(k, Suffix[s]) \notin MintedKeys \cup FormKeys
           /\ minted < Len(Uuids) =>
                Uuids[minted + 1] \in Keys /\ Uuids[minted + 1] \notin MintedKeys
<1>1. DOMAIN Uuids = 1..Len(Uuids) /\ Len(Uuids) \in Nat
      /\ \A i \in 1..Len(Uuids) : Uuids[i] \in Keys
    BY OrderPageAssumption
<1>2. 1..minted \subseteq DOMAIN Uuids
    BY <1>1
<1>3. \A k \in MintedKeys : /\ k \in Keys /\ k \notin FormKeys
                            /\ \A s \in DOMAIN Suffix :
                                 Append(k, Suffix[s]) \notin MintedKeys \cup FormKeys
    BY <1>1, <1>2, BrowserAssumption DEF MintedKeys, FormKeys
<1>4. ASSUME minted < Len(Uuids) PROVE Uuids[minted + 1] \in Keys /\ Uuids[minted + 1] \notin MintedKeys
    <2>1. minted + 1 \in DOMAIN Uuids /\ minted + 1 \notin 1..minted
        BY <1>1, <1>4
    <2>2. QED BY <1>1, <1>2, <2>1, BrowserAssumption DEF MintedKeys
<1>5. QED BY <1>3, <1>4

\* What is stored under the key of a button was stored for that button.
LEMMA SameButton ==
    ASSUME ServiceOK, PageInv, minted \in 0..Len(Uuids), NEW own, OwnedBy(own), NEW w \in Workers,
           pc[w] \in {"lookup", "recheck"}, call[w].op \in Actions,
           NEW e \in events, e.key = EventKey(w)
    PROVE  SameIntent(e, w)
<1>1. /\ CallOK(w) /\ CallFrom(w) /\ FilledOK(w) /\ StepOK(w)
      /\ call[w].order = Order /\ Order # AnyOrder /\ EventOwned(own, e)
      /\ call[w].key \in MintedKeys /\ own[call[w].key] = call[w].op
    BY OrderServiceAssumption, OrderPageAssumption
       DEF ServiceOK, IInv, SagaInv, WorkerOK, PageInv, PaymentsFrom, CallFrom, OwnedBy, Actions
<1>2. CASE call[w].op = "pay"
    <2>1. /\ call[w].key \in PayKeys /\ step[w] \in DOMAIN Suffix
          /\ EventKey(w) = Append(call[w].key, Suffix[step[w]])
        BY <1>2, PaymentInFlight DEF EventKey
    <2>2. e.key \notin FormKeys /\ e.key \notin MintedKeys
        BY <1>1, <2>1, KeysApart
    <2>3. PICK k \in MintedKeys \cap PayKeys :
             /\ e.type \in DOMAIN Suffix /\ e.agg = Order
             /\ e.amount = IF e.type \in {"PaymentConfirmed", "FeeCalculated"}
                           THEN orders[Order].amount ELSE 0
             /\ e.key = Append(k, Suffix[e.type])
             /\ e.party = IF e.type = "PaymentConfirmed" THEN k ELSE None
        BY <1>1, <2>2 DEF EventOwned
    <2>4. k = call[w].key /\ e.type = step[w]
        BY <2>1, <2>3, SuffixDiffer
    <2>5. call[w].amount = orders[Order].amount
        BY <1>1, <1>2 DEF FilledOK, Filled
    <2>6. QED BY <1>1, <1>2, <2>1, <2>3, <2>4, <2>5 DEF SameIntent, PayloadAmount, PayloadParty, Suffix
<1>3. CASE call[w].op # "pay"
    <2>1. EventKey(w) = call[w].key /\ step[w] = FirstStep[call[w].op]
        BY <1>1, <1>3 DEF EventKey, CallOK
    <2>2. /\ e.key \notin FormKeys
          /\ \A k \in MintedKeys, s \in DOMAIN Suffix : e.key # Append(k, Suffix[s])
        BY <1>1, <2>1, KeysApart
    <2>3. PICK a \in Actions \ {"pay"} :
             /\ e.type = FirstStep[a] /\ e.agg = Order /\ e.amount = 0 /\ e.party = None
             /\ own[e.key] = a
        BY <1>1, <2>2 DEF EventOwned
    <2>4. a = call[w].op /\ e.type = step[w]
        BY <1>1, <2>1, <2>3
    <2>5. step[w] \in {"OrderShipped", "OrderDelivered", "OrderRefunded"}
        BY <2>3, <2>4 DEF Actions, FirstStep
    <2>6. QED BY <1>1, <2>3, <2>4, <2>5 DEF SameIntent, PayloadAmount, PayloadParty
<1>4. QED BY <1>2, <1>3

\* Keys are only added, and keep their owners.
KeysGrow(own, new) == /\ MintedKeys \subseteq MintedKeys'
                      /\ \A k \in MintedKeys : new[k] = own[k]

\* Tabs drop keys, or save keys of the action.
SavedStep(new) ==
    \A t \in Tabs, a \in Actions :
        \/ saved'[t][a] \in {saved[t][a], None}
        \/ saved'[t][a] \in MintedKeys' /\ new[saved'[t][a]] = a

\* The call of a form or of a button.
Pressed(c, new) ==
    /\ c.op = "create" => c.key \in FormKeys
    /\ c.op \in Actions => c.key \in MintedKeys' /\ new[c.key] = c.op

LEMMA EventOwnedKept ==
    ASSUME ServiceOK, Grows, NEW own, NEW new, KeysGrow(own, new), NEW e \in events, EventOwned(own, e)
    PROVE  EventOwned(new, e)'
<1>1. e.agg = Order => orders'[Order].amount = orders[Order].amount
    BY EventRowExists, OrderPageAssumption DEF ServiceOK, Grows
<1>2. QED BY <1>1 DEF EventOwned, KeysGrow, Actions

LEMMA OwnersKept ==
    ASSUME ServiceOK, Grows, NEW own, NEW new, OwnedBy(own), KeysGrow(own, new), SavedStep(new),
           \A u \in Workers : SameCall(u) \/ Pressed(call'[u], new),
           \A e \in events' : e \in events \/ EventOwned(new, e)'
    PROVE  OwnedBy(new)'
<1>1. ASSUME NEW t \in Tabs, NEW a \in Actions, saved'[t][a] # None
      PROVE  saved'[t][a] \in MintedKeys' /\ new[saved'[t][a]] = a
    BY <1>1 DEF OwnedBy, SavedStep, KeysGrow
<1>2. ASSUME NEW u \in Workers, pc'[u] # "idle"
      PROVE  /\ call'[u].op = "create" => call'[u].key \in FormKeys
             /\ call'[u].op \in Actions =>
                  call'[u].key \in MintedKeys' /\ new[call'[u].key] = call'[u].op
    <2>1. CASE SameCall(u)
        BY <1>2, <2>1 DEF SameCall, OwnedBy, KeysGrow
    <2>2. CASE Pressed(call'[u], new)
        BY <2>2 DEF Pressed
    <2>3. QED BY <2>1, <2>2
<1>3. \A e \in events : EventOwned(own, e)
    BY DEF OwnedBy
<1>4. \A e \in events' : EventOwned(new, e)'
    BY <1>3, EventOwnedKept
<1>5. QED BY <1>1, <1>2, <1>4 DEF OwnedBy

\* What a worker stores belongs to the button, or the form, of its call.
LEMMA StoredOwned ==
    ASSUME ServiceOK, Grows, PageInv, NEW own, OwnedBy(own), NEW w \in Workers,
           NEW e \in events', StoredFor(e, w), MintedKeys' = MintedKeys
    PROVE  EventOwned(own, e)'
<1>1. /\ CallOK(w) /\ CallFrom(w) /\ FilledOK(w) /\ pc[w] = "commit"
      /\ Order \in Orders /\ AnyOrder \notin Orders
    BY OrderServiceAssumption, OrderPageAssumption
       DEF ServiceOK, IInv, SagaInv, WorkerOK, PageInv, PaymentsFrom, StoredFor
<1>2. CASE call[w].op = "create"
    BY <1>1, <1>2 DEF OwnedBy, StoredFor, EventKey, EventOwned
<1>3. CASE call[w].op # "create"
    <2>1. /\ call[w].op \in Actions /\ call[w].order = Order /\ e.agg = Order
          /\ call[w].key \in MintedKeys /\ own[call[w].key] = call[w].op
        BY <1>1, <1>3 DEF CallFrom, OwnedBy, StoredFor
    <2>2. CASE call[w].op = "pay"
        <3>1. call[w].key \in PayKeys /\ step[w] \in DOMAIN Suffix
            BY <1>1, <2>2, PaymentInFlight
        <3>2. call[w].amount = orders'[Order].amount
            BY <1>1, <2>1, <2>2 DEF FilledOK, Filled, Grows
        <3>3. e.amount = IF e.type \in {"PaymentConfirmed", "FeeCalculated"}
                         THEN orders'[Order].amount ELSE 0
            BY <3>1, <3>2 DEF StoredFor, PayloadAmount, Suffix
        <3>4. e.party = IF e.type = "PaymentConfirmed" THEN call[w].key ELSE None
            BY <2>2, <3>1 DEF StoredFor, PayloadParty, Suffix
        <3>5. e.type \in DOMAIN Suffix /\ e.key = Append(call[w].key, Suffix[e.type])
            BY <2>2, <3>1 DEF StoredFor, EventKey
        <3>6. PICK k \in MintedKeys \cap PayKeys : k = call[w].key
            BY <2>1, <3>1
        <3>7. QED BY <2>1, <2>2, <3>3, <3>4, <3>5, <3>6 DEF EventOwned
    <2>3. CASE call[w].op # "pay"
        <3>1. PICK a \in Actions \ {"pay"} : a = call[w].op
            BY <2>1, <2>3
        <3>2. step[w] = FirstStep[a]
            BY <1>1, <2>3, <3>1 DEF CallOK
        <3>3. step[w] \in {"OrderShipped", "OrderDelivered", "OrderRefunded"}
            BY <3>1, <3>2 DEF Actions, FirstStep
        <3>4. e.amount = 0 /\ e.party = None /\ e.type = FirstStep[a] /\ e.key = call[w].key
            BY <2>3, <3>2, <3>3 DEF StoredFor, PayloadAmount, PayloadParty, EventKey
        <3>5. QED BY <2>1, <3>1, <3>4 DEF EventOwned
    <2>4. QED BY <2>2, <2>3
<1>4. QED BY <1>2, <1>3

\* A worker that serves a button reports no conflict.
LEMMA NoConflictReported ==
    ASSUME ServiceOK, PageInv, minted \in 0..Len(Uuids), NEW own, OwnedBy(own), NoConflicts,
           NEW w \in Workers, WorkerStep(w), pc'[w] = "idle" \/ call'[w].op \in Actions
    PROVE  outcome'[w] # "IDEMPOTENCY_CONFLICT"
<1>1. OrderTypeOK /\ WorkerNext(w)
    BY DEF ServiceOK, IInv, TypeOK, WorkerStep
<1>2. CASE Start(w)
    BY <1>1, <1>2 DEF Start, Reply, OrderTypeOK, NoConflicts
<1>3. CASE Finish(w) \/ Crash(w)
    BY <1>1, <1>3 DEF Finish, Crash, Reset, OrderTypeOK
<1>4. ASSUME ~Start(w), ~(Finish(w) \/ Crash(w)) PROVE outcome'[w] # "IDEMPOTENCY_CONFLICT"
    <2>1. pc'[w] # "idle"
        BY <1>1, <1>4
           DEF WorkerNext, Progress, FindOrder, Lookup, Recheck, ReplayOr, Continue, ReadOrder,
               Throw, ReadLatest, InsertEvent, UpdateOrder, Commit, Charge, Failure,
               CommitAckLost, Abort, QueryFails, Reply, Goto, OrderTypeOK
    <2>2. call[w].op \in Actions /\ outcome[w] # "IDEMPOTENCY_CONFLICT"
        BY <1>4, <2>1, CallsKept DEF SameCall, NoConflicts, ServiceOK
    <2>3. CASE Lookup(w) \/ Recheck(w)
        <3>1. pc[w] \in {"lookup", "recheck"}
            BY <2>3 DEF Lookup, Recheck
        <3>2. \A e \in StoredUnder(EventKey(w)) : SameIntent(e, w)
            BY <2>2, <3>1, SameButton DEF StoredUnder
        <3>3. QED BY <1>1, <2>2, <2>3, <3>2
                 DEF Lookup, Recheck, ReplayOr, Continue, Reply, OrderTypeOK
    <2>4. CASE ~(Lookup(w) \/ Recheck(w))
        <3>1. \A o : Rejection(w, orders[o]) # "IDEMPOTENCY_CONFLICT"
            BY DEF Rejection
        <3>2. QED BY <1>1, <1>4, <2>2, <2>4, <3>1
                 DEF WorkerNext, Progress, FindOrder, Continue, ReadOrder, Throw, ReadLatest,
                     InsertEvent, UpdateOrder, Commit, Charge, Failure, CommitAckLost, Abort,
                     QueryFails, Reply, OrderTypeOK
    <2>5. QED BY <2>3, <2>4
<1>5. QED BY <1>2, <1>3, <1>4

LEMMA NoConflictsKept ==
    ASSUME ServiceOK, PageInv, minted \in 0..Len(Uuids), NEW own, OwnedBy(own), NoConflicts,
           NEW w \in Workers, WorkerStep(w)
    PROVE  NoConflicts'
<1>1. OnlyWorker(w) /\ \A u \in Workers \ {w} : outcome'[u] = outcome[u]
    BY OthersStay DEF ServiceOK
<1>2. ASSUME NEW u \in Workers, pc'[u] = "idle" \/ call'[u].op \in Actions
      PROVE  outcome'[u] # "IDEMPOTENCY_CONFLICT"
    <2>1. CASE u = w
        BY <1>2, <2>1, NoConflictReported
    <2>2. CASE u # w
        BY <1>1, <1>2, <2>2 DEF OnlyWorker, NoConflicts
    <2>3. QED BY <2>1, <2>2
<1>3. QED BY <1>2 DEF NoConflicts

(***************************************************************************)
(* The steps.                                                               *)
(***************************************************************************)
FormKeysOK == pendingKey \in [Forms -> FormKeys \cup {None}] /\ drawn \in Nat

LEMMA KeysInit == BrowserInit => KeysOwned
<1> SUFFICES ASSUME BrowserInit PROVE KeysOwned
    OBVIOUS
<1>1. Len(Uuids) \in Nat
    BY OrderPageAssumption
<1>2. [k \in Keys |-> "pay"] \in [Keys -> Actions]
    BY DEF Actions
<1>3. OwnedBy([k \in Keys |-> "pay"])
    BY DEF BrowserInit, Init, DbInit, OrderInit, PageInit, OwnedBy
<1>4. QED BY <1>1, <1>2, <1>3
          DEF BrowserInit, Init, OrderInit, FormInit, PageInit, KeysOwned, NoConflicts

\* A service that takes a step, or none, while no key is drawn for a button.
LEMMA KeysServed ==
    ASSUME ServiceOK, PageInv, KeysOwned, FormKeysOK', minted' = minted,
           \A t \in Tabs, a \in Actions : saved'[t][a] \in {saved[t][a], None},
           \/ UNCHANGED vars
           \/ \E w \in Workers : WorkerStep(w) /\ ~Start(w)
    PROVE  KeysOwned'
<1>1. PICK own \in [Keys -> Actions] : OwnedBy(own)
    BY DEF KeysOwned
<1>2. /\ [Next]_vars /\ minted \in 0..Len(Uuids) /\ MintedKeys' = MintedKeys /\ NoConflicts
      /\ KeysGrow(own, own) /\ SavedStep(own)
    BY DEF Next, KeysOwned, MintedKeys, KeysGrow, SavedStep
<1>3. Grows
    BY <1>2, StepGrows DEF ServiceOK
<1>4. /\ NoConflicts'
      /\ \A u \in Workers : SameCall(u)
      /\ \A e \in events' : e \in events \/ EventOwned(own, e)'
    <2>1. CASE UNCHANGED vars
        BY <1>2, <2>1 DEF vars, dbVars, orderVars, workVars, NoConflicts, SameCall
    <2>2. ASSUME NEW w \in Workers, WorkerStep(w), ~Start(w)
          PROVE  /\ NoConflicts'
                 /\ \A u \in Workers : SameCall(u)
                 /\ \A e \in events' : e \in events \/ EventOwned(own, e)'
        <3>1. NoConflicts'
            BY <1>1, <1>2, <2>2, NoConflictsKept
        <3>2. \A u \in Workers : SameCall(u)
            BY <2>2, CallsKept DEF ServiceOK
        <3>3. \A e \in events' : e \in events \/ StoredFor(e, w)
            BY <2>2, NewEvents DEF ServiceOK
        <3>4. QED BY <1>1, <1>2, <1>3, <3>1, <3>2, <3>3, StoredOwned
    <2>3. QED BY <2>1, <2>2
<1>5. OwnedBy(own)'
    BY <1>1, <1>2, <1>3, <1>4, OwnersKept
<1>6. QED BY <1>1, <1>2, <1>4, <1>5 DEF KeysOwned, FormKeysOK

\* A call that arrives, with the owner of its key.
LEMMA KeysRequested ==
    ASSUME ServiceOK, PageInv, KeysOwned, FormKeysOK', minted' \in 0..Len(Uuids),
           NEW client, NEW c, Request(client, c),
           NEW own, OwnedBy(own), NEW new \in [Keys -> Actions],
           KeysGrow(own, new), SavedStep(new), Pressed(c, new)
    PROVE  KeysOwned'
<1>1. PICK w \in Workers : Start(w) /\ call'[w] = c /\ UNCHANGED settleVars /\ IInv
    BY DEF Request, ServiceOK
<1>2. WorkerStep(w) /\ Grows /\ minted \in 0..Len(Uuids) /\ NoConflicts
    BY <1>1, StepGrows DEF WorkerStep, WorkerNext, Next, ServiceOK, KeysOwned
<1>3. /\ events' = events
      /\ \A u \in Workers : SameCall(u) \/ (u = w /\ call'[u] = c)
    BY <1>1, Requested
<1>4. OwnedBy(new)'
    <2>1. \A u \in Workers : SameCall(u) \/ Pressed(call'[u], new)
        BY <1>3
    <2>2. QED BY <1>2, <1>3, <2>1, OwnersKept
<1>5. NoConflicts'
    BY <1>2, NoConflictsKept
<1>6. QED BY <1>4, <1>5 DEF KeysOwned, FormKeysOK

LEMMA KeysByForm ==
    ASSUME ServiceOK, PageInv, KeysOwned, NEW t \in Forms, FormNext(t), UNCHANGED pageVars
    PROVE  KeysOwned'
<1>1. /\ FormKeysOK /\ minted' = minted /\ minted \in 0..Len(Uuids)
      /\ \A u \in Tabs, a \in Actions : saved'[u][a] = saved[u][a]
    BY DEF KeysOwned, FormKeysOK, pageVars
<1>2. CASE Submit(t)
    <2>1. FormKeysOK' /\ pendingKey'[t] \in FormKeys
        <3>1. CASE pendingKey[t] # None /\ UNCHANGED <<pendingKey, drawn>>
            BY <1>1, <3>1 DEF FormKeysOK
        <3>2. CASE /\ pendingKey[t] = None /\ drawn < Len(FormUuids) /\ drawn' = drawn + 1
                   /\ pendingKey' = [pendingKey EXCEPT ![t] = FormUuids[drawn + 1]]
            <4>1. drawn + 1 \in DOMAIN FormUuids
                BY <1>1, <3>2, FormAssumption DEF FormKeysOK
            <4>2. FormUuids[drawn + 1] \in FormKeys
                BY <4>1 DEF FormKeys
            <4>3. QED BY <1>1, <3>2, <4>2 DEF FormKeysOK
        <3>3. QED BY <1>2, <3>1, <3>2 DEF Submit
    <2>2. PICK e \in Entries :
            Request(t, [op |-> "create", order |-> AnyOrder, key |-> pendingKey'[t],
                        amount |-> e.amount, party |-> e.customer])
        BY <1>2 DEF Submit
    <2> DEFINE c == [op |-> "create", order |-> AnyOrder, key |-> pendingKey'[t],
                     amount |-> e.amount, party |-> e.customer]
    <2>3. PICK own \in [Keys -> Actions] : OwnedBy(own)
        BY DEF KeysOwned
    <2>4. Pressed(c, own) /\ Request(t, c)
        BY <2>1, <2>2 DEF Pressed, Actions
    <2> HIDE DEF c
    <2>5. KeysGrow(own, own) /\ SavedStep(own)
        BY <1>1 DEF KeysGrow, SavedStep, MintedKeys
    <2>6. QED BY <1>1, <2>1, <2>3, <2>4, <2>5, KeysRequested
<1>3. CASE SubmitAnswered(t)
    <2>1. PICK code \in Errors \cup {"OK"}, w \in Workers :
             /\ Finish(w) /\ UNCHANGED settleVars
             /\ pendingKey' = [pendingKey EXCEPT ![t] = KeyAfter(t, code)] /\ drawn' = drawn
        BY <1>3 DEF SubmitAnswered, Answer
    <2>2. FormKeysOK'
        BY <1>1, <2>1 DEF FormKeysOK, KeyAfter
    <2>3. WorkerStep(w) /\ ~Start(w)
        BY <2>1, ServedStep
    <2>4. QED BY <1>1, <2>2, <2>3, KeysServed
<1>4. CASE SubmitNotAnswered(t) \/ ReloadForm(t)
    <2>1. /\ UNCHANGED vars /\ drawn' = drawn
          /\ \/ pendingKey' = [pendingKey EXCEPT ![t] = KeyAfter(t, "NETWORK_ERROR")]
             \/ pendingKey' = [pendingKey EXCEPT ![t] = None]
        BY <1>4 DEF SubmitNotAnswered, ReloadForm, WorkerDied, ConnectionBroke, Reloaded, Abandon
    <2>2. FormKeysOK'
        BY <1>1, <2>1 DEF FormKeysOK, KeyAfter
    <2>3. QED BY <1>1, <2>1, <2>2, KeysServed
<1>5. QED BY <1>2, <1>3, <1>4 DEF FormNext

LEMMA KeysByService ==
    ASSUME ServiceOK, PageInv, KeysOwned, NEW w \in Workers, ServiceNext(w)
    PROVE  KeysOwned'
<1>1. WorkerStep(w) /\ ~Start(w) /\ UNCHANGED <<formVars, pageVars>>
    BY ServedStep DEF ServiceNext
<1>2. FormKeysOK' /\ minted' = minted /\ saved' = saved
    BY <1>1 DEF KeysOwned, FormKeysOK, formVars, pageVars
<1>3. QED BY <1>1, <1>2, KeysServed

LEMMA KeysByClick ==
    ASSUME ServiceOK, PageInv, KeysOwned, NEW t \in Tabs, NEW a \in Actions, Click(t, a),
           UNCHANGED formVars
    PROVE  KeysOwned'
<1>1. /\ SavedOK /\ FormKeysOK' /\ minted \in 0..Len(Uuids) /\ Len(Uuids) \in Nat
    BY PageParts, OrderPageAssumption DEF KeysOwned, FormKeysOK, formVars
<1>2. PICK own \in [Keys -> Actions] : OwnedBy(own)
    BY DEF KeysOwned
<1>3. PICK key \in Keys :
         /\ Request(t, [op |-> a, order |-> Order, key |-> key, amount |-> 0, party |-> None])
         /\ saved'[t][a] = key
         /\ \/ UNCHANGED <<saved, minted>> /\ saved[t][a] = key
            \/ /\ saved[t][a] = None /\ minted < Len(Uuids)
               /\ key = Uuids[minted + 1] /\ minted' = minted + 1
               /\ saved' = [saved EXCEPT ![t] = [@ EXCEPT ![a] = key]]
    BY <1>1, ClickSends
<1> DEFINE c == [op |-> a, order |-> Order, key |-> key, amount |-> 0, party |-> None]
<1>4. c.op = a /\ c.key = key /\ Request(t, c) /\ a # "create"
    BY <1>3 DEF Actions
<1> HIDE DEF c
<1>5. CASE UNCHANGED <<saved, minted>> /\ saved[t][a] = key
    <2>1. key \in MintedKeys /\ own[key] = a
        BY <1>1, <1>2, <1>5, FormAssumption DEF OwnedBy
    <2>2. KeysGrow(own, own) /\ SavedStep(own) /\ Pressed(c, own) /\ minted' \in 0..Len(Uuids)
        BY <1>1, <1>4, <1>5, <2>1 DEF KeysGrow, SavedStep, Pressed, MintedKeys
    <2>3. QED BY <1>1, <1>2, <1>4, <2>2, KeysRequested
<1>6. CASE /\ saved[t][a] = None /\ minted < Len(Uuids)
           /\ key = Uuids[minted + 1] /\ minted' = minted + 1
           /\ saved' = [saved EXCEPT ![t] = [@ EXCEPT ![a] = key]]
    <2>1. PICK new \in [Keys -> Actions] : new = [own EXCEPT ![key] = a]
        BY <1>2
    <2>2. key \notin MintedKeys /\ MintedKeys \subseteq Keys
        BY <1>1, <1>6, KeysApart
    <2>3. MintedKeys' = MintedKeys \cup {key} /\ minted' \in 0..Len(Uuids)
        <3>1. 1..(minted + 1) = 1..minted \cup {minted + 1} /\ minted + 1 \in 0..Len(Uuids)
            BY <1>1, <1>6
        <3>2. QED BY <1>6, <3>1 DEF MintedKeys
    <2>4. new[key] = a /\ \A k \in MintedKeys : new[k] = own[k]
        BY <1>2, <2>1, <2>2
    <2>5. \A u \in Tabs, b \in Actions : saved'[u][b] = saved[u][b] \/ (b = a /\ saved'[u][b] = key)
        BY <1>1, <1>6 DEF SavedOK
    <2>6. KeysGrow(own, new) /\ SavedStep(new) /\ Pressed(c, new)
        BY <1>4, <2>3, <2>4, <2>5 DEF KeysGrow, SavedStep, Pressed
    <2>7. QED BY <1>1, <1>2, <1>4, <2>3, <2>6, KeysRequested
<1>7. QED BY <1>3, <1>5, <1>6

LEMMA KeysByTab ==
    ASSUME ServiceOK, PageInv, KeysOwned, NEW t \in Tabs, UNCHANGED formVars,
           PollOrder(t) \/ Answered(t) \/ NotAnswered(t) \/ Reload(t)
    PROVE  KeysOwned'
<1>1. SavedOK /\ FormKeysOK'
    BY PageParts DEF KeysOwned, FormKeysOK, formVars
<1>2. CASE Answered(t)
    <2>1. PICK w \in Workers : Finish(w) /\ UNCHANGED settleVars
        BY <1>2 DEF Answered, Answer
    <2>2. WorkerStep(w) /\ ~Start(w)
        BY <2>1, ServedStep
    <2>3. minted' = minted /\ (saved' = saved \/ saved' = Saved(t, busy[t], None))
        BY <1>2 DEF Answered
    <2>4. \A u \in Tabs, a \in Actions : saved'[u][a] \in {saved[u][a], None}
        BY <1>1, <2>3 DEF SavedOK, Saved, Scope
    <2>5. QED BY <1>1, <2>2, <2>3, <2>4, KeysServed
<1>3. CASE PollOrder(t) \/ NotAnswered(t) \/ Reload(t)
    <2>1. UNCHANGED <<vars, saved, minted>>
        BY <1>3 DEF PollOrder, NotAnswered, WorkerDied, ConnectionBroke, AfterNetworkError, Reload,
                    Reloaded, Abandon
    <2>2. QED BY <1>1, <2>1, KeysServed
<1>4. QED BY <1>2, <1>3

LEMMA KeysNext == ServiceOK /\ PageInv /\ KeysOwned /\ [BrowserNext]_browserVars => KeysOwned'
<1> SUFFICES ASSUME ServiceOK, PageInv, KeysOwned, [BrowserNext]_browserVars PROVE KeysOwned'
    OBVIOUS
<1>1. CASE UNCHANGED browserVars
    <2>1. UNCHANGED <<vars, saved, minted, pendingKey, drawn>>
        BY <1>1 DEF browserVars, formVars, pageVars
    <2>2. QED BY <2>1, KeysServed DEF KeysOwned, FormKeysOK
<1>2. ASSUME NEW t \in Tabs, TabNext(t), UNCHANGED formVars PROVE KeysOwned'
    BY <1>2, KeysByClick, KeysByTab DEF TabNext
<1>3. QED BY <1>1, <1>2, KeysByForm, KeysByService DEF BrowserNext

LEMMA KeysInvariance == BrowserSpec => []KeysOwned
<1>1. BrowserSpec => []ServiceOK
    BY BrowserServes, ServiceInvariance, PTL
<1>2. QED BY <1>1, PageInvariance, KeysInit, KeysNext, PTL DEF BrowserSpec

\* A key of a button belongs to that button: nobody who retries is told that it
\* was used for something else, as long as randomUUID() returns no key twice
\* (the scope of a key in OrderActions.tsx; assertSameIntent).
THEOREM UsersMeetNoConflict == BrowserSpec => []UserMeetsNoConflict
<1>1. KeysOwned => UserMeetsNoConflict
    BY DEF KeysOwned, NoConflicts, UserMeetsNoConflict
<1>2. QED BY <1>1, KeysInvariance, PTL
=============================================================================
