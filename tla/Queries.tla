------------------------------- MODULE Queries -------------------------------
(***************************************************************************)
(* The read side (backend/src/services/queries.ts, verifyLedgerBalance) as   *)
(* the pages of the dashboard poll it while the service commits: an answer   *)
(* is put together from several statements, no transaction holds them.       *)
(***************************************************************************)
EXTENDS SellerLedger

CONSTANTS Readers,      \* pages that poll
          Pages,        \* the pages opened in this instance
          CreatedAt,    \* the order of (created_at, id) among the orders
          PageSize      \* the limit of one page of the order list

\* No order has null for its id, which is the cursor of the first page.
ASSUME QueriesAssumption ==
    /\ None \notin Orders
    /\ Pages \subseteq {"detail", "ledger", "summary", "list"}
    /\ CreatedAt \in [Orders -> Nat]
    /\ \A o, p \in Orders : CreatedAt[o] = CreatedAt[p] => o = p
    /\ PageSize \in 1..100

VARIABLES page,     \* the page a reader polls, "none" between two polls
          about,    \* the order it is about
          parts,    \* what its statements have read so far, by name
          listed    \* of a walk through the list: what there was when it began,
                    \* what it has shown, and the cursor of its next page

readVars == <<page, about, parts, listed>>

NoWalk == [present |-> {}, shown |-> <<>>, cursor |-> None, over |-> FALSE]

\* The statements of the summary run in parallel.
Parallel == [part \in {"byStatus", "paid", "unsettled", "settled", "latest"} |-> {}]

\* Mutant: the history is read before the order.
NeedsOrderLast ==
    [detail  |-> [order |-> {"events"}, events |-> {}],
     ledger  |-> [order |-> {"entries"}, entries |-> {}, verified |-> {"entries"},
                  totals |-> {"verified"}],
     summary |-> Parallel]

\* The statements of each page, and for each the ones awaited before it.
\* verifyLedgerBalance, the second half of a ledger page, reads the order anew.
Needs ==
    [detail  |-> [order |-> {}, events |-> {"order"}],
     ledger  |-> [order |-> {}, entries |-> {"order"}, verified |-> {"entries"},
                  totals |-> {"verified"}],
     summary |-> Parallel]

PayoutAmount(o) == orders[o].amount - orders[o].fee
PayoutSum(S) == MapThenSumSet(PayoutAmount, {o \in S : orders[o].fee # NoFee})

\* Mutant: the settled payouts are summed without their WHERE.
AnyRow(o) == TRUE

\* The WHERE of the settled payouts: any status.
SettledRow(o) == orders[o].settlement # NoDay

SettledDays == {d \in Days : settlements[d].exists}

\* What each statement answers when it runs.  verifyLedgerBalance reduces the
\* entries to their balance; "paid" has the gross and the fees.
Statement(part, o) ==
    CASE part \in {"order", "verified"} -> orders[o]
      [] part = "events"    -> EventsOf(o)
      [] part = "entries"   -> ledger[o]
      [] part = "totals"    -> Balance(ledger[o])
      [] part = "byStatus"  -> [s \in Statuses \ {"NONE"} |->
                                  Cardinality({x \in Orders : orders[x].status = s})]
      [] part = "paid"      -> <<MapThenSumSet(LAMBDA x : orders[x].amount, {x \in Orders : PaidLike(x)}),
                                 MapThenSumSet(FeeTaken, {x \in Orders : PaidLike(x)})>>
      [] part = "unsettled" -> PayoutSum({x \in Orders : PaidLike(x) /\ orders[x].settlement = NoDay})
      [] part = "settled"   -> PayoutSum({x \in Orders : SettledRow(x)})
      [] part = "latest"    -> IF SettledDays = {} THEN NoDay ELSE Max(SettledDays)

Existing == {o \in Orders : orders[o].status # "NONE"}

\* A page polls.  An order that does not exist is answered with NOT_FOUND.
Poll(r) ==
    /\ page[r] = "none"
    /\ \E p \in Pages, o \in Existing :
         /\ page' = [page EXCEPT ![r] = p]
         /\ about' = [about EXCEPT ![r] = o]
    /\ listed' = [listed EXCEPT ![r] = [NoWalk EXCEPT !.present = Existing]]
    /\ UNCHANGED parts

RunStatement(r) ==
    /\ page[r] \in DOMAIN Needs
    /\ \E part \in DOMAIN Needs[page[r]] \ DOMAIN parts[r] :
         /\ Needs[page[r]][part] \subseteq DOMAIN parts[r]
         /\ parts' = [parts EXCEPT ![r] =
                        [p \in DOMAIN @ \cup {part} |->
                           IF p = part THEN Statement(part, about[r]) ELSE @[p]]]
    /\ UNCHANGED <<page, about, listed>>

\* ORDER BY created_at DESC, id DESC.
NewestFirst(S) ==
    CHOOSE rows \in [1..Cardinality(S) -> S] :
        \A i, j \in DOMAIN rows : i < j => CreatedAt[rows[i]] > CreatedAt[rows[j]]

\* Mutant: the next page is found by the number of rows shown so far.
FromOffset(walk) ==
    LET rows == NewestFirst(Existing) IN SubSeq(rows, Len(walk.shown) + 1, Len(rows))

\* The rows from the cursor on, newest first, without the cursor's own.
FromCursor(walk) ==
    NewestFirst({o \in Existing : walk.cursor = None \/ CreatedAt[o] < CreatedAt[walk.cursor]})

\* listOrders: one row more than the page holds tells whether there is another.
ListNextPage(r) ==
    /\ page[r] = "list" /\ ~listed[r].over
    /\ LET walk    == listed[r]
           rows    == FromCursor(walk)
           hasMore == Len(rows) > PageSize
           taken   == SubSeq(rows, 1, IF hasMore THEN PageSize ELSE Len(rows))
       IN  listed' = [listed EXCEPT ![r] =
                        [walk EXCEPT !.shown = @ \o taken, !.over = ~hasMore,
                                     !.cursor = IF hasMore THEN taken[Len(taken)] ELSE None]]
    /\ UNCHANGED <<page, about, parts>>

\* The page has its answer, or one of its requests fails.
Shown(r) ==
    /\ page[r] # "none"
    /\ page' = [page EXCEPT ![r] = "none"]
    /\ about' = [about EXCEPT ![r] = None]
    /\ parts' = [parts EXCEPT ![r] = <<>>]
    /\ listed' = [listed EXCEPT ![r] = NoWalk]

ReaderNext(r) == Poll(r) \/ RunStatement(r) \/ ListNextPage(r) \/ Shown(r)

QInit ==
    /\ Init
    /\ page = [r \in Readers |-> "none"]
    /\ about = [r \in Readers |-> None]
    /\ parts = [r \in Readers |-> <<>>]
    /\ listed = [r \in Readers |-> NoWalk]

QNext ==
    \/ \E r \in Readers : ReaderNext(r) /\ UNCHANGED vars
    \/ Next /\ UNCHANGED readVars

QSpec == QInit /\ [][QNext]_<<vars, readVars>>

(***************************************************************************)
(* Properties.                                                              *)
(***************************************************************************)
Has(r, p) == page[r] = p /\ DOMAIN parts[r] = DOMAIN Needs[p]

\* An order page never shows a status without the event that explains it: the
\* history may be ahead of the row, never behind (getOrderWithEvents).
HistoryExplainsStatus ==
    \A r \in Readers : Has(r, "detail") =>
        \E e \in parts[r]["events"] :
            e.version = parts[r]["order"].version /\ NextStatus[e.type] = parts[r]["order"].status

\* A ledger page that shows an order as settled or refunded shows the postings
\* that did it, and its totals are balanced whatever is committed in between
\* (getOrderLedger, then verifyLedgerBalance).
LedgerPageIsNotBehind ==
    \A r \in Readers : Has(r, "ledger") =>
        LET row == parts[r]["order"]
            nets == parts[r]["entries"]
        IN  /\ row.settlement # NoDay => nets["seller_payout"] = row.amount - row.fee
            /\ row.status = "REFUNDED" => nets = NoEntries
            /\ parts[r]["totals"] = 0

\* The payout the summary reports as settled has been paid out by settlements
\* (getDashboardSummary sums order rows, not settlements).
SettledPayoutIsPaidOut ==
    \A r \in Readers : Has(r, "summary") =>
        parts[r]["settled"] <= MapThenSumSet(LAMBDA d : settlements[d].payout, Days)

\* A walk through the list shows each order that existed when it began exactly
\* once, however many orders are created meanwhile (listOrders).
WalkShowsEachOrderOnce ==
    \A r \in Readers : listed[r].over =>
        \A o \in listed[r].present :
            Cardinality({i \in DOMAIN listed[r].shown : listed[r].shown[i] = o}) = 1
=============================================================================
