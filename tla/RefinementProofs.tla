-------------------------- MODULE RefinementProofs --------------------------
(***************************************************************************)
(* SellerLedger implements AtomicService, for any number of orders, workers, *)
(* settlers, keys and days.                                                 *)
(*                                                                         *)
(* The argument.  Only a commit changes a committed row, so every other step *)
(* but the calendar's is a stutter.  A commit writes what a transaction made *)
(* of rows it read earlier; the invariants say that, at the commit, those    *)
(* are the rows of that moment (CommitFacts, SettledRows), that its key was  *)
(* never spent (the gate) and what the ledger then holds (the books).  So a  *)
(* commit is one step of AtomicService on the rows as they are.             *)
(***************************************************************************)
EXTENDS SellerLedgerRefinement, BooksProofs

(***************************************************************************)
(* The inductive invariant, on top of IInv, BooksInv and SettledInv: a call  *)
(* that is no saga still is one of Calls, amount and all.                   *)
(***************************************************************************)
Asked(w) == pc[w] # "idle" /\ call[w].op # "pay" => call[w] \in Calls

AskedInv == \A w \in Workers : Asked(w)

LEMMA AskedNext == IInv /\ BooksInv /\ AskedInv /\ [Next]_vars => AskedInv'
<1> SUFFICES ASSUME IInv, BooksInv, AskedInv, [Next]_vars, NEW w \in Workers PROVE Asked(w)'
    BY DEF AskedInv
<1>1. OrderTypeOK /\ Asked(w) /\ CallOK(w)
    BY DEF IInv, TypeOK, AskedInv
<1>2. CASE UNCHANGED <<pc, call>>
    BY <1>1, <1>2 DEF Asked
<1>3. CASE WorkerStep(w)
    <2>1. CASE Start(w)
        BY <1>1, <2>1 DEF Start, OrderTypeOK, Asked
    <2>2. CASE FindOrder(w)
        <3>1. pc[w] = "find" /\ call[w].op = "pay"
            BY <1>1, <2>2 DEF FindOrder, CallOK
        <3>2. call'[w].op = "pay"
            <4>1. call' = [call EXCEPT ![w].amount = orders[call[w].order].amount,
                                       ![w].party = orders[call[w].order].customer]
                  \/ call' = call
                BY <2>2 DEF FindOrder
            <4>2. call[w] \in Call /\ w \in DOMAIN call
                BY <1>1, <3>1 DEF CallOK, OrderTypeOK
            <4>3. QED BY <3>1, <4>1, <4>2 DEF Call
        <3>3. QED BY <3>2 DEF Asked
    <2>3. CASE Finish(w) \/ Crash(w)
        BY <1>1, <2>3 DEF Finish, Crash, Reset, Goto, OrderTypeOK, Asked
    <2>4. CASE ~(Start(w) \/ FindOrder(w) \/ Finish(w) \/ Crash(w))
        <3>1. call' = call /\ pc[w] # "idle"
            BY <1>3, <2>4
               DEF WorkerStep, WorkerNext, Progress, Failure, Lookup, Recheck, ReplayOr, Continue,
                   ReadOrder, ReadLatest, InsertEvent, UpdateOrder, Throw, Commit, CommitAckLost,
                   Abort, InTransaction, QueryFails, Charge
        <3>2. QED BY <1>1, <3>1 DEF Asked
    <2>5. QED BY <2>1, <2>2, <2>3, <2>4
<1>4. ASSUME NEW u \in Workers, u # w, WorkerStep(u) PROVE Asked(w)'
    <2>1. OnlyWorker(u)
        BY <1>4, WorkerShapes DEF WorkerQuiet, Publishes
    <2>2. QED BY <1>1, <1>4, <2>1 DEF OnlyWorker, Asked
<1>5. CASE (\E s \in Settlers : SettlerStep(s)) \/ CalendarStep \/ UNCHANGED vars
    BY <1>2, <1>5 DEF SettlerStep, CalendarStep, vars, orderVars, workVars
<1>6. QED BY <1>3, <1>4, <1>5 DEF Next

(***************************************************************************)
(* The abstract state.                                                      *)
(***************************************************************************)
LEMMA SameNames ==
    /\ Abstract!NoEntries = NoEntries
    /\ Abstract!AllowedFrom = AllowedFrom
    /\ Abstract!NextStatus = NextStatus
    /\ Abstract!Unset = NoFee /\ Abstract!Never = NoDay
    /\ AccountOf(NoRow) = Abstract!Unopened
    /\ PayoutOf(NoSettlement) = Abstract!NoPayout
BY DEF Abstract!NoEntries, NoEntries, Abstract!Accounts, Accounts, Abstract!AllowedFrom, AllowedFrom,
       Abstract!NextStatus, NextStatus, AccountOf, NoRow, Abstract!Unopened, Abstract!Unset,
       Abstract!Never, NoFee, NoDay, PayoutOf, NoSettlement, Abstract!NoPayout

LEMMA RefinedInit == Init => Abstract!Init
BY SameNames DEF Init, DbInit, Abstract!Init

\* A commit of an event no stored event clashes with spends a new key.
LEMMA KeySpent ==
    ASSUME IInv, NEW t \in Tx, pending[t] # NoEvent, events' = events \cup {pending[t]}
    PROVE  Abstract!SpendKey
<1> DEFINE e == pending[t]
<1>1. e \in EventRow /\ \A f \in events : ~Clash(f, e)
    BY DEF IInv, TypeOK, DbTypeOK, GateOK
<1>2. e.key \in Keys /\ \A f \in events : f.key # e.key
    BY <1>1 DEF EventRow, Clash
<1>3. {f.key : f \in events'} = {f.key : f \in events} \cup {e.key}
    OBVIOUS
<1>4. QED BY <1>2, <1>3 DEF Abstract!SpendKey

\* What a mutation does, as its order's customer sees it.
LEMMA OneRowMoves ==
    ASSUME NEW o \in Orders, DbTypeOK, DbTypeOK',
           \A x \in Orders \ {o} : orders'[x] = orders[x] /\ ledger'[x] = ledger[x],
           UNCHANGED <<settlements, today>>,
           NEW account, account = AccountOf(orders'[o]), NEW nets, nets = ledger'[o]
    PROVE  Abstract!Effect(o, account, nets)
<1>1. [x \in Orders |-> AccountOf(orders'[x])]
        = [[x \in Orders |-> AccountOf(orders[x])] EXCEPT ![o] = account]
    OBVIOUS
<1>2. ledger' = [ledger EXCEPT ![o] = nets]
    BY DEF DbTypeOK
<1>3. QED BY <1>1, <1>2 DEF Abstract!Effect

AccountRow == [status : Statuses, amount : Nat, fee : Nat \cup {NoFee},
               paidDay : Days \cup {NoDay}, settledOn : Days \cup {NoDay}]

LEMMA AccountType ==
    ASSUME NEW row \in OrderRow, NEW account, account = AccountOf(row)
    PROVE  /\ account \in AccountRow
           /\ account.status = row.status /\ account.amount = row.amount /\ account.fee = row.fee
           /\ account.paidDay = row.paidDay /\ account.settledOn = row.settlement
BY DEF OrderRow, AccountOf, AccountRow

LEMMA AccountsEqual ==
    ASSUME NEW a \in AccountRow, NEW b \in AccountRow,
           a.status = b.status, a.amount = b.amount, a.fee = b.fee,
           a.paidDay = b.paidDay, a.settledOn = b.settledOn
    PROVE  a = b
<1>1. \A c \in AccountRow : c = [status |-> c.status, amount |-> c.amount, fee |-> c.fee,
                                 paidDay |-> c.paidDay, settledOn |-> c.settledOn]
    BY DEF AccountRow
<1>2. QED BY <1>1

\* An account changes in the columns in which its row does.
LEMMA AccountPaid ==
    ASSUME NEW row \in OrderRow, NEW new \in OrderRow, NEW old, old = AccountOf(row),
           new.amount = row.amount, new.fee = row.fee, new.settlement = row.settlement
    PROVE  AccountOf(new) = [old EXCEPT !.status = new.status, !.paidDay = new.paidDay]
<1> DEFINE c == [old EXCEPT !.status = new.status, !.paidDay = new.paidDay]
<1>1. old \in AccountRow /\ new.paidDay \in Days \cup {NoDay} /\ new.status \in Statuses
    BY AccountType DEF OrderRow
<1>2. /\ c \in AccountRow /\ c.status = new.status /\ c.amount = old.amount /\ c.fee = old.fee
      /\ c.paidDay = new.paidDay /\ c.settledOn = old.settledOn
    BY <1>1 DEF AccountRow
<1> HIDE DEF c
<1>3. AccountOf(new) = c
    BY <1>2, AccountType, AccountsEqual
<1>4. QED BY <1>3 DEF c

LEMMA AccountMoved ==
    ASSUME NEW row \in OrderRow, NEW new \in OrderRow, NEW old, old = AccountOf(row),
           NEW status, new.status = status, new.paidDay = row.paidDay,
           new.amount = row.amount, new.fee = row.fee, new.settlement = row.settlement
    PROVE  AccountOf(new) = [old EXCEPT !.status = status]
<1> DEFINE c == [old EXCEPT !.status = status]
<1>1. old \in AccountRow /\ status \in Statuses
    BY AccountType DEF OrderRow
<1>2. /\ c \in AccountRow /\ c.status = status /\ c.amount = old.amount /\ c.fee = old.fee
      /\ c.paidDay = old.paidDay /\ c.settledOn = old.settledOn
    BY <1>1 DEF AccountRow
<1> HIDE DEF c
<1>3. AccountOf(new) = c
    BY <1>2, AccountType, AccountsEqual
<1>4. QED BY <1>3 DEF c

LEMMA AccountCharged ==
    ASSUME NEW row \in OrderRow, NEW new \in OrderRow, NEW old, old = AccountOf(row),
           NEW fee, new.fee = fee, new.status = row.status, new.paidDay = row.paidDay,
           new.amount = row.amount, new.settlement = row.settlement
    PROVE  AccountOf(new) = [old EXCEPT !.fee = fee]
<1> DEFINE c == [old EXCEPT !.fee = fee]
<1>1. old \in AccountRow /\ fee \in Nat \cup {NoFee}
    BY AccountType DEF OrderRow
<1>2. /\ c \in AccountRow /\ c.status = old.status /\ c.amount = old.amount /\ c.fee = fee
      /\ c.paidDay = old.paidDay /\ c.settledOn = old.settledOn
    BY <1>1 DEF AccountRow
<1> HIDE DEF c
<1>3. AccountOf(new) = c
    BY <1>2, AccountType, AccountsEqual
<1>4. QED BY <1>3 DEF c

LEMMA AccountSettled ==
    ASSUME NEW row \in OrderRow, NEW new \in OrderRow, NEW old, old = AccountOf(row),
           NEW day, new.settlement = day, new.status = row.status, new.paidDay = row.paidDay,
           new.amount = row.amount, new.fee = row.fee
    PROVE  AccountOf(new) = [old EXCEPT !.settledOn = day]
<1> DEFINE c == [old EXCEPT !.settledOn = day]
<1>1. old \in AccountRow /\ day \in Days \cup {NoDay}
    BY AccountType DEF OrderRow
<1>2. /\ c \in AccountRow /\ c.status = old.status /\ c.amount = old.amount /\ c.fee = old.fee
      /\ c.paidDay = old.paidDay /\ c.settledOn = day
    BY <1>1 DEF AccountRow
<1> HIDE DEF c
<1>3. AccountOf(new) = c
    BY <1>2, AccountType, AccountsEqual
<1>4. QED BY <1>3 DEF c

LEMMA AccountOpened ==
    ASSUME NEW new \in OrderRow, NEW amount, new.status = "CREATED", new.amount = amount,
           new.fee = NoFee, new.paidDay = NoDay, new.settlement = NoDay
    PROVE  AccountOf(new) = [Abstract!Unopened EXCEPT !.status = "CREATED", !.amount = amount]
<1> DEFINE unopened == Abstract!Unopened
           c == [unopened EXCEPT !.status = "CREATED", !.amount = amount]
<1>1. amount \in Nat
    BY DEF OrderRow
<1>2. /\ unopened \in AccountRow
      /\ unopened.fee = NoFee /\ unopened.paidDay = NoDay /\ unopened.settledOn = NoDay
    BY SameNames DEF Abstract!Unopened, AccountRow, Statuses
<1> HIDE DEF unopened
<1>3. /\ c \in AccountRow /\ c.status = "CREATED" /\ c.amount = amount /\ c.fee = NoFee
      /\ c.paidDay = NoDay /\ c.settledOn = NoDay
    BY <1>1, <1>2 DEF AccountRow, Statuses
<1> HIDE DEF c
<1>4. AccountOf(new) = c
    BY <1>3, AccountType, AccountsEqual
<1>5. QED BY <1>4 DEF c, unopened

\* The nets after a payment, a fee and a payout.
LEMMA NetForms ==
    ASSUME NEW amount, NEW fee
    PROVE  /\ [NoEntries EXCEPT !["order_pending"] = -amount, !["payment_received"] = amount]
                = Net(0, -amount, amount, 0, 0)
           /\ [NoEntries EXCEPT !["order_pending"] = -amount, !["fees_owed"] = fee,
                                !["payment_received"] = amount - fee]
                = Net(0, -amount, amount - fee, fee, 0)
           /\ [NoEntries EXCEPT !["order_balance"] = amount, !["order_pending"] = -amount]
                = Net(amount, -amount, 0, 0, 0)
<1>1. [NoEntries EXCEPT !["order_pending"] = -amount, !["payment_received"] = amount]
        = Net(0, -amount, amount, 0, 0)
    BY NetEqual DEF NoEntries, Accounts
<1>2. [NoEntries EXCEPT !["order_pending"] = -amount, !["fees_owed"] = fee,
                        !["payment_received"] = amount - fee]
        = Net(0, -amount, amount - fee, fee, 0)
    BY NetEqual DEF NoEntries, Accounts
<1>3. [NoEntries EXCEPT !["order_balance"] = amount, !["order_pending"] = -amount]
        = Net(amount, -amount, 0, 0, 0)
    BY NetEqual DEF NoEntries, Accounts
<1>4. QED BY <1>1, <1>2, <1>3

(***************************************************************************)
(* The commit of a mutation.                                                *)
(***************************************************************************)
LEMMA MutationTakesEffect ==
    ASSUME IInv, IInv', BooksInv, BooksInv', AskedInv, NEW w \in Workers, Publishes(w)
    PROVE  \E o \in Orders : Abstract!OrderMutation(o)
<1>1. PICK o \in Orders : o = target[w]
    BY CommitFacts DEF Publishes
<1>2. PICK type \in OrderEventTypes : type = step[w]
    BY CommitFacts DEF Publishes
<1>3. PICK row \in OrderRow : row = orders[o]
    BY DEF IInv, TypeOK, DbTypeOK
<1>4. PICK new \in OrderRow : new = orders'[o]
    BY DEF IInv, TypeOK, DbTypeOK
<1>5. PICK day : day = pending[w].day
    OBVIOUS
<1>6. PICK asked \in Nat : asked = call[w].amount
    BY CommitFacts DEF Publishes
<1>7. /\ pc[w] = "commit" /\ row.status \in AllowedFrom[type] /\ RowOK(o)
      /\ seen[w].amount = row.amount /\ seen[w].fee = row.fee
    BY <1>1, <1>2, <1>3, CommitFacts DEF Publishes, BooksInv
<1>8. /\ new.status = NextStatus[type]
      /\ new.amount = IF type = "OrderCreated" THEN asked ELSE row.amount
      /\ new.fee = IF type = "FeeCalculated" THEN CalculateFee(asked) ELSE row.fee
      /\ new.paidDay = IF type = "PaymentConfirmed" THEN day ELSE row.paidDay
      /\ new.settlement = row.settlement
      /\ type = "OrderCreated" => row = NoRow
    BY <1>1, <1>2, <1>3, <1>4, <1>5, <1>6, <1>7, PublishedRows, WrittenRow
<1>9. ledger[o] = NetsOf(row) /\ ledger'[o] = NetsOf(new)
    BY <1>1, <1>3, <1>4, PublishedLedger, ExpectedNetsIs
       DEF IInv, TypeOK, BooksInv, LedgerMatchesReadModel
<1>10. Abstract!Effect(o, AccountOf(new), NetsOf(new))
    BY <1>1, <1>4, <1>9, PublishedRows, OneRowMoves DEF IInv, TypeOK
<1>11. /\ row.status = "NONE" => row = NoRow
       /\ row.fee # NoFee => row.status \in {"PAID", "SHIPPED", "DELIVERED", "REFUNDED"}
       /\ row.settlement # NoDay => row.status \in {"PAID", "SHIPPED", "DELIVERED"} /\ row.fee # NoFee
       /\ row.paidDay # NoDay <=> row.status \in {"PAID", "SHIPPED", "DELIVERED", "REFUNDED"}
    BY <1>3, <1>7 DEF RowOK, PaidLike
<1> DEFINE account == [x \in Orders |-> AccountOf(orders[x])]
<1>12. account[o] = AccountOf(row)
    BY <1>3
<1>13. account[o].status = row.status /\ account[o].amount = row.amount
       /\ account[o].fee = row.fee /\ account[o].settledOn = row.settlement
    BY <1>12 DEF AccountOf
<1> HIDE DEF account
<1>14. row.amount \in Nat /\ new.amount \in Nat
    BY DEF OrderRow
<1>15. CASE type = "OrderCreated"
    <2>1. asked > 0
        BY <1>2, <1>6, <1>7, <1>15 DEF BooksInv, PostedOK, PostedAmount, PostingsValid
    <2>2. asked \in {c.amount : c \in Calls}
        <3>1. call[w].op # "pay"
            BY <1>2, <1>7, <1>15 DEF IInv, CallOK, Suffix
        <3>2. QED BY <1>6, <1>7, <3>1 DEF AskedInv, Asked
    <2>3. row = NoRow /\ new.status = "CREATED" /\ new.amount = asked /\ new.fee = row.fee
          /\ new.paidDay = row.paidDay /\ new.settlement = row.settlement
        BY <1>8, <1>15 DEF NextStatus
    <2>4. AccountOf(new) = [Abstract!Unopened EXCEPT !.status = "CREATED", !.amount = asked]
        BY <2>3, AccountOpened DEF NoRow
    <2>5. NetsOf(new) = [NoEntries EXCEPT !["order_balance"] = asked, !["order_pending"] = -asked]
        BY <2>3, NetForms DEF NetsOf
    <2>6. account[o].status = "NONE"
        BY <1>13, <2>3 DEF NoRow
    <2>7. Abstract!Open(o, asked)
        BY <1>10, <2>1, <2>4, <2>5, <2>6, SameNames DEF Abstract!Open, account
    <2>8. QED BY <2>2, <2>7 DEF Abstract!OrderMutation
<1>16. CASE type = "PaymentConfirmed"
    <2>1. day \in 1..today /\ day \in Days /\ day <= today
        <3>1. today \in 1..MaxDay /\ MaxDay \in Nat
            BY DatabaseAssumption DEF IInv, TypeOK, DbTypeOK, Days
        <3>2. day \in 1..today
            BY <1>2, <1>5, <1>7, <1>16 DEF BooksInv, EventFixed
        <3>3. QED BY <3>1, <3>2 DEF Days
    <2>2. row.status \in {"CREATED", "PAYMENT_PROCESSING"}
        BY <1>7, <1>16 DEF AllowedFrom
    <2>3. new.status = "PAID" /\ new.amount = row.amount /\ new.fee = row.fee
          /\ new.paidDay = day /\ new.settlement = row.settlement
        BY <1>8, <1>16 DEF NextStatus
    <2>4. new.fee = NoFee /\ new.settlement = NoDay
        BY <1>11, <2>2, <2>3
    <2>5. AccountOf(new) = [account[o] EXCEPT !.status = "PAID", !.paidDay = day]
        <3>1. AccountOf(new) = [account[o] EXCEPT !.status = new.status, !.paidDay = new.paidDay]
            BY <1>12, <2>3, AccountPaid
        <3>2. QED BY <2>3, <3>1
    <2>6. NetsOf(new) = [NoEntries EXCEPT !["order_pending"] = -row.amount,
                                          !["payment_received"] = row.amount]
        <3>1. NetsOf(new) = Net(0, -row.amount, row.amount - 0 - 0, 0, 0)
            BY <2>3, <2>4 DEF NetsOf
        <3>2. row.amount - 0 - 0 = row.amount
            BY <1>14
        <3>3. QED BY <3>1, <3>2, NetForms
    <2>7. row.status \in Abstract!AllowedFrom["PaymentConfirmed"]
        BY <1>7, <1>16, SameNames
    <2>8. Abstract!Capture(o, day)
        BY <1>10, <1>13, <2>1, <2>5, <2>6, <2>7, SameNames
           DEF Abstract!Capture, Abstract!IsTransitionAllowed, account
    <2>9. QED BY <2>1, <2>8 DEF Abstract!OrderMutation
<1>17. CASE type = "FeeCalculated"
    <2>1. row.status = "PAID"
        BY <1>7, <1>17 DEF AllowedFrom
    <2>2. asked = row.amount /\ row.fee = NoFee /\ CalculateFee(asked) > 0
        BY <1>2, <1>6, <1>7, <1>17
           DEF BooksInv, SeenOK, Writing, PostedOK, PostedFee, PostingsValid
    <2>3. new.status = "PAID" /\ new.amount = row.amount /\ new.fee = CalculateFee(row.amount)
          /\ new.paidDay = row.paidDay /\ new.settlement = NoDay
        BY <1>8, <1>11, <1>17, <2>2 DEF NextStatus
    <2>4. AccountOf(new) = [account[o] EXCEPT !.fee = CalculateFee(row.amount)]
        BY <1>12, <2>1, <2>3, <1>8, <1>17, AccountCharged
    <2>5. NetsOf(new) = [NoEntries EXCEPT !["order_pending"] = -row.amount,
                                          !["fees_owed"] = CalculateFee(row.amount),
                                          !["payment_received"] = row.amount - CalculateFee(row.amount)]
        <3>1. CalculateFee(row.amount) \in Nat \ {0} /\ new.fee # NoFee
            BY <1>14, <2>2, <2>3 DEF CalculateFee, NoFee
        <3>2. PICK fee \in Nat : fee = CalculateFee(row.amount)
            BY <3>1
        <3>3. NetsOf(new) = Net(0, -row.amount, row.amount - fee - 0, fee, 0)
            BY <2>3, <3>1, <3>2 DEF NetsOf
        <3>4. row.amount - fee - 0 = row.amount - fee
            BY <1>14
        <3>5. NetsOf(new) = [NoEntries EXCEPT !["order_pending"] = -row.amount, !["fees_owed"] = fee,
                                              !["payment_received"] = row.amount - fee]
            <4>1. [NoEntries EXCEPT !["order_pending"] = -row.amount, !["fees_owed"] = fee,
                                    !["payment_received"] = row.amount - fee]
                    = Net(0, -row.amount, row.amount - fee, fee, 0)
                BY NetForms
            <4>2. QED BY <3>3, <3>4, <4>1
        <3>6. QED BY <3>2, <3>5
    <2>6. Abstract!CalculateFee(row.amount) = CalculateFee(row.amount)
        BY DEF Abstract!CalculateFee, CalculateFee
    <2>7. Abstract!TakeFee(o)
        BY <1>10, <1>13, <2>1, <2>2, <2>4, <2>5, <2>6, SameNames DEF Abstract!TakeFee, account
    <2>8. QED BY <2>7 DEF Abstract!OrderMutation
<1>18. CASE type = "OrderRefunded"
    <2>1. row.settlement = NoDay
        BY <1>1, <1>2, <1>3, <1>7, <1>18 DEF BooksInv, HeldOK
    <2>2. new.status = "REFUNDED" /\ new.amount = row.amount /\ new.fee = row.fee
          /\ new.paidDay = row.paidDay /\ new.settlement = row.settlement
        BY <1>8, <1>18 DEF NextStatus
    <2>3. AccountOf(new) = [account[o] EXCEPT !.status = "REFUNDED"]
        BY <1>12, <2>2, AccountMoved
    <2>4. NetsOf(new) = NoEntries
        BY <2>2, NoEntriesNet DEF NetsOf
    <2>5. row.status \in Abstract!AllowedFrom["OrderRefunded"]
        BY <1>7, <1>18, SameNames
    <2>6. Abstract!Refund(o)
        BY <1>10, <1>13, <2>1, <2>3, <2>4, <2>5, SameNames
           DEF Abstract!Refund, Abstract!IsTransitionAllowed, account
    <2>7. QED BY <2>6 DEF Abstract!OrderMutation
<1>19. CASE type \in {"PaymentProcessing", "PaymentFailed", "OrderShipped", "OrderDelivered"}
    <2>1. new.status = NextStatus[type] /\ new.amount = row.amount /\ new.fee = row.fee
          /\ new.paidDay = row.paidDay /\ new.settlement = row.settlement
        BY <1>8, <1>19
    <2>2. AccountOf(new) = [account[o] EXCEPT !.status = NextStatus[type]]
        BY <1>12, <2>1, AccountMoved
    <2>3. NetsOf(new) = NetsOf(row)
        <3>1. \/ {row.status, new.status} \subseteq {"PAID", "SHIPPED", "DELIVERED"}
              \/ {row.status, new.status} \subseteq {"CREATED", "PAYMENT_PROCESSING", "PAYMENT_FAILED"}
            BY <1>7, <1>19, <2>1 DEF AllowedFrom, NextStatus
        <3>2. QED BY <2>1, <3>1 DEF NetsOf
    <2>4. row.status \in Abstract!AllowedFrom[type]
        BY <1>7, SameNames
    <2>5. Abstract!Move(o, type)
        BY <1>9, <1>10, <1>13, <2>2, <2>3, <2>4, SameNames
           DEF Abstract!Move, Abstract!IsTransitionAllowed, account
    <2>6. QED BY <1>19, <2>5 DEF Abstract!OrderMutation
<1>20. QED BY <1>15, <1>16, <1>17, <1>18, <1>19 DEF OrderEventTypes

(***************************************************************************)
(* The commit of a settlement.                                              *)
(***************************************************************************)

\* The abstract sum of the net amounts is a total.
LEMMA NetAmountsTotal ==
    ASSUME NEW S, S \subseteq Orders, IsFiniteSet(S),
           \A o \in S : orders[o].amount \in Int /\ orders[o].fee \in Int
    PROVE  IsTotal(Abstract!MapThenSumSet(Abstract!NetAmount, S),
                   [o \in S |-> orders[o].amount - orders[o].fee], S)
<1> DEFINE f == [o \in S |-> orders[o].amount - orders[o].fee]
           G == CHOOSE g : g = [s \in SUBSET S |->
                    IF s = {} THEN 0
                    ELSE Abstract!NetAmount(CHOOSE x \in s : TRUE) + g[s \ {CHOOSE x \in s : TRUE}]]
<1>1. f \in [S -> Int] /\ \A s \in SUBSET S : s # {} => (CHOOSE x \in s : TRUE) \in S
    OBVIOUS
<1>2. PICK h : Additive(h, f, S)
    BY <1>1, SumExists
<1>3. \A x \in S : Abstract!NetAmount(x) = f[x]
    BY DEF Abstract!NetAmount, AccountOf
<1>4. h = [s \in SUBSET S |->
              IF s = {} THEN 0
              ELSE Abstract!NetAmount(CHOOSE x \in s : TRUE) + h[s \ {CHOOSE x \in s : TRUE}]]
    <2>1. h = [s \in SUBSET S |-> h[s]] /\ h[{}] = 0
        BY <1>2 DEF Additive
    <2>2. ASSUME NEW s \in SUBSET S, s # {}
          PROVE  h[s] = Abstract!NetAmount(CHOOSE x \in s : TRUE) + h[s \ {CHOOSE x \in s : TRUE}]
        <3> DEFINE x == CHOOSE y \in s : TRUE
        <3>1. x \in s /\ x \in S
            BY <2>2
        <3> HIDE DEF x, f
        <3>2. h[s] = Abstract!NetAmount(x) + h[s \ {x}]
            BY <1>2, <1>3, <3>1 DEF Additive
        <3>3. QED BY <3>2 DEF x
    <2>3. QED BY <2>1, <2>2
<1>5. G = [s \in SUBSET S |->
              IF s = {} THEN 0
              ELSE Abstract!NetAmount(CHOOSE x \in s : TRUE) + G[s \ {CHOOSE x \in s : TRUE}]]
    BY <1>4
<1>6. Abstract!MapThenSumSet(Abstract!NetAmount, S) = G[S]
    BY DEF Abstract!MapThenSumSet, Abstract!MapThenFoldSet
<1> HIDE DEF G
<1>7. SumsByChoice(G, f, S)
    BY <1>1, <1>3, <1>5 DEF SumsByChoice
<1>8. IsTotal(G[S], f, S)
    <2> HIDE DEF f
    <2>1. QED BY <1>1, <1>7, SumByChoiceIsAdditive DEF IsTotal
<1>9. QED BY <1>6, <1>8

\* The payout written is the sum of what the orders then net.
LEMMA PayoutIsNet ==
    ASSUME IInv, BooksInv, SettledInv', NEW s \in Settlers, PublishesSettlement(s),
           NEW d, d = scall[s].day, d \in Days
    PROVE  settlements'[d].payout = Abstract!MapThenSumSet(Abstract!NetAmount, LineIds(s))
<1> DEFINE paid == LineIds(s)
           amounts == [o \in paid |-> orders[o].amount]
           fees == [o \in paid |-> orders[o].fee]
           nets == [o \in paid |-> orders[o].amount - orders[o].fee]
           row == settlements'[d]
<1>1. row.lines = paid /\ paid \subseteq Orders
    BY DEF PublishesSettlement, PublishSettlement, IInv, TypeOK, DbTypeOK, SettlementTypeOK, LineIds,
           Line
<1>2. ASSUME NEW o \in paid
      PROVE  /\ orders'[o].amount = orders[o].amount /\ orders'[o].fee = orders[o].fee
             /\ orders[o].amount \in Int /\ orders[o].fee \in Int
             /\ orders'[o].status # "NONE"
    <2>1. /\ o \in Orders /\ orders[o] \in OrderRow
          /\ orders'[o] = [orders[o] EXCEPT !.settlement = d] /\ orders[o].fee \in Nat
          /\ orders[o].status \in {"PAID", "SHIPPED", "DELIVERED"}
        BY <1>1, SettledRows DEF IInv, TypeOK, DbTypeOK
    <2>2. QED BY <2>1 DEF OrderRow
<1>3. DayOK(d)' /\ IsFiniteSet(WrittenOrders')
    BY DEF SettledInv
<1>4. Settled(d)' = paid
    BY <1>1, <1>3 DEF DayOK
<1>5. IsFiniteSet(paid)
    <2>1. paid \subseteq WrittenOrders'
        BY <1>1, <1>2 DEF WrittenOrders
    <2>2. QED BY <1>3, <2>1, FS_Subset
<1>6. amounts = [o \in paid |-> orders'[o].amount] /\ fees = [o \in paid |-> orders'[o].fee]
    BY <1>2
<1>7. IsTotal(row.gross, amounts, paid) /\ IsTotal(row.fees, fees, paid)
      /\ row.payout = row.gross - row.fees
    BY <1>3, <1>4, <1>6 DEF DayOK
<1>8. /\ amounts \in [paid -> Int] /\ fees \in [paid -> Int]
      /\ \A o \in paid : nets[o] = amounts[o] - fees[o]
    BY <1>2
<1>9. IsTotal(Abstract!MapThenSumSet(Abstract!NetAmount, paid), nets, paid)
    BY <1>1, <1>2, <1>5, NetAmountsTotal
<1> HIDE DEF amounts, fees, nets, paid
<1>10. IsTotal(row.gross - row.fees, nets, paid)
    BY <1>7, <1>8, TotalOfDifference
<1>11. row.payout = Abstract!MapThenSumSet(Abstract!NetAmount, paid)
    BY <1>5, <1>7, <1>9, <1>10, TotalIsUnique
<1>12. QED BY <1>11 DEF paid

LEMMA SettlementTakesEffect ==
    ASSUME IInv, IInv', BooksInv, BooksInv', SettledInv, SettledInv',
           NEW s \in Settlers, PublishesSettlement(s)
    PROVE  \E d \in Days : Abstract!Settlement(d)
<1>1. PICK d \in Days : d = scall[s].day
    BY DEF PublishesSettlement, IInv, SettlerOK, SettleCall
<1>2. PICK paid \in SUBSET Orders : paid = LineIds(s)
    <2>1. LineIds(s) \subseteq Orders
        BY DEF IInv, TypeOK, SettlementTypeOK, LineIds, Line
    <2>2. QED BY <2>1
<1> DEFINE account == [o \in Orders |-> AccountOf(orders[o])]
           total == Abstract!MapThenSumSet(Abstract!NetAmount, paid)
<1>3. ~settlements[d].exists
    <2>1. /\ pending[s] = SettlementEvent(s) /\ pending[s] # NoEvent /\ s \in Tx
          /\ pending[s].agg = SettlementAggregate(d) /\ pending[s].version = 1
        <3>1. pending[s] = SettlementEvent(s) /\ s \in Tx
            BY DEF PublishesSettlement, IInv, SettlerOK, Tx
        <3>2. QED BY <1>1, <3>1 DEF SettlementEvent, NoEvent
    <2>2. \A e \in events : ~(e.agg = SettlementAggregate(d) /\ e.version = 1)
        BY <2>1 DEF IInv, GateOK, Clash, SameVersion
    <2>3. QED BY <2>2 DEF SettledInv, DayOK
<1>4. settlements' = [settlements EXCEPT ![d] = settlements'[d]]
      /\ settlements'[d].exists /\ settlements'[d].lines = paid /\ settlements'[d].payout = total
      /\ UNCHANGED today
    BY <1>1, <1>2, PayoutIsNet
       DEF PublishesSettlement, PublishSettlement, IInv, TypeOK, DbTypeOK
<1>5. ASSUME NEW o \in Orders, o \in paid
      PROVE  /\ Abstract!Payable(o, d)
             /\ AccountOf(orders'[o]) = [account[o] EXCEPT !.settledOn = d]
             /\ ledger'[o] = [ledger[o] EXCEPT !["payment_received"] = 0,
                                               !["seller_payout"] = Abstract!NetAmount(o)]
    <2>1. PICK row \in OrderRow : row = orders[o]
        BY DEF IInv, TypeOK, DbTypeOK
    <2>2. PICK new \in OrderRow : new = orders'[o]
        BY DEF IInv, TypeOK, DbTypeOK
    <2>3. /\ new = [row EXCEPT !.settlement = d] /\ row.settlement = NoDay
          /\ row.status \in {"PAID", "SHIPPED", "DELIVERED"}
          /\ row.fee \in Nat /\ row.paidDay <= d /\ row.paidDay # NoDay /\ row.paidDay \in Nat
        <3>1. RowOK(o)
            BY DEF BooksInv
        <3>2. row.paidDay # NoDay
            BY <1>1, <1>2, <1>5, <2>1, <3>1, SettledRows DEF RowOK
        <3>3. row.paidDay \in Nat
            BY DatabaseAssumption DEF OrderRow, Days, NoDay
        <3>4. QED BY <1>1, <1>2, <1>5, <2>1, <2>2, <3>2, <3>3, SettledRows
    <2>4. /\ new.settlement = d /\ new.status = row.status /\ new.paidDay = row.paidDay
          /\ new.amount = row.amount /\ new.fee = row.fee /\ d # NoDay /\ row.fee # NoFee
          /\ row.amount \in Nat
        BY <2>3 DEF OrderRow, Days, NoDay, NoFee
    <2>5. account[o] = AccountOf(row)
        BY <2>1
    <2>6. Abstract!NetAmount(o) = row.amount - row.fee
        BY <2>5 DEF Abstract!NetAmount, AccountOf
    <2>7. AccountOf(new) = [account[o] EXCEPT !.settledOn = d]
        BY <2>4, <2>5, AccountSettled
    <2>8. Abstract!Payable(o, d)
        BY <2>1, <2>3, <2>4, SameNames DEF Abstract!Payable, AccountOf, NoDay
    <2>9. ledger'[o] = [ledger[o] EXCEPT !["payment_received"] = 0,
                                         !["seller_payout"] = row.amount - row.fee]
        <3>1. PICK amount \in Nat, fee \in Nat, net \in Int :
                  amount = row.amount /\ fee = row.fee /\ net = amount - fee
            BY <2>3, <2>4
        <3>2. ledger[o] = NetsOf(row) /\ ledger'[o] = NetsOf(new)
            BY <2>1, <2>2, ExpectedNetsIs, ExpectedNetsIsPrimed
               DEF IInv, TypeOK, BooksInv, LedgerMatchesReadModel
        <3>3. ledger[o] = Net(0, -amount, net, fee, 0) /\ ledger'[o] = Net(0, -amount, 0, fee, net)
            <4>1. NetsOf(row) = Net(0, -amount, amount - fee - 0, fee, 0)
                BY <2>3, <2>4, <3>1 DEF NetsOf
            <4>2. NetsOf(new) = Net(0, -amount, amount - fee - (amount - fee), fee, amount - fee)
                BY <2>3, <2>4, <3>1 DEF NetsOf
            <4>3. amount - fee - 0 = net /\ amount - fee - (amount - fee) = 0
                BY <3>1
            <4>4. QED BY <3>1, <3>2, <4>1, <4>2, <4>3
        <3>4. [Net(0, -amount, net, fee, 0) EXCEPT !["payment_received"] = 0,
                                                   !["seller_payout"] = net]
                = Net(0, -amount, 0, fee, net)
            BY NetEqual DEF Net, Accounts
        <3>5. QED BY <3>1, <3>3, <3>4
    <2>10. QED BY <2>2, <2>6, <2>7, <2>8, <2>9
<1>6. ASSUME NEW o \in Orders, o \notin paid
      PROVE  AccountOf(orders'[o]) = account[o] /\ ledger'[o] = ledger[o]
    BY <1>2, <1>6, SettledRows
<1>7. Abstract!PayOut(d, paid)
    <2>1. [x \in Days |-> PayoutOf(settlements'[x])]
            = [[x \in Days |-> PayoutOf(settlements[x])] EXCEPT
                 ![d] = [closed |-> TRUE, orders |-> paid, total |-> total]]
        <3>1. PayoutOf(settlements'[d]) = [closed |-> TRUE, orders |-> paid, total |-> total]
            BY <1>4 DEF PayoutOf, IInv, TypeOK, DbTypeOK, SettlementRow
        <3>2. \A x \in Days \ {d} : settlements'[x] = settlements[x]
            BY <1>4 DEF IInv, TypeOK, DbTypeOK
        <3> HIDE DEF total
        <3>3. QED BY <3>1, <3>2
    <2>2. ~PayoutOf(settlements[d]).closed
        BY <1>3 DEF PayoutOf
    <2>3. ledger' = [o \in Orders |-> ledger'[o]]
        BY DEF IInv, TypeOK, DbTypeOK
    <2>4. ledger' = [o \in Orders |->
                       IF o \in paid
                       THEN [ledger[o] EXCEPT !["payment_received"] = 0,
                                              !["seller_payout"] = Abstract!NetAmount(o)]
                       ELSE ledger[o]]
        BY <1>5, <1>6, <2>3
    <2>5. [o \in Orders |-> AccountOf(orders'[o])]
            = [o \in Orders |-> IF o \in paid THEN [account[o] EXCEPT !.settledOn = d]
                                              ELSE account[o]]
        <3> HIDE DEF account
        <3>1. QED BY <1>5, <1>6
    <2>6. \A o \in paid : Abstract!Payable(o, d)
        BY <1>5
    <2>7. QED BY <1>4, <2>1, <2>2, <2>4, <2>5, <2>6 DEF Abstract!PayOut
<1>8. QED BY <1>7 DEF Abstract!Settlement

(***************************************************************************)
(* The theorem.                                                             *)
(***************************************************************************)
RefinementInv == IInv /\ BooksInv /\ SettledInv /\ AskedInv

\* A step that changes no committed row and no day is not seen.
LEMMA Unseen ==
    ASSUME UNCHANGED <<committedVars, today>>
    PROVE  UNCHANGED Abstract!vars
BY DEF Abstract!vars, committedVars

LEMMA RefinedNext == RefinementInv /\ RefinementInv' /\ [Next]_vars => [Abstract!Next]_(Abstract!vars)
<1> SUFFICES ASSUME RefinementInv, RefinementInv', [Next]_vars
             PROVE  Abstract!Next \/ UNCHANGED Abstract!vars
    OBVIOUS
<1> USE DEF RefinementInv
<1>1. ASSUME NEW w \in Workers, WorkerStep(w) PROVE Abstract!Next \/ UNCHANGED Abstract!vars
    <2>1. CASE Publishes(w)
        <3>1. /\ w \in Tx /\ pending[w] # NoEvent /\ events' = events \cup {pending[w]}
            BY <2>1, CommitFacts, PublishedRows DEF Publishes, Tx
        <3>2. Abstract!SpendKey /\ \E o \in Orders : Abstract!OrderMutation(o)
            BY <2>1, <3>1, KeySpent, MutationTakesEffect
        <3>3. QED BY <3>2 DEF Abstract!Next
    <2>2. CASE WorkerQuiet(w)
        BY <2>2, Unseen DEF WorkerQuiet
    <2>3. QED BY <1>1, <2>1, <2>2, WorkerShapes
<1>2. ASSUME NEW s \in Settlers, SettlerStep(s) PROVE Abstract!Next \/ UNCHANGED Abstract!vars
    <2>1. CASE PublishesSettlement(s)
        <3>1. /\ s \in Tx /\ pending[s] # NoEvent /\ events' = events \cup {pending[s]}
            <4>1. /\ s \in Tx /\ pending[s] = SettlementEvent(s)
                  /\ events' = events \cup {pending[s]}
                BY <2>1 DEF PublishesSettlement, PublishSettlement, IInv, SettlerOK, Tx
            <4>2. SettlementEvent(s) # NoEvent
                BY DEF SettlementEvent, NoEvent
            <4>3. QED BY <4>1, <4>2
        <3>2. Abstract!SpendKey /\ \E d \in Days : Abstract!Settlement(d)
            BY <2>1, <3>1, KeySpent, SettlementTakesEffect
        <3>3. QED BY <3>2 DEF Abstract!Next
    <2>2. CASE SettlerQuiet(s)
        BY <2>2, Unseen DEF SettlerQuiet
    <2>3. QED BY <1>2, <2>1, <2>2, SettlerShapes
<1>3. ASSUME CalendarStep PROVE Abstract!NextDay
    <2>1. today + 1 \in Days /\ today' = today + 1 /\ UNCHANGED committedVars
        BY <1>3, DatabaseAssumption DEF CalendarStep, AdvanceDay, IInv, TypeOK, DbTypeOK, Days
    <2>2. QED BY <2>1 DEF Abstract!NextDay, committedVars
<1>4. ASSUME UNCHANGED vars PROVE UNCHANGED Abstract!vars
    BY <1>4, Unseen DEF vars, dbVars, committedVars
<1>5. QED BY <1>1, <1>2, <1>3, <1>4 DEF Next, Abstract!Next

LEMMA RefinementInvariance == Spec => []RefinementInv
<1>1. Init => AskedInv
    BY DEF Init, OrderInit, AskedInv, Asked
<1>2. IInv /\ BooksInv /\ AskedInv /\ [Next]_vars => AskedInv'
    BY AskedNext
<1>3. Spec => []AskedInv
    BY Invariance, BooksInvariance, <1>1, <1>2, PTL DEF Spec
<1>4. QED BY Invariance, BooksInvariance, SettledInvariance, <1>3, PTL DEF RefinementInv

\* Every behaviour of the service, with its stale reads, retries, crashes and
\* lost acknowledgements, is one in which each mutation and each settlement
\* takes effect in one step, on the orders as they are at that step, and spends
\* a key nobody spent before (withIdempotentEvent, dailySettlement).
THEOREM ServiceIsAtomic == Spec => ImplementsAtomicService
<1>1. Init => Abstract!Init
    BY RefinedInit
<1>2. RefinementInv /\ RefinementInv' /\ [Next]_vars => [Abstract!Next]_(Abstract!vars)
    BY RefinedNext
<1>3. QED BY RefinementInvariance, <1>1, <1>2, PTL DEF Spec, ImplementsAtomicService, Abstract!Spec
=============================================================================
