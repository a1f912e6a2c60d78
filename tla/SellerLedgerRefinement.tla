----------------------- MODULE SellerLedgerRefinement ------------------------
(***************************************************************************)
(* SellerLedger implements AtomicService.  A caller sees nothing of the      *)
(* transactions: the abstract state is a function of the committed rows, and *)
(* every step but a commit (and the calendar's) is a stutter.                *)
(***************************************************************************)
EXTENDS SellerLedger

AccountOf(row) == [status |-> row.status, amount |-> row.amount, fee |-> row.fee,
                   paidDay |-> row.paidDay, settledOn |-> row.settlement]

PayoutOf(row) == [closed |-> row.exists, orders |-> row.lines, total |-> row.payout]

Abstract == INSTANCE AtomicService WITH
    Amounts <- {c.amount : c \in Calls},
    account <- [o \in Orders |-> AccountOf(orders[o])],
    books   <- ledger,
    spent   <- {e.key : e \in events},
    payouts <- [d \in Days |-> PayoutOf(settlements[d])]

\* Every mutation, and every settlement, takes effect once, in one step, on the
\* orders as they are at that step, whatever its transaction read before
\* (docs/CONCURRENCY.md:9-13; withIdempotentEvent, updateProjectionGuarded and
\* the UPDATE of dailySettlement).
ImplementsAtomicService == Abstract!Spec
=============================================================================
