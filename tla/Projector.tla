------------------------------ MODULE Projector -----------------------------
(***************************************************************************)
(* backend/src/services/projector.ts: the fold of the event log into the    *)
(* read model that `npm run db:replay` and the projection-consistency test  *)
(* compare with the rows the services write.  It is a second               *)
(* implementation of the same rules: the services set columns explicitly.    *)
(***************************************************************************)
EXTENDS Database

\* Mutant: a FeeCalculated event does not restore the fee.
ApplyWithoutFee(row, e) ==
    IF e.type = "OrderCreated"
    THEN [NoRow EXCEPT !.status = NextStatus[e.type], !.version = e.version,
                       !.amount = e.amount, !.customer = e.party]
    ELSE [row EXCEPT !.status = NextStatus[e.type], !.version = e.version,
                     !.charge = IF e.type = "PaymentConfirmed" THEN e.party ELSE @,
                     !.paidDay = IF e.type = "PaymentConfirmed" THEN e.day ELSE @]

(***************************************************************************)
(* applyOrderEvent.  Unlike the services it also sets the status of a       *)
(* FeeCalculated event (to PAID).  The payload of that event carries the    *)
(* fee of its base amount.                                                  *)
(***************************************************************************)
ApplyOrderEvent(row, e) ==
    IF e.type = "OrderCreated"
    THEN [NoRow EXCEPT !.status = NextStatus[e.type], !.version = e.version,
                       !.amount = e.amount, !.customer = e.party]
    ELSE [row EXCEPT !.status = NextStatus[e.type], !.version = e.version,
                     !.charge = IF e.type = "PaymentConfirmed" THEN e.party ELSE @,
                     !.paidDay = IF e.type = "PaymentConfirmed" THEN e.day ELSE @,
                     !.fee = IF e.type = "FeeCalculated" THEN CalculateFee(e.amount) ELSE @]

\* The order events of one aggregate, folded in version order.
FoldOrder(log, o) ==
    LET mine == {e \in log : e.agg = o}
        row[v \in 0..Max({0} \cup {e.version : e \in mine})] ==
            IF v = 0 THEN NoRow
            ELSE IF \E e \in mine : e.version = v
                 THEN ApplyOrderEvent(row[v - 1], CHOOSE e \in mine : e.version = v)
                 ELSE row[v - 1]
    IN  row[Max({0} \cup {e.version : e \in mine})]

\* The days whose settlement events name the order.
SettledOn(log, o) ==
    {d \in Days : \E e \in log : e.agg = SettlementAggregate(d) /\ o \in e.lines}

(***************************************************************************)
(* rebuildOrderStates: the row of an order after replaying the whole log.    *)
(* When several settlements name an order the one with the last timestamp   *)
(* wins; timestamps are not modelled, so the result is the set of rows that  *)
(* can come out.                                                            *)
(***************************************************************************)
Rebuilt(log, o) ==
    LET row == FoldOrder(log, o)
    IN  IF SettledOn(log, o) = {} \/ row = NoRow
        THEN {row}
        ELSE {[row EXCEPT !.settlement = d] : d \in SettledOn(log, o)}
=============================================================================
