---------------------------- MODULE RebuildScript ----------------------------
(***************************************************************************)
(* backend/scripts/rebuild-projections.ts (`npm run db:replay`) at work on   *)
(* the database of a running service: one query for the event log, one for   *)
(* the rows, then one upsert per drifted order.  No transaction holds the    *)
(* three together, and no upsert looks at the version of the row it writes.  *)
(*                                                                         *)
(* Drift comes from outside the service: an operator's UPDATE or DELETE on   *)
(* order_projection, a row lost in a restore.                               *)
(***************************************************************************)
EXTENDS SellerLedger

CONSTANTS Damaged,      \* the columns that get damaged from outside, or "row"
          MaxDamages    \* how often: the bound of the instance

Columns == {"status", "version", "amount", "customer", "fee", "charge", "paidDay", "settlement"}

ASSUME RebuildAssumption == Damaged \subseteq Columns \cup {"row"} /\ MaxDamages \in Nat

VARIABLES rpc,      \* control point of the script
          log,      \* the event log as the script has read it
          drifted,  \* the rebuilt rows it has found to differ from the stored ones
          damages   \* how often the table was damaged so far

scriptVars == <<rpc, log, drifted, damages>>

RInit == Init /\ rpc = "idle" /\ log = {} /\ drifted = {} /\ damages = 0

ReadLog ==
    /\ rpc = "idle"
    /\ rpc' = "rows"
    /\ log' = events
    /\ UNCHANGED <<dbVars, drifted, damages>>

\* Mutant: describeDrift forgets the settlement.
DescribeDriftWithoutSettlement(stored, rebuilt) ==
    \E c \in {"status", "version", "amount", "fee", "charge"} : stored[c] # rebuilt[c]

\* describeDrift: a missing row, or one of the columns it compares.  A row of
\* status NONE is a missing row.
DescribeDrift(stored, rebuilt) ==
    \E c \in {"status", "version", "amount", "fee", "charge", "settlement"} :
        stored[c] # rebuilt[c]

\* Every order of the log is rebuilt and compared.
ReadRows ==
    /\ rpc = "rows"
    /\ rpc' = "repair"
    /\ drifted' = {d \in UNION {[order : {o}, row : Rebuilt(log, o)] :
                                   o \in {e.agg : e \in log} \cap Orders} :
                     DescribeDrift(orders[d.order], d.row)}
    /\ UNCHANGED <<dbVars, log, damages>>

\* The upsert creates a missing row whole; its update branch leaves the amount
\* and the customer alone.
Upsert(stored, rebuilt) ==
    IF stored.status = "NONE" THEN rebuilt
    ELSE [rebuilt EXCEPT !.amount = stored.amount, !.customer = stored.customer]

\* With --write: one statement per drifted row, which waits for a lock like any
\* other.
Repair ==
    /\ rpc = "repair"
    /\ \E d \in drifted :
         /\ RowIsFree(d.order)
         /\ orders' = [orders EXCEPT ![d.order] = Upsert(@, d.row)]
         /\ drifted' = drifted \ {d}
    /\ UNCHANGED <<events, ledger, settlements, pending, locks, today, rpc, log, damages>>

\* The summary line; without --write what was found is only reported.
Report ==
    /\ rpc = "repair"
    /\ rpc' = "done"
    /\ UNCHANGED <<dbVars, log, drifted, damages>>

\* The script ends, or is killed half-way.
Exit ==
    /\ rpc # "idle"
    /\ rpc' = "idle" /\ log' = {} /\ drifted' = {}
    /\ UNCHANGED <<dbVars, damages>>

\* A wrong value for each column: NULL where it may be.
Wrong(row) == [NoRow EXCEPT !.status = "CREATED", !.version = row.version + 1, !.amount = 1]

\* Somebody damages a row that no transaction has locked.  A row with postings is
\* protected from a DELETE by their foreign key (ON DELETE RESTRICT): it goes
\* missing only where the constraint is off, in a partial restore.
DamageRow(o) ==
    /\ rpc = "idle"
    /\ damages < MaxDamages
    /\ damages' = damages + 1
    /\ orders[o] # NoRow /\ RowIsFree(o)
    /\ \E c \in Damaged :
         orders' = [orders EXCEPT ![o] = IF c = "row" THEN NoRow
                                         ELSE [@ EXCEPT ![c] = Wrong(orders[o])[c]]]
    /\ UNCHANGED <<events, ledger, settlements, pending, locks, today, rpc, log, drifted>>

ScriptStep ==
    (ReadLog \/ ReadRows \/ Repair \/ Report \/ Exit) /\ UNCHANGED <<orderVars, settleVars>>

DamageStep == (\E o \in Orders : DamageRow(o)) /\ UNCHANGED <<orderVars, settleVars>>

ServiceStep == Next /\ UNCHANGED scriptVars

RNext == ScriptStep \/ DamageStep \/ ServiceStep

RSpec == RInit /\ [][RNext]_<<vars, scriptVars>>

(***************************************************************************)
(* Properties.                                                              *)
(***************************************************************************)

\* The script has repaired everything it found, and the log it worked from is
\* still the whole log.
AllRepaired == rpc = "done" /\ drifted = {} /\ log = events

\* A run that ends with nothing left to repair, and during which the service
\* committed nothing, leaves rows that agree with the log in the columns that
\* the script both compares and writes: whichever columns were damaged,
\* whatever transactions were open, and however many earlier runs were killed
\* half-way.  It says nothing of the amount, which is compared and not written,
\* nor of the customer and paidAt, which are not compared
\* (rebuild-projections.ts:15-33, 68-95).
RepairHeals ==
    AllRepaired =>
        \A o \in Orders : \E row \in Rebuilt(events, o) :
            \A c \in {"status", "version", "fee", "charge", "settlement"} : orders[o][c] = row[c]

\* "With --write, drifted or missing rows are repaired" (rebuild-projections.ts:8):
\* a run that has reported every drifted row as "repaired from event stream"
\* (:96), with nothing committed meanwhile, leaves none that it would itself
\* report as drifted again.
RepairedIsNotDrifted ==
    AllRepaired =>
        \A o \in Orders : \A row \in Rebuilt(events, o) : ~DescribeDrift(orders[o], row)

\* "Money moves at most once per logical operation (one charge, one fee, one
\* payout per order)" (CONCURRENCY.md:11): no two settlements of the log name
\* one order, with a read model that is "rebuildable at any time by folding
\* EventLog" (schema.prisma:105).
OnePayoutPerOrder ==
    \A o \in Orders :
        Cardinality({e \in events : e.type = "SettlementProcessed" /\ o \in e.lines}) <= 1
=============================================================================
