------------------------------ MODULE MCQueries ------------------------------
(***************************************************************************)
(* An instance of Queries for TLC.  Each behaviour picks one scenario: one   *)
(* order that is paid, refunded and settled behind three pages, or orders    *)
(* that are created behind a walk through the list.                         *)
(***************************************************************************)
EXTENDS Queries, MCSellerLedger

CONSTANTS r1, o3, o4

VARIABLE scenario

\* From the oldest order to the newest; calls create them in any order.  With two
\* orders on a page, the fourth can arrive before or between two pages.
MCCreatedAt == [o \in Orders |-> CASE o = o1 -> 1 [] o = o2 -> 2 [] o = o3 -> 3 [] OTHER -> 4]

ListCalls == {RecordOrder(o1, 1, 150), RecordOrder(o2, 5, 150), RecordOrder(o3, 6, 150),
              RecordOrder(o4, 7, 150)}
PageCalls == PaidOrRefundedCalls \cup ListCalls

Scenarios == {[calls |-> PaidOrRefundedCalls, pages |-> Pages \ {"list"}],
              [calls |-> ListCalls, pages |-> {"list"}]}

Followed ==
    /\ \A w \in Workers : pc[w] = "idle" /\ pc'[w] # "idle" => call'[w] \in scenario.calls
    /\ \A r \in Readers : page'[r] \in scenario.pages \cup {"none"}
    /\ "list" \in scenario.pages => UNCHANGED <<settleVars, today>>

ScenarioInit == QInit /\ scenario \in Scenarios
ScenarioNext == QNext /\ Followed /\ UNCHANGED scenario

ScenarioSpec == ScenarioInit /\ [][ScenarioNext]_<<vars, readVars, scenario>>
=============================================================================
