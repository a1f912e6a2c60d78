------------------------------ MODULE MCScripts ------------------------------
(***************************************************************************)
(* An instance of Scripts for TLC.  The seed: an order that is delivered, one *)
(* that is refunded and one whose payment is declined.  The load test: two   *)
(* orders, the first created twice.                                         *)
(***************************************************************************)
EXTENDS Scripts, MCSellerLedger

CONSTANTS o3, o4, o5, x1, x2

MCList == <<[id |-> o1, customer |-> alice, amount |-> 150, flow |-> "delivered"],
            [id |-> o2, customer |-> alice, amount |-> 250, flow |-> "refunded"],
            [id |-> o3, customer |-> mallory, amount |-> 150, flow |-> "declined"]>>

MCSeedKey(id, op) == <<K(CASE id = o1 -> 1 [] id = o2 -> 2 [] OTHER -> 3), op>>
ListedCalls ==
    UNION {{SeedCall(MCList[i], CallsOfFlow[MCList[i].flow][j]) :
              j \in DOMAIN CallsOfFlow[MCList[i].flow]} : i \in DOMAIN MCList}

TestCreates == <<Create(o4, 4, 150, alice), Create(o4, 4, 150, alice), Create(o5, 5, 250, alice)>>
TestPays == <<Do("pay", o4, 6), Do("pay", o5, 7)>>
TestCalls == {TestCreates[i] : i \in 1..3} \cup {TestPays[i] : i \in 1..2}
MCSettleKey == <<K(8)>>
TestSettles == {Settle(d, MCSettleKey) : d \in Days}

ScriptCalls == ListedCalls \cup TestCalls
SeedKeys == {<<K(n), op>> : n \in 1..3, op \in Ops}
ScriptParties == AllParties \cup SeedKeys
ScriptKeys == AllKeys \cup SeedKeys \cup {Append(k, Suffix[s]) : k \in SeedKeys, s \in DOMAIN Suffix}
ScriptOutcome == [p \in ScriptParties |-> IF p = mallory THEN "declined" ELSE "succeeded"]
=============================================================================
