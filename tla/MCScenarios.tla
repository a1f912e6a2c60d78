---------------------------- MODULE MCScenarios -----------------------------
(***************************************************************************)
(* Several instances of SellerLedger in one run of TLC: each behaviour picks *)
(* one scenario, the menu of calls its workers and its settlers serve.       *)
(***************************************************************************)
EXTENDS MCSellerLedger

CONSTANTS Scenarios, o3

VARIABLE scenario

ASSUME ScenariosAssumption ==
    \A s \in Scenarios : s.calls \in [Workers -> SUBSET Calls]
                         /\ s.settles \in [Settlers -> SUBSET SettleCalls]

\* A transaction or a query fails in this way.
Fails(fault) ==
    \/ fault = "abort" /\ ((\E w \in Workers : Abort(w)) \/ (\E s \in Settlers : AbortSettlement(s)))
    \/ fault = "ack_lost" /\ ((\E w \in Workers : CommitAckLost(w)) \/ (\E s \in Settlers : SettleAckLost(s)))
    \/ fault = "query_fails" /\ ((\E w \in Workers : QueryFails(w)) \/ (\E s \in Settlers : SettleQueryFails(s)))
    \/ fault = "crash" /\ ((\E w \in Workers : Crash(w)) \/ (\E s \in Settlers : CrashSettler(s)))

\* A call that starts is one of the scenario's, and so is what fails.
Followed ==
    /\ \A w \in Workers : pc[w] = "idle" /\ pc'[w] # "idle" => call'[w] \in scenario.calls[w]
    /\ \A s \in Settlers : spc[s] = "idle" /\ spc'[s] # "idle" => scall'[s] \in scenario.settles[s]
    /\ \A fault \in Faults \ scenario.faults : ~Fails(fault)

ScenarioInit == Init /\ scenario \in Scenarios
ScenarioNext == Next /\ Followed /\ UNCHANGED scenario

ScenarioSpec == ScenarioInit /\ [][ScenarioNext]_<<vars, scenario>>
FairScenarioSpec == ScenarioSpec /\ Fairness

\* Workers only, anything may fail.
OrderScenario(calls) ==
    [calls |-> [w \in Workers |-> calls], settles |-> [s \in Settlers |-> {}], faults |-> Faults]

\* One worker next to settlers, each with its own menu.
SettleScenario(calls, settles, faults) ==
    [calls |-> [w \in Workers |-> IF w = w1 THEN calls ELSE {}], settles |-> settles,
     faults |-> faults]

\* Two orders, both paid, and keys used twice: with another amount, on another
\* order, for another operation, and colliding with a key the saga derives.
KeyReuseCalls == {Create(AnyOrder, 1, 150, alice), Create(AnyOrder, 1, 200, alice),
                  Create(AnyOrder, 2, 150, alice),
                  Do("pay", o2, 3), Do("pay", o3, 3), Do("pay", o3, 4), Do("ship", o2, 1),
                  [Do("ship", o2, 4) EXCEPT !.key = <<K(3), "confirmed">>]}

OrderScenarios == {OrderScenario(PaymentCalls), OrderScenario(ImportCalls),
                   OrderScenario(KeyReuseCalls)}
OrderCalls == PaymentCalls \cup ImportCalls \cup KeyReuseCalls

\* One settler only.
Alone(s) == [x \in Settlers |-> IF x = s THEN BothDays ELSE {}]

\* One date for each settler.
OwnDate(s) == [x \in Settlers |-> {SettleDefault(IF x = s THEN 1 ELSE 2)}]

\* One order, and two settlements of any date under any key; two orders that fit
\* no settlement column together, one of them refunded; two orders that fit, and
\* two settlements of two dates that lock the same rows.
SettleScenarios ==
    {SettleScenario(SettleOneCalls, [s \in Settlers |-> SettleOneSettles], {"ack_lost", "crash"})}
    \cup {SettleScenario(SettleTwoCalls, Alone(s), Faults) : s \in Settlers}
    \cup {SettleScenario(TwoPaidCalls, OwnDate(s), {}) : s \in Settlers}
ScenarioCalls == SettleOneCalls \cup SettleTwoCalls \cup TwoPaidCalls

\* The payment of one order; one order paid and refunded behind two settlements,
\* of one date or of two.
LiveScenarios == {OrderScenario(FeeWindowCalls),
                  SettleScenario(PaidOrRefundedCalls, OwnDate(s1), {}),
                  SettleScenario(PaidOrRefundedCalls, [s \in Settlers |-> {SettleDefault(1)}], {})}
LiveCalls == FeeWindowCalls \cup PaidOrRefundedCalls
=============================================================================
