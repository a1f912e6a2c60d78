------------------------------ MODULE MCBrowser ------------------------------
(***************************************************************************)
(* An instance of Browser for TLC: one form and up to two pages.  Each       *)
(* behaviour picks one scenario: any customer, three buttons and one failure; *)
(* one customer, the payment and two failures; two tabs that pay one order,  *)
(* while one of its requests dies; or the form alone, filled in twice, with   *)
(* two failures.  The users of all open tabs keep clicking.                  *)
(***************************************************************************)
EXTENDS Browser, MCSellerLedger

CONSTANTS f1, t1, t2

VARIABLE scenario

MCFormUuids == <<<<K(1)>>, <<K(2)>>>>
MCUuids == <<<<K(3)>>, <<K(4)>>, <<K(5)>>>>
MCEntries == {[customer |-> p, amount |-> 150] : p \in {alice, mallory, bob}}

Clicks(actions) ==
    {[op |-> a, order |-> o1, key |-> MCUuids[i], amount |-> 0, party |-> None] :
       a \in actions, i \in DOMAIN MCUuids}

CreatesFor(customers, keys) == {Create(AnyOrder, n, 150, p) : n \in keys, p \in customers}

Scenarios ==
    {[calls |-> CreatesFor({alice, mallory, bob}, {1}) \cup Clicks({"pay", "ship", "refund"}),
      tabs |-> {t1}, faults |-> 1],
     [calls |-> CreatesFor({alice}, {1}) \cup Clicks({"pay"}), tabs |-> {t1}, faults |-> 2],
     [calls |-> CreatesFor({alice}, {1}) \cup Clicks({"pay"}), tabs |-> {t1, t2}, faults |-> 1],
     [calls |-> CreatesFor({alice, mallory}, {1, 2}), tabs |-> {}, faults |-> 2]}
BrowserCalls == UNION {s.calls : s \in Scenarios}

\* A call is one of the scenario's, and goes to the first worker if that is
\* idle; next to a second tab, the only failure is the death of a process.
Followed ==
    /\ \A w \in Workers : pc[w] = "idle" /\ pc'[w] # "idle" => call'[w] \in scenario.calls
    /\ pc[w2] = "idle" /\ pc'[w2] # "idle" => ~Idle(w1)
    /\ \A t \in Tabs \ scenario.tabs : UNCHANGED shown[t]
    /\ faults' <= scenario.faults
    /\ scenario.tabs = {t1, t2} /\ faults' # faults => \E w \in Workers : Crash(w)

ScenarioInit == BrowserInit /\ scenario \in Scenarios
ScenarioNext == BrowserNext /\ Followed /\ UNCHANGED scenario

\* PageFairness of the tabs that are open in the scenario.
Open(t) == t \in scenario.tabs /\ UNCHANGED formVars
OpenPageFairness(t) ==
    /\ WF_browserVars(Open(t) /\ PollOrder(t))
    /\ WF_browserVars(Open(t) /\ Answered(t))
    /\ WF_browserVars(Open(t) /\ WorkerDied(t) /\ AfterNetworkError(t))
    /\ SF_browserVars(Open(t) /\ Click(t, "pay"))

ScenarioFairSpec ==
    /\ ScenarioInit /\ [][ScenarioNext]_<<browserVars, scenario>>
    /\ ServiceFairness /\ \A t \in Tabs : OpenPageFairness(t)
=============================================================================
