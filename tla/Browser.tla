------------------------------- MODULE Browser -------------------------------
(***************************************************************************)
(* The dashboard in front of the service: forms that record orders and tabs  *)
(* that show one of them.  router.push after a submission and a way back to  *)
(* the form are the same as a form next to a page: neither keeps anything    *)
(* of the other.                                                            *)
(***************************************************************************)
EXTENDS CreateOrderForm, OrderPage

\* crypto.randomUUID() returns no key twice, and none that a payment derives
\* from another.
ASSUME BrowserAssumption ==
    /\ Forms \cap Tabs = {}
    /\ \A i, j \in DOMAIN Uuids : Uuids[i] = Uuids[j] => i = j
    /\ \A i \in DOMAIN Uuids, j \in DOMAIN FormUuids : Uuids[i] # FormUuids[j]
    /\ \A i \in DOMAIN Uuids, s \in DOMAIN Suffix :
         /\ \A j \in DOMAIN Uuids : Uuids[j] # Append(Uuids[i], Suffix[s])
         /\ \A j \in DOMAIN FormUuids : FormUuids[j] # Append(Uuids[i], Suffix[s])

browserVars == <<vars, httpVars, formVars, pageVars>>

BrowserInit == Init /\ HttpInit /\ FormInit /\ PageInit

ServiceNext(w) == (Serve(w) \/ Disturb(w)) /\ UNCHANGED <<formVars, pageVars>>

BrowserNext ==
    \/ \E t \in Forms : FormNext(t) /\ UNCHANGED pageVars
    \/ \E t \in Tabs : TabNext(t) /\ UNCHANGED formVars
    \/ \E w \in Workers : ServiceNext(w)

BrowserSpec == BrowserInit /\ [][BrowserNext]_browserVars

(***************************************************************************)
(* Fairness.  The service as in SellerLedger; a tab polls, takes the   *)
(* answer that arrives or learns that none will; and its user keeps clicking *)
(* "pay" while it is offered, which is what the page asks for.              *)
(***************************************************************************)
PageFairness(t) ==
    /\ WF_browserVars(PollOrder(t) /\ UNCHANGED formVars)
    /\ WF_browserVars(Answered(t) /\ UNCHANGED formVars)
    /\ WF_browserVars(WorkerDied(t) /\ AfterNetworkError(t) /\ UNCHANGED formVars)
    /\ SF_browserVars(Click(t, "pay") /\ UNCHANGED formVars)

ServiceFairness ==
    \A w \in Workers : SF_browserVars(Serve(w) /\ UNCHANGED <<formVars, pageVars>>)

BrowserFairness == ServiceFairness /\ \A t \in Tabs : PageFairness(t)

BrowserFairSpec == BrowserSpec /\ BrowserFairness
=============================================================================
