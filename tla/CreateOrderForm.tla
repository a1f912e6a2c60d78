--------------------------- MODULE CreateOrderForm ---------------------------
(***************************************************************************)
(* The form that records a new order (frontend/components/                  *)
(* CreateOrderForm.tsx): the key of a submission lives in the state of the   *)
(* React component until the submission succeeds.                           *)
(***************************************************************************)
EXTENDS HttpApi

CONSTANTS Forms,        \* the tabs that show the form
          FormUuids,    \* what crypto.randomUUID() returns, one after the other
          Entries       \* the [customer, amount] pairs a user may type

\* A key is a string, a pendingKey of null is none.
ASSUME FormAssumption ==
    Forms \subseteq Clients /\ FormUuids \in Seq(Keys) /\ None \notin Keys

VARIABLES pendingKey,   \* the key of the submission each form is at
          submitting,         \* whether a form waits for an answer
          drawn,       \* how many keys were drawn so far
          recorded,     \* the keys whose submission was reported as recorded
          forgotten     \* the keys that a reload took with it

formVars == <<pendingKey, submitting, drawn, recorded, forgotten>>

FormInit ==
    /\ pendingKey = [t \in Forms |-> None]
    /\ submitting = [t \in Forms |-> FALSE]
    /\ drawn = 0
    /\ recorded = {} /\ forgotten = {}

\* submit: the user may have edited the fields since the last attempt.
Submit(t) ==
    /\ ~submitting[t]
    /\ \/ pendingKey[t] # None /\ UNCHANGED <<pendingKey, drawn>>
       \/ /\ pendingKey[t] = None /\ drawn < Len(FormUuids)
          /\ drawn' = drawn + 1
          /\ pendingKey' = [pendingKey EXCEPT ![t] = FormUuids[drawn + 1]]
    /\ \E e \in Entries :
         Request(t, [op |-> "create", order |-> AnyOrder, key |-> pendingKey'[t],
                     amount |-> e.amount, party |-> e.customer])
    /\ submitting' = [submitting EXCEPT ![t] = TRUE]
    /\ UNCHANGED <<recorded, forgotten>>

\* Mutant: a failed attempt drops the key as well.
KeyAfterAnyAnswer(t, code) == None

\* setPendingKey(null) on success, nothing in the catch block.
KeyAfter(t, code) == IF code = "OK" THEN None ELSE pendingKey[t]

SubmitAnswered(t) ==
    /\ submitting[t]
    /\ \E code \in Errors \cup {"OK"} :
         /\ Answer(t, code)
         /\ pendingKey' = [pendingKey EXCEPT ![t] = KeyAfter(t, code)]
         /\ recorded' = IF code = "OK" THEN recorded \cup {pendingKey[t]} ELSE recorded
    /\ submitting' = [submitting EXCEPT ![t] = FALSE]
    /\ UNCHANGED <<drawn, forgotten>>

SubmitNotAnswered(t) ==
    /\ submitting[t]
    /\ WorkerDied(t) \/ ConnectionBroke(t)
    /\ pendingKey' = [pendingKey EXCEPT ![t] = KeyAfter(t, "NETWORK_ERROR")]
    /\ submitting' = [submitting EXCEPT ![t] = FALSE]
    /\ UNCHANGED <<drawn, recorded, forgotten>>

\* The page is reloaded: the component starts afresh.
ReloadForm(t) ==
    /\ Reloaded(t)
    /\ pendingKey' = [pendingKey EXCEPT ![t] = None]
    /\ forgotten' = forgotten \cup {pendingKey[t]}
    /\ submitting' = [submitting EXCEPT ![t] = FALSE]
    /\ UNCHANGED <<drawn, recorded>>

FormNext(t) == Submit(t) \/ SubmitAnswered(t) \/ SubmitNotAnswered(t) \/ ReloadForm(t)

(***************************************************************************)
(* Properties.                                                              *)
(***************************************************************************)

\* No order is recorded twice for one submission: every order in the log was
\* reported to its user, or belongs to the submission whose key a form still
\* holds, so that a retry finds it; only a reload loses one.
EveryOrderIsAccountedFor ==
    \A e \in events : e.type = "OrderCreated" =>
        e.key \in recorded \cup forgotten \cup {pendingKey[t] : t \in Forms}
=============================================================================
