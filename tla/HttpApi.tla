------------------------------- MODULE HttpApi -------------------------------
(***************************************************************************)
(* The API between a browser and the service: frontend/lib/api.ts and the    *)
(* routes it calls.  A request is served by one worker; the connection may   *)
(* break at any time, and the worker then goes on for nobody.  A client      *)
(* learns the error code of an answer, or NETWORK_ERROR.                     *)
(***************************************************************************)
EXTENDS SellerLedger

CONSTANTS Clients,      \* who sends requests, one at a time
          Nobody,       \* the client of a worker whose connection is gone
          MaxFaults     \* bound: failures of workers, broken connections, reloads

ASSUME HttpAssumption == Nobody \notin Clients /\ MaxFaults \in Nat

VARIABLES waiting,      \* the client that waits for each worker
          faults        \* failures so far

httpVars == <<waiting, faults>>

HttpInit == waiting = [w \in Workers |-> Nobody] /\ faults = 0

Idle(w) == pc[w] = "idle" /\ waiting[w] = Nobody

\* fetch: some worker takes the request.
Request(client, c) ==
    \E w \in Workers :
        /\ Idle(w)
        /\ Start(w) /\ call'[w] = c
        /\ waiting' = [waiting EXCEPT ![w] = client]
        /\ UNCHANGED <<settleVars, faults>>

\* The envelope of an answer, read by its code.
Answer(client, code) ==
    \E w \in Workers :
        /\ waiting[w] = client /\ pc[w] = "reply"
        /\ outcome[w] = code
        /\ Finish(w)
        /\ waiting' = [waiting EXCEPT ![w] = Nobody]
        /\ UNCHANGED <<settleVars, faults>>

\* The client stops waiting.
Abandon(client) ==
    /\ waiting' = [w \in Workers |-> IF waiting[w] = client THEN Nobody ELSE waiting[w]]
    /\ UNCHANGED vars

\* fetch throws: the worker behind the connection died, or the connection broke.
WorkerDied(client) ==
    /\ \E w \in Workers : waiting[w] = client /\ pc[w] = "idle"
    /\ Abandon(client)
    /\ UNCHANGED faults

ConnectionBroke(client) ==
    /\ \E w \in Workers : waiting[w] = client /\ pc[w] # "idle"
    /\ faults < MaxFaults
    /\ faults' = faults + 1
    /\ Abandon(client)

\* A page is reloaded; whatever it was waiting for goes on without it.
Reloaded(client) ==
    /\ faults < MaxFaults
    /\ faults' = faults + 1
    /\ Abandon(client)

\* The answer of an abandoned request goes nowhere.
Serve(w) ==
    /\ Progress(w)
    /\ pc[w] = "reply" => waiting[w] = Nobody
    /\ UNCHANGED <<settleVars, httpVars>>

Disturb(w) ==
    /\ faults < MaxFaults
    /\ faults' = faults + 1
    /\ Failure(w)
    /\ UNCHANGED <<settleVars, waiting>>
=============================================================================
