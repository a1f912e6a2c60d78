----------------------------- MODULE SeedScript ------------------------------
(***************************************************************************)
(* backend/scripts/seed.ts: brings a fixed list of orders to the states the  *)
(* demo shows, one call after the other, every call under a key derived from *)
(* the order.  It can be killed anywhere and run again.                      *)
(***************************************************************************)
EXTENDS SellerLedger

CONSTANTS List,         \* the [id, customer, amount, flow] of the orders, in order
          SeedKey(_, _), \* `seed:${id}:${op}`
          Seeder,       \* the worker that runs the calls
          MaxMishaps    \* bound: killed or repeated runs and failed statements

\* What seedOrder calls for each flow.
CallsOfFlow ==
    [created   |-> <<"create">>,
     declined  |-> <<"create", "pay">>,
     paid      |-> <<"create", "pay">>,
     shipped   |-> <<"create", "pay", "ship">>,
     delivered |-> <<"create", "pay", "ship", "deliver">>,
     refunded  |-> <<"create", "pay", "refund">>]

\* An entry of the list; the method of payment is left out.
SeedOrder == [id : Orders, customer : Parties, amount : Nat, flow : DOMAIN CallsOfFlow]

SeedCall(spec, op) ==
    [op |-> op, order |-> spec.id, key |-> SeedKey(spec.id, op),
     amount |-> IF op = "create" THEN spec.amount ELSE 0,
     party |-> IF op = "create" THEN spec.customer ELSE None]

\* Every order of the list has an id of its own, and the customer of one that is
\* meant to be declined is one whose card the provider declines.
ASSUME SeedAssumption ==
    /\ Seeder \in Workers /\ MaxMishaps \in Nat /\ List \in Seq(SeedOrder)
    /\ \A i \in DOMAIN List :
         /\ List[i].flow = "declined" => Outcome[List[i].customer] = "declined"
         /\ \A j \in DOMAIN List : List[i].id = List[j].id => i = j

VARIABLES at,           \* the index of the order being seeded, 0 when the script is down
          nth,          \* the index of the next call of its seedOrder
          mishaps       \* how often something went wrong

seedVars == <<at, nth, mishaps>>

SeedInit == Init /\ at = 0 /\ nth = 1 /\ mishaps = 0

\* main() and seedOrder: the position before a call.
MoveTo(i, j) == at' = i /\ nth' = j

Launch == at = 0 /\ MoveTo(1, 1) /\ UNCHANGED <<vars, mishaps>>

Running == at \in DOMAIN List

SeedCalls == CallsOfFlow[List[at].flow]

CallNext ==
    /\ Running
    /\ Start(Seeder) /\ call'[Seeder] = SeedCall(List[at], SeedCalls[nth])
    /\ UNCHANGED <<settleVars, seedVars>>

\* Mutant: no error stops the script.
NothingIsUnexpected(code, c) == FALSE

\* An error stops the script, except one of the payment of an order that is meant
\* to be declined: there any error will do.
Unexpected(code, c) ==
    code # "OK" /\ ~(c.op = "pay" /\ List[at].flow = "declined")

Returned ==
    /\ Running /\ pc[Seeder] = "reply"
    /\ IF Unexpected(outcome[Seeder], call[Seeder]) THEN MoveTo(0, 1)
       ELSE IF nth < Len(SeedCalls) THEN MoveTo(at, nth + 1)
       ELSE MoveTo(at + 1, 1)
    /\ Finish(Seeder)
    /\ UNCHANGED <<settleVars, mishaps>>

Work == Progress(Seeder) /\ pc[Seeder] # "reply" /\ UNCHANGED <<settleVars, seedVars>>

\* A statement of the running call fails.
Disturbed ==
    /\ mishaps < MaxMishaps /\ mishaps' = mishaps + 1
    /\ Failure(Seeder) /\ pc'[Seeder] # "idle"
    /\ UNCHANGED <<settleVars, at, nth>>

\* The process is killed.
Killed ==
    /\ mishaps < MaxMishaps /\ mishaps' = mishaps + 1
    /\ at # 0 /\ MoveTo(0, 1)
    /\ \/ Crash(Seeder)
       \/ pc[Seeder] = "reply" /\ Finish(Seeder)
       \/ pc[Seeder] = "idle" /\ UNCHANGED <<dbVars, orderVars>>
    /\ UNCHANGED settleVars

Done == at = Len(List) + 1

\* The script has ended and is run once more.
RunAgain ==
    /\ Done /\ MoveTo(1, 1)
    /\ mishaps < MaxMishaps /\ mishaps' = mishaps + 1
    /\ UNCHANGED vars

\* What a script that is started again after every failure does.
Onward == Launch \/ CallNext \/ Returned \/ Work

SNext == Onward \/ Disturbed \/ Killed \/ RunAgain

(***************************************************************************)
(* Properties.                                                              *)
(***************************************************************************)

\* A run that ends leaves every order of the list in the state the demo needs,
\* with its fee taken if it was paid, however many runs failed or were killed
\* half-way; only an order meant to be declined may be left undecided.
SeededAsListed ==
    Done => \A i \in DOMAIN List :
              LET row == orders[List[i].id]
              IN  /\ row.status \in
                       [created   |-> {"CREATED"},
                        declined  |-> {"CREATED", "PAYMENT_PROCESSING", "PAYMENT_FAILED"},
                        paid      |-> {"PAID"},
                        shipped   |-> {"SHIPPED"},
                        delivered |-> {"DELIVERED"},
                        refunded  |-> {"REFUNDED"}][List[i].flow]
                  /\ PaidLike(List[i].id) => row.fee # NoFee
=============================================================================
