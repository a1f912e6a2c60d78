------------------------------ MODULE LoadTest -------------------------------
(***************************************************************************)
(* backend/scripts/load-test.ts against the service: a pool of requests that *)
(* creates orders (some twice, at the same time), pays them all, settles the *)
(* day twice and verifies the books.  It expects every request to succeed.   *)
(***************************************************************************)
EXTENDS HttpApi

CONSTANTS Creates,      \* the calls of the first phase, in the order of the jobs
          Pays,         \* the calls of the second
          SettleKey,    \* the key of both settlements
          Tester        \* the settler that serves the script

ASSUME LoadTestAssumption ==
    /\ Tester \in Settlers
    /\ Creates \in Seq({c \in Call : c.op = "create" /\ c.order \in Orders})
    /\ Pays \in Seq({c \in Call : c.op = "pay"})

VARIABLES phase,        \* where main() is
          next,         \* the index of the next job of the pool
          failures,     \* the jobs of this phase that were not answered with 2xx
          first,        \* the answer to the first settlement
          date          \* the day it asked for

testVars == <<phase, next, failures, first, date>>

TestInit ==
    /\ HttpInit
    /\ phase = "create" /\ next = 1 /\ failures = 0
    /\ first = NoSettlement /\ date = NoDay

Jobs == IF phase = "create" THEN Creates ELSE Pays

\* pool: each of its workers takes the next job when its last one is done.
TakeJob(x) ==
    /\ phase \in {"create", "pay"}
    /\ next <= Len(Jobs)
    /\ \A w \in Workers : waiting[w] # x
    /\ Request(x, Jobs[next])
    /\ next' = next + 1
    /\ UNCHANGED <<phase, failures, first, date>>

JobDone(x) ==
    /\ \E code \in Errors \cup {"OK"} :
         Answer(x, code) /\ failures' = IF code = "OK" THEN failures ELSE failures + 1
    /\ UNCHANGED <<phase, next, first, date>>

\* Promise.all: the phase is over when the last job is.
EndPhase ==
    /\ phase \in {"create", "pay"}
    /\ next > Len(Jobs) /\ \A w \in Workers : waiting[w] = Nobody
    /\ phase' = IF failures > 0 THEN "FAIL" ELSE IF phase = "create" THEN "pay" ELSE "settle"
    /\ next' = 1
    /\ failures' = 0
    /\ UNCHANGED <<vars, httpVars, first, date>>

\* The date is the day on which the settling begins.
AskSettlement ==
    /\ phase \in {"settle", "again"}
    /\ date' = IF phase = "settle" THEN today ELSE date
    /\ StartSettle(Tester) /\ scall'[Tester] = [day |-> date', key |-> SettleKey]
    /\ UNCHANGED <<orderVars, httpVars, phase, next, failures, first>>

\* "settlement is not idempotent": another payout, or no replay.
SettlementAnswered ==
    /\ spc[Tester] = "reply"
    /\ LET row == settlements[scall[Tester].day]
           ok  == result[Tester] \in {"SETTLED", "ALREADY_SETTLED"}
       IN  \/ /\ phase = "settle"
              /\ phase' = "again"
              /\ first' = IF ok THEN row ELSE NoSettlement
           \/ /\ phase = "again"
              /\ phase' = IF result[Tester] = "ALREADY_SETTLED" /\ row.payout = first.payout
                          THEN "verify" ELSE "FAIL"
              /\ UNCHANGED first
    /\ FinishSettle(Tester)
    /\ UNCHANGED <<orderVars, httpVars, next, failures, date>>

\* The trial balance, then the balance of single orders.
Verify ==
    /\ phase = "verify"
    /\ phase' = IF /\ MapThenSumSet(LAMBDA o : Balance(ledger[o]), Orders) = 0
                   /\ \A o \in Orders : Balance(ledger[o]) = 0
                THEN "PASS" ELSE "FAIL"
    /\ UNCHANGED <<vars, httpVars, next, failures, first, date>>

ClientStep ==
    \/ \E x \in Clients : TakeJob(x) \/ JobDone(x)
    \/ EndPhase \/ AskSettlement \/ SettlementAnswered
    \/ Verify

ServeSettlement ==
    /\ SettleProgress(Tester) /\ spc[Tester] # "reply"
    /\ UNCHANGED <<orderVars, httpVars, testVars>>

Midnight == AdvanceDay /\ UNCHANGED <<orderVars, settleVars, httpVars, testVars>>

LNext ==
    \/ ClientStep
    \/ \E w \in Workers : Serve(w) /\ UNCHANGED testVars
    \/ ServeSettlement
    \/ Midnight

(***************************************************************************)
(* Properties.                                                              *)
(***************************************************************************)

\* "then proves the books: [...] settlement payout === SUM(amount - fee) of the
\* paid orders" (load-test.ts:4-8): when the script passes, the settlement it
\* asked for has paid out every paid order there is.
WholeRunIsPaidOut ==
    phase = "PASS" =>
        first.payout = MapThenSumSet(LAMBDA o : orders[o].amount - CalculateFee(orders[o].amount),
                                     {o \in Orders : PaidLike(o)})
=============================================================================
