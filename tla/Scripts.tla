------------------------------- MODULE Scripts -------------------------------
(***************************************************************************)
(* The two scripts of backend/package.json on one database, in the order the *)
(* README runs them: `npm run db:seed`, then `npm run load-test` against the *)
(* API that serves the seeded orders.                                       *)
(***************************************************************************)
EXTENDS SeedScript, LoadTest

\* `ord_${RUN_ID}_${i}`: the load test makes orders of its own.
ASSUME ScriptsAssumption ==
    \A i \in DOMAIN List :
        /\ \A j \in DOMAIN Creates : Creates[j].order # List[i].id
        /\ \A j \in DOMAIN Pays : Pays[j].order # List[i].id

ScriptVars == <<vars, httpVars, seedVars, testVars>>

Seeding == SNext /\ UNCHANGED <<httpVars, testVars>>

\* The load test is begun once, after the last run of the seed.
Loading == Done /\ LNext /\ UNCHANGED seedVars

Untested == phase = "create" /\ next = 1

ScriptsInit == SeedInit /\ TestInit
ScriptsNext == (Untested /\ Seeding) \/ Loading

ScriptsSpec == ScriptsInit /\ [][ScriptsNext]_ScriptVars

\* Both scripts and the server run until they have nothing left to do.
ScriptsFairSpec ==
    /\ ScriptsSpec
    /\ WF_ScriptVars(Untested /\ Onward /\ UNCHANGED <<httpVars, testVars>>)
    /\ WF_ScriptVars(Done /\ ClientStep /\ UNCHANGED seedVars)
    /\ \A w \in Workers : SF_ScriptVars(Serve(w) /\ UNCHANGED <<seedVars, testVars>>)
    /\ SF_ScriptVars(ServeSettlement /\ UNCHANGED seedVars)

\* The seed gets through, whatever failed before, and on what it leaves behind
\* the load test passes, whatever the interleaving of the twin creates and
\* wherever midnight falls (load-test.ts:1-9).
LoadTestPasses == <>(phase = "PASS")
=============================================================================
