----------------------------- MODULE CoreProcess -----------------------------
(***************************************************************************)
(* The life of the core container: it migrates the schema, then serves and *)
(* runs the delivery loop, until it stops and the container is started     *)
(* again ("restart: unless-stopped").  Webhooks under the life of the      *)
(* process that runs it, which is one of the runners of Migrations.        *)
(***************************************************************************)
EXTENDS Webhooks

CONSTANTS Runners, LastFile, NoRunner, MaxStops,
    Core     \* the runner that goes on to serve

ASSUME CoreAssumption == Core \in Runners

VARIABLES ledger, changed, lock, step, file, stops

Schema == INSTANCE Migrations

ASSUME SchemaAssumption == Schema!ParametersFit

schemaVars == <<ledger, changed, lock, step, file, stops>>
allVars    == <<vars, schemaVars>>

Serving == step[Core] = "done"

CoreInit == Init /\ Schema!Init

\* A process that stops takes its pass with it; the next one sleeps first.
CoreStops ==
    /\ Schema!Stop(Core)
    /\ IF at = "sleep" THEN UNCHANGED vars ELSE Fail

\* A step of the loop, or an exception that ends its pass and nothing more.
LoopStep ==
    /\ Serving
    /\ Fetch \/ PassStep \/ Fail
    /\ UNCHANGED schemaVars

\* The chains and the clock do not wait for the core: the bot answers too.
Meanwhile ==
    /\ Tick \/ \E c \in Chains : Decide(c)
    /\ UNCHANGED schemaVars

SchemaStep(r) ==
    /\ Schema!RunnerStep(r) \/ (r # Core /\ Schema!Stop(r))
    /\ UNCHANGED vars

CoreNext ==
    \/ CoreStops
    \/ LoopStep
    \/ Meanwhile
    \/ \E r \in Runners : SchemaStep(r)

CoreSpec == CoreInit /\ [][CoreNext]_allVars

\* Docker starts the container again, statements return, and PostgreSQL grants
\* the lock in the order it was asked for.  Nobody need run a migration by
\* hand, but one that runs takes its steps.
CoreFairness ==
    /\ WF_allVars(Serving /\ Fetch /\ UNCHANGED schemaVars)
    /\ WF_allVars(Serving /\ PassStep /\ UNCHANGED schemaVars)
    /\ WF_allVars(Tick /\ UNCHANGED schemaVars)
    /\ WF_allVars(SchemaStep(Core))
    /\ \A r \in Runners : WF_allVars(step[r] # "down" /\ SchemaStep(r))

CoreFairSpec == CoreSpec /\ CoreFairness

-----------------------------------------------------------------------------

\* No pass runs unless the core serves, that is, on a schema it knows.
PassNeedsSchema == at # "sleep" => Serving /\ ledger = Schema!Files

NoRunnerRaces   == Schema!NoRunnerRaces
SchemaIsCurrent == Schema!SchemaIsCurrent
=============================================================================
