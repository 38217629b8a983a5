----------------------------- MODULE Migrations -----------------------------
(***************************************************************************)
(* core/db/migrate.py, which runs before the core starts to serve          *)
(* ("migrate && exec uvicorn") and may be run by hand at the same time.    *)
(*                                                                         *)
(* A runner takes a session-level advisory lock, walks the sorted files    *)
(* and applies those the ledger schema_migrations does not name, each in a *)
(* transaction with its ledger row.  PostgreSQL gives up the lock and the  *)
(* open transaction of a runner that dies.  What a file changes is left    *)
(* out, except whether its change is in the database: databases older than *)
(* the ledger have had some files applied manually.                        *)
(* An operator named Op_Variant is a faulty variant of Op that no action   *)
(* uses.                                                                   *)
(***************************************************************************)
EXTENDS Integers

CONSTANTS
    Runners,   \* processes that run migrate()
    LastFile,  \* the migration files, in sorted order, are 1..LastFile
    NoRunner,
    MaxStops   \* bound: files whose SQL fails, and runners that die

\* What is assumed of them; who takes an instance of this module assumes it.
ParametersFit == NoRunner \notin Runners /\ LastFile \in Nat /\ MaxStops \in Nat

VARIABLES
    ledger,   \* schema_migrations
    changed,  \* files whose change is in the database
    lock,     \* holder of the advisory lock
    step,     \* the statement a runner is about to make
    file,     \* for this file
    stops

vars == <<ledger, changed, lock, step, file, stops>>

Files == 1..LastFile

TypeOK ==
    /\ ledger \subseteq Files
    /\ changed \subseteq Files
    /\ lock \in Runners \cup {NoRunner}
    /\ step \in [Runners -> {"down", "lock", "check", "apply", "unlock", "done"}]
    /\ file \in [Runners -> 1..LastFile + 1]
    /\ stops \in Nat

Init ==
    /\ ledger = {}
    /\ changed \in SUBSET Files
    /\ lock = NoRunner
    /\ step = [r \in Runners |-> "down"]
    /\ file = [r \in Runners |-> 1]
    /\ stops = 0

-----------------------------------------------------------------------------

Goto(r, s) == step' = [step EXCEPT ![r] = s]

\* The container starts; the connection is made.
Start(r) ==
    /\ step[r] = "down"
    /\ Goto(r, "lock")
    /\ UNCHANGED <<ledger, changed, lock, file, stops>>

TakeLock_Shared(r) ==
    /\ step[r] = "lock"
    /\ lock' = r
    /\ file' = [file EXCEPT ![r] = 1]
    /\ Goto(r, "check")
    /\ UNCHANGED <<ledger, changed, stops>>

\* pg_advisory_lock waits; the ledger table is made if there is none.
TakeLock(r) ==
    /\ step[r] = "lock"
    /\ lock = NoRunner
    /\ lock' = r
    /\ file' = [file EXCEPT ![r] = 1]
    /\ Goto(r, "check")
    /\ UNCHANGED <<ledger, changed, stops>>

Check_TrustsFirst(r) ==
    /\ step[r] = "check"
    /\ IF file[r] > LastFile \/ 1 \in ledger
       THEN Goto(r, "unlock") /\ UNCHANGED file
       ELSE Goto(r, "apply") /\ UNCHANGED file
    /\ UNCHANGED <<ledger, changed, lock, stops>>

\* Is the next file in the ledger?
Check(r) ==
    /\ step[r] = "check"
    /\ IF file[r] > LastFile THEN Goto(r, "unlock") /\ UNCHANGED file
       ELSE IF file[r] \in ledger THEN file' = [file EXCEPT ![r] = @ + 1] /\ UNCHANGED step
       ELSE Goto(r, "apply") /\ UNCHANGED file
    /\ UNCHANGED <<ledger, changed, lock, stops>>

\* finally: the lock is given back, and the runner ends.
Leave(r, s) ==
    /\ lock' = IF lock = r THEN NoRunner ELSE lock
    /\ Goto(r, s)
    /\ UNCHANGED <<ledger, changed, file>>

\* The file and its ledger row, in one transaction; a ledger row that exists
\* already rolls it back and raises.
Apply(r) ==
    /\ step[r] = "apply"
    /\ IF file[r] \in ledger THEN Leave(r, "down")
       ELSE /\ ledger' = ledger \cup {file[r]}
            /\ changed' = changed \cup {file[r]}
            /\ file' = [file EXCEPT ![r] = @ + 1]
            /\ Goto(r, "check")
            /\ UNCHANGED lock
    /\ UNCHANGED stops

Unlock(r) ==
    /\ step[r] = "unlock"
    /\ Leave(r, "done")
    /\ UNCHANGED stops

\* The SQL of a file fails, or the process dies anywhere, or later as the core.
Stop(r) ==
    /\ step[r] # "down"
    /\ stops < MaxStops
    /\ stops' = stops + 1
    /\ Leave(r, "down")

RunnerStep(r) ==
    Start(r) \/ TakeLock(r) \/ Check(r) \/ Apply(r) \/ Unlock(r)

Next == \E r \in Runners : RunnerStep(r) \/ Stop(r)

Spec == Init /\ [][Next]_vars

-----------------------------------------------------------------------------
(***************************************************************************)
(* Properties.                                                             *)
(***************************************************************************)

\* Who comes to apply a file has found it missing under the lock, and so it
\* still is: no two runners work on one file, although the check and the
\* transaction are apart, and no file is applied before those sorted before it.
NoRunnerRaces ==
    \A r \in Runners : step[r] = "apply" =>
        /\ file[r] \notin ledger
        /\ 1..file[r] - 1 \subseteq ledger

\* The core serves, and a run by hand ends well, only on a database that has
\* every change and knows it, however many runners died or raised on the way.
SchemaIsCurrent ==
    \A r \in Runners : step[r] = "done" => ledger = Files /\ changed = Files

-----------------------------------------------------------------------------
(***************************************************************************)
(* The inductive invariant behind the theorems of CoreProcessProofs.       *)
(***************************************************************************)

\* Who walks the files holds the lock, has passed no file that is not in the
\* ledger, and has no one beside it to add the one it is about to apply.
LockProtects ==
    \A r \in Runners :
        /\ step[r] \in {"check", "apply", "unlock"} => lock = r
        /\ step[r] \in {"check", "apply"} => 1..file[r] - 1 \subseteq ledger
        /\ step[r] = "apply" => file[r] \in Files \ ledger
        /\ step[r] \in {"unlock", "done"} => ledger = Files

IndInv == TypeOK /\ LockProtects /\ ledger \subseteq changed
=============================================================================
