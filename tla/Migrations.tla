------------------------------ MODULE Migrations ------------------------------
(***************************************************************************)
(* The schema of the PostgreSQL database: the runner of versioned          *)
(* migrations (database/pg_migrator.py, scripts/migrate_pg.py) and the     *)
(* bootstrap of an application that starts (_init_postgresql in            *)
(* database/database.py).  Both take one advisory lock, the runner for its *)
(* session and the bootstrap for its transaction.                          *)
(*                                                                         *)
(* A release is what a directory of migrations holds: the content of the   *)
(* file of each version.  Runners and applications of different releases   *)
(* meet during a deployment.                                               *)
(***************************************************************************)
EXTENDS Integers, Sequences, FiniteSets

CONSTANTS
  Runner,    \* runs of scripts/migrate_pg.py
  App,       \* applications that start
  Nobody,
  Releases,  \* functions from versions to contents
  Databases  \* what the database may hold at first

VARIABLES
  schema,    \* the migrations executed, in order
  broken,    \* some objects of the baseline are missing, others exist
  table,     \* schema_migrations exists
  recorded,  \* its rows: the content of each version
  lock,      \* who holds _PG_SCHEMA_LOCK
  pc, release, plan,
  blind      \* history: a release adopted a schema with migrations it lacks

database == <<schema, broken, table, recorded>>
vars == <<database, lock, pc, release, plan, blind>>

Process == Runner \cup App

File == [version : UNION {DOMAIN files : files \in Releases},
         content : UNION {{files[v] : v \in DOMAIN files} : files \in Releases}]

\* The rows say what was executed: each recorded version once and in order, with
\* the recorded content (the baseline may be the one of an older bootstrap,
\* adopted by name).
Tells(rows, executed) ==
  /\ Len(executed) = Cardinality(DOMAIN rows)
  /\ \A v \in DOMAIN executed : /\ executed[v].version = v
                                /\ v > 1 => executed[v].content = rows[v]

\* Directories hold finitely many files, numbered with digits.  The first thing
\* any database executes is the baseline, and a record it already has is true.
ASSUME MigrationsAssumption ==
  /\ Nobody \notin Process
  /\ Releases # {}
  /\ \A files \in Releases : IsFiniteSet(DOMAIN files) /\ DOMAIN files \subseteq Nat
  /\ \A d \in Databases :
       /\ d.schema \in Seq(File) /\ d.broken \in BOOLEAN
       /\ d.schema # <<>> => d.schema[1].version = 1
       /\ IsFiniteSet(DOMAIN d.recorded)
       /\ \A v \in DOMAIN d.recorded : [version |-> v, content |-> d.recorded[v]] \in File
       /\ DOMAIN d.recorded # {} => Tells(d.recorded, d.schema)

-----------------------------------------------------------------------------

Nothing == [adopt |-> {}, apply |-> {}]

\* Mutants: a lock under another key, and adoption whatever follows 001.
AlwaysFree == TRUE
AnyRelease(files) == TRUE

\* pg_try_advisory_lock and pg_advisory_xact_lock succeed.
Free == lock = Nobody

\* discover_migrations: unique versions, contiguous from 1.
WellNumbered(files) ==
  DOMAIN files # {} /\ DOMAIN files = 1 .. Cardinality(DOMAIN files)

\* _classify_against_baseline: by name only.
Class ==
  IF broken THEN "partial"
  ELSE IF \E i \in DOMAIN schema : schema[i].version = 1 THEN "complete" ELSE "fresh"

\* _verify_applied: no gap, no version the files lack, no file changed.
Agrees(files) ==
  /\ DOMAIN recorded = 1 .. Cardinality(DOMAIN recorded)
  /\ DOMAIN recorded \subseteq DOMAIN files
  /\ \A v \in DOMAIN recorded : recorded[v] = files[v]

\* The baseline is adopted only when no later migration may have been lost.
OnlyBaseline(files) == DOMAIN files = {1}

\* plan_migrations without its answer: what makes it fail,
Refuses(files) ==
  \/ ~WellNumbered(files) \/ ~Agrees(files)
  \/ /\ DOMAIN recorded = {}
     /\ \/ Class = "partial"
        \/ Class = "complete" /\ ~OnlyBaseline(files)

\* and the versions to record unexecuted and those to execute.
Planned(files) ==
  LET adopted == IF DOMAIN recorded = {} /\ Class = "complete" THEN {1} ELSE {}
  IN  [adopt |-> adopted, apply |-> DOMAIN files \ (DOMAIN recorded \cup adopted)]

Least(versions) == CHOOSE v \in versions : \A u \in versions : v <= u

Recorded(v, content) ==
  [u \in DOMAIN recorded \cup {v} |-> IF u = v THEN content ELSE recorded[u]]

To(p, step) == pc' = [pc EXCEPT ![p] = step]

-----------------------------------------------------------------------------
(* run_migrations                                                          *)

\* The arguments are parsed and the directory validated before any connection.
Start(r) ==
  /\ r \in Runner /\ pc[r] = "idle"
  /\ \E files \in Releases, mode \in {"acquire", "acquire_dry"} :
       release' = [release EXCEPT ![r] = files] /\ To(r, mode)
  /\ UNCHANGED <<database, lock, plan, blind>>

\* _acquire_lock polls the session lock,
Acquire(r) ==
  /\ pc[r] \in {"acquire", "acquire_dry"} /\ Free
  /\ lock' = r
  /\ To(r, IF pc[r] = "acquire" THEN "plan" ELSE "plan_dry")
  /\ UNCHANGED <<database, release, plan, blind>>

\* and gives up after --lock-timeout.
GiveUp(r) ==
  /\ pc[r] \in {"acquire", "acquire_dry"} /\ ~Free
  /\ To(r, "idle")
  /\ UNCHANGED <<database, lock, release, plan, blind>>

\* A plan that is refused or only simulated ends the run without a write.
MakePlan(r) ==
  /\ pc[r] \in {"plan", "plan_dry"}
  /\ IF pc[r] = "plan_dry" \/ Refuses(release[r])
       THEN To(r, "release") /\ UNCHANGED plan
       ELSE /\ plan' = [plan EXCEPT ![r] = Planned(release[r])]
            /\ To(r, "ensure")
  /\ UNCHANGED <<database, lock, release, blind>>

\* Mutant: the runner counts on the table of an earlier run.
TableExists(r) ==
  /\ pc[r] = "ensure" /\ To(r, "work")
  /\ UNCHANGED <<database, lock, release, plan, blind>>

\* _ensure_metadata_table, with its own commit.
EnsureTable(r) ==
  /\ pc[r] = "ensure"
  /\ table' = TRUE
  /\ To(r, "work")
  /\ UNCHANGED <<schema, broken, recorded, lock, release, plan, blind>>

\* _record: the baseline is registered without executing it.
Adopt(r) ==
  LET v == Least(plan[r].adopt) IN
  /\ pc[r] = "work" /\ plan[r].adopt # {}
  /\ recorded' = Recorded(v, release[r][v])
  /\ plan' = [plan EXCEPT ![r].adopt = @ \ {v}]
  /\ blind' = (blind \/ Len(schema) > Cardinality(DOMAIN release[r]))
  /\ UNCHANGED <<schema, broken, table, lock, pc, release>>

\* _execute: a migration and its record are one transaction.  The file is read
\* again here; its content is taken to be the one that the plan checked.
Execute(r) ==
  LET v == Least(plan[r].apply) IN
  /\ pc[r] = "work" /\ plan[r].adopt = {} /\ plan[r].apply # {}
  /\ schema' = Append(schema, [version |-> v, content |-> release[r][v]])
  /\ recorded' = Recorded(v, release[r][v])
  /\ plan' = [plan EXCEPT ![r].apply = @ \ {v}]
  /\ UNCHANGED <<broken, table, lock, pc, release, blind>>

\* A statement of the file fails: its transaction is undone and the rest of the
\* plan left.
Fails(r) ==
  /\ pc[r] = "work" /\ plan[r] # Nothing
  /\ To(r, "release")
  /\ UNCHANGED <<database, lock, release, plan, blind>>

Finish(r) ==
  /\ pc[r] = "work" /\ plan[r] = Nothing
  /\ To(r, "release")
  /\ UNCHANGED <<database, lock, release, plan, blind>>

\* _release_lock, and the connection is closed.
ReleaseLock(r) ==
  /\ pc[r] = "release"
  /\ lock' = Nobody
  /\ To(r, "idle")
  /\ plan' = [plan EXCEPT ![r] = Nothing]
  /\ UNCHANGED <<database, release, blind>>

-----------------------------------------------------------------------------
(* _init_postgresql                                                        *)

\* The bootstrap waits for the lock as its first statement,
Boot(a) ==
  /\ a \in App /\ pc[a] = "idle" /\ Free
  /\ lock' = a
  /\ \E files \in Releases : 1 \in DOMAIN files /\ release' = [release EXCEPT ![a] = files]
  /\ To(a, "inspect")
  /\ UNCHANGED <<database, plan, blind>>

\* and executes 001 on an empty schema; a complete one is left alone, a partial
\* one and a statement that fails stop the application.  Nothing is recorded.
Bootstrap(a) ==
  /\ pc[a] = "inspect"
  /\ \/ /\ Class = "fresh"
        /\ schema' = Append(schema, [version |-> 1, content |-> release[a][1]])
     \/ UNCHANGED schema
  /\ lock' = Nobody
  /\ To(a, "idle")
  /\ UNCHANGED <<broken, table, recorded, release, plan, blind>>

\* A process dies: PostgreSQL undoes its transaction and frees its locks.
Crash(p) ==
  /\ pc[p] # "idle"
  /\ lock' = IF lock = p THEN Nobody ELSE lock
  /\ To(p, "idle")
  /\ plan' = [plan EXCEPT ![p] = Nothing]
  /\ UNCHANGED <<database, release, blind>>

-----------------------------------------------------------------------------

Init ==
  /\ \E d \in Databases :
       /\ schema = d.schema /\ broken = d.broken
       /\ table = (d.recorded # <<>>) /\ recorded = d.recorded
  /\ lock = Nobody
  /\ pc = [p \in Process |-> "idle"]
  /\ release \in [Process -> {CHOOSE files \in Releases : TRUE}]
  /\ plan = [p \in Process |-> Nothing]
  /\ blind = FALSE

Next ==
  \/ \E r \in Runner :
       \/ Start(r) \/ Acquire(r) \/ GiveUp(r) \/ MakePlan(r) \/ EnsureTable(r)
       \/ Adopt(r) \/ Execute(r) \/ Fails(r) \/ Finish(r) \/ ReleaseLock(r)
  \/ \E a \in App : Boot(a) \/ Bootstrap(a)
  \/ \E p \in Process : Crash(p)

Spec == Init /\ [][Next]_vars

-----------------------------------------------------------------------------
(* Properties.                                                             *)

Plan == [adopt : SUBSET {1}, apply : SUBSET UNION {DOMAIN files : files \in Releases}]

\* Every variable stays in its domain, and a migration is never recorded before
\* _ensure_metadata_table has made the table.
TypeOK ==
  /\ schema \in Seq(File)
  /\ broken \in BOOLEAN /\ table \in BOOLEAN /\ blind \in BOOLEAN
  /\ \A v \in DOMAIN recorded : [version |-> v, content |-> recorded[v]] \in File
  /\ DOMAIN recorded # {} => table
  /\ lock \in Process \cup {Nobody}
  /\ pc \in [Process -> {"idle", "acquire", "acquire_dry", "plan", "plan_dry", "ensure",
                         "work", "release", "inspect"}]
  /\ release \in [Process -> Releases]
  /\ plan \in [Process -> Plan]

\* What schema_migrations says is what was executed.  Only a release that adopted
\* a schema with migrations it does not know is excepted.  Runners and bootstraps
\* of any releases meet, fail and die in between.
RecordsTellSchema ==
  DOMAIN recorded # {} /\ ~blind => Tells(recorded, schema)

\* While a runner carries out its plan, planning again would give what is left
\* of it: nobody else touches the schema or its record in the meantime.
PlanStillValid ==
  \A r \in Runner : pc[r] \in {"ensure", "work"} =>
    plan[r] = Planned(release[r]) /\ (plan[r] # Nothing => ~Refuses(release[r]))
===============================================================================
