----------------------------- MODULE Migration -----------------------------
(***************************************************************************)
(* The data migrations run at server start (storage/migration/index.ts,    *)
(* applyPendingMigrations) and the runner below them                       *)
(* (storage/migration/migration-runner.ts), with the database they change. *)
(*                                                                         *)
(* SQLite commits every statement by itself, no transaction spans two of   *)
(* them, and the process can die between any two.  A record is replaced by *)
(* a DELETE and an INSERT, so there is a moment without one.  One action   *)
(* is one statement on the database; planning reads it once.               *)
(*                                                                         *)
(* Migrations are numbered by their version and depend on lower versions   *)
(* only, as the registry's convention has it; Kahn's algorithm then sorts  *)
(* them by version.  They are idempotent, as the registry demands.         *)
(* Each operation has a runner of its own, as createMigrationRunner gives  *)
(* its callers, so what a runner remembers of a finished operation and its *)
(* lock are not modelled.  A statement that fails has no effect.           *)
(***************************************************************************)
EXTENDS Naturals

CONSTANTS
    N,             \* versions are 1..N
    Irreversible,  \* versions without a way down, or marked destructive
    NSql,          \* statements of a migration, in either direction
    MaxFaults,     \* bound: failing statements and crashes
    MaxRollbacks   \* bound: rollbacks

ASSUME SizesAssumption ==
    /\ N \in Nat /\ NSql \in Nat \ {0}
    /\ MaxFaults \in Nat /\ MaxRollbacks \in Nat

Migrations == 1..N

VARIABLES
    deps,        \* dependsOn, by version; fixed by the code base
    registered,  \* the registry of the running release
    db,          \* stored: status of each record; effect: what was done to
                 \* the data; versioned: the schema_version row
    snap,        \* the pre-migration snapshot
    pc,          \* what the process does next
    dir,         \* direction of the running operation
    plan,        \* its remaining migrations, taken in their order
    saving,      \* the status being saved
    done,        \* statements of the current migration executed
    faults, rollbacks

vars == <<deps, registered, db, snap, pc, dir, plan, saving, done,
          faults, rollbacks>>
code == <<deps, registered>>
bounds == <<faults, rollbacks>>
operation == <<dir, plan, saving, done>>

Statuses == {"none", "running", "completed", "failed", "rolled_back"}

Databases ==
    [stored : [Migrations -> Statuses],
     effect : [Migrations -> {"none", "partial", "full"}],
     versioned : {"never", "yes", "lost"}]

\* topologicalSort() gives the lowest version first, createDownPlan() runs
\* through that from the end.
Current_Ascending == CHOOSE m \in plan : \A n \in plan : m <= n
Current == CHOOSE m \in plan : \A n \in plan : IF dir = "up" THEN m <= n ELSE n <= m

Final == IF dir = "up" THEN "completed" ELSE "rolled_back"

Fault == /\ faults < MaxFaults
         /\ faults' = faults + 1
         /\ UNCHANGED rollbacks

Init ==
    /\ deps \in [Migrations -> SUBSET Migrations]
    /\ \A m \in Migrations : \A d \in deps[m] : d < m
    /\ registered = {}
    /\ \E v \in {"never", "yes"} :
          db = [stored |-> [m \in Migrations |-> "none"],
                effect |-> [m \in Migrations |-> "none"],
                versioned |-> v]
    /\ snap = db
    /\ pc = "off" /\ dir = "up" /\ plan = {} /\ saving = "running"
    /\ done = 0 /\ faults = 0 /\ rollbacks = 0

-----------------------------------------------------------------------------
(* Planning. *)

AppliedVersions(read) ==
    {m \in Migrations : read /\ db.stored[m] = "completed"}

ValidateDependencies(reg) == \A m \in reg : deps[m] \subseteq reg

UpPlan_FailedSkipped(reg, read) ==
    {m \in reg \ AppliedVersions(read) : db.stored[m] # "failed"}
UpPlan(reg, read) == reg \ AppliedVersions(read)

DownPlan(target) == {m \in registered \cap AppliedVersions(TRUE) : m > target}

(* The boot of a release: the compatibility check, then applyPendingMigrations *)
(* up to its plan.  A table that cannot be read counts as an empty one.        *)
(* Without a plan, or when it throws, the boot goes on.                        *)
Boot ==
    /\ pc = "off"
    /\ db.versioned = "yes"
    /\ \E reg \in SUBSET Migrations, read \in BOOLEAN :
          /\ registered \subseteq reg
          /\ registered' = reg
          /\ \/ read /\ UNCHANGED bounds
             \/ ~read /\ Fault
          /\ plan' = IF ValidateDependencies(reg) THEN UpPlan(reg, read) ELSE {}
    /\ pc' = IF plan' = {} THEN "serving" ELSE "snapshot"
    /\ dir' = "up" /\ saving' = "running" /\ done' = 0
    /\ UNCHANGED <<deps, db, snap>>

(* verifySchemaCompat finds no schema_version and aborts the boot. *)
BootRefused ==
    /\ pc \in {"off", "refused"}
    /\ db.versioned # "yes"
    /\ pc' = "refused"
    /\ UNCHANGED <<code, db, snap, operation, bounds>>

(* createPreMigrationSnapshot copies the databases, or throws. *)
TakeSnapshot ==
    /\ pc = "snapshot"
    /\ snap' = db /\ pc' = "delete"
    /\ UNCHANGED <<code, db, operation, bounds>>

SnapshotFails ==
    /\ pc = "snapshot" /\ Fault
    /\ pc' = "serving"
    /\ UNCHANGED <<code, db, snap, operation>>

(* rollback(target), by a process of its own while the server is down.  It *)
(* throws when a migration of its plan cannot be undone.                   *)
Rollback(target) ==
    /\ pc = "off" /\ rollbacks < MaxRollbacks
    /\ rollbacks' = rollbacks + 1
    /\ ValidateDependencies(registered)
    /\ plan' = DownPlan(target)
    /\ plan' # {} /\ plan' \cap Irreversible = {}
    /\ dir' = "down" /\ saving' = "running" /\ done' = 0
    /\ pc' = "delete"
    /\ UNCHANGED <<code, db, snap, faults>>

-----------------------------------------------------------------------------
(* applyMigration.  saveRecord is DeleteRecord, then InsertRecord. *)

DeleteRecord ==
    /\ pc = "delete"
    /\ db' = [db EXCEPT !.stored[Current] = "none"]
    /\ pc' = "insert"
    /\ UNCHANGED <<code, snap, operation, bounds>>

InsertRecord ==
    /\ pc = "insert"
    /\ db' = [db EXCEPT !.stored[Current] = saving]
    /\ \/ /\ saving = "running"
          /\ pc' = "statement" /\ done' = 0
          /\ UNCHANGED <<dir, plan, saving>>
       \/ /\ saving = Final
          /\ plan' = plan \ {Current} /\ saving' = "running"
          /\ pc' = IF plan' = {} THEN "version" ELSE "delete"
          /\ UNCHANGED <<dir, done>>
       \/ /\ saving = "failed"
          /\ pc' = "unwind"
          /\ UNCHANGED operation
    /\ UNCHANGED <<code, snap, bounds>>

(* Either half of saveRecord throws.  Before the try the error leaves the   *)
(* plan; inside it the migration is marked failed; an error while marking   *)
(* it is only logged.                                                       *)
SaveFails ==
    /\ pc \in {"delete", "insert"} /\ Fault
    /\ IF saving = Final
       THEN saving' = "failed" /\ pc' = "delete"
       ELSE pc' = "unwind" /\ UNCHANGED saving
    /\ UNCHANGED <<code, db, snap, dir, plan, done>>

(* One statement of the migration.  Those of an applied migration find *)
(* nothing left to do.                                                 *)
Effect(m) ==
    CASE done + 1 = NSql -> IF dir = "up" THEN "full" ELSE "none"
      [] dir = "up" /\ db.effect[m] = "full" -> "full"
      [] dir = "down" /\ db.effect[m] = "none" -> "none"
      [] OTHER -> "partial"

Statement_OneShort ==
    /\ pc = "statement"
    /\ db' = [db EXCEPT !.effect[Current] = Effect(Current)]
    /\ done' = done + 1
    /\ IF done + 1 = NSql - 1
       THEN pc' = "delete" /\ saving' = Final
       ELSE UNCHANGED <<pc, saving>>
    /\ UNCHANGED <<code, snap, dir, plan, bounds>>

Statement ==
    /\ pc = "statement"
    /\ db' = [db EXCEPT !.effect[Current] = Effect(Current)]
    /\ done' = done + 1
    /\ IF done + 1 = NSql
       THEN pc' = "delete" /\ saving' = Final
       ELSE UNCHANGED <<pc, saving>>
    /\ UNCHANGED <<code, snap, dir, plan, bounds>>

StatementFails ==
    /\ pc = "statement" /\ Fault
    /\ saving' = "failed" /\ pc' = "delete"
    /\ UNCHANGED <<code, db, snap, dir, plan, done>>

-----------------------------------------------------------------------------
(* The end of the operation. *)

Over == IF dir = "up" THEN "serving" ELSE "off"

(* persistSchemaVersion, again a DELETE and an INSERT. *)
DropVersion ==
    /\ pc = "version"
    /\ db' = [db EXCEPT !.versioned = "lost"]
    /\ pc' = "newVersion"
    /\ UNCHANGED <<code, snap, operation, bounds>>

NewVersion ==
    /\ pc = "newVersion"
    /\ db' = [db EXCEPT !.versioned = "yes"]
    /\ pc' = Over
    /\ UNCHANGED <<code, snap, operation, bounds>>

VersionFails ==
    /\ pc \in {"version", "newVersion"} /\ Fault
    /\ pc' = "unwind"
    /\ UNCHANGED <<code, db, snap, operation>>

(* The failed upgrade of a boot is answered with the snapshot, when that *)
(* can be copied back; the boot goes on either way.  A failed rollback   *)
(* just throws.                                                          *)
Restore ==
    /\ pc = "unwind"
    /\ db' = IF dir = "up" THEN snap ELSE db
    /\ pc' = Over
    /\ UNCHANGED <<code, snap, operation, bounds>>

RestoreFails ==
    /\ pc = "unwind" /\ dir = "up" /\ Fault
    /\ pc' = "serving"
    /\ UNCHANGED <<code, db, snap, operation>>

Stop ==
    /\ pc = "serving" /\ pc' = "off"
    /\ UNCHANGED <<code, db, snap, operation, bounds>>

Crash ==
    /\ pc \notin {"off", "serving", "refused"} /\ Fault
    /\ pc' = "off"
    /\ UNCHANGED <<code, db, snap, operation>>

Step ==
    \/ TakeSnapshot \/ DeleteRecord \/ InsertRecord \/ Statement
    \/ DropVersion \/ NewVersion \/ Restore

Next ==
    \/ Boot \/ BootRefused \/ Stop \/ Crash
    \/ \E target \in 0..N : Rollback(target)
    \/ Step
    \/ SnapshotFails \/ SaveFails \/ StatementFails \/ VersionFails \/ RestoreFails

Spec == Init /\ [][Next]_vars

(* A running operation goes on: nothing else is awaited. *)
FairSpec == Spec /\ WF_vars(Step)

-----------------------------------------------------------------------------
TypeOK ==
    /\ deps \in [Migrations -> SUBSET Migrations]
    /\ registered \subseteq Migrations
    /\ db \in Databases /\ snap \in Databases
    /\ pc \in {"off", "serving", "refused", "snapshot", "delete", "insert",
               "statement", "version", "newVersion", "unwind"}
    /\ dir \in {"up", "down"}
    /\ plan \subseteq Migrations
    /\ saving \in Statuses \ {"none"}
    /\ done \in 0..NSql
    /\ faults \in 0..MaxFaults /\ rollbacks \in 0..MaxRollbacks

(* However statements fail and processes die, a migration recorded as     *)
(* completed has all its effects and one recorded as rolled back has none *)
(* left: the next plan, which believes the records, skips and repeats     *)
(* what it should.                                                        *)
RecordsTellTruth ==
    \A m \in Migrations :
        /\ db.stored[m] = "completed" => db.effect[m] = "full"
        /\ db.stored[m] = "rolled_back" => db.effect[m] = "none"

(* The data a completed migration was built on is there: upgrades go up    *)
(* the dependencies, rollbacks go down, and both give up at the first      *)
(* failure; also when a runner could not read the records and applied      *)
(* everything again.                                                       *)
DependenciesApplied ==
    \A m \in Migrations :
        db.stored[m] = "completed" => \A d \in deps[m] : db.effect[d] = "full"

(* A server that is started again and again, in a release whose registry  *)
(* is complete, ends up with every migration of that registry applied:    *)
(* no half-done, failed or rolled-back migration stays behind for good.   *)
RetriesConverge ==
    (/\ []<>(pc = "serving") /\ []<>(pc = "off")
     /\ <>[]ValidateDependencies(registered))
    => <>[](\A m \in registered :
               db.stored[m] = "completed" /\ db.effect[m] = "full")

(* verify-compat.ts:45 tells the operator of a refused boot that the     *)
(* database predates versioning.                                         *)
RefusedPredatesVersioning ==
    pc = "refused" => db.versioned = "never"
=============================================================================
