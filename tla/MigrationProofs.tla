--------------------------- MODULE MigrationProofs ---------------------------
(***************************************************************************)
(* Migration for any number of migrations, any dependencies among them,    *)
(* any number of statements, faults, crashes and rollbacks: the records    *)
(* never claim more than was done, and a completed migration keeps what it *)
(* depends on.                                                             *)
(***************************************************************************)
EXTENDS Migration, WellFoundedInduction, TLAPS

(***************************************************************************)
(* The plan has a first and a last migration.                              *)
(***************************************************************************)
LEMMA Least ==
    ASSUME NEW S \in SUBSET Nat, S # {}
    PROVE  \E m \in S : \A n \in S : m <= n
<1>1. PICK m \in S : \A n \in S : <<n, m>> \notin OpToRel(<, Nat)
  BY NatLessThanWellFounded, WFMin
<1>2. \A n \in S : n < m => <<n, m>> \in OpToRel(<, Nat)
  BY DEF OpToRel
<1>3. \A n \in S : ~ (n < m)
  BY <1>1, <1>2
<1>4. QED
  BY <1>3

LEMMA Greatest ==
    ASSUME NEW S \in SUBSET Migrations, S # {}
    PROVE  \E m \in S : \A n \in S : n <= m
<1> DEFINE T == {N - n : n \in S}
<1>1. T \subseteq Nat /\ T # {}
  BY SizesAssumption DEF Migrations
<1>2. PICK t \in T : \A u \in T : t <= u
  BY <1>1, Least
<1>3. PICK m \in S : t = N - m
  OBVIOUS
<1>4. ASSUME NEW n \in S  PROVE n <= m
  <2>1. N - m <= N - n
    BY <1>2, <1>3
  <2>2. QED
    BY <2>1, SizesAssumption DEF Migrations
<1>5. QED
  BY <1>4

LEMMA CurrentInPlan ==
    ASSUME TypeOK, plan # {}
    PROVE  /\ Current \in plan /\ Current \in Migrations
           /\ dir = "up" => \A n \in plan : Current <= n
           /\ dir = "down" => \A n \in plan : n <= Current
<1>1. plan \in SUBSET Migrations /\ plan \in SUBSET Nat
  BY SizesAssumption DEF TypeOK, Migrations
<1>2. \E m \in plan : \A n \in plan : IF dir = "up" THEN m <= n ELSE n <= m
  BY <1>1, Least, Greatest
<1>3. QED
  BY <1>1, <1>2 DEF Current
-----------------------------------------------------------------------------
(* Types. *)

Working == pc \in {"delete", "insert", "statement"}

PlanInv == Working \/ pc = "snapshot" => plan # {}

SavingInv ==
    /\ pc \in {"delete", "insert"} => saving \in {"running", "failed", Final}
    /\ pc = "snapshot" => saving = "running" /\ dir = "up"
    /\ pc = "statement" => saving = "running" /\ done < NSql

Typed == TypeOK /\ PlanInv /\ SavingInv

LEMMA InitTyped == Init => Typed
  BY SizesAssumption
  DEF Init, Typed, TypeOK, PlanInv, SavingInv, Working, Databases, Statuses, Migrations

LEMMA StoreTyped ==
    ASSUME TypeOK, NEW m \in Migrations, NEW s \in Statuses
    PROVE  /\ [db EXCEPT !.stored[m] = s] \in Databases
           /\ [db EXCEPT !.stored[m] = s].stored = [db.stored EXCEPT ![m] = s]
           /\ [db EXCEPT !.stored[m] = s].effect = db.effect
  BY DEF TypeOK, Databases

LEMMA EffectTyped ==
    ASSUME TypeOK, NEW m \in Migrations, NEW e \in {"none", "partial", "full"}
    PROVE  /\ [db EXCEPT !.effect[m] = e] \in Databases
           /\ [db EXCEPT !.effect[m] = e].effect = [db.effect EXCEPT ![m] = e]
           /\ [db EXCEPT !.effect[m] = e].stored = db.stored
  BY DEF TypeOK, Databases

LEMMA EffectValues == \A m : Effect(m) \in {"none", "partial", "full"}
  BY DEF Effect

LEMMA NextTyped == Typed /\ [Next]_vars => Typed'
<1> SUFFICES ASSUME Typed, [Next]_vars  PROVE Typed'
  OBVIOUS
<1> USE SizesAssumption
<1>1. CASE UNCHANGED vars
  BY <1>1 DEF vars, code, bounds, operation, Typed, TypeOK, PlanInv, SavingInv, Working, Final
<1>2. CASE Boot
  BY <1>2 DEF Boot, Typed, TypeOK, PlanInv, SavingInv, Working, Final, Fault, bounds,
              UpPlan, Statuses
<1>3. CASE BootRefused \/ Stop \/ Crash \/ SnapshotFails \/ RestoreFails \/ TakeSnapshot \/ VersionFails
  BY <1>3 DEF BootRefused, Stop, Crash, SnapshotFails, RestoreFails, TakeSnapshot, VersionFails,
              Typed, TypeOK, PlanInv, SavingInv, Working, Final, Fault, code, operation, bounds
<1>4. ASSUME NEW target \in 0..N, Rollback(target)  PROVE Typed'
  BY <1>4 DEF Rollback, DownPlan, AppliedVersions, Typed, TypeOK, PlanInv, SavingInv, Working,
              Final, code, Statuses
<1>5. CASE DeleteRecord
  <2>1. db' \in Databases
    BY <1>5, CurrentInPlan, StoreTyped DEF DeleteRecord, Typed, PlanInv, Working, Statuses
  <2>2. QED
    BY <1>5, <2>1 DEF DeleteRecord, Typed, TypeOK, PlanInv, SavingInv, Working, Final,
                      code, operation, bounds
<1>6. CASE InsertRecord
  <2>1. db' \in Databases
    BY <1>6, CurrentInPlan, StoreTyped DEF InsertRecord, Typed, TypeOK, PlanInv, Working
  <2>2. QED
    BY <1>6, <2>1 DEF InsertRecord, Typed, TypeOK, PlanInv, SavingInv, Working, Final,
                      code, operation, bounds, Statuses
<1>7. CASE SaveFails
  BY <1>7 DEF SaveFails, Typed, TypeOK, PlanInv, SavingInv, Working, Final, Fault, code, Statuses
<1>8. CASE Statement
  <2>1. db' \in Databases
    BY <1>8, CurrentInPlan, EffectValues, EffectTyped DEF Statement, Typed, PlanInv, Working
  <2>2. QED
    BY <1>8, <2>1 DEF Statement, Typed, TypeOK, PlanInv, SavingInv, Working, Final,
                      code, bounds, Statuses
<1>9. CASE StatementFails
  BY <1>9 DEF StatementFails, Typed, TypeOK, PlanInv, SavingInv, Working, Final, Fault, code, Statuses
<1>10. CASE DropVersion \/ NewVersion \/ Restore
  BY <1>10 DEF DropVersion, NewVersion, Restore, Over, Typed, TypeOK, PlanInv, SavingInv,
               Working, Final, code, operation, bounds, Databases
<1>11. QED
  BY <1>1, <1>2, <1>3, <1>4, <1>5, <1>6, <1>7, <1>8, <1>9, <1>10 DEF Next, Step

LEMMA AlwaysTyped == Spec => []Typed
  BY InitTyped, NextTyped, PTL DEF Spec

\* The type invariant.
THEOREM TypeCorrect == Spec => []TypeOK
<1>1. Typed => TypeOK
  BY DEF Typed
<1>2. QED
  BY <1>1, AlwaysTyped, PTL
-----------------------------------------------------------------------------
(***************************************************************************)
(* The records tell the truth.  The snapshot is as truthful as the         *)
(* database it was taken of, and while a migration is at work its record   *)
(* claims nothing.                                                         *)
(***************************************************************************)
Truthful(d) ==
    \A m \in Migrations :
        /\ d.stored[m] = "completed" => d.effect[m] = "full"
        /\ d.stored[m] = "rolled_back" => d.effect[m] = "none"

TruthInv ==
    /\ Truthful(db) /\ Truthful(snap)
    /\ pc = "insert" => db.stored[Current] = "none"
    /\ pc = "statement" => db.stored[Current] = "running"
    /\ pc \in {"delete", "insert"} /\ saving = Final =>
          db.effect[Current] = IF dir = "up" THEN "full" ELSE "none"

LEMMA InitTruth == Init => TruthInv
  BY DEF Init, TruthInv, Truthful, Final

\* A step that leaves the database, the plan and the direction alone.
LEMMA QuietTruth ==
    ASSUME TruthInv, db' = db, snap' \in {snap, db},
           UNCHANGED <<plan, dir>>,
           pc' \in {"insert", "statement"} => pc' = pc,
           pc' = "delete" => saving' # Final',
           pc' = "insert" => saving' = saving
    PROVE  TruthInv'
<1>1. Current' = Current /\ Final' = Final
  BY DEF Current, Final
<1>2. Truthful(db)' /\ Truthful(snap)'
  BY DEF TruthInv, Truthful
<1>3. QED
  BY <1>1, <1>2 DEF TruthInv

LEMMA NextTruth == Typed /\ TruthInv /\ [Next]_vars => TruthInv'
<1> SUFFICES ASSUME Typed, TruthInv, [Next]_vars  PROVE TruthInv'
  OBVIOUS
<1>1. CASE UNCHANGED vars
  BY <1>1 DEF vars, code, bounds, operation, TruthInv, Truthful, Current, Final
<1>2. ASSUME db' = db, snap' = snap, pc' \notin {"delete", "insert", "statement"}
      PROVE  TruthInv'
  BY <1>2 DEF TruthInv, Truthful
<1>3. CASE Boot \/ BootRefused \/ Stop \/ Crash \/ SnapshotFails \/ RestoreFails \/ VersionFails
  BY <1>2, <1>3 DEF Boot, BootRefused, Stop, Crash, SnapshotFails, RestoreFails, VersionFails
<1>4. CASE TakeSnapshot
  BY <1>4, QuietTruth DEF TakeSnapshot, operation, Typed, SavingInv, Final
<1>5. ASSUME NEW target \in 0..N, Rollback(target)  PROVE TruthInv'
  BY <1>5 DEF Rollback, TruthInv, Truthful, Final
<1>6. CASE SaveFails \/ StatementFails
  BY <1>6, QuietTruth DEF SaveFails, StatementFails, Final
<1>7. CASE DeleteRecord
  <2>1. /\ db'.stored = [db.stored EXCEPT ![Current] = "none"]
        /\ db'.effect = db.effect
        /\ Current \in Migrations
    BY <1>7, CurrentInPlan, StoreTyped DEF DeleteRecord, Typed, PlanInv, Working, Statuses
  <2>2. /\ Current' = Current /\ Final' = Final /\ saving' = saving /\ dir' = dir
        /\ snap' = snap /\ pc' = "insert"
    BY <1>7 DEF DeleteRecord, operation, Current, Final
  <2>3. db.stored \in [Migrations -> Statuses]
    BY DEF Typed, TypeOK, Databases
  <2>4. QED
    BY <1>7, <2>1, <2>2, <2>3 DEF DeleteRecord, TruthInv, Truthful
<1>8. CASE InsertRecord
  <2>1. /\ db'.stored = [db.stored EXCEPT ![Current] = saving]
        /\ db'.effect = db.effect
        /\ Current \in Migrations
    BY <1>8, CurrentInPlan, StoreTyped DEF InsertRecord, Typed, TypeOK, PlanInv, Working
  <2>2. db.stored \in [Migrations -> Statuses]
    BY DEF Typed, TypeOK, Databases
  <2>3. Truthful(db') /\ Truthful(snap')
    BY <1>8, <2>1, <2>2 DEF InsertRecord, Typed, SavingInv, TruthInv, Truthful, Final
  <2>4. CASE saving = "running"
    <3>1. pc' = "statement" /\ plan' = plan /\ dir' = dir
      BY <1>8, <2>4 DEF InsertRecord, Final
    <3>2. Current' = Current
      BY <3>1 DEF Current
    <3>3. QED
      BY <2>1, <2>2, <2>3, <2>4, <3>1, <3>2 DEF TruthInv, Truthful
  <2>5. CASE saving = Final
    <3>1. saving' = "running" /\ dir' = dir /\ pc' \in {"version", "delete"}
      BY <1>8, <2>5 DEF InsertRecord, Final
    <3>2. QED
      BY <2>3, <3>1 DEF TruthInv, Truthful, Final
  <2>6. CASE saving = "failed"
    <3>1. pc' = "unwind"
      BY <1>8, <2>6 DEF InsertRecord, Final
    <3>2. QED
      BY <2>3, <3>1 DEF TruthInv, Truthful
  <2>7. QED
    BY <1>8, <2>4, <2>5, <2>6 DEF InsertRecord
<1>9. CASE Statement
  <2>1. /\ db'.effect = [db.effect EXCEPT ![Current] = Effect(Current)]
        /\ db'.stored = db.stored
        /\ Current \in Migrations
    BY <1>9, CurrentInPlan, EffectValues, EffectTyped DEF Statement, Typed, PlanInv, Working
  <2>2. /\ db.stored \in [Migrations -> Statuses]
        /\ db.effect \in [Migrations -> {"none", "partial", "full"}]
    BY DEF Typed, TypeOK, Databases
  <2>3. Current' = Current /\ Final' = Final /\ snap' = snap /\ dir' = dir
    BY <1>9 DEF Statement, Current, Final
  <2>4. db.stored[Current] = "running" /\ saving = "running"
    BY <1>9 DEF Statement, TruthInv, Typed, SavingInv
  <2>5. Truthful(db') /\ Truthful(snap')
    BY <2>1, <2>2, <2>3, <2>4 DEF TruthInv, Truthful
  <2>6. CASE done + 1 = NSql
    BY <1>9, <2>1, <2>2, <2>3, <2>5, <2>6 DEF Statement, TruthInv, Truthful, Effect
  <2>7. CASE done + 1 # NSql
    BY <1>9, <2>1, <2>3, <2>4, <2>5, <2>7 DEF Statement, TruthInv, Truthful
  <2>8. QED
    BY <2>6, <2>7
<1>10. CASE DropVersion \/ NewVersion
  <2>1. db'.stored = db.stored /\ db'.effect = db.effect
    BY <1>10 DEF DropVersion, NewVersion, Typed, TypeOK, Databases
  <2>2. snap' = snap /\ pc' \notin {"delete", "insert", "statement"}
    BY <1>10 DEF DropVersion, NewVersion, Over
  <2>3. QED
    BY <2>1, <2>2 DEF TruthInv, Truthful
<1>11. CASE Restore
  BY <1>11 DEF Restore, Over, TruthInv, Truthful
<1>12. QED
  BY <1>1, <1>3, <1>4, <1>5, <1>6, <1>7, <1>8, <1>9, <1>10, <1>11 DEF Next, Step

\* No crash or failing statement makes a record claim what was not done.
THEOREM RecordsAreTruthful == Spec => []RecordsTellTruth
<1>1. Init => Typed /\ TruthInv
  BY InitTyped, InitTruth
<1>2. Typed /\ TruthInv /\ [Next]_vars => (Typed /\ TruthInv)'
  BY NextTyped, NextTruth
<1>3. Typed /\ TruthInv => RecordsTellTruth
  BY DEF TruthInv, Truthful, RecordsTellTruth
<1>4. QED
  BY <1>1, <1>2, <1>3, PTL DEF Spec
-----------------------------------------------------------------------------
(***************************************************************************)
(* Dependencies.  On the way up, what the plan does not name is applied,   *)
(* and what it names is taken from below; on the way down, what is still   *)
(* recorded as completed is in the plan or below all of it.                *)
(***************************************************************************)
Ordered(d) ==
    \A m \in Migrations :
        d.stored[m] = "completed" => \A x \in deps[m] : d.effect[x] = "full"

Known(d) == \A m \in Migrations : d.stored[m] # "none" => m \in registered

UpInv ==
    (Working \/ pc = "snapshot") /\ dir = "up" =>
        /\ ValidateDependencies(registered)
        /\ \A m \in registered \ plan : db.stored[m] = "completed"

DownInv ==
    Working /\ dir = "down" =>
        \A m \in Migrations \ plan :
            db.stored[m] = "completed" => \A p \in plan : m < p

DependInv ==
    /\ \A m \in Migrations : \A x \in deps[m] : x < m
    /\ Ordered(db) /\ Ordered(snap) /\ Known(db) /\ Known(snap)
    /\ Working \/ pc = "snapshot" => plan \subseteq registered
    /\ UpInv /\ DownInv

IInv == Typed /\ TruthInv /\ DependInv

LEMMA InitDepend == Init => DependInv
  BY DEF Init, DependInv, Ordered, Known, Working, UpInv, DownInv

LEMMA StepDepend == IInv /\ [Next]_vars => DependInv'
<1> SUFFICES ASSUME IInv, [Next]_vars  PROVE DependInv'
  OBVIOUS
<1>0. /\ db.stored \in [Migrations -> Statuses]
      /\ db.effect \in [Migrations -> {"none", "partial", "full"}]
      /\ deps \in [Migrations -> SUBSET Migrations]
      /\ plan \subseteq Migrations
  BY DEF IInv, Typed, TypeOK, Databases
<1>1. CASE UNCHANGED vars
  BY <1>1 DEF vars, code, bounds, operation, IInv, DependInv, Ordered, Known, Working,
              UpInv, DownInv, ValidateDependencies
<1>2. CASE Boot
  <2>1. /\ deps' = deps /\ db' = db /\ snap' = snap /\ dir' = "up"
        /\ registered \subseteq registered' /\ ~ Working'
    BY <1>2 DEF Boot, Working
  <2>2. /\ plan' \subseteq registered'
        /\ pc' = "snapshot" =>
              /\ ValidateDependencies(registered)'
              /\ \A m \in registered' \ plan' : db.stored[m] = "completed"
    BY <1>2 DEF Boot, UpPlan, AppliedVersions, ValidateDependencies
  <2>3. QED
    BY <2>1, <2>2 DEF IInv, DependInv, Ordered, Known, UpInv, DownInv
<1>3. ASSUME UNCHANGED <<deps, registered, db>>, snap' \in {snap, db},
             \/ ~ Working' /\ pc' # "snapshot"
             \/ UNCHANGED <<plan, dir>> /\ (Working \/ pc = "snapshot")
      PROVE  DependInv'
  BY <1>3 DEF IInv, DependInv, Ordered, Known, UpInv, DownInv, ValidateDependencies, Working,
              Typed, SavingInv
<1>4. CASE BootRefused \/ Stop \/ Crash \/ SnapshotFails \/ RestoreFails \/ VersionFails
  BY <1>3, <1>4 DEF BootRefused, Stop, Crash, SnapshotFails, RestoreFails, VersionFails,
                    code, Working
<1>5. CASE TakeSnapshot \/ SaveFails \/ StatementFails
  BY <1>3, <1>5 DEF TakeSnapshot, SaveFails, StatementFails, code, operation, Working
<1>6. ASSUME NEW target \in 0..N, Rollback(target)  PROVE DependInv'
  <2>1. /\ deps' = deps /\ db' = db /\ snap' = snap /\ dir' = "down"
        /\ registered' = registered /\ pc' = "delete"
        /\ plan' = DownPlan(target)
    BY <1>6 DEF Rollback, code
  <2>2. plan' \subseteq registered
    BY <2>1 DEF DownPlan
  <2>3. ASSUME NEW m \in Migrations \ plan', db.stored[m] = "completed", NEW p \in plan'
        PROVE  m < p
    <3>1. m \in registered
      BY <2>3 DEF IInv, DependInv, Known
    <3>2. m <= target /\ target < p /\ p \in Migrations
      BY <2>1, <2>3, <3>1, SizesAssumption DEF DownPlan, AppliedVersions, Migrations
    <3>3. QED
      BY <3>2, SizesAssumption DEF Migrations
  <2>4. QED
    BY <2>1, <2>2, <2>3 DEF IInv, DependInv, Ordered, Known, UpInv, DownInv
<1>7. ASSUME Working
      PROVE  /\ Current \in plan /\ Current \in Migrations /\ Current \in registered
             /\ dir = "up" => \A n \in plan : Current <= n
             /\ dir = "down" => \A n \in plan : n <= Current
  BY <1>7, CurrentInPlan DEF IInv, Typed, PlanInv, DependInv
<1>8. CASE DeleteRecord
  <2>1. /\ db'.stored = [db.stored EXCEPT ![Current] = "none"]
        /\ db'.effect = db.effect
    BY <1>7, <1>8, StoreTyped DEF DeleteRecord, IInv, Typed, Working, Statuses
  <2>2. UNCHANGED <<deps, registered, snap, plan, dir>> /\ Working
    BY <1>8 DEF DeleteRecord, code, operation, Working
  <2>3. QED
    BY <1>0, <1>7, <2>1, <2>2 DEF IInv, DependInv, Ordered, Known, UpInv, DownInv,
                                  ValidateDependencies
<1>9. CASE InsertRecord
  <2>1. /\ db'.stored = [db.stored EXCEPT ![Current] = saving]
        /\ db'.effect = db.effect
        /\ saving \in {"running", "failed", Final}
        /\ Working
    BY <1>7, <1>9, StoreTyped
    DEF InsertRecord, IInv, Typed, TypeOK, SavingInv, Working
  <2>2. UNCHANGED <<deps, registered, snap, dir>>
    BY <1>9 DEF InsertRecord, code, operation
  <2>3. Known(db)'
    BY <1>0, <1>7, <2>1, <2>2 DEF IInv, DependInv, Known
  <2>4. CASE saving = Final
    <3>1. plan' = plan \ {Current}
      BY <1>9, <2>4 DEF InsertRecord, Final
    <3>2. CASE dir = "up"
      <4>1. /\ ValidateDependencies(registered)
            /\ \A m \in registered \ plan : db.stored[m] = "completed" /\ db.effect[m] = "full"
        BY <1>0, <2>1, <3>2 DEF IInv, DependInv, UpInv, TruthInv, Truthful, Known, TypeOK, Typed
      <4>2. \A x \in deps[Current] : x \in registered \ plan
        <5>1. \A x \in deps[Current] : x \in registered /\ x \in Migrations /\ x < Current
          BY <1>0, <1>7, <2>1, <4>1 DEF ValidateDependencies, IInv, DependInv
        <5>2. \A n \in plan : Current <= n
          BY <1>7, <2>1, <3>2
        <5>3. QED
          BY <5>1, <5>2, <1>7, <2>1, SizesAssumption DEF Migrations
      <4>3. Ordered(db)'
        BY <1>0, <1>7, <2>1, <2>2, <4>1, <4>2 DEF IInv, DependInv, Ordered
      <4>4. UpInv'
        BY <1>0, <1>7, <2>1, <2>2, <2>4, <3>1, <3>2, <4>1
        DEF UpInv, ValidateDependencies, Final, IInv, Typed, TypeOK
      <4>5. QED
        BY <2>2, <2>3, <2>1, <3>1, <3>2, <4>3, <4>4 DEF IInv, DependInv, Known, Ordered, DownInv
    <3>3. CASE dir = "down"
      <4>1. saving = "rolled_back"
        BY <2>4, <3>3 DEF Final
      <4>2. Ordered(db)' /\ DownInv'
        BY <1>0, <1>7, <2>1, <2>2, <3>1, <3>3, <4>1 DEF IInv, DependInv, Ordered, DownInv
      <4>3. QED
        BY <2>1, <2>2, <2>3, <3>1, <3>3, <4>2 DEF IInv, DependInv, Known, Ordered, UpInv
    <3>4. QED
      BY <3>2, <3>3 DEF IInv, Typed, TypeOK
  <2>5. CASE saving # Final
    <3>1. plan' = plan /\ saving \in {"running", "failed"}
      BY <1>9, <2>1, <2>5 DEF InsertRecord, operation
    <3>2. Ordered(db)' /\ UpInv' /\ DownInv'
      BY <1>0, <1>7, <2>1, <2>2, <3>1
      DEF IInv, DependInv, Ordered, UpInv, DownInv, ValidateDependencies
    <3>3. QED
      BY <2>1, <2>2, <2>3, <3>1, <3>2 DEF IInv, DependInv, Known, Ordered
  <2>6. QED
    BY <2>4, <2>5
<1>10. CASE Statement
  <2>1. /\ db'.effect = [db.effect EXCEPT ![Current] = Effect(Current)]
        /\ db'.stored = db.stored
        /\ Working /\ db.stored[Current] = "running"
    BY <1>7, <1>10, EffectValues, EffectTyped DEF Statement, IInv, Typed, Working, TruthInv
  <2>2. UNCHANGED <<deps, registered, snap, plan, dir>>
    BY <1>10 DEF Statement, code
  <2>3. ASSUME NEW m \in Migrations, db.stored[m] = "completed", Current \in deps[m]
        PROVE  db.effect[Current] = "full" /\ dir = "up"
    <3>1. db.effect[Current] = "full" /\ Current < m
      BY <2>3 DEF IInv, DependInv, Ordered
    <3>2. ASSUME dir = "down"  PROVE FALSE
      <4>1. CASE m \in plan
        BY <1>7, <2>1, <3>1, <3>2, <4>1, SizesAssumption DEF Migrations
      <4>2. CASE m \notin plan
        <5>1. m < Current
          BY <1>7, <2>1, <2>3, <3>2, <4>2 DEF IInv, DependInv, DownInv
        <5>2. QED
          BY <1>7, <2>1, <3>1, <5>1, SizesAssumption DEF Migrations
      <4>3. QED
        BY <4>1, <4>2
    <3>3. QED
      BY <3>1, <3>2 DEF IInv, Typed, TypeOK
  <2>4. ASSUME dir = "up", db.effect[Current] = "full"  PROVE Effect(Current) = "full"
    BY <2>4 DEF Effect
  <2>5. Ordered(db)'
    BY <1>0, <2>1, <2>2, <2>3, <2>4 DEF IInv, DependInv, Ordered
  <2>6. QED
    BY <1>0, <2>1, <2>2, <2>5
    DEF IInv, DependInv, Ordered, Known, UpInv, DownInv, ValidateDependencies
<1>11. CASE DropVersion \/ NewVersion
  <2>1. /\ db'.stored = db.stored /\ db'.effect = db.effect
        /\ UNCHANGED <<deps, registered, snap>>
        /\ ~ Working' /\ pc' # "snapshot"
    BY <1>11 DEF DropVersion, NewVersion, Over, Working, code, IInv, Typed, TypeOK, Databases
  <2>2. QED
    BY <2>1 DEF IInv, DependInv, Ordered, Known, UpInv, DownInv
<1>12. CASE Restore
  BY <1>12 DEF Restore, Over, code, Working, IInv, DependInv, Ordered, Known, UpInv, DownInv
<1>13. QED
  BY <1>1, <1>2, <1>4, <1>5, <1>6, <1>8, <1>9, <1>10, <1>11, <1>12 DEF Next, Step

\* What a completed migration depends on is applied, whatever failed on the
\* way up, on the way down or in between.
THEOREM DependenciesStay == Spec => []DependenciesApplied
<1>1. Init => IInv
  BY InitTyped, InitTruth, InitDepend DEF IInv
<1>2. IInv /\ [Next]_vars => IInv'
  BY NextTyped, NextTruth, StepDepend DEF IInv
<1>3. IInv => DependenciesApplied
  BY DEF IInv, DependInv, Ordered, DependenciesApplied
<1>4. QED
  BY <1>1, <1>2, <1>3, PTL DEF Spec
=============================================================================
