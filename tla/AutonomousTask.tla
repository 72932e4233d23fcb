--------------------------- MODULE AutonomousTask ---------------------------
(***************************************************************************)
(* One task of src/src/engines/autonomous-execution.ts: execute() plans    *)
(* and runs it, replay() runs it again in place, cancel() interrupts it.   *)
(* A runner is one of these runs and pc[r] the await at which it stands;   *)
(* an action is the effect of that await and the code up to the next one.  *)
(* The task object made by, or loaded for, runner r is named r.            *)
(* There is a gate per runner and gated step; a gate does what GatePromise *)
(* says, which HumanGate implements.                                       *)
(*                                                                         *)
(* Left out: branching replays, pause() and resume(), composite steps and  *)
(* failover (all inside a step).  Costs and tokens are within budget.      *)
(***************************************************************************)
EXTENDS Naturals, Sequences, FiniteSetsExt

CONSTANTS Runners,
          First,            \* the runner of execute(); the others replay
          Cancels,          \* calls of cancel()
          NSteps,           \* length of the plan
          Gated,            \* steps that the policy's rules or the goal's
                            \* requireApprovalAbove put behind a gate (lines 270-272)
          Critical,         \* destructive and financial steps
          IterationBudget,
          None

ASSUME TaskAssumption ==
    /\ First \in Runners /\ None \notin Runners
    /\ NSteps \in Nat /\ IterationBudget \in Nat
    /\ Gated \subseteq 1..NSteps /\ Critical \subseteq 1..NSteps

VARIABLES
    pc,
    on,        \* the task object a runner works on
    at,        \* the step a runner is at
    allowed,   \* decision.allowed
    final,     \* the status the last update of a run writes
    mem,       \* the task objects
    stored,    \* store: the task and its steps
    active,    \* activeTasks: the object registered for the task
    used,      \* usage: iterations
    cancel,    \* the calls of cancel()
    decision,  \* what the waits at the gates resolved with
    overlap    \* history: two runs of the task have overlapped

run == <<on, at, allowed, final>>
task == <<mem, stored, active, used>>
vars == <<pc, run, task, cancel, decision, overlap>>

Steps == 1..NSteps
G == INSTANCE GatePromise WITH Gates <- Runners \X Gated

Finished == {"complete", "skipped"}
Stopped == {"cancelled", "paused"}
Final == {"complete", "failed", "cancelled", "paused"}

NoTask == [status |-> "planning", steps |-> <<>>]
Plan == [i \in Steps |-> "pending"]

Init ==
    /\ pc = [r \in Runners |-> "idle"]
    /\ on = [r \in Runners |-> r]
    /\ at = [r \in Runners |-> 0]
    /\ allowed = [r \in Runners |-> TRUE]
    /\ final = [r \in Runners |-> "none"]
    /\ mem = [r \in Runners |-> NoTask]
    /\ stored = [status |-> "none", steps |-> <<>>]
    /\ active = None
    /\ used = 0
    /\ cancel = [c \in Cancels |-> "idle"]
    /\ overlap = FALSE
    /\ G!Init
-----------------------------------------------------------------------------
At(r, p) == pc[r] = p
Goto(r, p) == pc' = [pc EXCEPT ![r] = p]

\* The run is over, and its locals with it.
Leave(r, p) ==
    /\ Goto(r, p)
    /\ on' = [on EXCEPT ![r] = r]
    /\ at' = [at EXCEPT ![r] = 0]
    /\ allowed' = [allowed EXCEPT ![r] = TRUE]
    /\ final' = [final EXCEPT ![r] = "none"]

Gate(r) == <<r, at[r]>>

Task(r) == mem[on[r]]
SetTask(r, t) == mem' = [mem EXCEPT ![on[r]] = t]
StepSet(t, i, s) == [t EXCEPT !.steps[i] = s]
StatusSet(t, s) == [t EXCEPT !.status = s]

\* updateTask() and updateStep(); the row of the step must exist.
StoreStatus(s) == stored' = StatusSet(stored, s)
StoreStep(r, s) == at[r] \in DOMAIN stored.steps /\ stored' = StepSet(stored, at[r], s)

\* The end of the loop: the status decides.
Conclude_Open(t) == t
Conclude(t) ==
    IF t.status \in {"failed", "cancelled", "paused"} THEN t ELSE StatusSet(t, "complete")

End(r, t) ==
    /\ SetTask(r, Conclude(t))
    /\ final' = [final EXCEPT ![r] = Conclude(t).status]
    /\ Goto(r, "ending")
    /\ UNCHANGED <<on, at, allowed>>

\* The outer catch of runTask().
Abort(r, t) ==
    /\ SetTask(r, t)
    /\ final' = [final EXCEPT ![r] = t.status]
    /\ Goto(r, "aborting")
    /\ UNCHANGED <<on, at, allowed>>

\* Only a complete step is left alone.
Unfinished_Skipped(t, i) == {j \in i..Len(t.steps) : t.steps[j] # "complete"}
Unfinished(t, i) == {j \in i..Len(t.steps) : t.steps[j] \notin Finished}

\* The loop, from step i on.
Proceed(r, t, i) ==
    IF t.status \in Stopped \/ Unfinished(t, i) = {}
    THEN End(r, t)
    ELSE /\ SetTask(r, t)
         /\ at' = [at EXCEPT ![r] = Min(Unfinished(t, i))]
         /\ Goto(r, "policy")
         /\ UNCHANGED <<on, allowed, final>>

\* assertBudget(); its own update of the row is not awaited and is repeated
\* by the catch.
OverBudget == used + 1 >= IterationBudget
Spend == used' = used + 1

Enter(r, t) ==
    /\ Spend
    /\ IF OverBudget THEN Abort(r, StatusSet(t, "paused")) ELSE Proceed(r, t, 1)

\* runTask()
RunTask(r, t) ==
    IF t.status = "executing"
    THEN Enter(r, t)
    ELSE /\ SetTask(r, StatusSet(t, "executing"))
         /\ Goto(r, "beginning")
         /\ UNCHANGED <<on, at, allowed, final, used>>

Begun(r) ==
    /\ At(r, "beginning")
    /\ StoreStatus("executing")
    /\ Enter(r, Task(r))
    /\ UNCHANGED <<active, cancel, decision, overlap>>

Busy(r) == pc[r] \notin {"idle", "done", "lost"}
Overlap == overlap' = (overlap \/ \E r \in Runners : Busy(r))
-----------------------------------------------------------------------------
(* execute() *)
Execute(r) ==
    /\ At(r, "idle") /\ r = First
    /\ StoreStatus("planning")
    /\ active' = r
    /\ Goto(r, "planning")
    /\ Overlap
    /\ UNCHANGED <<run, mem, used, cancel, decision>>

Planned(r) ==
    /\ At(r, "planning")
    /\ stored' = [stored EXCEPT !.steps = Plan]
    /\ RunTask(r, [Task(r) EXCEPT !.steps = Plan])
    /\ UNCHANGED <<active, cancel, decision, overlap>>

\* planGoal() or the k-th createStep() throws; the task stays in activeTasks.
PlanFails(r) ==
    /\ At(r, "planning")
    /\ \/ SetTask(r, StatusSet(Task(r), "failed")) /\ UNCHANGED stored
       \/ \E k \in Steps :
            /\ SetTask(r, [status |-> "failed", steps |-> Plan])
            /\ stored' = [stored EXCEPT !.steps = SubSeq(Plan, 1, k - 1)]
    /\ Goto(r, "unplanned")
    /\ UNCHANGED <<run, active, used, cancel, decision, overlap>>

Unplanned(r) ==
    /\ At(r, "unplanned")
    /\ StoreStatus("failed")
    /\ Leave(r, "done")
    /\ UNCHANGED <<mem, active, used, cancel, decision, overlap>>
-----------------------------------------------------------------------------
(* runTask(): the loop over the steps *)
\* The part of a step after its gate.
Start(r, ok) ==
    \/ /\ ~ok
       /\ SetTask(r, StepSet(Task(r), at[r], "skipped"))
       /\ Goto(r, "skipping")
       /\ UNCHANGED <<on, at, allowed, final, used>>
    \/ /\ ok /\ Spend
       /\ IF OverBudget
          THEN Abort(r, StatusSet(Task(r), "paused"))
          ELSE /\ SetTask(r, StepSet(Task(r), at[r], "running"))
               /\ Goto(r, "starting")
               /\ UNCHANGED <<on, at, allowed, final>>

\* policyEngine.evaluate(): rules, cooldowns and rates are external.
Decide(r) ==
    /\ At(r, "policy")
    /\ \E ok \in BOOLEAN :
          IF at[r] \in Gated
          THEN /\ allowed' = [allowed EXCEPT ![r] = ok]
               /\ Goto(r, "gating")
               /\ UNCHANGED <<on, at, final, mem, used>>
          ELSE Start(r, ok)
    /\ UNCHANGED <<stored, active, cancel, decision, overlap>>

Gating(r) ==
    /\ At(r, "gating")
    /\ SetTask(r, StatusSet(Task(r), "waiting_approval"))
    /\ Goto(r, "announcing")
    /\ UNCHANGED <<run, stored, active, used, cancel, decision, overlap>>

Announced(r) ==
    /\ At(r, "announcing")
    /\ StoreStatus("waiting_approval")
    /\ G!Ask(Gate(r))
    /\ Goto(r, "waiting")
    /\ UNCHANGED <<run, mem, active, used, cancel, overlap>>

\* waitForGateResolution() has resolved.
Refused_Denials(o) == o = "denied"
Refused(o) == o \in {"timeout", "denied"}

Resolved(r) ==
    LET o == decision[Gate(r)] IN
    /\ At(r, "waiting") /\ o \in G!Decisions \ {"lost"}
    /\ \/ /\ Refused(o)
          /\ SetTask(r, StepSet(Task(r), at[r], "skipped"))
          /\ Goto(r, "skipping") /\ UNCHANGED run
       \/ /\ o = "expired"
          /\ End(r, StatusSet(Task(r), "failed"))
       \/ /\ ~Refused(o) /\ o # "expired"
          /\ SetTask(r, StatusSet(Task(r), "executing"))
          /\ Goto(r, "approved") /\ UNCHANGED run
    /\ UNCHANGED <<stored, active, used, cancel, decision, overlap>>

Approved(r) ==
    /\ At(r, "approved")
    /\ StoreStatus("executing")
    /\ Start(r, allowed[r])
    /\ UNCHANGED <<active, cancel, decision, overlap>>

Skipped(r) ==
    /\ At(r, "skipping")
    /\ StoreStep(r, "skipped")
    /\ Proceed(r, Task(r), at[r] + 1)
    /\ UNCHANGED <<active, used, cancel, decision, overlap>>

Started(r) ==
    /\ At(r, "starting")
    /\ StoreStep(r, "running")
    /\ Goto(r, "acting")
    /\ UNCHANGED <<run, mem, active, used, cancel, decision, overlap>>

\* executeStepWithComposite() returns or throws.
Acted(r) ==
    /\ At(r, "acting")
    /\ \/ SetTask(r, StepSet(Task(r), at[r], "complete")) /\ Goto(r, "completing")
       \/ SetTask(r, StepSet(Task(r), at[r], "failed")) /\ Goto(r, "failing")
    /\ UNCHANGED <<run, stored, active, used, cancel, decision, overlap>>

Completed(r) ==
    /\ At(r, "completing")
    /\ StoreStep(r, "complete")
    /\ Proceed(r, Task(r), at[r] + 1)
    /\ UNCHANGED <<active, used, cancel, decision, overlap>>

\* The update throws inside the try of the step: a completed step has failed.
CompleteFails(r) ==
    /\ At(r, "completing")
    /\ SetTask(r, StepSet(Task(r), at[r], "failed"))
    /\ Goto(r, "failing")
    /\ UNCHANGED <<run, stored, active, used, cancel, decision, overlap>>

Failed(r) ==
    /\ At(r, "failing")
    /\ StoreStep(r, "failed")
    /\ IF at[r] \in Critical
       THEN End(r, StatusSet(Task(r), "failed"))
       ELSE Proceed(r, Task(r), at[r] + 1)
    /\ UNCHANGED <<active, used, cancel, decision, overlap>>

\* The policy or the store throws, within the outer try.
LoopFails(r) ==
    /\ pc[r] \in {"policy", "gating", "announcing", "approved", "skipping",
                  "starting", "failing", "ending"}
    /\ Abort(r, StatusSet(Task(r), "failed"))
    /\ UNCHANGED <<stored, active, used, cancel, decision, overlap>>

Ended(r) ==
    /\ At(r, "ending") \/ At(r, "aborting")
    /\ StoreStatus(final[r])
    /\ active' = None
    /\ Leave(r, "done")
    /\ UNCHANGED <<mem, used, cancel, decision, overlap>>

\* The store throws where nothing catches it; only the catch of runTask()
\* is within the finally that empties activeTasks.
RunDies(r) ==
    /\ \/ At(r, "aborting") /\ active' = None
       \/ pc[r] \in {"beginning", "unplanned", "loading", "resetting", "reopening"}
          /\ UNCHANGED active
    /\ Leave(r, "lost")
    /\ UNCHANGED <<mem, stored, used, cancel, decision, overlap>>
-----------------------------------------------------------------------------
(* replay() without a branch *)
\* Unfinished steps from i on become pending, one awaited write after another.
ResetFrom(r, t, i) ==
    IF Unfinished(t, i) = {}
    THEN /\ SetTask(r, StatusSet(t, "executing"))
         /\ Goto(r, "reopening")
         /\ UNCHANGED at
    ELSE /\ SetTask(r, StepSet(t, Min(Unfinished(t, i)), "pending"))
         /\ at' = [at EXCEPT ![r] = Min(Unfinished(t, i))]
         /\ Goto(r, "resetting")

Replay(r) ==
    /\ At(r, "idle") /\ r # First /\ stored.status # "none"
    /\ IF active = None
       THEN /\ \E i \in Steps : at' = [at EXCEPT ![r] = i]
            /\ Goto(r, "loading") /\ UNCHANGED <<on, mem>>
       ELSE /\ on' = [on EXCEPT ![r] = active]
            /\ \E i \in Steps :
                 IF Unfinished(mem[active], i) = {}
                 THEN /\ mem' = [mem EXCEPT ![active].status = "executing"]
                      /\ Goto(r, "reopening") /\ UNCHANGED at
                 ELSE LET j == Min(Unfinished(mem[active], i)) IN
                      /\ mem' = [mem EXCEPT ![active].steps[j] = "pending"]
                      /\ at' = [at EXCEPT ![r] = j]
                      /\ Goto(r, "resetting")
    /\ Overlap
    /\ UNCHANGED <<allowed, final, stored, active, used, cancel, decision>>

\* getStatus()
Loaded(r) ==
    /\ At(r, "loading")
    /\ ResetFrom(r, stored, at[r])
    /\ UNCHANGED <<on, allowed, final, stored, active, used, cancel, decision, overlap>>

StepReset(r) ==
    /\ At(r, "resetting")
    /\ StoreStep(r, "pending")
    /\ ResetFrom(r, Task(r), at[r] + 1)
    /\ UNCHANGED <<on, allowed, final, active, used, cancel, decision, overlap>>

Reopened(r) ==
    /\ At(r, "reopening")
    /\ StoreStatus("executing")
    /\ active' = on[r]
    /\ RunTask(r, Task(r))
    /\ UNCHANGED <<cancel, decision, overlap>>
-----------------------------------------------------------------------------
(* cancel() *)
Cancel(c) ==
    /\ cancel[c] = "idle" /\ stored.status # "none"
    /\ IF active = None
       THEN UNCHANGED mem
       ELSE mem' = [mem EXCEPT ![active].status = "cancelled"]
    /\ cancel' = [cancel EXCEPT ![c] = "writing"]
    /\ UNCHANGED <<pc, run, stored, active, used, decision, overlap>>

CancelWritten(c) ==
    /\ cancel[c] = "writing"
    /\ StoreStatus("cancelled") \/ UNCHANGED stored
    /\ cancel' = [cancel EXCEPT ![c] = "done"]
    /\ UNCHANGED <<pc, run, mem, active, used, decision, overlap>>

RunGoesOn(r) ==
    \/ Planned(r) \/ PlanFails(r) \/ Unplanned(r) \/ Begun(r)
    \/ Decide(r) \/ Gating(r) \/ Announced(r) \/ Resolved(r) \/ Approved(r)
    \/ Skipped(r) \/ Started(r) \/ Acted(r) \/ Completed(r) \/ CompleteFails(r)
    \/ Failed(r) \/ LoopFails(r) \/ Ended(r) \/ RunDies(r)
    \/ Loaded(r) \/ StepReset(r) \/ Reopened(r)

GateDecides(r) ==
    /\ \E i \in Gated : G!Decide(<<r, i>>)
    /\ UNCHANGED <<pc, run, task, cancel, overlap>>

Next ==
    \/ \E r \in Runners : Execute(r) \/ Replay(r) \/ RunGoesOn(r) \/ GateDecides(r)
    \/ \E c \in Cancels : Cancel(c) \/ CancelWritten(c)

Spec == Init /\ [][Next]_vars
-----------------------------------------------------------------------------
StepLists == Seq({"pending", "running", "complete", "failed", "skipped"})
TaskRecord(t) ==
    /\ t.status \in {"planning", "executing", "waiting_approval"} \cup Final
    /\ t.steps \in StepLists /\ Len(t.steps) <= NSteps

TypeOK ==
    /\ pc \in [Runners -> {"idle", "planning", "unplanned", "loading", "resetting",
                           "reopening", "beginning", "policy", "gating", "announcing",
                           "waiting", "approved", "skipping", "starting", "acting",
                           "completing", "failing", "ending", "aborting", "done", "lost"}]
    /\ on \in [Runners -> Runners]
    /\ at \in [Runners -> 0..NSteps]
    /\ allowed \in [Runners -> BOOLEAN]
    /\ final \in [Runners -> Final \cup {"none"}]
    /\ \A r \in Runners : TaskRecord(mem[r])
    /\ stored.status = "none" \/ TaskRecord(stored)
    /\ active \in Runners \cup {None}
    /\ used \in Nat /\ overlap \in BOOLEAN
    /\ cancel \in [Cancels -> {"idle", "writing", "done"}]
    /\ decision \in [Runners \X Gated -> G!Undecided \cup G!Decisions]

\* A step that the policy or the goal's threshold puts behind a gate executes
\* only on an answer for a gate of that very run, which was not denied, expired
\* or left unanswered (lines 286-301), through replays and cancellations.  Which
\* steps these are is the policy's choice: they need not be the Critical ones.
GatedStepsWait ==
    \A r \in Runners : pc[r] \in {"starting", "acting", "completing"} /\ at[r] \in Gated =>
        decision[Gate(r)] \in {"approved", "skipped"}

\* When nothing works on the task any more, its row says how it ended.
NoZombieTask ==
    /\ \A r \in Runners : pc[r] \in {"idle", "done"}
    /\ pc[First] = "done"
    => stored.status \in Final

\* In-place replay marks the other steps pending "so runTask picks them up" (line
\* 742): what the store has as complete or skipped stays, through any number of
\* runs and failures, unless two runs overlap.
FinishedStepsStay ==
    [][~overlap => \A i \in DOMAIN stored.steps :
          stored.steps[i] \in Finished => stored'.steps[i] = stored.steps[i]]_vars
=============================================================================
