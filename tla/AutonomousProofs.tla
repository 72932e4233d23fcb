--------------------------- MODULE AutonomousProofs ---------------------------
(***************************************************************************)
(* AutonomousTask for any number of runners, steps and calls of cancel();  *)
(* HumanGate for all sets of gates and calls of resolveGate(); and the two *)
(* together, where the decisions of the task are those of its gates.       *)
(***************************************************************************)
EXTENDS AutonomousTask, HumanGate, SequenceTheorems, WellFoundedInduction, TLAPS

(***************************************************************************)
(* Types.  A task object is a record whose list of steps never outgrows    *)
(* the plan, and so is the stored task once it exists.                     *)
(***************************************************************************)
Places == {"idle", "planning", "unplanned", "loading", "resetting", "reopening",
           "beginning", "policy", "gating", "announcing", "waiting", "approved",
           "skipping", "starting", "acting", "completing", "failing", "ending",
           "aborting", "done", "lost"}
TaskStatuses == {"planning", "executing", "waiting_approval"} \cup Final
StepStatuses == {"pending", "running", "complete", "failed", "skipped"}
PlanPart == {s \in Seq(StepStatuses) : Len(s) <= NSteps}
Record == [status : TaskStatuses, steps : PlanPart]

\* A run, its place and its task object.
RunOK ==
    /\ pc \in [Runners -> Places] /\ on \in [Runners -> Runners]
    /\ at \in [Runners -> 0..NSteps] /\ final \in [Runners -> Final \cup {"none"}]
    /\ mem \in [Runners -> Record]
    /\ \A r \in Runners :
         /\ pc[r] = "loading" => at[r] \in Steps
         /\ pc[r] \in {"ending", "aborting"} => final[r] \in Final

Typed ==
    /\ TypeOK /\ RunOK
    /\ stored \in [status : TaskStatuses \cup {"none"}, steps : PlanPart]
    /\ stored.status = "none" => \A r \in Runners : pc[r] = "idle"

\* The run's locals and its task object after a step.
Moves(r, t, p, i, f) ==
    /\ mem' = [mem EXCEPT ![on[r]] = t]
    /\ pc' = [pc EXCEPT ![r] = p]
    /\ at' = [at EXCEPT ![r] = i]
    /\ final' = [final EXCEPT ![r] = f]
    /\ on' = on

LEMMA PlanTyped == Plan \in PlanPart /\ DOMAIN Plan = Steps /\ Len(Plan) = NSteps
<1>1. Plan \in [1..NSteps -> StepStatuses] /\ NSteps \in Nat
  BY TaskAssumption DEF Plan, Steps, StepStatuses
<1>2. QED
  BY <1>1 DEF PlanPart, Steps

LEMMA PartTyped ==
    ASSUME NEW s \in PlanPart, NEW i, NEW v \in StepStatuses
    PROVE  /\ [s EXCEPT ![i] = v] \in PlanPart
           /\ DOMAIN [s EXCEPT ![i] = v] = DOMAIN s
           /\ i \in DOMAIN s => [s EXCEPT ![i] = v][i] = v
           /\ \A j \in DOMAIN s : j # i => [s EXCEPT ![i] = v][j] = s[j]
           /\ DOMAIN s \subseteq Steps
<1>1. s \in Seq(StepStatuses) /\ DOMAIN s = 1..Len(s) /\ Len(s) \in 0..NSteps
  BY TaskAssumption DEF PlanPart
<1>2. CASE i \in 1..Len(s)
  <2>1. /\ [s EXCEPT ![i] = v] \in Seq(StepStatuses) /\ Len([s EXCEPT ![i] = v]) = Len(s)
        /\ \A j \in 1..Len(s) : [s EXCEPT ![i] = v][j] = IF j = i THEN v ELSE s[j]
    BY <1>1, <1>2, ExceptSeq
  <2>2. QED
    BY <1>1, <1>2, <2>1, TaskAssumption DEF PlanPart, Steps
<1>3. CASE i \notin 1..Len(s)
  <2> DEFINE e == [s EXCEPT ![i] = v]
  <2>1. e = s
    BY <1>1, <1>3
  <2> HIDE DEF e
  <2>2. /\ e \in PlanPart /\ DOMAIN e = DOMAIN s /\ i \notin DOMAIN s
        /\ \A j \in DOMAIN s : e[j] = s[j]
    BY <1>1, <1>3, <2>1
  <2>3. DOMAIN s \subseteq Steps
    BY <1>1, TaskAssumption DEF Steps
  <2>4. QED
    BY <2>2, <2>3 DEF e
<1>4. QED
  BY <1>2, <1>3

LEMMA PlanPrefix ==
    ASSUME NEW k \in Steps
    PROVE  /\ SubSeq(Plan, 1, k - 1) \in PlanPart
           /\ \A i \in DOMAIN SubSeq(Plan, 1, k - 1) : SubSeq(Plan, 1, k - 1)[i] = "pending"
<1>1. Plan \in Seq(StepStatuses) /\ Len(Plan) = NSteps /\ k \in 1..NSteps
  BY PlanTyped DEF PlanPart, Steps
<1>2. /\ SubSeq(Plan, 1, k - 1) \in Seq(StepStatuses)
      /\ Len(SubSeq(Plan, 1, k - 1)) = k - 1
      /\ \A i \in 1..(k - 1) : SubSeq(Plan, 1, k - 1)[i] = Plan[i]
  BY <1>1, TaskAssumption
<1>3. QED
  BY <1>1, <1>2, TaskAssumption DEF PlanPart, Plan, Steps

LEMMA StepTyped ==
    ASSUME NEW t \in Record, NEW i, NEW v \in StepStatuses
    PROVE  /\ StepSet(t, i, v) \in Record
           /\ StepSet(t, i, v).status = t.status
           /\ StepSet(t, i, v).steps = [t.steps EXCEPT ![i] = v]
  BY PartTyped DEF Record, StepSet

LEMMA StatusTyped ==
    ASSUME NEW t \in Record, NEW s \in TaskStatuses
    PROVE  /\ StatusSet(t, s) \in Record
           /\ StatusSet(t, s).status = s /\ StatusSet(t, s).steps = t.steps
  BY DEF Record, StatusSet

LEMMA ConcludeTyped ==
    ASSUME NEW t \in Record
    PROVE  /\ Conclude(t) \in Record /\ Conclude(t).status \in Final
           /\ Conclude(t).steps = t.steps
  BY StatusTyped DEF Record, Conclude, TaskStatuses, Final

LEMMA StatusStored ==
    ASSUME Typed, NEW s \in TaskStatuses, StoreStatus(s)
    PROVE  /\ stored' \in [status : TaskStatuses \cup {"none"}, steps : PlanPart]
           /\ stored'.status = s /\ stored'.steps = stored.steps
  BY DEF Typed, StoreStatus, StatusSet

LEMMA StepStored ==
    ASSUME Typed, NEW r \in Runners, NEW v \in StepStatuses, StoreStep(r, v)
    PROVE  /\ stored' \in [status : TaskStatuses \cup {"none"}, steps : PlanPart]
           /\ stored'.status = stored.status /\ at[r] \in DOMAIN stored.steps
           /\ stored'.steps = [stored.steps EXCEPT ![at[r]] = v]
  BY PartTyped DEF Typed, StoreStep, StepSet

LEMMA Least ==
    ASSUME NEW S \in SUBSET Nat, S # {}
    PROVE  Min(S) \in S
<1>1. PICK m \in S : \A n \in S : <<n, m>> \notin OpToRel(<, Nat)
  BY NatLessThanWellFounded, WFMin
<1>2. \A n \in S : n < m => <<n, m>> \in OpToRel(<, Nat)
  BY DEF OpToRel
<1>3. \A n \in S : ~ (n < m)
  BY <1>1, <1>2
<1>4. \A n \in S : m <= n
  BY <1>3
<1>5. QED
  BY <1>4 DEF Min

\* The step at which the loop goes on, or a reset.
LEMMA NextStep ==
    ASSUME NEW t \in Record, NEW i \in 1..(NSteps + 1), Unfinished(t, i) # {}
    PROVE  LET j == Min(Unfinished(t, i)) IN
           /\ j \in DOMAIN t.steps /\ j \in 0..NSteps /\ t.steps[j] \notin Finished
<1>1. /\ t.steps \in Seq(StepStatuses) /\ Len(t.steps) \in 0..NSteps
      /\ DOMAIN t.steps = 1..Len(t.steps)
  BY TaskAssumption DEF Record, PlanPart
<1>2. Unfinished(t, i) \subseteq Nat
  <2>1. i \in Nat /\ Len(t.steps) \in Nat
    BY <1>1, TaskAssumption
  <2>2. i..Len(t.steps) \subseteq Nat
    BY <2>1
  <2>3. QED
    BY <2>2 DEF Unfinished
<1>3. Min(Unfinished(t, i)) \in Unfinished(t, i)
  BY <1>2, Least
<1>4. QED
  BY <1>1, <1>3, TaskAssumption DEF Unfinished
-----------------------------------------------------------------------------
(***************************************************************************)
(* What a step of a run does to its task object: the object has the steps  *)
(* s afterwards, and the run stands at one of the places P.  At the policy *)
(* and in a reset it stands at a step that is not finished.                *)
(***************************************************************************)
Goes(r, s, P) ==
    \E t \in Record, p \in P, i \in 0..NSteps, f \in Final \cup {"none"} :
        /\ Moves(r, t, p, i, f) /\ t.steps = s
        /\ p \in {"ending", "aborting"} => f \in Final
        /\ IF p \in {"policy", "resetting"}
           THEN i \in DOMAIN s /\ s[i] \notin Finished
           ELSE i = at[r]

StepsOf(r) == Task(r).steps
With(r, v) == [StepsOf(r) EXCEPT ![at[r]] = v]

LEMMA RunTyped ==
    ASSUME Typed, NEW r \in Runners
    PROVE  /\ on[r] \in Runners /\ Task(r) \in Record /\ StepsOf(r) \in PlanPart
           /\ at[r] \in 0..NSteps /\ at[r] + 1 \in 1..(NSteps + 1)
           /\ final[r] \in Final \cup {"none"}
           /\ mem = [mem EXCEPT ![on[r]] = Task(r)]
           /\ at = [at EXCEPT ![r] = at[r]] /\ final = [final EXCEPT ![r] = final[r]]
<1>1. at[r] \in 0..NSteps /\ on[r] \in Runners /\ final[r] \in Final \cup {"none"}
  BY DEF Typed, RunOK
<1>2. at[r] + 1 \in 1..(NSteps + 1)
  BY <1>1, TaskAssumption
<1>3. Task(r) \in Record /\ StepsOf(r) \in PlanPart
  BY <1>1 DEF Typed, RunOK, Task, StepsOf, Record
<1>4. QED
  BY <1>1, <1>2, <1>3 DEF Typed, RunOK, Task

\* One task object is written, and the run goes to p without choosing a step.
LEMMA GoesTo ==
    ASSUME Typed, NEW r \in Runners, NEW t \in Record, NEW p \in Places,
           p \notin {"policy", "resetting", "ending", "aborting"},
           SetTask(r, t), Goto(r, p), UNCHANGED <<on, at, final>>
    PROVE  Goes(r, t.steps, {p})
<1>1. Moves(r, t, p, at[r], final[r])
  BY RunTyped DEF Moves, SetTask, Goto
<1>2. QED
  BY <1>1, RunTyped DEF Goes

LEMMA StaysAt ==
    ASSUME Typed, NEW r \in Runners, NEW p \in Places,
           p \notin {"policy", "resetting", "ending", "aborting"},
           Goto(r, p), UNCHANGED <<on, at, final, mem>>
    PROVE  Goes(r, StepsOf(r), {p})
<1>1. SetTask(r, Task(r))
  BY RunTyped DEF SetTask
<1>2. QED
  BY <1>1, RunTyped, GoesTo DEF StepsOf

LEMMA GoesWider ==
    ASSUME NEW r, NEW s, NEW P, NEW Q, P \subseteq Q, Goes(r, s, P)
    PROVE  Goes(r, s, Q)
  BY DEF Goes

LEMMA EndGoes ==
    ASSUME Typed, NEW r \in Runners, NEW t \in Record, End(r, t)
    PROVE  Goes(r, t.steps, {"ending"}) /\ allowed' = allowed
<1>1. Moves(r, Conclude(t), "ending", at[r], Conclude(t).status) /\ allowed' = allowed
  BY RunTyped DEF End, Moves, SetTask, Goto
<1>2. Conclude(t) \in Record /\ Conclude(t).status \in Final /\ Conclude(t).steps = t.steps
  BY ConcludeTyped
<1>3. QED
  BY <1>1, <1>2, RunTyped DEF Goes

LEMMA AbortGoes ==
    ASSUME Typed, NEW r \in Runners, NEW t \in Record, t.status \in Final, Abort(r, t)
    PROVE  Goes(r, t.steps, {"aborting"}) /\ allowed' = allowed
<1>1. Moves(r, t, "aborting", at[r], t.status) /\ allowed' = allowed
  BY RunTyped DEF Abort, Moves, SetTask, Goto
<1>2. QED
  BY <1>1, RunTyped DEF Goes

LEMMA ProceedGoes ==
    ASSUME Typed, NEW r \in Runners, NEW t \in Record, NEW i \in 1..(NSteps + 1), Proceed(r, t, i)
    PROVE  Goes(r, t.steps, {"ending", "policy"}) /\ allowed' = allowed
<1>1. CASE t.status \in Stopped \/ Unfinished(t, i) = {}
  BY <1>1, EndGoes, GoesWider DEF Proceed
<1>2. CASE ~(t.status \in Stopped \/ Unfinished(t, i) = {})
  <2> DEFINE j == Min(Unfinished(t, i))
  <2>1. Moves(r, t, "policy", j, final[r]) /\ allowed' = allowed
    BY <1>2, RunTyped DEF Proceed, Moves, SetTask, Goto
  <2>2. j \in DOMAIN t.steps /\ j \in 0..NSteps /\ t.steps[j] \notin Finished
    BY <1>2, NextStep
  <2> HIDE DEF j
  <2>3. QED
    BY <2>1, <2>2, RunTyped DEF Goes
<1>3. QED
  BY <1>1, <1>2

LEMMA EnterGoes ==
    ASSUME Typed, NEW r \in Runners, NEW t \in Record, Enter(r, t)
    PROVE  /\ Goes(r, t.steps, {"ending", "aborting", "policy"})
           /\ allowed' = allowed /\ used' \in Nat
<1>1. used' \in Nat
  BY DEF Enter, Spend, Typed, TypeOK
<1>2. 1 \in 1..(NSteps + 1)
  BY TaskAssumption
<1>3. StatusSet(t, "paused") \in Record /\ StatusSet(t, "paused").status = "paused"
      /\ StatusSet(t, "paused").steps = t.steps
  BY StatusTyped DEF TaskStatuses, Final
<1>4. CASE OverBudget
  BY <1>1, <1>3, <1>4, AbortGoes, GoesWider DEF Enter, Final
<1>5. CASE ~OverBudget
  BY <1>1, <1>2, <1>5, ProceedGoes, GoesWider DEF Enter
<1>6. QED
  BY <1>4, <1>5

LEMMA RunTaskGoes ==
    ASSUME Typed, NEW r \in Runners, NEW t \in Record, RunTask(r, t)
    PROVE  /\ Goes(r, t.steps, {"beginning", "ending", "aborting", "policy"})
           /\ allowed' = allowed /\ used' \in Nat
<1>1. CASE t.status = "executing"
  BY <1>1, EnterGoes, GoesWider DEF RunTask
<1>2. CASE t.status # "executing"
  <2>1. StatusSet(t, "executing") \in Record /\ StatusSet(t, "executing").steps = t.steps
    BY StatusTyped DEF TaskStatuses
  <2>2. Goes(r, t.steps, {"beginning"})
    BY <1>2, <2>1, GoesTo DEF RunTask, Places
  <2>3. QED
    BY <1>2, <2>2, GoesWider DEF RunTask, Typed, TypeOK
<1>3. QED
  BY <1>1, <1>2

LEMMA StartGoes ==
    ASSUME Typed, NEW r \in Runners, NEW ok \in BOOLEAN, Start(r, ok)
    PROVE  /\ \/ Goes(r, With(r, "skipped"), {"skipping"})
              \/ Goes(r, StepsOf(r), {"aborting"})
              \/ Goes(r, With(r, "running"), {"starting"})
           /\ allowed' = allowed /\ used' \in Nat
<1>1. CASE ~ok
  <2>1. StepSet(Task(r), at[r], "skipped") \in Record
        /\ StepSet(Task(r), at[r], "skipped").steps = With(r, "skipped")
    BY StepTyped, RunTyped DEF StepStatuses, With, StepsOf
  <2>2. QED
    BY <1>1, <2>1, GoesTo DEF Start, Places, Typed, TypeOK
<1>2. CASE ok /\ OverBudget
  <2>1. StatusSet(Task(r), "paused") \in Record /\ StatusSet(Task(r), "paused").status = "paused"
        /\ StatusSet(Task(r), "paused").steps = StepsOf(r)
    BY StatusTyped, RunTyped DEF TaskStatuses, Final, StepsOf
  <2>2. QED
    BY <1>2, <2>1, AbortGoes DEF Start, Spend, Final, Typed, TypeOK
<1>3. CASE ok /\ ~OverBudget
  <2>1. StepSet(Task(r), at[r], "running") \in Record
        /\ StepSet(Task(r), at[r], "running").steps = With(r, "running")
    BY StepTyped, RunTyped DEF StepStatuses, With, StepsOf
  <2>2. /\ SetTask(r, StepSet(Task(r), at[r], "running")) /\ Goto(r, "starting")
        /\ UNCHANGED <<on, at, allowed, final>> /\ Spend
    BY <1>3 DEF Start
  <2>3. used' \in Nat
    BY <2>2 DEF Spend, Typed, TypeOK
  <2>4. QED
    BY <2>1, <2>2, <2>3, GoesTo DEF Places
<1>4. QED
  BY <1>1, <1>2, <1>3

LEMMA ResetGoes ==
    ASSUME Typed, NEW r \in Runners, NEW t \in Record, NEW i \in 1..(NSteps + 1),
           ResetFrom(r, t, i), UNCHANGED <<on, final>>
    PROVE  \/ Goes(r, t.steps, {"reopening"})
           \/ \E j \in DOMAIN t.steps :
                 /\ t.steps[j] \notin Finished
                 /\ Goes(r, [t.steps EXCEPT ![j] = "pending"], {"resetting"})
<1>1. CASE Unfinished(t, i) = {}
  <2>1. StatusSet(t, "executing") \in Record /\ StatusSet(t, "executing").steps = t.steps
    BY StatusTyped DEF TaskStatuses
  <2>2. QED
    BY <1>1, <2>1, GoesTo DEF ResetFrom, Places
<1>2. CASE Unfinished(t, i) # {}
  <2> DEFINE j == Min(Unfinished(t, i))
             u == StepSet(t, j, "pending")
  <2>1. j \in DOMAIN t.steps /\ j \in 0..NSteps /\ t.steps[j] \notin Finished
    BY <1>2, NextStep
  <2>2. u \in Record /\ u.steps = [t.steps EXCEPT ![j] = "pending"]
    BY StepTyped DEF StepStatuses
  <2>3. Moves(r, u, "resetting", j, final[r])
    BY <1>2, RunTyped DEF ResetFrom, Moves, SetTask, Goto
  <2>4. j \in DOMAIN u.steps /\ u.steps[j] \notin Finished
    BY <2>1, <2>2, PartTyped DEF Record, StepStatuses, Finished
  <2> HIDE DEF j, u
  <2>5. Goes(r, u.steps, {"resetting"})
    BY <2>1, <2>2, <2>3, <2>4, RunTyped DEF Goes
  <2>6. QED
    BY <2>1, <2>2, <2>5
<1>3. QED
  BY <1>1, <1>2

LEMMA GoesRunOK ==
    ASSUME Typed, NEW r \in Runners, NEW s, NEW P \in SUBSET (Places \ {"loading"}), Goes(r, s, P)
    PROVE  RunOK'
<1>1. PICK t \in Record, p \in P, i \in 0..NSteps, f \in Final \cup {"none"} :
           Moves(r, t, p, i, f) /\ (p \in {"ending", "aborting"} => f \in Final)
  BY DEF Goes
<1>2. p \in Places /\ p # "loading"
  OBVIOUS
<1>3. /\ \A q \in Runners \ {r} : pc'[q] = pc[q] /\ at'[q] = at[q] /\ final'[q] = final[q]
      /\ pc'[r] = p /\ final'[r] = f
  BY <1>1, <1>2 DEF Moves, Typed, RunOK
<1>4. /\ pc' \in [Runners -> Places] /\ on' \in [Runners -> Runners]
      /\ at' \in [Runners -> 0..NSteps] /\ final' \in [Runners -> Final \cup {"none"}]
      /\ mem' \in [Runners -> Record]
  BY <1>1, <1>2 DEF Moves, Typed, RunOK
<1>5. QED
  BY <1>1, <1>2, <1>3, <1>4 DEF Typed, RunOK

\* The effect of each step of a run, up to the decision at a gate.
LEMMA StepGoes ==
    ASSUME Typed, NEW r \in Runners
    PROVE  /\ Planned(r) => Goes(r, Plan, {"beginning", "ending", "aborting", "policy"})
           /\ PlanFails(r) =>
                \/ Goes(r, StepsOf(r), {"unplanned"}) /\ stored' = stored
                \/ /\ Goes(r, Plan, {"unplanned"})
                   /\ \E k \in Steps : stored' = [stored EXCEPT !.steps = SubSeq(Plan, 1, k - 1)]
           /\ Begun(r) => Goes(r, StepsOf(r), {"ending", "aborting", "policy"})
           /\ Decide(r) =>
                \/ at[r] \in Gated /\ Goes(r, StepsOf(r), {"gating"})
                \/ Goes(r, With(r, "skipped"), {"skipping"})
                \/ Goes(r, StepsOf(r), {"aborting"})
                \/ at[r] \notin Gated /\ Goes(r, With(r, "running"), {"starting"})
           /\ Gating(r) => Goes(r, StepsOf(r), {"announcing"})
           /\ Announced(r) => Goes(r, StepsOf(r), {"waiting"})
           /\ Resolved(r) =>
                \/ Goes(r, With(r, "skipped"), {"skipping"})
                \/ Goes(r, StepsOf(r), {"ending"})
                \/ /\ Goes(r, StepsOf(r), {"approved"})
                   /\ decision[Gate(r)] \in {"approved", "skipped"}
<1>1. Task(r) \in Record /\ on[r] \in Runners /\ at[r] \in 0..NSteps
  BY RunTyped
<1>2. ASSUME Planned(r)  PROVE Goes(r, Plan, {"beginning", "ending", "aborting", "policy"})
  <2>1. [Task(r) EXCEPT !.steps = Plan] \in Record /\ [Task(r) EXCEPT !.steps = Plan].steps = Plan
    BY <1>1, PlanTyped DEF Record
  <2>2. QED
    BY <1>2, <2>1, RunTaskGoes DEF Planned
<1>3. ASSUME PlanFails(r)
      PROVE  \/ Goes(r, StepsOf(r), {"unplanned"}) /\ stored' = stored
             \/ /\ Goes(r, Plan, {"unplanned"})
                /\ \E k \in Steps : stored' = [stored EXCEPT !.steps = SubSeq(Plan, 1, k - 1)]
  <2>1. /\ StatusSet(Task(r), "failed") \in Record
        /\ StatusSet(Task(r), "failed").steps = StepsOf(r)
    BY <1>1, StatusTyped DEF TaskStatuses, Final, StepsOf
  <2>2. /\ [status |-> "failed", steps |-> Plan] \in Record
        /\ [status |-> "failed", steps |-> Plan].steps = Plan
    BY PlanTyped DEF Record, TaskStatuses, Final
  <2>3. CASE SetTask(r, StatusSet(Task(r), "failed")) /\ UNCHANGED stored
    BY <1>3, <2>1, <2>3, GoesTo DEF PlanFails, run, Places
  <2>4. ASSUME NEW k \in Steps, SetTask(r, [status |-> "failed", steps |-> Plan]),
               stored' = [stored EXCEPT !.steps = SubSeq(Plan, 1, k - 1)]
        PROVE  Goes(r, Plan, {"unplanned"})
    BY <1>3, <2>2, <2>4, GoesTo DEF PlanFails, run, Places
  <2>5. QED
    BY <1>3, <2>3, <2>4 DEF PlanFails
<1>4. ASSUME Begun(r)  PROVE Goes(r, StepsOf(r), {"ending", "aborting", "policy"})
  BY <1>1, <1>4, EnterGoes DEF Begun, StepsOf
<1>5. ASSUME Decide(r)
      PROVE  \/ at[r] \in Gated /\ Goes(r, StepsOf(r), {"gating"})
             \/ Goes(r, With(r, "skipped"), {"skipping"})
             \/ Goes(r, StepsOf(r), {"aborting"})
             \/ at[r] \notin Gated /\ Goes(r, With(r, "running"), {"starting"})
  <2>1. CASE at[r] \in Gated
    BY <1>5, <2>1, StaysAt DEF Decide, Places
  <2>2. CASE at[r] \notin Gated
    BY <1>5, <2>2, StartGoes DEF Decide
  <2>3. QED
    BY <2>1, <2>2
<1>6. ASSUME Gating(r)  PROVE Goes(r, StepsOf(r), {"announcing"})
  <2>1. /\ StatusSet(Task(r), "waiting_approval") \in Record
        /\ StatusSet(Task(r), "waiting_approval").steps = StepsOf(r)
    BY <1>1, StatusTyped DEF TaskStatuses, StepsOf
  <2>2. QED
    BY <1>6, <2>1, GoesTo DEF Gating, run, Places
<1>7. ASSUME Announced(r)  PROVE Goes(r, StepsOf(r), {"waiting"})
  BY <1>7, StaysAt DEF Announced, run, Places
<1>8. ASSUME Resolved(r)
      PROVE  \/ Goes(r, With(r, "skipped"), {"skipping"})
             \/ Goes(r, StepsOf(r), {"ending"})
             \/ /\ Goes(r, StepsOf(r), {"approved"})
                /\ decision[Gate(r)] \in {"approved", "skipped"}
  <2>1. /\ StepSet(Task(r), at[r], "skipped") \in Record
        /\ StepSet(Task(r), at[r], "skipped").steps = With(r, "skipped")
    BY <1>1, StepTyped DEF StepStatuses, With, StepsOf
  <2>2. \A v \in {"failed", "executing"} :
           StatusSet(Task(r), v) \in Record /\ StatusSet(Task(r), v).steps = StepsOf(r)
    BY <1>1, StatusTyped DEF TaskStatuses, Final, StepsOf
  <2>3. CASE SetTask(r, StepSet(Task(r), at[r], "skipped")) /\ Goto(r, "skipping") /\ UNCHANGED run
    BY <2>1, <2>3, GoesTo DEF run, Places
  <2>4. CASE End(r, StatusSet(Task(r), "failed"))
    BY <2>2, <2>4, EndGoes
  <2>5. CASE /\ ~Refused(decision[Gate(r)]) /\ decision[Gate(r)] # "expired"
             /\ SetTask(r, StatusSet(Task(r), "executing"))
             /\ Goto(r, "approved") /\ UNCHANGED run
    <3>1. Goes(r, StepsOf(r), {"approved"})
      BY <2>2, <2>5, GoesTo DEF run, Places
    <3>2. decision[Gate(r)] \in {"approved", "skipped"}
      BY <1>8, <2>5 DEF Resolved, Refused, G!Decisions, G!Answers
    <3>3. QED
      BY <3>1, <3>2
  <2>6. QED
    BY <1>8, <2>3, <2>4, <2>5 DEF Resolved
<1>9. QED
  BY <1>2, <1>3, <1>4, <1>5, <1>6, <1>7, <1>8

\* The same from the gate on, and for a replay.
LEMMA LaterStepGoes ==
    ASSUME Typed, NEW r \in Runners
    PROVE  /\ Approved(r) =>
                \/ Goes(r, With(r, "skipped"), {"skipping"})
                \/ Goes(r, StepsOf(r), {"aborting"})
                \/ Goes(r, With(r, "running"), {"starting"})
           /\ Skipped(r) \/ Completed(r) \/ Failed(r) => Goes(r, StepsOf(r), {"ending", "policy"})
           /\ Started(r) => Goes(r, StepsOf(r), {"acting"})
           /\ Acted(r) \/ CompleteFails(r) =>
                \/ Acted(r) /\ Goes(r, With(r, "complete"), {"completing"})
                \/ Goes(r, With(r, "failed"), {"failing"})
           /\ LoopFails(r) => Goes(r, StepsOf(r), {"aborting"})
           /\ Loaded(r) =>
                \/ Goes(r, stored.steps, {"reopening"})
                \/ \E j \in DOMAIN stored.steps :
                      /\ stored.steps[j] \notin Finished
                      /\ Goes(r, [stored.steps EXCEPT ![j] = "pending"], {"resetting"})
           /\ StepReset(r) =>
                \/ Goes(r, StepsOf(r), {"reopening"})
                \/ \E j \in DOMAIN StepsOf(r) :
                      /\ StepsOf(r)[j] \notin Finished
                      /\ Goes(r, [StepsOf(r) EXCEPT ![j] = "pending"], {"resetting"})
           /\ Reopened(r) => Goes(r, StepsOf(r), {"beginning", "ending", "aborting", "policy"})
<1>1. Task(r) \in Record /\ on[r] \in Runners /\ at[r] + 1 \in 1..(NSteps + 1)
  BY RunTyped
<1>2. /\ StepSet(Task(r), at[r], "complete") \in Record
      /\ StepSet(Task(r), at[r], "complete").steps = With(r, "complete")
      /\ StepSet(Task(r), at[r], "failed") \in Record
      /\ StepSet(Task(r), at[r], "failed").steps = With(r, "failed")
  BY <1>1, StepTyped DEF StepStatuses, With, StepsOf
<1>3. /\ StatusSet(Task(r), "failed") \in Record
      /\ StatusSet(Task(r), "failed").status = "failed"
      /\ StatusSet(Task(r), "failed").steps = StepsOf(r)
  BY <1>1, StatusTyped DEF TaskStatuses, Final, StepsOf
<1>4. ASSUME Skipped(r) \/ Completed(r) \/ Failed(r)
      PROVE  Goes(r, StepsOf(r), {"ending", "policy"})
  <2>1. CASE Proceed(r, Task(r), at[r] + 1)
    BY <1>1, <2>1, ProceedGoes DEF StepsOf
  <2>2. CASE End(r, StatusSet(Task(r), "failed"))
    BY <1>3, <2>2, EndGoes, GoesWider
  <2>3. QED
    BY <1>4, <2>1, <2>2 DEF Skipped, Completed, Failed
<1>5. ASSUME Started(r)  PROVE Goes(r, StepsOf(r), {"acting"})
  BY <1>5, StaysAt DEF Started, run, Places
<1>6. ASSUME Acted(r) \/ CompleteFails(r)
      PROVE  \/ Acted(r) /\ Goes(r, With(r, "complete"), {"completing"})
             \/ Goes(r, With(r, "failed"), {"failing"})
  <2>1. CASE Acted(r) /\ SetTask(r, StepSet(Task(r), at[r], "complete")) /\ Goto(r, "completing")
    BY <1>2, <2>1, GoesTo DEF Acted, run, Places
  <2>2. CASE SetTask(r, StepSet(Task(r), at[r], "failed")) /\ Goto(r, "failing")
    BY <1>2, <1>6, <2>2, GoesTo DEF Acted, CompleteFails, run, Places
  <2>3. QED
    BY <1>6, <2>1, <2>2 DEF Acted, CompleteFails
<1>7. ASSUME LoopFails(r)  PROVE Goes(r, StepsOf(r), {"aborting"})
  BY <1>3, <1>7, AbortGoes DEF LoopFails, Final
<1>8. ASSUME Loaded(r)
      PROVE  \/ Goes(r, stored.steps, {"reopening"})
             \/ \E j \in DOMAIN stored.steps :
                   /\ stored.steps[j] \notin Finished
                   /\ Goes(r, [stored.steps EXCEPT ![j] = "pending"], {"resetting"})
  <2>1. stored \in Record /\ at[r] \in 1..(NSteps + 1)
    BY <1>8, TaskAssumption DEF Loaded, At, Typed, RunOK, Record, Steps
  <2>2. QED
    BY <1>8, <2>1, ResetGoes DEF Loaded
<1>9. ASSUME StepReset(r)
      PROVE  \/ Goes(r, StepsOf(r), {"reopening"})
             \/ \E j \in DOMAIN StepsOf(r) :
                   /\ StepsOf(r)[j] \notin Finished
                   /\ Goes(r, [StepsOf(r) EXCEPT ![j] = "pending"], {"resetting"})
  BY <1>1, <1>9, ResetGoes DEF StepReset, StepsOf
<1>10. ASSUME Reopened(r)
       PROVE  Goes(r, StepsOf(r), {"beginning", "ending", "aborting", "policy"})
  BY <1>1, <1>10, RunTaskGoes DEF Reopened, StepsOf
<1>11. ASSUME Approved(r)
       PROVE  \/ Goes(r, With(r, "skipped"), {"skipping"})
              \/ Goes(r, StepsOf(r), {"aborting"})
              \/ Goes(r, With(r, "running"), {"starting"})
  <2>1. allowed[r] \in BOOLEAN /\ Start(r, allowed[r])
    BY <1>11 DEF Approved, Typed, TypeOK
  <2>2. QED
    BY <2>1, StartGoes
<1>12. QED
  BY <1>4, <1>5, <1>6, <1>7, <1>8, <1>9, <1>10, <1>11
-----------------------------------------------------------------------------
LEMMA LeaveRunOK ==
    ASSUME Typed, NEW r \in Runners, NEW p \in {"done", "lost"}, Leave(r, p), UNCHANGED mem
    PROVE  RunOK' /\ allowed' \in [Runners -> BOOLEAN]
<1>1. p \in Places /\ p \notin {"loading", "ending", "aborting"} /\ 0 \in 0..NSteps
  BY TaskAssumption DEF Places
<1>2. allowed' \in [Runners -> BOOLEAN]
  BY DEF Leave, Typed, TypeOK
<1>3. QED
  BY <1>1, <1>2 DEF Leave, Goto, Typed, RunOK

\* The conjuncts of TypeOK about tasks, for records.
LEMMA RecordTyped == \A t \in Record : TaskRecord(t)
  BY DEF Record, PlanPart, TaskRecord, TaskStatuses, StepLists, StepStatuses

LEMMA InitTyped == Init => Typed
<1> SUFFICES ASSUME Init  PROVE Typed
  OBVIOUS
<1>1. <<>> \in PlanPart
  BY TaskAssumption DEF PlanPart
<1>2. NoTask \in Record
  BY <1>1 DEF NoTask, Record, TaskStatuses
<1>3. mem \in [Runners -> Record] /\ \A r \in Runners : TaskRecord(mem[r])
  BY <1>2, RecordTyped DEF Init
<1>4. allowed \in [Runners -> BOOLEAN] /\ overlap \in BOOLEAN
  BY DEF Init
<1>5. /\ at \in [Runners -> 0..NSteps] /\ on \in [Runners -> Runners]
      /\ used \in Nat /\ active \in Runners \cup {None}
  BY TaskAssumption DEF Init
<1>6. /\ pc \in [Runners -> Places] /\ \A r \in Runners : pc[r] = "idle"
      /\ final \in [Runners -> Final \cup {"none"}]
      /\ cancel \in [Cancels -> {"idle", "writing", "done"}]
      /\ decision \in [Runners \X Gated -> G!Undecided \cup G!Decisions]
  BY DEF Init, Places, G!Init, G!Undecided
<1>7. stored.status = "none" /\ stored \in [status : TaskStatuses \cup {"none"}, steps : PlanPart]
  BY <1>1 DEF Init
<1>8. TypeOK
  BY <1>3, <1>4, <1>5, <1>6, <1>7 DEF TypeOK, Places
<1>9. QED
  BY <1>3, <1>5, <1>6, <1>7, <1>8 DEF Typed, RunOK

(***************************************************************************)
(* What the steps do to the rest: the store keeps a task once it has one,  *)
(* and the flags, gates and calls of cancel() stay what they are.          *)
(***************************************************************************)
Rest ==
    /\ stored' \in [status : TaskStatuses \cup {"none"}, steps : PlanPart]
    /\ stored'.status = "none" => stored.status = "none"
    /\ allowed' \in [Runners -> BOOLEAN] /\ overlap' \in BOOLEAN
    /\ active' \in Runners \cup {None} /\ used' \in Nat
    /\ cancel' \in [Cancels -> {"idle", "writing", "done"}]
    /\ decision' \in [Runners \X Gated -> G!Undecided \cup G!Decisions]

LEMMA RestTyped ==
    ASSUME Typed, Rest, RunOK', stored'.status # "none"
    PROVE  Typed'
<1>1. (\A r \in Runners : TaskRecord(mem[r]))'
  BY RecordTyped DEF RunOK
<1>2. TaskRecord(stored)'
  BY RecordTyped DEF Rest, Record
<1>3. TypeOK'
  BY <1>1, <1>2 DEF Rest, RunOK, TypeOK, Places
<1>4. QED
  BY <1>3 DEF Typed, Rest

LEMMA KeptTyped ==
    ASSUME Typed
    PROVE  /\ UNCHANGED stored =>
                /\ stored' \in [status : TaskStatuses \cup {"none"}, steps : PlanPart]
                /\ stored'.status = "none" => stored.status = "none"
           /\ UNCHANGED allowed => allowed' \in [Runners -> BOOLEAN]
           /\ UNCHANGED overlap => overlap' \in BOOLEAN
           /\ UNCHANGED active => active' \in Runners \cup {None}
           /\ UNCHANGED used => used' \in Nat
           /\ UNCHANGED cancel => cancel' \in [Cancels -> {"idle", "writing", "done"}]
           /\ UNCHANGED decision =>
                decision' \in [Runners \X Gated -> G!Undecided \cup G!Decisions]
  BY DEF Typed, TypeOK

\* replay() loads the stored task, or takes the object that is registered.
LEMMA ReplayGoes ==
    ASSUME Typed, NEW r \in Runners, Replay(r)
    PROVE  /\ r # First /\ pc[r] = "idle"
           /\ \/ /\ active = None /\ UNCHANGED <<on, mem>>
                 /\ pc' = [pc EXCEPT ![r] = "loading"]
                 /\ \E i \in Steps : at' = [at EXCEPT ![r] = i]
              \/ /\ active \in Runners /\ on' = [on EXCEPT ![r] = active]
                 /\ \E t \in Record : \E j \in 0..NSteps :
                       /\ mem' = [mem EXCEPT ![active] = t] /\ at' = [at EXCEPT ![r] = j]
                       /\ \/ t.steps = mem[active].steps /\ pc' = [pc EXCEPT ![r] = "reopening"]
                          \/ /\ j \in DOMAIN mem[active].steps
                             /\ mem[active].steps[j] \notin Finished
                             /\ t.steps = [mem[active].steps EXCEPT ![j] = "pending"]
                             /\ pc' = [pc EXCEPT ![r] = "resetting"]
<1>1. r # First /\ pc[r] = "idle" /\ at = [at EXCEPT ![r] = at[r]] /\ at[r] \in 0..NSteps
  BY RunTyped DEF Replay, At
<1>2. CASE active = None
  BY <1>1, <1>2 DEF Replay, Goto
<1>3. CASE active # None
  <2>1. active \in Runners /\ mem[active] \in Record
    BY <1>3 DEF Typed, TypeOK, RunOK
  <2>2. PICK i \in Steps :
          IF Unfinished(mem[active], i) = {}
          THEN /\ mem' = [mem EXCEPT ![active].status = "executing"]
               /\ Goto(r, "reopening") /\ UNCHANGED at
          ELSE LET j == Min(Unfinished(mem[active], i)) IN
               /\ mem' = [mem EXCEPT ![active].steps[j] = "pending"]
               /\ at' = [at EXCEPT ![r] = j]
               /\ Goto(r, "resetting")
    BY <1>3 DEF Replay
  <2>3. i \in 1..(NSteps + 1)
    BY TaskAssumption DEF Steps
  <2>4. on' = [on EXCEPT ![r] = active]
    BY <1>3 DEF Replay
  <2>5. CASE Unfinished(mem[active], i) = {}
    <3> DEFINE t == StatusSet(mem[active], "executing")
    <3>1. mem' = [mem EXCEPT ![active] = t]
      BY <2>1, <2>2, <2>5 DEF StatusSet, Typed, RunOK
    <3>2. t \in Record /\ t.steps = mem[active].steps
      BY <2>1, StatusTyped DEF TaskStatuses
    <3>3. pc' = [pc EXCEPT ![r] = "reopening"] /\ at' = [at EXCEPT ![r] = at[r]]
      BY <1>1, <2>2, <2>5 DEF Goto
    <3> HIDE DEF t
    <3>4. QED
      BY <1>1, <2>1, <2>4, <3>1, <3>2, <3>3
  <2>6. CASE Unfinished(mem[active], i) # {}
    <3> DEFINE j == Min(Unfinished(mem[active], i))
               t == StepSet(mem[active], j, "pending")
    <3>1. j \in DOMAIN mem[active].steps /\ j \in 0..NSteps /\ mem[active].steps[j] \notin Finished
      BY <2>1, <2>3, <2>6, NextStep
    <3>2. t \in Record /\ t.steps = [mem[active].steps EXCEPT ![j] = "pending"]
      BY <2>1, StepTyped DEF StepStatuses
    <3>3. at' = [at EXCEPT ![r] = j] /\ pc' = [pc EXCEPT ![r] = "resetting"]
          /\ mem' = [mem EXCEPT ![active].steps[j] = "pending"]
      BY <2>2, <2>6 DEF Goto
    <3> HIDE DEF j
    <3>4. mem' = [mem EXCEPT ![active] = t]
      BY <2>1, <3>3 DEF StepSet, Typed, RunOK
    <3> HIDE DEF t
    <3>5. QED
      BY <1>1, <2>1, <2>4, <3>1, <3>2, <3>3, <3>4
  <2>7. QED
    BY <2>5, <2>6
<1>4. QED
  BY <1>2, <1>3

\* Writes of the whole list of steps: the plan, or what was created of it.
LEMMA PlanStored ==
    ASSUME Typed, NEW s \in PlanPart, stored' = [stored EXCEPT !.steps = s]
    PROVE  /\ stored' \in [status : TaskStatuses \cup {"none"}, steps : PlanPart]
           /\ stored'.status = stored.status /\ stored'.steps = s
  BY DEF Typed

LEMMA GateTyped ==
    ASSUME Typed, NEW g \in Runners \X Gated, G!Ask(g) \/ G!Decide(g)
    PROVE  /\ decision' \in [Runners \X Gated -> G!Undecided \cup G!Decisions]
           /\ \A h \in Runners \X Gated :
                 decision[h] \in G!Decisions => decision'[h] = decision[h]
<1>1. PICK d \in G!Undecided \cup G!Decisions : decision' = [decision EXCEPT ![g] = d]
  BY DEF G!Ask, G!Decide, G!Undecided
<1>2. decision[g] \notin G!Decisions
  BY DEF G!Ask, G!Decide, G!Decisions, G!Answers
<1>3. QED
  BY <1>1, <1>2 DEF Typed, TypeOK

\* The gate of a run that waits is one of its own.
LEMMA AskTyped ==
    ASSUME Typed, NEW r \in Runners, G!Ask(Gate(r))
    PROVE  decision' \in [Runners \X Gated -> G!Undecided \cup G!Decisions]
  BY DEF G!Ask, G!Undecided, Typed, TypeOK

LEMMA GoesOnTyped ==
    ASSUME Typed, Rest, NEW r \in Runners, NEW s, NEW P \in SUBSET (Places \ {"loading"}),
           Goes(r, s, P), pc[r] # "idle", stored.status # "none"
    PROVE  Typed'
  BY GoesRunOK, RestTyped DEF Rest

LEMMA RunGoesOnTyped ==
    ASSUME Typed, NEW r \in Runners, RunGoesOn(r)
    PROVE  Typed'
<1>1. pc[r] # "idle" /\ stored.status # "none"
  BY DEF RunGoesOn, Typed, At, Planned, PlanFails, Unplanned, Begun, Decide, Gating, Announced,
         Resolved, Approved, Skipped, Started, Acted, Completed, CompleteFails, Failed,
         LoopFails, Ended, RunDies, Loaded, StepReset, Reopened
<1>2. \A v \in {"executing", "waiting_approval"} : StoreStatus(v) =>
        /\ stored' \in [status : TaskStatuses \cup {"none"}, steps : PlanPart]
        /\ stored'.status # "none"
  BY StatusStored DEF TaskStatuses
<1>3. \A v \in StepStatuses : StoreStep(r, v) =>
        /\ stored' \in [status : TaskStatuses \cup {"none"}, steps : PlanPart]
        /\ stored'.status # "none"
  BY <1>1, StepStored DEF StepStatuses
<1>4. CASE Planned(r)
  <2>1. /\ stored' \in [status : TaskStatuses \cup {"none"}, steps : PlanPart]
        /\ stored'.status = stored.status
    BY <1>4, PlanStored, PlanTyped DEF Planned
  <2>2. allowed' = allowed /\ used' \in Nat
    <3>1. [Task(r) EXCEPT !.steps = Plan] \in Record
      BY RunTyped, PlanTyped DEF Record
    <3>2. QED
      BY <1>4, <3>1, RunTaskGoes DEF Planned
  <2>3. Rest
    BY <1>4, <2>1, <2>2, KeptTyped DEF Rest, Planned
  <2>4. QED
    BY <1>1, <1>4, <2>3, StepGoes, GoesOnTyped DEF Places
<1>5. CASE PlanFails(r)
  <2>1. /\ stored' \in [status : TaskStatuses \cup {"none"}, steps : PlanPart]
        /\ stored'.status = stored.status
    BY <1>5, StepGoes, PlanStored, PlanPrefix, KeptTyped
  <2>2. Rest
    BY <1>5, <2>1, KeptTyped DEF Rest, PlanFails, run
  <2>3. \E s : Goes(r, s, {"unplanned"})
    BY <1>5, StepGoes
  <2>4. QED
    BY <1>1, <2>2, <2>3, GoesOnTyped DEF Places
<1>6. CASE Unplanned(r) \/ Ended(r) \/ RunDies(r)
  <2>1. RunOK' /\ allowed' \in [Runners -> BOOLEAN]
    BY <1>6, LeaveRunOK DEF Unplanned, Ended, RunDies
  <2>2. /\ stored' \in [status : TaskStatuses \cup {"none"}, steps : PlanPart]
        /\ stored'.status # "none"
    <3>1. CASE UNCHANGED stored
      BY <1>1, <3>1, KeptTyped
    <3>2. \A v \in Final : StoreStatus(v) =>
            /\ stored' \in [status : TaskStatuses \cup {"none"}, steps : PlanPart]
            /\ stored'.status # "none"
      BY StatusStored DEF TaskStatuses, Final
    <3>3. Ended(r) => final[r] \in Final
      BY DEF Ended, At, Typed, RunOK
    <3>4. QED
      BY <1>6, <3>1, <3>2, <3>3 DEF Unplanned, Ended, RunDies, Final
  <2>3. active' \in Runners \cup {None}
    BY <1>6, KeptTyped DEF Unplanned, Ended, RunDies
  <2>4. Rest
    BY <1>6, <2>1, <2>2, <2>3, KeptTyped DEF Rest, Unplanned, Ended, RunDies
  <2>5. QED
    BY <2>1, <2>2, <2>4, RestTyped
<1>7. CASE Begun(r)
  <2>1. allowed' = allowed /\ used' \in Nat
    BY <1>7, RunTyped, EnterGoes DEF Begun
  <2>2. Rest
    BY <1>2, <1>7, <2>1, KeptTyped DEF Rest, Begun
  <2>3. QED
    BY <1>1, <1>7, <2>2, StepGoes, GoesOnTyped DEF Places
<1>8. CASE Decide(r) \/ Approved(r)
  <2>1. allowed' \in [Runners -> BOOLEAN] /\ used' \in Nat
    <3>1. CASE \E ok \in BOOLEAN : Start(r, ok)
      BY <3>1, StartGoes, KeptTyped
    <3>2. ASSUME NEW ok \in BOOLEAN, allowed' = [allowed EXCEPT ![r] = ok], UNCHANGED used
          PROVE  allowed' \in [Runners -> BOOLEAN] /\ used' \in Nat
      BY <3>2 DEF Typed, TypeOK
    <3>3. CASE Decide(r)
      BY <3>1, <3>2, <3>3 DEF Decide
    <3>4. CASE Approved(r)
      <4>1. allowed[r] \in BOOLEAN /\ Start(r, allowed[r])
        BY <3>4 DEF Approved, Typed, TypeOK
      <4>2. QED
        BY <3>1, <4>1
    <3>5. QED
      BY <1>8, <3>3, <3>4
  <2>2. Rest
    <3>1. CASE Decide(r)
      BY <3>1, <2>1, KeptTyped DEF Rest, Decide
    <3>2. CASE Approved(r)
      BY <1>2, <3>2, <2>1, KeptTyped DEF Rest, Approved
    <3>3. QED
      BY <1>8, <3>1, <3>2
  <2>3. \E s : Goes(r, s, Places \ {"loading"})
    <3>1. \A s : \A p \in Places \ {"loading"} :
            Goes(r, s, {p}) => Goes(r, s, Places \ {"loading"})
      BY GoesWider
    <3>2. \E s : \E p \in {"gating", "skipping", "aborting", "starting"} : Goes(r, s, {p})
      <4>1. CASE Decide(r)
        BY <4>1, StepGoes
      <4>2. CASE Approved(r)
        BY <4>2, LaterStepGoes
      <4>3. QED
        BY <1>8, <4>1, <4>2
    <3>3. QED
      BY <3>1, <3>2 DEF Places
  <2>4. QED
    BY <1>1, <2>2, <2>3, GoesOnTyped
<1>9. CASE Gating(r) \/ Announced(r) \/ Resolved(r)
  <2>1. decision' \in [Runners \X Gated -> G!Undecided \cup G!Decisions]
    <3>1. CASE Announced(r)
      BY <3>1, AskTyped DEF Announced
    <3>2. QED
      BY <1>9, <3>1, KeptTyped DEF Gating, Resolved
  <2>2. allowed' \in [Runners -> BOOLEAN]
    <3>1. \A t \in Record : End(r, t) => allowed' = allowed
      BY EndGoes
    <3>2. StatusSet(Task(r), "failed") \in Record
      BY RunTyped, StatusTyped DEF TaskStatuses, Final
    <3>3. QED
      BY <1>9, <3>1, <3>2, KeptTyped DEF Gating, Announced, Resolved, run
  <2>3. Rest
    <3>1. CASE Announced(r)
      BY <1>2, <2>1, <2>2, <3>1, KeptTyped DEF Rest, Announced
    <3>2. CASE Gating(r) \/ Resolved(r)
      BY <2>1, <2>2, <3>2, KeptTyped DEF Rest, Gating, Resolved
    <3>3. QED
      BY <1>9, <3>1, <3>2
  <2>4. \A s : \A P \in SUBSET (Places \ {"loading"}) : Goes(r, s, P) => Typed'
    BY <1>1, <2>3, GoesOnTyped
  <2>5. QED
    BY <1>9, <2>4, StepGoes DEF Places
<1>10. CASE Skipped(r) \/ Completed(r) \/ Failed(r)
  <2>1. allowed' = allowed
    <3>1. Task(r) \in Record /\ StatusSet(Task(r), "failed") \in Record
      BY RunTyped, StatusTyped DEF TaskStatuses, Final
    <3>2. QED
      BY <1>10, <3>1, RunTyped, ProceedGoes, EndGoes DEF Skipped, Completed, Failed
  <2>2. Rest
    BY <1>3, <1>10, <2>1, KeptTyped DEF Rest, Skipped, Completed, Failed, StepStatuses
  <2>3. QED
    BY <1>1, <1>10, <2>2, LaterStepGoes, GoesOnTyped DEF Places
<1>11. CASE Started(r) \/ Acted(r) \/ CompleteFails(r)
  <2>1. Rest
    BY <1>3, <1>11, KeptTyped DEF Rest, Started, Acted, CompleteFails, run, StepStatuses
  <2>2. \E s : Goes(r, s, Places \ {"loading"})
    BY <1>11, LaterStepGoes, GoesWider DEF Places
  <2>3. QED
    BY <1>1, <2>1, <2>2, GoesOnTyped
<1>12. CASE LoopFails(r)
  <2>1. Rest
    BY <1>12, KeptTyped DEF Rest, LoopFails, Abort
  <2>2. QED
    BY <1>1, <1>12, <2>1, LaterStepGoes, GoesOnTyped DEF Places
<1>13. CASE Loaded(r) \/ StepReset(r)
  <2>1. Rest
    BY <1>3, <1>13, KeptTyped DEF Rest, Loaded, StepReset, StepStatuses
  <2>2. \A s : \A P \in SUBSET (Places \ {"loading"}) : Goes(r, s, P) => Typed'
    BY <1>1, <2>1, GoesOnTyped
  <2>3. QED
    BY <1>13, <2>2, LaterStepGoes DEF Places
<1>14. CASE Reopened(r)
  <2>1. allowed' = allowed /\ used' \in Nat
    BY <1>14, RunTyped, RunTaskGoes DEF Reopened
  <2>2. active' \in Runners \cup {None}
    BY <1>14, RunTyped DEF Reopened
  <2>3. Rest
    BY <1>2, <1>14, <2>1, <2>2, KeptTyped DEF Rest, Reopened
  <2>4. QED
    BY <1>1, <1>14, <2>3, LaterStepGoes, GoesOnTyped DEF Places
<1>15. QED
  BY <1>4, <1>5, <1>6, <1>7, <1>8, <1>9, <1>10, <1>11, <1>12, <1>13, <1>14 DEF RunGoesOn

LEMMA NextTyped == Typed /\ [Next]_vars => Typed'
<1> SUFFICES ASSUME Typed, [Next]_vars  PROVE Typed'
  OBVIOUS
<1>1. CASE UNCHANGED vars
  BY <1>1 DEF vars, run, task, Typed, RunOK, TypeOK, TaskRecord
<1>2. ASSUME NEW r \in Runners, Execute(r)  PROVE Typed'
  <2>1. /\ stored' \in [status : TaskStatuses \cup {"none"}, steps : PlanPart]
        /\ stored'.status = "planning"
    BY <1>2, StatusStored DEF Execute, TaskStatuses
  <2>2. RunOK'
    BY <1>2 DEF Execute, run, Goto, Typed, RunOK, Places
  <2>3. Rest
    BY <1>2, <2>1, KeptTyped DEF Rest, Execute, Overlap, run, Typed, TypeOK
  <2>4. QED
    BY <2>1, <2>2, <2>3, RestTyped
<1>3. ASSUME NEW r \in Runners, Replay(r)  PROVE Typed'
  <2>1. RunOK'
    <3>1. CASE active = None
      BY <1>3, <3>1, ReplayGoes, TaskAssumption DEF Replay, Typed, RunOK, Places, Steps
    <3>2. CASE active # None
      <4>1. /\ active \in Runners /\ final' = final
            /\ on' = [on EXCEPT ![r] = active]
            /\ \E t \in Record, j \in 0..NSteps, p \in {"reopening", "resetting"} :
                  /\ mem' = [mem EXCEPT ![active] = t] /\ at' = [at EXCEPT ![r] = j]
                  /\ pc' = [pc EXCEPT ![r] = p]
        BY <1>3, <3>2, ReplayGoes DEF Replay
      <4>2. QED
        BY <4>1 DEF Typed, RunOK, Places
    <3>3. QED
      BY <3>1, <3>2
  <2>2. Rest
    BY <1>3, KeptTyped DEF Rest, Replay, Overlap, Typed, TypeOK
  <2>3. stored'.status # "none"
    BY <1>3 DEF Replay
  <2>4. QED
    BY <2>1, <2>2, <2>3, RestTyped
<1>4. ASSUME NEW r \in Runners, GateDecides(r)  PROVE Typed'
  <2>1. decision' \in [Runners \X Gated -> G!Undecided \cup G!Decisions]
    BY <1>4, GateTyped DEF GateDecides
  <2>2. QED
    BY <1>4, <2>1 DEF GateDecides, run, task, Typed, RunOK, TypeOK, TaskRecord
<1>5. ASSUME NEW c \in Cancels, Cancel(c)  PROVE Typed'
  <2>1. RunOK'
    <3>1. mem' \in [Runners -> Record]
      BY <1>5 DEF Cancel, Typed, TypeOK, RunOK, Record, TaskStatuses, Final
    <3>2. QED
      BY <1>5, <3>1 DEF Cancel, run, Typed, RunOK
  <2>2. cancel' \in [Cancels -> {"idle", "writing", "done"}]
    BY <1>5 DEF Cancel, Typed, TypeOK
  <2>3. Rest
    BY <1>5, <2>2, KeptTyped DEF Rest, Cancel, run
  <2>4. stored'.status # "none"
    BY <1>5 DEF Cancel
  <2>5. QED
    BY <2>1, <2>3, <2>4, RestTyped
<1>6. ASSUME NEW c \in Cancels, CancelWritten(c)  PROVE Typed'
  <2>1. RunOK'
    BY <1>6 DEF CancelWritten, run, Typed, RunOK
  <2>2. cancel' \in [Cancels -> {"idle", "writing", "done"}]
    BY <1>6 DEF CancelWritten, Typed, TypeOK
  <2>3. CASE UNCHANGED stored
    BY <1>6, <2>2, <2>3 DEF CancelWritten, run, Typed, RunOK, TypeOK, TaskRecord
  <2>4. CASE StoreStatus("cancelled")
    <3>1. /\ stored' \in [status : TaskStatuses \cup {"none"}, steps : PlanPart]
          /\ stored'.status = "cancelled"
      BY <2>4, StatusStored DEF TaskStatuses, Final
    <3>2. Rest
      BY <1>6, <2>2, <3>1, KeptTyped DEF Rest, CancelWritten, run
    <3>3. QED
      BY <2>1, <3>1, <3>2, RestTyped
  <2>5. QED
    BY <1>6, <2>3, <2>4 DEF CancelWritten
<1>7. QED
  BY <1>1, <1>2, <1>3, <1>4, <1>5, <1>6, RunGoesOnTyped DEF Next

LEMMA TaskTyped == Spec => []Typed
  BY InitTyped, NextTyped, PTL DEF Spec

\* The objects of the runs and the store are tasks, whatever interleaves.
THEOREM TaskTypes == Spec => []TypeOK
<1>1. Typed => TypeOK
  BY DEF Typed
<1>2. QED
  BY <1>1, TaskTyped, PTL

\* What a step of a run means for the runs and their tasks.
LEMMA GoesMeans ==
    ASSUME Typed, NEW r \in Runners, NEW s, NEW P, Goes(r, s, P)
    PROVE  /\ pc'[r] \in P /\ on' = on
           /\ \A q \in Runners \ {r} : pc'[q] = pc[q] /\ at'[q] = at[q]
           /\ mem'[on[r]].steps = s
           /\ IF pc'[r] \in {"policy", "resetting"}
              THEN at'[r] \in DOMAIN s /\ s[at'[r]] \notin Finished
              ELSE at'[r] = at[r]
  BY DEF Goes, Moves, Typed, RunOK

LEMMA LeaveMeans ==
    ASSUME Typed, NEW r \in Runners, NEW p, Leave(r, p)
    PROVE  /\ pc'[r] = p /\ on'[r] = r
           /\ \A q \in Runners \ {r} : pc'[q] = pc[q] /\ at'[q] = at[q] /\ on'[q] = on[q]
  BY DEF Leave, Goto, Typed, RunOK

\* Execute() and replay() start a run.
LEMMA StartMeans ==
    ASSUME Typed, NEW r \in Runners, Execute(r) \/ Replay(r)
    PROVE  /\ pc[r] = "idle" /\ decision' = decision
           /\ pc'[r] \in {"planning", "loading", "resetting", "reopening"}
           /\ Execute(r) => pc'[r] = "planning" /\ r = First
           /\ Replay(r) => pc'[r] # "planning" /\ r # First
           /\ \A q \in Runners \ {r} : pc'[q] = pc[q] /\ at'[q] = at[q] /\ on'[q] = on[q]
<1>1. CASE Execute(r)
  <2>1. ~Replay(r)
    BY <1>1 DEF Execute, Replay
  <2>2. QED
    BY <1>1, <2>1 DEF Execute, Goto, At, run, Typed, RunOK
<1>2. CASE Replay(r)
  <2>1. r # First /\ pc[r] = "idle"
    BY <1>2, ReplayGoes
  <2>2. /\ \E p \in {"loading", "resetting", "reopening"} : pc' = [pc EXCEPT ![r] = p]
        /\ \E i : at' = [at EXCEPT ![r] = i]
        /\ \E o : on' = [on EXCEPT ![r] = o]
    <3>1. on = [on EXCEPT ![r] = on[r]]
      BY DEF Typed, RunOK
    <3>2. QED
      BY <1>2, <3>1, ReplayGoes
  <2>3. /\ pc'[r] \in {"loading", "resetting", "reopening"}
        /\ \A q \in Runners \ {r} : pc'[q] = pc[q] /\ at'[q] = at[q] /\ on'[q] = on[q]
    BY <2>2 DEF Typed, RunOK
  <2>4. ~Execute(r) /\ decision' = decision
    BY <1>2, <2>1 DEF Execute, Replay
  <2>5. QED
    BY <1>2, <2>1, <2>3, <2>4
<1>3. QED
  BY <1>1, <1>2

\* A step of one run leaves the others where they are.
LEMMA RunIsLocal ==
    ASSUME Typed, NEW r \in Runners, RunGoesOn(r)
    PROVE  /\ \A q \in Runners \ {r} : pc'[q] = pc[q] /\ at'[q] = at[q] /\ on'[q] = on[q]
           /\ pc'[r] \in {"idle", "done", "planning"} =>
                (Unplanned(r) \/ Ended(r)) /\ pc'[r] = "done"
<1>1. CASE Unplanned(r) \/ Ended(r) \/ RunDies(r)
  BY <1>1, LeaveMeans DEF Unplanned, Ended, RunDies
<1> DEFINE P == Places \ {"idle", "done", "planning"}
<1>2. CASE \E s : Goes(r, s, P)
  BY <1>2, GoesMeans
<1>3. CASE Planned(r) \/ PlanFails(r) \/ Begun(r) \/ Decide(r) \/ Gating(r) \/ Announced(r) \/ Resolved(r)
  <2>1. \A s : \A Q \in SUBSET P : Goes(r, s, Q) => Goes(r, s, P)
    BY GoesWider
  <2>2. \E s : Goes(r, s, P)
    BY <1>3, <2>1, StepGoes DEF Places
  <2>3. QED
    BY <1>2, <2>2
<1>4. CASE \/ Approved(r) \/ Skipped(r) \/ Started(r) \/ Acted(r) \/ Completed(r) \/ CompleteFails(r)
           \/ Failed(r) \/ LoopFails(r) \/ Loaded(r) \/ StepReset(r) \/ Reopened(r)
  <2>1. \A s : \A Q \in SUBSET P : Goes(r, s, Q) => Goes(r, s, P)
    BY GoesWider
  <2>2. \E s : Goes(r, s, P)
    BY <1>4, <2>1, LaterStepGoes DEF Places
  <2>3. QED
    BY <1>2, <2>2
<1>5. QED
  BY <1>1, <1>3, <1>4 DEF RunGoesOn
-----------------------------------------------------------------------------
(***************************************************************************)
(* The gates.  Between the policy and its answer a run stands at a gated   *)
(* step, and past the answer the gate keeps what it was decided to be.     *)
(***************************************************************************)
BeforeGate == {"gating", "announcing", "waiting", "approved"}
PastGate == {"starting", "acting", "completing"}
Passed(r) == decision[Gate(r)] \in {"approved", "skipped"}

GateKept(r) ==
    /\ pc[r] \in PastGate /\ at[r] \in Gated => Passed(r)
    /\ pc[r] \in BeforeGate => at[r] \in Gated
    /\ pc[r] = "approved" => Passed(r)

GateInv == \A r \in Runners : GateKept(r)

\* A step of one run, or of a gate, disturbs no other run.
LEMMA GateLocal ==
    ASSUME GateInv, NEW r \in Runners, GateKept(r)',
           \A q \in Runners \ {r} : pc'[q] = pc[q] /\ at'[q] = at[q],
           \A q \in Runners \ {r} : at[q] \in Gated /\ Passed(q) => Passed(q)'
    PROVE  GateInv'
  BY DEF GateInv, GateKept, PastGate, BeforeGate

LEMMA GateAway ==
    ASSUME NEW r \in Runners, pc'[r] \notin BeforeGate \cup PastGate
    PROVE  GateKept(r)'
  BY DEF GateKept, BeforeGate, PastGate

LEMMA PassedStays ==
    ASSUME Typed, NEW g \in Runners \X Gated, G!Ask(g) \/ G!Decide(g),
           NEW q \in Runners, at[q] \in Gated, at'[q] = at[q], Passed(q)
    PROVE  Passed(q)'
<1>1. Gate(q) \in Runners \X Gated /\ Gate(q)' = Gate(q)
  BY DEF Gate
<1>2. decision[Gate(q)] \in G!Decisions
  BY DEF Passed, G!Decisions, G!Answers
<1>3. QED
  BY <1>1, <1>2, GateTyped DEF Passed

LEMMA RunKeepsGates ==
    ASSUME Typed, GateInv, NEW r \in Runners, RunGoesOn(r)
    PROVE  GateInv'
<1>1. \A q \in Runners \ {r} : pc'[q] = pc[q] /\ at'[q] = at[q]
  BY RunIsLocal
<1>2. ASSUME NEW q \in Runners \ {r}, at[q] \in Gated, Passed(q)  PROVE Passed(q)'
  <2>1. CASE Announced(r)
    <3>1. Gate(r) \in Runners \X Gated
      BY <2>1 DEF Announced, At, GateInv, GateKept, BeforeGate, Gate
    <3>2. QED
      BY <1>1, <1>2, <2>1, <3>1, PassedStays DEF Announced
  <2>2. CASE decision' = decision
    BY <1>1, <1>2, <2>2 DEF Passed, Gate
  <2>3. QED
    BY <2>1, <2>2
    DEF RunGoesOn, Planned, PlanFails, Unplanned, Begun, Decide, Gating, Resolved, Approved,
        Skipped, Started, Acted, Completed, CompleteFails, Failed, LoopFails, Ended, RunDies,
        Loaded, StepReset, Reopened
<1>3. GateKept(r)'
  <2>1. CASE \/ Planned(r) \/ PlanFails(r) \/ Begun(r) \/ Skipped(r) \/ Completed(r) \/ Failed(r)
             \/ LoopFails(r) \/ Loaded(r) \/ StepReset(r) \/ Reopened(r) \/ CompleteFails(r)
    <3>1. pc'[r] \in {"beginning", "ending", "aborting", "policy", "unplanned", "reopening",
                      "resetting", "failing"}
      <4>1. CASE Planned(r) \/ PlanFails(r) \/ Begun(r)
        BY <4>1, StepGoes, GoesMeans
      <4>2. CASE Skipped(r) \/ Completed(r) \/ Failed(r) \/ LoopFails(r) \/ Reopened(r)
        BY <4>2, LaterStepGoes, GoesMeans
      <4>3. CASE Loaded(r) \/ StepReset(r)
        <5>1. \A s, p : Goes(r, s, {p}) => pc'[r] = p
          BY GoesMeans
        <5>2. QED
          BY <4>3, <5>1, LaterStepGoes
      <4>4. CASE CompleteFails(r)
        BY <4>4 DEF CompleteFails, Goto, Typed, RunOK
      <4>5. QED
        BY <2>1, <4>1, <4>2, <4>3, <4>4
    <3>2. QED
      BY <3>1, GateAway DEF BeforeGate, PastGate
  <2>2. CASE Unplanned(r) \/ Ended(r) \/ RunDies(r)
    BY <2>2, LeaveMeans, GateAway DEF Unplanned, Ended, RunDies, BeforeGate, PastGate
  <2>3. CASE Decide(r)
    <3>1. CASE pc'[r] \in {"skipping", "aborting"}
      BY <3>1, GateAway DEF BeforeGate, PastGate
    <3>2. CASE at[r] \in Gated /\ pc'[r] = "gating" /\ at'[r] = at[r]
      BY <3>2 DEF GateKept, BeforeGate, PastGate
    <3>3. CASE at[r] \notin Gated /\ pc'[r] = "starting" /\ at'[r] = at[r]
      BY <3>3 DEF GateKept, BeforeGate, PastGate
    <3>4. QED
      BY <2>3, <3>1, <3>2, <3>3, StepGoes, GoesMeans
  <2>4. CASE Gating(r) \/ Announced(r)
    <3>1. pc'[r] \in {"announcing", "waiting"} /\ at'[r] = at[r]
      BY <2>4, StepGoes, GoesMeans
    <3>2. pc[r] \in BeforeGate
      BY <2>4 DEF Gating, Announced, At, BeforeGate
    <3>3. QED
      BY <3>1, <3>2 DEF GateInv, GateKept, BeforeGate, PastGate
  <2>5. CASE Resolved(r)
    <3>1. CASE pc'[r] \in {"skipping", "ending"}
      BY <3>1, GateAway DEF BeforeGate, PastGate
    <3>2. CASE pc'[r] = "approved" /\ at'[r] = at[r] /\ Passed(r)
      <4>1. at[r] \in Gated /\ decision' = decision
        BY <2>5 DEF Resolved, At, GateInv, GateKept, BeforeGate
      <4>2. QED
        BY <3>2, <4>1 DEF GateKept, PastGate, Passed, Gate
    <3>3. QED
      BY <2>5, <3>1, <3>2, StepGoes, GoesMeans DEF Passed
  <2>6. CASE Approved(r)
    <3>1. CASE pc'[r] \in {"skipping", "aborting"}
      BY <3>1, GateAway DEF BeforeGate, PastGate
    <3>2. CASE pc'[r] = "starting" /\ at'[r] = at[r]
      <4>1. Passed(r) /\ decision' = decision
        BY <2>6 DEF Approved, At, GateInv, GateKept
      <4>2. QED
        BY <3>2, <4>1 DEF GateKept, BeforeGate, Passed, Gate
    <3>3. QED
      BY <2>6, <3>1, <3>2, LaterStepGoes, GoesMeans
  <2>7. CASE Started(r) \/ Acted(r)
    <3>1. CASE pc'[r] = "failing"
      BY <3>1, GateAway DEF BeforeGate, PastGate
    <3>2. CASE pc'[r] \in {"acting", "completing"} /\ at'[r] = at[r]
      <4>1. (at[r] \in Gated => Passed(r)) /\ decision' = decision
        BY <2>7 DEF Started, Acted, At, GateInv, GateKept, PastGate
      <4>2. QED
        BY <3>2, <4>1 DEF GateKept, BeforeGate, Passed, Gate
    <3>3. QED
      BY <2>7, <3>1, <3>2, LaterStepGoes, GoesMeans
  <2>8. QED
    BY <2>1, <2>2, <2>3, <2>4, <2>5, <2>6, <2>7 DEF RunGoesOn
<1>4. QED
  BY <1>1, <1>2, <1>3, GateLocal

LEMMA NextGates == Typed /\ GateInv /\ [Next]_vars => GateInv'
<1> SUFFICES ASSUME Typed, GateInv, [Next]_vars  PROVE GateInv'
  OBVIOUS
<1>1. ASSUME UNCHANGED <<pc, at, decision>>  PROVE GateInv'
  BY <1>1 DEF GateInv, GateKept, Passed, Gate
<1>2. ASSUME NEW r \in Runners, Execute(r) \/ Replay(r)  PROVE GateInv'
  <2>1. /\ pc'[r] \notin BeforeGate \cup PastGate /\ decision' = decision
        /\ \A q \in Runners \ {r} : pc'[q] = pc[q] /\ at'[q] = at[q]
    BY <1>2, StartMeans DEF BeforeGate, PastGate
  <2>2. QED
    BY <2>1, GateAway, GateLocal DEF Passed, Gate
<1>3. ASSUME NEW r \in Runners, GateDecides(r)  PROVE GateInv'
  <2>1. PICK g \in Runners \X Gated : G!Decide(g)
    BY <1>3 DEF GateDecides
  <2>2. UNCHANGED <<pc, at>>
    BY <1>3 DEF GateDecides, run
  <2>3. \A q \in Runners : at[q] \in Gated /\ Passed(q) => Passed(q)'
    BY <2>1, <2>2, PassedStays
  <2>4. QED
    BY <2>2, <2>3 DEF GateInv, GateKept, BeforeGate, PastGate
<1>4. QED
  BY <1>1, <1>2, <1>3, RunKeepsGates DEF Next, vars, run, Cancel, CancelWritten

\* Whatever runs, replays and cancellations do, a step behind a gate executes
\* only when that gate of that run was approved or skipped.
THEOREM GatedStepsAreApproved == Spec => []GatedStepsWait
<1>1. Init => GateInv
  BY DEF Init, GateInv, GateKept, BeforeGate, PastGate
<1>2. GateInv => GatedStepsWait
  BY DEF GateInv, GateKept, GatedStepsWait, PastGate, Passed
<1>3. QED
  BY <1>1, <1>2, TaskTyped, NextGates, PTL DEF Spec
-----------------------------------------------------------------------------
(***************************************************************************)
(* The end of a task.  As long as its row says that it is under way, some  *)
(* run of it has not ended, or died where nothing could record it.         *)
(***************************************************************************)
UnderWay == {"planning", "executing", "waiting_approval"}
Over == {"idle", "done"}

EndInv == stored.status \in UnderWay => \E r \in Runners : pc[r] \notin Over

LEMMA NextEnd == Typed /\ EndInv /\ [Next]_vars => EndInv'
<1> SUFFICES ASSUME Typed, EndInv, [Next]_vars  PROVE EndInv'
  OBVIOUS
<1>1. ASSUME pc' = pc, stored'.status \in UnderWay => stored'.status = stored.status
      PROVE  EndInv'
  BY <1>1 DEF EndInv
<1>2. ASSUME NEW r \in Runners, Execute(r) \/ Replay(r)  PROVE EndInv'
  BY <1>2, StartMeans DEF EndInv, Over
<1>3. ASSUME NEW r \in Runners, RunGoesOn(r)  PROVE EndInv'
  <2>1. CASE pc'[r] \notin Over
    BY <2>1 DEF EndInv
  <2>2. CASE Unplanned(r) \/ Ended(r)
    <3>1. stored'.status \in Final
      BY <2>2, StatusStored DEF Unplanned, Ended, At, Typed, RunOK, TaskStatuses, Final
    <3>2. QED
      BY <3>1 DEF EndInv, UnderWay, Final
  <2>3. QED
    BY <1>3, <2>1, <2>2, RunIsLocal DEF Over
<1>4. ASSUME NEW c \in Cancels, CancelWritten(c)  PROVE EndInv'
  BY <1>1, <1>4, StatusStored DEF CancelWritten, UnderWay, TaskStatuses, Final
<1>5. QED
  BY <1>1, <1>2, <1>3, <1>4 DEF Next, vars, run, task, Cancel, GateDecides

\* A task that nobody works on any more has ended in its row too.
THEOREM NoTaskIsZombie == Spec => []NoZombieTask
<1>1. Init => EndInv
  BY DEF Init, EndInv, UnderWay
<1>2. Typed /\ EndInv => NoZombieTask
  BY TaskAssumption DEF Typed, EndInv, UnderWay, Over, NoZombieTask, TaskStatuses
<1>3. QED
  BY <1>1, <1>2, TaskTyped, NextEnd, PTL DEF Spec
-----------------------------------------------------------------------------
(***************************************************************************)
(* Finished steps.  The store is never ahead of a task object that a run   *)
(* works on: what the store has as finished the object has too.  The step  *)
(* a run works on is not finished in the store, so the run may write it.   *)
(***************************************************************************)
Matches(s) ==
    \A i \in DOMAIN stored.steps : stored.steps[i] \in Finished =>
        i \in DOMAIN s /\ s[i] = stored.steps[i]

Agrees(o) == Matches(mem[o].steps)

OnStep == BeforeGate \cup PastGate \cup {"policy", "skipping", "failing", "resetting"}

Unwritten(s, i) == i \in DOMAIN s /\ (i \in DOMAIN stored.steps => stored.steps[i] \notin Finished)

Agreement(r) ==
    /\ pc[r] # "loading" => Agrees(on[r])
    /\ active \in {on[r], None}
    /\ pc[r] \in OnStep => Unwritten(StepsOf(r), at[r])
    /\ pc[r] = "completing" => StepsOf(r)[at[r]] = "complete"
    /\ pc[r] = "skipping" => StepsOf(r)[at[r]] = "skipped"

AgreeInv ==
    ~overlap =>
      /\ \A r, q \in Runners : Busy(r) /\ Busy(q) => r = q
      /\ active # None => Agrees(active)
      /\ \A r \in Runners : Busy(r) => Agreement(r)

\* Before it is planned a task has no steps; only execute() plans.
BeginInv ==
    /\ pc[First] \in {"idle", "planning"} => stored.steps = <<>>
    /\ \A r \in Runners : pc[r] = "planning" => r = First
    /\ \A r \in Runners : pc[r] = "idle" => on[r] = r

\* What a step of the only run that is under way leaves behind.
LEMMA GoesAgrees ==
    ASSUME Typed, AgreeInv, ~overlap, overlap' = overlap, NEW r \in Runners, Busy(r),
           NEW s, NEW P \in SUBSET (Places \ {"loading"}), Goes(r, s, P),
           active' \in {active, None, on[r]}, Matches(s)',
           \/ P \cap OnStep \subseteq {"policy", "resetting"}
           \/ /\ at[r] \in DOMAIN s
              /\ at[r] \in DOMAIN stored'.steps => stored'.steps[at[r]] \notin Finished,
           "completing" \in P => s[at[r]] = "complete",
           "skipping" \in P => s[at[r]] = "skipped"
    PROVE  AgreeInv'
<1>1. /\ pc'[r] \in P /\ on' = on /\ mem'[on[r]].steps = s
      /\ \A q \in Runners \ {r} : pc'[q] = pc[q]
      /\ IF pc'[r] \in {"policy", "resetting"}
         THEN at'[r] \in DOMAIN s /\ s[at'[r]] \notin Finished
         ELSE at'[r] = at[r]
  BY GoesMeans
<1>2. /\ \A q \in Runners : Busy(q) => q = r
      /\ active \in {on[r], None}
  BY DEF AgreeInv, Agreement
<1>3. \A q \in Runners : Busy(q)' => q = r
  BY <1>1, <1>2 DEF Busy
<1>4. Agrees(on[r])' /\ StepsOf(r)' = s
  BY <1>1 DEF Agrees, StepsOf, Task
<1>5. pc'[r] \in OnStep => Unwritten(s, at[r])'
  <2>1. CASE pc'[r] \in {"policy", "resetting"}
    BY <1>1, <2>1 DEF Unwritten, Matches
  <2>2. CASE pc'[r] \notin {"policy", "resetting"}
    BY <1>1, <2>2 DEF Unwritten
  <2>3. QED
    BY <2>1, <2>2
<1>6. Agreement(r)'
  BY <1>1, <1>2, <1>4, <1>5 DEF Agreement, Places
<1>7. QED
  BY <1>1, <1>2, <1>3, <1>4, <1>6 DEF AgreeInv

LEMMA WithSteps ==
    ASSUME Typed, NEW r \in Runners, NEW v, at[r] \in DOMAIN StepsOf(r)
    PROVE  /\ DOMAIN With(r, v) = DOMAIN StepsOf(r) /\ With(r, v)[at[r]] = v
           /\ \A i \in DOMAIN StepsOf(r) : i # at[r] => With(r, v)[i] = StepsOf(r)[i]
<1>1. StepsOf(r) \in Seq(StepStatuses)
  BY RunTyped DEF PlanPart
<1>2. QED
  BY <1>1 DEF With

LEMMA AloneAgrees ==
    ASSUME AgreeInv, ~overlap, NEW r \in Runners, Busy(r), pc[r] # "loading"
    PROVE  /\ Matches(StepsOf(r)) /\ active \in {on[r], None}
           /\ pc[r] \in OnStep => Unwritten(StepsOf(r), at[r])
           /\ pc[r] = "completing" => StepsOf(r)[at[r]] = "complete"
           /\ pc[r] = "skipping" => StepsOf(r)[at[r]] = "skipped"
  BY DEF AgreeInv, Agreement, Agrees, StepsOf, Task

\* The run moves on; nothing is written.
LEMMA MovesOnAgrees ==
    ASSUME Typed, AgreeInv, ~overlap, overlap' = overlap, NEW r \in Runners, Busy(r),
           pc[r] # "loading", stored'.steps = stored.steps, active' \in {active, None, on[r]},
           NEW P \in SUBSET (Places \ {"loading", "completing", "skipping"}),
           P \cap OnStep \subseteq {"policy", "resetting"} \/ pc[r] \in OnStep,
           Goes(r, StepsOf(r), P)
    PROVE  AgreeInv'
<1>1. Matches(StepsOf(r)) /\ (pc[r] \in OnStep => Unwritten(StepsOf(r), at[r]))
  BY AloneAgrees
<1>2. (\A i \in DOMAIN stored.steps : stored.steps[i] \in Finished =>
          i \in DOMAIN StepsOf(r) /\ StepsOf(r)[i] = stored.steps[i])
  BY <1>1 DEF Matches
<1>3. \A s : s = StepsOf(r) => Matches(s)'
  BY <1>2 DEF Matches
<1>4. P \in SUBSET (Places \ {"loading"})
  OBVIOUS
<1>5. QED
  BY <1>1, <1>3, <1>4, GoesAgrees DEF Unwritten

\* The run sets its step in its object.
LEMMA StepSetAgrees ==
    ASSUME Typed, AgreeInv, ~overlap, overlap' = overlap, NEW r \in Runners,
           pc[r] \in OnStep, stored'.steps = stored.steps, active' = active,
           NEW v, NEW p \in Places \ {"loading", "policy", "resetting"}, Goes(r, With(r, v), {p}),
           p = "completing" => v = "complete", p = "skipping" => v = "skipped"
    PROVE  AgreeInv'
<1>1. Busy(r) /\ pc[r] # "loading"
  BY DEF Busy, OnStep, BeforeGate, PastGate
<1>2. Matches(StepsOf(r)) /\ Unwritten(StepsOf(r), at[r])
  BY <1>1, AloneAgrees
<1>3. /\ DOMAIN With(r, v) = DOMAIN StepsOf(r) /\ With(r, v)[at[r]] = v
      /\ \A i \in DOMAIN StepsOf(r) : i # at[r] => With(r, v)[i] = StepsOf(r)[i]
  BY <1>2, WithSteps DEF Unwritten
<1>4. \A s : s = With(r, v) => Matches(s)'
  BY <1>2, <1>3 DEF Matches, Unwritten
<1>5. {p} \in SUBSET (Places \ {"loading"})
  OBVIOUS
<1>6. QED
  BY <1>1, <1>2, <1>3, <1>4, <1>5, GoesAgrees DEF Unwritten

\* The run writes its step; the value is what its object has, or unfinished.
LEMMA WriteAgrees ==
    ASSUME Typed, AgreeInv, ~overlap, overlap' = overlap, NEW r \in Runners,
           pc[r] \in OnStep, NEW v, StoreStep(r, v), active' = active,
           v \notin Finished \/ StepsOf(r)[at[r]] = v,
           NEW P \in SUBSET (Places \ {"loading", "completing", "skipping"}),
           P \cap OnStep \subseteq {"policy", "resetting"} \/ v \notin Finished,
           NEW s, Goes(r, s, P), DOMAIN s = DOMAIN StepsOf(r),
           \A i \in DOMAIN s : StepsOf(r)[i] \in Finished => s[i] = StepsOf(r)[i]
    PROVE  AgreeInv'
<1>1. Busy(r) /\ pc[r] # "loading"
  BY DEF Busy, OnStep, BeforeGate, PastGate
<1>2. Matches(StepsOf(r)) /\ Unwritten(StepsOf(r), at[r])
  BY <1>1, AloneAgrees
<1>3. at[r] \in DOMAIN stored.steps /\ stored'.steps = [stored.steps EXCEPT ![at[r]] = v]
  BY DEF StoreStep, StepSet, Typed
<1>4. /\ DOMAIN stored'.steps = DOMAIN stored.steps /\ stored'.steps[at[r]] = v
      /\ \A i \in DOMAIN stored.steps : i # at[r] => stored'.steps[i] = stored.steps[i]
  <2>1. stored.steps \in Seq(StepStatuses)
    BY DEF Typed, PlanPart
  <2>2. QED
    BY <1>3, <2>1
<1>5. Matches(s)'
  BY <1>2, <1>4 DEF Matches, Unwritten
<1>6. P \in SUBSET (Places \ {"loading"})
  OBVIOUS
<1>7. QED
  BY <1>1, <1>2, <1>4, <1>5, <1>6, GoesAgrees DEF Unwritten

LEMMA RunAgrees ==
    ASSUME Typed, AgreeInv, BeginInv, ~overlap', NEW r \in Runners, RunGoesOn(r)
    PROVE  AgreeInv'
<1>1. ~overlap /\ overlap' = overlap /\ Busy(r)
  BY DEF RunGoesOn, Busy, At, Planned, PlanFails, Unplanned, Begun, Decide, Gating, Announced,
         Resolved, Approved, Skipped, Started, Acted, Completed, CompleteFails, Failed,
         LoopFails, Ended, RunDies, Loaded, StepReset, Reopened
<1>2. CASE Planned(r) \/ PlanFails(r)
  <2>1. stored.steps = <<>> /\ active' = active
    BY <1>2 DEF Planned, PlanFails, At, BeginInv
  <2>2. CASE stored'.steps = stored.steps
    <3>1. \A s : Matches(s)'
      BY <2>1, <2>2 DEF Matches
    <3>2. \E s, P : P \in SUBSET (Places \ ({"loading"} \cup (OnStep \ {"policy"}))) /\ Goes(r, s, P)
      BY <1>2, StepGoes DEF Places, OnStep, BeforeGate, PastGate
    <3>3. QED
      BY <1>1, <2>1, <3>1, <3>2, GoesAgrees DEF OnStep, BeforeGate, PastGate
  <2>3. CASE \A i \in DOMAIN stored'.steps : stored'.steps[i] \notin Finished
    <3>1. \A s : Matches(s)'
      BY <2>3 DEF Matches
    <3>2. \E s, P : P \in SUBSET (Places \ ({"loading"} \cup (OnStep \ {"policy"}))) /\ Goes(r, s, P)
      BY <1>2, StepGoes DEF Places, OnStep, BeforeGate, PastGate
    <3>3. QED
      BY <1>1, <2>1, <3>1, <3>2, GoesAgrees DEF OnStep, BeforeGate, PastGate
  <2>4. QED
    <3>1. \A i \in DOMAIN Plan : Plan[i] = "pending"
      BY DEF Plan
    <3>2. CASE Planned(r)
      BY <2>3, <3>1, <3>2, PlanStored, PlanTyped DEF Planned, Finished
    <3>3. CASE PlanFails(r)
      <4>1. ASSUME NEW k \in Steps, stored' = [stored EXCEPT !.steps = SubSeq(Plan, 1, k - 1)]
            PROVE  \A i \in DOMAIN stored'.steps : stored'.steps[i] \notin Finished
        BY <4>1, PlanStored, PlanPrefix DEF Finished
      <4>2. QED
        BY <2>2, <2>3, <3>3, <4>1, StepGoes
    <3>4. QED
      BY <1>2, <3>2, <3>3
<1>3. CASE Unplanned(r) \/ Ended(r) \/ RunDies(r)
  <2>1. /\ pc'[r] \in {"done", "lost"}
        /\ \A q \in Runners \ {r} : pc'[q] = pc[q]
    BY <1>3, LeaveMeans DEF Unplanned, Ended, RunDies
  <2>2. stored'.steps = stored.steps /\ active' \in {active, None} /\ mem' = mem
    <3>1. CASE UNCHANGED stored
      BY <1>3, <3>1 DEF Unplanned, Ended, RunDies
    <3>2. \A v \in Final : StoreStatus(v) => stored'.steps = stored.steps
      BY StatusStored DEF TaskStatuses, Final
    <3>3. Ended(r) => final[r] \in Final
      BY DEF Ended, At, Typed, RunOK
    <3>4. QED
      BY <1>3, <3>1, <3>2, <3>3 DEF Unplanned, Ended, RunDies, Final
  <2>3. \A q \in Runners : ~Busy(q)'
    BY <1>1, <2>1 DEF AgreeInv, Busy
  <2>4. \A o : Agrees(o) => Agrees(o)'
    BY <2>2 DEF Agrees, Matches
  <2>5. QED
    BY <1>1, <2>2, <2>3, <2>4 DEF AgreeInv
<1>4. CASE Begun(r) \/ Gating(r) \/ Announced(r) \/ LoopFails(r) \/ Reopened(r)
  <2>1. stored'.steps = stored.steps
    BY <1>4, StatusStored DEF Begun, Gating, Announced, LoopFails, Reopened, TaskStatuses
  <2>2. active' \in {active, None, on[r]} /\ pc[r] # "loading"
    BY <1>4 DEF Begun, Gating, Announced, LoopFails, Reopened, At
  <2>3. CASE Begun(r) \/ LoopFails(r) \/ Reopened(r)
    <3>1. \E P \in SUBSET {"beginning", "ending", "aborting", "policy"} : Goes(r, StepsOf(r), P)
      BY <2>3, StepGoes, LaterStepGoes
    <3>2. QED
      BY <1>1, <2>1, <2>2, <3>1, MovesOnAgrees DEF Places, OnStep, BeforeGate, PastGate
  <2>4. CASE Gating(r) \/ Announced(r)
    <3>1. pc[r] \in OnStep /\ \E P \in SUBSET {"announcing", "waiting"} : Goes(r, StepsOf(r), P)
      BY <2>4, StepGoes DEF Gating, Announced, At, OnStep, BeforeGate
    <3>2. QED
      BY <1>1, <2>1, <2>2, <3>1, MovesOnAgrees DEF Places
  <2>5. QED
    BY <1>4, <2>3, <2>4
<1>5. CASE Decide(r) \/ Resolved(r) \/ Approved(r)
  <2>1. stored'.steps = stored.steps
    BY <1>5, StatusStored DEF Decide, Resolved, Approved, TaskStatuses
  <2>2. active' = active /\ pc[r] \in OnStep /\ pc[r] # "loading"
    BY <1>5 DEF Decide, Resolved, Approved, At, OnStep, BeforeGate
  <2>3. CASE Goes(r, With(r, "skipped"), {"skipping"})
    BY <1>1, <2>1, <2>2, <2>3, StepSetAgrees DEF Places
  <2>4. CASE Goes(r, With(r, "running"), {"starting"})
    BY <1>1, <2>1, <2>2, <2>4, StepSetAgrees DEF Places
  <2>5. CASE \E p \in {"gating", "aborting", "ending", "approved"} : Goes(r, StepsOf(r), {p})
    BY <1>1, <2>1, <2>2, <2>5, MovesOnAgrees DEF Places
  <2>6. QED
    BY <1>5, <2>3, <2>4, <2>5, StepGoes, LaterStepGoes
<1>6. CASE Acted(r) \/ CompleteFails(r)
  <2>1. stored' = stored /\ active' = active /\ pc[r] \in OnStep
    BY <1>6 DEF Acted, CompleteFails, At, OnStep, PastGate
  <2>2. CASE Goes(r, With(r, "complete"), {"completing"})
    BY <1>1, <2>1, <2>2, StepSetAgrees DEF Places
  <2>3. CASE Goes(r, With(r, "failed"), {"failing"})
    BY <1>1, <2>1, <2>3, StepSetAgrees DEF Places
  <2>4. QED
    BY <1>6, <2>2, <2>3, LaterStepGoes
<1>7. CASE Skipped(r) \/ Completed(r) \/ Failed(r)
  <2>1. active' = active /\ pc[r] \in OnStep /\ pc[r] # "loading"
    BY <1>7 DEF Skipped, Completed, Failed, At, OnStep, PastGate
  <2>2. \E v : StoreStep(r, v) /\ (v \notin Finished \/ StepsOf(r)[at[r]] = v)
    BY <1>1, <1>7, <2>1, AloneAgrees DEF Skipped, Completed, Failed, At, Finished
  <2>3. Goes(r, StepsOf(r), {"ending", "policy"})
    BY <1>7, LaterStepGoes
  <2>4. QED
    BY <1>1, <2>1, <2>2, <2>3, WriteAgrees DEF Places, OnStep, BeforeGate, PastGate
<1>8. CASE Started(r)
  <2>1. active' = active /\ pc[r] \in OnStep /\ StoreStep(r, "running")
    BY <1>8 DEF Started, At, OnStep, PastGate
  <2>2. Goes(r, StepsOf(r), {"acting"})
    BY <1>8, LaterStepGoes
  <2>3. QED
    BY <1>1, <2>1, <2>2, WriteAgrees DEF Places, Finished
<1>9. CASE StepReset(r)
  <2>1. active' = active /\ pc[r] \in OnStep /\ StoreStep(r, "pending")
    BY <1>9 DEF StepReset, At, OnStep
  <2>2. CASE Goes(r, StepsOf(r), {"reopening"})
    BY <1>1, <2>1, <2>2, WriteAgrees DEF Places, Finished
  <2>3. ASSUME NEW j \in DOMAIN StepsOf(r), StepsOf(r)[j] \notin Finished,
               Goes(r, [StepsOf(r) EXCEPT ![j] = "pending"], {"resetting"})
        PROVE  AgreeInv'
    <3> DEFINE s == [StepsOf(r) EXCEPT ![j] = "pending"]
    <3>1. /\ DOMAIN s = DOMAIN StepsOf(r)
          /\ \A i \in DOMAIN s : StepsOf(r)[i] \in Finished => s[i] = StepsOf(r)[i]
      BY <2>3, RunTyped, PartTyped DEF StepStatuses
    <3> HIDE DEF s
    <3>2. Goes(r, s, {"resetting"})
      BY <2>3 DEF s
    <3>3. QED
      BY <1>1, <2>1, <3>1, <3>2, WriteAgrees DEF Places, Finished
  <2>4. QED
    BY <1>9, <2>2, <2>3, LaterStepGoes
<1>10. CASE Loaded(r)
  <2>1. stored' = stored /\ active' = active
    BY <1>10 DEF Loaded
  <2>2. CASE Goes(r, stored.steps, {"reopening"})
    <3>1. \A s : s = stored.steps => Matches(s)'
      BY <2>1 DEF Matches
    <3>2. QED
      BY <1>1, <2>1, <2>2, <3>1, GoesAgrees DEF Places, OnStep, BeforeGate, PastGate
  <2>3. ASSUME NEW j \in DOMAIN stored.steps, stored.steps[j] \notin Finished,
               Goes(r, [stored.steps EXCEPT ![j] = "pending"], {"resetting"})
        PROVE  AgreeInv'
    <3> DEFINE s == [stored.steps EXCEPT ![j] = "pending"]
    <3>1. /\ DOMAIN s = DOMAIN stored.steps
          /\ \A i \in DOMAIN s : stored.steps[i] \in Finished => s[i] = stored.steps[i]
      BY <2>3, PartTyped DEF StepStatuses, Typed
    <3> HIDE DEF s
    <3>2. \A t : t = s => Matches(t)'
      BY <2>1, <3>1 DEF Matches
    <3>3. Goes(r, s, {"resetting"})
      BY <2>3 DEF s
    <3>4. QED
      BY <1>1, <2>1, <3>2, <3>3, GoesAgrees DEF Places, OnStep, BeforeGate, PastGate
  <2>4. QED
    BY <1>10, <2>2, <2>3, LaterStepGoes
<1>11. QED
  BY <1>2, <1>3, <1>4, <1>5, <1>6, <1>7, <1>8, <1>9, <1>10 DEF RunGoesOn

LEMMA StartAgrees ==
    ASSUME Typed, AgreeInv, BeginInv, ~overlap', NEW r \in Runners, Execute(r) \/ Replay(r)
    PROVE  AgreeInv'
<1>1. ~overlap /\ \A q \in Runners : ~Busy(q)
  BY DEF Execute, Replay, Overlap
<1>2. /\ pc[r] = "idle" /\ on[r] = r
      /\ pc'[r] \in {"planning", "loading", "resetting", "reopening"}
      /\ \A q \in Runners \ {r} : pc'[q] = pc[q]
  BY StartMeans DEF BeginInv
<1>3. \A q \in Runners : Busy(q)' => q = r
  BY <1>1, <1>2 DEF Busy
<1>4. CASE Execute(r)
  <2>1. /\ pc[First] = "idle" /\ r = First /\ active' = r /\ UNCHANGED <<on, mem>>
        /\ stored'.steps = stored.steps /\ pc'[r] = "planning"
    BY <1>2, <1>4, StartMeans, StatusStored DEF Execute, At, run, TaskStatuses
  <2>2. \A o : Agrees(o)'
    BY <2>1 DEF BeginInv, Agrees, Matches
  <2>3. Agreement(r)'
    BY <1>2, <2>1, <2>2 DEF Agreement, OnStep, BeforeGate, PastGate
  <2>4. QED
    BY <1>3, <2>2, <2>3 DEF AgreeInv
<1>5. CASE Replay(r) /\ active = None
  <2>1. /\ UNCHANGED <<on, mem, active, stored>> /\ pc'[r] = "loading"
    BY <1>2, <1>5, ReplayGoes DEF Replay, Goto, Typed, RunOK
  <2>2. Agreement(r)'
    BY <1>5, <2>1 DEF Agreement, OnStep, BeforeGate, PastGate
  <2>3. QED
    BY <1>3, <1>5, <2>1, <2>2 DEF AgreeInv
<1>6. CASE Replay(r) /\ active # None
  <2>1. active \in Runners /\ on'[r] = active /\ UNCHANGED <<active, stored>>
    BY <1>6, ReplayGoes DEF Replay, Typed, RunOK
  <2>2. Matches(mem[active].steps)
    BY <1>1, <1>6 DEF AgreeInv, Agrees
  <2>3. PICK t \in Record, j \in 0..NSteps :
          /\ mem' = [mem EXCEPT ![active] = t] /\ at' = [at EXCEPT ![r] = j]
          /\ \/ t.steps = mem[active].steps /\ pc' = [pc EXCEPT ![r] = "reopening"]
             \/ /\ j \in DOMAIN mem[active].steps
                /\ mem[active].steps[j] \notin Finished
                /\ t.steps = [mem[active].steps EXCEPT ![j] = "pending"]
                /\ pc' = [pc EXCEPT ![r] = "resetting"]
    BY <1>6, ReplayGoes
  <2>4. /\ mem'[active].steps = t.steps /\ at'[r] = j
        /\ pc'[r] \in {"reopening", "resetting"}
    BY <2>1, <2>3 DEF Typed, RunOK
  <2>5. CASE pc'[r] = "reopening"
    <3>1. t.steps = mem[active].steps
      BY <2>3, <2>5 DEF Typed, RunOK
    <3>2. Agrees(active)'
      BY <2>1, <2>2, <2>4, <3>1 DEF Agrees, Matches
    <3>3. Agreement(r)'
      BY <2>1, <2>5, <3>2 DEF Agreement, OnStep, BeforeGate, PastGate
    <3>4. QED
      BY <1>3, <2>1, <3>2, <3>3 DEF AgreeInv
  <2>6. CASE pc'[r] = "resetting"
    <3>1. /\ j \in DOMAIN mem[active].steps /\ mem[active].steps[j] \notin Finished
          /\ t.steps = [mem[active].steps EXCEPT ![j] = "pending"]
      BY <2>3, <2>6 DEF Typed, RunOK
    <3>2. mem[active].steps \in PlanPart
      BY <2>1 DEF Typed, RunOK, Record
    <3>3. /\ DOMAIN t.steps = DOMAIN mem[active].steps
          /\ \A i \in DOMAIN t.steps : i # j => t.steps[i] = mem[active].steps[i]
      BY <3>1, <3>2, PartTyped DEF StepStatuses
    <3>4. Agrees(active)'
      BY <2>1, <2>2, <2>4, <3>1, <3>3 DEF Agrees, Matches
    <3>5. Unwritten(StepsOf(r), at[r])'
      BY <2>1, <2>2, <2>4, <3>1, <3>3 DEF Unwritten, StepsOf, Task, Matches
    <3>6. Agreement(r)'
      BY <2>1, <2>6, <3>4, <3>5 DEF Agreement
    <3>7. QED
      BY <1>3, <2>1, <3>4, <3>6 DEF AgreeInv
  <2>7. QED
    BY <2>4, <2>5, <2>6
<1>7. QED
  BY <1>4, <1>5, <1>6

LEMMA NextAgree == Typed /\ AgreeInv /\ BeginInv /\ [Next]_vars => AgreeInv'
<1> SUFFICES ASSUME Typed, AgreeInv, BeginInv, [Next]_vars, ~overlap'  PROVE AgreeInv'
  BY DEF AgreeInv
<1>1. ASSUME UNCHANGED <<pc, on, at, active, overlap>>, stored'.steps = stored.steps,
             \A o \in Runners : mem'[o].steps = mem[o].steps
      PROVE  AgreeInv'
  <2>1. /\ \A o \in Runners : Agrees(o) => Agrees(o)'
        /\ \A s, i : Unwritten(s, i) => (i \in DOMAIN s
                       /\ (i \in DOMAIN stored'.steps => stored'.steps[i] \notin Finished))
    BY <1>1 DEF Agrees, Matches, Unwritten
  <2>2. \A r \in Runners : on[r] \in Runners /\ Busy(r)' = Busy(r) /\ StepsOf(r)' = StepsOf(r)
    BY <1>1, RunTyped DEF Busy, StepsOf, Task
  <2>3. \A r \in Runners : pc[r] \in OnStep /\ Unwritten(StepsOf(r), at[r])
                             => Unwritten(StepsOf(r), at[r])'
    BY <1>1, <2>1, <2>2 DEF Unwritten
  <2>4. \A r \in Runners : Agreement(r) => Agreement(r)'
    BY <1>1, <2>1, <2>2, <2>3 DEF Agreement
  <2>5. active # None => active \in Runners
    BY DEF Typed, TypeOK
  <2>6. QED
    BY <1>1, <2>1, <2>2, <2>4, <2>5 DEF AgreeInv
<1>2. ASSUME NEW c \in Cancels, Cancel(c)  PROVE AgreeInv'
  <2>1. \A o \in Runners : mem'[o].steps = mem[o].steps
    BY <1>2 DEF Cancel, Typed, TypeOK, RunOK, Record
  <2>2. QED
    BY <1>1, <1>2, <2>1 DEF Cancel, run
<1>3. ASSUME NEW c \in Cancels, CancelWritten(c)  PROVE AgreeInv'
  <2>1. stored'.steps = stored.steps
    BY <1>3, StatusStored DEF CancelWritten, TaskStatuses, Final
  <2>2. QED
    BY <1>1, <1>3, <2>1 DEF CancelWritten, run
<1>4. ASSUME NEW r \in Runners, GateDecides(r)  PROVE AgreeInv'
  BY <1>1, <1>4 DEF GateDecides, run, task
<1>5. CASE UNCHANGED vars
  BY <1>1, <1>5 DEF vars, run, task
<1>6. QED
  BY <1>2, <1>3, <1>4, <1>5, StartAgrees, RunAgrees DEF Next

\* The steps a run, and a step of the system, write into the store.
LEMMA RunWrites ==
    ASSUME Typed, NEW r \in Runners, RunGoesOn(r)
    PROVE  \/ stored'.steps = stored.steps
           \/ pc[r] = "planning"
           \/ /\ pc[r] \in OnStep /\ at[r] \in DOMAIN stored.steps
              /\ \E v : stored'.steps = [stored.steps EXCEPT ![at[r]] = v]
<1>1. \A v : StoreStep(r, v) =>
        at[r] \in DOMAIN stored.steps /\ stored'.steps = [stored.steps EXCEPT ![at[r]] = v]
  BY DEF StoreStep, StepSet, Typed
<1>2. \A v : StoreStatus(v) => stored'.steps = stored.steps
  BY DEF StoreStatus, StatusSet, Typed
<1>3. CASE Planned(r) \/ PlanFails(r)
  BY <1>3 DEF Planned, PlanFails, At
<1>4. CASE Skipped(r) \/ Started(r) \/ Completed(r) \/ Failed(r) \/ StepReset(r)
  BY <1>1, <1>4 DEF Skipped, Started, Completed, Failed, StepReset, At, OnStep, PastGate
<1>5. CASE \/ Unplanned(r) \/ Begun(r) \/ Announced(r) \/ Approved(r) \/ Ended(r) \/ Reopened(r)
  BY <1>2, <1>5 DEF Unplanned, Begun, Announced, Approved, Ended, Reopened
<1>6. CASE \/ Decide(r) \/ Gating(r) \/ Resolved(r) \/ Acted(r) \/ CompleteFails(r)
           \/ LoopFails(r) \/ RunDies(r) \/ Loaded(r)
  BY <1>6 DEF Decide, Gating, Resolved, Acted, CompleteFails, LoopFails, RunDies, Loaded
<1>7. QED
  BY <1>3, <1>4, <1>5, <1>6 DEF RunGoesOn

LEMMA StepsWritten ==
    ASSUME Typed, [Next]_vars
    PROVE  \/ stored'.steps = stored.steps
           \/ \E r \in Runners : pc[r] = "planning"
           \/ \E r \in Runners : /\ pc[r] \in OnStep /\ at[r] \in DOMAIN stored.steps
                                 /\ \E v : stored'.steps = [stored.steps EXCEPT ![at[r]] = v]
<1>1. ASSUME NEW r \in Runners, Execute(r) \/ Replay(r)  PROVE stored'.steps = stored.steps
  BY <1>1, StatusStored DEF Execute, Replay, TaskStatuses
<1>2. ASSUME NEW c \in Cancels, Cancel(c) \/ CancelWritten(c)  PROVE stored'.steps = stored.steps
  BY <1>2, StatusStored DEF Cancel, CancelWritten, TaskStatuses, Final
<1>3. ASSUME NEW r \in Runners, GateDecides(r)  PROVE stored'.steps = stored.steps
  BY <1>3 DEF GateDecides, task
<1>4. CASE UNCHANGED vars
  BY <1>4 DEF vars, task
<1>5. QED
  BY <1>1, <1>2, <1>3, <1>4, RunWrites DEF Next

LEMMA NextBegin == Typed /\ BeginInv /\ [Next]_vars => BeginInv'
<1> SUFFICES ASSUME Typed, BeginInv, [Next]_vars  PROVE BeginInv'
  OBVIOUS
<1>1. ASSUME UNCHANGED <<pc, on>>, stored'.steps = stored.steps  PROVE BeginInv'
  BY <1>1 DEF BeginInv
<1>2. ASSUME NEW r \in Runners, Execute(r) \/ Replay(r)  PROVE BeginInv'
  <2>1. stored'.steps = stored.steps
    BY <1>2, StatusStored DEF Execute, Replay, TaskStatuses
  <2>2. /\ pc[r] = "idle" /\ pc'[r] # "idle" /\ (pc'[r] = "planning" => r = First)
        /\ \A q \in Runners \ {r} : pc'[q] = pc[q] /\ on'[q] = on[q]
    BY <1>2, StartMeans
  <2>3. pc'[First] \in {"idle", "planning"} => pc[First] \in {"idle", "planning"}
    BY <2>2, TaskAssumption
  <2>4. QED
    BY <2>1, <2>2, <2>3 DEF BeginInv
<1>3. ASSUME NEW r \in Runners, RunGoesOn(r)  PROVE BeginInv'
  <2>1. /\ \A q \in Runners \ {r} : pc'[q] = pc[q] /\ on'[q] = on[q]
        /\ pc'[r] \notin {"idle", "planning"}
    BY <1>3, RunIsLocal
  <2>2. pc'[First] \in {"idle", "planning"} => r # First /\ pc[First] = pc'[First]
    BY <2>1, TaskAssumption
  <2>3. pc'[First] \in {"idle", "planning"} => stored'.steps = stored.steps
    <3>1. SUFFICES ASSUME pc'[First] \in {"idle", "planning"}, stored'.steps # stored.steps
                   PROVE  FALSE
      OBVIOUS
    <3>2. stored.steps = <<>> /\ \A q \in Runners : pc[q] = "planning" => q = First
      BY <2>2, <3>1 DEF BeginInv
    <3>3. pc[r] # "planning"
      BY <2>2, <3>1, <3>2
    <3>4. QED
      BY <1>3, <3>1, <3>2, <3>3, RunWrites
  <2>4. QED
    BY <2>1, <2>2, <2>3 DEF BeginInv
<1>4. ASSUME NEW c \in Cancels, CancelWritten(c)  PROVE BeginInv'
  <2>1. stored'.steps = stored.steps
    BY <1>4, StatusStored DEF CancelWritten, TaskStatuses, Final
  <2>2. QED
    BY <1>1, <1>4, <2>1 DEF CancelWritten, run
<1>5. QED
  BY <1>1, <1>2, <1>3, <1>4 DEF Next, vars, run, task, Cancel, GateDecides

\* What the store has as complete or skipped stays, through any number of
\* runs, failures and cancellations, unless two runs of the task overlap.
THEOREM ReplaysKeepFinished == Spec => FinishedStepsStay
<1>1. Init => AgreeInv /\ BeginInv
  BY TaskAssumption DEF Init, AgreeInv, BeginInv, Busy
<1>2. ASSUME Typed, AgreeInv, BeginInv, [Next]_vars
      PROVE  [~overlap => \A i \in DOMAIN stored.steps : stored.steps[i] \in Finished =>
                stored'.steps[i] = stored.steps[i]]_vars
  <2>1. SUFFICES ASSUME ~overlap, NEW i \in DOMAIN stored.steps, stored.steps[i] \in Finished
                 PROVE  stored'.steps[i] = stored.steps[i]
    OBVIOUS
  <2>2. CASE stored'.steps = stored.steps
    BY <2>2
  <2>3. CASE \E r \in Runners : pc[r] = "planning"
    BY <1>2, <2>1, <2>3 DEF BeginInv
  <2>4. ASSUME NEW r \in Runners, pc[r] \in OnStep, at[r] \in DOMAIN stored.steps,
               NEW v, stored'.steps = [stored.steps EXCEPT ![at[r]] = v]
        PROVE  stored'.steps[i] = stored.steps[i]
    <3>1. Busy(r) /\ pc[r] # "loading"
      BY <2>4 DEF Busy, OnStep, BeforeGate, PastGate
    <3>2. stored.steps[at[r]] \notin Finished
      BY <1>2, <2>1, <2>4, <3>1, AloneAgrees DEF Unwritten
    <3>3. QED
      BY <2>1, <2>4, <3>2
  <2>5. QED
    BY <1>2, <2>2, <2>3, <2>4, StepsWritten
<1>3. QED
  BY <1>1, <1>2, TaskTyped, NextAgree, NextBegin, PTL DEF Spec, FinishedStepsStay
-----------------------------------------------------------------------------
(***************************************************************************)
(* HumanGate: an answer is not lost between the row and the waiter, the    *)
(* task acts on no answer nobody gave, and the gates keep GatePromise.     *)
(***************************************************************************)
Positions == {"reading", "refused", "writing", "notifying", "done"}

\* Only a gate that was created is waited for.
GatesTyped == GateTypeOK /\ \A g \in Gates : poll[g] # "unsent" => row[g] # "none"

LEMMA GatesInitTyped == GateInit => GatesTyped
  BY DEF GateInit, GatesTyped, GateTypeOK, Statuses, Answers

LEMMA SettleTyped ==
    ASSUME GateTypeOK, NEW g \in Gates, NEW o \in Answers \cup {"timeout", "expired"}, Settle(g, o)
    PROVE  /\ outcome' \in [Gates -> Answers \cup {"open", "timeout", "expired"}]
           /\ outcome'[g] # "open"
           /\ outcome[g] # "open" => outcome' = outcome
           /\ outcome[g] = "open" => outcome'[g] = o
           /\ \A h \in Gates : h # g => outcome'[h] = outcome[h]
  BY DEF GateTypeOK, Settle, Answers

LEMMA StopTimerTyped ==
    ASSUME GateTypeOK, NEW g \in Gates, StopTimer(g)
    PROVE  /\ timer' \in [Gates -> {"off", "running", "expiring", "lost"}]
           /\ timer[g] \in {"expiring", "lost"} => timer' = timer
           /\ timer'[g] # "running"
           /\ \A h \in Gates : h # g => timer'[h] = timer[h]
  BY DEF GateTypeOK, StopTimer

\* Where a call of resolveGate() can stand next.
LEMMA CallMoves ==
    ASSUME GateTypeOK, NEW c \in Calls, NEW p \in Positions, call[c].at # "idle",
           call' = [call EXCEPT ![c].at = p]
    PROVE  /\ call' \in [Calls -> [at : {"idle"}] \cup [at : Positions, gate : Gates, answer : Answers]]
           /\ call'[c].at = p /\ call'[c].gate = call[c].gate /\ call'[c].answer = call[c].answer
           /\ call[c].gate \in Gates /\ call[c].answer \in Answers
           /\ \A d \in Calls : d # c => call'[d] = call[d]
<1>1. call[c] \in [at : Positions, gate : Gates, answer : Answers]
  BY DEF GateTypeOK, Positions
<1>2. QED
  BY <1>1 DEF GateTypeOK, Positions

LEMMA GatesNextTyped == GatesTyped /\ [GateNext]_gateVars => GatesTyped'
<1> SUFFICES ASSUME GatesTyped, [GateNext]_gateVars  PROVE GatesTyped'
  OBVIOUS
<1>0. GateTypeOK
  BY DEF GatesTyped
<1>1. CASE UNCHANGED gateVars
  BY <1>1 DEF gateVars, GatesTyped, GateTypeOK
<1>2. ASSUME NEW g \in Gates, Create(g) \/ Wait(g)  PROVE GatesTyped'
  <2>1. CASE Create(g)
    BY <2>1 DEF Create, wait, GatesTyped, GateTypeOK, Statuses
  <2>2. CASE Wait(g)
    BY <2>2 DEF Wait, GatesTyped, GateTypeOK
  <2>3. QED
    BY <1>2, <2>1, <2>2
<1>3. ASSUME NEW g \in Gates, PollReads(g) \/ PollFails(g)  PROVE GatesTyped'
  BY <1>3 DEF PollReads, PollFails, GatesTyped, GateTypeOK, Statuses
<1>4. ASSUME NEW g \in Gates, Expire(g) \/ ExpireFails(g)  PROVE GatesTyped'
  <2>1. timer' \in [Gates -> {"off", "running", "expiring", "lost"}] /\ waiter' \in [Gates -> BOOLEAN]
    BY <1>4 DEF Expire, ExpireFails, Unregister, GatesTyped, GateTypeOK
  <2>2. QED
    BY <1>4, <2>1 DEF Expire, ExpireFails, GatesTyped, GateTypeOK
<1>5. ASSUME NEW g \in Gates, PollReturns(g)  PROVE GatesTyped'
  <2>1. CASE poll[g] = "pending"
    BY <1>5, <2>1 DEF PollReturns, GatesTyped, GateTypeOK
  <2>2. CASE poll[g] # "pending"
    <3>1. poll[g] \in Answers \cup {"timeout", "expired"}
      BY <1>5, <2>2 DEF PollReturns, Statuses
    <3>2. /\ StopTimer(g) /\ Unregister(g) /\ Settle(g, poll[g])
          /\ poll' = [poll EXCEPT ![g] = "over"] /\ UNCHANGED <<row, call>>
      BY <1>5, <2>2 DEF PollReturns
    <3>3. /\ timer' \in [Gates -> {"off", "running", "expiring", "lost"}]
          /\ outcome' \in [Gates -> Answers \cup {"open", "timeout", "expired"}]
      BY <3>1, <3>2, <1>0, SettleTyped, StopTimerTyped
    <3>4. waiter' \in [Gates -> BOOLEAN]
      BY <3>2, <1>0 DEF Unregister, GateTypeOK
    <3>5. \A h \in Gates : poll'[h] # "unsent" => row'[h] # "none"
      BY <1>5, <3>2 DEF PollReturns, GatesTyped, GateTypeOK, Statuses, Answers
    <3>6. QED
      BY <3>2, <3>3, <3>4, <3>5, <1>0 DEF GatesTyped, GateTypeOK
  <2>3. QED
    BY <2>1, <2>2
<1>6. ASSUME NEW g \in Gates, ExpireRecorded(g)  PROVE GatesTyped'
  BY <1>6, <1>0, SettleTyped DEF ExpireRecorded, GatesTyped, GateTypeOK, Statuses
<1>7. ASSUME NEW c \in Calls, CallStarts(c)  PROVE GatesTyped'
  BY <1>7 DEF CallStarts, Answer, GatesTyped, GateTypeOK, wait
<1>8. ASSUME NEW c \in Calls, AnswerRefused(c) \/ AnswerReads(c) \/ AnswerFails(c) \/ AnswerWrites(c)
      PROVE  GatesTyped'
  <2>1. CASE AnswerRefused(c) \/ AnswerReads(c) \/ AnswerFails(c)
    BY <1>0, <2>1, CallMoves
    DEF AnswerRefused, AnswerReads, AnswerFails, InCall, GatesTyped, GateTypeOK, wait, Positions
  <2>2. CASE AnswerWrites(c)
    <3>1. call[c].gate \in Gates /\ call[c].answer \in Answers
      BY <1>0, <2>2, CallMoves DEF AnswerWrites, InCall, Positions
    <3>2. row' \in [Gates -> Statuses \cup {"none"}] /\ \A g \in Gates : row[g] # "none" => row'[g] # "none"
      BY <2>2, <3>1 DEF AnswerWrites, GatesTyped, GateTypeOK, Statuses, Answers
    <3>3. QED
      BY <1>0, <2>2, <3>2, CallMoves DEF AnswerWrites, InCall, GatesTyped, GateTypeOK, wait, Positions
  <2>3. QED
    BY <1>8, <2>1, <2>2
<1>9. ASSUME NEW c \in Calls, AnswerNotifies(c)  PROVE GatesTyped'
  <2>1. call[c].gate \in Gates /\ call[c].answer \in Answers
    BY <1>9, <1>0, CallMoves DEF AnswerNotifies, InCall, Positions
  <2>2. /\ waiter' \in [Gates -> BOOLEAN]
        /\ timer' \in [Gates -> {"off", "running", "expiring", "lost"}]
        /\ outcome' \in [Gates -> Answers \cup {"open", "timeout", "expired"}]
    BY <1>9, <2>1, <1>0, SettleTyped, StopTimerTyped DEF AnswerNotifies, Notify, Unregister, GatesTyped, GateTypeOK
  <2>3. QED
    BY <1>9, <2>2, <1>0, CallMoves DEF AnswerNotifies, InCall, GatesTyped, GateTypeOK, Positions
<1>10. QED
  BY <1>1, <1>2, <1>5, <1>6, <1>7, <1>8, <1>9, <1>3, <1>4 DEF GateNext, StoreAndTimers, CallGoesOn

\* The type invariant.
THEOREM GateTypes == GateSpec => []GateTypeOK
<1>1. GatesTyped => GateTypeOK
  BY DEF GatesTyped
<1>2. QED
  BY <1>1, GatesInitTyped, GatesNextTyped, PTL DEF GateSpec

\* A wait that is answered.
Answered(g, o) ==
    /\ ~ waiter'[g] /\ timer'[g] # "running"
    /\ timer[g] \in {"expiring", "lost"} => timer'[g] = timer[g]
    /\ outcome'[g] # "open"
    /\ outcome[g] = "open" => outcome'[g] = o
    /\ outcome[g] # "open" => outcome'[g] = outcome[g]

Told(c, g) == g = call[c].gate /\ waiter[g] /\ Answered(g, call[c].answer)

\* What a call that notifies does to the gate's wait.
LEMMA Notified ==
    ASSUME GatesTyped, NEW c \in Calls, AnswerNotifies(c)
    PROVE  /\ call[c].gate \in Gates /\ call[c].answer \in Answers /\ call[c].at = "notifying"
           /\ UNCHANGED <<row, poll>>
           /\ \A g \in Gates : UNCHANGED <<waiter[g], timer[g], outcome[g]>> \/ Told(c, g)
           /\ waiter[call[c].gate] => Told(c, call[c].gate)
<1>1. GateTypeOK
  BY DEF GatesTyped
<1>2. call[c].gate \in Gates /\ call[c].answer \in Answers /\ call[c].at = "notifying"
  BY <1>1, CallMoves DEF AnswerNotifies, InCall, Positions
<1>3. QED
  BY <1>1, <1>2, SettleTyped, StopTimerTyped
  DEF AnswerNotifies, Notify, Unregister, GatesTyped, GateTypeOK, Told, Answered

\* What a poll that returns does.
LEMMA Polled ==
    ASSUME GatesTyped, NEW h \in Gates, PollReturns(h)
    PROVE  /\ UNCHANGED <<row, call>>
           /\ poll[h] \in Statuses /\ poll'[h] = "over"
           /\ poll[h] = "pending" => UNCHANGED <<waiter, timer, outcome>>
           /\ poll[h] # "pending" => Answered(h, poll[h])
           /\ \A g \in Gates \ {h} : UNCHANGED <<waiter[g], timer[g], outcome[g], poll[g]>>
<1>1. GateTypeOK
  BY DEF GatesTyped
<1>2. poll[h] \in Statuses /\ (poll[h] # "pending" => poll[h] \in Answers \cup {"timeout", "expired"})
  BY DEF PollReturns, Statuses
<1>3. QED
  BY <1>1, <1>2, SettleTyped, StopTimerTyped
  DEF PollReturns, Unregister, GatesTyped, GateTypeOK, Answered
-----------------------------------------------------------------------------
(***************************************************************************)
(* A gate is waited for as long as its timer runs, and a wait that is open *)
(* has its timer left.                                                     *)
(***************************************************************************)
WaitInv ==
    \A g \in Gates :
        /\ waiter[g] <=> timer[g] = "running"
        /\ poll[g] = "unsent" => outcome[g] = "open" /\ timer[g] = "off"
        /\ poll[g] # "unsent" /\ outcome[g] = "open" => timer[g] # "off"

LEMMA NextWaitInv == GatesTyped /\ WaitInv /\ [GateNext]_gateVars => WaitInv'
<1> SUFFICES ASSUME GatesTyped, WaitInv, [GateNext]_gateVars  PROVE WaitInv'
  OBVIOUS
<1>1. CASE UNCHANGED gateVars
  BY <1>1 DEF gateVars, WaitInv
<1>2. ASSUME NEW g \in Gates, Create(g)  PROVE WaitInv'
  BY <1>2 DEF Create, wait, WaitInv
<1>3. ASSUME NEW g \in Gates, Wait(g)  PROVE WaitInv'
  BY <1>3 DEF Wait, WaitInv, GatesTyped, GateTypeOK
<1>4. ASSUME NEW g \in Gates, PollReads(g) \/ PollFails(g)  PROVE WaitInv'
  BY <1>4 DEF PollReads, PollFails, WaitInv, GatesTyped, GateTypeOK, Statuses, Answers
<1>5. ASSUME NEW g \in Gates, PollReturns(g)  PROVE WaitInv'
  BY <1>5, Polled DEF WaitInv, Answered, Statuses, Answers
<1>6. ASSUME NEW g \in Gates, Expire(g) \/ ExpireFails(g)  PROVE WaitInv'
  BY <1>6 DEF Expire, ExpireFails, Unregister, WaitInv, GatesTyped, GateTypeOK
<1>7. ASSUME NEW g \in Gates, ExpireRecorded(g)  PROVE WaitInv'
  BY <1>7, SettleTyped DEF ExpireRecorded, WaitInv, GatesTyped, GateTypeOK
<1>8. ASSUME NEW c \in Calls,
             CallStarts(c) \/ AnswerRefused(c) \/ AnswerReads(c) \/ AnswerFails(c) \/ AnswerWrites(c)
      PROVE  WaitInv'
  BY <1>8 DEF CallStarts, Answer, AnswerRefused, AnswerReads, AnswerFails, AnswerWrites, wait, WaitInv
<1>9. ASSUME NEW c \in Calls, AnswerNotifies(c)  PROVE WaitInv'
  BY <1>9, Notified DEF WaitInv, Told, Answered
<1>10. QED
  BY <1>1, <1>2, <1>3, <1>4, <1>5, <1>6, <1>7, <1>8, <1>9 DEF GateNext, StoreAndTimers, CallGoesOn

LEMMA NextReaches ==
    GatesTyped /\ WaitInv /\ DecisionReachesWaiter /\ [GateNext]_gateVars => DecisionReachesWaiter'
<1> SUFFICES ASSUME GatesTyped, WaitInv, DecisionReachesWaiter, [GateNext]_gateVars
             PROVE DecisionReachesWaiter'
  OBVIOUS
<1>1. CASE UNCHANGED gateVars
  BY <1>1 DEF gateVars, DecisionReachesWaiter
<1>2. ASSUME NEW g \in Gates, Create(g)  PROVE DecisionReachesWaiter'
  BY <1>2 DEF Create, wait, DecisionReachesWaiter, GatesTyped, GateTypeOK, Answers
<1>3. ASSUME NEW g \in Gates, Wait(g)  PROVE DecisionReachesWaiter'
  BY <1>3 DEF Wait, DecisionReachesWaiter, GatesTyped, GateTypeOK
<1>4. ASSUME NEW g \in Gates, PollReads(g) \/ PollFails(g)  PROVE DecisionReachesWaiter'
  BY <1>4 DEF PollReads, PollFails, DecisionReachesWaiter, WaitInv, GatesTyped, GateTypeOK
<1>5. ASSUME NEW g \in Gates, PollReturns(g)  PROVE DecisionReachesWaiter'
  BY <1>5, Polled DEF DecisionReachesWaiter, Answered, Statuses, Answers
<1>6. ASSUME NEW g \in Gates, Expire(g) \/ ExpireFails(g)  PROVE DecisionReachesWaiter'
  BY <1>6 DEF Expire, ExpireFails, Unregister, DecisionReachesWaiter, WaitInv, GatesTyped, GateTypeOK
<1>7. ASSUME NEW g \in Gates, ExpireRecorded(g)  PROVE DecisionReachesWaiter'
  BY <1>7, SettleTyped DEF ExpireRecorded, DecisionReachesWaiter, WaitInv, GatesTyped, GateTypeOK, Answers
<1>8. ASSUME NEW c \in Calls, CallStarts(c) \/ AnswerRefused(c) \/ AnswerReads(c) \/ AnswerFails(c)
      PROVE  DecisionReachesWaiter'
  <2>1. \A d \in Calls : call[d].at = "notifying" => call'[d] = call[d]
    BY <1>8, CallMoves
    DEF CallStarts, Answer, AnswerRefused, AnswerReads, AnswerFails, InCall, GatesTyped, GateTypeOK, Positions
  <2>2. QED
    BY <1>8, <2>1 DEF CallStarts, Answer, AnswerRefused, AnswerReads, AnswerFails, wait,
                      DecisionReachesWaiter
<1>9. ASSUME NEW c \in Calls, AnswerWrites(c)  PROVE DecisionReachesWaiter'
  <2>1. /\ call'[c].at = "notifying" /\ call'[c].gate = call[c].gate
        /\ \A d \in Calls : d # c => call'[d] = call[d]
        /\ call[c].at = "writing" /\ UNCHANGED <<wait, outcome>>
    BY <1>9, CallMoves DEF AnswerWrites, InCall, GatesTyped, Positions
  <2>2. \A g \in Gates : g # call[c].gate => row'[g] = row[g]
    BY <1>9 DEF AnswerWrites, GatesTyped, GateTypeOK
  <2>3. QED
    BY <2>1, <2>2 DEF DecisionReachesWaiter, WaitInv, wait, GatesTyped, GateTypeOK
<1>10. ASSUME NEW c \in Calls, AnswerNotifies(c)  PROVE DecisionReachesWaiter'
  <2>1. \A d \in Calls : d # c => call'[d] = call[d]
    BY <1>10, CallMoves DEF AnswerNotifies, InCall, GatesTyped, Positions
  <2>2. QED
    BY <1>10, <2>1, Notified DEF DecisionReachesWaiter, Told, Answered
<1>11. QED
  BY <1>1, <1>2, <1>3, <1>4, <1>5, <1>6, <1>7, <1>8, <1>9, <1>10 DEF GateNext, StoreAndTimers, CallGoesOn

LEMMA InitWait == GateInit => GatesTyped /\ WaitInv /\ DecisionReachesWaiter
  BY GatesInitTyped DEF GateInit, WaitInv, DecisionReachesWaiter

\* No answer gets lost between the row and the run that waits for it.
THEOREM AnswersReachWaiters == GateSpec => []DecisionReachesWaiter
<1>1. /\ GateInit => GatesTyped /\ WaitInv /\ DecisionReachesWaiter
      /\ GatesTyped /\ WaitInv /\ DecisionReachesWaiter /\ [GateNext]_gateVars =>
            (GatesTyped /\ WaitInv /\ DecisionReachesWaiter)'
  BY InitWait, GatesNextTyped, NextWaitInv, NextReaches
<1>2. QED
  BY <1>1, PTL DEF GateSpec
-----------------------------------------------------------------------------
(***************************************************************************)
(* Wherever an answer stands, in the row, the poll or the outcome, a call  *)
(* gave it.                                                                *)
(***************************************************************************)
Given(g, a) ==
    \E c \in Calls : /\ call[c].at \in {"notifying", "done"}
                     /\ call[c].gate = g /\ call[c].answer = a

GivenInv ==
    \A g \in Gates, a \in Answers : a \in {row[g], poll[g], outcome[g]} => Given(g, a)

LEMMA NextGiven == GatesTyped /\ WaitInv /\ GivenInv /\ [GateNext]_gateVars => GivenInv'
<1> SUFFICES ASSUME GatesTyped, WaitInv, GivenInv, [GateNext]_gateVars  PROVE GivenInv'
  OBVIOUS
<1>1. CASE UNCHANGED gateVars
  BY <1>1 DEF gateVars, GivenInv, Given
<1>2. ASSUME UNCHANGED call,
             \A g \in Gates, a \in Answers :
                a \in {row'[g], poll'[g], outcome'[g]} => a \in {row[g], poll[g], outcome[g]}
      PROVE  GivenInv'
  BY <1>2 DEF GivenInv, Given
<1>3. ASSUME NEW g \in Gates, Create(g) \/ Wait(g)  PROVE GivenInv'
  BY <1>2, <1>3 DEF Create, Wait, wait, GatesTyped, GateTypeOK, Answers
<1>4. ASSUME NEW g \in Gates, PollReads(g) \/ PollFails(g)  PROVE GivenInv'
  BY <1>2, <1>4 DEF PollReads, PollFails, GatesTyped, GateTypeOK, Answers
<1>5. ASSUME NEW g \in Gates, PollReturns(g)  PROVE GivenInv'
  BY <1>2, <1>5, Polled DEF Answered, Answers
<1>6. ASSUME NEW g \in Gates, Expire(g) \/ ExpireFails(g)  PROVE GivenInv'
  BY <1>2, <1>6 DEF Expire, ExpireFails
<1>7. ASSUME NEW g \in Gates, ExpireRecorded(g)  PROVE GivenInv'
  BY <1>2, <1>7, SettleTyped DEF ExpireRecorded, GatesTyped, GateTypeOK, Answers
<1>8. ASSUME NEW c \in Calls, CallStarts(c) \/ AnswerRefused(c) \/ AnswerReads(c) \/ AnswerFails(c)
      PROVE  GivenInv'
  <2>1. \A d \in Calls : call[d].at \in {"notifying", "done"} => call'[d] = call[d]
    BY <1>8, CallMoves
    DEF CallStarts, Answer, AnswerRefused, AnswerReads, AnswerFails, InCall, GatesTyped, GateTypeOK, Positions
  <2>2. QED
    BY <1>8, <2>1 DEF CallStarts, Answer, AnswerRefused, AnswerReads, AnswerFails, wait,
                      GivenInv, Given
<1>9. ASSUME NEW c \in Calls, AnswerWrites(c)  PROVE GivenInv'
  <2>1. /\ call'[c].at = "notifying" /\ call'[c].gate = call[c].gate
        /\ call'[c].answer = call[c].answer
        /\ \A d \in Calls : d # c => call'[d] = call[d]
        /\ call[c].at = "writing" /\ UNCHANGED <<poll, outcome>>
    BY <1>9, CallMoves DEF AnswerWrites, InCall, GatesTyped, Positions, wait
  <2>2. \A g \in Gates : row'[g] # row[g] => g = call[c].gate /\ row'[g] = call[c].answer
    <3>1. row \in [Gates -> Statuses \cup {"none"}] /\ row' = [row EXCEPT ![call[c].gate] = call[c].answer]
      BY <1>9 DEF AnswerWrites, GatesTyped, GateTypeOK
    <3>2. QED
      BY <3>1
  <2>3. \A g \in Gates, a \in Answers : Given(g, a) => Given(g, a)'
    BY <2>1 DEF Given
  <2>4. QED
    BY <2>1, <2>2, <2>3 DEF GivenInv, Given
<1>10. ASSUME NEW c \in Calls, AnswerNotifies(c)  PROVE GivenInv'
  <2>1. /\ call'[c].at = "done" /\ call'[c].gate = call[c].gate
        /\ call'[c].answer = call[c].answer
        /\ \A d \in Calls : d # c => call'[d] = call[d]
    BY <1>10, CallMoves DEF AnswerNotifies, InCall, GatesTyped, Positions
  <2>2. \A g \in Gates, a \in Answers : Given(g, a) => Given(g, a)'
    BY <2>1 DEF Given
  <2>3. \A g \in Gates :
          outcome'[g] # outcome[g] => g = call[c].gate /\ outcome'[g] = call[c].answer
    <3>1. \A g \in Gates : outcome'[g] = outcome[g] \/ Told(c, g)
      BY <1>10, Notified
    <3>2. QED
      BY <3>1 DEF Told, Answered
  <2>4. QED
    BY <1>10, <2>1, <2>2, <2>3, Notified DEF GivenInv, Given
<1>11. QED
  BY <1>1, <1>3, <1>4, <1>5, <1>6, <1>7, <1>8, <1>9, <1>10 DEF GateNext, StoreAndTimers, CallGoesOn

\* The task acts on no approval that nobody gave.
THEOREM OnlyGivenAnswers == GateSpec => []ActsOnGivenAnswer
<1>1. GateInit => GatesTyped /\ WaitInv /\ GivenInv
  BY InitWait DEF GateInit, GivenInv, Answers
<1>2. GatesTyped /\ WaitInv /\ GivenInv /\ [GateNext]_gateVars => (GatesTyped /\ WaitInv /\ GivenInv)'
  BY GatesNextTyped, NextWaitInv, NextGiven
<1>3. GivenInv => ActsOnGivenAnswer
  BY DEF GivenInv, Given, ActsOnGivenAnswer
<1>4. QED
  BY <1>1, <1>2, <1>3, PTL DEF GateSpec
-----------------------------------------------------------------------------
(***************************************************************************)
(* The refinement: each step leaves the decision of every gate but one     *)
(* alone, and moves that one as GatePromise does.                          *)
(***************************************************************************)
GateMoves(g) ==
    \/ Decision(g)' = Decision(g)
    \/ Decision(g) = "unasked" /\ Decision(g)' = "open"
    \/ Decision(g) = "open" /\ Decision(g)' \in Promise!Decisions

OthersKeep(g) == \A h \in Gates \ {g} : Decision(h)' = Decision(h)

Quiet == \A h \in Gates : Decision(h)' = Decision(h)

LEMMA StepMovesOneGate ==
    ASSUME GatesTyped, WaitInv, [GateNext]_gateVars
    PROVE  \/ Quiet
           \/ \E g \in Gates : GateMoves(g) /\ OthersKeep(g)
<1> USE DEF GateMoves, OthersKeep, Quiet, Decision, Lost
<1>1. CASE UNCHANGED gateVars
  BY <1>1 DEF gateVars
<1>2. ASSUME NEW g \in Gates, Create(g)  PROVE Quiet
  BY <1>2 DEF Create, wait
<1>3. ASSUME NEW g \in Gates, Wait(g)  PROVE GateMoves(g) /\ OthersKeep(g)
  BY <1>3 DEF Wait, WaitInv, GatesTyped, GateTypeOK
<1>4. ASSUME NEW g \in Gates, PollReads(g) \/ PollFails(g)  PROVE GateMoves(g) /\ OthersKeep(g)
  <2>1. OthersKeep(g)
    BY <1>4 DEF PollReads, PollFails, GatesTyped, GateTypeOK
  <2>2. CASE PollReads(g)
    <3>1. poll[g] = "sent" /\ poll'[g] # "unsent" /\ UNCHANGED <<outcome, timer>>
      BY <2>2 DEF PollReads, GatesTyped, GateTypeOK, Statuses, Answers
    <3>2. QED
      BY <2>1, <3>1 DEF Promise!Decisions
  <2>3. CASE PollFails(g)
    BY <2>3 DEF PollFails, GatesTyped, GateTypeOK, Promise!Decisions
  <2>4. QED
    BY <1>4, <2>1, <2>2, <2>3
<1>5. ASSUME NEW g \in Gates, PollReturns(g)  PROVE GateMoves(g) /\ OthersKeep(g)
  BY <1>5, Polled DEF Answered, Statuses, Answers, Promise!Decisions, Promise!Answers
<1>6. ASSUME NEW g \in Gates, Expire(g) \/ ExpireFails(g)  PROVE GateMoves(g) /\ OthersKeep(g)
  BY <1>6 DEF Expire, ExpireFails, GatesTyped, GateTypeOK, Promise!Decisions
<1>7. ASSUME NEW g \in Gates, ExpireRecorded(g)  PROVE GateMoves(g) /\ OthersKeep(g)
  <2>1. /\ outcome[g] # "open" => outcome' = outcome
        /\ outcome[g] = "open" => outcome'[g] = "timeout"
        /\ \A h \in Gates \ {g} : outcome'[h] = outcome[h] /\ timer'[h] = timer[h]
        /\ timer[g] = "expiring" /\ timer'[g] = "off" /\ poll' = poll
    BY <1>7, SettleTyped DEF ExpireRecorded, GatesTyped, GateTypeOK
  <2>2. QED
    BY <2>1, <1>7 DEF WaitInv, Promise!Decisions
<1>8. ASSUME NEW c \in Calls,
             CallStarts(c) \/ AnswerRefused(c) \/ AnswerReads(c) \/ AnswerFails(c) \/ AnswerWrites(c)
      PROVE  Quiet
  BY <1>8 DEF CallStarts, Answer, AnswerRefused, AnswerReads, AnswerFails, AnswerWrites, wait
<1>9. ASSUME NEW c \in Calls, AnswerNotifies(c), NEW h \in Gates, h = call[c].gate
      PROVE  GateMoves(h) /\ OthersKeep(h)
  <2>1. /\ poll' = poll
        /\ \A g \in Gates \ {h} : outcome'[g] = outcome[g] /\ timer'[g] = timer[g]
    BY <1>9, Notified DEF Told
  <2>2. CASE waiter[h]
    <3>1. Answered(h, call[c].answer) /\ call[c].answer \in Answers
      BY <1>9, <2>2, Notified DEF Told
    <3>2. QED
      BY <2>1, <2>2, <3>1
      DEF Answered, WaitInv, Answers, Promise!Decisions, Promise!Answers
  <2>3. CASE ~ waiter[h]
    <3>1. outcome'[h] = outcome[h] /\ timer'[h] = timer[h]
      BY <1>9, <2>1, <2>3, Notified DEF Told
    <3>2. QED
      BY <2>1, <3>1
  <2>4. QED
    BY <2>2, <2>3
<1>10. \A c \in Calls : AnswerNotifies(c) => \E h \in Gates : h = call[c].gate
  BY Notified
<1> USE DEF GateNext, StoreAndTimers, CallGoesOn
<1> HIDE DEF GateMoves, OthersKeep, Quiet
<1>11. QED
  BY <1>1, <1>2, <1>3, <1>4, <1>5, <1>6, <1>7, <1>8, <1>9, <1>10

LEMMA StepPromise ==
    GatesTyped /\ WaitInv /\ [GateNext]_gateVars => [Promise!Next]_[g \in Gates |-> Decision(g)]
<1> SUFFICES ASSUME GatesTyped, WaitInv, [GateNext]_gateVars
             PROVE  [Promise!Next]_[g \in Gates |-> Decision(g)]
  OBVIOUS
<1>1. CASE Quiet
  BY <1>1 DEF Quiet
<1>2. ASSUME NEW g \in Gates, GateMoves(g), OthersKeep(g)
      PROVE  [Promise!Next]_[h \in Gates |-> Decision(h)]
  <2>1. CASE Decision(g)' = Decision(g)
    BY <1>2, <2>1 DEF OthersKeep
  <2>2. CASE Decision(g) = "unasked" /\ Decision(g)' = "open"
    <3>1. Promise!Ask(g)
      BY <1>2, <2>2 DEF OthersKeep, Promise!Ask
    <3>2. QED
      BY <3>1 DEF Promise!Next
  <2>3. CASE Decision(g) = "open" /\ Decision(g)' \in Promise!Decisions
    <3>1. Promise!Decide(g)
      BY <1>2, <2>3 DEF OthersKeep, Promise!Decide
    <3>2. QED
      BY <3>1 DEF Promise!Next
  <2>4. QED
    BY <1>2, <2>1, <2>2, <2>3 DEF GateMoves
<1>3. QED
  BY <1>1, <1>2, StepMovesOneGate

\* A gate is decided once, after the run began to wait, and for good.
THEOREM GatesKeepPromise == GateSpec => KeepsPromise
<1>1. GateInit => Promise!Init
  BY DEF GateInit, Promise!Init, Decision
<1>2. GateSpec => [](GatesTyped /\ WaitInv)
  <2>1. GateInit => GatesTyped /\ WaitInv
    BY InitWait
  <2>2. GatesTyped /\ WaitInv /\ [GateNext]_gateVars => (GatesTyped /\ WaitInv)'
    BY GatesNextTyped, NextWaitInv
  <2>3. QED
    BY <2>1, <2>2, PTL DEF GateSpec
<1>3. QED
  BY <1>1, <1>2, StepPromise, PTL DEF GateSpec, KeepsPromise, Promise!Spec
-----------------------------------------------------------------------------
(***************************************************************************)
(* The task over its gates: one gate per run and gated step, and what the  *)
(* task reads of a gate is the decision of HumanGate.                      *)
(***************************************************************************)
Linked == decision = [g \in Runners \X Gated |-> Decision(g)]

\* A step behind a gate that executes was approved or skipped by a call of
\* resolveGate() for the gate of that very run.
SomebodyAllowed ==
    \A r \in Runners : pc[r] \in {"starting", "acting", "completing"} /\ at[r] \in Gated =>
        \E c \in Calls : /\ call[c].at \in {"notifying", "done"} /\ call[c].gate = Gate(r)
                         /\ call[c].answer = decision[Gate(r)]
                         /\ call[c].answer \in {"approved", "skipped"}

\* From the two modules: no timeout, lost promise or failing update executes
\* a step that the policy or the goal's threshold puts behind a gate.
THEOREM GatedStepsHaveAnAnswer ==
    ASSUME Gates = Runners \X Gated
    PROVE  Spec /\ GateSpec /\ []Linked => []SomebodyAllowed
<1>1. GatedStepsWait /\ ActsOnGivenAnswer /\ Linked => SomebodyAllowed
  <2> SUFFICES ASSUME GatedStepsWait, ActsOnGivenAnswer, Linked, NEW r \in Runners,
                      pc[r] \in {"starting", "acting", "completing"}, at[r] \in Gated
               PROVE  \E c \in Calls :
                        /\ call[c].at \in {"notifying", "done"} /\ call[c].gate = Gate(r)
                        /\ call[c].answer = decision[Gate(r)]
                        /\ call[c].answer \in {"approved", "skipped"}
    BY DEF SomebodyAllowed
  <2>1. Gate(r) \in Gates /\ decision[Gate(r)] \in {"approved", "skipped"}
    BY DEF Gate, GatedStepsWait
  <2>2. decision[Gate(r)] = Decision(Gate(r))
    BY <2>1 DEF Linked
  <2>3. outcome[Gate(r)] = decision[Gate(r)]
    BY <2>1, <2>2 DEF Decision
  <2>4. QED
    BY <2>1, <2>3 DEF ActsOnGivenAnswer, Answers
<1>2. QED
  BY <1>1, GatedStepsAreApproved, OnlyGivenAnswers, PTL
=============================================================================
