------------------------ MODULE FleetSupervisorProofs ------------------------
(***************************************************************************)
(* FleetSupervisor for every set of profiles, range of ports and bound: no *)
(* exit path of spawn() leaks the profile lock or a slot of the limiter,   *)
(* on Windows no two spawns have a Chrome on one profile directory, and a  *)
(* circuit that reached its threshold is not closed.                       *)
(* The limiter's own invariant comes from FleetLimiterProofs by INSTANCE.  *)
(***************************************************************************)
EXTENDS FleetSupervisor, FiniteSetTheorems, TLAPS

LP == INSTANCE FleetLimiterProofs WITH Callers <- Ids

\* An instance record, whatever its fields hold.
Shape(i) == [status |-> i.status, pid |-> i.pid, port |-> i.port, fails |-> i.fails]

\* Ids are handed out in order, only a spawn that began has an instance, and
\* an instance's pid is that of a process the spawn itself started.
TaskInv ==
    /\ spawns \in 0..MaxSpawns
    /\ lock \in [Profiles -> 0..MaxSpawns]
    /\ prof \in [Ids -> Profiles \cup {NoProfile}]
    /\ job \in [Ids -> {"none", "done"} \cup Busy]
    /\ inst = [id \in Ids |-> Shape(inst[id])]
    /\ \A id \in Ids : inst[id].pid[1] \in {0, id}
    /\ killing[1] \in 0..spawns /\ probe.id \in 0..spawns
    /\ \A id \in Ids : job[id] # "none" \/ inst[id].status # "none" => id <= spawns
    /\ \A id \in Ids : id <= spawns => prof[id] \in Profiles

LockInv == TaskInv /\ LockedWhileSpawning

\* Only the instance of id may have changed.
Touches(id) ==
    /\ inst' = [i \in Ids |-> Shape(inst'[i])]
    /\ inst'[id].pid[1] \in {0, id}
    /\ \A i \in Ids \ {id} : inst'[i] = inst[i]

\* A spawn that begins takes the free lock of its profile.
LEMMA BeginKeepsLock ==
    ASSUME LockInv, NEW p \in Profiles, NEW port, Begin(p, port), UNCHANGED <<inst, killing, probe>>
    PROVE  LockInv'
<1> DEFINE new == spawns + 1
<1>1. /\ new \in Ids /\ spawns' = new /\ spawns \in Nat
      /\ lock[p] = 0 /\ lock' = [lock EXCEPT ![p] = new]
      /\ prof' = [prof EXCEPT ![new] = p]
      /\ job' = [job EXCEPT ![new] = "preparing"]
  BY SupervisorAssumption DEF LockInv, TaskInv, Begin, Unlocked, Goto, Ids
<1>2. job[new] = "none"
  BY <1>1 DEF LockInv, TaskInv, Ids
<1> HIDE DEF new
<1>3. \A i \in Ids : i <= spawns => i # new /\ i <= spawns'
  BY <1>1 DEF LockInv, TaskInv, Ids, new
<1>4. TaskInv'
  <2>1. lock' \in [Profiles -> 0..MaxSpawns] /\ spawns' \in 0..MaxSpawns
    BY <1>1, SupervisorAssumption DEF LockInv, TaskInv, Ids
  <2>2. prof' \in [Ids -> Profiles \cup {NoProfile}]
    BY <1>1 DEF LockInv, TaskInv
  <2>3. job' \in [Ids -> {"none", "done"} \cup Busy]
    BY <1>1 DEF LockInv, TaskInv, Busy
  <2>4. \A i \in Ids : job'[i] # "none" \/ inst'[i].status # "none" => i <= spawns'
    BY <1>1, <1>3 DEF LockInv, TaskInv, Ids
  <2>5. \A i \in Ids : i <= spawns' => prof'[i] \in Profiles
    BY <1>1 DEF LockInv, TaskInv, Ids, new
  <2>6. killing'[1] \in 0..spawns' /\ probe'.id \in 0..spawns'
    BY <1>1 DEF LockInv, TaskInv, new
  <2>7. inst' = [i \in Ids |-> Shape(inst'[i])] /\ \A i \in Ids : inst'[i].pid[1] \in {0, i}
    BY DEF LockInv, TaskInv
  <2>8. QED
    BY <2>1, <2>2, <2>3, <2>4, <2>5, <2>6, <2>7 DEF TaskInv
<1>5. ASSUME NEW i \in Ids, job'[i] \in Busy  PROVE lock'[prof'[i]] = i
  <2>1. CASE i = new
    BY <1>1, <2>1 DEF LockInv, TaskInv
  <2>2. CASE i # new
    <3>1. job[i] \in Busy /\ lock[prof[i]] = i /\ prof'[i] = prof[i] /\ i # 0
      BY <1>1, <1>5, <2>2 DEF LockInv, TaskInv, LockedWhileSpawning, Ids
    <3>2. prof[i] # p
      BY <1>1, <3>1
    <3>3. prof[i] \in Profiles
      BY <3>1 DEF LockInv, TaskInv, Busy, InLaunch
    <3>4. QED
      BY <1>1, <3>1, <3>2, <3>3 DEF LockInv, TaskInv
  <2>3. QED
    BY <2>1, <2>2
<1>6. ASSUME NEW q \in Profiles, lock'[q] # 0
      PROVE  prof'[lock'[q]] = q /\ job'[lock'[q]] \in Busy
  <2>1. CASE q = p
    BY <1>1, <2>1 DEF LockInv, TaskInv, Busy
  <2>2. CASE q # p
    <3>1. lock'[q] = lock[q] /\ lock[q] \in Ids /\ prof[lock[q]] = q /\ job[lock[q]] \in Busy
      BY <1>1, <1>6, <2>2 DEF LockInv, TaskInv, LockedWhileSpawning, Ids
    <3>2. lock[q] # new
      BY <1>2, <3>1 DEF Busy, InLaunch
    <3>3. QED
      BY <1>1, <3>1, <3>2 DEF LockInv, TaskInv
  <2>3. QED
    BY <2>1, <2>2
<1>7. QED
  BY <1>4, <1>5, <1>6 DEF LockInv, LockedWhileSpawning

\* A spawn that ends gives back the lock that it holds.
LEMMA FinishKeepsLock ==
    ASSUME LockInv, NEW id \in Ids, job[id] \in Busy, Finish(id), UNCHANGED <<inst, killing, probe>>
    PROVE  LockInv'
<1>1. /\ job' = [job EXCEPT ![id] = "done"] /\ prof[id] \in Profiles
      /\ lock' = [lock EXCEPT ![prof[id]] = 0] /\ lock[prof[id]] = id
      /\ UNCHANGED <<spawns, prof>>
  BY DEF LockInv, TaskInv, LockedWhileSpawning, Finish, Goto, Busy, InLaunch
<1>2. TaskInv'
  BY <1>1, SupervisorAssumption DEF LockInv, TaskInv, Busy, InLaunch
<1>3. ASSUME NEW i \in Ids, job'[i] \in Busy  PROVE lock'[prof'[i]] = i
  <2>1. i # id /\ job[i] \in Busy
    BY <1>1, <1>3 DEF LockInv, TaskInv, Busy, InLaunch
  <2>2. lock[prof[i]] = i /\ prof[i] \in Profiles
    BY <2>1 DEF LockInv, TaskInv, LockedWhileSpawning, Busy, InLaunch
  <2>3. prof[i] # prof[id]
    BY <1>1, <2>1, <2>2
  <2>4. QED
    BY <1>1, <2>2, <2>3 DEF LockInv, TaskInv
<1>4. ASSUME NEW q \in Profiles, lock'[q] # 0
      PROVE  prof'[lock'[q]] = q /\ job'[lock'[q]] \in Busy
  <2>1. q # prof[id] /\ lock'[q] = lock[q]
    BY <1>1, <1>4 DEF LockInv, TaskInv
  <2>2. lock[q] \in Ids /\ prof[lock[q]] = q /\ job[lock[q]] \in Busy
    BY <1>4, <2>1 DEF LockInv, TaskInv, LockedWhileSpawning, Ids
  <2>3. QED
    BY <1>1, <2>1, <2>2 DEF LockInv, TaskInv
<1>5. QED
  BY <1>2, <1>3, <1>4 DEF LockInv, LockedWhileSpawning

\* A spawn that goes on keeps it.
LEMMA GotoKeepsLock ==
    ASSUME LockInv, NEW id \in Ids, job[id] \in Busy,
           NEW at \in Busy, Goto(id, at), Touches(id),
           UNCHANGED <<spawns, lock, prof, killing, probe>>
    PROVE  LockInv'
<1>1. job' = [job EXCEPT ![id] = at] /\ id <= spawns /\ at # "none"
  BY DEF LockInv, TaskInv, Goto, Busy, InLaunch
<1>2. \A i \in Ids : job'[i] \in Busy <=> job[i] \in Busy
  BY <1>1 DEF LockInv, TaskInv
<1>3. \A i \in Ids : job'[i] # "none" \/ inst'[i].status # "none" => i <= spawns
  BY <1>1 DEF LockInv, TaskInv, Touches
<1>4. job' \in [Ids -> {"none", "done"} \cup Busy]
  BY <1>1 DEF LockInv, TaskInv
<1>5. TaskInv'
  BY <1>3, <1>4 DEF LockInv, TaskInv, Touches
<1>6. \A q \in Profiles : lock[q] # 0 => lock[q] \in Ids
  BY DEF LockInv, TaskInv, Ids
<1>7. LockedWhileSpawning'
  BY <1>2, <1>6 DEF LockInv, LockedWhileSpawning
<1>8. QED
  BY <1>5, <1>7 DEF LockInv

\* What happens beside the spawns leaves the locks alone.
LEMMA AsideKeepsLock ==
    ASSUME LockInv, NEW id \in Ids, id <= spawns, Touches(id),
           killing'[1] \in 0..spawns, probe'.id \in 0..spawns,
           UNCHANGED <<spawns, lock, prof, job>>
    PROVE  LockInv'
<1>1. TaskInv'
  BY DEF LockInv, TaskInv, Touches
<1>2. QED
  BY <1>1 DEF LockInv, LockedWhileSpawning

-----------------------------------------------------------------------------
LEMMA InitLock == Init => LockInv
<1>1. 0 \notin Ids
  BY DEF Ids
<1>2. QED
  BY <1>1, SupervisorAssumption
  DEF Init, LockInv, TaskInv, LockedWhileSpawning, Busy, InLaunch, NoPid, NoProbe, Shape, Ids

LEMMA TouchNone == ASSUME LockInv, UNCHANGED inst, NEW id \in Ids  PROVE Touches(id)
BY DEF LockInv, TaskInv, Touches

\* An action that rewrites the record of id touches id alone.
LEMMA TouchOne ==
    ASSUME LockInv, NEW id \in Ids, NEW r, inst' = [inst EXCEPT ![id] = r],
           r = Shape(r), r.pid[1] \in {0, id}
    PROVE  Touches(id)
<1>1. inst = [i \in Ids |-> Shape(inst[i])]
  BY DEF LockInv, TaskInv
<1>2. inst' = [i \in Ids |-> IF i = id THEN r ELSE inst[i]]
  BY <1>1
<1>3. \A i \in Ids : inst[i] = Shape(inst[i])
  BY <1>1
<1>4. inst'[id] = r /\ \A i \in Ids \ {id} : inst'[i] = inst[i]
  BY <1>2
<1>5. inst' = [i \in Ids |-> Shape(inst'[i])]
  BY <1>2, <1>3, <1>4
<1>6. QED
  BY <1>4, <1>5 DEF Touches

LEMMA NoPidFirst == NoPid[1] = 0
BY DEF NoPid

\* Writing a status or counting a failure leaves the rest of the record.
LEMMA TouchFields ==
    ASSUME LockInv, NEW id \in Ids, NEW s, NEW n,
           \/ inst' = [inst EXCEPT ![id].status = s]
           \/ inst' = [inst EXCEPT ![id].fails = n]
           \/ inst' = [inst EXCEPT ![id].fails = n, ![id].status = s]
           \/ inst' = [inst EXCEPT ![id].status = s, ![id].fails = n]
           \/ inst' = [inst EXCEPT ![id].status = s, ![id].pid = NoPid]
    PROVE  Touches(id)
<1>1. inst = [i \in Ids |-> Shape(inst[i])] /\ inst[id].pid[1] \in {0, id}
  BY DEF LockInv, TaskInv
<1>2. inst[id] = Shape(inst[id])
  BY <1>1
<1> DEFINE old == inst[id]
           put(st, pd, fl) == [status |-> st, pid |-> pd, port |-> old.port, fails |-> fl]
<1>3. PICK st, pd, fl : inst' = [inst EXCEPT ![id] = put(st, pd, fl)] /\ pd[1] \in {0, id}
  <2>1. CASE inst' = [inst EXCEPT ![id].status = s]
    <3>1. [old EXCEPT !.status = s] = put(s, old.pid, old.fails)
      BY <1>2 DEF Shape
    <3>2. inst' = [inst EXCEPT ![id] = put(s, old.pid, old.fails)]
      BY <2>1, <3>1
    <3>3. QED
      BY <1>1, <3>2
  <2>2. CASE inst' = [inst EXCEPT ![id].fails = n]
    <3>1. [old EXCEPT !.fails = n] = put(old.status, old.pid, n)
      BY <1>2 DEF Shape
    <3>2. inst' = [inst EXCEPT ![id] = put(old.status, old.pid, n)]
      BY <2>2, <3>1
    <3>3. QED
      BY <1>1, <3>2
  <2>3. CASE inst' = [inst EXCEPT ![id].fails = n, ![id].status = s]
    <3> DEFINE mid == [inst EXCEPT ![id] = put(old.status, old.pid, n)]
    <3>1. [old EXCEPT !.fails = n] = put(old.status, old.pid, n)
      BY <1>2 DEF Shape
    <3>2. inst' = [mid EXCEPT ![id].status = s]
      BY <2>3, <3>1
    <3>3. [put(old.status, old.pid, n) EXCEPT !.status = s] = put(s, old.pid, n)
      OBVIOUS
    <3>4. mid = [i \in Ids |-> IF i = id THEN put(old.status, old.pid, n) ELSE inst[i]]
      BY <1>1
    <3>5. inst' = [inst EXCEPT ![id] = put(s, old.pid, n)]
      BY <1>1, <3>2, <3>3, <3>4
    <3>6. QED
      BY <1>1, <3>5
  <2>4. CASE inst' = [inst EXCEPT ![id].status = s, ![id].fails = n]
    <3> DEFINE mid == [inst EXCEPT ![id] = put(s, old.pid, old.fails)]
    <3>1. [old EXCEPT !.status = s] = put(s, old.pid, old.fails)
      BY <1>2 DEF Shape
    <3>2. inst' = [mid EXCEPT ![id].fails = n]
      BY <2>4, <3>1
    <3>3. [put(s, old.pid, old.fails) EXCEPT !.fails = n] = put(s, old.pid, n)
      OBVIOUS
    <3>4. mid = [i \in Ids |-> IF i = id THEN put(s, old.pid, old.fails) ELSE inst[i]]
      BY <1>1
    <3>5. inst' = [inst EXCEPT ![id] = put(s, old.pid, n)]
      BY <1>1, <3>2, <3>3, <3>4
    <3>6. QED
      BY <1>1, <3>5
  <2>5. CASE inst' = [inst EXCEPT ![id].status = s, ![id].pid = NoPid]
    <3> DEFINE mid == [inst EXCEPT ![id] = put(s, old.pid, old.fails)]
    <3>1. [old EXCEPT !.status = s] = put(s, old.pid, old.fails)
      BY <1>2 DEF Shape
    <3>2. inst' = [mid EXCEPT ![id].pid = NoPid]
      BY <2>5, <3>1
    <3>3. [put(s, old.pid, old.fails) EXCEPT !.pid = NoPid] = put(s, NoPid, old.fails)
      OBVIOUS
    <3>4. mid = [i \in Ids |-> IF i = id THEN put(s, old.pid, old.fails) ELSE inst[i]]
      BY <1>1
    <3>5. inst' = [inst EXCEPT ![id] = put(s, NoPid, old.fails)]
      BY <1>1, <3>2, <3>3, <3>4
    <3>6. QED
      BY <1>1, <3>5, NoPidFirst
  <2>6. QED
    BY <2>1, <2>2, <2>3, <2>4, <2>5
<1>4. put(st, pd, fl) = Shape(put(st, pd, fl)) /\ put(st, pd, fl).pid = pd
  BY DEF Shape
<1> HIDE DEF put
<1>5. QED
  BY <1>3, <1>4, TouchOne

\* Every step keeps the locks: one action at a time.
LEMMA StepLock == LockInv /\ [Next]_vars => LockInv'
<1>1. SUFFICES ASSUME LockInv, [Next]_vars  PROVE LockInv'
  OBVIOUS
<1>2. ASSUME NEW p \in Profiles, Spawn(p)  PROVE LockInv'
  BY <1>1, <1>2, BeginKeepsLock DEF Spawn, outside
<1>3. ASSUME NEW id \in Ids, EnsureRunning(id)  PROVE LockInv'
  <2>1. prof[id] \in Profiles
    BY <1>1, <1>3 DEF EnsureRunning, LockInv, TaskInv
  <2>2. QED
    BY <1>1, <1>3, <2>1, BeginKeepsLock DEF EnsureRunning, outside
<1>4. ASSUME NEW id \in Ids, PrepareFails(id) \/ NoPortLeft(id) \/ Rejected(id) \/ LeaveLaunch(id)
      PROVE  LockInv'
  <2>1. job[id] \in Busy /\ Finish(id) /\ UNCHANGED <<inst, killing, probe>>
    BY <1>4 DEF PrepareFails, NoPortLeft, Rejected, LeaveLaunch, outside, Busy, InLaunch
  <2>2. QED
    BY <1>1, <2>1, FinishKeepsLock
<1>5. ASSUME NEW id \in Ids, Sweep(id) \/ Resume(id) \/ StartProcess(id) \/ Relaunch(id)
      PROVE  LockInv'
  <2>1. PICK at \in Busy : job[id] \in Busy /\ Goto(id, at) /\ UNCHANGED <<inst, spawns, lock, prof, killing, probe>>
    BY <1>5 DEF Sweep, Resume, StartProcess, Relaunch, outside, Busy, InLaunch
  <2>2. QED
    BY <1>1, <2>1, TouchNone, GotoKeepsLock
<1>6. ASSUME NEW id \in Ids, Register(id)  PROVE LockInv'
  <2>1. PICK at \in Busy, port \in GivenPorts(id) \cup {nextPort}, s \in {"error", "starting"} :
            /\ job[id] \in Busy /\ Goto(id, at) /\ Enroll(id, port, s)
            /\ UNCHANGED <<spawns, lock, prof, killing, probe>>
    BY <1>6 DEF Register, Admit, outside, Busy, InLaunch
  <2> DEFINE r == [status |-> s, pid |-> NoPid, port |-> port, fails |-> 0]
  <2>2. inst' = [inst EXCEPT ![id] = r] /\ r = Shape(r) /\ r.pid[1] = 0
    BY <2>1 DEF Enroll, Shape, NoPid
  <2> HIDE DEF r
  <2>3. QED
    BY <1>1, <2>1, <2>2, TouchOne, GotoKeepsLock
<1>7. ASSUME NEW id \in Ids, QueueTimeout(id)  PROVE LockInv'
  <2>1. job[id] \in Busy /\ "rejecting" \in Busy /\ Goto(id, "rejecting")
        /\ inst' = [inst EXCEPT ![id].status = "error"] /\ UNCHANGED <<spawns, lock, prof, killing, probe>>
    BY <1>7 DEF QueueTimeout, SetStatus, outside, Busy
  <2>2. QED
    BY <1>1, <2>1, TouchFields, GotoKeepsLock
<1>8. ASSUME NEW id \in Ids, LaunchReady(id)  PROVE LockInv'
  <2> DEFINE r == [status |-> "running", pid |-> <<id, attempt[id]>>, port |-> dial[id], fails |-> 0]
  <2>2. inst' = [inst EXCEPT ![id] = r] /\ r = Shape(r) /\ r.pid[1] = id
    BY <1>8 DEF LaunchReady, Shape
  <2> HIDE DEF r
  <2>3. job[id] \in Busy /\ "recording" \in Busy /\ Goto(id, "recording")
        /\ UNCHANGED <<spawns, lock, prof, killing, probe>>
    BY <1>8 DEF LaunchReady, outside, Busy, InLaunch
  <2>4. QED
    BY <1>1, <2>2, <2>3, TouchOne, GotoKeepsLock
<1>9. ASSUME NEW id \in Ids, LaunchFails(id) \/ RecordFails(id)  PROVE LockInv'
  <2>1. PICK at \in Busy : job[id] \in Busy /\ Goto(id, at) /\ UNCHANGED <<spawns, lock, prof, killing, probe>>
    BY <1>9 DEF LaunchFails, RecordFails, AttemptFails, outside, Busy, InLaunch
  <2>2. Touches(id)
    BY <1>1, <1>9, TouchFields DEF LaunchFails, RecordFails, AttemptFails
  <2>3. QED
    BY <1>1, <2>1, <2>2, GotoKeepsLock
<1>10. ASSUME NEW id \in Ids, KillStart(id)  PROVE LockInv'
  <2>1. Touches(id)
    BY <1>1, <1>10, TouchFields DEF KillStart, SetStatus
  <2>2. killing'[1] \in 0..spawns
    <3>1. inst[id].pid[1] \in {0, id} /\ id <= spawns /\ spawns \in Nat /\ id \in Nat
      BY <1>1, <1>10 DEF KillStart, LockInv, TaskInv, Ids
    <3>2. QED
      BY <1>10, <3>1 DEF KillStart
  <2>3. id <= spawns /\ probe'.id \in 0..spawns /\ UNCHANGED <<spawns, lock, prof, job>>
    BY <1>1, <1>10 DEF KillStart, taskVars, LockInv, TaskInv
  <2>4. QED
    BY <1>1, <2>1, <2>2, <2>3, AsideKeepsLock
<1>11. ASSUME KillFinish  PROVE LockInv'
  <2>1. /\ inst' = [inst EXCEPT ![killing[1]].status = "stopped", ![killing[1]].pid = NoPid]
        /\ killing' = NoPid /\ UNCHANGED <<spawns, lock, prof, job>>
    BY <1>11 DEF KillFinish, taskVars
  <2>2. killing'[1] \in 0..spawns /\ killing[1] \in 0..spawns /\ spawns \in Nat
    BY <1>1, <2>1 DEF LockInv, TaskInv, NoPid
  <2>3. CASE killing[1] \in Ids
    <3>1. Touches(killing[1])
      BY <1>1, <2>1, <2>3, TouchFields
    <3>2. killing[1] <= spawns /\ probe'.id \in 0..spawns
      BY <1>1, <1>11, <2>2 DEF KillFinish, LockInv, TaskInv
    <3>3. QED
      BY <1>1, <2>1, <2>2, <2>3, <3>1, <3>2, AsideKeepsLock
  <2>4. CASE killing[1] \notin Ids
    <3>1. inst' = inst
      <4>1. inst = [i \in Ids |-> Shape(inst[i])]
        BY <1>1 DEF LockInv, TaskInv
      <4> DEFINE k == killing[1]
                 mid == [inst EXCEPT ![k].status = "stopped"]
      <4>2. inst' = [mid EXCEPT ![k].pid = NoPid] /\ k \notin Ids
        BY <2>1, <2>4
      <4> HIDE DEF k
      <4>3. mid = inst
        BY <4>1, <4>2
      <4>4. QED
        BY <4>1, <4>2, <4>3
    <3>2. probe'.id \in 0..spawns
      BY <1>1, <1>11 DEF KillFinish, LockInv, TaskInv
    <3>3. TaskInv'
      BY <1>1, <2>1, <2>2, <3>1, <3>2 DEF LockInv, TaskInv
    <3>4. QED
      BY <1>1, <2>1, <3>3 DEF LockInv, LockedWhileSpawning
  <2>5. QED
    BY <2>3, <2>4
<1>12. ASSUME NEW id \in Ids, ProbeOk(id) \/ ProbeFails(id)  PROVE LockInv'
  <2>1. Touches(id)
    BY <1>1, <1>12, TouchFields DEF ProbeOk, ProbeFails
  <2>2. UNCHANGED <<spawns, lock, prof, job, killing>> /\ probe' = NoProbe /\ probe.id = id
    BY <1>12 DEF ProbeOk, ProbeFails, taskVars
  <2>3. id <= spawns /\ probe'.id \in 0..spawns /\ killing'[1] \in 0..spawns
    BY <1>1, <2>2 DEF LockInv, TaskInv, NoProbe
  <2>4. QED
    BY <1>1, <2>1, <2>2, <2>3, AsideKeepsLock
<1>13. ASSUME NEW id \in Ids, ProbeStart(id)  PROVE LockInv'
  <2>1. UNCHANGED <<spawns, lock, prof, job, inst, killing>> /\ probe'.id = id
    BY <1>13 DEF ProbeStart, taskVars
  <2>2. probe'.id \in 0..spawns
    BY <1>1, <1>13, <2>1 DEF ProbeStart, LockInv, TaskInv, Ids
  <2>3. QED
    BY <1>1, <2>1, <2>2 DEF LockInv, TaskInv, LockedWhileSpawning
<1>14. ASSUME (\E c \in chromes : Crash(c)) \/ UNCHANGED vars  PROVE LockInv'
  <2>1. UNCHANGED <<spawns, lock, prof, job, inst, killing, probe>>
    BY <1>14 DEF Crash, vars, taskVars, outside
  <2>2. QED
    BY <1>1, <2>1 DEF LockInv, TaskInv, LockedWhileSpawning
<1>15. QED
  BY <1>1, <1>2, <1>3, <1>4, <1>5, <1>6, <1>7, <1>8, <1>9, <1>10, <1>11, <1>12, <1>13, <1>14
  DEF Next, SpawnStep
-----------------------------------------------------------------------------
\* A step of the supervisor is a step of the limiter or leaves it alone.
LEMMA StepLimiter == [Next]_vars => [LP!Next]_(LP!vars)
<1> USE DEF LP!vars, LP!Next
<1>1. SUFFICES ASSUME [Next]_vars, ~UNCHANGED limiterVars
               PROVE  \E id \in Ids : \/ LP!AcquireNow(id) \/ LP!RejectFull(id) \/ LP!Enqueue(id)
                                      \/ LP!QueueTimeout(id) \/ LP!Resume(id) \/ LP!Release(id)
  BY DEF limiterVars
<1>2. PICK id \in Ids : Register(id) \/ QueueTimeout(id) \/ Resume(id) \/ LeaveLaunch(id)
  BY <1>1 DEF Next, vars, Spawn, EnsureRunning, SpawnStep, PrepareFails, Sweep, NoPortLeft,
     Rejected, StartProcess, LaunchReady, LaunchFails, RecordFails, AttemptFails, Relaunch,
     KillStart, KillFinish, Crash, ProbeStart, ProbeOk, ProbeFails
<1>3. CASE Register(id)
  <2>1. L!RejectFull(id) \/ L!Enqueue(id) \/ L!AcquireNow(id)
    BY <1>1, <1>3 DEF Register, Admit
  <2>2. LP!RejectFull(id) \/ LP!Enqueue(id) \/ LP!AcquireNow(id)
    BY <2>1 DEF L!RejectFull, L!Enqueue, L!AcquireNow, L!SlotFree, L!QueueFull, L!Enter,
       LP!RejectFull, LP!Enqueue, LP!AcquireNow, LP!SlotFree, LP!QueueFull, LP!Enter
  <2>3. QED
    BY <2>2
<1>4. CASE QueueTimeout(id)
  <2>1. LP!QueueTimeout(id)
    BY <1>4 DEF QueueTimeout, L!QueueTimeout, L!Without, LP!QueueTimeout, LP!Without
  <2>2. QED
    BY <2>1
<1>5. CASE Resume(id)
  <2>1. LP!Resume(id)
    BY <1>5 DEF Resume, L!Resume, L!Enter, LP!Resume, LP!Enter
  <2>2. QED
    BY <2>1
<1>6. CASE LeaveLaunch(id)
  <2>1. LP!Release(id)
    BY <1>6 DEF LeaveLaunch, GiveBack, L!Release, L!HandOver, LP!Release, LP!HandOver
  <2>2. QED
    BY <2>1
<1>7. QED
  BY <1>2, <1>3, <1>4, <1>5, <1>6

\* What the slots need to know of the limiter.
LEMMA HeadWaits ==
    ASSUME LP!IInv
    PROVE  /\ phase \in [Ids -> L!Phases]
           /\ waiters # <<>> => Head(waiters) \in Ids /\ phase[Head(waiters)] = "waiting"
<1>1. phase \in [Ids -> L!Phases] /\ waiters \in Seq(Ids)
  BY DEF LP!IInv, LP!TypeOK, L!Phases, LP!Phases
<1>2. ASSUME waiters # <<>>  PROVE Head(waiters) \in Ids /\ phase[Head(waiters)] = "waiting"
  <2>1. 1 \in DOMAIN waiters /\ Head(waiters) = waiters[1]
    BY <1>1, <1>2
  <2>2. waiters[1] \in LP!In("waiting")
    BY <2>1 DEF LP!IInv, LP!QueueHoldsPendingWaiters
  <2>3. QED
    BY <2>1, <2>2 DEF LP!In
<1>3. QED
  BY <1>1, <1>2

SlotInv == LockInv /\ SlotsMatchLaunches /\ LP!IInv

\* The two conjuncts of SlotsMatchLaunches for one spawn.
Slot(ph, j) ==
    /\ ph = "holding" <=> j \in InLaunch
    /\ ph \in {"waiting", "granted"} <=> j = "queued"

\* A step that moves one spawn, and no phase but its own.
LEMMA OneSlot ==
    ASSUME SlotInv, NEW id \in Ids, NEW at, NEW ph,
           job' = [job EXCEPT ![id] = at], phase' = [phase EXCEPT ![id] = ph], Slot(ph, at)
    PROVE  SlotsMatchLaunches'
BY HeadWaits DEF SlotInv, LockInv, TaskInv, SlotsMatchLaunches, Slot

LEMMA SamePhase ==
    ASSUME SlotInv, UNCHANGED phase, NEW id \in Ids
    PROVE  phase' = [phase EXCEPT ![id] = phase[id]]
BY HeadWaits DEF SlotInv

LEMMA StepSlots == SlotInv /\ [Next]_vars => SlotsMatchLaunches'
<1>1. SUFFICES ASSUME SlotInv, [Next]_vars  PROVE SlotsMatchLaunches'
  OBVIOUS
<1>2. /\ phase \in [Ids -> L!Phases] /\ job \in [Ids -> {"none", "done"} \cup Busy]
      /\ \A i \in Ids : Slot(phase[i], job[i])
  BY <1>1, HeadWaits DEF SlotInv, LockInv, TaskInv, SlotsMatchLaunches, Slot
<1>3. ASSUME NEW id \in Ids, NEW at, job' = [job EXCEPT ![id] = at], UNCHANGED phase,
             at \in InLaunch <=> job[id] \in InLaunch, at = "queued" <=> job[id] = "queued"
      PROVE  SlotsMatchLaunches'
  <2>1. Slot(phase[id], at)
    BY <1>2, <1>3 DEF Slot
  <2>2. QED
    BY <1>1, <1>3, <2>1, SamePhase, OneSlot
<1>4. ASSUME NEW p, NEW port, Begin(p, port), UNCHANGED phase  PROVE SlotsMatchLaunches'
  <2>1. spawns + 1 \in Ids /\ job' = [job EXCEPT ![spawns + 1] = "preparing"]
    BY <1>1, <1>4, SupervisorAssumption DEF Begin, Goto, SlotInv, LockInv, TaskInv, Ids
  <2>2. job[spawns + 1] = "none"
    BY <1>1, <2>1 DEF SlotInv, LockInv, TaskInv, Ids
  <2>3. QED
    BY <1>3, <1>4, <2>1, <2>2 DEF InLaunch
<1>5. CASE \E p \in Profiles : Spawn(p)
  BY <1>4, <1>5 DEF Spawn, limiterVars
<1>6. CASE \E id \in Ids : EnsureRunning(id)
  BY <1>4, <1>6 DEF EnsureRunning, limiterVars
<1>7. ASSUME NEW id \in Ids, PrepareFails(id) \/ Sweep(id) \/ NoPortLeft(id) \/ Rejected(id)
             \/ StartProcess(id) \/ LaunchReady(id) \/ LaunchFails(id) \/ RecordFails(id) \/ Relaunch(id)
      PROVE  SlotsMatchLaunches'
  <2>1. PICK at : /\ job' = [job EXCEPT ![id] = at] /\ UNCHANGED phase
                  /\ at \in InLaunch <=> job[id] \in InLaunch
                  /\ at = "queued" <=> job[id] = "queued"
    BY <1>7 DEF PrepareFails, Sweep, NoPortLeft, Rejected, StartProcess, LaunchReady, LaunchFails,
       RecordFails, AttemptFails, Relaunch, Finish, Goto, InLaunch, limiterVars
  <2>2. QED
    BY <1>3, <2>1
<1>8. ASSUME NEW id \in Ids, Register(id)  PROVE SlotsMatchLaunches'
  <2>1. job[id] = "swept" /\ \E port \in GivenPorts(id) \cup {nextPort} : Admit(id, port)
    BY <1>8 DEF Register
  <2>2. PICK port : Admit(id, port)
    BY <2>1
  <2>3. CASE UNCHANGED limiterVars /\ Goto(id, "rejecting")
    BY <1>3, <2>1, <2>3 DEF Goto, limiterVars, InLaunch
  <2>4. CASE L!RejectFull(id) /\ Goto(id, "rejecting")
    <3>1. Slot("refused", "rejecting")
      BY DEF Slot, InLaunch
    <3>2. QED
      BY <1>1, <2>4, <3>1, OneSlot DEF Goto, L!RejectFull
  <2>5. CASE L!Enqueue(id) /\ Goto(id, "queued")
    <3>1. Slot("waiting", "queued")
      BY DEF Slot, InLaunch
    <3>2. QED
      BY <1>1, <2>5, <3>1, OneSlot DEF Goto, L!Enqueue
  <2>6. CASE L!AcquireNow(id) /\ Goto(id, "launching")
    <3>1. Slot("holding", "launching")
      BY DEF Slot, InLaunch
    <3>2. QED
      BY <1>1, <2>6, <3>1, OneSlot DEF Goto, L!AcquireNow, L!Enter
  <2>7. QED
    BY <2>2, <2>3, <2>4, <2>5, <2>6 DEF Admit
<1>9. ASSUME NEW id \in Ids, QueueTimeout(id)  PROVE SlotsMatchLaunches'
  <2>1. Slot("refused", "rejecting")
    BY DEF Slot, InLaunch
  <2>2. QED
    BY <1>1, <1>9, <2>1, OneSlot DEF QueueTimeout, Goto, L!QueueTimeout
<1>10. ASSUME NEW id \in Ids, Resume(id)  PROVE SlotsMatchLaunches'
  <2>1. Slot("holding", "launching")
    BY DEF Slot, InLaunch
  <2>2. QED
    BY <1>1, <1>10, <2>1, OneSlot DEF Resume, Goto, L!Resume, L!Enter
<1>11. ASSUME NEW id \in Ids, LeaveLaunch(id)  PROVE SlotsMatchLaunches'
  <2>1. /\ job' = [job EXCEPT ![id] = "done"]
        /\ L!HandOver(id) /\ phase[id] = "holding"
    BY <1>11 DEF LeaveLaunch, Finish, Goto, GiveBack, L!Release
  <2>2. Slot("idle", "done")
    BY DEF Slot, InLaunch
  <2>3. CASE waiters = <<>>
    BY <1>1, <2>1, <2>2, <2>3, OneSlot DEF L!HandOver
  <2>4. CASE waiters # <<>>
    <3> DEFINE w == Head(waiters)
    <3>1. w \in Ids /\ phase[w] = "waiting" /\ w # id
      BY <1>1, <2>1, <2>4, HeadWaits DEF SlotInv
    <3>2. phase' = [phase EXCEPT ![id] = "idle", ![w] = "granted"]
      BY <2>1, <2>4 DEF L!HandOver
    <3> HIDE DEF w
    <3>3. Slot("granted", job[w]) /\ job'[w] = job[w]
      BY <1>2, <2>1, <3>1 DEF Slot
    <3>4. \A i \in Ids : phase'[i] = IF i = w THEN "granted" ELSE IF i = id THEN "idle" ELSE phase[i]
      BY <1>2, <3>1, <3>2
    <3>5. \A i \in Ids : job'[i] = IF i = id THEN "done" ELSE job[i]
      BY <1>2, <2>1
    <3>6. \A i \in Ids : Slot(phase'[i], job'[i])
      BY <1>2, <2>2, <3>1, <3>3, <3>4, <3>5
    <3>7. QED
      BY <3>6 DEF SlotsMatchLaunches, Slot
  <2>5. QED
    BY <2>3, <2>4
<1>12. ASSUME \/ \E id \in Ids : KillStart(id) \/ ProbeStart(id) \/ ProbeOk(id) \/ ProbeFails(id)
              \/ KillFinish \/ (\E c \in chromes : Crash(c)) \/ UNCHANGED vars
       PROVE  SlotsMatchLaunches'
  <2>1. UNCHANGED <<job, phase>>
    BY <1>12 DEF KillStart, ProbeStart, ProbeOk, ProbeFails, KillFinish, Crash, vars, taskVars, limiterVars
  <2>2. QED
    BY <1>1, <2>1 DEF SlotInv, SlotsMatchLaunches
<1>13. QED
  BY <1>1, <1>5, <1>6, <1>7, <1>8, <1>9, <1>10, <1>11, <1>12 DEF Next, SpawnStep
-----------------------------------------------------------------------------
LEMMA LimiterConstants == LP!LimiterAssumption
<1>1. IsFiniteSet(Ids)
  BY SupervisorAssumption, FS_Interval DEF Ids
<1>2. LP!IsFiniteSet(Ids)
  BY <1>1 DEF IsFiniteSet, LP!IsFiniteSet
<1>3. QED
  BY <1>2, SupervisorAssumption DEF LP!LimiterAssumption

LEMMA SlotInvariant == Spec => []SlotInv
<1>1. Init => SlotInv
  <2>1. SUFFICES ASSUME Init  PROVE SlotInv
    OBVIOUS
  <2>2. LP!Init
    BY <2>1 DEF Init, L!Init, LP!Init
  <2>3. LP!IInv
    BY <2>2, LimiterConstants, LP!InitIInv
  <2>4. SlotsMatchLaunches
    BY <2>1 DEF Init, L!Init, SlotsMatchLaunches, InLaunch
  <2>5. QED
    BY <2>1, <2>3, <2>4, InitLock DEF SlotInv
<1>2. SlotInv /\ [Next]_vars => SlotInv'
  <2>1. SUFFICES ASSUME SlotInv, [Next]_vars  PROVE SlotInv'
    OBVIOUS
  <2>2. LP!IInv'
    BY <2>1, StepLimiter, LimiterConstants, LP!StepIInv DEF SlotInv
  <2>3. LockInv'
    BY <2>1, StepLock DEF SlotInv
  <2>4. QED
    BY <2>1, <2>2, <2>3, StepSlots DEF SlotInv
<1>3. QED
  BY <1>1, <1>2, PTL DEF Spec

\* The profile lock is a mutex that no exit path leaks.
THEOREM SpawnLocksAreExact == Spec => []LockedWhileSpawning
<1>1. SlotInv => LockedWhileSpawning
  BY DEF SlotInv, LockInv
<1>2. QED
  BY <1>1, SlotInvariant, PTL

\* Every slot taken is given back, once, on every path.
THEOREM SpawnSlotsAreExact == Spec => []SlotsMatchLaunches
<1>1. SlotInv => SlotsMatchLaunches
  BY DEF SlotInv
<1>2. QED
  BY <1>1, SlotInvariant, PTL

\* While a spawn waits in the queue, as many launches are in progress, or just
\* woken, as there are slots: failed attempts, backoffs and rejections included.
NoIdleSlotWhileQueued ==
    (\E id \in Ids : phase[id] = "waiting") =>
        Cardinality({id \in Ids : job[id] \in InLaunch})
          + Cardinality({id \in Ids : phase[id] = "granted"}) >= MaxConcurrent

\* A spawn waits only as long as the launches really fill the slots.
THEOREM QueuedSpawnsFindNoSlot == Spec => []NoIdleSlotWhileQueued
<1>1. SlotInv => NoIdleSlotWhileQueued
  <2> SUFFICES ASSUME SlotInv, NEW id \in Ids, phase[id] = "waiting"
               PROVE  Cardinality({i \in Ids : job[i] \in InLaunch})
                        + Cardinality({i \in Ids : phase[i] = "granted"}) >= MaxConcurrent
    BY DEF NoIdleSlotWhileQueued
  <2>1. LP!ActiveCountsHolders /\ LP!QueueHoldsPendingWaiters /\ LP!NoIdleSlotWhileWaiting
    BY DEF SlotInv, LP!IInv
  <2>2. waiters # <<>>
    BY <2>1 DEF LP!QueueHoldsPendingWaiters, LP!In
  <2>3. /\ LP!In("holding") = {i \in Ids : job[i] \in InLaunch}
        /\ LP!In("granted") = {i \in Ids : phase[i] = "granted"}
    BY DEF SlotInv, SlotsMatchLaunches, LP!In
  <2>4. \A S : LP!Cardinality(S) = Cardinality(S)
    BY DEF LP!Cardinality, Cardinality, LP!IsFiniteSet, IsFiniteSet
  <2>5. QED
    BY <2>1, <2>2, <2>3, <2>4 DEF LP!ActiveCountsHolders, LP!NoIdleSlotWhileWaiting
<1>2. QED
  BY <1>1, SlotInvariant, PTL

\* The promise of SpawnAdmission holds of the spawns, not only of callers that
\* use the limiter as it asks to be used.
THEOREM SpawnsAreAdmitted == Spec => LP!ImplementsPromise
<1>1. Init => LP!Promise!Init
  BY DEF Init, L!Init, LP!Promise!Init
<1>2. SlotInv /\ [Next]_vars => [LP!Promise!Next]_phase
  BY StepLimiter, LimiterConstants, LP!StepPromise DEF SlotInv
<1>3. QED
  BY <1>1, <1>2, SlotInvariant, PTL DEF Spec, LP!ImplementsPromise, LP!Promise!Spec
-----------------------------------------------------------------------------
\* Between its sweep and its end a spawn has the directory to itself.
Swept == {"swept", "queued"} \cup InLaunch

DirInv ==
    /\ \A c \in chromes : /\ c.pid[1] \in Ids /\ c.pid[1] <= spawns
                          /\ c.prof = prof[c.pid[1]]
    /\ \A id \in Ids : job[id] \in Swept =>
          \A c \in chromes : c.prof = prof[id] => c.pid[1] = id
    /\ OneSpawnPerProfileDir

\* A step that starts no process and completes no sweep.
LEMMA NoNewChrome ==
    ASSUME LockInv, DirInv, chromes' \subseteq chromes,
           spawns' \in Nat, spawns <= spawns',
           \A id \in Ids : id <= spawns => prof'[id] = prof[id],
           \A id \in Ids : job'[id] \in Swept => job[id] \in Swept
    PROVE  DirInv'
<1>1. spawns \in Nat /\ \A id \in Ids : id \in Nat /\ (job[id] \in Swept => id <= spawns)
  BY DEF LockInv, TaskInv, Swept, InLaunch, Ids
<1>2. \A c \in chromes' : c.pid[1] \in Ids /\ c.pid[1] <= spawns' /\ c.prof = prof'[c.pid[1]]
  BY <1>1 DEF DirInv
<1>3. ASSUME NEW id \in Ids, job'[id] \in Swept, NEW c \in chromes', c.prof = prof'[id]
      PROVE  c.pid[1] = id
  BY <1>1, <1>3 DEF DirInv
<1>4. OneSpawnPerProfileDir'
  BY DEF DirInv, OneSpawnPerProfileDir
<1>5. QED
  BY <1>2, <1>3, <1>4 DEF DirInv

LEMMA StepDir == ASSUME Windows  PROVE LockInv /\ DirInv /\ [Next]_vars => DirInv'
<1>1. SUFFICES ASSUME LockInv, DirInv, [Next]_vars  PROVE DirInv'
  OBVIOUS
<1>2. spawns \in Nat /\ job \in [Ids -> {"none", "done"} \cup Busy]
  BY <1>1 DEF LockInv, TaskInv
<1>3. ASSUME UNCHANGED <<spawns, prof>>, chromes' \subseteq chromes,
             \A id \in Ids : job'[id] \in Swept => job[id] \in Swept
      PROVE  DirInv'
  BY <1>1, <1>2, <1>3, NoNewChrome
<1>4. ASSUME NEW p, NEW port, Begin(p, port), UNCHANGED chromes  PROVE DirInv'
  <2>1. /\ spawns' = spawns + 1 /\ prof' = [prof EXCEPT ![spawns + 1] = p]
        /\ job' = [job EXCEPT ![spawns + 1] = "preparing"]
    BY <1>4 DEF Begin, Goto
  <2>2. \A id \in Ids : id <= spawns => prof'[id] = prof[id]
    BY <1>1, <1>2, <2>1 DEF LockInv, TaskInv, Ids
  <2>3. \A id \in Ids : job'[id] \in Swept => job[id] \in Swept
    BY <1>2, <2>1 DEF Swept, InLaunch
  <2>4. QED
    BY <1>1, <1>2, <1>4, <2>1, <2>2, <2>3, NoNewChrome
<1>5. CASE \E p \in Profiles : Spawn(p)
  BY <1>4, <1>5 DEF Spawn
<1>6. CASE \E id \in Ids : EnsureRunning(id)
  BY <1>4, <1>6 DEF EnsureRunning
<1>7. ASSUME NEW id \in Ids, Sweep(id)  PROVE DirInv'
  <2>1. /\ job[id] = "preparing" /\ job' = [job EXCEPT ![id] = "swept"] /\ UNCHANGED <<spawns, prof>>
        /\ chromes' = {c \in chromes : c.prof \notin DirHits[prof[id]]}
    BY <1>7 DEF Sweep, Goto, Survivors
  <2>2. prof[id] \in Profiles
    BY <1>1, <2>1 DEF LockInv, TaskInv
  <2>3. \A c \in chromes' : c \in chromes /\ c.prof # prof[id]
    BY <2>1, <2>2, SupervisorAssumption
  <2>4. \A i \in Ids \ {id} : job'[i] = job[i]
    BY <1>2, <2>1
  <2>5. QED
    BY <1>1, <2>1, <2>3, <2>4 DEF DirInv, OneSpawnPerProfileDir
<1>8. ASSUME NEW id \in Ids, StartProcess(id)  PROVE DirInv'
  <2>0. PICK port : chromes' = chromes \cup {[pid |-> <<id, attempt[id]>>, prof |-> prof[id], port |-> port]}
    BY <1>8 DEF StartProcess
  <2> DEFINE new == [pid |-> <<id, attempt[id]>>, prof |-> prof[id], port |-> port]
  <2>1. /\ job[id] = "launching" /\ job' = [job EXCEPT ![id] = "booting"]
        /\ UNCHANGED <<spawns, prof>> /\ chromes' = chromes \cup {new}
    BY <1>8, <2>0 DEF StartProcess, Goto
  <2>2. new.pid[1] = id /\ new.prof = prof[id]
    OBVIOUS
  <2> HIDE DEF new
  <2>3. id <= spawns /\ job[id] \in Swept /\ job[id] \in Busy /\ lock[prof[id]] = id
    BY <1>1, <2>1 DEF LockInv, TaskInv, LockedWhileSpawning, Swept, Busy, InLaunch
  <2>4. \A i \in Ids : job'[i] \in Swept => job[i] \in Swept /\ job[i] \in Busy
    BY <1>2, <2>1, <2>3 DEF Swept, Busy, InLaunch
  <2>5. \A i \in Ids : job'[i] \in Swept /\ prof[i] = prof[id] => i = id
    BY <1>1, <2>3, <2>4 DEF LockInv, LockedWhileSpawning
  <2>6. \A c \in chromes : c.prof = prof[id] => c.pid[1] = id
    BY <1>1, <2>3 DEF DirInv
  <2>7. OneSpawnPerProfileDir'
    BY <1>1, <2>1, <2>2, <2>6 DEF DirInv, OneSpawnPerProfileDir
  <2>8. \A c \in chromes' : c.pid[1] \in Ids /\ c.pid[1] <= spawns /\ c.prof = prof[c.pid[1]]
    BY <1>1, <2>1, <2>2, <2>3 DEF DirInv
  <2>9. ASSUME NEW i \in Ids, job'[i] \in Swept, NEW c \in chromes', c.prof = prof[i]
        PROVE  c.pid[1] = i
    BY <1>1, <2>1, <2>2, <2>4, <2>5, <2>9 DEF DirInv
  <2>10. QED
    BY <2>1, <2>7, <2>8, <2>9 DEF DirInv
<1>9. ASSUME NEW id \in Ids, PrepareFails(id) \/ NoPortLeft(id) \/ Register(id) \/ QueueTimeout(id)
             \/ Resume(id) \/ Rejected(id) \/ LaunchReady(id) \/ LaunchFails(id) \/ RecordFails(id)
             \/ Relaunch(id) \/ LeaveLaunch(id)
      PROVE  DirInv'
  <2>1. PICK at : job' = [job EXCEPT ![id] = at] /\ (at \in Swept => job[id] \in Swept)
    BY <1>9 DEF PrepareFails, NoPortLeft, Register, Admit, QueueTimeout, Resume, Rejected,
       LaunchReady, LaunchFails, RecordFails, AttemptFails, Relaunch, LeaveLaunch, Finish, Goto,
       Swept, InLaunch
  <2>2. UNCHANGED <<spawns, prof>> /\ chromes' \subseteq chromes
    BY <1>9 DEF PrepareFails, NoPortLeft, Register, QueueTimeout, Resume, Rejected,
       LaunchReady, LaunchFails, RecordFails, AttemptFails, Relaunch, LeaveLaunch, Finish
  <2>3. QED
    BY <1>2, <1>3, <2>1, <2>2
<1>10. ASSUME \/ \E id \in Ids : KillStart(id) \/ ProbeStart(id) \/ ProbeOk(id) \/ ProbeFails(id)
              \/ KillFinish \/ (\E c \in chromes : Crash(c)) \/ UNCHANGED vars
       PROVE  DirInv'
  <2>1. UNCHANGED <<spawns, prof, job>> /\ chromes' \subseteq chromes
    BY <1>10 DEF KillStart, ProbeStart, ProbeOk, ProbeFails, KillFinish, Crash, vars, taskVars
  <2>2. QED
    BY <1>3, <2>1
<1>11. QED
  BY <1>1, <1>5, <1>6, <1>7, <1>8, <1>9, <1>10 DEF Next, SpawnStep

\* Where the sweep finds anything (on Windows), no two spawns ever have a
\* Chrome on one profile directory, whatever is killed, probed or crashes.
THEOREM SweptDirsAreExclusive == ASSUME Windows  PROVE Spec => []OneSpawnPerProfileDir
<1>1. Init => LockInv /\ DirInv
  <2>1. Init => DirInv
    BY DEF Init, DirInv, OneSpawnPerProfileDir, Swept, InLaunch
  <2>2. QED
    BY <2>1, InitLock
<1>2. (LockInv /\ DirInv) /\ [Next]_vars => (LockInv /\ DirInv)'
  BY StepLock, StepDir
<1>3. LockInv /\ DirInv => OneSpawnPerProfileDir
  BY DEF DirInv
<1>4. QED
  BY <1>1, <1>2, <1>3, PTL DEF Spec
-----------------------------------------------------------------------------
(***************************************************************************)
(* The circuits.  The lazy half_open step keeps the failures, so the next  *)
(* failure opens the circuit again, and only a success closes it.          *)
(***************************************************************************)
CircuitInv ==
    /\ circuit \in [Ids -> [state : {"closed", "open", "half_open"}, failures : 0..Threshold]]
    /\ ClosedCircuitBelowThreshold

LEMMA AgedCircuit ==
    ASSUME CircuitInv, NEW id \in Ids, NEW cb \in Aged(circuit[id])
    PROVE  /\ cb \in [state : {"closed", "open", "half_open"}, failures : 0..Threshold]
           /\ cb.failures = circuit[id].failures
           /\ cb.state = "closed" => cb.failures < Threshold
  BY DEF CircuitInv, ClosedCircuitBelowThreshold, Aged

LEMMA OneCircuit ==
    ASSUME CircuitInv, NEW id \in Ids,
           NEW cb \in [state : {"closed", "open", "half_open"}, failures : 0..Threshold],
           cb.state = "closed" => cb.failures < Threshold,
           circuit' = [circuit EXCEPT ![id] = cb]
    PROVE  CircuitInv'
  BY DEF CircuitInv, ClosedCircuitBelowThreshold

LEMMA StepCircuit == CircuitInv /\ [Next]_vars => CircuitInv'
<1> SUFFICES ASSUME CircuitInv, [Next]_vars  PROVE CircuitInv'
  OBVIOUS
<1>1. Threshold \in Nat \ {0} /\ 0 \in 0..Threshold /\ 0 < Threshold
  BY SupervisorAssumption
<1>2. ASSUME UNCHANGED circuit  PROVE CircuitInv'
  BY <1>2 DEF CircuitInv, ClosedCircuitBelowThreshold
<1>3. ASSUME NEW id \in Ids, EnsureRunning(id)  PROVE CircuitInv'
  <2>1. CASE UNCHANGED circuit
    BY <1>2, <2>1
  <2>2. CASE \E cb \in Aged(circuit[id]) : circuit' = [circuit EXCEPT ![id] = cb]
    BY <2>2, AgedCircuit, OneCircuit
  <2>3. QED
    BY <1>3, <2>1, <2>2 DEF EnsureRunning
<1>4. ASSUME NEW id \in Ids, ProbeOk(id)  PROVE CircuitInv'
  <2>1. PICK cb \in Aged(circuit[id]) :
           circuit' = [circuit EXCEPT ![id] =
              [state |-> IF cb.state = "half_open" THEN "closed" ELSE cb.state, failures |-> 0]]
    BY <1>4 DEF ProbeOk
  <2>2. QED
    BY <1>1, <2>1, AgedCircuit, OneCircuit
<1>5. ASSUME NEW id \in Ids, ProbeFails(id)  PROVE CircuitInv'
  <2>1. PICK cb \in Aged(circuit[id]) :
           LET failures == Upto(cb.failures + 1, Threshold)
           IN  circuit' = [circuit EXCEPT ![id] =
                 [state |-> IF Trips(failures) THEN "open" ELSE cb.state, failures |-> failures]]
    BY <1>5 DEF ProbeFails
  <2> DEFINE failures == Upto(cb.failures + 1, Threshold)
  <2>2. failures \in 0..Threshold /\ (~Trips(failures) => failures < Threshold)
    BY <1>1, AgedCircuit DEF Upto, Trips
  <2>3. QED
    BY <2>1, <2>2, AgedCircuit, OneCircuit
<1>6. ASSUME NEW id \in Ids, SpawnStep(id)  PROVE UNCHANGED circuit
  BY <1>6 DEF SpawnStep, PrepareFails, Sweep, NoPortLeft, Register, QueueTimeout, Resume, Rejected,
     StartProcess, LaunchReady, LaunchFails, RecordFails, AttemptFails, Relaunch, LeaveLaunch
<1>7. CASE \/ (\E p \in Profiles : Spawn(p)) \/ KillFinish \/ (\E c \in chromes : Crash(c))
           \/ (\E id \in Ids : KillStart(id) \/ ProbeStart(id)) \/ UNCHANGED vars
  BY <1>2, <1>7 DEF Spawn, KillFinish, Crash, KillStart, ProbeStart, vars
<1>8. QED
  BY <1>2, <1>3, <1>4, <1>5, <1>6, <1>7 DEF Next

\* However failures, successes and reset times alternate, a circuit with
\* Threshold failures in a row is not closed.
THEOREM TrippedCircuitsAreNotClosed == Spec => []ClosedCircuitBelowThreshold
<1>1. Init => CircuitInv
  BY SupervisorAssumption DEF Init, CircuitInv, ClosedCircuitBelowThreshold
<1>2. CircuitInv => ClosedCircuitBelowThreshold
  BY DEF CircuitInv
<1>3. QED
  BY <1>1, <1>2, StepCircuit, PTL DEF Spec
-----------------------------------------------------------------------------
(***************************************************************************)
(* Types.  A retry has attempts left, so an attempt never passes the limit *)
(* and a pid names one; and the port freePort() hands out is one of those  *)
(* it tried, or the first of them when all are taken.                      *)
(***************************************************************************)
Instance == [status : {"none", "stopped", "error"} \cup Live,
             pid : Pids \cup {NoPid}, port : Nat, fails : 0..MaxRestarts]
Chrome == [pid : Pids, prof : Profiles, port : Nat]

InstInv == inst \in [Ids -> Instance]

AttemptInv ==
    /\ attempt \in [Ids -> 0..RetryLimit]
    /\ \A id \in Ids : job[id] = "retrying" => attempt[id] < RetryLimit

RestInv ==
    /\ ask \in [Ids -> Nat] /\ dial \in [Ids -> Nat] /\ nextPort \in 1..(MaxPort + 1)
    /\ chromes \subseteq Chrome
    /\ killing \in Pids \cup {NoPid}
    /\ probe \in [id : 0..MaxSpawns, ok : BOOLEAN] /\ events \in 0..MaxEvents

TypesInv == InstInv /\ AttemptInv /\ RestInv

LEMMA FreePort ==
    ASSUME NEW start \in Nat, NEW busy
    PROVE  FreeFrom(start, busy) \in Nat
<1> DEFINE free == (start..(start + Span - 1)) \ busy
<1>1. free \subseteq Nat
  BY SupervisorAssumption
<1>2. CASE free = {}
  BY <1>2 DEF FreeFrom
<1>3. CASE free # {}
  <2>1. FreeFrom(start, busy) = CHOOSE n \in free : \A k \in free : n <= k
    BY <1>3 DEF FreeFrom
  <2> HIDE DEF free
  <2>2. PICK m \in free : \A k \in free : <<k, m>> \notin OpToRel(<, Nat)
    BY <1>1, <1>3, NatLessThanWellFounded, WFMin
  <2>3. \A k \in free : ~ (k < m)
    BY <1>1, <2>2 DEF OpToRel
  <2>4. \A k \in free : m <= k
    BY <1>1, <2>3
  <2>5. (CHOOSE n \in free : \A k \in free : n <= k) \in free
    BY <2>4
  <2>6. QED
    BY <1>1, <2>1, <2>5
<1>4. QED
  BY <1>2, <1>3

\* Writing a field, or two, keeps an instance well typed.
LEMMA StatusTyped ==
    ASSUME NEW f \in [Ids -> Instance], NEW id \in Ids,
           NEW s \in {"none", "stopped", "error"} \cup Live
    PROVE  [f EXCEPT ![id].status = s] \in [Ids -> Instance]
<1>1. [f[id] EXCEPT !.status = s] \in Instance
  BY DEF Instance
<1>2. QED
  BY <1>1

LEMMA FailsTyped ==
    ASSUME NEW f \in [Ids -> Instance], NEW id \in Ids, NEW n \in 0..MaxRestarts
    PROVE  [f EXCEPT ![id].fails = n] \in [Ids -> Instance]
<1>1. [f[id] EXCEPT !.fails = n] \in Instance
  BY DEF Instance
<1>2. QED
  BY <1>1

LEMMA NoPidTyped ==
    ASSUME NEW f \in [Ids -> Instance], NEW id \in Ids
    PROVE  [f EXCEPT ![id].pid = NoPid] \in [Ids -> Instance]
<1>1. [f[id] EXCEPT !.pid = NoPid] \in Instance
  BY DEF Instance
<1>2. QED
  BY <1>1

LEMMA FieldsTyped ==
    ASSUME InstInv, NEW id \in Ids, NEW s \in {"none", "stopped", "error"} \cup Live,
           NEW n \in 0..MaxRestarts,
           \/ inst' = [inst EXCEPT ![id].status = s]
           \/ inst' = [inst EXCEPT ![id].fails = n]
           \/ inst' = [inst EXCEPT ![id].fails = n, ![id].status = s]
           \/ inst' = [inst EXCEPT ![id].status = s, ![id].fails = n]
           \/ inst' = [inst EXCEPT ![id].status = s, ![id].pid = NoPid]
    PROVE  InstInv'
<1> DEFINE first == [inst EXCEPT ![id].status = s]
           failed == [inst EXCEPT ![id].fails = n]
<1>1. first \in [Ids -> Instance] /\ failed \in [Ids -> Instance]
  BY StatusTyped, FailsTyped DEF InstInv
<1>2. inst' \in {first, failed, [failed EXCEPT ![id].status = s],
                 [first EXCEPT ![id].fails = n], [first EXCEPT ![id].pid = NoPid]}
  OBVIOUS
<1> HIDE DEF first, failed
<1>3. /\ [failed EXCEPT ![id].status = s] \in [Ids -> Instance]
      /\ [first EXCEPT ![id].fails = n] \in [Ids -> Instance]
      /\ [first EXCEPT ![id].pid = NoPid] \in [Ids -> Instance]
  BY <1>1, StatusTyped, FailsTyped, NoPidTyped
<1>4. QED
  BY <1>1, <1>2, <1>3 DEF InstInv

LEMMA CountTyped ==
    ASSUME InstInv, NEW id \in Ids
    PROVE  Upto(inst[id].fails + 1, MaxRestarts) \in 0..MaxRestarts
<1>1. inst[id].fails \in 0..MaxRestarts /\ MaxRestarts \in Nat
  BY SupervisorAssumption DEF InstInv, Instance
<1>2. QED
  BY <1>1 DEF Upto

LEMMA EnrollTyped ==
    ASSUME InstInv, NEW id \in Ids, NEW port \in Nat, NEW s \in {"error", "starting"},
           Enroll(id, port, s)
    PROVE  InstInv'
<1>1. [status |-> s, pid |-> NoPid, port |-> port, fails |-> 0] \in Instance
  BY SupervisorAssumption DEF Instance, Live
<1>2. QED
  BY <1>1 DEF Enroll, InstInv

LEMMA StepInst == LockInv /\ TypesInv /\ [Next]_vars => InstInv'
<1> SUFFICES ASSUME LockInv, TypesInv, [Next]_vars  PROVE InstInv'
  OBVIOUS
<1>1. InstInv /\ 0 \in 0..MaxRestarts
  BY SupervisorAssumption DEF TypesInv
<1>2. ASSUME UNCHANGED inst  PROVE InstInv'
  BY <1>1, <1>2 DEF InstInv
<1>3. ASSUME NEW id \in Ids, PrepareFails(id) \/ Sweep(id) \/ NoPortLeft(id) \/ Resume(id)
             \/ Rejected(id) \/ StartProcess(id) \/ Relaunch(id) \/ LeaveLaunch(id)
             \/ EnsureRunning(id) \/ ProbeStart(id)
      PROVE  InstInv'
  BY <1>2, <1>3 DEF PrepareFails, Sweep, NoPortLeft, Resume, Rejected, StartProcess, Relaunch,
     LeaveLaunch, EnsureRunning, ProbeStart
<1>4. ASSUME NEW id \in Ids, Register(id)  PROVE InstInv'
  <2>1. PICK port \in Nat : Admit(id, port)
    <3>1. GivenPorts(id) \subseteq Nat
      <4>1. job[id] # "none"
        BY <1>4 DEF Register
      <4>2. prof[id] \in Profiles /\ ask[id] \in Nat
        BY <4>1 DEF LockInv, TaskInv, TypesInv, RestInv
      <4>3. QED
        BY <4>2, SupervisorAssumption DEF GivenPorts
    <3>2. nextPort \in Nat
      BY SupervisorAssumption DEF TypesInv, RestInv
    <3>3. QED
      BY <1>4, <3>1, <3>2 DEF Register
  <2>2. QED
    BY <1>1, <2>1, EnrollTyped DEF Admit
<1>5. ASSUME NEW id \in Ids, QueueTimeout(id) \/ KillStart(id)  PROVE InstInv'
  BY <1>1, <1>5, FieldsTyped DEF QueueTimeout, KillStart, SetStatus, Live
<1>6. ASSUME NEW id \in Ids, LaunchReady(id)  PROVE InstInv'
  <2> DEFINE r == [status |-> "running", pid |-> <<id, attempt[id]>>, port |-> dial[id], fails |-> 0]
  <2>1. inst' = [inst EXCEPT ![id] = r]
    BY <1>6 DEF LaunchReady
  <2>2. r \in Instance
    <3>1. <<id, attempt[id]>> \in Pids /\ dial[id] \in Nat
      BY DEF TypesInv, AttemptInv, RestInv, Pids
    <3>2. QED
      BY <1>1, <3>1 DEF Instance, Live
  <2> HIDE DEF r
  <2>3. QED
    BY <1>1, <2>1, <2>2 DEF InstInv
<1>7. ASSUME NEW id \in Ids, LaunchFails(id) \/ RecordFails(id)  PROVE InstInv'
  <2> DEFINE n == Upto(inst[id].fails + 1, MaxRestarts)
  <2>1. \/ inst' = [inst EXCEPT ![id].fails = n]
        \/ inst' = [inst EXCEPT ![id].fails = n, ![id].status = "error"]
    BY <1>7 DEF LaunchFails, RecordFails, AttemptFails
  <2>2. n \in 0..MaxRestarts
    BY <1>1, CountTyped
  <2> HIDE DEF n
  <2>3. QED
    BY <1>1, <2>1, <2>2, FieldsTyped
<1>8. ASSUME NEW id \in Ids, ProbeOk(id)  PROVE InstInv'
  BY <1>1, <1>8, FieldsTyped DEF ProbeOk, Live
<1>9. ASSUME NEW id \in Ids, ProbeFails(id)  PROVE InstInv'
  <2> DEFINE n == Upto(inst[id].fails + 1, MaxRestarts)
  <2>1. inst' = [inst EXCEPT ![id].status = "error", ![id].fails = n]
    BY <1>9 DEF ProbeFails
  <2>2. n \in 0..MaxRestarts
    BY <1>1, CountTyped
  <2> HIDE DEF n
  <2>3. QED
    BY <1>1, <2>1, <2>2, FieldsTyped
<1>10. CASE KillFinish
  <2>1. killing[1] \in Ids
    BY <1>10 DEF KillFinish, TypesInv, RestInv, Pids
  <2>2. QED
    BY <1>1, <1>10, <2>1, FieldsTyped DEF KillFinish
<1>11. CASE (\E p \in Profiles : Spawn(p)) \/ (\E c \in chromes : Crash(c)) \/ UNCHANGED vars
  BY <1>2, <1>11 DEF Spawn, Crash, vars
<1>12. QED
  BY <1>3, <1>4, <1>5, <1>6, <1>7, <1>8, <1>9, <1>10, <1>11 DEF Next, SpawnStep

\* Only the backoff after an attempt below the limit counts another one.
LEMMA StepAttempt == LockInv /\ AttemptInv /\ [Next]_vars => AttemptInv'
<1> SUFFICES ASSUME LockInv, AttemptInv, [Next]_vars  PROVE AttemptInv'
  OBVIOUS
<1>1. job \in [Ids -> {"none", "done"} \cup Busy]
  BY DEF LockInv, TaskInv
<1>2. ASSUME NEW i, NEW at, job' = [job EXCEPT ![i] = at], UNCHANGED attempt,
             at = "retrying" => attempt[i] < RetryLimit
      PROVE  AttemptInv'
  BY <1>1, <1>2 DEF AttemptInv
<1>3. ASSUME NEW p, NEW port, Begin(p, port)  PROVE AttemptInv'
  BY <1>2, <1>3 DEF Begin, Goto
<1>4. ASSUME NEW id \in Ids, Relaunch(id)  PROVE AttemptInv'
  <2>1. attempt[id] + 1 \in 0..RetryLimit
    BY <1>4, SupervisorAssumption DEF Relaunch, AttemptInv
  <2>2. attempt' = [attempt EXCEPT ![id] = attempt[id] + 1] /\ job' = [job EXCEPT ![id] = "launching"]
    BY <1>4 DEF Relaunch, NextAttempt, Goto
  <2>3. QED
    BY <1>1, <2>1, <2>2 DEF AttemptInv
<1>5. ASSUME NEW id \in Ids, SpawnStep(id), ~Relaunch(id)  PROVE AttemptInv'
  <2>1. PICK at : /\ job' = [job EXCEPT ![id] = at] /\ UNCHANGED attempt
                  /\ at = "retrying" => attempt[id] < RetryLimit
    BY <1>5 DEF SpawnStep, PrepareFails, Sweep, NoPortLeft, Register, Admit, QueueTimeout, Resume,
       Rejected, StartProcess, LaunchReady, LaunchFails, RecordFails, AttemptFails, LeaveLaunch,
       Finish, Goto
  <2>2. QED
    BY <1>2, <2>1
<1>6. ASSUME UNCHANGED <<job, attempt>>  PROVE AttemptInv'
  BY <1>6 DEF AttemptInv
<1>7. CASE (\E p \in Profiles : Spawn(p)) \/ (\E id \in Ids : EnsureRunning(id))
  BY <1>3, <1>7 DEF Spawn, EnsureRunning
<1>8. CASE \/ \E id \in Ids : KillStart(id) \/ ProbeStart(id) \/ ProbeOk(id) \/ ProbeFails(id)
           \/ KillFinish \/ (\E c \in chromes : Crash(c)) \/ UNCHANGED vars
  BY <1>6, <1>8 DEF KillStart, ProbeStart, ProbeOk, ProbeFails, KillFinish, Crash, vars, taskVars
<1>9. QED
  BY <1>4, <1>5, <1>7, <1>8 DEF Next

LEMMA StepRest == LockInv /\ TypesInv /\ [Next]_vars => RestInv'
<1> SUFFICES ASSUME LockInv, TypesInv, [Next]_vars  PROVE RestInv'
  OBVIOUS
<1>1. RestInv /\ InstInv
  BY DEF TypesInv
<1>2. ASSUME UNCHANGED <<ask, dial, nextPort, killing, probe, events>>, chromes' \subseteq chromes
      PROVE  RestInv'
  BY <1>1, <1>2 DEF RestInv
<1>3. ASSUME NEW p, NEW port \in Nat, Begin(p, port),
             UNCHANGED <<nextPort, killing, probe, events, chromes>>
      PROVE  RestInv'
  BY <1>1, <1>3 DEF Begin, RestInv
<1>4. CASE \E p \in Profiles : Spawn(p)
  BY <1>3, <1>4 DEF Spawn, outside
<1>5. ASSUME NEW id \in Ids, EnsureRunning(id)  PROVE RestInv'
  <2>1. inst[id].port \in Nat
    BY <1>1 DEF InstInv, Instance
  <2>2. QED
    BY <1>3, <1>5, <2>1 DEF EnsureRunning, outside
<1>6. ASSUME NEW id \in Ids, Register(id)  PROVE RestInv'
  <2>1. nextPort' \in {nextPort, nextPort + 1} /\ (nextPort' # nextPort => PortsLeft)
        /\ ask' = [ask EXCEPT ![id] = inst'[id].port]
        /\ UNCHANGED <<dial, killing, probe, events, chromes>>
    BY <1>6 DEF Register, outside
  <2>2. nextPort' \in 1..(MaxPort + 1)
    BY <1>1, <2>1, SupervisorAssumption DEF PortsLeft, RestInv
  <2>3. inst'[id].port \in Nat
    BY StepInst DEF InstInv, Instance
  <2>4. ask' \in [Ids -> Nat]
    BY <1>1, <2>1, <2>3 DEF RestInv
  <2>5. QED
    BY <1>1, <2>1, <2>2, <2>4 DEF RestInv
<1>7. ASSUME NEW id \in Ids, StartProcess(id)  PROVE RestInv'
  <2>1. ask[id] \in Nat /\ ask[id] + 1 \in Nat
    BY <1>1 DEF RestInv
  <2>2. PICK port \in Nat : /\ dial' = [dial EXCEPT ![id] = port]
                            /\ chromes' = chromes \cup
                                 {[pid |-> <<id, attempt[id]>>, prof |-> prof[id], port |-> port]}
    BY <1>7, <2>1, FreePort DEF StartProcess
  <2>3. UNCHANGED <<ask, nextPort, killing, probe, events>>
    BY <1>7 DEF StartProcess, outside
  <2>4. prof[id] \in Profiles
    BY <1>7 DEF StartProcess, LockInv, TaskInv
  <2>5. <<id, attempt[id]>> \in Pids
    BY DEF TypesInv, AttemptInv, Pids
  <2>6. chromes' \subseteq Chrome
    BY <1>1, <2>2, <2>4, <2>5 DEF RestInv, Chrome
  <2>7. dial' \in [Ids -> Nat]
    BY <1>1, <2>2 DEF RestInv
  <2>8. QED
    BY <1>1, <2>3, <2>6, <2>7 DEF RestInv
<1>8. ASSUME NEW id \in Ids, PrepareFails(id) \/ Sweep(id) \/ NoPortLeft(id) \/ QueueTimeout(id)
             \/ Resume(id) \/ Rejected(id) \/ LaunchReady(id) \/ LaunchFails(id) \/ RecordFails(id)
             \/ Relaunch(id) \/ LeaveLaunch(id)
      PROVE  RestInv'
  <2>1. /\ ask' = ask \/ ask' = [ask EXCEPT ![id] = 0]
        /\ dial' = dial \/ dial' = [dial EXCEPT ![id] = 0]
    BY <1>8 DEF PrepareFails, Sweep, NoPortLeft, QueueTimeout, Resume, Rejected,
       LaunchReady, LaunchFails, RecordFails, AttemptFails, Relaunch, LeaveLaunch, Finish
  <2>2. chromes' \subseteq chromes /\ UNCHANGED <<nextPort, killing, probe, events>>
    BY <1>8 DEF PrepareFails, Sweep, Survivors, NoPortLeft, QueueTimeout, Resume, Rejected,
       LaunchReady, LaunchFails, RecordFails, AttemptFails, Relaunch, LeaveLaunch, outside
  <2>3. ask' \in [Ids -> Nat] /\ dial' \in [Ids -> Nat]
    BY <1>1, <2>1 DEF RestInv
  <2>4. QED
    BY <1>1, <2>2, <2>3 DEF RestInv
<1>9. Happens => events' \in 0..MaxEvents
  BY <1>1, SupervisorAssumption DEF Happens, RestInv
<1>10. ASSUME NEW id \in Ids, KillStart(id)  PROVE RestInv'
  <2>1. killing' \in Pids \cup {NoPid} /\ UNCHANGED <<ask, dial, nextPort, chromes, probe>> /\ Happens
    BY <1>1, <1>10 DEF KillStart, taskVars, InstInv, Instance
  <2>2. QED
    BY <1>1, <1>9, <2>1 DEF RestInv
<1>11. ASSUME NEW id \in Ids, ProbeStart(id)  PROVE RestInv'
  <2>1. /\ probe' \in [id : 0..MaxSpawns, ok : BOOLEAN]
        /\ UNCHANGED <<ask, dial, nextPort, chromes, killing>> /\ Happens
    BY <1>11 DEF ProbeStart, taskVars, Ids
  <2>2. QED
    BY <1>1, <1>9, <2>1 DEF RestInv
<1>12. NoProbe \in [id : 0..MaxSpawns, ok : BOOLEAN]
  BY SupervisorAssumption DEF NoProbe
<1>13. ASSUME NEW id \in Ids, ProbeOk(id) \/ ProbeFails(id)  PROVE RestInv'
  <2>1. probe' = NoProbe /\ UNCHANGED <<ask, dial, nextPort, chromes, killing, events>>
    BY <1>13 DEF ProbeOk, ProbeFails, taskVars
  <2>2. QED
    BY <1>1, <1>12, <2>1 DEF RestInv
<1>14. CASE KillFinish
  <2>1. /\ killing' = NoPid /\ UNCHANGED <<ask, dial, nextPort, probe, events>>
        /\ chromes' \subseteq chromes
    BY <1>14 DEF KillFinish, taskVars
  <2>2. chromes' \subseteq Chrome
    BY <1>1, <2>1 DEF RestInv
  <2>3. QED
    BY <1>1, <2>1, <2>2 DEF RestInv
<1>15. ASSUME NEW c \in chromes, Crash(c)  PROVE RestInv'
  <2>1. Happens /\ UNCHANGED <<ask, dial, nextPort, killing, probe>> /\ chromes' \subseteq chromes
    BY <1>15 DEF Crash, taskVars
  <2>2. chromes' \subseteq Chrome
    BY <1>1, <2>1 DEF RestInv
  <2>3. QED
    BY <1>1, <1>9, <2>1, <2>2 DEF RestInv
<1>16. CASE UNCHANGED vars
  BY <1>2, <1>16 DEF vars, taskVars, outside
<1>17. QED
  BY <1>4, <1>5, <1>6, <1>7, <1>8, <1>10, <1>11, <1>13, <1>14, <1>15, <1>16 DEF Next, SpawnStep

\* The records of the supervisor are well typed, no launch passes the retry
\* limit, and allocatePort() stays within its range.
THEOREM SupervisorTypes == Spec => []TypeOK
<1>1. Init => TypesInv
  <2> SUFFICES ASSUME Init  PROVE TypesInv
    OBVIOUS
  <2>1. InstInv
    BY SupervisorAssumption DEF Init, InstInv, Instance
  <2>2. AttemptInv
    BY SupervisorAssumption DEF Init, AttemptInv
  <2>3. RestInv
    BY SupervisorAssumption DEF Init, RestInv, NoProbe
  <2>4. QED
    BY <2>1, <2>2, <2>3 DEF TypesInv
<1>2. SlotInv /\ TypesInv /\ [Next]_vars => TypesInv'
  BY StepInst, StepAttempt, StepRest DEF TypesInv, SlotInv
<1>3. Init => CircuitInv
  BY SupervisorAssumption DEF Init, CircuitInv, ClosedCircuitBelowThreshold
<1>4. SlotInv /\ TypesInv /\ CircuitInv => TypeOK
  <2> SUFFICES ASSUME SlotInv, TypesInv, CircuitInv  PROVE TypeOK
    OBVIOUS
  <2>1. L!TypeOK
    BY DEF SlotInv, LP!IInv, LP!TypeOK, L!TypeOK, L!Phases, LP!Phases
  <2>2. QED
    BY <2>1 DEF SlotInv, LockInv, TaskInv, TypesInv, InstInv, AttemptInv, RestInv, CircuitInv,
                Instance, Chrome, TypeOK
<1>5. QED
  BY <1>1, <1>2, <1>3, <1>4, SlotInvariant, StepCircuit, PTL DEF Spec
=============================================================================
