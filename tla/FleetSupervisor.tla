--------------------------- MODULE FleetSupervisor ---------------------------
(***************************************************************************)
(* Chrome slaves: src/src/executor/fleet-supervisor.ts, with the parts of  *)
(* launcher.ts it awaits and, by INSTANCE, its FleetLimiter.               *)
(*                                                                         *)
(* A spawn is an async function; job[id] says at which await it stands.    *)
(* kill(), healthCheck() and ensureRunning() interleave with it at every   *)
(* await, and Chrome processes crash when they like.  An instance id is    *)
(* the spawn counter, and a pid names the spawn and the attempt that       *)
(* started the process.                                                    *)
(***************************************************************************)
EXTENDS Integers, Sequences, FiniteSets

CONSTANTS Profiles,        \* the (provider, account) pairs
          NoProfile,
          SavedPort,       \* account.debugPort per profile, 0 when unset
          DirHits,         \* per profile, those whose directory contains its own
          MaxPort,         \* portRange = [1, MaxPort]
          Span,            \* how many ports freePort() tries
          MaxConcurrent, MaxQueued,
          RetryLimit,      \* spawnRetryLimit
          MaxRestarts, Threshold,  \* maxRestarts, circuitBreakerThreshold
          Windows,         \* process.platform === 'win32', and the process list can be read
          MaxSpawns,       \* bound: spawns that get past the guards
          MaxEvents        \* bound: kills, health checks and crashes

ASSUME SupervisorAssumption ==
    /\ NoProfile \notin Profiles
    /\ SavedPort \in [Profiles -> Nat]
    /\ \A p \in Profiles : p \in DirHits[p]
    /\ MaxPort \in Nat \ {0} /\ Span \in Nat \ {0} /\ MaxConcurrent \in Nat \ {0} /\ MaxQueued \in Nat
    /\ RetryLimit \in Nat /\ MaxRestarts \in Nat /\ Threshold \in Nat \ {0}
    /\ Windows \in BOOLEAN
    /\ MaxSpawns \in Nat \ {0} /\ MaxEvents \in Nat

Ids == 1..MaxSpawns

VARIABLES
    spawns,     \* spawnCounter
    lock,       \* profileSpawnLocks: the spawn that holds it, or 0
    prof,       \* a spawn's profile
    ask,        \* its opts.debugPort or 0; once registered, its debugPort
    job,        \* where the spawn stands
    attempt,    \* its launch attempt
    dial,       \* while it waits for its Chrome: the port it gave it
    inst,       \* instances, status "none" before instances.set
    nextPort,
    circuit,    \* circuits
    chromes,    \* external: the Chrome processes alive
    killing,    \* the pid that a kill() in flight awaits (bound: one at a time)
    probe,      \* the healthCheck() in flight and its answer (same bound)
    events,     \* bound: kills, health checks and crashes so far
    active, waiters, phase    \* this.limiter

taskVars == <<spawns, lock, prof, ask, job, attempt, dial>>
limiterVars == <<active, waiters, phase>>
outside == <<killing, probe, events>>
vars == <<taskVars, inst, nextPort, circuit, chromes, outside, limiterVars>>

L == INSTANCE FleetLimiter WITH Callers <- Ids

NoPid == <<0, 0>>
Pids == Ids \X (0..RetryLimit)
NoProbe == [id |-> 0, ok |-> FALSE]
Live == {"starting", "running", "stopping"}
Listening == {c.port : c \in chromes}

\* Where a spawn stands: awaiting the store and the profile directory, the
\* port probe, the limiter, launchChrome, waitForPort, the 'spawned' event,
\* the retry event and backoff, the final event, or a rejection's event.
InLaunch == {"launching", "booting", "recording", "retrying", "failing"}
Busy == {"preparing", "swept", "queued", "rejecting"} \cup InLaunch

Init ==
    /\ spawns = 0
    /\ lock = [p \in Profiles |-> 0]
    /\ prof = [id \in Ids |-> NoProfile]
    /\ ask = [id \in Ids |-> 0]
    /\ job = [id \in Ids |-> "none"]
    /\ attempt = [id \in Ids |-> 0]
    /\ dial = [id \in Ids |-> 0]
    /\ inst = [id \in Ids |-> [status |-> "none", pid |-> NoPid, port |-> 0, fails |-> 0]]
    /\ nextPort = 1
    /\ circuit = [id \in Ids |-> [state |-> "closed", failures |-> 0]]
    /\ chromes = {}
    /\ killing = NoPid
    /\ probe = NoProbe
    /\ events = 0
    /\ L!Init
-----------------------------------------------------------------------------
(* Counters that the code only compares saturate at the value compared with. *)
Upto(n, top) == IF n < top THEN n ELSE top

Goto(id, at) == job' = [job EXCEPT ![id] = at]
SetStatus(id, s) == inst' = [inst EXCEPT ![id].status = s]

\* spawn()'s guards: no spawn in progress, no instance that looks alive.
Unlocked_Unchecked(p) == TRUE
Unlocked(p) == lock[p] = 0

NoneLive(p) == \A id \in Ids : prof[id] = p => inst[id].status \notin Live

Begin(p, port) ==
    /\ Unlocked(p) /\ NoneLive(p)
    /\ spawns < MaxSpawns
    /\ spawns' = spawns + 1
    /\ lock' = [lock EXCEPT ![p] = spawns + 1]
    /\ prof' = [prof EXCEPT ![spawns + 1] = p]
    /\ ask' = [ask EXCEPT ![spawns + 1] = port]
    /\ Goto(spawns + 1, "preparing")
    /\ UNCHANGED <<attempt, dial>>

Spawn(p) ==
    /\ Begin(p, 0)
    /\ UNCHANGED <<inst, nextPort, circuit, chromes, outside, limiterVars>>

\* getCircuit(): an open circuit is half_open once its reset time is over.
Aged(cb) == {cb} \cup (IF cb.state = "open" THEN {[cb EXCEPT !.state = "half_open"]} ELSE {})

\* ensureRunning(); in the cases left out it returns or throws at once.
EnsureRunning(id) ==
    /\ \/ inst[id].status = "stopped" /\ UNCHANGED circuit
       \/ /\ inst[id].status = "error" /\ inst[id].fails < MaxRestarts
          /\ \E cb \in Aged(circuit[id]) :
                cb.state # "open" /\ circuit' = [circuit EXCEPT ![id] = cb]
    /\ Begin(prof[id], inst[id].port)
    /\ UNCHANGED <<inst, nextPort, chromes, outside, limiterVars>>

\* The outer finally; the spawn's locals are gone.
Finish(id) ==
    /\ Goto(id, "done")
    /\ lock' = [lock EXCEPT ![prof[id]] = 0]
    /\ ask' = [ask EXCEPT ![id] = 0]
    /\ UNCHANGED <<spawns, prof, attempt, dial>>

\* The store or the allocator throws.
PrepareFails(id) ==
    /\ job[id] = "preparing"
    /\ Finish(id)
    /\ UNCHANGED <<inst, nextPort, circuit, chromes, outside, limiterVars>>

\* killExistingChromeForProfile(): its list is empty except on Windows, and
\* there it holds every command line that contains the directory.  A failure
\* to list the processes is swallowed, and kills nothing either.
Survivors_All(p) == chromes
Survivors(p) == IF Windows THEN {c \in chromes : c.prof \notin DirHits[p]} ELSE chromes

Sweep(id) ==
    /\ job[id] = "preparing"
    /\ Goto(id, "swept")
    /\ chromes' = Survivors(prof[id])
    /\ UNCHANGED <<spawns, lock, prof, ask, attempt, dial, inst, nextPort, circuit, outside, limiterVars>>

\* opts.debugPort, or the saved port unless a fetch from it is answered (one
\* that is late or fails counts as nothing listening) ...
GivenPorts(id) ==
    IF ask[id] # 0 THEN {ask[id]}
    ELSE {SavedPort[prof[id]]} \cup (IF SavedPort[prof[id]] \in Listening THEN {0} ELSE {})

\* ... or allocatePort(), which throws PortOccupiedError past the range.
PortsLeft_OffByOne == nextPort <= MaxPort + 1
PortsLeft == nextPort <= MaxPort

NoPortLeft(id) ==
    /\ job[id] = "swept"
    /\ 0 \in GivenPorts(id) /\ ~PortsLeft
    /\ Finish(id)
    /\ UNCHANGED <<inst, nextPort, circuit, chromes, outside, limiterVars>>

Enroll(id, port, s) ==
    inst' = [inst EXCEPT ![id] = [status |-> s, pid |-> NoPid, port |-> port, fails |-> 0]]

\* instances.set, the pressure gate and limiter.acquire() up to its await.
Admit(id, port) ==
    \/ Enroll(id, port, "error") /\ Goto(id, "rejecting") /\ UNCHANGED limiterVars
    \/ Enroll(id, port, "error") /\ Goto(id, "rejecting") /\ L!RejectFull(id)
    \/ Enroll(id, port, "starting") /\ Goto(id, "queued") /\ L!Enqueue(id)
    \/ Enroll(id, port, "starting") /\ Goto(id, "launching") /\ L!AcquireNow(id)

Register(id) ==
    /\ job[id] = "swept"
    /\ \/ \E port \in GivenPorts(id) \ {0} : Admit(id, port) /\ UNCHANGED nextPort
       \/ /\ 0 \in GivenPorts(id) /\ PortsLeft
          /\ Admit(id, nextPort) /\ nextPort' = nextPort + 1
    /\ ask' = [ask EXCEPT ![id] = inst'[id].port]
    /\ UNCHANGED <<spawns, lock, prof, attempt, dial, circuit, chromes, outside>>

QueueTimeout(id) ==
    /\ job[id] = "queued"
    /\ L!QueueTimeout(id)
    /\ SetStatus(id, "error") /\ Goto(id, "rejecting")
    /\ UNCHANGED <<spawns, lock, prof, ask, attempt, dial, nextPort, circuit, chromes, outside>>

Resume(id) ==
    /\ job[id] = "queued"
    /\ L!Resume(id)
    /\ Goto(id, "launching")
    /\ UNCHANGED <<spawns, lock, prof, ask, attempt, dial, inst, nextPort, circuit, chromes, outside>>

\* The rejection's event is written or not; spawn() throws either way.
Rejected(id) ==
    /\ job[id] = "rejecting"
    /\ Finish(id)
    /\ UNCHANGED <<inst, nextPort, circuit, chromes, outside, limiterVars>>
-----------------------------------------------------------------------------
(* The retry loop, inside the slot. *)

\* freePort(): the first of its ports where nothing answers, or else the first.
FreeFrom(start, busy) ==
    LET free == (start..(start + Span - 1)) \ busy
    IN  IF free = {} THEN start ELSE CHOOSE n \in free : \A k \in free : n <= k

\* launchProfile() up to Bun.spawn.  busy holds the ports that answer within
\* isPortInUse()'s second; a Chrome that is still booting need not.
StartProcess(id) ==
    /\ job[id] = "launching"
    /\ \E busy \in SUBSET Listening :
        LET port == IF ask[id] \in busy THEN FreeFrom(ask[id] + 1, busy) ELSE ask[id]
        IN  /\ dial' = [dial EXCEPT ![id] = port]
            /\ chromes' = chromes \cup
                 {[pid |-> <<id, attempt[id]>>, prof |-> prof[id], port |-> port]}
    /\ Goto(id, "booting")
    /\ UNCHANGED <<spawns, lock, prof, ask, attempt, inst, nextPort, circuit, outside, limiterVars>>

\* waitForPort() had an answer, from the process started or from another one.
LaunchReady(id) ==
    /\ job[id] = "booting" /\ dial[id] \in Listening
    /\ inst' = [inst EXCEPT ![id] =
                  [status |-> "running", pid |-> <<id, attempt[id]>>, port |-> dial[id], fails |-> 0]]
    /\ Goto(id, "recording")
    /\ dial' = [dial EXCEPT ![id] = 0]
    /\ UNCHANGED <<spawns, lock, prof, ask, attempt, nextPort, circuit, chromes, outside, limiterVars>>

\* The catch of the loop's try, and what follows the last attempt.
AttemptFails(id) ==
    /\ IF attempt[id] < RetryLimit
       THEN /\ inst' = [inst EXCEPT ![id].fails = Upto(@ + 1, MaxRestarts)]
            /\ Goto(id, "retrying")
       ELSE /\ inst' = [inst EXCEPT ![id].fails = Upto(@ + 1, MaxRestarts), ![id].status = "error"]
            /\ Goto(id, "failing")
    /\ dial' = [dial EXCEPT ![id] = 0]
    /\ UNCHANGED <<spawns, lock, prof, ask, attempt, nextPort, circuit, outside, limiterVars>>

\* No binary; or ChromeLaunchTimeoutError, after a SIGKILL.
LaunchFails(id) ==
    /\ job[id] \in {"launching", "booting"}
    /\ chromes' = {c \in chromes : c.pid # <<id, attempt[id]>>}
    /\ AttemptFails(id)

\* The 'spawned' event cannot be written: the Chrome stays.
RecordFails(id) ==
    /\ job[id] = "recording"
    /\ AttemptFails(id)
    /\ UNCHANGED chromes

\* The backoff is over: attempt++.
NextAttempt_Same(id) == attempt[id]
NextAttempt(id) == attempt[id] + 1

Relaunch(id) ==
    /\ job[id] = "retrying"
    /\ attempt' = [attempt EXCEPT ![id] = NextAttempt(id)]
    /\ Goto(id, "launching")
    /\ UNCHANGED <<spawns, lock, prof, ask, dial, inst, nextPort, circuit, chromes, outside, limiterVars>>

\* Both finally blocks: the slave is up and recorded, or it failed for good
\* (whether or not the event is written), or the retry event throws.
GiveBack_Kept(id) == UNCHANGED limiterVars
GiveBack(id) == L!Release(id)

LeaveLaunch(id) ==
    /\ job[id] \in {"recording", "failing", "retrying"}
    /\ GiveBack(id)
    /\ Finish(id)
    /\ UNCHANGED <<inst, nextPort, circuit, chromes, outside>>
-----------------------------------------------------------------------------
(* What interleaves with the spawns. *)
Happens == events < MaxEvents /\ events' = events + 1

\* kill() up to killChrome(), or all of it when there is no pid yet.
KillStart(id) ==
    /\ Happens
    /\ inst[id].status # "none" /\ killing = NoPid
    /\ killing' = inst[id].pid
    /\ SetStatus(id, IF inst[id].pid = NoPid THEN "stopped" ELSE "stopping")
    /\ UNCHANGED <<taskVars, nextPort, circuit, chromes, probe, limiterVars>>

KillFinish ==
    /\ killing # NoPid
    /\ chromes' = {c \in chromes : c.pid # killing}
    /\ inst' = [inst EXCEPT ![killing[1]].status = "stopped", ![killing[1]].pid = NoPid]
    /\ killing' = NoPid
    /\ UNCHANGED <<taskVars, nextPort, circuit, probe, events, limiterVars>>

\* External: a Chrome process dies.
Crash(c) ==
    /\ Happens
    /\ chromes' = chromes \ {c}
    /\ UNCHANGED <<taskVars, inst, nextPort, circuit, killing, probe, limiterVars>>

\* healthCheck() up to its awaits: whoever listens on the port may answer.
ProbeStart(id) ==
    /\ Happens
    /\ inst[id].status \notin {"none", "stopped"} /\ probe = NoProbe
    /\ \E ok \in BOOLEAN :
        /\ ok => inst[id].port \in Listening
        /\ probe' = [id |-> id, ok |-> ok]
    /\ UNCHANGED <<taskVars, inst, nextPort, circuit, chromes, killing, limiterVars>>

ProbeOk(id) ==
    /\ probe = [id |-> id, ok |-> TRUE]
    /\ inst' = [inst EXCEPT ![id].status = "running", ![id].fails = 0]
    /\ \E cb \in Aged(circuit[id]) :
        circuit' = [circuit EXCEPT ![id] =
            [state |-> IF cb.state = "half_open" THEN "closed" ELSE cb.state, failures |-> 0]]
    /\ probe' = NoProbe
    /\ UNCHANGED <<taskVars, nextPort, chromes, killing, events, limiterVars>>

Trips_Late(failures) == failures > Threshold
Trips(failures) == failures >= Threshold

ProbeFails(id) ==
    /\ probe = [id |-> id, ok |-> FALSE]
    /\ inst' = [inst EXCEPT ![id].status = "error", ![id].fails = Upto(@ + 1, MaxRestarts)]
    /\ \E cb \in Aged(circuit[id]) :
        LET failures == Upto(cb.failures + 1, Threshold)
        IN  circuit' = [circuit EXCEPT ![id] =
              [state |-> IF Trips(failures) THEN "open" ELSE cb.state, failures |-> failures]]
    /\ probe' = NoProbe
    /\ UNCHANGED <<taskVars, nextPort, chromes, killing, events, limiterVars>>
-----------------------------------------------------------------------------
SpawnStep(id) ==
    \/ PrepareFails(id) \/ Sweep(id) \/ NoPortLeft(id) \/ Register(id)
    \/ QueueTimeout(id) \/ Resume(id) \/ Rejected(id)
    \/ StartProcess(id) \/ LaunchReady(id) \/ LaunchFails(id)
    \/ RecordFails(id) \/ Relaunch(id) \/ LeaveLaunch(id)

Next ==
    \/ \E p \in Profiles : Spawn(p)
    \/ \E id \in Ids : \/ SpawnStep(id) \/ EnsureRunning(id) \/ KillStart(id)
                       \/ ProbeStart(id) \/ ProbeOk(id) \/ ProbeFails(id)
    \/ KillFinish
    \/ \E c \in chromes : Crash(c)

Spec == Init /\ [][Next]_vars

\* Every await of spawn() ends: timers bound the launch, the queue, the port
\* probe and each CDP command; store writes and WebSocket handshakes are
\* answered or fail.  Kills, probes and crashes are not assumed to happen.
Fairness == \A id \in Ids : WF_vars(SpawnStep(id))

FairSpec == Spec /\ Fairness
-----------------------------------------------------------------------------
\* Types; allocatePort() stays inside the configured range.
TypeOK ==
    /\ spawns \in 0..MaxSpawns
    /\ lock \in [Profiles -> 0..MaxSpawns]
    /\ prof \in [Ids -> Profiles \cup {NoProfile}]
    /\ ask \in [Ids -> Nat]
    /\ job \in [Ids -> {"none", "done"} \cup Busy]
    /\ attempt \in [Ids -> 0..RetryLimit]
    /\ dial \in [Ids -> Nat]
    /\ inst \in [Ids -> [status : {"none", "stopped", "error"} \cup Live,
                         pid : Pids \cup {NoPid}, port : Nat, fails : 0..MaxRestarts]]
    /\ nextPort \in 1..(MaxPort + 1)
    /\ circuit \in [Ids -> [state : {"closed", "open", "half_open"}, failures : 0..Threshold]]
    /\ chromes \subseteq [pid : Pids, prof : Profiles, port : Nat]
    /\ killing \in Pids \cup {NoPid}
    /\ probe \in [id : 0..MaxSpawns, ok : BOOLEAN]
    /\ events \in 0..MaxEvents
    /\ L!TypeOK

\* profileSpawnLocks is a mutex that no exit path leaks: a profile is locked
\* exactly while one spawn of it is in progress, and by that spawn.
LockedWhileSpawning ==
    /\ \A id \in Ids : job[id] \in Busy => lock[prof[id]] = id
    /\ \A p \in Profiles : lock[p] # 0 => prof[lock[p]] = p /\ job[lock[p]] \in Busy

\* acquire() and release() pair up on every path of the retry loop: a slot is
\* held exactly between admission and the inner finally.
SlotsMatchLaunches ==
    \A id \in Ids :
        /\ phase[id] = "holding" <=> job[id] \in InLaunch
        /\ phase[id] \in {"waiting", "granted"} <=> job[id] = "queued"

\* "Kill any Chrome process whose --user-data-dir contains `profileDir`": no
\* two spawns ever have a Chrome on the same profile directory at a time.
OneSpawnPerProfileDir ==
    \A c, d \in chromes : c.prof = d.prof => c.pid[1] = d.pid[1]

\* The breaker's bookkeeping across lazy half_open steps: a circuit with
\* Threshold failures in a row is never closed.
ClosedCircuitBelowThreshold ==
    \A id \in Ids : circuit[id].state = "closed" => circuit[id].failures < Threshold

\* Every spawn settles, so no profile stays locked and its callers do not wait
\* for ever on the promise they share.
SpawnSettles == \A p \in Profiles : lock[p] # 0 ~> lock[p] = 0
=============================================================================
