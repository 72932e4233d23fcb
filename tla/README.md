# TLA+ models of the Chrome fleet, sends, autonomous tasks, the tunnel and migrations

The repository is a local-first chat platform.  A server process drives Chrome
instances ("slaves") over the Chrome DevTools Protocol (CDP) and talks to chat
providers through their web pages.  All server code is single-threaded
JavaScript: a stretch of code between two awaits runs without interruption, and
everything may happen at an await.  The modules keep that granularity: **one
action per stretch between awaits**.

The modules model the parts in which interleavings, failures and restarts
decide whether the program is right:

- the path of a message: admitting and starting a Chrome, serialising commands
  to it, and sending a message through it;
- autonomous tasks, with the gates at which they wait for a human;
- the tunnel client, which keeps a connection to a relay and answers requests;
- the data migrations that run at each boot, over crashes and restarts.

## Inventory

### Components that are modelled

| Component | State | Operations | Who calls it | What is hard | What makes it correct |
|---|---|---|---|---|---|
| `FleetLimiter` (`executor/fleet-limiter.ts`) | `active`, `waiters` | `acquire`, `release`, queue timer | `FleetSupervisor.spawn` | `acquire` continues in a microtask after `release` woke it; the timer races with the wakeup | every holder counted once, no lost wakeup, every waiter settles |
| `FleetSupervisor` (`executor/fleet-supervisor.ts`, `launcher.ts`) | instances, circuits, spawn locks, `nextPort` | `spawn`, `kill`, `ensureRunning`, `healthCheck` | `ChromeGovernor`, a health timer | a spawn has ten awaits; kills, probes and crashes come between; retries; instances in error keep their port | locks and slots never leak, one Chrome per profile directory, the circuit opens when it should |
| `AsyncMutex` (`engines/chrome/async-mutex.ts`) | `locked`, `queue` | `acquire`, `release` | `CDPProxy` | the lock is handed over without being unlocked | exclusion, first come first served |
| `CDPProxy`, `CDPTransport`, `BunCdpClient` (`engines/chrome/cdp-proxy.ts`, `executor/cdp-transport.ts`, `cdp.ts`) | client per slave and its socket, mutex per slave | `send`, `capture`, `executeHarnessPlan`, `getPageState`, `captureScreenshot` | everything that touches a page | failures inside a plan, disconnects, a plan that captures, commands that wait for a `connect()` without a timer | one mediated command at a time, the mutex freed on every path |
| `ConversationManager` (`engines/conversation-manager.ts`) | conversation rows, message rows | `send` | the HTTP router | three separate critical sections per send; the page and the provider act on their own; the store is read early and written late | each send stores its own text and an answer nobody else has, and says truthfully whether it did |
| Autonomous execution (`engines/autonomous-execution.ts`) | `gateWaiters`, `activeTasks`, `usage`, task objects; rows of tasks, steps and gates | `execute`, `replay`, `cancel`, `resolveGate`, gate timers and polls | the autonomous router | an answer, a poll and a timer race for one wait; two runs share a task object; each write can fail; the row and the object drift apart | a step that needs approval waits for it, an answer arrives, a task says how it ended, what is done stays done |
| Tunnel client (`engines/tunnel-client/*`, `tunnel-orchestrator/service-manager.ts`) | `state`, `ws`, reconnection, heartbeat, request handler | `connect`, `disconnect`, frames, close events, three kinds of timers | `ServiceManager` | close events come late and from any socket; a server may fall silent; a failed attempt schedules the next; an attempt that took too long may still succeed | one tunnel that is served, truly connected or trying again; each request answered |
| Migration runner (`storage/migration/*`, `storage/snapshot.ts`, `storage/verify-compat.ts`) | records and `schema_version` in `SchemaMeta`, the data, a snapshot | boot (check, plan, snapshot, upgrade, restore), `rollback` | the seeds phase of the boot | no transaction spans two statements; the process dies between any two; failures are answered with a snapshot that may not copy back | records tell the truth, dependencies are applied, boots converge |

### Interaction

    ConversationManager --(ensureRunningForAccount)--> ChromeGovernor --> FleetSupervisor --(acquire/release)--> FleetLimiter
            |                                                                   |
            |                                                                   +--> Chrome processes
            +--(send, plan, capture)--> CDPProxy --(acquire/release)--> AsyncMutex
                                           +--> CDPTransport --> Chrome page --> provider

    autonomous router --(execute, replay, cancel)--> task run --(ask, wait)--> gate <--(resolveGate)-- autonomous router
                                                         +--> store (tasks, steps, gates), rows and objects apart

    ServiceManager --(start, stop)--> TunnelClient --> ConnectionManager --> relay server
                                                          +--> ReconnectionManager, Heartbeat, RequestHandler --> local server

    boot --> verifySchemaCompat --> applyPendingMigrations --> snapshot --> MigrationRunner --> SQLite (restored on failure)

### Components that are not modelled

`PROJECT.json` lists them with reasons.  In short: parsers, matchers and user
interfaces are about data; registrars and stores are sequential CRUD; the
`resilience`, `pool`, `scheduler` and `actor` directories have no callers; the
rest is on the plan below.

## Modules

| Module | Contents |
|---|---|
| `SpawnAdmission` | the abstract promise of admission control: callers only, no counter and no list |
| `FleetLimiter` | the limiter; implements `SpawnAdmission` |
| `FleetSupervisor`, `MCFleetSupervisor` | spawns as tasks, instances, circuits, Chrome processes; contains a `FleetLimiter` by `INSTANCE` |
| `AsyncMutex` | the mutex over an arbitrary set of tickets |
| `CdpProxy`, `MCCdpProxy` | the calls of one slave's proxy, over its `BunCdpClient`; contains an `AsyncMutex` |
| `ConversationManager`, `MCConversationManager` | concurrent sends through one slave, with page, provider and store; contains an `AsyncMutex` |
| `GatePromise` | what a gate promises to the run that waits behind it: one decision that stands |
| `HumanGate` | the gate as the code has it: row, waiter, timer, poll, calls of `resolveGate`; implements `GatePromise` |
| `AutonomousTask` | the runs of one task; contains `GatePromise` by `INSTANCE`, one gate per run and gated step |
| `RequestHandler` | requests, fetches and the frames sent about them, over any connection |
| `TunnelClient` | connection, reconnection, heartbeat, service manager; contains `RequestHandler` by `INSTANCE` |
| `Migration` | boots, upgrades, rollbacks, statements, crashes; the database and its snapshot |
| `*Proofs` | one per component: its theorems and the lemmas they rest on |

Operators named `X_Fault` (for instance `SlotFree_OffByOne`) are variants of
`X` with a plausible bug.  No action uses them; each, put in place of `X`, breaks
the property that `PROJECT.json` ("mutants") pairs it with.

### How the models correspond to the code

**FleetLimiter.**  `phase[c]` is where one `acquire()`/`release()` pair stands.
`"granted"` is the interval between `resolve()` in `release()` and the
continuation of `acquire()`, which increments `active`.  `Retry` is the caller's.

**FleetSupervisor.**  `job[id]` is the await at which a spawn stands, `inst[id]`
its `FleetInstance`, `lock[p]` the entry of `profileSpawnLocks`.  An instance id
is the spawn counter; a pid is the pair (spawn, attempt).  Abstractions:
- probing the ports and starting the process are one step, but a probe may miss a
  Chrome (one that boots, or one that takes more than the second a probe has), so
  two launches can be given one port.  `freePort()` tries `Span` ports from the
  `debugPort` that the spawn was registered with, also in a retry, and falls back
  to the occupied first one.  A launch is ready when anything answers on the port
  it was given (`dial`).  Only our own Chromes occupy ports;
- `Windows` stands for a sweep that sees the processes: it is false on the other
  platforms, where the list is empty, and when listing or killing fails, which
  the code swallows (`fleet-supervisor.ts:269-276`);
- `DirHits` says which profile directories contain the name of another (the
  sweep compares substrings);
- the health loop is a set of independent probes; `healthCheckAll`, the boot
  reaper, port tracking and the exit handler are left out;
- the status `crashed` is never assigned by the code, and is left out;
- counters that the code only compares saturate at the value compared with;
- the pressure gate rejects whenever it likes.

**CdpProxy.**  A call is the list of steps it takes under the mutex.  Slaves
share nothing, so one slave stands for each.  `client` is the slave's
`BunCdpClient`: `"none"`, or what its `_connected` says.  `line[c]` is where the
command of a call stands in `send()`: its timer runs (`"sent"`), it opens a socket
in `connect()` (`"dialing"`), or it polls in `connect()` until another `connect()`
has one (`"polling"`).  Only the first has a timer.  A command whose client was
replaced or disconnected meanwhile is `"apart"`: it waits for a client that the
proxy has dropped.  Sockets close and come back when they like.  Calls that take
no mutex (`getPageState`, `captureScreenshot`) run beside the mediated ones, so
`OneMediatedCommand` is about the mediated ones only, although the header of
`cdp-proxy.ts` speaks of all commands.  The test of `circuitState` is left
out because `toChromeSlave` hard-codes `'closed'` (`chrome-governor.ts:377`).
Actions that need the browser harness are local steps, because
`setBrowserHarness` has no caller.  A disconnect is one step.

**ConversationManager.**  `pc[s]` is the await at which a send stands.  A send
uses the mutex with three tickets: navigate, plan, capture.  Commands that change
nothing the model holds (selector probes, `Network.enable`) are left out, as are
the memory, context, block and node writes.  Fetching a body is one step with
`loadingFinished`; a failed parse is an empty answer.  A row is what the identity
hash hashes: conversation, role, content.  `send()`'s retry loop never retries,
because `sendInternal` catches everything; `sendStreaming` has no caller.  The
router's 30 s race leaves the send running: a client that tries again is a second
send with the same text, which the constants allow.  A navigation ends with the
answer to `Page.navigate`: the page load that it began (`loading`) goes on without
the mutex and takes what the composer holds with it, whosever that is
(`PageLoads`).  A send whose command waits in `BunCdpClient.connect()` is in
`stalled`; nothing promises that it goes on.  The page can be wrong when the sends
begin and does not drift later.

**HumanGate.**  A gate is a row, an entry of `gateWaiters`, a timer and one poll.
Calls of the store that another caller could see between are two steps (the
poll, and the read and write of an answer).  A `clearTimeout` does not stop a
callback that has begun, hence the timer state `"expiring"`.  `"timeout"` is
`null`.  `Settle` ignores a second `resolve()`, as a promise does.  The expiry
writes its row without reading it, so it may overwrite an answer; the model has
that, while `RecordedAsActed` is about rows that hold an answer.  The kinds of
gate (`clarify`) share the mechanism and differ in the answer only.  The names
differ from those of `AutonomousTask` so that `AutonomousProofs` extends both.

**AutonomousTask.**  `pc[r]` is the await at which a run of the task stands;
`mem[o]` is a task object, since `execute()` and each `getStatus()` of an
inactive task make their own, and `on[r]` the one a run works on.  `stored` are
the rows.  An action is one await with the code up to the next.  Abstractions:
- `Gated` are the steps that the policy's rules or the goal's
  `requireApprovalAbove` put behind a gate (lines 270-272), and `Critical` the
  destructive and financial ones.  They are independent: `devops/invariants.ts:413`
  says that destructive and financial actions must be gated, but with the threshold
  `financial` and no rule of the policy a destructive step runs without a gate.
  `GatedStepsWait` is about the gated steps, and says nothing of which those are;
- planning, policy decisions and the outcome of a step are choices; cost and
  tokens stay within the budget, iterations are counted;
- the two reads of `getStatus()` are one step;
- replays with a branch make another task and are left out, as are composite
  steps and failover (inside a step), and `pause()` and `resume()`, which have no
  caller;
- the gates are those of `GatePromise`: that `HumanGate` implements it is checked
  and proved, so the runs do not carry its rows and timers; `AutonomousProofs`
  puts the two together.

**TunnelClient.**  `sock[s]` is one `new WebSocket()`: `"open"` until the
assignment, `"closing"` from `close()` to its close event, `"late"` when its opening
took more than 10 s: `connect()` gives it up without closing it, and it may open
after all, without handlers and beside the socket of the retry (`"stray"`).
`OneServedTunnel` is about the sockets that `connect()` waits for or that have
handlers; with the strays the client can hold more.  `Over` is the
socket on which `send()` would write.  A heartbeat that is replaced while it runs
is the flag `orphan`.  The reconnection manager is its timer and `attempt`, which
each new manager starts again.  Left out: a second `assigned` frame on one socket,
status reports, metrics, the wording
of close reasons; `close()` with code 1006 is taken to be accepted.

**Migration.**  `db` is what a crash leaves: the status of each record, what was
done to the data, the row `schema_version`.  One action is one statement.
`plan` is the rest of the running operation, taken from the lowest version up or
from the highest down, as Kahn's algorithm with its sorted queue gives them when
dependencies have lower versions.  A release may register more migrations than
the one before.  `rollback()` has no caller in `src/`; it is public, documented
and tested, and is modelled as an operation of its own process while the server
is down.  Two operations at a time are not modelled: the lock is a field of a
runner, so it would not keep two processes apart.  A copy of the databases
(snapshot, restore) is one step and exact, and so is reading all records: the
code ignores a WAL checkpoint that fails (`snapshot.ts:28-37`), so that a snapshot
may lack the latest writes, and a restore leaves `-wal` files where they are.
What the properties say of restores presumes that neither happens.

## Runs

| Run | Specification | Shows |
|---|---|---|
| `fleet_limiter` | `FairSpec` | types and queue bound, exact count, exact queue, no lost wakeup, settlement, refinement of `SpawnAdmission` |
| `fleet_spawns` | `FairSpec` | locks and slots are exact on every path; every spawn settles |
| `fleet_health` | `Spec` | profile directories are exclusive on Windows; a closed circuit is below its threshold |
| `cdp_proxy` | `FairSpec` | exclusion, exact tickets, order of service, settlement unless a plan captures or a `connect()` never ends |
| `conversation_sends` | `MCFairSpec` | no send's typed text is replaced by another's, an answer goes to one send, success means stored, sends return unless a command waits for a connection for ever |
| `human_gate` | `FairGateSpec` | an answer reaches the wait however poll, timer and calls race; no answer is invented; refinement of `GatePromise`; every wait ends unless the expiry cannot be written |
| `gate_overwritten` (violated) | `GateSpec` | of two answers to a gate, the row records the one that the task did not act on |
| `autonomous_task` | `Spec` | steps that the policy or the threshold gates wait for an answer of their own run; a task that nothing works on says how it ended; finished steps stay finished |
| `tunnel_client` | `FairSpec` | one socket that is served; "connected" has a live heartbeat; "reconnecting" has a timer; requests are answered; a silent server is noticed |
| `migration` | `FairSpec` | records tell the truth, dependencies are applied, repeated boots converge |
| `migration_unversioned` (violated) | `Spec` | a crash while `schema_version` is replaced makes the next boot refuse the database as older than versioning |
| `conversation_crossed` (violated) | `Spec` | a send takes the answer another send waits for |

Runs marked *violated* check a statement of the repository's own documents,
comments or tests that the code does not keep; `PROJECT.json` ("findings")
quotes it.

Some behaviours of the code contradict its comments and are described with the
hazards in `PROJECT.json` rather than by a run of their own: a newcomer between
`release()` and the woken waiter passes the cap of the limiter; outside Windows
the sweep for surviving Chromes sees none; a probe of a replaced instance revives
it; a half-open circuit does not always open at its first failure; two launches
can share a port; a page load wipes the text of another send; a plan with a
capture step waits for itself (`NestedWaitsForItself` proves it); response headers
before the capture listens are lost; `messageCount` loses updates; a cancelled
task goes on after an approval; the reconnection delay never grows.  The models
have all of them, and the properties are stated so that they hold with them.

### Bounds, and why they suffice

- Limiter: five callers, two slots, two queue places.  Two hold, two wait and a
  fifth is refused or barges in; callers come back for ever.
- Supervisor: two profiles, one port, one slot, one queue place.  `MaxSpawns = 3`
  (with `RetryLimit = 1`) gives one launch, one waiter and one rejection at the
  same time or a respawn after a failed spawn; `MaxEvents` bounds kills, probes
  and crashes.  `fleet_health` needs a longer history of one instance (open,
  half open, failure or success) and so trades a spawn and the retry for four
  events.  One kill and one probe are in flight at a time.  Spawn ids are numbers
  that grow, so states never repeat; the two bounds end every behaviour.
  `Span = 1` makes `freePort()` find a port or fall back after one try, which are
  its two outcomes.  `fleet_spawns` has `MaxRestarts = 0`, which keeps its state space
  small: restarts belong to the longer histories of `fleet_health`.
- Proxy: five calls: two single commands, a plan of commands and a local step, a
  plan with a capture step, an unmediated call.  That is every kind of call, with
  two waiters behind an owner.  Disconnects and lost sockets are unbounded.
- Sends: two sends, two conversations, two texts: same or different
  conversation, same or different text.  Since conversations and texts are
  interchangeable, `MCFairSpec` fixes what the first send asks.  A send runs once;
  page loads and stalls are unbounded.
- Gate: one gate (gates share nothing) and three answers, so that one can be
  recorded, one refused and one under way, against the poll and the timer.
- Task: two steps, of which one is gated and the other destructive; two runs (execution
  and a replay), one cancellation, five iterations, so that the budget can stop
  the first run, the second, or neither.  Longer plans repeat the loop; the bound
  that matters is two runs of which each can be anywhere.
- Tunnel: two connections, one stop and two requests with room for one: a lost
  connection with its successor, a late close of the first after the second is
  up, a request refused for lack of room.
- Migration: three versions with every order of dependencies among them, two
  statements each, one without a way down; two faults (a crash in the handling
  of a failure, a restore that fails) and two rollbacks (one that fails and one
  that skips what it left).  Boots are unbounded.

`CHECK_DEADLOCK FALSE` appears where the modelled history ends by the bounds or
because all calls have returned; the limiter and the migrations never stop and are
checked for deadlock.

### Fairness

Weak fairness on the steps of operations in progress, and never on the start of
an operation or on the environment.  It is what the runtime and the code's timers
give: microtasks and timers run; launches, queue waits, probes, captures and
commands that were sent have timeouts; store calls answer or fail.  Opening a
WebSocket and `BunCdpClient.connect()` have no timer, and a poll in `connect()`
may wait for an attempt that has failed: no fairness is assumed of them, and
`SettlesUnlessStuck` and `SendSettles` except behaviours in which some call waits
there for ever (it may hold the mutex, and then everybody waits).  In the
supervisor the client is a fresh one to a Chrome whose port has just answered, so
there is nothing to poll for, and its handshake is assumed to end.  The fairness
of a send is strong, because a send that is stalled again and again is not what
the code does: a command waits for its connection once.  Not assumed: that a launch
in the limiter's own module ever ends, that anybody kills, probes or disconnects,
that a provider answers, that a human answers a gate, that a server assigns or
that a socket opens.  For the gate, the timer and the answers of the store are
fair; for the tunnel, its timers and the close event of a socket that is closing;
for migrations, the statements of a running operation, while boots and stops
recur by the premise of `RetriesConverge`.

## Proofs

All theorems hold for every value of the constants that satisfies the named
`ASSUME`s of the modules (slots and range at least one, positive threshold,
sentinels distinct from identities; in the supervisor the number of spawns is a
parameter too).

- **Limiter** (`FleetLimiterProofs`).  The invariant joins types, `active =
  |holding|`, the exact queue and the wakeup inequality.  None is inductive
  alone: the exact count needs the phases, splicing a timed-out waiter keeps the
  list exact only because the list is duplicate-free, and "no idle slot" needs
  both to count a hand-over.  Each action then maps to an action of
  `SpawnAdmission`, where the length of the list is the cardinality of the
  waiting set.
- **Supervisor** (`FleetSupervisorProofs`).  `LockedWhileSpawning` and
  `SlotsMatchLaunches` need that only ids up to the counter are in use, and that
  jobs, locks and phases agree.  `OneSpawnPerProfileDir` (assuming the platform
  on which the sweep sees processes) needs that a Chrome of a profile that is
  not of the spawn holding the lock cannot exist from the sweep until the lock
  is freed.  `ClosedCircuitBelowThreshold` is inductive with the circuits' types:
  a circuit is closed by a success only, which sets its failures to 0, and each
  failure is compared when it is counted.  It does not say when a half-open circuit
  opens again: after a success while it was open that takes the full count.
  Every step of the supervisor is a step of the limiter or leaves it alone, so
  the spawns implement `SpawnAdmission` too (`SpawnsAreAdmitted`), and while one
  waits the launches fill the slots (`QueuedSpawnsFindNoSlot`), which joins the
  limiter's wakeup inequality with `SlotsMatchLaunches`.
  `SupervisorTypes` is more than types: that no launch passes the retry limit
  needs that an attempt that is about to be retried is below it, and that what
  `FreeFrom` denotes is a port needs that among the ports it tried, those it found
  free have a least one (well-foundedness), or else it is the first it tried.
- **Mutex** (`AsyncMutexProofs`).  Exclusion is inductive together with `locked`
  and the exact queue, since a hand-over relies on the head being a waiter.
- **Proxy** (`CdpProxyProofs`).  Every step of the proxy is a step of the mutex or
  leaves it alone, so its theorems carry over; tickets agreeing with `pc` then
  give one mediated command and the self-wait of nested captures.
- **Sends** (`ConversationManagerProofs`).  Likewise through the mutex.  Then, in
  this order: which tickets are out at each `pc`; the composer is empty or belongs
  to the send that typed; an answer that is captured is over, and two captures do
  not listen at a time, so an answer that ends is given out once; rows are only
  added and what was captured is fixed before rows are looked for.
- **Tasks** (`AutonomousProofs`).  Every step of a run is first reduced to what it
  means: it leaves its task object with certain steps and stands at one of certain
  places, at an unfinished step when it is at the policy or in a reset (`Goes`,
  `GoesMeans`).  `GatedStepsWait` is inductive once one adds that a run between the
  policy and its answer stands at a gated step, and that one that was let through
  has an allowing decision on that gate (`GateInv`); decisions are for good.
  `NoZombieTask` needs that as long as the row says the task is under way, a run
  of it has not ended.  `FinishedStepsStay` is the longest: without overlap the
  object of the run that is under way has as finished whatever the store has
  (`AgreeInv`), and the step it works on is unfinished in the store, hence may
  be written; a run starts so because only `execute()` plans, on an empty store,
  and a replay takes the registered object or loads the store (`BeginInv`).
- **Gates** (`AutonomousProofs`, second half).  A waiter is registered exactly
  while its timer runs, and a wait that is open has a timer left (or has lost
  it); from this an answered row always has somebody to deliver it.  An answer in
  a row or read by the poll was written by a call that is about to notify or is
  done.  Each step then maps to a step of `GatePromise` or to a stutter
  (`StepMoves`), because only `Settle` moves a decision and a settled outcome
  stays.
- **Tasks over gates** (`GatedStepsHaveAnAnswer`).  With one `HumanGate` per run
  and gated step, and the task reading the gates' decisions (`Linked`), a step
  that the policy or the threshold gates executes only after a call of
  `resolveGate()` for the gate of that very run allowed it: no timeout, failed
  update or lost promise does it.
- **Tunnel** (`TunnelClientProofs`).  "Connected" and "reconnecting" are claims
  about sockets and timers, so the three properties of the client come from one
  invariant (`UpInv`): at most one socket is live (strays are not), one that talks
  is `ws`, the retry timer runs exactly in the state "reconnecting", and then no
  socket is live, and the heartbeat runs exactly in the state "connected".  None
  of these is inductive without the others: `connect()` looks at the state alone.
  Like the properties it speaks of a client that has not been stopped.
  `RequestsAnswered` needs that no request came on a socket that has not opened
  yet, so that a new connection starts with none.
- **Migrations** (`MigrationProofs`).  The invariant joins the types, the truth of
  the records, and the order: while an upgrade runs, what the rest of the plan
  depends on is in the plan or fully applied; while a rollback runs, what depends
  on a migration that is being undone is not completed.  It holds of the snapshot
  as well, so a restore keeps it, and of the moments between DELETE and INSERT,
  so a crash keeps it.  The least and greatest of a plan exist by
  well-foundedness.

Every invariant, action property and refinement that a passing run checks is
also a theorem.  Only model-checked: liveness (`WaiterSettles`, `SpawnSettles`,
`SettlesUnlessStuck`, `SendSettles`, `WaitsEnd`, `DeadTunnelNoticed`,
`RetriesConverge`), because the prover has no fairness and no `ENABLED`.  Types
of tasks, of the tunnel and of migrations are proved and need no run of their
own.

## Plan

1. `ChromeGovernor` over `FleetSupervisor`: `ensureRunningForAccount` and the
   instance it returns; what `kill()` promises for a starting instance.
2. `WorkflowEngine`: cancellation, waiting for a human, replay.
3. `LockManager`, `ExecutionMemoizer`; the reconnection timers and pings of
   `BunCdpClient`, of which `CdpProxy` has `connect()`, `send()` and `disconnect()`.
4. Branching replays and composite steps in `AutonomousTask`.
5. Proofs: more compositions, as those of tasks and gates and of spawns and the
   limiter: sends over the proxy's connection.

## Not modelled

The repository has 1840 source files.  Most are data rather than control:
provider manifests and seeds, generated protocol types, React views, command
grammars, parsers of provider streams, prompt texts, CRUD over Prisma.  A model
of those would restate them, so the models cover a small share of the lines and
that share is the part where order and failure matter.  What is left with state
that interleaves is on the plan above.  `resilience`, `pool`, `scheduler` and
`actor` have no callers in the running system.
