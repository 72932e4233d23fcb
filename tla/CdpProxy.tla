------------------------------ MODULE CdpProxy ------------------------------
(***************************************************************************)
(* The single I/O path to one slave: src/src/engines/chrome/cdp-proxy.ts   *)
(* over the clients of src/src/executor/cdp-transport.ts and cdp.ts.       *)
(* Slaves share neither mutex nor client, so one slave stands for each.    *)
(*                                                                         *)
(* A call of the proxy is the list of steps that it takes while it holds   *)
(* the slave's mutex.  send() and capture() are one "command"; a harness   *)
(* plan is a list of commands, of "local" steps (wait, human_gate, and the *)
(* actions that do nothing without a browser harness) and of "capture"     *)
(* steps, which call this.capture().  getPageState() and                   *)
(* captureScreenshot() take no mutex: those calls are Unmediated.          *)
(***************************************************************************)
EXTENDS Naturals, Sequences

CONSTANTS Calls,
          Plan,        \* per call: its steps, in the order of orderNodes()
          Unmediated   \* the calls of getPageState() and captureScreenshot()

ASSUME ProxyAssumption ==
    /\ Plan \in [Calls -> Seq({"command", "local", "capture"})]
    /\ Unmediated \subseteq Calls

VARIABLES client,             \* "none" when the transport has no BunCdpClient
                              \* for the slave; else its _connected, "up" or "down"
          line,               \* where a command stands in client.send()
          pc, step,           \* where a call stands
          locked, queue, at   \* the slave's AsyncMutex

mutexVars == <<locked, queue, at>>
vars == <<client, line, pc, step, mutexVars>>

\* A call's own ticket, and that of a capture() nested in its plan.
Outer(c) == <<c, "outer">>
Inner(c) == <<c, "inner">>
M == INSTANCE AsyncMutex WITH Tickets <- Calls \X {"outer", "inner"}

\* Idle; in transport.connect(); past mutex.acquire(); awaiting a command of
\* its own, without the mutex, or in a nested capture(); settled.
Places == {"idle", "connecting", "section", "flight", "unmediated", "renewing", "nested", "done"}

\* No command; its timer runs; in connect(), which opens a socket or polls
\* until another connect() has; on a client that the transport has dropped.
Lines == {"none", "sent", "dialing", "polling", "apart"}

Init ==
    /\ client = "none"
    /\ line = [c \in Calls |-> "none"]
    /\ pc = [c \in Calls |-> "idle"]
    /\ step = [c \in Calls |-> 1]
    /\ M!Init
-----------------------------------------------------------------------------
Goto(c, p) == pc' = [pc EXCEPT ![c] = p]

PutLine(c, l) == line' = [line EXCEPT ![c] = l]

\* this.connecting; connect() leaves it set until its socket opens or fails.
Connecting == \E d \in Calls : line[d] = "dialing"

\* client.send() up to its first await.
Send(c) ==
    /\ \/ client = "up" /\ PutLine(c, "sent")
       \/ client = "down" /\ ~Connecting /\ PutLine(c, "dialing")
       \/ client = "down" /\ Connecting /\ PutLine(c, "polling")
    /\ UNCHANGED client

\* The transport's client is replaced or disconnected: connects of the old one
\* go on by themselves, and its polls ask a client that nobody connects.
Leftover(l) == IF l \in {"dialing", "polling"} THEN "apart" ELSE l

\* transport.connect() puts a new client in the map, over any other.
NewClient(c) ==
    /\ client' = "up"
    /\ line' = [d \in Calls |-> IF d = c /\ c \in Unmediated THEN "sent" ELSE Leftover(line[d])]

\* After ensureConnected(), a mediated call asks for the mutex.
Enter(c) == c \notin Unmediated /\ Goto(c, "section") /\ M!Acquire(Outer(c))
Bypass(c) == c \in Unmediated /\ Goto(c, "unmediated") /\ UNCHANGED mutexVars

Call(c) ==
    /\ pc[c] = "idle"
    /\ \/ client # "none" /\ Enter(c) /\ UNCHANGED <<client, line>>
       \/ client # "none" /\ Bypass(c) /\ Send(c)
       \/ client = "none" /\ Goto(c, "connecting") /\ UNCHANGED <<client, line, mutexVars>>
    /\ UNCHANGED step

Connected(c) ==
    /\ pc[c] = "connecting"
    /\ NewClient(c)
    /\ Enter(c) \/ Bypass(c)
    /\ UNCHANGED step

ConnectFails(c) ==
    /\ pc[c] = "connecting"
    /\ Goto(c, "done")
    /\ UNCHANGED <<client, line, step, mutexVars>>

\* The stretch after acquire() needs the ticket.
Inside_Unchecked(c) == pc[c] = "section"
Inside(c) == pc[c] = "section" /\ at[Outer(c)] = "in"
AtStep(c, kind) == Inside(c) /\ step[c] <= Len(Plan[c]) /\ Plan[c][step[c]] = kind

Advance_Twice(c) == step' = [step EXCEPT ![c] = @ + 2]
Advance(c) == step' = [step EXCEPT ![c] = @ + 1]

LocalStep(c) ==
    /\ AtStep(c, "local")
    /\ Advance(c)
    /\ UNCHANGED <<client, line, pc, mutexVars>>

StartCommand(c) ==
    /\ AtStep(c, "command")
    /\ Send(c)
    /\ Goto(c, "flight")
    /\ UNCHANGED <<step, mutexVars>>

CommandOk(c) ==
    /\ pc[c] = "flight" /\ line[c] = "sent"
    /\ PutLine(c, "none")
    /\ Goto(c, "section") /\ Advance(c)
    /\ UNCHANGED <<client, mutexVars>>

\* The finally block: the plan is through, ...
FreeMutex_Kept(c) == UNCHANGED mutexVars
FreeMutex(c) == M!Release(Outer(c))

Leave(c) ==
    /\ Inside(c) /\ step[c] > Len(Plan[c])
    /\ FreeMutex(c)
    /\ Goto(c, "done")
    /\ UNCHANGED <<client, line, step>>

\* ... or a step threw: a command failed or timed out, the transport has no
\* client any more, or the nested ensureConnected() could not connect.
Throw(c) ==
    /\ FreeMutex(c)
    /\ PutLine(c, "none") /\ Goto(c, "done")
    /\ UNCHANGED <<client, step>>

StepThrows(c) ==
    /\ \/ pc[c] = "flight" /\ line[c] = "sent"
       \/ AtStep(c, "command") /\ client = "none"
    /\ Throw(c)

RenewFails(c) == pc[c] = "renewing" /\ Throw(c)

\* this.capture() inside a plan: ensureConnected(), then the same mutex.  The
\* rest of it is never reached: the ticket in front of it is its own plan's.
Nest(c) == Goto(c, "nested") /\ M!Acquire(Inner(c))

StartCapture(c) ==
    /\ AtStep(c, "capture")
    /\ \/ client # "none" /\ Nest(c)
       \/ client = "none" /\ Goto(c, "renewing") /\ UNCHANGED mutexVars
    /\ UNCHANGED <<client, line, step>>

Reconnected(c) ==
    /\ pc[c] = "renewing"
    /\ NewClient(c)
    /\ Nest(c)
    /\ UNCHANGED step

BypassEnds(c) ==
    /\ PutLine(c, "none") /\ Goto(c, "done")
    /\ UNCHANGED <<client, step, mutexVars>>

UnmediatedEnds(c) == pc[c] = "unmediated" /\ line[c] = "sent" /\ BypassEnds(c)
-----------------------------------------------------------------------------
(* Inside client.connect(), while a command waits for it. *)
DialOk(c) ==
    /\ line[c] = "dialing"
    /\ client' = "up" /\ PutLine(c, "sent")
    /\ UNCHANGED <<pc, step, mutexVars>>

\* connect() rejects and so does this command; the polls of others go on.
DialFails(c) ==
    /\ line[c] = "dialing"
    /\ \/ pc[c] = "flight" /\ Throw(c)
       \/ pc[c] = "unmediated" /\ BypassEnds(c)

\* check() finds _connected, and the command is sent.
PollSees(c) ==
    /\ line[c] = "polling" /\ client = "up"
    /\ PutLine(c, "sent")
    /\ UNCHANGED <<client, pc, step, mutexVars>>

\* A leftover connect() that ends, if it does.
LeavesApart(c) ==
    /\ line[c] = "apart"
    /\ PutLine(c, "sent")
    /\ UNCHANGED <<client, pc, step, mutexVars>>

\* External: the socket closes, and scheduleReconnect() may open another.
Drops == client = "up" /\ client' = "down" /\ UNCHANGED <<line, pc, step, mutexVars>>
Reconnects == client = "down" /\ client' = "up" /\ UNCHANGED <<line, pc, step, mutexVars>>

\* disconnectAll() at shutdown.
Disconnect ==
    /\ client' = "none"
    /\ line' = [d \in Calls |-> Leftover(line[d])]
    /\ UNCHANGED <<pc, step, mutexVars>>
-----------------------------------------------------------------------------
CallStep(c) ==
    \/ LocalStep(c) \/ StartCommand(c) \/ PollSees(c) \/ CommandOk(c) \/ StepThrows(c)
    \/ Leave(c) \/ StartCapture(c) \/ UnmediatedEnds(c)

\* Steps that wait for a socket to open or to fail.
SocketStep(c) ==
    \/ Connected(c) \/ ConnectFails(c) \/ Reconnected(c) \/ RenewFails(c)
    \/ DialOk(c) \/ DialFails(c) \/ LeavesApart(c)

Next ==
    \/ \E c \in Calls : Call(c) \/ CallStep(c) \/ SocketStep(c)
    \/ Drops \/ Reconnects \/ Disconnect

Spec == Init /\ [][Next]_vars

\* A command that was sent and a capture have timers, and a poll has one per
\* look; opening a WebSocket has none.  Nobody has to call the proxy.
FairSpec == Spec /\ \A c \in Calls : WF_vars(CallStep(c))
-----------------------------------------------------------------------------
TypeOK ==
    /\ client \in {"none", "up", "down"}
    /\ line \in [Calls -> Lines]
    /\ pc \in [Calls -> Places]
    /\ step \in [Calls -> Nat \ {0}]
    /\ \A c \in Calls : step[c] <= Len(Plan[c]) + 1
    /\ M!TypeOK

\* "CDP is not safe for concurrent commands on the same target": among the
\* calls that take the mutex, one at a time awaits the transport.
OneMediatedCommand ==
    \A c, d \in Calls : pc[c] \in {"flight", "renewing"} /\ pc[d] \in {"flight", "renewing"} => c = d

\* The finally blocks free the mutex on every path: a ticket is out exactly
\* while its call is outside the section.
TicketsMatchCalls ==
    \A c \in Calls :
        /\ at[Outer(c)] # "out" <=> pc[c] \in {"section", "flight", "renewing", "nested"}
        /\ at[Inner(c)] # "out" <=> pc[c] = "nested"

\* A capture nested in a plan waits for the ticket of its own plan: the mutex
\* is not reentrant, and nobody else can free it.
NestedWaitsForItself ==
    \A c \in Calls : pc[c] = "nested" => at[Outer(c)] = "in" /\ at[Inner(c)] = "waiting"

\* The mutex's own invariants hold under these callers.
MutexIsExact == M!MutualExclusion /\ M!LockedWhileOwned /\ M!QueueIsExact

\* Calls get the mutex in the order in which they asked for it.
ServedInOrder == M!FirstComeFirstServed

\* connect() has no timer: opening a socket may never end, and a poll may wait
\* for a connect() that failed.
StuckInConnect(d) ==
    pc[d] \in {"connecting", "renewing"} \/ line[d] \in {"dialing", "polling", "apart"}

\* Whatever is lost, fails or times out, every call settles, unless some plan
\* has reached a capture step or some call waits for ever in a connect().
SettlesUnlessStuck ==
    \/ \E d \in Calls : <>[]StuckInConnect(d)
    \/ \A c \in Calls : pc[c] # "idle" ~> pc[c] = "done" \/ \E d \in Calls : pc[d] = "nested"
=============================================================================
