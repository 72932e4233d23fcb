---------------------------- MODULE TunnelClient ----------------------------
(***************************************************************************)
(* The tunnel client of src/src/engines/tunnel-client: ConnectionManager   *)
(* (connection-manager.ts) with its ReconnectionManager (reconnection.ts), *)
(* Heartbeat (heartbeat.ts) and RequestHandler, started, stopped and       *)
(* restarted by ServiceManager (tunnel-orchestrator/service-manager.ts).   *)
(*                                                                         *)
(* A socket is one new WebSocket().  External: a socket opens or fails,    *)
(* the server assigns, answers pings, falls silent or closes; after        *)
(* close() no message is delivered, and the close event comes later.       *)
(***************************************************************************)
EXTENDS Naturals, FiniteSets

CONSTANTS Sockets,    \* as many connections as are tried
          MaxStops,   \* calls of TunnelClient.stop()
          Requests, MaxConcurrent,
          None

ASSUME TunnelAssumption == None \notin Sockets /\ MaxStops \in Nat /\ MaxConcurrent \in Nat

VARIABLES
    state,    \* this.state
    ws,       \* this.ws
    retry,    \* this.reconnection: whether its timer is set, and attempt
    beat,     \* this.heartbeat: "off", "idle" (no ping pending) or "pinged"
    handler,  \* this.requestHandler
    orphan,   \* a heartbeat that nothing refers to any more still runs
    sock,     \* per socket: where it stands
    byRetry,  \* the sockets that the reconnection timer made
    silent,   \* external: the sockets whose server answers nothing
    started,  \* whether ServiceManager has started the client
    stops,    \* how often it has stopped it
    asked, holder, fetch, answers   \* the requests

requestVars == <<asked, holder, fetch, answers>>
client == <<state, ws, retry, beat, handler, orphan>>
net == <<sock, byRetry, silent>>
service == <<started, stops>>
vars == <<client, net, service, requestVars>>

R == INSTANCE RequestHandler WITH Handlers <- Sockets

NoRetry == [timer |-> FALSE, attempt |-> 0]

Init ==
    /\ state = "disconnected"
    /\ ws = None
    /\ retry = NoRetry
    /\ beat = "off" /\ orphan = FALSE
    /\ sock = [s \in Sockets |-> "new"]
    /\ byRetry = {} /\ silent = {}
    /\ handler = None
    /\ started = FALSE /\ stops = 0
    /\ R!Init
-----------------------------------------------------------------------------
Move(s, p) == sock' = [sock EXCEPT ![s] = p]
Attached(s) == sock[s] \in {"open", "assigned", "closing"}
Talks(s) == sock[s] \in {"open", "assigned"}
Served(s) == sock[s] = "opening" \/ Attached(s)

\* this.ws?.close(): a socket that closes already goes on closing.
CloseWs == sock' = [s \in Sockets |-> IF s = ws /\ Talks(s) THEN "closing" ELSE sock[s]]

\* send(): over this.ws, if that is open.
Over == IF ws # None /\ Talks(ws) THEN ws ELSE None

\* this.requestHandler?.cancelAll()
CancelAll(over) ==
    IF handler = None THEN UNCHANGED requestVars ELSE R!CancelAll(handler, over)

\* connect(), up to its await.
Connectable == state \notin {"connected", "connecting"}
Begin(s) ==
    /\ sock[s] = "new" /\ Move(s, "opening")
    /\ state' = "connecting"

\* startReconnection(): stop() the manager there is and start() another, whose
\* scheduleNext() counts its first attempt.
StartReconnection_Stopped ==
    /\ state' = "reconnecting"
    /\ retry' = [timer |-> FALSE, attempt |-> 1]
StartReconnection ==
    /\ state' = "reconnecting"
    /\ retry' = [timer |-> TRUE, attempt |-> 1]

\* TunnelClient.start()
Start ==
    /\ ~started /\ started' = TRUE
    /\ \/ ~Connectable /\ UNCHANGED <<state, sock>>
       \/ Connectable /\ \E s \in Sockets : Begin(s)
    /\ UNCHANGED <<ws, retry, beat, handler, orphan, byRetry, silent, stops, requestVars>>

\* The timer of scheduleNext(): connect() and then reset(), at once when
\* connect() has nothing to do.
RetryFires ==
    /\ retry.timer
    /\ \/ /\ ~Connectable
          /\ retry' = NoRetry
          /\ UNCHANGED <<state, sock, byRetry>>
       \/ /\ Connectable
          /\ \E s \in Sockets : Begin(s) /\ byRetry' = byRetry \cup {s}
          /\ retry' = [retry EXCEPT !.timer = FALSE]
    /\ UNCHANGED <<ws, beat, handler, orphan, silent, service, requestVars>>

\* "open": the rest of connect(), and reset() if the timer called it.
Opens(s) ==
    /\ sock[s] = "opening"
    /\ Move(s, "open")
    /\ ws' = s
    /\ retry' = IF s \in byRetry THEN NoRetry ELSE retry
    /\ UNCHANGED <<state, beat, handler, orphan, byRetry, silent, service, requestVars>>

\* The catch of connect().  The manager that called it is stopped by then, so
\* its own scheduleNext() does nothing.
GiveUp(s, p) ==
    /\ sock[s] = "opening"
    /\ Move(s, p)
    /\ StartReconnection
    /\ UNCHANGED <<ws, beat, handler, orphan, byRetry, silent, service, requestVars>>

\* "error"
OpenFails(s) == GiveUp(s, "closed")

\* The 10 s timer only rejects: nothing closes the socket.
OpenTimesOut(s) == GiveUp(s, "late")

\* External: such a socket opens after all, fails, or closes.  Its listeners
\* settle a promise that is settled, and it never gets others.
StrayMoves(s) ==
    /\ \/ sock[s] = "late" /\ \E p \in {"stray", "closed"} : Move(s, p)
       \/ sock[s] = "stray" /\ Move(s, "closed")
    /\ UNCHANGED <<client, byRetry, silent, service, requestVars>>

\* handleAssigned(): heartbeat and handler are replaced, not stopped.
Assigned(s) ==
    /\ sock[s] = "open" /\ s \notin silent
    /\ Move(s, "assigned")
    /\ state' = "connected"
    /\ orphan' = (orphan \/ beat # "off")
    /\ beat' = "pinged"
    /\ handler' = s
    /\ UNCHANGED <<ws, retry, byRetry, silent, service, requestVars>>
-----------------------------------------------------------------------------
(* Heartbeat *)
PingDue ==
    /\ beat = "idle"
    /\ beat' = "pinged"
    /\ UNCHANGED <<state, ws, retry, handler, orphan, net, service, requestVars>>

\* onPong(), for a ping that went out on this.ws.
Pong ==
    /\ beat = "pinged"
    /\ ws # None /\ Talks(ws) /\ ws \notin silent
    /\ beat' = "idle"
    /\ UNCHANGED <<state, ws, retry, handler, orphan, net, service, requestVars>>

\* The timeout of sendPing(), and onHeartbeatTimeout(), which leaves the rest to
\* the close event.
PongMissed_Logged ==
    /\ beat = "pinged"
    /\ beat' = "idle"
    /\ UNCHANGED <<state, ws, retry, handler, orphan, net, service, requestVars>>
PongMissed_Reconnecting ==
    /\ beat = "pinged"
    /\ beat' = "idle"
    /\ CloseWs /\ StartReconnection
    /\ UNCHANGED <<ws, handler, orphan, byRetry, silent, service, requestVars>>
PongMissed ==
    /\ beat = "pinged"
    /\ beat' = "idle"
    /\ CloseWs
    /\ UNCHANGED <<state, ws, retry, handler, orphan, byRetry, silent, service, requestVars>>

\* No pong ever reaches a heartbeat that was replaced.
OrphanFires ==
    /\ orphan /\ CloseWs
    /\ UNCHANGED <<client, byRetry, silent, service, requestVars>>
-----------------------------------------------------------------------------
\* The "close" event of any socket with handlers: handleDisconnect().
Normal == {"normal", "going away"}
Codes == Normal \cup {"abnormal"}

HandleDisconnect_Kept(code) ==
    /\ beat' = "off" /\ handler' = None /\ ws' = None
    /\ IF state = "connected" /\ code \notin Normal
       THEN StartReconnection
       ELSE UNCHANGED <<state, retry>>
HandleDisconnect(code) ==
    /\ beat' = "off" /\ handler' = None /\ ws' = None
    /\ IF state = "connected" /\ code \notin Normal
       THEN StartReconnection
       ELSE state' = "disconnected" /\ UNCHANGED retry

Closes(s) ==
    /\ Attached(s) /\ Move(s, "closed")
    /\ \E code \in Codes : HandleDisconnect(code)
    /\ CancelAll(IF s = ws THEN None ELSE Over)
    /\ UNCHANGED <<orphan, byRetry, silent, service>>

\* disconnect()
Disconnect ==
    /\ retry' = NoRetry
    /\ beat' = "off"
    /\ CancelAll(Over)
    /\ CloseWs
    /\ ws' = None
    /\ state' = "disconnected"

\* An error frame that is fatal.
Fatal(s) ==
    /\ Talks(s) /\ s \notin silent
    /\ Disconnect
    /\ UNCHANGED <<handler, orphan, byRetry, silent, service>>

\* TunnelClient.stop()
Stop ==
    /\ started /\ stops < MaxStops
    /\ started' = FALSE /\ stops' = stops + 1
    /\ Disconnect
    /\ UNCHANGED <<handler, orphan, byRetry, silent>>

\* The server, or the network to it, is gone without a word.
FallsSilent(s) ==
    /\ Attached(s) /\ s \notin silent
    /\ silent' = silent \cup {s}
    /\ UNCHANGED <<client, sock, byRetry, service, requestVars>>
-----------------------------------------------------------------------------
(* RequestHandler *)
RequestArrives(s, q) ==
    /\ Talks(s) /\ s \notin silent /\ handler # None
    /\ R!HandleRequest(q, s, handler, Over)
    /\ UNCHANGED <<client, net, service>>

RequestGoesOn(q) ==
    /\ R!Fetched(q, Over) \/ R!TimesOut(q, Over)
    /\ UNCHANGED <<client, net, service>>

Next ==
    \/ Start \/ Stop \/ RetryFires \/ PingDue \/ Pong \/ PongMissed \/ OrphanFires
    \/ \E s \in Sockets :
          \/ Opens(s) \/ OpenFails(s) \/ OpenTimesOut(s) \/ StrayMoves(s)
          \/ Assigned(s) \/ Closes(s) \/ Fatal(s) \/ FallsSilent(s)
    \/ \E q \in Requests : RequestGoesOn(q) \/ \E s \in Sockets : RequestArrives(s, q)

Spec == Init /\ [][Next]_vars

\* Timers fire, and a socket that is closing closes.
FairSpec ==
    /\ Spec
    /\ WF_vars(PingDue) /\ WF_vars(PongMissed)
    /\ \A s \in Sockets : WF_vars(sock[s] = "closing" /\ Closes(s))
-----------------------------------------------------------------------------
TypeOK ==
    /\ state \in {"disconnected", "connecting", "connected", "reconnecting"}
    /\ ws \in Sockets \cup {None}
    /\ retry \in [timer : BOOLEAN, attempt : 0..1]
    /\ beat \in {"off", "idle", "pinged"} /\ orphan \in BOOLEAN
    /\ sock \in [Sockets -> {"new", "opening", "open", "assigned", "closing",
                             "closed", "late", "stray"}]
    /\ byRetry \subseteq Sockets /\ silent \subseteq Sockets
    /\ handler \in Sockets \cup {None}
    /\ R!TypeOK
    /\ started \in BOOLEAN /\ stops \in 0..MaxStops

\* As long as the client has not been stopped, however often it lost and
\* retried its connection, it opens or serves one socket at most, and this.ws
\* is that one.  Sockets whose opening timed out may be open beside it: nothing
\* closes them, but no frame of theirs is handled and none is sent over them.
OneServedTunnel ==
    stops = 0 =>
        /\ \A s, t \in Sockets : Served(s) /\ Served(t) => s = t
        /\ ws # None => Attached(ws)

\* What getState() calls "connected" is a socket with a heartbeat on it.
ConnectedIsReal ==
    stops = 0 /\ state = "connected" =>
        /\ ws # None /\ sock[ws] \in {"assigned", "closing"}
        /\ beat # "off" /\ ~orphan

\* A client that says it is reconnecting will try again.
RetryPending == stops = 0 /\ state = "reconnecting" => retry.timer

\* heartbeat.ts:5, "If no pong is received within the timeout, triggers
\* reconnection": the client does not stay connected to a silent server.
DeadTunnelNoticed ==
    stops = 0 /\ state = "connected" /\ ws \in silent ~> stops > 0 \/ state # "connected"

\* A request that was let in is pending or has been answered, as long as the
\* connection it came on is up: limit, timeout, late and failed fetches included.
RequestsAnswered ==
    \A q \in Requests : asked[q] # None /\ asked[q] = Over =>
        holder[q] # None \/ answers[q] # {}
=============================================================================
