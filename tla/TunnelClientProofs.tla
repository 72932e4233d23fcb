-------------------------- MODULE TunnelClientProofs --------------------------
(***************************************************************************)
(* TunnelClient for every set of sockets and requests and every number of  *)
(* stops: until it is stopped the client holds one socket, is connected    *)
(* over one that is alive, and always retries; and a request that was let  *)
(* in is not forgotten while its connection is up.                         *)
(***************************************************************************)
EXTENDS TunnelClient, TLAPS

Places == {"new", "opening", "open", "assigned", "closing", "closed", "late", "stray"}

-----------------------------------------------------------------------------
(* Types. *)
LEMMA MoveTyped ==
    ASSUME TypeOK, NEW s \in Sockets, NEW p \in Places, Move(s, p)
    PROVE  /\ sock' \in [Sockets -> Places] /\ sock'[s] = p
           /\ \A t \in Sockets \ {s} : sock'[t] = sock[t]
  BY DEF TypeOK, Move, Places

LEMMA CloseWsTyped ==
    ASSUME TypeOK, CloseWs
    PROVE  /\ sock' \in [Sockets -> Places]
           /\ \A s \in Sockets : sock'[s] = IF s = ws /\ Talks(s) THEN "closing" ELSE sock[s]
  BY DEF TypeOK, CloseWs, Places

\* What is sent goes over a socket or nowhere.
Ways == Sockets \cup {None}

LEMMA OverTyped == TypeOK => Over \in Ways
  BY DEF TypeOK, Over, Ways

LEMMA SendTyped ==
    ASSUME R!TypeOK, NEW over \in Ways, NEW kind \in {"response", "abort"}, NEW qs,
           R!Send(qs, kind, over)
    PROVE  answers' \in [Requests -> SUBSET ({"response", "abort"} \X Sockets)]
  BY DEF R!TypeOK, R!Send, Ways

LEMMA RequestsTyped ==
    ASSUME R!TypeOK, NEW over \in Ways, NEW q \in Requests,
           \/ \E on, h \in Sockets : R!HandleRequest(q, on, h, over)
           \/ R!Fetched(q, over) \/ R!TimesOut(q, over)
    PROVE  R!TypeOK'
<1>1. answers' \in [Requests -> SUBSET ({"response", "abort"} \X Sockets)]
  BY SendTyped DEF R!HandleRequest, R!Fetched, R!TimesOut, R!TypeOK
<1>2. QED
  BY <1>1 DEF R!TypeOK, R!HandleRequest, R!Fetched, R!TimesOut

LEMMA CancelTyped ==
    ASSUME R!TypeOK, NEW over \in Ways, CancelAll(over)
    PROVE  R!TypeOK'
<1>1. CASE UNCHANGED requestVars
  BY <1>1 DEF R!TypeOK, requestVars
<1>2. CASE R!CancelAll(handler, over)
  <2>1. answers' \in [Requests -> SUBSET ({"response", "abort"} \X Sockets)]
    BY <1>2, SendTyped DEF R!CancelAll
  <2>2. QED
    BY <1>2, <2>1 DEF R!TypeOK, R!CancelAll
<1>3. QED
  BY <1>1, <1>2 DEF CancelAll

\* The records a ReconnectionManager can be.
Retries == [timer : BOOLEAN, attempt : 0..1]

LEMMA RetriesTyped ==
    /\ NoRetry \in Retries /\ ~NoRetry.timer
    /\ [timer |-> TRUE, attempt |-> 1] \in Retries
    /\ \A r \in Retries : [r EXCEPT !.timer = FALSE] \in Retries /\ ~[r EXCEPT !.timer = FALSE].timer
<1>1. 0 \in 0..1 /\ 1 \in 0..1
  OBVIOUS
<1>2. ASSUME NEW r \in Retries
      PROVE  [r EXCEPT !.timer = FALSE] \in Retries /\ ~[r EXCEPT !.timer = FALSE].timer
  <2>1. PICK b \in BOOLEAN, n \in 0..1 : r = [timer |-> b, attempt |-> n]
    BY <1>2 DEF Retries
  <2>2. \A off : [r EXCEPT !.timer = off] = [timer |-> off, attempt |-> n]
    BY <2>1
  <2>3. QED
    BY <2>2 DEF Retries
<1>3. QED
  BY <1>1, <1>2 DEF NoRetry, Retries

LEMMA DisconnectTyped ==
    ASSUME TypeOK, Disconnect, UNCHANGED <<handler, orphan, byRetry, silent>>,
           started' \in BOOLEAN, stops' \in 0..MaxStops
    PROVE  TypeOK'
<1>1. R!TypeOK'
  BY OverTyped, CancelTyped DEF Disconnect, TypeOK
<1>2. sock' \in [Sockets -> Places]
  BY CloseWsTyped DEF Disconnect
<1>3. QED
  BY <1>1, <1>2, RetriesTyped DEF TypeOK, Disconnect, Places, Retries

LEMMA NextTyped == TypeOK /\ [Next]_vars => TypeOK'
<1> SUFFICES ASSUME TypeOK, [Next]_vars  PROVE TypeOK'
  OBVIOUS
<1> USE TunnelAssumption
<1>0. ASSUME UNCHANGED requestVars  PROVE R!TypeOK'
  BY <1>0 DEF TypeOK, R!TypeOK, requestVars
<1>1. CASE UNCHANGED vars
  BY <1>0, <1>1 DEF vars, client, net, service, TypeOK
<1>2. CASE Start
  <2>1. sock' \in [Sockets -> Places] /\ state' \in {"disconnected", "connecting", "connected", "reconnecting"}
    BY <1>2, MoveTyped DEF Start, Begin, TypeOK, Places
  <2>2. QED
    BY <1>0, <1>2, <2>1 DEF Start, TypeOK, Places
<1>3. CASE RetryFires
  <2>1. /\ sock' \in [Sockets -> Places] /\ byRetry' \subseteq Sockets
        /\ state' \in {"disconnected", "connecting", "connected", "reconnecting"}
    BY <1>3, MoveTyped DEF RetryFires, Begin, TypeOK, Places
  <2>2. retry' \in Retries
    BY <1>3, RetriesTyped DEF RetryFires, TypeOK, Retries
  <2>3. QED
    BY <1>0, <1>3, <2>1, <2>2 DEF RetryFires, service, TypeOK, Places, Retries
<1>4. ASSUME NEW s \in Sockets,
             \/ Opens(s) \/ OpenFails(s) \/ OpenTimesOut(s) \/ StrayMoves(s)
             \/ Assigned(s) \/ FallsSilent(s)
      PROVE  TypeOK'
  <2>1. sock' \in [Sockets -> Places]
    BY <1>4, MoveTyped
    DEF Opens, OpenFails, OpenTimesOut, GiveUp, StrayMoves, Assigned, FallsSilent, TypeOK, Places
  <2>2. retry' \in Retries
    BY <1>4, RetriesTyped
    DEF Opens, OpenFails, OpenTimesOut, GiveUp, StrayMoves, Assigned, FallsSilent,
        client, StartReconnection, TypeOK, Retries
  <2>3. UNCHANGED <<requestVars, service>>
    BY <1>4 DEF Opens, OpenFails, OpenTimesOut, GiveUp, StrayMoves, Assigned, FallsSilent
  <2>4. QED
    BY <1>0, <1>4, <2>1, <2>2, <2>3
    DEF Opens, OpenFails, OpenTimesOut, GiveUp, StrayMoves, Assigned, FallsSilent,
        StartReconnection, client, service, TypeOK, Places, Retries
<1>5. CASE PingDue \/ Pong \/ PongMissed \/ OrphanFires
  <2>1. UNCHANGED <<requestVars, state, ws, retry, handler, orphan, byRetry, silent, service>>
    BY <1>5 DEF PingDue, Pong, PongMissed, OrphanFires, client, net
  <2>2. sock' \in [Sockets -> Places] /\ beat' \in {"off", "idle", "pinged"}
    BY <1>5, CloseWsTyped DEF PingDue, Pong, PongMissed, OrphanFires, client, net, TypeOK, Places
  <2>3. QED
    BY <1>0, <2>1, <2>2 DEF TypeOK, Places, service
<1>6. ASSUME NEW s \in Sockets, Closes(s)  PROVE TypeOK'
  <2>1. R!TypeOK'
    BY <1>6, OverTyped, CancelTyped DEF Closes, TypeOK, Ways
  <2>2. sock' \in [Sockets -> Places]
    BY <1>6, MoveTyped DEF Closes, Places
  <2>3. PICK code : HandleDisconnect(code)
    BY <1>6 DEF Closes
  <2>4. retry' \in Retries /\ state' \in {"disconnected", "connecting", "connected", "reconnecting"}
    BY <2>3, RetriesTyped DEF HandleDisconnect, StartReconnection, TypeOK, Retries
  <2>5. QED
    BY <1>6, <2>1, <2>2, <2>3, <2>4 DEF Closes, HandleDisconnect, service, TypeOK, Places, Retries
<1>7. ASSUME NEW s \in Sockets, Fatal(s)  PROVE TypeOK'
  BY <1>7, DisconnectTyped DEF Fatal, service, TypeOK
<1>8. CASE Stop
  <2>1. stops' \in 0..MaxStops
    BY <1>8 DEF Stop, TypeOK
  <2>2. QED
    BY <1>8, <2>1, DisconnectTyped DEF Stop
<1>9. ASSUME NEW q \in Requests, RequestGoesOn(q) \/ \E s \in Sockets : RequestArrives(s, q)
      PROVE  TypeOK'
  <2>1. R!TypeOK'
    BY <1>9, OverTyped, RequestsTyped DEF RequestGoesOn, RequestArrives, TypeOK
  <2>2. UNCHANGED <<client, net, service>>
    BY <1>9 DEF RequestGoesOn, RequestArrives
  <2>3. QED
    BY <2>1, <2>2 DEF client, net, service, TypeOK
<1>10. QED
  BY <1>1, <1>2, <1>3, <1>4, <1>5, <1>6, <1>7, <1>8, <1>9 DEF Next

LEMMA InitTyped == Init => TypeOK
<1> SUFFICES ASSUME Init  PROVE TypeOK
  OBVIOUS
<1>1. R!TypeOK
  BY DEF Init, R!Init, R!TypeOK
<1>2. stops \in 0..MaxStops /\ retry \in Retries
  BY TunnelAssumption, RetriesTyped DEF Init
<1>3. QED
  BY <1>1, <1>2 DEF Init, TypeOK, Retries

\* The type invariant.
THEOREM TunnelTypes == Spec => []TypeOK
  BY InitTyped, NextTyped, PTL DEF Spec
-----------------------------------------------------------------------------
(***************************************************************************)
(* One tunnel.  connect() looks at the state alone, so a second socket is  *)
(* avoided only because whatever leaves "connected" or "connecting" has    *)
(* lost its socket, and because the retry timer runs exactly in the state  *)
(* "reconnecting".                                                         *)
(***************************************************************************)
Alone ==
    /\ \A s, t \in Sockets : Served(s) /\ Served(t) => s = t
    /\ ~started => state = "disconnected" /\ \A s \in Sockets : sock[s] = "new"
    /\ retry.timer <=> state = "reconnecting"
    /\ retry.timer => \A s \in Sockets : ~Served(s)
    /\ \A s \in Sockets : Talks(s) => ws = s
    /\ beat # "off" <=> state = "connected"
    /\ state = "connected" => ws \in Sockets /\ sock[ws] \in {"assigned", "closing"}
    /\ ws # None => Attached(ws)
    /\ ~orphan

UpInv == stops = 0 => Alone

LEMMA StartsTimer == StartReconnection => retry'.timer /\ state' = "reconnecting"
  BY DEF StartReconnection

\* A new socket, when there is no other.
LEMMA BeginAlone ==
    ASSUME TypeOK, Alone, Connectable, \A t \in Sockets : ~Served(t),
           NEW s \in Sockets, Begin(s), started', ~retry'.timer, UNCHANGED <<ws, beat, orphan>>
    PROVE  Alone'
<1>1. /\ sock'[s] = "opening" /\ \A t \in Sockets \ {s} : sock'[t] = sock[t]
      /\ state' = "connecting" /\ beat = "off"
  BY MoveTyped DEF Begin, Places, Alone, Connectable, TypeOK
<1>2. ws = None
  BY DEF TypeOK, Alone, Served
<1>3. QED
  BY <1>1, <1>2 DEF Alone, Served, Attached, Talks

\* The only socket is gone.
LEMMA GoneAlone ==
    ASSUME TypeOK, Alone, NEW s \in Sockets, Served(s),
           NEW p \in {"closed", "late"}, Move(s, p), ~orphan', UNCHANGED started,
           ws' = None \/ (ws' = ws /\ sock[s] = "opening"),
           \/ StartReconnection
           \/ ~retry'.timer /\ state' \notin {"connected", "reconnecting"},
           beat' = "off"
    PROVE  Alone'
<1>1. /\ \A t \in Sockets : ~Served(t)' /\ ~Talks(t)'
      /\ started
  BY MoveTyped DEF Alone, Served, Attached, Talks, Places
<1>2. retry'.timer <=> state' = "reconnecting"
  BY StartsTimer
<1>3. state' # "connected"
  BY StartsTimer
<1>4. ws' = None
  BY DEF TypeOK, Alone, Served, Attached
<1>5. QED
  BY <1>1, <1>2, <1>3, <1>4 DEF Alone

\* close() keeps the socket until its close event.
LEMMA CloseWsAlone ==
    ASSUME TypeOK, Alone, CloseWs
    PROVE  /\ \A s \in Sockets : Served(s)' <=> Served(s)
           /\ \A s \in Sockets : ~Talks(s)'
           /\ \A s \in Sockets : sock[s] \in {"new", "assigned", "closing"} =>
                 sock'[s] \in {sock[s], "closing"} /\ (sock[s] = "new" => sock'[s] = "new")
  BY CloseWsTyped DEF Alone, Served, Attached, Talks

LEMMA StepAlone == TypeOK /\ UpInv /\ [Next]_vars => UpInv'
<1> SUFFICES ASSUME TypeOK, UpInv, [Next]_vars, stops' = 0  PROVE Alone'
  BY DEF UpInv
<1>0. stops = 0 /\ ~Stop
  <2>1. ~Stop
    BY DEF Stop, TypeOK
  <2>2. stops' = stops
    BY <2>1 DEF Next, vars, client, net, service, Start, RetryFires, PingDue, Pong, PongMissed,
       OrphanFires, Opens, OpenFails, OpenTimesOut, GiveUp, StrayMoves, Assigned, Closes, Fatal,
       FallsSilent, RequestGoesOn,
       RequestArrives
  <2>3. QED
    BY <2>1, <2>2
<1>1. Alone
  BY <1>0 DEF UpInv
<1>2. CASE \/ UNCHANGED vars \/ \E s \in Sockets : FallsSilent(s)
           \/ \E q \in Requests : RequestGoesOn(q) \/ \E s \in Sockets : RequestArrives(s, q)
  <2>1. UNCHANGED <<client, sock, service>>
    BY <1>2 DEF vars, FallsSilent, RequestGoesOn, RequestArrives, net
  <2>2. QED
    BY <1>1, <2>1 DEF Alone, Served, Attached, Talks, client, service
<1>3. CASE Start
  <2>1. ~started /\ Connectable /\ ~retry.timer
    BY <1>1, <1>3 DEF Start, Alone, Connectable
  <2>2. PICK s \in Sockets : Begin(s)
    BY <1>3, <2>1 DEF Start
  <2>3. \A t \in Sockets : ~Served(t)
    BY <1>1, <2>1 DEF Alone, Served, Attached
  <2>4. QED
    BY <1>1, <1>3, <2>1, <2>2, <2>3, BeginAlone DEF Start
<1>4. CASE RetryFires
  <2>1. retry.timer /\ Connectable /\ started /\ \A t \in Sockets : ~Served(t)
    BY <1>1, <1>4 DEF RetryFires, Alone, Connectable
  <2>2. PICK s \in Sockets : Begin(s) /\ retry' = [retry EXCEPT !.timer = FALSE]
    BY <1>4, <2>1 DEF RetryFires
  <2>3. ~retry'.timer
    BY <2>2, RetriesTyped DEF TypeOK, Retries
  <2>4. QED
    BY <1>1, <1>4, <2>1, <2>2, <2>3, BeginAlone DEF RetryFires, service
<1>5. ASSUME NEW s \in Sockets, Opens(s)  PROVE Alone'
  <2>1. /\ sock'[s] = "open" /\ \A t \in Sockets \ {s} : sock'[t] = sock[t] /\ ~Served(t)
        /\ sock[s] = "opening" /\ started /\ state # "connected" /\ ~retry.timer
        /\ UNCHANGED <<state, started, beat, orphan>> /\ ws' = s
    BY <1>1, <1>5, MoveTyped DEF Opens, Alone, Served, Attached, Places, service
  <2>2. ~retry'.timer
    BY <1>5, <2>1, RetriesTyped DEF Opens
  <2>3. QED
    BY <1>1, <2>1, <2>2 DEF Alone, Served, Attached, Talks
<1>6. ASSUME NEW s \in Sockets, OpenFails(s) \/ OpenTimesOut(s)  PROVE Alone'
  <2>1. Served(s) /\ beat = "off"
    BY <1>1, <1>6 DEF OpenFails, OpenTimesOut, GiveUp, Alone, Served, Attached, TypeOK
  <2>2. QED
    BY <1>1, <1>6, <2>1, GoneAlone DEF OpenFails, OpenTimesOut, GiveUp, service, Alone
<1>7. ASSUME NEW s \in Sockets, Assigned(s)  PROVE Alone'
  <2>1. /\ sock'[s] = "assigned" /\ \A t \in Sockets \ {s} : sock'[t] = sock[t] /\ ~Served(t)
        /\ sock[s] = "open" /\ started /\ ws = s /\ ~retry.timer /\ beat = "off"
        /\ state' = "connected" /\ beat' = "pinged" /\ orphan' = (orphan \/ beat # "off")
        /\ UNCHANGED <<ws, retry, started>>
    BY <1>1, <1>7, MoveTyped DEF Assigned, Alone, Served, Attached, Talks, Places, service
  <2>2. QED
    BY <1>1, <2>1 DEF Alone, Served, Attached, Talks
<1>8. CASE PingDue \/ Pong
  BY <1>1, <1>8 DEF PingDue, Pong, net, service, Alone, Served, Attached, Talks
<1>9. CASE PongMissed
  BY <1>1, <1>9, CloseWsAlone DEF PongMissed, service, Alone, Served, Attached
<1>10. CASE OrphanFires
  BY <1>1, <1>10 DEF OrphanFires, Alone
<1>11. ASSUME NEW s \in Sockets, Closes(s)  PROVE Alone'
  <2>1. Served(s) /\ ~retry.timer /\ Move(s, "closed") /\ ~orphan' /\ UNCHANGED started
    BY <1>1, <1>11 DEF Closes, Alone, Served, Attached, service
  <2>2. PICK code \in Codes : HandleDisconnect(code)
    BY <1>11 DEF Closes
  <2>3. \/ StartReconnection
        \/ ~retry'.timer /\ state' \notin {"connected", "reconnecting"}
    BY <2>1, <2>2 DEF HandleDisconnect
  <2>4. QED
    BY <1>1, <2>1, <2>2, <2>3, GoneAlone DEF HandleDisconnect
<1>12. ASSUME NEW s \in Sockets, Fatal(s)  PROVE Alone'
  <2>1. /\ CloseWs /\ state' = "disconnected" /\ beat' = "off" /\ retry' = NoRetry
        /\ ws' = None /\ UNCHANGED <<orphan, started>>
    BY <1>12 DEF Fatal, Disconnect, service
  <2>2. ~retry'.timer
    BY <2>1, RetriesTyped
  <2>3. QED
    BY <1>1, <2>1, <2>2, CloseWsAlone DEF Alone, Served, Attached
<1>13. ASSUME NEW s \in Sockets, StrayMoves(s)  PROVE Alone'
  <2>1. /\ ~Served(s) /\ sock[s] # "new" /\ ~Served(s)' /\ sock'[s] # "new"
        /\ \A t \in Sockets \ {s} : sock'[t] = sock[t]
        /\ UNCHANGED <<state, ws, retry, beat, orphan, started>>
    BY <1>13, MoveTyped DEF StrayMoves, Served, Attached, Places, client, service
  <2>2. /\ \A t \in Sockets : (Served(t)' <=> Served(t)) /\ (Talks(t)' <=> Talks(t))
        /\ \A t \in Sockets : (Attached(t)' <=> Attached(t)) /\ (sock'[t] = "new" <=> sock[t] = "new")
    BY <2>1 DEF Served, Attached, Talks
  <2>3. ws \in Sockets => sock'[ws] = sock[ws] \/ state # "connected"
    BY <1>1, <2>1 DEF Alone, Served, Attached
  <2>4. ws # None => Attached(ws)'
    BY <1>1, <2>1, <2>2 DEF Alone, TypeOK, Attached
  <2>5. QED
    BY <1>1, <2>1, <2>2, <2>3, <2>4 DEF Alone
<1>14. QED
  BY <1>0, <1>2, <1>3, <1>4, <1>5, <1>6, <1>7, <1>8, <1>9, <1>10, <1>11, <1>12, <1>13 DEF Next

LEMMA TunnelInvariant == Spec => [](TypeOK /\ UpInv)
<1>1. Init => UpInv
  BY DEF Init, UpInv, Alone, Served, Attached, Talks, NoRetry
<1>2. QED
  BY <1>1, InitTyped, NextTyped, StepAlone, PTL DEF Spec

\* However often the connection was lost and retried, the client opens or
\* serves one socket; those whose opening timed out it never takes up again.
THEOREM TunnelsServedAlone == Spec => []OneServedTunnel
<1>1. UpInv => OneServedTunnel
  BY DEF UpInv, Alone, OneServedTunnel
<1>2. QED
  BY <1>1, TunnelInvariant, PTL

\* "connected" is never said of a socket that is gone, or has no heartbeat.
THEOREM ConnectedTunnelsAreReal == Spec => []ConnectedIsReal
<1>1. TypeOK /\ UpInv => ConnectedIsReal
  BY TunnelAssumption DEF UpInv, Alone, ConnectedIsReal
<1>2. QED
  BY <1>1, TunnelInvariant, PTL

\* No path into "reconnecting" leaves the retry timer off, and none out of it on.
THEOREM RetriesArePending == Spec => []RetryPending
<1>1. UpInv => RetryPending
  BY DEF UpInv, Alone, RetryPending
<1>2. QED
  BY <1>1, TunnelInvariant, PTL
-----------------------------------------------------------------------------
(***************************************************************************)
(* Requests.  A request comes over a socket that has opened, so no socket  *)
(* that opens later takes its answer; and whatever closes this.ws leaves   *)
(* nothing to answer over.                                                 *)
(***************************************************************************)
AskedInv == \A q \in Requests :
    asked[q] # None => asked[q] \in Sockets /\ sock[asked[q]] \notin {"new", "opening"}

AnsweredInv == TypeOK /\ AskedInv /\ RequestsAnswered

LEMMA StepAnswered == AnsweredInv /\ [Next]_vars => (AskedInv /\ RequestsAnswered)'
<1> SUFFICES ASSUME AnsweredInv, [Next]_vars  PROVE (AskedInv /\ RequestsAnswered)'
  OBVIOUS
<1> USE TunnelAssumption
<1>0. TypeOK /\ AskedInv /\ RequestsAnswered /\ Over \in Ways
  BY OverTyped DEF AnsweredInv
<1>1. ASSUME UNCHANGED <<asked, holder, answers>>, Over' \in {Over, None},
             \A s \in Sockets : sock'[s] \in {"new", "opening"} => sock[s] \in {"new", "opening"}
      PROVE  (AskedInv /\ RequestsAnswered)'
  BY <1>0, <1>1 DEF AskedInv, RequestsAnswered
<1>2. ASSUME UNCHANGED asked, Over' = None,
             \A s \in Sockets : sock'[s] \in {"new", "opening"} => sock[s] \in {"new", "opening"}
      PROVE  (AskedInv /\ RequestsAnswered)'
  BY <1>0, <1>2 DEF AskedInv, RequestsAnswered
<1>3. CASE \/ UNCHANGED vars \/ PingDue \/ Pong \/ \E s \in Sockets : FallsSilent(s)
  <2>1. UNCHANGED <<ws, sock, requestVars>>
    BY <1>3 DEF vars, client, net, PingDue, Pong, FallsSilent
  <2>2. Over' = Over
    BY <2>1 DEF Over, Talks
  <2>3. QED
    BY <1>1, <2>1, <2>2 DEF requestVars
<1>4. CASE Start \/ RetryFires
  <2>1. UNCHANGED <<ws, requestVars>> /\ (sock' = sock \/ \E s \in Sockets : Begin(s))
    BY <1>4 DEF Start, RetryFires
  <2>2. \A s \in Sockets : sock'[s] = sock[s] \/ (sock[s] = "new" /\ sock'[s] = "opening")
    <3>1. ASSUME NEW s \in Sockets, Begin(s)
          PROVE  \A t \in Sockets : sock'[t] = sock[t] \/ (sock[t] = "new" /\ sock'[t] = "opening")
      BY <1>0, <3>1, MoveTyped DEF Begin, Places
    <3>2. QED
      BY <2>1, <3>1
  <2>3. Over' = Over
    BY <1>0, <2>1, <2>2 DEF Over, Talks, TypeOK
  <2>4. QED
    BY <1>1, <2>1, <2>2, <2>3 DEF requestVars
<1>5. ASSUME NEW s \in Sockets, Opens(s)  PROVE (AskedInv /\ RequestsAnswered)'
  <2>1. /\ sock[s] = "opening" /\ sock'[s] = "open" /\ ws' = s
        /\ \A t \in Sockets \ {s} : sock'[t] = sock[t]
        /\ UNCHANGED <<asked, holder, answers>>
    BY <1>0, <1>5, MoveTyped DEF Opens, Places, requestVars
  <2>2. Over' = s /\ \A q \in Requests : asked[q] # s
    BY <1>0, <2>1 DEF Over, Talks, AskedInv
  <2>3. QED
    BY <1>0, <2>1, <2>2 DEF AskedInv, RequestsAnswered
<1>6. ASSUME NEW s \in Sockets,
             OpenFails(s) \/ OpenTimesOut(s) \/ StrayMoves(s) \/ Assigned(s)
      PROVE  (AskedInv /\ RequestsAnswered)'
  <2>1. /\ \/ sock[s] \in {"opening", "late", "stray"} /\ sock'[s] \in {"closed", "late", "stray"}
           \/ sock[s] = "open" /\ sock'[s] = "assigned"
        /\ \A t \in Sockets \ {s} : sock'[t] = sock[t]
        /\ UNCHANGED <<ws, asked, holder, answers>>
    BY <1>0, <1>6, MoveTyped
    DEF OpenFails, OpenTimesOut, GiveUp, StrayMoves, Assigned, Places, client, requestVars
  <2>2. Over' = Over
    BY <1>0, <2>1 DEF Over, Talks, TypeOK
  <2>3. QED
    BY <1>1, <2>1, <2>2
<1>7. CASE PongMissed \/ OrphanFires
  <2>1. CloseWs /\ UNCHANGED <<ws, requestVars>>
    BY <1>7 DEF PongMissed, OrphanFires, client
  <2>2. Over' \in {Over, None} /\
        \A s \in Sockets : sock'[s] \in {"new", "opening"} => sock[s] \in {"new", "opening"}
    BY <1>0, <2>1, CloseWsTyped DEF Over, Talks, TypeOK
  <2>3. QED
    BY <1>1, <2>1, <2>2 DEF requestVars
<1>8. CASE Stop \/ \E s \in Sockets : Fatal(s)
  <2>1. CloseWs /\ ws' = None /\ UNCHANGED asked
    BY <1>8 DEF Stop, Fatal, Disconnect, CancelAll, requestVars, R!CancelAll
  <2>2. \A s \in Sockets : sock'[s] \in {"new", "opening"} => sock[s] \in {"new", "opening"}
    BY <1>0, <2>1, CloseWsTyped
  <2>3. QED
    BY <1>2, <2>1, <2>2 DEF Over
<1>9. ASSUME NEW s \in Sockets, Closes(s)  PROVE (AskedInv /\ RequestsAnswered)'
  <2>1. Move(s, "closed") /\ ws' = None /\ UNCHANGED asked
    BY <1>9 DEF Closes, HandleDisconnect, CancelAll, requestVars, R!CancelAll
  <2>2. \A t \in Sockets : sock'[t] \in {"new", "opening"} => sock[t] \in {"new", "opening"}
    BY <1>0, <2>1, MoveTyped DEF Places
  <2>3. QED
    BY <1>2, <2>1, <2>2 DEF Over
<1>10. ASSUME NEW q \in Requests, NEW s \in Sockets, RequestArrives(s, q)
       PROVE  (AskedInv /\ RequestsAnswered)'
  <2>1. /\ UNCHANGED <<ws, sock>> /\ Talks(s) /\ handler \in Sockets
        /\ R!HandleRequest(q, s, handler, Over)
    BY <1>0, <1>10 DEF RequestArrives, client, net, TypeOK
  <2>2. Over' = Over
    BY <2>1 DEF Over, Talks
  <2>3. asked'[q] = s /\ \A p \in Requests \ {q} : asked'[p] = asked[p]
    BY <1>0, <2>1 DEF R!HandleRequest, TypeOK, R!TypeOK
  <2>4. \A p \in Requests \ {q} : holder'[p] = holder[p] /\ answers'[p] = answers[p]
    BY <1>0, <2>1 DEF R!HandleRequest, R!Send, TypeOK, R!TypeOK
  <2>5. s = Over => holder'[q] # None \/ answers'[q] # {}
    <3>1. s # None /\ handler # None
      BY <2>1
    <3>2. CASE R!Send({q}, "abort", Over)
      <4>1. Over # None => answers'[q] = answers[q] \cup {<<"abort", Over>>}
        BY <3>2 DEF R!Send
      <4>2. QED
        BY <3>1, <4>1
    <3>3. CASE holder' = [holder EXCEPT ![q] = handler]
      BY <1>0, <3>1, <3>3 DEF TypeOK, R!TypeOK
    <3>4. QED
      BY <2>1, <3>2, <3>3 DEF R!HandleRequest
  <2>6. AskedInv'
    <3>1. sock'[s] \notin {"new", "opening"} /\ sock' = sock
      BY <2>1 DEF Talks
    <3>2. QED
      BY <1>0, <2>1, <2>3, <3>1 DEF AskedInv
  <2>7. RequestsAnswered'
    <3>1. ASSUME NEW p \in Requests, asked'[p] # None, asked'[p] = Over'
          PROVE  holder'[p] # None \/ answers'[p] # {}
      <4>1. CASE p = q
        BY <2>2, <2>3, <2>5, <3>1, <4>1
      <4>2. CASE p # q
        BY <1>0, <2>2, <2>3, <2>4, <3>1, <4>2 DEF RequestsAnswered
      <4>3. QED
        BY <4>1, <4>2
    <3>2. QED
      BY <3>1 DEF RequestsAnswered
  <2>8. QED
    BY <2>6, <2>7
<1>11. ASSUME NEW q \in Requests, RequestGoesOn(q)  PROVE (AskedInv /\ RequestsAnswered)'
  <2>1. UNCHANGED <<ws, sock, asked>> /\ (R!Fetched(q, Over) \/ R!TimesOut(q, Over))
    BY <1>11 DEF RequestGoesOn, client, net, R!Fetched, R!TimesOut
  <2>2. Over' = Over
    BY <2>1 DEF Over, Talks
  <2>3. \A p \in Requests \ {q} : holder'[p] = holder[p] /\ answers'[p] = answers[p]
    BY <1>0, <2>1 DEF R!Fetched, R!TimesOut, R!Send, TypeOK, R!TypeOK
  <2>4. ASSUME Over # None  PROVE answers'[q] # {}
    <3>1. PICK kind \in {"response", "abort"} : R!Send({q}, kind, Over)
      BY <2>1 DEF R!Fetched, R!TimesOut
    <3>2. answers'[q] = answers[q] \cup {<<kind, Over>>}
      BY <2>4, <3>1 DEF R!Send
    <3>3. QED
      BY <3>2
  <2>5. QED
    BY <1>0, <2>1, <2>2, <2>3, <2>4 DEF AskedInv, RequestsAnswered
<1>12. QED
  BY <1>3, <1>4, <1>5, <1>6, <1>7, <1>8, <1>9, <1>10, <1>11 DEF Next

\* No request is forgotten on a connection that is up.
THEOREM RequestsAreAnswered == Spec => []RequestsAnswered
<1>1. Init => AnsweredInv
  BY InitTyped DEF Init, R!Init, AnsweredInv, AskedInv, RequestsAnswered
<1>2. AnsweredInv /\ [Next]_vars => AnsweredInv'
  BY NextTyped, StepAnswered DEF AnsweredInv
<1>3. AnsweredInv => RequestsAnswered
  BY DEF AnsweredInv
<1>4. QED
  BY <1>1, <1>2, <1>3, PTL DEF Spec
=============================================================================
