--------------------------- MODULE CdpProxyProofs ---------------------------
(***************************************************************************)
(* CdpProxy for every set of calls and every plan: it uses the mutex as    *)
(* AsyncMutex prescribes, so that what is proved of the mutex holds of the *)
(* proxy, and with it that one mediated command at a time is in flight.    *)
(***************************************************************************)
EXTENDS CdpProxy, TLAPS

MP == INSTANCE AsyncMutexProofs WITH Tickets <- Calls \X {"outer", "inner"}

LEMMA TicketsDiffer ==
    ASSUME NEW c \in Calls, NEW d \in Calls
    PROVE  /\ Outer(c) \in Calls \X {"outer", "inner"}
           /\ Inner(c) \in Calls \X {"outer", "inner"}
           /\ Outer(c) # Inner(d)
           /\ Outer(c) = Outer(d) => c = d
           /\ Inner(c) = Inner(d) => c = d
  BY DEF Outer, Inner

\* Each step of the proxy acquires, releases, or leaves the mutex alone.
LEMMA StepUsesMutex == [Next]_vars => [MP!Next]_MP!mutexVars
<1> SUFFICES ASSUME [Next]_vars  PROVE [MP!Next]_MP!mutexVars
  OBVIOUS
<1>1. ASSUME NEW c \in Calls, M!Acquire(Outer(c)) \/ M!Acquire(Inner(c))  PROVE MP!Next
  BY <1>1, TicketsDiffer DEF M!Acquire, M!Free, MP!Acquire, MP!Free, MP!Next
<1>2. ASSUME NEW c \in Calls, M!Release(Outer(c))  PROVE MP!Next
  BY <1>2, TicketsDiffer DEF M!Release, M!Wake, M!HandOn, MP!Release, MP!Wake, MP!HandOn, MP!Next
<1>3. ASSUME UNCHANGED mutexVars  PROVE UNCHANGED MP!mutexVars
  BY <1>3 DEF mutexVars, MP!mutexVars
<1>4. CASE UNCHANGED vars
  BY <1>3, <1>4 DEF vars
<1>5. ASSUME Drops \/ Reconnects \/ Disconnect  PROVE UNCHANGED MP!mutexVars
  BY <1>3, <1>5 DEF Drops, Reconnects, Disconnect
<1>6. ASSUME NEW c \in Calls, Call(c) \/ Connected(c)  PROVE [MP!Next]_MP!mutexVars
  BY <1>1, <1>3, <1>6 DEF Call, Connected, Enter, Bypass
<1>7. ASSUME NEW c \in Calls,
             \/ ConnectFails(c) \/ LocalStep(c) \/ StartCommand(c) \/ CommandOk(c)
             \/ UnmediatedEnds(c) \/ DialOk(c) \/ PollSees(c) \/ LeavesApart(c)
      PROVE  UNCHANGED MP!mutexVars
  BY <1>3, <1>7 DEF ConnectFails, LocalStep, StartCommand, CommandOk, UnmediatedEnds, BypassEnds,
     DialOk, PollSees, LeavesApart
<1>8. ASSUME NEW c \in Calls, Leave(c) \/ StepThrows(c) \/ RenewFails(c) \/ DialFails(c)
      PROVE  [MP!Next]_MP!mutexVars
  BY <1>2, <1>3, <1>8 DEF Leave, StepThrows, RenewFails, DialFails, Throw, BypassEnds, FreeMutex
<1>9. ASSUME NEW c \in Calls, StartCapture(c) \/ Reconnected(c)  PROVE [MP!Next]_MP!mutexVars
  BY <1>1, <1>3, <1>9 DEF StartCapture, Reconnected, Nest
<1>10. QED
  BY <1>4, <1>5, <1>6, <1>7, <1>8, <1>9 DEF Next, CallStep, SocketStep

\* The proxy is a client of the mutex.
LEMMA ProxyUsesMutex == Spec => MP!Spec
<1>1. Init => MP!Init
  BY DEF Init, M!Init, MP!Init
<1>2. QED
  BY <1>1, StepUsesMutex, PTL DEF Spec, MP!Spec

LEMMA ProxyMutexInv == Spec => []MP!MutexInv
  BY ProxyUsesMutex, MP!MutexInvariant, PTL

\* The invariants of the mutex under the callers of the proxy.
THEOREM ProxyMutexIsExact == Spec => []MutexIsExact
<1>1. MP!MutexInv => MutexIsExact
  BY DEF MP!MutexInv, MP!MutualExclusion, MP!LockedWhileOwned, MP!QueueIsExact,
         MutexIsExact, M!MutualExclusion, M!LockedWhileOwned, M!QueueIsExact
<1>2. QED
  BY <1>1, ProxyMutexInv, PTL

\* Calls are served in the order in which they asked for the mutex.
THEOREM ProxyServesInOrder == Spec => ServedInOrder
<1>1. Spec => MP!FirstComeFirstServed
  BY ProxyUsesMutex, MP!MutexServesInOrder, PTL
<1>2. QED
  BY <1>1 DEF ServedInOrder, M!FirstComeFirstServed, MP!FirstComeFirstServed, M!mutexVars, MP!mutexVars
-----------------------------------------------------------------------------
\* The steps that run while a call holds the mutex.
InsideSection == {"flight", "renewing", "nested"}

(***************************************************************************)
(* TicketsMatchCalls says that a call in the section has asked for the     *)
(* mutex; the rest says that one past the first await of the section has   *)
(* got it, and that its nested capture never does.                         *)
(***************************************************************************)
IInv ==
    /\ TypeOK
    /\ TicketsMatchCalls
    /\ \A c \in Calls : pc[c] \in InsideSection => at[Outer(c)] = "in"
    /\ NestedWaitsForItself
    /\ \A c \in Calls : pc[c] = "flight" => step[c] <= Len(Plan[c])

LEMMA InitIInv == Init => IInv
<1> SUFFICES ASSUME Init  PROVE IInv
  OBVIOUS
<1>1. /\ client = "none" /\ line \in [Calls -> Lines] /\ \A c \in Calls : pc[c] = "idle" /\ step[c] = 1
      /\ \A c \in Calls : at[Outer(c)] = "out" /\ at[Inner(c)] = "out"
  BY TicketsDiffer DEF Init, M!Init, Lines
<1>2. \A c \in Calls : Len(Plan[c]) \in Nat
  BY ProxyAssumption
<1>3. M!TypeOK
  <2>1. <<>> \in Seq(Calls \X {"outer", "inner"})
    OBVIOUS
  <2>2. at \in [Calls \X {"outer", "inner"} -> {"out", "waiting", "in"}]
    BY DEF Init, M!Init
  <2>3. QED
    BY <2>1, <2>2 DEF Init, M!Init, M!TypeOK
<1>4. pc \in [Calls -> Places] /\ step \in [Calls -> Nat \ {0}]
  BY DEF Init, Places
<1>5. TypeOK
  <2>1. ASSUME NEW c \in Calls  PROVE step[c] <= Len(Plan[c]) + 1
    <3>1. step[c] = 1 /\ Len(Plan[c]) \in Nat
      BY <1>1, <1>2
    <3>2. QED
      BY <3>1
  <2>2. QED
    BY <1>1, <1>3, <1>4, <2>1 DEF TypeOK
<1>6. QED
  BY <1>1, <1>5 DEF IInv, InsideSection, TicketsMatchCalls, NestedWaitsForItself

\* acquire() moves its own ticket; so does release(), which may let one in.
LEMMA MutexEffects ==
    ASSUME MP!MutexInv, NEW t \in Calls \X {"outer", "inner"}
    PROVE  /\ M!Acquire(t) =>
                /\ at[t] = "out" /\ at'[t] # "out" /\ (locked => at'[t] = "waiting")
                /\ \A u \in Calls \X {"outer", "inner"} : u # t => at'[u] = at[u]
           /\ M!Release(t) =>
                /\ at[t] = "in" /\ at'[t] = "out"
                /\ \A u \in Calls \X {"outer", "inner"} : u # t =>
                      at[u] # "in" /\ (at'[u] = "out" <=> at[u] = "out")
  BY MP!MutexEffects DEF M!Acquire, M!Free, M!Release, M!Wake, M!HandOn,
     MP!Acquire, MP!Free, MP!Release, MP!Wake, MP!HandOn

\* The parts of IInv that do not speak of the mutex's own types.
AtPlaces ==
    /\ pc \in [Calls -> Places]
    /\ TicketsMatchCalls
    /\ \A c \in Calls : pc[c] \in InsideSection => at[Outer(c)] = "in"
    /\ NestedWaitsForItself

\* Leaving the tickets alone, a call may move within the section or outside it.
LEMMA MoveKeepsPlaces ==
    ASSUME AtPlaces, NEW c \in Calls, NEW p \in Places, p # "nested", pc[c] # "nested",
           Goto(c, p), UNCHANGED at,
           p \in {"section", "flight", "renewing"} <=> pc[c] \in {"section", "flight", "renewing"},
           p \in InsideSection => at[Outer(c)] = "in"
    PROVE  AtPlaces'
<1>1. /\ pc' \in [Calls -> Places] /\ pc'[c] = p /\ at' = at
      /\ \A d \in Calls \ {c} : pc'[d] = pc[d]
  BY DEF AtPlaces, Goto
<1>2. \A d \in Calls : Outer(d)' = Outer(d) /\ Inner(d)' = Inner(d)
  BY DEF Outer, Inner
<1>3. QED
  BY <1>1, <1>2 DEF AtPlaces, TicketsMatchCalls, NestedWaitsForItself, InsideSection
\* A call asks for the mutex on its way into the section.
LEMMA EnterKeepsPlaces ==
    ASSUME AtPlaces, MP!MutexInv, NEW c \in Calls, pc[c] \in {"idle", "connecting"},
           Goto(c, "section"), M!Acquire(Outer(c))
    PROVE  AtPlaces'
<1>1. /\ pc' \in [Calls -> Places] /\ pc'[c] = "section"
      /\ \A d \in Calls \ {c} : pc'[d] = pc[d]
  BY DEF AtPlaces, Goto, Places
<1>2. /\ at'[Outer(c)] # "out"
      /\ \A d \in Calls : at'[Inner(d)] = at[Inner(d)]
      /\ \A d \in Calls \ {c} : at'[Outer(d)] = at[Outer(d)]
  BY MutexEffects, TicketsDiffer
<1>3. \A d \in Calls : Outer(d)' = Outer(d) /\ Inner(d)' = Inner(d)
  BY DEF Outer, Inner
<1>4. QED
  BY <1>1, <1>2, <1>3 DEF AtPlaces, TicketsMatchCalls, NestedWaitsForItself, InsideSection

\* The finally block, on success and on an exception.
LEMMA LeaveKeepsPlaces ==
    ASSUME AtPlaces, MP!MutexInv, NEW c \in Calls,
           pc[c] \in {"section", "flight", "renewing"},
           Goto(c, "done"), M!Release(Outer(c))
    PROVE  AtPlaces'
<1>1. /\ pc' \in [Calls -> Places] /\ pc'[c] = "done"
      /\ \A d \in Calls \ {c} : pc'[d] = pc[d]
  BY DEF AtPlaces, Goto, Places
<1>2. /\ at'[Outer(c)] = "out"
      /\ \A d \in Calls : at[Inner(d)] # "in" /\ (at'[Inner(d)] = "out" <=> at[Inner(d)] = "out")
      /\ \A d \in Calls \ {c} :
            at[Outer(d)] # "in" /\ (at'[Outer(d)] = "out" <=> at[Outer(d)] = "out")
  BY MutexEffects, TicketsDiffer
<1>3. \A d \in Calls : Outer(d)' = Outer(d) /\ Inner(d)' = Inner(d)
  BY DEF Outer, Inner
\* No other call is past the mutex, hence none is nested.
<1>4. \A d \in Calls : pc'[d] \notin InsideSection
  BY <1>1, <1>2 DEF AtPlaces, InsideSection
<1>5. TicketsMatchCalls'
  BY <1>1, <1>2, <1>3 DEF AtPlaces, TicketsMatchCalls
<1>6. QED
  BY <1>1, <1>3, <1>4, <1>5 DEF AtPlaces, NestedWaitsForItself, InsideSection

\* A nested capture finds the mutex locked, by its own plan.
LEMMA NestKeepsPlaces ==
    ASSUME AtPlaces, MP!MutexInv, NEW c \in Calls, pc[c] \in {"section", "renewing"},
           at[Outer(c)] = "in", Nest(c)
    PROVE  AtPlaces'
<1>1. /\ pc' \in [Calls -> Places] /\ pc'[c] = "nested"
      /\ \A d \in Calls \ {c} : pc'[d] = pc[d]
  BY DEF AtPlaces, Nest, Goto, Places
<1>2. locked
  <2>1. Outer(c) \in Calls \X {"outer", "inner"}
    BY TicketsDiffer
  <2>2. QED
    BY <2>1 DEF MP!MutexInv, MP!LockedWhileOwned
<1>3. /\ at'[Inner(c)] = "waiting"
      /\ \A d \in Calls : at'[Outer(d)] = at[Outer(d)]
      /\ \A d \in Calls \ {c} : at'[Inner(d)] = at[Inner(d)]
  BY <1>2, MutexEffects, TicketsDiffer DEF Nest
<1>4. \A d \in Calls : Outer(d)' = Outer(d) /\ Inner(d)' = Inner(d)
  BY DEF Outer, Inner
<1>5. QED
  BY <1>1, <1>3, <1>4 DEF AtPlaces, TicketsMatchCalls, NestedWaitsForItself, InsideSection

LEMMA StepAtPlaces == IInv /\ MP!MutexInv /\ [Next]_vars => AtPlaces'
<1> SUFFICES ASSUME IInv, MP!MutexInv, [Next]_vars  PROVE AtPlaces'
  OBVIOUS
<1>1. AtPlaces
  BY DEF IInv, TypeOK, AtPlaces
<1>2. ASSUME UNCHANGED <<pc, mutexVars>>  PROVE AtPlaces'
  <2>1. pc' = pc /\ at' = at
    BY <1>2 DEF mutexVars
  <2>2. \A d \in Calls : Outer(d)' = Outer(d) /\ Inner(d)' = Inner(d)
    BY DEF Outer, Inner
  <2>3. QED
    BY <1>1, <2>1, <2>2 DEF AtPlaces, TicketsMatchCalls, NestedWaitsForItself
<1>3. ASSUME NEW c \in Calls, Call(c)  PROVE AtPlaces'
  <2>1. ASSUME NEW p \in {"connecting", "unmediated"}, Goto(c, p), UNCHANGED mutexVars
        PROVE  AtPlaces'
    BY <1>1, <1>3, <2>1, MoveKeepsPlaces DEF Call, Places, InsideSection, mutexVars
  <2>2. QED
    BY <1>1, <1>3, <2>1, EnterKeepsPlaces DEF Call, Enter, Bypass
<1>4. ASSUME NEW c \in Calls, Connected(c)  PROVE AtPlaces'
  <2>1. ASSUME Goto(c, "unmediated"), UNCHANGED mutexVars  PROVE AtPlaces'
    BY <1>1, <1>4, <2>1, MoveKeepsPlaces DEF Connected, Places, InsideSection, mutexVars
  <2>2. QED
    BY <1>1, <1>4, <2>1, EnterKeepsPlaces DEF Connected, Enter, Bypass
<1>5. ASSUME NEW c \in Calls, ConnectFails(c) \/ UnmediatedEnds(c)  PROVE AtPlaces'
  BY <1>1, <1>5, MoveKeepsPlaces
     DEF ConnectFails, UnmediatedEnds, BypassEnds, Places, InsideSection, mutexVars
<1>6. ASSUME NEW c \in Calls, LocalStep(c) \/ DialOk(c) \/ PollSees(c) \/ LeavesApart(c)
      PROVE  AtPlaces'
  BY <1>2, <1>6 DEF LocalStep, DialOk, PollSees, LeavesApart
<1>7. ASSUME NEW c \in Calls, StartCommand(c) \/ CommandOk(c)  PROVE AtPlaces'
  BY <1>1, <1>7, MoveKeepsPlaces
     DEF StartCommand, CommandOk, AtStep, Inside, Places, InsideSection, mutexVars, AtPlaces
<1>8. ASSUME NEW c \in Calls, Leave(c) \/ StepThrows(c) \/ RenewFails(c) \/ DialFails(c)
      PROVE  AtPlaces'
  <2>1. CASE pc[c] = "unmediated" /\ BypassEnds(c)
    BY <1>1, <2>1, MoveKeepsPlaces DEF BypassEnds, Places, InsideSection, mutexVars
  <2>2. CASE Leave(c) \/ StepThrows(c) \/ RenewFails(c) \/ (pc[c] = "flight" /\ Throw(c))
    BY <1>1, <2>2, LeaveKeepsPlaces DEF Leave, StepThrows, RenewFails, Throw, FreeMutex, AtStep, Inside
  <2>3. QED
    BY <1>8, <2>1, <2>2 DEF DialFails
<1>9. ASSUME NEW c \in Calls, StartCapture(c)  PROVE AtPlaces'
  <2>1. pc[c] = "section" /\ at[Outer(c)] = "in"
    BY <1>9 DEF StartCapture, AtStep, Inside
  <2>2. CASE Nest(c)
    BY <1>1, <2>1, <2>2, NestKeepsPlaces
  <2>3. CASE Goto(c, "renewing") /\ UNCHANGED mutexVars
    BY <1>1, <2>1, <2>3, MoveKeepsPlaces DEF Places, InsideSection, mutexVars
  <2>4. QED
    BY <1>9, <2>2, <2>3 DEF StartCapture
<1>10. ASSUME NEW c \in Calls, Reconnected(c)  PROVE AtPlaces'
  BY <1>1, <1>10, NestKeepsPlaces DEF Reconnected, AtPlaces, InsideSection
<1>11. CASE Drops \/ Reconnects \/ Disconnect
  BY <1>2, <1>11 DEF Drops, Reconnects, Disconnect
<1>12. CASE UNCHANGED vars
  BY <1>2, <1>12 DEF vars
<1>13. QED
  BY <1>3, <1>4, <1>5, <1>6, <1>7, <1>8, <1>9, <1>10, <1>11, <1>12 DEF Next, CallStep, SocketStep

\* Whatever the client does, it stays one of three and commands on one of the lines.
LEMMA StepWires ==
    TypeOK /\ [Next]_vars => client' \in {"none", "up", "down"} /\ line' \in [Calls -> Lines]
<1> SUFFICES ASSUME TypeOK, [Next]_vars
             PROVE  client' \in {"none", "up", "down"} /\ line' \in [Calls -> Lines]
  OBVIOUS
<1>1. client \in {"none", "up", "down"} /\ line \in [Calls -> Lines]
  BY DEF TypeOK
<1>2. client' \in {"none", "up", "down"}
  BY <1>1 DEF Next, CallStep, SocketStep, vars, Call, Send, Connected, NewClient, ConnectFails,
     LocalStep, StartCommand, CommandOk, Leave, Throw, StepThrows, RenewFails, StartCapture,
     Reconnected, BypassEnds, UnmediatedEnds, DialOk, DialFails, PollSees, LeavesApart, Drops,
     Reconnects, Disconnect
<1>3. ASSUME NEW c \in Calls, NEW l \in Lines, PutLine(c, l)  PROVE line' \in [Calls -> Lines]
  BY <1>1, <1>3 DEF PutLine
<1>4. "none" \in Lines /\ "sent" \in Lines /\ "dialing" \in Lines /\ "polling" \in Lines
  BY DEF Lines
<1>5. \A d \in Calls : Leftover(line[d]) \in Lines
  BY <1>1 DEF Leftover, Lines
<1>6. ASSUME NEW c \in Calls, Send(c) \/ NewClient(c) \/ Throw(c) \/ BypassEnds(c)
      PROVE  line' \in [Calls -> Lines]
  BY <1>3, <1>4, <1>5, <1>6 DEF Send, NewClient, Throw, BypassEnds
<1>7. ASSUME NEW c \in Calls, CallStep(c)  PROVE line' \in [Calls -> Lines]
  BY <1>1, <1>3, <1>4, <1>6, <1>7 DEF CallStep, LocalStep, StartCommand, PollSees, CommandOk,
     StepThrows, Leave, StartCapture, UnmediatedEnds
<1>8. ASSUME NEW c \in Calls, SocketStep(c) \/ Call(c)  PROVE line' \in [Calls -> Lines]
  BY <1>1, <1>3, <1>4, <1>6, <1>8 DEF SocketStep, Call, Connected, ConnectFails, Reconnected,
     RenewFails, DialOk, DialFails, LeavesApart
<1>9. CASE Drops \/ Reconnects \/ Disconnect \/ UNCHANGED vars
  BY <1>1, <1>5, <1>9 DEF Drops, Reconnects, Disconnect, vars
<1>10. QED
  BY <1>2, <1>7, <1>8, <1>9 DEF Next

\* A call advances by one step, and only past a step that its plan has.
LEMMA StepTypes ==
    IInv /\ MP!MutexInv' /\ AtPlaces' /\ [Next]_vars =>
        TypeOK' /\ \A c \in Calls : pc'[c] = "flight" => step'[c] <= Len(Plan[c])
<1> DEFINE Types(s, p) ==
        /\ s \in [Calls -> Nat \ {0}]
        /\ \A c \in Calls : s[c] <= Len(Plan[c]) + 1
        /\ \A c \in Calls : p[c] = "flight" => s[c] <= Len(Plan[c])
<1> SUFFICES ASSUME IInv, MP!MutexInv', AtPlaces', [Next]_vars
             PROVE  Types(step', pc')
  BY StepWires DEF MP!MutexInv, MP!TypeOK, M!TypeOK, AtPlaces, TypeOK, IInv
<1>1. Types(step, pc) /\ TypeOK /\ pc \in [Calls -> Places]
  BY DEF IInv, TypeOK
<1>2. \A c \in Calls : Len(Plan[c]) \in Nat
  BY ProxyAssumption
\* Entering a place that is not "flight", at the same step.
<1>4. ASSUME NEW c \in Calls, NEW p \in Places \ {"flight"}, Goto(c, p), UNCHANGED step
      PROVE  Types(step', pc')
  BY <1>1, <1>4 DEF Goto
\* Past a step of the plan.
<1>5. ASSUME NEW c \in Calls, Advance(c), step[c] <= Len(Plan[c]),
             (pc' = pc /\ pc[c] # "flight") \/ Goto(c, "section")
      PROVE  Types(step', pc')
  <2>1. step[c] \in Nat \ {0} /\ Len(Plan[c]) \in Nat
    BY <1>1, <1>2
  <2>2. /\ step' \in [Calls -> Nat \ {0}] /\ step'[c] = step[c] + 1
        /\ \A d \in Calls \ {c} : step'[d] = step[d] /\ pc'[d] = pc[d]
        /\ pc'[c] # "flight"
    BY <1>1, <1>5, <2>1 DEF Advance, Goto
  <2>3. step'[c] <= Len(Plan[c]) + 1
    BY <1>5, <2>1, <2>2
  <2>4. ASSUME NEW d \in Calls \ {c}
        PROVE  step'[d] <= Len(Plan[d]) + 1 /\ (pc'[d] = "flight" => step'[d] <= Len(Plan[d]))
    BY <1>1, <2>2
  <2>5. QED
    BY <2>2, <2>3, <2>4
<1>6. ASSUME NEW c \in Calls, Call(c) \/ Connected(c)  PROVE Types(step', pc')
  BY <1>4, <1>6 DEF Call, Connected, Enter, Bypass, Places
<1>7. ASSUME NEW c \in Calls,
             \/ ConnectFails(c) \/ Leave(c) \/ StepThrows(c) \/ RenewFails(c) \/ DialFails(c)
             \/ UnmediatedEnds(c)
      PROVE  Types(step', pc')
  BY <1>4, <1>7 DEF ConnectFails, Leave, StepThrows, RenewFails, DialFails, Throw, BypassEnds,
     UnmediatedEnds, Places
<1>8. ASSUME NEW c \in Calls, StartCapture(c) \/ Reconnected(c)  PROVE Types(step', pc')
  BY <1>4, <1>8 DEF StartCapture, Reconnected, Nest, Places
<1>9. ASSUME NEW c \in Calls, LocalStep(c)  PROVE Types(step', pc')
  BY <1>5, <1>9 DEF LocalStep, AtStep, Inside
<1>10. ASSUME NEW c \in Calls, StartCommand(c)  PROVE Types(step', pc')
  BY <1>1, <1>10 DEF StartCommand, AtStep, Goto
<1>11. ASSUME NEW c \in Calls, CommandOk(c)  PROVE Types(step', pc')
  BY <1>1, <1>5, <1>11 DEF CommandOk
<1>12. ASSUME \/ \E c \in Calls : DialOk(c) \/ PollSees(c) \/ LeavesApart(c)
              \/ Drops \/ Reconnects \/ Disconnect \/ UNCHANGED vars
       PROVE  Types(step', pc')
  <2>1. pc' = pc /\ step' = step
    BY <1>12 DEF DialOk, PollSees, LeavesApart, Drops, Reconnects, Disconnect, vars
  <2>2. QED
    BY <1>1, <2>1
<1>13. QED
  BY <1>6, <1>7, <1>8, <1>9, <1>10, <1>11, <1>12 DEF Next, CallStep, SocketStep

LEMMA ProxyInvariant == Spec => []IInv
<1>1. IInv /\ MP!MutexInv /\ MP!MutexInv' /\ [Next]_vars => IInv'
  <2> SUFFICES ASSUME IInv, MP!MutexInv, MP!MutexInv', [Next]_vars  PROVE IInv'
    OBVIOUS
  <2>1. AtPlaces'
    BY StepAtPlaces
  <2>2. TypeOK' /\ \A c \in Calls : pc'[c] = "flight" => step'[c] <= Len(Plan[c])
    BY <2>1, StepTypes
  <2>3. QED
    BY <2>1, <2>2 DEF IInv, AtPlaces, InsideSection
<1>2. QED
  BY <1>1, InitIInv, ProxyMutexInv, PTL DEF Spec

\* Plans and places keep their types for every plan.
THEOREM ProxyTypes == Spec => []TypeOK
  BY ProxyInvariant, PTL DEF IInv

\* Tickets are taken and given back on every path through the proxy.
THEOREM ProxyTicketsMatch == Spec => []TicketsMatchCalls
  BY ProxyInvariant, PTL DEF IInv

\* A capture step always deadlocks on its own plan, whatever the other calls.
THEOREM ProxyNestedDeadlocks == Spec => []NestedWaitsForItself
  BY ProxyInvariant, PTL DEF IInv

\* Whoever awaits a command of its own owns the mutex, so that one call does.
THEOREM ProxyOneMediatedCommand == Spec => []OneMediatedCommand
<1>1. IInv /\ MP!MutexInv => OneMediatedCommand
  <2> SUFFICES ASSUME IInv, MP!MutexInv, NEW c \in Calls, NEW d \in Calls,
                      pc[c] \in {"flight", "renewing"}, pc[d] \in {"flight", "renewing"}
               PROVE  c = d
    BY DEF OneMediatedCommand
  <2>1. at[Outer(c)] = "in" /\ at[Outer(d)] = "in"
    BY DEF IInv, InsideSection
  <2>2. Outer(c) = Outer(d)
    BY <2>1, TicketsDiffer DEF MP!MutexInv, MP!MutualExclusion
  <2>3. QED
    BY <2>2, TicketsDiffer
<1>2. QED
  BY <1>1, ProxyInvariant, ProxyMutexInv, PTL
=============================================================================
