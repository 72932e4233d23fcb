------------------------------ MODULE HumanGate ------------------------------
(***************************************************************************)
(* The approval gates of src/src/engines/autonomous-execution.ts: a row in *)
(* the store, a waiter in gateWaiters with a timer, and a single poll of   *)
(* the row; resolveGate() answers through the row and then the waiter.     *)
(* A call of the store and the code after its await are two steps where    *)
(* another caller could tell: the poll, and the answer's read and write.   *)
(* The names differ from those of AutonomousTask, so that a module can     *)
(* extend the two.                                                         *)
(***************************************************************************)
CONSTANTS Gates,
          Calls     \* calls of resolveGate()

VARIABLES
    row,       \* store: the status of each gate
    waiter,    \* gateWaiters: whether a waiter is registered
    timer,     \* "off", "running", "expiring" (its update is under way) or "lost"
    poll,      \* "unsent", "sent", the status it read, "failed" or "over"
    outcome,   \* what the wait resolved with ("timeout" is null)
    call       \* per call: where it stands, its gate and its answer

gateVars == <<row, waiter, timer, poll, outcome, call>>
wait == <<waiter, timer, poll>>

Answers == {"approved", "denied", "skipped"}
Statuses == Answers \cup {"pending", "expired"}

GateInit ==
    /\ row = [g \in Gates |-> "none"]
    /\ waiter = [g \in Gates |-> FALSE]
    /\ timer = [g \in Gates |-> "off"]
    /\ poll = [g \in Gates |-> "unsent"]
    /\ outcome = [g \in Gates |-> "open"]
    /\ call = [c \in Calls |-> [at |-> "idle"]]
-----------------------------------------------------------------------------
\* resolve(): a promise that is settled stays as it is.
Settle(g, o) == outcome' = [outcome EXCEPT ![g] = IF @ = "open" THEN o ELSE @]

\* createHitlGate() has answered.
Create(g) ==
    /\ row[g] = "none"
    /\ row' = [row EXCEPT ![g] = "pending"]
    /\ UNCHANGED <<wait, outcome, call>>

\* waitForGateResolution(): a timer, a waiter and a poll.
Wait_Unpolled(g) ==
    /\ row[g] # "none" /\ poll[g] = "unsent"
    /\ waiter' = [waiter EXCEPT ![g] = TRUE]
    /\ timer' = [timer EXCEPT ![g] = "running"]
    /\ poll' = [poll EXCEPT ![g] = "over"]
    /\ UNCHANGED <<row, outcome, call>>
Wait(g) ==
    /\ row[g] # "none" /\ poll[g] = "unsent"
    /\ waiter' = [waiter EXCEPT ![g] = TRUE]
    /\ timer' = [timer EXCEPT ![g] = "running"]
    /\ poll' = [poll EXCEPT ![g] = "sent"]
    /\ UNCHANGED <<row, outcome, call>>

PollReads(g) ==
    /\ poll[g] = "sent"
    /\ poll' = [poll EXCEPT ![g] = row[g]]
    /\ UNCHANGED <<row, waiter, timer, outcome, call>>

\* clearTimeout(): a callback that already runs goes on.
StopTimer(g) == timer' = [timer EXCEPT ![g] = IF @ = "running" THEN "off" ELSE @]

Unregister(g) == waiter' = [waiter EXCEPT ![g] = FALSE]

\* Stops the timer although the gate is still pending.
PollReturns_Disarming(g) ==
    /\ poll[g] \in Statuses
    /\ StopTimer(g)
    /\ IF poll[g] = "pending"
       THEN UNCHANGED <<waiter, outcome>>
       ELSE Unregister(g) /\ Settle(g, poll[g])
    /\ poll' = [poll EXCEPT ![g] = "over"]
    /\ UNCHANGED <<row, call>>
\* Takes a pending gate for an answer.
PollReturns_Eager(g) ==
    /\ poll[g] \in Statuses
    /\ StopTimer(g) /\ Unregister(g) /\ Settle(g, poll[g])
    /\ poll' = [poll EXCEPT ![g] = "over"]
    /\ UNCHANGED <<row, call>>
PollReturns(g) ==
    /\ poll[g] \in Statuses
    /\ IF poll[g] = "pending"
       THEN UNCHANGED <<waiter, timer, outcome>>
       ELSE StopTimer(g) /\ Unregister(g) /\ Settle(g, poll[g])
    /\ poll' = [poll EXCEPT ![g] = "over"]
    /\ UNCHANGED <<row, call>>

\* "timer fallback handles it"
PollFails(g) ==
    /\ poll[g] = "sent"
    /\ poll' = [poll EXCEPT ![g] = "failed"]
    /\ UNCHANGED <<row, waiter, timer, outcome, call>>

\* Deletes the waiter only once the update has answered.
Expire_Registered(g) ==
    /\ timer[g] = "running"
    /\ timer' = [timer EXCEPT ![g] = "expiring"]
    /\ UNCHANGED <<row, waiter, poll, outcome, call>>
\* The timer's callback, up to its await.
Expire(g) ==
    /\ timer[g] = "running"
    /\ timer' = [timer EXCEPT ![g] = "expiring"]
    /\ Unregister(g)
    /\ UNCHANGED <<row, poll, outcome, call>>

\* Resolves with the gate's defaultValue.
ExpireRecorded_Default(g) ==
    /\ timer[g] = "expiring"
    /\ row' = [row EXCEPT ![g] = "expired"]
    /\ timer' = [timer EXCEPT ![g] = "off"]
    /\ Settle(g, "denied")
    /\ UNCHANGED <<waiter, poll, call>>
ExpireRecorded(g) ==
    /\ timer[g] = "expiring"
    /\ row' = [row EXCEPT ![g] = "expired"]
    /\ timer' = [timer EXCEPT ![g] = "off"]
    /\ Settle(g, "timeout")
    /\ UNCHANGED <<waiter, poll, call>>

\* The update is rejected: resolve(null) is never reached.
ExpireFails(g) ==
    /\ timer[g] = "expiring"
    /\ timer' = [timer EXCEPT ![g] = "lost"]
    /\ UNCHANGED <<row, waiter, poll, outcome, call>>
-----------------------------------------------------------------------------
(* resolveGate() *)
InCall(c, p) == call[c].at = p

Answer(c, g, a) ==
    /\ InCall(c, "idle") /\ row[g] # "none"
    /\ call' = [call EXCEPT ![c] = [at |-> "reading", gate |-> g, answer |-> a]]
    /\ UNCHANGED <<row, wait, outcome>>

\* "Gate already resolved", or the read fails.
AnswerRefused(c) ==
    /\ InCall(c, "reading")
    /\ call' = [call EXCEPT ![c].at = "refused"]
    /\ UNCHANGED <<row, wait, outcome>>

AnswerReads(c) ==
    /\ InCall(c, "reading") /\ row[call[c].gate] = "pending"
    /\ call' = [call EXCEPT ![c].at = "writing"]
    /\ UNCHANGED <<row, wait, outcome>>

AnswerFails(c) ==
    /\ InCall(c, "writing")
    /\ call' = [call EXCEPT ![c].at = "refused"]
    /\ UNCHANGED <<row, wait, outcome>>

\* updateHitlGate() has written; its caller has yet to resume.
AnswerWrites(c) ==
    /\ InCall(c, "writing")
    /\ row' = [row EXCEPT ![call[c].gate] = call[c].answer]
    /\ call' = [call EXCEPT ![c].at = "notifying"]
    /\ UNCHANGED <<wait, outcome>>

\* "Notify any waiting goroutine"
Notify(c, g) == StopTimer(g) /\ Unregister(g) /\ Settle(g, call[c].answer)

AnswerNotifies(c) ==
    /\ InCall(c, "notifying")
    /\ IF waiter[call[c].gate]
       THEN Notify(c, call[c].gate)
       ELSE UNCHANGED <<waiter, timer, outcome>>
    /\ call' = [call EXCEPT ![c].at = "done"]
    /\ UNCHANGED <<row, poll>>

StoreAndTimers(g) ==
    \/ PollReads(g) \/ PollReturns(g) \/ PollFails(g)
    \/ Expire(g) \/ ExpireRecorded(g) \/ ExpireFails(g)

CallGoesOn(c) ==
    \/ AnswerRefused(c) \/ AnswerReads(c) \/ AnswerFails(c)
    \/ AnswerWrites(c) \/ AnswerNotifies(c)

CallStarts(c) == \E g \in Gates, a \in Answers : Answer(c, g, a)

GateNext ==
    \/ \E g \in Gates : Create(g) \/ Wait(g) \/ StoreAndTimers(g)
    \/ \E c \in Calls : CallStarts(c) \/ CallGoesOn(c)

GateSpec == GateInit /\ [][GateNext]_gateVars

\* A timer fires and the store answers; nobody need ever answer a gate.
FairGateSpec == GateSpec /\ \A g \in Gates : WF_gateVars(StoreAndTimers(g))
-----------------------------------------------------------------------------
Answering(c) == call[c].at \in {"reading", "writing", "notifying"}

GateTypeOK ==
    /\ row \in [Gates -> Statuses \cup {"none"}]
    /\ waiter \in [Gates -> BOOLEAN]
    /\ timer \in [Gates -> {"off", "running", "expiring", "lost"}]
    /\ poll \in [Gates -> Statuses \cup {"unsent", "sent", "failed", "over"}]
    /\ outcome \in [Gates -> Answers \cup {"open", "timeout", "expired"}]
    /\ call \in [Calls ->
          [at : {"idle"}]
          \cup [at : {"reading", "refused", "writing", "notifying", "done"},
                gate : Gates, answer : Answers]]

\* The comment at line 1228: the poll serves the answer that came "before we
\* registered".  While a wait is open and the row is answered, somebody still
\* holds the answer for it: a call about to notify, the poll, or, when the poll
\* failed or the timer fired, the timer.
DecisionReachesWaiter ==
    \A g \in Gates : poll[g] # "unsent" /\ outcome[g] = "open" /\ row[g] \in Answers =>
        \/ poll[g] = "sent" \/ poll[g] \in Answers
        \/ poll[g] = "failed" /\ timer[g] = "running"
        \/ timer[g] \in {"expiring", "lost"}
        \/ waiter[g] /\ \E c \in Calls : call[c].at = "notifying" /\ call[c].gate = g

\* Line 603 has a gate resolved once ("Gate already resolved"): when the row,
\* which the UI and the audit trail show, holds an answer, it is the answer the
\* task acted on.
RecordedAsActed ==
    \A g \in Gates :
        outcome[g] \in Answers /\ row[g] \in Answers /\ (\A c \in Calls : ~Answering(c)) =>
            row[g] = outcome[g]

\* An approval, or any other answer, that the task acts on was given by a call
\* that found the gate pending: no wait resolves with an answer of its own.
ActsOnGivenAnswer ==
    \A g \in Gates : outcome[g] \in Answers =>
        \E c \in Calls : /\ call[c].at \in {"notifying", "done"}
                         /\ call[c].gate = g /\ call[c].answer = outcome[g]

\* The update of the expired row was refused, and no poll will settle the wait.
Lost(g) == timer[g] = "lost" /\ poll[g] \notin {"sent", "expired"} \cup Answers

Decision(g) ==
    CASE poll[g] = "unsent" -> "unasked"
      [] outcome[g] # "open" -> outcome[g]
      [] OTHER -> IF Lost(g) THEN "lost" ELSE "open"

Promise == INSTANCE GatePromise WITH decision <- [g \in Gates |-> Decision(g)]

\* What the task relies on (line 297): one decision, and it stands.
KeepsPromise == Promise!Spec

\* The timer is the fallback for everything else (line 1254): each wait ends,
\* unless the update of the expired row is refused.
WaitsEnd == \A g \in Gates : poll[g] # "unsent" ~> Decision(g) # "open"
=============================================================================
