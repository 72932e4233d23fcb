---------------------------- MODULE FleetLimiter ----------------------------
(***************************************************************************)
(* Admission control for Chrome spawns: src/src/executor/fleet-limiter.ts. *)
(*                                                                         *)
(* A caller is one acquire()/release() pair of the fleet supervisor.       *)
(* JavaScript runs to completion between awaits, so each action is one     *)
(* uninterrupted stretch of code.  acquire() has two: up to its await, and *)
(* after it, which runs as a later microtask ("granted" is the interval    *)
(* between them).                                                          *)
(*                                                                         *)
(* In all the modules, an operator named X_Fault is X with a plausible     *)
(* bug.  No action uses it: put in X's place, it must break the property   *)
(* that PROJECT.json pairs it with.                                        *)
(***************************************************************************)
EXTENDS Integers, Sequences, FiniteSets

CONSTANTS Callers,        \* the spawns that ask for a slot
          MaxConcurrent,  \* opts.maxConcurrent
          MaxQueued       \* opts.maxQueued

ASSUME LimiterAssumption ==
    /\ IsFiniteSet(Callers)
    /\ MaxConcurrent \in Nat \ {0}
    /\ MaxQueued \in Nat

VARIABLES active,   \* this.active
          waiters,  \* this.waiters, as the callers whose promise is pending
          phase     \* where each caller's acquire()/release() stands

vars == <<active, waiters, phase>>

Phases == {"idle", "waiting", "granted", "holding", "refused"}

In(p) == {c \in Callers : phase[c] = p}

Init ==
    /\ active = 0
    /\ waiters = <<>>
    /\ phase = [c \in Callers |-> "idle"]
-----------------------------------------------------------------------------
SlotFree_OffByOne == active <= MaxConcurrent
SlotFree == active < MaxConcurrent

QueueFull_OffByOne == Len(waiters) > MaxQueued
QueueFull == Len(waiters) >= MaxQueued

\* this.active++, on either side of the await.
Enter_Uncounted(c) == phase' = [phase EXCEPT ![c] = "holding"] /\ UNCHANGED active
Enter(c) == phase' = [phase EXCEPT ![c] = "holding"] /\ active' = active + 1

\* this.waiters.splice(i, 1)
Without_Unspliced(seq, c) == seq
Without(seq, c) ==
    LET i == CHOOSE j \in 1..Len(seq) : seq[j] = c
    IN  [j \in 1..(Len(seq) - 1) |-> IF j < i THEN seq[j] ELSE seq[j + 1]]

\* acquire() with a free slot.
AcquireNow(c) ==
    /\ phase[c] = "idle"
    /\ SlotFree
    /\ Enter(c)
    /\ UNCHANGED waiters

\* acquire() without one: FleetQueueFullError ...
RejectFull(c) ==
    /\ phase[c] = "idle"
    /\ ~SlotFree /\ QueueFull
    /\ phase' = [phase EXCEPT ![c] = "refused"]
    /\ UNCHANGED <<active, waiters>>

\* ... or a waiter with a timer.
Enqueue(c) ==
    /\ phase[c] = "idle"
    /\ ~SlotFree /\ ~QueueFull
    /\ waiters' = Append(waiters, c)
    /\ phase' = [phase EXCEPT ![c] = "waiting"]
    /\ UNCHANGED active

\* The waiter's timer: FleetQueueTimeoutError.
QueueTimeout(c) ==
    /\ phase[c] = "waiting"
    /\ waiters' = Without(waiters, c)
    /\ phase' = [phase EXCEPT ![c] = "refused"]
    /\ UNCHANGED active

\* The stretch of acquire() after its await.
Resume_IfBelowCap(c) == phase[c] = "granted" /\ SlotFree /\ Enter(c) /\ UNCHANGED waiters
Resume(c) == phase[c] = "granted" /\ Enter(c) /\ UNCHANGED waiters

\* waiters.shift(), clearTimeout, resolve: the rest of release().
HandOver_Nobody(c) == phase' = [phase EXCEPT ![c] = "idle"] /\ UNCHANGED waiters
HandOver(c) ==
    IF waiters = <<>>
    THEN phase' = [phase EXCEPT ![c] = "idle"] /\ UNCHANGED waiters
    ELSE /\ phase' = [phase EXCEPT ![c] = "idle", ![Head(waiters)] = "granted"]
         /\ waiters' = Tail(waiters)

Release(c) ==
    /\ phase[c] = "holding"
    /\ active' = IF active > 0 THEN active - 1 ELSE 0    \* Math.max(0, active - 1)
    /\ HandOver(c)

\* A refused caller may ask again later.
Retry(c) ==
    /\ phase[c] = "refused"
    /\ phase' = [phase EXCEPT ![c] = "idle"]
    /\ UNCHANGED <<active, waiters>>

Next == \E c \in Callers :
    \/ AcquireNow(c) \/ RejectFull(c) \/ Enqueue(c) \/ QueueTimeout(c)
    \/ Resume(c) \/ Release(c) \/ Retry(c)

Spec == Init /\ [][Next]_vars

\* Timers fire and microtasks run; nothing says that a launch ever ends.
Fairness == \A c \in Callers : WF_vars(QueueTimeout(c)) /\ WF_vars(Resume(c))

FairSpec == Spec /\ Fairness
-----------------------------------------------------------------------------
\* Types, and the bound on the queue that FleetQueueFullError enforces.
TypeOK ==
    /\ active \in Nat
    /\ waiters \in Seq(Callers) /\ Len(waiters) <= MaxQueued
    /\ phase \in [Callers -> Phases]

\* this.active is the number of callers inside: no path counts a slot twice
\* or gives one back twice (the Math.max in release() never has to clamp).
ActiveCountsHolders == active = Cardinality(In("holding"))

\* The listed waiters are exactly the pending promises, each listed once: no
\* timed-out waiter stays listed, no listed waiter has been woken.
QueueHoldsPendingWaiters ==
    /\ \A i, j \in DOMAIN waiters : waiters[i] = waiters[j] => i = j
    /\ {waiters[i] : i \in DOMAIN waiters} = In("waiting")

\* No lost wakeup in release(): while somebody waits, every slot is held or
\* has been granted to a waiter that is about to resume.
NoIdleSlotWhileWaiting ==
    waiters # <<>> => active + Cardinality(In("granted")) >= MaxConcurrent

\* acquire() always settles: the caller gets in or is refused, even if no
\* launch ever ends.
WaiterSettles ==
    \A c \in Callers : phase[c] = "waiting" ~> phase[c] \in {"holding", "refused"}

\* The limiter implements the promise of SpawnAdmission.
Promise == INSTANCE SpawnAdmission
ImplementsPromise == Promise!Spec
=============================================================================
