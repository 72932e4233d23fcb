--------------------------- MODULE SpawnAdmission ---------------------------
(***************************************************************************)
(* What the fleet's admission control promises, without its counter and    *)
(* its waiter list: a caller is out, waiting, granted (woken, not yet in)  *)
(* or holding a slot.  A caller is turned away only when every slot is     *)
(* spoken for and MaxQueued others already wait; it queues only when every *)
(* slot is held; and a departing holder always wakes a waiter when there   *)
(* is one.                                                                 *)
(***************************************************************************)
EXTENDS Naturals, FiniteSets

CONSTANTS Callers,        \* the spawns that ask for a slot
          MaxConcurrent,  \* slots
          MaxQueued       \* waiters admitted to the queue

VARIABLE phase            \* phase[c]: where caller c stands

In(p) == {c \in Callers : phase[c] = p}

Init == phase = [c \in Callers |-> "idle"]

Become(c, p) == phase' = [phase EXCEPT ![c] = p]

\* A caller that finds a free slot takes it at once.
Admit(c) ==
    /\ phase[c] = "idle"
    /\ Cardinality(In("holding")) < MaxConcurrent
    /\ Become(c, "holding")

\* All slots held: the caller waits, or is turned away when the queue is full.
Queue(c) ==
    /\ phase[c] = "idle"
    /\ Cardinality(In("holding")) >= MaxConcurrent
    /\ Cardinality(In("waiting")) < MaxQueued
    /\ Become(c, "waiting")

Refuse(c) ==
    /\ phase[c] = "idle"
    /\ Cardinality(In("holding")) >= MaxConcurrent
    /\ Cardinality(In("waiting")) >= MaxQueued
    /\ Become(c, "refused")

GiveUp(c) == phase[c] = "waiting" /\ Become(c, "refused")

Enter(c) == phase[c] = "granted" /\ Become(c, "holding")

Retry(c) == phase[c] = "refused" /\ Become(c, "idle")

\* A departing holder never leaves all the waiters asleep.
Leave(c) ==
    /\ phase[c] = "holding"
    /\ \/ /\ In("waiting") = {}
          /\ Become(c, "idle")
       \/ \E w \in In("waiting") :
             phase' = [phase EXCEPT ![c] = "idle", ![w] = "granted"]

Next == \E c \in Callers :
    Admit(c) \/ Queue(c) \/ Refuse(c) \/ GiveUp(c) \/ Enter(c) \/ Retry(c) \/ Leave(c)

Spec == Init /\ [][Next]_phase
=============================================================================
