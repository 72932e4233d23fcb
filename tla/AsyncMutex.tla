----------------------------- MODULE AsyncMutex -----------------------------
(***************************************************************************)
(* The lock of src/src/engines/chrome/async-mutex.ts.  A ticket is one     *)
(* acquire()/release() pair.  release() hands the lock to the head of the  *)
(* queue without ever unlocking it, so ownership passes at once, although  *)
(* the new owner resumes later.                                            *)
(***************************************************************************)
EXTENDS Sequences, Naturals

CONSTANT Tickets

VARIABLES locked,  \* this.locked
          queue,   \* this.queue, as the tickets to resolve
          at       \* per ticket: "out", "waiting" or "in"

mutexVars == <<locked, queue, at>>

Init ==
    /\ locked = FALSE
    /\ queue = <<>>
    /\ at = [t \in Tickets |-> "out"]

Free_Always == TRUE
Free == ~locked

Acquire(t) ==
    /\ at[t] = "out"
    /\ IF Free
       THEN locked' = TRUE /\ at' = [at EXCEPT ![t] = "in"] /\ UNCHANGED queue
       ELSE at' = [at EXCEPT ![t] = "waiting"] /\ queue' = Append(queue, t) /\ UNCHANGED locked

\* Unlocks before it wakes: a newcomer could overtake the waiter.
HandOn_Unlocked == locked' = FALSE
HandOn == UNCHANGED locked

\* next()
Wake_Nobody(t) == at' = [at EXCEPT ![t] = "out"]
Wake(t) == at' = [at EXCEPT ![t] = "out", ![Head(queue)] = "in"]

Release(t) ==
    /\ at[t] = "in"
    /\ \/ /\ queue = <<>>
          /\ locked' = FALSE /\ at' = [at EXCEPT ![t] = "out"] /\ UNCHANGED queue
       \/ /\ queue # <<>>
          /\ queue' = Tail(queue) /\ Wake(t) /\ HandOn

Next == \E t \in Tickets : Acquire(t) \/ Release(t)

Spec == Init /\ [][Next]_mutexVars
-----------------------------------------------------------------------------
TypeOK ==
    /\ locked \in BOOLEAN
    /\ queue \in Seq(Tickets)
    /\ at \in [Tickets -> {"out", "waiting", "in"}]

\* The purpose of the lock: one owner at a time.
MutualExclusion == \A t, u \in Tickets : at[t] = "in" /\ at[u] = "in" => t = u

\* locked says whether there is an owner; the queue lists the waiters, once each.
LockedWhileOwned == locked <=> \E t \in Tickets : at[t] = "in"

QueueIsExact ==
    /\ \A i, j \in DOMAIN queue : queue[i] = queue[j] => i = j
    /\ {queue[i] : i \in DOMAIN queue} = {t \in Tickets : at[t] = "waiting"}

\* Nobody gets the lock past a ticket that waits for it.
FirstComeFirstServed ==
    [][\A t \in Tickets : at[t] # "in" /\ at'[t] = "in" =>
          queue = <<>> \/ t = Head(queue)]_mutexVars
=============================================================================
