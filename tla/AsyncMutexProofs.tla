-------------------------- MODULE AsyncMutexProofs --------------------------
(***************************************************************************)
(* AsyncMutex for every set of tickets: mutual exclusion, the exactness of *)
(* its state, and first come, first served.                                *)
(***************************************************************************)
EXTENDS AsyncMutex, Integers, TLAPS

\* A sequence without repetition that lists exactly the members of S.
Lists(seq, S) ==
    /\ \A i, j \in DOMAIN seq : seq[i] = seq[j] => i = j
    /\ {seq[i] : i \in DOMAIN seq} = S

\* Appending a newcomer lists one more member.
LEMMA ListsAppend ==
    ASSUME NEW A, NEW seq \in Seq(A), NEW S, Lists(seq, S), NEW c \in A, c \notin S
    PROVE  Lists(Append(seq, c), S \cup {c})
<1>1. /\ Len(seq) \in Nat /\ DOMAIN seq = 1..Len(seq) /\ DOMAIN Append(seq, c) = 1..(Len(seq) + 1)
      /\ Append(seq, c)[Len(seq) + 1] = c
      /\ \A i \in DOMAIN seq : Append(seq, c)[i] = seq[i]
  OBVIOUS
<1>2. DOMAIN Append(seq, c) = DOMAIN seq \cup {Len(seq) + 1} /\ Len(seq) + 1 \notin DOMAIN seq
  BY <1>1
<1>3. QED
  BY <1>1, <1>2 DEF Lists

\* Shifting the head out lists one member less.
LEMMA ListsTail ==
    ASSUME NEW A, NEW seq \in Seq(A), NEW S, Lists(seq, S), seq # <<>>
    PROVE  Lists(Tail(seq), S \ {Head(seq)}) /\ Head(seq) \in S
<1>1. /\ Len(seq) \in Nat \ {0} /\ DOMAIN seq = 1..Len(seq) /\ Head(seq) = seq[1]
      /\ DOMAIN Tail(seq) = 1..(Len(seq) - 1)
      /\ \A i \in DOMAIN Tail(seq) : Tail(seq)[i] = seq[i + 1]
  OBVIOUS
<1>2. /\ \A i \in DOMAIN Tail(seq) : i + 1 \in DOMAIN seq \ {1}
      /\ \A i \in DOMAIN seq \ {1} : i - 1 \in DOMAIN Tail(seq) /\ Tail(seq)[i - 1] = seq[i]
  BY <1>1
<1>3. \A i, j \in DOMAIN Tail(seq) : i + 1 = j + 1 => i = j
  BY <1>1
<1>4. \A i \in DOMAIN Tail(seq) : Tail(seq)[i] \in S /\ Tail(seq)[i] # Head(seq)
  BY <1>1, <1>2 DEF Lists
<1>5. \A s \in S \ {Head(seq)} : \E i \in DOMAIN Tail(seq) : Tail(seq)[i] = s
  BY <1>1, <1>2 DEF Lists
<1>6. \A i, j \in DOMAIN Tail(seq) : Tail(seq)[i] = Tail(seq)[j] => i = j
  BY <1>1, <1>2, <1>3 DEF Lists
<1>7. Head(seq) \in S /\ {Tail(seq)[i] : i \in DOMAIN Tail(seq)} = S \ {Head(seq)}
  BY <1>1, <1>4, <1>5 DEF Lists
<1>8. QED
  BY <1>6, <1>7 DEF Lists

Waiting == {t \in Tickets : at[t] = "waiting"}

\* What acquire() relies on: a lock that nobody owns has no queue, so that
\* taking it overtakes nobody.
NobodyWaitsForAFreeLock == queue # <<>> => locked

(***************************************************************************)
(* MutualExclusion needs LockedWhileOwned (acquire() tests locked, not the *)
(* owner) and QueueIsExact (the ticket handed the lock is one that waits). *)
(***************************************************************************)
MutexInv ==
    /\ TypeOK
    /\ MutualExclusion
    /\ LockedWhileOwned
    /\ QueueIsExact
    /\ NobodyWaitsForAFreeLock

LEMMA InitMutexInv == Init => MutexInv
<1> SUFFICES ASSUME Init  PROVE MutexInv
  OBVIOUS
<1>1. \A t \in Tickets : at[t] = "out"
  BY DEF Init
<1>2. TypeOK
  <2>1. <<>> \in Seq(Tickets)
    OBVIOUS
  <2>2. at \in [Tickets -> {"out", "waiting", "in"}]
    BY DEF Init
  <2>3. QED
    BY <2>1, <2>2 DEF Init, TypeOK
<1>3. QueueIsExact
  BY <1>1 DEF Init, QueueIsExact
<1>4. MutualExclusion /\ LockedWhileOwned /\ NobodyWaitsForAFreeLock
  BY <1>1 DEF Init, MutualExclusion, LockedWhileOwned, NobodyWaitsForAFreeLock
<1>5. QED
  BY <1>2, <1>3, <1>4 DEF MutexInv

LEMMA QueueAsList == QueueIsExact <=> Lists(queue, Waiting)
  BY DEF QueueIsExact, Lists, Waiting

\* acquire() of a free lock, or at the end of the queue.
LEMMA AcquireKeeps ==
    ASSUME MutexInv, NEW t \in Tickets, Acquire(t)
    PROVE  MutexInv'
<1>1. /\ at \in [Tickets -> {"out", "waiting", "in"}] /\ queue \in Seq(Tickets)
      /\ locked \in BOOLEAN /\ at[t] = "out" /\ Lists(queue, Waiting)
  BY QueueAsList DEF MutexInv, TypeOK, Acquire
<1>2. CASE Free
  <2>1. locked' = TRUE /\ at' = [at EXCEPT ![t] = "in"] /\ queue' = queue
        /\ \A u \in Tickets : at[u] # "in"
    BY <1>2 DEF Acquire, Free, MutexInv, LockedWhileOwned
  <2>2. Waiting' = Waiting
    BY <1>1, <2>1 DEF Waiting
  <2>3. QueueIsExact'
    BY <1>1, <2>1, <2>2 DEF QueueIsExact, Lists, Waiting
  <2>4. TypeOK' /\ MutualExclusion' /\ LockedWhileOwned' /\ NobodyWaitsForAFreeLock'
    BY <1>1, <2>1 DEF TypeOK, MutualExclusion, LockedWhileOwned, NobodyWaitsForAFreeLock
  <2>5. QED
    BY <2>3, <2>4 DEF MutexInv
<1>3. CASE ~Free
  <2>1. locked' = locked /\ at' = [at EXCEPT ![t] = "waiting"] /\ queue' = Append(queue, t)
        /\ locked
    BY <1>1, <1>3 DEF Acquire, Free
  <2>2. Waiting' = Waiting \cup {t} /\ t \notin Waiting
    BY <1>1, <2>1 DEF Waiting
  <2>3. Lists(queue', Waiting')
    BY <1>1, <2>1, <2>2, ListsAppend
  <2>4. QueueIsExact'
    BY <2>3 DEF QueueIsExact, Lists, Waiting
  <2>5. TypeOK' /\ MutualExclusion' /\ LockedWhileOwned' /\ NobodyWaitsForAFreeLock'
    BY <1>1, <2>1
       DEF MutexInv, TypeOK, MutualExclusion, LockedWhileOwned, NobodyWaitsForAFreeLock
  <2>6. QED
    BY <2>4, <2>5 DEF MutexInv
<1>4. QED
  BY <1>2, <1>3

\* release() with nobody waiting unlocks; otherwise the head becomes the owner.
LEMMA ReleaseKeeps ==
    ASSUME MutexInv, NEW t \in Tickets, Release(t)
    PROVE  MutexInv'
<1>1. /\ at \in [Tickets -> {"out", "waiting", "in"}] /\ queue \in Seq(Tickets)
      /\ locked = TRUE /\ at[t] = "in" /\ Lists(queue, Waiting)
      /\ \A u \in Tickets \ {t} : at[u] # "in"
  BY QueueAsList DEF MutexInv, TypeOK, Release, MutualExclusion, LockedWhileOwned
<1>2. CASE queue = <<>>
  <2>1. locked' = FALSE /\ at' = [at EXCEPT ![t] = "out"] /\ queue' = queue
    BY <1>2 DEF Release
  <2>2. Waiting' = Waiting
    BY <1>1, <2>1 DEF Waiting
  <2>3. QueueIsExact'
    BY <1>1, <2>1, <2>2 DEF QueueIsExact, Lists, Waiting
  <2>4. TypeOK' /\ MutualExclusion' /\ LockedWhileOwned' /\ NobodyWaitsForAFreeLock'
    BY <1>1, <1>2, <2>1
       DEF TypeOK, MutualExclusion, LockedWhileOwned, NobodyWaitsForAFreeLock
  <2>5. QED
    BY <2>3, <2>4 DEF MutexInv
<1>3. CASE queue # <<>>
  <2> DEFINE h == Head(queue)
  <2>1. /\ queue' = Tail(queue) /\ at' = [at EXCEPT ![t] = "out", ![h] = "in"]
        /\ locked' = locked
    BY <1>3 DEF Release, Wake, HandOn
  <2>2. Lists(Tail(queue), Waiting \ {h}) /\ h \in Waiting
    BY <1>1, <1>3, ListsTail
  <2>3. h \in Tickets /\ at[h] = "waiting" /\ h # t
    BY <1>1, <2>2 DEF Waiting
  <2> HIDE DEF h
  <2>4. /\ at' \in [Tickets -> {"out", "waiting", "in"}]
        /\ at'[h] = "in" /\ at'[t] = "out"
        /\ \A u \in Tickets \ {h, t} : at'[u] = at[u]
    BY <1>1, <2>1, <2>3
  <2>5. Waiting' = Waiting \ {h}
    BY <1>1, <2>3, <2>4 DEF Waiting
  <2>6. QueueIsExact'
    <3>1. Lists(queue', Waiting')
      BY <2>1, <2>2, <2>5
    <3>2. QED
      BY <3>1 DEF QueueIsExact, Lists, Waiting
  <2>7. queue' \in Seq(Tickets)
    BY <1>1, <1>3, <2>1
  <2>8. TypeOK' /\ MutualExclusion' /\ LockedWhileOwned' /\ NobodyWaitsForAFreeLock'
    BY <1>1, <2>1, <2>3, <2>4, <2>7
       DEF TypeOK, MutualExclusion, LockedWhileOwned, NobodyWaitsForAFreeLock
  <2>9. QED
    BY <2>6, <2>8 DEF MutexInv
<1>4. QED
  BY <1>2, <1>3

LEMMA StepMutexInv == MutexInv /\ [Next]_mutexVars => MutexInv'
<1> SUFFICES ASSUME MutexInv, [Next]_mutexVars  PROVE MutexInv'
  OBVIOUS
<1>1. CASE UNCHANGED mutexVars
  BY <1>1 DEF mutexVars, MutexInv, TypeOK, MutualExclusion, LockedWhileOwned,
              QueueIsExact, NobodyWaitsForAFreeLock
<1>2. CASE Next
  BY <1>2, AcquireKeeps, ReleaseKeeps DEF Next
<1>3. QED
  BY <1>1, <1>2

LEMMA MutexInvariant == Spec => []MutexInv
  BY InitMutexInv, StepMutexInv, PTL DEF Spec

\* acquire() moves its own ticket; so does release(), which may let one in.
LEMMA MutexEffects ==
    ASSUME MutexInv, NEW t \in Tickets
    PROVE  /\ Acquire(t) =>
                /\ at[t] = "out" /\ at'[t] # "out" /\ (locked => at'[t] = "waiting")
                /\ \A u \in Tickets : u # t => at'[u] = at[u]
           /\ Release(t) =>
                /\ at[t] = "in" /\ at'[t] = "out"
                /\ \A u \in Tickets : u # t =>
                      at[u] # "in" /\ (at'[u] = "out" <=> at[u] = "out")
<1>1. at \in [Tickets -> {"out", "waiting", "in"}] /\ queue \in Seq(Tickets)
  BY DEF MutexInv, TypeOK
<1>2. ASSUME Acquire(t)
      PROVE  /\ at[t] = "out" /\ at'[t] # "out" /\ (locked => at'[t] = "waiting")
             /\ \A u \in Tickets : u # t => at'[u] = at[u]
  BY <1>1, <1>2 DEF Acquire, Free
<1>3. ASSUME Release(t)
      PROVE  /\ at[t] = "in" /\ at'[t] = "out"
             /\ \A u \in Tickets : u # t => at[u] # "in" /\ (at'[u] = "out" <=> at[u] = "out")
  <2>1. at[t] = "in" /\ \A u \in Tickets : u # t => at[u] # "in"
    BY <1>3 DEF Release, MutexInv, MutualExclusion
  <2>2. CASE queue = <<>>
    BY <1>1, <1>3, <2>1, <2>2 DEF Release
  <2>3. CASE queue # <<>>
    <3>1. Head(queue) \in Tickets /\ at[Head(queue)] = "waiting"
      <4>1. 1 \in DOMAIN queue /\ Head(queue) = queue[1]
        BY <1>1, <2>3
      <4>2. Head(queue) \in {u \in Tickets : at[u] = "waiting"}
        BY <4>1 DEF MutexInv, QueueIsExact
      <4>3. QED
        BY <4>2
    <3>2. at' = [at EXCEPT ![t] = "out", ![Head(queue)] = "in"]
      BY <1>3, <2>3 DEF Release, Wake
    <3>3. QED
      BY <1>1, <2>1, <3>1, <3>2
  <2>4. QED
    BY <2>2, <2>3
<1>4. QED
  BY <1>2, <1>3

\* The lock protects: however many tickets, one owner at a time.
THEOREM MutexExcludes == Spec => []MutualExclusion
  BY MutexInvariant, PTL DEF MutexInv

\* locked and queue say exactly who owns and who waits.
THEOREM MutexStateIsExact == Spec => [](LockedWhileOwned /\ QueueIsExact)
  BY MutexInvariant, PTL DEF MutexInv

\* Nobody overtakes a waiter, the head of the queue is served first.
THEOREM MutexServesInOrder == Spec => FirstComeFirstServed
<1> DEFINE Served == \A t \in Tickets : at[t] # "in" /\ at'[t] = "in" =>
                        queue = <<>> \/ t = Head(queue)
<1>1. MutexInv /\ [Next]_mutexVars => [Served]_mutexVars
  <2> SUFFICES ASSUME MutexInv, Next, NEW t \in Tickets, at[t] # "in", at'[t] = "in",
                      queue # <<>>
               PROVE  t = Head(queue)
    BY DEF Served
  <2>1. at \in [Tickets -> {"out", "waiting", "in"}] /\ locked
    BY DEF MutexInv, TypeOK, NobodyWaitsForAFreeLock
  <2>2. ASSUME NEW u \in Tickets, Acquire(u)  PROVE FALSE
    <3>1. at' = [at EXCEPT ![u] = "waiting"]
      BY <2>1, <2>2 DEF Acquire, Free
    <3>2. QED
      BY <2>1, <3>1
  <2>3. ASSUME NEW u \in Tickets, Release(u)  PROVE t = Head(queue)
    <3>1. at' = [at EXCEPT ![u] = "out", ![Head(queue)] = "in"]
      BY <2>3 DEF Release, Wake
    <3>2. QED
      BY <2>1, <3>1
  <2>4. QED
    BY <2>2, <2>3 DEF Next
<1>2. QED
  BY <1>1, MutexInvariant, PTL DEF Spec, FirstComeFirstServed
=============================================================================
