------------------------- MODULE FleetLimiterProofs -------------------------
(***************************************************************************)
(* FleetLimiter for every set of callers and every bound: the limiter's    *)
(* safety invariants, and that it implements SpawnAdmission.               *)
(***************************************************************************)
EXTENDS FleetLimiter, Integers, FiniteSetTheorems, TLAPS

\* A sequence without repetition that lists exactly the members of S.
Lists(seq, S) ==
    /\ \A i, j \in DOMAIN seq : seq[i] = seq[j] => i = j
    /\ {seq[i] : i \in DOMAIN seq} = S

\* Appending a newcomer lists one more member.
LEMMA ListsAppend ==
    ASSUME NEW A, NEW seq \in Seq(A), NEW S, Lists(seq, S), NEW c \in A, c \notin S
    PROVE  Lists(Append(seq, c), S \cup {c})
<1>1. /\ Len(seq) \in Nat /\ DOMAIN seq = 1..Len(seq) /\ DOMAIN Append(seq, c) = 1..(Len(seq) + 1)
      /\ Append(seq, c)[Len(seq) + 1] = c
      /\ \A i \in DOMAIN seq : Append(seq, c)[i] = seq[i]
  OBVIOUS
<1>2. DOMAIN Append(seq, c) = DOMAIN seq \cup {Len(seq) + 1} /\ Len(seq) + 1 \notin DOMAIN seq
  BY <1>1
<1>3. QED
  BY <1>1, <1>2 DEF Lists

\* Shifting the head out lists one member less.
LEMMA ListsTail ==
    ASSUME NEW A, NEW seq \in Seq(A), NEW S, Lists(seq, S), seq # <<>>
    PROVE  Lists(Tail(seq), S \ {Head(seq)}) /\ Head(seq) \in S
<1>1. /\ Len(seq) \in Nat \ {0} /\ DOMAIN seq = 1..Len(seq) /\ Head(seq) = seq[1]
      /\ DOMAIN Tail(seq) = 1..(Len(seq) - 1)
      /\ \A i \in DOMAIN Tail(seq) : Tail(seq)[i] = seq[i + 1]
  OBVIOUS
<1>2. /\ \A i \in DOMAIN Tail(seq) : i + 1 \in DOMAIN seq \ {1}
      /\ \A i \in DOMAIN seq \ {1} : i - 1 \in DOMAIN Tail(seq) /\ Tail(seq)[i - 1] = seq[i]
  BY <1>1
<1>3. \A i, j \in DOMAIN Tail(seq) : i + 1 = j + 1 => i = j
  BY <1>1
<1>4. \A i \in DOMAIN Tail(seq) : Tail(seq)[i] \in S /\ Tail(seq)[i] # Head(seq)
  BY <1>1, <1>2 DEF Lists
<1>5. \A s \in S \ {Head(seq)} : \E i \in DOMAIN Tail(seq) : Tail(seq)[i] = s
  BY <1>1, <1>2 DEF Lists
<1>6. \A i, j \in DOMAIN Tail(seq) : Tail(seq)[i] = Tail(seq)[j] => i = j
  BY <1>1, <1>2, <1>3 DEF Lists
<1>7. Head(seq) \in S /\ {Tail(seq)[i] : i \in DOMAIN Tail(seq)} = S \ {Head(seq)}
  BY <1>1, <1>4, <1>5 DEF Lists
<1>8. QED
  BY <1>6, <1>7 DEF Lists

\* The callers in phase p under a phase function f; In(p) is At(phase, p).
At(f, p) == {c \in Callers : f[c] = p}

LEMMA AtFinite ==
    ASSUME NEW f, NEW p
    PROVE  IsFiniteSet(At(f, p)) /\ Cardinality(At(f, p)) \in Nat
<1>1. At(f, p) \in SUBSET Callers
  BY DEF At
<1>2. QED
  BY <1>1, LimiterAssumption, FS_Subset, FS_CardinalityType

\* g is f with c moved to phase q: one unit moves between two counts.
Moves(f, g, c, q) ==
    /\ g \in [Callers -> Phases]
    /\ \A p \in Phases : Cardinality(At(g, p)) =
          IF p = q THEN Cardinality(At(f, p)) + 1
          ELSE IF p = f[c] THEN Cardinality(At(f, p)) - 1
          ELSE Cardinality(At(f, p))

LEMMA MoveOne ==
    ASSUME NEW f \in [Callers -> Phases], NEW c \in Callers, NEW q \in Phases, f[c] # q
    PROVE  Moves(f, [f EXCEPT ![c] = q], c, q)
<1> DEFINE g == [f EXCEPT ![c] = q]
<1>1. g \in [Callers -> Phases] /\ g[c] = q /\ \A d \in Callers \ {c} : g[d] = f[d]
  OBVIOUS
<1> HIDE DEF g
<1> SUFFICES ASSUME NEW p \in Phases
             PROVE  Cardinality(At(g, p)) = IF p = q THEN Cardinality(At(f, p)) + 1
                                            ELSE IF p = f[c] THEN Cardinality(At(f, p)) - 1
                                            ELSE Cardinality(At(f, p))
  BY <1>1 DEF Moves, g
<1>2. CASE p = q
  <2>1. At(g, p) = At(f, p) \cup {c} /\ c \notin At(f, p)
    BY <1>1, <1>2 DEF At
  <2>2. QED
    BY <1>2, <2>1, AtFinite, FS_AddElement
<1>3. CASE p # q /\ p = f[c]
  <2>1. At(g, p) = At(f, p) \ {c} /\ c \in At(f, p)
    BY <1>1, <1>3 DEF At
  <2>2. QED
    BY <1>3, <2>1, AtFinite, FS_RemoveElement
<1>4. CASE p # q /\ p # f[c]
  <2>1. At(g, p) = At(f, p)
    BY <1>1, <1>4 DEF At
  <2>2. QED
    BY <1>4, <2>1
<1>5. QED
  BY <1>2, <1>3, <1>4

\* Splicing one waiter out leaves the others listed.
LEMMA ListsWithout ==
    ASSUME NEW seq \in Seq(Callers), NEW S, Lists(seq, S), NEW c \in S
    PROVE  /\ Without(seq, c) \in Seq(Callers)
           /\ Len(Without(seq, c)) = Len(seq) - 1
           /\ Lists(Without(seq, c), S \ {c})
<1> DEFINE n == Len(seq)
           k == CHOOSE j \in 1..n : seq[j] = c
           w == Without(seq, c)
           old(i) == IF i < k THEN i ELSE i + 1
<1>1. n \in Nat /\ DOMAIN seq = 1..n
  OBVIOUS
<1>2. k \in 1..n /\ seq[k] = c
  BY <1>1 DEF Lists
<1>3. w = [j \in 1..(n - 1) |-> IF j < k THEN seq[j] ELSE seq[j + 1]]
  BY DEF Without
<1> HIDE DEF k, w, n
<1>4. \A i \in 1..(n - 1) : old(i) \in 1..n /\ old(i) # k /\ w[i] = seq[old(i)]
  BY <1>1, <1>2, <1>3
<1>5. w \in [1..(n - 1) -> Callers] /\ n - 1 \in Nat
  BY <1>1, <1>2, <1>3, <1>4
<1>6. w \in Seq(Callers) /\ Len(w) = n - 1 /\ DOMAIN w = 1..(n - 1)
  BY <1>5
<1>7. \A i, j \in DOMAIN w : w[i] = w[j] => i = j
  <2> SUFFICES ASSUME NEW i \in 1..(n - 1), NEW j \in 1..(n - 1), w[i] = w[j]  PROVE i = j
    BY <1>6
  <2>1. old(i) = old(j)
    BY <1>1, <1>4 DEF Lists
  <2>2. QED
    BY <2>1, <1>1, <1>2
<1>8. \A i \in DOMAIN w : w[i] \in S \ {c}
  BY <1>1, <1>2, <1>4, <1>6 DEF Lists
<1>9. \A s \in S \ {c} : \E i \in DOMAIN w : w[i] = s
  <2> SUFFICES ASSUME NEW s \in S, s # c  PROVE \E i \in 1..(n - 1) : w[i] = s
    BY <1>6
  <2>1. PICK m \in 1..n : seq[m] = s
    BY <1>1 DEF Lists
  <2>2. m # k
    BY <1>2, <2>1
  <2>3. CASE m < k
    BY <1>1, <1>2, <1>4, <2>1, <2>3
  <2>4. CASE m > k
    <3>1. m - 1 \in 1..(n - 1) /\ old(m - 1) = m
      BY <1>1, <1>2, <2>4
    <3>2. QED
      BY <1>4, <2>1, <3>1
  <2>5. QED
    BY <1>1, <1>2, <2>2, <2>3, <2>4
<1>10. QED
  BY <1>6, <1>7, <1>8, <1>9 DEF Lists, n, w

\* A list without repetition is as long as the set it lists.
LEMMA ListsLen ==
    ASSUME NEW seq \in Seq(Callers), NEW S, Lists(seq, S)
    PROVE  Cardinality(S) = Len(seq)
<1> DEFINE n == Len(seq)
<1>1. DOMAIN seq = 1..n /\ seq = [i \in 1..n |-> seq[i]]
  OBVIOUS
<1>2. \A i \in 1..n : seq[i] \in S
  BY <1>1 DEF Lists
<1>3. seq \in [1..n -> S]
  BY <1>1, <1>2
<1>4. \A s \in S : \E i \in 1..n : seq[i] = s
  BY <1>1 DEF Lists
<1>5. IsInjective(seq)
  BY <1>1 DEF Lists, IsInjective
<1>6. seq \in Bijection(1..n, S)
  BY <1>3, <1>4, <1>5 DEF Bijection, Injection, Surjection
<1>7. ExistsBijection(1..n, S) /\ n \in Nat
  BY <1>6 DEF ExistsBijection
<1>8. QED
  BY <1>7, FS_CountingElements
-----------------------------------------------------------------------------
(***************************************************************************)
(* The inductive invariant is the conjunction of the checked invariants:   *)
(* NoIdleSlotWhileWaiting needs ActiveCountsHolders (a releasing holder    *)
(* makes active positive) and QueueHoldsPendingWaiters (the head of the    *)
(* queue is waiting, so waking it adds one to the granted).                *)
(***************************************************************************)
IInv ==
    /\ TypeOK
    /\ ActiveCountsHolders
    /\ QueueHoldsPendingWaiters
    /\ NoIdleSlotWhileWaiting

LEMMA QueueAsList == QueueHoldsPendingWaiters <=> Lists(waiters, In("waiting"))
  BY DEF QueueHoldsPendingWaiters, Lists

LEMMA InAt == \A p : In(p) = At(phase, p) /\ In(p)' = At(phase', p)
  BY DEF In, At

LEMMA InitIInv == Init => IInv
<1> SUFFICES ASSUME Init  PROVE IInv
  OBVIOUS
<1>1. TypeOK
  BY LimiterAssumption DEF Init, TypeOK, Phases
<1>2. In("holding") = {} /\ In("waiting") = {}
  BY DEF Init, In
<1>3. ActiveCountsHolders
  BY <1>2, FS_EmptySet DEF Init, ActiveCountsHolders
<1>4. QueueHoldsPendingWaiters
  BY <1>2 DEF Init, QueueHoldsPendingWaiters
<1>5. NoIdleSlotWhileWaiting
  BY DEF Init, NoIdleSlotWhileWaiting
<1>6. QED
  BY <1>1, <1>3, <1>4, <1>5 DEF IInv

\* One step per action; under it, one step per conjunct the action disturbs.
LEMMA StepIInv == IInv /\ [Next]_vars => IInv'
<1> SUFFICES ASSUME IInv, [Next]_vars  PROVE IInv'
  OBVIOUS
<1>1. /\ active \in Nat /\ waiters \in Seq(Callers) /\ Len(waiters) \in Nat
      /\ Len(waiters) <= MaxQueued /\ phase \in [Callers -> Phases]
      /\ active = Cardinality(At(phase, "holding"))
      /\ Lists(waiters, At(phase, "waiting"))
      /\ waiters # <<>> => active + Cardinality(At(phase, "granted")) >= MaxConcurrent
      /\ MaxConcurrent \in Nat /\ MaxQueued \in Nat
  BY QueueAsList, InAt, LimiterAssumption
     DEF IInv, TypeOK, ActiveCountsHolders, NoIdleSlotWhileWaiting
<1>2. /\ Cardinality(At(phase, "granted")) \in Nat
      /\ Cardinality(At(phase, "holding")) \in Nat
  BY AtFinite
<1>3. /\ "idle" \in Phases /\ "waiting" \in Phases /\ "granted" \in Phases
      /\ "holding" \in Phases /\ "refused" \in Phases
  BY DEF Phases
<1> DEFINE Goal ==
        /\ active' \in Nat /\ waiters' \in Seq(Callers) /\ Len(waiters') <= MaxQueued
        /\ phase' \in [Callers -> Phases]
        /\ active' = Cardinality(At(phase', "holding"))
        /\ Lists(waiters', At(phase', "waiting"))
        /\ waiters' # <<>> => active' + Cardinality(At(phase', "granted")) >= MaxConcurrent
<1>4. Goal => IInv'
  BY InAt DEF IInv, TypeOK, ActiveCountsHolders, NoIdleSlotWhileWaiting,
         QueueHoldsPendingWaiters, Lists
<1>5. ASSUME NEW c \in Callers, AcquireNow(c)  PROVE Goal
  <2>1. phase[c] = "idle" /\ phase' = [phase EXCEPT ![c] = "holding"]
        /\ active' = active + 1 /\ waiters' = waiters
    BY <1>5 DEF AcquireNow, Enter
  <2>2. At(phase', "waiting") = At(phase, "waiting")
    BY <1>1, <2>1 DEF At
  <2>3. Moves(phase, phase', c, "holding")
    BY <1>1, <1>3, <2>1, MoveOne
  <2>4. /\ Cardinality(At(phase', "holding")) = Cardinality(At(phase, "holding")) + 1
        /\ Cardinality(At(phase', "granted")) = Cardinality(At(phase, "granted"))
        /\ phase' \in [Callers -> Phases]
    BY <1>3, <2>1, <2>3 DEF Moves
  <2>5. Lists(waiters', At(phase', "waiting"))
    BY <1>1, <2>1, <2>2
  <2>6. QED
    BY <1>1, <1>2, <2>1, <2>4, <2>5
<1>6. ASSUME NEW c \in Callers, RejectFull(c)  PROVE Goal
  <2>1. phase[c] = "idle" /\ phase' = [phase EXCEPT ![c] = "refused"]
        /\ active' = active /\ waiters' = waiters
    BY <1>6 DEF RejectFull
  <2>2. At(phase', "waiting") = At(phase, "waiting")
    BY <1>1, <2>1 DEF At
  <2>3. Moves(phase, phase', c, "refused")
    BY <1>1, <1>3, <2>1, MoveOne
  <2>4. /\ Cardinality(At(phase', "holding")) = Cardinality(At(phase, "holding"))
        /\ Cardinality(At(phase', "granted")) = Cardinality(At(phase, "granted"))
        /\ phase' \in [Callers -> Phases]
    BY <1>3, <2>1, <2>3 DEF Moves
  <2>5. Lists(waiters', At(phase', "waiting"))
    BY <1>1, <2>1, <2>2
  <2>6. QED
    BY <1>1, <1>2, <2>1, <2>4, <2>5
<1>7. ASSUME NEW c \in Callers, Enqueue(c)  PROVE Goal
  <2>1. phase[c] = "idle" /\ phase' = [phase EXCEPT ![c] = "waiting"]
        /\ active' = active /\ waiters' = Append(waiters, c)
        /\ active >= MaxConcurrent /\ Len(waiters) < MaxQueued
    BY <1>1, <1>7 DEF Enqueue, SlotFree, QueueFull
  <2>2. At(phase', "waiting") = At(phase, "waiting") \cup {c} /\ c \notin At(phase, "waiting")
    BY <1>1, <2>1 DEF At
  <2>3. Lists(Append(waiters, c), At(phase, "waiting") \cup {c})
    BY <1>1, <2>2, ListsAppend
  <2>4. waiters' \in Seq(Callers) /\ Len(waiters') = Len(waiters) + 1
    BY <1>1, <2>1
  <2>5. Moves(phase, phase', c, "waiting")
    BY <1>1, <1>3, <2>1, MoveOne
  <2>6. /\ Cardinality(At(phase', "holding")) = Cardinality(At(phase, "holding"))
        /\ Cardinality(At(phase', "granted")) = Cardinality(At(phase, "granted"))
        /\ phase' \in [Callers -> Phases]
    BY <1>3, <2>1, <2>5 DEF Moves
  <2>7. Lists(waiters', At(phase', "waiting"))
    BY <2>1, <2>2, <2>3
  <2>8. QED
    BY <1>1, <1>2, <2>1, <2>4, <2>6, <2>7
<1>8. ASSUME NEW c \in Callers, QueueTimeout(c)  PROVE Goal
  <2>1. phase[c] = "waiting" /\ phase' = [phase EXCEPT ![c] = "refused"]
        /\ active' = active /\ waiters' = Without(waiters, c)
    BY <1>8 DEF QueueTimeout
  <2>2. At(phase', "waiting") = At(phase, "waiting") \ {c} /\ c \in At(phase, "waiting")
    BY <1>1, <2>1 DEF At
  <2>3. /\ Lists(Without(waiters, c), At(phase, "waiting") \ {c})
        /\ Without(waiters, c) \in Seq(Callers)
        /\ Len(Without(waiters, c)) = Len(waiters) - 1
    BY <1>1, <2>2, ListsWithout
  <2>4. waiters # <<>>
    BY <1>1, <2>2 DEF Lists
  <2>5. Moves(phase, phase', c, "refused")
    BY <1>1, <1>3, <2>1, MoveOne
  <2>6. /\ Cardinality(At(phase', "holding")) = Cardinality(At(phase, "holding"))
        /\ Cardinality(At(phase', "granted")) = Cardinality(At(phase, "granted"))
        /\ phase' \in [Callers -> Phases]
    BY <1>3, <2>1, <2>5 DEF Moves
  <2>7. Lists(waiters', At(phase', "waiting")) /\ waiters' \in Seq(Callers)
        /\ Len(waiters') = Len(waiters) - 1
    BY <2>1, <2>2, <2>3
  <2>8. QED
    BY <1>1, <1>2, <2>1, <2>4, <2>6, <2>7
<1>9. ASSUME NEW c \in Callers, Resume(c)  PROVE Goal
  <2>1. phase[c] = "granted" /\ phase' = [phase EXCEPT ![c] = "holding"]
        /\ active' = active + 1 /\ waiters' = waiters
    BY <1>9 DEF Resume, Enter
  <2>2. At(phase', "waiting") = At(phase, "waiting")
    BY <1>1, <2>1 DEF At
  <2>3. Moves(phase, phase', c, "holding")
    BY <1>1, <1>3, <2>1, MoveOne
  <2>4. /\ Cardinality(At(phase', "holding")) = Cardinality(At(phase, "holding")) + 1
        /\ Cardinality(At(phase', "granted")) = Cardinality(At(phase, "granted")) - 1
        /\ phase' \in [Callers -> Phases]
    BY <1>3, <2>1, <2>3 DEF Moves
  <2>5. Lists(waiters', At(phase', "waiting"))
    BY <1>1, <2>1, <2>2
  <2>6. QED
    BY <1>1, <1>2, <2>1, <2>4, <2>5
<1>10. ASSUME NEW c \in Callers, Release(c)  PROVE Goal
  <2> DEFINE mid == [phase EXCEPT ![c] = "idle"]
  <2>1. phase[c] = "holding" /\ c \in At(phase, "holding")
    BY <1>10 DEF Release, At
  <2>2. active > 0 /\ active' = active - 1
    <3>1. Cardinality(At(phase, "holding")) # 0
      BY <2>1, AtFinite, FS_EmptySet
    <3>2. QED
      BY <1>1, <1>2, <1>10, <3>1 DEF Release
  <2>3. Moves(phase, mid, c, "idle")
    BY <1>1, <1>3, <2>1, MoveOne
  <2>4. At(mid, "waiting") = At(phase, "waiting")
    BY <1>1, <2>1 DEF At
  <2>5. /\ Cardinality(At(mid, "holding")) = Cardinality(At(phase, "holding")) - 1
        /\ Cardinality(At(mid, "granted")) = Cardinality(At(phase, "granted"))
        /\ mid \in [Callers -> Phases]
    BY <1>3, <2>1, <2>3 DEF Moves
  <2>6. CASE waiters = <<>>
    <3>1. phase' = mid /\ waiters' = waiters
      BY <1>10, <2>6 DEF Release, HandOver
    <3> HIDE DEF mid
    <3>2. Lists(waiters', At(phase', "waiting"))
      BY <1>1, <2>4, <3>1
    <3>3. QED
      BY <1>1, <1>2, <2>2, <2>5, <2>6, <3>1, <3>2
  <2>7. CASE waiters # <<>>
    <3> DEFINE w == Head(waiters)
    <3>1. waiters' = Tail(waiters) /\ phase' = [mid EXCEPT ![w] = "granted"]
      BY <1>10, <2>7 DEF Release, HandOver
    <3>2. waiters' \in Seq(Callers) /\ Len(waiters') = Len(waiters) - 1
      BY <1>1, <2>7, <3>1
    <3>3. w \in At(phase, "waiting") /\ Lists(Tail(waiters), At(phase, "waiting") \ {w})
      BY <1>1, <2>7, ListsTail
    <3>4. w \in Callers /\ w # c /\ mid[w] = "waiting"
      BY <1>1, <1>3, <2>1, <3>3 DEF At
    <3> HIDE DEF mid, w
    <3>5. At(phase', "waiting") = At(phase, "waiting") \ {w}
      BY <2>4, <2>5, <3>1, <3>4 DEF At
    <3>6. Moves(mid, phase', w, "granted")
      BY <1>3, <2>5, <3>1, <3>4, MoveOne
    <3>7. /\ Cardinality(At(phase', "holding")) = Cardinality(At(mid, "holding"))
          /\ Cardinality(At(phase', "granted")) = Cardinality(At(mid, "granted")) + 1
          /\ phase' \in [Callers -> Phases]
      BY <1>3, <3>4, <3>6 DEF Moves
    <3>8. Lists(waiters', At(phase', "waiting"))
      BY <3>1, <3>3, <3>5
    <3>9. QED
      BY <1>1, <1>2, <2>2, <2>5, <2>7, <3>2, <3>7, <3>8
  <2>8. QED
    BY <2>6, <2>7
<1>11. ASSUME NEW c \in Callers, Retry(c)  PROVE Goal
  <2>1. phase[c] = "refused" /\ phase' = [phase EXCEPT ![c] = "idle"]
        /\ active' = active /\ waiters' = waiters
    BY <1>11 DEF Retry
  <2>2. At(phase', "waiting") = At(phase, "waiting")
    BY <1>1, <2>1 DEF At
  <2>3. Moves(phase, phase', c, "idle")
    BY <1>1, <1>3, <2>1, MoveOne
  <2>4. /\ Cardinality(At(phase', "holding")) = Cardinality(At(phase, "holding"))
        /\ Cardinality(At(phase', "granted")) = Cardinality(At(phase, "granted"))
        /\ phase' \in [Callers -> Phases]
    BY <1>3, <2>1, <2>3 DEF Moves
  <2>5. Lists(waiters', At(phase', "waiting"))
    BY <1>1, <2>1, <2>2
  <2>6. QED
    BY <1>1, <1>2, <2>1, <2>4, <2>5
<1>12. ASSUME UNCHANGED vars  PROVE Goal
  <2>1. active' = active /\ waiters' = waiters /\ phase' = phase
    BY <1>12 DEF vars
  <2>2. /\ Cardinality(At(phase', "holding")) = Cardinality(At(phase, "holding"))
        /\ Cardinality(At(phase', "granted")) = Cardinality(At(phase, "granted"))
        /\ Lists(waiters', At(phase', "waiting"))
        /\ phase' \in [Callers -> Phases]
    BY <1>1, <2>1
  <2>3. QED
    BY <1>1, <1>2, <2>1, <2>2
<1>13. QED
  BY <1>4, <1>5, <1>6, <1>7, <1>8, <1>9, <1>10, <1>11, <1>12 DEF Next

LEMMA LimiterInvariant == Spec => []IInv
  BY InitIInv, StepIInv, PTL DEF Spec

\* Types and the queue bound hold for every number of callers and slots.
THEOREM LimiterTypes == Spec => []TypeOK
  BY LimiterInvariant, PTL DEF IInv

\* this.active never drifts from the number of callers inside.
THEOREM LimiterCountsHolders == Spec => []ActiveCountsHolders
  BY LimiterInvariant, PTL DEF IInv

\* this.waiters lists every pending promise once, and nothing else.
THEOREM LimiterQueueIsExact == Spec => []QueueHoldsPendingWaiters
  BY LimiterInvariant, PTL DEF IInv

\* release() loses no wakeup.
THEOREM LimiterLosesNoWakeup == Spec => []NoIdleSlotWhileWaiting
  BY LimiterInvariant, PTL DEF IInv
-----------------------------------------------------------------------------
\* Every step of the limiter is a step of SpawnAdmission: the counter stands
\* for the number of holders, the length of the list for the number waiting.
LEMMA SameCardinality == \A S : Promise!Cardinality(S) = Cardinality(S)
  BY DEF Promise!Cardinality, Cardinality, Promise!IsFiniteSet, IsFiniteSet

LEMMA StepPromise == IInv /\ [Next]_vars => [Promise!Next]_phase
<1> SUFFICES ASSUME IInv, [Next]_vars  PROVE [Promise!Next]_phase
  OBVIOUS
<1>1. /\ active = Promise!Cardinality(Promise!In("holding"))
      /\ Len(waiters) = Promise!Cardinality(Promise!In("waiting"))
      /\ waiters \in Seq(Callers)
  <2>1. \A p : Promise!In(p) = In(p)
    BY DEF Promise!In, In
  <2>2. QED
    BY <2>1, QueueAsList, ListsLen, SameCardinality DEF IInv, TypeOK, ActiveCountsHolders
<1>2. waiters # <<>> => Head(waiters) \in Promise!In("waiting")
  BY QueueAsList, ListsTail DEF IInv, TypeOK, Promise!In, In
<1>3. waiters = <<>> => Promise!In("waiting") = {}
  BY QueueAsList DEF IInv, Lists, Promise!In, In
<1>4. ASSUME NEW c \in Callers, AcquireNow(c)  PROVE Promise!Admit(c)
  BY <1>1, <1>4 DEF AcquireNow, SlotFree, Enter, Promise!Admit, Promise!Become
<1>5. ASSUME NEW c \in Callers, RejectFull(c)  PROVE Promise!Refuse(c)
  BY <1>1, <1>5, LimiterAssumption
     DEF RejectFull, SlotFree, QueueFull, Promise!Refuse, Promise!Become, IInv, TypeOK
<1>6. ASSUME NEW c \in Callers, Enqueue(c)  PROVE Promise!Queue(c)
  BY <1>1, <1>6, LimiterAssumption
     DEF Enqueue, SlotFree, QueueFull, Promise!Queue, Promise!Become, IInv, TypeOK
<1>7. ASSUME NEW c \in Callers, QueueTimeout(c)  PROVE Promise!GiveUp(c)
  BY <1>7 DEF QueueTimeout, Promise!GiveUp, Promise!Become
<1>8. ASSUME NEW c \in Callers, Resume(c)  PROVE Promise!Enter(c)
  BY <1>8 DEF Resume, Enter, Promise!Enter, Promise!Become
<1>9. ASSUME NEW c \in Callers, Release(c)  PROVE Promise!Leave(c)
  BY <1>2, <1>3, <1>9 DEF Release, HandOver, Promise!Leave, Promise!Become
<1>10. ASSUME NEW c \in Callers, Retry(c)  PROVE Promise!Retry(c)
  BY <1>10 DEF Retry, Promise!Retry, Promise!Become
<1>11. QED
  BY <1>4, <1>5, <1>6, <1>7, <1>8, <1>9, <1>10 DEF Next, vars, Promise!Next

\* The counter and the waiter list implement the promise, whatever the bounds.
THEOREM LimiterImplementsPromise == Spec => ImplementsPromise
<1>1. Init => Promise!Init
  BY DEF Init, Promise!Init
<1>2. QED
  BY <1>1, LimiterInvariant, StepPromise, PTL DEF Spec, ImplementsPromise, Promise!Spec
=============================================================================
