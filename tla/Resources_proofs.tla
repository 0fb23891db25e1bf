-------------------------- MODULE Resources_proofs --------------------------
(***************************************************************************)
(* Proofs about the bulkhead and about the modules that sit on PostgreSQL, *)
(* for any number of callers and rows, any pool size and any limits: the   *)
(* slot counter is exact, no wakeup is lost, slots are granted in FIFO     *)
(* order, the wait queue of Bulkhead.execute stays within its limit when   *)
(* no call comes through the ticket interface, and the gauges count no     *)
(* call twice (Bulkhead); transactions are whole, honest and committed     *)
(* once (Records); attempts are numbered and pages walked without          *)
(* inventing or missing a row (AttemptHistory); what a cache returns has a *)
(* bounded age, and entries stay for their time (Caches).                  *)
(***************************************************************************)
EXTENDS Bulkhead, Records, AttemptHistory, Caches, SequenceTheorems, FiniteSetTheorems, Integers, TLAPS

-----------------------------------------------------------------------------
(* Bulkhead *)

\* The three parts support each other: a slot can only be granted to a caller
\* that owns none because the queue holds exactly the waiting calls.
IInv ==
    /\ TypeOK
    /\ SlotConservation
    /\ NoLostWakeup

\* The set of calls is finite, and so is every set of holders.
LEMMA CallersFinite ==
    /\ IsFiniteSet(Callers)
    /\ IsFiniteSet(Holders)
    /\ Cardinality(Holders) \in Nat
<1>1. IsFiniteSet(Callers)
  BY CallersAssumption, FS_Union DEF Callers
<1>2. IsFiniteSet(Holders)
  BY <1>1, FS_Subset, Holders \subseteq Callers DEF Holders
<1>3. QED
  BY <1>1, <1>2, FS_CardinalityType

\* What splice(idx, 1) leaves: the other elements, in their order.
LEMMA RemoveAtFacts ==
    ASSUME NEW S, NEW s \in Seq(S), NEW i \in 1..Len(s)
    PROVE  /\ RemoveAt(s, i) \in Seq(S)
           /\ Len(RemoveAt(s, i)) = Len(s) - 1
           /\ \A j \in 1..Len(s) - 1 :
                 RemoveAt(s, i)[j] = IF j < i THEN s[j] ELSE s[j + 1]
<1>1. RemoveAt(s, i) = SubSeq(s, 1, i - 1) \o SubSeq(s, i + 1, Len(s))
  BY DEF RemoveAt
<1>2. Len(s) \in Nat
  BY LenProperties
<1>3. /\ SubSeq(s, 1, i - 1) \in Seq(S)
      /\ Len(SubSeq(s, 1, i - 1)) = i - 1
      /\ \A j \in 1..i - 1 : SubSeq(s, 1, i - 1)[j] = s[j]
  BY <1>2
<1>4. /\ SubSeq(s, i + 1, Len(s)) \in Seq(S)
      /\ Len(SubSeq(s, i + 1, Len(s))) = Len(s) - i
      /\ \A j \in 1..Len(s) - i : SubSeq(s, i + 1, Len(s))[j] = s[i + j]
  BY <1>2
<1> DEFINE front == SubSeq(s, 1, i - 1)
           back == SubSeq(s, i + 1, Len(s))
<1>5. /\ front \o back \in Seq(S)
      /\ Len(front \o back) = Len(front) + Len(back)
      /\ \A j \in 1..Len(front) + Len(back) :
            (front \o back)[j] = IF j <= Len(front) THEN front[j] ELSE back[j - Len(front)]
  BY <1>3, <1>4, ConcatProperties
<1> HIDE DEF front, back
<1> DEFINE rest == front \o back
<1>L. Len(front) = i - 1 /\ Len(back) = Len(s) - i
  BY <1>3, <1>4 DEF front, back
<1>6. /\ RemoveAt(s, i) = rest
      /\ rest \in Seq(S)
      /\ Len(rest) = Len(s) - 1
  <2>2. RemoveAt(s, i) = rest
    BY <1>1 DEF front, back
  <2>3. QED
    BY <1>2, <1>5, <1>L, <2>2
<1>7. ASSUME NEW j \in 1..Len(s) - 1
      PROVE  rest[j] = IF j < i THEN s[j] ELSE s[j + 1]
  <2>0. /\ j \in Nat /\ i \in Nat
        /\ j \in 1..Len(front) + Len(back)
        /\ Len(front) = i - 1
    BY <1>2, <1>L
  <2>1. CASE j < i
    <3>1. rest[j] = front[j]
      BY <1>5, <2>0, <2>1
    <3>2. front[j] = s[j]
      BY <1>3, <2>0, <2>1 DEF front
    <3>3. QED
      BY <2>1, <3>1, <3>2
  <2>2. CASE ~(j < i)
    <3>1. j - (i - 1) \in 1..Len(s) - i /\ i + (j - (i - 1)) = j + 1
      BY <1>2, <2>0, <2>2
    <3>2. rest[j] = back[j - (i - 1)]
      BY <1>5, <2>0, <2>2
    <3>3. back[j - (i - 1)] = s[i + (j - (i - 1))]
      BY <1>4, <3>1 DEF back
    <3>4. QED
      BY <2>2, <3>1, <3>2, <3>3
  <2>3. QED
    BY <2>1, <2>2
<1> HIDE DEF rest
<1>8. QED
  BY <1>6, <1>7

-----------------------------------------------------------------------------

\* The slot arithmetic of tryAcquire: a call without a slot gets one more.
LEMMA GrantCount ==
    ASSUME TypeOK, NEW c \in Callers, c \notin Holders,
           Holders' = Holders \cup {c}
    PROVE  Cardinality(Holders') = Cardinality(Holders) + 1
BY CallersFinite, FS_AddElement

\* The slot arithmetic of release: its caller gives one back.
LEMMA ReleaseCount ==
    ASSUME TypeOK, NEW c \in Callers, c \in Holders,
           Holders' = Holders \ {c}
    PROVE  Cardinality(Holders') = Cardinality(Holders) - 1
BY CallersFinite, FS_RemoveElement

\* A release with waiters: one holder leaves, the oldest waiter takes its place.
LEMMA HandoverCount ==
    ASSUME TypeOK, NEW c \in Callers, NEW w \in Callers,
           c \in Holders, w \notin Holders,
           Holders' = (Holders \ {c}) \cup {w}
    PROVE  Cardinality(Holders') = Cardinality(Holders)
<1>1. /\ IsFiniteSet(Holders \ {c})
      /\ Cardinality(Holders \ {c}) = Cardinality(Holders) - 1
  BY CallersFinite, FS_RemoveElement
<1>2. Cardinality(Holders') = Cardinality(Holders \ {c}) + 1
  BY <1>1, FS_AddElement
<1>3. QED
  BY <1>1, <1>2, CallersFinite

\* tryAcquire preserves the invariant for a call that is not under way.
LEMMA TryAcquireStep ==
    ASSUME IInv, NEW c \in Callers, pc[c] = "idle", TryAcquire(c),
           active' \in Nat, queued' \in Nat
    PROVE  IInv'
<1> USE SizeAssumption
<1>0. TypeOK /\ SlotConservation /\ NoLostWakeup
  BY DEF IInv
<1>1. CASE inUse < MaxConcurrent
  <2>1. /\ inUse' = inUse + 1
        /\ pc' = [pc EXCEPT ![c] = "granted"]
        /\ queue' = queue
    BY <1>1 DEF TryAcquire
  <2>2. queue = <<>>
    BY <1>0, <1>1 DEF NoLostWakeup, TypeOK
  <2>3. Holders' = Holders \cup {c} /\ c \notin Holders
    BY <1>0, <2>1 DEF Holders, TypeOK
  <2>4. TypeOK'
    BY <1>0, <2>1 DEF TypeOK, Stages
  <2>5. SlotConservation'
    <3>1. Cardinality(Holders') = Cardinality(Holders) + 1
      BY <1>0, <2>3, GrantCount
    <3>2. inUse' <= MaxConcurrent
      BY <1>0, <1>1, <2>1 DEF TypeOK
    <3>3. QED
      BY <1>0, <2>1, <3>1, <3>2 DEF SlotConservation
  <2>6. NoLostWakeup'
    BY <1>0, <2>1, <2>2 DEF NoLostWakeup, TypeOK
  <2>7. QED
    BY <2>4, <2>5, <2>6 DEF IInv
<1>2. CASE ~(inUse < MaxConcurrent)
  <2>1. /\ queue' = Append(queue, c)
        /\ pc' = [pc EXCEPT ![c] = "waiting"]
        /\ inUse' = inUse
    BY <1>2 DEF TryAcquire
  <2>2. Holders' = Holders
    BY <1>0, <2>1 DEF Holders, TypeOK
  <2>3. TypeOK'
    BY <1>0, <2>1 DEF TypeOK, Stages
  <2>4. SlotConservation'
    BY <1>0, <2>1, <2>2 DEF SlotConservation
  <2>5. /\ Len(queue) \in Nat
        /\ Len(queue') = Len(queue) + 1
        /\ \A i \in 1..Len(queue) : queue'[i] = queue[i]
        /\ queue'[Len(queue) + 1] = c
    BY <1>0, <2>1, AppendProperties, LenProperties DEF TypeOK
  <2>6. \A i \in 1..Len(queue) : queue[i] # c
    BY <1>0 DEF NoLostWakeup
  <2>7. \A d \in Callers : pc'[d] = "waiting" <=> \E i \in 1..Len(queue') : queue'[i] = d
    <3> TAKE d \in Callers
    <3>1. CASE d = c
      BY <1>0, <2>1, <2>5, <3>1 DEF TypeOK
    <3>2. CASE d # c
      <4>1. pc'[d] = pc[d]
        BY <1>0, <2>1, <3>2 DEF TypeOK
      <4>2. (\E i \in 1..Len(queue') : queue'[i] = d) <=> (\E i \in 1..Len(queue) : queue[i] = d)
        BY <2>5, <3>2
      <4>3. QED
        BY <1>0, <4>1, <4>2 DEF NoLostWakeup
    <3>3. QED
      BY <3>1, <3>2
  <2>8. \A i, j \in 1..Len(queue') : queue'[i] = queue'[j] => i = j
    BY <1>0, <2>5, <2>6 DEF NoLostWakeup
  <2>9. NoLostWakeup'
    BY <1>0, <1>2, <2>1, <2>7, <2>8 DEF NoLostWakeup, TypeOK
  <2>10. QED
    BY <2>3, <2>4, <2>9 DEF IInv
<1>3. QED
  BY <1>1, <1>2

\* release by a holder preserves the invariant, with and without waiters.
LEMMA ReleaseSlotStep ==
    ASSUME IInv, NEW c \in Callers, pc[c] = "running", ReleaseSlot(c),
           active' \in Nat, queued' \in Nat
    PROVE  IInv'
<1> USE SizeAssumption
<1>0. TypeOK /\ SlotConservation /\ NoLostWakeup
  BY DEF IInv
<1>1. c \in Holders
  BY DEF Holders
<1>2. inUse > 0
  <2>1. Cardinality(Holders) # 0
    BY <1>1, CallersFinite, FS_EmptySet
  <2>2. QED
    BY <1>0, <2>1 DEF SlotConservation, TypeOK
<1>3. CASE queue = <<>>
  <2>1. /\ inUse' = inUse - 1
        /\ pc' = [pc EXCEPT ![c] = "idle"]
        /\ queue' = queue
    BY <1>0, <1>2, <1>3 DEF ReleaseSlot, TypeOK
  <2>2. Holders' = Holders \ {c}
    BY <1>0, <2>1 DEF Holders, TypeOK
  <2>3. TypeOK'
    BY <1>0, <1>2, <2>1 DEF TypeOK, Stages
  <2>4. Cardinality(Holders') = Cardinality(Holders) - 1
    BY <1>0, <1>1, <2>2, ReleaseCount
  <2>5. SlotConservation'
    BY <1>0, <1>2, <2>1, <2>4 DEF SlotConservation, TypeOK
  <2>6. NoLostWakeup'
    BY <1>0, <1>3, <2>1 DEF NoLostWakeup, TypeOK
  <2>7. QED
    BY <2>3, <2>5, <2>6 DEF IInv
<1>4. CASE queue # <<>>
  <2> DEFINE w == Head(queue)
  <2>1. /\ w \in Callers
        /\ Len(queue) \in Nat \ {0}
        /\ w = queue[1]
        /\ queue' = Tail(queue)
        /\ queue' \in Seq(Callers)
        /\ Len(queue') = Len(queue) - 1
        /\ \A i \in 1..Len(queue') : queue'[i] = queue[i + 1]
    <3>1. queue' = Tail(queue)
      BY <1>0, <1>2, <1>4 DEF ReleaseSlot, TypeOK
    <3>2. queue \in Seq(Callers)
      BY <1>0 DEF TypeOK
    <3>3. Len(queue) \in Nat \ {0} /\ Head(queue) = queue[1]
      BY <1>4, <3>2
    <3>4. QED
      BY <1>4, <3>1, <3>2, <3>3, HeadTailProperties
  <2>2. pc[w] = "waiting" /\ w # c
    BY <1>0, <2>1 DEF NoLostWakeup
  <2> HIDE DEF w
  <2>3. /\ inUse' = inUse
        /\ pc' = [pc EXCEPT ![c] = "idle", ![w] = "granted"]
    BY <1>0, <1>2, <1>4, <2>2 DEF ReleaseSlot, Grant, TypeOK, w
  <2>4. /\ pc' \in [Callers -> Stages]
        /\ pc'[c] = "idle"
        /\ pc'[w] = "granted"
        /\ \A d \in Callers \ {c, w} : pc'[d] = pc[d]
    BY <1>0, <2>1, <2>2, <2>3 DEF TypeOK, Stages
  <2>5. Holders' = (Holders \ {c}) \cup {w} /\ w \notin Holders
    BY <2>1, <2>2, <2>4 DEF Holders
  <2>6. TypeOK'
    BY <1>0, <2>1, <2>3, <2>4 DEF TypeOK
  <2>7. Cardinality(Holders') = Cardinality(Holders)
    BY <1>0, <1>1, <2>1, <2>5, HandoverCount
  <2>8. SlotConservation'
    BY <1>0, <2>3, <2>7 DEF SlotConservation
  <2>9. \A i \in 1..Len(queue') : queue'[i] # w
    BY <1>0, <2>1 DEF NoLostWakeup
  <2>10. \A d \in Callers : pc'[d] = "waiting" <=> \E i \in 1..Len(queue') : queue'[i] = d
    <3> TAKE d \in Callers
    <3>1. CASE d = w
      BY <2>4, <2>9, <3>1
    <3>2. CASE d = c
      <4>1. \A i \in 1..Len(queue) : queue[i] # c
        BY <1>0 DEF NoLostWakeup
      <4>2. QED
        BY <2>1, <2>4, <3>2, <4>1
    <3>3. CASE d # w /\ d # c
      <4>1. (\E i \in 1..Len(queue') : queue'[i] = d) <=> (\E i \in 1..Len(queue) : queue[i] = d)
        <5>1. ASSUME NEW i \in 1..Len(queue), queue[i] = d
              PROVE  \E k \in 1..Len(queue') : queue'[k] = d
          <6>1. i # 1 /\ i - 1 \in 1..Len(queue') /\ (i - 1) + 1 = i
            BY <2>1, <3>3, <5>1
          <6>2. QED
            BY <2>1, <5>1, <6>1
        <5>2. ASSUME NEW i \in 1..Len(queue'), queue'[i] = d
              PROVE  \E k \in 1..Len(queue) : queue[k] = d
          BY <2>1, <5>2
        <5>3. QED
          BY <5>1, <5>2
      <4>2. QED
        BY <1>0, <2>4, <3>3, <4>1 DEF NoLostWakeup
    <3>4. QED
      BY <3>1, <3>2, <3>3
  <2>11. \A i, j \in 1..Len(queue') : queue'[i] = queue'[j] => i = j
    <3> TAKE i, j \in 1..Len(queue')
    <3>1. i + 1 \in 1..Len(queue) /\ j + 1 \in 1..Len(queue)
      BY <2>1
    <3>2. queue[i + 1] = queue[j + 1] => i + 1 = j + 1
      BY <1>0, <3>1 DEF NoLostWakeup
    <3>3. QED
      BY <2>1, <3>2
  <2>12. queue' # <<>> => inUse' >= MaxConcurrent
    BY <1>0, <1>4, <2>3 DEF NoLostWakeup
  <2>13. NoLostWakeup'
    BY <2>10, <2>11, <2>12 DEF NoLostWakeup
  <2>14. QED
    BY <2>6, <2>8, <2>13 DEF IInv
<1>5. QED
  BY <1>3, <1>4

\* A timer that fires takes exactly its own call out of the queue.
LEMMA TimeoutStep ==
    ASSUME IInv, NEW c \in Callers, Timeout(c)
    PROVE  IInv'
<1>0. TypeOK /\ SlotConservation /\ NoLostWakeup
  BY DEF IInv
<1>1. /\ pc[c] = "waiting"
      /\ queue' = LeaveQueue(c)
      /\ pc' = [pc EXCEPT ![c] = "timedOut"]
      /\ inUse' = inUse /\ active' = active /\ queued' = queued
  BY DEF Timeout
<1>2. PICK i \in 1..Len(queue) : queue[i] = c /\ queue' = RemoveAt(queue, i)
  BY <1>0, <1>1 DEF LeaveQueue, NoLostWakeup
<1>3. queue \in Seq(Callers) /\ Len(queue) \in Nat /\ i \in Nat
  BY <1>0, LenProperties DEF TypeOK
<1>4. /\ queue' \in Seq(Callers)
      /\ Len(queue') = Len(queue) - 1
      /\ \A j \in 1..Len(queue') : queue'[j] = IF j < i THEN queue[j] ELSE queue[j + 1]
  BY <1>2, <1>3, RemoveAtFacts
<1>5. Holders' = Holders
  BY <1>0, <1>1 DEF Holders, TypeOK
<1>6. TypeOK'
  BY <1>0, <1>1, <1>4 DEF TypeOK, Stages
<1>7. SlotConservation'
  BY <1>0, <1>1, <1>5 DEF SlotConservation
<1>8. \A j, k \in 1..Len(queue) : queue[j] = queue[k] => j = k
  BY <1>0 DEF NoLostWakeup
<1>9. \A j \in 1..Len(queue') : queue'[j] # c
  <2> TAKE j \in 1..Len(queue')
  <2>1. j \in Nat /\ j \in 1..Len(queue) /\ j + 1 \in 1..Len(queue)
    BY <1>3, <1>4
  <2>2. CASE j < i
    BY <1>2, <1>3, <1>4, <1>8, <2>1, <2>2
  <2>3. CASE ~(j < i)
    BY <1>2, <1>3, <1>4, <1>8, <2>1, <2>3
  <2>4. QED
    BY <2>2, <2>3
<1>10. \A d \in Callers : pc'[d] = "waiting" <=> \E j \in 1..Len(queue') : queue'[j] = d
  <2> TAKE d \in Callers
  <2>1. CASE d = c
    BY <1>0, <1>1, <1>9, <2>1 DEF TypeOK
  <2>2. CASE d # c
    <3>1. ASSUME NEW j \in 1..Len(queue), queue[j] = d
          PROVE  \E k \in 1..Len(queue') : queue'[k] = d
      <4>1. j \in Nat /\ j # i
        BY <1>2, <1>3, <2>2, <3>1
      <4>2. CASE j < i
        <5>1. j \in 1..Len(queue')
          BY <1>3, <1>4, <4>1, <4>2
        <5>2. QED
          BY <1>4, <3>1, <4>2, <5>1
      <4>3. CASE j > i
        <5>1. j - 1 \in 1..Len(queue') /\ ~(j - 1 < i) /\ (j - 1) + 1 = j
          BY <1>3, <1>4, <4>1, <4>3
        <5>2. QED
          BY <1>4, <3>1, <5>1
      <4>4. QED
        BY <1>3, <4>1, <4>2, <4>3
    <3>2. ASSUME NEW j \in 1..Len(queue'), queue'[j] = d
          PROVE  \E k \in 1..Len(queue) : queue[k] = d
      <4>1. j \in 1..Len(queue) /\ j + 1 \in 1..Len(queue)
        BY <1>3, <1>4
      <4>2. QED
        BY <1>4, <3>2, <4>1
    <3>3. pc'[d] = pc[d]
      BY <1>0, <1>1, <2>2 DEF TypeOK
    <3>4. QED
      BY <1>0, <3>1, <3>2, <3>3 DEF NoLostWakeup
  <2>3. QED
    BY <2>1, <2>2
<1>11. \A j, k \in 1..Len(queue') : queue'[j] = queue'[k] => j = k
  <2> SUFFICES ASSUME NEW j \in 1..Len(queue'), NEW k \in 1..Len(queue'),
                      queue'[j] = queue'[k]
               PROVE  j = k
    OBVIOUS
  <2>1. /\ j \in Nat /\ k \in Nat
        /\ {j, k, j + 1, k + 1} \subseteq 1..Len(queue)
    BY <1>3, <1>4
  <2>2. CASE j < i /\ k < i
    BY <1>4, <1>8, <2>1, <2>2
  <2>3. CASE ~(j < i) /\ ~(k < i)
    BY <1>4, <1>8, <2>1, <2>3
  <2>4. CASE j < i /\ ~(k < i)
    BY <1>3, <1>4, <1>8, <2>1, <2>4
  <2>5. CASE ~(j < i) /\ k < i
    BY <1>3, <1>4, <1>8, <2>1, <2>5
  <2>6. QED
    BY <2>2, <2>3, <2>4, <2>5
<1>12. queue # <<>>
  BY <1>2, <1>3
<1>13. NoLostWakeup'
  BY <1>0, <1>1, <1>10, <1>11, <1>12 DEF NoLostWakeup
<1>14. QED
  BY <1>6, <1>7, <1>13 DEF IInv

\* A step that moves no call into or out of "waiting" or the slots.
LEMMA QuietStep ==
    ASSUME IInv, inUse' = inUse, queue' = queue,
           pc' \in [Callers -> Stages], active' \in Nat, queued' \in Nat,
           Holders' = Holders,
           \A c \in Callers : pc'[c] = "waiting" <=> pc[c] = "waiting"
    PROVE  IInv'
<1>1. TypeOK'
  BY DEF IInv, TypeOK
<1>2. SlotConservation'
  BY DEF IInv, SlotConservation
<1>3. NoLostWakeup'
  BY DEF IInv, NoLostWakeup
<1>4. QED
  BY <1>1, <1>2, <1>3 DEF IInv

\* The invariant is inductive.
LEMMA IInvInductive == IInv /\ [Next]_vars => IInv'
<1> SUFFICES ASSUME IInv, [Next]_vars PROVE IInv'
  OBVIOUS
<1>0. TypeOK
  BY DEF IInv
<1>1. ASSUME NEW c \in ExecCallers, Execute(c) PROVE IInv'
  <2>1. active' \in Nat /\ queued' \in Nat /\ c \in Callers
    BY <1>0, <1>1 DEF Execute, TypeOK, Callers
  <2>2. QED
    BY <1>1, <2>1, TryAcquireStep DEF Execute
<1>2. ASSUME NEW c \in ExecCallers, ResumeExecute(c) PROVE IInv'
  <2>1. c \in Callers
    BY DEF Callers
  <2>2. active' \in Nat /\ queued' \in Nat
    BY <1>0, <1>2 DEF ResumeExecute, TypeOK, Decrement
  <2>3. /\ inUse' = inUse /\ queue' = queue
        /\ pc' \in [Callers -> Stages]
        /\ Holders' = Holders
        /\ \A d \in Callers : pc'[d] = "waiting" <=> pc[d] = "waiting"
    BY <1>0, <1>2, <2>1 DEF ResumeExecute, TypeOK, Holders, Stages
  <2>4. QED
    BY <2>2, <2>3, QuietStep
<1>3. ASSUME NEW c \in ExecCallers, FinishExecute(c) PROVE IInv'
  <2>1. active' \in Nat /\ queued' \in Nat /\ c \in Callers
    BY <1>0, <1>3 DEF FinishExecute, TypeOK, Callers, Decrement
  <2>2. QED
    BY <1>3, <2>1, ReleaseSlotStep DEF FinishExecute
<1>4. ASSUME NEW c \in TicketCallers, AcquireTicket(c) PROVE IInv'
  <2>1. active' \in Nat /\ queued' \in Nat /\ c \in Callers
    BY <1>0, <1>4 DEF AcquireTicket, TypeOK, Callers
  <2>2. QED
    BY <1>4, <2>1, TryAcquireStep DEF AcquireTicket
<1>5. ASSUME NEW c \in TicketCallers, ResumeTicket(c) PROVE IInv'
  <2>1. c \in Callers
    BY DEF Callers
  <2>2. /\ inUse' = inUse /\ queue' = queue
        /\ active' \in Nat /\ queued' \in Nat
        /\ pc' \in [Callers -> Stages]
        /\ Holders' = Holders
        /\ \A d \in Callers : pc'[d] = "waiting" <=> pc[d] = "waiting"
    BY <1>0, <1>5, <2>1 DEF ResumeTicket, TypeOK, Holders, Stages
  <2>3. QED
    BY <2>2, QuietStep
<1>6. ASSUME NEW c \in TicketCallers, ReleaseTicket(c) PROVE IInv'
  <2>1. active' \in Nat /\ queued' \in Nat /\ c \in Callers
    BY <1>0, <1>6 DEF ReleaseTicket, TypeOK, Callers
  <2>2. QED
    BY <1>6, <2>1, ReleaseSlotStep DEF ReleaseTicket
<1>7. ASSUME NEW c \in Callers, Timeout(c) PROVE IInv'
  BY <1>7, TimeoutStep
<1>8. CASE ResetMetrics
  BY <1>0, <1>8, QuietStep DEF ResetMetrics, TypeOK, Holders
<1>9. CASE UNCHANGED vars
  BY <1>0, <1>9, QuietStep DEF vars, TypeOK, Holders
<1>10. QED
  BY <1>1, <1>2, <1>3, <1>4, <1>5, <1>6, <1>7, <1>8, <1>9 DEF Next

\* A fresh bulkhead satisfies the invariant.
LEMMA IInvInit == Init => IInv
<1> SUFFICES ASSUME Init PROVE IInv
  OBVIOUS
<1>1. TypeOK
  BY DEF Init, TypeOK, Stages
<1>2. Holders = {}
  BY DEF Init, Holders
<1>3. SlotConservation
  BY <1>2, FS_EmptySet, SizeAssumption DEF Init, SlotConservation
<1>4. NoLostWakeup
  BY DEF Init, NoLostWakeup
<1>5. QED
  BY <1>1, <1>3, <1>4 DEF IInv

(***************************************************************************)
(* The slot counter of ResourcePool is exact and bounded by maxConcurrent, *)
(* for any number of calls through either interface.                       *)
(***************************************************************************)
THEOREM SlotsAreConserved == Spec => []SlotConservation
<1>1. IInv => SlotConservation
  BY DEF IInv
<1>2. QED
  BY IInvInit, IInvInductive, <1>1, PTL DEF Spec

(***************************************************************************)
(* No call waits while a slot is free, and the queue is exactly the set of *)
(* waiting calls (resource-pool.ts, release and the timer callback).       *)
(***************************************************************************)
THEOREM WakeupsAreNotLost == Spec => []NoLostWakeup
<1>1. IInv => NoLostWakeup
  BY DEF IInv
<1>2. QED
  BY IInvInit, IInvInductive, <1>1, PTL DEF Spec

-----------------------------------------------------------------------------

(***************************************************************************)
(* Slots are granted in FIFO order: while calls are queued only the oldest *)
(* of them can become a holder (resource-pool.ts:10).                      *)
(***************************************************************************)
THEOREM GrantsAreFifo == Spec => FifoGrant
<1> DEFINE Step == \A c \in Callers :
          (c \notin Holders /\ c \in Holders' /\ queue # <<>>) => c = Head(queue)
<1>1. ASSUME IInv, Next, NEW d \in Callers,
             d \notin Holders, d \in Holders', queue # <<>>
      PROVE  d = Head(queue)
  <2>0. TypeOK /\ NoLostWakeup
    BY <1>1 DEF IInv
  <2>1. ~(inUse < MaxConcurrent)
    BY <1>1, <2>0, SizeAssumption DEF NoLostWakeup, TypeOK
  <2>2. /\ pc[d] \notin {"granted", "running"}
        /\ pc'[d] \in {"granted", "running"}
    BY <1>1 DEF Holders
  <2>3. ASSUME NEW c \in Callers, TryAcquire(c) PROVE FALSE
    BY <2>0, <2>1, <2>2, <2>3 DEF TryAcquire, TypeOK
  <2>4. ASSUME NEW c \in Callers, ReleaseSlot(c) PROVE d = Head(queue)
    <3>1. Head(queue) \in Callers
      BY <1>1, <2>0, HeadTailProperties DEF TypeOK
    <3>2. QED
      BY <2>0, <2>2, <2>4, <3>1 DEF ReleaseSlot, TypeOK
  <2>5. Callers = ExecCallers \cup TicketCallers
    BY DEF Callers
  <2>6. CASE \E c \in ExecCallers : Execute(c) \/ FinishExecute(c)
    BY <2>3, <2>4, <2>5, <2>6 DEF Execute, FinishExecute
  <2>7. CASE \E c \in TicketCallers : AcquireTicket(c) \/ ReleaseTicket(c)
    BY <2>3, <2>4, <2>5, <2>7 DEF AcquireTicket, ReleaseTicket
  <2>8. CASE \E c \in ExecCallers : ResumeExecute(c)
    BY <2>0, <2>2, <2>5, <2>8 DEF ResumeExecute, TypeOK
  <2>9. CASE \E c \in TicketCallers : ResumeTicket(c)
    BY <2>0, <2>2, <2>5, <2>9 DEF ResumeTicket, TypeOK
  <2>10. CASE \E c \in Callers : Timeout(c)
    BY <2>0, <2>2, <2>10 DEF Timeout, TypeOK
  <2>11. CASE ResetMetrics
    BY <2>2, <2>11 DEF ResetMetrics
  <2>12. QED
    BY <1>1, <2>6, <2>7, <2>8, <2>9, <2>10, <2>11 DEF Next
<1>2. IInv /\ [Next]_vars => [Step]_vars
  BY <1>1
<1>3. QED
  BY IInvInit, IInvInductive, <1>2, PTL DEF Spec, FifoGrant

(***************************************************************************)
(* Bulkhead.execute keeps the wait queue within maxQueueSize as long as no *)
(* call bypasses its admission test through BulkheadManager.acquire.       *)
(***************************************************************************)
THEOREM ExecuteBoundsQueue ==
    ASSUME TicketCallers = {}
    PROVE  Spec => []QueueDepthBound
<1>1. Init => QueueDepthBound
  BY SizeAssumption DEF Init, QueueDepthBound
<1>2. IInv /\ QueueDepthBound /\ [Next]_vars => QueueDepthBound'
  <2> SUFFICES ASSUME IInv, QueueDepthBound, [Next]_vars PROVE QueueDepthBound'
    OBVIOUS
  <2>0. /\ queue \in Seq(Callers) /\ Len(queue) \in Nat
        /\ inUse \in Nat /\ MaxQueueSize \in Nat /\ MaxConcurrent \in Nat
        /\ Callers = ExecCallers
    BY LenProperties, SizeAssumption DEF IInv, TypeOK, Callers
  <2>1. ASSUME NEW c \in ExecCallers, Execute(c) PROVE QueueDepthBound'
    <3>1. CASE inUse < MaxConcurrent
      BY <2>1, <3>1 DEF Execute, TryAcquire, QueueDepthBound
    <3>2. CASE ~(inUse < MaxConcurrent)
      <4>1. Len(queue) < MaxQueueSize
        BY <2>0, <2>1, <3>2 DEF Execute, IsFull
      <4>2. Len(queue') = Len(queue) + 1
        BY <2>0, <2>1, <3>2, AppendProperties DEF Execute, TryAcquire
      <4>3. QED
        BY <2>0, <4>1, <4>2 DEF QueueDepthBound
    <3>3. QED
      BY <3>1, <3>2
  <2>2. ASSUME NEW c \in ExecCallers, FinishExecute(c) PROVE QueueDepthBound'
    <3>1. queue' = queue \/ (queue # <<>> /\ queue' = Tail(queue))
      BY <2>2 DEF FinishExecute, ReleaseSlot
    <3>2. QED
      BY <2>0, <3>1, HeadTailProperties DEF QueueDepthBound
  <2>3. ASSUME NEW c \in Callers, Timeout(c) PROVE QueueDepthBound'
    <3>1. PICK i \in 1..Len(queue) : queue' = RemoveAt(queue, i)
      BY <2>3 DEF Timeout, LeaveQueue, IInv, NoLostWakeup
    <3>2. QED
      BY <2>0, <3>1, RemoveAtFacts DEF QueueDepthBound
  <2>4. CASE \/ \E c \in ExecCallers : ResumeExecute(c)
             \/ ResetMetrics
             \/ UNCHANGED vars
    BY <2>4 DEF ResumeExecute, ResetMetrics, vars, QueueDepthBound
  <2>5. QED
    BY <2>1, <2>2, <2>3, <2>4 DEF Next
<1>3. QED
  BY IInvInit, IInvInductive, <1>1, <1>2, PTL DEF Spec

-----------------------------------------------------------------------------
(* The gauges of BulkheadMetrics *)

RunningIn(p) == {c \in ExecCallers : p[c] = "running"}
PendingIn(p) == {c \in ExecCallers : p[c] \in {"waiting", "granted", "timedOut"}}

\* The sets the gauges count are finite.
LEMMA GaugedFinite ==
    ASSUME NEW p
    PROVE  /\ IsFiniteSet(RunningIn(p)) /\ Cardinality(RunningIn(p)) \in Nat
           /\ IsFiniteSet(PendingIn(p)) /\ Cardinality(PendingIn(p)) \in Nat
<1>1. RunningIn(p) \subseteq ExecCallers /\ PendingIn(p) \subseteq ExecCallers
  BY DEF RunningIn, PendingIn
<1>2. QED
  BY <1>1, CallersAssumption, FS_Subset, FS_CardinalityType

\* A gauge that is incremented as a call joins, or decremented down to zero
\* as one leaves, still counts no call that is not there.
LEMMA GaugeMoves ==
    ASSUME NEW S, IsFiniteSet(S), NEW n \in Nat, n <= Cardinality(S), NEW c
    PROVE  /\ c \notin S => n + 1 <= Cardinality(S \cup {c})
           /\ c \in S => Decrement(n) <= Cardinality(S \ {c})
<1>1. Cardinality(S) \in Nat
  BY FS_CardinalityType
<1>2. c \notin S => Cardinality(S \cup {c}) = Cardinality(S) + 1
  BY FS_AddElement
<1>3. c \in S => Cardinality(S \ {c}) = Cardinality(S) - 1 /\ Cardinality(S) # 0
  BY FS_RemoveElement, FS_EmptySet
<1>4. QED
  BY <1>1, <1>2, <1>3 DEF Decrement

\* What release does to the stages: its caller is idle, and the oldest
\* waiter, if any, is granted.
LEMMA ReleaseStages ==
    ASSUME IInv, NEW c \in Callers, pc[c] = "running", ReleaseSlot(c), NEW d \in Callers
    PROVE  \/ d = c /\ pc'[d] = "idle"
           \/ d # c /\ pc'[d] = pc[d]
           \/ d # c /\ pc[d] = "waiting" /\ pc'[d] = "granted"
<1>0. TypeOK /\ NoLostWakeup
  BY DEF IInv
<1>1. CASE pc' = [pc EXCEPT ![c] = "idle"]
  BY <1>0, <1>1 DEF TypeOK
<1>2. CASE queue # <<>> /\ pc' = [pc EXCEPT ![c] = "idle", ![Head(queue)] = Grant(Head(queue))]
  <2>1. Head(queue) \in Callers /\ Len(queue) \in Nat \ {0} /\ Head(queue) = queue[1]
    BY <1>0, <1>2, HeadTailProperties DEF TypeOK
  <2>2. pc[Head(queue)] = "waiting"
    BY <1>0, <2>1 DEF NoLostWakeup
  <2>3. Grant(Head(queue)) = "granted"
    BY <2>2 DEF Grant
  <2>4. QED
    BY <1>0, <1>2, <2>1, <2>2, <2>3 DEF TypeOK
<1>3. QED
  BY <1>1, <1>2 DEF ReleaseSlot

(***************************************************************************)
(* The gauges of BulkheadMetrics never report an execute call that is not  *)
(* there, for any number of calls and with resets at any moment: the calls *)
(* a reset forgets leave through the Math.max clamp.                       *)
(***************************************************************************)
THEOREM GaugesNeverOvercount == Spec => []MetricsNeverOvercount
<1>0. MetricsNeverOvercount <=> /\ active <= Cardinality(RunningIn(pc))
                                /\ queued <= Cardinality(PendingIn(pc))
  BY DEF MetricsNeverOvercount, RunningIn, PendingIn
<1>1. MetricsNeverOvercount' <=> /\ active' <= Cardinality(RunningIn(pc'))
                                 /\ queued' <= Cardinality(PendingIn(pc'))
  BY DEF MetricsNeverOvercount, RunningIn, PendingIn
<1>2. Init => MetricsNeverOvercount
  BY <1>0, GaugedFinite DEF Init
<1>3. IInv /\ MetricsNeverOvercount /\ [Next]_vars => MetricsNeverOvercount'
  <2> SUFFICES ASSUME IInv, MetricsNeverOvercount, [Next]_vars PROVE MetricsNeverOvercount'
    OBVIOUS
  <2>0. /\ TypeOK /\ active \in Nat /\ queued \in Nat
        /\ ExecCallers \subseteq Callers /\ TicketCallers \subseteq Callers
        /\ ExecCallers \cap TicketCallers = {}
    BY CallersAssumption DEF IInv, TypeOK, Callers
  <2>1. ASSUME NEW c \in ExecCallers, Execute(c) PROVE MetricsNeverOvercount'
    <3>1. /\ c \notin PendingIn(pc) /\ PendingIn(pc') = PendingIn(pc) \cup {c}
          /\ RunningIn(pc') = RunningIn(pc)
      BY <2>0, <2>1 DEF Execute, TryAcquire, TypeOK, PendingIn, RunningIn
    <3>2. active' = active /\ queued' = queued + 1
      BY <2>1 DEF Execute
    <3>3. QED
      BY <1>0, <1>1, <2>0, <3>1, <3>2, GaugedFinite, GaugeMoves
  <2>2. ASSUME NEW c \in ExecCallers, ResumeExecute(c) PROVE MetricsNeverOvercount'
    <3>1. queued' = Decrement(queued)
      BY <2>2 DEF ResumeExecute
    <3>2. c \in PendingIn(pc) /\ PendingIn(pc') = PendingIn(pc) \ {c}
      BY <2>0, <2>2 DEF ResumeExecute, TypeOK, PendingIn
    <3>3. queued' <= Cardinality(PendingIn(pc'))
      BY <1>0, <2>0, <3>1, <3>2, GaugedFinite, GaugeMoves
    <3>4. CASE pc[c] = "granted"
      <4>1. active' = active + 1 /\ c \notin RunningIn(pc) /\ RunningIn(pc') = RunningIn(pc) \cup {c}
        BY <2>0, <2>2, <3>4 DEF ResumeExecute, TypeOK, RunningIn
      <4>2. QED
        BY <1>0, <1>1, <2>0, <3>3, <4>1, GaugedFinite, GaugeMoves
    <3>5. CASE pc[c] = "timedOut"
      <4>1. active' = active /\ RunningIn(pc') = RunningIn(pc)
        BY <2>0, <2>2, <3>5 DEF ResumeExecute, TypeOK, RunningIn
      <4>2. QED
        BY <1>0, <1>1, <3>3, <4>1
    <3>6. QED
      BY <2>2, <3>4, <3>5 DEF ResumeExecute
  <2>3. ASSUME NEW c \in ExecCallers, FinishExecute(c) PROVE MetricsNeverOvercount'
    <3>1. /\ pc[c] = "running" /\ ReleaseSlot(c) /\ c \in Callers
          /\ active' = Decrement(active) /\ queued' = queued
      BY <2>0, <2>3 DEF FinishExecute
    <3>2. /\ c \in RunningIn(pc) /\ RunningIn(pc') = RunningIn(pc) \ {c}
          /\ PendingIn(pc') = PendingIn(pc)
      BY <2>0, <3>1, ReleaseStages DEF RunningIn, PendingIn
    <3>3. QED
      BY <1>0, <1>1, <2>0, <3>1, <3>2, GaugedFinite, GaugeMoves
  <2>4. ASSUME NEW c \in TicketCallers, AcquireTicket(c) \/ ResumeTicket(c)
        PROVE  MetricsNeverOvercount'
    <3>1. UNCHANGED <<active, queued>> /\ \A d \in ExecCallers : pc'[d] = pc[d]
      BY <2>0, <2>4 DEF AcquireTicket, ResumeTicket, TryAcquire, TypeOK
    <3>2. RunningIn(pc') = RunningIn(pc) /\ PendingIn(pc') = PendingIn(pc)
      BY <3>1 DEF RunningIn, PendingIn
    <3>3. QED
      BY <1>0, <1>1, <3>1, <3>2
  <2>5. ASSUME NEW c \in TicketCallers, ReleaseTicket(c) PROVE MetricsNeverOvercount'
    <3>1. /\ pc[c] = "running" /\ ReleaseSlot(c) /\ c \in Callers /\ c \notin ExecCallers
          /\ UNCHANGED <<active, queued>>
      BY <2>0, <2>5 DEF ReleaseTicket
    <3>2. RunningIn(pc') = RunningIn(pc) /\ PendingIn(pc') = PendingIn(pc)
      BY <2>0, <3>1, ReleaseStages DEF RunningIn, PendingIn
    <3>3. QED
      BY <1>0, <1>1, <3>1, <3>2
  <2>6. ASSUME NEW c \in Callers, Timeout(c) PROVE MetricsNeverOvercount'
    <3>1. /\ RunningIn(pc') = RunningIn(pc) /\ PendingIn(pc') = PendingIn(pc)
          /\ UNCHANGED <<active, queued>>
      BY <2>0, <2>6 DEF Timeout, TypeOK, RunningIn, PendingIn
    <3>2. QED
      BY <1>0, <1>1, <3>1
  <2>7. CASE ResetMetrics
    BY <1>1, <2>7, GaugedFinite DEF ResetMetrics
  <2>8. CASE UNCHANGED vars
    BY <1>0, <1>1, <2>8 DEF vars
  <2>9. QED
    BY <2>1, <2>2, <2>3, <2>4, <2>5, <2>6, <2>7, <2>8 DEF Next
<1>4. QED
  BY IInvInit, IInvInductive, <1>2, <1>3, PTL DEF Spec

-----------------------------------------------------------------------------
(* Records *)

Answers == {"nothing", "ok", "rolledBack", "ConflictError", "ValidationError", "NotFoundError",
            "InternalError", "InfrastructureError"}
Ops == [kind : {"create", "update", "delete", "refuse"}, audits : BOOLEAN, checks : BOOLEAN]

TxCalls ==
    [at : {"write", "audit", "return", "end", "commit", "over"},
     mode : {"alone", "tx", "manual"},
     op : Ops,
     plan : Plans, done : Nat, tries : Nat, aborted : BOOLEAN,
     changed : SUBSET Rows, noted : SUBSET Rows, auditLost : BOOLEAN, ackLost : BOOLEAN]

\* The first n rows of a plan.
Marked(plan, n) == {plan[i] : i \in 1..n}

(***************************************************************************)
(* A transaction under way: nothing of it is committed, its answer is open *)
(* (or given early by commitTransaction and rollbackTransaction), and      *)
(* unless it is aborted it has changed and noted exactly the rows of its   *)
(* plan up to where it stands.  Only a lost audit entry aborts a           *)
(* transaction of TransactionManager that goes on.                         *)
(***************************************************************************)
Live(k, w, a, n, h) ==
    /\ k.at \in {"write", "audit", "end", "commit"}
    /\ w = {} /\ a = {} /\ n = 0
    /\ h = "nothing" \/ (k.mode = "manual" /\ k.at = "commit"
                          /\ (h = "ok" \/ (h = "rolledBack" /\ k.aborted)))
    /\ k.at = "end" => k.mode = "manual"
    /\ k.mode = "tx" /\ k.aborted => k.auditLost
    /\ ~k.aborted =>
          /\ k.at \in {"end", "commit"} => k.done = Len(k.plan)
          /\ k.at # "audit" => k.changed = Marked(k.plan, k.done)
          /\ k.at = "audit" => k.changed = Marked(k.plan, k.done + 1)
          /\ k.op.audits => k.noted = Marked(k.plan, k.done)

\* A transaction that is over: all or nothing, and what its caller heard.
Ended(k, w, a, n, h) ==
    /\ k.at = "over" /\ n \in {0, 1}
    /\ w \in {{}, ToSet(k.plan)}
    /\ k.op.audits => a = w
    /\ h = "ok" /\ k.mode = "tx" /\ ~k.auditLost => w = ToSet(k.plan)
    /\ h \notin {"ok", "nothing"} /\ ~k.ackLost => w = {}

\* Where a caller stands, from its call, its rows, its audit entries, its
\* commits and its answer.
Standing(k, w, a, n, h) ==
    \/ k = NoCall /\ w = {} /\ a = {} /\ n = 0 /\ h = "nothing"
    \/ /\ k \in TxCalls
       /\ k.at \in {"write", "audit"} => k.done < Len(k.plan)
       /\ \/ k.mode = "alone" /\ n = 0 /\ k.at \in {"write", "audit", "return", "over"}
          \/ k.mode # "alone" /\ (Live(k, w, a, n, h) \/ Ended(k, w, a, n, h))

TxInv ==
    /\ call \in [Writers -> {NoCall} \cup TxCalls]
    /\ written \in [Writers -> SUBSET Rows] /\ audited \in [Writers -> SUBSET Rows]
    /\ commits \in [Writers -> Nat] /\ heard \in [Writers -> Answers]
    /\ \A c \in Writers : Standing(call[c], written[c], audited[c], commits[c], heard[c])

\* A plan names one row, or two.
LEMMA PlanFacts ==
    ASSUME NEW plan \in Plans
    PROVE  /\ Len(plan) \in {1, 2} /\ \A i \in 1..Len(plan) : plan[i] \in Rows
           /\ ToSet(plan) = Marked(plan, Len(plan)) /\ ToSet(plan) \in SUBSET Rows
<1>1. ASSUME NEW r \in Rows, plan = <<r>>
      PROVE  Len(plan) = 1 /\ DOMAIN plan = 1..1 /\ plan[1] \in Rows
  <2>1. plan \in Seq(Rows) /\ Len(plan) = 1 /\ plan[1] = r
    BY <1>1
  <2>2. QED
    BY <2>1, LenProperties
<1>2. ASSUME plan \in [1..2 -> Rows]
      PROVE  Len(plan) = 2 /\ DOMAIN plan = 1..2 /\ plan[1] \in Rows /\ plan[2] \in Rows
  <2>0. plan = <<plan[1], plan[2]>>
    BY <1>2
  <2>1. plan \in Seq(Rows)
    <3>1. plan[1] \in Rows /\ plan[2] \in Rows
      BY <1>2
    <3>2. \A a, b \in Rows : <<a, b>> \in Seq(Rows)
      OBVIOUS
    <3>3. QED
      BY <2>0, <3>1, <3>2
  <2>2. DOMAIN plan = 1..Len(plan) /\ Len(plan) \in Nat
    BY <2>1, LenProperties
  <2>3. DOMAIN plan = 1..2
    BY <1>2
  <2>4. QED
    BY <1>2, <2>2, <2>3
<1>3. Len(plan) \in {1, 2} /\ DOMAIN plan = 1..Len(plan) /\ \A i \in 1..Len(plan) : plan[i] \in Rows
  <2>1. CASE \E r \in Rows : plan = <<r>>
    BY <1>1, <2>1
  <2>2. CASE plan \in [1..2 -> Rows]
    BY <1>2, <2>2
  <2>3. QED
    BY <2>1, <2>2 DEF Plans
<1>4. QED
  BY <1>3 DEF ToSet, Marked

\* The rows of a plan, one after the other.
LEMMA MarkedFacts ==
    ASSUME NEW plan, NEW n \in Nat
    PROVE  Marked(plan, 0) = {} /\ Marked(plan, n + 1) = Marked(plan, n) \cup {plan[n + 1]}
  BY DEF Marked

\* A step of one caller.
LEMMA OneCaller ==
    ASSUME TxInv, NEW c \in Writers, NEW k \in {NoCall} \cup TxCalls,
           NEW w \in SUBSET Rows, NEW a \in SUBSET Rows, NEW n \in Nat, NEW h \in Answers,
           Standing(k, w, a, n, h),
           call' = [call EXCEPT ![c] = k],
           written' = [written EXCEPT ![c] = w] , audited' = [audited EXCEPT ![c] = a],
           commits' = [commits EXCEPT ![c] = n], heard' = [heard EXCEPT ![c] = h]
    PROVE  TxInv'
<1>1. /\ call' \in [Writers -> {NoCall} \cup TxCalls]
      /\ written' \in [Writers -> SUBSET Rows] /\ audited' \in [Writers -> SUBSET Rows]
      /\ commits' \in [Writers -> Nat] /\ heard' \in [Writers -> Answers]
  BY DEF TxInv
<1>2. ASSUME NEW b \in Writers
      PROVE  Standing(call'[b], written'[b], audited'[b], commits'[b], heard'[b])
  <2>1. CASE b = c
    <3>1. /\ call'[b] = k /\ written'[b] = w /\ audited'[b] = a /\ commits'[b] = n
          /\ heard'[b] = h
      BY <2>1 DEF TxInv
    <3>2. QED
      BY <3>1
  <2>2. CASE b # c
    <3>1. /\ call'[b] = call[b] /\ written'[b] = written[b] /\ audited'[b] = audited[b]
          /\ commits'[b] = commits[b] /\ heard'[b] = heard[b]
      BY <2>2 DEF TxInv
    <3>2. Standing(call[b], written[b], audited[b], commits[b], heard[b])
      BY DEF TxInv
    <3>3. QED
      BY <3>1, <3>2
  <2>3. QED
    BY <2>1, <2>2
<1>3. QED
  BY <1>1, <1>2 DEF TxInv

\* What a step leaves alone it may be said to write back.
LEMMA WrittenBack ==
    ASSUME TxInv, NEW c \in Writers
    PROVE  /\ UNCHANGED call => call' = [call EXCEPT ![c] = call[c]]
           /\ UNCHANGED written => written' = [written EXCEPT ![c] = written[c]]
           /\ UNCHANGED audited => audited' = [audited EXCEPT ![c] = audited[c]]
           /\ UNCHANGED commits => commits' = [commits EXCEPT ![c] = commits[c]]
           /\ UNCHANGED heard => heard' = [heard EXCEPT ![c] = heard[c]]
           /\ written[c] \in SUBSET Rows /\ audited[c] \in SUBSET Rows
           /\ commits[c] \in Nat /\ heard[c] \in Answers
  BY DEF TxInv

\* A step that commits nothing, with and without an answer.
LEMMA CallerTurns ==
    ASSUME TxInv, NEW c \in Writers, NEW k \in TxCalls, NEW h \in Answers,
           call' = [call EXCEPT ![c] = k], heard' = [heard EXCEPT ![c] = h],
           UNCHANGED <<written, audited, commits>>,
           Standing(k, written[c], audited[c], commits[c], h)
    PROVE  TxInv'
<1> DEFINE w == written[c]
           a == audited[c]
           n == commits[c]
<1>1. /\ w \in SUBSET Rows /\ a \in SUBSET Rows /\ n \in Nat
      /\ written' = [written EXCEPT ![c] = w] /\ audited' = [audited EXCEPT ![c] = a]
      /\ commits' = [commits EXCEPT ![c] = n] /\ Standing(k, w, a, n, h)
  BY WrittenBack
<1> HIDE DEF w, a, n
<1>2. QED
  BY <1>1, OneCaller

LEMMA CallerMoves ==
    ASSUME TxInv, NEW c \in Writers, NEW k \in TxCalls,
           call' = [call EXCEPT ![c] = k], UNCHANGED <<heard, written, audited, commits>>,
           Standing(k, written[c], audited[c], commits[c], heard[c])
    PROVE  TxInv'
<1> DEFINE h == heard[c]
<1>1. h \in Answers /\ heard' = [heard EXCEPT ![c] = h]
      /\ Standing(k, written[c], audited[c], commits[c], h)
  BY WrittenBack
<1> HIDE DEF h
<1>2. QED
  BY <1>1, CallerTurns

\* A caller that is in a call.
LEMMA CallerFacts ==
    ASSUME TxInv, NEW c \in Writers, call[c] # NoCall
    PROVE  /\ call[c] \in TxCalls
           /\ call[c].at \in {"write", "audit"} => call[c].done < Len(call[c].plan)
           /\ ~InTx(c) => call[c].mode = "alone" /\ commits[c] = 0
                          /\ call[c].at \in {"write", "audit", "return", "over"}
           /\ InTx(c) => \/ Live(call[c], written[c], audited[c], commits[c], heard[c])
                         \/ Ended(call[c], written[c], audited[c], commits[c], heard[c])
           /\ call[c].plan \in Plans /\ call[c].done \in Nat /\ call[c].mode \in {"alone", "tx", "manual"}
<1>1. call[c] \in TxCalls
  BY DEF TxInv
<1>2. Standing(call[c], written[c], audited[c], commits[c], heard[c])
  BY DEF TxInv
<1>3. call[c].mode \in {"alone", "tx", "manual"} /\ call[c].plan \in Plans /\ call[c].done \in Nat
  BY <1>1 DEF TxCalls
<1>4. QED
  BY <1>1, <1>2, <1>3 DEF Standing, InTx

-----------------------------------------------------------------------------
(* One lemma per step of a caller *)

\* The answers of failed calls are errors.
LEMMA ErrorFacts ==
    ASSUME NEW error
    PROVE  /\ MapDatabaseError(error) \in Answers /\ HandleError(MapDatabaseError(error)) \in Answers
           /\ MapDatabaseError(error) \notin {"ok", "nothing"}
           /\ HandleError(MapDatabaseError(error)) \notin {"ok", "nothing"}
<1>1. MapDatabaseError(error) \in {"ConflictError", "ValidationError", "NotFoundError", "InternalError"}
  BY DEF MapDatabaseError
<1>2. HandleError(MapDatabaseError(error)) \in
        {"ConflictError", "ValidationError", "InternalError", "InfrastructureError"}
  BY <1>1 DEF HandleError
<1>3. QED
  BY <1>1, <1>2 DEF Answers

LEMMA CallKeeps ==
    ASSUME TxInv, NEW c \in Writers, NEW mode \in {"alone", "tx", "manual"}, NEW plan \in Plans,
           NEW op \in Ops,
           Call(c, mode, op, plan)
    PROVE  TxInv'
<1> DEFINE k == Begins(c, mode, op, plan)
           o == [k EXCEPT !.at = "over"]
<1>1. /\ k \in TxCalls /\ k.at = "write" /\ k.mode = mode /\ k.plan = plan /\ k.done = 0
      /\ ~k.aborted /\ k.changed = {} /\ k.noted = {}
  BY DEF Begins, TxCalls, Ops
<1>2. /\ call[c] = NoCall /\ written[c] = {} /\ audited[c] = {} /\ commits[c] = 0
      /\ heard[c] = "nothing"
  BY DEF Call, TxInv, Standing, TxCalls, NoCall
<1>3. Len(plan) \in {1, 2} /\ Marked(plan, 0) = {}
  BY PlanFacts, MarkedFacts
<1>4. UNCHANGED <<written, audited, commits>>
  BY DEF Call
<1>5. CASE call' = [call EXCEPT ![c] = k] /\ UNCHANGED heard
  <2> HIDE DEF k
  <2>1. Standing(k, {}, {}, 0, "nothing")
    BY <1>1, <1>3 DEF Standing, Live
  <2>2. QED
    BY <1>1, <1>2, <1>4, <1>5, <2>1, CallerMoves
<1>6. CASE call' = [call EXCEPT ![c] = o] /\ heard' = [heard EXCEPT ![c] = "ValidationError"]
  <2> HIDE DEF k
  <2>1. o \in TxCalls /\ o.at = "over" /\ o.mode = k.mode
    BY <1>1 DEF TxCalls
  <2> HIDE DEF o
  <2>2. Standing(o, {}, {}, 0, "ValidationError")
    BY <1>1, <2>1 DEF Standing, Ended
  <2>3. QED
    BY <1>1, <1>2, <1>4, <1>6, <2>1, <2>2, CallerTurns DEF Answers
<1>7. QED
  BY <1>5, <1>6 DEF Call

\* A failed statement: nothing of the transaction is committed, whether it
\* is begun again, given up, or left to the caller that opened it.
LEMMA FailsKeeps ==
    ASSUME TxInv, NEW c \in Writers, call[c] # NoCall, NEW error, Fails(c, error),
           call[c].at \in {"write", "audit", "end"}
    PROVE  TxInv'
<1>1. /\ call[c] \in TxCalls /\ UNCHANGED <<written, audited, commits>>
      /\ call[c].mode \in {"alone", "tx", "manual"} /\ call[c].plan \in Plans
      /\ call[c].op \in Ops
  BY CallerFacts DEF Fails, TxCalls
<1>2. InTx(c) => Live(call[c], written[c], audited[c], commits[c], heard[c])
  BY CallerFacts DEF Ended
<1>3. CASE call[c].mode = "manual"
  <2> DEFINE k == [call[c] EXCEPT !.at = "end", !.aborted = TRUE, !.changed = {}, !.noted = {}]
  <2>1. call' = [call EXCEPT ![c] = k] /\ UNCHANGED heard
    BY <1>3 DEF Fails, Manual, Lost
  <2>2. k \in TxCalls /\ k.at = "end" /\ k.aborted /\ k.mode = "manual"
    BY <1>1, <1>3 DEF TxCalls
  <2> HIDE DEF k
  <2>3. /\ written[c] = {} /\ audited[c] = {} /\ commits[c] = 0 /\ heard[c] = "nothing"
    BY <1>2, <1>3 DEF InTx, Live
  <2>4. Standing(k, {}, {}, 0, "nothing")
    BY <2>2 DEF Standing, Live
  <2>5. QED
    BY <1>1, <2>1, <2>2, <2>3, <2>4, CallerMoves
<1>4. CASE call[c].mode = "tx"
  <2>1. /\ written[c] = {} /\ audited[c] = {} /\ commits[c] = 0 /\ heard[c] = "nothing"
    BY <1>2, <1>4 DEF InTx, Live
  <2>2. Retried(c, error, FALSE)
    BY <1>4 DEF Fails, Manual, InTx
  <2>3. CASE IsDeadlock(error) /\ call[c].tries + 1 < MaxTries
    <3> DEFINE b == Begins(c, "tx", call[c].op, call[c].plan)
               k == [b EXCEPT !.tries = call[c].tries + 1, !.ackLost = call[c].ackLost \/ FALSE]
    <3>1. call' = [call EXCEPT ![c] = k] /\ UNCHANGED heard
      BY <2>2, <2>3 DEF Retried
    <3>2. /\ b \in TxCalls /\ b.at = "write" /\ b.mode = "tx" /\ b.plan = call[c].plan
          /\ b.done = 0 /\ ~b.aborted /\ b.changed = {} /\ b.noted = {}
      BY <1>1 DEF Begins, TxCalls, Ops
    <3>3. call[c].tries + 1 \in Nat /\ (call[c].ackLost \/ FALSE) \in BOOLEAN
      BY <1>1 DEF TxCalls
    <3> HIDE DEF b
    <3>4. /\ k \in TxCalls /\ k.at = "write" /\ k.mode = "tx" /\ k.plan = call[c].plan
          /\ k.done = 0 /\ ~k.aborted /\ k.changed = {} /\ k.noted = {}
      BY <3>2, <3>3 DEF TxCalls
    <3> HIDE DEF k
    <3>5. Len(k.plan) \in {1, 2} /\ Marked(k.plan, 0) = {}
      BY <1>1, <3>4, PlanFacts, MarkedFacts
    <3>6. Standing(k, {}, {}, 0, "nothing")
      BY <3>4, <3>5 DEF Standing, Live
    <3>7. QED
      BY <1>1, <2>1, <3>1, <3>4, <3>6, CallerMoves
  <2>4. CASE ~(IsDeadlock(error) /\ call[c].tries + 1 < MaxTries)
    <3> DEFINE k == Over(call[c], FALSE)
               h == HandleError(MapDatabaseError(error))
    <3>1. call' = [call EXCEPT ![c] = k] /\ heard' = [heard EXCEPT ![c] = h]
      BY <2>2, <2>4 DEF Retried
    <3>2. k \in TxCalls /\ k.at = "over" /\ k.mode = "tx"
      BY <1>1, <1>4 DEF Over, TxCalls
    <3>3. h \in Answers /\ h \notin {"ok", "nothing"}
      BY ErrorFacts
    <3> HIDE DEF k, h
    <3>4. Standing(k, {}, {}, 0, h)
      BY <3>2, <3>3 DEF Standing, Ended
    <3>5. QED
      BY <1>1, <2>1, <3>1, <3>2, <3>3, <3>4, CallerTurns
  <2>5. QED
    BY <2>3, <2>4
<1>5. CASE call[c].mode = "alone"
  <2> DEFINE k == Over(call[c], FALSE)
             h == MapDatabaseError(error)
  <2>1. call' = [call EXCEPT ![c] = k] /\ heard' = [heard EXCEPT ![c] = h]
    BY <1>5 DEF Fails, Manual, InTx, Settled
  <2>2. k \in TxCalls /\ k.at = "over" /\ k.mode = "alone"
    BY <1>1, <1>5 DEF Over, TxCalls
  <2>3. h \in Answers
    BY ErrorFacts
  <2>4. commits[c] = 0
    BY <1>5, CallerFacts DEF InTx
  <2> HIDE DEF k, h
  <2>5. Standing(k, written[c], audited[c], 0, h)
    BY <2>2 DEF Standing
  <2>6. QED
    BY <1>1, <2>1, <2>2, <2>3, <2>4, <2>5, CallerTurns
<1>6. QED
  BY <1>1, <1>3, <1>4, <1>5

\* Where a call goes from a row, and what that does to its fields.
LEMMA AfterRowFacts ==
    ASSUME NEW c, call[c] \in TxCalls, call[c].done < Len(call[c].plan)
    PROVE  LET to == AfterRow(c) IN
           /\ to \in {"write", "return", "commit", "end"}
           /\ to = "write" => call[c].done + 1 < Len(call[c].plan)
           /\ to # "write" => call[c].done + 1 = Len(call[c].plan)
           /\ to = "return" => call[c].mode = "alone"
           /\ to = "commit" => call[c].mode = "tx"
           /\ to = "end" => call[c].mode = "manual"
<1>1. Len(call[c].plan) \in {1, 2} /\ call[c].done \in Nat
      /\ call[c].mode \in {"alone", "tx", "manual"}
  BY PlanFacts DEF TxCalls
<1>2. CASE call[c].mode = "alone"
  BY <1>1, <1>2 DEF AfterRow
<1>3. CASE call[c].mode = "tx"
  BY <1>1, <1>3 DEF AfterRow
<1>4. CASE call[c].mode = "manual"
  BY <1>1, <1>4 DEF AfterRow
<1>5. QED
  BY <1>1, <1>2, <1>3, <1>4

LEMMA AdvanceFacts ==
    ASSUME NEW c, call[c] \in TxCalls, NEW to \in {"write", "audit", "return", "commit", "end"}
    PROVE  /\ Advance(c, to) \in TxCalls /\ Advance(c, to).at = to
           /\ to = "audit" => Advance(c, to).done = call[c].done
           /\ to # "audit" => Advance(c, to).done = call[c].done + 1
           /\ Advance(c, to).mode = call[c].mode /\ Advance(c, to).plan = call[c].plan
           /\ Advance(c, to).op = call[c].op /\ Advance(c, to).aborted = call[c].aborted
           /\ Advance(c, to).changed = call[c].changed /\ Advance(c, to).noted = call[c].noted
           /\ Advance(c, to).auditLost = call[c].auditLost
<1> DEFINE done == IF to = "audit" THEN call[c].done ELSE call[c].done + 1
<1>1. done \in Nat
  BY DEF TxCalls
<1>2. Advance(c, to) = [call[c] EXCEPT !.at = to, !.done = done]
  BY DEF Advance
<1>3. (to = "audit" => done = call[c].done) /\ (to # "audit" => done = call[c].done + 1)
  OBVIOUS
<1> HIDE DEF done
<1>4. QED
  BY <1>1, <1>2, <1>3 DEF TxCalls

LEMMA WriteKeeps ==
    ASSUME TxInv, NEW c \in Writers, call[c] # NoCall, Write(c)
    PROVE  TxInv'
<1> DEFINE k == call[c]
           a == Advance(c, AfterWrite(c))
<1>1. /\ k \in TxCalls /\ k.at = "write" /\ k.done < Len(k.plan) /\ k.plan \in Plans /\ k.done \in Nat
  BY CallerFacts DEF Write
<1>2. CASE WriteError(c) # "none"
  BY <1>1, <1>2, FailsKeeps DEF Write
<1>3. Row(c) \in Rows /\ Row(c) = k.plan[k.done + 1] /\ Len(k.plan) \in {1, 2}
  BY <1>1, PlanFacts DEF Row
<1>4. /\ AfterRow(c) \in {"write", "return", "commit", "end"}
      /\ AfterRow(c) = "write" => k.done + 1 < Len(k.plan)
      /\ AfterRow(c) # "write" => k.done + 1 = Len(k.plan)
      /\ AfterRow(c) = "return" => k.mode = "alone"
      /\ AfterRow(c) = "commit" => k.mode = "tx"
      /\ AfterRow(c) = "end" => k.mode = "manual"
  BY <1>1, AfterRowFacts
<1>5. AfterWrite(c) = "audit" \/ AfterWrite(c) = AfterRow(c)
  BY DEF AfterWrite
<1>6. /\ a \in TxCalls /\ a.at = AfterWrite(c) /\ a.mode = k.mode /\ a.plan = k.plan /\ a.op = k.op
      /\ AfterWrite(c) = "audit" => a.done = k.done
      /\ AfterWrite(c) # "audit" => a.done = k.done + 1
      /\ a.aborted = k.aborted /\ a.noted = k.noted /\ a.auditLost = k.auditLost
  BY <1>1, <1>4, <1>5, AdvanceFacts
<1>7. CASE WriteError(c) = "none" /\ InTx(c)
  <2> DEFINE n == [a EXCEPT !.changed = k.changed \cup {Row(c)}]
  <2>1. call' = [call EXCEPT ![c] = n] /\ UNCHANGED <<heard, written, audited, commits>>
    BY <1>7 DEF Write
  <2>2. ~k.aborted
    BY <1>7 DEF WriteError
  <2>3. Live(k, written[c], audited[c], commits[c], heard[c])
    BY <1>1, <1>7, CallerFacts DEF Ended
  <2>4. k.changed = Marked(k.plan, k.done) /\ (k.op.audits => k.noted = Marked(k.plan, k.done))
    BY <1>1, <2>2, <2>3 DEF Live
  <2>5. (AfterWrite(c) = "audit" /\ k.op.audits) \/ (AfterWrite(c) = AfterRow(c) /\ ~k.op.audits)
    BY <1>7 DEF AfterWrite, Audits
  <2>6. k.changed \in SUBSET Rows
    BY <1>1 DEF TxCalls
  <2> HIDE DEF a
  <2>7. /\ n \in TxCalls /\ n.at = a.at /\ n.mode = k.mode /\ n.plan = k.plan /\ n.op = k.op
        /\ n.done = a.done /\ ~n.aborted /\ n.noted = k.noted
        /\ n.changed = k.changed \cup {Row(c)}
    BY <1>3, <1>6, <2>2, <2>6 DEF TxCalls
  <2> HIDE DEF n
  <2>8. n.changed = Marked(k.plan, k.done + 1)
    <3>1. Marked(k.plan, k.done + 1) = Marked(k.plan, k.done) \cup {k.plan[k.done + 1]}
      BY <1>1, MarkedFacts
    <3>2. QED
      BY <1>3, <2>4, <2>7, <3>1
  <2>9. /\ written[c] = {} /\ audited[c] = {} /\ commits[c] = 0 /\ heard[c] = "nothing"
    BY <1>1, <2>3 DEF Live
  <2>10. k.mode # "alone"
    BY <1>7 DEF InTx
  <2>11. CASE AfterWrite(c) = "audit" /\ k.op.audits
    <3>1. Live(n, written[c], audited[c], commits[c], heard[c])
      BY <1>6, <2>4, <2>7, <2>8, <2>9, <2>11 DEF Live
    <3>2. QED
      BY <1>1, <1>6, <2>1, <2>7, <2>10, <2>11, <3>1, CallerMoves DEF Standing
  <2>12. CASE AfterWrite(c) = AfterRow(c) /\ ~k.op.audits
    <3>1. Live(n, written[c], audited[c], commits[c], heard[c])
      BY <1>4, <1>6, <2>4, <2>7, <2>8, <2>9, <2>10, <2>12 DEF Live
    <3>2. Standing(n, written[c], audited[c], commits[c], heard[c])
      BY <1>3, <1>4, <1>6, <2>7, <2>10, <2>12, <3>1 DEF Standing
    <3>3. QED
      BY <2>1, <2>7, <3>2, CallerMoves
  <2>13. QED
    BY <2>5, <2>11, <2>12
<1>8. CASE WriteError(c) = "none" /\ ~InTx(c)
  <2> DEFINE w == written[c] \cup {Row(c)}
             u == audited[c]
             h == heard[c]
             m == commits[c]
  <2>1. /\ call' = [call EXCEPT ![c] = a] /\ written' = [written EXCEPT ![c] = w]
        /\ UNCHANGED <<audited, commits, heard>>
    BY <1>8 DEF Write
  <2>2. /\ audited' = [audited EXCEPT ![c] = u] /\ commits' = [commits EXCEPT ![c] = m]
        /\ heard' = [heard EXCEPT ![c] = h] /\ w \in SUBSET Rows /\ u \in SUBSET Rows
        /\ m \in Nat /\ h \in Answers
    <3>1. written[c] \in SUBSET Rows
      BY WrittenBack
    <3>2. w \in SUBSET Rows
      BY <1>3, <3>1
    <3>3. /\ u \in SUBSET Rows /\ m \in Nat /\ h \in Answers
      BY WrittenBack
    <3>4. /\ audited' = [audited EXCEPT ![c] = u] /\ commits' = [commits EXCEPT ![c] = m]
          /\ heard' = [heard EXCEPT ![c] = h]
      BY <2>1, WrittenBack
    <3>5. QED
      BY <3>2, <3>3, <3>4
  <2>3. k.mode = "alone" /\ m = 0
    BY <1>8, CallerFacts
  <2> HIDE DEF a, w, u, m, h
  <2>4. Standing(a, w, u, m, h)
    BY <1>1, <1>3, <1>4, <1>5, <1>6, <2>3 DEF Standing
  <2>5. a \in {NoCall} \cup TxCalls
    BY <1>6
  <2>6. QED
    BY <2>1, <2>2, <2>4, <2>5, OneCaller
<1>9. QED
  BY <1>2, <1>7, <1>8

LEMMA LogAuditKeeps ==
    ASSUME TxInv, NEW c \in Writers, call[c] # NoCall, LogAudit(c)
    PROVE  TxInv'
<1> DEFINE k == call[c]
           a == Advance(c, AfterRow(c))
<1>1. /\ k \in TxCalls /\ k.at = "audit" /\ k.done < Len(k.plan) /\ k.plan \in Plans /\ k.done \in Nat
  BY CallerFacts DEF LogAudit
<1>2. Row(c) \in Rows /\ Row(c) = k.plan[k.done + 1] /\ Len(k.plan) \in {1, 2}
  BY <1>1, PlanFacts DEF Row
<1>3. /\ AfterRow(c) \in {"write", "return", "commit", "end"}
      /\ AfterRow(c) = "write" => k.done + 1 < Len(k.plan)
      /\ AfterRow(c) # "write" => k.done + 1 = Len(k.plan)
      /\ AfterRow(c) = "return" => k.mode = "alone"
      /\ AfterRow(c) = "commit" => k.mode = "tx"
      /\ AfterRow(c) = "end" => k.mode = "manual"
  BY <1>1, AfterRowFacts
<1>4. /\ a \in TxCalls /\ a.at = AfterRow(c) /\ a.mode = k.mode /\ a.plan = k.plan /\ a.op = k.op
      /\ a.done = k.done + 1 /\ a.aborted = k.aborted
      /\ a.changed = k.changed /\ a.noted = k.noted /\ a.auditLost = k.auditLost
  BY <1>1, <1>3, AdvanceFacts
<1>5. UNCHANGED <<written, commits, heard>>
  BY DEF LogAudit
<1>6. InTx(c) =>
        /\ k.mode # "alone" /\ Live(k, written[c], audited[c], commits[c], heard[c])
        /\ written[c] = {} /\ audited[c] = {} /\ commits[c] = 0 /\ heard[c] = "nothing"
  BY <1>1, CallerFacts DEF Live, Ended, InTx
<1>7. CASE /\ ~k.aborted /\ InTx(c) /\ UNCHANGED audited
           /\ call' = [call EXCEPT ![c] = [a EXCEPT !.noted = k.noted \cup {Row(c)}]]
  <2> DEFINE n == [a EXCEPT !.noted = k.noted \cup {Row(c)}]
  <2>1. k.noted \in SUBSET Rows
    BY <1>1 DEF TxCalls
  <2>2. /\ k.changed = Marked(k.plan, k.done + 1)
        /\ k.op.audits => k.noted = Marked(k.plan, k.done)
    BY <1>1, <1>6, <1>7 DEF Live
  <2>3. call' = [call EXCEPT ![c] = n]
    BY <1>7
  <2> HIDE DEF a
  <2>4. /\ n \in TxCalls /\ n.at = a.at /\ n.mode = k.mode /\ n.plan = k.plan /\ n.op = k.op
        /\ n.done = k.done + 1 /\ ~n.aborted /\ n.changed = k.changed
        /\ n.noted = k.noted \cup {Row(c)}
    BY <1>2, <1>4, <1>7, <2>1 DEF TxCalls
  <2> HIDE DEF n
  <2>5. k.op.audits => n.noted = Marked(k.plan, k.done + 1)
    BY <1>1, <1>2, <2>2, <2>4, MarkedFacts
  <2>6. Live(n, written[c], audited[c], commits[c], heard[c])
    BY <1>3, <1>4, <1>6, <1>7, <2>2, <2>4, <2>5 DEF Live
  <2>7. Standing(n, written[c], audited[c], commits[c], heard[c])
    BY <1>2, <1>3, <1>4, <1>6, <1>7, <2>4, <2>6 DEF Standing
  <2>8. QED
    BY <1>5, <1>7, <2>3, <2>4, <2>7, CallerMoves
<1>8. CASE /\ ~InTx(c) /\ call' = [call EXCEPT ![c] = a]
           /\ audited' = [audited EXCEPT ![c] = audited[c] \cup {Row(c)}]
  <2> DEFINE u == audited[c] \cup {Row(c)}
             w == written[c]
             h == heard[c]
             m == commits[c]
  <2>1. audited[c] \in SUBSET Rows /\ w \in SUBSET Rows /\ m \in Nat /\ h \in Answers
    BY WrittenBack
  <2>2. u \in SUBSET Rows /\ audited' = [audited EXCEPT ![c] = u]
    BY <1>2, <1>8, <2>1
  <2>3. /\ written' = [written EXCEPT ![c] = w] /\ commits' = [commits EXCEPT ![c] = m]
        /\ heard' = [heard EXCEPT ![c] = h]
    BY <1>5, WrittenBack
  <2>4. k.mode = "alone" /\ m = 0
    BY <1>8, CallerFacts
  <2> HIDE DEF a, w, u, m, h
  <2>5. Standing(a, w, u, m, h)
    BY <1>1, <1>2, <1>3, <1>4, <2>4 DEF Standing
  <2>6. QED
    BY <1>4, <1>8, <2>1, <2>2, <2>3, <2>5, OneCaller
<1>9. CASE /\ call' = [call EXCEPT ![c] = [a EXCEPT !.aborted = InTx(c), !.auditLost = TRUE]]
           /\ UNCHANGED audited
  <2> DEFINE n == [a EXCEPT !.aborted = InTx(c), !.auditLost = TRUE]
  <2>1. call' = [call EXCEPT ![c] = n] /\ InTx(c) \in BOOLEAN
    BY <1>9 DEF InTx
  <2> HIDE DEF a
  <2>2. /\ n \in TxCalls /\ n.at = a.at /\ n.mode = k.mode /\ n.plan = k.plan /\ n.op = k.op
        /\ n.done = k.done + 1 /\ n.aborted = InTx(c) /\ n.auditLost
    BY <1>4, <2>1 DEF TxCalls
  <2> HIDE DEF n
  <2>3. CASE InTx(c)
    <3>1. n.aborted
      BY <2>2, <2>3
    <3>2. Live(n, written[c], audited[c], commits[c], heard[c])
      BY <1>3, <1>4, <1>6, <2>2, <2>3, <3>1 DEF Live
    <3>3. Standing(n, written[c], audited[c], commits[c], heard[c])
      BY <1>2, <1>3, <1>4, <1>6, <2>2, <2>3, <3>2 DEF Standing
    <3>4. QED
      BY <1>5, <1>9, <2>1, <2>2, <3>3, CallerMoves
  <2>4. CASE ~InTx(c)
    <3>1. k.mode = "alone" /\ commits[c] = 0
      BY <2>4, CallerFacts
    <3>2. Standing(n, written[c], audited[c], commits[c], heard[c])
      BY <1>2, <1>3, <1>4, <2>2, <3>1 DEF Standing
    <3>3. QED
      BY <1>5, <1>9, <2>1, <2>2, <3>2, CallerMoves
  <2>5. QED
    BY <2>3, <2>4
<1>10. QED
  BY <1>7, <1>8, <1>9 DEF LogAudit

LEMMA ReturnKeeps ==
    ASSUME TxInv, NEW c \in Writers, call[c] # NoCall, Return(c)
    PROVE  TxInv'
<1> DEFINE k == Over(call[c], FALSE)
<1>1. call[c] \in TxCalls /\ call[c].at = "return"
  BY CallerFacts DEF Return
<1>2. call[c].mode = "alone" /\ commits[c] = 0
  BY <1>1, CallerFacts DEF Live, Ended
<1>3. /\ call' = [call EXCEPT ![c] = k] /\ heard' = [heard EXCEPT ![c] = "ok"]
      /\ UNCHANGED <<written, audited, commits>>
  BY DEF Return, Settled
<1>4. k \in TxCalls /\ k.at = "over" /\ k.mode = "alone"
  BY <1>1, <1>2 DEF Over, TxCalls
<1> HIDE DEF k
<1>5. Standing(k, written[c], audited[c], commits[c], "ok")
  BY <1>2, <1>4 DEF Standing
<1>6. QED
  BY <1>3, <1>4, <1>5, CallerTurns DEF Answers

\* commitTransaction and rollbackTransaction answer before the database does.
LEMMA EndKeeps ==
    ASSUME TxInv, NEW c \in Writers, call[c] # NoCall, CommitTransaction(c) \/ RollbackTransaction(c)
    PROVE  TxInv'
<1> DEFINE k == call[c]
<1>1. k \in TxCalls /\ k.at = "end" /\ UNCHANGED <<written, audited, commits>>
  BY CallerFacts DEF CommitTransaction, RollbackTransaction
<1>2. Live(k, written[c], audited[c], commits[c], heard[c])
  BY <1>1, CallerFacts DEF Ended
<1>3. k.mode = "manual" /\ written[c] = {} /\ audited[c] = {} /\ commits[c] = 0
  BY <1>1, <1>2 DEF Live
<1>4. CASE CommitTransaction(c)
  <2> DEFINE n == [k EXCEPT !.at = "commit"]
  <2>1. call' = [call EXCEPT ![c] = n] /\ heard' = [heard EXCEPT ![c] = "ok"]
    BY <1>4 DEF CommitTransaction
  <2>2. /\ n \in TxCalls /\ n.at = "commit" /\ n.mode = "manual" /\ n.plan = k.plan /\ n.op = k.op
        /\ n.done = k.done /\ n.aborted = k.aborted /\ n.changed = k.changed /\ n.noted = k.noted
    BY <1>1, <1>3 DEF TxCalls
  <2> HIDE DEF n
  <2>3. Live(n, {}, {}, 0, "ok")
    BY <1>1, <1>2, <2>2 DEF Live
  <2>4. Standing(n, written[c], audited[c], commits[c], "ok")
    BY <1>3, <2>2, <2>3 DEF Standing
  <2>5. QED
    BY <1>1, <2>1, <2>2, <2>4, CallerTurns DEF Answers
<1>5. CASE RollbackTransaction(c)
  <2> DEFINE n == [k EXCEPT !.at = "commit", !.aborted = TRUE]
  <2>1. call' = [call EXCEPT ![c] = n] /\ heard' = [heard EXCEPT ![c] = "rolledBack"]
    BY <1>5 DEF RollbackTransaction
  <2>2. n \in TxCalls /\ n.at = "commit" /\ n.mode = "manual" /\ n.aborted
    BY <1>1, <1>3 DEF TxCalls
  <2> HIDE DEF n
  <2>3. Live(n, {}, {}, 0, "rolledBack")
    BY <2>2 DEF Live
  <2>4. Standing(n, written[c], audited[c], commits[c], "rolledBack")
    BY <1>3, <2>2, <2>3 DEF Standing
  <2>5. QED
    BY <1>1, <2>1, <2>2, <2>4, CallerTurns DEF Answers
<1>6. QED
  BY <1>4, <1>5

\* The end of $transaction: all of it or nothing, and the answer may be lost.
LEMMA CommitKeeps ==
    ASSUME TxInv, NEW c \in Writers, call[c] # NoCall, Commit(c)
    PROVE  TxInv'
<1> DEFINE k == call[c]
<1>1. k \in TxCalls /\ k.at = "commit" /\ k.plan \in Plans /\ k.op \in Ops
  BY CallerFacts DEF Commit, TxCalls
<1>2. InTx(c) /\ Live(k, written[c], audited[c], commits[c], heard[c])
  BY <1>1, CallerFacts DEF Ended
<1>3. /\ k.mode \in {"tx", "manual"} /\ written[c] = {} /\ audited[c] = {} /\ commits[c] = 0
      /\ heard[c] = "rolledBack" => k.aborted
      /\ heard[c] \in {"nothing", "ok", "rolledBack"}
      /\ k.mode = "tx" /\ k.aborted => k.auditLost
  BY <1>1, <1>2 DEF Live, InTx
<1>4. \E w \in SUBSET Rows, u \in SUBSET Rows, m \in {0, 1} :
        /\ written' = [written EXCEPT ![c] = w] /\ audited' = [audited EXCEPT ![c] = u]
        /\ commits' = [commits EXCEPT ![c] = m]
        /\ k.op.audits => u = w
        /\ IF k.aborted THEN w = {} ELSE w = ToSet(k.plan)
  <2>1. CASE k.aborted
    <3>1. UNCHANGED <<written, audited, commits>>
      BY <2>1 DEF Commit
    <3>2. /\ written' = [written EXCEPT ![c] = {}] /\ audited' = [audited EXCEPT ![c] = {}]
          /\ commits' = [commits EXCEPT ![c] = 0]
      BY <1>3, <3>1, WrittenBack
    <3>3. QED
      BY <2>1, <3>2
  <2>2. CASE ~k.aborted
    <3>1. /\ written' = [written EXCEPT ![c] = written[c] \cup k.changed]
          /\ audited' = [audited EXCEPT ![c] = audited[c] \cup k.noted]
          /\ commits' = [commits EXCEPT ![c] = commits[c] + 1]
      BY <2>2 DEF Commit
    <3>2. /\ written[c] \cup k.changed = k.changed /\ audited[c] \cup k.noted = k.noted
          /\ commits[c] + 1 = 1
      BY <1>3
    <3>3. k.changed \in SUBSET Rows /\ k.noted \in SUBSET Rows
      BY <1>1 DEF TxCalls
    <3>4. /\ k.changed = Marked(k.plan, Len(k.plan))
          /\ k.op.audits => k.noted = Marked(k.plan, Len(k.plan))
      BY <1>1, <1>2, <2>2 DEF Live
    <3>5. k.changed = ToSet(k.plan) /\ (k.op.audits => k.noted = k.changed)
      BY <1>1, <3>4, PlanFacts
    <3>6. QED
      BY <2>2, <3>1, <3>2, <3>3, <3>5
  <2>3. QED
    BY <2>1, <2>2
<1>5. PICK w \in SUBSET Rows, u \in SUBSET Rows, m \in {0, 1} :
        /\ written' = [written EXCEPT ![c] = w] /\ audited' = [audited EXCEPT ![c] = u]
        /\ commits' = [commits EXCEPT ![c] = m]
        /\ k.op.audits => u = w
        /\ IF k.aborted THEN w = {} ELSE w = ToSet(k.plan)
  BY <1>4
<1>6. CASE Settled(c, IF Manual(c) THEN heard[c] ELSE "ok")
  <2> DEFINE o == Over(k, FALSE)
             h == IF Manual(c) THEN heard[c] ELSE "ok"
  <2>1. call' = [call EXCEPT ![c] = o] /\ heard' = [heard EXCEPT ![c] = h]
    BY <1>6 DEF Settled
  <2>2. /\ o \in TxCalls /\ o.at = "over" /\ o.mode = k.mode /\ o.plan = k.plan /\ o.op = k.op
        /\ o.auditLost = k.auditLost
    BY <1>1 DEF Over, TxCalls
  <2>3. /\ h \in {"nothing", "ok", "rolledBack"} /\ (h = "rolledBack" => k.aborted)
    BY <1>3
  <2> HIDE DEF o, h
  <2>4. Ended(o, w, u, m, h)
    BY <1>3, <1>5, <2>2, <2>3 DEF Ended
  <2>5. Standing(o, w, u, m, h)
    BY <1>3, <2>2, <2>4 DEF Standing, Ended
  <2>6. m \in Nat /\ h \in Answers /\ o \in {NoCall} \cup TxCalls
    BY <2>2, <2>3 DEF Answers
  <2>7. QED
    BY <1>5, <2>1, <2>5, <2>6, OneCaller
<1>7. CASE ~Manual(c) /\ Retried(c, "connection", TRUE)
  <2> DEFINE o == Over(k, TRUE)
             h == HandleError(MapDatabaseError("connection"))
  <2>1. call' = [call EXCEPT ![c] = o] /\ heard' = [heard EXCEPT ![c] = h]
    BY <1>7 DEF Retried, IsDeadlock
  <2>2. /\ o \in TxCalls /\ o.at = "over" /\ o.mode = k.mode /\ o.plan = k.plan /\ o.op = k.op
        /\ o.ackLost
    BY <1>1 DEF Over, TxCalls
  <2>3. h \in Answers /\ h \notin {"ok", "nothing"}
    BY ErrorFacts
  <2> HIDE DEF o, h
  <2>4. Ended(o, w, u, m, h)
    BY <1>5, <2>2, <2>3 DEF Ended
  <2>5. Standing(o, w, u, m, h)
    BY <1>3, <2>2, <2>4 DEF Standing, Ended
  <2>6. m \in Nat /\ o \in {NoCall} \cup TxCalls
    BY <2>2
  <2>7. QED
    BY <1>5, <2>1, <2>3, <2>5, <2>6, OneCaller
<1>8. QED
  BY <1>6, <1>7 DEF Commit

LEMMA TxInvInit == TxInit => TxInv
<1> SUFFICES ASSUME TxInit PROVE TxInv
  OBVIOUS
<1>1. /\ call \in [Writers -> {NoCall} \cup TxCalls]
      /\ written \in [Writers -> SUBSET Rows] /\ audited \in [Writers -> SUBSET Rows]
      /\ commits \in [Writers -> Nat] /\ heard \in [Writers -> Answers]
  BY DEF TxInit, Answers
<1>2. \A c \in Writers : Standing(call[c], written[c], audited[c], commits[c], heard[c])
  BY DEF TxInit, Standing
<1>3. QED
  BY <1>1, <1>2 DEF TxInv

LEMMA TxInvInductive == TxInv /\ [TxNext]_txVars => TxInv'
<1> SUFFICES ASSUME TxInv, [TxNext]_txVars PROVE TxInv'
  OBVIOUS
<1>1. CASE UNCHANGED txVars
  BY <1>1 DEF txVars, TxInv
<1>2. Operations \subseteq Ops
  BY DEF Operations, Ops, ResultRepository, DeliveryRepository, DestinationRepository,
         AttemptRepository, IdempotencyCacheRepository, AuditLogRepository, Operation
<1>3. ASSUME NEW c \in Writers, NEW op \in Operations, NEW plan \in Plans,
             NEW mode \in {"alone", "tx", "manual"}, Call(c, mode, op, plan)
      PROVE  TxInv'
  BY <1>2, <1>3, CallKeeps
<1>4. ASSUME NEW c \in Writers, TxStep(c)
      PROVE  TxInv'
  <2>1. call[c] # NoCall
    BY <1>4 DEF TxStep
  <2>2. CASE Write(c) \/ LogAudit(c) \/ Return(c) \/ Commit(c)
    BY <2>1, <2>2, WriteKeeps, LogAuditKeeps, ReturnKeeps, CommitKeeps
  <2>3. CASE CommitTransaction(c) \/ RollbackTransaction(c)
    BY <2>1, <2>3, EndKeeps
  <2>4. CASE Deadlock(c)
    BY <2>1, <2>4, FailsKeeps DEF Deadlock, Waits
  <2>5. CASE Expires(c)
    BY <2>1, <2>5, FailsKeeps DEF Expires
  <2>6. QED
    BY <1>4, <2>2, <2>3, <2>4, <2>5 DEF TxStep
<1>5. QED
  BY <1>1, <1>3, <1>4 DEF TxNext

(***************************************************************************)
(* TransactionManager keeps its promise for any number of callers, rows    *)
(* and retries: a transaction leaves all of its rows, with their audit     *)
(* entries, or none; its caller is told the truth unless the answer to the *)
(* COMMIT is lost; and no callback is committed twice.                     *)
(***************************************************************************)
THEOREM TransactionsStayHonest == TxSpec => []TransactionsAreHonest
<1>1. TxInv => TransactionsAreHonest
  <2> SUFFICES ASSUME TxInv PROVE TransactionsAreHonest
    OBVIOUS
  <2>1. ASSUME NEW c \in Writers, call[c] # NoCall, InTx(c)
        PROVE  /\ written[c] \in {{}, ToSet(call[c].plan)}
               /\ call[c].op.audits => audited[c] = written[c]
               /\ heard[c] = "ok" /\ ~Manual(c) /\ ~call[c].auditLost
                    => written[c] = ToSet(call[c].plan)
               /\ heard[c] \notin {"ok", "nothing"} /\ ~call[c].ackLost => written[c] = {}
    <3>1. call[c].mode \in {"tx", "manual"}
      BY <2>1 DEF InTx
    <3>2. CASE Live(call[c], written[c], audited[c], commits[c], heard[c])
      BY <3>1, <3>2 DEF Live, Manual
    <3>3. CASE Ended(call[c], written[c], audited[c], commits[c], heard[c])
      BY <3>1, <3>3 DEF Ended, Manual
    <3>4. QED
      BY <2>1, <3>2, <3>3, CallerFacts
  <2>2. ASSUME NEW c \in Writers
        PROVE  commits[c] <= 1
    <3>1. Standing(call[c], written[c], audited[c], commits[c], heard[c])
      BY DEF TxInv
    <3>2. commits[c] \in {0, 1}
      BY <3>1 DEF Standing, Live, Ended
    <3>3. QED
      BY <3>2
  <2>3. QED
    BY <2>1, <2>2
       DEF TransactionsAreHonest, TransactionsAreWhole, CallersHearTheTruth, CommittedOnce
<1>2. QED
  BY <1>1, TxInvInit, TxInvInductive, PTL DEF TxSpec

-----------------------------------------------------------------------------
(* AttemptHistory: recording *)

Recordings == [at : {"insert", "count"}, path : {"recorder", "repository"}, number : Nat]

\* A recorder's number is at most its place, and one alone has its place.
Placed(b, rows) ==
    b # Idle => /\ b.at = "insert" => b.number <= rows + 1
                /\ b.at = "count" => b.number <= rows
Exact(b, rows) ==
    b # Idle => /\ b.at = "insert" => b.number = rows + 1
                /\ b.at = "count" => b.number = rows

(***************************************************************************)
(* What holds between the three statements of a recorder: its number does  *)
(* not run ahead; while recorders come one at a time and none ends between *)
(* its two writes, retryCount is the number of rows except for the one     *)
(* that still has to set it.                                               *)
(***************************************************************************)
AttemptInv ==
    /\ numbers \in Seq(Nat) /\ retryCount \in Nat /\ mixed \in BOOLEAN /\ torn \in BOOLEAN
    /\ recording \in [Recorders -> {Idle} \cup Recordings]
    /\ NumbersNeverRunAhead
    /\ \A k \in Recorders : Placed(recording[k], Len(numbers))
    /\ ~mixed => \A j, k \in Recorders : Busy(j) /\ Busy(k) => j = k
    /\ ~mixed /\ ~torn =>
          /\ \A i \in 1..Len(numbers) : numbers[i] = i
          /\ \A k \in Recorders : Exact(recording[k], Len(numbers))
          /\ (\A k \in Recorders : recording[k] = Idle \/ recording[k].at = "insert")
               => retryCount = Len(numbers)

LEMMA AttemptInvInit == AttemptInit => AttemptInv
<1> SUFFICES ASSUME AttemptInit PROVE AttemptInv
  OBVIOUS
<1>1. numbers = <<>> /\ Len(numbers) = 0 /\ numbers \in Seq(Nat) /\ retryCount = 0
  BY DEF AttemptInit
<1>2. \A k \in Recorders : recording[k] = Idle
  BY DEF AttemptInit
<1>3. recording \in [Recorders -> {Idle} \cup Recordings] /\ NumbersNeverRunAhead
  <2>1. recording = [k \in Recorders |-> Idle]
    BY DEF AttemptInit
  <2>2. NumbersNeverRunAhead
    BY <1>1 DEF NumbersNeverRunAhead
  <2>3. QED
    BY <2>1, <2>2
<1>0. mixed \in BOOLEAN /\ torn \in BOOLEAN
  BY Zenon DEF AttemptInit
<1>4. /\ \A k \in Recorders : Placed(recording[k], Len(numbers)) /\ Exact(recording[k], Len(numbers))
      /\ \A j, k \in Recorders : Busy(j) /\ Busy(k) => j = k
  BY <1>2 DEF Placed, Exact, Busy
<1>5. \A i \in 1..Len(numbers) : numbers[i] = i
  BY <1>1
<1>6. QED
  BY <1>0, <1>1, <1>3, <1>4, <1>5 DEF AttemptInv

LEMMA ReadLastKeeps ==
    ASSUME AttemptInv, NEW k \in Recorders, NEW path \in {"recorder", "repository"}, ReadLast(k, path)
    PROVE  AttemptInv'
<1> DEFINE new == [at |-> "insert", path |-> path, number |-> NextNumber(path)]
<1>1. /\ UNCHANGED <<numbers, retryCount, torn>> /\ recording' = [recording EXCEPT ![k] = new]
      /\ mixed' = (mixed \/ \E j \in Recorders : Busy(j)) /\ recording[k] = Idle
  BY DEF ReadLast, Turns, Busy
<1>2. Len(numbers) \in Nat /\ retryCount \in Nat /\ retryCount <= Len(numbers)
  BY DEF AttemptInv, NumbersNeverRunAhead
<1>3. NextNumber(path) \in Nat /\ NextNumber(path) <= Len(numbers) + 1
  BY <1>2 DEF NextNumber
<1>4. new \in Recordings /\ new.at = "insert" /\ new.number = NextNumber(path) /\ new # Idle
  BY <1>3 DEF Recordings, Idle
<1>5. ~mixed' => \A j \in Recorders : recording[j] = Idle
  BY <1>1 DEF Busy
<1>6. ~mixed' /\ ~torn' => retryCount = Len(numbers) /\ NextNumber(path) = Len(numbers) + 1
  BY <1>1, <1>2, <1>5 DEF AttemptInv, NextNumber
<1> HIDE DEF new
<1>7. \A j \in Recorders : recording'[j] = IF j = k THEN new ELSE recording[j]
  BY <1>1 DEF AttemptInv
<1>8. /\ numbers' \in Seq(Nat) /\ retryCount' \in Nat /\ mixed' \in BOOLEAN /\ torn' \in BOOLEAN
      /\ recording' \in [Recorders -> {Idle} \cup Recordings]
      /\ NumbersNeverRunAhead'
  BY <1>1, <1>4 DEF AttemptInv, NumbersNeverRunAhead
<1>9. \A j \in Recorders : Placed(recording'[j], Len(numbers'))
  BY <1>1, <1>3, <1>4, <1>7 DEF AttemptInv, Placed
<1>10. ~mixed' => \A j, l \in Recorders : Busy(j)' /\ Busy(l)' => j = l
  BY <1>5, <1>7 DEF Busy
<1>11. ~mixed' /\ ~torn' =>
          /\ \A i \in 1..Len(numbers') : numbers'[i] = i
          /\ \A j \in Recorders : Exact(recording'[j], Len(numbers'))
          /\ retryCount' = Len(numbers')
  <2>1. ~mixed' /\ ~torn' => ~mixed /\ ~torn
    BY <1>1
  <2>2. ~mixed' /\ ~torn' => \A i \in 1..Len(numbers') : numbers'[i] = i
    BY <1>1, <2>1 DEF AttemptInv
  <2>3. ~mixed' /\ ~torn' => \A j \in Recorders : Exact(recording'[j], Len(numbers'))
    BY <1>1, <1>4, <1>5, <1>6, <1>7 DEF Exact
  <2>4. QED
    BY <1>1, <1>6, <2>2, <2>3
<1>12. QED
  BY <1>8, <1>9, <1>10, <1>11 DEF AttemptInv

LEMMA InsertKeeps ==
    ASSUME AttemptInv, NEW k \in Recorders, Insert(k)
    PROVE  AttemptInv'
<1>1. /\ recording[k] \in Recordings /\ recording[k] # Idle /\ recording[k].at = "insert"
      /\ UNCHANGED <<retryCount, mixed, torn>>
  BY DEF AttemptInv, Insert, Idle
<1>2. Len(numbers) \in Nat /\ recording[k].number \in Nat /\ recording[k].number <= Len(numbers) + 1
  BY <1>1 DEF AttemptInv, Placed, Recordings
<1>3. CASE recording' = [recording EXCEPT ![k] = Idle] /\ UNCHANGED numbers
  <2>1. \A j \in Recorders : recording'[j] = IF j = k THEN Idle ELSE recording[j]
    BY <1>3 DEF AttemptInv
  <2>2. recording' \in [Recorders -> {Idle} \cup Recordings] /\ NumbersNeverRunAhead'
    BY <1>1, <1>3 DEF AttemptInv, NumbersNeverRunAhead
  <2>3. \A j \in Recorders : Placed(recording'[j], Len(numbers'))
    BY <1>3, <2>1 DEF AttemptInv, Placed
  <2>4. ~mixed' => \A j, l \in Recorders : Busy(j)' /\ Busy(l)' => j = l
    BY <1>1, <2>1 DEF AttemptInv, Busy
  <2>5. ~mixed' /\ ~torn' =>
          /\ \A i \in 1..Len(numbers') : numbers'[i] = i
          /\ \A j \in Recorders : Exact(recording'[j], Len(numbers'))
          /\ (\A j \in Recorders : recording'[j] = Idle \/ recording'[j].at = "insert")
               => retryCount' = Len(numbers')
    BY <1>1, <1>3, <2>1 DEF AttemptInv, Exact
  <2>6. QED
    BY <1>1, <1>3, <2>2, <2>3, <2>4, <2>5 DEF AttemptInv
<1>4. CASE /\ numbers' = Append(numbers, recording[k].number)
           /\ recording' = [recording EXCEPT ![k] = [recording[k] EXCEPT !.at = "count"]]
  <2> DEFINE new == [recording[k] EXCEPT !.at = "count"]
  <2>1. /\ new \in Recordings /\ new.at = "count" /\ new.number = recording[k].number /\ new # Idle
    BY <1>1 DEF Recordings, Idle
  <2>2. recording' = [recording EXCEPT ![k] = new]
    BY <1>4
  <2> HIDE DEF new
  <2>3. \A j \in Recorders : recording'[j] = IF j = k THEN new ELSE recording[j]
    BY <2>2 DEF AttemptInv
  <2>4. /\ numbers' \in Seq(Nat) /\ Len(numbers') = Len(numbers) + 1
        /\ \A i \in 1..Len(numbers) : numbers'[i] = numbers[i]
        /\ numbers'[Len(numbers) + 1] = recording[k].number
    BY <1>2, <1>4, AppendProperties DEF AttemptInv
  <2>5. recording' \in [Recorders -> {Idle} \cup Recordings]
    BY <2>1, <2>2 DEF AttemptInv
  <2>6. NumbersNeverRunAhead'
    <3>1. ASSUME NEW i \in 1..Len(numbers')
          PROVE  numbers'[i] <= i
      <4>1. CASE i \in 1..Len(numbers)
        BY <2>4, <4>1 DEF AttemptInv, NumbersNeverRunAhead
      <4>2. CASE i = Len(numbers) + 1
        BY <1>2, <2>4, <4>2
      <4>3. QED
        BY <1>2, <2>4, <4>1, <4>2
    <3>2. retryCount' <= Len(numbers')
      BY <1>1, <1>2, <2>4 DEF AttemptInv, NumbersNeverRunAhead
    <3>3. QED
      BY <3>1, <3>2 DEF NumbersNeverRunAhead
  <2>7. ASSUME NEW j \in Recorders
        PROVE  Placed(recording'[j], Len(numbers'))
    <3>1. CASE j = k
      BY <1>2, <2>1, <2>3, <2>4, <3>1 DEF Placed
    <3>2. CASE j # k
      <4>1. recording'[j] = recording[j] /\ Placed(recording[j], Len(numbers))
        BY <2>3, <3>2 DEF AttemptInv
      <4>2. recording[j] # Idle => recording[j].number \in Nat
        BY DEF AttemptInv, Recordings
      <4>3. QED
        BY <1>2, <2>4, <4>1, <4>2 DEF Placed
    <3>3. QED
      BY <3>1, <3>2
  <2>8. ~mixed' => \A j, l \in Recorders : Busy(j)' /\ Busy(l)' => j = l
    BY <1>1, <2>3 DEF AttemptInv, Busy
  <2>9. ~mixed' /\ ~torn' =>
          /\ \A i \in 1..Len(numbers') : numbers'[i] = i
          /\ \A j \in Recorders : Exact(recording'[j], Len(numbers'))
          /\ (\A j \in Recorders : recording'[j] = Idle \/ recording'[j].at = "insert")
               => retryCount' = Len(numbers')
    <3> SUFFICES ASSUME ~mixed, ~torn
                 PROVE  /\ \A i \in 1..Len(numbers') : numbers'[i] = i
                        /\ \A j \in Recorders : Exact(recording'[j], Len(numbers'))
                        /\ (\A j \in Recorders : recording'[j] = Idle \/ recording'[j].at = "insert")
                             => retryCount' = Len(numbers')
      BY <1>1
    <3>1. recording[k].number = Len(numbers) + 1
      BY <1>1 DEF AttemptInv, Exact
    <3>2. \A i \in 1..Len(numbers') : numbers'[i] = i
      BY <1>2, <2>4, <3>1 DEF AttemptInv
    <3>3. \A j \in Recorders : j # k => recording'[j] = Idle
      BY <1>1, <2>3 DEF AttemptInv, Busy
    <3>4. \A j \in Recorders : Exact(recording'[j], Len(numbers'))
      BY <2>1, <2>3, <2>4, <3>1, <3>3 DEF Exact
    <3>5. recording'[k] # Idle /\ recording'[k].at = "count"
      BY <2>1, <2>3
    <3>6. QED
      BY <3>2, <3>4, <3>5
  <2>10. QED
    BY <1>1, <2>4, <2>5, <2>6, <2>7, <2>8, <2>9 DEF AttemptInv
<1>5. QED
  BY <1>3, <1>4 DEF Insert, Turns

LEMMA SetRetryCountKeeps ==
    ASSUME AttemptInv, NEW k \in Recorders, SetRetryCount(k)
    PROVE  AttemptInv'
<1>1. /\ recording[k] \in Recordings /\ recording[k] # Idle /\ recording[k].at = "count"
      /\ UNCHANGED <<numbers, mixed>> /\ recording' = [recording EXCEPT ![k] = Idle]
      /\ \/ retryCount' = recording[k].number /\ UNCHANGED torn
         \/ torn' = TRUE /\ UNCHANGED retryCount
  BY DEF AttemptInv, SetRetryCount, Turns, Idle
<1>2. Len(numbers) \in Nat /\ recording[k].number \in Nat /\ recording[k].number <= Len(numbers)
  BY <1>1 DEF AttemptInv, Placed, Recordings
<1>3. \A j \in Recorders : recording'[j] = IF j = k THEN Idle ELSE recording[j]
  BY <1>1 DEF AttemptInv
<1>4. retryCount' \in Nat /\ torn' \in BOOLEAN /\ retryCount' <= Len(numbers)
  BY <1>1, <1>2 DEF AttemptInv, NumbersNeverRunAhead
<1>5. recording' \in [Recorders -> {Idle} \cup Recordings] /\ NumbersNeverRunAhead'
  BY <1>1, <1>4 DEF AttemptInv, NumbersNeverRunAhead
<1>6. \A j \in Recorders : Placed(recording'[j], Len(numbers'))
  BY <1>1, <1>3 DEF AttemptInv, Placed
<1>7. ~mixed' => \A j, l \in Recorders : Busy(j)' /\ Busy(l)' => j = l
  BY <1>1, <1>3 DEF AttemptInv, Busy
<1>8. ~mixed' /\ ~torn' =>
        /\ \A i \in 1..Len(numbers') : numbers'[i] = i
        /\ \A j \in Recorders : Exact(recording'[j], Len(numbers'))
        /\ retryCount' = Len(numbers')
  BY <1>1, <1>3 DEF AttemptInv, Exact
<1>9. QED
  BY <1>1, <1>4, <1>5, <1>6, <1>7, <1>8 DEF AttemptInv

(***************************************************************************)
(* However many recorders interleave, no attempt number and no retryCount  *)
(* runs ahead of the rows, and while they come one at a time and none is   *)
(* torn, the rows are numbered 1, 2, 3.                                    *)
(***************************************************************************)
THEOREM AttemptsStayNumbered == AttemptSpec => []AttemptsAreNumbered
<1>1. AttemptInv /\ [AttemptNext]_attemptVars => AttemptInv'
  <2> SUFFICES ASSUME AttemptInv, [AttemptNext]_attemptVars PROVE AttemptInv'
    OBVIOUS
  <2>1. CASE UNCHANGED attemptVars
    BY <2>1 DEF attemptVars, AttemptInv, NumbersNeverRunAhead, Busy
  <2>2. CASE AttemptNext
    BY <2>2, ReadLastKeeps, InsertKeeps, SetRetryCountKeeps DEF AttemptNext
  <2>3. QED
    BY <2>1, <2>2
<1>2. AttemptInv => AttemptsAreNumbered
  BY DEF AttemptInv, AttemptsAreNumbered, NumbersAreDense
<1>3. QED
  BY <1>1, <1>2, AttemptInvInit, PTL DEF AttemptSpec

-----------------------------------------------------------------------------
(* AttemptHistory: walking the pages *)

Walks == [at : {"rows", "count", "end"}, page : Nat \ {0}, seen : SUBSET Int, length : Nat,
          began : SUBSET Int]

\* The rows of the beginning that are among the n newest now have been seen.
Covered(w, n) == \A r \in w.began : newest - r < n => r \in w.seen

(***************************************************************************)
(* Rows that arrive push the others to later pages, so a walk can see a    *)
(* row twice but not pass one by: what it has skipped it has seen.         *)
(***************************************************************************)
WalkInv ==
    /\ newest \in Nat /\ oldest \in Nat \ {0} /\ shrunk \in BOOLEAN
    /\ walk \in {NoWalk} \cup Walks
    /\ walk # NoWalk =>
          /\ walk.length <= PageSize
          /\ ~shrunk =>
                /\ walk.began \subseteq oldest..newest
                /\ walk.at = "rows" => Covered(walk, SkipOf(walk.page))
                /\ walk.at = "count" => Covered(walk, SkipOf(walk.page) + PageSize)
                /\ walk.at = "end" => walk.began \subseteq walk.seen

\* A page has at most PageSize rows, and the next page begins where it ends.
LEMMA PageFacts ==
    ASSUME newest \in Nat, oldest \in Nat \ {0}, NEW page \in Nat \ {0}
    PROVE  /\ SkipOf(page) \in Nat /\ SkipOf(1) = 0 /\ SkipOf(page + 1) = SkipOf(page) + PageSize
           /\ Cardinality(Page(page)) \in Nat /\ Cardinality(Page(page)) <= PageSize
           /\ Page(page) \in SUBSET Int
<1>1. PageSize \in Nat
  BY HistoryAssumption
<1>2. SkipOf(page) \in Nat /\ SkipOf(1) = 0 /\ SkipOf(page + 1) = SkipOf(page) + PageSize
  <2>1. page - 1 \in Nat /\ (page + 1) - 1 = (page - 1) + 1
    OBVIOUS
  <2>2. \A m \in Nat : m * PageSize \in Nat /\ (m + 1) * PageSize = m * PageSize + PageSize
    BY <1>1
  <2>3. (1 - 1) * PageSize = 0
    BY <1>1
  <2>4. QED
    BY <2>1, <2>2, <2>3 DEF SkipOf
<1> DEFINE low == newest - SkipOf(page) - PageSize + 1
           high == newest - SkipOf(page)
<1>3. low \in Int /\ high \in Int /\ high - low + 1 = PageSize
  BY <1>1, <1>2
<1>4. Page(page) \subseteq low..high /\ Page(page) \in SUBSET Int
  BY <1>1, <1>2 DEF Page
<1> HIDE DEF low, high
<1>5. IsFiniteSet(low..high) /\ Cardinality(low..high) = PageSize
  <2>1. /\ IsFiniteSet(low..high)
        /\ Cardinality(low..high) = IF low > high THEN 0 ELSE high - low + 1
    BY <1>3, FS_Interval
  <2>2. QED
    BY <1>1, <1>3, <2>1
<1>6. IsFiniteSet(Page(page)) /\ Cardinality(Page(page)) <= PageSize
  <2>1. Page(page) \in SUBSET (low..high)
    BY <1>4
  <2>2. QED
    BY <1>5, <2>1, FS_Subset
<1>7. Cardinality(Page(page)) \in Nat
  BY <1>6, FS_CardinalityType
<1>8. QED
  BY <1>2, <1>4, <1>6, <1>7

LEMMA WalkInvInductive == WalkInv /\ [PageNext]_pageVars => WalkInv'
<1> SUFFICES ASSUME WalkInv, [PageNext]_pageVars PROVE WalkInv'
  OBVIOUS
<1>0. newest \in Nat /\ oldest \in Nat \ {0} /\ PageSize \in Nat \ {0} /\ shrunk \in BOOLEAN
  BY HistoryAssumption DEF WalkInv
<1>1. CASE UNCHANGED pageVars
  BY <1>1 DEF pageVars, WalkInv, Covered, SkipOf
<1>2. CASE RowArrives
  <2>1. newest' = newest + 1 /\ UNCHANGED <<oldest, walk, shrunk>>
    BY <1>2 DEF RowArrives
  <2>2. CASE walk = NoWalk \/ shrunk
    BY <1>0, <2>1, <2>2 DEF WalkInv
  <2>3. CASE walk # NoWalk /\ ~shrunk
    <3>1. walk \in Walks /\ walk.began \subseteq oldest..newest
      BY <2>3 DEF WalkInv
    <3>2. walk.began \subseteq oldest..newest'
      BY <1>0, <2>1, <3>1
    <3>3. ASSUME NEW n \in Nat, Covered(walk, n)
          PROVE  Covered(walk, n)'
      <4>1. ASSUME NEW r \in walk.began, newest' - r < n
            PROVE  r \in walk.seen
        <5>1. newest - r < n
          BY <1>0, <2>1, <3>1, <4>1
        <5>2. QED
          BY <3>3, <5>1 DEF Covered
      <4>2. QED
        BY <2>1, <4>1 DEF Covered
    <3>4. SkipOf(walk.page) \in Nat /\ SkipOf(walk.page) + PageSize \in Nat
      BY <1>0, <3>1, PageFacts DEF Walks
    <3>5. (walk.at = "rows" => Covered(walk, SkipOf(walk.page)))'
      <4>1. SkipOf(walk.page)' = SkipOf(walk.page) /\ walk' = walk
        BY <2>1 DEF SkipOf
      <4>2. walk.at = "rows" => Covered(walk, SkipOf(walk.page))'
        BY <2>3, <3>3, <3>4, <4>1 DEF WalkInv, Covered
      <4>3. QED
        BY <2>1, <4>2
    <3>6. (walk.at = "count" => Covered(walk, SkipOf(walk.page) + PageSize))'
      <4>1. SkipOf(walk.page)' = SkipOf(walk.page) /\ walk' = walk
        BY <2>1 DEF SkipOf
      <4>2. walk.at = "count" => Covered(walk, SkipOf(walk.page) + PageSize)'
        BY <2>3, <3>3, <3>4, <4>1 DEF WalkInv, Covered
      <4>3. QED
        BY <2>1, <4>2
    <3>7. QED
      BY <1>0, <2>1, <2>3, <3>2, <3>5, <3>6 DEF WalkInv
  <2>4. QED
    BY <1>0, <2>2, <2>3
<1>3. CASE Retention
  <2>1. oldest' = oldest + 1 /\ shrunk' = (walk # NoWalk) /\ UNCHANGED <<newest, walk>>
    BY <1>3 DEF Retention
  <2>2. shrunk' \in BOOLEAN
    BY <2>1, Zenon
  <2>3. oldest' \in Nat \ {0} /\ newest' \in Nat
    BY <1>0, <2>1
  <2>4. walk' # NoWalk => walk'.length <= PageSize /\ shrunk'
    BY <2>1 DEF WalkInv
  <2>5. walk' \in {NoWalk} \cup Walks
    BY <2>1 DEF WalkInv
  <2>6. QED
    BY <2>2, <2>3, <2>4, <2>5 DEF WalkInv
<1>4. CASE BeginWalk
  <2> DEFINE w == [at |-> "rows", page |-> 1, seen |-> {}, length |-> 0, began |-> oldest..newest]
  <2>1. walk' = w /\ UNCHANGED <<newest, oldest, shrunk>>
    BY <1>4 DEF BeginWalk
  <2>2. /\ w \in Walks /\ w.at = "rows" /\ w.page = 1 /\ w.length = 0 /\ w.began = oldest..newest
    BY <1>0 DEF Walks
  <2> HIDE DEF w
  <2>3. SkipOf(1) = 0
    BY <1>0, PageFacts
  <2>4. \A r \in w.began : ~(newest - r < 0)
    BY <1>0, <2>2
  <2>5. Covered(walk, SkipOf(walk.page))'
    BY <2>1, <2>2, <2>3, <2>4 DEF Covered, SkipOf
  <2>6. QED
    BY <1>0, <2>1, <2>2, <2>5 DEF WalkInv
<1>5. CASE ReadRows
  <2> DEFINE p == Page(walk.page)
             w == [walk EXCEPT !.at = "count", !.seen = walk.seen \cup p, !.length = Cardinality(p)]
  <2>1. walk' = w /\ UNCHANGED <<newest, oldest, shrunk>> /\ walk.at = "rows"
    BY <1>5 DEF ReadRows
  <2>2. walk \in Walks /\ walk # NoWalk
    BY <2>1 DEF WalkInv, NoWalk
  <2>3. /\ Cardinality(p) \in Nat /\ Cardinality(p) <= PageSize /\ p \in SUBSET Int
        /\ SkipOf(walk.page) \in Nat
    BY <1>0, <2>2, PageFacts DEF Walks
  <2>4. walk.seen \cup p \in SUBSET Int
    BY <2>2, <2>3 DEF Walks
  <2>5. ASSUME ~shrunk, NEW r \in walk.began, newest - r < SkipOf(walk.page) + PageSize
        PROVE  r \in walk.seen \cup p
    <3>1. r \in oldest..newest
      BY <2>2, <2>5 DEF WalkInv
    <3>2. CASE newest - r < SkipOf(walk.page)
      BY <2>1, <2>2, <2>5, <3>2 DEF WalkInv, Covered
    <3>3. CASE ~(newest - r < SkipOf(walk.page))
      <4>1. newest - r >= SkipOf(walk.page)
        BY <1>0, <2>3, <3>1, <3>3
      <4>2. QED
        BY <2>5, <3>1, <4>1 DEF Page
    <3>4. QED
      BY <3>2, <3>3
  <2> HIDE DEF p
  <2>6. /\ w \in Walks /\ w.at = "count" /\ w.page = walk.page /\ w.began = walk.began
        /\ w.seen = walk.seen \cup p /\ w.length = Cardinality(p)
    BY <2>2, <2>3, <2>4 DEF Walks
  <2> HIDE DEF w
  <2>7. ~shrunk => Covered(walk, SkipOf(walk.page) + PageSize)'
    BY <2>1, <2>5, <2>6 DEF Covered, SkipOf
  <2>8. ~shrunk => w.began \subseteq oldest..newest
    BY <2>2, <2>6 DEF WalkInv
  <2>9. QED
    BY <1>0, <2>1, <2>3, <2>6, <2>7, <2>8 DEF WalkInv
<1>6. CASE ReadTotal
  <2> DEFINE total == Cardinality(oldest..newest)
  <2>1. walk.at = "count" /\ UNCHANGED <<newest, oldest, shrunk>>
    BY <1>6 DEF ReadTotal
  <2>2. walk \in Walks /\ walk # NoWalk /\ walk.page \in Nat \ {0} /\ walk.length \in Nat
        /\ walk.length <= PageSize
    BY <2>1 DEF WalkInv, NoWalk, Walks
  <2>3. SkipOf(walk.page) \in Nat /\ SkipOf(walk.page + 1) = SkipOf(walk.page) + PageSize
    BY <1>0, <2>2, PageFacts
  <2>4. CASE walk' = [walk EXCEPT !.at = "rows", !.page = walk.page + 1, !.length = 0]
    <3> DEFINE w == [walk EXCEPT !.at = "rows", !.page = walk.page + 1, !.length = 0]
    <3>1. /\ w \in Walks /\ w.at = "rows" /\ w.page = walk.page + 1 /\ w.length = 0
          /\ w.began = walk.began /\ w.seen = walk.seen
      <4>1. walk.page + 1 \in Nat \ {0}
        BY <2>2
      <4>2. QED
        BY <2>2, <4>1 DEF Walks
    <3>2. walk' = w
      BY <2>4
    <3> HIDE DEF w
    <3>3. ~shrunk => Covered(walk, SkipOf(walk.page))'
      BY <2>1, <2>2, <2>3, <3>1, <3>2 DEF WalkInv, Covered, SkipOf
    <3>4. ~shrunk => w.began \subseteq oldest..newest
      BY <2>2, <3>1 DEF WalkInv
    <3>5. QED
      BY <1>0, <2>1, <3>1, <3>2, <3>3, <3>4 DEF WalkInv
  <2>5. CASE /\ ~(SkipOf(walk.page) + walk.length < total)
             /\ walk' = [walk EXCEPT !.at = "end", !.length = 0]
    <3> DEFINE w == [walk EXCEPT !.at = "end", !.length = 0]
    <3>1. /\ w \in Walks /\ w.at = "end" /\ w.length = 0
          /\ w.began = walk.began /\ w.seen = walk.seen
      BY <2>2 DEF Walks
    <3>2. walk' = w
      BY <2>5
    <3> HIDE DEF w
    <3>3. ~shrunk => w.began \subseteq oldest..newest
      BY <2>2, <3>1 DEF WalkInv
    <3>4. ASSUME ~shrunk, NEW r \in walk.began
          PROVE  r \in walk.seen
      <4>1. r \in oldest..newest
        BY <2>2, <3>4 DEF WalkInv
      <4>2. total = newest - oldest + 1
        BY <1>0, <4>1, FS_Interval
      <4> HIDE DEF total
      <4>3. newest - r < SkipOf(walk.page) + PageSize
        BY <1>0, <2>2, <2>3, <2>5, <4>1, <4>2
      <4>4. QED
        BY <2>1, <2>2, <3>4, <4>3 DEF WalkInv, Covered
    <3>5. QED
      BY <1>0, <2>1, <3>1, <3>2, <3>3, <3>4 DEF WalkInv
  <2>6. QED
    BY <1>6, <2>4, <2>5 DEF ReadTotal
<1>7. QED
  BY <1>1, <1>2, <1>3, <1>4, <1>5, <1>6 DEF PageNext

(***************************************************************************)
(* A reader that follows hasMore to the end misses no row that was there   *)
(* when it began, for every page size, however many rows arrive meanwhile, *)
(* as long as retention deletes none.                                      *)
(***************************************************************************)
THEOREM WalksStayComplete == PageSpec => []WalksMissNothing
<1>1. PageInit => WalkInv
  <2> SUFFICES ASSUME PageInit PROVE WalkInv
    OBVIOUS
  <2>1. newest \in Nat /\ oldest \in Nat \ {0} /\ walk = NoWalk
    BY DEF PageInit
  <2>2. shrunk \in BOOLEAN
    BY Zenon DEF PageInit
  <2>3. QED
    BY <2>1, <2>2 DEF WalkInv
<1>2. WalkInv => WalksMissNothing
  BY DEF WalkInv, WalksMissNothing, NoWalk
<1>3. QED
  BY <1>1, <1>2, WalkInvInductive, PTL DEF PageSpec

-----------------------------------------------------------------------------
(* Caches *)

CacheSpec == CacheInit /\ [][CacheNext]_cacheVars

Carriers == {Asleep, [at |-> "fetch"]} \cup [at : {"set"}, version : 1..MaxVersions, age : 0..MaxFlight]

CacheTyped ==
    /\ source \in 1..MaxVersions
    /\ outdated \in [1..MaxVersions -> 0..Stalest]
    /\ cached = Nothing \/ cached \in [version : 1..MaxVersions, left : 1..CacheTtl]
    /\ fetcher \in [Fetchers -> Carriers]
    /\ served \in Nat

\* A value in the cache has used up no more than what is left of the bound, and
\* one that a fetcher holds is out of date for no longer than it is held.
CacheInv ==
    /\ CacheTyped
    /\ cached # Nothing => outdated[cached.version] + cached.left <= Stalest
    /\ \A f \in Fetchers : fetcher[f].at = "set" => outdated[fetcher[f].version] <= fetcher[f].age
    /\ \A v \in 1..MaxVersions : v >= source => outdated[v] = 0
    /\ served < Stalest

LEMMA StalestFacts ==
    /\ Stalest \in Nat /\ MaxFlight \in Nat /\ CacheTtl \in Nat \ {0} /\ Stalest = CacheTtl + MaxFlight
    /\ MaxFlight < Stalest
  BY CachesAssumption DEF Stalest

LEMMA MaxOfTwo ==
    ASSUME NEW a \in Nat, NEW b \in Nat
    PROVE  Max({a, b}) \in Nat /\ Max({a, b}) = IF a >= b THEN a ELSE b
<1> DEFINE m == IF a >= b THEN a ELSE b
<1>1. m \in {a, b} /\ \A y \in {a, b} : m >= y
  OBVIOUS
<1>2. Max({a, b}) \in {a, b} /\ \A y \in {a, b} : Max({a, b}) >= y
  BY <1>1 DEF Max
<1>3. QED
  BY <1>2

LEMMA MinOfTwo ==
    ASSUME NEW a \in Nat, NEW b \in Nat
    PROVE  Min({a, b}) \in Nat /\ Min({a, b}) = IF a <= b THEN a ELSE b
<1> DEFINE m == IF a <= b THEN a ELSE b
<1>1. m \in {a, b} /\ \A y \in {a, b} : m =< y
  OBVIOUS
<1>2. Min({a, b}) \in {a, b} /\ \A y \in {a, b} : Min({a, b}) =< y
  BY <1>1 DEF Min
<1>3. QED
  BY <1>2

LEMMA ServeFacts ==
    ASSUME CacheInv, NEW v \in 1..MaxVersions, outdated[v] < Stalest, Serve(v)
    PROVE  served' \in Nat /\ served' < Stalest
<1>1. served \in Nat /\ outdated[v] \in Nat /\ served < Stalest
  BY StalestFacts DEF CacheInv, CacheTyped
<1>2. QED
  BY <1>1, MaxOfTwo DEF Serve

\* A fetcher or a writer; time stands still.
LEMMA CachesKeep ==
    ASSUME CacheInv, \/ \E f \in Fetchers : Lookup(f) \/ Fetch(f) \/ Fill(f)
                     \/ Invalidate \/ SourceChanges
    PROVE  CacheInv'
<1>1. CacheTyped /\ Asleep \in Carriers /\ [at |-> "fetch"] \in Carriers
  BY DEF CacheInv, Carriers
<1>2. ASSUME NEW f \in Fetchers, Lookup(f) PROVE CacheInv'
  <2>1. UNCHANGED <<source, outdated, cached>>
    BY <1>2 DEF Lookup
  <2>2. CASE cached # Nothing
    <3>1. Serve(cached.version) /\ UNCHANGED fetcher
      BY <1>2, <2>2 DEF Lookup
    <3>2. cached.version \in 1..MaxVersions /\ cached.left \in 1..CacheTtl
      BY <1>1, <2>2 DEF CacheTyped
    <3>3. outdated[cached.version] \in Nat /\ outdated[cached.version] + cached.left <= Stalest
      BY <2>2, <3>2, StalestFacts DEF CacheInv, CacheTyped
    <3>4. outdated[cached.version] < Stalest
      BY <3>2, <3>3, StalestFacts
    <3>5. served' \in Nat /\ served' < Stalest
      BY <3>1, <3>2, <3>4, ServeFacts
    <3>6. QED
      BY <2>1, <3>1, <3>5 DEF CacheInv, CacheTyped
  <2>3. CASE cached = Nothing
    <3>1. fetcher' = [fetcher EXCEPT ![f] = [at |-> "fetch"]] /\ UNCHANGED served
      BY <1>2, <2>3 DEF Lookup
    <3>2. QED
      BY <1>1, <2>1, <3>1 DEF CacheInv, CacheTyped
  <2>4. QED
    BY <2>2, <2>3
<1>3. ASSUME NEW f \in Fetchers, Fetch(f) PROVE CacheInv'
  <2>1. UNCHANGED <<source, outdated, cached, served>>
    BY <1>3 DEF Fetch
  <2>2. PICK to \in {Asleep, [at |-> "set", version |-> source, age |-> 0]} :
           fetcher' = [fetcher EXCEPT ![f] = to]
    BY <1>3 DEF Fetch
  <2>3. to \in Carriers /\ (to.at = "set" => to.version = source /\ to.age = 0)
    BY <1>1, StalestFacts DEF CacheTyped, Carriers, Asleep
  <2>4. source \in 1..MaxVersions /\ outdated[source] = 0
    BY CachesAssumption DEF CacheInv, CacheTyped
  <2>5. QED
    BY <1>1, <2>1, <2>2, <2>3, <2>4 DEF CacheInv, CacheTyped
<1>4. ASSUME NEW f \in Fetchers, Fill(f) PROVE CacheInv'
  <2>1. /\ UNCHANGED <<source, outdated>> /\ fetcher[f].at = "set"
        /\ fetcher' = [fetcher EXCEPT ![f] = Asleep] /\ Asleep.at # "set"
    BY <1>4 DEF Fill, Asleep
  <2>2. fetcher[f] \in [at : {"set"}, version : 1..MaxVersions, age : 0..MaxFlight]
    BY <1>1, <2>1 DEF CacheTyped, Carriers, Asleep
  <2>3. /\ fetcher[f].version \in 1..MaxVersions
        /\ outdated[fetcher[f].version] \in Nat /\ outdated[fetcher[f].version] <= MaxFlight
    BY <2>1, <2>2, StalestFacts DEF CacheInv, CacheTyped
  <2>4. CASE cached' = Keep(fetcher[f].version) /\ Serve(fetcher[f].version)
    <3>1. served' \in Nat /\ served' < Stalest
      BY <2>3, <2>4, ServeFacts, StalestFacts
    <3>2. cached'.version = fetcher[f].version /\ cached'.left = CacheTtl
      BY <2>4 DEF Keep
    <3>3. cached' \in [version : 1..MaxVersions, left : 1..CacheTtl]
      BY <2>3, <2>4, StalestFacts DEF Keep
    <3>4. outdated[cached'.version] + cached'.left <= Stalest
      BY <2>3, <3>2, StalestFacts
    <3>5. QED
      BY <1>1, <2>1, <3>1, <3>3, <3>4 DEF CacheInv, CacheTyped
  <2>5. CASE UNCHANGED <<cached, served>>
    BY <1>1, <2>1, <2>5 DEF CacheInv, CacheTyped
  <2>6. QED
    BY <1>4, <2>4, <2>5 DEF Fill
<1>5. CASE Invalidate
  BY <1>5 DEF Invalidate, CacheInv, CacheTyped
<1>6. CASE SourceChanges
  <2>1. /\ source \in 1..MaxVersions /\ source < MaxVersions /\ source' = source + 1
        /\ UNCHANGED <<outdated, cached, fetcher, served>>
    BY <1>1, <1>6 DEF SourceChanges, CacheTyped
  <2>2. source' \in 1..MaxVersions /\ \A v \in 1..MaxVersions : v >= source' => v >= source
    BY <2>1, CachesAssumption
  <2>3. QED
    BY <2>1, <2>2 DEF CacheInv, CacheTyped
<1>7. QED
  BY <1>2, <1>3, <1>4, <1>5, <1>6

LEMMA CacheTickKeeps ==
    ASSUME CacheInv, CacheTick
    PROVE  CacheInv'
<1>1. CacheTyped /\ UNCHANGED <<source, served>>
  BY DEF CacheInv, CacheTick
<1>2. ASSUME NEW v \in 1..MaxVersions
      PROVE  /\ outdated[v] \in 0..Stalest /\ outdated'[v] \in 0..Stalest
             /\ outdated'[v] <= outdated[v] + 1
             /\ v >= source => outdated'[v] = 0
  <2>1. outdated[v] \in 0..Stalest /\ source \in Nat /\ v \in Nat
    BY <1>1, CachesAssumption DEF CacheTyped
  <2>2. outdated'[v] = IF v < source THEN Min({outdated[v] + 1, Stalest}) ELSE 0
    BY DEF CacheTick
  <2>3. outdated[v] + 1 \in Nat /\ Stalest \in Nat
    BY <2>1, StalestFacts
  <2>4. /\ Min({outdated[v] + 1, Stalest}) \in Nat
        /\ Min({outdated[v] + 1, Stalest})
             = IF outdated[v] + 1 <= Stalest THEN outdated[v] + 1 ELSE Stalest
    BY <2>3, MinOfTwo
  <2>5. QED
    BY <2>1, <2>2, <2>3, <2>4
<1>3. outdated' \in [1..MaxVersions -> 0..Stalest]
  <2>1. outdated' = [v \in 1..MaxVersions |-> outdated'[v]]
    BY DEF CacheTick
  <2>2. QED
    BY <1>2, <2>1
<1>4. /\ cached' = Nothing \/ cached' \in [version : 1..MaxVersions, left : 1..CacheTtl]
      /\ cached' # Nothing => outdated'[cached'.version] + cached'.left <= Stalest
  <2>1. CASE cached' = Nothing
    BY <2>1
  <2>2. CASE cached' # Nothing
    <3>1. ~(cached.left <= 1) /\ cached' = [cached EXCEPT !.left = @ - 1]
      BY <2>2 DEF CacheTick
    <3>2. cached # Nothing
      BY <3>1 DEF Nothing
    <3>3. cached \in [version : 1..MaxVersions, left : 1..CacheTtl]
      BY <1>1, <3>2 DEF CacheTyped
    <3>4. /\ cached'.version = cached.version /\ cached'.left = cached.left - 1
          /\ cached' \in [version : 1..MaxVersions, left : 1..CacheTtl]
      BY <3>1, <3>3, StalestFacts
    <3>5. outdated[cached.version] + cached.left <= Stalest
      BY <3>2 DEF CacheInv
    <3>6. QED
      BY <1>2, <3>3, <3>4, <3>5, StalestFacts
  <2>3. QED
    BY <2>1, <2>2
<1>5. ASSUME NEW f \in Fetchers
      PROVE  /\ fetcher'[f] \in Carriers
             /\ fetcher'[f].at = "set" => outdated'[fetcher'[f].version] <= fetcher'[f].age
  <2>1. CASE fetcher[f].at # "set"
    <3>1. fetcher'[f] = fetcher[f]
      BY <2>1 DEF CacheTick
    <3>2. QED
      BY <1>1, <2>1, <3>1 DEF CacheTyped
  <2>2. CASE fetcher[f].at = "set"
    <3>1. fetcher[f] \in [at : {"set"}, version : 1..MaxVersions, age : 0..MaxFlight]
      BY <1>1, <2>2 DEF CacheTyped, Carriers, Asleep
    <3>2. fetcher'[f] = [fetcher[f] EXCEPT !.age = @ + 1] /\ fetcher[f].age < MaxFlight
      BY <2>2 DEF CacheTick
    <3>3. /\ fetcher'[f].version = fetcher[f].version /\ fetcher'[f].age = fetcher[f].age + 1
          /\ fetcher'[f] \in [at : {"set"}, version : 1..MaxVersions, age : 0..MaxFlight]
      BY <3>1, <3>2, StalestFacts
    <3>4. outdated[fetcher[f].version] <= fetcher[f].age
      BY <2>2 DEF CacheInv
    <3>5. QED
      BY <1>2, <3>1, <3>3, <3>4, StalestFacts DEF Carriers
  <2>3. QED
    BY <2>1, <2>2
<1>6. fetcher' \in [Fetchers -> Carriers]
  <2>1. fetcher' = [f \in Fetchers |-> fetcher'[f]]
    BY DEF CacheTick
  <2>2. QED
    BY <1>5, <2>1
<1>7. QED
  BY <1>1, <1>2, <1>3, <1>4, <1>5, <1>6 DEF CacheInv, CacheTyped

(***************************************************************************)
(* For any number of fetchers and any times to live: what getOrFetch       *)
(* (cache-store.ts) returns was the truth less than a time to live and the *)
(* time of one fetch ago, whoever changes the source or invalidates.       *)
(***************************************************************************)
THEOREM StalenessStaysBounded == CacheSpec => []StalenessIsBounded
<1>1. CacheInit => CacheInv
  <2> SUFFICES ASSUME CacheInit PROVE CacheInv
    OBVIOUS
  <2>1. /\ source = 1 /\ cached = Nothing /\ served = 0
        /\ outdated = [v \in 1..MaxVersions |-> 0] /\ fetcher = [f \in Fetchers |-> Asleep]
    BY DEF CacheInit
  <2>2. source \in 1..MaxVersions /\ outdated \in [1..MaxVersions -> 0..Stalest]
    BY <2>1, CachesAssumption, StalestFacts
  <2>3. fetcher \in [Fetchers -> Carriers] /\ \A f \in Fetchers : fetcher[f].at # "set"
    BY <2>1 DEF Carriers, Asleep
  <2>4. QED
    BY <2>1, <2>2, <2>3, StalestFacts DEF CacheInv, CacheTyped
<1>2. CacheInv /\ [CacheNext]_cacheVars => CacheInv'
  <2>1. CacheInv /\ UNCHANGED cacheVars => CacheInv'
    BY DEF cacheVars, CacheInv, CacheTyped
  <2>2. QED
    BY <2>1, CachesKeep, CacheTickKeeps DEF CacheNext
<1>3. CacheInv => StalenessIsBounded
  BY DEF CacheInv, StalenessIsBounded
<1>4. QED
  BY <1>1, <1>2, <1>3, PTL DEF CacheSpec

-----------------------------------------------------------------------------
(* Entries *)

EntrySpec == EntryInit /\ [][EntryNext]_entryVars

\* A cleaner that has found the entry expired is right until it is set again.
EntryInv ==
    /\ clock \in Nat /\ expires \in Nat
    /\ cleaner \in [Cleaners -> {"idle", "found"}]
    /\ \A c \in Cleaners : cleaner[c] = "found" /\ c \notin refreshed => expires <= clock
    /\ ~wronged

LEMMA EntriesKeep == EntryInv /\ [EntryNext]_entryVars => EntryInv'
<1> SUFFICES ASSUME EntryInv, [EntryNext]_entryVars PROVE EntryInv'
  OBVIOUS
<1>1. CASE UNCHANGED entryVars
  BY <1>1 DEF entryVars, EntryInv
<1>2. CASE Put
  <2>1. expires' \in Nat
    BY <1>2, CachesAssumption DEF Put, EntryInv
  <2>2. QED
    BY <1>2, <2>1 DEF Put, EntryInv
<1>3. CASE DeleteExpired
  BY <1>3 DEF DeleteExpired, EntryInv
<1>4. CASE EntryTick
  BY <1>4 DEF EntryTick, EntryInv
<1>5. ASSUME NEW c \in Cleaners, Find(c) PROVE EntryInv'
  BY <1>5 DEF Find, Expired, EntryInv
<1>6. ASSUME NEW c \in Cleaners, RemoveExpired(c) PROVE EntryInv'
  <2>1. ~(expires > clock /\ c \notin refreshed)
    BY <1>6 DEF RemoveExpired, EntryInv
  <2>2. expires' = 0 /\ ~wronged'
    BY <1>6, <2>1 DEF RemoveExpired, EntryInv
  <2>3. QED
    BY <1>6, <2>2 DEF RemoveExpired, EntryInv
<1>7. ASSUME NEW c \in Cleaners, RemoveFails(c) PROVE EntryInv'
  BY <1>7 DEF RemoveFails, EntryInv
<1>8. QED
  BY <1>1, <1>2, <1>3, <1>4, <1>5, <1>6, <1>7 DEF EntryNext

(***************************************************************************)
(* For any number of cleaners: TTLManager and IdempotencyCacheRepository   *)
(* remove by key what they have found expired, and an entry that was set   *)
(* while nobody was between the two stays for its time.                    *)
(***************************************************************************)
THEOREM EntriesStayTheirTime == EntrySpec => []EntriesStay
<1>1. EntryInit => EntryInv
  BY DEF EntryInit, EntryInv
<1>2. EntryInv => EntriesStay
  BY DEF EntryInv, EntriesStay
<1>3. QED
  BY <1>1, <1>2, EntriesKeep, PTL DEF EntrySpec
=============================================================================
