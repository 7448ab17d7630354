------------------------- MODULE MessageQueueProofs -------------------------
(***************************************************************************)
(* Proofs about the queue for any number of producers and consumers, any   *)
(* set of messages and any capacity.                                       *)
(***************************************************************************)
EXTENDS MessageQueue, FiniteSetTheorems, SequenceTheorems, TLAPS

(* Arithmetic of a ring index that is at most one turn ahead.               *)
LEMMA ModWithin ==
  ASSUME NEW n \in Nat \ {0}, NEW x \in 0 .. n - 1
  PROVE  x % n = x
OBVIOUS

LEMMA ModOneTurn ==
  ASSUME NEW n \in Nat \ {0}, NEW x \in n .. 2 * n - 1
  PROVE  x % n = x - n
OBVIOUS

(* Advancing an index stays in the ring and commutes with the addition of   *)
(* an offset.                                                               *)
LEMMA AdvanceInRing ==
  ASSUME NEW i \in Slots
  PROVE  Advance(i) \in Slots
<1>1. CASE i + 1 < Capacity
  BY <1>1, CapacityAssumption, ModWithin DEF Advance, Slots
<1>2. CASE i + 1 = Capacity
  BY <1>2, CapacityAssumption, ModOneTurn DEF Advance, Slots
<1> QED  BY <1>1, <1>2, CapacityAssumption DEF Slots

LEMMA AdvanceOfSum ==
  ASSUME NEW i \in Slots, NEW n \in 0 .. Capacity - 1
  PROVE  /\ Advance((i + n) % Capacity) = (i + n + 1) % Capacity
         /\ (Advance(i) + n) % Capacity = (i + n + 1) % Capacity
<1> DEFINE m(x) == IF x < Capacity THEN x ELSE x - Capacity
<1>1. ASSUME NEW x \in 0 .. 2 * Capacity - 1
      PROVE  x % Capacity = m(x) /\ m(x) \in Slots
  BY <1>1, CapacityAssumption, ModWithin, ModOneTurn DEF Slots
<1>2. /\ i + n \in 0 .. 2 * Capacity - 1
      /\ i + n + 1 \in 0 .. 2 * Capacity - 1
      /\ i + 1 \in 0 .. 2 * Capacity - 1
      /\ \A y \in Slots : y + 1 \in 0 .. 2 * Capacity - 1 /\ y + n \in 0 .. 2 * Capacity - 1
  BY CapacityAssumption DEF Slots
<1>3. Advance((i + n) % Capacity) = m(m(i + n) + 1)
  BY <1>1, <1>2 DEF Advance
<1>4. (Advance(i) + n) % Capacity = m(m(i + 1) + n)
  BY <1>1, <1>2 DEF Advance
<1>5. (i + n + 1) % Capacity = m(i + n + 1)
  BY <1>1, <1>2
<1> QED  BY <1>3, <1>4, <1>5, CapacityAssumption DEF Slots

(* The set of consumers awake inside pop_blocking is finite.                *)
LEMMA ServingFinite ==
  ASSUME Roles
  PROVE  IsFiniteSet(Serving) /\ Cardinality(Serving) \in Nat
<1>1. Serving \subseteq Consumers
  BY DEF Serving, InPc, Roles, Threads
<1> QED  BY <1>1, ThreadAssumption, FS_Subset, FS_CardinalityType
LEMMA ServingFiniteNext ==
  ASSUME Roles'
  PROVE  IsFiniteSet(Serving') /\ Cardinality(Serving') \in Nat
<1>1. Serving' \subseteq Consumers
  BY DEF Serving, InPc, Roles, Threads
<1> QED  BY <1>1, ThreadAssumption, FS_Subset, FS_CardinalityType

(* A step after which nobody sleeps who did not, nobody stops serving who   *)
(* did, and the count is the same, keeps the wakeups sufficient.            *)
LEMMA MoreServing ==
  ASSUME IInv, Roles', count' = count,
         InPc("waiting")' \subseteq InPc("waiting"), Serving \subseteq Serving'
  PROVE  WakeupsCoverMessages'
<1>1. /\ IsFiniteSet(Serving') /\ Cardinality(Serving') \in Nat
      /\ Cardinality(Serving) \in Nat
  BY ServingFinite, ServingFiniteNext DEF IInv
<1>2. Cardinality(Serving) <= Cardinality(Serving')
  BY <1>1, FS_Subset
<1> QED  BY <1>1, <1>2 DEF IInv, TypeOK, WakeupsCoverMessages

-----------------------------------------------------------------------------
LEMMA InitInv == Init => IInv
<1> SUFFICES ASSUME Init PROVE IInv
  OBVIOUS
<1>0. 0 \in Slots /\ 0 \in 0 .. Capacity
  BY CapacityAssumption DEF Slots
<1>1. TypeOK
  BY <1>0 DEF Init, TypeOK
<1>2. Roles /\ LockOwner /\ TestsStillHold /\ ShutdownReturnIsFinal
  BY ThreadAssumption
     DEF Init, Roles, LockOwner, TestsStillHold, ShutdownReturnIsFinal, Threads
<1>3. RingShape
  BY CapacityAssumption, ModWithin DEF Init, RingShape
<1>4. InPc("waiting") = {}
  BY DEF Init, InPc
<1>5. WakeupsCoverMessages /\ NoSleepAfterShutdown
  BY <1>4 DEF WakeupsCoverMessages, NoSleepAfterShutdown
<1> QED  BY <1>1, <1>2, <1>3, <1>5 DEF IInv

(* Each action preserves the invariant.                                     *)
LEMMA PushBeginInv ==
  ASSUME IInv, NEW p \in Producers, NEW m \in Message, PushBegin(p, m)
  PROVE  IInv'
<1> USE DEF PushBegin, CanLock, MayPush, RbFull, Threads
<1>0. p \in Threads /\ TypeOK /\ Roles /\ LockOwner
  BY DEF IInv
<1>1. TypeOK'
  BY DEF IInv, TypeOK
<1>2. Roles'
  BY <1>0, ThreadAssumption DEF TypeOK, Roles
<1>3. LockOwner'
  BY <1>0, ThreadAssumption DEF TypeOK, LockOwner
<1>4. TestsStillHold'
  BY <1>0, ThreadAssumption DEF TypeOK, Roles, LockOwner, TestsStillHold
<1>5. RingShape' /\ ShutdownReturnIsFinal'
  BY <1>0, ThreadAssumption DEF IInv, TypeOK, RingShape, ShutdownReturnIsFinal, RbEmpty
<1>6. InPc("waiting")' = InPc("waiting") /\ Serving' = Serving
  BY <1>0 DEF InPc, Serving, TypeOK
<1>7. WakeupsCoverMessages' /\ NoSleepAfterShutdown'
  BY <1>6 DEF IInv, WakeupsCoverMessages, NoSleepAfterShutdown
<1> QED  BY <1>1, <1>2, <1>3, <1>4, <1>5, <1>7 DEF IInv

LEMMA PushRefusedInv ==
  ASSUME IInv, NEW p \in Producers, PushRefused(p)
  PROVE  IInv'
<1> USE DEF PushRefused, CanLock, MayPush, RbFull, RbEmpty, ring
<1>1. TypeOK'
  BY DEF IInv, TypeOK, Threads
<1>2. Roles' /\ LockOwner' /\ TestsStillHold' /\ RingShape'
  BY DEF IInv, Roles, LockOwner, TestsStillHold, RingShape
<1>3. ShutdownReturnIsFinal'
  BY ThreadAssumption DEF IInv, TypeOK, ShutdownReturnIsFinal, Threads
<1>4. InPc("waiting")' = InPc("waiting") /\ Serving' = Serving
  BY DEF InPc, Serving
<1>5. WakeupsCoverMessages' /\ NoSleepAfterShutdown'
  BY <1>4 DEF IInv, WakeupsCoverMessages, NoSleepAfterShutdown
<1> QED  BY <1>1, <1>2, <1>3, <1>5 DEF IInv

LEMMA PushCommitInv ==
  ASSUME IInv, NEW p \in Producers, PushCommit(p)
  PROVE  IInv'
<1>0. /\ TypeOK /\ Roles /\ LockOwner /\ TestsStillHold /\ RingShape
      /\ p \in Threads /\ p \notin Consumers
  BY ThreadAssumption DEF IInv, Threads
<1>1. /\ pc[p] = "pushing" /\ mutex = p /\ ~shutdown /\ ~RbFull
      /\ count \in 0 .. Capacity - 1
  BY <1>0, CapacityAssumption
     DEF PushCommit, LockOwner, TestsStillHold, MayPush, TypeOK, RbFull
<1>2. PICK W \in CondSignal(InPc("waiting")) : pc' = [Wake(W) EXCEPT ![p] = "idle"]
  BY DEF PushCommit
<1>3. W \subseteq InPc("waiting") /\ (InPc("waiting") # {} => \E c : W = {c})
  BY <1>2 DEF CondSignal
<1>4. \A t \in Threads :
        pc'[t] = IF t = p THEN "idle" ELSE IF t \in W THEN "woken" ELSE pc[t]
  BY <1>2 DEF Wake
<1>5. \A t \in W : t \in Consumers /\ pc[t] = "waiting"
  BY <1>0, <1>3 DEF InPc, Roles, Threads
<1>6. TypeOK'
  <2>1. tail' \in Slots
    BY <1>0, AdvanceInRing DEF PushCommit, TypeOK
  <2>2. count' \in 0 .. Capacity
    BY <1>1, CapacityAssumption DEF PushCommit
  <2>3. pc' \in [Threads -> {"idle", "pushing", "waiting", "woken", "popping"}]
    BY <1>0, <1>2 DEF Wake, TypeOK
  <2> QED  BY <1>0, <2>1, <2>2, <2>3 DEF PushCommit, TypeOK
<1>7. Roles'
  BY <1>0, <1>4, <1>5, ThreadAssumption DEF Roles, Threads
<1>8. LockOwner' /\ TestsStillHold'
  <2>1. \A t \in Threads : pc'[t] \notin {"pushing", "popping"}
    BY <1>0, <1>1, <1>4, <1>5 DEF LockOwner
  <2> QED
    BY <2>1, <1>0, ThreadAssumption DEF PushCommit, LockOwner, TestsStillHold, Threads
<1>9. RingShape'
  <2>1. head \in Slots /\ head \in Nat /\ count \in Nat
    BY <1>0, <1>1, CapacityAssumption DEF TypeOK, Slots
  <2>2. Advance(tail) = (head + count + 1) % Capacity
    BY <2>1, <1>0, <1>1, AdvanceOfSum DEF RingShape
  <2>3. head + (count + 1) = head + count + 1
    BY <2>1
  <2> QED  BY <2>2, <2>3 DEF PushCommit, RingShape
<1>10. ShutdownReturnIsFinal'
  BY <1>0, <1>1 DEF PushCommit, IInv, ShutdownReturnIsFinal, TypeOK, Threads
<1>11. NoSleepAfterShutdown'
  BY <1>1 DEF PushCommit, NoSleepAfterShutdown
<1>12. WakeupsCoverMessages'
  <2>1. SUFFICES ASSUME InPc("waiting")' # {}
                 PROVE  count + 1 <= Cardinality(Serving')
    BY DEF WakeupsCoverMessages, PushCommit
  <2>2. InPc("waiting") # {}
    BY <2>1, <1>4 DEF InPc
  <2>3. PICK c : W = {c}
    BY <2>2, <1>3
  <2>4. c \notin Serving /\ c \in Threads
    BY <2>3, <1>5 DEF Serving, InPc, Threads
  <2>5. Serving' = Serving \cup {c}
    <3>1. \A t \in Threads : t # c => (pc'[t] \in {"woken", "popping"} <=>
                                      pc[t] \in {"woken", "popping"})
      BY <2>3, <1>1, <1>4
    <3>2. pc'[c] = "woken"
      BY <2>3, <2>4, <1>1, <1>4, <1>5
    <3>3. Serving = {t \in Threads : pc[t] \in {"woken", "popping"}}
      BY DEF Serving, InPc
    <3>4. Serving' = {t \in Threads : pc'[t] \in {"woken", "popping"}}
      BY DEF Serving, InPc
    <3> QED  BY <2>4, <3>1, <3>2, <3>3, <3>4
  <2>6. IsFiniteSet(Serving) /\ Cardinality(Serving) \in Nat
    BY <1>0, ServingFinite
  <2>7. Cardinality(Serving') = Cardinality(Serving) + 1
    BY <2>4, <2>5, <2>6, FS_AddElement
  <2> QED
    BY <2>2, <2>6, <2>7, <1>1 DEF IInv, WakeupsCoverMessages
<1> QED  BY <1>6, <1>7, <1>8, <1>9, <1>10, <1>11, <1>12 DEF IInv

LEMMA PopWaitInv ==
  ASSUME IInv, NEW c \in Consumers, PopWait(c)
  PROVE  IInv'
<1> USE DEF PopWait, AtTest, CanLock, MustWait, RbEmpty, ring
<1>0. TypeOK /\ Roles /\ LockOwner /\ c \in Threads /\ c \notin Producers
  BY ThreadAssumption DEF IInv, Threads
<1>1. TypeOK'
  BY <1>0 DEF TypeOK
<1>2. Roles' /\ LockOwner'
  BY <1>0 DEF TypeOK, Roles, LockOwner, Threads
<1>3. TestsStillHold' /\ RingShape' /\ ShutdownReturnIsFinal'
  BY <1>0 DEF IInv, TypeOK, TestsStillHold, RingShape, ShutdownReturnIsFinal, Threads,
              MayPush, RbFull
<1>4. WakeupsCoverMessages'
  BY <1>2, ServingFiniteNext DEF WakeupsCoverMessages
<1>5. NoSleepAfterShutdown'
  BY DEF NoSleepAfterShutdown
<1> QED  BY <1>1, <1>2, <1>3, <1>4, <1>5 DEF IInv

LEMMA PopShutdownInv ==
  ASSUME IInv, NEW c \in Consumers, PopShutdown(c)
  PROVE  IInv'
<1> USE DEF PopShutdown, AtTest, CanLock, RbEmpty, ring
<1>0. TypeOK /\ Roles /\ LockOwner /\ c \in Threads /\ c \notin Producers
  BY ThreadAssumption DEF IInv, Threads
<1>1. TypeOK'
  BY <1>0 DEF TypeOK
<1>2. Roles' /\ LockOwner'
  BY <1>0 DEF TypeOK, Roles, LockOwner, Threads
<1>3. TestsStillHold' /\ RingShape' /\ ShutdownReturnIsFinal'
  BY <1>0 DEF IInv, TypeOK, TestsStillHold, RingShape, ShutdownReturnIsFinal, Threads,
              MayPush, RbFull
<1>4. InPc("waiting")' = {}
  BY <1>0 DEF IInv, NoSleepAfterShutdown, InPc, TypeOK
<1>5. WakeupsCoverMessages' /\ NoSleepAfterShutdown'
  BY <1>4 DEF WakeupsCoverMessages, NoSleepAfterShutdown
<1> QED  BY <1>1, <1>2, <1>3, <1>5 DEF IInv

LEMMA PopBeginInv ==
  ASSUME IInv, NEW c \in Consumers, PopBegin(c)
  PROVE  IInv'
<1> USE DEF PopBegin, AtTest, CanLock, RbEmpty, ring
<1>0. TypeOK /\ Roles /\ LockOwner /\ c \in Threads /\ c \notin Producers
  BY ThreadAssumption DEF IInv, Threads
<1>1. TypeOK'
  BY <1>0 DEF TypeOK
<1>2. Roles' /\ LockOwner'
  BY <1>0, ThreadAssumption DEF TypeOK, Roles, LockOwner, Threads
<1>3. TestsStillHold'
  BY <1>0, ThreadAssumption DEF TypeOK, Roles, LockOwner, TestsStillHold, Threads
<1>4. RingShape' /\ ShutdownReturnIsFinal'
  BY <1>0 DEF IInv, RingShape, ShutdownReturnIsFinal
<1>5. InPc("waiting")' \subseteq InPc("waiting") /\ Serving \subseteq Serving'
  BY <1>0 DEF InPc, Serving, TypeOK
<1>6. WakeupsCoverMessages' /\ NoSleepAfterShutdown'
  BY <1>2, <1>5, MoreServing DEF IInv, NoSleepAfterShutdown
<1> QED  BY <1>1, <1>2, <1>3, <1>4, <1>6 DEF IInv

LEMMA PopCommitInv ==
  ASSUME IInv, NEW c \in Consumers, PopCommit(c)
  PROVE  IInv'
<1> USE DEF PopCommit
<1>0. /\ TypeOK /\ Roles /\ LockOwner /\ TestsStillHold /\ RingShape
      /\ c \in Threads /\ c \notin Producers
  BY ThreadAssumption DEF IInv, Threads
<1>1. count \in 1 .. Capacity /\ mutex = c
  BY <1>0, CapacityAssumption DEF TypeOK, TestsStillHold, LockOwner, RbEmpty
<1>2. TypeOK'
  BY <1>0, <1>1, AdvanceInRing, CapacityAssumption DEF TypeOK
<1>3. Roles' /\ LockOwner'
  BY <1>0, <1>1, ThreadAssumption DEF TypeOK, Roles, LockOwner, Threads
<1>4. TestsStillHold'
  BY <1>0, <1>1, ThreadAssumption DEF TypeOK, Roles, LockOwner, TestsStillHold, Threads
<1>5. RingShape'
  <2>1. head \in Slots /\ head \in Nat /\ count - 1 \in 0 .. Capacity - 1
    BY <1>0, <1>1, CapacityAssumption DEF TypeOK, Slots
  <2>2. (Advance(head) + (count - 1)) % Capacity = (head + (count - 1) + 1) % Capacity
    BY <2>1, AdvanceOfSum
  <2>3. head + (count - 1) + 1 = head + count
    BY <2>1, <1>1
  <2> QED  BY <2>2, <2>3, <1>0 DEF RingShape
<1>6. ShutdownReturnIsFinal'
  BY <1>0, <1>1, CapacityAssumption DEF IInv, TypeOK, ShutdownReturnIsFinal, RbEmpty, Threads
<1>7. InPc("waiting")' = InPc("waiting") /\ Serving' = Serving \ {c} /\ c \in Serving
  BY <1>0 DEF InPc, Serving, TypeOK
<1>8. NoSleepAfterShutdown'
  BY <1>7 DEF IInv, NoSleepAfterShutdown
<1>9. WakeupsCoverMessages'
  <2>1. IsFiniteSet(Serving) /\ Cardinality(Serving) \in Nat
    BY <1>0, ServingFinite
  <2>2. Cardinality(Serving') = Cardinality(Serving) - 1
    BY <2>1, <1>7, FS_RemoveElement
  <2> QED  BY <2>1, <2>2, <1>1, <1>7 DEF IInv, WakeupsCoverMessages
<1> QED  BY <1>2, <1>3, <1>4, <1>5, <1>6, <1>8, <1>9 DEF IInv

LEMMA SpuriousWakeInv ==
  ASSUME IInv, NEW c \in Consumers, SpuriousWake(c)
  PROVE  IInv'
<1> USE DEF SpuriousWake, ring
<1>0. TypeOK /\ Roles /\ LockOwner /\ c \in Threads /\ c \notin Producers
  BY ThreadAssumption DEF IInv, Threads
<1>1. TypeOK'
  BY <1>0 DEF TypeOK
<1>2. Roles' /\ LockOwner'
  BY <1>0 DEF TypeOK, Roles, LockOwner, Threads
<1>3. TestsStillHold' /\ RingShape' /\ ShutdownReturnIsFinal'
  BY <1>0 DEF IInv, TypeOK, TestsStillHold, RingShape, ShutdownReturnIsFinal, Threads,
              MayPush, RbFull, RbEmpty
<1>4. InPc("waiting")' \subseteq InPc("waiting") /\ Serving \subseteq Serving'
  BY <1>0 DEF InPc, Serving, TypeOK
<1>5. WakeupsCoverMessages' /\ NoSleepAfterShutdown'
  BY <1>2, <1>4, MoreServing DEF IInv, NoSleepAfterShutdown
<1> QED  BY <1>1, <1>2, <1>3, <1>5 DEF IInv

LEMMA SignalShutdownInv ==
  ASSUME IInv, SignalShutdown
  PROVE  IInv'
<1> USE DEF SignalShutdown, CanLock, ring
<1>0. TypeOK /\ Roles /\ LockOwner
  BY DEF IInv
<1>1. pc' = Wake(InPc("waiting"))
  BY DEF CondBroadcast
<1>2. \A t \in Threads : pc'[t] = IF pc[t] = "waiting" THEN "woken" ELSE pc[t]
  BY <1>1 DEF Wake, InPc
<1>3. TypeOK'
  BY <1>0, <1>1 DEF TypeOK, Wake
<1>4. Roles' /\ LockOwner'
  BY <1>0, <1>2 DEF Roles, LockOwner, Threads
<1>5. TestsStillHold'
  BY <1>0, <1>2, ThreadAssumption DEF LockOwner, TestsStillHold, Threads
<1>6. RingShape' /\ ShutdownReturnIsFinal'
  BY DEF IInv, RingShape, ShutdownReturnIsFinal, RbEmpty
<1>7. InPc("waiting")' = {}
  BY <1>2 DEF InPc
<1>8. WakeupsCoverMessages' /\ NoSleepAfterShutdown'
  BY <1>7 DEF WakeupsCoverMessages, NoSleepAfterShutdown
<1> QED  BY <1>3, <1>4, <1>5, <1>6, <1>8 DEF IInv

LEMMA StutterInv == IInv /\ UNCHANGED vars => IInv'
<1> SUFFICES ASSUME IInv, UNCHANGED vars PROVE IInv'
  OBVIOUS
<1> USE DEF vars
<1>1. InPc("waiting")' = InPc("waiting") /\ Serving' = Serving
  BY DEF InPc, Serving
<1>2. TypeOK' /\ Roles' /\ LockOwner' /\ RingShape' /\ ShutdownReturnIsFinal'
  BY DEF IInv, TypeOK, Roles, LockOwner, RingShape, ShutdownReturnIsFinal, RbEmpty
<1>3. TestsStillHold'
  BY DEF IInv, TestsStillHold, MayPush, RbFull, RbEmpty
<1>4. WakeupsCoverMessages' /\ NoSleepAfterShutdown'
  BY <1>1 DEF IInv, WakeupsCoverMessages, NoSleepAfterShutdown
<1> QED  BY <1>2, <1>3, <1>4 DEF IInv

LEMMA NextInv == IInv /\ [Next]_vars => IInv'
<1> SUFFICES ASSUME IInv, [Next]_vars PROVE IInv'
  OBVIOUS
<1>1. ASSUME NEW p \in Producers, PushRefused(p) PROVE IInv'
  BY <1>1, PushRefusedInv
<1>2. ASSUME NEW p \in Producers, PushCommit(p) PROVE IInv'
  BY <1>2, PushCommitInv
<1>3. ASSUME NEW p \in Producers, NEW m \in Message, PushBegin(p, m) PROVE IInv'
  BY <1>3, PushBeginInv
<1>4. ASSUME NEW c \in Consumers, PopStep(c) PROVE IInv'
  BY <1>4, PopWaitInv, PopShutdownInv, PopBeginInv, PopCommitInv DEF PopStep
<1>5. ASSUME NEW c \in Consumers, SpuriousWake(c) PROVE IInv'
  BY <1>5, SpuriousWakeInv
<1>6. CASE SignalShutdown
  BY <1>6, SignalShutdownInv
<1>7. CASE UNCHANGED vars
  BY <1>7, StutterInv
<1> QED  BY <1>1, <1>2, <1>3, <1>4, <1>5, <1>6, <1>7 DEF Next

-----------------------------------------------------------------------------
(* The inductive invariant of the queue: the mutex protects every copy, the *)
(* ring's fields agree, and the wakeups suffice, in every reachable state.  *)
THEOREM Invariance == Spec => []IInv
BY InitInv, NextInv, PTL DEF Spec

(* Type correctness: in particular an index never leaves the ring and the   *)
(* count never passes RB_CAPACITY (ring_buffer.c:17-26, 31-41).             *)
THEOREM TypeCorrect == Spec => []TypeOK
<1>1. IInv => TypeOK
  BY DEF IInv
<1> QED  BY <1>1, Invariance, PTL

(* No lost wake-up, for any number of producers and consumers: sleepers are *)
(* outnumbered by consumers awake to serve the messages in the ring.        *)
THEOREM NoLostWakeup == Spec => []WakeupsCoverMessages
<1>1. IInv => WakeupsCoverMessages
  BY DEF IInv
<1> QED  BY <1>1, Invariance, PTL

(* After message_queue_signal_shutdown nobody sleeps in pop_blocking.       *)
THEOREM ShutdownWakesAll == Spec => []NoSleepAfterShutdown
<1>1. IInv => NoSleepAfterShutdown
  BY DEF IInv
<1> QED  BY <1>1, Invariance, PTL

(* QUEUE_SHUTDOWN from pop_blocking means that nothing is left, for good.   *)
THEOREM ShutdownDrains == Spec => []ShutdownReturnIsFinal
<1>1. IInv => ShutdownReturnIsFinal
  BY DEF IInv
<1> QED  BY <1>1, Invariance, PTL

-----------------------------------------------------------------------------
(* The locked ring implements the FIFO of message_queue.h: every step maps  *)
(* to a step of BoundedFifo or to a stutter.  A push takes effect at its    *)
(* commit, a pop when it copies the message out.                            *)

Buffers == Message \cup {NoMsg}
Replies == [t \in Threads |-> IF pc[t] = "popping" THEN "OK" ELSE ret[t]]

(* What Ring returns, and what an append, a removal, a turn of the index    *)
(* and a write behind its end do to it.                                     *)
LEMMA RingSeq ==
  ASSUME NEW d \in [Slots -> Buffers], NEW h \in Nat, NEW n \in Nat
  PROVE  /\ Ring(d, h, n) \in Seq(Buffers)
         /\ Len(Ring(d, h, n)) = n
         /\ \A i \in 1 .. n : Ring(d, h, n)[i] = d[(h + i - 1) % Capacity]
<1>1. \A i \in 1 .. n : (h + i - 1) % Capacity \in Slots
  BY CapacityAssumption DEF Slots
<1>2. Ring(d, h, n) \in [1 .. n -> Buffers]
  BY <1>1 DEF Ring
<1>3. Ring(d, h, n) \in Seq(Buffers)
  BY <1>2, SeqDef
<1>4. Len(Ring(d, h, n)) = n
  BY <1>2, <1>3, LenProperties
<1> QED  BY <1>3, <1>4 DEF Ring

LEMMA RingAppend ==
  ASSUME NEW d \in [Slots -> Buffers], NEW h \in Nat, NEW n \in Nat
  PROVE  Ring(d, h, n + 1) = Append(Ring(d, h, n), d[(h + n) % Capacity])
<1> DEFINE s == Ring(d, h, n)
           e == d[(h + n) % Capacity]
           t == Ring(d, h, n + 1)
<1>1. /\ s \in Seq(Buffers) /\ Len(s) = n
      /\ \A i \in 1 .. n : s[i] = d[(h + i - 1) % Capacity]
  BY RingSeq
<1>2. /\ t \in Seq(Buffers) /\ Len(t) = n + 1
      /\ \A i \in 1 .. n + 1 : t[i] = d[(h + i - 1) % Capacity]
  <2>1. n + 1 \in Nat
    OBVIOUS
  <2> QED  BY <2>1, RingSeq
<1>3. (h + n) % Capacity \in Slots
  BY CapacityAssumption DEF Slots
<1>4. e \in Buffers
  BY <1>3
<1> HIDE DEF s, e, t
<1>5. /\ Append(s, e) \in Seq(Buffers) /\ Len(Append(s, e)) = n + 1
      /\ \A i \in 1 .. n : Append(s, e)[i] = s[i]
      /\ Append(s, e)[n + 1] = e
  BY <1>1, <1>4, AppendProperties
<1>6. t[n + 1] = e
  <2>1. h + (n + 1) - 1 = h + n /\ n + 1 \in 1 .. n + 1
    OBVIOUS
  <2> QED  BY <2>1, <1>2 DEF e
<1>7. \A i \in 1 .. n + 1 : t[i] = Append(s, e)[i]
  <2>1. TAKE i \in 1 .. n + 1
  <2>2. CASE i \in 1 .. n
    BY <2>2, <1>1, <1>2, <1>5
  <2>3. CASE i = n + 1
    BY <2>3, <1>5, <1>6
  <2>4. i \in 1 .. n \/ i = n + 1
    OBVIOUS
  <2> QED  BY <2>2, <2>3, <2>4
<1>8. t = Append(s, e)
  BY <1>2, <1>5, <1>7, SeqEqual
<1> QED  BY <1>8 DEF s, e, t

LEMMA RingTail ==
  ASSUME NEW d \in [Slots -> Buffers], NEW h \in Nat, NEW n \in Nat \ {0}
  PROVE  /\ Ring(d, h, n) # <<>>
         /\ Head(Ring(d, h, n)) = d[h % Capacity]
         /\ Tail(Ring(d, h, n)) = Ring(d, h + 1, n - 1)
<1> DEFINE s == Ring(d, h, n)
           t == Ring(d, h + 1, n - 1)
<1>1. /\ s \in Seq(Buffers) /\ Len(s) = n
      /\ \A i \in 1 .. n : s[i] = d[(h + i - 1) % Capacity]
  BY RingSeq
<1>2. /\ t \in Seq(Buffers) /\ Len(t) = n - 1
      /\ \A i \in 1 .. n - 1 : t[i] = d[(h + 1 + i - 1) % Capacity]
  <2>1. n - 1 \in Nat /\ h + 1 \in Nat
    OBVIOUS
  <2> QED  BY <2>1, RingSeq
<1> HIDE DEF s, t
<1>3. s # <<>>
  BY <1>1, EmptySeq
<1>4. Head(s) = d[h % Capacity]
  <2>1. Head(s) = s[1]
    BY <1>1, <1>3
  <2>2. 1 \in 1 .. n /\ h + 1 - 1 = h
    OBVIOUS
  <2> QED  BY <1>1, <2>1, <2>2
<1>5. /\ Tail(s) \in Seq(Buffers) /\ Len(Tail(s)) = n - 1
      /\ \A i \in 1 .. n - 1 : Tail(s)[i] = s[i + 1]
  BY <1>1, <1>3, HeadTailProperties
<1>6. \A i \in 1 .. n - 1 : Tail(s)[i] = t[i]
  <2>1. TAKE i \in 1 .. n - 1
  <2>2. i + 1 \in 1 .. n /\ h + (i + 1) - 1 = h + 1 + i - 1
    OBVIOUS
  <2> QED  BY <1>1, <1>2, <1>5, <2>2
<1>7. Tail(s) = t
  BY <1>2, <1>5, <1>6, SeqEqual
<1> QED  BY <1>3, <1>4, <1>7 DEF s, t

LEMMA RingTurn ==
  ASSUME NEW d \in [Slots -> Buffers], NEW h \in Slots, NEW n \in 0 .. Capacity - 1
  PROVE  Ring(d, Advance(h), n) = Ring(d, h + 1, n)
<1>1. \A i \in 1 .. n : (Advance(h) + i - 1) % Capacity = (h + 1 + i - 1) % Capacity
  <2>1. TAKE i \in 1 .. n
  <2>2. i - 1 \in 0 .. Capacity - 1 /\ h + (i - 1) + 1 = h + 1 + i - 1
    BY CapacityAssumption DEF Slots
  <2>3. Advance(h) + (i - 1) = Advance(h) + i - 1
    BY AdvanceInRing DEF Slots
  <2>4. (Advance(h) + (i - 1)) % Capacity = (h + (i - 1) + 1) % Capacity
    BY <2>2, AdvanceOfSum
  <2> QED  BY <2>2, <2>3, <2>4
<1> QED  BY <1>1 DEF Ring

LEMMA RingBehind ==
  ASSUME NEW d \in [Slots -> Buffers], NEW h \in Slots, NEW n \in 0 .. Capacity - 1,
         NEW m \in Buffers
  PROVE  Ring([d EXCEPT ![(h + n) % Capacity] = m], h, n) = Ring(d, h, n)
<1>1. \A i \in 1 .. n : (h + i - 1) % Capacity \in Slots /\ (h + i - 1) % Capacity # (h + n) % Capacity
  <2>1. TAKE i \in 1 .. n
  <2> DEFINE mod(x) == IF x < Capacity THEN x ELSE x - Capacity
  <2>2. /\ h + i - 1 \in 0 .. 2 * Capacity - 1
        /\ h + n \in 0 .. 2 * Capacity - 1
    BY CapacityAssumption DEF Slots
  <2>3. ASSUME NEW x \in 0 .. 2 * Capacity - 1
        PROVE  x % Capacity = mod(x)
    BY CapacityAssumption, ModWithin, ModOneTurn
  <2>4. mod(h + i - 1) # mod(h + n) /\ mod(h + i - 1) \in Slots
    BY CapacityAssumption DEF Slots
  <2> QED  BY <2>2, <2>3, <2>4
<1> QED  BY <1>1 DEF Ring

-----------------------------------------------------------------------------
(* What the invariant says of Taken.                                        *)
LEMMA TakenFacts ==
  ASSUME IInv
  PROVE  /\ mutex = Free => ~Popping
         /\ \A p \in Producers : mutex = p => ~Popping
         /\ (\E c \in Consumers : pc[c] = "popping") => Popping
         /\ ~Popping => Taken = 0
         /\ Popping => Taken = 1 /\ count \in 1 .. Capacity
         /\ Popping => mutex \in Consumers
         /\ count \in 0 .. Capacity /\ head \in Slots /\ data \in [Slots -> Buffers]
<1>1. TypeOK /\ LockOwner /\ Roles /\ TestsStillHold
  BY DEF IInv
<1>2. \A t \in Threads : pc[t] = "popping" => t \in Consumers /\ mutex = t
  BY <1>1 DEF LockOwner, Roles, Threads
<1>3. Popping <=> \E c \in Consumers : pc[c] = "popping"
  BY <1>2 DEF Popping, InPc, Threads
<1>4. Popping => mutex \in Consumers
  BY <1>2, <1>3 DEF Threads
<1>5. Popping => count \in 1 .. Capacity
  BY <1>1, <1>3, CapacityAssumption DEF TestsStillHold, TypeOK, RbEmpty
<1> QED  BY <1>1, <1>3, <1>4, <1>5, ThreadAssumption DEF Taken, TypeOK, Buffers

(* The messages the FIFO holds, in the two situations the proofs meet.      *)
LEMMA ContentsFree ==
  ASSUME IInv, ~Popping
  PROVE  Contents = Ring(data, head, count)
<1>1. head + 0 = head /\ count - 0 = count
  BY TakenFacts DEF Slots
<1> QED  BY <1>1, TakenFacts DEF Contents

LEMMA ContentsPopping ==
  ASSUME IInv, Popping
  PROVE  Contents = Ring(data, head + 1, count - 1)
BY TakenFacts DEF Contents

LEMMA ContentsFreeNext ==
  ASSUME TypeOK', ~Popping'
  PROVE  Contents' = Ring(data', head', count')
<1>1. Taken' = 0
  BY DEF Taken
<1>2. head' \in Nat /\ count' \in Nat
  BY CapacityAssumption DEF TypeOK, Slots
<1>3. \A i \in Nat : i + 0 = i /\ i - 0 = i
  OBVIOUS
<1> QED  BY <1>1, <1>2, <1>3 DEF Contents

LEMMA ContentsPoppingNext ==
  ASSUME Popping'
  PROVE  Contents' = Ring(data', head' + 1, count' - 1)
<1>1. Taken' = 1
  BY DEF Taken
<1> QED  BY <1>1 DEF Contents

(* With no pop under way the FIFO holds count messages.                     *)
LEMMA ContentsLen ==
  ASSUME IInv, ~Popping
  PROVE  /\ Contents \in Seq(Buffers)
         /\ Len(Contents) = count
         /\ RbEmpty <=> Contents = <<>>
<1>1. count \in Nat /\ head \in Nat /\ data \in [Slots -> Buffers]
  BY TakenFacts, CapacityAssumption DEF Slots
<1>2. Contents \in Seq(Buffers) /\ Len(Contents) = count
  BY <1>1, ContentsFree, RingSeq
<1> QED  BY <1>2, EmptySeq DEF RbEmpty

LEMMA RepliesFree ==
  ASSUME IInv, ~Popping
  PROVE  Replies = ret
BY DEF IInv, TypeOK, Popping, InPc, Replies

LEMMA RepliesFreeNext ==
  ASSUME TypeOK', ~Popping'
  PROVE  Replies' = ret'
BY DEF TypeOK, Popping, InPc, Replies

(* A step that leaves the ring alone and begins or ends no pop.             *)
LEMMA ContentsKept ==
  ASSUME UNCHANGED ring, Popping' <=> Popping
  PROVE  Contents' = Contents
<1>1. Taken' = Taken
  BY DEF Taken
<1> QED  BY <1>1 DEF ring, Contents

-----------------------------------------------------------------------------
(* Every action of MessageQueue maps to a step of the FIFO or to a stutter. *)
LEMMA InitMaps == Init => Fifo!Init
<1> SUFFICES ASSUME Init PROVE Fifo!Init
  OBVIOUS
<1>1. ~Popping /\ IInv
  BY InitInv DEF Init, Popping, InPc
<1>2. Contents = <<>>
  BY <1>1, ContentsLen DEF Init, RbEmpty
<1>3. Replies = [t \in Threads |-> "none"]
  BY <1>1, RepliesFree DEF Init
<1> QED  BY <1>2, <1>3 DEF Init, Fifo!Init, Replies, Threads

LEMMA PushBeginMaps ==
  ASSUME IInv, IInv', NEW p \in Producers, NEW m \in Message, PushBegin(p, m)
  PROVE  UNCHANGED <<Contents, shutdown, out, Replies>>
<1> USE DEF PushBegin, CanLock
<1>0. TypeOK /\ TypeOK' /\ RingShape
  BY DEF IInv
<1>1. ~Popping
  BY TakenFacts
<1>2. ~Popping'
  BY <1>0, <1>1 DEF Popping, InPc, TypeOK
<1>3. count \in 0 .. Capacity - 1
  BY <1>0, CapacityAssumption DEF TypeOK, MayPush, RbFull
<1>4. Ring(data', head, count) = Ring(data, head, count)
  <2>1. m \in Buffers /\ head \in Slots /\ data \in [Slots -> Buffers]
    BY <1>0 DEF TypeOK, Buffers
  <2>2. data' = [data EXCEPT ![(head + count) % Capacity] = m]
    BY <1>0 DEF RingShape
  <2>3. Ring([data EXCEPT ![(head + count) % Capacity] = m], head, count)
          = Ring(data, head, count)
    BY <1>3, <2>1, RingBehind
  <2> QED  BY <2>2, <2>3
<1>5. Contents' = Contents
  BY <1>0, <1>1, <1>2, <1>4, ContentsFree, ContentsFreeNext
<1>6. Replies' = Replies
  BY <1>0, <1>1, <1>2, RepliesFree, RepliesFreeNext
<1> QED  BY <1>5, <1>6

LEMMA PushRefusedMaps ==
  ASSUME IInv, IInv', NEW p \in Producers, PushRefused(p)
  PROVE  Fifo!Refuse(p)
<1> USE DEF PushRefused, CanLock
<1>0. TypeOK /\ TypeOK'
  BY DEF IInv
<1>1. ~Popping /\ ~Popping'
  BY TakenFacts DEF Popping, InPc
<1>2. Contents' = Contents
  BY <1>1, ContentsKept DEF ring
<1>3. shutdown \/ Len(Contents) = Capacity
  BY <1>0, <1>1, ContentsLen, CapacityAssumption DEF MayPush, RbFull, TypeOK
<1>4. Replies' = [Replies EXCEPT ![p] = IF shutdown THEN "SHUTDOWN" ELSE "FULL"]
  BY <1>0, <1>1, RepliesFree, RepliesFreeNext
<1> QED  BY <1>2, <1>3, <1>4 DEF Fifo!Refuse, Replies

LEMMA PushCommitMaps ==
  ASSUME IInv, IInv', NEW p \in Producers, PushCommit(p)
  PROVE  \E m \in Message : Fifo!Push(p, m)
<1> USE DEF PushCommit
<1>0. /\ TypeOK /\ TypeOK' /\ LockOwner /\ RingShape /\ TestsStillHold
      /\ p \in Threads
  BY DEF IInv, Threads
<1>1. ~Popping
  BY <1>0, TakenFacts DEF LockOwner
<1>2. ~Popping'
  <2>1. PICK W : pc' = [Wake(W) EXCEPT ![p] = "idle"]
    OBVIOUS
  <2>2. \A t \in Threads : pc[t] # "popping"
    BY <1>1 DEF Popping, InPc
  <2>3. \A t \in Threads : pc'[t] # "popping"
    BY <2>1, <2>2 DEF Wake
  <2> QED  BY <2>3 DEF Popping, InPc
<1>3. MayPush /\ data[tail] \in Message
  BY <1>0 DEF TestsStillHold
<1>4. count < Capacity /\ Len(Contents) = count
  BY <1>0, <1>1, <1>3, ContentsLen, CapacityAssumption DEF MayPush, RbFull, TypeOK
<1>5. Contents' = Append(Contents, data[tail])
  <2>1. head \in Nat /\ count \in Nat /\ data \in [Slots -> Buffers]
    BY <1>0, CapacityAssumption DEF TypeOK, Slots, Buffers
  <2>2. Ring(data, head, count + 1) = Append(Ring(data, head, count), data[tail])
    BY <1>0, <2>1, RingAppend DEF RingShape
  <2> QED  BY <1>0, <1>1, <1>2, <2>2, ContentsFree, ContentsFreeNext
<1>6. Replies' = [Replies EXCEPT ![p] = "OK"]
  BY <1>0, <1>1, <1>2, RepliesFree, RepliesFreeNext
<1>7. PICK m \in Message : m = data[tail]
  BY <1>3
<1>8. Fifo!Push(p, m)
  BY <1>3, <1>4, <1>5, <1>6, <1>7 DEF Fifo!Push, Replies, MayPush
<1> QED  BY <1>8

LEMMA PopWaitMaps ==
  ASSUME IInv, IInv', NEW c \in Consumers, PopWait(c)
  PROVE  UNCHANGED <<Contents, shutdown, out, Replies>>
<1> USE DEF PopWait, AtTest, CanLock
<1>0. TypeOK /\ TypeOK'
  BY DEF IInv
<1>1. ~Popping
  BY TakenFacts
<1>2. ~Popping'
  BY <1>0, <1>1 DEF Popping, InPc, TypeOK
<1>3. Contents' = Contents
  BY <1>1, <1>2, ContentsKept DEF ring
<1>4. Replies' = Replies
  BY <1>0, <1>1, <1>2, RepliesFree, RepliesFreeNext
<1> QED  BY <1>3, <1>4

LEMMA SpuriousWakeMaps ==
  ASSUME IInv, NEW c \in Consumers, SpuriousWake(c)
  PROVE  UNCHANGED <<Contents, shutdown, out, Replies>>
<1> USE DEF SpuriousWake
<1>1. \A t \in Threads : (pc'[t] = "popping") <=> (pc[t] = "popping")
  BY DEF IInv, TypeOK
<1>2. Popping' <=> Popping
  BY <1>1 DEF Popping, InPc
<1>3. Contents' = Contents
  BY <1>2, ContentsKept DEF ring
<1>4. Replies' = Replies
  BY <1>1 DEF Replies
<1> QED  BY <1>3, <1>4

LEMMA PopShutdownMaps ==
  ASSUME IInv, IInv', NEW c \in Consumers, PopShutdown(c)
  PROVE  Fifo!Finish(c)
<1> USE DEF PopShutdown, AtTest, CanLock
<1>0. TypeOK /\ TypeOK'
  BY DEF IInv
<1>1. ~Popping
  BY TakenFacts
<1>2. ~Popping'
  BY <1>0, <1>1 DEF Popping, InPc, TypeOK
<1>3. Contents' = Contents /\ Contents = <<>>
  BY <1>1, <1>2, ContentsKept, ContentsLen DEF ring
<1>4. Replies' = [Replies EXCEPT ![c] = "SHUTDOWN"]
  BY <1>0, <1>1, <1>2, RepliesFree, RepliesFreeNext
<1> QED  BY <1>3, <1>4 DEF Fifo!Finish, Replies

LEMMA PopBeginMaps ==
  ASSUME IInv, IInv', NEW c \in Consumers, PopBegin(c)
  PROVE  Fifo!Pop(c)
<1> USE DEF PopBegin, AtTest, CanLock
<1>0. TypeOK /\ TypeOK' /\ c \in Threads
  BY DEF IInv, Threads
<1>1. ~Popping
  BY TakenFacts
<1>2. Popping'
  BY <1>0 DEF Popping, InPc, TypeOK
<1>3. /\ head \in Slots /\ head \in Nat /\ data \in [Slots -> Buffers]
      /\ count \in Nat \ {0}
  BY <1>0, CapacityAssumption DEF TypeOK, Slots, Buffers, RbEmpty
<1>4. head % Capacity = head
  BY <1>3, CapacityAssumption, ModWithin DEF Slots
<1>5. /\ Contents # <<>>
      /\ Head(Contents) = data[head]
      /\ Contents' = Tail(Contents)
  <2>1. Contents = Ring(data, head, count)
    BY <1>1, ContentsFree
  <2>2. Contents' = Ring(data, head + 1, count - 1)
    BY <1>2, ContentsPoppingNext DEF ring
  <2>3. /\ Ring(data, head, count) # <<>>
        /\ Head(Ring(data, head, count)) = data[head % Capacity]
        /\ Tail(Ring(data, head, count)) = Ring(data, head + 1, count - 1)
    BY <1>3, RingTail
  <2> QED  BY <1>4, <2>1, <2>2, <2>3
<1>6. Replies' = [Replies EXCEPT ![c] = "OK"]
  <2>1. \A t \in Threads : pc[t] # "popping"
    BY <1>1 DEF Popping, InPc
  <2> QED  BY <1>0, <2>1 DEF Replies, TypeOK
<1> QED  BY <1>5, <1>6 DEF Fifo!Pop, Replies

LEMMA PopCommitMaps ==
  ASSUME IInv, IInv', NEW c \in Consumers, PopCommit(c)
  PROVE  UNCHANGED <<Contents, shutdown, out, Replies>>
<1> USE DEF PopCommit
<1>0. TypeOK /\ TypeOK' /\ LockOwner /\ c \in Threads
  BY DEF IInv, Threads
<1>1. Popping /\ count \in 1 .. Capacity
  BY TakenFacts
<1>2. \A t \in Threads : pc[t] = "popping" => t = c
  BY <1>0 DEF LockOwner
<1>3. ~Popping'
  BY <1>0, <1>2 DEF Popping, InPc, TypeOK
<1>4. Contents' = Contents
  <2>1. Contents = Ring(data, head + 1, count - 1)
    BY <1>1, ContentsPopping
  <2>2. Contents' = Ring(data, Advance(head), count - 1)
    BY <1>0, <1>3, ContentsFreeNext
  <2>3. /\ head \in Slots /\ data \in [Slots -> Buffers]
        /\ count - 1 \in 0 .. Capacity - 1
    BY <1>0, <1>1, CapacityAssumption DEF TypeOK, Buffers
  <2> QED  BY <2>1, <2>2, <2>3, RingTurn
<1>5. Replies' = Replies
  <2>1. Replies' = ret'
    BY <1>0, <1>3, RepliesFreeNext
  <2> QED  BY <1>0, <1>2, <2>1 DEF Replies, TypeOK
<1> QED  BY <1>4, <1>5

LEMMA SignalShutdownMaps ==
  ASSUME IInv, IInv', SignalShutdown
  PROVE  Fifo!Close
<1> USE DEF SignalShutdown, CanLock
<1>0. TypeOK /\ TypeOK'
  BY DEF IInv
<1>1. ~Popping
  BY TakenFacts
<1>2. ~Popping'
  BY <1>0, <1>1 DEF Popping, InPc, TypeOK, Wake, CondBroadcast
<1>3. Contents' = Contents
  BY <1>1, <1>2, ContentsKept DEF ring
<1>4. Replies' = Replies
  BY <1>0, <1>1, <1>2, RepliesFree, RepliesFreeNext
<1> QED  BY <1>3, <1>4 DEF Fifo!Close, Replies

LEMMA StutterMaps ==
  ASSUME UNCHANGED vars
  PROVE  UNCHANGED <<Contents, shutdown, out, Replies>>
BY DEF vars, Contents, Taken, Popping, InPc, Replies

LEMMA NextMaps == IInv /\ IInv' /\ [Next]_vars => [Fifo!Next]_(Fifo!vars)
<1> SUFFICES ASSUME IInv, IInv', [Next]_vars PROVE [Fifo!Next]_(Fifo!vars)
  OBVIOUS
<1>0. ASSUME UNCHANGED <<Contents, shutdown, out, Replies>> PROVE UNCHANGED Fifo!vars
  BY <1>0 DEF Fifo!vars, Replies
<1>1. ASSUME NEW p \in Producers, PushRefused(p) PROVE Fifo!Next
  BY <1>1, PushRefusedMaps DEF Fifo!Next
<1>2. ASSUME NEW p \in Producers, PushCommit(p) PROVE Fifo!Next
  BY <1>2, PushCommitMaps DEF Fifo!Next
<1>3. ASSUME NEW p \in Producers, NEW m \in Message, PushBegin(p, m)
      PROVE  UNCHANGED Fifo!vars
  BY <1>0, <1>3, PushBeginMaps
<1>4. ASSUME NEW c \in Consumers, PopStep(c) PROVE [Fifo!Next]_(Fifo!vars)
  <2>1. CASE PopWait(c)
    BY <1>0, <2>1, PopWaitMaps
  <2>2. CASE PopShutdown(c)
    BY <2>2, PopShutdownMaps DEF Fifo!Next
  <2>3. CASE PopBegin(c)
    BY <2>3, PopBeginMaps DEF Fifo!Next
  <2>4. CASE PopCommit(c)
    BY <1>0, <2>4, PopCommitMaps
  <2> QED  BY <1>4, <2>1, <2>2, <2>3, <2>4 DEF PopStep
<1>5. ASSUME NEW c \in Consumers, SpuriousWake(c) PROVE UNCHANGED Fifo!vars
  BY <1>0, <1>5, SpuriousWakeMaps
<1>6. CASE SignalShutdown
  BY <1>6, SignalShutdownMaps DEF Fifo!Next
<1>7. CASE UNCHANGED vars
  BY <1>0, <1>7, StutterMaps
<1> QED  BY <1>1, <1>2, <1>3, <1>4, <1>5, <1>6, <1>7 DEF Next

-----------------------------------------------------------------------------
(* The mutex-protected ring of message_queue.c is the FIFO its header       *)
(* promises, for every ring size, any number of threads and any messages.   *)
THEOREM Refinement == Spec => ImplementsFifo
<1>1. Init => Fifo!Init
  BY InitMaps
<1>2. IInv /\ IInv' /\ [Next]_vars => [Fifo!Next]_(Fifo!vars)
  BY NextMaps
<1>3. Spec => Fifo!Spec
  BY <1>1, <1>2, Invariance, PTL DEF Spec, Fifo!Spec
<1> QED  BY <1>3 DEF ImplementsFifo
=============================================================================
