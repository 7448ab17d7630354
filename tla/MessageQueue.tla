--------------------------- MODULE MessageQueue ---------------------------
(***************************************************************************)
(* src/queue/message_queue.c over src/queue/ring_buffer.c: a ring of       *)
(* RB_CAPACITY messages behind one pthread mutex and one condition         *)
(* variable.  A critical section that copies a message is two steps (the   *)
(* copy, then the index and count updates with the unlock), so that the    *)
(* other threads run in between and only the mutex keeps them out.         *)
(***************************************************************************)
EXTENDS Integers, FiniteSets, Sequences

CONSTANTS Producers, Consumers, Message, NoMsg,
          Capacity,  \* RB_CAPACITY, 64 in the code
          Free       \* the mutex has no owner

ASSUME CapacityAssumption == Capacity \in Nat \ {0}
ASSUME ThreadAssumption ==
  /\ IsFiniteSet(Consumers)
  /\ Producers \cap Consumers = {}
  /\ Free \notin Producers \cup Consumers
ASSUME MessageAssumption == NoMsg \notin Message

VARIABLES data,      \* rb.data, indexed from 0 as in C
          head, tail, count,
          shutdown,
          mutex,     \* the thread that owns it, or Free
          pc,        \* where each thread is in its call
          out,       \* the buffer each consumer passed to pop_blocking
          ret        \* the return code of each thread's last call

vars == <<data, head, tail, count, shutdown, mutex, pc, out, ret>>
ring == <<data, head, tail, count>>

Threads == Producers \cup Consumers
Slots == 0 .. Capacity - 1

-----------------------------------------------------------------------------
(* The ring buffer.                                                         *)

Advance(i) == (i + 1) % Capacity

RbEmpty == count = 0
RbFullOffByOne == count > Capacity
RbFull == count >= Capacity

(* The condition variable: the sets of waiting threads that a signal or a   *)
(* broadcast may wake.                                                      *)
CondSignalLost(W) == {{}}
CondSignalIfWasEmpty(W) == IF W = {} \/ count > 0 THEN {{}} ELSE {{c} : c \in W}
CondSignal(W) == IF W = {} THEN {{}} ELSE {{c} : c \in W}
CondBroadcast(W) == {W}

(* The tests made under the mutex.                                          *)
LockUnguarded == TRUE
CanLock == mutex = Free
MayPushAfterShutdown == ~RbFull
MayPush == ~shutdown /\ ~RbFull
MustWaitUntilPush == RbEmpty
MustWait == RbEmpty /\ ~shutdown

InPc(s) == {t \in Threads : pc[t] = s}
Wake(W) == [t \in Threads |-> IF t \in W THEN "woken" ELSE pc[t]]

-----------------------------------------------------------------------------
Init ==
  /\ data = [i \in Slots |-> NoMsg]
  /\ head = 0 /\ tail = 0 /\ count = 0
  /\ shutdown = FALSE
  /\ mutex = Free
  /\ pc = [t \in Threads |-> "idle"]
  /\ out = [c \in Consumers |-> NoMsg]
  /\ ret = [t \in Threads |-> "none"]

(* push: lock, both checks pass, the message is copied into data[tail].     *)
PushBegin(p, m) ==
  /\ pc[p] = "idle" /\ CanLock /\ MayPush
  /\ data' = [data EXCEPT ![tail] = m]
  /\ mutex' = p
  /\ pc' = [pc EXCEPT ![p] = "pushing"]
  /\ UNCHANGED <<head, tail, count, shutdown, out, ret>>

(* push: lock, refused, unlock.                                             *)
PushRefused(p) ==
  /\ pc[p] = "idle" /\ CanLock /\ ~MayPush
  /\ ret' = [ret EXCEPT ![p] = IF shutdown THEN "SHUTDOWN" ELSE "FULL"]
  /\ UNCHANGED <<ring, shutdown, mutex, pc, out>>

(* push: advance the tail, signal one waiter, unlock, return QUEUE_OK.      *)
PushCommit(p) ==
  /\ pc[p] = "pushing"
  /\ tail' = Advance(tail)
  /\ count' = count + 1
  /\ \E W \in CondSignal(InPc("waiting")) : pc' = [Wake(W) EXCEPT ![p] = "idle"]
  /\ mutex' = Free
  /\ ret' = [ret EXCEPT ![p] = "OK"]
  /\ UNCHANGED <<data, head, shutdown, out>>

(* pop_blocking is at its loop test, with the mutex free to take: on entry, *)
(* or woken inside pthread_cond_wait.                                       *)
AtTest(c) == pc[c] \in {"idle", "woken"} /\ CanLock

(* Empty and not shut down: release the mutex and sleep, in one step.       *)
PopWait(c) ==
  /\ AtTest(c) /\ MustWait
  /\ pc' = [pc EXCEPT ![c] = "waiting"]
  /\ UNCHANGED <<ring, shutdown, mutex, out, ret>>

(* Empty and shut down: unlock, return QUEUE_SHUTDOWN.                      *)
PopShutdown(c) ==
  /\ AtTest(c) /\ RbEmpty /\ shutdown
  /\ pc' = [pc EXCEPT ![c] = "idle"]
  /\ ret' = [ret EXCEPT ![c] = "SHUTDOWN"]
  /\ UNCHANGED <<ring, shutdown, mutex, out>>

(* Not empty: data[head] is copied to the caller's buffer.                  *)
PopBegin(c) ==
  /\ AtTest(c) /\ ~RbEmpty
  /\ out' = [out EXCEPT ![c] = data[head]]
  /\ mutex' = c
  /\ pc' = [pc EXCEPT ![c] = "popping"]
  /\ UNCHANGED <<ring, shutdown, ret>>

(* Advance the head, unlock, return QUEUE_OK.                               *)
PopCommit(c) ==
  /\ pc[c] = "popping"
  /\ head' = Advance(head)
  /\ count' = count - 1
  /\ mutex' = Free
  /\ pc' = [pc EXCEPT ![c] = "idle"]
  /\ ret' = [ret EXCEPT ![c] = "OK"]
  /\ UNCHANGED <<data, tail, shutdown, out>>

(* POSIX lets pthread_cond_wait return without a signal.                    *)
SpuriousWake(c) ==
  /\ pc[c] = "waiting"
  /\ pc' = [pc EXCEPT ![c] = "woken"]
  /\ UNCHANGED <<ring, shutdown, mutex, out, ret>>

SignalShutdown ==
  /\ CanLock
  /\ shutdown' = TRUE
  /\ \E W \in CondBroadcast(InPc("waiting")) : pc' = Wake(W)
  /\ UNCHANGED <<ring, mutex, out, ret>>

PopStep(c) == PopWait(c) \/ PopShutdown(c) \/ PopBegin(c) \/ PopCommit(c)

Next ==
  \/ \E p \in Producers :
       PushRefused(p) \/ PushCommit(p) \/ \E m \in Message : PushBegin(p, m)
  \/ \E c \in Consumers : PopStep(c) \/ SpuriousWake(c)
  \/ SignalShutdown

(* A call in progress goes on, and a consumer calls pop_blocking again (the *)
(* dispatch loop of bridge.c).  Nobody is obliged to push, to shut the      *)
(* queue down or to wake without cause, and the mutex is not assumed fair.  *)
Fairness ==
  /\ \A p \in Producers : WF_vars(PushCommit(p))
  /\ \A c \in Consumers : WF_vars(PopStep(c))

Spec == Init /\ [][Next]_vars /\ Fairness

-----------------------------------------------------------------------------
(* The shape of the state: ring_buffer_t, the flags, and each thread's      *)
(* place in message_queue_push or message_queue_pop_blocking.               *)
TypeOK ==
  /\ data \in [Slots -> Message \cup {NoMsg}]
  /\ head \in Slots /\ tail \in Slots /\ count \in 0 .. Capacity
  /\ shutdown \in BOOLEAN
  /\ mutex \in Threads \cup {Free}
  /\ pc \in [Threads -> {"idle", "pushing", "waiting", "woken", "popping"}]
  /\ out \in [Consumers -> Message \cup {NoMsg}]
  /\ ret \in [Threads -> {"none", "OK", "FULL", "SHUTDOWN"}]

(* A consumer asleep in pthread_cond_wait while messages are in the ring    *)
(* has at least as many consumers awake inside pop_blocking as there are    *)
(* messages: a push can not signal nobody while somebody sleeps, and a      *)
(* woken consumer can not lose its message and leave another one unserved   *)
(* (message_queue.c:52 and :69 agree).                                      *)
Serving == InPc("woken") \cup InPc("popping")
WakeupsCoverMessages == InPc("waiting") # {} => count <= Cardinality(Serving)

(* After message_queue_signal_shutdown no consumer is asleep, and none goes *)
(* back to sleep (message_queue.c:69 and :95): bridge_destroy can join it.  *)
NoSleepAfterShutdown == shutdown => InPc("waiting") = {}

(* A consumer that was told QUEUE_SHUTDOWN was told so once and for all:    *)
(* the ring stays empty, so no accepted message is ever left behind by the  *)
(* dispatch thread that leaves its loop on that code (bridge.c:55).         *)
ShutdownReturnIsFinal ==
  (\E c \in Consumers : ret[c] = "SHUTDOWN") => shutdown /\ RbEmpty

(* Why the properties above hold: the mutex is held exactly across the two  *)
(* steps of a copy, so what push or pop_blocking tested before its copy is  *)
(* still true at the index update, and the three fields of the ring agree.  *)
Roles ==
  /\ \A p \in Producers : pc[p] \in {"idle", "pushing"}
  /\ \A c \in Consumers : pc[c] # "pushing"
LockOwner == \A t \in Threads : pc[t] \in {"pushing", "popping"} <=> mutex = t
TestsStillHold ==
  /\ (\E p \in Producers : pc[p] = "pushing") => MayPush /\ data[tail] \in Message
  /\ (\E c \in Consumers : pc[c] = "popping") => ~RbEmpty
RingShape == tail = (head + count) % Capacity
IInv ==
  /\ TypeOK /\ Roles /\ LockOwner /\ TestsStillHold /\ RingShape
  /\ WakeupsCoverMessages /\ NoSleepAfterShutdown /\ ShutdownReturnIsFinal

(* The messages a pop can still be handed: those in the ring, less the one  *)
(* a consumer is copying out of its slot.                                   *)
Popping == InPc("popping") # {}
Taken == IF Popping THEN 1 ELSE 0
Ring(d, first, n) == [i \in 1 .. n |-> d[(first + i - 1) % Capacity]]
Contents == Ring(data, head + Taken, count - Taken)

(* Every behaviour of the locked ring is a behaviour of the FIFO promised   *)
(* in message_queue.h: order, no loss, no duplicate, no torn slot, refusals *)
(* only when full or shut down, and no accepted message after the drain.    *)
Fifo == INSTANCE BoundedFifo
          WITH fifo <- Contents, closed <- shutdown,
               reply <- [t \in Threads |-> IF pc[t] = "popping" THEN "OK" ELSE ret[t]]
ImplementsFifo == Fifo!Spec

(* message_queue_signal_shutdown releases every consumer that is blocked in *)
(* pop_blocking (message_queue.h:32), whatever the other threads do.        *)
ShutdownReleasesConsumers ==
  \A c \in Consumers :
    shutdown /\ pc[c] \in {"waiting", "woken"} ~> pc[c] = "idle"

(* While producers go on as they like, a ring that holds messages is always *)
(* served again: no message waits for a push that never comes.              *)
NonemptyIsServed == []<>(RbEmpty \/ Popping)
=============================================================================
