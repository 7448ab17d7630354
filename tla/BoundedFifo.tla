---------------------------- MODULE BoundedFifo ----------------------------
(***************************************************************************)
(* What src/queue/message_queue.h promises its callers: a bounded FIFO     *)
(* whose push never blocks, whose pop blocks until there is a message or   *)
(* the queue was shut down, and which is drained before a pop reports      *)
(* QUEUE_SHUTDOWN.  A call that is blocked is a call that has not yet      *)
(* taken its step here.                                                    *)
(***************************************************************************)
EXTENDS Naturals, Sequences

CONSTANTS Producers,  \* threads that call message_queue_push
          Consumers,  \* threads that call message_queue_pop_blocking
          Message,    \* the values of bridge_message_t
          NoMsg,      \* a buffer no message was copied to yet
          Capacity    \* RB_CAPACITY

VARIABLES fifo,    \* the messages held, oldest first
          closed,  \* message_queue_signal_shutdown was called
          out,     \* the last message each consumer was handed
          reply    \* the last return code of each thread, "none" before one

vars == <<fifo, closed, out, reply>>

Init ==
  /\ fifo = <<>>
  /\ closed = FALSE
  /\ out = [c \in Consumers |-> NoMsg]
  /\ reply = [t \in Producers \cup Consumers |-> "none"]

(* QUEUE_OK from push: the message is behind every message accepted before. *)
Push(p, m) ==
  /\ ~closed
  /\ Len(fifo) < Capacity
  /\ fifo' = Append(fifo, m)
  /\ reply' = [reply EXCEPT ![p] = "OK"]
  /\ UNCHANGED <<closed, out>>

(* A push is refused for one of two reasons, and shutdown is reported first. *)
Refuse(p) ==
  /\ closed \/ Len(fifo) = Capacity
  /\ reply' = [reply EXCEPT ![p] = IF closed THEN "SHUTDOWN" ELSE "FULL"]
  /\ UNCHANGED <<fifo, closed, out>>

(* QUEUE_OK from pop_blocking: the oldest message, before or after shutdown. *)
Pop(c) ==
  /\ fifo # <<>>
  /\ out' = [out EXCEPT ![c] = Head(fifo)]
  /\ fifo' = Tail(fifo)
  /\ reply' = [reply EXCEPT ![c] = "OK"]
  /\ UNCHANGED closed

(* QUEUE_SHUTDOWN from pop_blocking: nothing is left and nothing will come. *)
Finish(c) ==
  /\ closed
  /\ fifo = <<>>
  /\ reply' = [reply EXCEPT ![c] = "SHUTDOWN"]
  /\ UNCHANGED <<fifo, closed, out>>

Close == closed' = TRUE /\ UNCHANGED <<fifo, out, reply>>

Next ==
  \/ \E p \in Producers : Refuse(p) \/ \E m \in Message : Push(p, m)
  \/ \E c \in Consumers : Pop(c) \/ Finish(c)
  \/ Close

Spec == Init /\ [][Next]_vars
=============================================================================
