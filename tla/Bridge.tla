------------------------------- MODULE Bridge -------------------------------
(***************************************************************************)
(* src/bridge.c and src/main.c: the daemon's life, from bridge_init to the *)
(* exit of main, with its four threads.  The queue between the MQTT thread *)
(* and the dispatch thread is the FIFO that MessageQueue implements; the   *)
(* two clients are reduced to what bridge.c sees of them.                  *)
(***************************************************************************)
EXTENDS Integers, Sequences

CONSTANTS Message, NoMsg,
          Mapped,     \* the messages some mapping rule translates
          Capacity,   \* RB_CAPACITY
          LinkPolls,  \* polls of the Matter state per message, 50 in the code
          MaxInput    \* bound: messages the broker delivers

ASSUME MessageAssumption == Mapped \subseteq Message /\ NoMsg \notin Message
ASSUME BoundAssumption ==
  Capacity \in Nat \ {0} /\ LinkPolls \in Nat /\ MaxInput \in Nat

VARIABLES
  main, k,         \* where main is, and the thread or flag it is at
  exitCode,
  g_shutdown,      \* set by the signal handler
  running,         \* the running flags of bridge_t, mqtt_client_t, matter_client_t
  thread,          \* "none" until created, then "run", then "exited"
  dispatch, polls, \* where the dispatch thread is in its loop
  monitor,         \* where the monitor thread is in its loop
  linkUp,          \* matter_client_state() = MATTER_CONNECTED
  metrics,
  fifo, closed, out, reply,         \* the queue
  accepted, refusedFull, unmapped   \* history: what no metric counts

mainVars == <<main, k, exitCode, running>>
dispatchVars == <<dispatch, polls>>
queue == <<fifo, closed, out, reply>>
history == <<accepted, refusedFull, unmapped>>
vars == <<mainVars, g_shutdown, thread, dispatchVars, monitor, linkUp, metrics,
          queue, history>>

Order == <<"mqtt", "matter", "dispatch", "monitor">>
Threads == {Order[i] : i \in DOMAIN Order}
Flags == <<"bridge", "mqtt", "matter">>

Q == INSTANCE BoundedFifo
       WITH Producers <- {"mqtt"}, Consumers <- {"dispatch"}

Init ==
  /\ main = "init" /\ k = 1 /\ exitCode = 0
  /\ g_shutdown = FALSE
  /\ running = [f \in {"bridge", "mqtt", "matter"} |-> TRUE]
  /\ thread = [t \in Threads |-> "none"]
  /\ dispatch = "test" /\ polls = 0
  /\ monitor = "test"
  /\ linkUp = FALSE
  /\ metrics = [received |-> 0, sent |-> 0, dropped |-> 0, errors |-> 0]
  /\ Q!Init
  /\ accepted = 0 /\ refusedFull = 0 /\ unmapped = 0

-----------------------------------------------------------------------------
(* main.                                                                    *)

(* A main step at place `from`, for the k-th of n things: on to the next of *)
(* them, or to place `to` after the last.                                   *)
Each(from, n, to) ==
  /\ main = from
  /\ IF k = n THEN main' = to /\ k' = 1 ELSE k' = k + 1 /\ UNCHANGED main
Goto(from, to) == main = from /\ main' = to /\ k' = 1
OthersUnchanged == UNCHANGED <<dispatchVars, monitor, linkUp, metrics, history>>

(* SIGINT or SIGTERM, at any time.                                          *)
SignalHandler ==
  /\ main # "exited" /\ ~g_shutdown
  /\ g_shutdown' = TRUE
  /\ UNCHANGED <<mainVars, thread, queue>> /\ OthersUnchanged

(* bridge_init, or one of its parts fails and main returns 1 at once.       *)
InitBridge ==
  /\ \/ Goto("init", "start") /\ UNCHANGED exitCode
     \/ Goto("init", "exited") /\ exitCode' = 1
  /\ UNCHANGED <<g_shutdown, running, thread, queue>> /\ OthersUnchanged

(* bridge_start: pthread_create of the k-th thread.                         *)
CreateThread ==
  /\ Each("start", Len(Order), "loop")
  /\ thread' = [thread EXCEPT ![Order[k]] = "run"]
  /\ UNCHANGED <<exitCode, g_shutdown, running, queue>> /\ OthersUnchanged

(* pthread_create fails: main goes to bridge_destroy, without bridge_stop.  *)
CreateFails ==
  /\ Goto("start", "join") /\ exitCode' = 1
  /\ UNCHANGED <<g_shutdown, running, thread, queue>> /\ OthersUnchanged

MainLoop ==
  /\ g_shutdown \/ ~running["bridge"]
  /\ Goto("loop", IF g_shutdown THEN "stop" ELSE "join")
  /\ UNCHANGED <<exitCode, g_shutdown, running, thread, queue>> /\ OthersUnchanged

(* bridge_stop: its own flag, mqtt_client_stop, matter_client_stop, ...     *)
StopFlag ==
  /\ Each("stop", Len(Flags), "stopQueue")
  /\ running' = [running EXCEPT ![Flags[k]] = FALSE]
  /\ UNCHANGED <<exitCode, g_shutdown, thread, queue>> /\ OthersUnchanged

(* ... and message_queue_signal_shutdown.                                   *)
SignalForgotten == UNCHANGED queue
SignalQueue == Q!Close

StopQueue ==
  /\ Goto("stopQueue", "join")
  /\ SignalQueue
  /\ UNCHANGED <<exitCode, g_shutdown, running, thread>> /\ OthersUnchanged

(* bridge_destroy: join the k-th thread if it was created.                  *)
JoinedIfAnyExited(t) == thread[t] = "none" \/ \E u \in Threads : thread[u] = "exited"
Joined(t) == thread[t] \in {"none", "exited"}

Join ==
  /\ Joined(Order[k])
  /\ Each("join", Len(Order), "destroy")
  /\ UNCHANGED <<exitCode, g_shutdown, running, thread, queue>> /\ OthersUnchanged

(* Mapper, clients, queue, config and logger are released; main returns.    *)
Destroy ==
  /\ Goto("destroy", "exited")
  /\ UNCHANGED <<exitCode, g_shutdown, running, thread, queue>> /\ OthersUnchanged

MainStep ==
  \/ InitBridge \/ CreateThread \/ CreateFails \/ MainLoop
  \/ StopFlag \/ StopQueue \/ Join \/ Destroy

-----------------------------------------------------------------------------
(* The threads.                                                             *)

Exits(t) == thread[t] = "run" /\ thread' = [thread EXCEPT ![t] = "exited"]

(* The MQTT thread: on_message pushes what the broker delivers.             *)
OnMessage(m) ==
  /\ thread["mqtt"] = "run" /\ accepted + refusedFull < MaxInput
  /\ \/ Q!Push("mqtt", m) /\ accepted' = accepted + 1 /\ UNCHANGED refusedFull
     \/ /\ Q!Refuse("mqtt") /\ UNCHANGED accepted
        /\ refusedFull' = IF closed THEN refusedFull ELSE refusedFull + 1
  /\ UNCHANGED <<mainVars, g_shutdown, thread, dispatchVars, monitor, linkUp,
                 metrics, unmapped>>

(* The Matter connection thread: the link goes up and down under it.        *)
LinkChanges ==
  /\ thread["matter"] = "run"
  /\ linkUp' = ~linkUp
  /\ UNCHANGED <<mainVars, g_shutdown, thread, dispatchVars, monitor, metrics,
                 queue, history>>

(* mqtt_client_run and matter_client_run end after their stop.              *)
ClientExits(t) ==
  /\ ~running[t] /\ Exits(t)
  /\ UNCHANGED <<mainVars, g_shutdown, queue>> /\ OthersUnchanged

(* The monitor thread looks at bridge->running before and after its sleep.  *)
MonitorStep ==
  /\ thread["monitor"] = "run"
  /\ IF running["bridge"]
       THEN monitor' = (IF monitor = "test" THEN "sleep" ELSE "test") /\ UNCHANGED thread
       ELSE Exits("monitor") /\ UNCHANGED monitor
  /\ UNCHANGED <<mainVars, g_shutdown, dispatchVars, linkUp, metrics, queue, history>>

-----------------------------------------------------------------------------
(* The dispatch thread.                                                     *)

DAt(l) == thread["dispatch"] = "run" /\ dispatch = l
Count(field) == metrics' = [metrics EXCEPT ![field] = @ + 1]
DispatchFrame == UNCHANGED <<mainVars, g_shutdown, monitor, linkUp, accepted, refusedFull>>

DispatchTest ==
  /\ DAt("test")
  /\ IF running["bridge"] THEN dispatch' = "pop" /\ UNCHANGED thread
                          ELSE Exits("dispatch") /\ UNCHANGED dispatch
  /\ UNCHANGED <<polls, metrics, queue, unmapped>> /\ DispatchFrame

DispatchPop ==
  /\ DAt("pop") /\ Q!Pop("dispatch")
  /\ Count("received")
  /\ dispatch' = "await" /\ polls' = LinkPolls
  /\ UNCHANGED <<thread, unmapped>> /\ DispatchFrame

DispatchShutdown ==
  /\ DAt("pop") /\ Q!Finish("dispatch")
  /\ Exits("dispatch")
  /\ UNCHANGED <<dispatchVars, metrics, unmapped>> /\ DispatchFrame

PollsLeftOffByOne == polls >= 0
PollsLeft == polls > 0
PollsKept == polls
PollsAfter == polls - 1

(* Sleep and poll until the link is up or the polls are used; the link is   *)
(* then read once more.                                                     *)
AwaitLink ==
  /\ DAt("await")
  /\ IF ~linkUp /\ PollsLeft
       THEN polls' = PollsAfter /\ UNCHANGED dispatch
       ELSE dispatch' = "recheck" /\ UNCHANGED polls
  /\ UNCHANGED <<thread, metrics, queue, unmapped>> /\ DispatchFrame

DropMessageUncounted == UNCHANGED metrics
DropMessage == Count("dropped")

RecheckLink ==
  /\ DAt("recheck")
  /\ IF linkUp THEN dispatch' = "translate" /\ UNCHANGED metrics
               ELSE dispatch' = "test" /\ DropMessage
  /\ UNCHANGED <<thread, polls, queue, unmapped>> /\ DispatchFrame

(* mapper_translate finds no rule: the message is gone, in no metric.       *)
Translate ==
  /\ DAt("translate")
  /\ IF out["dispatch"] \in Mapped
       THEN dispatch' = "send" /\ UNCHANGED unmapped
       ELSE dispatch' = "test" /\ unmapped' = unmapped + 1
  /\ UNCHANGED <<thread, polls, metrics, queue>> /\ DispatchFrame

(* matter_client_send_command returns 0, or -1, as it may at any time.      *)
Send ==
  /\ DAt("send")
  /\ (linkUp /\ Count("sent")) \/ Count("errors")
  /\ dispatch' = "test"
  /\ UNCHANGED <<thread, polls, queue, unmapped>> /\ DispatchFrame

DispatchStep ==
  \/ DispatchTest \/ DispatchPop \/ DispatchShutdown \/ AwaitLink
  \/ RecheckLink \/ Translate \/ Send

Next ==
  \/ MainStep \/ SignalHandler \/ DispatchStep \/ MonitorStep \/ LinkChanges
  \/ \E t \in {"mqtt", "matter"} : ClientExits(t)
  \/ \E m \in Message : OnMessage(m)

(* Threads run, sleeps and mosquitto_loop return, and matter_client_run     *)
(* ends after a stop (MatterClient, StopEndsRun).  Nobody is obliged to     *)
(* send a signal or a message, or to keep the link up.                      *)
Fairness ==
  /\ WF_vars(MainStep) /\ WF_vars(DispatchStep) /\ WF_vars(MonitorStep)
  /\ \A t \in {"mqtt", "matter"} : WF_vars(ClientExits(t))

Spec == Init /\ [][Next]_vars /\ Fairness

-----------------------------------------------------------------------------
(* bridge_t, bridge_metrics_t, and the place of each thread.                *)
TypeOK ==
  /\ main \in {"init", "start", "loop", "stop", "stopQueue", "join", "destroy", "exited"}
  /\ k \in DOMAIN Order /\ exitCode \in {0, 1}
  /\ {g_shutdown, linkUp, closed} \subseteq BOOLEAN
  /\ running \in [{"bridge", "mqtt", "matter"} -> BOOLEAN]
  /\ thread \in [Threads -> {"none", "run", "exited"}]
  /\ dispatch \in {"test", "pop", "await", "recheck", "translate", "send"}
  /\ polls \in 0 .. LinkPolls
  /\ monitor \in {"test", "sleep"}
  /\ metrics \in [{"received", "sent", "dropped", "errors"} -> Nat]
  /\ fifo \in Seq(Message) /\ Len(fifo) <= Capacity
  /\ out \in [{"dispatch"} -> Message \cup {NoMsg}]
  /\ reply \in [{"mqtt", "dispatch"} -> {"none", "OK", "FULL", "SHUTDOWN"}]
  /\ {accepted, refusedFull, unmapped} \subseteq Nat

(* bridge_destroy releases the queue, the clients, the mapper and the       *)
(* logger only when no thread can use them any more (message_queue.h:38,    *)
(* bridge.c:243-252), also after a bridge_start that failed half way.       *)
NoThreadInDestroy ==
  main \in {"destroy", "exited"} => \A t \in Threads : thread[t] # "run"

(* No message vanishes between the queue and the metrics: each one that was *)
(* accepted is in the queue, or counted received; each one received is in   *)
(* hand, or sent, dropped, failed, or without a mapping (bridge.c:60-95).   *)
InHand == IF dispatch \in {"await", "recheck", "translate", "send"} THEN 1 ELSE 0
MessagesAccounted ==
  /\ accepted = Len(fifo) + metrics.received
  /\ metrics.received =
       metrics.sent + metrics.dropped + metrics.errors + unmapped + InHand

(* main is at the k-th of as many things as the place has: four threads to  *)
(* create or to join, three flags to clear (bridge.c:191-252).              *)
PlaceInRange ==
  /\ main = "stop" => k \in DOMAIN Flags
  /\ main \notin {"start", "stop", "join"} => k = 1

(* No thread is created twice, and those behind main in bridge_destroy will *)
(* not run again (bridge.c:191-211, 243-247).                               *)
ThreadsInOrder ==
  /\ main = "init" => \A i \in DOMAIN Order : thread[Order[i]] = "none"
  /\ main = "start" => \A i \in k .. Len(Order) : thread[Order[i]] = "none"
  /\ main = "join" => \A i \in 1 .. k - 1 : thread[Order[i]] # "run"

(* The message the dispatch thread translates and sends is one that was     *)
(* popped, never the buffer's first content (bridge.c:48-60).               *)
HandHoldsMessage == InHand = 1 => out["dispatch"] \in Message

(* Only a message that a rule translates gets as far as                     *)
(* matter_client_send_command (bridge.c:76-83).                             *)
SendsMapped == dispatch = "send" => out["dispatch"] \in Mapped

(* bridge_stop clears the flags in their order, the dispatcher's first, and *)
(* closes the queue when all are cleared (bridge.c:230-234).                *)
FlagsInOrder ==
  /\ main = "stop" => \A i \in 1 .. k - 1 : ~running[Flags[i]]
  /\ main = "stopQueue" => \A i \in DOMAIN Flags : ~running[Flags[i]]

(* The inductive invariant.                                                 *)
IInv ==
  /\ TypeOK /\ MessagesAccounted /\ HandHoldsMessage /\ SendsMapped
  /\ FlagsInOrder /\ PlaceInRange /\ ThreadsInOrder /\ NoThreadInDestroy

(* Seen from outside, the four threads are one line of messages: the one in *)
(* hand is its head, and a stop is "last" while the dispatcher may still    *)
(* settle one message before it looks at bridge->running again.  So every   *)
(* behaviour of the daemon, in any interleaving, settles each message once, *)
(* in order, sends only what a rule maps and only over a link that is up,   *)
(* drops only while it is down, refuses only when full, and settles one     *)
(* message at most after bridge_stop (bridge.c:41-101, 225-235).            *)
Pending == IF InHand = 1 THEN <<out["dispatch"]>> \o fifo ELSE fifo
Tally == [accepted |-> accepted, refused |-> refusedFull, sent |-> metrics.sent,
          dropped |-> metrics.dropped, errors |-> metrics.errors, unmapped |-> unmapped]
Phase == IF running["bridge"] THEN "serving"
         ELSE IF dispatch = "test" THEN "done" ELSE "last"

F == INSTANCE Forwarder
       WITH pending <- Pending, tally <- Tally, connected <- linkUp,
            phase <- Phase, open <- ~closed
ImplementsForwarder == F!Spec

(* The dispatch thread settles every message it takes, one way or another,  *)
(* while the link stays down or comes and goes: it can not be held up by    *)
(* the Matter server (bridge.c:62-74).                                      *)
MessageIsSettled == dispatch = "await" ~> dispatch = "test"

(* After SIGINT or SIGTERM the daemon that came up exits, with the link and *)
(* the broker in any state and with messages waiting (main.c:50-59).        *)
GracefulExit == main = "loop" /\ g_shutdown ~> main = "exited"

(* bridge.h:53, main.c:42-46: bridge_destroy joins the threads, releases    *)
(* everything and main returns 1 when bridge_start fails.                   *)
FailedStartExits == main = "join" /\ exitCode = 1 ~> main = "exited"
=============================================================================
