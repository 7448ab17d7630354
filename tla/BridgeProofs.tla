---------------------------- MODULE BridgeProofs ----------------------------
(***************************************************************************)
(* The safety of the daemon's life for any queue, any number of polls of   *)
(* the link and any input.                                                 *)
(***************************************************************************)
EXTENDS Bridge, TLAPS

(* The two tables of bridge.c, with their lengths.                          *)
LEMMA OrderFacts ==
  /\ DOMAIN Order = 1 .. 4 /\ Len(Order) = 4
  /\ Threads = {"mqtt", "matter", "dispatch", "monitor"}
  /\ Order[1] = "mqtt" /\ Order[2] = "matter" /\ Order[3] = "dispatch" /\ Order[4] = "monitor"
<1>1. /\ DOMAIN Order = 1 .. 4 /\ Len(Order) = 4
      /\ Order[1] = "mqtt" /\ Order[2] = "matter" /\ Order[3] = "dispatch" /\ Order[4] = "monitor"
  BY DEF Order
<1>2. Threads = {Order[i] : i \in 1 .. 4}
  BY <1>1 DEF Threads
<1>3. Threads = {"mqtt", "matter", "dispatch", "monitor"}
  BY <1>1, <1>2
<1> QED  BY <1>1, <1>3

LEMMA FlagsFacts ==
  /\ DOMAIN Flags = 1 .. 3 /\ Len(Flags) = 3
  /\ Flags[1] = "bridge" /\ Flags[2] = "mqtt" /\ Flags[3] = "matter"
  /\ \A i \in 1 .. 3 : Flags[i] \in {"bridge", "mqtt", "matter"}
BY DEF Flags

LEMMA InitIInv == Init => IInv
<1> SUFFICES ASSUME Init PROVE IInv
  OBVIOUS
<1> USE OrderFacts, FlagsFacts, BoundAssumption DEF Init, Q!Init
<1>1. TypeOK
  <2>1. fifo \in Seq(Message) /\ Len(fifo) = 0 /\ Len(fifo) <= Capacity
    OBVIOUS
  <2>2. metrics \in [{"received", "sent", "dropped", "errors"} -> Nat]
    OBVIOUS
  <2>3. /\ running \in [{"bridge", "mqtt", "matter"} -> BOOLEAN]
        /\ thread \in [Threads -> {"none", "run", "exited"}]
        /\ out \in [{"dispatch"} -> Message \cup {NoMsg}]
        /\ reply \in [{"mqtt", "dispatch"} -> {"none", "OK", "FULL", "SHUTDOWN"}]
    OBVIOUS
  <2>4. k \in DOMAIN Order /\ polls \in 0 .. LinkPolls
    OBVIOUS
  <2>5. {g_shutdown, linkUp, closed} \subseteq BOOLEAN
    OBVIOUS
  <2>6. {accepted, refusedFull, unmapped} \subseteq Nat
    OBVIOUS
  <2>7. main = "init" /\ exitCode = 0 /\ dispatch = "test" /\ monitor = "test"
    OBVIOUS
  <2> HIDE DEF Init, Q!Init
  <2> QED  BY <2>1, <2>2, <2>3, <2>4, <2>5, <2>6, <2>7 DEF TypeOK
<1>2. MessagesAccounted /\ HandHoldsMessage /\ SendsMapped
  BY DEF MessagesAccounted, HandHoldsMessage, SendsMapped, InHand
<1>3. FlagsInOrder /\ PlaceInRange /\ ThreadsInOrder /\ NoThreadInDestroy
  BY DEF FlagsInOrder, PlaceInRange, ThreadsInOrder, NoThreadInDestroy
<1> QED  BY <1>1, <1>2, <1>3 DEF IInv

-----------------------------------------------------------------------------
(* What a group of steps leaves alone.                                      *)

(* The account of the messages, and the one in hand.                        *)
MessageVars == <<dispatchVars, metrics, queue, history>>
(* What the parts about main and the threads are about.                     *)
LifeVars == <<main, k, running, thread>>

MessagePart == MessagesAccounted /\ HandHoldsMessage /\ SendsMapped
LifePart == FlagsInOrder /\ PlaceInRange /\ ThreadsInOrder /\ NoThreadInDestroy

LEMMA MessageFrame == MessagePart /\ UNCHANGED MessageVars => MessagePart'
BY DEF MessagePart, MessageVars, MessagesAccounted, HandHoldsMessage, SendsMapped, InHand,
       dispatchVars, queue, history

LEMMA LifeFrame == LifePart /\ UNCHANGED LifeVars => LifePart'
BY DEF LifePart, LifeVars, FlagsInOrder, PlaceInRange, ThreadsInOrder, NoThreadInDestroy

(* A thread that runs may end at any moment of main.                        *)
LEMMA ExitKeepsLife ==
  ASSUME TypeOK, LifePart, NEW t \in Threads, Exits(t), UNCHANGED <<main, k, running>>
  PROVE  LifePart'
BY OrderFacts, FlagsFacts
   DEF TypeOK, LifePart, Exits, FlagsInOrder, PlaceInRange, ThreadsInOrder, NoThreadInDestroy

-----------------------------------------------------------------------------
(* main.                                                                    *)

LEMMA MainType ==
  ASSUME IInv, MainStep
  PROVE  TypeOK'
<1> USE OrderFacts, FlagsFacts DEF IInv, TypeOK, PlaceInRange, Goto, Each, OthersUnchanged,
        dispatchVars, queue, history
<1>1. CASE InitBridge   BY <1>1 DEF InitBridge
<1>2. CASE CreateThread BY <1>2 DEF CreateThread
<1>3. CASE CreateFails  BY <1>3 DEF CreateFails
<1>4. CASE MainLoop     BY <1>4 DEF MainLoop
<1>5. CASE StopFlag     BY <1>5 DEF StopFlag
<1>6. CASE StopQueue    BY <1>6 DEF StopQueue, SignalQueue, Q!Close
<1>7. CASE Join         BY <1>7 DEF Join
<1>8. CASE Destroy      BY <1>8 DEF Destroy
<1> QED  BY <1>1, <1>2, <1>3, <1>4, <1>5, <1>6, <1>7, <1>8 DEF MainStep

LEMMA MainMessages ==
  ASSUME IInv, MainStep
  PROVE  MessagePart'
<1> USE DEF OthersUnchanged, dispatchVars, queue, history
<1>1. /\ UNCHANGED <<dispatchVars, metrics, fifo, out, history>>
  BY DEF MainStep, InitBridge, CreateThread, CreateFails, MainLoop, StopFlag, StopQueue,
         Join, Destroy, SignalQueue, Q!Close
<1> QED  BY <1>1 DEF IInv, MessagePart, MessagesAccounted, HandHoldsMessage, SendsMapped, InHand

(* The k-th thread is created once, and joined before main goes on.         *)
LEMMA MainLife ==
  ASSUME IInv, MainStep
  PROVE  LifePart'
<1> USE OrderFacts, FlagsFacts DEF IInv, TypeOK, LifePart, FlagsInOrder, PlaceInRange, ThreadsInOrder,
        NoThreadInDestroy, Goto, Each
<1>1. CASE InitBridge   BY <1>1 DEF InitBridge
<1>2. CASE CreateThread
  <2>1. \A i \in 1 .. 4 : i # k => thread'[Order[i]] = thread[Order[i]]
    BY <1>2 DEF CreateThread
  <2> QED  BY <1>2, <2>1 DEF CreateThread
<1>3. CASE CreateFails  BY <1>3 DEF CreateFails
<1>4. CASE MainLoop     BY <1>4 DEF MainLoop
<1>5. CASE StopFlag     BY <1>5 DEF StopFlag
<1>6. CASE StopQueue    BY <1>6 DEF StopQueue
<1>7. CASE Join
  <2>1. thread' = thread /\ thread[Order[k]] # "run" /\ main = "join"
    BY <1>7 DEF Join, Joined
  <2>2. \A i \in 1 .. k : thread[Order[i]] # "run"
    BY <2>1
  <2>3. CASE k = 4
    BY <1>7, <2>1, <2>2, <2>3 DEF Join
  <2>4. CASE k # 4
    BY <1>7, <2>1, <2>2, <2>4 DEF Join
  <2> QED  BY <2>3, <2>4
<1>8. CASE Destroy      BY <1>8 DEF Destroy
<1> QED  BY <1>1, <1>2, <1>3, <1>4, <1>5, <1>6, <1>7, <1>8 DEF MainStep

LEMMA MainPreserves == IInv /\ MainStep => IInv'
BY MainType, MainMessages, MainLife DEF IInv, MessagePart, LifePart

-----------------------------------------------------------------------------
(* The threads around the dispatch thread.                                  *)

LEMMA OnMessagePreserves ==
  ASSUME IInv, NEW m \in Message, OnMessage(m)
  PROVE  IInv'
<1> USE DEF OnMessage, mainVars, dispatchVars
<1>1. LifePart'
  BY LifeFrame DEF IInv, LifePart, LifeVars
<1>2. CASE Q!Push("mqtt", m) /\ accepted' = accepted + 1 /\ UNCHANGED refusedFull
  <2>1. fifo' \in Seq(Message) /\ Len(fifo') = Len(fifo) + 1 /\ Len(fifo') <= Capacity
    BY <1>2, BoundAssumption DEF Q!Push, IInv, TypeOK
  <2>2. TypeOK'
    BY <1>2, <2>1 DEF Q!Push, IInv, TypeOK
  <2>3. MessagePart'
    BY <1>2, <2>1 DEF Q!Push, IInv, TypeOK, MessagePart, MessagesAccounted,
       HandHoldsMessage, SendsMapped, InHand
  <2> QED  BY <1>1, <2>2, <2>3 DEF IInv, LifePart, MessagePart
<1>3. CASE /\ Q!Refuse("mqtt") /\ UNCHANGED accepted
           /\ refusedFull' = IF closed THEN refusedFull ELSE refusedFull + 1
  <2>1. TypeOK'
    BY <1>3 DEF Q!Refuse, IInv, TypeOK
  <2>2. MessagePart'
    BY <1>3 DEF Q!Refuse, IInv, MessagePart, MessagesAccounted, HandHoldsMessage, SendsMapped, InHand
  <2> QED  BY <1>1, <2>1, <2>2 DEF IInv, LifePart, MessagePart
<1> QED  BY <1>2, <1>3

LEMMA ClientPreserves ==
  ASSUME IInv, NEW t \in {"mqtt", "matter"}, ClientExits(t)
  PROVE  IInv'
<1> USE DEF ClientExits, mainVars, OthersUnchanged
<1>1. LifePart'
  BY ExitKeepsLife, OrderFacts DEF IInv, LifePart
<1>2. MessagePart'
  BY MessageFrame DEF IInv, MessagePart, MessageVars
<1>3. TypeOK'
  BY OrderFacts DEF IInv, TypeOK, Exits, dispatchVars, queue, history
<1> QED  BY <1>1, <1>2, <1>3 DEF IInv, LifePart, MessagePart

LEMMA MonitorPreserves ==
  ASSUME IInv, MonitorStep
  PROVE  IInv'
<1> USE DEF MonitorStep, mainVars
<1>1. LifePart'
  BY ExitKeepsLife, LifeFrame, OrderFacts DEF IInv, LifePart, LifeVars
<1>2. MessagePart'
  BY MessageFrame DEF IInv, MessagePart, MessageVars
<1>3. TypeOK'
  BY OrderFacts DEF IInv, TypeOK, Exits, dispatchVars, queue, history
<1> QED  BY <1>1, <1>2, <1>3 DEF IInv, LifePart, MessagePart

LEMMA EnvironmentPreserves ==
  ASSUME IInv, SignalHandler \/ LinkChanges \/ UNCHANGED vars
  PROVE  IInv'
<1> USE DEF SignalHandler, LinkChanges, vars, mainVars, OthersUnchanged
<1>1. LifePart'
  BY LifeFrame DEF IInv, LifePart, LifeVars
<1>2. MessagePart'
  BY MessageFrame DEF IInv, MessagePart, MessageVars
<1>3. TypeOK'
  BY DEF IInv, TypeOK, dispatchVars, queue, history
<1> QED  BY <1>1, <1>2, <1>3 DEF IInv, LifePart, MessagePart

-----------------------------------------------------------------------------
(* The dispatch thread.                                                     *)

LEMMA DispatchType ==
  ASSUME IInv, DispatchStep
  PROVE  TypeOK'
<1> USE OrderFacts, BoundAssumption
    DEF IInv, TypeOK, DAt, Count, Exits, DispatchFrame, mainVars, dispatchVars, queue, history
<1>1. CASE DispatchTest     BY <1>1 DEF DispatchTest
<1>2. CASE DispatchPop
  <2>1. /\ fifo' \in Seq(Message) /\ Len(fifo') <= Capacity
        /\ out' \in [{"dispatch"} -> Message \cup {NoMsg}]
    BY <1>2 DEF DispatchPop, Q!Pop
  <2>2. metrics' \in [{"received", "sent", "dropped", "errors"} -> Nat]
    BY <1>2 DEF DispatchPop
  <2>3. reply' \in [{"mqtt", "dispatch"} -> {"none", "OK", "FULL", "SHUTDOWN"}]
    BY <1>2 DEF DispatchPop, Q!Pop
  <2>4. dispatch' = "await" /\ polls' = LinkPolls
        /\ UNCHANGED <<main, k, exitCode, running, g_shutdown, thread, monitor, linkUp,
                       closed, accepted, refusedFull, unmapped>>
    BY <1>2 DEF DispatchPop, Q!Pop
  <2> QED  BY <2>1, <2>2, <2>3, <2>4
<1>3. CASE DispatchShutdown BY <1>3 DEF DispatchShutdown, Q!Finish
<1>4. CASE AwaitLink        BY <1>4 DEF AwaitLink, PollsLeft, PollsAfter
<1>5. CASE RecheckLink
  <2>1. metrics' \in [{"received", "sent", "dropped", "errors"} -> Nat]
    BY <1>5 DEF RecheckLink, DropMessage
  <2> QED  BY <1>5, <2>1 DEF RecheckLink
<1>6. CASE Translate        BY <1>6 DEF Translate
<1>7. CASE Send
  <2>1. metrics' \in [{"received", "sent", "dropped", "errors"} -> Nat]
    BY <1>7 DEF Send
  <2> QED  BY <1>7, <2>1 DEF Send
<1> QED  BY <1>1, <1>2, <1>3, <1>4, <1>5, <1>6, <1>7 DEF DispatchStep

(* A message changes hands, and each time one counter goes up with it.      *)
LEMMA DispatchMessages ==
  ASSUME IInv, DispatchStep
  PROVE  MessagePart'
<1> USE DEF IInv, TypeOK, MessagePart, MessagesAccounted, HandHoldsMessage, SendsMapped, InHand,
            DAt, Count, DispatchFrame, dispatchVars, queue, history
<1>1. CASE DispatchTest     BY <1>1 DEF DispatchTest
<1>2. CASE DispatchPop
  <2>1. /\ Len(fifo) = Len(fifo') + 1 /\ Len(fifo') \in Nat
        /\ out'["dispatch"] \in Message
    BY <1>2 DEF DispatchPop, Q!Pop
  <2> QED  BY <1>2, <2>1 DEF DispatchPop, Q!Pop
<1>3. CASE DispatchShutdown BY <1>3 DEF DispatchShutdown, Q!Finish
<1>4. CASE AwaitLink        BY <1>4 DEF AwaitLink
<1>5. CASE RecheckLink
  <2>1. CASE linkUp   BY <1>5, <2>1 DEF RecheckLink
  <2>2. CASE ~linkUp
    <3>1. /\ metrics'.dropped = metrics.dropped + 1
          /\ UNCHANGED <<metrics.received, metrics.sent, metrics.errors>>
      BY <1>5, <2>2 DEF RecheckLink, DropMessage
    <3> QED  BY <1>5, <2>2, <3>1 DEF RecheckLink
  <2> QED  BY <2>1, <2>2
<1>6. CASE Translate
  <2>1. CASE out["dispatch"] \in Mapped  BY <1>6, <2>1 DEF Translate
  <2>2. CASE out["dispatch"] \notin Mapped
    <3>1. unmapped' = unmapped + 1 /\ dispatch' = "test" /\ UNCHANGED <<accepted, fifo, metrics>>
      BY <1>6, <2>2 DEF Translate
    <3> QED  BY <1>6, <3>1 DEF Translate
  <2> QED  BY <2>1, <2>2
<1>7. CASE Send
  <2>1. CASE linkUp /\ Count("sent")
    <3>1. /\ metrics'.sent = metrics.sent + 1
          /\ UNCHANGED <<metrics.received, metrics.dropped, metrics.errors>>
      BY <1>7, <2>1 DEF Send
    <3> QED  BY <1>7, <3>1 DEF Send
  <2>2. CASE Count("errors")
    <3>1. /\ metrics'.errors = metrics.errors + 1
          /\ UNCHANGED <<metrics.received, metrics.dropped, metrics.sent>>
      BY <1>7, <2>2 DEF Send
    <3> QED  BY <1>7, <3>1 DEF Send
  <2> QED  BY <1>7, <2>1, <2>2 DEF Send
<1> QED  BY <1>1, <1>2, <1>3, <1>4, <1>5, <1>6, <1>7 DEF DispatchStep

LEMMA DispatchLife ==
  ASSUME IInv, DispatchStep
  PROVE  LifePart'
<1>1. UNCHANGED <<main, k, running>>
  BY DEF DispatchStep, DispatchTest, DispatchPop, DispatchShutdown, AwaitLink, RecheckLink,
         Translate, Send, DispatchFrame, mainVars
<1>2. UNCHANGED thread \/ Exits("dispatch")
  BY DEF DispatchStep, DispatchTest, DispatchPop, DispatchShutdown, AwaitLink, RecheckLink,
         Translate, Send
<1> QED  BY <1>1, <1>2, ExitKeepsLife, LifeFrame, OrderFacts DEF IInv, LifePart, LifeVars

LEMMA DispatchPreserves == IInv /\ DispatchStep => IInv'
BY DispatchType, DispatchMessages, DispatchLife DEF IInv, MessagePart, LifePart

-----------------------------------------------------------------------------
LEMMA StepPreserves == IInv /\ [Next]_vars => IInv'
BY MainPreserves, DispatchPreserves, OnMessagePreserves, ClientPreserves,
   MonitorPreserves, EnvironmentPreserves DEF Next

(* The inductive invariant of the daemon: its threads, its places and its   *)
(* account of messages stay in order for any queue and any input.           *)
THEOREM Invariance == Spec => []IInv
BY InitIInv, StepPreserves, PTL DEF Spec

(* bridge_destroy releases nothing a thread may still use, whichever thread *)
(* could not be created and whenever the signal came (bridge.c:243-252).    *)
THEOREM DestroyIsSafe == Spec => []NoThreadInDestroy
<1>1. IInv => NoThreadInDestroy  BY DEF IInv
<1> QED  BY <1>1, Invariance, PTL

(* No message vanishes between on_message and the metrics, whatever the     *)
(* link does and whenever the daemon is stopped (bridge.c:60-95).           *)
THEOREM NothingVanishes == Spec => []MessagesAccounted
<1>1. IInv => MessagesAccounted  BY DEF IInv
<1> QED  BY <1>1, Invariance, PTL

-----------------------------------------------------------------------------
(* The daemon as one line of messages.                                      *)

(* A message in front of a line, and what happens at the two ends.          *)
LEMMA InFront ==
  ASSUME NEW s \in Seq(Message), NEW h \in Message
  PROVE  /\ <<h>> \o s \in Seq(Message) /\ <<h>> \o s # <<>>
         /\ Len(<<h>> \o s) = Len(s) + 1
         /\ Head(<<h>> \o s) = h /\ Tail(<<h>> \o s) = s
         /\ \A m \in Message : <<h>> \o Append(s, m) = Append(<<h>> \o s, m)
<1>1. /\ <<h>> \o s \in Seq(Message) /\ Len(<<h>> \o s) = Len(s) + 1
      /\ \A i \in 1 .. Len(s) + 1 : (<<h>> \o s)[i] = IF i = 1 THEN h ELSE s[i - 1]
  OBVIOUS
<1>2. <<h>> \o s # <<>> /\ Head(<<h>> \o s) = h
  BY <1>1
<1>3. Tail(<<h>> \o s) = s
  <2>1. Tail(<<h>> \o s) \in Seq(Message) /\ Len(Tail(<<h>> \o s)) = Len(s)
    BY <1>1, <1>2
  <2>2. \A i \in 1 .. Len(s) : Tail(<<h>> \o s)[i] = s[i]
    BY <1>1, <1>2
  <2> QED  BY <2>1, <2>2
<1>4. ASSUME NEW m \in Message PROVE <<h>> \o Append(s, m) = Append(<<h>> \o s, m)
  <2>1. /\ <<h>> \o Append(s, m) \in Seq(Message) /\ Append(<<h>> \o s, m) \in Seq(Message)
        /\ Len(<<h>> \o Append(s, m)) = Len(s) + 2 /\ Len(Append(<<h>> \o s, m)) = Len(s) + 2
    BY <1>1
  <2>2. \A i \in 1 .. Len(s) + 2 : (<<h>> \o Append(s, m))[i] = Append(<<h>> \o s, m)[i]
    BY <1>1
  <2> QED  BY <2>1, <2>2
<1> QED  BY <1>1, <1>2, <1>3, <1>4

LEMMA PopKeepsLine ==
  ASSUME NEW s \in Seq(Message), s # <<>>
  PROVE  Head(s) \in Message /\ Tail(s) \in Seq(Message) /\ <<Head(s)>> \o Tail(s) = s
<1>1. Head(s) \in Message /\ Tail(s) \in Seq(Message) /\ Len(Tail(s)) + 1 = Len(s)
  OBVIOUS
<1>2. /\ <<Head(s)>> \o Tail(s) \in Seq(Message) /\ Len(<<Head(s)>> \o Tail(s)) = Len(s)
      /\ \A i \in 1 .. Len(s) : (<<Head(s)>> \o Tail(s))[i] = s[i]
  BY <1>1
<1> QED  BY <1>1, <1>2

(* What a step that only moves a thread leaves of the line.                 *)
LineVars == <<Pending, Tally, linkUp, Phase, closed>>

LEMMA StillStutters == UNCHANGED LineVars => UNCHANGED F!vars
BY DEF LineVars, F!vars

LEMMA TallyFacts ==
  /\ UNCHANGED <<accepted, refusedFull, metrics, unmapped>> => UNCHANGED Tally
  /\ UNCHANGED <<running, dispatch>> => UNCHANGED Phase
  /\ UNCHANGED <<dispatch, out, fifo>> => UNCHANGED Pending
BY DEF Tally, Phase, Pending, InHand

(* A counter that goes up is the fate of one message.                       *)
LEMMA CountAdds ==
  ASSUME TypeOK, NEW f \in {"sent", "dropped", "errors"}, Count(f),
         UNCHANGED <<accepted, refusedFull, unmapped>>
  PROVE  F!Add(f)
<1>1. /\ metrics'[f] = metrics[f] + 1
      /\ \A g \in {"received", "sent", "dropped", "errors"} : g # f => metrics'[g] = metrics[g]
  BY DEF TypeOK, Count
<1>2. CASE f = "sent"     BY <1>1, <1>2 DEF F!Add, Tally
<1>3. CASE f = "dropped"  BY <1>1, <1>3 DEF F!Add, Tally
<1>4. CASE f = "errors"   BY <1>1, <1>4 DEF F!Add, Tally
<1> QED  BY <1>2, <1>3, <1>4

LEMMA HistoryAdds ==
  ASSUME UNCHANGED metrics
  PROVE  /\ accepted' = accepted + 1 /\ UNCHANGED <<refusedFull, unmapped>> => F!Add("accepted")
         /\ refusedFull' = refusedFull + 1 /\ UNCHANGED <<accepted, unmapped>> => F!Add("refused")
         /\ unmapped' = unmapped + 1 /\ UNCHANGED <<accepted, refusedFull>> => F!Add("unmapped")
<1>1. ASSUME accepted' = accepted + 1, UNCHANGED <<refusedFull, unmapped>>
      PROVE  F!Add("accepted")
  BY <1>1 DEF F!Add, Tally
<1>2. ASSUME refusedFull' = refusedFull + 1, UNCHANGED <<accepted, unmapped>>
      PROVE  F!Add("refused")
  BY <1>2 DEF F!Add, Tally
<1>3. ASSUME unmapped' = unmapped + 1, UNCHANGED <<accepted, refusedFull>>
      PROVE  F!Add("unmapped")
  BY <1>3 DEF F!Add, Tally
<1> QED  BY <1>1, <1>2, <1>3

(* Received is no fate: the message is still in the line.                   *)
LEMMA ReceivedAddsNothing ==
  ASSUME TypeOK, Count("received"), UNCHANGED <<accepted, refusedFull, unmapped>>
  PROVE  UNCHANGED Tally
<1>1. \A g \in {"sent", "dropped", "errors"} : metrics'[g] = metrics[g]
  BY DEF TypeOK, Count
<1> QED  BY <1>1 DEF Tally

(* The message in hand is the head of the line, and letting go of it at the *)
(* loop's test is what Settle says.                                         *)
LEMMA LetGo ==
  ASSUME IInv, InHand = 1, dispatch' = "test", UNCHANGED <<fifo, running, linkUp, closed>>,
         NEW f, F!Add(f), NEW M, out["dispatch"] \in M
  PROVE  F!Settle(f, M)
<1>1. out["dispatch"] \in Message /\ fifo \in Seq(Message)
  BY DEF IInv, HandHoldsMessage, TypeOK
<1>2. Pending # <<>> /\ Head(Pending) = out["dispatch"] /\ Tail(Pending) = fifo
  BY <1>1, InFront DEF Pending
<1>3. Pending' = fifo
  BY DEF Pending, InHand
<1>4. Phase # "done" /\ Phase' = IF Phase = "serving" THEN "serving" ELSE "done"
  BY DEF Phase, InHand
<1> QED  BY <1>2, <1>3, <1>4 DEF F!Settle

-----------------------------------------------------------------------------
(* One step of the daemon is one step of the line, or none.                 *)

LEMMA OnMessageMaps ==
  ASSUME IInv, NEW m \in Message, OnMessage(m)
  PROVE  [F!Next]_(F!vars)
<1> DEFINE hand == out["dispatch"]
<1>1. /\ UNCHANGED <<running, dispatch, linkUp, metrics, unmapped, out>>
      /\ UNCHANGED <<InHand, Phase>>
  BY DEF OnMessage, mainVars, dispatchVars, Q!Push, Q!Refuse, Phase, InHand
<1>2. fifo \in Seq(Message) /\ Capacity \in Nat /\ InHand \in {0, 1}
  BY BoundAssumption DEF IInv, TypeOK, InHand
<1>3. InHand = 1 => hand \in Message
  BY DEF IInv, HandHoldsMessage
<1>4. Len(Pending) = Len(fifo) + InHand
  BY <1>2, <1>3, InFront DEF Pending
<1>5. CASE Q!Push("mqtt", m) /\ accepted' = accepted + 1 /\ UNCHANGED refusedFull
  <2>1. fifo' = Append(fifo, m) /\ Len(fifo) < Capacity /\ ~closed /\ closed' = closed
    BY <1>5 DEF Q!Push
  <2>2. Pending' = Append(Pending, m)
    BY <1>1, <1>2, <1>3, <2>1, InFront DEF Pending
  <2>3. F!Add("accepted")
    BY <1>1, <1>5, HistoryAdds
  <2>4. Len(Pending) <= Capacity
    BY <1>2, <1>4, <2>1
  <2> QED  BY <1>1, <2>1, <2>2, <2>3, <2>4 DEF F!Next, F!Accept
<1>6. CASE /\ Q!Refuse("mqtt") /\ UNCHANGED accepted
           /\ refusedFull' = IF closed THEN refusedFull ELSE refusedFull + 1
  <2>1. UNCHANGED <<fifo, closed>> /\ (closed \/ Len(fifo) = Capacity)
    BY <1>6 DEF Q!Refuse
  <2>2. UNCHANGED Pending
    BY <1>1, <2>1 DEF Pending
  <2>3. CASE closed
    BY <1>1, <1>6, <2>1, <2>2, <2>3, TallyFacts, StillStutters DEF LineVars
  <2>4. CASE ~closed
    <3>1. F!Add("refused")
      BY <1>1, <1>6, <2>4, HistoryAdds
    <3>2. Len(Pending) >= Capacity
      BY <1>2, <1>4, <2>1, <2>4
    <3> QED  BY <1>1, <2>1, <2>2, <2>4, <3>1, <3>2 DEF F!Next, F!Refuse
  <2> QED  BY <2>3, <2>4
<1> QED  BY <1>5, <1>6 DEF OnMessage

LEMMA DispatchMaps ==
  ASSUME IInv, DispatchStep
  PROVE  [F!Next]_(F!vars)
<1> USE DEF DAt, DispatchFrame, mainVars, dispatchVars
<1>1. UNCHANGED <<running, linkUp, accepted, refusedFull>>
  BY DEF DispatchStep, DispatchTest, DispatchPop, DispatchShutdown, AwaitLink, RecheckLink,
         Translate, Send
<1>2. TypeOK /\ (InHand = 1 => out["dispatch"] \in Message)
  BY DEF IInv, HandHoldsMessage
<1>3. CASE DispatchTest
  <2>1. UNCHANGED <<Pending, Phase, Tally, closed>>
    BY <1>1, <1>3 DEF DispatchTest, queue, Pending, Phase, Tally, InHand
  <2> QED  BY <1>1, <2>1, StillStutters DEF LineVars
<1>4. CASE DispatchPop
  <2>1. /\ fifo # <<>> /\ out'["dispatch"] = Head(fifo) /\ fifo' = Tail(fifo)
        /\ dispatch = "pop" /\ dispatch' = "await" /\ UNCHANGED <<closed, unmapped>>
    BY <1>2, <1>4 DEF DispatchPop, Q!Pop, TypeOK
  <2>2. UNCHANGED Pending
    BY <1>2, <2>1, PopKeepsLine DEF Pending, InHand, TypeOK
  <2>3. UNCHANGED Tally
    BY <1>1, <1>2, <1>4, <2>1, ReceivedAddsNothing DEF DispatchPop
  <2>4. UNCHANGED Phase
    BY <1>1, <2>1 DEF Phase
  <2> QED  BY <1>1, <2>1, <2>2, <2>3, <2>4, StillStutters DEF LineVars
<1>5. CASE DispatchShutdown
  <2>1. UNCHANGED <<dispatch, out, fifo, closed, metrics, unmapped>>
    BY <1>5 DEF DispatchShutdown, Q!Finish
  <2> QED  BY <1>1, <2>1, TallyFacts, StillStutters DEF LineVars
<1>6. CASE AwaitLink
  <2>1. UNCHANGED <<Pending, Phase, Tally, closed>>
    BY <1>1, <1>6 DEF AwaitLink, queue, Pending, Phase, Tally, InHand
  <2> QED  BY <1>1, <2>1, StillStutters DEF LineVars
<1>7. CASE RecheckLink
  <2>1. InHand = 1 /\ UNCHANGED <<fifo, out, closed, unmapped>>
    BY <1>7 DEF RecheckLink, InHand, queue
  <2>2. CASE linkUp
    <3>1. UNCHANGED <<Pending, Phase, Tally>>
      BY <1>1, <1>7, <2>1, <2>2 DEF RecheckLink, Pending, Phase, Tally, InHand
    <3> QED  BY <1>1, <2>1, <3>1, StillStutters DEF LineVars
  <2>3. CASE ~linkUp
    <3>1. dispatch' = "test" /\ F!Add("dropped")
      BY <1>1, <1>2, <1>7, <2>1, <2>3, CountAdds DEF RecheckLink, DropMessage
    <3>2. F!Settle("dropped", Message)
      BY <1>1, <1>2, <2>1, <3>1, LetGo
    <3> QED  BY <2>3, <3>2 DEF F!Next, F!Drop
  <2> QED  BY <2>2, <2>3
<1>8. CASE Translate
  <2>1. InHand = 1 /\ UNCHANGED <<fifo, out, closed, metrics>>
    BY <1>8 DEF Translate, InHand, queue
  <2>2. CASE out["dispatch"] \in Mapped
    <3>1. UNCHANGED <<Pending, Phase, Tally>>
      BY <1>1, <1>8, <2>1, <2>2 DEF Translate, Pending, Phase, Tally, InHand
    <3> QED  BY <1>1, <2>1, <3>1, StillStutters DEF LineVars
  <2>3. CASE out["dispatch"] \notin Mapped
    <3>1. dispatch' = "test" /\ F!Add("unmapped")
      BY <1>1, <1>8, <2>1, <2>3, HistoryAdds DEF Translate
    <3>2. F!Settle("unmapped", Message \ Mapped)
      BY <1>1, <1>2, <2>1, <2>3, <3>1, LetGo
    <3> QED  BY <3>2 DEF F!Next, F!Ignore
  <2> QED  BY <2>2, <2>3
<1>9. CASE Send
  <2>1. InHand = 1 /\ dispatch' = "test" /\ UNCHANGED <<fifo, out, closed, unmapped>>
    BY <1>9 DEF Send, InHand, queue
  <2>2. out["dispatch"] \in Mapped
    BY <1>9 DEF Send, IInv, SendsMapped
  <2>3. CASE linkUp /\ Count("sent")
    <3>1. F!Settle("sent", Mapped)
      BY <1>1, <1>2, <2>1, <2>2, <2>3, CountAdds, LetGo
    <3> QED  BY <2>3, <3>1 DEF F!Next, F!Forward
  <2>4. CASE Count("errors")
    <3>1. F!Settle("errors", Mapped)
      BY <1>1, <1>2, <2>1, <2>2, <2>4, CountAdds, LetGo
    <3> QED  BY <3>1 DEF F!Next, F!Fail
  <2> QED  BY <1>9, <2>3, <2>4 DEF Send
<1> QED  BY <1>3, <1>4, <1>5, <1>6, <1>7, <1>8, <1>9 DEF DispatchStep

(* bridge_stop: the first flag is the stop, the queue closes behind it.     *)
LEMMA MainMaps ==
  ASSUME IInv, MainStep
  PROVE  [F!Next]_(F!vars)
<1> USE DEF OthersUnchanged, dispatchVars, history, queue
<1>1. UNCHANGED <<dispatch, out, fifo, accepted, refusedFull, metrics, unmapped, linkUp>>
  BY DEF MainStep, InitBridge, CreateThread, CreateFails, MainLoop, StopFlag, StopQueue,
         Join, Destroy, SignalQueue, Q!Close
<1>2. UNCHANGED <<Pending, Tally>>
  BY <1>1, TallyFacts
<1>3. CASE StopFlag
  <2>1. UNCHANGED closed /\ running' = [running EXCEPT ![Flags[k]] = FALSE]
    BY <1>3 DEF StopFlag
  <2>2. running'["bridge"] = running["bridge"] \/ running'["bridge"] = FALSE
    BY <2>1 DEF IInv, TypeOK
  <2>3. running["bridge"] \in BOOLEAN
    BY DEF IInv, TypeOK
  <2>4. UNCHANGED Phase \/ (Phase = "serving" /\ Phase' \in {"last", "done"})
    BY <1>1, <2>2, <2>3 DEF Phase
  <2>5. CASE UNCHANGED Phase
    BY <1>1, <1>2, <2>1, <2>5, StillStutters DEF LineVars
  <2>6. CASE Phase = "serving" /\ Phase' \in {"last", "done"}
    BY <1>1, <1>2, <2>1, <2>6 DEF F!Next, F!Stop
  <2> QED  BY <2>4, <2>5, <2>6
<1>4. CASE StopQueue
  <2>1. closed' = TRUE /\ UNCHANGED running /\ main = "stopQueue"
    BY <1>4 DEF StopQueue, SignalQueue, Q!Close, Goto
  <2>2. ~running["bridge"]
    BY <2>1, FlagsFacts DEF IInv, FlagsInOrder
  <2>3. Phase # "serving" /\ UNCHANGED Phase
    BY <1>1, <2>1, <2>2 DEF Phase
  <2> QED  BY <1>1, <1>2, <2>1, <2>3 DEF F!Next, F!Close
<1>5. CASE InitBridge \/ CreateThread \/ CreateFails \/ MainLoop \/ Join \/ Destroy
  <2>1. UNCHANGED <<running, closed>>
    BY <1>5 DEF InitBridge, CreateThread, CreateFails, MainLoop, Join, Destroy
  <2> QED  BY <1>1, <1>2, <2>1, TallyFacts, StillStutters DEF LineVars
<1> QED  BY <1>3, <1>4, <1>5 DEF MainStep

LEMMA OthersMap ==
  ASSUME SignalHandler \/ MonitorStep \/ LinkChanges \/ UNCHANGED vars
         \/ \E t \in {"mqtt", "matter"} : ClientExits(t)
  PROVE  [F!Next]_(F!vars)
<1> USE DEF mainVars, dispatchVars, queue, history, OthersUnchanged
<1>1. /\ UNCHANGED <<running, dispatch, out, fifo, closed>>
      /\ UNCHANGED <<accepted, refusedFull, metrics, unmapped>>
  BY DEF SignalHandler, MonitorStep, LinkChanges, ClientExits, vars
<1>2. UNCHANGED <<Pending, Tally, Phase, closed>>
  BY <1>1, TallyFacts
<1>3. CASE LinkChanges
  BY <1>2, <1>3 DEF LinkChanges, F!Next, F!LinkChanges
<1>4. CASE SignalHandler \/ MonitorStep \/ UNCHANGED vars
           \/ \E t \in {"mqtt", "matter"} : ClientExits(t)
  <2>1. UNCHANGED linkUp
    BY <1>4 DEF SignalHandler, MonitorStep, ClientExits, vars
  <2> QED  BY <1>2, <2>1, StillStutters DEF LineVars
<1> QED  BY <1>3, <1>4

(* The daemon's four threads are the forwarder, for any messages, capacity  *)
(* and number of polls: each message is settled once and in order, and a    *)
(* stop lets one more through at most (bridge.c:41-101, 225-235).           *)
THEOREM Refinement == Spec => ImplementsForwarder
<1>1. Init => F!Init
  BY DEF Init, F!Init, F!Fates, Q!Init, Pending, Tally, Phase, InHand
<1>2. IInv /\ [Next]_vars => [F!Next]_(F!vars)
  BY OnMessageMaps, DispatchMaps, MainMaps, OthersMap DEF Next
<1>3. Spec => F!Spec
  BY <1>1, <1>2, Invariance, PTL DEF Spec, F!Spec
<1> QED  BY <1>3 DEF ImplementsForwarder
=============================================================================
