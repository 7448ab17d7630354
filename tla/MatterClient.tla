---------------------------- MODULE MatterClient ----------------------------
(***************************************************************************)
(* src/matter/matter_client.c: the WebSocket client of the Matter server.  *)
(* Two threads share one matter_client_t without a lock: the connection    *)
(* thread runs matter_client_run and, inside lws_service, the callbacks;   *)
(* the dispatch thread runs matter_client_send_command.  A function that   *)
(* touches shared fields more than once is one step per touch.             *)
(* A command is its message_id.                                            *)
(***************************************************************************)
EXTENDS Integers, Sequences, FiniteSets

CONSTANTS Wsi,           \* connection handles libwebsockets can hand out
          NoWsi,         \* NULL
          ConnectPolls,  \* lws_service calls per attempt, 50 in the code
          MaxId,         \* bound: message ids used in a behaviour
          WriteMayFail,  \* whether lws_write can return -1
          Torn,          \* a send_buf or a frame that is no one command
          Masked         \* a send_buf that lws_write has masked

ASSUME WsiAssumption == IsFiniteSet(Wsi) /\ NoWsi \notin Wsi
ASSUME BoundAssumption ==
  /\ ConnectPolls \in Nat
  /\ MaxId \in Nat
  /\ WriteMayFail \in BOOLEAN
  /\ Torn \notin Nat /\ Masked \notin Nat /\ Torn # Masked

VARIABLES
  state, ws, running,        \* matter_client_t
  msgId, sendBuf, sendPending,
  mpc, polls,                \* the connection thread: where it is, timeout left
  cb,                        \* its callback: step, wsi, what strlen saw
  dpc, cur,                  \* the dispatch thread: where it is, its message id
  sent,                      \* ids send_command returned 0 for
  crashed,                   \* a NULL wsi reached libwebsockets
  conn, wantWrite, wire      \* libwebsockets: handles, requests, frames written

vars == <<state, ws, running, msgId, sendBuf, sendPending, mpc, polls, cb,
          dpc, cur, sent, crashed, conn, wantWrite, wire>>

Ids == 1 .. MaxId
OpenWsi == {h \in Wsi : conn[h] = "open"}
NoCallback == [step |-> "none", wsi |-> NoWsi, len |-> 0]

Init ==
  /\ state = "DISCONNECTED" /\ ws = NoWsi /\ running = TRUE
  /\ msgId = 1 /\ sendBuf = 0 /\ sendPending = FALSE
  /\ mpc = "top" /\ polls = 0 /\ cb = NoCallback
  /\ dpc = "idle" /\ cur = 0 /\ sent = {} /\ crashed = FALSE
  /\ conn = [h \in Wsi |-> "free"]
  /\ wantWrite = [h \in Wsi |-> FALSE]
  /\ wire = <<>>

(* What matter_client_run, the callbacks and send_command leave alone.      *)
RunFrame == UNCHANGED <<ws, running, msgId, sendBuf, sendPending, cb, dpc, cur,
                        sent, crashed, wantWrite, wire>>
CallbackFrame == UNCHANGED <<running, msgId, mpc, polls, dpc, cur, sent, crashed>>
SendFrame == UNCHANGED <<state, ws, running, mpc, polls, cb, conn, wire>>

-----------------------------------------------------------------------------
(* matter_client_run.                                                       *)

At(pc) == ~crashed /\ mpc = pc
NeedsConnect == state \in {"DISCONNECTED", "RECONNECTING"}

Exit ==
  /\ At("top") /\ ~running
  /\ mpc' = "exited"
  /\ UNCHANGED <<state, polls, conn>> /\ RunFrame

(* do_connect: an attempt takes a handle, whatever older ones still do.     *)
Connect(h) ==
  /\ At("top") /\ running /\ NeedsConnect
  /\ conn[h] = "free"
  /\ conn' = [conn EXCEPT ![h] = "connecting"]
  /\ state' = "CONNECTING"
  /\ mpc' = "wait" /\ polls' = ConnectPolls
  /\ RunFrame

(* do_connect gets a NULL wsi: sleep, then the loop test.                   *)
ConnectFails ==
  /\ At("top") /\ running /\ NeedsConnect
  /\ state' = "RECONNECTING"
  /\ UNCHANGED <<mpc, polls, conn>> /\ RunFrame

PollsLeftOffByOne == polls >= 0
PollsLeft == polls > 0
PollsKept == polls
PollsAfter == polls - 1

Poll ==
  /\ At("wait") /\ state = "CONNECTING" /\ PollsLeft
  /\ polls' = PollsAfter
  /\ mpc' = "waitsvc"
  /\ UNCHANGED <<state, conn>> /\ RunFrame

AfterTimeoutUnmarked == state
AfterTimeout == "RECONNECTING"

(* Not connected when the wait ends: the attempt is given up, not closed.   *)
ConnectTimeout ==
  /\ At("wait") /\ state # "CONNECTED" /\ ~(state = "CONNECTING" /\ PollsLeft)
  /\ state' = AfterTimeout
  /\ mpc' = "top"
  /\ UNCHANGED <<polls, conn>> /\ RunFrame

EnterService ==
  /\ \/ At("wait") /\ state = "CONNECTED"
     \/ At("top") /\ running /\ ~NeedsConnect
  /\ mpc' = "svc"
  /\ UNCHANGED <<state, polls, conn>> /\ RunFrame

(* lws_service returns, after any number of callbacks.                      *)
ServiceReturns ==
  /\ cb = NoCallback
  /\ \/ At("waitsvc") /\ mpc' = "wait"
     \/ At("svc") /\ mpc' = "top"
  /\ UNCHANGED <<state, polls, conn>> /\ RunFrame

RunStep ==
  \/ Exit \/ ConnectFails \/ Poll \/ ConnectTimeout \/ EnterService
  \/ ServiceReturns
  \/ \E h \in Wsi : Connect(h)

-----------------------------------------------------------------------------
(* ws_callback.  None of the cases compares wsi with client->ws.            *)

CanCallBack == ~crashed /\ mpc \in {"waitsvc", "svc"} /\ cb = NoCallback
InCallback(step) == ~crashed /\ cb.step = step
GoOn(step, h, len) == cb' = [step |-> step, wsi |-> h, len |-> len]

Established(h) ==
  /\ CanCallBack /\ conn[h] = "connecting"
  /\ conn' = [conn EXCEPT ![h] = "open"]
  /\ state' = "CONNECTED"
  /\ GoOn("established", h, 0)
  /\ UNCHANGED <<ws, sendBuf, sendPending, wantWrite, wire>> /\ CallbackFrame

EstablishedWs ==
  /\ InCallback("established")
  /\ ws' = cb.wsi
  /\ cb' = NoCallback
  /\ UNCHANGED <<state, sendBuf, sendPending, conn, wantWrite, wire>> /\ CallbackFrame

(* CONNECTION_ERROR of an attempt, or CLOSED of an open connection.         *)
Lost(h) ==
  /\ CanCallBack /\ conn[h] \in {"connecting", "open"}
  /\ state' = "RECONNECTING"
  /\ GoOn("lost", h, 0)
  /\ UNCHANGED <<ws, sendBuf, sendPending, conn, wantWrite, wire>> /\ CallbackFrame

WsAfterLossKept == ws
WsAfterLoss == NoWsi

LostWs ==
  /\ InCallback("lost")
  /\ ws' = WsAfterLoss
  /\ conn' = [conn EXCEPT ![cb.wsi] = "free"]
  /\ wantWrite' = [wantWrite EXCEPT ![cb.wsi] = FALSE]
  /\ cb' = NoCallback
  /\ UNCHANGED <<state, sendBuf, sendPending, wire>> /\ CallbackFrame

(* WRITEABLE: test send_pending, and strlen of the buffer.  libwebsockets   *)
(* calls it when asked to, and may call it unasked.                         *)
Writeable(h) ==
  /\ CanCallBack /\ conn[h] = "open"
  /\ wantWrite' = [wantWrite EXCEPT ![h] = FALSE]
  /\ IF sendPending THEN GoOn("write", h, sendBuf) ELSE UNCHANGED cb
  /\ UNCHANGED <<state, ws, sendBuf, sendPending, conn, wire>> /\ CallbackFrame

(* What lws_write can send: the length is the one of the text strlen saw,   *)
(* and a text that was masked before is none.                               *)
Seen == IF sendBuf = Masked THEN Torn ELSE sendBuf
Frames == IF sendBuf = cb.len THEN {Seen} ELSE {Seen, Torn}

(* A WebSocket client masks what it sends: libwebsockets may do it in place.*)
LwsWrite ==
  /\ InCallback("write")
  /\ \/ \E f \in Frames : wire' = Append(wire, f)
     \/ WriteMayFail /\ UNCHANGED wire
  /\ sendBuf' \in {sendBuf, Masked}
  /\ GoOn("clear", cb.wsi, 0)
  /\ UNCHANGED <<state, ws, sendPending, conn, wantWrite>> /\ CallbackFrame

ClearedForgotten == sendPending
Cleared == FALSE

ClearPending ==
  /\ InCallback("clear")
  /\ sendPending' = Cleared
  /\ cb' = NoCallback
  /\ UNCHANGED <<state, ws, sendBuf, conn, wantWrite, wire>> /\ CallbackFrame

Event(h) == Established(h) \/ Lost(h) \/ Writeable(h)
CallbackStep == EstablishedWs \/ LostWs \/ LwsWrite \/ ClearPending

-----------------------------------------------------------------------------
(* matter_client_send_command, called by the one dispatch thread.           *)

DAt(pc) == ~crashed /\ dpc = pc

NextIdWraps == IF msgId = MaxId THEN 1 ELSE msgId + 1
NextId == msgId + 1

(* The reads of ws and of state; -1 when either says there is no link.      *)
CheckWs ==
  /\ DAt("idle") /\ msgId <= MaxId
  /\ ws # NoWsi
  /\ dpc' = "checked"
  /\ UNCHANGED <<msgId, sendBuf, sendPending, cur, sent, crashed, wantWrite>> /\ SendFrame

CheckState ==
  /\ DAt("checked")
  /\ IF state = "CONNECTED"
       THEN dpc' = "format" /\ cur' = msgId /\ msgId' = NextId
       ELSE dpc' = "idle" /\ UNCHANGED <<cur, msgId>>
  /\ UNCHANGED <<sendBuf, sendPending, sent, crashed, wantWrite>> /\ SendFrame

(* memcpy into send_buf, in two halves; masked in between, the first half   *)
(* is spoiled, or was not there yet.                                        *)
Filled == IF sendBuf = Masked THEN {cur, Torn} ELSE {cur}
Copy ==
  /\ \/ DAt("format") /\ sendBuf' = Torn /\ dpc' = "copying"
     \/ DAt("copying") /\ sendBuf' \in Filled /\ dpc' = "copied"
  /\ UNCHANGED <<msgId, sendPending, cur, sent, crashed, wantWrite>> /\ SendFrame

SetPending ==
  /\ DAt("copied")
  /\ sendPending' = TRUE
  /\ dpc' = "flagged"
  /\ UNCHANGED <<msgId, sendBuf, cur, sent, crashed, wantWrite>> /\ SendFrame

(* lws_callback_on_writable(client->ws), read afresh; then return 0.        *)
RequestWrite ==
  /\ DAt("flagged")
  /\ IF ws = NoWsi
       THEN crashed' = TRUE /\ UNCHANGED <<dpc, cur, sent, wantWrite>>
       ELSE /\ wantWrite' = [wantWrite EXCEPT ![ws] = TRUE]
            /\ sent' = sent \cup {cur}
            /\ dpc' = "idle" /\ cur' = 0
            /\ UNCHANGED crashed
  /\ UNCHANGED <<msgId, sendBuf, sendPending>> /\ SendFrame

SendStep == CheckWs \/ CheckState \/ Copy \/ SetPending \/ RequestWrite

(* matter_client_stop, called by the main thread.                           *)
Stop ==
  /\ ~crashed /\ running
  /\ running' = FALSE
  /\ UNCHANGED <<state, ws, msgId, sendBuf, sendPending, mpc, polls, cb, dpc, cur,
                 sent, crashed, conn, wantWrite, wire>>

Next ==
  \/ RunStep \/ CallbackStep \/ SendStep \/ Stop
  \/ \E h \in Wsi : Event(h)

(* The connection thread runs: its loop goes on, a callback that started    *)
(* finishes, and lws_service returns after its 100 ms even when events keep *)
(* coming (strong fairness: a callback in between does not hold it back).   *)
(* The server, the network and the dispatch thread owe nothing.             *)
Fairness ==
  /\ WF_vars(RunStep) /\ SF_vars(ServiceReturns)
  /\ WF_vars(CallbackStep)

Spec == Init /\ [][Next]_vars /\ Fairness

(* Moreover, a call of send_command goes on to its return, and libwebsockets*)
(* makes the callbacks it was asked for.                                    *)
SpecServed ==
  /\ Spec /\ WF_vars(SendStep /\ dpc # "idle")
  /\ \A h \in Wsi : SF_vars(wantWrite[h] /\ Writeable(h))

-----------------------------------------------------------------------------
(* matter_client_t, the place of each thread in its function, and what      *)
(* libwebsockets holds.                                                     *)
TypeOK ==
  /\ state \in {"DISCONNECTED", "CONNECTING", "CONNECTED", "RECONNECTING"}
  /\ ws \in Wsi \cup {NoWsi}
  /\ running \in BOOLEAN /\ sendPending \in BOOLEAN /\ crashed \in BOOLEAN
  /\ msgId \in 1 .. MaxId + 1
  /\ sendBuf \in 0 .. MaxId \cup {Torn, Masked}
  /\ mpc \in {"top", "wait", "waitsvc", "svc", "exited"}
  /\ polls \in 0 .. ConnectPolls
  /\ cb \in [step : {"none", "established", "lost", "write", "clear"},
            wsi : Wsi \cup {NoWsi}, len : 0 .. MaxId \cup {Torn, Masked}]
  /\ dpc \in {"idle", "checked", "format", "copying", "copied", "flagged"}
  /\ cur \in 0 .. MaxId
  /\ sent \in SUBSET Ids
  /\ conn \in [Wsi -> {"free", "connecting", "open"}]
  /\ wantWrite \in [Wsi -> BOOLEAN]
  /\ wire \in Seq(Ids \cup {Torn})

(* Between callbacks the two fields send_command checks agree, and the      *)
(* handle is a connection that is open (matter_client.c:24-25, 62-63,       *)
(* 68-69, 248), however many attempts and old connections are around.       *)
LinkConsistent ==
  cb = NoCallback =>
    /\ state = "CONNECTED" <=> ws # NoWsi
    /\ ws # NoWsi => conn[ws] = "open"

(* Commands reach the wire in the order of their message ids: the slot may  *)
(* lose one or repeat one, and never brings an older one back               *)
(* (matter_client.c:45-55 against 216-217).                                 *)
WireInOrder ==
  \A i, j \in DOMAIN wire : i < j /\ {wire[i], wire[j]} \subseteq Ids => wire[i] <= wire[j]

(* There are never more frames than commands: a command that is written     *)
(* twice takes the place of one that was not written at all.                *)
FramesHaveCommands == Len(wire) < msgId

(* What a callback in progress has done to the two fields (matter_client.c: *)
(* 22-26, 59-71); it runs inside lws_service only.                          *)
LinkInCallback ==
  /\ cb.step = "none" <=> cb = NoCallback
  /\ cb.step # "none" => mpc \in {"waitsvc", "svc"} /\ cb.wsi \in Wsi
  /\ cb.step \in {"write", "clear"} =>
       /\ state = "CONNECTED" <=> ws # NoWsi
       /\ ws # NoWsi => conn[ws] = "open"
  /\ cb.step = "established" => state = "CONNECTED" /\ conn[cb.wsi] = "open"
  /\ cb.step = "lost" => state = "RECONNECTING"

(* The slot against the ids: a call in progress holds the newest one, the   *)
(* slot holds it too, but for the memcpy and unless it was written out, and *)
(* what strlen saw before that memcpy is older (matter_client.c:45-55,      *)
(* 200-220).                                                                *)
Calling == dpc \in {"format", "copying", "copied", "flagged"}
Copying == dpc \in {"format", "copying"}
SlotIsNewest ==
  /\ dpc = "checked" => msgId <= MaxId
  /\ Calling => cur = msgId - 1 /\ cur \in Ids
  /\ dpc = "copying" => sendBuf \in {Torn, Masked}
  /\ dpc = "format" => sendBuf \in {msgId - 2, Torn, Masked}
  /\ ~Copying => sendBuf \in {msgId - 1, Torn, Masked}
  /\ sendPending => sendBuf # 0
  /\ cb.step = "write" =>
       /\ sendPending /\ cb.len # 0
       /\ cb.len \in Nat => cb.len < IF Copying THEN msgId - 1 ELSE msgId
       /\ cb.len = msgId - 1 => sendBuf = msgId - 1

(* No frame holds a command newer than the slot.                            *)
WireBehindSlot ==
  \A i \in DOMAIN wire : wire[i] \in Ids =>
    wire[i] < msgId /\ (sendBuf \in Nat => wire[i] <= sendBuf)

(* Each command that set send_pending pays for one frame: those written and *)
(* the one still to be written (matter_client.c:43-55, 219).                *)
Flagged == IF dpc \in {"format", "copying", "copied"} THEN msgId - 2 ELSE msgId - 1
ToWrite == IF sendPending /\ cb.step # "clear" THEN 1 ELSE 0
FramesArePaid == Len(wire) + ToWrite <= Flagged

(* The inductive invariant.                                                 *)
IInv ==
  /\ TypeOK /\ LinkConsistent /\ LinkInCallback
  /\ SlotIsNewest /\ WireBehindSlot /\ WireInOrder
  /\ FramesArePaid /\ FramesHaveCommands

(* Nobody who reads the wire can tell the two threads from an abstract slot:*)
(* whatever the interleaving, a frame is the newest command or, during the  *)
(* memcpy, the one before; a torn one needs a copy that overlapped with the *)
(* write, or a slot that was written out before; and frames never outnumber *)
(* the commands that were made ready, so one that goes out twice takes the  *)
(* place of one that did not (matter_client.c:43-55 against 181-220).       *)
Writing == cb.step = "write"
Overlap == Writing /\ (Copying \/ cb.len # msgId - 1)
Worn == IF Copying THEN dpc = "copying" /\ sendBuf = Masked ELSE sendBuf \in {Torn, Masked}
Slot == INSTANCE CommandSlot
          WITH issued <- msgId - 1, busy <- Copying, ready <- Flagged, writing <- Writing,
               overlap <- Overlap, worn <- Worn, frames <- wire
ImplementsSlot == Slot!Spec

(* matter_client_stop ends matter_client_run, from any state of the link,   *)
(* with a server that never answers: bridge_destroy can join the thread.    *)
StopEndsRun == ~running ~> mpc = "exited" \/ crashed

(* A client that is not stopped is connected, or about to make another      *)
(* attempt, again and again: no state of the link stops the retries.        *)
NeverStuck ==
  []<>(state = "CONNECTED" \/ (mpc = "top" /\ NeedsConnect) \/ ~running \/ crashed)

(* bridge.h:16: sent counts the messages that were sent to Matter.  A       *)
(* command send_command returned 0 for is on the wire, or still waits in    *)
(* the slot to be written (matter_client.h:45).                             *)
Written == {wire[i] : i \in DOMAIN wire}
SentIsWrittenOrWaits ==
  \A id \in sent : id \in Written \/ (sendBuf = id /\ sendPending)

(* matter_client.c:43: while the link is up, a command that waits in the    *)
(* slot is sent.                                                            *)
WaitingIsSent ==
  sendPending ~> ~sendPending \/ state # "CONNECTED" \/ ~running \/ crashed
=============================================================================
