------------------------- MODULE MatterClientProofs -------------------------
(***************************************************************************)
(* The safety of the WebSocket client and of its one-command slot, for any *)
(* set of handles and any number of commands.                              *)
(***************************************************************************)
EXTENDS MatterClient, TLAPS

(* What the invariant says of the link, and of the slot and the wire.       *)
LinkPart == LinkConsistent /\ LinkInCallback
SlotPart == SlotIsNewest /\ WireBehindSlot /\ WireInOrder /\ FramesArePaid

(* Frames that are paid for have a command each.                            *)
LEMMA PaidFramesHaveCommands ==
  ASSUME TypeOK, FramesArePaid
  PROVE  FramesHaveCommands
BY DEF TypeOK, FramesArePaid, FramesHaveCommands, ToWrite, Flagged

LEMMA IInvFromParts == TypeOK /\ LinkPart /\ SlotPart => IInv
BY PaidFramesHaveCommands DEF IInv, LinkPart, SlotPart

LEMMA PartsFromIInv == IInv => TypeOK /\ LinkPart /\ SlotPart
BY DEF IInv, LinkPart, SlotPart

LEMMA InitIInv == Init => IInv
<1> SUFFICES ASSUME Init PROVE TypeOK /\ LinkPart /\ SlotPart
  BY IInvFromParts
<1> USE WsiAssumption, BoundAssumption DEF Init, NoCallback
<1>1. TypeOK
  <2>1. /\ conn \in [Wsi -> {"free", "connecting", "open"}]
        /\ wantWrite \in [Wsi -> BOOLEAN]
    OBVIOUS
  <2>2. cb \in [step : {"none", "established", "lost", "write", "clear"},
                wsi : Wsi \cup {NoWsi}, len : 0 .. MaxId \cup {Torn, Masked}]
    OBVIOUS
  <2>3. wire \in Seq(Ids \cup {Torn}) /\ sent \in SUBSET Ids
    OBVIOUS
  <2>4. running \in BOOLEAN /\ sendPending \in BOOLEAN /\ crashed \in BOOLEAN
    OBVIOUS
  <2>5. msgId \in 1 .. MaxId + 1 /\ polls \in 0 .. ConnectPolls /\ cur \in 0 .. MaxId
    OBVIOUS
  <2> QED  BY <2>1, <2>2, <2>3, <2>4, <2>5 DEF TypeOK
<1>2. LinkPart
  BY DEF LinkPart, LinkConsistent, LinkInCallback
<1>3. SlotPart
  BY DEF SlotPart, SlotIsNewest, WireBehindSlot, WireInOrder, FramesArePaid, Flagged, ToWrite,
         Calling, Copying
<1> QED  BY <1>1, <1>2, <1>3

-----------------------------------------------------------------------------
(* Frames: what a step that does not touch them leaves true.                *)
SlotVars == <<msgId, sendBuf, sendPending, cb, dpc, cur, wire>>

LEMMA SlotFrame == SlotPart /\ UNCHANGED SlotVars => SlotPart'
BY DEF SlotPart, SlotVars, SlotIsNewest, WireBehindSlot, WireInOrder, FramesArePaid, Flagged,
       ToWrite, Calling, Copying

LEMMA LinkFrame == LinkPart /\ UNCHANGED <<state, ws, mpc, cb, conn>> => LinkPart'
BY DEF LinkPart, LinkConsistent, LinkInCallback, NoCallback

-----------------------------------------------------------------------------
(* matter_client_run.                                                       *)
LEMMA RunPreserves ==
  ASSUME IInv, RunStep
  PROVE  IInv'
<1> USE WsiAssumption, BoundAssumption DEF RunFrame, At
<1>1. SlotPart'
  <2>1. UNCHANGED SlotVars
    BY DEF RunStep, Exit, ConnectFails, Poll, ConnectTimeout, EnterService, ServiceReturns,
           Connect, SlotVars
  <2> QED  BY <2>1, SlotFrame, PartsFromIInv
<1>2. TypeOK' /\ LinkPart'
  <2> USE PartsFromIInv DEF TypeOK, LinkPart, LinkConsistent, LinkInCallback, NoCallback, NeedsConnect
  <2>1. CASE Exit            BY <2>1 DEF Exit
  <2>2. CASE ConnectFails    BY <2>2 DEF ConnectFails
  <2>3. CASE Poll            BY <2>3 DEF Poll, PollsLeft, PollsAfter
  <2>4. CASE ConnectTimeout  BY <2>4 DEF ConnectTimeout, AfterTimeout
  <2>5. CASE EnterService    BY <2>5 DEF EnterService
  <2>6. CASE ServiceReturns  BY <2>6 DEF ServiceReturns
  <2>7. ASSUME NEW h \in Wsi, Connect(h) PROVE TypeOK' /\ LinkPart'
    BY <2>7 DEF Connect
  <2> QED  BY <2>1, <2>2, <2>3, <2>4, <2>5, <2>6, <2>7 DEF RunStep
<1> QED  BY <1>1, <1>2, IInvFromParts, PTL

-----------------------------------------------------------------------------
(* ws_callback.                                                             *)
LEMMA EventPreserves ==
  ASSUME IInv, NEW h \in Wsi, Event(h)
  PROVE  TypeOK' /\ LinkPart' /\ SlotPart'
<1> USE WsiAssumption, BoundAssumption, PartsFromIInv DEF CallbackFrame, CanCallBack, GoOn, NoCallback
<1>1. TypeOK' /\ LinkPart'
  <2> USE DEF TypeOK, LinkPart, LinkConsistent, LinkInCallback
  <2>1. CASE Established(h)  BY <2>1 DEF Established
  <2>2. CASE Lost(h)         BY <2>2 DEF Lost
  <2>3. CASE Writeable(h)    BY <2>3 DEF Writeable, SlotPart, SlotIsNewest
  <2> QED  BY <2>1, <2>2, <2>3 DEF Event
<1>2. SlotPart'
  <2> USE DEF SlotPart, SlotIsNewest, WireBehindSlot, WireInOrder, FramesArePaid, Flagged,
              ToWrite, Calling, Copying
  <2>1. CASE Established(h)  BY <2>1 DEF Established
  <2>2. CASE Lost(h)         BY <2>2 DEF Lost
  <2>3. CASE Writeable(h)
    <3>1. /\ sendBuf \in 0 .. MaxId \cup {Torn, Masked} /\ msgId \in Nat
          /\ Torn \notin Nat /\ Masked \notin Nat
      BY DEF TypeOK
    <3>2. UNCHANGED <<sendBuf, sendPending, msgId, dpc, cur, wire>>
      BY <2>3 DEF Writeable
    <3>3. /\ dpc = "copying" => sendBuf \in {Torn, Masked}
          /\ dpc = "format" => sendBuf \in {msgId - 2, Torn, Masked}
          /\ ~Copying => sendBuf \in {msgId - 1, Torn, Masked}
          /\ sendPending => sendBuf # 0
      OBVIOUS
    <3>4. SlotIsNewest'
      <4>1. CASE UNCHANGED cb
        BY <2>3, <3>2, <4>1 DEF Writeable
      <4>2. CASE sendPending /\ cb' = [step |-> "write", wsi |-> h, len |-> sendBuf]
        <5>1. cb'.step = "write" /\ cb'.len = sendBuf /\ sendBuf # 0
          BY <3>3, <4>2
        <5>2. sendBuf \in Nat => sendBuf < IF Copying THEN msgId - 1 ELSE msgId
          BY <3>1, <3>3
        <5> QED  BY <3>2, <4>2, <5>1, <5>2
      <4> QED  BY <2>3, <4>1, <4>2 DEF Writeable
    <3>5. WireBehindSlot' /\ WireInOrder'
      BY <3>2
    <3>6. FramesArePaid'
      BY <2>3, <3>2 DEF Writeable
    <3> QED  BY <3>4, <3>5, <3>6
  <2> QED  BY <2>1, <2>2, <2>3 DEF Event
<1> QED  BY <1>1, <1>2

LEMMA SlotNewestFrame ==
  ASSUME SlotIsNewest, sendBuf' \in {sendBuf, Masked},
         UNCHANGED <<msgId, sendPending, dpc, cur>>, cb'.step # "write"
  PROVE  SlotIsNewest'
<1>1. Masked # 0
  BY BoundAssumption
<1>2. sendBuf' = sendBuf \/ sendBuf' = Masked
  OBVIOUS
<1>3. UNCHANGED <<Calling, Copying>>
  BY DEF Calling, Copying
<1> QED  BY <1>1, <1>2, <1>3 DEF SlotIsNewest

(* lws_write: one frame more, no newer than the slot.                       *)
LEMMA WritePreserves ==
  ASSUME IInv, LwsWrite
  PROVE  TypeOK' /\ LinkPart' /\ SlotPart'
<1> USE WsiAssumption, BoundAssumption, PartsFromIInv DEF CallbackFrame, InCallback, GoOn, LwsWrite
<1>1. LinkPart'
  BY DEF LinkPart, LinkConsistent, LinkInCallback, NoCallback
<1>2. CASE UNCHANGED wire
  <2>1. TypeOK'
    BY <1>2 DEF TypeOK
  <2>2. SlotPart'
    BY <1>2 DEF TypeOK, SlotPart, SlotIsNewest, WireBehindSlot, WireInOrder, FramesArePaid,
                Flagged, ToWrite, Calling, Copying
  <2> QED  BY <1>1, <2>1, <2>2
<1>3. ASSUME NEW f \in Frames, wire' = Append(wire, f)
      PROVE  TypeOK' /\ SlotPart'
  <2>1. f \in Ids \cup {Torn} /\ (f \in Ids => f = sendBuf /\ sendBuf \in Nat)
    <3>1. f = Seen \/ f = Torn
      BY DEF Frames
    <3>2. sendBuf # 0 /\ sendBuf \in 0 .. MaxId \cup {Torn, Masked}
      BY DEF TypeOK, SlotPart, SlotIsNewest
    <3>3. Seen = Torn \/ (Seen = sendBuf /\ sendBuf \in Ids)
      BY <3>2 DEF Seen, Ids
    <3>4. Torn \notin Ids
      BY DEF Ids
    <3> QED  BY <3>1, <3>3, <3>4 DEF Ids
  <2>2. /\ wire \in Seq(Ids \cup {Torn}) /\ wire' \in Seq(Ids \cup {Torn})
        /\ Len(wire) \in Nat /\ Len(wire') = Len(wire) + 1
        /\ DOMAIN wire = 1 .. Len(wire) /\ DOMAIN wire' = 1 .. Len(wire) + 1
        /\ \A i \in 1 .. Len(wire) : wire'[i] = wire[i]
        /\ wire'[Len(wire) + 1] = f
    BY <1>3, <2>1 DEF TypeOK
  <2>3. TypeOK'
    BY <2>2 DEF TypeOK
  <2>4. SlotIsNewest'
    <3>1. /\ cb'.step # "write" /\ sendBuf' \in {sendBuf, Masked}
          /\ UNCHANGED <<msgId, sendPending, dpc, cur>>
      OBVIOUS
    <3>2. SlotIsNewest
      BY DEF SlotPart
    <3> QED  BY <3>1, <3>2, SlotNewestFrame
  <2>5. WireBehindSlot'
    <3>1. sendBuf \in Nat => sendBuf < msgId
      <4>1. /\ dpc = "copying" => sendBuf \in {Torn, Masked}
            /\ dpc = "format" => sendBuf \in {msgId - 2, Torn, Masked}
            /\ ~Copying => sendBuf \in {msgId - 1, Torn, Masked}
        BY DEF SlotPart, SlotIsNewest
      <4>2. msgId \in Nat
        BY DEF TypeOK
      <4> QED  BY <4>1, <4>2 DEF Copying
    <3>2. msgId' = msgId /\ (sendBuf' \in Nat => sendBuf' = sendBuf)
      OBVIOUS
    <3>3. \A i \in DOMAIN wire : wire[i] \in Ids =>
            wire[i] < msgId /\ (sendBuf \in Nat => wire[i] <= sendBuf)
      BY DEF SlotPart, WireBehindSlot
    <3>4. \A i \in DOMAIN wire' : wire'[i] \in Ids =>
            wire'[i] < msgId /\ (sendBuf' \in Nat => wire'[i] <= sendBuf')
      <4>1. ASSUME NEW i \in DOMAIN wire', wire'[i] \in Ids
            PROVE  wire'[i] < msgId /\ (sendBuf' \in Nat => wire'[i] <= sendBuf')
        <5>1. CASE i \in DOMAIN wire
          BY <2>2, <3>2, <3>3, <4>1, <5>1
        <5>2. CASE wire'[i] = f
          BY <2>1, <3>1, <3>2, <4>1, <5>2
        <5> QED  BY <2>2, <4>1, <5>1, <5>2
      <4> QED  BY <4>1
    <3> QED  BY <3>2, <3>4 DEF WireBehindSlot
  <2>6. WireInOrder'
    <3>1. \A i, j \in 1 .. Len(wire) :
            i < j /\ {wire[i], wire[j]} \subseteq Ids => wire[i] <= wire[j]
      BY <2>2 DEF SlotPart, WireInOrder
    <3>2. \A i \in 1 .. Len(wire) : wire[i] \in Ids /\ f \in Ids => wire[i] <= f
      BY <2>1, <2>2 DEF SlotPart, WireBehindSlot
    <3>3. ASSUME NEW i \in DOMAIN wire', NEW j \in DOMAIN wire', i < j,
                 wire'[i] \in Ids, wire'[j] \in Ids
          PROVE  wire'[i] <= wire'[j]
      <4>1. i \in 1 .. Len(wire) /\ (j \in 1 .. Len(wire) \/ j = Len(wire) + 1)
        BY <2>2, <3>3
      <4>2. CASE j \in 1 .. Len(wire)
        BY <2>2, <3>1, <3>3, <4>1, <4>2
      <4>3. CASE j = Len(wire) + 1
        BY <2>2, <3>2, <3>3, <4>1, <4>3
      <4> QED  BY <4>1, <4>2, <4>3
    <3> QED  BY <3>3 DEF WireInOrder
  <2>7. FramesArePaid'
    BY <2>2 DEF SlotPart, SlotIsNewest, FramesArePaid, Flagged, ToWrite, TypeOK
  <2> QED  BY <2>3, <2>4, <2>5, <2>6, <2>7 DEF SlotPart
<1> QED  BY <1>1, <1>2, <1>3

LEMMA CallbackPreserves ==
  ASSUME IInv, CallbackStep
  PROVE  TypeOK' /\ LinkPart' /\ SlotPart'
<1> USE WsiAssumption, BoundAssumption, PartsFromIInv DEF CallbackFrame, InCallback, NoCallback
<1>1. CASE EstablishedWs
  <2> USE <1>1 DEF EstablishedWs, LinkPart, LinkInCallback
  <2>1. TypeOK' /\ LinkPart'
    BY DEF TypeOK, LinkConsistent
  <2>2. SlotPart'
    BY DEF SlotPart, SlotIsNewest, WireBehindSlot, WireInOrder, FramesArePaid, Flagged,
           ToWrite, Calling, Copying
  <2> QED  BY <2>1, <2>2
<1>2. CASE LostWs
  <2> USE <1>2 DEF LostWs, WsAfterLoss, LinkPart, LinkInCallback
  <2>1. TypeOK' /\ LinkPart'
    BY DEF TypeOK, LinkConsistent
  <2>2. SlotPart'
    BY DEF SlotPart, SlotIsNewest, WireBehindSlot, WireInOrder, FramesArePaid, Flagged,
           ToWrite, Calling, Copying
  <2> QED  BY <2>1, <2>2
<1>3. CASE ClearPending
  <2> USE <1>3 DEF ClearPending, Cleared
  <2>1. TypeOK' /\ LinkPart'
    <3>1. TypeOK'
      <4>1. sendPending' \in BOOLEAN /\ UNCHANGED <<running, crashed>>
        OBVIOUS
      <4>2. cb' \in [step : {"none", "established", "lost", "write", "clear"},
                     wsi : Wsi \cup {NoWsi}, len : 0 .. MaxId \cup {Torn, Masked}]
        OBVIOUS
      <4> QED  BY <4>1, <4>2 DEF TypeOK
    <3>2. LinkPart'
      BY DEF LinkPart, LinkInCallback, LinkConsistent
    <3> QED  BY <3>1, <3>2
  <2>2. SlotPart'
    BY DEF SlotPart, SlotIsNewest, WireBehindSlot, WireInOrder, FramesArePaid, Flagged,
           ToWrite, Calling, Copying
  <2> QED  BY <2>1, <2>2
<1> QED  BY <1>1, <1>2, <1>3, WritePreserves DEF CallbackStep

-----------------------------------------------------------------------------
(* matter_client_send_command.                                              *)

(* The memcpy: the slot holds no command, or the one of the call, which is  *)
(* the newest.                                                              *)
LEMMA CopyPreserves ==
  ASSUME IInv, Copy
  PROVE  TypeOK' /\ SlotIsNewest' /\ WireBehindSlot'
<1> USE BoundAssumption DEF SendFrame, DAt
<1>1. TypeOK /\ SlotIsNewest /\ WireBehindSlot
  BY DEF IInv
<1>2. /\ msgId \in 1 .. MaxId + 1 /\ cur \in 0 .. MaxId /\ cb.len \in 0 .. MaxId \cup {Torn, Masked}
      /\ UNCHANGED <<msgId, cur, sendPending, cb, wire>>
  BY <1>1 DEF Copy, TypeOK
<1>3. Calling /\ Copying /\ cur = msgId - 1 /\ cur \in Ids
  BY <1>1 DEF Copy, Calling, Copying, SlotIsNewest
<1>4. cb.step = "write" =>
        /\ sendPending /\ cb.len # 0
        /\ cb.len # msgId - 1 /\ (cb.len \in Nat => cb.len < msgId - 1)
  <2>1. cb.step = "write" =>
          sendPending /\ cb.len # 0 /\ (cb.len \in Nat => cb.len < msgId - 1)
    BY <1>1, <1>3 DEF SlotIsNewest
  <2>2. msgId - 1 \in Nat
    BY <1>2
  <2> QED  BY <2>1, <2>2
<1>5. \A i \in DOMAIN wire : wire[i] \in Ids => wire[i] < msgId
  BY <1>1 DEF WireBehindSlot
<1>6. CASE dpc = "format"
  <2>1. dpc' = "copying" /\ sendBuf' = Torn
    BY <1>6 DEF Copy
  <2>2. TypeOK'
    BY <1>1, <1>2, <2>1 DEF TypeOK, Copy
  <2>3. SlotIsNewest'
    BY <1>2, <1>3, <1>4, <2>1 DEF SlotIsNewest, Calling, Copying, Ids
  <2>4. WireBehindSlot'
    BY <1>2, <1>5, <2>1 DEF WireBehindSlot
  <2> QED  BY <2>2, <2>3, <2>4
<1>7. CASE dpc = "copying"
  <2>1. dpc' = "copied" /\ sendBuf' \in {cur, Torn}
    BY <1>7 DEF Copy, Filled
  <2>2. sendBuf' \in 0 .. MaxId \cup {Torn, Masked} /\ sendBuf' # 0
    BY <1>2, <1>3, <2>1 DEF Ids
  <2>3. TypeOK'
    BY <1>1, <1>2, <2>1, <2>2 DEF TypeOK, Copy
  <2>4. SlotIsNewest'
    <3>1. cb.len \in Nat /\ cb.step = "write" => cb.len < msgId
      BY <1>2, <1>4
    <3> QED  BY <1>2, <1>3, <1>4, <2>1, <2>2, <3>1 DEF SlotIsNewest, Calling, Copying
  <2>5. WireBehindSlot'
    <3>1. ASSUME NEW i \in DOMAIN wire, wire[i] \in Ids
          PROVE  wire[i] < msgId /\ (sendBuf' \in Nat => wire[i] <= sendBuf')
      BY <1>2, <1>3, <1>5, <2>1, <3>1 DEF Ids
    <3> QED  BY <1>2, <3>1 DEF WireBehindSlot
  <2> QED  BY <2>3, <2>4, <2>5
<1> QED  BY <1>6, <1>7 DEF Copy

LEMMA SendPreserves ==
  ASSUME IInv, SendStep
  PROVE  TypeOK' /\ LinkPart' /\ SlotPart'
<1> USE WsiAssumption, BoundAssumption, PartsFromIInv DEF SendFrame, DAt
<1>1. LinkPart'
  <2>1. UNCHANGED <<state, ws, mpc, cb, conn>>
    BY DEF SendStep, CheckWs, CheckState, Copy, SetPending, RequestWrite
  <2> QED  BY <2>1, LinkFrame
<1>2. TypeOK' /\ SlotIsNewest'
  <2> USE DEF SlotPart, SlotIsNewest, Calling, Copying, TypeOK, Ids
  <2>1. CASE CheckWs       BY <2>1 DEF CheckWs
  <2>2. CASE CheckState    BY <2>2 DEF CheckState, NextId
  <2>3. CASE Copy          BY <2>3, CopyPreserves
  <2>4. CASE SetPending    BY <2>4 DEF SetPending
  <2>5. CASE RequestWrite
    <3>1. CASE ws = NoWsi   BY <2>5, <3>1 DEF RequestWrite
    <3>2. CASE ws # NoWsi
      <4>1. wantWrite' \in [Wsi -> BOOLEAN] /\ sent' \in SUBSET Ids
        BY <2>5, <3>2 DEF RequestWrite
      <4> QED  BY <2>5, <3>2, <4>1 DEF RequestWrite
    <3> QED  BY <3>1, <3>2
  <2> QED  BY <2>1, <2>2, <2>3, <2>4, <2>5 DEF SendStep
<1>3. wire' = wire
  BY DEF SendStep, CheckWs, CheckState, Copy, SetPending, RequestWrite
<1>4. WireBehindSlot' /\ WireInOrder'
  <2> USE <1>3 DEF SlotPart, SlotIsNewest, Calling, Copying, TypeOK, WireBehindSlot,
                 WireInOrder, Ids
  <2>1. CASE CheckWs       BY <2>1 DEF CheckWs
  <2>2. CASE CheckState    BY <2>2 DEF CheckState, NextId
  <2>3. CASE Copy
    <3>1. WireInOrder'
      BY <1>3 DEF IInv, WireInOrder
    <3> QED  BY <2>3, <3>1, CopyPreserves
  <2>4. CASE SetPending    BY <2>4 DEF SetPending
  <2>5. CASE RequestWrite  BY <2>5 DEF RequestWrite
  <2> QED  BY <2>1, <2>2, <2>3, <2>4, <2>5 DEF SendStep
<1>5. FramesArePaid'
  <2> USE <1>3 DEF SlotPart, TypeOK, FramesArePaid, Flagged, ToWrite
  <2>1. CASE CheckWs       BY <2>1 DEF CheckWs
  <2>2. CASE CheckState    BY <2>2 DEF CheckState, NextId
  <2>3. CASE Copy          BY <2>3 DEF Copy
  <2>4. CASE SetPending    BY <2>4 DEF SetPending
  <2>5. CASE RequestWrite  BY <2>5 DEF RequestWrite
  <2> QED  BY <2>1, <2>2, <2>3, <2>4, <2>5 DEF SendStep
<1> QED  BY <1>1, <1>2, <1>4, <1>5 DEF SlotPart

LEMMA StopPreserves ==
  ASSUME IInv, Stop \/ UNCHANGED vars
  PROVE  TypeOK' /\ LinkPart' /\ SlotPart'
<1>1. LinkPart' /\ SlotPart'
  BY PartsFromIInv, LinkFrame, SlotFrame DEF Stop, vars, SlotVars
<1>2. TypeOK'
  <2>1. CASE Stop
    <3>1. running' \in BOOLEAN /\ UNCHANGED <<sendPending, crashed>>
      BY <2>1 DEF Stop
    <3> QED  BY <2>1, <3>1, PartsFromIInv DEF TypeOK, Stop
  <2>2. CASE UNCHANGED vars  BY <2>2, PartsFromIInv DEF TypeOK, vars
  <2> QED  BY <2>1, <2>2
<1> QED  BY <1>1, <1>2

-----------------------------------------------------------------------------
LEMMA StepPreserves == IInv /\ [Next]_vars => IInv'
<1> SUFFICES ASSUME IInv, [Next]_vars PROVE IInv'
  OBVIOUS
<1>1. CASE RunStep
  BY <1>1, RunPreserves
<1>2. CASE TypeOK' /\ LinkPart' /\ SlotPart'
  BY <1>2, IInvFromParts, PTL
<1> QED  BY <1>1, <1>2, EventPreserves, CallbackPreserves, SendPreserves, StopPreserves DEF Next

(* The inductive invariant of the client.                                   *)
THEOREM Invariance == Spec => []IInv
BY InitIInv, StepPreserves, PTL DEF Spec

(* send_command's two tests say the same between callbacks, and the handle  *)
(* it hands to libwebsockets then is open, with any number of attempts and  *)
(* connections around (matter_client.c:24-25, 62-69).                       *)
THEOREM LinkAgrees == Spec => []LinkConsistent
<1>1. IInv => LinkConsistent  BY DEF IInv
<1> QED  BY <1>1, Invariance, PTL

(* The slot the two threads share without a lock loses and repeats, and     *)
(* never reorders, whatever the interleaving (matter_client.c:45-55, 216).  *)
THEOREM WireOrdered == Spec => []WireInOrder
<1>1. IInv => WireInOrder  BY DEF IInv
<1> QED  BY <1>1, Invariance, PTL

(* There is at most one frame per command, torn ones and repeated ones      *)
(* included (matter_client.c:43-55, 219).                                   *)
THEOREM FramesBounded == Spec => []FramesHaveCommands
<1>1. IInv => FramesHaveCommands  BY DEF IInv
<1> QED  BY <1>1, Invariance, PTL

-----------------------------------------------------------------------------
(* The abstract slot.  A step that keeps what it is made of is a stutter.   *)
LEMMA SlotStutters ==
  UNCHANGED <<msgId, wire, Copying, Flagged, Writing, Overlap, Worn>> => [Slot!Next]_(Slot!vars)
BY DEF Slot!vars

LEMMA SlotValues ==
  ASSUME IInv
  PROVE  /\ msgId \in Nat /\ msgId >= 1 /\ Len(wire) \in Nat /\ wire \in Seq(Ids \cup {Torn})
         /\ Flagged = (IF dpc \in {"format", "copying", "copied"} THEN msgId - 2 ELSE msgId - 1)
         /\ Copying \in BOOLEAN /\ Writing \in BOOLEAN /\ Overlap \in BOOLEAN
<1>1. msgId \in Nat /\ msgId >= 1 /\ wire \in Seq(Ids \cup {Torn})
  BY DEF IInv, TypeOK
<1>2. Copying \in BOOLEAN /\ Writing \in BOOLEAN /\ Overlap \in BOOLEAN
  BY DEF Copying, Writing, Overlap
<1> QED  BY <1>1, <1>2 DEF Flagged

LEMMA RunMaps ==
  ASSUME RunStep \/ Stop \/ UNCHANGED vars
  PROVE  [Slot!Next]_(Slot!vars)
<1>1. UNCHANGED <<msgId, wire, dpc, cb, sendBuf>>
  BY DEF RunStep, Exit, ConnectFails, Poll, ConnectTimeout, EnterService, ServiceReturns,
         Connect, RunFrame, Stop, vars
<1>2. UNCHANGED <<msgId, wire, Copying, Flagged, Writing, Overlap, Worn>>
  BY <1>1 DEF Copying, Flagged, Writing, Overlap, Worn
<1> QED  BY <1>2, SlotStutters

(* Callbacks that do not write.                                             *)
LEMMA LinkCallbackMaps ==
  ASSUME IInv, \/ \E h \in Wsi : Established(h) \/ Lost(h)
               \/ EstablishedWs \/ LostWs \/ ClearPending
  PROVE  [Slot!Next]_(Slot!vars)
<1> USE DEF CallbackFrame, GoOn
<1>1. UNCHANGED <<msgId, wire, dpc, sendBuf>>
  BY DEF Established, Lost, EstablishedWs, LostWs, ClearPending
<1>2. cb.step # "write" /\ cb'.step # "write"
  BY DEF Established, Lost, EstablishedWs, LostWs, ClearPending, CanCallBack, InCallback, NoCallback
<1>3. UNCHANGED <<Writing, Overlap>>
  BY <1>2 DEF Writing, Overlap
<1>4. UNCHANGED <<msgId, wire, Copying, Flagged, Writing, Overlap, Worn>>
  BY <1>1, <1>3 DEF Copying, Flagged, Worn
<1> QED  BY <1>4, SlotStutters

(* The callback finds the flag set: a command that is ready has not had its *)
(* frame.                                                                   *)
LEMMA WriteableMaps ==
  ASSUME IInv, NEW h \in Wsi, Writeable(h)
  PROVE  [Slot!Next]_(Slot!vars)
<1> USE DEF CallbackFrame
<1>1. UNCHANGED <<msgId, wire, dpc, sendBuf, sendPending>> /\ UNCHANGED <<Copying, Flagged, Worn>>
  BY DEF Writeable, Copying, Flagged, Worn
<1>2. CASE UNCHANGED cb
  BY <1>1, <1>2, SlotStutters DEF Writing, Overlap
<1>3. CASE sendPending /\ GoOn("write", h, sendBuf)
  <2>1. cb = NoCallback /\ cb.step = "none" /\ cb'.step = "write" /\ cb'.len = sendBuf
    BY <1>3 DEF Writeable, CanCallBack, NoCallback, GoOn
  <2>2. ~Writing /\ Writing'
    BY <2>1 DEF Writing
  <2>3. Len(wire) < Flagged
    BY <1>3, <2>1, SlotValues DEF IInv, FramesArePaid, ToWrite
  <2>4. Overlap' = (Copying \/ Worn)
    <3>1. CASE Copying
      BY <1>1, <2>1, <2>2, <3>1 DEF Overlap
    <3>2. CASE ~Copying
      <4>1. sendBuf \in {msgId - 1, Torn, Masked}
        BY <3>2 DEF IInv, SlotIsNewest
      <4>2. msgId - 1 \notin {Torn, Masked}
        BY SlotValues, BoundAssumption
      <4>3. Worn <=> sendBuf # msgId - 1
        BY <3>2, <4>1, <4>2 DEF Worn
      <4> QED  BY <1>1, <2>1, <2>2, <3>2, <4>3, SlotValues DEF Overlap
    <3> QED  BY <3>1, <3>2
  <2> QED  BY <1>1, <2>2, <2>3, <2>4, SlotValues DEF Slot!Next, Slot!Pick
<1> QED  BY <1>2, <1>3 DEF Writeable

(* lws_write: what the buffer can hold at this place of send_command.       *)
LEMMA WriteMaps ==
  ASSUME IInv, LwsWrite
  PROVE  [Slot!Next]_(Slot!vars)
<1>1. UNCHANGED <<msgId, dpc>> /\ UNCHANGED <<Copying, Flagged>>
  BY DEF LwsWrite, CallbackFrame, Copying, Flagged
<1>2. Writing /\ ~Writing' /\ ~Overlap'
  BY DEF LwsWrite, InCallback, GoOn, Writing, Overlap
<1>3. Frames \subseteq Slot!Carried
  <2>1. /\ dpc = "copying" => sendBuf \in {Torn, Masked}
        /\ dpc = "format" => sendBuf \in {msgId - 2, Torn, Masked}
        /\ ~Copying => sendBuf \in {msgId - 1, Torn, Masked}
        /\ cb.len = msgId - 1 => sendBuf = msgId - 1
    BY <1>2 DEF IInv, SlotIsNewest, Writing
  <2>2. Frames \subseteq {Seen, Torn} /\ (sendBuf = cb.len => Frames = {Seen})
    BY DEF Frames
  <2>3. CASE Copying
    <3>1. Seen \in {msgId - 1 - 1, Torn}
      BY <2>1, <2>3, SlotValues DEF Copying, Seen
    <3> QED  BY <2>2, <2>3, <3>1 DEF Slot!Carried
  <2>4. CASE ~Copying /\ Overlap
    <3>1. Seen \in {msgId - 1, Torn}
      BY <2>1, <2>4 DEF Seen
    <3> QED  BY <2>2, <2>4, <3>1 DEF Slot!Carried
  <2>5. CASE ~Copying /\ ~Overlap
    <3>1. cb.len = msgId - 1
      BY <1>2, <2>5 DEF Overlap
    <3>2. msgId - 1 # Masked
      BY SlotValues, BoundAssumption
    <3>3. sendBuf = cb.len /\ Seen = msgId - 1
      BY <2>1, <3>1, <3>2 DEF Seen
    <3> QED  BY <2>2, <2>5, <3>3 DEF Slot!Carried
  <2> QED  BY <2>3, <2>4, <2>5
<1>4. UNCHANGED wire \/ \E f \in Slot!Carried : wire' = Append(wire, f)
  BY <1>3 DEF LwsWrite
<1>5. Worn' \/ UNCHANGED Worn
  <2>1. CASE sendBuf' = sendBuf
    BY <1>1, <2>1 DEF Worn
  <2>2. CASE sendBuf' = Masked
    <3>1. CASE Copying /\ dpc # "copying"
      BY <1>1, <3>1 DEF Worn
    <3>2. CASE ~Copying \/ dpc = "copying"
      BY <1>1, <2>2, <3>2 DEF Worn
    <3> QED  BY <3>1, <3>2
  <2> QED  BY <2>1, <2>2 DEF LwsWrite
<1> QED  BY <1>1, <1>2, <1>4, <1>5 DEF Slot!Next, Slot!Write

(* send_command.                                                            *)
LEMMA SendMaps ==
  ASSUME IInv, SendStep
  PROVE  [Slot!Next]_(Slot!vars)
<1> USE DEF SendFrame, DAt
<1>1. UNCHANGED <<wire, cb>> /\ UNCHANGED Writing
  BY DEF SendStep, CheckWs, CheckState, Copy, SetPending, RequestWrite, Writing
<1>2. CASE UNCHANGED msgId /\ UNCHANGED <<Copying, Flagged, Worn>>
  BY <1>1, <1>2, SlotStutters DEF Overlap
<1>3. CASE CheckWs \/ RequestWrite
  <2>1. UNCHANGED msgId /\ UNCHANGED <<Copying, Flagged, Worn>>
    BY <1>3 DEF CheckWs, RequestWrite, Copying, Flagged, Worn
  <2> QED  BY <1>2, <2>1
<1>4. CASE CheckState
  <2>1. CASE state # "CONNECTED"
    <3>1. UNCHANGED msgId /\ UNCHANGED <<Copying, Flagged, Worn>>
      BY <1>4, <2>1 DEF CheckState, Copying, Flagged, Worn
    <3> QED  BY <1>2, <3>1
  <2>2. CASE state = "CONNECTED"
    <3>1. dpc = "checked" /\ dpc' = "format" /\ msgId' = msgId + 1
      BY <1>4, <2>2 DEF CheckState, NextId
    <3>2. ~Copying /\ Copying' /\ Flagged = msgId - 1 /\ Flagged' = Flagged
      BY <3>1, SlotValues DEF Copying, Flagged
    <3>3. Overlap' = Writing
      BY <1>1, <3>2, SlotValues DEF Overlap
    <3>4. msgId' - 1 = msgId - 1 + 1
      BY <3>1, SlotValues
    <3>5. ~Worn'
      BY <3>1 DEF Worn, Copying
    <3> QED  BY <1>1, <3>2, <3>3, <3>4, <3>5 DEF Slot!Next, Slot!Issue
  <2> QED  BY <2>1, <2>2
<1>5. CASE Copy
  <2>1. CASE dpc = "format"
    <3>1. UNCHANGED msgId /\ dpc' = "copying" /\ sendBuf' = Torn
      BY <1>5, <2>1 DEF Copy
    <3>2. UNCHANGED <<Copying, Flagged>>
      BY <2>1, <3>1 DEF Copying, Flagged
    <3>3. ~Worn /\ ~Worn'
      BY <2>1, <3>1, BoundAssumption DEF Worn, Copying
    <3>4. UNCHANGED Worn
      BY <3>3 DEF Worn
    <3> QED  BY <1>2, <3>1, <3>2, <3>4
  <2>2. CASE dpc = "copying"
    <3>1. UNCHANGED msgId /\ dpc' = "copied"
      BY <1>5, <2>2 DEF Copy
    <3>2. Copying /\ ~Copying' /\ Flagged' = Flagged
      BY <2>2, <3>1 DEF Copying, Flagged
    <3>3. Overlap' = Overlap
      <4>1. Writing => cb.len # msgId - 1
        BY <3>2, SlotValues, BoundAssumption DEF IInv, SlotIsNewest, Writing
      <4> QED  BY <1>1, <3>1, <3>2, <4>1 DEF Overlap
    <3>4. ~Worn' \/ UNCHANGED Worn
      <4>1. CASE sendBuf = Masked
        <5>1. Worn
          BY <2>2, <3>2, <4>1 DEF Worn
        <5> QED  BY <5>1 DEF Worn
      <4>2. CASE sendBuf # Masked
        <5>1. sendBuf' = msgId - 1
          BY <1>5, <2>2, <4>2 DEF Copy, Filled, IInv, SlotIsNewest, Calling
        <5>2. ~Worn'
          BY <3>2, <5>1, SlotValues, BoundAssumption DEF Worn
        <5> QED  BY <5>2
      <4> QED  BY <4>1, <4>2
    <3> QED  BY <1>1, <3>1, <3>2, <3>3, <3>4 DEF Slot!Next, Slot!Fill
  <2> QED  BY <1>5, <2>1, <2>2 DEF Copy
<1>6. CASE SetPending
  <2>1. UNCHANGED msgId /\ dpc = "copied" /\ dpc' = "flagged"
    BY <1>6 DEF SetPending
  <2>2. ~Copying /\ ~Copying' /\ Flagged = msgId - 2 /\ Flagged' = msgId - 1
    BY <2>1 DEF Copying, Flagged
  <2>3. UNCHANGED Copying
    BY <2>1 DEF Copying
  <2>4. UNCHANGED Overlap
    BY <1>1, <2>1, <2>3 DEF Overlap
  <2>5. Flagged < msgId - 1
    BY <2>2, SlotValues
  <2>6. UNCHANGED Worn
    BY <1>6, <2>3 DEF SetPending, Worn
  <2> QED  BY <1>1, <2>1, <2>2, <2>3, <2>4, <2>5, <2>6 DEF Slot!Next, Slot!MakeReady
<1> QED  BY <1>3, <1>4, <1>5, <1>6 DEF SendStep

(* Without a lock, send_command and the WRITEABLE callback are one abstract *)
(* slot, for any number of commands, connections and losses: a frame is the *)
(* newest command, or the one before it or a mix while the newest is being  *)
(* copied, or no command if the slot was written out before, and there is   *)
(* one at most for each command made ready (matter_client.c:43-55, 181-220).*)
THEOREM Refinement == Spec => ImplementsSlot
<1>1. Init => Slot!Init
  <2> SUFFICES ASSUME Init PROVE Slot!Init
    OBVIOUS
  <2>1. msgId = 1 /\ dpc = "idle" /\ cb.step = "none" /\ wire = <<>> /\ sendBuf = 0
    BY DEF Init, NoCallback
  <2>2. msgId - 1 = 0 /\ Flagged = 0
    BY <2>1 DEF Flagged
  <2>3. ~Copying /\ ~Writing /\ ~Overlap /\ ~Worn
    BY <2>1, BoundAssumption DEF Copying, Writing, Overlap, Worn
  <2> QED  BY <2>1, <2>2, <2>3 DEF Slot!Init
<1>2. IInv /\ [Next]_vars => [Slot!Next]_(Slot!vars)
  BY RunMaps, LinkCallbackMaps, WriteableMaps, WriteMaps, SendMaps DEF Next, CallbackStep, Event
<1>3. Spec => Slot!Spec
  BY <1>1, <1>2, Invariance, PTL DEF Spec, Slot!Spec
<1> QED  BY <1>3 DEF ImplementsSlot
=============================================================================
