---------------------------- MODULE CommandSlot ----------------------------
(***************************************************************************)
(* What matter_client_send_command and the WRITEABLE callback promise      *)
(* together, with one buffer, one flag and no lock between their threads:  *)
(* a frame carries the newest command, or the one before it while the      *)
(* newest is being copied in; no one command only if a copy overlapped     *)
(* with the write, or the slot is worn: it was written out before, which   *)
(* may spoil it; and each command that was made ready allows one frame.    *)
(***************************************************************************)
EXTENDS Integers, Sequences

CONSTANT Torn   \* a frame that is no one command

VARIABLES issued,   \* commands handed over so far; the newest has this number
          busy,     \* the newest is being copied in
          ready,    \* commands that were made ready
          writing,  \* a callback found one ready and writes
          overlap,  \* its text may not be, or stay, the newest command
          worn,     \* the slot was written out and is spoiled
          frames    \* what was written

vars == <<issued, busy, ready, writing, overlap, worn, frames>>

Init ==
  /\ issued = 0 /\ busy = FALSE /\ ready = 0
  /\ writing = FALSE /\ overlap = FALSE /\ worn = FALSE /\ frames = <<>>

(* send_command, once its two tests have passed.                            *)
Issue ==
  /\ ~busy /\ ready = issued
  /\ issued' = issued + 1 /\ busy' = TRUE /\ overlap' = writing /\ worn' = FALSE
  /\ UNCHANGED <<ready, writing, frames>>

(* Filled afresh, unless it was written out meanwhile.                      *)
Fill ==
  /\ busy /\ busy' = FALSE /\ (worn' = FALSE \/ UNCHANGED worn)
  /\ UNCHANGED <<issued, ready, writing, overlap, frames>>

MakeReady ==
  /\ ~busy /\ ready < issued
  /\ ready' = issued
  /\ UNCHANGED <<issued, busy, writing, overlap, worn, frames>>

(* The callback.                                                            *)
Pick ==
  /\ ~writing /\ Len(frames) < ready
  /\ writing' = TRUE /\ overlap' = (busy \/ worn)
  /\ UNCHANGED <<issued, busy, ready, worn, frames>>

Carried ==
  IF busy THEN {issued - 1, Torn}
  ELSE IF overlap THEN {issued, Torn} ELSE {issued}

Write ==
  /\ writing /\ writing' = FALSE /\ overlap' = FALSE /\ (worn' = TRUE \/ UNCHANGED worn)
  /\ \/ \E f \in Carried : frames' = Append(frames, f)
     \/ UNCHANGED frames   \* lws_write failed
  /\ UNCHANGED <<issued, busy, ready>>

Next == Issue \/ Fill \/ MakeReady \/ Pick \/ Write

Spec == Init /\ [][Next]_vars
=============================================================================
