---------------------------- MODULE AgentLoopMC -----------------------------
(***************************************************************************)
(* A fan, the camera, the door and a thermometer, around the hour of       *)
(* arrival.                                                                *)
(***************************************************************************)
EXTENDS AgentLoop

MCFloat == [x \in {"28", "31"} |-> IF x = "28" THEN 28 ELSE 31]
MCEntity == {"fan", "camera", "temperature", "door"}
MCStates == [e \in MCEntity |->
  CASE e = "fan" -> {"on", "off"}
    [] e = "camera" -> {"on", "off"}
    [] e = "door" -> {"open", "closed"}
    [] OTHER -> {"31", "unavailable"}]
MCModes == {[once |-> FALSE, limit |-> 0, dry |-> FALSE],
            [once |-> FALSE, limit |-> 2, dry |-> TRUE],
            [once |-> TRUE, limit |-> 0, dry |-> FALSE]}

(* 18:14, before the window; 18:15, its first minute, and 18:19 in it; 4    *)
(* and 5, 20 and 21 minutes from one to another; and 18:50, when the person *)
(* is late.                                                                 *)
MCTimes == {1094, 1095, 1099, 1115, 1130}
=============================================================================
