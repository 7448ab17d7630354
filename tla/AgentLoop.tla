----------------------------- MODULE AgentLoop ------------------------------
(***************************************************************************)
(* agent/predictor.py beside the collector: a run of the predictor reads   *)
(* the events once (run, line 273) and then decides about each device from *)
(* those rows and the clock, while the home and the collector go on.  What *)
(* a decision leaves behind is in AgentRequests.                           *)
(***************************************************************************)
EXTENDS Collector

VARIABLE loaded   \* rows read by the run under way; 0 between runs

Policy == INSTANCE PolicyGate
Fan == Policy!Dev("fan", "auto", "low")

loopVars == <<vars, loaded>>

LoopInit == Init /\ loaded = 0

(* load_events; without a row the run ends at once.                         *)
Load ==
  /\ loaded = 0 /\ events # {}
  /\ loaded' = Cardinality(events)
  /\ UNCHANGED vars
EndRun == loaded > 0 /\ loaded' = 0 /\ UNCHANGED vars

LoopNext == (Next /\ UNCHANGED loaded) \/ Load \/ EndRun
LoopSpec == LoopInit /\ [][LoopNext]_loopVars

df == {r \in LoadEvents(events) : r.id <= loaded}

(* Would the gate let the surest model switch this low-risk device now?     *)
Allowed(entity, action) ==
  /\ loaded > 0
  /\ Policy!Evaluate([device |-> Fan, action |-> action, confidence |-> 100,
                      ctx |-> PolicyContext(df, entity, now)]).decision = "allow"

(* Everything that happened to an entity is in the rows the run has read.   *)
Known(e) ==
  /\ e \notin lost /\ \A i \in DOMAIN wire : wire[i].entity # e
  /\ \A r \in events : r.entity = e => r.id <= loaded
OnRecord(e) == Known(e) /\ \E r \in events : r.entity = e

-----------------------------------------------------------------------------
(* What the agent switches is in the state it believes, and nobody touched  *)
(* it in the last 300 s: the three functions that look for a recent change  *)
(* treat the ends of the interval differently (feature_engineering.py:167,  *)
(* 176), and between them leave no gap (policy.py:92-97).                   *)
ActsOnRealState ==
  \A action \in {"turn_on", "turn_off"} :
    Allowed("fan", action) /\ OnRecord("fan") =>
      /\ (ha["fan"] = "on") = (action = "turn_off")
      /\ now - lastChange["fan"] >= 5

(* The agent switches on for somebody: the camera sees a person, or it or   *)
(* the door changed in the last 20 minutes; or it is 10 to 15 minutes       *)
(* before the hour of arrival, and not when the person is late              *)
(* (feature_engineering.py:136-159, policy.py:80, 103).                     *)
SeenLately ==
  \/ ha["camera"] \in Seen
  \/ \E e \in {"camera", "door"} \cap Entity : now - lastChange[e] <= 20
ActsForSomebody ==
  Allowed("fan", "turn_on") /\ Known("camera") =>
    SeenLately \/ EXPECTED_ARRIVAL_MINUTE - MinuteOfDay(now) \in 10 .. 15
=============================================================================
