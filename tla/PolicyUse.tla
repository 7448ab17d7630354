------------------------------ MODULE PolicyUse ------------------------------
(***************************************************************************)
(* The policy put to use: one input of PolicyGate.evaluate, from a caller, *)
(* a scenario or the model, is evaluated, and the verdict is compared with *)
(* what the policy is meant to be.                                         *)
(***************************************************************************)
EXTENDS Candidates

CONSTANTS Inputs,       \* inputs as callers produce them
          Lately,       \* what may have happened to a device of a scenario
          Confidences,  \* confidences a scenario may carry instead of its own
          Probas        \* probabilities of the model, by label

(* The inputs of evaluate, over any devices.                                *)
ContextType ==
  [prev_state : {0, 1}, overdue : BOOLEAN, minutesAfter : Int, home : BOOLEAN,
   override : BOOLEAN, toggles2 : Nat, toggles5 : Nat, sinceChange : Int,
   window : BOOLEAN, predicted : Int, hot : BOOLEAN, humid : BOOLEAN, dry : BOOLEAN]
InputType(D) ==
  [device : D, action : {"turn_on", "turn_off", "no_action", "other"}, confidence : Int,
   ctx : ContextType]
Known == DEVICES \cup {NoDevice}

(* Probabilities of the labels a model was trained on, in percent, of which *)
(* two together are never more than everything.                             *)
LabelSets == {L \in SUBSET {"no_action", "turn_on", "turn_off"} : L # {}}
Probabilities(L) ==
  {p \in [L -> 0 .. 100] : \A a, b \in L : a # b => p[a] + p[b] <= 100}

LatelyType ==
  [override : BOOLEAN, toggles2 : Nat, toggles5 : Nat, sinceChange : Int, prev_state : {0, 1}]
ASSUME InputAssumption == Inputs \subseteq InputType(Known)
ASSUME LatelyAssumption == Lately \subseteq LatelyType /\ Confidences \subseteq Int
ASSUME ProbaAssumption == \A p \in Probas : \E L \in LabelSets : p \in Probabilities(L)

VARIABLES in, verdict, origin

vars == <<in, verdict, origin>>

(* A scenario, or the scenario after the device was used.                   *)
After(scenario, q, confidence) ==
  [scenario EXCEPT !.confidence = confidence,
     !.ctx.override = q.override, !.ctx.toggles2 = q.toggles2,
     !.ctx.toggles5 = q.toggles5, !.ctx.sinceChange = q.sinceChange,
     !.ctx.prev_state = q.prev_state]
Used(scenario) ==
  {scenario} \cup {After(scenario, q, c) : q \in Lately, c \in Confidences \cup {scenario.confidence}}

Given == [kind |-> "given"]
FromScenario(name) == [kind |-> "scenario", name |-> name]
FromModel(p) == [kind |-> "model", proba |-> p]
ModelInput(p, d, x) ==
  [device |-> d, action |-> PredictionFromProba(p).label,
   confidence |-> PredictionFromProba(p).confidence, ctx |-> x]

None == Rule(FALSE, "none", "none")

Init ==
  /\ verdict = None
  /\ \/ in \in Inputs /\ origin = Given
     \/ \E name \in DOMAIN SCENARIOS :
          in \in Used(SCENARIOS[name]) /\ origin = FromScenario(name)
     \/ \E p \in Probas, d \in DEVICES, s \in {0, 1} :
          /\ in = ModelInput(p, d, [ScenarioContext EXCEPT !.prev_state = s])
          /\ origin = FromModel(p)
Decide == verdict = None /\ verdict' = Evaluate(in) /\ UNCHANGED <<in, origin>>
Next == Decide
Spec == Init /\ [][Next]_vars

(* What the agent may do alone, said once and without an order of tests:    *)
(* switch a low-risk light or fan, to its other state, when it is sure and  *)
(* nobody touched it lately; and switch on only for somebody who is there,  *)
(* or about to be and not late, and a fan not into a dry room that is not   *)
(* hot (policy.py:61-120).                                                  *)
Settled(c) ==
  ~c.override /\ c.toggles2 = 0 /\ c.toggles5 < 2 /\ c.sinceChange >= cooldown_seconds
Expected(c) == c.window /\ c.predicted >= 10 /\ c.predicted <= 15
MayActAlone(input) ==
  LET c == input.ctx IN
  /\ input.device.type \in {"light", "fan"}
  /\ input.confidence >= confidence_threshold /\ Settled(c)
  /\ \/ input.action = "turn_off" /\ c.prev_state = 1
     \/ /\ input.action = "turn_on" /\ c.prev_state = 0
        /\ ~c.overdue /\ (c.home \/ (Expected(c) /\ c.minutesAfter < 20))
        /\ input.device.type = "fan" /\ c.dry => Expected(c) \/ (c.hot /\ ~c.humid)
AllowedExactly == verdict # None => (verdict.decision = "allow" <=> MayActAlone(in))

(* A scenario ends as its description says, and nothing that happened to    *)
(* the device lately, and no other confidence, makes the answer bolder: the *)
(* air conditioner, the heater and the television are asked about at most,  *)
(* the late arrival and the door lock are left alone (scenarios.py:66, 83,  *)
(* 96, 109, 132, 144).                                                      *)
Described ==
  [PreArrivalHotDry |-> "allow", HotHumidEvening |-> "confirm_required",
   WaterHeaterRoutine |-> "confirm_required", TvEvening |-> "confirm_required",
   ArrivalOverdue |-> "block", ObserveOnly |-> "observe_only"]
ScenariosAsDescribed ==
  origin.kind = "scenario" /\ verdict # None =>
    /\ in = SCENARIOS[origin.name] => verdict.decision = Described[origin.name]
    /\ verdict.decision \in {Described[origin.name], "block"}

(* When the model would rather do nothing, the action put forward in its    *)
(* place is for the log alone: whatever the threshold of a quarter lets     *)
(* through, the gate neither does nor asks (predictor.py:70-75).            *)
FallbackNeverActs ==
  origin.kind = "model" /\ verdict # None /\ Best(origin.proba) = "no_action" =>
    verdict.decision \notin {"allow", "confirm_required"}
=============================================================================
