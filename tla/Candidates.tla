----------------------------- MODULE Candidates -----------------------------
(***************************************************************************)
(* Where the candidates of the policy come from: the probabilities of the  *)
(* model (agent/predictor.py) and the six scenarios (agent/scenarios.py).  *)
(***************************************************************************)
EXTENDS PolicyGate, FiniteSets

LABELS == <<"no_action", "turn_on", "turn_off">>
ACTION_CANDIDATE_THRESHOLD == 25

(* classes_ of the model: the labels it was trained on, sorted by their id. *)
ClassesOf(proba) == {i \in DOMAIN LABELS : LABELS[i] \in DOMAIN proba}

(* max over the classes: of two that are equal, the first.                  *)
Best(proba) ==
  LABELS[CHOOSE i \in ClassesOf(proba) :
    \A j \in ClassesOf(proba) :
      LET p == proba[LABELS[i]]   q == proba[LABELS[j]] IN p > q \/ (p = q /\ i <= j)]
BestAction(proba) ==
  CASE {"turn_on", "turn_off"} \subseteq DOMAIN proba ->
         IF proba["turn_on"] >= proba["turn_off"] THEN "turn_on" ELSE "turn_off"
    [] OTHER -> CHOOSE label \in DOMAIN proba : label # "no_action"

(* _prediction_from_proba: the surest label; instead of no_action an action *)
(* that has a quarter.                                                      *)
Falls(proba) ==
  /\ Best(proba) = "no_action" /\ Cardinality(DOMAIN proba) > 1
  /\ proba[BestAction(proba)] >= ACTION_CANDIDATE_THRESHOLD
PredictionOfBest(proba) ==
  LET label == IF Falls(proba) THEN BestAction(proba) ELSE Best(proba)
  IN [label |-> label, confidence |-> proba[Best(proba)]]
PredictionFromProba(proba) ==
  LET label == IF Falls(proba) THEN BestAction(proba) ELSE Best(proba)
  IN [label |-> label, confidence |-> proba[label]]

(* scenarios._context, and what each scenario overrides.                    *)
ScenarioContext ==
  [hot |-> FALSE, humid |-> FALSE, dry |-> FALSE, home |-> TRUE, predicted |-> 0,
   window |-> FALSE, overdue |-> FALSE, minutesAfter |-> 0, prev_state |-> 0,
   sinceChange |-> 1800, toggles2 |-> 0, toggles5 |-> 0, override |-> FALSE]
Scenario(device, confidence, ctx) ==
  [device |-> device, action |-> "turn_on", confidence |-> confidence, ctx |-> ctx]

PreArrivalHotDry ==
  Scenario(Dev("fan", "auto", "low"), 88,
    [ScenarioContext EXCEPT !.hot = TRUE, !.dry = TRUE, !.home = FALSE,
                            !.predicted = 15, !.window = TRUE])
HotHumidEvening ==
  Scenario(Dev("air_conditioner", "confirm", "medium"), 89,
    [ScenarioContext EXCEPT !.hot = TRUE, !.humid = TRUE])
WaterHeaterRoutine == Scenario(Dev("water_heater", "confirm", "high"), 91, ScenarioContext)
TvEvening == Scenario(Dev("tv", "confirm", "medium"), 90, ScenarioContext)
ArrivalOverdue ==
  Scenario(Dev("fan", "auto", "low"), 87,
    [ScenarioContext EXCEPT !.hot = TRUE, !.home = FALSE, !.predicted = -35,
                            !.overdue = TRUE, !.minutesAfter = 35])
ObserveOnly == Scenario(Dev("door_lock", "observe_only", "high"), 80, ScenarioContext)

SCENARIOS ==
  [PreArrivalHotDry |-> PreArrivalHotDry, HotHumidEvening |-> HotHumidEvening,
   WaterHeaterRoutine |-> WaterHeaterRoutine, TvEvening |-> TvEvening,
   ArrivalOverdue |-> ArrivalOverdue, ObserveOnly |-> ObserveOnly]
=============================================================================
