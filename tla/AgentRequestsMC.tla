-------------------------- MODULE AgentRequestsMC --------------------------
(***************************************************************************)
(* The candidates of agent/scenarios.py, one for each decision, with one   *)
(* API thread, one live predictor and one command line.                    *)
(***************************************************************************)
EXTENDS AgentRequests

CONSTANTS api, predictor, cli

Context(home, late, window) ==
  [prev_state |-> 0, overdue |-> late, minutesAfter |-> IF late THEN 35 ELSE 0,
   home |-> home, override |-> FALSE, toggles2 |-> 0, toggles5 |-> 0,
   sinceChange |-> 1800, window |-> window, predicted |-> IF window THEN 15 ELSE 0,
   hot |-> FALSE, humid |-> FALSE, dry |-> window]
Scenario(device, ctx) ==
  [device |-> device, action |-> "turn_on", confidence |-> 88, ctx |-> ctx]
MCCandidate ==
  {Scenario(Policy!Dev("fan", "auto", "low"), Context(FALSE, FALSE, TRUE)),
   Scenario(Policy!Dev("fan", "auto", "low"), Context(FALSE, TRUE, FALSE)),
   Scenario(Policy!Dev("water_heater", "confirm", "high"), Context(TRUE, FALSE, FALSE)),
   Scenario(Policy!Dev("door_lock", "observe_only", "high"), Context(TRUE, FALSE, FALSE))}
MCServer == {api}
MCPredictor == {predictor}
MCCli == {cli}
=============================================================================
