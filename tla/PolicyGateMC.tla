---------------------------- MODULE PolicyGateMC ----------------------------
(***************************************************************************)
(* Inputs of PolicyGate.evaluate on both sides of each boundary of its     *)
(* tests; the scenarios, as they are and with what may have happened       *)
(* lately; and the model's probabilities.                                  *)
(***************************************************************************)
EXTENDS PolicyUse, Functions

(* The boundaries: 19/20 minutes, 9/10/15/16 minutes, 299/300 s, 69/70 %.   *)
Quiet == {<<FALSE, 0, 0, 300>>, <<TRUE, 0, 0, 300>>, <<FALSE, 1, 1, 300>>,
          <<FALSE, 0, 1, 300>>, <<FALSE, 0, 2, 300>>, <<FALSE, 0, 0, 299>>}
MCLately ==
  {[override |-> q[1], toggles2 |-> q[2], toggles5 |-> q[3], sinceChange |-> q[4],
    prev_state |-> p] : q \in Quiet, p \in {0, 1}}
MCConfidences == {69, 100}
Contexts ==
  {[prev_state |-> p, overdue |-> o, minutesAfter |-> m, home |-> h,
    override |-> q[1], toggles2 |-> q[2], toggles5 |-> q[3], sinceChange |-> q[4],
    window |-> w[1], predicted |-> w[2], hot |-> e[1], humid |-> e[2], dry |-> e[3]] :
     p \in {0, 1}, o \in BOOLEAN, m \in {19, 20}, h \in BOOLEAN, q \in Quiet,
     w \in {<<FALSE, 12>>, <<TRUE, 9>>, <<TRUE, 10>>, <<TRUE, 15>>, <<TRUE, 16>>},
     e \in {<<FALSE, FALSE, FALSE>>, <<TRUE, FALSE, FALSE>>, <<TRUE, FALSE, TRUE>>,
            <<TRUE, TRUE, FALSE>>, <<FALSE, FALSE, TRUE>>, <<FALSE, TRUE, TRUE>>}}
MCInputs ==
  {[device |-> d, action |-> a, confidence |-> c, ctx |-> x] :
     d \in {Dev("light", "auto", "low"), Dev("fan", "auto", "low"),
            Dev("tv", "confirm", "medium"), Dev("water_heater", "confirm", "high"),
            Dev("door_lock", "observe_only", "high"), NoDevice},
     a \in {"turn_on", "turn_off", "no_action"}, c \in {69, 70}, x \in Contexts}

Total(p) == FoldFunction(LAMBDA a, b : a + b, 0, p)

(* Sure, in doubt, and on both sides of a quarter; some model has never     *)
(* seen one of the labels.                                                  *)
MCProbas ==
  {p \in UNION {[L -> {0, 15, 24, 25, 26, 30, 50, 51, 69, 70, 75, 100}] :
                L \in {{"no_action", "turn_on", "turn_off"}, {"no_action", "turn_on"},
                       {"no_action", "turn_off"}, {"turn_on", "turn_off"}}} :
     Total(p) = 100}
=============================================================================
