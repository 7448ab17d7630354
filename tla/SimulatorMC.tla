---------------------------- MODULE SimulatorMC -----------------------------
(***************************************************************************)
(* Two requests at a time: two evaluations, an evaluation and a change of  *)
(* the context, two manual actions on one device.                          *)
(***************************************************************************)
EXTENDS Simulator, TLC

Payload1(arrival, predicted, after, home, hum) ==
  [DEFAULT_SIM_CONTEXT EXCEPT !.arrival = arrival, !.predicted = predicted,
     !.after = after, !.home = home, !.lrHum = hum, !.brHum = hum]

(* Away; about to come, with the hot and dry room of the scenarios; at home *)
(* after the hour, at the very boundary of 20 minutes; and late.            *)
MCContext ==
  {Payload1("normal", NoNumber, 0, FALSE, 60),
   Payload1("pre_arrival", 10, 0, FALSE, 60),
   Payload1("normal", NoNumber, 20, TRUE, 60),
   [Payload1("normal", NoNumber, 0, TRUE, 60) EXCEPT !.hour = 20],
   Payload1("arrival_overdue", NoNumber, 0, FALSE, 60)}

MCThreads == Permutations(Thread)
=============================================================================
