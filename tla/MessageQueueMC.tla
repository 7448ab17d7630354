--------------------------- MODULE MessageQueueMC ---------------------------
(***************************************************************************)
(* Two producers and two consumers (the program has one of each: two of    *)
(* each make the queue itself face contention), two messages, and a ring   *)
(* of two slots that wraps, fills and empties.                             *)
(***************************************************************************)
EXTENDS MessageQueue

CONSTANTS p1, p2, c1, c2, m1, m2

TwoProducers == {p1, p2}
TwoConsumers == {c1, c2}
TwoMessages == {m1, m2}
=============================================================================
