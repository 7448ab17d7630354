--------------------------- MODULE MatterClientMC ---------------------------
(***************************************************************************)
(* Two handles: a live connection and an older attempt beside it.          *)
(***************************************************************************)
EXTENDS MatterClient

CONSTANTS h1, h2

TwoHandles == {h1, h2}
=============================================================================
