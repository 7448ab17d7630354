------------------------------- MODULE BridgeMC -------------------------------
(***************************************************************************)
(* One message a rule translates and one that no rule does.                *)
(***************************************************************************)
EXTENDS Bridge

CONSTANTS m1, m2

TwoMessages == {m1, m2}
OneMapped == {m1}
=============================================================================
