-------------------------- MODULE MCTurnSettlement --------------------------
(***************************************************************************)
(* TurnSettlement for TLC: its constants are model values.                 *)
(***************************************************************************)
EXTENDS TurnSettlement
=============================================================================
