---------------------------- MODULE MCTurnBudget ----------------------------
(* A budget of one turn, its three spare iterations, replies of up to two   *)
(* calls and a channel that fills up.                                       *)
EXTENDS TurnBudget
=============================================================================
