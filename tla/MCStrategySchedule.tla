-------------------------- MODULE MCStrategySchedule --------------------------
(***************************************************************************)
(* StrategySchedule for TLC.                                               *)
(***************************************************************************)
EXTENDS StrategySchedule
=============================================================================
