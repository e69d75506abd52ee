---------------------------- MODULE MCSessionCore ----------------------------
(***************************************************************************)
(* Instances of SessionCore for TLC.                                       *)
(***************************************************************************)
EXTENDS SessionCore

(* Everything that can go wrong but a stamp that goes back, without which   *)
(* there is no timeline.                                                    *)
MCStampsHold == AnomalyNames \ {"regressedStamp"}
=============================================================================
