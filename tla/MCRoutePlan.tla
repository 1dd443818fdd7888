------------------------------ MODULE MCRoutePlan ------------------------------
(* Instances of RoutePlan for TLC; the constants are given in the cfg files.   *)
(* RoutePlan.cfg lets writes fail and the process and the vehicle crash,       *)
(* RoutePlanEdits.cfg edits longer plans without faults.                       *)
EXTENDS RoutePlan
================================================================================
