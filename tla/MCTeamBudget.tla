---------------------------- MODULE MCTeamBudget ----------------------------
(* Instances of TeamBudget for TLC; the .cfg files give the bounds. *)
EXTENDS TeamBudget

NoAllowances == <<>>
=============================================================================
