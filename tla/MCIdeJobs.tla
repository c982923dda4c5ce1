------------------------------ MODULE MCIdeJobs ------------------------------
(* IdeJobs for TLC: its constants are numbers, given in the configurations. *)
EXTENDS IdeJobs
=============================================================================
