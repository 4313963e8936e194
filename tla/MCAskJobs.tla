------------------------------ MODULE MCAskJobs ------------------------------
(* AskJobs, with the bounds of AskJobs.cfg, for TLC. *)
EXTENDS AskJobs
=============================================================================
