--------------------------- MODULE MCRunAdmission ---------------------------
(* Two commands at a time, of either orchestrator, on up to two runs.      *)
EXTENDS RunAdmission

MCLocks == 0 .. MaxRuns

Plan(r, h, c, l) == [resumes |-> r, hooks |-> h, crashes |-> c, lost |-> l]
MCPlans == {Plan(1, 1, 0, 0), Plan(1, 0, 1, 0), Plan(0, 1, 1, 0),
            Plan(0, 0, 1, 1)}
=============================================================================
