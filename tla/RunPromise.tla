----------------------------- MODULE RunPromise -----------------------------
(***************************************************************************)
(* What a run promises to whoever started it, with its files and commands  *)
(* left out: phases are finished one at a time, a step back is paid for    *)
(* before it is taken, by an attempt or by a policy rewind that was        *)
(* granted, neither budget ever grows, success is given only when nothing  *)
(* is left to do, and a verdict is given once and ends everything.  The    *)
(* budget of rewinds is kept until the account of the grants has lapsed.   *)
(***************************************************************************)
EXTENDS Naturals

CONSTANTS Length,    \* phases of the longest pipeline
          Attempts,  \* attempts that can be paid for
          Grants     \* policy rewinds that can be granted

VARIABLES left,      \* phases that are not terminal
          attempts,  \* attempts that were charged
          grants,    \* policy rewinds that were granted
          lapsed,    \* a grant may have been lost from the account
          undone,    \* steps back that were taken
          verdict    \* "none", "success" or "failure"
vars == <<left, attempts, grants, lapsed, undone, verdict>>

Init ==
  /\ left \in 1 .. Length /\ attempts = 0 /\ grants = 0 /\ undone = 0
  /\ lapsed = FALSE /\ verdict = "none"

Advance ==
  /\ verdict = "none" /\ left > 0 /\ left' = left - 1
  /\ UNCHANGED <<attempts, grants, lapsed, undone, verdict>>
Attempt ==
  /\ verdict = "none" /\ attempts < Attempts /\ attempts' = attempts + 1
  /\ UNCHANGED <<left, grants, lapsed, undone, verdict>>

(* Nothing comes of a grant after the verdict.                             *)
Grant ==
  /\ grants < Grants \/ lapsed'
  /\ grants' = grants + 1 /\ lapsed' \in {lapsed, TRUE}
  /\ UNCHANGED <<left, attempts, undone, verdict>>
Lapse ==
  /\ lapsed' = TRUE
  /\ UNCHANGED <<left, attempts, grants, undone, verdict>>

StepBack ==
  /\ verdict = "none" /\ undone < attempts + grants /\ undone' = undone + 1
  /\ left' \in left .. Length
  /\ UNCHANGED <<attempts, grants, lapsed, verdict>>
Succeed ==
  /\ verdict = "none" /\ left = 0 /\ verdict' = "success"
  /\ UNCHANGED <<left, attempts, grants, lapsed, undone>>
Fail ==
  /\ verdict = "none" /\ left > 0 /\ verdict' = "failure"
  /\ UNCHANGED <<left, attempts, grants, lapsed, undone>>

Next == Advance \/ Attempt \/ Grant \/ Lapse \/ StepBack \/ Succeed \/ Fail
Spec == Init /\ [][Next]_vars
=============================================================================
