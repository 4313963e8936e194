-------------------------------- MODULE MCRun --------------------------------
(* Runs, for TLC: a behaviour is about how they are admitted, recovered and *)
(* ended (RunAdmission), or about what one of them accepts and commits      *)
(* (ReviewEvidence).  The two share no state: the part a behaviour is not   *)
(* about stays in its initial state.                                        *)
EXTENDS MCRunAdmission, ReviewEvidence

CONSTANTS s1, t1, t2

VARIABLE about
all == <<about, vars, reviewVars>>

(* Any two mishaps of eight kinds, at any moment.                           *)
MCScenes ==
  { [host |-> "p", mishaps |-> 2,
     kinds |-> {"edit", "stage", "commit", "replan", "crash", "fail", "hook",
                "any"}] }

AboutAdmission == about = "admission" /\ UNCHANGED <<about, reviewVars>>
AboutReview    == about = "review"    /\ UNCHANGED <<about, vars>>

MCInit ==
  /\ Init /\ ReviewInit
  /\ about \in {"admission", "review"} /\ tree = t1  \* of two that are alike
MCNext == (AboutAdmission /\ Next) \/ (AboutReview /\ ReviewNext)

(* The fairness of RunAdmission and of ReviewEvidence.                      *)
MCSpec ==
  /\ MCInit /\ [][MCNext]_all
  /\ \A p \in Procs : WF_all(\/ AboutAdmission /\ Step(p)
                             \/ AboutReview /\ GoOn(p))
  /\ \A r \in Runs : SF_all(AboutAdmission /\ Retry(r))
  /\ WF_all(AboutReview /\ Drive)

(* A run whose host gives the commands it needs is closed in the end.       *)
ReviewEnds == about = "review" => ReviewComesToAnEnd
=============================================================================
