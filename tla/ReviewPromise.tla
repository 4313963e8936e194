--------------------------- MODULE ReviewPromise ---------------------------
(***************************************************************************)
(* What the review gate of a run promises, whatever files it keeps: one    *)
(* round of verification at a time, about one tree, one plan and one       *)
(* parent commit; a new round voids everything of the one before; nothing  *)
(* is accepted but what every story was verified on, in a round begun      *)
(* since the phase was entered; and the history of the repository only     *)
(* grows, but for an attempt of the run that is taken back.                *)
(***************************************************************************)
EXTENDS Sequences, Naturals

CONSTANTS Stories, None

VARIABLES
  history,  \* the commits of the branch, each with its tree and author
  stage,    \* verify, review, finalize, done or closed
  round,    \* number and subject of the current round; None before the first
  fresh,    \* it was begun since verify or finalize was entered
  verified, \* the stories that were recorded in this round
  approved, \* what was approved in this round
  shipped   \* the commit the run has finished with
vars == <<history, stage, round, fresh, verified, approved, shipped>>

Init ==
  /\ history # <<>> /\ stage = "verify" /\ round = None /\ fresh = FALSE
  /\ verified = {} /\ approved = {} /\ shipped = None

BeginRound ==
  /\ round' # None /\ round'.subject = None
  /\ round # None => round'.number > round.number
  /\ fresh' = TRUE /\ verified' = {} /\ approved' = {}
  /\ UNCHANGED <<history, stage, shipped>>

(* The subject of a round is fixed once.                                   *)
FixSubject ==
  /\ round # None /\ round.subject = None /\ round' # None
  /\ round' = [round EXCEPT !.subject = round'.subject]
  /\ UNCHANGED <<history, stage, fresh, verified, approved, shipped>>

Verify(s) ==
  /\ round # None /\ round.subject # None /\ s \notin verified /\ approved = {}
  /\ verified' = verified \cup {s}
  /\ UNCHANGED <<history, stage, round, fresh, approved, shipped>>

Approve ==
  /\ round # None /\ round.subject # None /\ fresh /\ verified = Stories
  /\ stage = (IF round.phase = "review" THEN "review" ELSE "finalize")
  /\ approved' = approved \cup {round.subject}
  /\ UNCHANGED <<history, stage, round, fresh, verified, shipped>>

(* The phases of the run.                                                  *)
Pass ==
  /\ stage = "verify" /\ fresh /\ round.phase = "review" /\ verified = Stories
  /\ stage' = "review"
  /\ UNCHANGED <<history, round, fresh, verified, approved, shipped>>
Accept ==
  /\ stage = "review" /\ fresh /\ round.phase = "review" /\ approved # {}
  /\ stage' = "finalize" /\ fresh' = FALSE
  /\ UNCHANGED <<history, round, verified, approved, shipped>>
Rework ==
  /\ stage \in {"verify", "review", "finalize"}
  /\ stage' = "verify" /\ fresh' = FALSE
  /\ UNCHANGED <<history, round, verified, approved, shipped>>
IsPrefixOf(s, t) == Len(s) <= Len(t) /\ s = SubSeq(t, 1, Len(s))
Finish ==
  /\ stage = "finalize" /\ fresh /\ round.phase = "final-review"
  /\ \E x \in approved :
       shipped' = Append(x.head, [tree |-> x.tree, by |-> <<"run", round.number>>])
  /\ IsPrefixOf(shipped', history)
  /\ stage' = "done"
  /\ UNCHANGED <<history, round, fresh, verified, approved>>
Close ==
  /\ stage = "done" /\ stage' = "closed" /\ IsPrefixOf(shipped, history)
  /\ UNCHANGED <<history, round, fresh, verified, approved, shipped>>

(* The run commits nothing but a tree that was approved for it, the first  *)
(* time on top of what was approved; hooks and people commit what they     *)
(* like.                                                                   *)
ByOthers == {<<"user", 0>>, <<"hook", 0>>}
Extend ==
  LET c == history'[Len(history')] IN
  /\ Len(history') = Len(history) + 1 /\ IsPrefixOf(history, history')
  /\ c.by \notin ByOthers =>
       stage = "finalize" /\ \E x \in approved : x.tree = c.tree
  /\ UNCHANGED <<stage, round, fresh, verified, approved, shipped>>
(* Only its own last attempt is taken back.                                *)
Withdraw ==
  /\ round # None /\ history[Len(history)].by = <<"mutated", round.number>>
  /\ history' = SubSeq(history, 1, Len(history) - 1)
  /\ UNCHANGED <<stage, round, fresh, verified, approved, shipped>>

Next == \/ BeginRound \/ FixSubject \/ Pass \/ Accept \/ Rework \/ Finish
        \/ Close \/ Approve \/ Extend \/ Withdraw
        \/ \E s \in Stories : Verify(s)
=============================================================================
