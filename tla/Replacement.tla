---------------------------- MODULE Replacement ----------------------------
(***************************************************************************)
(* What the replacement of a failed worker promises: the part of the state *)
(* of ProviderFallback that its safety is about, and the properties.       *)
(***************************************************************************)
EXTENDS Naturals, FiniteSets

CONSTANT Callers          \* the sessions

VARIABLES alive,    \* the attempts whose processes live
          strays,   \* workers launched by a caller that died before the file
          record,   \* provider-fallback-<id>.json
          output,   \* artifacts/provider-fallback/<id>.json: whose answer
          caller,   \* where each session is
          alarmed   \* history: a live worker was taken for dead

(* Completed, and its output is the one the record names.                  *)
Completed == record.status = "completed" /\ output = record.token

(* The native Claude tasks that run.                                       *)
Tasks == {p \in Callers : caller[p].pc = "task"}

(* One agent works in the worktree of the failed worker, however many      *)
(* sessions poll and whoever of them dies, unless a live worker was taken  *)
(* for dead or a worker runs that no team file names.  (What is stopped    *)
(* after a false alarm says "cancelled" from then on, and the next poll    *)
(* plans something else than the first.)                                   *)
OneReplacement ==
  ~alarmed /\ strays = 0 => Cardinality(alive) + Cardinality(Tasks) <= 1

(* The lock of a dead owner is taken over by one: the recovery claims let  *)
(* no two callers into the part that dispatches and completes.             *)
OneInside ==
  \A p, q \in Callers :
    {caller[p].pc, caller[q].pc} \subseteq {"inside", "save", "record", "done",
                                           "threw", "follow", "begin"} => p = q

(* When the answer is there nobody starts the task again, a caller that    *)
(* had looked before included.                                             *)
NoWorkAfterAnswer ==
  [][Completed /\ ~alarmed => alive' \subseteq alive /\ Tasks' \subseteq Tasks]_<<alive, caller>>
=============================================================================
