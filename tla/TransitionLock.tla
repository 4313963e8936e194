--------------------------- MODULE TransitionLock ---------------------------
(***************************************************************************)
(* The lock that run and pipeline transitions share                        *)
(* (run-finalization-lock.mjs): a directory with an owner.json in it, put  *)
(* in place by a rename and taken away by an unlink and an rmdir.  Nobody  *)
(* waits for it.  The lock of a process that died is removed by the one    *)
(* who holds the recovery claim for that very owner (recovery-claim.mjs);  *)
(* the claim of a claimant that died passes to a successor.                *)
(***************************************************************************)
EXTENDS Naturals

CONSTANTS Procs,   \* processes, each runs one command at a time
          Locks    \* the directories that are locked

ASSUME ProcAssumption == Procs \cap {"free", "empty", "dead", "none"} = {}

VARIABLES lock,    \* for each: its owner, or "free", "empty" or "dead"
          claim    \* recovery claim for its dead owner: holder, "none", "dead"

LockInit == lock = [l \in Locks |-> "free"] /\ claim = [l \in Locks |-> "none"]

Own(p, l) == lock[l] = p

(* The rename of a prepared directory replaces nothing or an empty one.    *)
Take(p, l) ==
  /\ lock[l] \in {"free", "empty"}
  /\ lock' = [lock EXCEPT ![l] = p] /\ claim' = [claim EXCEPT ![l] = "none"]

(* Bug: whoever finds the owner dead goes on to remove its lock.           *)
Win_Unclaimed(p, l) == lock[l] = "dead" /\ UNCHANGED <<lock, claim>>

(* A claim is for one owner of the lock, and is published without          *)
(* replacing one; the chain of claims ends at a claimant that lives.       *)
Win(p, l) ==
  /\ lock[l] = "dead" /\ claim[l] \in {"none", "dead"}
  /\ claim' = [claim EXCEPT ![l] = p] /\ UNCHANGED lock

Denied(p, l) ==
  \/ lock[l] \in Procs
  \/ lock[l] = "dead" /\ claim[l] \in Procs

(* removeOwnedLock: the owner.json goes first, the directory second.       *)
UnlinkOwner(l) == lock' = [lock EXCEPT ![l] = "empty"] /\ UNCHANGED claim
RemoveLock(l)  == lock' = [lock EXCEPT ![l] = "free"] /\ UNCHANGED claim

(* Its process dies: the files stay as they are.                           *)
Abandon(p) ==
  /\ lock'  = [l \in Locks |-> IF lock[l] = p THEN "dead" ELSE lock[l]]
  /\ claim' = [l \in Locks |-> IF claim[l] = p THEN "dead" ELSE claim[l]]
=============================================================================
