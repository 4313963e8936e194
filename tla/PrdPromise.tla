----------------------------- MODULE PrdPromise -----------------------------
(***************************************************************************)
(* What the plan of a project (spec.md and prd.json) promises to the       *)
(* commands that change it, whatever locks and journals it is kept with:   *)
(* both files change together, a change is made once and from the state    *)
(* its author has read, and what a command is told is true.                *)
(***************************************************************************)
EXTENDS Naturals

CONSTANTS Procs,  \* one process per command
          None    \* no prd.json

(* What the commands ask for; it never changes.                            *)
VARIABLES
  content, \* content[p]: the two files that p writes, None if it does not
  change   \* change[p][d]: the prd.json that p makes of d, None if it may not

VARIABLES
  pair,    \* the two files, a record of spec and prd
  basis,   \* the prd.json each command has read and acts on
  prior,   \* what each writer has replaced and can put back
  served,  \* the commands that had their effect
  told     \* what each was told: nothing yet ("no"), "ok" or "failed"
vars == <<pair, basis, prior, served, told>>

Init ==
  /\ basis = [p \in Procs |-> None] /\ prior = [p \in Procs |-> None]
  /\ served = {} /\ told = [p \in Procs |-> "no"]

(* A command that failed is given again.                                   *)
Ask(p) ==
  /\ told[p] = "failed" /\ told' = [told EXCEPT ![p] = "no"]
  /\ UNCHANGED <<pair, basis, prior, served>>

(* A command reads prd.json.                                               *)
Look(p) ==
  /\ told[p] = "no" /\ basis' = [basis EXCEPT ![p] = pair.prd]
  /\ UNCHANGED <<pair, prior, served, told>>

(* It finds there what it wants.                                           *)
Find(p) ==
  /\ told[p] = "no" /\ served' = served \cup {p}
  /\ told' \in {told, [told EXCEPT ![p] = "ok"]}
  /\ basis' \in {basis, [basis EXCEPT ![p] = None]}
  /\ UNCHANGED <<pair, prior>>

(* Both files are replaced, or put back by a writer that fails.            *)
Write(p) ==
  /\ told[p] = "no" /\ content[p] # None
  /\ pair' = content[p] /\ prior' = [prior EXCEPT ![p] = pair]
  /\ served' \in {served, served \cup {p}}
  /\ UNCHANGED <<basis, told>>
Withdraw(p) ==
  /\ told[p] = "no" /\ prior[p] # None /\ pair = content[p]
  /\ pair' = prior[p] /\ prior' = [prior EXCEPT ![p] = None]
  /\ served' = served \ {p}
  /\ UNCHANGED <<basis, told>>

(* prd.json is changed, from what the command has read.                    *)
Set(p) ==
  /\ told[p] = "no" /\ p \notin served /\ basis[p] = pair.prd
  /\ change[p][pair.prd] # None
  /\ pair' = [pair EXCEPT !.prd = change[p][pair.prd]]
  /\ served' = served \cup {p}
  /\ UNCHANGED <<basis, prior, told>>

(* A command is told how it ended, or just ends.                           *)
Tell(p) ==
  /\ told[p] = "no" /\ told'[p] \in {"no", "ok", "failed"}
  /\ told' = [told EXCEPT ![p] = told'[p]]
  /\ told'[p] = "ok" => p \in served
  /\ basis' \in {basis, [basis EXCEPT ![p] = None]}
  /\ served' \in {served, served \ {p}}
  /\ UNCHANGED <<pair, prior>>

(* What a writer had replaced is removed, by itself or by another.         *)
Discard(S) ==
  /\ prior' = [p \in Procs |-> IF p \in S THEN None ELSE prior[p]]
  /\ UNCHANGED <<pair, basis, served, told>>

Next == \/ \E S \in SUBSET Procs : Discard(S)
        \/ \E p \in Procs : Ask(p) \/ Look(p) \/ Find(p) \/ Write(p)
                             \/ Withdraw(p) \/ Set(p) \/ Tell(p)
=============================================================================
