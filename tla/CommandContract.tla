--------------------------- MODULE CommandContract ---------------------------
(***************************************************************************)
(* What a mailbox promises the one who submits a command                   *)
(* (scripts/lib/supervisor-mailbox.mjs, persistent-worker.mjs): what was   *)
(* published under an id stays, it is run at most once and not before it   *)
(* was accepted, and its answer is final.                                  *)
(***************************************************************************)
EXTENDS Naturals

CONSTANTS Ids, Contents

VARIABLES content,  \* id -> what was published under it, or "none"
          answer,   \* id -> "none", "accepted" or a final status
          runs      \* id -> how often it was executed

vars == <<content, answer, runs>>

Final == {"completed", "failed", "cancelled", "rejected"}

Init ==
  /\ content = [c \in Ids |-> "none"]
  /\ answer = [c \in Ids |-> "none"]
  /\ runs = [c \in Ids |-> 0]

Publish(c) ==
  /\ content[c] = "none"
  /\ \E x \in Contents : content' = [content EXCEPT ![c] = x]
  /\ UNCHANGED <<answer, runs>>

Accept(c) ==
  /\ content[c] # "none" /\ answer[c] = "none"
  /\ answer' = [answer EXCEPT ![c] = "accepted"]
  /\ UNCHANGED <<content, runs>>

Run(c) ==
  /\ answer[c] = "accepted" /\ runs[c] = 0
  /\ runs' = [runs EXCEPT ![c] = 1]
  /\ UNCHANGED <<content, answer>>

Conclude(c) ==
  /\ content[c] # "none" /\ answer[c] \notin Final
  /\ \E f \in Final : answer' = [answer EXCEPT ![c] = f]
  /\ UNCHANGED <<content, runs>>

Next == \E c \in Ids : Publish(c) \/ Accept(c) \/ Run(c) \/ Conclude(c)

Spec == Init /\ [][Next]_vars
=============================================================================
