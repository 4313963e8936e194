---------------------------- MODULE RunRegistry ----------------------------
(***************************************************************************)
(* What a project promises about its runs: Atlas and Athena work in one    *)
(* tree, so one run is active at a time; a run ends once, and is never     *)
(* made active again; from its end on its records stay as they are, but    *)
(* for one seal; and the active run stops being so only when it has ended, *)
(* or when its pointer file was lost.                                      *)
(***************************************************************************)
EXTENDS Naturals, FiniteSets

CONSTANT Runs

VARIABLES active,  \* the runs that a pointer names
          ended,   \* the runs with a terminal summary
          sealed,  \* the runs with a final event
          book,    \* what is on record of each run
          lost     \* pointer files that were lost
vars == <<active, ended, sealed, book, lost>>

Init == active = {} /\ ended = {} /\ sealed = {} /\ lost = 0

Open ==
  /\ active = {}
  /\ \E r \in Runs \ ended : active' = {r}
  /\ UNCHANGED <<ended, sealed, book, lost>>
Work ==
  /\ \E r \in Runs \ ended : \A x \in Runs \ {r} : book'[x] = book[x]
  /\ UNCHANGED <<active, ended, sealed, lost>>
End ==
  /\ \E r \in Runs \ ended :
       (r \in active \/ lost > 0) /\ ended' = ended \cup {r}
  /\ UNCHANGED <<active, sealed, book, lost>>
Seal ==
  /\ \E r \in ended \ sealed : sealed' = sealed \cup {r}
  /\ UNCHANGED <<active, ended, book, lost>>
Close ==
  /\ active # {} /\ active \subseteq ended
  /\ active' = {}
  /\ UNCHANGED <<ended, sealed, book, lost>>
Lose ==
  /\ active # {} /\ active' = {} /\ lost' = lost + 1
  /\ UNCHANGED <<ended, sealed, book>>

Next == Open \/ Work \/ End \/ Seal \/ Close \/ Lose
Spec == Init /\ [][Next]_vars
=============================================================================
