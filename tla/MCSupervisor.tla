---------------------------- MODULE MCSupervisor ----------------------------
(* The supervisor of a worker, for TLC: a behaviour is about the processes *)
(* around it (RuntimeTree), or about the turns of its session adapter      *)
(* (SessionAdapter).  The two share no state: the part a behaviour is not  *)
(* about stays in its initial state.                                       *)
EXTENDS MCRuntimeTree, SessionAdapter

VARIABLE about
all == <<about, vars, sessionVars>>

(* Two of: a command, a timer that fires early, the loss of the server.    *)
Plan(k, c, l, x) == [kind |-> k, calls |-> c, late |-> l, losses |-> x]
MCPlans == UNION {{Plan(k, 1, 1, 0), Plan(k, 0, 1, 1), Plan(k, 1, 0, 1)} :
                    k \in {"codex", "gemini", "acp"}}

AboutTree  == about = "tree"  /\ UNCHANGED <<about, sessionVars>>
AboutTurns == about = "turns" /\ UNCHANGED <<about, vars>>

MCInit ==
  /\ Init /\ SessionInit
  /\ \/ about = "tree" /\ plan = Plan("codex", 1, 1, 0)
     \/ about = "turns"
MCNext == (AboutTree /\ Next) \/ (AboutTurns /\ SessionNext)

(* The fairness of RuntimeTree and of SessionAdapter.                      *)
MCSpec ==
  /\ MCInit /\ [][MCNext]_all
  /\ WF_all(AboutTree /\ Shutdown)
  /\ WF_all(AboutTurns /\ (Task \/ CommandDone))
  /\ WF_all(AboutTurns /\ Deliver)
  /\ WF_all(AboutTurns /\ Exited)
  /\ WF_all(AboutTurns /\ Timeout)
  /\ WF_all(AboutTurns /\ (Serve \/ Work))

(* StopEnds and TurnEnds: a stop ends with the capacity given back, and    *)
(* every assignment gets a result, whatever its server does.               *)
WorkStops == StopEnds /\ TurnEnds
=============================================================================
