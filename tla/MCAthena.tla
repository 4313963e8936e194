------------------------------ MODULE MCAthena ------------------------------
(* A managed Athena run, for TLC: a behaviour is about the ticks of the    *)
(* scheduler (AthenaScheduler), or about the replacement of one worker     *)
(* that failed (ProviderFallback).  The two share no state: the part a     *)
(* behaviour is not about stays in its initial state.                      *)
EXTENDS MCAthenaScheduler, Replacement

CONSTANTS s1, s2, HasGemini, MaxDepth

VARIABLES about, scene, snap, teamFiles, handoffs, fallbackLock, claims,
          session, mishaps
replacement == <<scene, snap, alive, teamFiles, strays, record, output,
                 handoffs, fallbackLock, claims, caller, session, alarmed,
                 mishaps>>
all == <<about, vars, replacement>>

(* Two sessions race: over crashes and two mishaps; over rate limits of a   *)
(* Gemini worker and one mishap, and of a Codex worker and none.  One meets *)
(* every kind of failure on the longest chain.  A Claude worker.           *)
MCScenes ==
  { [prov |-> "codex", polls |-> {s1, s2}, failures |-> {}, mishaps |-> 2],
    [prov |-> "gemini", polls |-> {s1, s2}, failures |-> {"limit"}, mishaps |-> 1],
    [prov |-> "codex", polls |-> {s1, s2}, failures |-> {"limit"}, mishaps |-> 0],
    [prov |-> "codex", polls |-> {s1}, failures |-> {"network", "limit"},
      mishaps |-> 0],
    [prov |-> "claude", polls |-> {s1, s2}, failures |-> {"network", "other"},
      mishaps |-> 2] }

Fallback == INSTANCE ProviderFallback WITH
  Scenes <- MCScenes, file <- teamFiles, lock <- fallbackLock

AboutRun    == about = "run"    /\ UNCHANGED <<about, replacement>>
AboutWorker == about = "worker" /\ UNCHANGED <<about, vars>>

MCInit ==
  /\ Init /\ Fallback!Init
  /\ \/ about = "run" /\ scene.prov = "claude"
     \/ about = "worker"
MCNext == (AboutRun /\ Next) \/ (AboutWorker /\ Fallback!Next)

(* The fairness of AthenaScheduler and of ProviderFallback.                *)
MCSpec ==
  /\ MCInit /\ [][MCNext]_all
  /\ WF_all(AboutRun /\ Step) /\ SF_all(AboutRun /\ Begin("tick"))
  /\ \A s \in Stories : WF_all(AboutRun /\ Worker(s))
  /\ \A p \in Callers :
       /\ WF_all(AboutWorker /\ p \in scene.polls /\ Fallback!Step(p))
       /\ SF_all(AboutWorker /\ Fallback!LinkLock(p))
  /\ WF_all(AboutWorker /\ \E n \in alive :
              Fallback!WorkerEnds(n) \/ Fallback!WorkerDies(n))

(* RunEnds and FallbackEnds, as one formula: a run that is ticked ends, and *)
(* a failed worker is replaced until there is an answer.  The exceptions   *)
(* are theirs: for a run, an empty scheduler lock or a host that has no    *)
(* capacity again and again; for a worker, those of Settled, or launches   *)
(* that throw again and again.                                             *)
WorkEnds ==
  \/ <>(IF about = "run" THEN file.status \in Ended ELSE Fallback!Settled)
  \/ <>[](about = "run" /\ pc = "idle" /\ lock = "bare")
  \/ []<>(IF about = "run" THEN file.status = "waiting_capacity"
          ELSE Fallback!Threw)
=============================================================================
