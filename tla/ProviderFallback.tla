-------------------------- MODULE ProviderFallback --------------------------
(***************************************************************************)
(* What replaces a worker that failed (worker-spawn.mjs, the provider      *)
(* fallback part, and recovery-claim.mjs): a poll plans the next provider, *)
(* stops what is left of the failed worker, and dispatches a replacement   *)
(* that works in the same worktree, either a child team or a native Claude *)
(* task of the session itself.  The child may fail too, and is replaced in *)
(* turn.                                                                   *)
(*                                                                         *)
(* A caller is a session of the orchestrator that runs the monitor step of *)
(* its skill (skills/athena/SKILL.md) again and again, in a new process    *)
(* each time; another session that resumes the run does the same.  What    *)
(* they share is the handoff record and its output, a lock per handoff,    *)
(* and a team file per child team.                                         *)
(***************************************************************************)
EXTENDS Replacement, Sequences

CONSTANTS HasGemini,      \* capabilities: a Gemini adapter is there
          Scenes,         \* bound: the provider of the failed worker (prov),
                          \* the error categories that occur but "crash"
                          \* (failures), the sessions that poll (polls), how
                          \* often one of them dies, runs into a timeout or
                          \* takes a live worker for dead (mishaps)
          MaxDepth        \* how many replacements one poll follows

Providers == {"codex", "gemini", "claude"}

VARIABLES scene,    \* which of the scenes this is
          snap,     \* what the snapshot of each launched attempt says
          file,     \* the child teams with a team file
          handoffs, \* claims of a native task so far
          lock,     \* provider-fallback-<id>.lock: its owner
          claims,   \* the chain of recovery claims for each dead owner
          session,  \* incarnation of each session
          mishaps   \* bound
work   == <<scene, snap, alive, file, strays>>
answer == <<record, output, handoffs>>
guard  == <<lock, claims>>
fate   == <<session, alarmed, mishaps>>
vars   == <<work, answer, guard, caller, fate>>

----------------------------------------------------------------------------
(* Attempts, and the plan for the next one                                 *)

Attempt(p, u, c) == [prov |-> p, unavail |-> u, crash |-> c]
NoAttempt == Attempt("none", 0, 0)
Handoff   == Attempt("claude", 0, 0)

(* A team is named by the chain of attempts that led to it: its name is a  *)
(* digest of its parent's run and of the plan.                             *)
Last(n) == n[Len(n)]

(* A network failure or timeout is counted once per execution.             *)
Counted(a, c) == IF c = "network" THEN [a EXCEPT !.unavail = @ + 1] ELSE a
Exhausted(a, c) == c = "limit" \/ (c = "network" /\ a.unavail >= 2)
Retried(a, c) ==
  \/ c = "network" /\ a.unavail < 2
  \/ c = "crash" /\ a.crash < 1 /\ a.prov \in {"codex", "gemini"}

Fresh(a, c) ==
  Attempt(IF Exhausted(a, c) /\ a.prov = "codex" /\ HasGemini THEN "gemini"
          ELSE IF a.prov = "claude" THEN "none" ELSE "claude", 0, 0)

Plan(a, c) ==
  LET b == Counted(a, c)
  IN  IF ~Retried(b, c) THEN Fresh(b, c)
      ELSE IF b.prov = "claude" THEN Handoff
      ELSE IF c = "crash" THEN [b EXCEPT !.crash = @ + 1] ELSE b

Root == <<Attempt(scene.prov, 0, 0)>>
Failures == scene.failures
MaxMishaps == scene.mishaps

----------------------------------------------------------------------------
(* The files                                                               *)

NoClaim  == <<>>
Nobody   == [who |-> "none", life |-> 0]
Me(p)    == [who |-> p, life |-> session[p]]
Gone(o)  == o # Nobody /\ session[o.who] # o.life

At(p) == caller[p].at
Idle  == [pc |-> "idle", aim |-> "none", at |-> <<>>, cause |-> "none",
          next |-> NoAttempt, depth |-> 0, gen |-> Nobody]

Polling(p) == caller[p].pc \in {"idle", "exceeded"}

Go(p, pc) == caller' = [caller EXCEPT ![p].pc = pc]
Stop(p)   == caller' = [caller EXCEPT ![p] = Idle]

Init ==
  /\ scene \in Scenes
  /\ snap = [n \in {Root} |-> "running"]
  /\ alive = {Root} /\ file = {} /\ strays = 0
  /\ record = [status |-> "none", token |-> NoClaim]
  /\ output = NoClaim /\ handoffs = 0
  /\ lock = Nobody
  /\ claims = [o \in {} |-> <<>>]
  /\ caller = [p \in Callers |-> Idle]
  /\ session = [p \in Callers |-> 1]
  /\ alarmed = FALSE /\ mishaps = 0

----------------------------------------------------------------------------
(* monitorTeam: the snapshot of a worker, or the death of its supervisor.  *)
(* A supervisor that could not write its heartbeat is taken for dead.      *)

Seen(n) == IF snap[n] # "running" THEN snap[n]
           ELSE IF n \in alive THEN "running" ELSE "crash"

Look(n, seen) ==
  \/ seen = Seen(n) /\ UNCHANGED <<alarmed, mishaps>>
  \/ /\ Seen(n) = "running" /\ mishaps < MaxMishaps
     /\ seen = "crash" /\ alarmed' = TRUE /\ mishaps' = mishaps + 1

(* A blank child completed, and left no output that a poll can read.       *)
Failed(seen) == seen \notin {"running", "completed", "blank"}

(* A completed fallback stands for the root worker, whatever its snapshot. *)
Monitor(p) ==
  /\ Polling(p) /\ ~Completed
  /\ \E seen \in Failures \cup {"crash", "cancelled"} :
       /\ Look(Root, seen)
       /\ caller' = [caller EXCEPT ![p] =
            [Idle EXCEPT !.pc = "reassign", !.at = Root, !.cause = seen]]
  /\ UNCHANGED <<work, answer, guard, session>>

(* The step is over: the child teams are shut down.                        *)
ShutdownChildren(p) ==
  /\ Polling(p) /\ file # {}
  /\ Completed \/ snap[Root] = "completed"
  /\ alive' = alive \ file /\ file' = {}
  /\ UNCHANGED <<scene, snap, strays, answer, guard, caller, fate>>

(* reassignProvider: a supervisor that is still there is stopped.  One     *)
(* that handles SIGTERM writes "cancelled" to its snapshot.                *)
Reassign(p) ==
  LET n == At(p)
      a == Plan(Last(n), caller[p].cause)
  IN  /\ caller[p].pc = "reassign"
      /\ alive' = alive \ {n}
      /\ \/ UNCHANGED snap
         \/ n \in alive /\ snap' = [snap EXCEPT ![n] = "cancelled"]
      /\ IF a = NoAttempt THEN Stop(p)
         ELSE caller' = [caller EXCEPT ![p].pc = "dispatch", ![p].next = a,
                                       ![p].cause = "none"]
      /\ UNCHANGED <<scene, file, strays, answer, guard, fate>>

(* dispatchProviderFallback looks before it asks for the lock.             *)
FirstLook(p) ==
  /\ caller[p].pc = "dispatch"
  /\ IF Completed THEN Stop(p)
     ELSE caller' = [caller EXCEPT ![p].pc = "lock", ![p].aim = "dispatch"]
  /\ UNCHANGED <<work, answer, guard, fate>>

----------------------------------------------------------------------------
(* withFallbackLock and acquireRecoveryClaim                               *)

LinkLock(p) ==
  /\ caller[p].pc \in {"lock", "create"}
  /\ IF lock = Nobody THEN lock' = Me(p) /\ Go(p, "inside")
     ELSE caller[p].pc = "create" /\ Go(p, "lock") /\ UNCHANGED lock
  /\ UNCHANGED <<work, answer, claims, fate>>

SeeDeadOwner(p) ==
  /\ caller[p].pc = "lock" /\ Gone(lock)
  /\ caller' = [caller EXCEPT ![p].pc = "claim", ![p].gen = lock]
  /\ UNCHANGED <<work, answer, guard, fate>>

Chain(o) == IF o \in DOMAIN claims THEN claims[o] ELSE <<>>
Extend(o, p) == [x \in DOMAIN claims \cup {o} |->
                   IF x = o THEN Append(Chain(o), Me(p)) ELSE claims[x]]
(* Bug: the claim of a process that died stays.                            *)
Claimable_Once(o) == Chain(o) = <<>>

Claimable(o) == Chain(o) = <<>> \/ Gone(Chain(o)[Len(Chain(o))])

(* Bug: the claim of another process does not count.                       *)
Claim_Shared(p) ==
  /\ caller[p].pc = "claim"
  /\ IF lock = caller[p].gen
     THEN claims' = Extend(lock, p) /\ Go(p, "recheck")
     ELSE Stop(p) /\ UNCHANGED claims
  /\ UNCHANGED <<work, answer, lock, fate>>

Claim(p) ==
  LET o == caller[p].gen
  IN  /\ caller[p].pc = "claim"
      /\ IF lock = o /\ Claimable(o)
         THEN claims' = Extend(o, p) /\ Go(p, "recheck")
         ELSE Stop(p) /\ UNCHANGED claims
      /\ UNCHANGED <<work, answer, lock, fate>>

Recheck(p) ==
  /\ caller[p].pc = "recheck"
  /\ IF lock = caller[p].gen THEN Go(p, "unlink") ELSE Stop(p)
  /\ UNCHANGED <<work, answer, guard, fate>>

(* unlink removes what lies at the path.                                   *)
Unlink(p) ==
  /\ caller[p].pc = "unlink"
  /\ lock' = Nobody
  /\ caller' = [caller EXCEPT ![p].pc = "create", ![p].gen = Nobody]
  /\ UNCHANGED <<work, answer, claims, fate>>

LockTimeout(p) ==
  /\ caller[p].pc = "lock" /\ lock # Nobody /\ ~Gone(lock)
  /\ mishaps < MaxMishaps /\ mishaps' = mishaps + 1
  /\ Stop(p)
  /\ UNCHANGED <<work, answer, guard, session, alarmed>>

(* The lock is given back, and the caller goes where it was going.         *)
Release(p) ==
  /\ caller[p].pc \in {"done", "threw", "follow", "begin"}
  /\ lock' = IF lock = Me(p) THEN Nobody ELSE lock
  /\ \/ caller[p].pc \in {"done", "threw"} /\ Stop(p)
     \/ /\ caller[p].pc \in {"follow", "begin"}
        /\ Go(p, IF caller[p].depth >= MaxDepth THEN "exceeded"  \* poll gives up
                 ELSE IF caller[p].pc = "follow" THEN "poll" ELSE "task")
  /\ UNCHANGED <<work, answer, claims, fate>>

----------------------------------------------------------------------------
(* Under the lock: dispatchProviderFallback                                *)

Inside(p, aim) == caller[p].pc = "inside" /\ caller[p].aim = aim

ToClaude(p) == Inside(p, "dispatch") /\ caller[p].next = Handoff
Child(p)    == Append(At(p), caller[p].next)

(* The random token of the k-th claim.                                     *)
NativeClaim(k) == [i \in 1 .. k |-> Attempt("native", 0, 0)]

(* Bug: a claim without an answer is given to whoever asks.                *)
ClaimTask_Again(p) ==
  /\ ToClaude(p) /\ record.status \in {"none", "pending"}
  /\ handoffs' = handoffs + 1
  /\ record' = [status |-> "pending", token |-> NativeClaim(handoffs + 1)]
  /\ caller' = [caller EXCEPT ![p].pc = "begin", ![p].next = NoAttempt,
                    ![p].aim = "none", ![p].at = NativeClaim(handoffs + 1)]
  /\ UNCHANGED <<work, output, guard, fate>>

ClaimTask(p) ==
  /\ ToClaude(p) /\ record.status = "none"
  /\ handoffs' = handoffs + 1
  /\ record' = [status |-> "pending", token |-> NativeClaim(handoffs + 1)]
  /\ caller' = [caller EXCEPT ![p].pc = "begin", ![p].next = NoAttempt,
                    ![p].aim = "none", ![p].at = NativeClaim(handoffs + 1)]
  /\ UNCHANGED <<work, output, guard, fate>>

(* An output that was written before its claimant died is promoted.        *)
PromoteOutput(p) ==
  /\ ToClaude(p) /\ record.status = "pending" /\ output = record.token
  /\ record' = [record EXCEPT !.status = "completed"]
  /\ Go(p, "done")
  /\ UNCHANGED <<work, output, handoffs, guard, fate>>

(* Already completed, completed and lost, or somebody else's.              *)
LeaveTask(p) ==
  /\ ToClaude(p)
  /\ \/ record.status = "completed"
     \/ record.status = "pending" /\ output # record.token
  /\ Go(p, "done")
  /\ UNCHANGED <<work, answer, guard, fate>>

ToTeam(p) == Inside(p, "dispatch") /\ caller[p].next # Handoff

Follow(p) == caller' = [caller EXCEPT ![p].pc = "follow", ![p].at = Child(p),
                                      ![p].next = NoAttempt, ![p].aim = "none"]

(* A worker that cannot be launched is saved as failed, without a category. *)
LaunchWorker(p) ==
  /\ \E s \in {"running", "unlaunched"} :
       /\ snap' = [n \in DOMAIN snap \cup {Child(p)} |->
                     IF n = Child(p) THEN s ELSE snap[n]]
       /\ alive' = IF s = "running" THEN alive \cup {Child(p)}
                   ELSE alive \ {Child(p)}
  /\ Go(p, "save")
  /\ UNCHANGED <<scene, file, strays, answer, guard, fate>>

(* Bug: only the look before the lock counts.                              *)
SpawnTeam_NoSecondLook(p) ==
  ToTeam(p) /\ Child(p) \notin file /\ LaunchWorker(p)

SpawnTeam(p) ==
  ToTeam(p) /\ ~Completed /\ Child(p) \notin file /\ LaunchWorker(p)

(* spawnTeam throws before it launches: no capacity, no tmux, a contract   *)
(* that is refused.  The poll ends with the error, and a later one begins  *)
(* again at the root.                                                      *)
SpawnRefused(p) ==
  /\ ToTeam(p) /\ ~Completed /\ Child(p) \notin file
  /\ Go(p, "threw")
  /\ UNCHANGED <<work, answer, guard, fate>>

(* It throws after that: what it launched is stopped, no file is kept.     *)
SpawnFails(p) ==
  /\ caller[p].pc = "save"
  /\ alive' = alive \ {Child(p)}
  /\ Go(p, "threw")
  /\ UNCHANGED <<scene, snap, file, strays, answer, guard, fate>>

SaveTeam(p) ==
  /\ caller[p].pc = "save"
  /\ file' = file \cup {Child(p)}
  /\ Follow(p)
  /\ UNCHANGED <<scene, snap, alive, strays, answer, guard, fate>>

ReuseTeam(p) ==
  /\ ToTeam(p)
  /\ IF Completed THEN Go(p, "done") ELSE Child(p) \in file /\ Follow(p)
  /\ UNCHANGED <<work, answer, guard, fate>>

----------------------------------------------------------------------------
(* pollProviderFallback                                                    *)

Poll(p) ==
  LET n == At(p)
  IN  /\ caller[p].pc = "poll"
      /\ \/ n \notin file /\ Stop(p) /\ UNCHANGED <<alarmed, mishaps>>
         \/ /\ n \in file
            /\ \E seen \in Failures \cup {"running", "completed", "blank",
                                    "unlaunched", "crash", "cancelled"} :
                 /\ Look(n, seen)
                 /\ CASE seen \in {"running", "blank"} -> Stop(p)
                      [] seen = "completed" ->
                           caller' = [caller EXCEPT ![p].pc = "lock",
                                                    ![p].aim = "persist"]
                      [] OTHER ->
                           caller' = [caller EXCEPT ![p].pc = "reassign",
                                        ![p].cause = seen, ![p].depth = @ + 1]
      /\ UNCHANGED <<work, answer, guard, session>>

(* persistProviderFallbackCompletion and completeClaudeFallback: the claim *)
(* that the answer goes under is the team's, or that of the native task.   *)

(* An answer is there already; one that was lost is written again.         *)
KeepAnswer(p) ==
  /\ Inside(p, "persist") /\ record.status = "completed"
  /\ output' = record.token
  /\ Go(p, "done")
  /\ UNCHANGED <<work, record, handoffs, guard, fate>>

WriteAnswer(p) ==
  /\ \/ Inside(p, "persist") /\ record.status # "completed"
     \/ Inside(p, "complete") /\ record = [status |-> "pending", token |-> At(p)]
  /\ output' = At(p)
  /\ Go(p, "record")
  /\ UNCHANGED <<work, record, handoffs, guard, fate>>

WriteRecord(p) ==
  /\ caller[p].pc = "record"
  /\ record' = [status |-> "completed", token |-> At(p)]
  /\ Go(p, "done")
  /\ UNCHANGED <<work, output, handoffs, guard, fate>>

LeaseLost(p) ==
  /\ Inside(p, "complete") /\ record # [status |-> "pending", token |-> At(p)]
  /\ Go(p, "done")
  /\ UNCHANGED <<work, answer, guard, fate>>
(* The session runs the native task itself.                                *)
TaskEnds(p) ==
  /\ caller[p].pc = "task"
  /\ caller' = [caller EXCEPT ![p].pc = "lock", ![p].aim = "complete"]
  /\ UNCHANGED <<work, answer, guard, fate>>

----------------------------------------------------------------------------
(* Workers and sessions                                                    *)

WorkerEnds(n) ==
  /\ n \in alive
  /\ alive' = alive \ {n}
  /\ \E s \in Failures \cup {"completed", "blank"} :
       (s = "blank" => n # Root) /\ snap' = [snap EXCEPT ![n] = s]
  /\ UNCHANGED <<scene, file, strays, answer, guard, caller, fate>>

WorkerDies(n) ==
  /\ n \in alive
  /\ alive' = alive \ {n}
  /\ UNCHANGED <<scene, snap, file, strays, answer, guard, caller, fate>>

StrayEnds ==
  /\ strays > 0 /\ strays' = strays - 1
  /\ UNCHANGED <<scene, snap, alive, file, answer, guard, caller, fate>>

(* A native task ends with its session.  A worker whose team file is not   *)
(* there yet goes on, and nobody knows of it.                              *)
SessionDies(p) ==
  LET n == Child(p)
  IN  /\ mishaps < MaxMishaps /\ mishaps' = mishaps + 1
      /\ caller[p].pc # "idle"
      /\ session' = [session EXCEPT ![p] = @ + 1]
      /\ Stop(p)
      /\ IF caller[p].pc = "save"
         THEN /\ alive' = alive \ {n}
              /\ strays' = strays + (IF n \in alive THEN 1 ELSE 0)
         ELSE UNCHANGED <<alive, strays>>
      /\ UNCHANGED <<scene, snap, file, answer, guard, alarmed>>

----------------------------------------------------------------------------
Locking(p) == LinkLock(p) \/ SeeDeadOwner(p) \/ Claim(p) \/ Recheck(p)
              \/ Unlink(p) \/ Release(p)
Dispatching(p) ==
  \/ ClaimTask(p) \/ PromoteOutput(p) \/ LeaveTask(p)
  \/ SpawnTeam(p) \/ SpawnRefused(p) \/ SpawnFails(p)
  \/ SaveTeam(p) \/ ReuseTeam(p)
Completing(p) ==
  KeepAnswer(p) \/ WriteAnswer(p) \/ WriteRecord(p) \/ LeaseLost(p)

Step(p) ==
  \/ Monitor(p) \/ ShutdownChildren(p) \/ Reassign(p) \/ FirstLook(p)
  \/ Locking(p) \/ Dispatching(p) \/ Completing(p)
  \/ Poll(p) \/ TaskEnds(p)

Next ==
  \/ \E p \in scene.polls : Step(p) \/ LockTimeout(p) \/ SessionDies(p)
  \/ \E n \in alive : WorkerEnds(n) \/ WorkerDies(n)
  \/ StrayEnds

Spec == Init /\ [][Next]_vars

(* A session polls again and goes on with what it began; one that waits    *)
(* for the lock asks every 25 ms and finds it free in time (LockTimeout is *)
(* when it does not); a worker does not work for ever (collect has a       *)
(* timeout).                                                               *)
FairSpec ==
  /\ Spec
  /\ \A p \in Callers : /\ WF_vars(p \in scene.polls /\ Step(p))
                        /\ SF_vars(LinkLock(p))
  /\ WF_vars(\E n \in alive : WorkerEnds(n) \/ WorkerDies(n))

----------------------------------------------------------------------------
(* Properties (the safety of a replacement is stated in Replacement)       *)

(* The claim of a native task whose session died without an answer.        *)
HandoffLost ==
  /\ record.status = "pending" /\ output # record.token
  /\ ~\E p \in Callers : At(p) = record.token

(* Nothing replaces a Claude worker that did not fail by the network.      *)
Irreplaceable ==
  scene.prov = "claude" /\ Root \notin alive /\ snap[Root] # "network"

(* A child that completed without an output to keep: every later poll      *)
(* reports it failed and reassigns nothing.                                *)
OutputLost == \E n \in file : snap[n] = "blank"

(* A failed worker is replaced until there is an answer.  What may stop it *)
(* is a native task that was lost with its session, an answer that was     *)
(* never written, or launches that throw again and again.                  *)
Settled ==
  Completed \/ snap[Root] = "completed" \/ HandoffLost \/ OutputLost
  \/ Irreplaceable
Threw == \E p \in Callers : caller[p].pc = "threw"
FallbackEnds == <>Settled \/ []<>Threw

=============================================================================
