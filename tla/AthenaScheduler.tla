--------------------------- MODULE AthenaScheduler ---------------------------
(***************************************************************************)
(* The managed Athena runtime (scripts/lib/athena-scheduler.mjs).  A run   *)
(* lives in one JSON file.  Every tick, and a cancel, is a process of its  *)
(* own that takes the tick lock, reads the file, acts on git, on the       *)
(* worker team and on the file, and may be killed between two effects.     *)
(* Stories are numbered in the order of the PRD.  Only the last wave can   *)
(* be unverified, so it is the only one the model keeps.  The worker of a  *)
(* story, its mailbox result and the team file are seen from outside;      *)
(* shutdownTeam is the abstraction of what RuntimeTree models in detail.   *)
(***************************************************************************)
EXTENDS FiniteSets, Naturals

CONSTANTS N,           \* number of stories
          DependsOn,   \* story -> stories
          WorkerOf,    \* story -> its assignedWorker
          MaxForeign,  \* bound: commits of others on the branch
          MaxCrashes   \* bound: processes killed in the middle

Stories == 1 .. N

(* validateExecutionPrd: a dependency "must appear earlier".               *)
ASSUME StoryAssumption ==
  /\ N \in Nat \ {0}
  /\ \A s \in Stories : DependsOn[s] \subseteq 1 .. (s - 1)
ASSUME BoundAssumption == MaxForeign \in Nat /\ MaxCrashes \in Nat

VARIABLES file,      \* the durable runtime state
          head,      \* HEAD: merged stories and commits of others
          lock,      \* the tick lock: "free", "bare" (without owner.json),
                     \* "held", or "left" by a killed owner
          cmd, pc,   \* the process inside the lock, if any
          mem,       \* its copy of the state
          todo,      \* stories its current loop has not visited
          seen,      \* what monitorTeam reported to it
          team,      \* the wave's team file exists
          worker,    \* the worker process of each story
          result,    \* the mailbox result of its assignment
          launches,  \* history: workers started for a story
          passed,    \* history: trees that verification accepted
          crashes

procVars   == <<cmd, pc, mem, todo, seen>>
workerVars == <<team, worker, result, launches>>
vars == <<file, head, lock, procVars, workerVars, passed, crashes>>

Ended == {"completed", "failed", "cancelled"}
Heads == [stories : SUBSET Stories, foreign : 0 .. MaxForeign]

(* What a poll of no team reports.                                         *)
Unseen == [failed |-> {}, ended |-> {}]

NoWave(m) ==
  [m EXCEPT !.launch = "none", !.members = {}, !.asked = {}, !.merging = {},
            !.merged = {}, !.halt = "no"]

(* createAthenaRuntime                                                     *)
Created ==
  [status |-> "ready", task |-> [s \in Stories |-> "pending"],
   head |-> [stories |-> {}, foreign |-> 0],
   launch |-> "none", members |-> {}, asked |-> {}, merging |-> {},
   merged |-> {}, halt |-> "no"]

Init ==
  /\ file = Created /\ mem = Created
  /\ head = Created.head
  /\ lock = "free" /\ cmd = "tick" /\ pc = "idle"
  /\ todo = {} /\ seen = Unseen
  /\ team = FALSE
  /\ worker = [s \in Stories |-> "none"]
  /\ result = [s \in Stories |-> "none"]
  /\ launches = [s \in Stories |-> 0]
  /\ passed = {} /\ crashes = 0

First(s) == s \in todo /\ \A t \in todo : s <= t
Goto(l)  == pc' = l
Save(m)  == mem' = m /\ file' = m

-----------------------------------------------------------------------------
(* The tick lock: mkdir is exclusive, a dead owner's lock is recovered by  *)
(* the winner of a claim, and a directory without owner.json stops all.    *)

Begin(c) ==
  /\ pc = "idle" /\ lock \in {"free", "left"}
  /\ lock' = "bare" /\ cmd' = c /\ Goto("own")
  /\ UNCHANGED <<file, head, mem, todo, seen, workerVars, passed, crashes>>

WriteOwner ==
  /\ pc = "own"
  /\ lock' = "held" /\ Goto("read")
  /\ UNCHANGED <<file, head, cmd, mem, todo, seen, workerVars, passed, crashes>>

Unlock ==
  /\ \/ pc = "unlock" /\ lock' = "bare" /\ Goto("rmdir")
     \/ pc = "rmdir" /\ lock' = "free" /\ Goto("idle")
  /\ mem' = file /\ todo' = {} /\ seen' = Unseen
  /\ UNCHANGED <<file, head, cmd, workerVars, passed, crashes>>

(* A process may be killed anywhere; its memory is lost.                   *)
Crash ==
  /\ pc # "idle" /\ crashes < MaxCrashes
  /\ crashes' = crashes + 1
  /\ lock' = IF lock = "held" THEN "left" ELSE lock
  /\ Goto("idle") /\ mem' = file /\ todo' = {} /\ seen' = Unseen
  /\ UNCHANGED <<file, head, cmd, workerVars, passed>>

-----------------------------------------------------------------------------
(* tickAthenaRuntime *)

Outside == UNCHANGED <<head, lock, cmd, workerVars, passed, crashes>>

(* monitorTeam reports who ended and who failed; a worker whose heartbeat  *)
(* is late may be reported failed although it lives.                       *)
Polls(m) ==
  LET gone == {s \in m.members : worker[s] = "ended"}
      dead == {s \in m.members : worker[s] = "dead"}
  IN  {[failed |-> dead \cup late, ended |-> gone] :
         late \in SUBSET (m.members \ gone)}

(* What a tick does not touch: another HEAD than the one it recorded, a    *)
(* wave whose launch was interrupted, or one without its team.             *)
Ambiguous(m) ==
  \/ head # m.head
  \/ m.launch \in {"prepared", "started"}
  \/ m.launch = "launched" /\ ~team

(* Bug: a failed run is taken up again.                                    *)
AfterRead_Resume(m) ==
  IF cmd = "cancel" THEN "stop"
  ELSE IF m.status \in {"completed", "cancelled"} THEN "unlock"
  ELSE IF Ambiguous(m) THEN "fail"
  ELSE IF m.launch = "none" THEN "plan"
  ELSE "collect"

AfterRead(m) ==
  IF cmd = "cancel" THEN "stop"
  ELSE IF m.status \in {"completed", "cancelled"} THEN "unlock"
  ELSE IF m.status = "failed" THEN "stop"
  ELSE IF Ambiguous(m) THEN "fail"
  ELSE IF m.launch = "none" THEN "plan"
  ELSE "collect"

(* readAthenaRuntime and the early returns; the team is polled once, and   *)
(* what it says is used for every worker of the loop.                      *)
ReadRuntime ==
  /\ pc = "read"
  /\ mem' = file
  /\ Goto(AfterRead(file))
  /\ IF AfterRead(file) = "collect"
       THEN todo' = file.members \ file.merged /\ seen' \in Polls(file)
       ELSE UNCHANGED <<todo, seen>>
  /\ Outside /\ UNCHANGED file

(* One worker of the wave after the other.  A dead one, or one whose       *)
(* assignment did not complete, fails the run.                             *)
SeeFailure(s) ==
  /\ pc = "collect" /\ First(s)
  /\ s \in seen.failed \/ result[s] = "failed"
  /\ mem' = [mem EXCEPT !.task[s] = "failed"]
  /\ Goto("fail")
  /\ Outside /\ UNCHANGED <<file, todo, seen>>

SkipWorker(s) ==
  /\ pc = "collect" /\ First(s)
  /\ s \notin seen.failed
  /\ \/ result[s] = "none"
     \/ result[s] = "completed" /\ s \in mem.asked /\ s \notin seen.ended
  /\ todo' = todo \ {s}
  /\ Outside /\ UNCHANGED <<file, mem, seen, pc>>

(* Bug: that the worker was told is not saved.                             *)
AskShutdown_Unsaved(s) ==
  /\ pc = "collect" /\ First(s)
  /\ s \notin seen.failed /\ result[s] = "completed" /\ s \notin mem.asked
  /\ mem' = [mem EXCEPT !.asked = @ \cup {s}]
  /\ todo' = todo \ {s}
  /\ Outside /\ UNCHANGED <<file, pc, seen>>

(* A worker whose assignment completed is told to shut down ...            *)
AskShutdown(s) ==
  /\ pc = "collect" /\ First(s)
  /\ s \notin seen.failed /\ result[s] = "completed" /\ s \notin mem.asked
  /\ Save([mem EXCEPT !.asked = @ \cup {s}])
  /\ todo' = todo \ {s}
  /\ Outside /\ UNCHANGED <<pc, seen>>

(* Bug: the merge begins without a durable intent.                         *)
IntendMerge_Unsaved(s) ==
  /\ pc = "collect" /\ First(s)
  /\ s \notin seen.failed /\ result[s] = "completed"
  /\ s \in mem.asked /\ s \in seen.ended
  /\ mem' = [mem EXCEPT !.merging = @ \cup {s}]
  /\ Goto("merge")
  /\ Outside /\ UNCHANGED <<file, todo, seen>>

(* ... and once it has ended within its scope, its merge is announced ...  *)
IntendMerge(s) ==
  /\ pc = "collect" /\ First(s)
  /\ s \notin seen.failed /\ result[s] = "completed"
  /\ s \in mem.asked /\ s \in seen.ended
  /\ Save([mem EXCEPT !.merging = @ \cup {s}])
  /\ Goto("merge")
  /\ Outside /\ UNCHANGED <<todo, seen>>

(* ... done ...                                                            *)
Merge(s) ==
  /\ pc = "merge" /\ First(s)
  /\ head' = [head EXCEPT !.stories = @ \cup {s}]
  /\ Goto("record")
  /\ UNCHANGED <<file, lock, cmd, mem, todo, seen, workerVars, passed, crashes>>

(* ... and recorded, with whatever HEAD is by then.                        *)
RecordMerge(s) ==
  /\ pc = "record" /\ First(s)
  /\ Save([mem EXCEPT !.head = head, !.merged = @ \cup {s}, !.task[s] = "merged"])
  /\ todo' = todo \ {s} /\ Goto("collect")
  /\ Outside /\ UNCHANGED seen

Collected ==
  /\ pc = "collect" /\ todo = {}
  /\ Goto(IF mem.members \subseteq mem.merged THEN "verify" ELSE "unlock")
  /\ Outside /\ UNCHANGED <<file, mem, todo, seen>>

(* Bug: a failing verification does not stop the run.                      *)
Verify_Ignored ==
  /\ pc = "verify"
  /\ Goto("stop")
  /\ Outside /\ UNCHANGED <<file, mem, todo, seen>>

(* The verification commands, on the tree the run expects.                 *)
Verify ==
  /\ pc = "verify" /\ head = mem.head
  /\ passed' = passed \cup {head}
  /\ Goto("stop")
  /\ UNCHANGED <<file, head, lock, cmd, mem, todo, seen, workerVars, crashes>>

(* The wave is verified and stopped: its stories are integrated.           *)
Conclude ==
  /\ pc = "conclude"
  /\ Save([NoWave(mem) EXCEPT !.task =
             [s \in Stories |-> IF s \in mem.members THEN "integrated" ELSE @[s]]])
  /\ Goto("plan")
  /\ Outside /\ UNCHANGED <<todo, seen>>

-----------------------------------------------------------------------------
(* The next wave *)

Integrated(m) == {s \in Stories : m.task[s] = "integrated"}

(* readyRuntimeTasks: dependencies and earlier stories of the same worker. *)
ReadyTasks(m) ==
  {s \in Stories : /\ m.task[s] = "pending"
                   /\ DependsOn[s] \subseteq Integrated(m)
                   /\ \A t \in 1 .. (s - 1) :
                        WorkerOf[t] = WorkerOf[s] => t \in Integrated(m)}

(* Nothing is ready, or nothing that is ready fits the limits.             *)
PlanNothing ==
  /\ pc = "plan"
  /\ \E chosen \in SUBSET ReadyTasks(mem) : chosen = {}
  /\ Save([mem EXCEPT !.status =
             IF ReadyTasks(mem) # {} THEN "waiting_capacity"
             ELSE IF Integrated(mem) = Stories THEN "completed" ELSE "blocked"])
  /\ Goto("unlock")
  /\ Outside /\ UNCHANGED <<todo, seen>>

(* Which of the ready stories fit is decided by the ledger.                *)
PlanWave ==
  /\ pc = "plan"
  /\ \E chosen \in SUBSET ReadyTasks(mem) : chosen # {} /\ todo' = chosen
  /\ Save([mem EXCEPT !.launch = "prepared"])
  /\ Goto("launch")
  /\ Outside /\ UNCHANGED seen

(* One worktree after the other, each on record before the next.           *)
LaunchStory(s) ==
  /\ pc = "launch" /\ First(s)
  /\ Save([mem EXCEPT !.members = @ \cup {s}, !.task[s] = "launching"])
  /\ todo' = todo \ {s}
  /\ Outside /\ UNCHANGED <<seen, pc>>

StartWave ==
  /\ pc = "launch" /\ todo = {}
  /\ Save([mem EXCEPT !.launch = "started"])
  /\ todo' = mem.members /\ Goto("spawn")
  /\ Outside /\ UNCHANGED seen

(* spawnTeam: a worker after the other, then the team file.  One that      *)
(* cannot be launched leaves the others running.                           *)
SpawnWorker(s) ==
  /\ pc = "spawn" /\ First(s)
  /\ \/ /\ worker' = [worker EXCEPT ![s] = "live"]
        /\ launches' = [launches EXCEPT ![s] = @ + 1]
     \/ UNCHANGED <<worker, launches>>
  /\ todo' = todo \ {s}
  /\ UNCHANGED <<file, head, lock, cmd, pc, mem, seen, team, result,
                 passed, crashes>>

SaveTeam ==
  /\ pc = "spawn" /\ todo = {}
  /\ team' = TRUE /\ Goto("confirm")
  /\ UNCHANGED <<file, head, lock, cmd, mem, todo, seen, worker, result,
                 launches, passed, crashes>>

(* The catch block of spawnTeam stops what it can.                         *)
SpawnThrows ==
  /\ pc = "spawn"
  /\ \E kept \in SUBSET {s \in Stories : worker[s] = "live"} :
       worker' = [s \in Stories |-> IF worker[s] = "live" /\ s \notin kept
                                      THEN "dead" ELSE worker[s]]
  /\ Goto("fail")
  /\ UNCHANGED <<file, head, lock, cmd, mem, todo, seen, team, result,
                 launches, passed, crashes>>

ConfirmWave ==
  /\ pc = "confirm"
  /\ \A s \in mem.members : worker[s] # "none"
  /\ Save([mem EXCEPT !.launch = "launched", !.status = "running",
                      !.task = [s \in Stories |-> IF s \in mem.members
                                                    THEN "running" ELSE @[s]]])
  /\ Goto("unlock")
  /\ Outside /\ UNCHANGED <<todo, seen>>

(* git, the ledger, the mailbox, the worktree or a check refuses.          *)
Throws ==
  /\ pc \in {"collect", "merge", "record", "verify", "plan", "launch", "confirm"}
  /\ Goto("fail")
  /\ Outside /\ UNCHANGED <<file, mem, todo, seen>>

-----------------------------------------------------------------------------
(* failRuntime, stopWave, finishFailedRuntime and cancelAthenaRuntime *)

Failed(t) ==
  CASE t = "merged" -> "merged_unverified"
    [] t \in {"running", "launching"} -> "cancelled"
    [] OTHER -> t

(* Bug: after a failed launch the stories are tried again.                 *)
FailRuntime_Relaunch ==
  /\ pc = "fail"
  /\ Save([NoWave(mem) EXCEPT !.task =
             [s \in Stories |-> IF @[s] = "launching" THEN "pending" ELSE Failed(@[s])]])
  /\ Goto("unlock")
  /\ Outside /\ UNCHANGED <<todo, seen>>

(* "Failure is durable BEFORE termination starts."                         *)
FailRuntime ==
  /\ pc = "fail"
  /\ Save([mem EXCEPT !.status = "failed",
                      !.task = [s \in Stories |-> Failed(@[s])]])
  /\ Goto("stop")
  /\ Outside /\ UNCHANGED <<todo, seen>>

(* What follows a wave that needs no stop or has been stopped, and what    *)
(* follows an error; a cancel lets it out.                                 *)
AfterStop ==
  IF cmd = "cancel" THEN "cancel" ELSE IF mem.status = "failed" THEN "unlock" ELSE "conclude"
AfterError == IF cmd = "cancel" \/ mem.status = "failed" THEN "unlock" ELSE "fail"

Stopped(m) == m.launch = "none" \/ m.halt = "completed"

(* The intent to stop is saved before shutdownTeam ...                     *)
StopWave ==
  /\ pc = "stop"
  /\ \/ Stopped(mem) /\ Goto(AfterStop) /\ UNCHANGED <<file, mem>>
     \/ ~Stopped(mem) /\ ~team /\ Goto(AfterError) /\ UNCHANGED <<file, mem>>
     \/ ~Stopped(mem) /\ team
        /\ Save([mem EXCEPT !.halt = "pending"]) /\ Goto("shutdown")
  /\ Outside /\ UNCHANGED <<todo, seen>>

LiveMembers == {s \in mem.members : worker[s] = "live"}

(* ... which stops one worker after the other ...                          *)
ShutWorker(s) ==
  /\ pc = "shutdown"
  /\ s \in LiveMembers /\ \A t \in LiveMembers : s <= t
  /\ worker' = [worker EXCEPT ![s] = "dead"]
  /\ UNCHANGED <<file, head, lock, procVars, team, result, launches,
                 passed, crashes>>

(* ... and removes the team file, unless the ledger could not be updated   *)
(* ...                                                                     *)
ShutTeam ==
  /\ pc = "shutdown" /\ LiveMembers = {}
  /\ team' \in {team, FALSE}
  /\ Goto("stopped")
  /\ UNCHANGED <<file, head, lock, cmd, mem, todo, seen, worker, result,
                 launches, passed, crashes>>

ShutThrows ==
  /\ pc = "shutdown"
  /\ Goto(AfterError)
  /\ Outside /\ UNCHANGED <<file, mem, todo, seen>>

(* ... and the end of it is saved after.                                   *)
SaveStopped ==
  /\ pc = "stopped"
  /\ Save([mem EXCEPT !.halt = "completed"])
  /\ Goto(AfterStop)
  /\ Outside /\ UNCHANGED <<todo, seen>>

CancelRuntime ==
  /\ pc = "cancel"
  /\ Save([mem EXCEPT !.status = "cancelled"])
  /\ Goto("unlock")
  /\ Outside /\ UNCHANGED <<todo, seen>>

-----------------------------------------------------------------------------
(* Workers, and others who commit to the branch *)

Here == UNCHANGED <<file, lock, procVars, passed, crashes>>

WorkerAnswers(s) ==
  /\ worker[s] = "live" /\ result[s] = "none"
  /\ \E r \in {"completed", "failed"} : result' = [result EXCEPT ![s] = r]
  /\ Here /\ UNCHANGED <<head, team, worker, launches>>

(* On the shutdown command, or, idle for long enough, without it.          *)
WorkerEnds(s) ==
  /\ worker[s] = "live" /\ result[s] # "none"
  /\ worker' = [worker EXCEPT ![s] = "ended"]
  /\ Here /\ UNCHANGED <<head, team, result, launches>>

WorkerDies(s) ==
  /\ worker[s] = "live"
  /\ worker' = [worker EXCEPT ![s] = "dead"]
  /\ Here /\ UNCHANGED <<head, team, result, launches>>

ForeignCommit ==
  /\ head.foreign < MaxForeign
  /\ head' = [head EXCEPT !.foreign = @ + 1]
  /\ Here /\ UNCHANGED workerVars

Step ==
  \/ WriteOwner \/ ReadRuntime \/ Unlock
  \/ Collected \/ Verify \/ Conclude
  \/ PlanNothing \/ PlanWave \/ StartWave \/ SaveTeam \/ ConfirmWave
  \/ Throws \/ FailRuntime \/ SpawnThrows
  \/ StopWave \/ ShutTeam \/ ShutThrows \/ SaveStopped \/ CancelRuntime
  \/ \E s \in Stories :
       \/ SeeFailure(s) \/ SkipWorker(s) \/ AskShutdown(s)
       \/ IntendMerge(s) \/ Merge(s) \/ RecordMerge(s)
       \/ LaunchStory(s) \/ SpawnWorker(s) \/ ShutWorker(s)

Worker(s) == WorkerAnswers(s) \/ WorkerEnds(s)

Next ==
  \/ Begin("tick") \/ Begin("cancel") \/ Step \/ Crash \/ ForeignCommit
  \/ \E s \in Stories : Worker(s) \/ WorkerDies(s)

Spec == Init /\ [][Next]_vars

(* A process that runs goes on, the lead keeps calling tick, even if       *)
(* somebody keeps cancelling in between, and workers do their work.        *)
FairSpec == /\ Spec
            /\ WF_vars(Step) /\ SF_vars(Begin("tick"))
            /\ \A s \in Stories : WF_vars(Worker(s))

-----------------------------------------------------------------------------
(* Properties *)

States ==
  [status : {"ready", "running", "waiting_capacity", "blocked"} \cup Ended,
   task : [Stories -> {"pending", "launching", "running", "failed", "merged",
                       "integrated", "merged_unverified", "cancelled"}],
   head : Heads, launch : {"none", "prepared", "started", "launched"},
   members : SUBSET Stories, asked : SUBSET Stories, merging : SUBSET Stories,
   merged : SUBSET Stories, halt : {"no", "pending", "completed"}]

Places == {"idle", "own", "read", "collect", "merge", "record", "verify", "conclude",
           "plan", "launch", "spawn", "confirm", "fail", "stop", "shutdown",
           "stopped", "cancel", "unlock", "rmdir"}

(* The sets of a wave contain one another, and only members are at work.   *)
WaveShape(m) ==
  /\ m.merged \subseteq m.merging /\ m.merging \subseteq m.asked
  /\ m.asked \subseteq m.members
  /\ m.launch = "none" => m.members = {} /\ m.halt = "no"
  /\ {s \in Stories : m.task[s] \in {"launching", "running"}} \subseteq m.members

Unlocked == {"idle", "own", "rmdir"}

TypeOK ==
  /\ WaveShape(file) /\ WaveShape(mem)
  /\ pc \in Unlocked <=> lock # "held"
  /\ file \in States /\ mem \in States
  /\ head \in Heads
  /\ lock \in {"free", "bare", "held", "left"}
  /\ cmd \in {"tick", "cancel"} /\ pc \in Places
  /\ todo \in SUBSET Stories
  /\ seen \in [failed : SUBSET Stories, ended : SUBSET Stories]
  /\ team \in BOOLEAN
  /\ worker \in [Stories -> {"none", "live", "ended", "dead"}]
  /\ result \in [Stories -> {"none", "completed", "failed"}]
  /\ launches \in [Stories -> Nat]
  /\ passed \in SUBSET Heads
  /\ crashes \in 0 .. MaxCrashes

(* "It never blindly replays an ambiguous launch": whatever was killed     *)
(* where, and whatever failed, a story gets one worker.                    *)
LaunchedOnce == \A s \in Stories : launches[s] <= 1

Verified == UNION {h.stories : h \in passed}

(* "starts dependent stories only after their inputs are integrated and    *)
(* the configured verification passes", and likewise for the earlier       *)
(* stories of the same logical worker.                                     *)
InputsVerified ==
  \A s \in Stories : launches[s] > 0 =>
    /\ DependsOn[s] \subseteq Verified
    /\ \A t \in 1 .. (s - 1) : WorkerOf[t] = WorkerOf[s] => t \in Verified

(* Every story in HEAD is explained by the durable state, and every merge  *)
(* the state speaks of is in HEAD, at every instant a process may die.     *)
MergesOnRecord ==
  LET said == {s \in Stories :
                 file.task[s] \in {"merged", "integrated", "merged_unverified"}}
  IN  said \subseteq head.stories /\ head.stories \subseteq said \cup file.merging

(* "stops for reconciliation rather than repeating a merge".               *)
NoRepeatedMerge == pc = "merge" => \A s \in todo : First(s) => s \notin head.stories

(* A run that completed or was cancelled has no worker left, and none is   *)
(* ever launched again (shutdown was confirmed before the status).         *)
EndedIsQuiet ==
  file.status \in {"completed", "cancelled"} =>
    \A s \in Stories : worker[s] # "live"

(* Completion stands for one tree with all the stories that verification   *)
(* accepted as it is, commits of others included.                          *)
CompletedIsVerified ==
  file.status = "completed" =>
    file.head \in passed /\ file.head.stories = Stories

(* "Subsequent ticks return the failure; they only retry unfinished        *)
(* cleanup, never assignments or verification", nor merges.                *)
EndIsFinal ==
  [][file.status \in Ended =>
       /\ file'.status \in {file.status, "cancelled"}
       /\ UNCHANGED <<launches, passed, head.stories>>]_vars

(* A run that is ticked ends, and not with stories of which none is ever   *)
(* ready, unless a process was killed while the lock had no owner.json, or *)
(* capacity is short time and again.                                       *)
RunEnds ==
  \/ <>(file.status \in Ended)
  \/ <>[](pc = "idle" /\ lock = "bare")
  \/ []<>(file.status = "waiting_capacity")
=============================================================================
