------------------------------ MODULE AskJobs ------------------------------
(***************************************************************************)
(* One question of /ask (ask.mjs, ask-jobs.mjs), put to an exec adapter    *)
(* (ExecAdapter) either synchronously, by a process that prints the answer *)
(* and exits, or as a job: a launcher starts a detached runner, and other  *)
(* processes ask for its status, collect its answer or cancel it.          *)
(*                                                                         *)
(* Each file operation and each probe of a process is a step.  The runner  *)
(* alone writes the metadata once the launcher has made it; the sentinel   *)
(* in the log is what is left of a runner that died before it could.       *)
(***************************************************************************)
EXTENDS ExecAdapter

CONSTANTS MaxCommands,  \* bound: processes that run status, collect or cancel
          MaxMishaps    \* bound: processes killed from outside

ASSUME BoundsAssumption == MaxCommands \in Nat /\ MaxMishaps \in Nat

VARIABLES mode,      \* "sync" or "async"
          launcher,  \* where the launcher is
          prompt,    \* the prompt sidecar exists
          meta,      \* <jobId>.json
          log,       \* <jobId>.jsonl: how it ends, and its runner_done line
          md,        \* <jobId>.md exists
          reason,    \* what finalize was called with
          reader,    \* the commands, in the order of their start
          reported,  \* history: what status and collect told
          commands,  \* how many were started
          mishaps    \* bound
files   == <<prompt, meta, log, md>>
readers == <<reader, reported, commands>>
vars == <<child_vars, host, mode, launcher, files, reason, readers, mishaps>>

Reasons  == {"completed", "failed", "cancelled"}
Statuses == {"none", "running"} \cup Reasons
Readers  == 1 .. MaxCommands
Nobody   == [at |-> "idle", op |-> "status", adapter |-> FALSE]

Init ==
  /\ AdapterInit
  /\ mode \in {"sync", "async"}
  /\ mode = "async" => ~releasable
  /\ host = (IF mode = "sync" THEN "spawn" ELSE "unborn")
  /\ launcher = (IF mode = "sync" THEN "done" ELSE "prompt")
  /\ prompt = FALSE /\ md = FALSE
  /\ meta = [status |-> "none", adapter |-> FALSE]
  /\ log = [tail |-> "clean", done |-> "none", legible |-> TRUE]
  /\ reason = "none"
  /\ reader = [r \in Readers |-> Nobody]
  /\ reported = {} /\ commands = 0 /\ mishaps = 0

----------------------------------------------------------------------------
(* runAsyncLaunch *)

WritePrompt ==
  /\ launcher = "prompt"
  /\ prompt' = TRUE /\ launcher' = "spawn"
  /\ UNCHANGED <<child_vars, host, mode, meta, log, md, reason, readers, mishaps>>

SpawnRunner ==
  /\ launcher = "spawn"
  /\ host' = "wait" /\ launcher' = "record"
  /\ UNCHANGED <<child_vars, mode, files, reason, readers, mishaps>>

RecordJob ==
  /\ launcher = "record"
  /\ meta' = [meta EXCEPT !.status = "running"]
  /\ launcher' = "done"
  /\ UNCHANGED <<child_vars, host, mode, prompt, log, md, reason, readers, mishaps>>

LauncherDies ==
  /\ launcher \in {"prompt", "spawn", "record"} /\ mishaps < MaxMishaps
  /\ launcher' = "dead" /\ mishaps' = mishaps + 1
  /\ UNCHANGED <<child_vars, host, mode, files, reason, readers>>

----------------------------------------------------------------------------
(* runJob up to collect(), and runOnce *)

ReadMetadata ==
  /\ host = "wait"
  /\ host' = IF meta.status = "none" THEN "exited" ELSE "prompt"
  /\ UNCHANGED <<child_vars, mode, launcher, files, reason, readers, mishaps>>

ReadPrompt ==
  /\ host = "prompt"
  /\ prompt' = FALSE /\ host' = "spawn"
  /\ UNCHANGED <<child_vars, mode, launcher, meta, log, md, reason, readers, mishaps>>

(* Demoted, adapter not loaded, spawn threw.                               *)
SpawnFails ==
  /\ host = "spawn"
  /\ IF mode = "sync"
     THEN host' = "exited" /\ UNCHANGED reason
     ELSE host' = "sentinel" /\ reason' = "failed"
  /\ UNCHANGED <<child_vars, mode, launcher, files, readers, mishaps>>

SpawnAdapter ==
  /\ host = "spawn"
  /\ child' = "live"
  /\ IF mode = "sync"
     THEN host' = "collect" /\ collect' = "waiting"
     ELSE host' = "persist" /\ UNCHANGED collect
  /\ UNCHANGED <<kind, releasable, group, written, ends, handle, shut, reaper,
                 mode, launcher, files, reason, readers, mishaps>>

(* The pid is written, the listeners and the SIGTERM handler are there.    *)
PersistAdapter ==
  /\ host = "persist"
  /\ meta' = [meta EXCEPT !.adapter = TRUE]
  /\ host' = "collect" /\ collect' = "waiting"
  /\ UNCHANGED <<kind, releasable, os, handle, shut, reaper, mode, launcher,
                 prompt, log, md, reason, readers, mishaps>>

----------------------------------------------------------------------------
(* The event loop.  The tee of a job copies each chunk to the log until    *)
(* finalize ends it.                                                       *)

Teed == mode = "async" /\ shut # "done"

HearData ==
  /\ Data
  /\ log' = IF Teed THEN [log EXCEPT !.tail = ends[handle'.read]] ELSE log
  /\ UNCHANGED <<kind, releasable, os, shut, reaper, prompt, meta, md>>

HearEnd ==
  /\ \/ Exit /\ UNCHANGED group
     \/ Reap /\ UNCHANGED <<collect, shut>>
     \/ Close /\ UNCHANGED <<group, shut>>
  /\ UNCHANGED <<kind, releasable, child, written, ends, reaper, files>>

TimerFires ==
  /\ \/ CollectTimeout /\ UNCHANGED group
     \/ LateKill /\ UNCHANGED <<handle, collect>>
  /\ UNCHANGED <<kind, releasable, written, ends, shut, reaper, files>>

Events ==
  /\ HearData \/ HearEnd \/ TimerFires
  /\ UNCHANGED <<host, mode, launcher, reason, readers, mishaps>>

----------------------------------------------------------------------------
(* finalize, and the end of runOnce *)

(* collect() has settled and finalize was not called before.               *)
Finish ==
  /\ host = "collect" /\ collect \in {"ok", "error", "timeout"}
  /\ reason' = IF collect = "ok" THEN "completed" ELSE "failed"
  /\ host' = "shutdown"
  /\ UNCHANGED <<child_vars, mode, launcher, files, readers, mishaps>>

Shutdown ==
  /\ host = "shutdown"
  /\ \/ ShutdownBegins
     \/ GraceEnds /\ UNCHANGED <<handle, reaper>>
     \/ (HandedOver \/ HandoverFails \/ StillThere \/ Settle) /\ UNCHANGED reaper
  /\ UNCHANGED <<kind, releasable, host, written, ends, collect, mode, launcher,
                 files, reason, readers, mishaps>>

(* The tee is drained: other events of the loop come first, a due reap for *)
(* one.  The synchronous path prints its result and exits.                 *)
Drained ==
  /\ host = "shutdown" /\ shut = "done" /\ handle.reap # "due"
  /\ IF mode = "sync" THEN Gone("exited") ELSE host' = "sentinel" /\ UNCHANGED memory
  /\ UNCHANGED <<outer, mode, launcher, files, reason, readers, mishaps>>

(* The line is appended as it is: behind an unfinished one it is lost.     *)
WriteSentinel_Late ==   \* Bug: the metadata is flipped before the sentinel
  /\ host = "sentinel"
  /\ meta' = [meta EXCEPT !.status = reason]
  /\ host' = "verdict"
  /\ UNCHANGED <<child_vars, mode, launcher, prompt, log, md, reason, readers, mishaps>>
WriteSentinel ==
  /\ host = "sentinel"
  /\ log' = [log EXCEPT !.done = reason, !.legible = log.tail = "clean"]
  /\ host' = "verdict"
  /\ UNCHANGED <<child_vars, mode, launcher, prompt, meta, md, reason, readers, mishaps>>

FlipMetadata ==
  /\ host = "verdict"
  /\ meta' = [meta EXCEPT !.status = reason]
  /\ IF reason = "completed" THEN host' = "md" /\ UNCHANGED memory ELSE Gone("exited")
  /\ UNCHANGED <<outer, mode, launcher, prompt, log, md, reason, readers, mishaps>>

WriteMd ==
  /\ host = "md"
  /\ md' = TRUE /\ Gone("exited")
  /\ UNCHANGED <<outer, mode, launcher, prompt, meta, log, reason, readers, mishaps>>

Host == \/ ReadMetadata \/ ReadPrompt \/ SpawnFails \/ SpawnAdapter
        \/ PersistAdapter \/ Events \/ Finish \/ Shutdown \/ Drained
        \/ WriteSentinel \/ FlipMetadata \/ WriteMd

HostKilled ==
  /\ Up /\ mishaps < MaxMishaps
  /\ Gone("killed") /\ mishaps' = mishaps + 1
  /\ UNCHANGED <<outer, mode, launcher, files, reason, readers>>

ChildKilled ==
  /\ child = "live" /\ mishaps < MaxMishaps
  /\ child' = "signal" /\ mishaps' = mishaps + 1
  /\ UNCHANGED <<kind, releasable, group, written, ends, handle, collect, shut,
                 reaper, host, mode, launcher, files, reason, readers>>

----------------------------------------------------------------------------
(* runStatus, runCollect, runCancel; reconcileStatus *)

System == <<child_vars, host, mode, launcher, reason>>

(* The verdict v of reconcileStatus, and what the command makes of it.     *)
Conclude(r, v) ==
  /\ reported' = IF reader[r].op = "cancel" \/ (reader[r].op = "collect" /\ v = "completed")
                 THEN reported ELSE reported \cup {v}
  /\ reader' = [reader EXCEPT ![r] =
       CASE @.op = "cancel" /\ v = "running"    -> [@ EXCEPT !.at = "victim"]
         [] @.op = "collect" /\ v = "completed" -> [@ EXCEPT !.at = "answer"]
         [] OTHER -> Nobody]

(* readMetadata; a terminal status is trusted.  A collect that waits is a  *)
(* collect that is run again.                                              *)
Ask(r) ==
  /\ r = commands + 1 /\ meta.status # "none"
  /\ commands' = r
  /\ \E op \in {"status", "collect", "cancel"} :
       LET mine == [at |-> "runner", op |-> op, adapter |-> meta.adapter]
       IN  IF meta.status = "running"
           THEN reader' = [reader EXCEPT ![r] = mine] /\ UNCHANGED reported
           ELSE IF op = "collect" /\ meta.status = "completed"
           THEN /\ reader' = [reader EXCEPT ![r] = [mine EXCEPT !.at = "answer"]]
                /\ UNCHANGED reported
           ELSE /\ reported' = IF op = "cancel" THEN reported
                               ELSE reported \cup {meta.status}
                /\ UNCHANGED reader
  /\ UNCHANGED <<System, files, mishaps>>

(* Both pids are probed, but one that is alive decides.                    *)
ProbeRunner(r) ==
  /\ reader[r].at = "runner"
  /\ IF Up THEN Conclude(r, "running")
     ELSE /\ reader' = [reader EXCEPT ![r].at =
                          IF reader[r].adapter THEN "adapter" ELSE "scan"]
          /\ UNCHANGED reported
  /\ UNCHANGED <<System, files, commands, mishaps>>

ProbeAdapter(r) ==
  /\ reader[r].at = "adapter"
  /\ IF Present THEN Conclude(r, "running")
     ELSE reader' = [reader EXCEPT ![r].at = "scan"] /\ UNCHANGED reported
  /\ UNCHANGED <<System, files, commands, mishaps>>

ScanLog(r) ==
  /\ reader[r].at = "scan"
  /\ Conclude(r, IF log.done # "none" /\ log.legible THEN log.done ELSE "crashed")
  /\ UNCHANGED <<System, files, commands, mishaps>>

(* The .md, or else the text of the sentinel, which becomes the .md.       *)
PrintAnswer(r) ==
  /\ reader[r].at = "answer"
  /\ md' = (md \/ log.legible)
  /\ reported' = reported \cup {IF md' THEN "completed" ELSE "lost"}
  /\ reader' = [reader EXCEPT ![r] = Nobody]
  /\ UNCHANGED <<System, prompt, meta, log, commands, mishaps>>

(* The SIGTERM handler is installed once the adapter runs.                 *)
Unhandled == host \in {"unborn", "wait", "prompt", "spawn", "persist"} \/ child = "none"

(* SIGTERM to the runner, which its handler turns into finalize once, or   *)
(* which ends a runner that has none yet; or to the adapter it left.       *)
Cancelled_Again ==   \* Bug: no once-only flag in finalize
  IF Unhandled
  THEN Gone("killed") /\ UNCHANGED reason
  ELSE host' = "shutdown" /\ reason' = "cancelled" /\ UNCHANGED memory
Cancelled ==
  IF Unhandled
  THEN Gone("killed") /\ UNCHANGED reason
  ELSE /\ IF host = "collect" THEN host' = "shutdown" /\ reason' = "cancelled"
          ELSE UNCHANGED <<host, reason>>
       /\ UNCHANGED memory

SendSigterm(r) ==
  /\ reader[r].at = "victim"
  /\ \/ /\ Up /\ Cancelled /\ UNCHANGED child
        /\ reader' = [reader EXCEPT ![r].at = "poll runner"]
     \/ /\ ~Up /\ reader[r].adapter /\ Present
        /\ child' \in Termed /\ UNCHANGED <<host, memory, reason>>
        /\ reader' = [reader EXCEPT ![r].at = "poll adapter"]
     \/ /\ ~Up /\ ~(reader[r].adapter /\ Present)
        /\ reader' = [reader EXCEPT ![r] = Nobody]
        /\ UNCHANGED <<host, memory, reason, child>>
  /\ UNCHANGED <<kind, releasable, group, written, ends, collect, reaper, mode,
                 launcher, files, reported, commands, mishaps>>

(* Gone within five seconds, or SIGKILL without another look.              *)
PollVictim(r) ==
  /\ \/ /\ reader[r].at = "poll runner" /\ ~Up /\ UNCHANGED <<host, memory, child>>
     \/ /\ reader[r].at = "poll adapter" /\ ~Present /\ UNCHANGED <<host, memory, child>>
     \/ /\ reader[r].at = "poll runner" /\ Up
        /\ Gone("killed") /\ UNCHANGED child
     \/ /\ reader[r].at = "poll adapter" /\ child = "live"
        /\ child' = "signal" /\ UNCHANGED <<host, memory>>
  /\ reader' = [reader EXCEPT ![r] = Nobody]
  /\ UNCHANGED <<kind, releasable, group, written, ends, collect, reaper, mode,
                 launcher, reason, files, reported, commands, mishaps>>

Read(r) == \/ Ask(r) \/ ProbeRunner(r) \/ ProbeAdapter(r) \/ ScanLog(r)
           \/ PrintAnswer(r) \/ SendSigterm(r) \/ PollVictim(r)

----------------------------------------------------------------------------
Outside == <<mode, launcher, files, reason, readers, mishaps>>

Launch  == WritePrompt \/ SpawnRunner \/ RecordJob
Process == (Write \/ Fork \/ End \/ StragglerEnds) /\ UNCHANGED Outside
Reaper  == (ReaperLooks \/ ReaperActs) /\ UNCHANGED Outside

Next == \/ Launch \/ LauncherDies
        \/ Host \/ HostKilled
        \/ Process \/ ChildKilled
        \/ Reaper
        \/ \E r \in Readers : Read(r)

Spec == Init /\ [][Next]_vars

(* Node goes on with a process that is not killed, and its timers fire.    *)
FairSpec == Spec /\ WF_vars(Launch) /\ WF_vars(Host) /\ WF_vars(Reaper)

----------------------------------------------------------------------------
(* Properties *)

Places == {"unborn", "wait", "prompt", "spawn", "persist", "collect", "shutdown",
           "sentinel", "verdict", "md", "exited", "killed"}

Seats == [at : {"idle", "runner", "adapter", "scan", "answer",
                "victim", "poll runner", "poll adapter"},
          op : {"status", "collect", "cancel"}, adapter : BOOLEAN]

TypeOK ==
  /\ AdapterTypeOK
  /\ mode \in {"sync", "async"} /\ host \in Places
  /\ launcher \in {"prompt", "spawn", "record", "done", "dead"}
  /\ prompt \in BOOLEAN /\ md \in BOOLEAN
  /\ meta \in [status : Statuses, adapter : BOOLEAN]
  /\ log \in [tail : Tails, done : Reasons \cup {"none"}, legible : BOOLEAN]
  /\ reason \in Reasons \cup {"none"}
  /\ reader \in [Readers -> Seats]
  /\ reported \subseteq Statuses \cup {"crashed", "lost"}
  /\ commands \in 0 .. MaxCommands /\ mishaps \in 0 .. MaxMishaps

(* A verdict that status or collect has told is the one the metadata and   *)
(* the sentinel hold from then on, whichever of them it was read from and  *)
(* whoever cancels the job meanwhile (the once-only finalize, the sentinel *)
(* that comes before the metadata).                                        *)
OneVerdict ==
  \A v \in reported \cap Reasons :
    meta.status \in {"running", v} /\ log.done = v

(* A job is reported as crashed, or its answer as lost, only if its runner *)
(* has not recorded a verdict, or if its sentinel went onto the end of an  *)
(* unfinished line.                                                        *)
FailureIsTrue ==
  reported \cap {"crashed", "lost"} # {} =>
    meta.status \notin Reasons \/ ~log.legible

(* An answer that arrived is not turned into an error, and what counts as  *)
(* an answer has its text, in whatever order data, exit and close come;    *)
(* unless gemini's exit came between two pieces of its output.             *)
AnswerSurvives ==
  /\ Looping /\ collect = "ok" => Text
  /\ Looping /\ collect = "error" /\ handle.read = Chunks => handle.cut

(* An adapter that outlives its host was handed to a reaper, or the        *)
(* metadata of its job name it and cancel will find it.  Three cases are   *)
(* excepted, and in each a live adapter is left to nobody.                 *)

(* gemini after a timeout of collect(): finalize takes its process to be   *)
(* gone (killed), and exits before the timer that would send SIGKILL.      *)
Leaked == kind = "gemini" /\ collect = "timeout"

(* A runner killed after it spawned the adapter, before the metadata has   *)
(* the pid.                                                                *)
Unnamed == mode = "async" /\ host = "killed" /\ ~meta.adapter

(* The process of a foreground question killed: it has no metadata.        *)
Abandoned == mode = "sync" /\ host = "killed"

AdapterReachable ==
  child = "live" /\ host \in {"exited", "killed"} =>
    \/ Leaked \/ Unnamed \/ Abandoned
    \/ host = "exited" /\ reaper # "none"
    \/ host = "killed" /\ meta.adapter /\ meta.status = "running"

(* A job that was launched is not reported as running for ever, unless its *)
(* runner was killed and its adapter hangs; and a host that exits by       *)
(* itself leaves, in the end, neither the adapter nor a descendant of it,  *)
(* unless collect() had run into its timeout.                              *)
Verdict ==
  IF meta.status # "running" THEN meta.status
  ELSE IF Up \/ (meta.adapter /\ Present) THEN "running" ELSE "ended"
JobEnds ==
  <>[](/\ launcher = "done" => Verdict # "running" \/ (host = "killed" /\ child = "live")
       /\ host = "exited" /\ collect # "timeout" => child # "live" /\ ~group)
============================================================================
