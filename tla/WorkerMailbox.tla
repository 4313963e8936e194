---------------------------- MODULE WorkerMailbox ----------------------------
(***************************************************************************)
(* The mailbox of a persistent worker (scripts/lib/supervisor-mailbox.mjs) *)
(* and the supervisor process that serves it (persistent-worker.mjs,       *)
(* adapter-worker-supervisor.mjs).  The process is an event loop: while    *)
(* its command loop awaits something, the task that runs, the handler of a *)
(* steer command or a signal takes its turn, and a signal ends the process *)
(* with the command loop still going.  Publishers are other processes.     *)
(* Commands are numbered in the order of createdAt and id; the first one   *)
(* is the assignment the supervisor publishes itself.                      *)
(***************************************************************************)
EXTENDS Naturals

CONSTANTS N,          \* number of command ids
          Type,       \* id -> "assign", "steer" (or interrupt) or "shutdown"
          Expected,   \* id -> the expectedTaskId of a steer command
          Publishers, \* processes that publish, each with a content of its own
          Writes,     \* publisher -> the ids it publishes
          Mortal,     \* publishers that may die between lock and command
          Self,       \* the supervisor as a publisher
          Kinds,      \* adapters: "batch" cannot be steered, the others keep a
                      \* session; those of a "managed" worker have a broker
          MaxStarts   \* bound: supervisors started over this mailbox

Cmds == 1 .. N

ASSUME CommandAssumption ==
  /\ N \in Nat \ {0} /\ MaxStarts \in Nat
  /\ Type \in [Cmds -> {"assign", "steer", "shutdown"}] /\ Type[1] = "assign"
  /\ Expected \in [Cmds -> Cmds]
  /\ Self \notin Publishers
  /\ Kinds \subseteq {"batch", "session", "managed"}
  /\ Writes \in [Publishers -> SUBSET (Cmds \ {1})]

VARIABLES command,   \* id -> the content of its file, or "none"
          publock,   \* ids with a publication lock
          pub,       \* publisher -> the id whose lock it has, or 0
          result,    \* id -> the status of its result file, or "none"
          loop,      \* where the command loop is
          todo,      \* commands of its last reading it has not visited
          active,    \* the active task, or 0
          task,      \* its execution: "none", "queued", "loading" its adapter,
                     \* "starting" one in place of another, "running"
          closing,   \* a shutdown command was taken
          settle,    \* "no", "closing", "ending": the terminal path
          kind,      \* that of the worker's adapter
          open,      \* its session has come about
          adapters,  \* live adapter processes, named by the task they are of
          handle,    \* the adapter the process can shut down, or 0
          pid,       \* the adapter it named last, or 0
          shut,      \* who awaits the shutdown of which adapter
          runs,      \* history: executions begun for a command
          before,    \* history: commands published when a shutdown stopped
          starts

mailVars  == <<command, publock, pub>>
loopVars  == <<loop, todo, active, closing, before>>
procVars  == <<adapters, handle, open, pid, shut>>
vars == <<mailVars, result, loopVars, task, settle, kind,
          procVars, runs, starts>>

Callers  == {"loop", "task", "settle"}
Final    == {"completed", "failed", "cancelled", "rejected"}
Nothing  == [x \in Callers |-> 0]
Awaiting == {"sleep", "handler", "stop", "expire", "returned"}

(* The event loop has come back to what awaits: a task that was queued is  *)
(* a microtask and has begun before.                                       *)
Turn == /\ loop \in Awaiting \/ (loop = "boot" /\ pub[Self] = 0)
        /\ task # "queued"

Init ==
  /\ command = [c \in Cmds |-> "none"]
  /\ publock = {} /\ pub = [p \in Publishers \cup {Self} |-> 0]
  /\ result = [c \in Cmds |-> "none"]
  /\ loop = "down" /\ todo = {} /\ active = 0 /\ closing = FALSE
  /\ before = {}
  /\ task = "none" /\ settle = "no" /\ open = FALSE
  /\ kind \in Kinds
  /\ adapters = {} /\ handle = 0 /\ pid = 0 /\ shut = Nothing
  /\ runs = [c \in Cmds |-> 0] /\ starts = 0

-----------------------------------------------------------------------------
(* submitCommand *)

(* mkdir of the publication lock is exclusive; who finds it taken returns  *)
(* the command that is there, or throws, and changes nothing, as one does  *)
(* that published before.                                                  *)
LockId(p, c) ==
  /\ pub[p] = 0 /\ c \notin publock /\ command[c] # p
  /\ publock' = publock \cup {c} /\ pub' = [pub EXCEPT ![p] = c]
  /\ UNCHANGED command

Unlock(p) == publock' = publock \ {pub[p]} /\ pub' = [pub EXCEPT ![p] = 0]

(* The candidate is renamed, unless the id is there with this content or   *)
(* another one (a conflict); the lock is given up.                         *)
PublishId(p) ==
  /\ pub[p] # 0 /\ Unlock(p)
  /\ command' = [command EXCEPT ![pub[p]] = IF @ = "none" THEN p ELSE @]

(* A publisher that dies leaves its lock; what it was may come back.       *)
PublisherDies(p) ==
  /\ p \in Mortal /\ pub[p] # 0 /\ pub' = [pub EXCEPT ![p] = 0]
  /\ UNCHANGED <<command, publock>>

Submits(p) == \/ \E c \in Writes[p] : LockId(p, c)
              \/ PublishId(p) \/ PublisherDies(p)

Submit(p) ==
  /\ Submits(p)
  /\ UNCHANGED <<result, loopVars, task, settle, kind, procVars, runs,
                 starts>>

Published == {c \in Cmds : command[c] # "none"}

(* writeCommandResult: only an accepted command gets another result.       *)
Answer(c, status) ==
  IF result[c] \in {"none", "accepted"} THEN [result EXCEPT ![c] = status]
                                       ELSE result

-----------------------------------------------------------------------------
(* shutdownAdapter: the live handle is taken, its end awaited, and the     *)
(* process group named last is killed.  Without a handle nothing is        *)
(* awaited.                                                                *)

TakeHandle(x) == /\ shut' = [shut EXCEPT ![x] = handle] /\ handle' = 0
                 /\ open' = FALSE
Reap(x)       == /\ adapters' = adapters \ {shut[x], pid}
                 /\ shut' = [shut EXCEPT ![x] = 0]

-----------------------------------------------------------------------------
(* The supervisor starts *)

Boot ==
  /\ loop = "down" /\ starts < MaxStarts
  /\ starts' = starts + 1 /\ loop' = "boot" /\ adapters' = {}
  /\ UNCHANGED <<mailVars, result, todo, active, closing, before, task, settle,
                 kind, open, handle, pid, shut, runs>>

(* It publishes its first assignment.                                      *)
BootPublish ==
  /\ loop = "boot"
  /\ \/ LockId(Self, 1) /\ UNCHANGED loop
     \/ PublishId(Self) /\ loop' = "check"
     \/ /\ pub[Self] = 0 /\ (1 \in publock \/ command[1] # "none")
        /\ loop' = IF command[1] = "none" THEN "returned" ELSE "check"
        /\ UNCHANGED mailVars
  /\ UNCHANGED <<result, todo, active, closing, before, task, settle, kind,
                 procVars, runs, starts>>

(* "An accepted result from a prior process is not permission to replay."  *)
BootCheck ==
  /\ loop = "check"
  /\ loop' = IF \E c \in Published : result[c] = "accepted" THEN "returned"
                                                            ELSE "top"
  /\ UNCHANGED <<mailVars, result, todo, active, closing, before, task, settle,
                 kind, procVars, runs, starts>>

-----------------------------------------------------------------------------
(* The command loop *)

Loop == UNCHANGED <<mailVars, task, settle, kind, runs, starts>>

(* An iteration reads the mailbox, or finds that it was idle too long.     *)
ReadCommands ==
  /\ loop = "top"
  /\ \/ active = 0 /\ loop' = "expire" /\ TakeHandle("loop") /\ UNCHANGED todo
     \/ loop' = "scan" /\ todo' = Published /\ UNCHANGED <<handle, shut, open>>
  /\ Loop /\ UNCHANGED <<result, active, closing, before, adapters, pid>>

Expired ==
  /\ loop = "expire" /\ Turn /\ Reap("loop") /\ loop' = "returned"
  /\ Loop /\ UNCHANGED <<result, todo, active, closing, before, handle, open,
                         pid>>

Visits(c) == loop = "scan" /\ c \in todo /\ \A d \in todo : c <= d

(* What has a result is done with; an assignment waits for the task that   *)
(* is active.                                                              *)
Skip(c) ==
  /\ Visits(c)
  /\ \/ result[c] # "none"
     \/ Type[c] = "assign" /\ active # 0
  /\ todo' = todo \ {c}
  /\ Loop /\ UNCHANGED <<result, loop, active, closing, before, procVars>>

(* Bug: the acceptance is not on disk when the task begins.                *)
Assign_Unrecorded(c) ==
  /\ Visits(c) /\ result[c] = "none" /\ Type[c] = "assign" /\ active = 0
  /\ active' = c /\ task' = "queued" /\ todo' = todo \ {c}
  /\ UNCHANGED <<result, mailVars, settle, kind, runs, starts, loop, closing,
                 before, procVars>>

(* The acceptance is durable before the task, which begins when the loop   *)
(* next awaits.                                                            *)
Assign(c) ==
  /\ Visits(c) /\ result[c] = "none" /\ Type[c] = "assign" /\ active = 0
  /\ result' = Answer(c, "accepted")
  /\ active' = c /\ task' = "queued" /\ todo' = todo \ {c}
  /\ UNCHANGED <<mailVars, settle, kind, runs, starts, loop, closing, before,
                 procVars>>

(* A steer command needs the task it expects and an adapter that can.      *)
RejectSteer(c) ==
  /\ Visits(c) /\ result[c] = "none" /\ Type[c] = "steer"
  /\ active # Expected[c] \/ kind = "batch"
  /\ result' = Answer(c, "rejected") /\ todo' = todo \ {c}
  /\ Loop /\ UNCHANGED <<loop, active, closing, before, procVars>>

TakeSteer(c) ==
  /\ Visits(c) /\ result[c] = "none" /\ Type[c] = "steer"
  /\ active = Expected[c] /\ kind # "batch"
  /\ result' = Answer(c, "accepted") /\ loop' = "handler"
  /\ Loop /\ UNCHANGED <<todo, active, closing, before, procVars>>

(* Its handler has loaded the adapter by the time it acts.                 *)
Handled(c) == loop = "handler" /\ Turn /\ c \in todo /\ \A d \in todo : c <= d

SteerReturns(c) ==
  /\ Handled(c)
  /\ \E status \in {"completed", "rejected", "failed"} :
       result' = Answer(c, status)
  /\ todo' = todo \ {c} /\ loop' = "scan"
  /\ Loop /\ UNCHANGED <<active, closing, before, procVars>>

(* A shutdown command stops the adapter ...                                *)
TakeShutdown(c) ==
  /\ Visits(c) /\ result[c] = "none" /\ Type[c] = "shutdown"
  /\ result' = Answer(c, "accepted") /\ closing' = TRUE /\ loop' = "stop"
  /\ TakeHandle("loop")
  /\ Loop /\ UNCHANGED <<todo, active, before, adapters, pid>>

(* Bug: what came during the stop is not read.                             *)
Stopped_NoReading ==
  /\ loop = "stop" /\ Turn /\ Reap("loop") /\ loop' = "drain"
  /\ result' = IF active = 0 THEN result ELSE Answer(active, "cancelled")
  /\ before' = Published
  /\ Loop /\ UNCHANGED <<todo, active, closing, handle, open, pid>>

(* ... answers the active task and what was published by then ...          *)
Stopped ==
  /\ loop = "stop" /\ Turn /\ Reap("loop") /\ loop' = "drain"
  /\ result' = IF active = 0 THEN result ELSE Answer(active, "cancelled")
  /\ todo' = Published /\ before' = Published
  /\ Loop /\ UNCHANGED <<active, closing, handle, open, pid>>

CancelQueued(c) ==
  /\ loop = "drain" /\ c \in todo /\ \A d \in todo : c <= d
  /\ result' = IF result[c] = "none" THEN Answer(c, "cancelled") ELSE result
  /\ todo' = todo \ {c}
  /\ Loop /\ UNCHANGED <<loop, active, closing, before, procVars>>

(* ... and then itself.                                                    *)
FinishShutdown(c) ==
  /\ loop = "drain" /\ todo = {}
  /\ Type[c] = "shutdown" /\ result[c] = "accepted"
  /\ result' = Answer(c, "completed") /\ loop' = "returned" /\ before' = {}
  /\ Loop /\ UNCHANGED <<todo, active, closing, procVars>>

Rest ==
  /\ \/ loop = "scan" /\ todo = {} /\ loop' = "sleep"
     \/ loop = "sleep" /\ Turn /\ loop' = "top"
  /\ Loop /\ UNCHANGED <<result, todo, active, closing, before, procVars>>

-----------------------------------------------------------------------------
(* The task, while the loop awaits *)

Task == UNCHANGED <<mailVars, settle, kind, starts, todo, closing, before>>

Execute ==
  /\ task = "queued" /\ loop \in Awaiting
  /\ runs' = [runs EXCEPT ![active] = @ + 1]
  /\ task' = "loading"
  /\ Task /\ UNCHANGED <<result, loop, active, procVars>>

(* An adapter that is started may fail to open its session.                *)
Start(gone) ==
  /\ task' = "running"
  /\ adapters' = (adapters \ gone) \cup {active}
  /\ handle' = active /\ pid' = active
  /\ open' \in IF kind = "batch" THEN {FALSE} ELSE BOOLEAN

(* An open session takes the next prompt; else the former adapter is shut  *)
(* down and a new one started, or just forgotten if it should keep a       *)
(* session and no broker is there.                                         *)
LoadAdapter ==
  /\ task = "loading" /\ Turn
  /\ \/ /\ handle = 0 \/ (~open /\ kind = "session")
        /\ Start({}) /\ UNCHANGED shut
     \/ /\ open /\ task' = "running" /\ UNCHANGED procVars
     \/ /\ handle # 0 /\ ~open /\ kind # "session" /\ task' = "starting"
        /\ TakeHandle("task") /\ UNCHANGED <<adapters, pid>>
  /\ Task /\ UNCHANGED <<result, loop, active, runs>>

StartAdapter ==
  /\ task = "starting" /\ Turn
  /\ Start({shut["task"], pid}) /\ shut' = [shut EXCEPT !["task"] = 0]
  /\ Task /\ UNCHANGED <<result, loop, active, runs>>

(* Bug: the worker stays active after its task.                            *)
TaskEnds_Active ==
  /\ task = "running" /\ Turn
  /\ \E status \in {"completed", "failed"} :
       result' = IF closing THEN result ELSE Answer(active, status)
  /\ task' = "none"
  /\ adapters' \in {adapters, adapters \ {handle}}
  /\ Task /\ UNCHANGED <<loop, active, handle, pid, shut, open, runs>>

(* The task's answer, unless a shutdown has answered it; a batch adapter   *)
(* may have exited.                                                        *)
TaskEnds ==
  /\ task = "running" /\ Turn
  /\ \E status \in {"completed", "failed"} :
       result' = IF closing THEN result ELSE Answer(active, status)
  /\ task' = "none" /\ active' = IF closing THEN active ELSE 0
  /\ adapters' \in {adapters, adapters \ {handle}}
  /\ Task /\ UNCHANGED <<loop, handle, pid, shut, open, runs>>

-----------------------------------------------------------------------------
(* settle: the terminal path *)

Others == UNCHANGED <<mailVars, result, kind, runs, starts>>

(* A signal, the watchdog, or the return of the command loop; once.        *)
Settle ==
  /\ settle = "no" /\ Turn
  /\ settle' = "closing"
  /\ Others /\ UNCHANGED <<loopVars, task, procVars>>

(* After the broker is closed, the adapter is shut down.                   *)
SettleAdapter ==
  /\ settle = "closing" /\ Turn /\ handle # 0
  /\ settle' = "ending" /\ TakeHandle("settle")
  /\ Others /\ UNCHANGED <<loopVars, task, adapters, pid>>

Gone == /\ loop' = "down" /\ todo' = {} /\ active' = 0
        /\ closing' = FALSE /\ before' = {}
        /\ task' = "none" /\ settle' = "no" /\ handle' = 0 /\ pid' = 0
        /\ shut' = Nothing
        /\ pub' = [pub EXCEPT ![Self] = 0] /\ UNCHANGED <<command, publock>>
        /\ open' = FALSE /\ UNCHANGED <<result, kind, runs, starts>>

(* Bug: the group of the adapter named last is not reaped.                 *)
Exit_NoReap ==
  /\ Turn
  /\ settle = "ending" \/ (settle = "closing" /\ handle = 0)
  /\ adapters' = adapters \ {shut["settle"]}
  /\ Gone

(* The rest is done without another await.                                 *)
Exit ==
  /\ Turn
  /\ settle = "ending" \/ (settle = "closing" /\ handle = 0)
  /\ adapters' = adapters \ {shut["settle"], pid}
  /\ Gone

(* SIGKILL; the adapters that live on are those of RuntimeTree.            *)
Killed == loop # "down" /\ adapters' = {} /\ Gone

Serve ==
  \/ ReadCommands \/ Expired \/ Stopped \/ Rest
  \/ \E c \in Cmds : \/ Skip(c) \/ Assign(c) \/ RejectSteer(c) \/ TakeSteer(c)
                     \/ SteerReturns(c) \/ TakeShutdown(c)
                     \/ CancelQueued(c) \/ FinishShutdown(c)

Next ==
  \/ \E p \in Publishers : Submit(p)
  \/ Boot \/ BootPublish \/ BootCheck
  \/ Serve \/ Execute \/ LoadAdapter \/ StartAdapter \/ TaskEnds
  \/ Settle \/ SettleAdapter \/ Exit \/ Killed

Spec == Init /\ [][Next]_vars

(* The process goes on: its event loop turns again and again, and a task   *)
(* ends, since collect has a timeout; what is due when the loop awaits runs *)
(* before long.  Nothing is assumed of signals and publishers.             *)
FairSpec ==
  /\ Spec
  /\ WF_vars(Boot) /\ WF_vars(BootPublish) /\ WF_vars(BootCheck)
  /\ WF_vars(Serve) /\ WF_vars(Execute)
  /\ SF_vars(LoadAdapter) /\ SF_vars(StartAdapter) /\ SF_vars(TaskEnds)

-----------------------------------------------------------------------------
(* Properties *)

TypeOK ==
  /\ command \in [Cmds -> Publishers \cup {Self, "none"}]
  /\ publock \in SUBSET Cmds
  /\ pub \in [Publishers \cup {Self} -> 0 .. N]
  /\ result \in [Cmds -> Final \cup {"none", "accepted"}]
  /\ loop \in Awaiting \cup {"down", "boot", "check", "top", "scan", "drain"}
  /\ todo \in SUBSET Published
  /\ active \in 0 .. N
  /\ task \in {"none", "queued", "loading", "starting", "running"}
  /\ task # "none" => active # 0
  /\ open => handle # 0
  /\ active # 0 => closing \/ result[active] = "accepted"
  /\ before \in SUBSET Published
  /\ closing \in BOOLEAN /\ open \in BOOLEAN /\ kind \in Kinds
  /\ settle \in {"no", "closing", "ending"}
  /\ adapters \in SUBSET Cmds
  /\ handle \in 0 .. N /\ pid \in 0 .. N
  /\ shut \in [Callers -> 0 .. N]
  /\ runs \in [Cmds -> Nat]
  /\ starts \in 0 .. MaxStarts

(* An id keeps what was published under it, a task is run at most once and *)
(* after it was accepted, an answer is final: for publishers that compete, *)
(* die and come back and supervisors that are killed and started again.    *)
Contract == INSTANCE CommandContract WITH
              Ids <- Cmds, Contents <- Publishers \cup {Self},
              content <- command, answer <- result
KeepsContract == Contract!Spec

(* "supports steering of the pinned active task": whenever the handler of  *)
(* a steer command gets to act, no task is active but the one it names.    *)
PinnedTask == \A c \in Cmds : Handled(c) => active \in {0, Expected[c]}

(* When a worker returns after a shutdown command, what was published      *)
(* before its adapter had stopped has its final answer.                    *)
ShutdownAnswers ==
  [][loop = "drain" /\ loop' = "returned" =>
       \A c \in before : result'[c] \in Final]_vars

(* "Killing the supervisor's process group does NOT reach the adapter      *)
(* (adapters spawn their own detached group), so SIGTERM/SIGINT handlers   *)
(* gracefully shut the adapter down here": the terminal path leaves no     *)
(* adapter but one that the command loop was shutting down at that         *)
(* instant, although the loop goes on during it and may start another.     *)
ExitLeavesNothing ==
  [][loop # "down" /\ loop' = "down" =>
       adapters' \subseteq {shut["loop"], shut["task"]}]_vars

(* Whoever publishes what, and however assignments queue behind the active *)
(* one: in the end all that was published is answered, unless no           *)
(* supervisor is left.                                                     *)
Served ==
  <>[]\/ loop \in {"down", "returned"}
      \/ \A c \in Published : result[c] \in Final
=============================================================================
