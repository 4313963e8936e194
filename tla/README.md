# A TLA+ model of agent-olympus

agent-olympus is a plugin that lets a coding agent run a project as a team. An
orchestrator plans, starts detached worker processes (Claude, Codex or Gemini
CLIs), merges what they commit and reviews it. There is no server: every
component is a short-lived Node.js process (a hook, a command, a tick) or a
detached supervisor, and what they share is files under `.ao/`. The questions a
model checker can help with are therefore all of one kind: what another process,
or the next incarnation of this one, finds on disk when a process stopped
between two writes, and what two processes do that read the same file.

This directory holds TLA+ modules translated from the sources, the TLC
configurations that check them on small instances, and proofs that TLAPS checks
for every value of the constants. `PROJECT.json` is the index: components,
runs, mutated definitions that each property must reject, the source lines of
every definition, hazards, and the theorems.

    tlc -config LedgerLock.cfg MCLedgerLock         a model-checking run
    tlapm LedgerProofs.tla                          the proofs of a module

## The system

| component | state it keeps | operations | who it meets, and where it is hard |
|---|---|---|---|
| Concurrency ledger lock (`concurrency-limits.mjs`) | the directory `ao-concurrency.lock` with `owner.json`, the reclaim guard directory | acquire, inspect, reclaim, release | every hook and orchestrator; holders die, pids are reused, callers time out |
| Admission ledger and hooks (`concurrency-limits.mjs`, `concurrency-gate.mjs`, `concurrency-release.mjs`, `worker-spawn.mjs`) | `ao-active-tasks.json`, its recovery barrier, `team-<slug>.json` | admit, reserve, confirm, release, prune, rebuild | a damaged ledger is rebuilt from team files; hook events get lost, arrive twice, name the wrong entry |
| Runtime trees (`worker-broker.mjs`, `adapter-worker-supervisor.mjs`, `supervisor-state.mjs`, `concurrency-limits.mjs`, `worker-spawn.mjs`) | runtime slots of the ledger, `children.json`, supervisor snapshots | spawn, inspect, integrate, discard, follow up, cancel, close; monitor, shut down, reconcile | parents, children and adapters are processes that die separately; an orchestrator stops them with what the files name |
| Worker mailboxes (`supervisor-mailbox.mjs`, `persistent-worker.mjs`) | command and result files of a worker | submit, read, answer; assign, steer, interrupt, shut down | one file per message, written by several processes and never removed; commands arrive while one runs |
| Athena scheduler (`athena-scheduler.mjs`) | the runtime file: tasks, waves, expected HEAD; the tick lock | create, tick, cancel | each tick is a process; git, the team and the file change in separate steps |
| Phase ledger, loop guard and orchestrator commands (`phase-runner.mjs`, `loop-guard.mjs`, `orchestrator-runtime.mjs`, `run-failure.mjs`) | `pipeline.json`, the attempt counters, the execution PRD, `failure.json`, the summary | tick, begin, complete, skip, fail, reattempt, policy rewind, finalize | the host issues commands and repeats what a crash cut off; every command is several durable writes |
| Run admission and artifacts (`orchestrator-skill-init.mjs`, `run-artifacts.mjs`, `run-finalization-lock.mjs`) | active-run pointers, run directories, the strict ledger of user requests and its anchor | invoke, append a request, append an event, finalize | hooks and commands of two orchestrators meet over one pair of pointers; each update is two or three files |
| Recovery claims (`recovery-claim.mjs`, `orphan-run-recovery.mjs`) | chains of claim files | claim, re-attach, reclaim | several processes find the same dead owner |
| Provider fallback (`worker-spawn.mjs`) | a handoff record, its output, a lock with recovery claims, child team files | plan, dispatch, follow, begin and complete a native task | two sessions poll the same failed worker and die in between; the replacement works in the same worktree |
| Ask jobs and exec adapters (`ask.mjs`, `ask-jobs.mjs`, `codex-exec.mjs`, `gemini-exec.mjs`, `codex-release-reaper.mjs`) | metadata, event log and answer of a job; the handle of a child | launch, run, status, collect, cancel; spawn, collect, shut down, release, reap | data, exit and close come in any order; runner and adapter die separately |
| Session adapters (`codex-appserver.mjs`, `gemini-acp.mjs`, driven by `adapter-worker-supervisor.mjs`) | the handle of a server that serves many turns, the requests awaited | initialize, open a session, start and collect a turn, steer, interrupt | replies and notifications come in one pipe and in chunks; timers fire and answers come late; the server exits or falls silent |
| Execution PRD store (`execution-prd-lock.mjs`, `execution-prd-store.mjs`, `spec-artifact.mjs`, `orchestrator-runtime.mjs`) | `spec.md` and `prd.json`, a lock file, transaction directories | replace both, check them, assign, pass and roll back stories | a lock that is judged stale by age and pid; a replacement is a dozen file operations that a crash may cut anywhere |
| Athena start and recovery (`athena-start.mjs`, `athena-recovery.mjs`) | acknowledgement ledger | send, acknowledge; adopt, spawn or stop | a lost acknowledgement |
| Review evidence (`orchestrator-review-evidence.mjs`, `review-package.mjs`, `run-artifacts.mjs`) | the verification generation of a run, its records, bindings, approvals; HEAD, index and worktree | start, bind, record, seal, approve, complete a phase, commit | files, people and hooks change what is being approved; a commit is several Git commands |
| Stage escalation, session registry | a decision file, a session file | | shared by sessions |

The other parts (adapters, permission detection, planning artifacts, autonomy,
routing, memory, UI helpers, delivery, the evaluation harness) either keep no
shared state or do I/O with external programs; PROJECT.json names each with the
reason it is left out.

What makes each component correct:

* the lock has one live holder and a dead holder does not block it; the ledger
  behind it loses no update;
* work that runs is charged to the ledger, and what is charged is within the
  limits, across pruning, rebuilding, failed launches and lost events;
* a process that a managed worker started is charged and on record until it is
  gone; a stop ends with nothing left and nothing charged;
* a mailbox command is executed at most once and gets one final answer;
* a story is launched once, on a base that contains its verified dependencies;
  a run that ended leaves no worker; nothing reaches HEAD that the runtime file
  does not explain;
* a run gets one verdict, on work that is fresh, within its budget, and does get
  one; what a crash cut off is charged once;
* a project has one active run, and a request that was accepted stays in it;
* a failed worker is replaced until there is an answer, by one agent at a time;
* an answer that a CLI gave is not lost, and no CLI process is left behind;
* an assignment gets a result, and the output of its own turn;
* `spec.md` and `prd.json` change together, and no change of the plan is lost;
* evidence approves the tree it was produced on, and nothing else is committed.

## What is modelled

Each component is one module `X.tla` with `Init`, one action per handler or
durable effect, `Next` and `Spec`; `MCX.tla` gives TLC its small sets; and
`XProofs.tla` holds the theorems (`LedgerProofs.tla` those of LedgerLock and of
AdmissionLedger, `RunProofs.tla` those of RunAdmission and of ReviewEvidence,
`SupervisorProofs.tla` those of RuntimeTree and of SessionAdapter, `StoreProofs.tla`
those of WorkerMailbox and of PrdStore). Three MC modules put two components that share no
state into one run: a behaviour of `MCSupervisor` is about RuntimeTree or about
SessionAdapter, one of `MCAthena` about AthenaScheduler or about
ProviderFallback, one of `MCRun` about RunAdmission or about ReviewEvidence
(`about` says which and never changes). PROJECT.json `map` names the lines behind
every definition.

### LedgerLock: who holds `ao-concurrency.lock`

State: the lock directory and its owner file, the reclaim guard, the ledger
(the set of transactions it holds), and for every process its place in
`acquireLedgerLock` and what it has read. The actions are the file-system calls
(`rename` of the candidate directory, read of `owner.json`, `mkdir` of the
guard, rename away, unlink, rmdir), since every two of them can be interleaved.
A process may die at each place, and its deadline may pass in every wait. The
body of a transaction is a read and a write of the ledger.

Abstracted: a token stands for pid, start id and nonce. A pid that was reused is
the set `Masked`: a dead process that the liveness probe takes for alive.

| run | bounds | what it shows |
|---|---|---|
| `ledger_lock` | 3 processes, one attempt each; the pid of one is reused when it dies, one waits without a deadline | one live holder and no lost ledger write in every behaviour where no reclaim misjudged the lock; every attempt ends, and a patient caller gets the lock of a dead one |
| `ledger_lock_race` | 4 symmetric processes: two contenders, a dead owner and a reclaimer | without that proviso the lock can have two holders (first finding) |

`misjudged` is a history variable. It is set by the one step the finding is
about, so that the other properties are checked behind it and not next to it.

Fairness (`FairSpec`): a live process goes on, and a deadline that is due
passes. Both are what the operating system gives a process that polls.

### AdmissionLedger: what is charged

State: the entries of `ao-active-tasks.json` (hook entries per tool call, team
entries per run), whether the file is damaged, the recovery barrier, the team
files, and the calls and workers that really run. The actions are whole ledger
transactions: admit (`concurrency-gate.mjs`), release by the two hook events
(`concurrency-release.mjs`), reserve, confirm and release of a team
(`worker-spawn.mjs`), pruning inside each, and rebuilding from team files. A
transaction is one step because `LedgerLock` shows that it has the ledger for
itself (and the finding there shows the exception). A launch that throws stops
what it started before it releases the batch (`LaunchFails`, `StopStarted`,
`ReleaseBatch`), and a poll that gives a worker up releases its entry before it
saves the team file (`MonitorReleases`, `MonitorSaves`); it may die in between.

A poll gives up workers that ended or died, and also a live one: its heartbeat
was stale at two polls, its snapshot is damaged, or none came within the grace.
Any of these may happen to any worker at any time, so `GiveUp` asks nothing of
the worker. It remembers the live ones in the history variable `abandoned`: they
work on and their slot is given away, which the properties say by name.

| run | bounds | what it shows |
|---|---|---|
| `admission` | 2 tool calls, 2 runs, 2 providers, claude limit 1, global limit 2, times 1..3, one damage | the limits are reached, pruning and the barrier expire, and one damage meets every phase of a launch: a durable worker stays charged unless a poll gave it up alive (`DurableWorkerCharged`), and work stays within the limits unless a slot was given away by the double release (`WorkWithinLimitsUnlessStolen`) |
| `admission_double_release` | 3 tool calls, 1 run, no damage, times 0..5 | the double release breaks the limit (second finding) |

`WorkWithinLimitsUnlessStolen` sets the behaviours of the second finding aside
with a history variable, as above. It does not count a worker that was given up
alive, nor one whose orchestrator died before it wrote the team file: nothing
on disk charges either of them. Workers that a throwing launch started count until
they are stopped.

### RuntimeTree: what a managed worker starts

State: the parent entry and the slots of the ledger, `children.json` and the
broker's memory of it, the operation the broker is in, the supervisor and its
terminal snapshot, each child with its own supervisor, adapter and snapshot, and
the team file. The actions follow `createWorkerBroker` from durable effect to
durable effect (claim, record, launch, bind, name the pid), its close, the
poll of `monitorTeam`, the phases of `shutdownTeam` and
`reconcileRuntimeTree`. A supervisor or leaf may be killed between any two.

The start of an adapter (`StartAdapter`, `LeafStartsAdapter`) and the snapshot
that names its process (`NameAdapter`, `LeafNamesAdapter`) are two steps, and the
second may never come: the supervisor may be killed before it, and the write is
a best effort. An adapter whose supervisor is gone and that no snapshot names is
nobody's (`NobodysAdapter`, `NobodysChild`): no cleanup can find it, its slot is
given back and the team file removed while it runs. `ChildWorkCharged` and
`NothingLeftBehind` except exactly these processes.

Abstracted: a kill of a process is atomic; worktrees and sockets are outside.

| run | bounds | what it shows |
|---|---|---|
| `supervisor` (part "tree") | one worker, a writing and a reading child, one slot | the children compete for the slot. A child that runs is charged (`ChildWorkCharged`), a removed team leaves nothing (`NothingLeftBehind`), both but for an adapter nobody can name, and a stop ends (`StopEnds`, in the run a part of `WorkStops`) |
| `runtime_tree_parent` | the same | the worker's own adapter, although a snapshot names it, can outlive its charge (third finding) |

Fairness (`FairSpec`): only the shutdown. The decision to stop is durable and
every later tick or command acts on it, however often it is interrupted. No
fairness is assumed of the broker, which may hang.

### AthenaScheduler: the life of a run

State: the runtime file (status, status of each story, expected HEAD and the
marks of the current wave), HEAD, the tick lock, the process inside it with its
copy of the file, the team file, the workers and their results. Every tick and
every cancel is a process: `Begin` takes the lock, `ReadRuntime` takes the early
returns, and then each durable effect of `tickAthenaRuntime`, `failRuntime`,
`stopWave` and `cancelAthenaRuntime` is an action with its save. `Crash` may
come between any two. Workers answer, end or die, and others commit, at any
time.

Abstracted: only the last wave is kept, as no earlier one can be unverified;
saves of the runtime file do not fail; which ready stories fit the limits is a
free choice; `shutdownTeam` is its outcome, as RuntimeTree has the detail; the
lock has one holder at a time (the recovery of a lock by two processes at once
is a listed hazard).

| run | bounds | what it shows |
|---|---|---|
| `athena` (part "run") | 3 stories in two waves, the third depends on the first and shares its worker with the second; 1 foreign commit; 1 crash | both reasons to wait occur, a wave has two members, and one crash between any two effects is enough to meet every ambiguous state; the proofs below cover more than one. The safety properties, and that a ticked run ends (`RunEnds`, in the run a part of `WorkEnds`) |

`RunEnds` has two provisos the code does not exclude: a process that dies while
the lock directory has no owner file blocks the run for good, and a run may wait
for capacity that never comes. Fairness (`FairSpec`): a process in the lock goes
on (weak), the lead keeps calling tick (strong, since cancels of others may come
in between), and workers answer and end (weak). `EndedIsQuiet` and `EndIsFinal`
together say that an end is an end.

### WorkerMailbox: one worker, its commands and its end

State: the command and result files and the publication locks, the place of the
command loop (`runPersistentWorker`) and the commands of its last reading, the
active task and where its execution is, the terminal path (`settle`), and the
adapter processes with the handle, the pid and the three callers that may await
the end of one. The supervisor is an event loop: while the command loop awaits
(`Awaiting`), the task, a signal or the watchdog take their turn, and a task
that was queued begins first (it is a microtask). So the actions of the command
loop between two awaits are `ReadCommands`, one visit per command (`Skip`,
`Assign`, `RejectSteer`, `TakeSteer`, `TakeShutdown`), and what follows each
await; `Execute`, `LoadAdapter`, `StartAdapter` and `TaskEnds` are the task;
`Settle`, `SettleAdapter` and `Exit` the terminal path. `Killed` is SIGKILL.

`CommandContract` is what the mailbox promises per command: published once, run
at most once and after its acceptance, one final answer. `KeepsContract` says
that `WorkerMailbox` implements it.

Abstracted: the rename of a publication and the removal of its lock are one
step; steer and interrupt are one type; a process group is killed at once;
adapters that outlive a SIGKILL of the supervisor are the subject of RuntimeTree
and left out here; limits, malformed files and the snapshot are outside.

| run | bounds | what it shows |
|---|---|---|
| `worker_mailbox` | 4 commands (two assignments, a steer command for the second, a shutdown); 2 publishers that want the same id, one may die; 2 supervisors; adapters without a session and managed ones with | an assignment queues behind another, a command comes during each await, and the second supervisor meets every state the first can leave. The contract, that a shutdown answers all and the terminal path leaves nothing, and that all is served |

`PinnedTask`: a steer command acts on the task it names. `ShutdownAnswers`: a
shutdown leaves nothing unanswered that came before the adapter had stopped.
`ExitLeavesNothing`: the terminal path leaves no adapter but one the command
loop was shutting down. It is proved for workers that are managed or keep no
session, and the run has those: in an unmanaged worker with a session
(`codex-appserver`, `gemini-acp`), an assignment that failed before its session
was open is followed by one that starts a second server and overwrites the
handle, and nobody shuts the first one down (`adapter-worker-supervisor.mjs`).
`Served` excepts a worker that expired idle or has no
supervisor.

Fairness (`FairSpec`): the command loop goes on (weak); a task loads its adapter
and ends (strong, since it needs the loop to await, which it does again and
again; `collect` has a timeout). None is assumed of signals and publishers.

### PhaseRunner: one run, from its first phase to its verdict

State: the ledger (`pipeline.json`: status of each phase, attempt counter,
pending reattempt, terminal code), the counters (`loop-guard.mjs`,
`registerEscalation`), the execution PRD (version and whether its stories pass)
with the snapshot that a finalization pinned, the completion and failure events,
`failure.json`, the summary and the active-run pointer. A command holds the
run's transition lock, so one is in flight; it is cut into its durable writes,
and `op` names the write that comes next. `Command` is the choice of the host
(entering, completing, failing or skipping a phase, a loop tick, a
reattempt, an adopted PRD, a verdict, each also after a crash);
`Write` is the rest of a command (`CompletionEvent`, `MirrorAttempt`,
`WriteIntent`, `ChargeQuality`, `ChargeIteration`, `CommitRewind`,
`FailureEvent`, `PublishMarker`, `FailVerdict`, `Announce`,
`ReleasePointer`); `Crash` drops it.

A policy rewind is the exception: it pays before it takes the lock. Each of the
`Rewinders` reads the escalation log (`AskRewind`), truncates the file
(`TruncateLog`), writes it (`WriteLog`), or fails at that and goes on all the same
(`LogFails`), and then rewinds under the lock (`ReopenPhase`). It may die
anywhere (`RewinderDies`), and two may pay at once; a log that is read while it is
truncated, or was left so, counts as empty.

`RunPromise` is what all that is for: phases get done, a step back is paid for
before it is taken, with one of at most `Attempts` attempts or `Grants` policy
rewinds, success is given only when nothing is left, a verdict is given once and ends
everything. `KeepsPromise` says that PhaseRunner implements it. The limit on policy
rewinds is promised only until a payment may be missing from the log: two rewinders
paid at once, a write failed, or one died between its read and its write (`lapsed`). From
then on the code does grant more than the cap, and the promise keeps only that
each rewind that is taken was granted.

| run | bounds | what it shows |
|---|---|---|
| `phase_runner` | Atlas cut to plan, execute, verify, review, ci and Athena to plan, monitor, integrate, finalize, one phase of each kind; an Atlas with three iterations; two reasons to reattempt, one failure code; two rewinders; one mishap: a command or rewinder killed, a phase entered twice, a write of the log that fails, or both rewinders paying at once | behind a rewind nothing older survives (`TailIsFresh`), a reattempt is charged once however often it is cut off (`ChargedOnce`), what is published rests on something durable (`VerdictIsBacked`), the promise is kept, and a run ends (`RunEnds`) |

Fairness: some command or write happens as long as one can. This is the control
loop of the skills ("Repeat until `runStatus` is `completed`"); which command is
next stays free, and a run that uses up its caps must fail or finish.
`RunEnds` names two ways to be stuck that the code has: `Refused`, where every
command refuses the ledger, and `Stranded`, where all phases are done, the
verdict is refused (the PRD does not pass, or another version was pinned by a
finalization that was cut off) and no step back is left.

Abstracted: the workers behind a phase (failures after monitor assume workers
with an adapter); outputs, checkpoints and the error record; of the PRD only its
version and whether it passes.

Observed while modelling, none of it contradicting a comment: a reattempt
that was cut off and then followed by a command other than the same reattempt
makes the ledger unreadable for every command (`isValidPendingReattempt`); a
crash between the ledger write and the event of `completePhase` makes
`initPipeline` fail for good once a later phase completes; a review phase that is
entered again before its tick makes `loopTick` refuse, so that the run can only
fail; a policy rewind charges its budget before it is taken, also when it is then
refused or lost; and a failed phase whose marker is not out yet can be undone by
a rewind or a skip.

### AskJobs and ExecAdapter: one question to a CLI

`ExecAdapter` is one `codex exec` or `gemini` process with its process group,
the handle its host keeps (chunks read and parsed, turn, exit, close, `killed`),
`collect()`, `shutdown()` and the detached reaper of a released child. Node
delivers data, `exit` and `close` in any order it may: data after exit, close
last. `AskJobs` extends it with the host (the foreground command, or the
detached runner of a job), the launcher, the files of a job (prompt, metadata,
log with its `runner_done` sentinel, answer) and the commands `status`,
`collect` and `cancel`; each file operation and each probe of a process is a
step.

| run | bounds | what it shows |
|---|---|---|
| `ask_jobs` | codex or gemini, released on turn end or not, foreground or job; an output of two chunks; two commands at any time; one process killed from outside | a verdict that was told does not change (`OneVerdict`), no job is told to have crashed that recorded a verdict (`FailureIsTrue`), an answer survives every order of events (`AnswerSurvives`), an adapter that outlives its host can be found, but for three cases (`AdapterReachable`), and in the end no job runs and nothing of its process group is left (`JobEnds`) |

Fairness: Node goes on with a process that was not killed and its timers fire
(launcher, host, reaper). None is assumed of the CLI: it may hang.

Assumed of the CLIs: exit code zero comes after all output; descendants obey
SIGTERM; gemini has none. The properties name what they except, and the code
does: gemini's flush at `exit` can cut an answer whose second half comes after it
(`handle.cut`); the shutdown that gemini's `collect()` timeout starts sets
`killed`, so that `finalize` exits before the timer that sends SIGKILL
(`Leaked`); a runner killed between the start of its adapter and the metadata
that names it leaves an adapter nobody finds (`Unnamed`), and so does a foreground
process that is killed, which has no metadata (`Abandoned`); a sentinel appended
behind an unfinished line cannot be read (`legible`). Further, a codex process killed by a signal has a null `exitCode`,
so a later shutdown may signal a pid that was reused; and the answer file is not
written atomically.

### SessionAdapter: one server, many turns

State: the server (external: it takes its requests in order, works on one turn at
a time, may exit, be killed or hang), the two pipes, the handle (`status`,
session, turn, text, exit), the requests whose reply is awaited, the assignment
and where it is, the steer or interrupt command in execution, and the results.
Three protocols: `codex app-server`, `gemini --acp` as managed workers speak it
("acp"), and as the other gemini workers do ("gemini").

A reply settles the request with its id; a notification changes the handle at
once. Node works off all messages of one chunk before the code behind an await
goes on (`chunk`), and between two chunks that code does go on (`Quiet`). So
`Deliver` takes a message, `Initialized`, `SessionOpen`, `ModeSet`,
`TurnStarted`, `PromptAnswered` and their failures are what follows an await, and
`RequestTimeout`, `CallTimeout` and `TurnTimeout` are the timers.

| run | bounds | what it shows |
|---|---|---|
| `supervisor` (part "turns") | each protocol; two assignments; two of: a steer or interrupt command, a timer that fires although the answer is on its way, the loss of the server | an assignment is completed only with the output of its own turn, after the end of that turn (`OwnAnswer`); nobody waits for a turn whose end was delivered (`EndIsSeen`); every assignment gets a result (`TurnEnds`, in the run a part of `WorkStops`) |

`overdue` and `joined` are history variables for what the properties except. The
server goes on with a turn that a timer gave up (`overdue`): its late
`turn/completed`, which no turn id is compared with, settles the wait of the next
assignment. And where codex writes the reply to `turn/start` and
`turn/completed` so close that one chunk has both (`joined`), `startTurn` sets
the status back to running after the end was noted, and `collectTurnResult`,
which by its comment "Resolves when turn/completed notification arrives, process
exits, or timeout.", waits for the timeout.

Fairness: Node goes on, delivers what is in the pipe and fires its timers; a
server that is neither dead nor hung goes on. `TurnEnds` needs only the timers.

Observed: a managed gemini worker whose mode was refused fails the assignment and
keeps the session, so that the next one runs without the required mode; after a
codex turn that timed out the status stays `failed`, and every later request is
refused although the server lives; a server that was killed by a signal leaves no
exit code, so a later request waits for its timer; an interrupted codex turn
counts as completed; the server is spawned without an `error` listener, so a
binary that is not there ends the supervisor.

Abstracted: the message queue of gemini, `loadSession`, requests of the server
to its client, the read-only check, partial output, the credential cache and the
shutdown of a server (WorkerMailbox has the terminal path).

### ProviderFallback: what replaces a failed worker

State: a chain of attempts (the root worker and its replacements; the team of a
replacement is named by a digest of its parent and plan, so an attempt is its
place in the chain), their snapshots, which of them live, the child teams with
a team file, the handoff record with its output, the lock of the handoff with the
chain of recovery claims for each dead owner, and where each session is. A
session runs the monitor step of its skill again and again: it finds the failed
attempt, plans a retry, Gemini or a native Claude task, stops what is left
of the failed one, takes the lock, dispatches and follows; a native task is
begun and completed by the session itself. `SessionDies` and `LockTimeout` may come
at each step; a lock of a dead owner is taken over by whoever wins the claim.
A launch may be refused (`SpawnRefused`: no capacity, no tmux, a contract that is
not accepted), fail after it started its worker, which is stopped again
(`SpawnFails`), or save a worker that never ran (`unlaunched`): the poll ends with
the error, and a later one begins again at the root.

| run | bounds | what it shows |
|---|---|---|
| `athena` (part "worker") | five scenes: two sessions, a codex worker that only crashes, two mishaps; two sessions, a gemini worker and rate limits, one mishap; two sessions, codex and rate limits, none; one session, codex, network and limit, the longest chain; two sessions, a claude worker with network and other errors, two mishaps | one agent at a time works in the worktree (`OneReplacement`, unless a live worker was taken for dead or one runs that no file names), one session is in the dispatching part (`OneInside`), nobody starts again after an answer (`NoWorkAfterAnswer`), and there is one in the end (`FallbackEnds`, in the run a part of `WorkEnds`) |

`MaxDepth` is 6, the longest chain of the planner; the code follows 8. Fairness: each session polls again
(weak), a waiting session finds the lock free at one of its attempts every 25 ms
(strong; `LockTimeout` is when it does not), workers end (weak; `collect` has a
timeout).

The three safety properties are in `Replacement`, which ProviderFallback extends.
`alarmed` and `strays` are history variables for two cases the properties set
aside. A heartbeat that is stale twice, or no snapshot within the grace of ten
seconds, takes a live worker for dead; the SIGTERM of `reassign` then makes its
snapshot say "cancelled", and the next poll plans a Claude task where the first
had planned a retry. A session that dies between the launch of a child worker
and its team file leaves a worker without one. `FallbackEnds` names what may stop a
replacement: `HandoffLost`, the documented case of a native task whose session
died, which stays pending; `OutputLost`, a child that completed without an output
or snapshot tail to keep, which every later poll reports as failed and never
reassigns; `Irreplaceable`, a Claude worker that did not fail by the network; and
launches that throw again and again (`Threw`).

Abstracted: the parent team's own status file, wisdom, review identities, managed
subtrees, the age below which a lock is not reclaimed.

### RunAdmission, TransitionLock and RunRegistry: one active run

`TransitionLock` is the lock of run transitions: a directory put in place by a
rename, removed by an unlink and an rmdir, recovered through the claim chain of
`recovery-claim.mjs`. State of `RunAdmission`: the two active-run pointers and
their half-published intents, of each run its summary, pipeline, request ledger,
anchor and event log, and what each process does. A process invokes an
orchestrator (take the state lock, prune, adopt or create, take the run's lock,
append the request, mirror the anchor), appends an event as a subagent hook
does, or finalizes; it may die between any two writes.

`RunRegistry` is the promise: one run is active and only while it has not
ended, ended runs stay as they are but for one seal, and a run stops being active
only after it ended or when its pointer file was lost.

| run | bounds | what it shows |
|---|---|---|
| `admission_and_review` (part "admission") | two processes at a time, two runs, two requests; one each, in four combinations, of: invocation without a request, subagent event, death, lost pointer (of Athena) | two invocations race over creating, adopting and finalizing: requests survive (`RequestsSurvive`), the registry is implemented (`KeepsRegistry`), an ended run is put away (`ClosedIsPutAway`) |

Fairness: a process goes on (weak), and the finalization of a run that is
complete is tried again (strong, as others hold the lock in between).

Abstracted: the 30 s before a lock is stale; a pointer is its run (the code also
compares the inode); the lock of a run is released in one step; modes, links and
sizes of files; commands start at one idle process (they are alike).

Observed: the release of the state lock can fail when another process renames
its lock over the emptied directory, and an adopter or a subagent event may hold
the run's lock when the creator appends its first request. In both cases the
creator reports a failure and leaves a run without a request ledger, to which
every later invocation answers `task-update-ledger-missing`. A death inside
`finalizeRun` refuses admissions until it is run again; a death between
`createRun` and the first append strands the run; an append that is repeated
after a death records its request twice.

### ReviewEvidence and ReviewPromise: what a run accepts and commits

State: HEAD as a history of commits (each with its tree and who made it), the
index, the worktree, the generation of `prd.json`, the phase of the run, and the
files of the review gate: `verification-generation.json`, `verification.jsonl`,
one binding for each generation, one approval for each final review. A command
(`verification-start`, `-record`, `-complete`, `approve`, `complete review`,
`reattempt`, `complete finalize`, `finalize`) is cut where it looks and where it
writes; `materializeApprovedReviewCommit` is cut between its Git commands:
commit, resolve, update-ref, compare, read-tree. In between somebody may edit,
stage, commit or replan, a hook may change the message or the tree, refuse, or
outlive its timeout, and the command may die or its next Git command fail.

`ReviewPromise` knows rounds, not files: one round of verification at a time, about one
tree, plan and parent; a new round voids everything before it; nothing is
accepted but what every story was verified on, in a round begun since the phase
was entered; the run commits nothing but an approved tree and takes back nothing
but its own attempt. `KeepsReview` says that the files and commands implement it.

| run | bounds | what it shows |
|---|---|---|
| `admission_and_review` (part "review") | one story, two trees, two processes, one of which drives the run; any two mishaps of eight kinds at any moment | the promise is kept (`KeepsReview`), and a run whose host gives the commands it needs is closed in the end (`ReviewEnds`) |

Fairness: a command goes on; the host of the run gives the command the run needs
next, and knows the id of the generation it is to supersede. `ReviewEnds` excepts
what the code does not repair (`Overtaken`): a `verification-start` that was
begun in verify, where it takes no lock of the run, and gets through only when
finalize was completed voids the approval of a run that cannot go back.

Observed: a command that dies, or a hook that outlives its 15 s, between
`git commit` and `read-tree` leaves HEAD at the approved commit and another
index; every replay refuses until a new generation is approved on top of it.

Abstracted: the pin of the review base, who reviews and what they answer, digests and
validators, identities and times of commits (two generations of one second may
propose the same commit), files that a failing command cleans up. The ticks that
bound the rounds of a review are in PhaseRunner.

### PrdStore and PrdPromise: the plan of a project

State: `execution-prd.lock` (who created it, whether its owner is written, its
age), what each judge of a lock knows, `spec.md` and `prd.json`, the transaction
directories (`manifest.json`, staged and backed-up files), and for every command
its place, what it has read before and under the lock, and which files others
replaced since (a `stat` would tell it). The commands are an AO_SPEC envelope
that writes a plan ("plan") or checks the one there ("check"), a trivial run,
which writes a plan and assigns it ("trivial"), an enrichment, a story that passes and
a rollback. A step is one file operation: create, write, read back, judge,
recheck and unlink the lock; create and write each file of a transaction, move an
old file to the backup, install a new one, undo; a recovery restores one file per
step; the compare-and-swap looks at the stat (`CheckCurrent`), renames (`Swap`)
and reads back (`Confirm`). `Die` may come between any two, `Fault` fails one.

`PrdPromise` is what all this is for: both files change together, a change is
made once and from the `prd.json` its author has read, what was replaced may be
put back only by its writer and only while nobody changed it, and what a command
is told is true. `KeepsPair` says that PrdStore implements it. The refinement
mapping reads a file as the recovery will leave it (`Settled`): the old one as
long as a transaction with a readable manifest is not committed. So the
moment of commitment is the last rename of a transaction, and a file that
recovery refuses to touch counts as what it is.

| run | bounds | what it shows |
|---|---|---|
| `prd_store` | eight scenes: up to three commands of every kind over no plan, a plan, an assigned one and one with a passed story, with one death or one failing operation or neither; the third command may come after the others | two commands meet over the lock, the swap and a transaction, and a third finds what they left: the promise is kept (`KeepsPair`), and whoever replaces the plan gets it done (`PlanSettles`) |

Fairness: a command goes on, is given again if it met a conflict or failed and
undid everything, and time passes. `PlanSettles` assumes that processes do not
for ever pause for 30 s between creating a lock and writing its owner, since such
a lock is taken for abandoned.

What the two properties except is what the code does. Two commands may judge one
stale lock; the second unlinks the path after the first has made a new lock
there (`stolen`), though "Every mutation is serialized by a crash-reclaimable owner lock"
(`execution-prd-store.mjs`). After such a theft `KeepsPair` promises nothing: two
transactions may run at once, and recovery may undo one whose command is alive.
Recovery refuses some of what it finds for ever (`Wedged`): half a manifest or
half a staged file, which a crash between the creation and the write of the file
leaves (the comment in `commitArtifactPair` says that with a durable manifest a
later entry can "safely finish or roll back the transaction"), and a `prd.json` that was changed on top of a
transaction whose clean-up did not happen, as setters do not run the recovery.
Where that transaction was half done and spec.md was displaced (`Torn`), the swap
of the setter makes the displacement final; `KeepsPair` excepts that step, and
the promise goes on from what it leaves. `PlanSettles` is about the commands
that replace the plan; a trivial run never recovers: it rejects an incomplete
pair, and one that looks while both files are in the backup sees no plan and
writes its own.

Abstracted: what a valid plan is made of (a plan is its identity, its assignment
and the stories that passed); modes, links and sizes of files; the clean-up of a
transaction is one step and does not fail when a recovery does it; a trivial run
sees both files at once when it starts.

## What is proved

TLAPS checks these for every value of the constants (any number of processes,
runs, children, stories, commands and crashes, any limits), from the named assumptions of
the modules: bounds are natural numbers, sets are finite where they are counted,
a launch takes less time than the age at which a reservation without a team file
is pruned (`TimeAssumption`; `LaunchProtected` would be false without it), and a
dependency comes earlier in the PRD (`StoryAssumption`; `validateExecutionPrd`
rejects any other).

| module | theorems | inductive invariant, and why the property alone is not enough |
|---|---|---|
| LedgerProofs (LedgerLock) | type, `MutexUnlessMisjudged`, `NoLostUpdate`, `GuardHasOneOwner` | `LockInv`: what a process has read is still true as long as it can act on it. A holder's token is in the lock, a reclaimer's verdict stays right while it has the guard, a snapshot of the ledger is current |
| LedgerProofs (AdmissionLedger) | type, `DurableWorkerCharged`, `LaunchProtected`, `WorkWithinLimitsUnlessStolen` | `LedgerInv`: a launch is younger than the age at which its reservation is pruned, and what is durable and was not given up alive is charged or a barrier forbids admission. For the limits, what counts as work has an entry of its own, or a barrier outlasts it; the work is then counted by an injection into the entries |
| SupervisorProofs (RuntimeTree) | type, `ChildWorkCharged`, `ChildOnRecord`, `CompletionIsClean`, `NothingLeftBehind`, `NothingLaunchedWhileClosing` | `IInv`: slots follow processes, the place of the broker tells which effects are done, the record has what the broker remembers, a resolved child is gone |
| SupervisorProofs (SessionAdapter) | type, `OwnAnswer`, `EndIsSeen` | `SessionInv`: a turn is asked for once and last, then with the server, then over, and each message in the pipe fits the place where it is (`Course`); what is left over from earlier turns was given up or belongs to a dead server; the handle has no text but that of the awaited turn; a prompt that awaits its reply is the present one; after an exit nothing is answered. `NoWaitIsVain` is stronger than `EndIsSeen`: it holds inside a chunk too |
| AthenaSchedulerProofs | type, `LaunchedOnce`, `InputsVerified`, `MergesOnRecord`, `NoRepeatedMerge`, `EndedIsQuiet`, `CompletedIsVerified`, `EndIsFinal` | `IInv`: memory equals file at every place but one, each place of a tick belongs to one state of the wave, the status of a story follows from its place in the wave, and HEAD is what the file says plus at most the announced merges |
| StoreProofs (WorkerMailbox) | type, `KeepsContract` (a refinement), `ShutdownAnswers`, `PinnedTask`, `ExitLeavesNothing` (for workers that are managed or keep no session) | `IInv`: answers follow commands and runs follow answers, what is accepted is what the loop works on, and a live adapter is the one in the handle or one whose end somebody awaits |
| StoreProofs (PrdStore) | type, `KeepsPair` (a refinement) | `PairInv`, as long as no lock was stolen: who is at work holds the lock, and a judge who saw it unchanged sees a stale one; what a command has read under the lock is still there; at most one transaction lies open, and manifest, staged and backed-up files tell how far it got, alive or dead, also with a `prd.json` that a setter changed on top; with none open spec.md has the text of its plan; a recovery stands at a state that it can finish |
| PhaseRunnerProofs | type, `TailIsFresh`, `ChargedOnce`, `VerdictIsBacked`, `KeepsPromise` (a refinement) | `IInv`: phases are done in order, each durable write finds what the writes before it left (also after a death and another command), every step back that is announced or taken is paid for in the counters or granted to a rewinder that has yet to take it, the grants are those in the log and those of rewinders that are writing it (until one lapsed), and what is published agrees with ledger, events and marker |
| AskJobsProofs | type, `OneVerdict`, `FailureIsTrue`, `AnswerSurvives`, `AdapterReachable` | `IInv`: the place of launcher and runner tells what the files of the job hold, what a command has read or told stays true, the parser is behind the chunks in an order that data, `exit` and `close` leave, and where `shutdown()` is it has seen to the child |
| ProviderFallbackProofs | type, `OneInside`, `OneReplacement`, `NoWorkAfterAnswer` | `IInv`: who is inside owns the lock, who is about to unlink it has the last claim to its dead owner, and a dead owner stays dead; what a holder and a native task know of the record is still there; until a false alarm each attempt is the plan for the failure before it, and whoever dispatches stands on a failed one |
| RunProofs (RunAdmission) | `RequestsSurvive`, `KeepsRegistry` (a refinement) | `IInv` (with the types): the place of a command tells which of the two locks it holds; while it holds the admission lock no pointer appears behind its back; while the maker of a run may still erase it, nobody but a hook has a name for it; what an append or a finalization relies on is in the files of the run |
| RunProofs (ReviewEvidence) | type, `KeepsReview` (a refinement) | `ReviewInv`: the lock of the run is held by every command that carries an approval or ends a phase, so what it has found in the files stays true, while HEAD may grow under it; every record and every approval belongs to a generation that was bound; what is approved in the current generation has every story passed in a sealed manifest; a phase goes by a generation of its own entry; the commit of a completed run stays in the history |

Each invariant is first checked by TLC on the instance of the run, then shown
to hold initially and to be kept by each action (one lemma or step per action),
and the properties follow from it. The actions are the ones the runs check.

Of these, `GuardHasOneOwner`, `LaunchProtected`, `ChildOnRecord`,
`NothingLaunchedWhileClosing`, `CompletionIsClean`, `InputsVerified`,
`NoRepeatedMerge`, `EndedIsQuiet`, `PinnedTask` and the type invariants are left
to the proofs: no run repeats them.

Each refinement is proved step by step: the initial states map to initial
states, and under the inductive invariant every action of the detailed module is
an action of the abstract one or leaves its variables alone. The safety of a
replacement (`OneInside`, `OneReplacement`, `NoWorkAfterAnswer`) is stated in
`Replacement`, over the part of the state of ProviderFallback that it is about, so that
the run and the proofs share one statement.

The assumptions of the newer modules: no process is called like a state of a lock
(`ProcAssumption`); the operations of a command are told from the reasons to
reattempt (`ReasonsAssumption`), the rewinders are finitely many (`RewindersAssumption`), and
`Length`, `Attempts` and `Grants` bound every pipeline of the instance
(`PromiseAssumption` of PhaseRunner); `None` is no host, file or
round (`NoneAssumption` of ReviewEvidence), no value of PrdStore (its
`NoneAssumption`), and a plan that is there at the start has the text of its
spec.md (`ScenesAssumption` of PrdStore); a plan of SessionAdapter names one of its
protocols and numbers (`PlansAssumption`). The `ScenesAssumption`
of ProviderFallback, which types its scenes, is a hypothesis of its theorems, because the run instantiates
that module; `MCScenes` has what it asks.

Only model-checked: liveness (`AttemptEnds`, `DeadHolderIsReplaced`, `WorkStops`,
`Served`, `JobEnds`, `ReviewEnds`, `WorkEnds`, `ClosedIsPutAway`,
`PlanSettles` and the `RunEnds` of PhaseRunner), which is out of the prover's
reach. Every invariant and every action property that a passing run checks, and
each of the refinements, is a theorem.

## Findings

Three runs expect a violation. Each checks one property that states what a
comment or document of the repository says, and PROJECT.json quotes it:

1. `ledger_lock_race`: the re-check before a reclaim reads the owner and asks
   for its process afterwards; the lock it then renames may be another one.
2. `admission_double_release`: two events report the end of one call, and the
   second releases the entry of another call that still runs.
3. `runtime_tree_parent`: a poll that finds a dead supervisor releases the
   capacity of its tree while the adapter it had started may still run.

## What is not modelled

Hook input parsing, settings and migration of the ledger (also its marker, which
is written before the ledger); superseding a run by one of the same slug; batches
of more than one worker; worktrees, scope checks, sockets and tokens of managed
workers; what a CLI does with its prompt. The components still to come are in the plan;
those without state or with external I/O only are in PROJECT.json with status
`not_modelled` and the reason.

Hazards that were met and no run checks: the team file written after the
launches (in ProviderFallback it is the source of `strays`); a tick that dies
between `shutdownTeam` and its save, after which `stopWave` refuses for good; a
supervisor that wakes up after its heartbeat was judged stale; cancel of a child
that was integrated; `reap` of a child that was killed by a signal; the
generation of the tick lock read after its owner was found gone; a publisher
that dies between the lock of an id and its command. Some steps are modelled and what
they break is excepted from the properties by name, because the code has nothing
against it: an adapter that no snapshot or metadata names (RuntimeTree, AskJobs), a child that
completed without an output (ProviderFallback), a live worker that a poll gave up
(AdmissionLedger), a policy rewind whose payment was lost (PhaseRunner), and a
stolen lock of the plan (PrdStore). Others are covered by a
theorem and no run: a reservation during a slow launch (`LaunchProtected`), a
follow-up while the broker closes (`NothingLaunchedWhileClosing`), a steer
command for a task that ended (`PinnedTask`).

## Plan

Each module is written to be proved about: no recursive operators, one action per
operation, named assumptions.

1. Athena start: the acknowledgement ledger and the adopt, spawn or stop decision.
2. More of the present modules: batches and superseded runs in AdmissionLedger,
   and that RuntimeTree implements the ledger's promise and
   the scheduler's abstraction of a shutdown.
