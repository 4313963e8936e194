--------------------------- MODULE AdmissionLedger ---------------------------
(***************************************************************************)
(* The concurrency ledger of scripts/lib/concurrency-limits.mjs and its    *)
(* clients: the Task/Agent hooks (concurrency-gate, concurrency-release)   *)
(* and worker teams (spawnTeam, monitorTeam, shutdownTeam of               *)
(* worker-spawn.mjs).  One ledger transaction is one step: that is what    *)
(* LedgerLock establishes.  A run is one team of one worker with a slug of *)
(* its own; a tool is one Task/Agent call, its tool_use_id being the entry *)
(* id.  Time is a clock in units of a fraction of STALE_HOOK_MS.           *)
(***************************************************************************)
EXTENDS Naturals, FiniteSets

CONSTANTS Tools, Runs,       \* Task/Agent calls and team runs
          Providers,
          ProviderOf,        \* the provider of each tool and run
          GlobalLimit,
          ProviderLimit,     \* loadConcurrencyLimits
          StaleAge,          \* STALE_HOOK_MS, in ticks
          LaunchTime,        \* longest time inside spawnTeam after the reservation
          MaxTime,           \* bound on the clock
          MaxCorruptions,    \* bound: times the ledger file is damaged
          StopEvents         \* SubagentStop fires in addition to PostToolUse

ASSUME WorkAssumption ==
  /\ Tools \cap Runs = {}
  /\ ProviderOf \in [Tools \cup Runs -> Providers]
ASSUME LimitAssumption == GlobalLimit \in Nat /\ ProviderLimit \in [Providers -> Nat]
ASSUME TimeAssumption ==
  /\ StaleAge \in Nat /\ LaunchTime \in Nat /\ MaxTime \in Nat \ {0}
  /\ LaunchTime < StaleAge
  /\ MaxCorruptions \in Nat
  /\ StopEvents \in BOOLEAN

VARIABLES now,
          ledgerFile,   \* "ok", also before its creation, or "corrupt"
          entries,      \* its activeTasks
          barrier,      \* recovery.unresolvedUntil; 0 without a barrier
          corruptions,
          tool,         \* what each Task/Agent call does
          startedAt,    \* when it was admitted; 0 unless it runs
          events,       \* hook events that were not handled yet
          stolen,       \* history: a SubagentStop released a running call
          spawner,      \* the process inside spawnTeam
          reservedAt,   \* when it reserved; 0 outside spawnTeam
          proc,         \* the detached worker
          teamFile,     \* the durable team-<slug>.json
          abandoned     \* history: a poll gave up the worker while it lived

ledgerVars == <<ledgerFile, entries, barrier>>
hookVars   == <<tool, startedAt, events, stolen>>
teamVars   == <<spawner, reservedAt, proc, teamFile>>
vars == <<now, corruptions, ledgerVars, hookVars, teamVars, abandoned>>

Hook(c, t) ==
  [kind |-> "hook", key |-> c, prov |-> ProviderOf[c], at |-> t, until |-> 0]
(* The age of a team's entry frees nothing, so its startedAt is left out.  *)
Team(r, u) ==
  [kind |-> "team", key |-> r, prov |-> ProviderOf[r], at |-> 0, until |-> u]

HookEntry == [kind : {"hook"}, key : Tools, prov : Providers,
              at : 0 .. MaxTime, until : {0}]
TeamEntry == [kind : {"team"}, key : Runs, prov : Providers,
              at : {0}, until : 0 .. MaxTime + StaleAge]

Init ==
  /\ now = 1
  /\ ledgerFile = "ok" /\ entries = {} /\ barrier = 0
  /\ corruptions = 0
  /\ tool = [c \in Tools |-> "idle"]
  /\ startedAt = [c \in Tools |-> 0]
  /\ events = {}
  /\ stolen = FALSE
  /\ spawner = [r \in Runs |-> "none"]
  /\ reservedAt = [r \in Runs |-> 0]
  /\ proc = [r \in Runs |-> "none"]
  /\ teamFile = [r \in Runs |-> "missing"]
  /\ abandoned = {}

(* The process of run r is inside spawnTeam, past its reservation.         *)
Spawning(r) == spawner[r] \in {"launching", "stopping"}

-----------------------------------------------------------------------------
(* What a transaction sees: readLedger and pruneStaleEntries *)

(* shouldReclaimEntry.  A worker's own terminal snapshot ("ended") counts  *)
(* before the team file is updated; a killed worker leaves none.  Without  *)
(* a team file the reserving process protects the entry, or, for a         *)
(* recovered one, the end of the barrier.                                  *)
Reclaimable(e) ==
  \/ e.kind = "hook" /\ now - e.at >= StaleAge
  \/ /\ e.kind = "team"
     /\ \/ teamFile[e.key] = "terminal"
        \/ teamFile[e.key] = "active" /\ proc[e.key] = "ended"
        \/ teamFile[e.key] = "missing" /\ e.until # 0 /\ now >= e.until
        \/ teamFile[e.key] = "missing" /\ e.until = 0 /\ ~Spawning(e.key)

(* durableTeamRecovery: one entry per worker that the team files do not    *)
(* show to be terminal or released.                                        *)
Durable(until) ==
  {Team(r, until) : r \in {q \in Runs : teamFile[q] = "active"}}

(* mergeRecoveredTeamEntries: an entry that was recovered before is         *)
(* refreshed; next to any other the recovered one takes an id of its own.  *)
Merge(old, recovered) ==
  {e \in old : e.until = 0 \/ \A d \in recovered : d.key # e.key} \cup recovered

(* readLedger; recoverCorruptLedger rebuilds a damaged ledger from the     *)
(* team files, behind a barrier.                                           *)
Loaded ==
  IF ledgerFile = "corrupt"
    THEN [entries |-> Durable(now + StaleAge), barrier |-> now + StaleAge]
    ELSE [entries |-> entries, barrier |-> barrier]

(* Bug: the barrier ends without a second scan of the team files.          *)
Current_NoRescan ==
  [entries |-> {e \in Loaded.entries : ~Reclaimable(e)},
   barrier |-> IF now >= Loaded.barrier THEN 0 ELSE Loaded.barrier]

(* Bug: a ledger that cannot be parsed counts as empty.                    *)
Current_CorruptIsEmpty ==
  [entries |-> {e \in entries : ~Reclaimable(e)}, barrier |-> barrier]

(* pruneStaleEntries drops what is reclaimable and, when the barrier is    *)
(* over, scans the team files again before it is removed.                  *)
Current ==
  LET kept == {e \in Loaded.entries : ~Reclaimable(e)}
  IN IF Loaded.barrier # 0 /\ now >= Loaded.barrier
       THEN [entries |-> Merge(kept, Durable(Loaded.barrier)), barrier |-> 0]
       ELSE [entries |-> kept, barrier |-> Loaded.barrier]

(* writeLedger with the entries the operation leaves.                      *)
Write(after) ==
  /\ ledgerFile' = "ok"
  /\ entries' = after
  /\ barrier' = Current.barrier

Of(es, p)  == {e \in es : e.prov = p}

(* validateWorkerBatchConcurrency for a batch of one.                      *)
Fits(es, p) ==
  /\ Cardinality(es) + 1 <= GlobalLimit
  /\ Cardinality(Of(es, p)) + 1 <= ProviderLimit[p]

-----------------------------------------------------------------------------
(* The hooks *)

(* PreToolUse: reserveHookConcurrency admits the call ...                  *)
AdmitTool(c) ==
  /\ tool[c] = "idle"
  /\ Current.barrier = 0
  /\ Fits(Current.entries, ProviderOf[c])
  /\ tool' = [tool EXCEPT ![c] = "running"]
  /\ startedAt' = [startedAt EXCEPT ![c] = now]
  /\ Write(Current.entries \cup {Hook(c, now)})
  /\ UNCHANGED <<now, corruptions, events, stolen, teamVars, abandoned>>

(* ... or blocks it.  A refused call and readActiveConcurrencyCounts leave *)
(* the pruned, perhaps recovered, ledger.                                  *)
ReadCounts ==
  /\ Write(Current.entries)
  /\ UNCHANGED <<now, corruptions, hookVars, teamVars, abandoned>>

(* The call returns; the events are handled by asynchronous hooks.         *)
EndTool(c) ==
  /\ tool[c] = "running"
  /\ tool' = [tool EXCEPT ![c] = "ended"]
  /\ startedAt' = [startedAt EXCEPT ![c] = 0]
  /\ events' = events \cup {<<"PostToolUse", c>>}
                      \cup (IF StopEvents THEN {<<"SubagentStop", c>>} ELSE {})
  /\ UNCHANGED <<now, corruptions, stolen, ledgerVars, teamVars, abandoned>>

(* releaseHookConcurrency for PostToolUse: exactly the call's own entry.   *)
PostToolUse(c) ==
  /\ <<"PostToolUse", c>> \in events
  /\ events' = events \ {<<"PostToolUse", c>>}
  /\ Write({e \in Current.entries : e.kind # "hook" \/ e.key # c})
  /\ UNCHANGED <<now, corruptions, tool, startedAt, stolen, teamVars, abandoned>>

(* The same for SubagentStop, whose id is in a namespace of its own: the   *)
(* oldest hook entry of the provider, else the oldest of any.              *)
Oldest(es) == {e \in es : \A d \in es : e.at <= d.at}

SubagentStop(c) ==
  /\ <<"SubagentStop", c>> \in events
  /\ events' = events \ {<<"SubagentStop", c>>}
  /\ LET hooks == {e \in Current.entries : e.kind = "hook"}
         same  == Of(hooks, ProviderOf[c])
     IN \/ hooks = {} /\ Write(Current.entries) /\ UNCHANGED stolen
        \/ \E e \in Oldest(IF same # {} THEN same ELSE hooks) :
             /\ Write(Current.entries \ {e})
             /\ stolen' = (stolen \/ tool[e.key] = "running")
  /\ UNCHANGED <<now, corruptions, tool, startedAt, teamVars, abandoned>>

(* A hook process is killed or times out, or finds the ledger unavailable. *)
LoseEvent ==
  /\ \E e \in events : events' = events \ {e}
  /\ UNCHANGED <<now, corruptions, ledgerVars, tool, startedAt, stolen, teamVars, abandoned>>

-----------------------------------------------------------------------------
(* The life of a team *)

(* spawnTeam reserves before anything is launched.                         *)
Reserve(r) ==
  /\ spawner[r] = "none"
  /\ Current.barrier = 0
  /\ Fits(Current.entries, ProviderOf[r])
  /\ Write(Current.entries \cup {Team(r, 0)})
  /\ spawner' = [spawner EXCEPT ![r] = "launching"]
  /\ reservedAt' = [reservedAt EXCEPT ![r] = now]
  /\ UNCHANGED <<now, corruptions, hookVars, proc, teamFile, abandoned>>

LaunchWorker(r) ==
  /\ spawner[r] = "launching" /\ proc[r] = "none"
  /\ proc' = [proc EXCEPT ![r] = "live"]
  /\ UNCHANGED <<now, corruptions, ledgerVars, hookVars, spawner, reservedAt,
                 teamFile, abandoned>>

(* spawnTeam throws, before or after its worker was started.  Its catch    *)
(* block stops what was started ...                                        *)
LaunchFails(r) ==
  /\ spawner[r] = "launching"
  /\ spawner' = [spawner EXCEPT ![r] = "stopping"]
  /\ UNCHANGED <<now, corruptions, ledgerVars, hookVars, reservedAt, proc,
                 teamFile, abandoned>>

StopStarted(r) ==
  /\ spawner[r] = "stopping" /\ proc[r] = "live"
  /\ proc' = [proc EXCEPT ![r] = "killed"]
  /\ UNCHANGED <<now, corruptions, ledgerVars, hookVars, spawner, reservedAt,
                 teamFile, abandoned>>

(* ... before it releases the reservation; a release that fails is ignored.*)
ReleaseBatch(r) ==
  /\ spawner[r] = "stopping" /\ proc[r] # "live"
  /\ spawner' = [spawner EXCEPT ![r] = "failed"]
  /\ reservedAt' = [reservedAt EXCEPT ![r] = 0]
  /\ \/ Write({e \in Current.entries : e.kind # "team" \/ e.key # r})
     \/ UNCHANGED ledgerVars
  /\ UNCHANGED <<now, corruptions, hookVars, proc, teamFile, abandoned>>

(* A worker that cannot be launched is marked failed, its entry released   *)
(* and the team saved without it.                                          *)
LaunchRefused(r) ==
  /\ spawner[r] = "launching" /\ proc[r] = "none"
  /\ spawner' = [spawner EXCEPT ![r] = "done"]
  /\ reservedAt' = [reservedAt EXCEPT ![r] = 0]
  /\ teamFile' = [teamFile EXCEPT ![r] = "terminal"]
  /\ \/ Write({e \in Current.entries : e.kind # "team" \/ e.key # r})
     \/ UNCHANGED ledgerVars
  /\ UNCHANGED <<now, corruptions, hookVars, proc, abandoned>>

(* The team file is first written when every worker was launched.          *)
SaveTeam(r) ==
  /\ spawner[r] = "launching" /\ proc[r] # "none"
  /\ spawner' = [spawner EXCEPT ![r] = "done"]
  /\ reservedAt' = [reservedAt EXCEPT ![r] = 0]
  /\ teamFile' = [teamFile EXCEPT ![r] = "active"]
  /\ UNCHANGED <<now, corruptions, ledgerVars, hookVars, proc, abandoned>>

(* The orchestrator dies inside spawnTeam; a detached worker lives on.     *)
SpawnerDies(r) ==
  /\ Spawning(r)
  /\ spawner' = [spawner EXCEPT ![r] = "dead"]
  /\ reservedAt' = [reservedAt EXCEPT ![r] = 0]
  /\ UNCHANGED <<now, corruptions, ledgerVars, hookVars, proc, teamFile, abandoned>>

(* A worker ends with a terminal snapshot, or is killed without one.       *)
WorkerEnds(r) ==
  /\ proc[r] = "live"
  /\ \E how \in {"ended", "killed"} : proc' = [proc EXCEPT ![r] = how]
  /\ UNCHANGED <<now, corruptions, ledgerVars, hookVars, spawner, reservedAt,
                 teamFile, abandoned>>

(* monitorTeam gives a worker up that ended or died, and also a live one   *)
(* whose heartbeat was stale at two polls, or whose snapshot is damaged or *)
(* never came; each of these may happen to any worker at any time.  The    *)
(* poll releases the entry and then writes the team file; it may die in    *)
(* between, and the release may fail.                                      *)
GiveUp(r) ==
  /\ teamFile[r] = "active"
  /\ abandoned' = abandoned \cup {q \in {r} : proc[q] = "live"}

MonitorReleases(r) ==
  /\ GiveUp(r)
  /\ Write({e \in Current.entries : e.kind # "team" \/ e.key # r})
  /\ UNCHANGED <<now, corruptions, hookVars, teamVars>>

MonitorSaves(r) ==
  /\ GiveUp(r)
  /\ teamFile' = [teamFile EXCEPT ![r] = "terminal"]
  /\ UNCHANGED <<now, corruptions, ledgerVars, hookVars, spawner, reservedAt, proc>>

(* shutdownTeam: the worker is killed first, whatever its status says ...  *)
ShutdownKills(r) ==
  /\ teamFile[r] # "missing" /\ proc[r] = "live"
  /\ proc' = [proc EXCEPT ![r] = "killed"]
  /\ UNCHANGED <<now, corruptions, ledgerVars, hookVars, spawner, reservedAt,
                 teamFile, abandoned>>

(* ... then the reservation is released and the file removed; without the  *)
(* release the file stays as evidence.                                     *)
ShutdownReleases(r) ==
  /\ teamFile[r] # "missing" /\ proc[r] # "live"
  /\ Write({e \in Current.entries : e.kind # "team" \/ e.key # r})
  /\ teamFile' = [teamFile EXCEPT ![r] = "missing"]
  /\ UNCHANGED <<now, corruptions, hookVars, spawner, reservedAt, proc, abandoned>>

-----------------------------------------------------------------------------
(* The environment *)

(* Something damages the ledger's content: its entries are lost.           *)
CorruptLedger ==
  /\ corruptions < MaxCorruptions
  /\ corruptions' = corruptions + 1
  /\ ledgerFile' = "corrupt" /\ entries' = {} /\ barrier' = 0
  /\ UNCHANGED <<now, hookVars, teamVars, abandoned>>

(* spawnTeam takes at most LaunchTime.                                     *)
Tick ==
  /\ now < MaxTime
  /\ \A r \in Runs : Spawning(r) => now < reservedAt[r] + LaunchTime
  /\ now' = now + 1
  /\ UNCHANGED <<corruptions, ledgerVars, hookVars, teamVars, abandoned>>

Next ==
  \/ ReadCounts \/ LoseEvent \/ CorruptLedger \/ Tick
  \/ \E c \in Tools : AdmitTool(c) \/ EndTool(c) \/ PostToolUse(c) \/ SubagentStop(c)
  \/ \E r \in Runs :
       \/ Reserve(r) \/ LaunchWorker(r) \/ LaunchFails(r) \/ StopStarted(r)
       \/ ReleaseBatch(r) \/ LaunchRefused(r) \/ SaveTeam(r) \/ SpawnerDies(r)
       \/ WorkerEnds(r) \/ MonitorReleases(r) \/ MonitorSaves(r) \/ ShutdownKills(r) \/ ShutdownReleases(r)

Spec == Init /\ [][Next]_vars

-----------------------------------------------------------------------------
(* Properties *)

Typed ==
  /\ now \in 1 .. MaxTime
  /\ ledgerFile \in {"ok", "corrupt"}
  /\ entries \in SUBSET (HookEntry \cup TeamEntry)
  /\ barrier \in 0 .. MaxTime + StaleAge
  /\ corruptions \in 0 .. MaxCorruptions
  /\ tool \in [Tools -> {"idle", "running", "ended"}]
  /\ startedAt \in [Tools -> 0 .. MaxTime]
  /\ stolen \in BOOLEAN
  /\ events \in SUBSET ({"PostToolUse", "SubagentStop"} \X Tools)
  /\ spawner \in [Runs -> {"none", "launching", "stopping", "failed", "done", "dead"}]
  /\ reservedAt \in [Runs -> 0 .. MaxTime]
  /\ proc \in [Runs -> {"none", "live", "ended", "killed"}]
  /\ teamFile \in [Runs -> {"missing", "active", "terminal"}]
  /\ abandoned \in SUBSET Runs

(* The types, and a ledger that charges no call and no worker twice.       *)
OneEntryEach ==
  \A d, e \in entries : d.kind = e.kind /\ d.key = e.key => d = e

TypeOK == Typed /\ OneEntryEach

(* Once a team's state is durable, its live worker is charged in every     *)
(* readable ledger without a barrier, whatever was pruned, damaged,        *)
(* rebuilt, released or killed in the meantime.  The exception is a worker *)
(* that monitorTeam gave up while it lived, on a heartbeat that was stale  *)
(* at two polls or a snapshot it could not read: its slot is given away    *)
(* although it works on.                                                   *)
Charged(r) == \E e \in entries : e.kind = "team" /\ e.key = r

DurableWorkerCharged ==
  ledgerFile = "ok" /\ barrier = 0 =>
    \A r \in Runs \ abandoned :
      teamFile[r] # "missing" /\ proc[r] = "live" => Charged(r)

(* The work that really runs never exceeds the limits: live workers, also  *)
(* those that spawnTeam started before it threw, and calls younger than    *)
(* the stale age.  Two kinds of worker are not counted: one that a poll    *)
(* gave up while it lived, and one whose orchestrator died before it wrote *)
(* the team file.                                                          *)
Running ==
  {r \in Runs \ abandoned : proc[r] = "live" /\ spawner[r] # "dead"}
  \cup {c \in Tools : tool[c] = "running" /\ now - startedAt[c] < StaleAge}

WorkWithinLimits ==
  /\ Cardinality(Running) <= GlobalLimit
  /\ \A p \in Providers :
       Cardinality({w \in Running : ProviderOf[w] = p}) <= ProviderLimit[p]

(* The same as long as no SubagentStop event released the slot of another  *)
(* call that still runs.                                                   *)
WorkWithinLimitsUnlessStolen == ~stolen => WorkWithinLimits

(* A reservation of a launch in progress is not taken away: neither time   *)
(* nor another process's transaction frees it while its owner is alive.    *)
(* A damaged ledger loses it; then no work is admitted until the launch is *)
(* over and its team file can be seen.                                     *)
LaunchProtected ==
  \A r \in Runs : Spawning(r) =>
    Charged(r) \/ ledgerFile = "corrupt" \/ barrier >= reservedAt[r] + StaleAge
=============================================================================
