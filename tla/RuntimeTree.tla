---------------------------- MODULE RuntimeTree ----------------------------
(***************************************************************************)
(* A managed worker and its children: the runtime slots of the ledger      *)
(* (concurrency-limits.mjs, schema 3), the broker that launches leaf       *)
(* agents (worker-broker.mjs), the supervisor process around it            *)
(* (adapter-worker-supervisor.mjs) and the orchestrator that monitors and  *)
(* stops it (worker-spawn.mjs).                                            *)
(*                                                                         *)
(* Each durable effect is a step of its own, so that any process can be    *)
(* killed between two of them; but no other code of the broker runs inside *)
(* a spawn, whose calls are synchronous.  A step of the ledger is one      *)
(* transaction (LedgerLock).  Scopes, prompts and git outcomes are inputs. *)
(***************************************************************************)
EXTENDS FiniteSets, Naturals

CONSTANTS Kids,      \* ids a parent may give its children
          ReadOnly,  \* those launched with readOnly
          Capacity   \* slots reserved for children

ASSUME KidsAssumption     == IsFiniteSet(Kids) /\ ReadOnly \subseteq Kids
ASSUME CapacityAssumption == Capacity \in Nat

VARIABLES parent,     \* the parent's ledger entry
          bound,      \* it names the supervisor process
          slot,       \* the slot a child holds; none is active without a child
          record,     \* children.json: is the child there, and with its pid?
          resolution, \* the broker's memory of its children; "open" is null
          op,         \* the broker operation in progress
          closer,     \* how far settle is
          verdict,    \* the status settle will report
          sup,        \* the supervisor process
          supSnap,    \* the status its snapshot ends with
          supAdapter, \* its adapter process runs
          supNamed,   \* and the snapshot says which process that is
          leaf,       \* the supervisor process of each child
          snap,       \* the status its snapshot ends with
          adapter,    \* its adapter process runs
          named,      \* and the snapshot says which process that is
          stop,       \* the orchestrator has decided to stop the team
          team        \* the team file

ledgerVars == <<parent, bound, slot>>
brokerVars == <<record, resolution, op, closer, verdict>>
supVars    == <<sup, supSnap, supAdapter, supNamed>>
leafVars   == <<leaf, snap, adapter, named>>
orchVars   == <<stop, team>>
vars       == <<ledgerVars, brokerVars, supVars, leafVars, orchVars>>

Idle     == [at |-> "idle"]
Waits    == {"reap", "cancel"}
Launches == {"admit", "claimed", "recorded", "launched", "bound"}
Goals    == {"inspect", "integrate", "discard", "followup", "cancel", "close"}
Ops      == {Idle} \cup [at : Launches, kid : Kids]
                   \cup [at : Waits, kid : Kids, goal : Goals]

Terminal == {"completed", "failed"}

LeafAlive(k) == leaf[k] \in {"boot", "run", "settled"}
SupAlive     == sup \in {"boot", "snapped", "live"}
Active       == {k \in Kids : slot[k] # "none"}

Init ==
  /\ parent = "open" /\ bound = FALSE
  /\ slot = [k \in Kids |-> "none"]
  /\ record = [k \in Kids |-> "none"]
  /\ resolution = [k \in Kids |-> "none"]
  /\ op = Idle /\ closer = "open" /\ verdict = "completed"
  /\ sup = "boot" /\ supSnap = "none" /\ supAdapter = FALSE /\ supNamed = FALSE
  /\ leaf = [k \in Kids |-> "none"]
  /\ snap = [k \in Kids |-> "none"]
  /\ adapter = [k \in Kids |-> FALSE]
  /\ named = [k \in Kids |-> FALSE]
  /\ stop = FALSE /\ team = "present"

-----------------------------------------------------------------------------
(* The ledger's side *)

(* releaseRuntimeSubtree: refused while a child is active or the process   *)
(* of the parent, if it is known, lives.                                   *)
Releasable(self) == Active = {} /\ (bound /\ SupAlive => self)

ReleaseSubtree ==
  /\ parent' = "absent" /\ bound' = FALSE
  /\ UNCHANGED slot

FinishChild(k) == slot' = [slot EXCEPT ![k] = "none"]

-----------------------------------------------------------------------------
(* The broker.  dispatch runs one operation at a time. *)

(* save writes all the children the broker remembers.                      *)
Saved(res) ==
  [k \in Kids |-> IF res[k] = "none" THEN "none"
                 ELSE IF leaf[k] = "none" THEN "nopid" ELSE "pid"]

Ready == sup = "live" /\ op = Idle /\ closer = "open"

At(l, k) == sup = "live" /\ op.at = l /\ op.kid = k

BrokerKeeps == UNCHANGED <<closer, verdict, supVars, leafVars, orchVars>>

(* spawn: claimRuntimeChild turns a reserved slot into an active one; a    *)
(* slot that this child already holds is taken up again.                   *)
Claim(k) ==
  /\ Ready \/ At("admit", k)
  /\ resolution[k] = "none"
  /\ \/ /\ parent = "open"
        /\ slot[k] # "none" \/ Cardinality(Active) < Capacity
        /\ slot' = [slot EXCEPT ![k] = "claimed"]
        /\ op' = [at |-> "claimed", kid |-> k]
     \/ /\ parent # "open" \/ (slot[k] = "none" /\ Cardinality(Active) = Capacity)
        /\ op' = Idle
        /\ UNCHANGED slot
  /\ UNCHANGED <<parent, bound, record, resolution>>
  /\ BrokerKeeps

(* "durable identity BEFORE process launch"; the worktree may fail to be   *)
(* created and the write may fail.                                         *)
RecordChild(k) ==
  /\ At("claimed", k)
  /\ \/ /\ FinishChild(k) \/ UNCHANGED slot
        /\ op' = Idle
        /\ UNCHANGED <<record, resolution>>
     \/ /\ resolution' = [resolution EXCEPT ![k] = "open"]
        /\ \/ record' = Saved(resolution') /\ op' = [at |-> "recorded", kid |-> k]
           \/ record' = record /\ op' = Idle
        /\ UNCHANGED slot
  /\ UNCHANGED <<parent, bound>>
  /\ BrokerKeeps

(* spawn(process.execPath, ...), which may fail or yield no pid.           *)
LaunchLeaf(k) ==
  /\ At("recorded", k)
  /\ \/ leaf' = [leaf EXCEPT ![k] = "boot"] /\ op' = [at |-> "launched", kid |-> k]
     \/ leaf' = leaf /\ op' = Idle
  /\ UNCHANGED <<ledgerVars, record, resolution, closer, verdict, supVars,
                 snap, adapter, named, orchVars>>

(* bindRuntimeProcess; when it throws, the child runs unbound.             *)
BindLeaf(k) ==
  /\ At("launched", k)
  /\ \/ slot' = [slot EXCEPT ![k] = "bound"] /\ op' = [at |-> "bound", kid |-> k]
     \/ slot' = slot /\ op' = Idle
  /\ UNCHANGED <<parent, bound, record, resolution>>
  /\ BrokerKeeps

SaveLeaf(k) ==
  /\ At("bound", k)
  /\ record' = Saved(resolution)
  /\ op' = Idle
  /\ UNCHANGED <<ledgerVars, resolution>>
  /\ BrokerKeeps

(* inspect, and the operations that begin with it.  Without a terminal     *)
(* snapshot nothing happens; with one the broker waits for the exit.       *)
Inspect(k) ==
  /\ Ready
  /\ resolution[k] # "none" /\ snap[k] \in Terminal
  /\ \E g \in {"inspect", "integrate", "discard", "followup"} :
       op' = [at |-> "reap", kid |-> k, goal |-> g]
  /\ UNCHANGED <<ledgerVars, record, resolution>>
  /\ BrokerKeeps

(* A completed read-only result is observed by looking at it.              *)
Observed(k) ==
  IF k \in ReadOnly /\ snap[k] = "completed"
    THEN [resolution EXCEPT ![k] = "observed"] ELSE resolution

(* What becomes of the child's result: a merge may fail, and only a        *)
(* completed child is merged.                                              *)
Resolutions(k, goal) ==
  IF goal = "discard" THEN {[Observed(k) EXCEPT ![k] = "discarded"]}
  ELSE IF goal = "integrate" /\ snap[k] = "completed"
         THEN {Observed(k), [Observed(k) EXCEPT ![k] = "integrated"]}
         ELSE {Observed(k)}

(* A follow-up to a resolved child goes back through dispatch, which asks  *)
(* again whether the broker is closing.                                    *)
Continuation(k, res) ==
  IF closer = "open" /\ res[k] # "open" /\ \E n \in Kids : resolution[n] = "none"
    THEN {[at |-> "admit", kid |-> n] : n \in {m \in Kids : resolution[m] = "none"}}
    ELSE {Idle}

(* reap: the exit event of a process that ended by itself, then            *)
(* finishRuntimeChild, the resolution and save.                            *)
Reap(k) ==
  /\ At("reap", k)
  /\ leaf[k] = "exited"
  /\ FinishChild(k)
  /\ \E res \in Resolutions(k, op.goal) :
       /\ resolution' = res
       /\ record' = Saved(res)
       /\ op' \in IF op.goal = "followup" THEN Continuation(k, res) ELSE {Idle}
  /\ UNCHANGED <<parent, bound>>
  /\ BrokerKeeps

(* cancel sends SIGTERM, which is among the things that can happen to a    *)
(* leaf anyway, and waits at most seven seconds for an exit code.          *)
Cancel(k) ==
  /\ Ready
  /\ resolution[k] # "none"
  /\ op' = [at |-> "cancel", kid |-> k, goal |-> "cancel"]
  /\ UNCHANGED <<ledgerVars, record, resolution>>
  /\ BrokerKeeps

(* A process killed by a signal has no exit code and is not seen to end.   *)
CancelEnds(k) ==
  /\ At("cancel", k)
  /\ op' = Idle
  /\ \/ /\ leaf[k] \in {"none", "exited"}
        /\ FinishChild(k)
        /\ resolution' = [resolution EXCEPT ![k] = "discarded"]
        /\ record' = Saved(resolution')
        /\ UNCHANGED <<closer, verdict>>
     \/ /\ leaf[k] \notin {"none", "exited"}
        /\ IF op.goal = "close" THEN closer' = "adapter" /\ verdict' = "failed"
                                ELSE UNCHANGED <<closer, verdict>>
        /\ UNCHANGED <<slot, record, resolution>>
  /\ UNCHANGED <<parent, bound, supVars, leafVars, orchVars>>

-----------------------------------------------------------------------------
(* The supervisor process *)

(* main: the first snapshot, a best effort like all but the last, so that  *)
(* nothing depends on it; then the binding and the broker.                 *)
FirstSnapshot ==
  /\ sup = "boot"
  /\ sup' = "snapped"
  /\ UNCHANGED <<ledgerVars, brokerVars, supSnap, supAdapter, supNamed, leafVars,
                 orchVars>>

BindParent ==
  /\ sup = "snapped" /\ parent = "open"
  /\ bound' = TRUE /\ sup' = "live"
  /\ UNCHANGED <<parent, slot, brokerVars, supSnap, supAdapter, supNamed, leafVars,
                 orchVars>>

(* The entry is gone, the provider unsupported or the broker not created.  *)
StartFails ==
  /\ sup = "snapped"
  /\ sup' = "exited" /\ supSnap' \in {"none", "failed"}
  /\ \/ Releasable(TRUE) /\ ReleaseSubtree
     \/ UNCHANGED ledgerVars
  /\ UNCHANGED <<brokerVars, supAdapter, supNamed, leafVars, orchVars>>

(* The adapter is spawned ...                                              *)
StartAdapter ==
  /\ sup = "live" /\ closer \in {"open", "waiting"} /\ ~supAdapter
  /\ supAdapter' = TRUE
  /\ UNCHANGED <<ledgerVars, brokerVars, sup, supSnap, supNamed, leafVars, orchVars>>

(* ... and the next snapshot, or a later heartbeat's, names its process,   *)
(* unless the write fails or settle has begun.                             *)
NameAdapter ==
  /\ sup = "live" /\ closer = "open" /\ supAdapter /\ ~supNamed
  /\ supNamed' = TRUE
  /\ UNCHANGED <<ledgerVars, brokerVars, sup, supSnap, supAdapter, leafVars, orchVars>>

AdapterGone == supAdapter' = FALSE /\ supNamed' = FALSE

(* The adapter ends by itself, under its supervisor or after it.           *)
AdapterEnds ==
  /\ supAdapter
  /\ AdapterGone
  /\ UNCHANGED <<ledgerVars, brokerVars, sup, supSnap, leafVars, orchVars>>

(* settle begins: at the end of the work, a signal, the watchdog or an     *)
(* error, between two turns of the event loop.  broker.close fences the    *)
(* subtree and saves; when it cannot do both, the close has failed.        *)
Fenced == IF parent = "absent" THEN parent ELSE "closing"

BeginSettle ==
  /\ sup = "live" /\ closer = "open" /\ op.at \notin Launches
  /\ \/ /\ verdict' \in Terminal
        /\ closer' = "waiting"
        /\ parent' = Fenced
        /\ record' = Saved(resolution)
     \/ /\ verdict' = "failed"
        /\ closer' = "adapter"
        /\ parent' \in {parent, Fenced}
        /\ UNCHANGED record
  /\ UNCHANGED <<bound, slot, resolution, op, supVars, leafVars, orchVars>>

(* ... awaits the operation in progress and cancels what is unresolved ... *)
CloseChild(k) ==
  /\ sup = "live" /\ closer = "waiting" /\ op = Idle
  /\ resolution[k] = "open"
  /\ op' = [at |-> "cancel", kid |-> k, goal |-> "close"]
  /\ UNCHANGED <<ledgerVars, record, resolution>>
  /\ BrokerKeeps

CloseDone ==
  /\ sup = "live" /\ closer = "waiting" /\ op = Idle
  /\ \A k \in Kids : resolution[k] # "open"
  /\ closer' = "adapter"
  /\ UNCHANGED <<ledgerVars, record, resolution, op, verdict, supVars,
                 leafVars, orchVars>>

(* ... then shutdownAdapter ...                                            *)
ShutdownAdapter ==
  /\ sup = "live" /\ closer = "adapter"
  /\ AdapterGone
  /\ closer' = "release"
  /\ UNCHANGED <<ledgerVars, record, resolution, op, verdict, sup, supSnap,
                 leafVars, orchVars>>

(* ... the release of the subtree, whose refusal is ignored ...            *)
SelfRelease ==
  /\ sup = "live" /\ closer = "release"
  /\ \/ Releasable(TRUE) /\ ReleaseSubtree
     \/ ~Releasable(TRUE) /\ UNCHANGED ledgerVars
  /\ closer' = "snapshot"
  /\ UNCHANGED <<record, resolution, op, verdict, supVars, leafVars, orchVars>>

(* ... and the terminal snapshot, which may fail to be written.            *)
FinalSnapshot ==
  /\ sup = "live" /\ closer = "snapshot" /\ op.at \notin Launches
  /\ sup' = "exited"
  /\ supSnap' \in {verdict, supSnap}
  /\ op' = Idle
  /\ UNCHANGED <<ledgerVars, record, resolution, closer, verdict, supAdapter,
                 supNamed, leafVars, orchVars>>

(* A kill takes the broker's memory with it.                               *)
LoseSupervisor ==
  /\ sup' = "killed"
  /\ resolution' = [k \in Kids |-> "none"]
  /\ op' = Idle /\ closer' = "open" /\ verdict' = "completed"
  /\ UNCHANGED record

SupervisorDies ==
  /\ SupAlive
  /\ LoseSupervisor
  /\ UNCHANGED <<ledgerVars, supSnap, supAdapter, supNamed, leafVars, orchVars>>

-----------------------------------------------------------------------------
(* A leaf: the same program, not managed *)

LeafKeeps == UNCHANGED <<ledgerVars, brokerVars, supVars, orchVars>>

LeafBoots(k) ==
  /\ leaf[k] = "boot"
  /\ \E l \in {"run", "exited"} : leaf' = [leaf EXCEPT ![k] = l]
  /\ UNCHANGED <<snap, adapter, named>>
  /\ LeafKeeps

LeafStartsAdapter(k) ==
  /\ leaf[k] = "run" /\ ~adapter[k]
  /\ adapter' = [adapter EXCEPT ![k] = TRUE]
  /\ UNCHANGED <<leaf, snap, named>>
  /\ LeafKeeps

LeafNamesAdapter(k) ==
  /\ leaf[k] = "run" /\ adapter[k] /\ ~named[k]
  /\ named' = [named EXCEPT ![k] = TRUE]
  /\ UNCHANGED <<leaf, snap, adapter>>
  /\ LeafKeeps

LeafAdapterGone(k) ==
  /\ adapter' = [adapter EXCEPT ![k] = FALSE]
  /\ named' = [named EXCEPT ![k] = FALSE]

(* settle: adapter first, snapshot second; its write may fail.             *)
LeafSettles(k) ==
  /\ leaf[k] = "run"
  /\ leaf' = [leaf EXCEPT ![k] = "settled"]
  /\ LeafAdapterGone(k)
  /\ \E v \in Terminal \cup {snap[k]} : snap' = [snap EXCEPT ![k] = v]
  /\ LeafKeeps

LeafExits(k) ==
  /\ leaf[k] = "settled"
  /\ leaf' = [leaf EXCEPT ![k] = "exited"]
  /\ UNCHANGED <<snap, adapter, named>>
  /\ LeafKeeps

LeafDies(k) ==
  /\ LeafAlive(k)
  /\ leaf' = [leaf EXCEPT ![k] = "killed"]
  /\ UNCHANGED <<snap, adapter, named>>
  /\ LeafKeeps

LeafAdapterEnds(k) ==
  /\ adapter[k]
  /\ LeafAdapterGone(k)
  /\ UNCHANGED <<leaf, snap>>
  /\ LeafKeeps

-----------------------------------------------------------------------------
(* The orchestrator.  It keeps nothing between two ticks but the decision  *)
(* to stop; a tick that fails or dies is repeated, and its steps are       *)
(* idempotent, so that their order is all there is to a shutdown.          *)

(* monitorTeam sees a terminal snapshot, a dead supervisor, none in time   *)
(* or a heartbeat that went stale in a live one.                           *)
MonitorReleases ==
  /\ team = "present" /\ parent # "absent"
  /\ Releasable(FALSE)
  /\ ReleaseSubtree
  /\ UNCHANGED <<brokerVars, supVars, leafVars, orchVars>>

RequestStop ==
  /\ ~stop
  /\ stop' = TRUE
  /\ UNCHANGED <<ledgerVars, brokerVars, supVars, leafVars, team>>

Stopping == stop /\ team = "present"

(* shutdownSupervisorWorker: the parent is signalled and, past the grace   *)
(* period, killed ...                                                      *)
KillParent ==
  /\ Stopping /\ SupAlive
  /\ LoseSupervisor
  /\ UNCHANGED <<ledgerVars, supSnap, supAdapter, supNamed, leafVars, orchVars>>

(* ... the children on record are, each with its adapter, unless a launch  *)
(* is ambiguous ...                                                        *)
Recorded  == {k \in Kids : record[k] # "none"}
Ambiguous == \E k \in Kids : record[k] = "nopid"
Gone(k)   == ~LeafAlive(k) /\ ~named[k] /\ slot[k] = "none"

(* The leaf is killed, and the adapter its snapshot names then, if any.    *)
Killed(k) ==
  /\ leaf' = [leaf EXCEPT ![k] = IF LeafAlive(k) THEN "killed" ELSE @]
  /\ IF named[k] THEN LeafAdapterGone(k) ELSE UNCHANGED <<adapter, named>>

(* Bug: the slot of a reaped child is not given back.                      *)
ReapRecorded_Unfinished(k) ==
  /\ Stopping /\ ~SupAlive
  /\ record[k] = "pid" /\ ~Gone(k)
  /\ Killed(k)
  /\ UNCHANGED <<ledgerVars, brokerVars, supVars, snap, orchVars>>

(* Bug: the adapter of a leaf is forgotten.                                *)
ReapRecorded_LeafOnly(k) ==
  /\ Stopping /\ ~SupAlive
  /\ record[k] = "pid" /\ ~Gone(k)
  /\ leaf' = [leaf EXCEPT ![k] = IF LeafAlive(k) THEN "killed" ELSE @]
  /\ FinishChild(k)
  /\ UNCHANGED <<parent, bound, brokerVars, supVars, snap, adapter, named, orchVars>>

ReapRecorded(k) ==
  /\ Stopping /\ ~SupAlive
  /\ record[k] = "pid" /\ ~Gone(k)
  /\ Killed(k)
  /\ FinishChild(k)
  /\ UNCHANGED <<parent, bound, brokerVars, supVars, snap, orchVars>>

ChildrenReaped == ~SupAlive /\ ~Ambiguous /\ \A k \in Recorded : Gone(k)

(* ... the parent's adapter, if its snapshot names it ...                  *)
ReapAdapter ==
  /\ Stopping /\ ChildrenReaped /\ supNamed
  /\ AdapterGone
  /\ UNCHANGED <<ledgerVars, brokerVars, sup, supSnap, leafVars, orchVars>>

(* ... then the subtree has to be released ...                             *)
ReleaseStopped ==
  /\ Stopping /\ ChildrenReaped /\ ~supNamed
  /\ parent # "absent" /\ Releasable(FALSE)
  /\ ReleaseSubtree
  /\ UNCHANGED <<brokerVars, supVars, leafVars, orchVars>>

(* Bug: the refusal of the release is ignored.                             *)
RemoveTeam_Anyway ==
  /\ Stopping /\ ~SupAlive
  /\ team' = "removed"
  /\ UNCHANGED <<ledgerVars, brokerVars, supVars, leafVars, stop>>

(* ... before the team file goes.                                          *)
RemoveTeam ==
  /\ Stopping /\ ChildrenReaped /\ ~supNamed
  /\ parent = "absent"
  /\ team' = "removed"
  /\ UNCHANGED <<ledgerVars, brokerVars, supVars, leafVars, stop>>

(* reconcileRuntimeReservation: every process that the ledger or a         *)
(* snapshot names is gone, and the operator vouches for a launch that left *)
(* no pid.  (That the snapshot of a supervisor names the supervisor is not *)
(* relied on: the write of it may have failed.)  A digest that changed     *)
(* since the inspection is refused.                                        *)
Reconcile ==
  /\ parent # "absent"
  /\ bound => ~SupAlive
  /\ ~supNamed
  /\ \A k \in Kids : slot[k] # "none" => ~LeafAlive(k)
  /\ \A k \in Kids : ~named[k]
  /\ parent' = "absent" /\ bound' = FALSE
  /\ slot' = [k \in Kids |-> "none"]
  /\ UNCHANGED <<brokerVars, supVars, leafVars, orchVars>>

Broker(k) ==
  \/ Claim(k) \/ RecordChild(k) \/ LaunchLeaf(k) \/ BindLeaf(k) \/ SaveLeaf(k)
  \/ Inspect(k) \/ Reap(k) \/ Cancel(k) \/ CancelEnds(k)

Supervisor ==
  \/ FirstSnapshot \/ BindParent \/ StartFails
  \/ StartAdapter \/ NameAdapter \/ AdapterEnds
  \/ BeginSettle \/ (\E k \in Kids : CloseChild(k)) \/ CloseDone
  \/ ShutdownAdapter \/ SelfRelease \/ FinalSnapshot \/ SupervisorDies

Leaf(k) ==
  \/ LeafBoots(k) \/ LeafStartsAdapter(k) \/ LeafNamesAdapter(k)
  \/ LeafSettles(k) \/ LeafExits(k) \/ LeafDies(k) \/ LeafAdapterEnds(k)

Shutdown ==
  \/ RequestStop \/ KillParent \/ (\E k \in Kids : ReapRecorded(k)) \/ ReapAdapter
  \/ ReleaseStopped \/ RemoveTeam

Next ==
  \/ Supervisor \/ Shutdown \/ MonitorReleases \/ Reconcile
  \/ \E k \in Kids : Broker(k) \/ Leaf(k)

Spec == Init /\ [][Next]_vars

(* A decision to stop is durable, and every later tick acts on it.         *)
FairSpec == Spec /\ WF_vars(Shutdown)

-----------------------------------------------------------------------------
(* Properties *)

Typed ==
  /\ parent \in {"open", "closing", "absent"}
  /\ bound \in BOOLEAN
  /\ slot \in [Kids -> {"none", "claimed", "bound"}]
  /\ record \in [Kids -> {"none", "nopid", "pid"}]
  /\ resolution \in [Kids -> {"none", "open", "observed", "integrated", "discarded"}]
  /\ op \in Ops
  /\ closer \in {"open", "waiting", "adapter", "release", "snapshot"}
  /\ verdict \in Terminal
  /\ sup \in {"boot", "snapped", "live", "exited", "killed"}
  /\ supSnap \in {"none"} \cup Terminal
  /\ supAdapter \in BOOLEAN /\ supNamed \in BOOLEAN
  /\ leaf \in [Kids -> {"none", "boot", "run", "settled", "exited", "killed"}]
  /\ snap \in [Kids -> {"none"} \cup Terminal]
  /\ adapter \in [Kids -> BOOLEAN] /\ named \in [Kids -> BOOLEAN]
  /\ stop \in BOOLEAN
  /\ team \in {"present", "removed"}

(* The types, and never more active children than slots were reserved.     *)
WithinCapacity == Cardinality(Active) <= Capacity

TypeOK == Typed /\ WithinCapacity

(* An adapter nobody can find: its supervisor is dead, killed before the   *)
(* snapshot that names the process was written or after that write failed. *)
NobodysChild(k) == adapter[k] /\ ~named[k] /\ ~LeafAlive(k)
NobodysAdapter  == supAdapter /\ ~supNamed /\ ~SupAlive

(* A child that runs is charged: as long as its supervisor or its adapter  *)
(* is alive it holds an active slot under a parent entry, whichever        *)
(* process was killed, and whoever reaped, cancelled, closed, monitored,   *)
(* stopped or reconciled.  Not an adapter that nobody can find: its slot   *)
(* is given back while it runs.                                            *)
ChildWorkCharged ==
  \A k \in Kids :
    (LeafAlive(k) \/ adapter[k]) /\ ~NobodysChild(k)
      => slot[k] # "none" /\ parent # "absent"

(* The same for the parent's own adapter, once its snapshot names it, as   *)
(* docs/internals/athena-runtime.md promises: slots "are released only     *)
(* after confirmed termination".                                           *)
ParentWorkCharged == supAdapter /\ supNamed => parent # "absent"

(* No child runs that children.json does not name: a fresh process finds   *)
(* every one, or at least sees that a launch is ambiguous.                 *)
ChildOnRecord == \A k \in Kids : LeafAlive(k) => record[k] # "none"

(* Once the broker is closing it launches nothing, follow-ups of results   *)
(* it was still waiting for included.                                      *)
NothingLaunchedWhileClosing ==
  [][closer # "open" => \A k \in Kids : leaf[k] = "none" => leaf'[k] = "none"]_vars

(* A supervisor that reports completion leaves no child unresolved and no  *)
(* child process behind.                                                   *)
CompletionIsClean ==
  supSnap = "completed" =>
    \A k \in Kids : resolution[k] # "open" /\ ~LeafAlive(k) /\ ~adapter[k]

(* When the team file is gone nothing of the team is left, no process and  *)
(* no charged slot, but for the adapters that nobody can find.             *)
NothingLeftBehind ==
  team = "removed" =>
    /\ parent = "absent" /\ Active = {} /\ ~SupAlive
    /\ supAdapter => NobodysAdapter
    /\ \A k \in Kids : ~LeafAlive(k) /\ (adapter[k] => NobodysChild(k))

(* A stop ends, with the capacity given back, unless a launch was          *)
(* interrupted so that nobody can tell whether it happened.                *)
Interrupted ==
  \E k \in Kids : record[k] = "nopid" \/ (slot[k] # "none" /\ record[k] = "none")

StopEnds == <>stop => <>(team = "removed") \/ <>[]Interrupted
=============================================================================
