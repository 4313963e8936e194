----------------------------- MODULE LedgerLock -----------------------------
(***************************************************************************)
(* The cross-process lock of scripts/lib/concurrency-limits.mjs and the    *)
(* transaction it protects (withLockedLedger).  A contender fills a        *)
(* private candidate directory with its owner.json and renames it over     *)
(* .ao/state/ao-concurrency.lock.  A lock whose owner process is gone is   *)
(* moved away by whoever wins a second directory, the reclaim guard.       *)
(* Every file-system call is a step of its own; a process may exit or be   *)
(* killed between any two of them.                                         *)
(*                                                                         *)
(* owner.json is modelled by a set: {} when the file does not exist,       *)
(* {<<p, n>>} when it names process p and the token of p's n-th attempt.   *)
(* The ledger is the set of transactions whose effect its content shows.   *)
(***************************************************************************)
EXTENDS Naturals

CONSTANTS Procs,        \* process incarnations: a pid with its start id
          MaxAttempts,  \* bound: transactions one process starts
          Masked,       \* exited processes that still look alive, because
                        \* the pid was reused and no start id can be read
          Patient       \* callers whose lockTimeoutMs never runs out

ASSUME AttemptsAssumption == MaxAttempts \in Nat
ASSUME ProcessAssumption  == Masked \subseteq Procs /\ Patient \subseteq Procs

VARIABLES pc,         \* where each process stands in its transaction
          attempt,    \* number of the process's current (or last) attempt
          expired,    \* its deadline has passed
          seen,       \* the owner.json content it read last
          snapshot,   \* the ledger content it read
          alive,      \* the process exists
          lockDir,    \* the lock directory exists
          lockOwner,  \* content of the lock's owner.json
          guard,      \* the reclaim guard directory exists
          ledger,     \* transactions visible in the ledger file
          committed,  \* history: transactions that wrote the ledger
          misjudged   \* history: a reclaim moved away another lock than the
                      \* one whose owner it had found gone

lockVars == <<pc, attempt, expired, seen, snapshot, alive, lockDir, lockOwner,
          guard, ledger, committed, misjudged>>

Token(p) == <<p, attempt[p]>>
Tokens   == Procs \X (0 .. MaxAttempts)

(* processDefinitelyGone: ESRCH, or a start id that differs.               *)
Gone(p) == ~alive[p] /\ p \notin Masked

(* Bug: any owner counts as stale.                                         *)
StaleVerdict_AnyOwner(p) == seen[p] # {}

StaleVerdict(p) == \E o \in seen[p] : Gone(o[1])

Contending == {"probe", "rename", "inspect", "judge", "guard", "confirm",
               "rejudge", "entomb", "unguard", "bail"}
Guarded    == {"confirm", "rejudge", "entomb", "unguard", "bail"}
Holding    == {"read", "write", "release", "unlink"}
Locations  == Contending \cup Holding \cup {"idle", "rmdir"}

LockInit ==
  /\ pc = [p \in Procs |-> "idle"]
  /\ attempt = [p \in Procs |-> 0]
  /\ expired = [p \in Procs |-> FALSE]
  /\ seen = [p \in Procs |-> {}]
  /\ snapshot = [p \in Procs |-> {}]
  /\ alive = [p \in Procs |-> TRUE]
  /\ lockDir = FALSE
  /\ lockOwner = {}
  /\ guard = FALSE
  /\ ledger = {}
  /\ committed = {}
  /\ misjudged = FALSE

At(p, l)   == alive[p] /\ pc[p] = l
Goto(p, l) == pc' = [pc EXCEPT ![p] = l]

-----------------------------------------------------------------------------
(* acquireLedgerLock *)

(* A new call: the candidate directory is private, so only its token and   *)
(* the deadline matter.                                                    *)
Begin(p) ==
  /\ At(p, "idle")
  /\ attempt[p] < MaxAttempts
  /\ attempt' = [attempt EXCEPT ![p] = @ + 1]
  /\ expired' = [expired EXCEPT ![p] = FALSE]
  /\ Goto(p, "probe")
  /\ UNCHANGED <<seen, snapshot, alive, lockDir, lockOwner, guard, ledger,
                 committed, misjudged>>

DeadlinePasses(p) ==
  /\ alive[p] /\ pc[p] \in Contending
  /\ p \notin Patient
  /\ ~expired[p]
  /\ expired' = [expired EXCEPT ![p] = TRUE]
  /\ UNCHANGED <<pc, attempt, seen, snapshot, alive, lockDir, lockOwner,
                 guard, ledger, committed, misjudged>>

Unshared == <<attempt, expired, snapshot, alive, ledger, committed>>

(* Bug: the deadline is not looked at while the guard exists.              *)
ProbeGuard_Forever(p) ==
  /\ At(p, "probe") /\ ~guard /\ Goto(p, "rename")
  /\ UNCHANGED <<seen, lockDir, lockOwner, guard, misjudged>>
  /\ UNCHANGED Unshared

(* existsSync(reclaimPath): nobody renames while the guard exists; at the  *)
(* deadline the call throws and removes its candidate, before it the call  *)
(* sleeps and looks again.                                                 *)
ProbeGuard(p) ==
  /\ At(p, "probe")
  /\ \/ ~guard /\ Goto(p, "rename")
     \/ guard /\ expired[p] /\ Goto(p, "idle")
  /\ UNCHANGED <<seen, lockDir, lockOwner, guard, misjudged>>
  /\ UNCHANGED Unshared

(* Bug: a candidate written straight into the lock directory.              *)
RenameCandidate_Overwrite(p) ==
  /\ At(p, "rename") /\ Goto(p, "read")
  /\ lockDir' = TRUE /\ lockOwner' = {Token(p)}
  /\ UNCHANGED <<seen, guard, misjudged>>
  /\ UNCHANGED Unshared

(* renameSync(candidate, lockPath) replaces an absent or an empty          *)
(* directory and fails on a populated one.                                 *)
RenameCandidate(p) ==
  /\ At(p, "rename")
  /\ \/ /\ lockOwner = {}
        /\ lockDir' = TRUE
        /\ lockOwner' = {Token(p)}
        /\ Goto(p, "read")
     \/ /\ lockOwner # {}
        /\ Goto(p, "inspect")
        /\ UNCHANGED <<lockDir, lockOwner>>
  /\ UNCHANGED <<seen, guard, misjudged>>
  /\ UNCHANGED Unshared

(* inspectExistingLock reads owner.json and only then asks for the fate of *)
(* the process it names: two steps, here without the guard ...             *)
InspectLock(p) ==
  /\ At(p, "inspect")
  /\ seen' = [seen EXCEPT ![p] = lockOwner]
  /\ Goto(p, "judge")
  /\ UNCHANGED <<lockDir, lockOwner, guard, misjudged>>
  /\ UNCHANGED Unshared

JudgeLock(p) ==
  /\ At(p, "judge")
  /\ \/ StaleVerdict(p) /\ Goto(p, "guard")
     \/ ~StaleVerdict(p) /\ expired[p] /\ Goto(p, "idle")
     \/ ~StaleVerdict(p) /\ ~expired[p] /\ Goto(p, "probe")
  /\ seen' = [seen EXCEPT ![p] = {}]
  /\ UNCHANGED <<lockDir, lockOwner, guard, misjudged>>
  /\ UNCHANGED Unshared

(* mkdirSync(reclaimPath): the loser of the guard starts over.             *)
MakeGuard(p) ==
  /\ At(p, "guard")
  /\ \/ ~guard /\ guard' = TRUE /\ Goto(p, "confirm")
     \/ guard /\ Goto(p, "probe") /\ UNCHANGED guard
  /\ UNCHANGED <<seen, lockDir, lockOwner, misjudged>>
  /\ UNCHANGED Unshared

(* ... and here again under the guard.                                     *)
ConfirmInspect(p) ==
  /\ At(p, "confirm")
  /\ seen' = [seen EXCEPT ![p] = lockOwner]
  /\ Goto(p, "rejudge")
  /\ UNCHANGED <<lockDir, lockOwner, guard, misjudged>>
  /\ UNCHANGED Unshared

ConfirmJudge(p) ==
  /\ At(p, "rejudge")
  /\ \/ StaleVerdict(p) /\ Goto(p, "entomb") /\ UNCHANGED seen
     \/ ~StaleVerdict(p) /\ Goto(p, "unguard") /\ seen' = [seen EXCEPT ![p] = {}]
  /\ UNCHANGED <<lockDir, lockOwner, guard, misjudged>>
  /\ UNCHANGED Unshared

(* renameSync(lockPath, tombstone) moves whatever is at the path now; it   *)
(* throws when nothing is.                                                 *)
Entomb(p) ==
  /\ At(p, "entomb")
  /\ \/ /\ lockDir
        /\ lockDir' = FALSE
        /\ lockOwner' = {}
        /\ misjudged' = (misjudged \/ lockOwner \notin {{}, seen[p]})
        /\ Goto(p, "unguard")
     \/ /\ ~lockDir
        /\ Goto(p, "bail")
        /\ UNCHANGED <<lockDir, lockOwner, misjudged>>
  /\ seen' = [seen EXCEPT ![p] = {}]
  /\ UNCHANGED guard
  /\ UNCHANGED Unshared

(* Bug: the guard is left behind.                                          *)
RemoveGuard_Kept(p) ==
  /\ \/ At(p, "unguard") /\ Goto(p, "probe")
     \/ At(p, "bail") /\ Goto(p, "idle")
  /\ UNCHANGED <<seen, lockDir, lockOwner, guard, misjudged>>
  /\ UNCHANGED Unshared

(* The finally block removes the guard; after an error the call throws.    *)
RemoveGuard(p) ==
  /\ \/ At(p, "unguard") /\ Goto(p, "probe")
     \/ At(p, "bail") /\ Goto(p, "idle")
  /\ guard' = FALSE
  /\ UNCHANGED <<seen, lockDir, lockOwner, misjudged>>
  /\ UNCHANGED Unshared

-----------------------------------------------------------------------------
(* withLockedLedger's body and releaseLedgerLock *)

(* readLedger; a failed read or an operation that throws goes straight to  *)
(* the finally block, as an operation that changes nothing does.           *)
ReadLedger(p) ==
  /\ At(p, "read")
  /\ \/ Goto(p, "write") /\ snapshot' = [snapshot EXCEPT ![p] = ledger]
     \/ Goto(p, "release") /\ UNCHANGED snapshot
  /\ UNCHANGED <<attempt, expired, seen, alive, lockDir, lockOwner, guard,
                 ledger, committed, misjudged>>

(* writeLedger replaces the file by what the operation made of the content *)
(* read before.                                                            *)
WriteLedger(p) ==
  /\ At(p, "write")
  /\ ledger' = snapshot[p] \cup {Token(p)}
  /\ committed' = committed \cup {Token(p)}
  /\ snapshot' = [snapshot EXCEPT ![p] = {}]
  /\ Goto(p, "release")
  /\ UNCHANGED <<attempt, expired, seen, alive, lockDir, lockOwner, guard,
                 misjudged>>

(* The token in owner.json is compared before anything is removed.         *)
ReleaseCheck(p) ==
  /\ At(p, "release")
  /\ \/ lockOwner = {Token(p)} /\ Goto(p, "unlink")
     \/ lockOwner # {Token(p)} /\ Goto(p, "idle")
  /\ UNCHANGED <<seen, lockDir, lockOwner, guard, misjudged>>
  /\ UNCHANGED Unshared

(* rmSync(recursive) unlinks owner.json and then removes the directory,    *)
(* which fails (and is swallowed) when a candidate was renamed over it.    *)
ReleaseUnlink(p) ==
  /\ At(p, "unlink")
  /\ lockOwner' = {}
  /\ Goto(p, "rmdir")
  /\ UNCHANGED <<seen, lockDir, guard, misjudged>>
  /\ UNCHANGED Unshared

ReleaseRmdir(p) ==
  /\ At(p, "rmdir")
  /\ lockDir' = (lockDir /\ lockOwner # {})
  /\ Goto(p, "idle")
  /\ UNCHANGED <<seen, lockOwner, guard, misjudged>>
  /\ UNCHANGED Unshared

(* A hook process ends after its transaction, or is killed inside it.      *)
Exit(p) ==
  /\ alive[p]
  /\ alive' = [alive EXCEPT ![p] = FALSE]
  /\ UNCHANGED <<pc, attempt, expired, seen, snapshot, lockDir, lockOwner,
                 guard, ledger, committed, misjudged>>

Acquire(p) ==
  \/ ProbeGuard(p) \/ RenameCandidate(p)
  \/ InspectLock(p) \/ JudgeLock(p)
  \/ MakeGuard(p) \/ ConfirmInspect(p) \/ ConfirmJudge(p) \/ Entomb(p)
  \/ RemoveGuard(p)

Transact(p) ==
  \/ ReadLedger(p) \/ WriteLedger(p)
  \/ ReleaseCheck(p) \/ ReleaseUnlink(p) \/ ReleaseRmdir(p)

LockNext ==
  \E p \in Procs :
    Begin(p) \/ DeadlinePasses(p) \/ Acquire(p) \/ Transact(p) \/ Exit(p)

LockSpec == LockInit /\ [][LockNext]_lockVars

(* The operating system runs a live process and its clock advances.        *)
Fairness ==
  \A p \in Procs : /\ WF_lockVars(Acquire(p) \/ Transact(p))
                   /\ WF_lockVars(DeadlinePasses(p))

FairSpec == LockSpec /\ Fairness

-----------------------------------------------------------------------------
(* Properties *)

LockTypeOK ==
  /\ pc \in [Procs -> Locations]
  /\ attempt \in [Procs -> 0 .. MaxAttempts]
  /\ expired \in [Procs -> BOOLEAN]
  /\ seen \in [Procs -> SUBSET Tokens]
  /\ snapshot \in [Procs -> SUBSET Tokens]
  /\ alive \in [Procs -> BOOLEAN]
  /\ lockDir \in BOOLEAN
  /\ lockOwner \in SUBSET Tokens
  /\ guard \in BOOLEAN
  /\ ledger \in SUBSET Tokens
  /\ committed \in SUBSET Tokens
  /\ misjudged \in BOOLEAN
  /\ lockOwner # {} => lockDir

Holds(p) == alive[p] /\ pc[p] \in Holding

(* At most one live process is between taking the lock and giving it up.   *)
(* This is what the comment on reserveWorkerBatchConcurrency, "Atomically  *)
(* admit and reserve", rests on.                                           *)
MutualExclusion == \A p, q \in Procs : Holds(p) /\ Holds(q) => p = q

(* As long as no reclaim moved away a lock it had not judged, a live       *)
(* holder is alone and the lock's owner.json names it.                     *)
HolderOwnsLock ==
  ~misjudged => \A p \in Procs : Holds(p) => lockOwner = {Token(p)}

MutexUnlessMisjudged == ~misjudged => MutualExclusion

(* No transaction's write is overwritten by another process that had read  *)
(* the ledger before it, across crashes and reclaims: the read, prune,     *)
(* operate, write sequence of withLockedLedger is one step to the others.  *)
NoLostUpdate == ~misjudged => committed = ledger

(* The reclaim guard has one owner at a time, dead or alive: a crashed     *)
(* guard owner leaves a guard that nobody else removes.                    *)
GuardHasOneOwner ==
  /\ guard => \E p \in Procs : pc[p] \in Guarded
  /\ \A p \in Procs : pc[p] \in Guarded => guard
  /\ \A p, q \in Procs : pc[p] \in Guarded /\ pc[q] \in Guarded => p = q

(* Every attempt ends: with the lock, with the timeout, or with the        *)
(* process; a dead lock owner or an orphaned guard stalls nobody for good. *)
AttemptEnds ==
  \A p \in Procs \ Patient :
    pc[p] \in Contending ~> (pc[p] \notin Contending \/ ~alive[p])

(* A lock left behind by a dead process does not block the ledger: a       *)
(* caller that keeps waiting gets the lock, unless a process died while it *)
(* held the reclaim guard or the dead owner's pid was reused.              *)
OrphanGuard == \E p \in Procs : pc[p] \in Guarded /\ ~alive[p]
MaskedOwner == \E o \in lockOwner : o[1] \in Masked /\ ~alive[o[1]]

DeadHolderIsReplaced ==
  \A p \in Patient :
    pc[p] = "probe" ~> \/ Holds(p) \/ pc[p] = "idle" \/ ~alive[p]
                       \/ OrphanGuard \/ MaskedOwner
=============================================================================
