---------------------------- MODULE RunAdmission ----------------------------
(***************************************************************************)
(* How a run of Atlas or Athena is admitted, recovered and ended           *)
(* (orchestrator-skill-init.mjs, the first steps of skills/athena/SKILL.md,*)
(* orphan-run-recovery.mjs, and the run records of run-artifacts.mjs): the *)
(* active-run pointer of each orchestrator, the summary of each run, the   *)
(* strict ledger of user requests with its anchor, and the event log.      *)
(*                                                                         *)
(* A process is a hook or a command: it invokes an orchestrator, finalizes *)
(* a run, or appends an event; it may die between any two writes.  What    *)
(* the phases of a run do is in PhaseRunner.  A pointer is its run: that a *)
(* guard also compares the inode of the pointer file is left out.          *)
(***************************************************************************)
EXTENDS TransitionLock, Sequences, SequencesExt

CONSTANTS MaxRuns,     \* bound: run directories
          MaxRequests, \* bound: invocations that carry a request
          Lossy,       \* the orchestrators whose pointer file may be lost
          Plans        \* bounds: how many invocations have no request,
                       \* subagents end, processes die, and pointer files
                       \* are lost, in one behaviour

Runs  == 1 .. MaxRuns
NoRun == 0
State == 0                       \* the state directory, among the Locks
Orchs == {"atlas", "athena"}
Other(o) == IF o = "atlas" THEN "athena" ELSE "atlas"

ASSUME BoundAssumption ==
  /\ {MaxRuns, MaxRequests} \subseteq Nat
  /\ Plans \subseteq [resumes : Nat, hooks : Nat, crashes : Nat, lost : Nat]
  /\ Lossy \subseteq Orchs /\ Locks = 0 .. MaxRuns

VARIABLES ptr,      \* ao-active-run-<orchestrator>.json: the run it names
          half,     \* pointers whose intent is still linked to them
          run,      \* the directory of each run
          proc,     \* what each process does
          acked,    \* history: requests whose append was reported done
          requests, count                 \* bounds
records == <<ptr, half, run>>
locks   == <<lock, claim>>
bounds  == <<requests, count>>
vars    == <<records, locks, proc, acked, bounds>>

NoDir == [status |-> "none", orch |-> "none", task |-> 0, pipe |-> FALSE,
          ledger |-> <<>>, anchor |-> <<>>, log |-> <<>>]
Idle  == [at |-> "idle", next |-> "idle", orch |-> "none", req |-> 0,
          chk |-> NoRun, seen |-> NoRun, run |-> NoRun, made |-> FALSE]

Init ==
  /\ ptr = [o \in Orchs |-> NoRun] /\ half = {}
  /\ run = [r \in Runs |-> NoDir]
  /\ proc = [p \in Procs |-> Idle]
  /\ acked = {}
  /\ requests = 0
  /\ count = [resumes |-> 0, hooks |-> 0, crashes |-> 0, lost |-> 0]
  /\ LockInit

Happens(e) ==
  /\ count' = [count EXCEPT ![e] = @ + 1]
  /\ \E b \in Plans : \A x \in DOMAIN b : count'[x] <= b[x]

At(p, a)  == proc[p].at = a
Mine(p)   == proc[p].run
Orch(p)   == proc[p].orch
(* Commands that have not started are alike: one of them is the next.      *)
Starts(p) == At(p, "idle") /\ p = CHOOSE q \in Procs : At(q, "idle")
Go(p, a)  == proc' = [proc EXCEPT ![p].at = a]
Then(p, a, n) == proc' = [proc EXCEPT ![p].at = a, ![p].next = n]
Quit(p)   == proc' = [proc EXCEPT ![p] = Idle]

Status(r) == run[r].status
Active(o) == ptr[o] # NoRun /\ Status(ptr[o]) = "running"

----------------------------------------------------------------------------
(* acquireRunFinalizationLock: the admission lock of the state directory,  *)
(* or the transition lock of a run.                                        *)

Wanted(p) == IF proc[p].next \in {"look", "decide"} THEN State ELSE Mine(p)

Lock(p) ==
  /\ At(p, "lock") /\ Take(p, Wanted(p)) /\ Go(p, proc[p].next)
  /\ UNCHANGED <<records, acked, bounds>>

ClaimDead(p) ==
  /\ At(p, "lock") /\ Win(p, Wanted(p)) /\ Go(p, "claimed")
  /\ UNCHANGED <<records, acked, bounds>>

(* A recovery inside an admission reports a failure, the admission refuses. *)
Fail(p) == IF proc[p].next = "reprove" THEN Then(p, "unlink", "idle")
           ELSE Quit(p)

(* The owner is read again, and then its lock is removed.                  *)
Recheck(p) ==
  /\ At(p, "claimed")
  /\ IF lock[Wanted(p)] = "dead" THEN Go(p, "break") ELSE Fail(p)
  /\ UNCHANGED <<records, locks, acked, bounds>>
Break(p) ==
  /\ At(p, "break") /\ UnlinkOwner(Wanted(p)) /\ Go(p, "lock")
  /\ UNCHANGED <<records, acked, bounds>>

(* A lock that is held is an error, and so is one that somebody recovers.  *)
GiveUp(p) ==
  /\ At(p, "lock") /\ Denied(p, Wanted(p)) /\ Fail(p)
  /\ UNCHANGED <<records, locks, acked, bounds>>

Drop(p, r) == IF Own(p, r) THEN RemoveLock(r) ELSE UNCHANGED locks

----------------------------------------------------------------------------
(* An invocation: a preflight under the admission lock, the admission      *)
(* itself, the request into the ledger, and the pipeline.                  *)

Checkpoints(o) ==
  IF o = "athena"
  THEN {NoRun} \cup {r \in Runs : run[r].orch = "athena" /\ run[r].pipe}
  ELSE {NoRun}

(* Athena always has a request; Atlas resumes without one.                 *)
Invoke(p) ==
  /\ Starts(p)
  /\ \E o \in Orchs, q \in {0, requests + 1} :
       /\ q = 0 => o = "atlas" /\ ptr[o] # NoRun
       /\ IF q = 0 THEN Happens("resumes") /\ UNCHANGED requests
          ELSE q <= MaxRequests /\ requests' = q /\ UNCHANGED count
       /\ \E c \in Checkpoints(o) :
            proc' = [proc EXCEPT ![p] = [Idle EXCEPT
                       !.at = "lock", !.next = "look", !.orch = o, !.req = q,
                       !.chk = c]]
  /\ UNCHANGED <<records, locks, acked>>

(* inspectActivePointer of both: a pointer that has two links is unsafe,   *)
(* one that names a run with another status than running is stale.         *)
Admissible(o) ==
  /\ half = {} /\ ptr[Other(o)] = NoRun
  /\ ptr[o] # NoRun => Active(o)

(* admitOrchestratorRun with createIfMissing: false, and what the caller   *)
(* makes of it: a checkpoint of another run, or nothing to work on.        *)
Refused(p) ==
  LET o == Orch(p)
  IN  \/ ~Admissible(o)
      \/ ptr[o] # NoRun /\ proc[p].chk \notin {NoRun, ptr[o]}
      \/ ptr[o] = NoRun /\ proc[p].req = 0

Look(p) ==
  /\ At(p, "look")
  /\ proc' = [proc EXCEPT ![p].at = "unlink", ![p].seen = ptr[Orch(p)],
                ![p].next = IF Refused(p) THEN "idle" ELSE "decide"]
  /\ UNCHANGED <<records, locks, acked, bounds>>

(* The release of the admission lock: one that finds another lock in the   *)
(* place of the directory it emptied is reported as a failed admission.    *)
UnlinkState(p) ==
  /\ At(p, "unlink") /\ Go(p, "rmdir")
  /\ IF Own(p, State) THEN UnlinkOwner(State) ELSE UNCHANGED locks
  /\ UNCHANGED <<records, acked, bounds>>
RemoveState(p) ==
  /\ At(p, "rmdir")
  /\ LET next == proc[p].next
     IN  IF lock[State] = "empty"
         THEN /\ RemoveLock(State)
              /\ IF next = "idle" THEN Quit(p)
                 ELSE IF next \in {"decide", "append"}
                 THEN Then(p, "lock", IF next = "append" THEN "ledger" ELSE next)
                 ELSE Go(p, next)
         ELSE Quit(p) /\ UNCHANGED locks
  /\ UNCHANGED <<records, acked, bounds>>

(* admitOrchestratorRun: the pointer is what the preflight saw, and is     *)
(* adopted, or recovered from a checkpoint, or made with a fresh run.      *)
Resume(p) == IF proc[p].req = 0 THEN "read" ELSE "append"

Decide(p) ==
  LET o == Orch(p)
      Enter(at, next, r) ==
        proc' = [proc EXCEPT ![p] = [@ EXCEPT
                   !.at = at, !.next = next, !.run = r,
                   !.chk = NoRun, !.seen = NoRun]]
  IN  /\ At(p, "decide")
      /\ IF ~Admissible(o) \/ ptr[o] # proc[p].seen
         THEN Enter("unlink", "idle", NoRun)
         ELSE IF ptr[o] # NoRun THEN Enter("unlink", Resume(p), ptr[o])
         ELSE IF proc[p].chk # NoRun THEN Enter("prove", "reprove", proc[p].chk)
         ELSE Enter("create", "append", NoRun)
      /\ UNCHANGED <<records, locks, acked, bounds>>

(* createRun: a directory with a running summary; then the pointer, by a   *)
(* hard link that replaces nothing, or the directory goes again.           *)
Unused == {r \in Runs : Status(r) = "none"}

Create(p) ==
  /\ At(p, "create")
  /\ \E r \in Unused :
       /\ \A x \in Unused : r <= x
       /\ run' = [run EXCEPT ![r].status = "running", ![r].orch = Orch(p),
                             ![r].task = proc[p].req]
       /\ proc' = [proc EXCEPT ![p].at = "publish", ![p].run = r,
                               ![p].made = TRUE]
  /\ UNCHANGED <<ptr, half, locks, acked, bounds>>

Erased(p) == IF proc[p].made
             THEN run' = [run EXCEPT ![Mine(p)].status = "gone"]
             ELSE UNCHANGED run

Publish(p) ==
  /\ At(p, "publish")
  /\ IF ptr[Orch(p)] = NoRun
     THEN /\ ptr' = [ptr EXCEPT ![Orch(p)] = Mine(p)]
          /\ half' = half \cup {Orch(p)} /\ Go(p, "intent")
          /\ UNCHANGED <<run, locks>>
     ELSE /\ Erased(p) /\ Drop(p, Mine(p)) /\ Then(p, "unlink", "idle")
          /\ UNCHANGED <<ptr, half>>
  /\ UNCHANGED <<acked, bounds>>

(* The intent is unlinked, if no reader of the pointer did it before; the  *)
(* pointer is read back, and the admission looks at both pointers again.   *)
Published(p) == ptr[Orch(p)] = Mine(p) /\ ptr[Other(Orch(p))] = NoRun

DropIntent(p) ==
  /\ At(p, "intent") /\ half' = half \ {Orch(p)}
  /\ IF Published(p) THEN Then(p, "unlink", "append") /\ UNCHANGED run
     ELSE Erased(p) /\ Then(p, "unlink", "idle")
  /\ Drop(p, Mine(p))
  /\ UNCHANGED <<ptr, acked, bounds>>

----------------------------------------------------------------------------
(* recoverOrphanedRun, inside the admission: the run of the checkpoint is  *)
(* proved before its transition lock is taken, and again under it.         *)

Prove(p) ==
  /\ At(p, "prove")
  /\ IF Status(Mine(p)) \in {"running", "completed"} THEN Go(p, "lock")
     ELSE Then(p, "unlink", "idle")
  /\ UNCHANGED <<records, locks, acked, bounds>>

(* Only a terminal summary allows a new run instead.                       *)
Reprove(p) ==
  /\ At(p, "reprove")
  /\ IF Status(Mine(p)) = "running" THEN Go(p, "publish") /\ UNCHANGED locks
     ELSE Go(p, "create") /\ Drop(p, Mine(p))
  /\ UNCHANGED <<records, acked, bounds>>

----------------------------------------------------------------------------
(* appendUserTaskUpdate: under the lock of the run, the ledger is written  *)
(* first, its anchor second.                                               *)

Anchored(r) == run[r].ledger # <<>> /\ run[r].anchor = run[r].ledger
Pending(r) ==
  LET l == run[r].ledger
  IN  \/ Len(l) = 1 /\ run[r].anchor = <<>> /\ l[1] = run[r].task
      \/ Len(l) > 1 /\ run[r].anchor = Front(l)
Missing(r) == run[r].ledger = <<>> /\ run[r].anchor = <<>>

(* An anchor that was left behind by one append is repaired by the next.   *)
RepairAnchor(p) ==
  LET r == Mine(p)
  IN  /\ At(p, "ledger") /\ Status(r) = "running" /\ Pending(r)
      /\ run' = [run EXCEPT ![r].anchor = run[r].ledger]
      /\ UNCHANGED <<ptr, half, locks, proc, acked, bounds>>

(* A ledger that is missing is made only by the invocation that made the   *)
(* run: a lost history must not be taken for an empty one.                 *)
Appendable(p) == \/ Anchored(Mine(p))
                 \/ Missing(Mine(p)) /\ proc[p].made

(* Bug: the anchor is written first, its ledger second.                    *)
WriteLedger_AnchorFirst(p) ==
  LET r == Mine(p)
  IN  /\ At(p, "ledger") /\ Status(r) = "running" /\ Appendable(p)
      /\ run' = [run EXCEPT ![r].anchor = Append(run[r].ledger, proc[p].req)]
      /\ Go(p, "anchor")
      /\ UNCHANGED <<ptr, half, locks, acked, bounds>>

WriteLedger(p) ==
  LET r == Mine(p)
  IN  /\ At(p, "ledger") /\ Status(r) = "running" /\ Appendable(p)
      /\ run' = [run EXCEPT ![r].ledger = Append(@, proc[p].req)]
      /\ Go(p, "anchor")
      /\ UNCHANGED <<ptr, half, locks, acked, bounds>>
RefuseAppend(p) ==
  LET r == Mine(p)
  IN  /\ At(p, "ledger")
      /\ Status(r) = "running" => ~Pending(r) /\ ~Appendable(p)
      /\ Drop(p, r) /\ Quit(p)
      /\ UNCHANGED <<records, acked, bounds>>

(* With the anchor, the event that tells of the request.                   *)
WriteAnchor(p) ==
  LET r == Mine(p)
  IN  /\ At(p, "anchor")
      /\ run' = [run EXCEPT ![r].anchor = run[r].ledger,
                            ![r].log = Append(@, "note")]
      /\ acked' = acked \cup {<<r, proc[p].req>>}
      /\ proc' = [proc EXCEPT ![p] = [@ EXCEPT !.at = "check", !.req = 0,
                                                !.made = FALSE]]
      /\ Drop(p, r)
      /\ UNCHANGED <<ptr, half, bounds>>

(* getUserTaskUpdates, for a resume without a request: it repairs nothing. *)
ReadLedger(p) ==
  /\ At(p, "read")
  /\ IF Anchored(Mine(p)) THEN Go(p, "check") ELSE Quit(p)
  /\ UNCHANGED <<records, locks, acked, bounds>>

(* The pointer guard of the admission, before and after initPipeline.      *)
Check(p) ==
  /\ At(p, "check")
  /\ IF ptr[Orch(p)] = Mine(p) THEN Then(p, "lock", "init") ELSE Quit(p)
  /\ UNCHANGED <<records, locks, acked, bounds>>
InitPipeline(p) ==
  LET r == Mine(p)
  IN  /\ At(p, "init") /\ Drop(p, r) /\ Quit(p)
      /\ run' = IF Status(r) = "running" THEN [run EXCEPT ![r].pipe = TRUE]
                ELSE run
      /\ UNCHANGED <<ptr, half, acked, bounds>>

----------------------------------------------------------------------------
(* finalizeRun: the summary, the final event, the pointer.  A retry finds  *)
(* the summary completed, and goes on from there; who has nothing left to  *)
(* do does not retry.                                                      *)

Final(r) == "final" \in ToSet(run[r].log)

Finalize(p, r) ==
  /\ Starts(p) /\ run[r].pipe
  /\ \/ ptr[run[r].orch] = r
     \/ Status(r) = "completed" /\ ~Final(r)
  /\ proc' = [proc EXCEPT ![p] = [Idle EXCEPT
                !.at = "lock", !.next = "close", !.orch = run[r].orch,
                !.run = r]]
  /\ UNCHANGED <<records, locks, acked, bounds>>

(* Bug: a run that is completed is refused, so a retry changes nothing.     *)
Close_Once(p) ==
  LET r == Mine(p)
  IN  /\ At(p, "close")
      /\ IF Status(r) = "running"
         THEN /\ run' = [run EXCEPT ![r].status = "completed"]
              /\ proc' = [proc EXCEPT ![p].at = "final",
                                      ![p].seen = ptr[Orch(p)]]
              /\ UNCHANGED locks
         ELSE Quit(p) /\ Drop(p, r) /\ UNCHANGED run
      /\ half' = half \ {Orch(p)}
      /\ UNCHANGED <<ptr, acked, bounds>>

(* Reading a pointer, here and below, drops the intent that is linked to   *)
(* it.                                                                     *)
Close(p) ==
  /\ At(p, "close")
  /\ run' = [run EXCEPT ![Mine(p)].status = "completed"]
  /\ half' = half \ {Orch(p)}
  /\ proc' = [proc EXCEPT ![p].at = "final", ![p].seen = ptr[Orch(p)]]
  /\ UNCHANGED <<ptr, locks, acked, bounds>>

CloseEvent(p) ==
  LET r == Mine(p)
  IN  /\ At(p, "final")
      /\ run' = IF Final(r) THEN run
                ELSE [run EXCEPT ![r].log = Append(@, "final")]
      /\ Go(p, "clear")
      /\ UNCHANGED <<ptr, half, locks, acked, bounds>>

(* Compare and delete: only the pointer that was seen, of this run.        *)
ClearPointer(p) ==
  LET o == Orch(p)
  IN  /\ At(p, "clear") /\ Drop(p, Mine(p)) /\ Quit(p)
      /\ half' = half \ {o}
      /\ ptr' = IF ptr[o] = Mine(p) /\ proc[p].seen = ptr[o]
                THEN [ptr EXCEPT ![o] = NoRun] ELSE ptr
      /\ UNCHANGED <<run, acked, bounds>>

----------------------------------------------------------------------------
(* The hook at the end of a subagent: discoverActiveRun, then addEvent.    *)

Hook(p) ==
  /\ Starts(p) /\ Happens("hooks")
  /\ \E o \in Orchs :
       /\ ptr[o] # NoRun
       /\ proc' = [proc EXCEPT ![p] = [Idle EXCEPT
                     !.at = "lock", !.next = "note", !.run = ptr[o]]]
  /\ half' = {}
  /\ UNCHANGED <<ptr, run, locks, acked, requests>>
AddEvent(p) ==
  LET r == Mine(p)
  IN  /\ At(p, "note") /\ Drop(p, r) /\ Quit(p)
      /\ run' = IF Status(r) = "running"
                THEN [run EXCEPT ![r].log = Append(@, "note")] ELSE run
      /\ UNCHANGED <<ptr, half, acked, bounds>>

----------------------------------------------------------------------------
(* A process dies at any point; a pointer file is lost.                    *)

Crash(p) ==
  /\ ~At(p, "idle") /\ Happens("crashes")
  /\ Abandon(p) /\ Quit(p)
  /\ UNCHANGED <<records, acked, requests>>
LosePointer ==
  /\ Happens("lost")
  /\ \E o \in Lossy :
       /\ ptr[o] # NoRun
       /\ ptr' = [ptr EXCEPT ![o] = NoRun] /\ half' = half \ {o}
  /\ UNCHANGED <<run, locks, proc, acked, requests>>

Locking(p) == \/ Lock(p) \/ ClaimDead(p) \/ Recheck(p) \/ Break(p)
              \/ GiveUp(p)
Admitting(p) == \/ Look(p) \/ UnlinkState(p) \/ RemoveState(p) \/ Decide(p)
                \/ Create(p) \/ Publish(p) \/ DropIntent(p)
                \/ Prove(p) \/ Reprove(p)
Asking(p) == \/ RepairAnchor(p) \/ WriteLedger(p) \/ RefuseAppend(p)
             \/ WriteAnchor(p) \/ ReadLedger(p) \/ Check(p)
             \/ InitPipeline(p)
Ending(p) == Close(p) \/ CloseEvent(p) \/ ClearPointer(p) \/ AddEvent(p)
Step(p) == Locking(p) \/ Admitting(p) \/ Asking(p) \/ Ending(p)

Next == \/ \E p \in Procs : \/ Step(p) \/ Invoke(p) \/ Hook(p) \/ Crash(p)
                             \/ \E r \in Runs : Finalize(p, r)
        \/ LosePointer

Retry(r) == Status(r) = "completed" /\ \E p \in Procs : Finalize(p, r)

(* Commands are short programs that run to their end; and a session keeps  *)
(* its checkpoint until the run it ended is put away, and retries.         *)
Spec == Init /\ [][Next]_vars
             /\ \A p \in Procs : WF_vars(Step(p))
             /\ \A r \in Runs : SF_vars(Retry(r))

----------------------------------------------------------------------------
(* Properties.                                                             *)

(* KeepsRegistry: two orchestrators, two kinds of lock, a recovery and a   *)
(* crash anywhere implement the registry: one active run at most, no run   *)
(* that ended is made active again, and a run that ended takes no request, *)
(* no phase and no event but the final one, that once and last (the locks, *)
(* the second proof of recoverOrphanedRun, acquireRunningRunMutation,      *)
(* finalizeRun and ensureRunFinalizedEvent).                               *)
Sealed(r)  == run[r].log # <<>> /\ Last(run[r].log) = "final"
ActiveRuns == {ptr[o] : o \in Orchs} \ {NoRun}
EndedRuns  == {r \in Runs : Status(r) = "completed"}
SealedRuns == {r \in Runs : Sealed(r)}
Book(r) == [ledger |-> run[r].ledger, anchor |-> run[r].anchor,
            task |-> run[r].task, pipe |-> run[r].pipe,
            log |-> IF Sealed(r) THEN Front(run[r].log) ELSE run[r].log]
Registry ==
  INSTANCE RunRegistry WITH
    active <- ActiveRuns, ended <- EndedRuns, sealed <- SealedRuns,
    book <- [r \in Runs |-> Book(r)], lost <- count.lost
KeepsRegistry == Registry!Spec

(* RequestsSurvive: a request whose append was reported done stays in the  *)
(* ledger of its run, whatever dies when; and what a death leaves of the   *)
(* ledger and its anchor is a state the next append can go on from         *)
(* (appendUserTaskUpdate, recoverPendingTaskUpdateAnchor).                 *)
RequestsSurvive ==
  \A r \in Runs :
    /\ Anchored(r) \/ Pending(r) \/ Missing(r)
    /\ \A q \in 1 .. MaxRequests :
         <<r, q>> \in acked => q \in ToSet(run[r].ledger)

(* ClosedIsPutAway: a run that has ended does not block its project for    *)
(* ever, although finalizeRun may die between any two of its writes and    *)
(* leave its lock behind.                                                  *)
ClosedIsPutAway ==
  \A r \in Runs :
    Status(r) = "completed" ~> \A o \in Orchs : ptr[o] # r
=============================================================================
