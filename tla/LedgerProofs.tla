---------------------------- MODULE LedgerProofs ----------------------------
(***************************************************************************)
(* Machine-checked proofs about the concurrency ledger.  The lock of its   *)
(* file (LedgerLock), for every set of processes and number of attempts:   *)
(* type correctness, one owner of the reclaim guard, and, unless a reclaim *)
(* misjudged, mutual exclusion and no lost update.  Its transactions       *)
(* (AdmissionLedger), for every number of calls, runs, providers, slots    *)
(* and damages: a live worker whose team state is durable is charged, a    *)
(* launch in progress keeps its reservation or admission is closed until   *)
(* it is over, and the work itself stays within the limits.                *)
(***************************************************************************)
EXTENDS LedgerLock, AdmissionLedger, FiniteSetTheorems, TLAPS

-----------------------------------------------------------------------------
(* The lock                                                                *)

(* The next-state relation keeps every variable in its type.               *)
LEMMA TypeStep == LockTypeOK /\ [LockNext]_lockVars => LockTypeOK'
<1> SUFFICES ASSUME LockTypeOK, [LockNext]_lockVars PROVE LockTypeOK'
  OBVIOUS
<1> USE DEF LockTypeOK, Unshared, Goto, At, Tokens, Token, Locations, Contending, Holding
<1>1. CASE UNCHANGED lockVars
  BY <1>1 DEF lockVars
<1>2. ASSUME NEW p \in Procs, Begin(p) PROVE LockTypeOK'
  BY <1>2, AttemptsAssumption DEF Begin
<1>3. ASSUME NEW p \in Procs, DeadlinePasses(p) PROVE LockTypeOK'
  BY <1>3 DEF DeadlinePasses
<1>4. ASSUME NEW p \in Procs, ProbeGuard(p) PROVE LockTypeOK'
  BY <1>4 DEF ProbeGuard
<1>5. ASSUME NEW p \in Procs, RenameCandidate(p) PROVE LockTypeOK'
  <2>1. {Token(p)} \in SUBSET Tokens
    OBVIOUS
  <2>2. lockDir' \in BOOLEAN /\ lockOwner' \in SUBSET Tokens
    BY <1>5, <2>1 DEF RenameCandidate
  <2>3. lockOwner' # {} => lockDir'
    BY <1>5 DEF RenameCandidate
  <2>4. pc' \in [Procs -> Locations]
    BY <1>5 DEF RenameCandidate
  <2>5. UNCHANGED <<seen, guard, misjudged, attempt, expired, snapshot, alive,
                    ledger, committed>>
    BY <1>5 DEF RenameCandidate
  <2> QED
    BY <2>2, <2>3, <2>4, <2>5
<1>6. ASSUME NEW p \in Procs, InspectLock(p) PROVE LockTypeOK'
  BY <1>6 DEF InspectLock
<1>7. ASSUME NEW p \in Procs, JudgeLock(p) PROVE LockTypeOK'
  BY <1>7 DEF JudgeLock
<1>8. ASSUME NEW p \in Procs, MakeGuard(p) PROVE LockTypeOK'
  BY <1>8 DEF MakeGuard
<1>9. ASSUME NEW p \in Procs, ConfirmInspect(p) PROVE LockTypeOK'
  BY <1>9 DEF ConfirmInspect
<1>10. ASSUME NEW p \in Procs, ConfirmJudge(p) PROVE LockTypeOK'
  BY <1>10 DEF ConfirmJudge
<1>11. ASSUME NEW p \in Procs, Entomb(p) PROVE LockTypeOK'
  BY <1>11 DEF Entomb
<1>12. ASSUME NEW p \in Procs, RemoveGuard(p) PROVE LockTypeOK'
  BY <1>12 DEF RemoveGuard
<1>13. ASSUME NEW p \in Procs, ReadLedger(p) PROVE LockTypeOK'
  BY <1>13 DEF ReadLedger
<1>14. ASSUME NEW p \in Procs, WriteLedger(p) PROVE LockTypeOK'
  BY <1>14 DEF WriteLedger
<1>15. ASSUME NEW p \in Procs, ReleaseCheck(p) PROVE LockTypeOK'
  BY <1>15 DEF ReleaseCheck
<1>16. ASSUME NEW p \in Procs, ReleaseUnlink(p) PROVE LockTypeOK'
  BY <1>16 DEF ReleaseUnlink
<1>17. ASSUME NEW p \in Procs, ReleaseRmdir(p) PROVE LockTypeOK'
  BY <1>17 DEF ReleaseRmdir
<1>18. ASSUME NEW p \in Procs, Exit(p) PROVE LockTypeOK'
  BY <1>18 DEF Exit
<1> QED
  BY <1>1, <1>2, <1>3, <1>4, <1>5, <1>6, <1>7, <1>8, <1>9, <1>10, <1>11,
     <1>12, <1>13, <1>14, <1>15, <1>16, <1>17, <1>18
     DEF LockNext, Acquire, Transact

(* The initial state is in the type.                                       *)
LEMMA LockTypeInit == LockInit => LockTypeOK
<1> SUFFICES ASSUME LockInit PROVE LockTypeOK
  OBVIOUS
<1> USE DEF LockInit
<1>1. pc \in [Procs -> Locations]
  BY DEF Locations
<1>2. attempt \in [Procs -> 0 .. MaxAttempts]
  BY AttemptsAssumption
<1>3. seen \in [Procs -> SUBSET Tokens] /\ snapshot \in [Procs -> SUBSET Tokens]
  OBVIOUS
<1>4. expired \in [Procs -> BOOLEAN] /\ alive \in [Procs -> BOOLEAN]
  OBVIOUS
<1> QED
  BY <1>1, <1>2, <1>3, <1>4 DEF LockTypeOK

(* Every variable of the lock protocol stays in its type in every          *)
(* behaviour.                                                              *)
THEOREM LockTypeCorrect == LockSpec => []LockTypeOK
  BY LockTypeInit, TypeStep, PTL DEF LockSpec

(* A process about to move the lock away has seen the name of a process    *)
(* that is gone; while no reclaim misjudged, a holder's name is in the     *)
(* lock, and a process about to write has read the current ledger.         *)
VerdictHolds == \A p \in Procs : pc[p] = "entomb" => StaleVerdict(p)
SnapshotCurrent ==
  ~misjudged => \A p \in Procs : At(p, "write") => snapshot[p] = ledger

LockInv == /\ LockTypeOK
           /\ VerdictHolds
           /\ HolderOwnsLock
           /\ SnapshotCurrent
           /\ NoLostUpdate
           /\ GuardHasOneOwner

(* The reclaim guard is exclusive after every step: mkdir fails for the    *)
(* second process, and only the guard's owner removes it.                  *)
LEMMA GuardStep ==
  LockTypeOK /\ GuardHasOneOwner /\ [LockNext]_lockVars => GuardHasOneOwner'
<1> SUFFICES ASSUME LockTypeOK, GuardHasOneOwner, [LockNext]_lockVars
             PROVE  GuardHasOneOwner'
  OBVIOUS
<1> USE DEF Guarded, At, Goto
<1>1. CASE UNCHANGED lockVars
  BY <1>1 DEF lockVars, GuardHasOneOwner
<1>2. ASSUME NEW p \in Procs, guard' = guard,
             pc' = [pc EXCEPT ![p] = pc'[p]], pc[p] \in Guarded <=> pc'[p] \in Guarded
      PROVE  GuardHasOneOwner'
  BY <1>2 DEF GuardHasOneOwner, LockTypeOK
<1>3. ASSUME NEW p \in Procs, MakeGuard(p) PROVE GuardHasOneOwner'
  BY <1>3 DEF MakeGuard, GuardHasOneOwner, LockTypeOK
<1>4. ASSUME NEW p \in Procs, RemoveGuard(p) PROVE GuardHasOneOwner'
  BY <1>4 DEF RemoveGuard, GuardHasOneOwner, LockTypeOK
<1>5. ASSUME NEW p \in Procs, Begin(p) \/ DeadlinePasses(p) \/ Exit(p)
      PROVE  GuardHasOneOwner'
  BY <1>5, <1>2 DEF Begin, DeadlinePasses, Exit, LockTypeOK, Contending
<1>6. ASSUME NEW p \in Procs, Transact(p) PROVE GuardHasOneOwner'
  BY <1>6, <1>2 DEF Transact, ReadLedger, WriteLedger, ReleaseCheck,
     ReleaseUnlink, ReleaseRmdir, LockTypeOK
<1>7. ASSUME NEW p \in Procs,
             \/ ProbeGuard(p) \/ RenameCandidate(p) \/ InspectLock(p)
             \/ JudgeLock(p) \/ ConfirmInspect(p) \/ ConfirmJudge(p) \/ Entomb(p)
      PROVE  GuardHasOneOwner'
  BY <1>7, <1>2 DEF ProbeGuard, RenameCandidate, InspectLock, JudgeLock,
     ConfirmInspect, ConfirmJudge, Entomb, LockTypeOK
<1> QED
  BY <1>1, <1>3, <1>4, <1>5, <1>6, <1>7 DEF LockNext, Acquire

(* A verdict stays true: the process found gone stays gone.                *)
LEMMA VerdictStep == LockTypeOK /\ VerdictHolds /\ [LockNext]_lockVars => VerdictHolds'
<1> SUFFICES ASSUME LockTypeOK, VerdictHolds, [LockNext]_lockVars,
                    NEW q \in Procs, pc'[q] = "entomb"
             PROVE  StaleVerdict(q)'
  BY DEF VerdictHolds
<1>1. \A r \in Procs : alive'[r] => alive[r]
  BY DEF LockNext, Begin, DeadlinePasses, Acquire, Transact, Exit, ProbeGuard,
     RenameCandidate, InspectLock, JudgeLock, MakeGuard, ConfirmInspect,
     ConfirmJudge, Entomb, RemoveGuard, ReadLedger, WriteLedger, ReleaseCheck,
     ReleaseUnlink, ReleaseRmdir, Unshared, lockVars, LockTypeOK
<1>2. ASSUME seen'[q] = seen[q], StaleVerdict(q) PROVE StaleVerdict(q)'
  BY <1>1, <1>2 DEF StaleVerdict, Gone, LockTypeOK, Tokens
<1>3. seen'[q] = seen[q] /\ (pc[q] = "entomb" \/ StaleVerdict(q))
  BY DEF LockNext, Begin, DeadlinePasses, Acquire, Transact, Exit, ProbeGuard,
     RenameCandidate, InspectLock, JudgeLock, MakeGuard, ConfirmInspect,
     ConfirmJudge, Entomb, RemoveGuard, ReadLedger, WriteLedger, ReleaseCheck,
     ReleaseUnlink, ReleaseRmdir, Unshared, lockVars, LockTypeOK, At, Goto
<1> QED
  BY <1>2, <1>3 DEF VerdictHolds

(* A token names one process.                                              *)
LEMMA TokenNamesProcess ==
  \A p, q \in Procs : {Token(p)} = {Token(q)} => p = q
<1> SUFFICES ASSUME NEW p \in Procs, NEW q \in Procs, {Token(p)} = {Token(q)}
             PROVE  p = q
  OBVIOUS
<1>1. Token(p) = Token(q)
  OBVIOUS
<1>2. Token(p)[1] = p /\ Token(q)[1] = q
  BY DEF Token
<1> QED
  BY <1>1, <1>2

(* Unless a reclaim misjudges, a step leaves a live holder's token in the  *)
(* lock: only a rename onto an ownerless directory writes it, only the     *)
(* holder's release or a justified reclaim erases it.                      *)
LEMMA OwnerStep ==
  LockTypeOK /\ VerdictHolds /\ HolderOwnsLock /\ [LockNext]_lockVars => HolderOwnsLock'
<1> SUFFICES ASSUME LockTypeOK, VerdictHolds, HolderOwnsLock, [LockNext]_lockVars,
                    ~misjudged', NEW q \in Procs, Holds(q)'
             PROVE  lockOwner' = {Token(q)'}
  BY DEF HolderOwnsLock
<1> USE DEF At, Goto, Holds, Holding, Token
<1>1. ASSUME UNCHANGED <<lockOwner, misjudged>>,
             attempt'[q] = attempt[q], Holds(q)
      PROVE  lockOwner' = {Token(q)'}
  BY <1>1 DEF HolderOwnsLock
<1>2. CASE UNCHANGED lockVars
  BY <1>1, <1>2 DEF lockVars
<1>3. ASSUME NEW p \in Procs, Begin(p) \/ DeadlinePasses(p) \/ Exit(p)
      PROVE  lockOwner' = {Token(q)'}
  BY <1>1, <1>3 DEF Begin, DeadlinePasses, Exit, LockTypeOK
<1>4. ASSUME NEW p \in Procs, RenameCandidate(p) PROVE lockOwner' = {Token(q)'}
  BY <1>1, <1>4 DEF RenameCandidate, Unshared, LockTypeOK, HolderOwnsLock
<1>5. ASSUME NEW p \in Procs, Entomb(p) PROVE lockOwner' = {Token(q)'}
  <2>1. Holds(q) /\ attempt'[q] = attempt[q] /\ alive[q] /\ ~misjudged
    BY <1>5 DEF Entomb, Unshared, LockTypeOK
  <2>2. lockOwner = {Token(q)}
    BY <2>1 DEF HolderOwnsLock
  <2>3. CASE lockDir
    <3>1. lockOwner = seen[p]
      BY <1>5, <2>2, <2>3 DEF Entomb
    <3>2. StaleVerdict(p)
      BY <1>5 DEF Entomb, VerdictHolds
    <3>3. PICK o \in seen[p] : Gone(o[1])
      BY <3>2 DEF StaleVerdict
    <3>4. o = <<q, attempt[q]>>
      BY <3>1, <3>3, <2>2
    <3>5. o[1] = q
      BY <3>4
    <3>6. Gone(q)
      BY <3>3, <3>5
    <3> QED
      BY <3>6, <2>1 DEF Gone
  <2>4. CASE ~lockDir
    BY <1>5, <2>1, <2>2, <2>4 DEF Entomb
  <2> QED
    BY <2>3, <2>4
<1>6. ASSUME NEW p \in Procs, ReleaseUnlink(p) PROVE lockOwner' = {Token(q)'}
  <2>1. Holds(p) /\ Holds(q) /\ p # q /\ ~misjudged
    BY <1>6 DEF ReleaseUnlink, Unshared, LockTypeOK
  <2>2. {Token(p)} = {Token(q)}
    BY <2>1 DEF HolderOwnsLock
  <2> QED
    BY <2>1, <2>2, TokenNamesProcess DEF Token
<1>7. ASSUME NEW p \in Procs,
             \/ ProbeGuard(p) \/ InspectLock(p) \/ JudgeLock(p) \/ MakeGuard(p)
             \/ ConfirmInspect(p) \/ ConfirmJudge(p) \/ RemoveGuard(p)
      PROVE  lockOwner' = {Token(q)'}
  BY <1>1, <1>7 DEF ProbeGuard, InspectLock, JudgeLock, MakeGuard,
     ConfirmInspect, ConfirmJudge, RemoveGuard, Unshared, LockTypeOK
<1>8. ASSUME NEW p \in Procs,
             ReadLedger(p) \/ WriteLedger(p) \/ ReleaseCheck(p) \/ ReleaseRmdir(p)
      PROVE  lockOwner' = {Token(q)'}
  BY <1>1, <1>8 DEF ReadLedger, WriteLedger, ReleaseCheck, ReleaseRmdir,
     Unshared, LockTypeOK
<1> QED
  BY <1>2, <1>3, <1>4, <1>5, <1>6, <1>7, <1>8 DEF LockNext, Acquire, Transact

(* While the holder's token is in the lock nobody else writes, so what a   *)
(* writer read is still what the file holds and no update is lost.         *)
LEMMA LedgerStep ==
  /\ LockTypeOK /\ HolderOwnsLock /\ SnapshotCurrent /\ NoLostUpdate
  /\ [LockNext]_lockVars
  => SnapshotCurrent' /\ NoLostUpdate'
<1> SUFFICES ASSUME LockTypeOK, HolderOwnsLock, SnapshotCurrent, NoLostUpdate,
                    [LockNext]_lockVars, ~misjudged'
             PROVE  (\A q \in Procs : At(q, "write")' => snapshot'[q] = ledger')
                    /\ committed' = ledger'
  BY DEF SnapshotCurrent, NoLostUpdate
<1> USE DEF At, Goto
<1>1. ASSUME UNCHANGED <<ledger, committed, snapshot>>, ~misjudged,
             \A q \in Procs : At(q, "write")' => At(q, "write")
      PROVE  (\A q \in Procs : At(q, "write")' => snapshot'[q] = ledger')
             /\ committed' = ledger'
  BY <1>1 DEF SnapshotCurrent, NoLostUpdate
<1>2. CASE UNCHANGED lockVars
  BY <1>1, <1>2 DEF lockVars
<1>3. ASSUME NEW p \in Procs, Begin(p) \/ DeadlinePasses(p) \/ Exit(p) \/ Acquire(p)
      PROVE  (\A q \in Procs : At(q, "write")' => snapshot'[q] = ledger')
             /\ committed' = ledger'
  BY <1>1, <1>3 DEF Begin, DeadlinePasses, Exit, Acquire, ProbeGuard,
     RenameCandidate, InspectLock, JudgeLock, MakeGuard, ConfirmInspect,
     ConfirmJudge, Entomb, RemoveGuard, Unshared, LockTypeOK
<1>4. ASSUME NEW p \in Procs, ReadLedger(p)
      PROVE  (\A q \in Procs : At(q, "write")' => snapshot'[q] = ledger')
             /\ committed' = ledger'
  BY <1>4 DEF ReadLedger, LockTypeOK, SnapshotCurrent, NoLostUpdate
<1>5. ASSUME NEW p \in Procs, WriteLedger(p)
      PROVE  (\A q \in Procs : At(q, "write")' => snapshot'[q] = ledger')
             /\ committed' = ledger'
  <2>1. \A q \in Procs : Holds(q) => Token(q) = Token(p)
    BY <1>5 DEF WriteLedger, HolderOwnsLock, Holds, Holding
  <2>2. \A q \in Procs : ~At(q, "write")'
    BY <1>5, <2>1 DEF WriteLedger, LockTypeOK, Token, Holds, Holding
  <2>3. snapshot[p] = ledger /\ committed = ledger
    BY <1>5 DEF WriteLedger, SnapshotCurrent, NoLostUpdate
  <2> QED
    BY <1>5, <2>2, <2>3 DEF WriteLedger
<1>6. ASSUME NEW p \in Procs, ReleaseCheck(p) \/ ReleaseUnlink(p) \/ ReleaseRmdir(p)
      PROVE  (\A q \in Procs : At(q, "write")' => snapshot'[q] = ledger')
             /\ committed' = ledger'
  BY <1>1, <1>6 DEF ReleaseCheck, ReleaseUnlink, ReleaseRmdir, Unshared, LockTypeOK
<1> QED
  BY <1>2, <1>3, <1>4, <1>5, <1>6 DEF LockNext, Transact

(* The inductive invariant of the lock protocol.                           *)
LEMMA LockInvariant == LockSpec => []LockInv
<1>1. LockInit => LockInv
  <2> SUFFICES ASSUME LockInit PROVE LockInv
    OBVIOUS
  <2>1. LockTypeOK
    BY LockTypeInit
  <2> QED
    BY <2>1 DEF LockInit, LockInv, VerdictHolds, HolderOwnsLock, SnapshotCurrent,
       NoLostUpdate, GuardHasOneOwner, Holds, Holding, At, Guarded
<1>2. LockInv /\ [LockNext]_lockVars => LockInv'
  BY TypeStep, GuardStep, VerdictStep, OwnerStep, LedgerStep DEF LockInv
<1> QED
  BY <1>1, <1>2, PTL DEF LockSpec

(* Two live processes hold the ledger lock only after a reclaim moved away *)
(* a lock other than the one it had judged stale.                          *)
THEOREM LockMutualExclusion == LockSpec => []MutexUnlessMisjudged
<1>1. LockInv => MutexUnlessMisjudged
  BY TokenNamesProcess DEF LockInv, HolderOwnsLock, MutexUnlessMisjudged, MutualExclusion
<1> QED
  BY <1>1, LockInvariant, PTL

(* Every ledger write of every process stays visible in the ledger.        *)
THEOREM LockLosesNoUpdate == LockSpec => []NoLostUpdate
<1>1. LockInv => NoLostUpdate
  BY DEF LockInv
<1> QED
  BY <1>1, LockInvariant, PTL

(* At most one process, live or crashed, owns the reclaim guard.           *)
THEOREM LockGuardExclusive == LockSpec => []GuardHasOneOwner
<1>1. LockInv => GuardHasOneOwner
  BY DEF LockInv
<1> QED
  BY <1>1, LockInvariant, PTL

-----------------------------------------------------------------------------
(* The transactions                                                        *)

EntryType == HookEntry \cup TeamEntry

(* What a transaction sees has the type of a ledger.                       *)
LEMMA CurrentType ==
  Typed => /\ Current.entries \in SUBSET EntryType
            /\ Current.barrier \in 0 .. MaxTime + StaleAge
<1> SUFFICES ASSUME Typed
             PROVE  /\ Current.entries \in SUBSET EntryType
                    /\ Current.barrier \in 0 .. MaxTime + StaleAge
  OBVIOUS
<1> USE DEF Typed, EntryType
<1>1. \A u \in 0 .. MaxTime + StaleAge : Durable(u) \in SUBSET TeamEntry
  BY WorkAssumption DEF Durable, Team, TeamEntry
<1>2. now + StaleAge \in 0 .. MaxTime + StaleAge
  BY TimeAssumption
<1>3. Loaded.entries \in SUBSET EntryType /\ Loaded.barrier \in 0 .. MaxTime + StaleAge
  BY <1>1, <1>2 DEF Loaded
<1>4. CASE Loaded.barrier # 0 /\ now >= Loaded.barrier
  <2>1. Current = [entries |-> Merge({e \in Loaded.entries : ~Reclaimable(e)},
                                     Durable(Loaded.barrier)),
                   barrier |-> 0]
    BY <1>4 DEF Current
  <2>2. Durable(Loaded.barrier) \in SUBSET TeamEntry
    BY <1>1, <1>3
  <2> QED
    BY <2>1, <2>2, <1>3, TimeAssumption DEF Merge
<1>5. CASE ~(Loaded.barrier # 0 /\ now >= Loaded.barrier)
  BY <1>3, <1>5, TimeAssumption DEF Current
<1> QED
  BY <1>4, <1>5

(* A launch is shorter than the stale age, and has no team file yet; a     *)
(* live worker without one has lost its orchestrator, and one whose team   *)
(* file calls it over was given up by a poll.                              *)
LaunchTimely ==
  \A r \in Runs :
    /\ spawner[r] \in {"none", "launching", "stopping"} => teamFile[r] = "missing"
    /\ Spawning(r) =>
         reservedAt[r] <= now /\ now <= reservedAt[r] + LaunchTime
    /\ proc[r] = "live" =>
         Spawning(r) \/ spawner[r] = "dead" \/ teamFile[r] # "missing"
    /\ proc[r] = "live" /\ teamFile[r] = "terminal" => r \in abandoned

(* What a ledger with entries es and barrier b owes to the run r.          *)
ChargedIn(r, es) == \E e \in es : e.kind = "team" /\ e.key = r
Accounted(r, es, b) ==
  /\ teamFile[r] = "active" /\ proc[r] = "live" /\ r \notin abandoned /\ b = 0
       => ChargedIn(r, es)
  /\ Spawning(r) => ChargedIn(r, es) \/ b >= reservedAt[r] + StaleAge
  /\ spawner[r] \in {"none", "launching", "stopping"} =>
       \A e \in es : e.kind = "team" /\ e.key = r => e.until = 0

AllAccounted ==
  ledgerFile = "ok" => \A r \in Runs : Accounted(r, entries, barrier)

LedgerInv == Typed /\ LaunchTimely /\ AllAccounted

(* Reading, pruning and recovering keep what the ledger owes.              *)
LEMMA CurrentAccounts ==
  LedgerInv => \A r \in Runs : Accounted(r, Current.entries, Current.barrier)
<1> SUFFICES ASSUME LedgerInv, NEW r \in Runs
             PROVE  Accounted(r, Current.entries, Current.barrier)
  OBVIOUS
<1> USE DEF LedgerInv, Typed, Spawning
<1>1. reservedAt[r] \in Nat /\ now \in Nat /\ barrier \in Nat
      /\ StaleAge \in Nat /\ LaunchTime \in Nat /\ LaunchTime < StaleAge
  BY TimeAssumption
<1>2. \A u : \A e \in Durable(u) : e.kind = "team" /\ teamFile[e.key] = "active"
  BY DEF Durable, Team
<1>3. ASSUME NEW u, teamFile[r] = "active" PROVE ChargedIn(r, Durable(u))
  <2>1. Team(r, u) \in Durable(u)
    BY <1>3 DEF Durable
  <2> QED
    BY <2>1 DEF Team, ChargedIn
<1>4. spawner[r] \in {"none", "launching", "stopping"} => \A u : \A e \in Durable(u) : e.key # r
  BY <1>2 DEF LaunchTimely
<1>5. Loaded.barrier \in Nat /\ Accounted(r, Loaded.entries, Loaded.barrier)
  <2>1. CASE ledgerFile = "corrupt"
    <3>1. Loaded.entries = Durable(now + StaleAge) /\ Loaded.barrier = now + StaleAge
      BY <2>1 DEF Loaded
    <3>2. Spawning(r) => now + StaleAge >= reservedAt[r] + StaleAge
      BY <1>1 DEF LaunchTimely
    <3> QED
      BY <3>1, <3>2, <1>1, <1>3, <1>4 DEF Accounted
  <2>2. CASE ledgerFile # "corrupt"
    BY <2>2, <1>1 DEF Loaded, AllAccounted
  <2> QED
    BY <2>1, <2>2
<1> DEFINE kept == {e \in Loaded.entries : ~Reclaimable(e)}
<1>6. ASSUME NEW e \in Loaded.entries, e.kind = "team", e.key = r, e \notin kept
      PROVE  \/ teamFile[r] = "terminal"
             \/ teamFile[r] = "active" /\ proc[r] = "ended"
             \/ teamFile[r] = "missing" /\ e.until # 0
             \/ teamFile[r] = "missing" /\ ~Spawning(r)
  BY <1>6 DEF Reclaimable
<1>7. teamFile[r] = "active" /\ proc[r] = "live" /\ ChargedIn(r, Loaded.entries)
      => ChargedIn(r, kept)
  BY <1>6 DEF ChargedIn
<1>8. Spawning(r) /\ ChargedIn(r, Loaded.entries) => ChargedIn(r, kept)
  BY <1>5, <1>6 DEF ChargedIn, Accounted, LaunchTimely
<1>9. CASE ~(Loaded.barrier # 0 /\ now >= Loaded.barrier)
  <2>1. Current.entries = kept /\ Current.barrier = Loaded.barrier
    BY <1>9 DEF Current
  <2> QED
    BY <2>1, <1>5, <1>7, <1>8 DEF Accounted
<1>10. CASE Loaded.barrier # 0 /\ now >= Loaded.barrier
  <2>1. Current.entries = Merge(kept, Durable(Loaded.barrier)) /\ Current.barrier = 0
    BY <1>10 DEF Current
  <2>2. teamFile[r] = "active" => ChargedIn(r, Current.entries)
    BY <2>1, <1>3 DEF Merge, ChargedIn
  <2>3. Spawning(r) => ChargedIn(r, kept)
    BY <1>5, <1>8, <1>10, <1>1 DEF Accounted, LaunchTimely
  <2>4. Spawning(r) => ChargedIn(r, Current.entries)
    BY <2>1, <2>3, <1>4 DEF Merge, ChargedIn
  <2>5. spawner[r] \in {"none", "launching", "stopping"} =>
          \A e \in Current.entries : e.kind = "team" /\ e.key = r => e.until = 0
    BY <2>1, <1>5, <1>4 DEF Merge, Accounted
  <2> QED
    BY <2>1, <2>2, <2>4, <2>5 DEF Accounted
<1> QED
  BY <1>9, <1>10

(* A step that changes neither the run r nor its team entries keeps what a  *)
(* ledger owes to it.                                                      *)
Untouched(r) ==
  /\ teamFile'[r] = teamFile[r] /\ proc'[r] = proc[r]
  /\ spawner'[r] = spawner[r] /\ reservedAt'[r] = reservedAt[r]
  /\ r \in abandoned' <=> r \in abandoned

LEMMA UntouchedAccounts ==
  ASSUME NEW r \in Runs, NEW es, Untouched(r),
         Accounted(r, es, barrier'),
         \A e : e.kind = "team" /\ e.key = r => (e \in es <=> e \in entries')
  PROVE  Accounted(r, entries, barrier)'
  BY DEF Accounted, ChargedIn, Untouched, Spawning

(* Every step keeps the types.                                             *)
LEMMA LedgerTypeStep == Typed /\ [Next]_vars => Typed'
<1> SUFFICES ASSUME Typed, [Next]_vars PROVE Typed'
  OBVIOUS
<1> USE DEF ledgerVars, hookVars, teamVars, Spawning, GiveUp
<1> DEFINE LedgerTyped == /\ ledgerFile' \in {"ok", "corrupt"}
                          /\ entries' \in SUBSET EntryType
                          /\ barrier' \in 0 .. MaxTime + StaleAge
<1>1. ASSUME NEW after \in SUBSET EntryType, Write(after) PROVE LedgerTyped
  BY <1>1, CurrentType DEF Write
<1>2. ASSUME UNCHANGED ledgerVars PROVE LedgerTyped
  BY <1>2 DEF Typed, EntryType
<1>3. \A f : Current.entries \in SUBSET EntryType
             /\ {e \in Current.entries : f[e]} \in SUBSET EntryType
  BY CurrentType
<1>4. CASE UNCHANGED vars
  BY <1>4 DEF vars, Typed
<1>5. ASSUME NEW c \in Tools, AdmitTool(c) PROVE Typed'
  <2>1. Hook(c, now) \in HookEntry
    BY WorkAssumption DEF Hook, HookEntry, Typed
  <2>2. LedgerTyped
    BY <1>5, <1>1, <2>1, CurrentType DEF AdmitTool, EntryType
  <2> QED
    BY <1>5, <2>2 DEF AdmitTool, Typed, EntryType
<1>6. CASE ReadCounts
  <2>1. LedgerTyped
    BY <1>6, <1>1, CurrentType DEF ReadCounts
  <2> QED
    BY <1>6, <2>1 DEF ReadCounts, Typed, EntryType
<1>7. ASSUME NEW c \in Tools, EndTool(c) PROVE Typed'
  BY <1>7, TimeAssumption DEF EndTool, Typed
<1>8. ASSUME NEW c \in Tools, PostToolUse(c) PROVE Typed'
  <2>1. LedgerTyped
    BY <1>8, <1>1, CurrentType DEF PostToolUse
  <2> QED
    BY <1>8, <2>1 DEF PostToolUse, Typed, EntryType
<1>9. ASSUME NEW c \in Tools, SubagentStop(c) PROVE Typed'
  <2>1. LedgerTyped
    BY <1>9, <1>1, CurrentType DEF SubagentStop
  <2>2. stolen' \in BOOLEAN
    BY <1>9 DEF SubagentStop, Typed
  <2> QED
    BY <1>9, <2>1, <2>2 DEF SubagentStop, Typed, EntryType
<1>10. CASE LoseEvent
  BY <1>10 DEF LoseEvent, Typed
<1>11. ASSUME NEW r \in Runs, Reserve(r) PROVE Typed'
  <2>1. Team(r, 0) \in TeamEntry
    BY WorkAssumption, TimeAssumption DEF Team, TeamEntry
  <2>2. LedgerTyped
    BY <1>11, <1>1, <2>1, CurrentType DEF Reserve, EntryType
  <2> QED
    BY <1>11, <2>2 DEF Reserve, Typed, EntryType
<1>12. ASSUME NEW r \in Runs, ReleaseBatch(r) PROVE Typed'
  <2>1. CASE UNCHANGED ledgerVars
    BY <1>12, <2>1, TimeAssumption DEF ReleaseBatch, Typed
  <2>2. CASE Write({e \in Current.entries : e.kind # "team" \/ e.key # r})
    <3>1. LedgerTyped
      BY <2>2, <1>1, CurrentType
    <3> QED
      BY <1>12, <3>1, TimeAssumption DEF ReleaseBatch, Typed, EntryType
  <2> QED
    BY <1>12, <2>1, <2>2 DEF ReleaseBatch
<1>20. ASSUME NEW r \in Runs, LaunchRefused(r) PROVE Typed'
  <2>1. CASE UNCHANGED ledgerVars
    BY <1>20, <2>1, TimeAssumption DEF LaunchRefused, Typed
  <2>2. CASE Write({e \in Current.entries : e.kind # "team" \/ e.key # r})
    <3>1. LedgerTyped
      BY <2>2, <1>1, CurrentType
    <3> QED
      BY <1>20, <3>1, TimeAssumption DEF LaunchRefused, Typed, EntryType
  <2> QED
    BY <1>20, <2>1, <2>2 DEF LaunchRefused
<1>21. ASSUME NEW r \in Runs, LaunchFails(r) PROVE Typed'
  BY <1>21 DEF LaunchFails, Typed
<1>13. ASSUME NEW r \in Runs,
              LaunchWorker(r) \/ StopStarted(r) \/ WorkerEnds(r) \/ ShutdownKills(r)
       PROVE  Typed'
  <2>1. PICK how \in {"live", "ended", "killed"} : proc' = [proc EXCEPT ![r] = how]
    BY <1>13 DEF LaunchWorker, StopStarted, WorkerEnds, ShutdownKills
  <2> QED
    BY <1>13, <2>1 DEF LaunchWorker, StopStarted, WorkerEnds, ShutdownKills, Typed
<1>17. ASSUME NEW r \in Runs, SaveTeam(r) PROVE Typed'
  BY <1>17, TimeAssumption DEF SaveTeam, Typed
<1>18. ASSUME NEW r \in Runs, SpawnerDies(r) PROVE Typed'
  BY <1>18, TimeAssumption DEF SpawnerDies, Typed
<1>19. ASSUME NEW r \in Runs, MonitorSaves(r) PROVE Typed'
  BY <1>19 DEF MonitorSaves, Typed
<1>14. ASSUME NEW r \in Runs, MonitorReleases(r) \/ ShutdownReleases(r) PROVE Typed'
  <2>1. LedgerTyped
    BY <1>14, <1>1, CurrentType DEF MonitorReleases, ShutdownReleases
  <2> QED
    BY <1>14, <2>1 DEF MonitorReleases, ShutdownReleases, Typed, EntryType
<1>15. CASE CorruptLedger
  BY <1>15, TimeAssumption DEF CorruptLedger, Typed
<1>16. CASE Tick
  BY <1>16, TimeAssumption DEF Tick, Typed
<1> QED
  BY <1>4, <1>5, <1>6, <1>7, <1>8, <1>9, <1>10, <1>11, <1>12, <1>13, <1>14,
     <1>15, <1>16, <1>17, <1>18, <1>19, <1>20, <1>21 DEF Next

(* Only a launch ages, and its end is before its time is over.             *)
Timely(r) ==
  /\ spawner[r] \in {"none", "launching", "stopping"} => teamFile[r] = "missing"
  /\ Spawning(r) =>
       reservedAt[r] <= now /\ now <= reservedAt[r] + LaunchTime
  /\ proc[r] = "live" =>
       Spawning(r) \/ spawner[r] = "dead" \/ teamFile[r] # "missing"
  /\ proc[r] = "live" /\ teamFile[r] = "terminal" => r \in abandoned

LEMMA LaunchTimelyStep == Typed /\ LaunchTimely /\ [Next]_vars => LaunchTimely'
<1> SUFFICES ASSUME Typed, LaunchTimely, [Next]_vars, NEW q \in Runs
             PROVE  Timely(q)'
  BY DEF LaunchTimely, Timely
<1> USE TimeAssumption DEF ledgerVars, hookVars, teamVars, Spawning, GiveUp, Typed
<1>1. Timely(q)
  BY DEF LaunchTimely, Timely
<1>2. CASE UNCHANGED <<now, spawner, reservedAt, proc, teamFile, abandoned>>
  BY <1>1, <1>2 DEF Timely
<1>3. ASSUME NEW r \in Runs, Reserve(r) PROVE Timely(q)'
  BY <1>1, <1>3 DEF Reserve, Timely
<1>4. ASSUME NEW r \in Runs, LaunchFails(r) PROVE Timely(q)'
  BY <1>1, <1>4 DEF LaunchFails, Timely
<1>10. ASSUME NEW r \in Runs, LaunchRefused(r) PROVE Timely(q)'
  BY <1>1, <1>10 DEF LaunchRefused, Timely
<1>11. ASSUME NEW r \in Runs, ReleaseBatch(r) PROVE Timely(q)'
  BY <1>1, <1>11 DEF ReleaseBatch, Timely
<1>12. ASSUME NEW r \in Runs, LaunchWorker(r) PROVE Timely(q)'
  BY <1>1, <1>12 DEF LaunchWorker, Timely
<1>13. ASSUME NEW r \in Runs, StopStarted(r) \/ WorkerEnds(r) \/ ShutdownKills(r)
       PROVE  Timely(q)'
  BY <1>1, <1>13 DEF StopStarted, WorkerEnds, ShutdownKills, Timely
<1>14. ASSUME NEW r \in Runs, MonitorReleases(r) PROVE Timely(q)'
  BY <1>1, <1>14 DEF MonitorReleases, Timely
<1>5. ASSUME NEW r \in Runs, SaveTeam(r) PROVE Timely(q)'
  BY <1>1, <1>5 DEF SaveTeam, Timely
<1>6. ASSUME NEW r \in Runs, SpawnerDies(r) PROVE Timely(q)'
  BY <1>1, <1>6 DEF SpawnerDies, Timely
<1>7. ASSUME NEW r \in Runs, MonitorSaves(r) PROVE Timely(q)'
  BY <1>1, <1>7 DEF MonitorSaves, Timely
<1>8. ASSUME NEW r \in Runs, ShutdownReleases(r) PROVE Timely(q)'
  BY <1>1, <1>8 DEF ShutdownReleases, Timely
<1>9. CASE Tick
  BY <1>1, <1>9 DEF Tick, Timely
<1> QED
  BY <1>2, <1>3, <1>4, <1>5, <1>6, <1>7, <1>8, <1>9, <1>10, <1>11, <1>12, <1>13, <1>14
     DEF Next, vars, ReadCounts, LoseEvent, CorruptLedger, AdmitTool, EndTool,
         PostToolUse, SubagentStop

(* Every transaction, and every change of a run, keeps the accounts.       *)
LEMMA AccountStep == LedgerInv /\ [Next]_vars => AllAccounted'
<1> SUFFICES ASSUME LedgerInv, [Next]_vars, ledgerFile' = "ok", NEW q \in Runs
             PROVE  Accounted(q, entries, barrier)'
  BY DEF AllAccounted
<1> USE DEF ledgerVars, hookVars, teamVars, Spawning, GiveUp
<1>1. Accounted(q, Current.entries, Current.barrier)
  BY CurrentAccounts
<1>2. ASSUME UNCHANGED ledgerVars PROVE Accounted(q, entries, barrier')
  BY <1>2 DEF LedgerInv, AllAccounted
<1>3. ASSUME NEW after, Write(after), Untouched(q),
             \A e : e.kind = "team" /\ e.key = q =>
                     (e \in Current.entries <=> e \in after)
      PROVE  Accounted(q, entries, barrier)'
  BY <1>1, <1>3, UntouchedAccounts DEF Write
<1>4. CASE UNCHANGED <<ledgerVars, teamVars, abandoned>>
  BY <1>2, <1>4, UntouchedAccounts DEF Untouched
<1>5. CASE ReadCounts
  BY <1>3, <1>5 DEF ReadCounts, Untouched
<1>6. ASSUME NEW c \in Tools, AdmitTool(c) PROVE Accounted(q, entries, barrier)'
  BY <1>3, <1>6 DEF AdmitTool, Untouched, Hook
<1>7. ASSUME NEW c \in Tools, PostToolUse(c) PROVE Accounted(q, entries, barrier)'
  BY <1>3, <1>7 DEF PostToolUse, Untouched
<1>8. ASSUME NEW c \in Tools, SubagentStop(c) PROVE Accounted(q, entries, barrier)'
  BY <1>3, <1>8 DEF SubagentStop, Untouched, Of, Oldest
<1>9. ASSUME NEW r \in Runs, r # q,
             \/ Reserve(r) \/ LaunchWorker(r) \/ LaunchFails(r) \/ StopStarted(r)
             \/ ReleaseBatch(r) \/ SaveTeam(r) \/ LaunchRefused(r)
             \/ SpawnerDies(r) \/ WorkerEnds(r) \/ MonitorReleases(r)
             \/ MonitorSaves(r) \/ ShutdownKills(r) \/ ShutdownReleases(r)
      PROVE  Accounted(q, entries, barrier)'
  <2>1. Untouched(q)
    BY <1>9 DEF Untouched, LedgerInv, Typed, Reserve, LaunchWorker, LaunchFails,
       StopStarted, ReleaseBatch, LaunchRefused, SaveTeam, SpawnerDies, WorkerEnds,
       MonitorReleases, MonitorSaves, ShutdownKills, ShutdownReleases
  <2>2. CASE UNCHANGED ledgerVars
    BY <1>2, <2>1, <2>2, UntouchedAccounts
  <2>3. CASE Write({e \in Current.entries : e.kind # "team" \/ e.key # r})
    BY <1>3, <1>9, <2>1, <2>3
  <2>4. CASE Write(Current.entries \cup {Team(r, 0)})
    BY <1>3, <1>9, <2>1, <2>4 DEF Team
  <2> QED
    BY <1>9, <2>2, <2>3, <2>4 DEF Reserve, LaunchWorker, LaunchFails, StopStarted,
       ReleaseBatch, LaunchRefused, SaveTeam, SpawnerDies, WorkerEnds,
       MonitorReleases, MonitorSaves, ShutdownKills, ShutdownReleases
<1>10. CASE Reserve(q)
  <2>1. Team(q, 0) \in entries' /\ Team(q, 0).kind = "team"
        /\ Team(q, 0).key = q /\ Team(q, 0).until = 0
    BY <1>10 DEF Reserve, Write, Team
  <2>2. \A e \in entries' : e \in Current.entries \/ e = Team(q, 0)
    BY <1>10 DEF Reserve, Write
  <2>3. ChargedIn(q, entries')
    BY <2>1 DEF ChargedIn
  <2>4. \A e \in Current.entries : e.kind = "team" /\ e.key = q => e.until = 0
    BY <1>1, <1>10 DEF Accounted, Reserve
  <2> QED
    BY <2>1, <2>2, <2>3, <2>4 DEF Accounted, ChargedIn
<1>11. CASE LaunchWorker(q)
  BY <1>2, <1>11 DEF LaunchWorker, Accounted, LedgerInv, Typed, LaunchTimely
<1>19. CASE LaunchFails(q)
  BY <1>2, <1>19 DEF LaunchFails, Accounted, LedgerInv, Typed
<1>12. CASE ReleaseBatch(q) \/ LaunchRefused(q) \/ SpawnerDies(q)
  BY <1>12 DEF ReleaseBatch, LaunchRefused, SpawnerDies, Accounted, LedgerInv,
     Typed, LaunchTimely
<1>13. CASE SaveTeam(q)
  <2>1. barrier >= reservedAt[q] + StaleAge => barrier # 0
    BY TimeAssumption DEF LedgerInv, Typed
  <2> QED
    BY <1>2, <1>13, <2>1 DEF SaveTeam, Accounted, LedgerInv, Typed
<1>14. CASE StopStarted(q) \/ WorkerEnds(q) \/ ShutdownKills(q)
  BY <1>2, <1>14 DEF StopStarted, WorkerEnds, ShutdownKills, Accounted, LedgerInv, Typed
<1>15. CASE MonitorReleases(q)
  BY <1>1, <1>15 DEF MonitorReleases, Write, Accounted, ChargedIn, LedgerInv, Typed,
     LaunchTimely
<1>16. CASE MonitorSaves(q)
  BY <1>2, <1>16 DEF MonitorSaves, Accounted, LedgerInv, Typed
<1>17. CASE ShutdownReleases(q)
  BY <1>17 DEF ShutdownReleases, Accounted, LedgerInv, Typed, LaunchTimely
<1>18. CASE CorruptLedger
  BY <1>18 DEF CorruptLedger
<1> QED
  BY <1>4, <1>5, <1>6, <1>7, <1>8, <1>9, <1>10, <1>11, <1>12, <1>13, <1>14, <1>15,
     <1>16, <1>17, <1>18, <1>19 DEF Next, vars, EndTool, LoseEvent, Tick

(* What keeps two entries from naming the same work: work that has not     *)
(* started has none, and behind a barrier every team entry is a recovered  *)
(* one, which a second scan replaces.                                      *)
OneEach(es) == \A d, e \in es : d.kind = e.kind /\ d.key = e.key => d = e
Single(es, b) ==
  /\ OneEach(es)
  /\ \A e \in es : e.kind = "hook" => tool[e.key] # "idle"
  /\ \A e \in es : e.kind = "team" => spawner[e.key] # "none"
  /\ b # 0 => \A e \in es : e.kind = "team" => e.until # 0
LedgerSingle == Single(entries, barrier)

SingleInv == Typed /\ LaunchTimely /\ LedgerSingle

LEMMA CurrentSingle == SingleInv => Single(Current.entries, Current.barrier)
<1> SUFFICES ASSUME SingleInv PROVE Single(Current.entries, Current.barrier)
  OBVIOUS
<1> USE DEF SingleInv, Typed
<1>1. \A u : \A e \in Durable(u) :
        /\ e.kind = "team" /\ e.until = u /\ e.key \in Runs
        /\ teamFile[e.key] = "active" /\ e = Team(e.key, u)
  BY DEF Durable, Team
<1>2. \A u : OneEach(Durable(u))
  BY <1>1 DEF OneEach
<1>3. \A u : \A e \in Durable(u) : spawner[e.key] # "none"
  BY <1>1 DEF LaunchTimely
<1>4. Single(Loaded.entries, Loaded.barrier)
  <2>1. CASE ledgerFile = "corrupt"
    <3>1. Loaded.entries = Durable(now + StaleAge) /\ now + StaleAge # 0
      BY <2>1, TimeAssumption DEF Loaded
    <3> QED
      BY <3>1, <1>1, <1>2, <1>3 DEF Single
  <2>2. CASE ledgerFile # "corrupt"
    BY <2>2 DEF Loaded, LedgerSingle
  <2> QED
    BY <2>1, <2>2
<1> DEFINE kept == {e \in Loaded.entries : ~Reclaimable(e)}
<1>5. Single(kept, Loaded.barrier)
  BY <1>4 DEF Single, OneEach
<1>6. CASE ~(Loaded.barrier # 0 /\ now >= Loaded.barrier)
  <2>1. Current.entries = kept /\ Current.barrier = Loaded.barrier
    BY <1>6 DEF Current
  <2> QED
    BY <2>1, <1>5
<1>7. CASE Loaded.barrier # 0 /\ now >= Loaded.barrier
  <2> DEFINE merged == Merge(kept, Durable(Loaded.barrier))
  <2>1. Current.entries = merged /\ Current.barrier = 0
    BY <1>7 DEF Current
  <2>2. \A e \in merged : e \in kept \/ e \in Durable(Loaded.barrier)
    BY DEF Merge
  <2>3. \A d \in merged, e \in Durable(Loaded.barrier) :
          d.kind = "team" /\ d.key = e.key => d \in Durable(Loaded.barrier)
    BY <1>5, <1>7 DEF Merge, Single
  <2>4. OneEach(merged)
    BY <2>2, <2>3, <1>1, <1>2, <1>5 DEF Single, OneEach
  <2> QED
    BY <2>1, <2>2, <2>4, <1>1, <1>3, <1>5 DEF Single
<1> QED
  BY <1>6, <1>7

(* A step whose new ledger is that of the transaction, less some entries,  *)
(* and that starts no work, keeps the entries single.                      *)
Started ==
  /\ \A c \in Tools : tool[c] # "idle" => tool'[c] # "idle"
  /\ \A r \in Runs : spawner[r] # "none" => spawner'[r] # "none"

LEMMA StartedSingle ==
  ASSUME Started, NEW es, NEW b, Single(es, b), es \in SUBSET EntryType,
         entries' \in SUBSET es, barrier' = b
  PROVE  LedgerSingle'
<1>1. \A e \in es : e.kind = "hook" => e.key \in Tools
  BY DEF EntryType, HookEntry, TeamEntry
<1>2. \A e \in es : e.kind = "team" => e.key \in Runs
  BY DEF EntryType, HookEntry, TeamEntry
<1> QED
  BY <1>1, <1>2 DEF Started, LedgerSingle, Single, OneEach

(* Every step keeps the entries single.                                    *)
LEMMA SingleStep == SingleInv /\ [Next]_vars => LedgerSingle'
<1> SUFFICES ASSUME SingleInv, [Next]_vars PROVE LedgerSingle'
  OBVIOUS
<1> USE DEF ledgerVars, hookVars, teamVars, Spawning, GiveUp, SingleInv
<1>1. Single(Current.entries, Current.barrier)
  BY CurrentSingle
<1>2. Current.entries \in SUBSET EntryType
  BY CurrentType
<1>3. ASSUME Started, NEW after \in SUBSET Current.entries, Write(after)
      PROVE  LedgerSingle'
  BY <1>1, <1>2, <1>3, StartedSingle DEF Write
<1>4. ASSUME Started, UNCHANGED ledgerVars PROVE LedgerSingle'
  BY <1>4, StartedSingle DEF Typed, LedgerSingle, EntryType
<1>5. CASE UNCHANGED vars \/ LoseEvent \/ Tick
  BY <1>4, <1>5 DEF vars, LoseEvent, Tick, Started
<1>6. CASE ReadCounts
  BY <1>3, <1>6 DEF ReadCounts, Started
<1>7. CASE CorruptLedger
  BY <1>7 DEF CorruptLedger, LedgerSingle, Single, OneEach
<1>8. ASSUME NEW c \in Tools, AdmitTool(c) PROVE LedgerSingle'
  <2>1. Hook(c, now).kind = "hook" /\ Hook(c, now).key = c
    BY DEF Hook
  <2>2. \A e \in Current.entries : e.kind = "hook" => e.key # c
    BY <1>1, <1>8 DEF AdmitTool, Single
  <2>3. entries' = Current.entries \cup {Hook(c, now)} /\ barrier' = 0
    BY <1>8 DEF AdmitTool, Write
  <2>4. \A e \in entries' : e.kind = "hook" => e.key \in Tools /\ tool'[e.key] # "idle"
    BY <1>1, <1>2, <1>8, <2>1, <2>3
       DEF AdmitTool, Single, Typed, EntryType, HookEntry, TeamEntry
  <2>5. \A e \in entries' : e.kind = "team" => spawner'[e.key] # "none"
    BY <1>1, <1>8, <2>1, <2>3 DEF AdmitTool, Single
  <2>6. OneEach(entries')
    BY <1>1, <2>1, <2>2, <2>3 DEF Single, OneEach
  <2> QED
    BY <2>3, <2>4, <2>5, <2>6 DEF LedgerSingle, Single
<1>9. ASSUME NEW c \in Tools, EndTool(c) PROVE LedgerSingle'
  BY <1>4, <1>9 DEF EndTool, Started, Typed
<1>10. ASSUME NEW c \in Tools, PostToolUse(c) PROVE LedgerSingle'
  BY <1>3, <1>10 DEF PostToolUse, Started
<1>11. ASSUME NEW c \in Tools, SubagentStop(c) PROVE LedgerSingle'
  <2>1. PICK after \in SUBSET Current.entries : Write(after)
    BY <1>11 DEF SubagentStop
  <2> QED
    BY <1>3, <1>11, <2>1 DEF SubagentStop, Started
<1>12. ASSUME NEW r \in Runs, Reserve(r) PROVE LedgerSingle'
  <2>1. Team(r, 0).kind = "team" /\ Team(r, 0).key = r
    BY DEF Team
  <2>2. \A e \in Current.entries : e.kind = "team" => e.key # r
    BY <1>1, <1>12 DEF Reserve, Single
  <2>3. entries' = Current.entries \cup {Team(r, 0)} /\ barrier' = 0
    BY <1>12 DEF Reserve, Write
  <2>4. \A e \in entries' : e.kind = "team" => spawner'[e.key] # "none"
    BY <1>1, <1>2, <1>12, <2>1, <2>3
       DEF Reserve, Single, Typed, EntryType, HookEntry, TeamEntry
  <2>5. \A e \in entries' : e.kind = "hook" => tool'[e.key] # "idle"
    BY <1>1, <1>12, <2>1, <2>3 DEF Reserve, Single
  <2>6. OneEach(entries')
    BY <1>1, <2>1, <2>2, <2>3 DEF Single, OneEach
  <2> QED
    BY <2>3, <2>4, <2>5, <2>6 DEF LedgerSingle, Single
<1>13. ASSUME NEW r \in Runs,
              \/ LaunchWorker(r) \/ LaunchFails(r) \/ StopStarted(r)
             \/ ReleaseBatch(r) \/ LaunchRefused(r) \/ SaveTeam(r)
              \/ SpawnerDies(r) \/ WorkerEnds(r) \/ MonitorReleases(r)
              \/ MonitorSaves(r) \/ ShutdownKills(r) \/ ShutdownReleases(r)
       PROVE  LedgerSingle'
  <2>1. Started
    BY <1>13 DEF Started, Typed, LaunchWorker, LaunchFails, StopStarted,
       ReleaseBatch, LaunchRefused, SaveTeam, SpawnerDies, WorkerEnds,
       MonitorReleases, MonitorSaves, ShutdownKills, ShutdownReleases
  <2>2. \/ UNCHANGED ledgerVars
        \/ Write({e \in Current.entries : e.kind # "team" \/ e.key # r})
    BY <1>13 DEF LaunchWorker, LaunchFails, StopStarted, ReleaseBatch,
       LaunchRefused, SaveTeam, SpawnerDies, WorkerEnds, MonitorReleases,
       MonitorSaves, ShutdownKills, ShutdownReleases
  <2> QED
    BY <1>3, <1>4, <2>1, <2>2
<1> QED
  BY <1>5, <1>6, <1>7, <1>8, <1>9, <1>10, <1>11, <1>12, <1>13 DEF Next

LEMMA InitLedgerInv == Init => LedgerInv
<1> SUFFICES ASSUME Init PROVE LedgerInv
  OBVIOUS
<1>1. Typed
  <2>1. now \in 1 .. MaxTime /\ barrier \in 0 .. MaxTime + StaleAge
        /\ corruptions \in 0 .. MaxCorruptions /\ 0 \in 0 .. MaxTime
    BY TimeAssumption DEF Init
  <2>2. entries \in SUBSET (HookEntry \cup TeamEntry)
        /\ events \in SUBSET ({"PostToolUse", "SubagentStop"} \X Tools)
    BY DEF Init
  <2> QED
    BY <2>1, <2>2 DEF Init, Typed
<1>2. LaunchTimely
  BY DEF Init, LaunchTimely, Spawning
<1>3. AllAccounted
  BY DEF Init, AllAccounted, Accounted, ChargedIn, Spawning
<1> QED
  BY <1>1, <1>2, <1>3 DEF LedgerInv

LEMMA LedgerInvHolds == Spec => []LedgerInv
<1>1. Init => LedgerInv
  BY InitLedgerInv
<1>2. LedgerInv /\ [Next]_vars => LedgerInv'
  BY LedgerTypeStep, LaunchTimelyStep, AccountStep DEF LedgerInv
<1> QED
  BY <1>1, <1>2, PTL DEF Spec

LEMMA SingleInvHolds == Spec => []SingleInv
<1>1. Init => Typed /\ LaunchTimely
  BY InitLedgerInv DEF LedgerInv
<1>2. Init => LedgerSingle
  BY DEF Init, LedgerSingle, Single, OneEach
<1>3. SingleInv /\ [Next]_vars => SingleInv'
  BY LedgerTypeStep, LaunchTimelyStep, SingleStep DEF SingleInv
<1> QED
  BY <1>1, <1>2, <1>3, PTL DEF Spec, SingleInv

(* The ledger, the hooks and the teams keep their types, and no work is    *)
(* ever charged twice.                                                     *)
THEOREM AdmissionTypeCorrect == Spec => []TypeOK
<1>1. SingleInv => TypeOK
  BY DEF SingleInv, LedgerSingle, Single, OneEach, OneEntryEach, TypeOK
<1> QED
  BY <1>1, SingleInvHolds, PTL

(* A live worker with a durable team state is charged in every readable    *)
(* ledger without a barrier, unless a poll gave it up while it lived.      *)
THEOREM AdmissionChargesDurableWork == Spec => []DurableWorkerCharged
<1>1. LedgerInv => DurableWorkerCharged
  BY DEF LedgerInv, LaunchTimely, Typed, AllAccounted, Accounted, ChargedIn,
     DurableWorkerCharged, Charged
<1> QED
  BY <1>1, LedgerInvHolds, PTL

(* A launch in progress keeps its reservation, or admission stays closed   *)
(* until it must be over.                                                  *)
THEOREM AdmissionProtectsLaunches == Spec => []LaunchProtected
<1>1. LedgerInv => LaunchProtected
  BY DEF LedgerInv, Typed, AllAccounted, Accounted, ChargedIn, LaunchProtected,
     Charged
<1> QED
  BY <1>1, LedgerInvHolds, PTL
-----------------------------------------------------------------------------
(* The limits.  Work that counts has an entry of its own in the ledger, or *)
(* the ledger admits nothing until the work is over or old.  A barrier     *)
(* must outlast the calls that ran when the ledger was damaged.            *)

Live(r)  == \/ Spawning(r)
            \/ teamFile[r] = "active" /\ proc[r] = "live" /\ r \notin abandoned
Young(c) == tool[c] = "running" /\ now < startedAt[c] + StaleAge
Work     == {r \in Runs : Live(r)} \cup {c \in Tools : Young(c)}
WorkOf(p) == {w \in Work : ProviderOf[w] = p}

CallsAccounted(es, b) ==
  \A c \in Tools : Young(c) =>
    \/ \E e \in es : e.kind = "hook" /\ e.key = c /\ e.at = startedAt[c]
    \/ b >= startedAt[c] + StaleAge
CallInv ==
  /\ \A c \in Tools : tool[c] = "running" => startedAt[c] <= now
  /\ \A v \in events : tool[v[2]] = "ended"
  /\ ~stolen /\ ledgerFile = "ok" => CallsAccounted(entries, barrier)

(* Only what was begun is in the ledger, under the provider it has.        *)
Begun == {r \in Runs : spawner[r] # "none"}
Listed(es) == IsFiniteSet(es) /\ \A e \in es : e.prov = ProviderOf[e.key]
ListInv == IsFiniteSet(Begun) /\ Listed(entries)

Bounded ==
  /\ IsFiniteSet(Work)
  /\ ~stolen => /\ Cardinality(Work) <= GlobalLimit
                /\ \A p \in Providers : Cardinality(WorkOf(p)) <= ProviderLimit[p]

LimitInv == LedgerInv /\ CallInv /\ ListInv /\ Bounded

(* As many entries as works that have one.                                 *)
LEMMA Counted ==
  ASSUME NEW W, NEW E, IsFiniteSet(E), \A w \in W : \E e \in E : e.key = w
  PROVE  IsFiniteSet(W) /\ Cardinality(W) <= Cardinality(E)
<1> DEFINE f == [w \in W |-> CHOOSE e \in E : e.key = w]
<1>1. \A w \in W : f[w] \in E /\ f[w].key = w
  OBVIOUS
<1>2. f \in Injection(W, E)
  BY <1>1 DEF Injection, IsInjective
<1> QED
  BY <1>2, FS_Injection

(* Two finite sets, one inside the other with at most one more.            *)
LEMMA OneMore ==
  ASSUME NEW S, NEW T, NEW x, IsFiniteSet(S), T \subseteq S \cup {x}
  PROVE  /\ IsFiniteSet(T) /\ Cardinality(T) \in Nat /\ Cardinality(S) \in Nat
         /\ Cardinality(T) <= Cardinality(S) + 1
<1>1. /\ IsFiniteSet(S \cup {x}) /\ Cardinality(S) \in Nat
      /\ Cardinality(S \cup {x}) <= Cardinality(S) + 1
  <2>1. IsFiniteSet(S \cup {x}) /\ Cardinality(S) \in Nat
    BY FS_AddElement, FS_CardinalityType
  <2>2. Cardinality(S \cup {x}) = IF x \in S THEN Cardinality(S) ELSE Cardinality(S) + 1
    BY FS_AddElement
  <2> QED
    BY <2>1, <2>2
<1>2. /\ IsFiniteSet(T) /\ Cardinality(T) <= Cardinality(S \cup {x})
  BY <1>1, FS_Subset
<1>3. Cardinality(T) \in Nat /\ Cardinality(S \cup {x}) \in Nat
  BY <1>1, <1>2, FS_CardinalityType
<1> QED
  BY <1>1, <1>2, <1>3

LEMMA NoMore ==
  ASSUME NEW S, NEW T, IsFiniteSet(S), T \subseteq S
  PROVE  /\ IsFiniteSet(T) /\ Cardinality(T) \in Nat /\ Cardinality(S) \in Nat
         /\ Cardinality(T) <= Cardinality(S)
  BY FS_Subset, FS_CardinalityType

(* The entries a transaction sees are listed: those of the ledger that are *)
(* kept, and one for each durable run.                                     *)
LEMMA CurrentListed ==
  ASSUME LedgerInv, ListInv
  PROVE  Listed(Current.entries)
<1> USE DEF LedgerInv
<1>1. ASSUME NEW u
      PROVE  Listed(Durable(u))
  <2>1. \A e \in Durable(u) : e.key \in Begun /\ e = Team(e.key, u)
    BY DEF Durable, Team, Begun, LaunchTimely, Typed
  <2> DEFINE f == [e \in Durable(u) |-> e.key]
  <2>2. f \in Injection(Durable(u), Begun)
    BY <2>1 DEF Injection, IsInjective
  <2>3. IsFiniteSet(Durable(u))
    BY <2>2, FS_Injection DEF ListInv
  <2> QED
    BY <2>3 DEF Listed, Durable, Team
<1>2. Listed(Loaded.entries)
  BY <1>1 DEF Loaded, ListInv
<1> DEFINE kept == {e \in Loaded.entries : ~Reclaimable(e)}
<1>3. Listed(kept)
  BY <1>2, FS_Subset DEF Listed
<1>4. CASE ~(Loaded.barrier # 0 /\ now >= Loaded.barrier)
  <2>1. Current.entries = kept
    BY <1>4 DEF Current
  <2> QED
    BY <2>1, <1>3
<1>5. CASE Loaded.barrier # 0 /\ now >= Loaded.barrier
  <2> DEFINE d == Durable(Loaded.barrier)
             old == {e \in kept : e.until = 0 \/ \A x \in d : x.key # e.key}
  <2>1. Current.entries = old \cup d
    BY <1>5 DEF Current, Merge
  <2>2. IsFiniteSet(kept) /\ IsFiniteSet(d)
    BY <1>1, <1>3 DEF Listed
  <2>3. IsFiniteSet(old)
    BY <2>2, FS_Subset
  <2>4. IsFiniteSet(old \cup d)
    BY <2>2, <2>3, FS_Union
  <2>5. \A e \in old \cup d : e.prov = ProviderOf[e.key]
    BY <1>1, <1>3 DEF Listed
  <2> QED
    BY <2>1, <2>4, <2>5 DEF Listed
<1> QED
  BY <1>4, <1>5

(* Every step lists what it begins.                                        *)
LEMMA ListStep ==
  ASSUME LedgerInv, ListInv, [Next]_vars
  PROVE  ListInv'
<1> USE DEF ledgerVars, hookVars, teamVars, Spawning, GiveUp
<1>1. Listed(Current.entries)
  BY CurrentListed
<1>2. ASSUME NEW after \in SUBSET Current.entries, Write(after)
      PROVE  Listed(entries')
  BY <1>1, <1>2, FS_Subset DEF Listed, Write
<1>3. ASSUME UNCHANGED entries PROVE Listed(entries')
  BY <1>3 DEF ListInv
<1>4. ASSUME spawner' = spawner PROVE IsFiniteSet(Begun')
  BY <1>4 DEF ListInv, Begun
<1>5. ASSUME NEW r \in Runs, spawner[r] # "none",
             \E w : spawner' = [spawner EXCEPT ![r] = w]
      PROVE  IsFiniteSet(Begun')
  <2>1. Begun' \subseteq Begun
    BY <1>5 DEF Begun, LedgerInv, Typed
  <2> QED
    BY <2>1, FS_Subset DEF ListInv
<1>6. ASSUME NEW c \in Tools, AdmitTool(c) PROVE ListInv'
  <2>1. entries' = Current.entries \cup {Hook(c, now)} /\ spawner' = spawner
    BY <1>6 DEF AdmitTool, Write
  <2>2. Hook(c, now).prov = ProviderOf[Hook(c, now).key]
    BY DEF Hook
  <2>3. IsFiniteSet(entries')
    BY <1>1, <2>1, FS_AddElement DEF Listed
  <2> QED
    BY <1>1, <1>4, <2>1, <2>2, <2>3 DEF ListInv, Listed
<1>7. ASSUME NEW r \in Runs, Reserve(r) PROVE ListInv'
  <2>1. entries' = Current.entries \cup {Team(r, 0)}
    BY <1>7 DEF Reserve, Write
  <2>2. Team(r, 0).prov = ProviderOf[Team(r, 0).key]
    BY DEF Team
  <2>3. IsFiniteSet(entries')
    BY <1>1, <2>1, FS_AddElement DEF Listed
  <2>4. Begun' \subseteq Begun \cup {r}
    BY <1>7 DEF Reserve, Begun, LedgerInv, Typed
  <2>5. IsFiniteSet(Begun')
    BY <2>4, OneMore DEF ListInv
  <2> QED
    BY <1>1, <2>1, <2>2, <2>3, <2>5 DEF ListInv, Listed
<1>8. CASE ReadCounts
  BY <1>2, <1>4, <1>8 DEF ReadCounts, ListInv
<1>9. ASSUME NEW c \in Tools, PostToolUse(c) PROVE ListInv'
  BY <1>2, <1>4, <1>9 DEF PostToolUse, ListInv
<1>10. ASSUME NEW c \in Tools, SubagentStop(c) PROVE ListInv'
  <2>1. PICK after \in SUBSET Current.entries : Write(after)
    BY <1>10 DEF SubagentStop
  <2> QED
    BY <1>2, <1>4, <1>10, <2>1 DEF SubagentStop, ListInv
<1>11. ASSUME NEW r \in Runs,
              \/ LaunchFails(r) \/ ReleaseBatch(r) \/ LaunchRefused(r)
              \/ SaveTeam(r) \/ SpawnerDies(r)
       PROVE  ListInv'
  <2>1. IsFiniteSet(Begun')
    BY <1>5, <1>11 DEF LaunchFails, ReleaseBatch, LaunchRefused, SaveTeam, SpawnerDies
  <2>2. \/ UNCHANGED entries
        \/ Write({e \in Current.entries : e.kind # "team" \/ e.key # r})
    BY <1>11 DEF LaunchFails, ReleaseBatch, LaunchRefused, SaveTeam, SpawnerDies
  <2> QED
    BY <1>2, <1>3, <2>1, <2>2 DEF ListInv
<1>12. ASSUME NEW r \in Runs, MonitorReleases(r) \/ ShutdownReleases(r)
       PROVE  ListInv'
  BY <1>2, <1>4, <1>12 DEF MonitorReleases, ShutdownReleases, ListInv
<1>13. CASE CorruptLedger
  BY <1>4, <1>13, FS_EmptySet DEF CorruptLedger, ListInv, Listed
<1>14. CASE UNCHANGED <<entries, spawner>>
  BY <1>3, <1>4, <1>14 DEF ListInv
<1> QED
  BY <1>6, <1>7, <1>8, <1>9, <1>10, <1>11, <1>12, <1>13, <1>14 DEF Next, vars,
     EndTool, LoseEvent, Tick, LaunchWorker, StopStarted, WorkerEnds, MonitorSaves,
     ShutdownKills


(* What a transaction sees accounts for the young calls: their entries are *)
(* not yet stale, and a barrier that outlasts them is not over.            *)
LEMMA CurrentCalls ==
  ASSUME LedgerInv, CallInv, ~stolen
  PROVE  CallsAccounted(Current.entries, Current.barrier)
<1> SUFFICES ASSUME NEW c \in Tools, Young(c)
             PROVE  \/ \E e \in Current.entries :
                         e.kind = "hook" /\ e.key = c /\ e.at = startedAt[c]
                    \/ Current.barrier >= startedAt[c] + StaleAge
  BY DEF CallsAccounted
<1>1. /\ now \in Nat /\ startedAt[c] \in Nat /\ StaleAge \in Nat /\ barrier \in Nat
      /\ startedAt[c] <= now /\ now < startedAt[c] + StaleAge
  BY TimeAssumption DEF LedgerInv, Typed, CallInv, Young
<1>2. CASE ledgerFile = "corrupt"
  <2>1. Loaded.barrier = now + StaleAge /\ ~(now >= now + StaleAge)
    BY <1>1, <1>2 DEF Loaded
  <2>2. Current.barrier = now + StaleAge
    BY <2>1 DEF Current
  <2> QED
    BY <1>1, <2>2
<1>3. CASE ledgerFile # "corrupt"
  <2>1. Loaded.entries = entries /\ Loaded.barrier = barrier
    BY <1>3 DEF Loaded
  <2>2. \/ \E e \in entries : e.kind = "hook" /\ e.key = c /\ e.at = startedAt[c]
        \/ barrier >= startedAt[c] + StaleAge
    BY <1>3 DEF CallInv, CallsAccounted, LedgerInv, Typed
  <2>3. ASSUME NEW e \in entries, e.kind = "hook", e.key = c, e.at = startedAt[c]
        PROVE  e \in Current.entries
    <3>1. ~Reclaimable(e)
      BY <1>1, <2>3 DEF Reclaimable
    <3>2. e.until = 0
      BY <2>3 DEF LedgerInv, Typed, HookEntry, TeamEntry
    <3> QED
      BY <2>1, <2>3, <3>1, <3>2 DEF Current, Merge
  <2>4. ASSUME barrier >= startedAt[c] + StaleAge
        PROVE  Current.barrier = barrier
    <3>1. ~(now >= barrier)
      BY <1>1, <2>4
    <3> QED
      BY <2>1, <3>1 DEF Current
  <2> QED
    BY <2>2, <2>3, <2>4
<1> QED
  BY <1>2, <1>3

(* With no barrier, everything that counts as work has an entry.           *)
LEMMA AllEntered ==
  ASSUME LedgerInv, CallInv, ~stolen, Current.barrier = 0
  PROVE  \A w \in Work : \E e \in Current.entries : e.key = w
<1>1. ASSUME NEW r \in Runs, Live(r)
      PROVE  \E e \in Current.entries : e.key = r
  <2>1. Accounted(r, Current.entries, 0)
    BY CurrentAccounts
  <2>2. ~(0 >= reservedAt[r] + StaleAge)
    BY TimeAssumption DEF LedgerInv, Typed
  <2> QED
    BY <1>1, <2>1, <2>2 DEF Live, Accounted, ChargedIn
<1>2. ASSUME NEW c \in Tools, Young(c)
      PROVE  \E e \in Current.entries : e.key = c
  <2>1. CallsAccounted(Current.entries, 0)
    BY CurrentCalls
  <2>2. ~(0 >= startedAt[c] + StaleAge)
    BY TimeAssumption DEF LedgerInv, Typed
  <2> QED
    BY <1>2, <2>1, <2>2 DEF CallsAccounted
<1> QED
  BY <1>1, <1>2 DEF Work

(* A transaction that leaves the entries of the young calls accounts for   *)
(* them; so does a step that leaves the ledger alone.                      *)
NoYounger == \A c \in Tools : Young(c)' => Young(c) /\ startedAt'[c] = startedAt[c]

LEMMA CallsKept ==
  ASSUME NEW es, NEW b, CallsAccounted(es, b), NoYounger, barrier' = b,
         \A e \in es : e.kind = "hook" /\ e.key \in Tools /\ Young(e.key)
                       => e \in entries'
  PROVE  CallsAccounted(entries, barrier)'
<1> SUFFICES ASSUME NEW c \in Tools, Young(c)'
             PROVE  \/ \E e \in entries' : e.kind = "hook" /\ e.key = c
                                           /\ e.at = startedAt'[c]
                    \/ barrier' >= startedAt'[c] + StaleAge
  BY DEF CallsAccounted
<1>1. Young(c) /\ startedAt'[c] = startedAt[c]
  BY DEF NoYounger
<1>2. \/ \E e \in es : e.kind = "hook" /\ e.key = c /\ e.at = startedAt[c]
      \/ b >= startedAt[c] + StaleAge
  BY <1>1 DEF CallsAccounted
<1> QED
  BY <1>1, <1>2

(* Every step keeps the calls accounted for.                               *)
LEMMA CallStep ==
  ASSUME LedgerInv, CallInv, [Next]_vars
  PROVE  CallInv'
<1> USE DEF ledgerVars, hookVars, teamVars, Spawning, GiveUp
<1>1. /\ now \in Nat /\ StaleAge \in Nat /\ stolen \in BOOLEAN
      /\ tool \in [Tools -> {"idle", "running", "ended"}]
      /\ startedAt \in [Tools -> Nat]
  BY TimeAssumption DEF LedgerInv, Typed
<1> DEFINE Kept == ~stolen' /\ ledgerFile' = "ok" => CallsAccounted(entries, barrier)'
<1>2. ASSUME ~stolen PROVE CallsAccounted(Current.entries, Current.barrier)
  BY <1>2, CurrentCalls
<1>3. ASSUME UNCHANGED <<now, tool, startedAt>> PROVE NoYounger
  BY <1>3 DEF NoYounger, Young
<1>4. ASSUME NEW after, Write(after), NoYounger, ~stolen' => ~stolen,
             ~stolen' => \A e \in Current.entries :
               e.kind = "hook" /\ e.key \in Tools /\ Young(e.key) => e \in after
      PROVE  Kept
  BY <1>2, <1>4, CallsKept DEF Write
<1>5. ASSUME UNCHANGED ledgerVars, NoYounger, stolen' = stolen PROVE Kept
  BY <1>5, CallsKept DEF CallInv
<1>6. ASSUME UNCHANGED <<now, tool, startedAt, events>>, Kept PROVE CallInv'
  BY <1>6 DEF CallInv
<1>7. ASSUME NEW c \in Tools, AdmitTool(c) PROVE CallInv'
  <2>1. /\ \A d \in Tools \ {c} : tool'[d] = tool[d] /\ startedAt'[d] = startedAt[d]
        /\ tool[c] = "idle" /\ startedAt'[c] = now /\ now' = now
        /\ events' = events /\ stolen' = stolen
    BY <1>1, <1>7 DEF AdmitTool
  <2>2. \A d \in Tools : tool'[d] = "running" => startedAt'[d] <= now'
    BY <1>1, <2>1 DEF CallInv
  <2>3. \A v \in events : v[2] \in Tools /\ v[2] # c
    BY <2>1 DEF CallInv, LedgerInv, Typed
  <2>4. \A v \in events' : tool'[v[2]] = "ended"
    BY <2>1, <2>3 DEF CallInv
  <2>5. ASSUME ~stolen, NEW d \in Tools, Young(d)'
        PROVE  \/ \E e \in entries' : e.kind = "hook" /\ e.key = d
                                      /\ e.at = startedAt'[d]
               \/ barrier' >= startedAt'[d] + StaleAge
    <3>1. entries' = Current.entries \cup {Hook(c, now)} /\ barrier' = Current.barrier
      BY <1>7 DEF AdmitTool, Write
    <3>2. CASE d = c
      <4>1. Hook(c, now).kind = "hook" /\ Hook(c, now).key = c /\ Hook(c, now).at = now
        BY DEF Hook
      <4> QED
        BY <2>1, <3>1, <3>2, <4>1
    <3>3. CASE d # c
      <4>1. Young(d) /\ startedAt'[d] = startedAt[d]
        BY <2>1, <2>5, <3>3 DEF Young
      <4>2. \/ \E e \in Current.entries : e.kind = "hook" /\ e.key = d /\ e.at = startedAt[d]
            \/ Current.barrier >= startedAt[d] + StaleAge
        BY <1>2, <2>5, <4>1 DEF CallsAccounted
      <4> QED
        BY <3>1, <4>1, <4>2
    <3> QED
      BY <3>2, <3>3
  <2>6. Kept
    BY <2>1, <2>5 DEF CallsAccounted
  <2> QED
    BY <2>2, <2>4, <2>6 DEF CallInv
<1>8. CASE ReadCounts
  BY <1>3, <1>4, <1>6, <1>8 DEF ReadCounts
<1>9. ASSUME NEW c \in Tools, EndTool(c) PROVE CallInv'
  <2>1. /\ \A d \in Tools \ {c} : tool'[d] = tool[d] /\ startedAt'[d] = startedAt[d]
        /\ tool'[c] = "ended" /\ now' = now /\ UNCHANGED ledgerVars /\ stolen' = stolen
    BY <1>1, <1>9 DEF EndTool
  <2>2. NoYounger
    BY <2>1 DEF NoYounger, Young
  <2>3. Kept
    BY <1>5, <2>1, <2>2
  <2>4. \A v \in events' : v \in events \/ v[2] = c
    BY <1>9 DEF EndTool
  <2>5. \A v \in events : v[2] \in Tools
    BY DEF LedgerInv, Typed
  <2>6. \A v \in events' : tool'[v[2]] = "ended"
    BY <2>1, <2>4, <2>5 DEF CallInv
  <2> QED
    BY <2>1, <2>3, <2>6 DEF CallInv
<1>10. ASSUME NEW c \in Tools, PostToolUse(c) PROVE CallInv'
  <2>1. tool[c] = "ended"
    <3>1. <<"PostToolUse", c>> \in events /\ <<"PostToolUse", c>>[2] = c
      BY <1>10 DEF PostToolUse
    <3> QED
      BY <3>1 DEF CallInv
  <2>2. Kept
    BY <1>3, <1>4, <1>10, <2>1 DEF PostToolUse, Young
  <2> QED
    BY <1>10, <2>2 DEF PostToolUse, CallInv
<1>11. ASSUME NEW c \in Tools, SubagentStop(c) PROVE CallInv'
  <2>1. ~stolen' => ~stolen
    BY <1>1, <1>11 DEF SubagentStop
  <2>2. PICK after \in SUBSET Current.entries :
          /\ Write(after)
          /\ ~stolen' => \A e \in Current.entries \ after : tool[e.key] # "running"
    <3>1. CASE Write(Current.entries)
      BY <3>1
    <3>2. CASE \E e \in Current.entries :
                 Write(Current.entries \ {e}) /\ stolen' = (stolen \/ tool[e.key] = "running")
      <4>1. PICK e \in Current.entries :
              Write(Current.entries \ {e}) /\ stolen' = (stolen \/ tool[e.key] = "running")
        BY <3>2
      <4>2. \A x \in Current.entries \ (Current.entries \ {e}) : x = e
        OBVIOUS
      <4>3. ~stolen' => tool[e.key] # "running"
        BY <1>1, <4>1
      <4> QED
        BY <4>1, <4>2, <4>3
    <3>3. \/ Write(Current.entries)
          \/ \E e \in Current.entries :
               Write(Current.entries \ {e}) /\ stolen' = (stolen \/ tool[e.key] = "running")
      BY <1>11 DEF SubagentStop, Of, Oldest
    <3> QED
      BY <3>1, <3>2, <3>3
  <2>3. ~stolen' => \A e \in Current.entries :
          e.kind = "hook" /\ e.key \in Tools /\ Young(e.key) => e \in after
    BY <2>2 DEF Young
  <2>4. NoYounger
    BY <1>3, <1>11 DEF SubagentStop
  <2>5. Kept
    BY <1>4, <2>1, <2>2, <2>3, <2>4
  <2> QED
    BY <1>11, <2>5 DEF SubagentStop, CallInv
<1>12. ASSUME NEW r \in Runs,
              \/ Reserve(r) \/ LaunchWorker(r) \/ LaunchFails(r) \/ StopStarted(r)
             \/ ReleaseBatch(r) \/ LaunchRefused(r)
              \/ SaveTeam(r) \/ SpawnerDies(r) \/ WorkerEnds(r) \/ MonitorReleases(r)
              \/ MonitorSaves(r) \/ ShutdownKills(r) \/ ShutdownReleases(r)
       PROVE  CallInv'
  <2>1. UNCHANGED <<now, tool, startedAt, events>> /\ stolen' = stolen
    BY <1>12 DEF Reserve, LaunchWorker, LaunchFails, StopStarted, ReleaseBatch,
       LaunchRefused, SaveTeam, SpawnerDies, WorkerEnds, MonitorReleases,
       MonitorSaves, ShutdownKills, ShutdownReleases
  <2>2. \/ UNCHANGED ledgerVars
        \/ Write({e \in Current.entries : e.kind # "team" \/ e.key # r})
        \/ Write(Current.entries \cup {Team(r, 0)})
    BY <1>12 DEF Reserve, LaunchWorker, LaunchFails, StopStarted, ReleaseBatch,
       LaunchRefused, SaveTeam, SpawnerDies, WorkerEnds, MonitorReleases,
       MonitorSaves, ShutdownKills, ShutdownReleases
  <2>3. NoYounger
    BY <1>3, <2>1
  <2>4. CASE UNCHANGED ledgerVars
    BY <1>5, <1>6, <2>1, <2>3, <2>4
  <2>5. CASE Write({e \in Current.entries : e.kind # "team" \/ e.key # r})
    BY <1>4, <1>6, <2>1, <2>3, <2>5
  <2>6. CASE Write(Current.entries \cup {Team(r, 0)})
    BY <1>4, <1>6, <2>1, <2>3, <2>6
  <2> QED
    BY <2>2, <2>4, <2>5, <2>6
<1>13. CASE LoseEvent
  BY <1>3, <1>5, <1>13 DEF LoseEvent, CallInv
<1>14. CASE CorruptLedger
  BY <1>6, <1>14 DEF CorruptLedger
<1>15. CASE Tick
  <2>1. now' = now + 1 /\ UNCHANGED <<ledgerVars, hookVars>>
    BY <1>15 DEF Tick
  <2>2. NoYounger
    BY <1>1, <2>1 DEF NoYounger, Young
  <2>3. \A d \in Tools : tool'[d] = "running" => startedAt'[d] <= now'
    BY <1>1, <2>1 DEF CallInv
  <2> QED
    BY <1>5, <2>1, <2>2, <2>3 DEF CallInv
<1>16. CASE UNCHANGED vars
  BY <1>3, <1>5, <1>6, <1>16 DEF vars
<1> QED
  BY <1>7, <1>8, <1>9, <1>10, <1>11, <1>12, <1>13, <1>14, <1>15, <1>16 DEF Next

(* A step that adds no work keeps the limits.                              *)
LEMMA LessWork ==
  ASSUME Bounded, Work' \subseteq Work, ~stolen' => ~stolen
  PROVE  Bounded'
<1>1. IsFiniteSet(Work)
  BY DEF Bounded
<1>2. /\ IsFiniteSet(Work') /\ Cardinality(Work') \in Nat /\ Cardinality(Work) \in Nat
      /\ Cardinality(Work') <= Cardinality(Work)
  BY <1>1, NoMore
<1>3. ASSUME NEW p \in Providers
      PROVE  /\ Cardinality(WorkOf(p)') \in Nat /\ Cardinality(WorkOf(p)) \in Nat
             /\ Cardinality(WorkOf(p)') <= Cardinality(WorkOf(p))
  <2>1. WorkOf(p)' \subseteq WorkOf(p)
    BY DEF WorkOf
  <2>2. IsFiniteSet(WorkOf(p))
    BY <1>1, FS_Subset DEF WorkOf
  <2> QED
    BY <2>1, <2>2, NoMore
<1> QED
  BY <1>2, <1>3, LimitAssumption DEF Bounded

(* An admission adds one work, for which there was room next to an entry   *)
(* for every other.                                                        *)
LEMMA OneAdmitted ==
  ASSUME LimitInv, NEW x \in Tools \cup Runs, Current.barrier = 0,
         Fits(Current.entries, ProviderOf[x]),
         Work' \subseteq Work \cup {x}, stolen' = stolen
  PROVE  Bounded'
<1> USE DEF LimitInv
<1> DEFINE es == Current.entries
<1>1. IsFiniteSet(Work) /\ Listed(es)
  BY CurrentListed DEF Bounded
<1>2. /\ IsFiniteSet(Work') /\ Cardinality(Work') \in Nat /\ Cardinality(Work) \in Nat
      /\ Cardinality(Work') <= Cardinality(Work) + 1
  BY <1>1, OneMore
<1>3. ASSUME ~stolen PROVE Cardinality(Work') <= GlobalLimit
  <2>1. \A w \in Work : \E e \in es : e.key = w
    BY <1>3, AllEntered
  <2>2. Cardinality(Work) <= Cardinality(es)
    BY <1>1, <2>1, Counted DEF Listed
  <2>3. Cardinality(es) \in Nat
    BY <1>1, FS_CardinalityType DEF Listed
  <2> QED
    BY <1>2, <2>2, <2>3, LimitAssumption DEF Fits
<1>4. ASSUME ~stolen, NEW p \in Providers
      PROVE  Cardinality(WorkOf(p)') <= ProviderLimit[p]
  <2>1. IsFiniteSet(WorkOf(p))
    BY <1>1, FS_Subset DEF WorkOf
  <2>2. CASE p = ProviderOf[x]
    <3> DEFINE same == Of(es, p)
    <3>1. \A w \in WorkOf(p) : \E e \in same : e.key = w
      <4>1. \A w \in Work : \E e \in es : e.key = w
        BY <1>4, AllEntered
      <4> QED
        BY <1>1, <4>1 DEF WorkOf, Of, Listed
    <3>2. IsFiniteSet(same)
      BY <1>1, FS_Subset DEF Of, Listed
    <3>3. Cardinality(WorkOf(p)) <= Cardinality(same)
      BY <3>1, <3>2, Counted
    <3>4. WorkOf(p)' \subseteq WorkOf(p) \cup {x}
      BY DEF WorkOf
    <3>5. /\ Cardinality(WorkOf(p)') \in Nat /\ Cardinality(WorkOf(p)) \in Nat
          /\ Cardinality(WorkOf(p)') <= Cardinality(WorkOf(p)) + 1
      BY <2>1, <3>4, OneMore
    <3>6. Cardinality(same) \in Nat /\ Cardinality(same) + 1 <= ProviderLimit[p]
      BY <2>2, <3>2, FS_CardinalityType DEF Fits
    <3> QED
      BY <3>3, <3>5, <3>6, LimitAssumption
  <2>3. CASE p # ProviderOf[x]
    <3>1. WorkOf(p)' \subseteq WorkOf(p)
      BY <2>3 DEF WorkOf
    <3>2. /\ Cardinality(WorkOf(p)') \in Nat /\ Cardinality(WorkOf(p)) \in Nat
          /\ Cardinality(WorkOf(p)') <= Cardinality(WorkOf(p))
      BY <2>1, <3>1, NoMore
    <3>3. Cardinality(WorkOf(p)) <= ProviderLimit[p]
      BY <1>4 DEF Bounded
    <3> QED
      BY <3>2, <3>3, LimitAssumption
  <2> QED
    BY <2>2, <2>3
<1> QED
  BY <1>2, <1>3, <1>4 DEF Bounded

(* Every step keeps the limits: only an admission adds work.               *)
LEMMA BoundedStep ==
  ASSUME LimitInv, [Next]_vars
  PROVE  Bounded'
<1> USE DEF ledgerVars, hookVars, teamVars, Spawning, GiveUp
<1>1. /\ Bounded /\ now \in Nat /\ StaleAge \in Nat /\ stolen \in BOOLEAN
      /\ tool \in [Tools -> {"idle", "running", "ended"}]
      /\ startedAt \in [Tools -> Nat]
      /\ spawner \in [Runs -> {"none", "launching", "stopping", "failed", "done", "dead"}]
      /\ proc \in [Runs -> {"none", "live", "ended", "killed"}]
      /\ teamFile \in [Runs -> {"missing", "active", "terminal"}]
  BY TimeAssumption DEF LimitInv, LedgerInv, Typed
<1> DEFINE NoLivelier == \A r \in Runs : Live(r)' => Live(r)
<1>2. ASSUME NoLivelier, NoYounger PROVE Work' \subseteq Work
  BY <1>2 DEF Work, NoYounger
<1>3. ASSUME UNCHANGED <<spawner, proc, teamFile, abandoned>> PROVE NoLivelier
  BY <1>3 DEF Live
<1>4. ASSUME UNCHANGED <<now, tool, startedAt>> PROVE NoYounger
  BY <1>4 DEF NoYounger, Young
<1>5. ASSUME NEW c \in Tools, AdmitTool(c) PROVE Bounded'
  <2>1. NoLivelier
    BY <1>3, <1>5 DEF AdmitTool
  <2>2. \A d \in Tools \ {c} : Young(d)' => Young(d)
    BY <1>1, <1>5 DEF AdmitTool, Young
  <2>3. Work' \subseteq Work \cup {c}
    BY <2>1, <2>2 DEF Work
  <2> QED
    BY <1>5, <2>3, OneAdmitted DEF AdmitTool
<1>6. ASSUME NEW r \in Runs, Reserve(r) PROVE Bounded'
  <2>1. NoYounger
    BY <1>4, <1>6 DEF Reserve
  <2>2. \A q \in Runs \ {r} : Live(q)' => Live(q)
    BY <1>1, <1>6 DEF Reserve, Live
  <2>3. Work' \subseteq Work \cup {r}
    BY <2>1, <2>2 DEF Work, NoYounger
  <2> QED
    BY <1>6, <2>3, OneAdmitted DEF Reserve
<1>7. ASSUME NEW c \in Tools, EndTool(c) PROVE Bounded'
  <2>1. NoYounger
    BY <1>1, <1>7 DEF EndTool, NoYounger, Young
  <2> QED
    BY <1>1, <1>2, <1>3, <1>7, <2>1, LessWork DEF EndTool
<1>8. ASSUME NEW c \in Tools, PostToolUse(c) \/ SubagentStop(c) PROVE Bounded'
  <2>1. /\ UNCHANGED <<now, tool, startedAt, teamVars, abandoned>>
        /\ ~stolen' => ~stolen
    BY <1>1, <1>8 DEF PostToolUse, SubagentStop
  <2> QED
    BY <1>1, <1>2, <1>3, <1>4, <2>1, LessWork
<1>9. ASSUME NEW r \in Runs,
             \/ LaunchWorker(r) \/ LaunchFails(r) \/ StopStarted(r)
             \/ ReleaseBatch(r) \/ LaunchRefused(r) \/ SaveTeam(r)
             \/ SpawnerDies(r) \/ WorkerEnds(r) \/ MonitorReleases(r)
             \/ MonitorSaves(r) \/ ShutdownKills(r) \/ ShutdownReleases(r)
      PROVE  Bounded'
  <2>1. UNCHANGED <<now, tool, startedAt>> /\ stolen' = stolen
    BY <1>9 DEF LaunchWorker, LaunchFails, StopStarted, ReleaseBatch, LaunchRefused,
       SaveTeam, SpawnerDies, WorkerEnds, MonitorReleases, MonitorSaves,
       ShutdownKills, ShutdownReleases
  <2>2. ASSUME NEW q \in Runs, q # r PROVE Live(q)' => Live(q)
    <3>1. /\ spawner'[q] = spawner[q] /\ proc'[q] = proc[q] /\ teamFile'[q] = teamFile[q]
          /\ q \in abandoned' <=> q \in abandoned
      BY <1>1, <1>9, <2>2 DEF LaunchWorker, LaunchFails, StopStarted, ReleaseBatch,
         LaunchRefused, SaveTeam, SpawnerDies, WorkerEnds, MonitorReleases,
         MonitorSaves, ShutdownKills, ShutdownReleases
    <3> QED
      BY <3>1 DEF Live
  <2>3. CASE LaunchWorker(r) \/ LaunchFails(r) \/ StopStarted(r)
             \/ ReleaseBatch(r) \/ LaunchRefused(r)
    <3>1. teamFile[r] = "missing"
      BY <2>3 DEF LaunchWorker, LaunchFails, StopStarted, ReleaseBatch,
         LaunchRefused, LimitInv, LedgerInv, LaunchTimely
    <3>2. Live(r)' => Live(r)
      BY <1>1, <2>3, <3>1 DEF LaunchWorker, LaunchFails, StopStarted, ReleaseBatch,
         LaunchRefused, Live
    <3> QED
      BY <1>1, <1>2, <1>4, <2>1, <2>2, <3>2, LessWork
  <2>4. CASE SaveTeam(r) \/ SpawnerDies(r) \/ WorkerEnds(r) \/ MonitorReleases(r)
    <3>1. Live(r)' => Live(r)
      BY <1>1, <2>4 DEF SaveTeam, SpawnerDies, WorkerEnds, MonitorReleases, Live
    <3> QED
      BY <1>1, <1>2, <1>4, <2>1, <2>2, <3>1, LessWork
  <2>5. CASE MonitorSaves(r) \/ ShutdownKills(r) \/ ShutdownReleases(r)
    <3>1. Live(r)' => Live(r)
      BY <1>1, <2>5 DEF MonitorSaves, ShutdownKills, ShutdownReleases, Live
    <3> QED
      BY <1>1, <1>2, <1>4, <2>1, <2>2, <3>1, LessWork
  <2> QED
    BY <1>9, <2>3, <2>4, <2>5
<1>10. CASE Tick
  <2>1. NoYounger
    BY <1>1, <1>10 DEF Tick, NoYounger, Young
  <2> QED
    BY <1>1, <1>2, <1>3, <1>10, <2>1, LessWork DEF Tick
<1>11. CASE UNCHANGED <<now, tool, startedAt, stolen, teamVars, abandoned>>
  BY <1>1, <1>2, <1>3, <1>4, <1>11, LessWork
<1> QED
  BY <1>5, <1>6, <1>7, <1>8, <1>9, <1>10, <1>11
     DEF Next, vars, ReadCounts, LoseEvent, CorruptLedger

LEMMA LimitInvHolds == Spec => []LimitInv
<1>1. ASSUME Init PROVE LimitInv
  <2>1. LedgerInv
    BY <1>1, InitLedgerInv
  <2>2. CallInv
    BY <1>1 DEF Init, CallInv, CallsAccounted, Young
  <2>3. Begun = {} /\ Work = {} /\ entries = {}
    BY <1>1 DEF Init, Begun, Work, Live, Young, Spawning
  <2>4. ListInv
    BY <2>3, FS_EmptySet DEF ListInv, Listed
  <2>5. Bounded
    <3>1. \A p \in Providers : WorkOf(p) = {}
      BY <2>3 DEF WorkOf
    <3> QED
      BY <2>3, <3>1, FS_EmptySet, LimitAssumption DEF Bounded
  <2> QED
    BY <2>1, <2>2, <2>4, <2>5 DEF LimitInv
<1>2. ASSUME LimitInv, [Next]_vars PROVE LimitInv'
  BY <1>2, LedgerTypeStep, LaunchTimelyStep, AccountStep, CallStep, ListStep, BoundedStep
     DEF LimitInv, LedgerInv
<1> QED
  BY <1>1, <1>2, PTL DEF Spec

(* The limits hold of the work itself: live workers and young calls never  *)
(* exceed them, whatever is damaged, lost, killed or late, until an event  *)
(* of another call releases the slot of one that runs.  A worker that a    *)
(* poll gave up while it lived is not counted, nor one whose orchestrator  *)
(* died before it wrote the team file.                                     *)
THEOREM AdmissionWithinLimits == Spec => []WorkWithinLimitsUnlessStolen
<1>1. ASSUME LimitInv PROVE WorkWithinLimitsUnlessStolen
  <2>1. Running \subseteq Work
    <3>1. \A c \in Tools : now - startedAt[c] < StaleAge => now < startedAt[c] + StaleAge
      BY <1>1, TimeAssumption DEF LimitInv, LedgerInv, Typed
    <3> QED
      BY <1>1, <3>1 DEF Running, Work, Live, Young, LimitInv, LedgerInv, LaunchTimely, Typed
  <2>2. IsFiniteSet(Work)
    BY <1>1 DEF LimitInv, Bounded
  <2>3. Cardinality(Running) \in Nat /\ Cardinality(Work) \in Nat
        /\ Cardinality(Running) <= Cardinality(Work)
    BY <2>1, <2>2, NoMore
  <2>4. ASSUME NEW p \in Providers
        PROVE  LET R == {w \in Running : ProviderOf[w] = p}
               IN  /\ Cardinality(R) \in Nat /\ Cardinality(WorkOf(p)) \in Nat
                   /\ Cardinality(R) <= Cardinality(WorkOf(p))
    <3> DEFINE R == {w \in Running : ProviderOf[w] = p}
    <3>1. R \subseteq WorkOf(p)
      BY <2>1 DEF WorkOf
    <3>2. IsFiniteSet(WorkOf(p))
      BY <2>2, FS_Subset DEF WorkOf
    <3> QED
      BY <3>1, <3>2, NoMore
  <2> QED
    BY <1>1, <2>3, <2>4, LimitAssumption
       DEF LimitInv, Bounded, WorkWithinLimitsUnlessStolen, WorkWithinLimits
<1> QED
  BY <1>1, LimitInvHolds, PTL
=============================================================================
