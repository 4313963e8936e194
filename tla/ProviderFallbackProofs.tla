----------------------- MODULE ProviderFallbackProofs -----------------------
(***************************************************************************)
(* Proofs about ProviderFallback, for any number of sessions, any scenes   *)
(* (errors, deaths, timeouts, false alarms) and any depth of a poll: one   *)
(* session at a time is inside the lock of a handoff, one agent at a time  *)
(* works for the failed worker, and none starts after the answer.          *)
(*                                                                         *)
(* The induction rests on what the callers hold of the files.  Locked: who *)
(* is inside owns the lock, and who is about to unlink it owns the last    *)
(* claim to the owner that died.  Recorded: what the holder of the lock    *)
(* and the native task know of the record is still there.  Chained and     *)
(* Pursued: the attempts are a chain, each the plan for the failure of the *)
(* one before it; whoever dispatches stands on a failed link of it.        *)
(***************************************************************************)
EXTENDS ProviderFallback, SequenceTheorems, FiniteSetTheorems, TLAPS

(* What a scene is; the module leaves its values to the instance.          *)
ScenesAssumption ==
  Scenes \subseteq [prov : Providers, polls : SUBSET Callers,
                    failures : SUBSET {"network", "limit", "other"}, mishaps : Nat]

Attempts == [prov : Providers \cup {"none", "native"}, unavail : Nat, crash : Nat]
Owners   == [who : Callers, life : Nat]
Ends     == {"completed", "blank", "unlaunched", "network", "limit", "other", "cancelled"}
Verdicts == Ends \cup {"running", "crash"}

Within   == {"inside", "save", "record", "done", "threw", "follow", "begin"}
Claiming == {"claim", "recheck", "unlink"}
Pcs      == Within \cup Claiming \cup {"idle", "reassign", "dispatch", "lock",
                                       "create", "exceeded", "poll", "task"}
Aims  == {"none", "dispatch", "persist", "complete"}
Seats == [pc : Pcs, aim : Aims, at : Seq(Attempts), cause : Verdicts \cup {"none"},
          next : Attempts, depth : Nat, gen : Owners \cup {Nobody}]

Worktree ==
  /\ scene \in Scenes
  /\ DOMAIN snap \subseteq Seq(Attempts)
  /\ snap \in [DOMAIN snap -> Ends \cup {"running"}]
  /\ Root \in DOMAIN snap
  /\ alive \subseteq DOMAIN snap /\ file \subseteq DOMAIN snap \ {Root}
  /\ strays \in Nat
Answer ==
  /\ record \in [status : {"none", "pending", "completed"}, token : Seq(Attempts)]
  /\ output \in Seq(Attempts) /\ handoffs \in Nat
Lives ==
  /\ lock \in Owners \cup {Nobody}
  /\ DOMAIN claims \subseteq Owners /\ claims \in [DOMAIN claims -> Seq(Owners)]
  /\ session \in [Callers -> Nat \ {0}] /\ alarmed \in BOOLEAN /\ mishaps \in Nat
Seated == caller \in [Callers -> Seats]

(* Every variable has its type.                                            *)
TypeOK == Worktree /\ Answer /\ Lives /\ Seated

----------------------------------------------------------------------------
(* The inductive invariant                                                 *)

Dispatch(p) == caller[p].pc = "dispatch" \/ caller[p].aim = "dispatch"
Native(p) == caller[p].pc \in {"begin", "task"} \/ caller[p].aim = "complete"

(* Only a worker that runs is alive; a name in the chain but the first is  *)
(* that of a team, and a caller stands on a name of the chain.             *)
Placed ==
  /\ \A n \in alive : snap[n] = "running"
  /\ \A n \in DOMAIN snap : n # <<>> /\ (n = Root \/ Last(n) # Handoff)
  /\ \A p \in Callers :
       /\ Dispatch(p) \/ caller[p].pc \in {"reassign", "follow", "poll"} =>
            At(p) \in DOMAIN snap
       /\ caller[p].pc = "save" =>
            /\ caller[p].aim = "dispatch" /\ caller[p].next # Handoff
            /\ Child(p) \in DOMAIN snap

(* A dead owner stays dead: no session has had a later life than its own.  *)
Dead(o) == o \in Owners \ {Nobody} /\ o.life < session[o.who]

Locked ==
  /\ lock # Nobody => lock.life <= session[lock.who]
  /\ \A p \in Callers :
       /\ caller[p].pc \in Within => lock = Me(p)
       /\ caller[p].pc \in Claiming => Dead(caller[p].gen)
       /\ caller[p].pc \in {"recheck", "unlink"} =>
            /\ lock = caller[p].gen /\ Chain(lock) # <<>>
            /\ Chain(lock)[Len(Chain(lock))] = Me(p)

Recorded ==
  \A p \in Callers :
    /\ caller[p].pc = "record" => record.status # "completed" /\ output = At(p)
    /\ caller[p].pc = "begin" => record = [status |-> "pending", token |-> At(p)]
    /\ caller[p].pc = "save" => ~Completed
    /\ Native(p) => /\ record.status # "none" /\ handoffs > 0
                    /\ \A q \in Callers : Native(q) => p = q

(* A link of the chain that failed, what replaces it, and that it is still *)
(* in place: a team file goes when the answer is there.                    *)
Bad(n)    == n \in DOMAIN snap /\ n \notin alive /\ Failed(Seen(n))
NextOf(n) == Plan(Last(n), Seen(n))
Kept(n)   == n = Root \/ n \in file \/ Completed

Top(t) ==
  /\ alive \subseteq {t}
  /\ \A n \in DOMAIN snap \ {t} :
       Bad(n) /\ Kept(n) /\ Append(n, NextOf(n)) \in DOMAIN snap
  /\ \A p \in Callers : caller[p].pc = "save" => Child(p) = t
  /\ handoffs > 0 => Bad(t) /\ Kept(t) /\ NextOf(t) = Handoff
Chained == \E t \in DOMAIN snap : Top(t)

Pursued ==
  /\ (DOMAIN snap # {Root}
      \/ \E p \in Callers : caller[p].pc \notin {"idle", "exceeded"}) => Bad(Root)
  /\ \A p \in Callers :
       /\ caller[p].pc = "reassign" \/ Dispatch(p) => Bad(At(p)) /\ Kept(At(p))
       /\ caller[p].pc = "reassign" => caller[p].cause = Seen(At(p))
       /\ Dispatch(p) => caller[p].next = NextOf(At(p))
       /\ caller[p].pc \in {"follow", "poll"} => Kept(At(p))

Replacing == ~alarmed => Chained /\ Pursued

IInv == TypeOK /\ Placed /\ Locked /\ Recorded /\ Replacing

----------------------------------------------------------------------------
(* Types                                                                   *)

USE DEF Ends, Verdicts, Within, Claiming, Pcs, Aims

(* The parts of a scene.                                                   *)
LEMMA SceneType ==
  ASSUME ScenesAssumption, Worktree
  PROVE  /\ scene.prov \in Providers /\ scene.polls \subseteq Callers
         /\ Failures \subseteq {"network", "limit", "other"} /\ MaxMishaps \in Nat
  BY DEF ScenesAssumption, Worktree, Failures, MaxMishaps

(* The plan for the next attempt is an attempt.                            *)
LEMMA PlanType ==
  ASSUME NEW a \in Attempts, NEW c
  PROVE  Plan(a, c) \in Attempts
<1>1. Counted(a, c) \in Attempts
  BY DEF Counted, Attempts
<1>2. ASSUME NEW b \in Attempts
      PROVE  Fresh(b, c) \in Attempts /\ [b EXCEPT !.crash = @ + 1] \in Attempts
  BY <1>2 DEF Fresh, Attempt, Attempts, Providers
<1>3. Handoff \in Attempts
  BY DEF Handoff, Attempt, Attempts, Providers
<1>4. QED
  BY <1>1, <1>2, <1>3 DEF Plan

(* The name of a team is a sequence, longer than its parent's.             *)
LEMMA Named ==
  ASSUME NEW n \in Seq(Attempts), NEW a \in Attempts
  PROVE  /\ Append(n, a) \in Seq(Attempts) /\ Len(Append(n, a)) = Len(n) + 1
         /\ Append(n, a) # <<>> /\ Last(Append(n, a)) = a
         /\ Append(n, a) # n /\ (n # <<>> => Append(n, a) # Root /\ Last(n) \in Attempts)
<1>1. Append(n, a) \in Seq(Attempts) /\ Len(Append(n, a)) = Len(n) + 1 /\ Len(n) \in Nat
  OBVIOUS
<1>2. Last(Append(n, a)) = a
  BY DEF Last
<1>3. n # <<>> => Len(n) > 0 /\ Last(n) \in Attempts
  BY DEF Last
<1>4. Len(Root) = 1
  BY DEF Root
<1>5. QED
  BY <1>1, <1>2, <1>3, <1>4

(* The claim of a native task is a sequence.                               *)
LEMMA ClaimType ==
  ASSUME NEW k \in Nat
  PROVE  NativeClaim(k) \in Seq(Attempts)
<1>1. Attempt("native", 0, 0) \in Attempts
  BY DEF Attempt, Attempts
<1>2. QED
  BY <1>1, SeqDef DEF NativeClaim

(* What one session is, once it took the seat s: the others stay.          *)
Takes(p, s) == /\ caller' \in [Callers -> Seats] /\ caller'[p] = s
               /\ \A q \in Callers : q # p => caller'[q] = caller[q]

LEMMA SeatTaken ==
  ASSUME Seated, NEW p \in Callers, NEW s \in Seats, caller' = [caller EXCEPT ![p] = s]
  PROVE  Takes(p, s)
  BY DEF Seated, Takes

(* The seat after a step that only moves on.                               *)
Moved(p, w) == [caller[p] EXCEPT !.pc = w]

LEMMA SeatGoes ==
  ASSUME Seated, NEW p \in Callers, NEW w \in Pcs, Go(p, w)
  PROVE  Takes(p, Moved(p, w))
<1>1. Moved(p, w) \in Seats
  BY ZenonT(40) DEF Moved, Seats, Seated
<1>2. caller' = [caller EXCEPT ![p] = Moved(p, w)]
  BY DEF Go, Moved
<1>3. QED
  BY <1>1, <1>2, SeatTaken

LEMMA SeatStops ==
  ASSUME Seated, NEW p \in Callers, Stop(p)
  PROVE  Takes(p, Idle)
<1>1. Idle \in Seats
  BY DEF Idle, Seats, NoAttempt, Attempt, Attempts
<1>2. QED
  BY <1>1, SeatTaken DEF Stop

----------------------------------------------------------------------------
(* What the actions do, told in three parts.  Free: nobody gets the lock   *)
(* or a claim to it.  Mute: the record, its output and who knows of them   *)
(* stay.  Calm: the attempts stay, and nobody moves along the chain.       *)

Outside(q) ==
  /\ caller'[q].pc \in Within => caller[q].pc \in Within
  /\ caller'[q].pc \in Claiming =>
       caller'[q].pc = caller[q].pc /\ caller'[q].gen = caller[q].gen
Unheard(q) ==
  /\ caller'[q].pc \in {"record", "begin", "save"} =>
       caller'[q].pc = caller[q].pc /\ caller'[q].at = caller[q].at
  /\ Native(q)' => Native(q)
Onward(q) ==
  /\ Dispatch(q)' => /\ Dispatch(q) /\ caller'[q].at = caller[q].at
                     /\ caller'[q].next = caller[q].next
  /\ caller'[q].pc \in {"reassign", "save"} => caller'[q] = caller[q]
  /\ caller'[q].pc \in {"follow", "poll"} =>
       caller[q].pc \in {"follow", "poll"} /\ caller'[q].at = caller[q].at
  /\ caller'[q].pc = "task" => caller[q].pc \in {"begin", "task"}
  /\ caller'[q].pc \notin {"idle", "exceeded"} => caller[q].pc \notin {"idle", "exceeded"}

Free == UNCHANGED <<guard, session>> /\ \A q \in Callers : Outside(q)
Mute == UNCHANGED answer /\ \A q \in Callers : Unheard(q)
Calm == /\ UNCHANGED <<scene, snap, alive, file, handoffs>>
        /\ alarmed => alarmed'
        /\ Completed => Completed'
        /\ \A q \in Callers : Onward(q)

LEMMA StopIsQuiet ==
  ASSUME Seated, NEW p \in Callers, Stop(p)
  PROVE  Seated' /\ \A q \in Callers : Outside(q) /\ Unheard(q) /\ Onward(q)
<1>1. Takes(p, Idle)
  BY SeatStops
<1>2. QED
  BY <1>1 DEF Takes, Seated, Idle, Outside, Unheard, Onward, Dispatch, Native

LEMMA GoIsQuiet ==
  ASSUME Seated, NEW p \in Callers, NEW w \in Pcs, Go(p, w),
         w \notin {"record", "begin", "save", "reassign", "dispatch", "follow"},
         w = "task" => caller[p].pc = "begin", w = "poll" => caller[p].pc = "follow",
         caller[p].pc \notin {"idle", "exceeded"}
  PROVE  /\ Seated' /\ \A q \in Callers : Unheard(q) /\ Onward(q)
         /\ w \notin Claiming /\ (w \in Within => caller[p].pc \in Within) =>
              \A q \in Callers : Outside(q)
<1>1. Takes(p, Moved(p, w))
  BY SeatGoes
<1>2. /\ Moved(p, w).pc = w /\ Moved(p, w).aim = caller[p].aim
      /\ Moved(p, w).at = caller[p].at /\ Moved(p, w).next = caller[p].next
  BY DEF Moved, Seated, Seats
<1>3. QED
  BY <1>1, <1>2 DEF Takes, Seated, Outside, Unheard, Onward, Dispatch, Native

(* Types of what an action leaves alone.                                   *)
LEMMA TypesStay ==
  /\ Worktree /\ UNCHANGED work => Worktree'
  /\ Answer /\ UNCHANGED answer => Answer'
  /\ Lives /\ UNCHANGED <<guard, fate>> => Lives'
  /\ UNCHANGED answer => (Completed <=> Completed')
  BY DEF Worktree, Answer, Lives, work, answer, guard, fate, Completed, Root

LEMMA FirstLookDoes ==
  ASSUME TypeOK, NEW p \in Callers, FirstLook(p)
  PROVE  TypeOK' /\ Free /\ Mute /\ Calm
<1> DEFINE s == [caller[p] EXCEPT !.pc = "lock", !.aim = "dispatch"]
<1>1. /\ s \in Seats /\ s.pc = "lock" /\ s.aim = "dispatch"
      /\ s.at = caller[p].at /\ s.next = caller[p].next
  BY ZenonT(40) DEF TypeOK, Seated, Seats
<1>2. CASE Completed
  BY <1>2, StopIsQuiet, TypesStay DEF FirstLook, Free, Mute, Calm, TypeOK, work, answer, guard, fate
<1>3. CASE ~Completed
  <2>1. Takes(p, s)
    BY <1>3, <1>1, SeatTaken, ZenonT(40) DEF FirstLook, TypeOK
  <2> HIDE DEF s
  <2>2. Seated' /\ \A q \in Callers : Outside(q) /\ Unheard(q) /\ Onward(q)
    BY <1>1, <2>1 DEF FirstLook, Takes, Seated, Outside, Unheard, Onward, Dispatch, Native
  <2>3. QED
    BY <2>2, TypesStay DEF FirstLook, Free, Mute, Calm, TypeOK, work, answer, guard, fate
<1>4. QED
  BY <1>2, <1>3
LEMMA LinkLockDoes ==
  ASSUME TypeOK, NEW p \in Callers, LinkLock(p)
  PROVE  TypeOK' /\ Mute /\ Calm
<1>1. Seated' /\ \A q \in Callers : Unheard(q) /\ Onward(q)
  BY GoIsQuiet DEF LinkLock, TypeOK
<1>2. Lives'
  <2>1. Me(p) \in Owners
    BY DEF Me, Owners, TypeOK, Lives
  <2>2. QED
    BY <2>1 DEF LinkLock, TypeOK, Lives, fate
<1>3. QED
  BY <1>1, <1>2, TypesStay DEF LinkLock, Mute, Calm, TypeOK, work, answer, fate
LEMMA SeeDeadOwnerDoes ==
  ASSUME TypeOK, NEW p \in Callers, SeeDeadOwner(p)
  PROVE  TypeOK' /\ Mute /\ Calm /\ caller'[p].pc = "claim" /\ caller'[p].gen = lock
         /\ \A q \in Callers : q # p => caller'[q] = caller[q]
<1> DEFINE s == [caller[p] EXCEPT !.pc = "claim", !.gen = lock]
<1>1. /\ s \in Seats /\ s.pc = "claim" /\ s.gen = lock /\ s.aim = caller[p].aim
      /\ s.at = caller[p].at /\ s.next = caller[p].next
  BY ZenonT(40) DEF TypeOK, Seated, Seats, Lives
<1>2. Takes(p, s)
  BY <1>1, SeatTaken DEF SeeDeadOwner, TypeOK
<1> HIDE DEF s
<1>3. Seated' /\ \A q \in Callers : Unheard(q) /\ Onward(q)
  BY <1>1, <1>2 DEF SeeDeadOwner, Takes, Seated, Unheard, Onward, Dispatch, Native
<1>4. TypeOK' /\ Mute /\ Calm
  BY <1>3, TypesStay DEF SeeDeadOwner, Mute, Calm, TypeOK, work, answer, guard, fate
<1>5. caller'[p].pc = "claim" /\ caller'[p].gen = lock /\ \A q \in Callers : q # p => caller'[q] = caller[q]
  BY <1>1, <1>2 DEF Takes
<1>6. QED
  BY <1>4, <1>5
LEMMA ClaimDoes ==
  ASSUME TypeOK, Locked, NEW p \in Callers, Claim(p)
  PROVE  TypeOK' /\ Mute /\ Calm
<1>1. Seated' /\ \A q \in Callers : Unheard(q) /\ Onward(q)
  BY GoIsQuiet, StopIsQuiet DEF Claim, TypeOK
<1>2. Lives'
  <2>1. Me(p) \in Owners
    BY DEF Me, Owners, TypeOK, Lives
  <2>2. CASE UNCHANGED claims
    BY <2>2 DEF Claim, TypeOK, Lives, fate
  <2>3. CASE lock = caller[p].gen /\ claims' = Extend(caller[p].gen, p)
    <3>1. lock \in Owners
      BY <2>3 DEF Claim, TypeOK, Lives, Claimable, Locked, Dead
    <3>2. Chain(lock) \in Seq(Owners)
      BY DEF Chain, TypeOK, Lives
    <3>3. Append(Chain(lock), Me(p)) \in Seq(Owners)
      BY <2>1, <3>2
    <3>4. DOMAIN claims' \subseteq Owners /\ claims' \in [DOMAIN claims' -> Seq(Owners)]
      BY <2>3, <3>1, <3>3 DEF Extend, TypeOK, Lives
    <3>5. QED
      BY <3>4 DEF Claim, TypeOK, Lives, fate
  <2>4. QED
    BY <2>2, <2>3 DEF Claim
<1>3. QED
  BY <1>1, <1>2, TypesStay DEF Claim, Mute, Calm, TypeOK, work, answer, fate
LEMMA RecheckDoes ==
  ASSUME TypeOK, NEW p \in Callers, Recheck(p)
  PROVE  TypeOK' /\ Mute /\ Calm
<1>1. Seated' /\ \A q \in Callers : Unheard(q) /\ Onward(q)
  BY GoIsQuiet, StopIsQuiet DEF Recheck, TypeOK
<1>2. QED
  BY <1>1, TypesStay DEF Recheck, Mute, Calm, TypeOK, work, answer, guard, fate
LEMMA UnlinkDoes ==
  ASSUME TypeOK, NEW p \in Callers, Unlink(p)
  PROVE  TypeOK' /\ Mute /\ Calm /\ caller'[p].pc = "create"
         /\ \A q \in Callers : q # p => caller'[q] = caller[q]
<1> DEFINE s == [caller[p] EXCEPT !.pc = "create", !.gen = Nobody]
<1>1. /\ s \in Seats /\ s.pc = "create" /\ s.aim = caller[p].aim
      /\ s.at = caller[p].at /\ s.next = caller[p].next
  BY ZenonT(40) DEF TypeOK, Seated, Seats
<1>2. Takes(p, s)
  BY <1>1, SeatTaken DEF Unlink, TypeOK
<1> HIDE DEF s
<1>3. Seated' /\ \A q \in Callers : Unheard(q) /\ Onward(q)
  BY <1>1, <1>2 DEF Unlink, Takes, Seated, Unheard, Onward, Dispatch, Native
<1>4. Lives'
  BY DEF Unlink, TypeOK, Lives, fate
<1>5. QED
  BY <1>1, <1>2, <1>3, <1>4, TypesStay DEF Unlink, Mute, Calm, TypeOK, Takes, work, answer, fate
LEMMA LockTimeoutDoes ==
  ASSUME TypeOK, NEW p \in Callers, LockTimeout(p)
  PROVE  TypeOK' /\ Free /\ Mute /\ Calm
<1>1. Lives'
  BY DEF LockTimeout, TypeOK, Lives, guard
<1>2. QED
  BY <1>1, StopIsQuiet, TypesStay DEF LockTimeout, Free, Mute, Calm, TypeOK, work, answer, guard
(* Who gives the lock back is out of it; the others stay where they are.   *)
Tasking(p, q) ==
  IF q = p THEN caller'[p].pc \notin Within \cup Claiming ELSE caller'[q] = caller[q]

LEMMA ReleaseDoes ==
  ASSUME TypeOK, NEW p \in Callers, Release(p)
  PROVE  TypeOK' /\ Mute /\ Calm /\ \A q \in Callers : Tasking(p, q)
<1>1. Seated' /\ \A q \in Callers : Unheard(q) /\ Onward(q)
  <2>1. CASE Stop(p)
    BY <2>1, StopIsQuiet DEF TypeOK
  <2>2. CASE Go(p, "exceeded")
    BY <2>2, GoIsQuiet DEF Release, TypeOK
  <2>3. CASE caller[p].pc = "follow" /\ Go(p, "poll")
    BY <2>3, GoIsQuiet DEF Release, TypeOK
  <2>4. CASE caller[p].pc = "begin" /\ Go(p, "task")
    BY <2>4, GoIsQuiet DEF Release, TypeOK
  <2>5. QED
    BY <2>1, <2>2, <2>3, <2>4 DEF Release
<1>2. Lives'
  BY DEF Release, TypeOK, Lives, fate
<1>3. \A q \in Callers : Tasking(p, q)
  <2>1. CASE Stop(p)
    BY <2>1, SeatStops DEF Takes, Idle, Tasking, TypeOK
  <2>2. ASSUME NEW w \in {"exceeded", "poll", "task"}, Go(p, w)
        PROVE  \A q \in Callers : Tasking(p, q)
    <3>1. Takes(p, Moved(p, w))
      BY <2>2, SeatGoes DEF TypeOK
    <3>2. Moved(p, w).pc = w
      BY DEF Moved, TypeOK, Seated, Seats
    <3>3. QED
      BY <3>1, <3>2 DEF Takes, Tasking
  <2>3. QED
    BY <2>1, <2>2 DEF Release
<1>4. QED
  BY <1>1, <1>2, <1>3, TypesStay DEF Release, Mute, Calm, TypeOK, work, answer, fate
----------------------------------------------------------------------------
(* Under the lock                                                          *)

LEMMA SeatFields ==
  ASSUME Seated, NEW p \in Callers, NEW w \in Pcs, Go(p, w)
  PROVE  /\ caller'[p].pc = w /\ caller'[p].aim = caller[p].aim /\ caller'[p].at = caller[p].at
         /\ caller'[p].next = caller[p].next
         /\ \A q \in Callers : q # p => caller'[q] = caller[q]
<1>1. Takes(p, Moved(p, w))
  BY SeatGoes
<1>2. /\ Moved(p, w).pc = w /\ Moved(p, w).aim = caller[p].aim
      /\ Moved(p, w).at = caller[p].at /\ Moved(p, w).next = caller[p].next
  BY DEF Moved, Seated, Seats
<1>3. QED
  BY <1>1, <1>2 DEF Takes

LEMMA PromoteOutputDoes ==
  ASSUME TypeOK, NEW p \in Callers, PromoteOutput(p)
  PROVE  TypeOK' /\ Free /\ Calm /\ caller'[p].pc = "done" /\ caller'[p].aim = caller[p].aim
         /\ \A q \in Callers : q # p => caller'[q] = caller[q]
<1>1. Answer'
  BY DEF PromoteOutput, TypeOK, Answer
<1>2. Seated' /\ \A q \in Callers : Outside(q) /\ Onward(q)
  BY GoIsQuiet DEF PromoteOutput, ToClaude, Inside, TypeOK
<1>3. record.token = output /\ record'.token = record.token /\ record'.status = "completed"
  BY DEF PromoteOutput, TypeOK, Answer
<1>4. caller'[p].pc = "done" /\ caller'[p].aim = caller[p].aim /\ \A q \in Callers : q # p => caller'[q] = caller[q]
  BY SeatFields DEF PromoteOutput, TypeOK
<1>5. QED
  BY <1>1, <1>2, <1>3, <1>4, TypesStay
  DEF PromoteOutput, Free, Calm, TypeOK, Completed, work, guard, fate
LEMMA LeaveTaskDoes ==
  ASSUME TypeOK, NEW p \in Callers, LeaveTask(p)
  PROVE  TypeOK' /\ Free /\ Mute /\ Calm
<1>1. Seated' /\ \A q \in Callers : Outside(q) /\ Unheard(q) /\ Onward(q)
  BY GoIsQuiet DEF LeaveTask, ToClaude, Inside, TypeOK
<1>2. QED
  BY <1>1, TypesStay DEF LeaveTask, Free, Mute, Calm, TypeOK, work, answer, guard, fate
LEMMA LeaseLostDoes ==
  ASSUME TypeOK, NEW p \in Callers, LeaseLost(p)
  PROVE  TypeOK' /\ Free /\ Mute /\ Calm
<1>1. Seated' /\ \A q \in Callers : Outside(q) /\ Unheard(q) /\ Onward(q)
  BY GoIsQuiet DEF LeaseLost, ToClaude, Inside, TypeOK
<1>2. QED
  BY <1>1, TypesStay DEF LeaseLost, Free, Mute, Calm, TypeOK, work, answer, guard, fate
LEMMA KeepAnswerDoes ==
  ASSUME TypeOK, NEW p \in Callers, KeepAnswer(p)
  PROVE  TypeOK' /\ Free /\ Calm /\ caller'[p].pc = "done" /\ caller'[p].aim = caller[p].aim
         /\ \A q \in Callers : q # p => caller'[q] = caller[q]
<1>1. Answer'
  BY DEF KeepAnswer, TypeOK, Answer
<1>2. Seated' /\ \A q \in Callers : Outside(q) /\ Onward(q)
  BY GoIsQuiet DEF KeepAnswer, Inside, TypeOK
<1>3. caller'[p].pc = "done" /\ caller'[p].aim = caller[p].aim /\ \A q \in Callers : q # p => caller'[q] = caller[q]
  BY SeatFields DEF KeepAnswer, TypeOK
<1>4. QED
  BY <1>1, <1>2, <1>3, TypesStay
  DEF KeepAnswer, Free, Calm, TypeOK, Completed, work, guard, fate
LEMMA WriteAnswerDoes ==
  ASSUME TypeOK, NEW p \in Callers, WriteAnswer(p)
  PROVE  TypeOK' /\ Free /\ Calm
         /\ caller'[p].pc = "record" /\ caller'[p].at = caller[p].at
         /\ caller'[p].aim = caller[p].aim
         /\ \A q \in Callers : q # p => caller'[q] = caller[q]
<1>1. At(p) \in Seq(Attempts)
  BY DEF At, TypeOK, Seated, Seats
<1>2. Answer'
  BY <1>1 DEF WriteAnswer, TypeOK, Answer
<1>3. Takes(p, Moved(p, "record"))
  BY SeatGoes DEF WriteAnswer, TypeOK
<1>4. /\ Moved(p, "record").pc = "record" /\ Moved(p, "record").aim = caller[p].aim
      /\ Moved(p, "record").at = caller[p].at /\ Moved(p, "record").next = caller[p].next
  BY DEF Moved, TypeOK, Seated, Seats
<1>5. Seated' /\ \A q \in Callers : Outside(q) /\ Onward(q)
  BY <1>3, <1>4 DEF WriteAnswer, Inside, Takes, Seated, Outside, Onward, Dispatch
<1>6. ~Completed
  BY DEF WriteAnswer, Completed
<1>7. QED
  BY <1>2, <1>3, <1>4, <1>5, <1>6, TypesStay
  DEF WriteAnswer, Free, Calm, Takes, TypeOK, work, guard, fate
LEMMA WriteRecordDoes ==
  ASSUME TypeOK, Recorded, NEW p \in Callers, WriteRecord(p)
  PROVE  TypeOK' /\ Free /\ Calm /\ caller'[p].pc = "done" /\ caller'[p].aim = caller[p].aim
         /\ \A q \in Callers : q # p => caller'[q] = caller[q]
<1>1. At(p) \in Seq(Attempts)
  BY DEF At, TypeOK, Seated, Seats
<1>2. Answer'
  BY <1>1 DEF WriteRecord, TypeOK, Answer
<1>3. Seated' /\ \A q \in Callers : Outside(q) /\ Onward(q)
  BY GoIsQuiet DEF WriteRecord, TypeOK
<1>4. Completed'
  BY DEF WriteRecord, Recorded, Completed
<1>5. caller'[p].pc = "done" /\ caller'[p].aim = caller[p].aim /\ \A q \in Callers : q # p => caller'[q] = caller[q]
  BY SeatFields DEF WriteRecord, TypeOK
<1>6. QED
  BY <1>2, <1>3, <1>4, <1>5, TypesStay
  DEF WriteRecord, Free, Calm, TypeOK, work, guard, fate
LEMMA TaskEndsDoes ==
  ASSUME TypeOK, NEW p \in Callers, TaskEnds(p)
  PROVE  TypeOK' /\ Free /\ Mute /\ Calm
<1> DEFINE s == [caller[p] EXCEPT !.pc = "lock", !.aim = "complete"]
<1>1. /\ s \in Seats /\ s.pc = "lock" /\ s.aim = "complete"
      /\ s.at = caller[p].at /\ s.next = caller[p].next
  BY ZenonT(40) DEF TypeOK, Seated, Seats
<1>2. Takes(p, s)
  BY <1>1, SeatTaken DEF TaskEnds, TypeOK
<1> HIDE DEF s
<1>3. Seated' /\ \A q \in Callers : Outside(q) /\ Unheard(q) /\ Onward(q)
  BY <1>1, <1>2 DEF TaskEnds, Takes, Seated, Outside, Unheard, Onward, Dispatch, Native
<1>4. QED
  BY <1>3, TypesStay DEF TaskEnds, Free, Mute, Calm, TypeOK, work, answer, guard, fate
LEMMA ClaimTaskDoes ==
  ASSUME TypeOK, NEW p \in Callers, ClaimTask(p)
  PROVE  TypeOK' /\ Free /\ record' = [status |-> "pending", token |-> caller'[p].at]
         /\ caller'[p].pc = "begin" /\ caller'[p].aim = "none"
         /\ \A q \in Callers : q # p => caller'[q] = caller[q]
<1> DEFINE k == NativeClaim(handoffs + 1)
           s == [caller[p] EXCEPT !.pc = "begin", !.next = NoAttempt,
                                  !.aim = "none", !.at = k]
<1>1. k \in Seq(Attempts) /\ NoAttempt \in Attempts
  <2>1. handoffs + 1 \in Nat
    BY DEF TypeOK, Answer
  <2>2. QED
    BY <2>1, ClaimType DEF NoAttempt, Attempt, Attempts
<1>2. Answer'
  BY <1>1 DEF ClaimTask, TypeOK, Answer
<1>3. record' = [status |-> "pending", token |-> k]
  BY DEF ClaimTask
<1>4. caller' = [caller EXCEPT ![p] = s]
  BY DEF ClaimTask
<1> HIDE DEF k
<1>5. s \in Seats /\ s.pc = "begin" /\ s.aim = "none" /\ s.at = k
  BY <1>1, ZenonT(40) DEF TypeOK, Seated, Seats
<1> HIDE DEF s
<1>6. Takes(p, s)
  BY <1>4, <1>5, SeatTaken DEF TypeOK
<1>7. Seated' /\ \A q \in Callers : Outside(q)
  BY <1>5, <1>6 DEF ClaimTask, ToClaude, Inside, Takes, Seated, Outside
<1>8. QED
  BY <1>2, <1>3, <1>5, <1>6, <1>7, TypesStay
  DEF ClaimTask, Free, Takes, TypeOK, work, guard, fate
----------------------------------------------------------------------------
(* Teams, polls and workers                                                *)

(* The team of a caller that dispatches has a name of its own.             *)
LEMMA ChildName ==
  ASSUME TypeOK, Placed, NEW p \in Callers, Dispatch(p)
  PROVE  /\ Child(p) \in Seq(Attempts) /\ Child(p) # <<>> /\ Child(p) # Root
         /\ Child(p) # At(p) /\ Last(Child(p)) = caller[p].next
         /\ Len(Child(p)) = Len(At(p)) + 1
<1>1. At(p) \in Seq(Attempts) /\ At(p) # <<>> /\ caller[p].next \in Attempts
  BY DEF TypeOK, Worktree, Placed, Seated, Seats
<1>2. QED
  BY <1>1, Named DEF Child

LEMMA SpawnTeamDoes ==
  ASSUME TypeOK, Placed, NEW p \in Callers, SpawnTeam(p)
  PROVE  TypeOK' /\ Free /\ caller'[p].pc = "save"
         /\ caller'[p].aim = "dispatch" /\ caller[p].aim = "dispatch" /\ caller'[p].at = caller[p].at
         /\ caller'[p].next = caller[p].next
         /\ \A q \in Callers : q # p => caller'[q] = caller[q]
<1>1. Dispatch(p) /\ caller[p].pc = "inside" /\ caller[p].aim = "dispatch"
  BY DEF SpawnTeam, ToTeam, Inside, Dispatch
<1>2. Child(p) \in Seq(Attempts)
  BY <1>1, ChildName
<1>3. Worktree'
  <2>1. PICK s \in {"running", "unlaunched"} :
          /\ snap' = [n \in DOMAIN snap \cup {Child(p)} |-> IF n = Child(p) THEN s ELSE snap[n]]
          /\ alive' = IF s = "running" THEN alive \cup {Child(p)} ELSE alive \ {Child(p)}
    BY DEF SpawnTeam, LaunchWorker
  <2>2. alive' \subseteq alive \cup {Child(p)}
    BY <2>1
  <2>3. QED
    BY <1>2, <2>1, <2>2 DEF SpawnTeam, LaunchWorker, TypeOK, Worktree, Root
<1>4. Go(p, "save")
  BY DEF SpawnTeam, LaunchWorker
<1>5. /\ caller'[p].pc = "save" /\ caller'[p].aim = caller[p].aim /\ caller'[p].at = caller[p].at
      /\ caller'[p].next = caller[p].next
      /\ \A q \in Callers : q # p => caller'[q] = caller[q]
  BY <1>4, SeatFields DEF TypeOK
<1>6. Seated'
  BY <1>4, SeatGoes DEF TypeOK, Seated, Takes
<1>7. \A q \in Callers : Outside(q)
  BY <1>1, <1>5 DEF Outside
<1>8. QED
  BY <1>1, <1>3, <1>5, <1>6, <1>7, TypesStay
  DEF SpawnTeam, LaunchWorker, Free, TypeOK, answer, guard, fate
LEMMA SpawnRefusedDoes ==
  ASSUME TypeOK, NEW p \in Callers, SpawnRefused(p)
  PROVE  TypeOK' /\ Free /\ Mute /\ Calm
<1>1. Seated' /\ \A q \in Callers : Outside(q) /\ Unheard(q) /\ Onward(q)
  BY GoIsQuiet DEF SpawnRefused, ToTeam, Inside, TypeOK
<1>2. QED
  BY <1>1, TypesStay DEF SpawnRefused, Free, Mute, Calm, TypeOK, work, answer, guard, fate
LEMMA SpawnFailsDoes ==
  ASSUME TypeOK, NEW p \in Callers, SpawnFails(p)
  PROVE  /\ TypeOK' /\ Free /\ Mute /\ caller'[p].pc = "threw"
         /\ caller'[p].at = caller[p].at
         /\ \A q \in Callers : Onward(q) /\ (q # p => caller'[q] = caller[q])
<1>1. Seated' /\ \A q \in Callers : Outside(q) /\ Unheard(q) /\ Onward(q)
  BY GoIsQuiet DEF SpawnFails, TypeOK
<1>2. /\ caller'[p].pc = "threw" /\ caller'[p].at = caller[p].at
      /\ \A q \in Callers : q # p => caller'[q] = caller[q]
  BY SeatFields DEF SpawnFails, TypeOK
<1>3. Worktree'
  BY DEF SpawnFails, TypeOK, Worktree, Root
<1>4. QED
  BY <1>1, <1>2, <1>3, TypesStay DEF SpawnFails, Free, Mute, TypeOK, answer, guard, fate
LEMMA FollowFields ==
  ASSUME TypeOK, Placed, NEW p \in Callers, Dispatch(p), Follow(p)
  PROVE  /\ Seated' /\ caller'[p].pc = "follow" /\ caller'[p].at = Child(p)
         /\ caller'[p].aim = "none" /\ \A q \in Callers : q # p => caller'[q] = caller[q]
<1> DEFINE c == Child(p)
           s == [caller[p] EXCEPT !.pc = "follow", !.at = c, !.next = NoAttempt, !.aim = "none"]
<1>1. c \in Seq(Attempts)
  BY ChildName
<1>2. NoAttempt \in Attempts
  BY DEF NoAttempt, Attempt, Attempts
<1>3. caller' = [caller EXCEPT ![p] = s]
  BY DEF Follow
<1> HIDE DEF c
<1>4. s \in Seats /\ s.pc = "follow" /\ s.at = c /\ s.aim = "none"
  BY <1>1, <1>2, ZenonT(40) DEF TypeOK, Seated, Seats
<1> HIDE DEF s
<1>5. Takes(p, s)
  BY <1>3, <1>4, SeatTaken DEF TypeOK
<1>6. QED
  BY <1>4, <1>5 DEF Takes, Seated, c

LEMMA SaveTeamDoes ==
  ASSUME TypeOK, Placed, NEW p \in Callers, SaveTeam(p)
  PROVE  TypeOK' /\ Free /\ Mute
         /\ caller'[p].pc = "follow" /\ caller'[p].at = Child(p) /\ caller'[p].aim = "none"
         /\ \A q \in Callers : q # p => caller'[q] = caller[q]
<1>1. Dispatch(p) /\ Child(p) \in DOMAIN snap
  BY DEF SaveTeam, Placed, Dispatch
<1>2. Child(p) # Root
  BY <1>1, ChildName
<1>3. Worktree'
  BY <1>1, <1>2 DEF SaveTeam, TypeOK, Worktree, Root
<1>4. /\ Seated' /\ caller'[p].pc = "follow" /\ caller'[p].at = Child(p)
      /\ caller'[p].aim = "none" /\ \A q \in Callers : q # p => caller'[q] = caller[q]
  BY <1>1, FollowFields DEF SaveTeam
<1>5. \A q \in Callers : Outside(q) /\ Unheard(q)
  BY <1>4 DEF SaveTeam, Outside, Unheard, Native
<1>6. QED
  BY <1>3, <1>4, <1>5, TypesStay DEF SaveTeam, Free, Mute, TypeOK, answer, guard, fate
LEMMA ReuseTeamDoes ==
  ASSUME TypeOK, Placed, NEW p \in Callers, ReuseTeam(p)
  PROVE  TypeOK' /\ Free /\ Mute
         /\ \/ Calm
            \/ /\ Child(p) \in file /\ caller'[p].pc = "follow" /\ caller'[p].at = Child(p)
               /\ caller'[p].aim = "none" /\ \A q \in Callers : q # p => caller'[q] = caller[q]
<1>1. Dispatch(p) /\ caller[p].pc = "inside"
  BY DEF ReuseTeam, ToTeam, Inside, Dispatch
<1>2. CASE Completed
  <2>1. Go(p, "done")
    BY <1>2 DEF ReuseTeam
  <2>2. Seated' /\ \A q \in Callers : Outside(q) /\ Unheard(q) /\ Onward(q)
    BY <1>1, <2>1, GoIsQuiet DEF TypeOK
  <2>3. QED
    BY <2>2, TypesStay DEF ReuseTeam, Free, Mute, Calm, TypeOK, work, answer, guard, fate
<1>3. CASE ~Completed
  <2>1. Child(p) \in file /\ Follow(p)
    BY <1>3 DEF ReuseTeam
  <2>2. /\ Seated' /\ caller'[p].pc = "follow" /\ caller'[p].at = Child(p)
        /\ caller'[p].aim = "none" /\ \A q \in Callers : q # p => caller'[q] = caller[q]
    BY <1>1, <2>1, FollowFields
  <2>3. \A q \in Callers : Outside(q) /\ Unheard(q)
    BY <1>1, <2>2 DEF Outside, Unheard, Native
  <2>4. QED
    BY <2>1, <2>2, <2>3, TypesStay DEF ReuseTeam, Free, Mute, TypeOK, work, answer, guard, fate
<1>4. QED
  BY <1>2, <1>3
LEMMA ReassignDoes ==
  ASSUME TypeOK, Placed, NEW p \in Callers, Reassign(p)
  PROVE  TypeOK' /\ Free /\ Mute
         /\ \/ \A q \in Callers : Onward(q)
            \/ /\ caller'[p].pc = "dispatch" /\ caller'[p].at = caller[p].at
               /\ caller'[p].aim = caller[p].aim
               /\ caller'[p].next = Plan(Last(At(p)), caller[p].cause)
               /\ \A q \in Callers : q # p => caller'[q] = caller[q]
<1> DEFINE a == Plan(Last(At(p)), caller[p].cause)
           s == [caller[p] EXCEPT !.pc = "dispatch", !.next = a, !.cause = "none"]
<1>1. At(p) \in DOMAIN snap /\ caller[p].pc = "reassign"
  BY DEF Reassign, Placed
<1>2. a \in Attempts
  <2>1. At(p) \in Seq(Attempts) /\ At(p) # <<>>
    BY <1>1 DEF TypeOK, Worktree, Placed
  <2>2. QED
    BY <2>1, Named, PlanType
<1>3. Worktree'
  BY <1>1 DEF Reassign, TypeOK, Worktree, Root
<1>4. CASE Stop(p)
  <2>1. Seated' /\ \A q \in Callers : Outside(q) /\ Unheard(q) /\ Onward(q)
    BY <1>4, StopIsQuiet DEF TypeOK
  <2>2. QED
    BY <1>3, <1>1, <2>1, TypesStay DEF Reassign, Free, Mute, TypeOK, answer, guard, fate
<1>5. CASE caller' = [caller EXCEPT ![p] = s]
  <2> HIDE DEF a
  <2>1. s \in Seats /\ s.pc = "dispatch" /\ s.aim = caller[p].aim /\ s.at = caller[p].at /\ s.next = a
    BY <1>2, ZenonT(40) DEF TypeOK, Seated, Seats
  <2> HIDE DEF s
  <2>2. Takes(p, s)
    BY <1>5, <2>1, SeatTaken DEF TypeOK
  <2>3. Seated' /\ \A q \in Callers : Outside(q) /\ Unheard(q)
    BY <1>1, <2>1, <2>2 DEF Takes, Seated, Outside, Unheard, Native
  <2>4. QED
    BY <1>3, <1>1, <2>1, <2>2, <2>3, TypesStay
    DEF Reassign, Free, Mute, TypeOK, answer, guard, fate, Takes, a
<1>6. QED
  BY <1>4, <1>5 DEF Reassign
(* A caller that finds a failure is about to stop what is left of it.      *)
Looking(p, n) ==
  /\ caller'[p].pc = "reassign" /\ caller'[p].at = n
  /\ Dispatch(p)' => /\ Dispatch(p) /\ caller'[p].at = caller[p].at
                     /\ caller'[p].next = caller[p].next
  /\ caller'[p].cause \notin {"running", "completed", "blank"}
  /\ caller'[p].cause = Seen(n) \/ alarmed'
  /\ \A q \in Callers : q # p => caller'[q] = caller[q]

Found(p) ==
  /\ TypeOK' /\ Free /\ Mute /\ UNCHANGED work /\ (alarmed => alarmed')
  /\ Calm \/ (At(p) \in file /\ Looking(p, At(p)))

LEMMA LookLives ==
  ASSUME Lives, NEW n, NEW c, Look(n, c), UNCHANGED <<guard, session>>
  PROVE  Lives' /\ (c = Seen(n) \/ alarmed') /\ (alarmed => alarmed')
<1>1. CASE c = Seen(n) /\ UNCHANGED <<alarmed, mishaps>>
  BY <1>1 DEF Lives, guard
<1>2. CASE alarmed' = TRUE /\ mishaps' = mishaps + 1
  <2>1. alarmed' \in BOOLEAN /\ mishaps' \in Nat
    BY <1>2 DEF Lives
  <2>2. QED
    BY <1>2, <2>1 DEF Lives, guard
<1>3. QED
  BY <1>1, <1>2 DEF Look

LEMMA MonitorDoes ==
  ASSUME TypeOK, ScenesAssumption, NEW p \in Callers, Monitor(p)
  PROVE  TypeOK' /\ Free /\ Mute /\ Looking(p, Root)
         /\ UNCHANGED work /\ (alarmed => alarmed')
<1>1. PICK c \in Failures \cup {"crash", "cancelled"} :
         /\ Look(Root, c)
         /\ caller' = [caller EXCEPT ![p] =
              [Idle EXCEPT !.pc = "reassign", !.at = Root, !.cause = c]]
  BY DEF Monitor
<1>2. c \in Verdicts \ {"running", "completed", "blank"}
  BY SceneType DEF TypeOK
<1> DEFINE s == [Idle EXCEPT !.pc = "reassign", !.at = Root, !.cause = c]
<1>3. Root \in Seq(Attempts)
  BY DEF TypeOK, Worktree
<1>4. Idle \in Seats /\ Idle.aim = "none"
  BY DEF Idle, Seats, NoAttempt, Attempt, Attempts
<1>5. /\ s \in Seats /\ s.pc = "reassign" /\ s.aim = "none" /\ s.at = Root /\ s.cause = c
  <2> HIDE DEF Idle
  <2>1. QED
    BY <1>2, <1>3, <1>4 DEF Seats
<1>6. caller' = [caller EXCEPT ![p] = s]
  BY <1>1
<1> HIDE DEF s
<1>7. Takes(p, s)
  BY <1>5, <1>6, SeatTaken DEF TypeOK
<1>8. Seated' /\ \A q \in Callers : Outside(q) /\ Unheard(q)
  BY <1>5, <1>7 DEF Takes, Seated, Outside, Unheard, Native
<1>9. Lives' /\ (c = Seen(Root) \/ alarmed') /\ (alarmed => alarmed')
  BY <1>1, LookLives DEF Monitor, TypeOK, guard
<1>10. QED
  BY <1>2, <1>5, <1>7, <1>8, <1>9, TypesStay
  DEF Monitor, Free, Mute, Looking, Dispatch, Takes, TypeOK, work, answer, guard
LEMMA PollDoes ==
  ASSUME TypeOK, ScenesAssumption, NEW p \in Callers, Poll(p)
  PROVE  Found(p)
<1>1. caller[p].pc = "poll" /\ Seated
  BY DEF Poll, TypeOK
<1>2. CASE At(p) \notin file /\ Stop(p) /\ UNCHANGED <<alarmed, mishaps>>
  <2>1. Seated' /\ \A q \in Callers : Outside(q) /\ Unheard(q) /\ Onward(q)
    BY <1>2, StopIsQuiet DEF TypeOK
  <2>2. QED
    BY <1>2, <2>1, TypesStay DEF Poll, Found, Free, Mute, Calm, TypeOK, work, answer, guard, fate
<1>3. ASSUME At(p) \in file,
             NEW c \in Failures \cup {"running", "completed", "blank", "unlaunched",
                                      "crash", "cancelled"},
             Look(At(p), c)
      PROVE  /\ c \in {"running", "blank"} /\ Stop(p) => Found(p)
             /\ c = "completed" /\ caller' = [caller EXCEPT ![p].pc = "lock", ![p].aim = "persist"]
                  => Found(p)
             /\ c \notin {"running", "completed", "blank"} /\ caller' =
                  [caller EXCEPT ![p].pc = "reassign", ![p].cause = c, ![p].depth = @ + 1]
                  => Found(p)
  <2>1. Lives' /\ (c = Seen(At(p)) \/ alarmed') /\ (alarmed => alarmed')
    BY <1>3, LookLives DEF Poll, TypeOK, guard
  <2>2. ASSUME Stop(p) PROVE Found(p)
    <3>1. Seated' /\ \A q \in Callers : Outside(q) /\ Unheard(q) /\ Onward(q)
      BY <2>2, StopIsQuiet DEF TypeOK
    <3>2. QED
      BY <2>1, <3>1, TypesStay DEF Poll, Found, Free, Mute, Calm, TypeOK, work, answer, guard
  <2>3. ASSUME caller' = [caller EXCEPT ![p].pc = "lock", ![p].aim = "persist"]
        PROVE  Found(p)
    <3> DEFINE s == [caller[p] EXCEPT !.pc = "lock", !.aim = "persist"]
    <3>1. s \in Seats /\ s.pc = "lock" /\ s.aim = "persist"
      BY ZenonT(40) DEF TypeOK, Seated, Seats
    <3>2. Takes(p, s)
      BY <2>3, <3>1, SeatTaken DEF TypeOK
    <3> HIDE DEF s
    <3>3. Seated' /\ \A q \in Callers : Outside(q) /\ Unheard(q) /\ Onward(q)
      BY <1>1, <3>1, <3>2 DEF Takes, Seated, Outside, Unheard, Onward, Dispatch, Native
    <3>4. QED
      BY <2>1, <3>3, TypesStay DEF Poll, Found, Free, Mute, Calm, TypeOK, work, answer, guard
  <2>4. ASSUME c \notin {"running", "completed", "blank"},
               caller' = [caller EXCEPT ![p].pc = "reassign", ![p].cause = c, ![p].depth = @ + 1]
        PROVE  Found(p)
    <3> DEFINE s == [caller[p] EXCEPT !.pc = "reassign", !.cause = c, !.depth = @ + 1]
    <3>1. c \in Verdicts
      BY <1>3, SceneType DEF TypeOK
    <3>2. /\ s \in Seats /\ s.pc = "reassign" /\ s.aim = caller[p].aim
          /\ s.at = caller[p].at /\ s.cause = c /\ s.next = caller[p].next
      <4>1. ASSUME NEW y \in Seats, NEW z,
                   z = [y EXCEPT !.pc = "reassign", !.cause = c, !.depth = @ + 1]
            PROVE  /\ z \in Seats /\ z.pc = "reassign" /\ z.aim = y.aim
                   /\ z.at = y.at /\ z.cause = c /\ z.next = y.next
        <5>1. y.depth + 1 \in Nat
          BY DEF Seats
        <5>2. z = [y EXCEPT !.pc = "reassign", !.cause = c, !.depth = y.depth + 1]
          BY <4>1
        <5>3. QED
          BY <3>1, <5>1, <5>2 DEF Seats
      <4>2. caller[p] \in Seats
        BY DEF TypeOK, Seated
      <4>3. QED
        BY <4>1, <4>2
    <3>3. Takes(p, s)
      BY <2>4, <3>2, SeatTaken DEF TypeOK
    <3> HIDE DEF s
    <3>4. Seated' /\ \A q \in Callers : Outside(q) /\ Unheard(q)
      BY <1>1, <3>2, <3>3 DEF Takes, Seated, Outside, Unheard, Native
    <3>5. Looking(p, At(p))
      BY <2>1, <2>4, <3>2, <3>3 DEF Takes, Looking, Dispatch, At
    <3>6. QED
      BY <1>3, <2>1, <3>4, <3>5, TypesStay
      DEF Poll, Found, Free, Mute, TypeOK, work, answer, guard
  <2>5. QED
    BY <2>2, <2>3, <2>4
<1>4. QED
  <2>1. CASE At(p) \notin file
    BY <1>2, <2>1 DEF Poll
  <2>2. CASE At(p) \in file
    <3>1. PICK c \in Failures \cup {"running", "completed", "blank", "unlaunched",
                                      "crash", "cancelled"} :
            /\ Look(At(p), c)
            /\ CASE c \in {"running", "blank"} -> Stop(p)
                 [] c = "completed" ->
                      caller' = [caller EXCEPT ![p].pc = "lock", ![p].aim = "persist"]
                 [] OTHER ->
                      caller' = [caller EXCEPT ![p].pc = "reassign",
                                   ![p].cause = c, ![p].depth = @ + 1]
      BY <2>2 DEF Poll
    <3>2. QED
      BY <1>3, <2>2, <3>1
  <2>3. QED
    BY <2>1, <2>2
LEMMA ShutdownChildrenDoes ==
  ASSUME TypeOK, NEW p \in Callers, ShutdownChildren(p)
  PROVE  TypeOK' /\ Free /\ Mute /\ caller' = caller
<1>1. caller' = caller
  BY DEF ShutdownChildren
<1>2. Seated' /\ \A q \in Callers : Outside(q) /\ Unheard(q) /\ Onward(q)
  BY <1>1 DEF TypeOK, Seated, Outside, Unheard, Onward, Dispatch, Native
<1>3. Worktree'
  BY DEF ShutdownChildren, TypeOK, Worktree, Root
<1>4. QED
  BY <1>1, <1>2, <1>3, TypesStay DEF ShutdownChildren, Free, Mute, TypeOK, answer, guard, fate
LEMMA WorkerEndsDoes ==
  ASSUME TypeOK, ScenesAssumption, NEW n \in alive, WorkerEnds(n)
  PROVE  TypeOK' /\ Free /\ Mute /\ caller' = caller
<1>1. caller' = caller
  BY DEF WorkerEnds
<1>2. Seated' /\ \A q \in Callers : Outside(q) /\ Unheard(q) /\ Onward(q)
  BY <1>1 DEF TypeOK, Seated, Outside, Unheard, Onward, Dispatch, Native
<1>3. Worktree'
  BY SceneType DEF WorkerEnds, TypeOK, Worktree, Root
<1>4. QED
  BY <1>1, <1>2, <1>3, TypesStay DEF WorkerEnds, Free, Mute, TypeOK, answer, guard, fate
LEMMA WorkerDiesDoes ==
  ASSUME TypeOK, NEW n \in alive, WorkerDies(n)
  PROVE  TypeOK' /\ Free /\ Mute /\ caller' = caller
<1>1. caller' = caller
  BY DEF WorkerDies
<1>2. Seated' /\ \A q \in Callers : Outside(q) /\ Unheard(q) /\ Onward(q)
  BY <1>1 DEF TypeOK, Seated, Outside, Unheard, Onward, Dispatch, Native
<1>3. Worktree'
  BY DEF WorkerDies, TypeOK, Worktree, Root
<1>4. QED
  BY <1>1, <1>2, <1>3, TypesStay DEF WorkerDies, Free, Mute, TypeOK, answer, guard, fate
LEMMA StrayEndsDoes ==
  ASSUME TypeOK, StrayEnds
  PROVE  TypeOK' /\ Free /\ Mute /\ Calm
<1>1. caller' = caller
  BY DEF StrayEnds
<1>2. Seated' /\ \A q \in Callers : Outside(q) /\ Unheard(q) /\ Onward(q)
  BY <1>1 DEF TypeOK, Seated, Outside, Unheard, Onward, Dispatch, Native
<1>3. Worktree'
  BY DEF StrayEnds, TypeOK, Worktree, Root
<1>4. QED
  BY <1>1, <1>2, <1>3, TypesStay DEF StrayEnds, Free, Mute, Calm, TypeOK, answer, guard, fate

LEMMA NothingDoes ==
  ASSUME TypeOK, UNCHANGED vars
  PROVE  TypeOK' /\ Free /\ Mute /\ Calm
<1>1. caller' = caller
  BY DEF vars
<1>2. Seated' /\ \A q \in Callers : Outside(q) /\ Unheard(q) /\ Onward(q)
  BY <1>1 DEF TypeOK, Seated, Outside, Unheard, Onward, Dispatch, Native
<1>3. QED
  BY <1>1, <1>2, TypesStay DEF vars, Free, Mute, Calm, TypeOK, work, answer, guard, fate

LEMMA SessionDiesDoes ==
  ASSUME TypeOK, NEW p \in Callers, SessionDies(p)
  PROVE  /\ TypeOK' /\ Mute /\ (caller[p].pc = "save" \/ Calm)
         /\ caller'[p].pc = "idle"
         /\ \A q \in Callers : Onward(q)
         /\ \A q \in Callers : q # p => caller'[q] = caller[q]
<1>1. Takes(p, Idle) /\ Seated'
  BY SeatStops DEF SessionDies, TypeOK, Takes, Seated
<1>2. \A q \in Callers : Outside(q) /\ Unheard(q) /\ Onward(q)
  BY StopIsQuiet DEF SessionDies, TypeOK
<1>3. Worktree'
  BY DEF SessionDies, TypeOK, Worktree, Root
<1>4. Lives'
  BY DEF SessionDies, TypeOK, Lives, guard
<1>5. Completed => Completed'
  BY DEF SessionDies, answer, Completed
<1>6. caller[p].pc = "save" \/ Calm
  BY <1>2, <1>5 DEF SessionDies, Calm, answer
<1>7. QED
  BY <1>1, <1>2, <1>3, <1>4, <1>6, TypesStay DEF SessionDies, Mute, TypeOK, Takes, answer, Idle
----------------------------------------------------------------------------
(* Where things are                                                        *)

LEMMA CalmPlaced ==
  ASSUME TypeOK, Placed, Calm
  PROVE  Placed'
<1>1. Root' = Root /\ snap' = snap /\ alive' = alive
  BY DEF Calm, Root
<1>2. \A n \in alive' : snap'[n] = "running"
  BY <1>1 DEF Placed
<1>3. \A n \in DOMAIN snap' : n # <<>> /\ (n = Root' \/ Last(n) # Handoff)
  BY <1>1 DEF Placed
<1>4. ASSUME NEW p \in Callers
      PROVE  /\ (Dispatch(p) \/ caller[p].pc \in {"reassign", "follow", "poll"} =>
                   At(p) \in DOMAIN snap)'
             /\ (caller[p].pc = "save" =>
                   /\ caller[p].aim = "dispatch" /\ caller[p].next # Handoff
                   /\ Child(p) \in DOMAIN snap)'
  BY <1>1, <1>4 DEF Calm, Onward, Placed, At, Child
<1>5. QED
  BY <1>2, <1>3, <1>4 DEF Placed

(* A caller that has moved alone keeps the others in place.                *)
LEMMA MovePlaced ==
  ASSUME Placed, NEW p \in Callers, scene' = scene, snap' = snap, alive' \subseteq alive,
         caller'[p].pc # "save",
         (Dispatch(p) \/ caller[p].pc \in {"reassign", "follow", "poll"} =>
            At(p) \in DOMAIN snap)',
         \A q \in Callers : q # p => caller'[q] = caller[q]
  PROVE  Placed'
<1>1. Root' = Root
  BY DEF Root
<1>2. \A q \in Callers : q # p => /\ At(q)' = At(q) /\ Child(q)' = Child(q)
                                  /\ (Dispatch(q)' <=> Dispatch(q))
  BY DEF At, Child, Dispatch
<1>3. QED
  BY <1>1, <1>2 DEF Placed

(* Workers end; the callers stay.                                          *)
LEMMA EndPlaced ==
  ASSUME Placed, scene' = scene, DOMAIN snap' = DOMAIN snap, caller' = caller,
         alive' \subseteq alive, \A n \in alive' : snap'[n] = snap[n]
  PROVE  Placed'
<1>1. Root' = Root
  BY DEF Root
<1>2. \A q \in Callers : /\ At(q)' = At(q) /\ Child(q)' = Child(q)
                         /\ (Dispatch(q)' <=> Dispatch(q))
  BY DEF At, Child, Dispatch
<1>3. QED
  BY <1>1, <1>2 DEF Placed

(* A launch touches the new team alone; it runs, or was never launched.    *)
LEMMA SpawnLaunches ==
  ASSUME NEW p \in Callers, SpawnTeam(p)
  PROVE  /\ DOMAIN snap' = DOMAIN snap \cup {Child(p)}
         /\ alive' \subseteq alive \cup {Child(p)} /\ alive \subseteq alive' \cup {Child(p)}
         /\ Child(p) \in alive' => snap'[Child(p)] = "running"
         /\ \A n \in DOMAIN snap : n # Child(p) => snap'[n] = snap[n]
<1>1. PICK s \in {"running", "unlaunched"} :
        /\ snap' = [n \in DOMAIN snap \cup {Child(p)} |-> IF n = Child(p) THEN s ELSE snap[n]]
        /\ alive' = IF s = "running" THEN alive \cup {Child(p)} ELSE alive \ {Child(p)}
  BY DEF SpawnTeam, LaunchWorker
<1>2. QED
  BY <1>1

LEMMA SpawnPlaced ==
  ASSUME TypeOK, Placed, NEW p \in Callers, SpawnTeam(p)
  PROVE  Placed'
<1>1. /\ caller'[p].pc = "save" /\ caller'[p].aim = "dispatch" /\ Dispatch(p)
      /\ caller'[p].at = caller[p].at /\ caller'[p].next = caller[p].next
      /\ \A q \in Callers : q # p => caller'[q] = caller[q]
  BY SpawnTeamDoes DEF Dispatch
<1>2. /\ Root' = Root /\ Child(p) # <<>> /\ Last(Child(p)) = caller[p].next
      /\ caller[p].next # Handoff
  BY <1>1, ChildName DEF SpawnTeam, LaunchWorker, ToTeam, Root
<1>3. /\ DOMAIN snap' = DOMAIN snap \cup {Child(p)} /\ alive' \subseteq alive \cup {Child(p)}
      /\ Child(p) \in alive' => snap'[Child(p)] = "running"
      /\ \A n \in DOMAIN snap : n # Child(p) => snap'[n] = snap[n]
  BY SpawnLaunches
<1>4. \A n \in alive' : snap'[n] = "running"
  BY <1>3 DEF Placed, TypeOK, Worktree
<1>5. \A n \in DOMAIN snap' : n # <<>> /\ (n = Root' \/ Last(n) # Handoff)
  BY <1>2, <1>3 DEF Placed
<1>6. \A q \in Callers : q # p => /\ At(q)' = At(q) /\ Child(q)' = Child(q)
                                  /\ (Dispatch(q)' <=> Dispatch(q))
  BY <1>1 DEF At, Child, Dispatch
<1>7. At(p)' = At(p) /\ Child(p)' = Child(p) /\ At(p) \in DOMAIN snap
  BY <1>1 DEF At, Child, Placed
<1>8. QED
  BY <1>1, <1>2, <1>3, <1>4, <1>5, <1>6, <1>7 DEF Placed

LEMMA PlacedStep ==
  ASSUME ScenesAssumption, IInv, Next
  PROVE  TypeOK' /\ (Calm \/ Placed')
<1> USE DEF IInv
<1>1. ASSUME NEW p \in Callers, Step(p) \/ LockTimeout(p) \/ SessionDies(p)
      PROVE  TypeOK' /\ (Calm \/ Placed')
  <2>1. CASE Monitor(p)
    <3>1. TypeOK' /\ Looking(p, Root) /\ UNCHANGED work
      BY <2>1, MonitorDoes
    <3>2. QED
      BY <3>1, MovePlaced DEF Looking, At, TypeOK, Worktree, work
  <2>2. CASE ShutdownChildren(p)
    BY <2>2, ShutdownChildrenDoes, EndPlaced DEF ShutdownChildren
  <2>3. CASE Reassign(p)
    <3>1. TypeOK' /\ DOMAIN snap' = DOMAIN snap /\ scene' = scene /\ alive' = alive \ {At(p)}
          /\ \A n \in DOMAIN snap : n # At(p) => snap'[n] = snap[n]
      BY <2>3, ReassignDoes DEF Reassign
    <3>2. At(p) \in DOMAIN snap /\ Root' = Root /\ alive \subseteq DOMAIN snap
      BY <3>1, <2>3 DEF Placed, Reassign, Root, TypeOK, Worktree
    <3>3. \A n \in alive' : snap'[n] = "running"
      BY <3>1, <3>2 DEF Placed
    <3>4. ASSUME NEW q \in Callers
          PROVE  /\ (Dispatch(q) \/ caller[q].pc \in {"reassign", "follow", "poll"} =>
                       At(q) \in DOMAIN snap)'
                 /\ (caller[q].pc = "save" =>
                       /\ caller[q].aim = "dispatch" /\ caller[q].next # Handoff
                       /\ Child(q) \in DOMAIN snap)'
      <4>1. CASE \A r \in Callers : Onward(r)
        BY <3>1, <4>1 DEF Placed, Onward, At, Child
      <4>2. CASE /\ caller'[p].pc = "dispatch" /\ caller'[p].at = caller[p].at
                 /\ \A r \in Callers : r # p => caller'[r] = caller[r]
        BY <3>1, <3>2, <4>2 DEF Placed, Dispatch, At, Child
      <4>3. QED
        BY <2>3, <4>1, <4>2, ReassignDoes
    <3>5. QED
      BY <3>1, <3>2, <3>3, <3>4 DEF Placed
  <2>4. CASE FirstLook(p) \/ TaskEnds(p)
    BY <2>4, FirstLookDoes, TaskEndsDoes
  <2>5. CASE Locking(p)
    BY <2>5, LinkLockDoes, SeeDeadOwnerDoes, ClaimDoes, RecheckDoes, UnlinkDoes, ReleaseDoes
    DEF Locking
  <2>6. CASE ClaimTask(p)
    BY <2>6, ClaimTaskDoes, MovePlaced DEF ClaimTask, work, Dispatch
  <2>7. CASE PromoteOutput(p) \/ LeaveTask(p)
    BY <2>7, PromoteOutputDoes, LeaveTaskDoes
  <2>8. CASE SpawnTeam(p)
    BY <2>8, SpawnPlaced, SpawnTeamDoes
  <2>9. CASE SaveTeam(p)
    <3>1. Child(p) \in DOMAIN snap
      BY <2>9 DEF SaveTeam, Placed
    <3>2. QED
      BY <2>9, <3>1, SaveTeamDoes, MovePlaced DEF SaveTeam, At
  <2>10. CASE ReuseTeam(p)
    <3>1. CASE /\ Child(p) \in file /\ caller'[p].pc = "follow" /\ caller'[p].at = Child(p)
               /\ \A q \in Callers : q # p => caller'[q] = caller[q]
      BY <2>10, <3>1, ReuseTeamDoes, MovePlaced DEF ReuseTeam, At, work, TypeOK, Worktree
    <3>2. QED
      BY <2>10, <3>1, ReuseTeamDoes
  <2>11. CASE Completing(p)
    BY <2>11, KeepAnswerDoes, WriteAnswerDoes, WriteRecordDoes, LeaseLostDoes DEF Completing
  <2>12. CASE Poll(p)
    <3>1. Found(p)
      BY <2>12, PollDoes
    <3>2. CASE At(p) \in file /\ Looking(p, At(p))
      BY <3>1, <3>2, MovePlaced DEF Found, Looking, At, work, TypeOK, Worktree
    <3>3. QED
      BY <3>1, <3>2 DEF Found
  <2>13. CASE LockTimeout(p)
    BY <2>13, LockTimeoutDoes
  <2>14. CASE SessionDies(p)
    <3>1. /\ TypeOK' /\ caller'[p].pc = "idle" /\ \A q \in Callers : Onward(q)
          /\ \A q \in Callers : q # p => caller'[q] = caller[q]
      BY <2>14, SessionDiesDoes
    <3>2. scene' = scene /\ snap' = snap /\ alive' \subseteq alive
      BY <2>14 DEF SessionDies
    <3>3. (Dispatch(p) \/ caller[p].pc \in {"reassign", "follow", "poll"} =>
             At(p) \in DOMAIN snap)'
      BY <3>1, <3>2 DEF Onward, Placed, At
    <3>4. QED
      BY <3>1, <3>2, <3>3, MovePlaced
  <2>15. CASE SpawnRefused(p)
    BY <2>15, SpawnRefusedDoes
  <2>16. CASE SpawnFails(p)
    <3>1. /\ TypeOK' /\ caller'[p].pc = "threw" /\ \A q \in Callers : Onward(q)
          /\ \A q \in Callers : q # p => caller'[q] = caller[q]
      BY <2>16, SpawnFailsDoes
    <3>2. scene' = scene /\ snap' = snap /\ alive' \subseteq alive
      BY <2>16 DEF SpawnFails
    <3>3. (Dispatch(p) \/ caller[p].pc \in {"reassign", "follow", "poll"} =>
             At(p) \in DOMAIN snap)'
      BY <3>1, <3>2 DEF Onward, Placed, At
    <3>4. QED
      BY <3>1, <3>2, <3>3, MovePlaced
  <2>17. QED
    BY <1>1, <2>1, <2>2, <2>3, <2>4, <2>5, <2>6, <2>7, <2>8, <2>9, <2>10, <2>11, <2>12,
       <2>13, <2>14, <2>15, <2>16
    DEF Step, Dispatching
<1>2. ASSUME NEW n \in alive, WorkerEnds(n) \/ WorkerDies(n)
      PROVE  TypeOK' /\ Placed'
  <2>1. TypeOK' /\ caller' = caller
    BY <1>2, WorkerEndsDoes, WorkerDiesDoes
  <2>2. /\ scene' = scene /\ DOMAIN snap' = DOMAIN snap /\ alive' = alive \ {n}
        /\ \A m \in DOMAIN snap : m # n => snap'[m] = snap[m]
    BY <1>2 DEF WorkerEnds, WorkerDies
  <2>3. \A m \in alive' : snap'[m] = snap[m]
    BY <2>2 DEF TypeOK, Worktree
  <2>4. QED
    BY <2>1, <2>2, <2>3, EndPlaced
<1>3. CASE StrayEnds
  BY <1>3, StrayEndsDoes
<1>4. QED
  BY <1>1, <1>2, <1>3, SceneType DEF Next, TypeOK

----------------------------------------------------------------------------
(* The lock                                                                *)

(* A session is its own owner, and lives.                                  *)
LEMMA OwnLife ==
  ASSUME Lives, NEW p \in Callers, NEW q \in Callers
  PROVE  /\ Me(p) \in Owners /\ Me(p).who = p /\ Me(p).life = session[p]
         /\ ~Dead(Me(p)) /\ Me(p) # Nobody
         /\ (Me(p) = Me(q) => p = q)
  BY DEF Me, Owners, Lives, Dead, Nobody

LEMMA Alone ==
  ASSUME TypeOK, Locked, NEW p \in Callers, NEW q \in Callers,
         caller[p].pc \in Within, caller[q].pc \in Within
  PROVE  p = q
  BY OwnLife DEF TypeOK, Locked

(* A dead owner of the lock is gone, and the other way round.              *)
LEMMA GoneIsDead ==
  ASSUME TypeOK, NEW o \in Owners, o.life <= session[o.who], Gone(o)
  PROVE  Dead(o)
  BY DEF TypeOK, Lives, Owners, Gone, Dead

LEMMA DeadIsGone ==
  ASSUME TypeOK, NEW o, Dead(o)
  PROVE  Gone(o) /\ o # Nobody
  BY DEF TypeOK, Lives, Owners, Gone, Dead, Nobody

LEMMA FreeLocked ==
  ASSUME Locked, Free
  PROVE  Locked'
<1>1. /\ \A q \in Callers : Me(q)' = Me(q)
      /\ \A o : Dead(o)' <=> Dead(o)
      /\ \A o : Chain(o)' = Chain(o)
  BY DEF Free, guard, Me, Dead, Chain
<1>2. QED
  BY <1>1 DEF Free, Outside, Locked, guard

(* The lock is free, or its owner was unlinked: nobody else counts on it.  *)
LEMMA LockPasses ==
  ASSUME TypeOK, Locked, NEW p \in Callers, session' = session, claims' = claims,
         lock' \in {Nobody, Me(p)},
         \A q \in Callers : q # p =>
            /\ caller'[q] = caller[q]
            /\ caller[q].pc \notin Within \cup {"recheck", "unlink"},
         caller'[p].pc \notin Claiming, caller'[p].pc \in Within => lock' = Me(p)
  PROVE  Locked'
<1>1. /\ \A q \in Callers : Me(q)' = Me(q)
      /\ \A o : Dead(o)' <=> Dead(o)
  BY DEF Me, Dead
<1>2. lock' # Nobody => lock'.life <= session[lock'.who]
  BY OwnLife DEF TypeOK, Lives
<1>3. QED
  BY <1>1, <1>2 DEF Locked

LEMMA LinkLocked ==
  ASSUME TypeOK, Locked, NEW p \in Callers, LinkLock(p)
  PROVE  Locked'
<1>1. CASE lock = Nobody
  <2>1. lock' = Me(p) /\ caller'[p].pc = "inside" /\ \A q \in Callers : q # p => caller'[q] = caller[q]
    BY <1>1, SeatFields DEF LinkLock, TypeOK
  <2>2. \A q \in Callers : caller[q].pc \notin Within \cup {"recheck", "unlink"}
    BY <1>1, OwnLife, DeadIsGone DEF TypeOK, Locked
  <2>3. QED
    BY <2>1, <2>2, LockPasses DEF LinkLock, fate
<1>2. CASE lock # Nobody
  <2>1. Go(p, "lock") /\ UNCHANGED lock
    BY <1>2 DEF LinkLock
  <2>2. caller'[p].pc = "lock" /\ \A q \in Callers : q # p => caller'[q] = caller[q]
    BY <2>1, SeatFields DEF TypeOK
  <2>3. Free
    BY <2>1, <2>2 DEF Free, Outside, LinkLock, guard, fate
  <2>4. QED
    BY <2>3, FreeLocked
<1>3. QED
  BY <1>1, <1>2

LEMMA SeeLocked ==
  ASSUME TypeOK, Locked, NEW p \in Callers, SeeDeadOwner(p)
  PROVE  Locked'
<1>1. /\ caller'[p].pc = "claim" /\ caller'[p].gen = lock
      /\ \A q \in Callers : q # p => caller'[q] = caller[q]
  BY SeeDeadOwnerDoes
<1>2. Dead(lock)
  <2>1. lock \in Owners /\ lock.life <= session[lock.who] /\ Gone(lock)
    BY DEF SeeDeadOwner, TypeOK, Lives, Locked, Gone
  <2>2. QED
    BY <2>1, GoneIsDead
<1>3. /\ \A q \in Callers : Me(q)' = Me(q)
      /\ \A o : Dead(o)' <=> Dead(o)
      /\ \A o : Chain(o)' = Chain(o)
  BY DEF SeeDeadOwner, guard, fate, Me, Dead, Chain
<1>4. QED
  BY <1>1, <1>2, <1>3 DEF Locked, SeeDeadOwner, guard, fate

(* The claim goes to one caller: the one before it is dead.                *)
LEMMA ClaimLocked ==
  ASSUME TypeOK, Locked, NEW p \in Callers, Claim(p)
  PROVE  Locked'
<1>1. CASE lock = caller[p].gen /\ Claimable(lock)
  <2>1. /\ claims' = Extend(lock, p) /\ caller'[p].pc = "recheck" /\ caller'[p].gen = lock
        /\ \A q \in Callers : q # p => caller'[q] = caller[q]
    <3>1. claims' = Extend(lock, p) /\ Go(p, "recheck")
      BY <1>1 DEF Claim
    <3>2. Takes(p, Moved(p, "recheck"))
      BY <3>1, SeatGoes DEF TypeOK
    <3>3. Moved(p, "recheck").pc = "recheck" /\ Moved(p, "recheck").gen = caller[p].gen
      BY DEF Moved, TypeOK, Seated, Seats
    <3>4. QED
      BY <1>1, <3>1, <3>2, <3>3 DEF Takes
  <2>2. Dead(lock)
    BY <1>1 DEF Claim, Locked
  <2>3. \A q \in Callers : caller[q].pc \notin Within \cup {"recheck", "unlink"}
    <3>1. SUFFICES ASSUME NEW q \in Callers, caller[q].pc \in Within \cup {"recheck", "unlink"}
                   PROVE  FALSE
      OBVIOUS
    <3>2. CASE caller[q].pc \in Within
      BY <2>2, <3>2, OwnLife DEF Locked, TypeOK
    <3>3. CASE caller[q].pc \in {"recheck", "unlink"}
      <4>1. Chain(lock) # <<>> /\ Chain(lock)[Len(Chain(lock))] = Me(q)
        BY <3>3 DEF Locked
      <4>2. ~Gone(Me(q))
        BY DEF Gone, Me
      <4>3. QED
        BY <1>1, <4>1, <4>2 DEF Claimable
    <3>4. QED
      BY <3>1, <3>2, <3>3
  <2>4. Chain(lock)' # <<>> /\ Chain(lock)'[Len(Chain(lock)')] = Me(p)
    <3>1. lock' = lock /\ Chain(lock) \in Seq(Owners) /\ Me(p) \in Owners
      BY OwnLife DEF Claim, Chain, TypeOK, Lives
    <3>2. Chain(lock)' = Append(Chain(lock), Me(p))
      BY <2>1, <3>1 DEF Extend, Chain
    <3>3. QED
      BY <3>1, <3>2
  <2>5. /\ \A q \in Callers : Me(q)' = Me(q)
        /\ \A o : Dead(o)' <=> Dead(o)
        /\ lock' = lock /\ session' = session
    BY DEF Claim, fate, Me, Dead
  <2>6. QED
    BY <2>1, <2>2, <2>3, <2>4, <2>5 DEF Locked
<1>2. CASE ~(lock = caller[p].gen /\ Claimable(lock))
  <2>1. Stop(p) /\ UNCHANGED claims
    BY <1>2 DEF Claim
  <2>2. Free
    BY <2>1, StopIsQuiet DEF Free, Claim, guard, fate, TypeOK
  <2>3. QED
    BY <2>2, FreeLocked
<1>3. QED
  BY <1>1, <1>2

LEMMA RecheckLocked ==
  ASSUME TypeOK, Locked, NEW p \in Callers, Recheck(p)
  PROVE  Locked'
<1>1. CASE Stop(p)
  <2>1. Free
    BY <1>1, StopIsQuiet DEF Free, Recheck, guard, fate, TypeOK
  <2>2. QED
    BY <2>1, FreeLocked
<1>2. CASE Go(p, "unlink")
  <2>1. Takes(p, Moved(p, "unlink"))
    BY <1>2, SeatGoes DEF TypeOK
  <2>2. Moved(p, "unlink").pc = "unlink" /\ Moved(p, "unlink").gen = caller[p].gen
    BY DEF Moved, TypeOK, Seated, Seats
  <2>3. /\ \A q \in Callers : Me(q)' = Me(q)
        /\ \A o : Dead(o)' <=> Dead(o)
        /\ \A o : Chain(o)' = Chain(o)
    BY DEF Recheck, guard, fate, Me, Dead, Chain
  <2>4. QED
    BY <2>1, <2>2, <2>3 DEF Takes, Locked, Recheck, guard, fate
<1>3. QED
  BY <1>1, <1>2 DEF Recheck

(* What is unlinked is the lock of the dead owner, and nobody else has     *)
(* come as far.                                                            *)
LEMMA UnlinkLocked ==
  ASSUME TypeOK, Locked, NEW p \in Callers, Unlink(p)
  PROVE  Locked'
<1>1. /\ lock' = Nobody /\ caller'[p].pc = "create"
      /\ \A q \in Callers : q # p => caller'[q] = caller[q]
  BY UnlinkDoes DEF Unlink
<1>2. ASSUME NEW q \in Callers, q # p
      PROVE  caller[q].pc \notin Within \cup {"recheck", "unlink"}
  BY <1>2, OwnLife DEF Unlink, Locked, TypeOK
<1>3. QED
  BY <1>1, <1>2, LockPasses DEF Unlink, fate

LEMMA ReleaseLocked ==
  ASSUME TypeOK, Locked, NEW p \in Callers, Release(p)
  PROVE  Locked'
<1>1. lock = Me(p) /\ lock' = Nobody
  BY DEF Release, Locked
<1>2. ASSUME NEW q \in Callers, q # p
      PROVE  caller[q].pc \notin Within \cup {"recheck", "unlink"}
  BY <1>1, <1>2, OwnLife DEF Locked, TypeOK
<1>3. caller'[p].pc \notin Within \cup Claiming /\ \A q \in Callers : q # p => caller'[q] = caller[q]
  BY ReleaseDoes DEF Tasking
<1>4. QED
  BY <1>1, <1>2, <1>3, LockPasses DEF Release, fate

LEMMA DeathLocked ==
  ASSUME TypeOK, Locked, NEW p \in Callers, SessionDies(p)
  PROVE  Locked'
<1>1. caller'[p].pc = "idle" /\ \A q \in Callers : q # p => caller'[q] = caller[q]
  BY SessionDiesDoes
<1>2. /\ session' = [session EXCEPT ![p] = @ + 1] /\ session \in [Callers -> Nat \ {0}]
      /\ lock' = lock /\ claims' = claims
  BY DEF SessionDies, guard, TypeOK, Lives
<1>3. \A q \in Callers : /\ session[q] <= session'[q]
                         /\ q # p => Me(q)' = Me(q)
  BY <1>2 DEF Me
<1>4. \A o : Dead(o) => Dead(o)'
  BY <1>2, <1>3 DEF Dead, Owners
<1>5. lock' # Nobody => lock'.life <= session'[lock'.who]
  BY <1>2, <1>3 DEF Locked, TypeOK, Lives, Owners
<1>6. \A o : Chain(o)' = Chain(o)
  BY <1>2 DEF Chain
<1>7. QED
  BY <1>1, <1>2, <1>3, <1>4, <1>5, <1>6 DEF Locked

LEMMA LockedStep ==
  ASSUME ScenesAssumption, IInv, Next
  PROVE  Locked'
<1> USE DEF IInv
<1>1. ASSUME NEW p \in Callers, Step(p) \/ LockTimeout(p) \/ SessionDies(p)
      PROVE  Free \/ Locked'
  <2>1. CASE Monitor(p) \/ ShutdownChildren(p) \/ Reassign(p) \/ FirstLook(p) \/ TaskEnds(p)
    BY <2>1, MonitorDoes, ShutdownChildrenDoes, ReassignDoes, FirstLookDoes, TaskEndsDoes
  <2>2. CASE Poll(p) \/ LockTimeout(p)
    BY <2>2, PollDoes, LockTimeoutDoes DEF Found
  <2>3. CASE Locking(p)
    BY <2>3, LinkLocked, SeeLocked, ClaimLocked, RecheckLocked, UnlinkLocked, ReleaseLocked
    DEF Locking
  <2>4. CASE Dispatching(p)
    BY <2>4, ClaimTaskDoes, PromoteOutputDoes, LeaveTaskDoes, SpawnTeamDoes,
       SpawnRefusedDoes, SpawnFailsDoes, SaveTeamDoes, ReuseTeamDoes
    DEF Dispatching
  <2>5. CASE Completing(p)
    BY <2>5, KeepAnswerDoes, WriteAnswerDoes, WriteRecordDoes, LeaseLostDoes DEF Completing
  <2>6. CASE SessionDies(p)
    BY <2>6, DeathLocked
  <2>7. QED
    BY <1>1, <2>1, <2>2, <2>3, <2>4, <2>5, <2>6 DEF Step
<1>2. ASSUME NEW n \in alive, WorkerEnds(n) \/ WorkerDies(n)
      PROVE  Free
  BY <1>2, WorkerEndsDoes, WorkerDiesDoes
<1>3. StrayEnds => Free
  BY StrayEndsDoes
<1>4. QED
  BY <1>1, <1>2, <1>3, FreeLocked, SceneType DEF Next, TypeOK

----------------------------------------------------------------------------
(* The record                                                              *)

LEMMA MuteRecorded ==
  ASSUME Recorded, Mute
  PROVE  Recorded'
<1>1. Completed' <=> Completed
  BY DEF Mute, answer, Completed
<1>2. QED
  BY <1>1 DEF Mute, Unheard, answer, Recorded, At

(* The holder of the lock has written the record, or its output.           *)
LEMMA HolderRecorded ==
  ASSUME TypeOK, Locked, Recorded, Free, NEW p \in Callers, caller[p].pc \in Within,
         \A q \in Callers : q # p => caller'[q] = caller[q],
         record'.status # "none", handoffs' = handoffs, Native(p)' => Native(p),
         caller'[p].pc = "done"
  PROVE  Recorded'
<1>1. \A q \in Callers : q # p => caller'[q].pc \notin Within
  BY Alone DEF Free, Outside
<1>2. \A q \in Callers : Native(q)' => Native(q)
  BY DEF Native
<1>3. QED
  BY <1>1, <1>2 DEF Recorded

LEMMA ClaimRecorded ==
  ASSUME TypeOK, Locked, Recorded, NEW p \in Callers, ClaimTask(p)
  PROVE  Recorded'
<1>1. /\ record' = [status |-> "pending", token |-> caller'[p].at]
      /\ caller'[p].pc = "begin" /\ caller'[p].aim = "none" /\ Free
      /\ \A q \in Callers : q # p => caller'[q] = caller[q]
  BY ClaimTaskDoes
<1>2. \A q \in Callers : ~Native(q)
  BY DEF ClaimTask, Recorded
<1>3. \A q \in Callers : q # p => caller'[q].pc \notin Within
  BY <1>1, Alone DEF ClaimTask, ToClaude, Inside
<1>4. handoffs' > 0
  BY DEF ClaimTask, TypeOK, Answer
<1>5. \A q \in Callers : Native(q)' => q = p
  BY <1>1, <1>2 DEF Native
<1>6. record'.status = "pending"
  BY <1>1
<1>7. QED
  BY <1>1, <1>3, <1>4, <1>5, <1>6 DEF Recorded, At

LEMMA RecordedStep ==
  ASSUME ScenesAssumption, IInv, Next
  PROVE  Recorded'
<1> USE DEF IInv
<1>1. ASSUME NEW p \in Callers, Step(p) \/ LockTimeout(p) \/ SessionDies(p)
      PROVE  Mute \/ Recorded'
  <2>1. CASE Monitor(p) \/ ShutdownChildren(p) \/ Reassign(p) \/ FirstLook(p) \/ TaskEnds(p)
    BY <2>1, MonitorDoes, ShutdownChildrenDoes, ReassignDoes, FirstLookDoes, TaskEndsDoes
  <2>2. CASE Poll(p) \/ LockTimeout(p) \/ SessionDies(p)
    BY <2>2, PollDoes, LockTimeoutDoes, SessionDiesDoes DEF Found
  <2>3. CASE Locking(p)
    BY <2>3, LinkLockDoes, SeeDeadOwnerDoes, ClaimDoes, RecheckDoes, UnlinkDoes, ReleaseDoes
    DEF Locking
  <2>4. CASE ClaimTask(p)
    BY <2>4, ClaimRecorded
  <2>5. CASE PromoteOutput(p)
    <3>1. record'.status = "completed"
      BY <2>5 DEF PromoteOutput, TypeOK, Answer
    <3>2. /\ Free /\ caller'[p].pc = "done" /\ caller'[p].aim = caller[p].aim
          /\ \A q \in Callers : q # p => caller'[q] = caller[q]
      BY <2>5, PromoteOutputDoes
    <3>3. handoffs' = handoffs /\ caller[p].pc = "inside"
      BY <2>5 DEF PromoteOutput, ToClaude, Inside
    <3>4. QED
      BY <3>1, <3>2, <3>3, HolderRecorded DEF Native
  <2>6. CASE SpawnTeam(p)
    <3>1. /\ Free /\ caller'[p].pc = "save" /\ caller'[p].aim = "dispatch"
          /\ \A q \in Callers : q # p => caller'[q] = caller[q]
      BY <2>6, SpawnTeamDoes
    <3>2. UNCHANGED answer /\ ~Completed /\ caller[p].pc = "inside"
      BY <2>6 DEF SpawnTeam, LaunchWorker, ToTeam, Inside
    <3>3. \A q \in Callers : q # p => caller'[q].pc \notin Within
      BY <3>1, <3>2, Alone DEF Free, Outside
    <3>4. /\ ~Completed' /\ \A q \in Callers : Native(q)' => Native(q)
      BY <3>1, <3>2 DEF Native, Completed, answer
    <3>5. QED
      BY <3>1, <3>2, <3>3, <3>4 DEF Recorded, answer
  <2>7. CASE LeaveTask(p) \/ SpawnRefused(p) \/ SpawnFails(p) \/ SaveTeam(p) \/ ReuseTeam(p)
             \/ LeaseLost(p)
    BY <2>7, LeaveTaskDoes, SpawnRefusedDoes, SpawnFailsDoes, SaveTeamDoes, ReuseTeamDoes,
       LeaseLostDoes
  <2>8. CASE KeepAnswer(p)
    <3>1. /\ Free /\ caller'[p].pc = "done" /\ caller'[p].aim = caller[p].aim
          /\ \A q \in Callers : q # p => caller'[q] = caller[q]
      BY <2>8, KeepAnswerDoes
    <3>2. /\ handoffs' = handoffs /\ caller[p].pc = "inside"
          /\ record' = record /\ record.status = "completed"
      BY <2>8 DEF KeepAnswer, Inside
    <3>3. QED
      BY <3>1, <3>2, HolderRecorded DEF Native
  <2>9. CASE WriteAnswer(p)
    <3>1. /\ Free /\ caller'[p].pc = "record" /\ caller'[p].aim = caller[p].aim
          /\ caller'[p].at = caller[p].at
          /\ \A q \in Callers : q # p => caller'[q] = caller[q]
      BY <2>9, WriteAnswerDoes
    <3>2. /\ handoffs' = handoffs /\ caller[p].pc = "inside" /\ output' = At(p)
          /\ record' = record /\ record.status # "completed"
      BY <2>9 DEF WriteAnswer, Inside
    <3>3. \A q \in Callers : q # p => caller'[q].pc \notin Within
      BY <3>1, <3>2, Alone DEF Free, Outside
    <3>4. \A q \in Callers : Native(q)' => Native(q)
      BY <3>1, <3>2 DEF Native
    <3>5. QED
      BY <3>1, <3>2, <3>3, <3>4 DEF Recorded, At
  <2>10. CASE WriteRecord(p)
    <3>1. record'.status = "completed"
      BY <2>10 DEF WriteRecord
    <3>2. /\ Free /\ caller'[p].pc = "done" /\ caller'[p].aim = caller[p].aim
          /\ \A q \in Callers : q # p => caller'[q] = caller[q]
      BY <2>10, WriteRecordDoes
    <3>3. handoffs' = handoffs /\ caller[p].pc = "record"
      BY <2>10 DEF WriteRecord
    <3>4. QED
      BY <3>1, <3>2, <3>3, HolderRecorded DEF Native
  <2>11. QED
    BY <1>1, <2>1, <2>2, <2>3, <2>4, <2>5, <2>6, <2>7, <2>8, <2>9, <2>10
    DEF Step, Dispatching, Completing
<1>2. ASSUME NEW n \in alive, WorkerEnds(n) \/ WorkerDies(n)
      PROVE  Mute
  BY <1>2, WorkerEndsDoes, WorkerDiesDoes
<1>3. StrayEnds => Mute
  BY StrayEndsDoes
<1>4. QED
  BY <1>1, <1>2, <1>3, MuteRecorded, SceneType DEF Next, TypeOK

----------------------------------------------------------------------------
(* The chain of attempts                                                   *)

(* Nothing is launched or ends: the links are as bad and as kept as before.*)
LEMMA LinksStay ==
  ASSUME UNCHANGED <<scene, snap, alive>>, file \subseteq file', Completed => Completed'
  PROVE  /\ Root' = Root
         /\ \A n : Seen(n)' = Seen(n) /\ (Bad(n)' <=> Bad(n)) /\ NextOf(n)' = NextOf(n)
         /\ \A n : Kept(n) => Kept(n)'
<1>1. Root' = Root
  BY DEF Root
<1>2. \A n : Seen(n)' = Seen(n)
  BY DEF Seen
<1>3. QED
  BY <1>1, <1>2 DEF Bad, NextOf, Kept

LEMMA CalmReplacing ==
  ASSUME Placed, Replacing, Calm
  PROVE  Replacing'
<1>1. SUFFICES ASSUME ~alarmed', Chained, Pursued
               PROVE  Chained' /\ Pursued'
  BY DEF Replacing, Calm
<1>2. /\ Root' = Root
      /\ \A n : Seen(n)' = Seen(n) /\ (Bad(n)' <=> Bad(n)) /\ NextOf(n)' = NextOf(n)
      /\ \A n : Kept(n) => Kept(n)'
  BY LinksStay DEF Calm
<1>3. Chained'
  <2>1. PICK t \in DOMAIN snap : Top(t)
    BY <1>1 DEF Chained
  <2>2. \A q \in Callers : caller'[q].pc = "save" => caller[q].pc = "save" /\ Child(q)' = Child(q)
    BY DEF Calm, Onward, Child, At
  <2>3. Top(t)'
    BY <1>2, <2>1, <2>2 DEF Calm, Top
  <2>4. QED
    BY <2>1, <2>3 DEF Calm, Chained
<1>4. Pursued'
  BY <1>1, <1>2 DEF Calm, Onward, Pursued, At, Dispatch
<1>5. QED
  BY <1>3, <1>4

(* A caller sees that the link n failed.                                   *)
LEMMA LookReplacing ==
  ASSUME TypeOK, Placed, Replacing, NEW p \in Callers, NEW n \in DOMAIN snap, Looking(p, n),
         Kept(n), n = Root \/ caller[p].pc \notin {"idle", "exceeded"},
         UNCHANGED work, UNCHANGED answer, alarmed => alarmed'
  PROVE  Replacing'
<1>1. SUFFICES ASSUME ~alarmed', Chained, Pursued
               PROVE  Chained' /\ Pursued'
  BY DEF Replacing
<1>2. /\ Root' = Root
      /\ \A m : Seen(m)' = Seen(m) /\ (Bad(m)' <=> Bad(m)) /\ NextOf(m)' = NextOf(m)
      /\ \A m : Kept(m) => Kept(m)'
  BY LinksStay DEF work, answer, Completed
<1>3. Bad(n) /\ caller'[p].cause = Seen(n)
  BY <1>1 DEF Looking, Bad, Failed, Seen, Placed
<1>4. Chained'
  <2>1. PICK t \in DOMAIN snap : Top(t)
    BY <1>1 DEF Chained
  <2>2. \A q \in Callers : caller'[q].pc = "save" => caller[q].pc = "save" /\ Child(q)' = Child(q)
    BY DEF Looking, Child, At
  <2>3. Top(t)'
    BY <1>2, <2>1, <2>2 DEF Top, work, answer
  <2>4. QED
    BY <2>1, <2>3 DEF Chained, work
<1>5. Bad(Root)'
  BY <1>1, <1>2, <1>3 DEF Pursued
<1>6. ASSUME NEW q \in Callers
      PROVE  /\ (caller[q].pc = "reassign" \/ Dispatch(q) => Bad(At(q)) /\ Kept(At(q)))'
             /\ (caller[q].pc = "reassign" => caller[q].cause = Seen(At(q)))'
             /\ (Dispatch(q) => caller[q].next = NextOf(At(q)))'
             /\ (caller[q].pc \in {"follow", "poll"} => Kept(At(q)))'
  <2>1. CASE q = p
    BY <1>1, <1>2, <1>3, <2>1 DEF Looking, Pursued, At
  <2>2. CASE q # p
    <3>1. caller'[q] = caller[q]
      BY <2>2 DEF Looking
    <3>2. QED
      BY <1>1, <1>2, <3>1 DEF Pursued, At, Dispatch
  <2>3. QED
    BY <2>1, <2>2
<1>7. QED
  BY <1>4, <1>5, <1>6 DEF Pursued

(* A worker that ran ends, however it does: no bad link is touched.        *)
LEMMA EndReplacing ==
  ASSUME TypeOK, Replacing, NEW n \in alive, scene' = scene, caller' = caller, file' = file,
         handoffs' = handoffs, alarmed' = alarmed, Completed <=> Completed',
         DOMAIN snap' = DOMAIN snap, alive' = alive \ {n},
         \A m \in DOMAIN snap : m # n => snap'[m] = snap[m]
  PROVE  Replacing'
<1>1. SUFFICES ASSUME ~alarmed', Chained, Pursued
               PROVE  Chained' /\ Pursued'
  BY DEF Replacing
<1>2. /\ Root' = Root /\ \A m : Kept(m)' <=> Kept(m)
      /\ \A q \in Callers : At(q)' = At(q) /\ Child(q)' = Child(q) /\ (Dispatch(q)' <=> Dispatch(q))
  BY DEF Root, Kept, At, Child, Dispatch
<1>3. \A m \in DOMAIN snap : m # n => Seen(m)' = Seen(m) /\ NextOf(m)' = NextOf(m)
  BY DEF Seen, NextOf
<1>4. \A m : Bad(m) => Bad(m)' /\ Seen(m)' = Seen(m) /\ NextOf(m)' = NextOf(m)
  BY <1>3 DEF Bad
<1>5. Chained'
  <2>1. PICK t \in DOMAIN snap : Top(t)
    BY <1>1 DEF Chained
  <2>2. Top(t)'
    BY <1>2, <1>4, <2>1 DEF Top
  <2>3. QED
    BY <2>1, <2>2 DEF Chained
<1>6. Pursued'
  BY <1>1, <1>2, <1>4 DEF Pursued
<1>7. QED
  BY <1>5, <1>6

(* The workers of the child teams are stopped when the answer is there.    *)
LEMMA ShutdownReplacing ==
  ASSUME TypeOK, Replacing, NEW p \in Callers, ShutdownChildren(p)
  PROVE  Replacing'
<1>1. SUFFICES ASSUME ~alarmed', Chained, Pursued
               PROVE  Chained' /\ Pursued'
  BY DEF Replacing, ShutdownChildren, fate
<1>2. caller' = caller /\ scene' = scene /\ snap' = snap /\ handoffs' = handoffs
      /\ alive' = alive \ file /\ (Completed' <=> Completed)
  BY DEF ShutdownChildren, answer, Completed
<1>3. Completed
  <2>1. DOMAIN snap # {Root}
    BY DEF ShutdownChildren, TypeOK, Worktree
  <2>2. snap[Root] # "completed"
    BY <1>1, <2>1 DEF Pursued, Bad, Failed, Seen
  <2>3. QED
    BY <2>2 DEF ShutdownChildren
<1>4. /\ Root' = Root /\ \A m : Kept(m)'
      /\ \A q \in Callers : At(q)' = At(q) /\ Child(q)' = Child(q) /\ (Dispatch(q)' <=> Dispatch(q))
  BY <1>2, <1>3 DEF Root, Kept, At, Child, Dispatch
<1>5. \A m : Bad(m) => Bad(m)' /\ Seen(m)' = Seen(m) /\ NextOf(m)' = NextOf(m)
  BY <1>2 DEF Bad, Seen, NextOf
<1>6. Chained'
  <2>1. PICK t \in DOMAIN snap : Top(t)
    BY <1>1 DEF Chained
  <2>2. Top(t)'
    BY <1>2, <1>4, <1>5, <2>1 DEF Top
  <2>3. QED
    BY <1>2, <2>1, <2>2 DEF Chained
<1>7. Pursued'
  BY <1>1, <1>2, <1>4, <1>5 DEF Pursued
<1>8. QED
  BY <1>6, <1>7

(* What is left of a failed worker is stopped: it is dead already, and the *)
(* plan is the one for the failure that was seen.                          *)
LEMMA ReassignReplacing ==
  ASSUME TypeOK, Placed, Replacing, NEW p \in Callers, Reassign(p)
  PROVE  Replacing'
<1>1. SUFFICES ASSUME ~alarmed', Chained, Pursued
               PROVE  Chained' /\ Pursued'
  BY DEF Replacing, Reassign, fate
<1>2. Bad(At(p)) /\ Kept(At(p)) /\ caller[p].cause = Seen(At(p))
  BY <1>1 DEF Reassign, Pursued
<1>3. UNCHANGED <<scene, snap, alive, file, handoffs>> /\ (Completed <=> Completed')
  BY <1>2 DEF Reassign, Bad, answer, Completed
<1>4. CASE \A q \in Callers : Onward(q)
  <2>1. Calm
    BY <1>3, <1>4 DEF Calm, Reassign, fate
  <2>2. QED
    BY <1>1, <2>1, CalmReplacing DEF Replacing
<1>5. CASE /\ caller'[p].pc = "dispatch" /\ caller'[p].at = caller[p].at
           /\ caller'[p].aim = caller[p].aim
           /\ caller'[p].next = Plan(Last(At(p)), caller[p].cause)
           /\ \A q \in Callers : q # p => caller'[q] = caller[q]
  <2>1. /\ Root' = Root
        /\ \A n : Seen(n)' = Seen(n) /\ (Bad(n)' <=> Bad(n)) /\ NextOf(n)' = NextOf(n)
        /\ \A n : Kept(n) => Kept(n)'
    BY <1>3, LinksStay
  <2>2. Chained'
    <3>1. PICK t \in DOMAIN snap : Top(t)
      BY <1>1 DEF Chained
    <3>2. \A q \in Callers : caller'[q].pc = "save" => caller[q].pc = "save" /\ Child(q)' = Child(q)
      BY <1>5 DEF Child, At
    <3>3. Top(t)'
      BY <1>3, <2>1, <3>1, <3>2 DEF Top
    <3>4. QED
      BY <1>3, <3>1, <3>3 DEF Chained
  <2>3. Bad(Root)'
    BY <1>1, <2>1 DEF Pursued, Reassign
  <2>4. ASSUME NEW q \in Callers
        PROVE  /\ (caller[q].pc = "reassign" \/ Dispatch(q) => Bad(At(q)) /\ Kept(At(q)))'
               /\ (caller[q].pc = "reassign" => caller[q].cause = Seen(At(q)))'
               /\ (Dispatch(q) => caller[q].next = NextOf(At(q)))'
               /\ (caller[q].pc \in {"follow", "poll"} => Kept(At(q)))'
    <3>1. CASE q = p
      BY <1>2, <1>5, <2>1, <3>1 DEF At, NextOf
    <3>2. CASE q # p
      <4>1. caller'[q] = caller[q]
        BY <1>5, <3>2
      <4>2. QED
        BY <1>1, <2>1, <4>1 DEF Pursued, At, Dispatch
    <3>3. QED
      BY <3>1, <3>2
  <2>5. QED
    BY <2>2, <2>3, <2>4 DEF Pursued
<1>6. QED
  BY <1>4, <1>5, ReassignDoes

(* A caller dispatches from the end of the chain: the links before it have *)
(* their replacement, and it is not the one that is asked for.             *)
LEMMA DispatchesTop ==
  ASSUME TypeOK, Placed, Chained, Pursued, NEW p \in Callers, Dispatch(p),
         NEW t \in DOMAIN snap, Top(t), At(p) # t
  PROVE  Child(p) \in DOMAIN snap /\ caller[p].next # Handoff
<1>1. At(p) \in DOMAIN snap /\ caller[p].next = NextOf(At(p))
  BY DEF Placed, Pursued
<1>2. Child(p) \in DOMAIN snap
  BY <1>1 DEF Top, Child
<1>3. Child(p) # Root /\ Last(Child(p)) = caller[p].next
  BY ChildName
<1>4. QED
  BY <1>2, <1>3 DEF Placed

LEMMA ClaimReplacing ==
  ASSUME TypeOK, Placed, Recorded, Replacing, NEW p \in Callers, ClaimTask(p)
  PROVE  Replacing'
<1>1. SUFFICES ASSUME ~alarmed', Chained, Pursued
               PROVE  Chained' /\ Pursued'
  BY DEF Replacing, ClaimTask, fate
<1>2. Dispatch(p) /\ caller[p].next = Handoff /\ caller[p].pc = "inside"
  BY DEF ClaimTask, ToClaude, Inside, Dispatch
<1>3. /\ caller'[p].pc = "begin" /\ caller'[p].aim = "none"
      /\ \A q \in Callers : q # p => caller'[q] = caller[q]
  BY ClaimTaskDoes
<1>4. UNCHANGED <<scene, snap, alive, file>> /\ ~Completed
  BY DEF ClaimTask, work, Completed
<1>5. /\ Root' = Root
      /\ \A n : Seen(n)' = Seen(n) /\ (Bad(n)' <=> Bad(n)) /\ NextOf(n)' = NextOf(n)
      /\ \A n : Kept(n) => Kept(n)'
  BY <1>4, LinksStay
<1>6. PICK t \in DOMAIN snap : Top(t)
  BY <1>1 DEF Chained
<1>7. At(p) = t
  BY <1>1, <1>2, <1>6, DispatchesTop
<1>8. Bad(t) /\ Kept(t) /\ NextOf(t) = Handoff
  BY <1>1, <1>2, <1>7 DEF Pursued
<1>9. \A q \in Callers : caller'[q].pc = "save" => caller[q].pc = "save" /\ Child(q)' = Child(q)
  BY <1>3 DEF Child, At
<1>10. Top(t)'
  BY <1>4, <1>5, <1>6, <1>8, <1>9 DEF Top
<1>11. Chained'
  BY <1>4, <1>6, <1>10 DEF Chained
<1>12. Bad(Root)'
  BY <1>1, <1>2, <1>5 DEF Pursued
<1>13. ASSUME NEW q \in Callers
       PROVE  /\ (caller[q].pc = "reassign" \/ Dispatch(q) => Bad(At(q)) /\ Kept(At(q)))'
              /\ (caller[q].pc = "reassign" => caller[q].cause = Seen(At(q)))'
              /\ (Dispatch(q) => caller[q].next = NextOf(At(q)))'
              /\ (caller[q].pc \in {"follow", "poll"} => Kept(At(q)))'
  <2>1. CASE q = p
    BY <1>3, <2>1 DEF Dispatch
  <2>2. CASE q # p
    <3>1. caller'[q] = caller[q]
      BY <1>3, <2>2
    <3>2. QED
      BY <1>1, <1>5, <3>1 DEF Pursued, At, Dispatch
  <2>3. QED
    BY <2>1, <2>2
<1>14. QED
  BY <1>11, <1>12, <1>13 DEF Pursued

(* The new team is the end of the chain, or was: its launch died before    *)
(* the team file.                                                          *)
LEMMA SpawnReplacing ==
  ASSUME TypeOK, Placed, Locked, Replacing, NEW p \in Callers, SpawnTeam(p)
  PROVE  Replacing'
<1>1. SUFFICES ASSUME ~alarmed', Chained, Pursued
               PROVE  Chained' /\ Pursued'
  BY DEF Replacing, SpawnTeam, LaunchWorker, fate
<1>2. /\ Dispatch(p) /\ caller[p].pc = "inside" /\ caller[p].next # Handoff
      /\ ~Completed /\ Child(p) \notin file
  BY DEF SpawnTeam, ToTeam, Inside, Dispatch
<1>3. /\ caller'[p].pc = "save" /\ caller'[p].aim = "dispatch" /\ Child(p)' = Child(p)
      /\ caller'[p].at = caller[p].at /\ caller'[p].next = caller[p].next
      /\ \A q \in Callers : q # p => caller'[q] = caller[q]
  BY SpawnTeamDoes DEF Child, At
<1>4. /\ scene' = scene /\ file' = file /\ handoffs' = handoffs /\ ~Completed'
      /\ DOMAIN snap' = DOMAIN snap \cup {Child(p)}
      /\ alive' \subseteq alive \cup {Child(p)} /\ alive \subseteq alive' \cup {Child(p)}
      /\ \A n \in DOMAIN snap : n # Child(p) => snap'[n] = snap[n]
  BY <1>2, SpawnLaunches DEF SpawnTeam, LaunchWorker, answer, Completed
<1>5. At(p) \in DOMAIN snap /\ Child(p) # At(p) /\ Child(p) # Root /\ ~Kept(Child(p))
  BY <1>2, ChildName DEF Placed, Kept
<1>6. Bad(At(p)) /\ Kept(At(p)) /\ Child(p) = Append(At(p), NextOf(At(p)))
  BY <1>1, <1>2 DEF Pursued, Child
<1>7. /\ Root' = Root
      /\ \A n : n # Child(p) /\ Bad(n) => Bad(n)' /\ Seen(n)' = Seen(n) /\ NextOf(n)' = NextOf(n)
      /\ \A n : Kept(n)' <=> Kept(n)
  <2>1. Root' = Root
    BY <1>4 DEF Root
  <2>2. ASSUME NEW n, n # Child(p), Bad(n)
        PROVE  Bad(n)' /\ Seen(n)' = Seen(n) /\ NextOf(n)' = NextOf(n)
    <3>1. Seen(n)' = Seen(n)
      BY <1>4, <2>2 DEF Seen, Bad
    <3>2. QED
      BY <1>4, <2>2, <3>1 DEF Bad, NextOf
  <2>3. QED
    BY <1>2, <1>4, <2>1, <2>2 DEF Kept
<1>8. \A q \in Callers : caller'[q].pc = "save" => q = p
  <2>1. \A q \in Callers : caller[q].pc = "save" => q = p
    BY <1>2, Alone
  <2>2. QED
    BY <1>3, <2>1
<1>9. Chained'
  <2>1. PICK t \in DOMAIN snap : Top(t)
    BY <1>1 DEF Chained
  <2>2. \A n \in DOMAIN snap \ {t} : n # Child(p)
    BY <1>5, <2>1 DEF Top
  <2>4. CASE Child(p) = t
    <3>1. ~(handoffs > 0)
      BY <1>5, <2>1, <2>4 DEF Top
    <3>2. Top(t)'
      BY <1>3, <1>4, <1>7, <1>8, <2>1, <2>2, <2>4, <3>1 DEF Top
    <3>3. QED
      BY <1>4, <2>1, <3>2 DEF Chained
  <2>5. CASE Child(p) # t
    <3>1. At(p) = t
      <4>1. SUFFICES ASSUME At(p) # t PROVE FALSE
        OBVIOUS
      <4>2. Child(p) \in DOMAIN snap
        BY <1>1, <1>2, <2>1, <4>1, DispatchesTop
      <4>3. QED
        BY <2>2, <2>5, <4>2
    <3>2. ~(handoffs > 0)
      BY <1>1, <1>2, <2>1, <3>1 DEF Top, Pursued
    <3>3. alive = {}
      BY <1>6, <2>1, <3>1 DEF Top, Bad
    <3>4. \A n \in DOMAIN snap :
            Bad(n) /\ Kept(n) /\ Append(n, NextOf(n)) \in DOMAIN snap \cup {Child(p)}
      BY <1>6, <2>1, <3>1 DEF Top
    <3>5. \A n \in DOMAIN snap' \ {Child(p)} :
            Bad(n)' /\ Kept(n)' /\ Append(n, NextOf(n)') \in DOMAIN snap'
      BY <1>4, <1>7, <3>4
    <3>6. Top(Child(p))'
      BY <1>3, <1>4, <1>8, <3>2, <3>3, <3>5 DEF Top
    <3>7. QED
      BY <1>3, <1>4, <3>6 DEF Chained
  <2>6. QED
    BY <2>4, <2>5
<1>10. Bad(Root)'
  BY <1>1, <1>2, <1>5, <1>7 DEF Pursued
<1>11. ASSUME NEW q \in Callers
       PROVE  /\ (caller[q].pc = "reassign" \/ Dispatch(q) => Bad(At(q)) /\ Kept(At(q)))'
              /\ (caller[q].pc = "reassign" => caller[q].cause = Seen(At(q)))'
              /\ (Dispatch(q) => caller[q].next = NextOf(At(q)))'
              /\ (caller[q].pc \in {"follow", "poll"} => Kept(At(q)))'
  <2>1. CASE q = p
    BY <1>1, <1>2, <1>3, <1>5, <1>6, <1>7, <2>1 DEF At, Pursued
  <2>2. CASE q # p
    <3>1. caller'[q] = caller[q]
      BY <1>3, <2>2
    <3>2. At(q)' = At(q) /\ (Dispatch(q)' <=> Dispatch(q))
      BY <3>1 DEF At, Dispatch
    <3>3. CASE caller[q].pc = "reassign" \/ Dispatch(q)
      <4>1. Bad(At(q)) /\ Kept(At(q)) /\ At(q) # Child(p)
        BY <1>1, <1>5, <3>3 DEF Pursued
      <4>2. QED
        BY <1>1, <1>7, <3>1, <3>2, <4>1 DEF Pursued
    <3>4. CASE ~(caller[q].pc = "reassign" \/ Dispatch(q))
      BY <1>1, <1>7, <3>1, <3>2, <3>4 DEF Pursued
    <3>5. QED
      BY <3>3, <3>4
  <2>3. QED
    BY <2>1, <2>2
<1>12. QED
  BY <1>9, <1>10, <1>11 DEF Pursued

(* The team file of the new team is there, now or before.                  *)
LEMMA FollowReplacing ==
  ASSUME TypeOK, Placed, Replacing, NEW p \in Callers, Dispatch(p), caller[p].pc \in Within,
         caller'[p].pc = "follow", caller'[p].at = Child(p), caller'[p].aim = "none",
         \A q \in Callers : q # p => caller'[q] = caller[q],
         UNCHANGED <<scene, snap, alive, handoffs, alarmed>>, UNCHANGED answer,
         file \subseteq file', Child(p) \in file'
  PROVE  Replacing'
<1>1. SUFFICES ASSUME ~alarmed', Chained, Pursued
               PROVE  Chained' /\ Pursued'
  BY DEF Replacing
<1>2. /\ Root' = Root
      /\ \A n : Seen(n)' = Seen(n) /\ (Bad(n)' <=> Bad(n)) /\ NextOf(n)' = NextOf(n)
      /\ \A n : Kept(n) => Kept(n)'
  BY LinksStay DEF answer, Completed
<1>3. Chained'
  <2>1. PICK t \in DOMAIN snap : Top(t)
    BY <1>1 DEF Chained
  <2>2. \A q \in Callers : caller'[q].pc = "save" => caller[q].pc = "save" /\ Child(q)' = Child(q)
    BY DEF Child, At
  <2>3. Top(t)'
    BY <1>2, <2>1, <2>2 DEF Top
  <2>4. QED
    BY <2>1, <2>3 DEF Chained
<1>4. Bad(Root)'
  BY <1>1, <1>2 DEF Pursued
<1>5. ASSUME NEW q \in Callers
      PROVE  /\ (caller[q].pc = "reassign" \/ Dispatch(q) => Bad(At(q)) /\ Kept(At(q)))'
             /\ (caller[q].pc = "reassign" => caller[q].cause = Seen(At(q)))'
             /\ (Dispatch(q) => caller[q].next = NextOf(At(q)))'
             /\ (caller[q].pc \in {"follow", "poll"} => Kept(At(q)))'
  <2>1. CASE q = p
    BY <2>1 DEF Dispatch, At, Kept
  <2>2. CASE q # p
    <3>1. caller'[q] = caller[q]
      BY <2>2
    <3>2. QED
      BY <1>1, <1>2, <3>1 DEF Pursued, At, Dispatch
  <2>3. QED
    BY <2>1, <2>2
<1>6. QED
  BY <1>3, <1>4, <1>5 DEF Pursued

(* A session dies between the launch and the team file, or fails there:    *)
(* what it launched is nobody's any more.                                  *)
LEMMA UnlaunchReplacing ==
  ASSUME Replacing, NEW p \in Callers, caller[p].pc = "save", caller'[p].pc # "save",
         \A q \in Callers : Onward(q),
         \A q \in Callers : q # p => caller'[q] = caller[q],
         UNCHANGED <<scene, snap, file, handoffs>>, alive' \subseteq alive,
         alarmed' = alarmed, Completed' <=> Completed
  PROVE  Replacing'
<1>1. SUFFICES ASSUME ~alarmed', Chained, Pursued
               PROVE  Chained' /\ Pursued'
  BY DEF Replacing
<1>2. /\ Root' = Root /\ \A m : Kept(m)' <=> Kept(m)
      /\ \A m : Bad(m) => Bad(m)' /\ Seen(m)' = Seen(m) /\ NextOf(m)' = NextOf(m)
  BY DEF Root, Kept, Bad, Seen, NextOf
<1>3. Chained'
  <2>1. PICK t \in DOMAIN snap : Top(t)
    BY <1>1 DEF Chained
  <2>2. \A q \in Callers : caller'[q].pc = "save" => caller[q].pc = "save" /\ Child(q)' = Child(q)
    BY DEF Child, At
  <2>3. Top(t)'
    BY <1>2, <2>1, <2>2 DEF Top
  <2>4. QED
    BY <2>1, <2>3 DEF Chained
<1>4. Bad(Root)'
  BY <1>1, <1>2 DEF Pursued
<1>5. ASSUME NEW q \in Callers
      PROVE  /\ (caller[q].pc = "reassign" \/ Dispatch(q) => Bad(At(q)) /\ Kept(At(q)))'
             /\ (caller[q].pc = "reassign" => caller[q].cause = Seen(At(q)))'
             /\ (Dispatch(q) => caller[q].next = NextOf(At(q)))'
             /\ (caller[q].pc \in {"follow", "poll"} => Kept(At(q)))'
  BY <1>1, <1>2 DEF Onward, Pursued, At, Dispatch
<1>6. QED
  BY <1>3, <1>4, <1>5 DEF Pursued

LEMMA ReplacingStep ==
  ASSUME ScenesAssumption, IInv, Next
  PROVE  Replacing'
<1> USE DEF IInv
<1>1. ASSUME NEW p \in Callers, Step(p) \/ LockTimeout(p) \/ SessionDies(p)
      PROVE  Calm \/ Replacing'
  <2>1. CASE Monitor(p)
    <3>1. Looking(p, Root) /\ UNCHANGED work /\ (alarmed => alarmed') /\ UNCHANGED answer
      BY <2>1, MonitorDoes DEF Monitor
    <3>2. QED
      BY <3>1, LookReplacing DEF Kept, TypeOK, Worktree
  <2>2. CASE ShutdownChildren(p)
    BY <2>2, ShutdownReplacing
  <2>3. CASE Reassign(p)
    BY <2>3, ReassignReplacing
  <2>4. CASE FirstLook(p) \/ TaskEnds(p) \/ LockTimeout(p)
    BY <2>4, FirstLookDoes, TaskEndsDoes, LockTimeoutDoes
  <2>5. CASE Locking(p)
    BY <2>5, LinkLockDoes, SeeDeadOwnerDoes, ClaimDoes, RecheckDoes, UnlinkDoes, ReleaseDoes
    DEF Locking
  <2>6. CASE ClaimTask(p)
    BY <2>6, ClaimReplacing
  <2>7. CASE PromoteOutput(p) \/ LeaveTask(p)
    BY <2>7, PromoteOutputDoes, LeaveTaskDoes
  <2>8. CASE SpawnTeam(p)
    BY <2>8, SpawnReplacing
  <2>9. CASE SaveTeam(p)
    <3>1. Dispatch(p) /\ caller[p].pc \in Within
      BY <2>9 DEF SaveTeam, Placed, Dispatch
    <3>2. /\ caller'[p].pc = "follow" /\ caller'[p].at = Child(p) /\ caller'[p].aim = "none"
          /\ \A q \in Callers : q # p => caller'[q] = caller[q]
      BY <2>9, SaveTeamDoes
    <3>3. /\ UNCHANGED <<scene, snap, alive, handoffs, alarmed>> /\ UNCHANGED answer
          /\ file' = file \cup {Child(p)}
      BY <2>9 DEF SaveTeam, answer, fate
    <3>4. QED
      BY <3>1, <3>2, <3>3, FollowReplacing
  <2>10. CASE ReuseTeam(p)
    <3>1. Dispatch(p) /\ caller[p].pc \in Within
      BY <2>10 DEF ReuseTeam, ToTeam, Inside, Dispatch
    <3>2. /\ UNCHANGED <<scene, snap, alive, handoffs, alarmed>> /\ UNCHANGED answer
          /\ file' = file
      BY <2>10 DEF ReuseTeam, work, answer, fate
    <3>3. QED
      BY <2>10, <3>1, <3>2, ReuseTeamDoes, FollowReplacing
  <2>11. CASE Completing(p)
    BY <2>11, KeepAnswerDoes, WriteAnswerDoes, WriteRecordDoes, LeaseLostDoes DEF Completing
  <2>12. CASE Poll(p)
    <3>1. Found(p) /\ UNCHANGED answer /\ caller[p].pc = "poll"
      BY <2>12, PollDoes DEF Poll
    <3>2. CASE At(p) \in file /\ Looking(p, At(p))
      BY <3>1, <3>2, LookReplacing DEF Found, Kept, TypeOK, Worktree
    <3>3. QED
      BY <3>1, <3>2 DEF Found
  <2>13. CASE SessionDies(p)
    <3>1. alive' \subseteq alive /\ UNCHANGED <<scene, snap, file, alarmed>> /\ UNCHANGED answer
      BY <2>13 DEF SessionDies
    <3>2. CASE caller[p].pc = "save"
      BY <2>13, <3>1, <3>2, SessionDiesDoes, UnlaunchReplacing DEF answer, Completed
    <3>3. QED
      BY <2>13, <3>2, SessionDiesDoes
  <2>14. CASE SpawnRefused(p)
    BY <2>14, SpawnRefusedDoes
  <2>15. CASE SpawnFails(p)
    <3>1. /\ alive' \subseteq alive /\ UNCHANGED <<scene, snap, file, alarmed>>
          /\ UNCHANGED answer /\ caller[p].pc = "save"
      BY <2>15 DEF SpawnFails, fate
    <3>2. QED
      BY <2>15, <3>1, SpawnFailsDoes, UnlaunchReplacing DEF answer, Completed
  <2>16. QED
    BY <1>1, <2>1, <2>2, <2>3, <2>4, <2>5, <2>6, <2>7, <2>8, <2>9, <2>10, <2>11, <2>12,
       <2>13, <2>14, <2>15
    DEF Step, Dispatching
<1>2. ASSUME NEW n \in alive, WorkerEnds(n) \/ WorkerDies(n)
      PROVE  Replacing'
  <2>1. /\ scene' = scene /\ caller' = caller /\ file' = file /\ UNCHANGED answer
        /\ alarmed' = alarmed /\ DOMAIN snap' = DOMAIN snap /\ alive' = alive \ {n}
        /\ \A m \in DOMAIN snap : m # n => snap'[m] = snap[m]
    BY <1>2 DEF WorkerEnds, WorkerDies, fate
  <2>2. handoffs' = handoffs /\ (Completed <=> Completed')
    BY <2>1 DEF answer, Completed
  <2>3. QED
    BY <2>1, <2>2, EndReplacing
<1>3. StrayEnds => Calm
  BY StrayEndsDoes
<1>4. QED
  BY <1>1, <1>2, <1>3, CalmReplacing, SceneType DEF Next, TypeOK

----------------------------------------------------------------------------
(* The theorems                                                            *)

LEMMA InitIInv ==
  ASSUME ScenesAssumption, Init
  PROVE  IInv
<1>1. Root \in Seq(Attempts) /\ Root # <<>>
  <2>1. Attempt(scene.prov, 0, 0) \in Attempts
    BY DEF Init, ScenesAssumption, Attempt, Attempts
  <2>2. QED
    BY <2>1 DEF Root
<1>2. Worktree
  BY <1>1 DEF Init, Worktree
<1>3. Answer /\ Lives
  <2>1. Answer
    BY DEF Init, Answer, NoClaim
  <2>2. DOMAIN claims = {} /\ claims \in [DOMAIN claims -> Seq(Owners)]
    BY DEF Init
  <2>3. session \in [Callers -> Nat \ {0}] /\ DOMAIN claims \subseteq Owners
    BY <2>2 DEF Init
  <2>4. lock \in Owners \cup {Nobody} /\ alarmed \in BOOLEAN /\ mishaps \in Nat
    BY DEF Init
  <2>5. QED
    BY <2>1, <2>2, <2>3, <2>4 DEF Lives
<1>4. Seated /\ \A p \in Callers : caller[p].pc = "idle" /\ caller[p].aim = "none"
  <2>1. Idle \in Seats /\ Idle.pc = "idle" /\ Idle.aim = "none"
    BY DEF Idle, Seats, NoAttempt, Attempt, Attempts
  <2>2. QED
    BY <2>1 DEF Init, Seated
<1>5. Placed
  BY <1>1, <1>4 DEF Init, Placed, Dispatch
<1>6. Locked /\ Recorded
  BY <1>4 DEF Init, Locked, Recorded, Native
<1>7. Chained
  <2>1. Top(Root)
    BY <1>4 DEF Init, Top
  <2>2. QED
    BY <2>1 DEF Init, Chained
<1>8. Pursued
  BY <1>4 DEF Init, Pursued, Dispatch
<1>9. QED
  BY <1>2, <1>3, <1>4, <1>5, <1>6, <1>7, <1>8 DEF IInv, TypeOK, Replacing

LEMMA StepIInv ==
  ASSUME ScenesAssumption, IInv, [Next]_vars
  PROVE  IInv'
<1>1. CASE Next
  BY <1>1, PlacedStep, LockedStep, RecordedStep, ReplacingStep, CalmPlaced DEF IInv
<1>2. CASE UNCHANGED vars
  BY <1>2, NothingDoes, CalmPlaced, FreeLocked, MuteRecorded, CalmReplacing DEF IInv
<1>3. QED
  BY <1>1, <1>2

(* A native task begins with its claim.                                    *)
LEMMA TasksStep ==
  ASSUME ScenesAssumption, IInv, Next
  PROVE  \A q \in Callers : caller'[q].pc = "task" => caller[q].pc \in {"begin", "task"}
<1> USE DEF IInv
<1> DEFINE Begins(q) == caller'[q].pc = "task" => caller[q].pc \in {"begin", "task"}
<1>1. Calm => \A q \in Callers : Begins(q)
  BY DEF Calm, Onward
<1>2. ASSUME NEW p \in Callers, Step(p) \/ LockTimeout(p) \/ SessionDies(p)
      PROVE  \A q \in Callers : Begins(q)
  <2>1. CASE Monitor(p) \/ Poll(p)
    BY <1>1, <2>1, MonitorDoes, PollDoes DEF Found, Looking
  <2>2. CASE ShutdownChildren(p) \/ SessionDies(p) \/ Reassign(p)
    BY <2>2, ShutdownChildrenDoes, SessionDiesDoes, ReassignDoes DEF Onward
  <2>3. CASE FirstLook(p) \/ TaskEnds(p) \/ LockTimeout(p) \/ Locking(p)
    BY <1>1, <2>3, FirstLookDoes, TaskEndsDoes, LockTimeoutDoes, LinkLockDoes, SeeDeadOwnerDoes,
       ClaimDoes, RecheckDoes, UnlinkDoes, ReleaseDoes
    DEF Locking
  <2>4. CASE Dispatching(p)
    BY <1>1, <2>4, ClaimTaskDoes, PromoteOutputDoes, LeaveTaskDoes, SpawnTeamDoes,
       SpawnRefusedDoes, SpawnFailsDoes, SaveTeamDoes, ReuseTeamDoes
    DEF Dispatching
  <2>5. CASE Completing(p)
    BY <1>1, <2>5, KeepAnswerDoes, WriteAnswerDoes, WriteRecordDoes, LeaseLostDoes DEF Completing
  <2>6. QED
    BY <1>2, <2>1, <2>2, <2>3, <2>4, <2>5 DEF Step
<1>3. ASSUME NEW n \in alive, WorkerEnds(n) \/ WorkerDies(n)
      PROVE  \A q \in Callers : Begins(q)
  BY <1>3, WorkerEndsDoes, WorkerDiesDoes
<1>4. StrayEnds => \A q \in Callers : Begins(q)
  BY <1>1, StrayEndsDoes
<1>5. QED
  BY <1>2, <1>3, <1>4, SceneType DEF Next, TypeOK

(* The inductive invariant holds, whatever the scenes.                     *)
THEOREM FallbackInvariant == ASSUME ScenesAssumption PROVE Spec => []IInv
<1>1. Init => IInv
  BY InitIInv
<1>2. IInv /\ [Next]_vars => IInv'
  BY StepIInv
<1>3. QED
  BY <1>1, <1>2, PTL DEF Spec

(* Every variable keeps its type.                                          *)
THEOREM FallbackTypeCorrect == ASSUME ScenesAssumption PROVE Spec => []TypeOK
<1>1. IInv => TypeOK
  BY DEF IInv
<1>2. QED
  BY <1>1, FallbackInvariant, PTL

(* At most one caller at a time is in the part of a handoff that           *)
(* dispatches and completes (withFallbackLock, acquireRecoveryClaim).      *)
THEOREM FallbackOneInside == ASSUME ScenesAssumption PROVE Spec => []OneInside
<1>1. IInv => OneInside
  BY Alone DEF IInv, OneInside
<1>2. QED
  BY <1>1, FallbackInvariant, PTL

(* One agent at a time works for the failed worker: a worker, a            *)
(* replacement team or a native task (reassignProvider,                    *)
(* dispatchProviderFallback).                                              *)
THEOREM FallbackOneReplacement == ASSUME ScenesAssumption PROVE Spec => []OneReplacement
<1>1. ASSUME IInv, ~alarmed
      PROVE  Cardinality(alive) + Cardinality(Tasks) <= 1
  <2>1. PICK t \in DOMAIN snap : Top(t)
    BY <1>1 DEF IInv, Replacing, Chained
  <2>2. alive = {} \/ alive = {t}
    BY <2>1 DEF Top
  <2>3. ASSUME NEW p \in Tasks
        PROVE  Tasks = {p} /\ alive = {}
    <3>1. p \in Callers /\ Native(p) /\ \A q \in Tasks : q \in Callers /\ Native(q)
      BY DEF Tasks, Native
    <3>2. handoffs > 0 /\ \A q \in Tasks : q = p
      BY <1>1, <3>1 DEF IInv, Recorded
    <3>3. t \notin alive
      BY <2>1, <3>2 DEF Top, Bad
    <3>4. QED
      BY <2>2, <3>2, <3>3
  <2>4. /\ Cardinality({}) = 0 /\ \A x : Cardinality({x}) = 1
    BY FS_EmptySet, FS_Singleton
  <2>5. CASE Tasks = {}
    BY <2>2, <2>4, <2>5
  <2>6. CASE Tasks # {}
    <3>1. PICK p \in Tasks : TRUE
      BY <2>6
    <3>2. Cardinality(Tasks) = 1 /\ Cardinality(alive) = 0
      BY <2>3, <2>4, <3>1
    <3>3. QED
      BY <3>2
  <2>7. QED
    BY <2>5, <2>6
<1>2. IInv => OneReplacement
  BY <1>1 DEF OneReplacement
<1>3. QED
  BY <1>2, FallbackInvariant, PTL

(* Once the answer is there, nobody is launched and no native task begins  *)
(* (the second look under the lock).                                       *)
THEOREM FallbackNoWorkAfterAnswer == ASSUME ScenesAssumption PROVE Spec => NoWorkAfterAnswer
<1>1. ASSUME IInv, Next, Completed
      PROVE  alive' \subseteq alive /\ Tasks' \subseteq Tasks
  <2>1. alive' \subseteq alive
    BY <1>1, ZenonT(40) DEF Next, Step, Locking, Dispatching, Completing, Monitor, ShutdownChildren,
       Reassign, FirstLook, LinkLock, SeeDeadOwner, Claim, Recheck, Unlink, Release,
       ClaimTask, PromoteOutput, LeaveTask, SpawnTeam, SpawnRefused, SpawnFails, SaveTeam,
       ReuseTeam, KeepAnswer, WriteAnswer, WriteRecord, LeaseLost, Poll, TaskEnds, LockTimeout, SessionDies,
       WorkerEnds, WorkerDies, StrayEnds, work
  <2>2. \A q \in Callers : caller'[q].pc = "task" => caller[q].pc \in {"begin", "task"}
    BY <1>1, TasksStep
  <2>3. \A q \in Callers : caller[q].pc # "begin"
    <3>1. record.status = "completed"
      BY <1>1 DEF Completed
    <3>2. QED
      BY <1>1, <3>1 DEF IInv, Recorded
  <2>4. QED
    BY <2>1, <2>2, <2>3 DEF Tasks
<1>2. IInv /\ [Next]_vars => [Completed /\ ~alarmed => alive' \subseteq alive /\ Tasks' \subseteq Tasks]_vars
  BY <1>1
<1>3. QED
  <2>1. IInv /\ [Next]_vars => [Completed /\ ~alarmed => alive' \subseteq alive /\ Tasks' \subseteq Tasks]_<<alive, caller>>
    BY <1>2 DEF vars, work
  <2>2. QED
    BY <2>1, FallbackInvariant, PTL DEF Spec, NoWorkAfterAnswer

=============================================================================
